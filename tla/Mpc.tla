----------------------------------- MODULE Mpc -----------------------------------
(***************************************************************************)
(* MpcService (mpc/mpc.service.ts) with the rows MpcWallet                  *)
(* (mpc-wallet.entity.ts) and KeyShare (key-share.entity.ts): one wallet,   *)
(* the shares of its participants, signatures and revocations.  One step    *)
(* per awaited call.                                                        *)
(*                                                                          *)
(*   mpcWallet   the wallet's row: status and threshold scheme              *)
(*   shares      per participant, the status of the key share               *)
(*   mpcJob      per caller: the call it awaits next, and its copies        *)
(*   revoked     the participants whose revocation has returned             *)
(*   misused     the revoked participants a later signature still used      *)
(*   mpcFaults, mpcOverlaps, mpcOps   as in Lending                         *)
(***************************************************************************)
EXTENDS Naturals, FiniteSets

CONSTANTS MpcCallers,     \* concurrent requests
          Schemes,        \* the schemes clients choose from
          MaxMpcFaults, MaxMpcOps

ASSUME MpcAssumption ==
    Schemes \subseteq {"2-of-3", "3-of-5", "4-of-7"} /\ MaxMpcFaults \in Nat

VARIABLES mpcWallet, shares, mpcJob, revoked, misused, mpcFaults, mpcOverlaps, mpcOps

mpcVars == <<mpcWallet, shares, mpcJob, revoked, misused, mpcFaults, mpcOverlaps, mpcOps>>

\* "disabled" and "creating" exist but are never assigned.
MpcWalletStatus == {"none", "active", "recovering"}

ThresholdScheme == {"2-of-3", "3-of-5", "4-of-7"}

KeyShareStatus == {"none", "active", "revoked"}

GetThresholdParameters(scheme) ==
    CASE scheme = "2-of-3" -> [totalShares |-> 3, threshold |-> 2]
      [] scheme = "3-of-5" -> [totalShares |-> 5, threshold |-> 3]
      [] scheme = "4-of-7" -> [totalShares |-> 7, threshold |-> 4]

Participants == 0 .. 6

MpcWallet == [status : MpcWalletStatus, scheme : ThresholdScheme]

KeyShares == [Participants -> KeyShareStatus]

NoShares == [p \in Participants |-> "none"]

\* The copies of a request: the wallet with its shares, and the share revoked.
MpcIdle == [next |-> "idle", wallet |-> [status |-> "none", scheme |-> "2-of-3"],
            shares |-> NoShares, used |-> {}, share |-> 0, since |-> {}]

MpcTypeOK ==
    /\ mpcWallet \in MpcWallet /\ shares \in KeyShares
    /\ \A c \in MpcCallers :
         /\ mpcJob[c].next \in {"idle", "saveShares", "reload", "saveUsage", "saveShare",
                                "saveWallet"}
         /\ mpcJob[c].shares \in KeyShares
    /\ revoked \subseteq Participants /\ misused \subseteq revoked
    /\ mpcFaults \in 0 .. MaxMpcFaults /\ mpcOverlaps \in BOOLEAN

MpcInit ==
    /\ mpcWallet = MpcIdle.wallet /\ shares = NoShares
    /\ mpcJob = [c \in MpcCallers |-> MpcIdle]
    /\ revoked = {} /\ misused = {} /\ mpcFaults = 0 /\ mpcOverlaps = FALSE /\ mpcOps = 0

-----------------------------------------------------------------------------

Members(scheme) == 0 .. GetThresholdParameters(scheme).totalShares - 1

Threshold(wallet) == GetThresholdParameters(wallet.scheme).threshold

ActiveShares(s) == {p \in Participants : s[p] = "active"}

MpcBegin(c, job) ==
    /\ mpcJob[c].next = "idle"
    /\ mpcJob' = [mpcJob EXCEPT ![c] = job]
    /\ mpcOverlaps' = (mpcOverlaps \/ \E d \in MpcCallers : mpcJob[d].next # "idle")
    /\ mpcOps' = mpcOps + 1

\* The awaited save is done, or rejected, which ends the request.
MpcSave(c, step, write, next) ==
    /\ mpcJob[c].next = step
    /\ \/ /\ write /\ UNCHANGED mpcFaults
          /\ mpcJob' = [mpcJob EXCEPT ![c] = IF next = "idle" THEN MpcIdle
                                             ELSE [@ EXCEPT !.next = next]]
       \/ /\ mpcFaults' = mpcFaults + 1
          /\ mpcJob' = [mpcJob EXCEPT ![c] = MpcIdle]
          /\ UNCHANGED <<mpcWallet, shares, revoked, misused>>
    /\ UNCHANGED <<mpcOverlaps, mpcOps>>

\* The wallet is saved ACTIVE, before its shares; a scheme fixes the number of
\* participants.
CreateMpcWallet(c) ==
    \E scheme \in Schemes :
        /\ mpcWallet.status = "none"
        /\ MpcBegin(c, [MpcIdle EXCEPT !.next = "saveShares",
                                       !.wallet = [status |-> "active", scheme |-> scheme]])
        /\ mpcWallet' = mpcJob'[c].wallet
        /\ UNCHANGED <<shares, revoked, misused, mpcFaults>>

\* One save of all the shares: with two of one participant the unique index
\* refuses all of them.
SaveShares(c) ==
    MpcSave(c, "saveShares",
            /\ shares' = [p \in Participants |->
                            IF p \in Members(mpcJob[c].wallet.scheme) THEN "active" ELSE "none"]
            /\ UNCHANGED <<mpcWallet, revoked, misused>>, "reload")

ReloadWallet(c) ==
    MpcSave(c, "reload", UNCHANGED <<mpcWallet, shares, revoked, misused>>, "idle")

\* The wallet and its shares are loaded, checked, and the signature is computed
\* without a wait.  The threshold counts what the client lists: a participant
\* listed twice counts twice.
SignTransaction(c) ==
    \E used \in SUBSET ActiveShares(shares) \ {{}} :
        /\ mpcWallet.status = "active"
        /\ MpcBegin(c, [MpcIdle EXCEPT !.next = "saveUsage", !.wallet = mpcWallet,
                          !.shares = shares, !.used = used, !.since = revoked])
        /\ UNCHANGED <<mpcWallet, shares, revoked, misused, mpcFaults>>

\* The copies of the shares used are saved whole, their status with them; then
\* the signature is returned.
UpdateShareUsage(c) ==
    LET job == mpcJob[c]
    IN  MpcSave(c, "saveUsage",
                /\ shares' = [p \in Participants |-> IF p \in job.used THEN job.shares[p]
                                                     ELSE shares[p]]
                /\ misused' = misused \cup (job.used \cap job.since)
                /\ UNCHANGED <<mpcWallet, revoked>>, "idle")

\* The wallet with its shares and, in another query, the share.
RevokeKeyShare(c) ==
    \E p \in Participants :
        /\ mpcWallet.status # "none" /\ shares[p] = "active"
        /\ MpcBegin(c, [MpcIdle EXCEPT !.next = "saveShare", !.wallet = mpcWallet,
                                       !.shares = shares, !.share = p])
        /\ UNCHANGED <<mpcWallet, shares, revoked, misused, mpcFaults>>

\* Mutant: the count forgets the share just revoked.
CanSignAfterForgotten(job) == Cardinality(ActiveShares(job.shares)) >= Threshold(job.wallet)

\* Counted in the copies loaded before.
CanSignAfter(job) == Cardinality(ActiveShares(job.shares)) - 1 >= Threshold(job.wallet)

SaveRevoked(c) ==
    LET job == mpcJob[c]
    IN  MpcSave(c, "saveShare",
                /\ shares' = [shares EXCEPT ![job.share] = "revoked"]
                /\ revoked' = IF CanSignAfter(job) THEN revoked \cup {job.share} ELSE revoked
                /\ UNCHANGED <<mpcWallet, misused>>,
                IF CanSignAfter(job) THEN "idle" ELSE "saveWallet")

\* The save cascades to the copies of the shares, among them the one just
\* revoked as it was loaded: it is active again.
SaveRecovering(c) ==
    LET job == mpcJob[c]
    IN  MpcSave(c, "saveWallet",
                /\ mpcWallet' = [job.wallet EXCEPT !.status = "recovering"]
                /\ shares' = job.shares
                /\ revoked' = revoked \cup {job.share}
                /\ UNCHANGED misused, "idle")

MpcSteps ==
    \E c \in MpcCallers :
        \/ CreateMpcWallet(c) \/ SaveShares(c) \/ ReloadWallet(c)
        \/ SignTransaction(c) \/ UpdateShareUsage(c)
        \/ RevokeKeyShare(c) \/ SaveRevoked(c) \/ SaveRecovering(c)

\* Within the bounds of a run.
MpcNext ==
    /\ MpcSteps
    /\ mpcOps' <= MaxMpcOps /\ mpcFaults' <= MaxMpcFaults
    /\ mpcOverlaps' => mpcFaults' = 0

-----------------------------------------------------------------------------

\* While requests do not overlap no signature uses a share whose revocation has
\* returned.  Without faults too, a wallet that may sign has as many active
\* shares as its scheme asks for, exactly those not revoked; one that may not has
\* fewer, though the row of the last share revoked says otherwise.
RevocationsHold ==
    ~mpcOverlaps =>
      /\ misused = {}
      /\ (mpcFaults = 0 /\ \A c \in MpcCallers : mpcJob[c].next = "idle") =>
           LET left == Members(mpcWallet.scheme) \ revoked
           IN  CASE mpcWallet.status = "none" -> revoked = {}
                 [] mpcWallet.status = "active" ->
                      /\ ActiveShares(shares) = left
                      /\ Cardinality(left) >= Threshold(mpcWallet)
                 [] mpcWallet.status = "recovering" ->
                      /\ Cardinality(left) < Threshold(mpcWallet)
                      /\ left \subseteq ActiveShares(shares)
=============================================================================
