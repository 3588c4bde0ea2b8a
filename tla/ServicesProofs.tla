------------------------------ MODULE ServicesProofs ------------------------------
(***************************************************************************)
(* Theorems about the services that decide who may sign and spend: the      *)
(* signatures of Signing, the key shares of Mpc, the daily limits of        *)
(* SmartAccounts, and the logins and API keys of Auth; about the            *)
(* endpoints of Network, the subscriptions of Events and the Caches; and    *)
(* about the types of all services of MCServices side by side.  Mpc,        *)
(* SmartAccounts and Auth are proved about their steps without the bounds   *)
(* of the runs, which only their types use.                                 *)
(***************************************************************************)
EXTENDS MCServices, ProgramsProofs, SequenceTheorems

SigningSpec == SigningInit /\ [][SigningNext]_signingVars

MpcSpec == MpcInit /\ [][MpcSteps]_mpcVars

SmartSpec == SmartInit /\ [][SmartSteps]_smartVars

AuthSpec == AuthInit /\ [][AuthSteps]_authVars

NetSpec == NetInit /\ [][NetNext]_netVars

EventsSpec == EventsInit /\ [][EventsNext]_eventVars

-----------------------------------------------------------------------------
(* Signatures                                                               *)

\* A list that names nobody twice: as many as its length.
Distinct(s) == IsFiniteSet(ToSet(s)) /\ Cardinality(ToSet(s)) = Len(s)

LEMMA OneMore ==
    ASSUME NEW s \in Seq(SignerKeys), NEW k \in SignerKeys
    PROVE  /\ Append(s, k) \in Seq(SignerKeys) /\ Len(Append(s, k)) = Len(s) + 1
           /\ ToSet(Append(s, k)) = ToSet(s) \cup {k}
           /\ Distinct(s) /\ k \notin ToSet(s) => Distinct(Append(s, k))
<1>1. /\ Append(s, k) \in Seq(SignerKeys) /\ Len(Append(s, k)) = Len(s) + 1
      /\ \A i \in 1 .. Len(s) : Append(s, k)[i] = s[i]
      /\ Append(s, k)[Len(s) + 1] = k
  BY AppendProperties
<1>2. Len(s) \in Nat /\ DOMAIN s = 1 .. Len(s) /\ DOMAIN Append(s, k) = 1 .. Len(s) + 1
  BY <1>1, LenProperties
<1>3. ToSet(Append(s, k)) = ToSet(s) \cup {k}
  BY <1>1, <1>2 DEF ToSet
<1>4. ASSUME Distinct(s), k \notin ToSet(s)
      PROVE  Distinct(Append(s, k))
  <2>1. /\ IsFiniteSet(ToSet(s) \cup {k})
        /\ Cardinality(ToSet(s) \cup {k}) =
             IF k \in ToSet(s) THEN Cardinality(ToSet(s)) ELSE Cardinality(ToSet(s)) + 1
    <3>1. IsFiniteSet(ToSet(s))
      BY <1>4 DEF Distinct
    <3> QED
      BY <3>1, FS_AddElement, Zenon
  <2> QED
    BY <1>1, <1>3, <1>4, <2>1 DEF Distinct
<1> QED
  BY <1>1, <1>3, <1>4

LEMMA NobodySigned == Distinct(<<>>) /\ ToSet(<<>>) = {} /\ Len(<<>>) = 0
BY FS_EmptySet DEF Distinct, ToSet

\* The types the other parts need.
SigningTypes ==
    /\ account.signers \subseteq SignerKeys
    /\ account.listed \in Nat /\ account.threshold \in Nat
    /\ account \in MultiSigConfig
    /\ multiSig \in [MultiSigTxs -> MultiSigTransaction]
    /\ executing \in [MultiSigTxs -> Nat]
    /\ offline \in [OfflineIds -> OfflineSigningRequest]
    /\ signatures \in [OfflineIds -> Nat]
    /\ transfers \in [Transfers -> [next : {"send", "save", "answered", "failed"},
                                    landed : BOOLEAN, row : BOOLEAN]]

\* Before the account there is no transaction; after it, the signatures of one
\* are of different signers, and enough of them once it may be executed.
CollectedBy(t) ==
    LET tx == multiSig[t]
    IN  /\ account.listed = 0 => tx.status = "none" /\ executing[t] = 0
        /\ tx.status = "none" => tx.collectedSignatures = <<>>
        /\ ToSet(tx.collectedSignatures) \subseteq account.signers
        /\ Distinct(tx.collectedSignatures)
        /\ tx.status = "ready" \/ executing[t] > 0
             => Len(tx.collectedSignatures) >= account.threshold

Collected == \A t \in MultiSigTxs : CollectedBy(t)

AnsweredOnce ==
    \A r \in OfflineIds : signatures[r] = IF offline[r].status = "signed" THEN 1 ELSE 0

SentOnes ==
    \A x \in Transfers : transfers[x].next = "save" \/ transfers[x].row => transfers[x].landed

SigningInv == SigningTypes /\ Collected /\ AnsweredOnce /\ SentOnes

LEMMA SigningStart == SigningInit => SigningInv
<1> SUFFICES ASSUME SigningInit
             PROVE  SigningInv
  OBVIOUS
<1>1. SigningTypes
  <2>1. <<>> \in Seq(SignerKeys) /\ SomeKey \in SignerKeys
    BY SigningAssumption DEF SomeKey
  <2> QED
    BY <2>1 DEF SigningInit, SigningTypes, MultiSigConfig, MultiSigTransaction,
                OfflineSigningRequest
<1>2. Collected
  BY NobodySigned DEF SigningInit, Collected, CollectedBy
<1>3. AnsweredOnce /\ SentOnes
  BY DEF SigningInit, AnsweredOnce, SentOnes
<1> QED
  BY <1>1, <1>2, <1>3 DEF SigningInv

LEMMA FailedType ==
    ASSUME SigningTypes, NEW t \in MultiSigTxs, multiSig' = multiSig \/ FailMultiSig(t)
    PROVE  multiSig' \in [MultiSigTxs -> MultiSigTransaction]
BY DEF SigningTypes, FailMultiSig, MultiSigTransaction

\* What was collected stays, and is no longer counted on.
LEMMA FailedStillCollected ==
    ASSUME SigningTypes, Collected, NEW t \in MultiSigTxs, multiSig[t].status # "none",
           FailMultiSig(t), account' = account, executing' = executing
    PROVE  Collected'
<1>1. /\ multiSig'[t].status = "failed"
      /\ multiSig'[t].collectedSignatures = multiSig[t].collectedSignatures
      /\ \A u \in MultiSigTxs \ {t} : multiSig'[u] = multiSig[u]
  BY DEF SigningTypes, FailMultiSig, MultiSigTransaction
<1>2. ASSUME NEW u \in MultiSigTxs
      PROVE  CollectedBy(u)'
  <2>1. CollectedBy(u) /\ CollectedBy(t)
    BY DEF Collected
  <2> QED
    BY <1>1, <2>1 DEF CollectedBy
<1> QED
  BY <1>2 DEF Collected

LEMMA SigningNextInv == SigningInv /\ [SigningNext]_signingVars => SigningInv'
<1> SUFFICES ASSUME SigningInv, [SigningNext]_signingVars
             PROVE  SigningInv'
  OBVIOUS
<1> USE DEF SigningInv
<1>1. CASE UNCHANGED signingVars
  BY <1>1 DEF signingVars, SigningTypes, Collected, CollectedBy, AnsweredOnce, SentOnes
<1>2. CASE CreateMultiSigAccount
  <2>1. SigningTypes'
    BY <1>2 DEF CreateMultiSigAccount, otherVars, SigningTypes, MultiSigConfig
  <2>2. Collected'
    BY <1>2, NobodySigned DEF CreateMultiSigAccount, SigningTypes, Collected, CollectedBy
  <2> QED
    BY <1>2, <2>1, <2>2 DEF CreateMultiSigAccount, otherVars, AnsweredOnce, SentOnes
<1>3. ASSUME NEW t \in MultiSigTxs, CreateMultiSigTransaction(t)
      PROVE  SigningInv'
  <2>1. SigningTypes'
    BY <1>3 DEF CreateMultiSigTransaction, otherVars, SigningTypes, MultiSigTransaction
  <2>2. Collected'
    BY <1>3 DEF CreateMultiSigTransaction, SigningTypes, MultiSigTransaction, Collected,
                CollectedBy
  <2> QED
    BY <1>3, <2>1, <2>2 DEF CreateMultiSigTransaction, otherVars, AnsweredOnce, SentOnes
<1>4. ASSUME NEW t \in MultiSigTxs, ExecuteMultiSigTransaction(t)
      PROVE  SigningInv'
  <2>1. SigningTypes'
    <3>1. UNCHANGED <<account, offline, signatures, transfers>>
      BY <1>4 DEF ExecuteMultiSigTransaction, otherVars
    <3>2. multiSig' = multiSig \/ FailMultiSig(t)
      BY <1>4 DEF ExecuteMultiSigTransaction
    <3>3. multiSig' \in [MultiSigTxs -> MultiSigTransaction]
      BY <3>2, FailedType
    <3>4. executing' \in [MultiSigTxs -> Nat]
      BY <1>4 DEF ExecuteMultiSigTransaction, SigningTypes
    <3> QED
      BY <3>1, <3>3, <3>4 DEF SigningTypes
  <2>2. Collected'
    <3>1. account' = account
      BY <1>4 DEF ExecuteMultiSigTransaction
    <3>2. CASE /\ multiSig[t].status = "ready" /\ multiSig' = multiSig
               /\ executing' = [executing EXCEPT ![t] = @ + 1]
      BY <3>1, <3>2 DEF SigningTypes, Collected, CollectedBy
    <3>3. CASE FailMultiSig(t) /\ executing' = executing
      BY <1>4, <3>1, <3>3, FailedStillCollected
         DEF ExecuteMultiSigTransaction
    <3> QED
      BY <1>4, <3>2, <3>3 DEF ExecuteMultiSigTransaction
  <2>3. AnsweredOnce' /\ SentOnes'
    <3>1. offline' = offline /\ signatures' = signatures /\ transfers' = transfers
      BY <1>4 DEF ExecuteMultiSigTransaction, otherVars
    <3> QED
      BY <3>1 DEF AnsweredOnce, SentOnes
  <2> QED
    BY <2>1, <2>2, <2>3
<1>5. ASSUME NEW t \in MultiSigTxs, ExecutionFails(t)
      PROVE  SigningInv'
  <2>1. SigningTypes'
    <3>1. UNCHANGED <<account, offline, signatures, transfers>>
      BY <1>5 DEF ExecutionFails, otherVars
    <3>2. multiSig' \in [MultiSigTxs -> MultiSigTransaction]
      BY <1>5, FailedType DEF ExecutionFails
    <3>3. executing' \in [MultiSigTxs -> Nat]
      BY <1>5 DEF ExecutionFails, SigningTypes
    <3> QED
      BY <3>1, <3>2, <3>3 DEF SigningTypes
  <2>2. Collected'
    BY <1>5 DEF ExecutionFails, FailMultiSig, SigningTypes, MultiSigTransaction, Collected,
                CollectedBy
  <2> QED
    BY <1>5, <2>1, <2>2 DEF ExecutionFails, otherVars, AnsweredOnce, SentOnes
<1>6. ASSUME NEW t \in MultiSigTxs, NEW k \in SignerKeys, SignMultiSigTransaction(t, k)
      PROVE  SigningInv'
  <2> DEFINE s == multiSig[t].collectedSignatures
             more == Append(s, k)
  <2>1. /\ s \in Seq(SignerKeys) /\ multiSig[t].status = "pending"
        /\ k \in account.signers /\ k \notin ToSet(s)
        /\ UNCHANGED <<account, executing, offline, signatures, transfers>>
    BY <1>6 DEF SignMultiSigTransaction, AlreadySigned, otherVars, SigningTypes,
                MultiSigTransaction
  <2>2. multiSig' = [multiSig EXCEPT ![t] =
          [status |-> IF Len(more) >= account.threshold THEN "ready" ELSE "pending",
           collectedSignatures |-> more]]
    BY <1>6, <2>1 DEF SignMultiSigTransaction
  <2>3. /\ more \in Seq(SignerKeys) /\ Len(more) = Len(s) + 1 /\ Len(s) \in Nat
        /\ ToSet(more) = ToSet(s) \cup {k} /\ (Distinct(s) => Distinct(more))
    BY <2>1, OneMore
  <2> HIDE DEF s, more
  <2>4. SigningTypes'
    BY <2>1, <2>2, <2>3 DEF SigningTypes, MultiSigTransaction
  <2>5. CollectedBy(t)'
    <3>1. CollectedBy(t)
      BY DEF Collected
    <3>2. /\ multiSig'[t].collectedSignatures = more
          /\ multiSig'[t].status = IF Len(more) >= account.threshold THEN "ready" ELSE "pending"
      BY <2>2 DEF SigningTypes
    <3> QED
      BY <2>1, <2>3, <3>1, <3>2 DEF CollectedBy, SigningTypes, s
  <2>6. ASSUME NEW u \in MultiSigTxs, u # t
        PROVE  CollectedBy(u)'
    <3>1. multiSig'[u] = multiSig[u] /\ CollectedBy(u)
      BY <2>2, <2>6 DEF SigningTypes, Collected
    <3> QED
      BY <2>1, <3>1 DEF CollectedBy
  <2>7. Collected'
    BY <2>5, <2>6 DEF Collected
  <2> QED
    BY <2>1, <2>4, <2>7 DEF AnsweredOnce, SentOnes
<1>7. ASSUME NEW r \in OfflineIds, NEW k \in SignerKeys,
             CreateOfflineSigningRequest(r, k) \/ CreateOfflineMessageSigningRequest(r, k)
      PROVE  SigningInv'
  <2>1. PICK content \in {"message", "transaction", "empty"} : CreateRequest(r, k, content)
    BY <1>7 DEF CreateOfflineSigningRequest, CreateOfflineMessageSigningRequest
  <2> DEFINE new == [status |-> "pending", publicKey |-> k, content |-> content,
                     late |-> FALSE]
  <2>2. /\ account' = account /\ multiSig' = multiSig /\ executing' = executing
        /\ signatures' = signatures /\ transfers' = transfers
        /\ offline[r].status = "none" /\ offline' = [offline EXCEPT ![r] = new]
    BY <2>1 DEF CreateRequest, multiSigVars
  <2>3. new \in OfflineSigningRequest /\ new.status = "pending"
    BY DEF OfflineSigningRequest
  <2> HIDE DEF new
  <2>4. SigningTypes'
    BY <2>2, <2>3 DEF SigningTypes
  <2>5. AnsweredOnce'
    BY <2>2, <2>3 DEF SigningTypes, AnsweredOnce
  <2>6. Collected' /\ SentOnes'
    BY <2>2 DEF Collected, CollectedBy, SentOnes
  <2> QED
    BY <2>4, <2>5, <2>6
<1>8. ASSUME NEW r \in OfflineIds, Expires(r) \/ CancelOfflineSigningRequest(r)
      PROVE  SigningInv'
  <2>1. /\ account' = account /\ multiSig' = multiSig /\ executing' = executing
        /\ signatures' = signatures /\ transfers' = transfers
    BY <1>8 DEF Expires, CancelOfflineSigningRequest, multiSigVars
  <2>2. /\ offline' \in [OfflineIds -> OfflineSigningRequest]
        /\ \A q \in OfflineIds : offline'[q].status = "signed"
                                  <=> offline[q].status = "signed"
    <3>1. offline \in [OfflineIds -> OfflineSigningRequest]
      BY DEF SigningTypes
    <3>2. CASE Expires(r)
      BY <3>1, <3>2 DEF Expires, OfflineSigningRequest
    <3>3. CASE CancelOfflineSigningRequest(r)
      BY <3>1, <3>3 DEF CancelOfflineSigningRequest, OfflineSigningRequest
    <3> QED
      BY <1>8, <3>2, <3>3
  <2>3. SigningTypes'
    BY <2>1, <2>2 DEF SigningTypes
  <2>4. AnsweredOnce'
    BY <2>1, <2>2 DEF AnsweredOnce
  <2>5. Collected' /\ SentOnes'
    BY <2>1 DEF Collected, CollectedBy, SentOnes
  <2> QED
    BY <2>3, <2>4, <2>5
<1>9. ASSUME NEW r \in OfflineIds, NEW k \in SignerKeys, SignOfflineRequest(r, k)
      PROVE  SigningInv'
  <2>1. /\ offline[r].status = "pending" /\ signatures[r] = 0
        /\ UNCHANGED <<account, multiSig, executing, transfers>>
    BY <1>9 DEF SignOfflineRequest, multiSigVars, AnsweredOnce
  <2>2. CASE /\ offline' = [offline EXCEPT ![r].status = "expired"]
             /\ signatures' = signatures
    <3>1. SigningTypes'
      BY <2>1, <2>2 DEF SigningTypes, OfflineSigningRequest
    <3>2. AnsweredOnce'
      BY <2>1, <2>2 DEF SigningTypes, OfflineSigningRequest, AnsweredOnce
    <3> QED
      BY <2>1, <3>1, <3>2 DEF Collected, CollectedBy, SentOnes
  <2>3. CASE /\ offline' = [offline EXCEPT ![r].status = "signed"]
             /\ signatures' = [signatures EXCEPT ![r] = @ + 1]
    <3>1. SigningTypes'
      BY <2>1, <2>3 DEF SigningTypes, OfflineSigningRequest
    <3>2. AnsweredOnce'
      BY <2>1, <2>3 DEF SigningTypes, OfflineSigningRequest, AnsweredOnce
    <3> QED
      BY <2>1, <3>1, <3>2 DEF Collected, CollectedBy, SentOnes
  <2> QED
    BY <1>9, <2>2, <2>3 DEF SignOfflineRequest
<1>10. ASSUME NEW x \in Transfers, SignAndSendTransaction(x) \/ RecordSent(x)
       PROVE  SigningInv'
  <2>1. SigningTypes'
    BY <1>10 DEF SignAndSendTransaction, RecordSent, multiSigVars, SigningTypes
  <2>2. SentOnes'
    BY <1>10 DEF SignAndSendTransaction, RecordSent, SigningTypes, SentOnes
  <2> QED
    BY <1>10, <2>1, <2>2 DEF SignAndSendTransaction, RecordSent, multiSigVars, Collected,
                             CollectedBy, AnsweredOnce
<1> QED
  BY <1>1, <1>2, <1>3, <1>4, <1>5, <1>6, <1>7, <1>8, <1>9, <1>10 DEF SigningNext

\* A multi-signature transaction is ready and executed only with the signatures of
\* as many different signers of its account as the threshold asks for, however
\* often one of them tries again (signMultiSigTransaction); an offline request is
\* signed once at most and never once cancelled or expired (signOfflineRequest);
\* and the rows of sent transactions are of landed ones.
THEOREM SignaturesAreCounted == SigningSpec => []SignaturesCounted
<1>1. SigningInv => SignaturesCounted
  BY DEF SigningInv, Collected, CollectedBy, Distinct, AnsweredOnce, SentOnes,
         SignaturesCounted
<1> QED
  BY <1>1, SigningStart, SigningNextInv, PTL DEF SigningSpec

-----------------------------------------------------------------------------
(* Key shares                                                               *)

MpcCopy ==
    [next : {"idle", "saveShares", "reload", "saveUsage", "saveShare", "saveWallet"},
     wallet : MpcWallet, shares : KeyShares, used : SUBSET Participants,
     share : Participants, since : SUBSET Participants]

MpcTypes ==
    /\ mpcWallet \in MpcWallet /\ shares \in KeyShares
    /\ mpcJob \in [MpcCallers -> MpcCopy]
    /\ revoked \subseteq Participants /\ mpcFaults \in Nat

Busy(c) == mpcJob[c].next # "idle"

OneCaller == \A c, d \in MpcCallers : Busy(c) /\ Busy(d) => c = d

\* What a caller that is alone knows of the rows: its copies are as they are, but
\* for the share it just revoked; a signature uses no share revoked before.
CopiesHold(c) ==
    LET job == mpcJob[c]
    IN  /\ job.next = "saveShares" =>
             mpcWallet.status = "active" /\ job.wallet = mpcWallet /\ revoked = {}
        /\ job.next = "saveUsage" => job.shares = shares /\ job.used \cap job.since = {}
        /\ job.next \in {"saveShare", "saveWallet"} =>
             /\ mpcWallet.status # "none" /\ job.wallet = mpcWallet
             /\ job.shares[job.share] = "active"
        /\ job.next = "saveShare" => job.shares = shares
        /\ job.next = "saveWallet" => shares = [job.shares EXCEPT ![job.share] = "revoked"]

\* A wallet that may sign has no revoked share that counts.
NoneRevived ==
    /\ mpcWallet.status = "none" => revoked = {}
    /\ mpcWallet.status = "active" => ActiveShares(shares) \cap revoked = {}

\* The participants of a wallet that are not among those gone.
Left(w, gone) == Members(w.scheme) \ gone

\* The shares s of a wallet once the participants gone are revoked.
SharesAgree(s, gone) ==
    LET left == Left(mpcWallet, gone)
    IN  /\ mpcWallet.status = "active" =>
             ActiveShares(s) = left /\ Cardinality(left) >= Threshold(mpcWallet)
        /\ mpcWallet.status = "recovering" =>
             Cardinality(left) < Threshold(mpcWallet) /\ left \subseteq ActiveShares(s)

\* Without faults they agree, but while the shares are about to be saved or a
\* revocation is halfway: then the copies do, and too few would be left.
SharesHold ==
    mpcFaults = 0 =>
      /\ (\A c \in MpcCallers : mpcJob[c].next \notin {"saveShares", "saveWallet"})
           => SharesAgree(shares, revoked)
      /\ \A c \in MpcCallers : mpcJob[c].next = "saveWallet" =>
           SharesAgree(mpcJob[c].shares, revoked) /\ ~CanSignAfter(mpcJob[c])

MpcAloneInv ==
    /\ OneCaller /\ (\A c \in MpcCallers : CopiesHold(c))
    /\ NoneRevived /\ misused = {} /\ SharesHold

MpcInv == MpcTypes /\ (~mpcOverlaps => MpcAloneInv)

LEMMA MpcIdleType == MpcIdle \in MpcCopy /\ NoShares \in KeyShares
BY DEF MpcIdle, MpcCopy, MpcWallet, MpcWalletStatus, ThresholdScheme, NoShares, KeyShares,
       KeyShareStatus, Participants

LEMMA MpcCopies ==
    ASSUME NEW j \in MpcCopy, NEW w \in MpcWallet, NEW s \in KeyShares
    PROVE  /\ \A u, r \in SUBSET Participants :
                [j EXCEPT !.next = "saveUsage", !.wallet = w, !.shares = s, !.used = u,
                          !.since = r] \in MpcCopy
           /\ \A p \in Participants :
                [j EXCEPT !.next = "saveShare", !.wallet = w, !.shares = s, !.share = p]
                  \in MpcCopy
BY DEF MpcCopy

\* The participants of a scheme, as many as its shares and at least its threshold.
LEMMA MembersCounted ==
    ASSUME NEW w \in MpcWallet
    PROVE  /\ Members(w.scheme) \subseteq Participants /\ IsFiniteSet(Members(w.scheme))
           /\ Cardinality(Members(w.scheme)) \in Nat /\ Threshold(w) \in Nat
           /\ Cardinality(Members(w.scheme)) >= Threshold(w)
<1>1. w.scheme \in ThresholdScheme
  BY DEF MpcWallet
<1>2. \E n \in 3 .. 7 : /\ GetThresholdParameters(w.scheme).totalShares = n
                        /\ GetThresholdParameters(w.scheme).threshold \in 2 .. n
  BY <1>1 DEF ThresholdScheme, GetThresholdParameters
<1>3. PICK n \in 3 .. 7 : /\ GetThresholdParameters(w.scheme).totalShares = n
                          /\ GetThresholdParameters(w.scheme).threshold \in 2 .. n
  BY <1>2
<1>4. Members(w.scheme) = 0 .. (n - 1)
  BY <1>3 DEF Members
<1>5. IsFiniteSet(0 .. (n - 1)) /\ Cardinality(0 .. (n - 1)) = n
  <2>1. 0 \in Int /\ n - 1 \in Int /\ ~(0 > n - 1) /\ (n - 1) - 0 + 1 = n
    OBVIOUS
  <2> QED
    BY <2>1, FS_Interval
<1> QED
  BY <1>3, <1>4, <1>5 DEF Threshold, Participants

LEMMA ActiveFinite ==
    ASSUME NEW s
    PROVE  /\ ActiveShares(s) \subseteq Participants /\ IsFiniteSet(ActiveShares(s))
           /\ Cardinality(ActiveShares(s)) \in Nat
<1>1. ActiveShares(s) \subseteq Participants
  BY DEF ActiveShares
<1>2. IsFiniteSet(Participants)
  <2>1. 0 \in Int /\ 6 \in Int
    OBVIOUS
  <2> QED
    BY <2>1, FS_Interval DEF Participants
<1>3. IsFiniteSet(ActiveShares(s))
  BY <1>1, <1>2, FS_Subset
<1> QED
  BY <1>1, <1>3, FS_CardinalityType

\* The caller c alone has a request; the one it goes on with is j.
Only(c, j) ==
    /\ mpcJob'[c] = j
    /\ \A d \in MpcCallers \ {c} : mpcJob[d].next = "idle" /\ mpcJob'[d].next = "idle"

LEMMA OnlyBegins ==
    ASSUME MpcTypes, NEW c \in MpcCallers, NEW job, MpcBegin(c, job), ~mpcOverlaps'
    PROVE  Only(c, job) /\ ~mpcOverlaps /\ mpcJob[c].next = "idle"
BY DEF MpcBegin, MpcTypes, Only

LEMMA OnlyGoesOn ==
    ASSUME MpcTypes, OneCaller, NEW c \in MpcCallers, Busy(c), NEW j,
           mpcJob' = [mpcJob EXCEPT ![c] = j]
    PROVE  Only(c, j)
BY DEF MpcTypes, OneCaller, Busy, Only

\* The other callers know nothing.
LEMMA OnlyKnows ==
    ASSUME NEW c \in MpcCallers, NEW j, Only(c, j), CopiesHold(c)'
    PROVE  OneCaller' /\ \A d \in MpcCallers : CopiesHold(d)'
BY DEF Only, OneCaller, Busy, CopiesHold

LEMMA SharesFiniteDiff ==
    ASSUME NEW w \in MpcWallet, NEW gone
    PROVE  /\ IsFiniteSet(Members(w.scheme) \ gone)
           /\ Cardinality(Members(w.scheme) \ gone) \in Nat
<1>1. IsFiniteSet(Members(w.scheme)) /\ Members(w.scheme) \ gone \in SUBSET Members(w.scheme)
  BY MembersCounted
<1>2. IsFiniteSet(Members(w.scheme) \ gone)
  BY <1>1, FS_Subset
<1> QED
  BY <1>2, FS_CardinalityType

\* The types, step by step.
LEMMA MpcTypesNext == MpcTypes /\ [MpcSteps]_mpcVars => MpcTypes'
<1> SUFFICES ASSUME MpcTypes, [MpcSteps]_mpcVars
             PROVE  MpcTypes'
  OBVIOUS
<1>1. CASE UNCHANGED mpcVars
  BY <1>1 DEF mpcVars, MpcTypes
<1>2. ASSUME NEW c \in MpcCallers,
             \/ CreateMpcWallet(c) \/ SaveShares(c) \/ ReloadWallet(c)
             \/ SignTransaction(c) \/ UpdateShareUsage(c)
             \/ RevokeKeyShare(c) \/ SaveRevoked(c) \/ SaveRecovering(c)
      PROVE  MpcTypes'
  <2>0. /\ mpcJob[c] \in MpcCopy /\ MpcIdle \in MpcCopy
        /\ \A n \in {"idle", "saveShares", "reload", "saveUsage", "saveShare", "saveWallet"} :
              [mpcJob[c] EXCEPT !.next = n] \in MpcCopy
    BY MpcIdleType DEF MpcTypes, MpcCopy
  <2>1. CASE CreateMpcWallet(c)
    <3>1. PICK scheme \in Schemes :
            /\ MpcBegin(c, [MpcIdle EXCEPT !.next = "saveShares",
                               !.wallet = [status |-> "active", scheme |-> scheme]])
            /\ mpcWallet' = mpcJob'[c].wallet
            /\ UNCHANGED <<shares, revoked, misused, mpcFaults>>
      BY <2>1 DEF CreateMpcWallet
    <3> DEFINE wallet == [status |-> "active", scheme |-> scheme]
               job == [MpcIdle EXCEPT !.next = "saveShares", !.wallet = wallet]
    <3>2. wallet \in MpcWallet
      BY MpcAssumption DEF MpcWallet, MpcWalletStatus, ThresholdScheme
    <3>3. job \in MpcCopy /\ job.wallet = wallet
      BY <3>2, MpcIdleType DEF MpcCopy
    <3>4. mpcJob' \in [MpcCallers -> MpcCopy] /\ mpcWallet' \in MpcWallet
      BY <3>1, <3>2, <3>3 DEF MpcBegin, MpcTypes
    <3> QED
      BY <3>1, <3>4 DEF MpcTypes
  <2>2. CASE SaveShares(c)
    BY <2>0, <2>2 DEF SaveShares, MpcSave, MpcTypes, KeyShares, KeyShareStatus
  <2>3. CASE ReloadWallet(c)
    BY <2>0, <2>3 DEF ReloadWallet, MpcSave, MpcTypes
  <2>4. CASE SignTransaction(c)
    <3>1. PICK used \in SUBSET ActiveShares(shares) \ {{}} :
            MpcBegin(c, [MpcIdle EXCEPT !.next = "saveUsage", !.wallet = mpcWallet,
                          !.shares = shares, !.used = used, !.since = revoked])
      BY <2>4 DEF SignTransaction
    <3> DEFINE job == [MpcIdle EXCEPT !.next = "saveUsage", !.wallet = mpcWallet,
                          !.shares = shares, !.used = used, !.since = revoked]
    <3>2. used \in SUBSET Participants
      BY DEF ActiveShares
    <3>3. job \in MpcCopy
      BY <3>2, MpcIdleType, MpcCopies DEF MpcTypes
    <3> QED
      BY <2>4, <3>1, <3>3 DEF MpcBegin, SignTransaction, MpcTypes
  <2>5. CASE UpdateShareUsage(c)
    <3>1. mpcJob[c].shares \in KeyShares
      BY <2>0 DEF MpcCopy
    <3> QED
      BY <2>0, <2>5, <3>1 DEF UpdateShareUsage, MpcSave, MpcTypes, KeyShares
  <2>6. CASE RevokeKeyShare(c)
    <3>1. PICK p \in Participants :
            MpcBegin(c, [MpcIdle EXCEPT !.next = "saveShare", !.wallet = mpcWallet,
                                        !.shares = shares, !.share = p])
      BY <2>6 DEF RevokeKeyShare
    <3> DEFINE job == [MpcIdle EXCEPT !.next = "saveShare", !.wallet = mpcWallet,
                                      !.shares = shares, !.share = p]
    <3>2. job \in MpcCopy
      BY MpcIdleType, MpcCopies DEF MpcTypes
    <3> QED
      BY <2>6, <3>1, <3>2 DEF MpcBegin, RevokeKeyShare, MpcTypes
  <2>7. CASE SaveRevoked(c)
    <3>1. mpcJob[c].share \in Participants
      BY <2>0 DEF MpcCopy
    <3> QED
      BY <2>0, <2>7, <3>1 DEF SaveRevoked, MpcSave, MpcTypes, KeyShares, KeyShareStatus
  <2>8. CASE SaveRecovering(c)
    <3>1. /\ mpcJob[c].share \in Participants /\ mpcJob[c].shares \in KeyShares
          /\ [mpcJob[c].wallet EXCEPT !.status = "recovering"] \in MpcWallet
      BY <2>0 DEF MpcCopy, MpcWallet, MpcWalletStatus
    <3> QED
      BY <2>0, <2>8, <3>1 DEF SaveRecovering, MpcSave, MpcTypes
  <2> QED
    BY <1>2, <2>1, <2>2, <2>3, <2>4, <2>5, <2>6, <2>7, <2>8
<1> QED
  BY <1>1, <1>2 DEF MpcSteps

\* A failed call ends the request, and then nothing is asked of the shares.
LEMMA MpcFails ==
    ASSUME MpcTypes, MpcAloneInv, NEW c \in MpcCallers, Only(c, MpcIdle),
           mpcFaults' = mpcFaults + 1, UNCHANGED <<mpcWallet, shares, revoked, misused>>
    PROVE  MpcAloneInv'
<1>1. CopiesHold(c)'
  BY DEF Only, CopiesHold, MpcIdle
<1>2. OneCaller' /\ \A d \in MpcCallers : CopiesHold(d)'
  BY <1>1, OnlyKnows
<1>3. NoneRevived' /\ misused' = {}
  BY DEF MpcAloneInv, NoneRevived
<1>4. SharesHold'
  BY DEF MpcTypes, SharesHold
<1> QED
  BY <1>2, <1>3, <1>4 DEF MpcAloneInv

\* The requests that begin.
LEMMA MpcBegins ==
    ASSUME MpcTypes, ~mpcOverlaps => MpcAloneInv, NEW c \in MpcCallers, ~mpcOverlaps',
           CreateMpcWallet(c) \/ SignTransaction(c) \/ RevokeKeyShare(c)
    PROVE  MpcAloneInv'
<1>1. CASE CreateMpcWallet(c)
  <2>1. PICK scheme \in Schemes :
          /\ mpcWallet.status = "none"
          /\ MpcBegin(c, [MpcIdle EXCEPT !.next = "saveShares",
                             !.wallet = [status |-> "active", scheme |-> scheme]])
          /\ mpcWallet' = mpcJob'[c].wallet
          /\ UNCHANGED <<shares, revoked, misused, mpcFaults>>
    BY <1>1 DEF CreateMpcWallet
  <2> DEFINE job == [MpcIdle EXCEPT !.next = "saveShares",
                       !.wallet = [status |-> "active", scheme |-> scheme]]
  <2>2. Only(c, job) /\ MpcAloneInv
    BY <2>1, OnlyBegins
  <2>3. job.next = "saveShares" /\ job.wallet.status = "active"
    BY DEF MpcIdle
  <2>4. revoked = {} /\ mpcJob'[c] = job
    BY <2>1, <2>2 DEF MpcAloneInv, NoneRevived, Only
  <2>5. CopiesHold(c)'
    BY <2>1, <2>3, <2>4 DEF CopiesHold
  <2>6. NoneRevived' /\ misused' = {}
    BY <2>1, <2>2, <2>3, <2>4 DEF MpcAloneInv, NoneRevived
  <2>7. SharesHold'
    BY <2>2, <2>3 DEF SharesHold, Only
  <2> QED
    BY <2>2, <2>5, <2>6, <2>7, OnlyKnows DEF MpcAloneInv
<1>2. CASE SignTransaction(c)
  <2>1. PICK used \in SUBSET ActiveShares(shares) \ {{}} :
          /\ mpcWallet.status = "active"
          /\ MpcBegin(c, [MpcIdle EXCEPT !.next = "saveUsage", !.wallet = mpcWallet,
                            !.shares = shares, !.used = used, !.since = revoked])
          /\ UNCHANGED <<mpcWallet, shares, revoked, misused, mpcFaults>>
    BY <1>2 DEF SignTransaction
  <2> DEFINE job == [MpcIdle EXCEPT !.next = "saveUsage", !.wallet = mpcWallet,
                            !.shares = shares, !.used = used, !.since = revoked]
  <2>2. Only(c, job) /\ MpcAloneInv /\ mpcJob[c].next = "idle"
    BY <2>1, OnlyBegins
  <2>3. job.next = "saveUsage" /\ job.shares = shares /\ job.used = used /\ job.since = revoked
    BY DEF MpcIdle
  <2>4. used \cap revoked = {} /\ mpcJob'[c] = job
    BY <2>1, <2>2 DEF MpcAloneInv, NoneRevived, Only
  <2>5. CopiesHold(c)'
    BY <2>1, <2>3, <2>4 DEF CopiesHold
  <2>6. NoneRevived' /\ misused' = {}
    BY <2>1, <2>2 DEF MpcAloneInv, NoneRevived
  <2>7. SharesHold'
    BY <2>1, <2>2, <2>3 DEF MpcAloneInv, SharesHold, SharesAgree, Only
  <2> QED
    BY <2>2, <2>5, <2>6, <2>7, OnlyKnows DEF MpcAloneInv
<1>3. CASE RevokeKeyShare(c)
  <2>1. PICK p \in Participants :
          /\ mpcWallet.status # "none" /\ shares[p] = "active"
          /\ MpcBegin(c, [MpcIdle EXCEPT !.next = "saveShare", !.wallet = mpcWallet,
                                         !.shares = shares, !.share = p])
          /\ UNCHANGED <<mpcWallet, shares, revoked, misused, mpcFaults>>
    BY <1>3 DEF RevokeKeyShare
  <2> DEFINE job == [MpcIdle EXCEPT !.next = "saveShare", !.wallet = mpcWallet,
                                    !.shares = shares, !.share = p]
  <2>2. Only(c, job) /\ MpcAloneInv /\ mpcJob[c].next = "idle"
    BY <2>1, OnlyBegins
  <2>3. /\ job.next = "saveShare" /\ job.shares = shares /\ job.wallet = mpcWallet
        /\ job.share = p
    BY DEF MpcIdle
  <2>4. mpcJob'[c] = job
    BY <2>2 DEF Only
  <2>5. CopiesHold(c)'
    BY <2>1, <2>3, <2>4 DEF CopiesHold
  <2>6. NoneRevived' /\ misused' = {}
    BY <2>1, <2>2 DEF MpcAloneInv, NoneRevived
  <2>7. SharesHold'
    BY <2>1, <2>2, <2>3 DEF MpcAloneInv, SharesHold, SharesAgree, Only
  <2> QED
    BY <2>2, <2>5, <2>6, <2>7, OnlyKnows DEF MpcAloneInv
<1> QED
  BY <1>1, <1>2, <1>3

\* What a call that is done leaves: the next one, and what the caller knows then.
MpcGoesOn(c, next) ==
    /\ mpcJob' = [mpcJob EXCEPT ![c] = IF next = "idle" THEN MpcIdle
                                       ELSE [@ EXCEPT !.next = next]]
    /\ mpcFaults' = mpcFaults

LEMMA MpcDoneOnly ==
    ASSUME MpcTypes, OneCaller, NEW c \in MpcCallers, Busy(c), NEW next,
           MpcGoesOn(c, next)
    PROVE  /\ next = "idle" => Only(c, MpcIdle) /\ mpcJob'[c].next = "idle"
           /\ next # "idle" => /\ Only(c, [mpcJob[c] EXCEPT !.next = next])
                               /\ mpcJob'[c] = [mpcJob[c] EXCEPT !.next = next]
                               /\ mpcJob'[c].next = next
                               /\ mpcJob'[c].wallet = mpcJob[c].wallet
                               /\ mpcJob'[c].shares = mpcJob[c].shares
                               /\ mpcJob'[c].share = mpcJob[c].share
<1>1. CASE next = "idle"
  <2>1. mpcJob' = [mpcJob EXCEPT ![c] = MpcIdle]
    BY <1>1 DEF MpcGoesOn
  <2>2. Only(c, MpcIdle)
    BY <2>1, OnlyGoesOn
  <2>3. MpcIdle.next = "idle"
    BY DEF MpcIdle
  <2> QED
    BY <1>1, <2>2, <2>3 DEF Only
<1>2. CASE next # "idle"
  <2>1. mpcJob' = [mpcJob EXCEPT ![c] = [mpcJob[c] EXCEPT !.next = next]]
    BY <1>2 DEF MpcGoesOn
  <2>2. Only(c, [mpcJob[c] EXCEPT !.next = next])
    BY <2>1, OnlyGoesOn
  <2>3. mpcJob[c] \in MpcCopy
    BY DEF MpcTypes
  <2> QED
    BY <1>2, <2>2, <2>3 DEF Only, MpcCopy
<1> QED
  BY <1>1, <1>2

\* The copies that are done being written, without a fault.
LEMMA MpcSharesSaved ==
    ASSUME MpcTypes, MpcAloneInv, NEW c \in MpcCallers, mpcJob[c].next = "saveShares",
           MpcGoesOn(c, "reload"), UNCHANGED <<mpcWallet, revoked, misused>>,
           shares' = [p \in Participants |->
                        IF p \in Members(mpcJob[c].wallet.scheme) THEN "active" ELSE "none"]
    PROVE  MpcAloneInv'
<1>1. /\ mpcWallet.status = "active" /\ mpcJob[c].wallet = mpcWallet /\ revoked = {}
      /\ OneCaller /\ Busy(c) /\ mpcWallet \in MpcWallet
  BY DEF MpcAloneInv, CopiesHold, Busy, MpcTypes
<1>2. /\ Only(c, [mpcJob[c] EXCEPT !.next = "reload"]) /\ mpcJob'[c].next = "reload"
  BY <1>1, MpcDoneOnly
<1>3. CopiesHold(c)'
  BY <1>2 DEF CopiesHold
<1>4. NoneRevived' /\ misused' = {}
  BY <1>1 DEF MpcAloneInv, NoneRevived
<1>5. ActiveShares(shares') = Members(mpcWallet.scheme)
  BY <1>1, MembersCounted DEF ActiveShares
<1>6. SharesAgree(shares, revoked)'
  BY <1>1, <1>5, MembersCounted DEF SharesAgree, Left
<1>7. SharesHold'
  BY <1>2, <1>6 DEF SharesHold, Only
<1> QED
  BY <1>2, <1>3, <1>4, <1>7, OnlyKnows DEF MpcAloneInv

LEMMA MpcNothingSaved ==
    ASSUME MpcTypes, MpcAloneInv, NEW c \in MpcCallers,
           mpcJob[c].next \in {"reload", "saveUsage"}, MpcGoesOn(c, "idle"),
           UNCHANGED <<mpcWallet, shares, revoked, misused>>
    PROVE  MpcAloneInv'
<1>1. OneCaller /\ Busy(c)
  BY DEF MpcAloneInv, Busy
<1>2. Only(c, MpcIdle) /\ mpcJob'[c].next = "idle"
  BY <1>1, MpcDoneOnly
<1>3. CopiesHold(c)'
  BY <1>2 DEF CopiesHold
<1>4. NoneRevived' /\ misused' = {}
  BY DEF MpcAloneInv, NoneRevived
<1>5. SharesHold'
  BY <1>2 DEF MpcGoesOn, MpcAloneInv, SharesHold, SharesAgree, Only
<1> QED
  BY <1>2, <1>3, <1>4, <1>5, OnlyKnows DEF MpcAloneInv

\* One share fewer: the others still agree with those not revoked.
LessBy(w, s, gone, p) ==
    /\ ActiveShares([s EXCEPT ![p] = "revoked"]) = ActiveShares(s) \ {p}
    /\ Cardinality(Left(w, gone)) \in Nat /\ Cardinality(Left(w, gone \cup {p})) \in Nat
    /\ Cardinality(Left(w, gone \cup {p})) <= Cardinality(Left(w, gone))
    /\ ActiveShares(s) = Left(w, gone) =>
         /\ ActiveShares(s) \ {p} = Left(w, gone \cup {p})
         /\ Cardinality(Left(w, gone \cup {p})) = Cardinality(ActiveShares(s)) - 1
    /\ Left(w, gone) \subseteq ActiveShares(s) =>
         Left(w, gone \cup {p}) \subseteq ActiveShares(s) \ {p}

LEMMA OneShareLess ==
    ASSUME NEW w \in MpcWallet, NEW s \in KeyShares, NEW gone, NEW p \in Participants,
           s[p] = "active"
    PROVE  LessBy(w, s, gone, p)
<1> DEFINE left == Left(w, gone)
           less == Left(w, gone \cup {p})
<1>1. ActiveShares([s EXCEPT ![p] = "revoked"]) = ActiveShares(s) \ {p}
  BY DEF ActiveShares, KeyShares
<1>2. /\ IsFiniteSet(left) /\ Cardinality(left) \in Nat /\ Cardinality(less) \in Nat
  BY SharesFiniteDiff DEF Left
<1>3. less = left \ {p} /\ less \in SUBSET left
  BY DEF Left
<1>4. Cardinality(less) <= Cardinality(left)
  BY <1>2, <1>3, FS_Subset
<1>5. p \in ActiveShares(s)
  BY DEF ActiveShares
<1>6. ASSUME ActiveShares(s) = left
      PROVE  ActiveShares(s) \ {p} = less /\ Cardinality(less) = Cardinality(ActiveShares(s)) - 1
  <2>1. Cardinality(left \ {p}) = IF p \in left THEN Cardinality(left) - 1 ELSE Cardinality(left)
    BY <1>2, FS_RemoveElement
  <2> QED
    BY <1>3, <1>5, <1>6, <2>1
<1> HIDE DEF left, less
<1>7. left \subseteq ActiveShares(s) => less \subseteq ActiveShares(s) \ {p}
  BY <1>3
<1> QED
  BY <1>1, <1>2, <1>4, <1>6, <1>7 DEF LessBy, left, less

LEMMA MpcRevokedSaved ==
    ASSUME MpcTypes, MpcAloneInv, NEW c \in MpcCallers, mpcJob[c].next = "saveShare",
           MpcGoesOn(c, IF CanSignAfter(mpcJob[c]) THEN "idle" ELSE "saveWallet"),
           UNCHANGED <<mpcWallet, misused>>,
           shares' = [shares EXCEPT ![mpcJob[c].share] = "revoked"],
           revoked' = IF CanSignAfter(mpcJob[c]) THEN revoked \cup {mpcJob[c].share}
                      ELSE revoked
    PROVE  MpcAloneInv'
<1> DEFINE p == mpcJob[c].share
<1>1. /\ mpcWallet.status # "none" /\ mpcJob[c].wallet = mpcWallet
      /\ mpcJob[c].shares = shares /\ shares[p] = "active" /\ p \in Participants
      /\ OneCaller /\ Busy(c) /\ mpcWallet \in MpcWallet /\ shares \in KeyShares
  BY DEF MpcAloneInv, CopiesHold, Busy, MpcTypes, MpcCopy
<1>2. /\ ActiveShares(shares') = ActiveShares(shares) \ {p}
      /\ Cardinality(ActiveShares(shares)) \in Nat /\ Threshold(mpcWallet) \in Nat
  <2>1. LessBy(mpcWallet, shares, revoked, p)
    BY <1>1, OneShareLess
  <2> QED
    BY <1>1, <2>1, ActiveFinite, MembersCounted DEF LessBy
<1>3. NoneRevived' /\ misused' = {}
  BY <1>1, <1>2 DEF MpcAloneInv, NoneRevived
<1>4. ASSUME mpcFaults = 0
      PROVE  SharesAgree(shares, revoked)
  BY <1>1, <1>4 DEF MpcAloneInv, SharesHold, OneCaller, Busy
<1>5. CASE CanSignAfter(mpcJob[c])
  <2>1. Only(c, MpcIdle) /\ mpcJob'[c].next = "idle" /\ mpcFaults' = mpcFaults
    BY <1>1, <1>5, MpcDoneOnly DEF MpcGoesOn
  <2>2. CopiesHold(c)'
    BY <2>1 DEF CopiesHold
  <2>3. ASSUME mpcFaults = 0
        PROVE  SharesAgree(shares, revoked)'
    <3>1. Cardinality(ActiveShares(shares)) - 1 >= Threshold(mpcWallet)
      BY <1>1, <1>5 DEF CanSignAfter
    <3>2. revoked' = revoked \cup {p}
      BY <1>5
    <3> DEFINE left == Left(mpcWallet, revoked)
               less == Left(mpcWallet, revoked \cup {p})
    <3>3. /\ Cardinality(left) \in Nat /\ Cardinality(less) \in Nat
          /\ Cardinality(less) <= Cardinality(left)
          /\ ActiveShares(shares) = left =>
               /\ ActiveShares(shares) \ {p} = less
               /\ Cardinality(less) = Cardinality(ActiveShares(shares)) - 1
          /\ left \subseteq ActiveShares(shares) => less \subseteq ActiveShares(shares) \ {p}
      <4>1. LessBy(mpcWallet, shares, revoked, p)
        BY <1>1, OneShareLess
      <4> QED
        BY <4>1 DEF LessBy
    <3> HIDE DEF left, less
    <3>4. /\ mpcWallet.status = "active" =>
               ActiveShares(shares) = left /\ Cardinality(left) >= Threshold(mpcWallet)
          /\ mpcWallet.status = "recovering" =>
               Cardinality(left) < Threshold(mpcWallet) /\ left \subseteq ActiveShares(shares)
      BY <1>4, <2>3 DEF SharesAgree, left
    <3>5. /\ mpcWallet.status = "active" =>
               ActiveShares(shares') = less /\ Cardinality(less) >= Threshold(mpcWallet)
          /\ mpcWallet.status = "recovering" =>
               Cardinality(less) < Threshold(mpcWallet) /\ less \subseteq ActiveShares(shares')
      <4>1. CASE mpcWallet.status = "active"
        BY <1>2, <3>1, <3>3, <3>4, <4>1
      <4>2. CASE mpcWallet.status = "recovering"
        <5>1. Cardinality(left) < Threshold(mpcWallet) /\ left \subseteq ActiveShares(shares)
          BY <3>4, <4>2
        <5>2. less \subseteq ActiveShares(shares')
          BY <1>2, <3>3, <5>1
        <5>3. Cardinality(less) < Threshold(mpcWallet)
          BY <1>2, <3>3, <5>1
        <5>4. mpcWallet.status # "active"
          BY <4>2
        <5> QED
          BY <5>2, <5>3, <5>4
      <4> QED
        BY <4>1, <4>2
    <3> QED
      BY <3>2, <3>5 DEF SharesAgree, less
  <2>4. SharesHold'
    BY <2>1, <2>3 DEF SharesHold, Only
  <2> QED
    BY <1>3, <2>1, <2>2, <2>4, OnlyKnows DEF MpcAloneInv
<1>6. CASE ~CanSignAfter(mpcJob[c])
  <2>1. /\ Only(c, [mpcJob[c] EXCEPT !.next = "saveWallet"])
        /\ mpcJob'[c].next = "saveWallet" /\ mpcJob'[c].wallet = mpcWallet
        /\ mpcJob'[c].shares = shares /\ mpcJob'[c].share = p
        /\ mpcFaults' = mpcFaults /\ revoked' = revoked
    <3>1. MpcGoesOn(c, "saveWallet") /\ "saveWallet" # "idle"
      BY <1>6
    <3>2. /\ Only(c, [mpcJob[c] EXCEPT !.next = "saveWallet"])
          /\ mpcJob'[c].next = "saveWallet" /\ mpcJob'[c].wallet = mpcJob[c].wallet
          /\ mpcJob'[c].shares = mpcJob[c].shares /\ mpcJob'[c].share = mpcJob[c].share
      BY <1>1, <3>1, MpcDoneOnly
    <3> QED
      BY <1>1, <1>6, <3>1, <3>2 DEF MpcGoesOn
  <2>2. CopiesHold(c)'
    BY <1>1, <2>1 DEF CopiesHold
  <2>3. ASSUME mpcFaults = 0
        PROVE  /\ (SharesAgree(mpcJob[c].shares, revoked))'
               /\ ~CanSignAfter(mpcJob'[c])
    BY <1>1, <1>4, <1>6, <2>1, <2>3 DEF SharesAgree, CanSignAfter
  <2>4. SharesHold'
    <3>1. \A d \in MpcCallers : mpcJob'[d].next = "saveWallet" => d = c
      BY <2>1 DEF Only
    <3> QED
      BY <2>1, <2>3, <3>1 DEF SharesHold, SharesAgree, CanSignAfter
  <2> QED
    BY <1>3, <2>1, <2>2, <2>4, OnlyKnows DEF MpcAloneInv
<1> QED
  BY <1>5, <1>6

LEMMA MpcRecoveringSaved ==
    ASSUME MpcTypes, MpcAloneInv, NEW c \in MpcCallers, mpcJob[c].next = "saveWallet",
           MpcGoesOn(c, "idle"), misused' = misused, shares' = mpcJob[c].shares,
           mpcWallet' = [mpcJob[c].wallet EXCEPT !.status = "recovering"],
           revoked' = revoked \cup {mpcJob[c].share}
    PROVE  MpcAloneInv'
<1> DEFINE p == mpcJob[c].share
           s == mpcJob[c].shares
<1>1. /\ mpcJob[c].wallet = mpcWallet /\ s[p] = "active" /\ p \in Participants
      /\ OneCaller /\ Busy(c) /\ mpcWallet \in MpcWallet /\ s \in KeyShares
      /\ mpcWallet.status # "none"
  BY DEF MpcAloneInv, CopiesHold, Busy, MpcTypes, MpcCopy
<1>2. /\ Only(c, MpcIdle) /\ mpcJob'[c].next = "idle" /\ mpcFaults' = mpcFaults
  BY <1>1, MpcDoneOnly DEF MpcGoesOn
<1>3. mpcWallet'.status = "recovering" /\ mpcWallet'.scheme = mpcWallet.scheme
  BY <1>1 DEF MpcWallet
<1>4. CopiesHold(c)'
  BY <1>2 DEF CopiesHold
<1>5. NoneRevived' /\ misused' = {}
  BY <1>3 DEF MpcAloneInv, NoneRevived
<1>6. ASSUME mpcFaults = 0
      PROVE  SharesAgree(shares, revoked)'
  <2>1. SharesAgree(s, revoked) /\ ~CanSignAfter(mpcJob[c])
    BY <1>6 DEF MpcAloneInv, SharesHold
  <2>2. /\ Cardinality(ActiveShares(s)) \in Nat /\ Threshold(mpcWallet) \in Nat
        /\ Threshold(mpcWallet') = Threshold(mpcWallet)
    BY <1>1, <1>3, ActiveFinite, MembersCounted DEF Threshold
  <2>3. Cardinality(ActiveShares(s)) - 1 < Threshold(mpcWallet)
    BY <1>1, <2>1, <2>2 DEF CanSignAfter
  <2>4. mpcWallet.status \in {"active", "recovering"}
    BY <1>1 DEF MpcWallet, MpcWalletStatus
  <2> HIDE DEF s, p
  <2> DEFINE left == Left(mpcWallet, revoked)
             less == Left(mpcWallet, revoked \cup {p})
  <2>5. /\ Cardinality(left) \in Nat /\ Cardinality(less) \in Nat
        /\ Cardinality(less) <= Cardinality(left)
        /\ ActiveShares(s) = left => Cardinality(less) = Cardinality(ActiveShares(s)) - 1
        /\ left \subseteq ActiveShares(s) => less \subseteq ActiveShares(s) \ {p}
    <3>1. LessBy(mpcWallet, s, revoked, p)
      BY <1>1, OneShareLess DEF s, p
    <3> QED
      BY <3>1 DEF LessBy
  <2> HIDE DEF left, less
  <2>6. /\ mpcWallet.status = "active" => ActiveShares(s) = left
        /\ mpcWallet.status = "recovering" =>
             Cardinality(left) < Threshold(mpcWallet) /\ left \subseteq ActiveShares(s)
    BY <2>1 DEF SharesAgree, left
  <2>7. Cardinality(less) < Threshold(mpcWallet) /\ less \subseteq ActiveShares(s)
    <3>1. CASE mpcWallet.status = "active"
      BY <2>2, <2>3, <2>5, <2>6, <3>1
    <3>2. CASE mpcWallet.status = "recovering"
      BY <2>2, <2>5, <2>6, <3>2
    <3> QED
      BY <2>4, <3>1, <3>2
  <2> QED
    BY <1>3, <2>2, <2>7 DEF SharesAgree, Left, less, s, p
<1>7. SharesHold'
  BY <1>2, <1>6 DEF SharesHold, Only
<1> QED
  BY <1>2, <1>4, <1>5, <1>7, OnlyKnows DEF MpcAloneInv

LEMMA MpcNextInv == MpcInv /\ [MpcSteps]_mpcVars => MpcInv'
<1> SUFFICES ASSUME MpcInv, [MpcSteps]_mpcVars, ~mpcOverlaps'
             PROVE  MpcAloneInv'
  BY MpcTypesNext DEF MpcInv
<1>1. MpcTypes /\ (~mpcOverlaps => MpcAloneInv)
  BY DEF MpcInv
<1>2. CASE UNCHANGED mpcVars
  BY <1>1, <1>2 DEF mpcVars, MpcAloneInv, OneCaller, Busy, CopiesHold, NoneRevived, SharesHold,
                    SharesAgree, CanSignAfter
<1>3. ASSUME NEW c \in MpcCallers,
             CreateMpcWallet(c) \/ SignTransaction(c) \/ RevokeKeyShare(c)
      PROVE  MpcAloneInv'
  BY <1>1, <1>3, MpcBegins
<1>4. ASSUME NEW c \in MpcCallers,
             \/ SaveShares(c) \/ ReloadWallet(c) \/ UpdateShareUsage(c)
             \/ SaveRevoked(c) \/ SaveRecovering(c)
      PROVE  MpcAloneInv'
  <2>1. mpcOverlaps' = mpcOverlaps /\ Busy(c) /\ MpcAloneInv /\ OneCaller
    BY <1>1, <1>4 DEF SaveShares, ReloadWallet, UpdateShareUsage, SaveRevoked, SaveRecovering,
                      MpcSave, Busy, MpcAloneInv
  <2>2. CASE /\ mpcFaults' = mpcFaults + 1 /\ mpcJob' = [mpcJob EXCEPT ![c] = MpcIdle]
             /\ UNCHANGED <<mpcWallet, shares, revoked, misused>>
    BY <1>1, <2>1, <2>2, OnlyGoesOn, MpcFails
  <2>3. CASE SaveShares(c) /\ mpcFaults' = mpcFaults
    <3>1. /\ mpcJob[c].next = "saveShares" /\ MpcGoesOn(c, "reload")
          /\ UNCHANGED <<mpcWallet, revoked, misused>>
          /\ shares' = [p \in Participants |->
                IF p \in Members(mpcJob[c].wallet.scheme) THEN "active" ELSE "none"]
      BY <1>1, <2>3 DEF SaveShares, MpcSave, MpcGoesOn, MpcTypes
    <3> QED
      BY <1>1, <2>1, <3>1, MpcSharesSaved
  <2>4. CASE ReloadWallet(c) /\ mpcFaults' = mpcFaults
    <3>1. /\ mpcJob[c].next = "reload" /\ MpcGoesOn(c, "idle")
          /\ UNCHANGED <<mpcWallet, shares, revoked, misused>>
      BY <1>1, <2>4 DEF ReloadWallet, MpcSave, MpcGoesOn, MpcTypes
    <3> QED
      BY <1>1, <2>1, <3>1, MpcNothingSaved
  <2>5. CASE UpdateShareUsage(c) /\ mpcFaults' = mpcFaults
    <3>1. /\ mpcJob[c].next = "saveUsage" /\ MpcGoesOn(c, "idle")
          /\ UNCHANGED <<mpcWallet, revoked>>
          /\ shares' = [p \in Participants |->
                IF p \in mpcJob[c].used THEN mpcJob[c].shares[p] ELSE shares[p]]
          /\ misused' = misused \cup (mpcJob[c].used \cap mpcJob[c].since)
      BY <1>1, <2>5 DEF UpdateShareUsage, MpcSave, MpcGoesOn, MpcTypes
    <3>2. mpcJob[c].shares = shares /\ mpcJob[c].used \cap mpcJob[c].since = {}
      BY <2>1, <3>1 DEF MpcAloneInv, CopiesHold
    <3>3. shares' = shares /\ misused' = misused
      BY <1>1, <3>1, <3>2 DEF MpcTypes, KeyShares
    <3> QED
      BY <1>1, <2>1, <3>1, <3>3, MpcNothingSaved
  <2>6. CASE SaveRevoked(c) /\ mpcFaults' = mpcFaults
    <3>1. /\ mpcJob[c].next = "saveShare"
          /\ MpcGoesOn(c, IF CanSignAfter(mpcJob[c]) THEN "idle" ELSE "saveWallet")
          /\ UNCHANGED <<mpcWallet, misused>>
          /\ shares' = [shares EXCEPT ![mpcJob[c].share] = "revoked"]
          /\ revoked' = IF CanSignAfter(mpcJob[c]) THEN revoked \cup {mpcJob[c].share}
                        ELSE revoked
      BY <1>1, <2>6 DEF SaveRevoked, MpcSave, MpcGoesOn, MpcTypes
    <3> QED
      BY <1>1, <2>1, <3>1, MpcRevokedSaved
  <2>7. CASE SaveRecovering(c) /\ mpcFaults' = mpcFaults
    <3>1. /\ mpcJob[c].next = "saveWallet" /\ MpcGoesOn(c, "idle") /\ misused' = misused
          /\ shares' = mpcJob[c].shares
          /\ mpcWallet' = [mpcJob[c].wallet EXCEPT !.status = "recovering"]
          /\ revoked' = revoked \cup {mpcJob[c].share}
      BY <1>1, <2>7 DEF SaveRecovering, MpcSave, MpcGoesOn, MpcTypes
    <3> QED
      BY <1>1, <2>1, <3>1, MpcRecoveringSaved
  <2> QED
    BY <1>4, <2>2, <2>3, <2>4, <2>5, <2>6, <2>7
       DEF SaveShares, ReloadWallet, UpdateShareUsage, SaveRevoked, SaveRecovering, MpcSave
<1> QED
  BY <1>2, <1>3, <1>4 DEF MpcSteps

LEMMA MpcStart == MpcInit => MpcInv
<1> SUFFICES ASSUME MpcInit
             PROVE  MpcInv
  OBVIOUS
<1>1. MpcIdle.wallet.status = "none" /\ MpcIdle.next = "idle" /\ MpcIdle.wallet \in MpcWallet
  BY DEF MpcIdle, MpcWallet, MpcWalletStatus, ThresholdScheme
<1>2. MpcTypes
  BY <1>1, MpcIdleType DEF MpcInit, MpcTypes
<1>3. MpcAloneInv
  BY <1>1 DEF MpcInit, MpcAloneInv, OneCaller, Busy, CopiesHold, NoneRevived, SharesHold,
              SharesAgree
<1> QED
  BY <1>2, <1>3 DEF MpcInv

\* While requests do not overlap, whatever fails between two saves, no signature
\* of signTransaction uses a share whose revocation has returned; and without
\* faults the wallet may sign exactly while enough unrevoked shares are left,
\* though revokeKeyShare saves the last one back as active.
THEOREM SharesRevoked == MpcSpec => []RevocationsHold
<1>1. MpcInv => RevocationsHold
  <2> SUFFICES ASSUME MpcInv, ~mpcOverlaps
               PROVE  /\ misused = {}
                      /\ (mpcFaults = 0 /\ \A c \in MpcCallers : mpcJob[c].next = "idle") =>
                           /\ NoneRevived /\ SharesAgree(shares, revoked)
                           /\ mpcWallet \in MpcWallet
    BY DEF RevocationsHold, NoneRevived, SharesAgree, Left, MpcWallet, MpcWalletStatus
  <2> QED
    BY DEF MpcInv, MpcTypes, MpcAloneInv, SharesHold
<1> QED
  BY <1>1, MpcStart, MpcNextInv, PTL DEF MpcSpec

-----------------------------------------------------------------------------
(* Daily limits                                                             *)

SmartCalls ==
    {"idle", "cacheNew", "rules", "fillRules", "readSpent", "record", "expire", "saveKey"}

SmartCopy ==
    [next : SmartCalls, amount : {a \in Int : a <= MaxAmount}, today : BOOLEAN,
     records : BOOLEAN]

SmartTypes ==
    /\ smartAccount \in SmartAccount /\ spentToday \in Int
    /\ authorized \in Nat /\ credited \in Nat /\ smartFaults \in Nat
    /\ smartOverlaps \in BOOLEAN
    /\ smartJob \in [SmartCallers -> SmartCopy]

\* What a caller has added to the counter of the day and not announced yet.
Owed(job) == IF job.next = "expire" /\ job.today /\ job.amount > 0 THEN job.amount ELSE 0

Owing == [c \in SmartCallers |-> Owed(smartJob[c])]

\* What a caller has checked and will add to the counter.
Checked(job) == IF job.next = "record" /\ job.amount > 0 THEN job.amount ELSE 0

Checking == [c \in SmartCallers |-> Checked(smartJob[c])]

CountInv == authorized + Total(Owing) <= spentToday + credited

\* What the other callers may spend at once, and do only if requests overlap.
Others == (Cardinality(SmartCallers) - 1) * MaxAmount

Room == IF smartOverlaps THEN Others ELSE 0

BoundInv == smartAccount.limited => spentToday + Total(Checking) <= HighestCheck + Room

\* Before the account nothing is limited, cached or counted.
AccountInv ==
    smartAccount.status = "none" =>
      /\ ~smartAccount.limited /\ ~smartAccount.cached /\ spentToday = 0
      /\ \A c \in SmartCallers :
           smartJob[c].next \notin {"cacheNew", "fillRules", "readSpent", "record", "expire"}

SmartAlone ==
    ~smartOverlaps =>
      \A c, d \in SmartCallers :
         smartJob[c].next # "idle" /\ smartJob[d].next # "idle" => c = d

SmartInv == SmartTypes /\ CountInv /\ BoundInv /\ AccountInv /\ SmartAlone

LEMMA SmartIdleType == SmartIdle \in SmartCopy /\ SmartIdle.next = "idle"
BY SmartAssumption DEF SmartIdle, SmartCopy, SmartCalls

LEMMA HighestChecks ==
    /\ HighestCheck \in Nat /\ DailyLimit <= HighestCheck /\ MaxAmount <= HighestCheck
    /\ MaxAmount \in Nat /\ DailyLimit \in Int
BY SmartAssumption DEF HighestCheck

LEMMA OthersType == Others \in Nat
<1>1. Cardinality(SmartCallers) \in Nat /\ Cardinality(SmartCallers) # 0
  BY SmartAssumption, FS_CardinalityType, FS_EmptySet
<1>2. \A n, k \in Nat : n # 0 => (n - 1) * k \in Nat
  OBVIOUS
<1> QED
  BY <1>1, <1>2, SmartAssumption DEF Others

LEMMA JobTerms ==
    ASSUME NEW job \in SmartCopy
    PROVE  /\ Owed(job) \in Nat /\ Checked(job) \in 0 .. MaxAmount
           /\ job.next # "expire" => Owed(job) = 0
           /\ job.next # "record" => Checked(job) = 0
<1>1. job.amount \in Int /\ job.amount <= MaxAmount
  BY DEF SmartCopy
<1> QED
  BY <1>1, HighestChecks DEF Owed, Checked

LEMMA SmartSums ==
    ASSUME SmartTypes
    PROVE  /\ Owing \in [SmartCallers -> Nat] /\ Summable(Owing) /\ Total(Owing) \in Nat
           /\ Checking \in [SmartCallers -> Nat] /\ Summable(Checking)
           /\ Total(Checking) \in Nat
<1>1. Owing \in [SmartCallers -> Nat] /\ Checking \in [SmartCallers -> Nat]
  BY JobTerms DEF SmartTypes, Owing, Checking
<1> QED
  BY <1>1, FiniteSummable, TotalType, SmartAssumption

\* A step of c, and what it leaves of the others.
SmartMoves(c) ==
    /\ smartJob' \in [SmartCallers -> SmartCopy]
    /\ \A d \in SmartCallers \ {c} : smartJob'[d] = smartJob[d]

LEMMA SumsMove ==
    ASSUME SmartTypes, NEW c \in SmartCallers, SmartMoves(c)
    PROVE  /\ Total(Owing)' = Total(Owing) - Owed(smartJob[c]) + Owed(smartJob'[c])
           /\ Total(Checking)'
                = Total(Checking) - Checked(smartJob[c]) + Checked(smartJob'[c])
           /\ Owed(smartJob[c]) \in Nat /\ Owed(smartJob'[c]) \in Nat
           /\ Checked(smartJob[c]) \in Nat /\ Checked(smartJob'[c]) \in Nat
<1>1. /\ Owed(smartJob[c]) \in Nat /\ Owed(smartJob'[c]) \in Nat
      /\ Checked(smartJob[c]) \in 0 .. MaxAmount /\ Checked(smartJob'[c]) \in 0 .. MaxAmount
  BY JobTerms DEF SmartTypes, SmartMoves
<1>2. /\ Owing' = [Owing EXCEPT ![c] = Owed(smartJob'[c])]
      /\ Checking' = [Checking EXCEPT ![c] = Checked(smartJob'[c])]
      /\ Owing[c] = Owed(smartJob[c]) /\ Checking[c] = Checked(smartJob[c])
  BY DEF SmartMoves, Owing, Checking
<1>3. Total([Owing EXCEPT ![c] = Owed(smartJob'[c])])
        = Total(Owing) - Owing[c] + Owed(smartJob'[c])
  BY <1>1, SmartSums, TotalChange
<1>4. Checked(smartJob[c]) \in Nat /\ Checked(smartJob'[c]) \in Nat
  BY <1>1, HighestChecks
<1>5. Total([Checking EXCEPT ![c] = Checked(smartJob'[c])])
        = Total(Checking) - Checking[c] + Checked(smartJob'[c])
  BY <1>4, SmartSums, TotalChange
<1> QED
  BY <1>1, <1>2, <1>3, <1>4, <1>5

\* The others have checked no more than they may spend at once.
LEMMA OthersCheck ==
    ASSUME NEW f \in [SmartCallers -> 0 .. MaxAmount], NEW c \in SmartCallers
    PROVE  Total(f) <= f[c] + Others
<1> DEFINE S == SmartCallers \ {c}
           g == [d \in S |-> f[d]]
           h == [d \in S |-> MaxAmount]
<1>1. /\ IsFiniteSet(S) /\ Cardinality(S) = Cardinality(SmartCallers) - 1
      /\ Cardinality(S) \in Nat
  BY SmartAssumption, FS_RemoveElement, FS_CardinalityType
<1>2. f \in [SmartCallers -> Nat]
  BY HighestChecks
<1>3. Total(f) = Total(g) + f[c]
  BY <1>2, SmartAssumption, FiniteSummable, TotalDrop
<1>4. Summable(h) /\ Total(h) = MaxAmount * Cardinality(S)
  BY <1>1, HighestChecks, TotalConstant
<1>5. g \in [S -> Nat] /\ h \in [S -> Nat] /\ \A d \in S : g[d] <= h[d]
  BY HighestChecks
<1>6. Summable(g) /\ Total(g) <= Total(h) /\ Total(g) \in Nat
  <2> HIDE DEF S, g, h
  <2>1. Summable(g) /\ Total(g) <= Total(h)
    BY <1>4, <1>5, TotalMonotone
  <2> QED
    BY <2>1, TotalType
<1>7. Total(h) = Others
  BY <1>1, <1>4, HighestChecks DEF Others
<1> QED
  BY <1>2, <1>3, <1>6, <1>7, OthersType

LEMMA RoomBounds ==
    ASSUME NEW f \in [SmartCallers -> 0 .. MaxAmount], NEW c \in SmartCallers,
           NEW overlaps \in BOOLEAN,
           ~overlaps => \A d \in SmartCallers \ {c} : f[d] = 0
    PROVE  /\ Total(f) \in Nat /\ f[c] \in Nat
           /\ Total(f) <= f[c] + (IF overlaps THEN Others ELSE 0)
<1>1. f \in [SmartCallers -> Nat] /\ f[c] \in Nat
  BY HighestChecks
<1>2. Summable(f) /\ Total(f) \in Nat
  BY <1>1, SmartAssumption, FiniteSummable, TotalType
<1>3. CASE overlaps
  BY <1>1, <1>2, <1>3, OthersCheck
<1>4. CASE ~overlaps
  <2> DEFINE g == [d \in SmartCallers \ {c} |-> f[d]]
  <2>1. g \in [SmartCallers \ {c} -> Nat] /\ \A d \in SmartCallers \ {c} : g[d] = 0
    BY <1>4
  <2>2. Total(g) = 0
    <3> HIDE DEF g
    <3> QED
      BY <2>1, TotalZero
  <2>3. Total(f) = Total(g) + f[c]
    BY <1>1, <1>2, TotalDrop
  <2> QED
    BY <1>1, <1>2, <1>4, <2>2, <2>3
<1> QED
  BY <1>3, <1>4

\* Who has checked, as long as only one caller is busy.
LEMMA CheckingAlone ==
    ASSUME NEW c \in SmartCallers, smartJob' \in [SmartCallers -> SmartCopy],
           smartOverlaps' \in BOOLEAN, SmartAlone', smartJob'[c].next # "idle"
    PROVE  /\ Total(Checking)' \in Nat /\ Checked(smartJob'[c]) \in 0 .. MaxAmount
           /\ Total(Checking)' <= Checked(smartJob'[c]) + Room'
<1> DEFINE f == [d \in SmartCallers |-> Checked(smartJob'[d])]
<1>1. f \in [SmartCallers -> 0 .. MaxAmount] /\ f[c] = Checked(smartJob'[c])
  BY JobTerms
<1>2. ~smartOverlaps' => \A d \in SmartCallers \ {c} : f[d] = 0
  BY DEF SmartAlone, Checked
<1>3. Checking' = f /\ Room' = IF smartOverlaps' THEN Others ELSE 0
  BY DEF Checking, Room, Others
<1>4. Total(f) \in Nat /\ Total(f) <= f[c] + (IF smartOverlaps' THEN Others ELSE 0)
  <2> HIDE DEF f
  <2> QED
    BY <1>1, <1>2, RoomBounds
<1> QED
  BY <1>1, <1>3, <1>4

\* Where a caller goes.
LEMMA SmartGoesType ==
    ASSUME SmartTypes, NEW c \in SmartCallers, NEW next \in SmartCalls, SmartGoto(c, next)
    PROVE  /\ SmartMoves(c) /\ smartJob'[c].next = next
           /\ next # "idle" => smartJob'[c].amount = smartJob[c].amount
<1>1. smartJob[c] \in SmartCopy
  BY DEF SmartTypes
<1>2. CASE next = "idle"
  BY <1>2, SmartIdleType DEF SmartTypes, SmartGoto, SmartMoves
<1>3. CASE next # "idle"
  <2>1. smartJob' = [smartJob EXCEPT ![c] = [smartJob[c] EXCEPT !.next = next]]
    BY <1>3 DEF SmartGoto
  <2>2. [smartJob[c] EXCEPT !.next = next] \in SmartCopy
    BY <1>1 DEF SmartCopy
  <2>3. /\ [smartJob[c] EXCEPT !.next = next].next = next
        /\ [smartJob[c] EXCEPT !.next = next].amount = smartJob[c].amount
    BY <1>1 DEF SmartCopy
  <2> QED
    BY <2>1, <2>2, <2>3 DEF SmartTypes, SmartMoves
<1> QED
  BY <1>2, <1>3

\* A request that begins.
LEMMA SmartBegins ==
    ASSUME SmartTypes, SmartAlone, NEW c \in SmartCallers, NEW job \in SmartCopy,
           SmartBegin(c, job)
    PROVE  /\ smartJob[c].next = "idle" /\ smartJob'[c] = job /\ SmartMoves(c)
           /\ smartFaults' = smartFaults /\ smartOverlaps' \in BOOLEAN
           /\ smartOverlaps => smartOverlaps'
           /\ SmartAlone'
<1>1. /\ smartJob \in [SmartCallers -> SmartCopy]
      /\ smartJob' = [smartJob EXCEPT ![c] = job] /\ smartJob[c].next = "idle"
      /\ smartFaults' = smartFaults
      /\ smartOverlaps' = (smartOverlaps \/ \E d \in SmartCallers : smartJob[d].next # "idle")
  BY DEF SmartBegin, SmartTypes
<1>2. smartJob'[c] = job /\ SmartMoves(c)
  BY <1>1 DEF SmartMoves
<1>3. smartOverlaps' \in BOOLEAN /\ (smartOverlaps => smartOverlaps')
  BY <1>1 DEF SmartTypes
<1>4. ASSUME ~smartOverlaps', NEW d \in SmartCallers, smartJob'[d].next # "idle"
      PROVE  d = c
  BY <1>1, <1>2, <1>4 DEF SmartMoves
<1> QED
  BY <1>1, <1>2, <1>3, <1>4 DEF SmartAlone

LEMMA SmartGoesOn ==
    ASSUME SmartAlone, NEW c \in SmartCallers, SmartMoves(c), smartJob[c].next # "idle",
           smartOverlaps' = smartOverlaps
    PROVE  SmartAlone'
BY DEF SmartAlone, SmartMoves

LEMMA RoomGrows ==
    ASSUME smartOverlaps => smartOverlaps'
    PROVE  Room \in Nat /\ Room' \in Nat /\ Room <= Room'
BY OthersType DEF Room

\* A step of c that adds nothing to the counters and has checked nothing.
LEMMA SumsKept ==
    ASSUME SmartTypes, CountInv, BoundInv, NEW c \in SmartCallers, SmartMoves(c),
           smartJob'[c].next \notin {"expire", "record"}, UNCHANGED spending,
           smartAccount'.limited = smartAccount.limited, smartOverlaps => smartOverlaps'
    PROVE  CountInv' /\ BoundInv'
<1>1. Owed(smartJob'[c]) = 0 /\ Checked(smartJob'[c]) = 0
  BY DEF Owed, Checked
<1>2. /\ Total(Owing)' = Total(Owing) - Owed(smartJob[c]) + 0
      /\ Total(Checking)' = Total(Checking) - Checked(smartJob[c]) + 0
      /\ Owed(smartJob[c]) \in Nat /\ Checked(smartJob[c]) \in Nat
  BY <1>1, SumsMove
<1>3. /\ Total(Owing) \in Nat /\ Total(Checking) \in Nat /\ Room \in Nat /\ Room' \in Nat
      /\ Room <= Room' /\ HighestCheck \in Nat
      /\ spentToday \in Int /\ authorized \in Nat /\ credited \in Nat
  BY SmartSums, RoomGrows, HighestChecks DEF SmartTypes
<1>4. spentToday' = spentToday /\ authorized' = authorized /\ credited' = credited
  BY DEF spending
<1>5. authorized + Total(Owing)' <= spentToday + credited
  BY <1>2, <1>3 DEF CountInv
<1>6. smartAccount.limited => spentToday + Total(Checking)' <= HighestCheck + Room'
  BY <1>2, <1>3 DEF BoundInv
<1> QED
  BY <1>4, <1>5, <1>6 DEF CountInv, BoundInv, HighestCheck

\* Requests that begin, but for the creation of the account.
LEMMA SmartBeginsInv ==
    ASSUME SmartInv, NEW c \in SmartCallers, ValidateTransaction(c) \/ CreateSessionKey(c)
    PROVE  SmartInv'
<1>1. SmartTypes /\ CountInv /\ BoundInv /\ AccountInv /\ SmartAlone
  BY DEF SmartInv
<1>2. PICK job \in SmartCopy : SmartBegin(c, job) /\ job.next \in {"rules", "saveKey"}
  <2>1. CASE ValidateTransaction(c)
    <3>1. PICK amount \in SpendAmounts, records \in BOOLEAN :
            SmartBegin(c, [SmartIdle EXCEPT !.next = "rules", !.amount = amount,
                                            !.records = records])
      BY <2>1 DEF ValidateTransaction
    <3>2. amount \in Int /\ amount <= MaxAmount
      BY SmartAssumption
    <3>3. /\ [SmartIdle EXCEPT !.next = "rules", !.amount = amount, !.records = records]
               \in SmartCopy
          /\ [SmartIdle EXCEPT !.next = "rules", !.amount = amount,
                               !.records = records].next = "rules"
      BY <3>2, SmartIdleType DEF SmartCopy, SmartCalls
    <3> QED
      BY <3>1, <3>3
  <2>2. CASE CreateSessionKey(c)
    <3>1. /\ [SmartIdle EXCEPT !.next = "saveKey"] \in SmartCopy
          /\ [SmartIdle EXCEPT !.next = "saveKey"].next = "saveKey"
      BY SmartIdleType DEF SmartCopy, SmartCalls
    <3> QED
      BY <2>2, <3>1 DEF CreateSessionKey
  <2> QED
    BY <2>1, <2>2
<1>3. /\ smartJob'[c] = job /\ SmartMoves(c) /\ smartFaults' = smartFaults
      /\ smartOverlaps' \in BOOLEAN /\ (smartOverlaps => smartOverlaps') /\ SmartAlone'
  BY <1>1, <1>2, SmartBegins
<1>4. UNCHANGED <<smartAccount, spending>>
  BY DEF ValidateTransaction, CreateSessionKey, smartData
<1>5. SmartTypes'
  BY <1>1, <1>3, <1>4 DEF SmartTypes, SmartMoves, spending
<1>6. smartJob'[c].next \in {"rules", "saveKey"}
  BY <1>2, <1>3
<1>7. CountInv' /\ BoundInv'
  BY <1>1, <1>3, <1>4, <1>6, SumsKept
<1>8. AccountInv'
  BY <1>1, <1>3, <1>4, <1>6 DEF AccountInv, SmartMoves, spending
<1> QED
  BY <1>3, <1>5, <1>7, <1>8 DEF SmartInv

LEMMA SmartCreateInv ==
    ASSUME SmartInv, NEW c \in SmartCallers, CreateSmartAccount(c)
    PROVE  SmartInv'
<1>1. SmartTypes /\ CountInv /\ AccountInv /\ SmartAlone
  BY DEF SmartInv
<1>2. PICK job \in SmartCopy : SmartBegin(c, job) /\ job.next = "cacheNew"
  <2>1. /\ [SmartIdle EXCEPT !.next = "cacheNew"] \in SmartCopy
        /\ [SmartIdle EXCEPT !.next = "cacheNew"].next = "cacheNew"
    BY SmartIdleType DEF SmartCopy, SmartCalls
  <2> QED
    BY <2>1 DEF CreateSmartAccount
<1>3. /\ smartJob'[c] = job /\ SmartMoves(c) /\ smartFaults' = smartFaults
      /\ smartOverlaps' \in BOOLEAN /\ (smartOverlaps => smartOverlaps') /\ SmartAlone'
  BY <1>1, <1>2, SmartBegins
<1>4. /\ smartAccount.status = "none" /\ smartAccount' \in SmartAccount
      /\ smartAccount'.status = "active" /\ UNCHANGED spending
  BY DEF CreateSmartAccount, SmartAccount, SmartAccountStatus
<1>5. SmartTypes'
  BY <1>1, <1>3, <1>4 DEF SmartTypes, SmartMoves, spending
<1>6. Checking' \in [SmartCallers -> Nat] /\ \A d \in SmartCallers : Checking'[d] = 0
  <2>1. \A d \in SmartCallers : smartJob'[d].next # "record"
    BY <1>1, <1>2, <1>3, <1>4 DEF AccountInv, SmartMoves
  <2> QED
    BY <2>1 DEF Checking, Checked
<1>7. spentToday' = 0 /\ Total(Checking)' = 0
  BY <1>1, <1>4, <1>6, TotalZero DEF AccountInv, spending
<1>8. Room' \in Nat
  BY <1>3, RoomGrows
<1>9. BoundInv'
  <2>1. \A x, y \in Nat : 0 + 0 <= x + y
    OBVIOUS
  <2>2. HighestCheck \in Nat
    BY HighestChecks
  <2>3. 0 + 0 <= HighestCheck + Room'
    BY <1>8, <2>1, <2>2
  <2> QED
    BY <1>7, <2>3 DEF BoundInv, HighestCheck
<1>10. Owed(smartJob'[c]) = 0
  BY <1>2, <1>3 DEF Owed
<1>11. CountInv'
  <2>1. Total(Owing)' = Total(Owing) - Owed(smartJob[c]) + 0 /\ Owed(smartJob[c]) \in Nat
    BY <1>1, <1>3, <1>10, SumsMove
  <2>2. /\ Total(Owing) \in Nat /\ spentToday \in Int /\ authorized \in Nat
        /\ credited \in Nat
    BY <1>1, SmartSums DEF SmartTypes
  <2>3. authorized + Total(Owing)' <= spentToday + credited
    BY <1>1, <2>1, <2>2 DEF CountInv
  <2> QED
    BY <1>4, <2>3 DEF CountInv, spending
<1>12. AccountInv'
  BY <1>4 DEF AccountInv
<1> QED
  BY <1>3, <1>5, <1>9, <1>11, <1>12 DEF SmartInv

\* A call that adds nothing: rejected, or one that reads or caches.
LEMMA SmartQuiet ==
    ASSUME SmartInv, NEW c \in SmartCallers,
           NEW next \in {"idle", "fillRules", "readSpent"}, SmartGoto(c, next),
           smartJob[c].next # "idle", smartFaults' \in Nat,
           UNCHANGED <<spending, smartOverlaps>>, smartAccount' \in SmartAccount,
           smartAccount'.limited = smartAccount.limited,
           smartAccount'.status = smartAccount.status,
           smartAccount' = smartAccount \/ smartAccount.status = "active",
           next # "idle" => smartAccount.status = "active"
    PROVE  SmartInv'
<1>1. SmartTypes /\ CountInv /\ BoundInv /\ AccountInv /\ SmartAlone
  BY DEF SmartInv
<1>2. next \in SmartCalls
  BY DEF SmartCalls
<1>3. SmartMoves(c) /\ smartJob'[c].next = next
  BY <1>1, <1>2, SmartGoesType
<1>4. SmartTypes'
  BY <1>1, <1>3 DEF SmartTypes, SmartMoves, spending
<1>5. CountInv' /\ BoundInv'
  BY <1>1, <1>3, SumsKept
<1>6. AccountInv'
  BY <1>1, <1>3 DEF AccountInv, SmartMoves, spending
<1>7. SmartAlone'
  BY <1>1, <1>3, SmartGoesOn
<1> QED
  BY <1>4, <1>5, <1>6, <1>7 DEF SmartInv

\* A rejected call ends the request.
LEMMA SmartFailsInv ==
    ASSUME SmartInv, NEW c \in SmartCallers, smartJob[c].next # "idle",
           smartFaults' = smartFaults + 1, SmartGoto(c, "idle"),
           UNCHANGED <<smartData, smartOverlaps>>
    PROVE  SmartInv'
<1>1. smartFaults' \in Nat /\ smartAccount \in SmartAccount
  BY DEF SmartInv, SmartTypes
<1>2. UNCHANGED <<smartAccount, spending>>
  BY DEF smartData
<1> QED
  BY <1>1, <1>2, SmartQuiet

\* The calls that cache rules, read them, or try to save a session key.
LEMMA SmartRulesInv ==
    ASSUME SmartInv, NEW c \in SmartCallers, smartFaults' = smartFaults,
           \/ CacheRules(c) \/ GetRules(c) \/ FillRules(c) \/ SaveSessionKey(c)
    PROVE  SmartInv'
<1>1. /\ SmartTypes /\ AccountInv /\ smartFaults' \in Nat /\ smartFaults' # smartFaults + 1
      /\ smartAccount \in SmartAccount
  BY DEF SmartInv, SmartTypes
<1>2. /\ smartAccount.status \in {"none", "active"} /\ smartAccount.cached \in BOOLEAN
      /\ smartAccount.cached => smartAccount.status = "active"
  BY <1>1 DEF AccountInv, SmartAccount, SmartAccountStatus
<1>3. CASE CacheRules(c) \/ FillRules(c)
  <2>1. \E n \in {"idle", "readSpent"} :
          /\ SmartGoto(c, n) /\ smartJob[c].next \in {"cacheNew", "fillRules"}
          /\ Cached /\ UNCHANGED smartOverlaps
    BY <1>1, <1>3 DEF CacheRules, FillRules, SmartStep
  <2>2. PICK n \in {"idle", "readSpent"} :
          /\ SmartGoto(c, n) /\ smartJob[c].next \in {"cacheNew", "fillRules"}
          /\ smartAccount' = [smartAccount EXCEPT !.cached = TRUE]
          /\ UNCHANGED <<spending, smartOverlaps>>
    BY <2>1 DEF Cached
  <2>3. /\ smartAccount.status = "active" /\ smartAccount' \in SmartAccount
        /\ smartAccount'.status = smartAccount.status
        /\ smartAccount'.limited = smartAccount.limited
    BY <1>1, <1>2, <2>2 DEF AccountInv, SmartAccount
  <2> QED
    BY <1>1, <2>2, <2>3, SmartQuiet
<1>4. CASE GetRules(c)
  <2> DEFINE next == CASE smartAccount.cached -> "readSpent"
                       [] ~smartAccount.cached /\ smartAccount.status = "active" -> "fillRules"
                       [] ~smartAccount.cached /\ smartAccount.status = "none" -> "idle"
  <2>1. /\ smartJob[c].next = "rules" /\ SmartGoto(c, next)
        /\ UNCHANGED <<smartAccount, spending, smartOverlaps>>
    BY <1>1, <1>4 DEF GetRules, SmartStep, smartData
  <2>2. /\ next \in {"idle", "fillRules", "readSpent"}
        /\ next # "idle" => smartAccount.status = "active"
    BY <1>2
  <2> HIDE DEF next
  <2> QED
    BY <1>1, <2>1, <2>2, SmartQuiet
<1>5. CASE SaveSessionKey(c)
  <2>1. /\ smartJob[c].next = "saveKey" /\ SmartGoto(c, "idle")
        /\ UNCHANGED <<smartAccount, spending, smartOverlaps>>
    BY <1>1, <1>5 DEF SaveSessionKey, SmartStep, smartData
  <2> QED
    BY <1>1, <2>1, SmartQuiet
<1> QED
  BY <1>3, <1>4, <1>5

\* The check: what passes fits under the highest counter with what the others have
\* checked.
LEMMA SmartReadInv ==
    ASSUME SmartInv, NEW c \in SmartCallers, smartFaults' = smartFaults, ReadSpent(c)
    PROVE  SmartInv'
<1>1. /\ SmartTypes /\ CountInv /\ BoundInv /\ AccountInv /\ SmartAlone
      /\ smartFaults' \in Nat /\ smartFaults' # smartFaults + 1
  BY DEF SmartInv, SmartTypes
<1>2. /\ smartJob[c].next = "readSpent"
      /\ UNCHANGED <<smartAccount, spending, smartOverlaps>>
      /\ \/ SmartGoto(c, "idle")
         \/ SmartGoto(c, "record") /\ WithinLimit(smartJob[c].amount)
  BY <1>1 DEF ReadSpent, SmartStep, smartData
<1>3. CASE SmartGoto(c, "idle")
  BY <1>1, <1>2, <1>3, SmartQuiet DEF SmartTypes
<1>4. CASE SmartGoto(c, "record") /\ WithinLimit(smartJob[c].amount)
  <2>1. "record" \in SmartCalls
    BY DEF SmartCalls
  <2>2. /\ SmartMoves(c) /\ smartJob'[c].next = "record"
        /\ smartJob'[c].amount = smartJob[c].amount
    BY <1>1, <1>4, <2>1, SmartGoesType
  <2>3. SmartTypes'
    BY <1>1, <1>2, <2>2 DEF SmartTypes, SmartMoves, spending
  <2>4. SmartAlone'
    BY <1>1, <1>2, <2>2, SmartGoesOn
  <2>5. /\ Total(Owing)' = Total(Owing) - 0 + 0
        /\ Total(Checking)' = Total(Checking) - 0 + Checked(smartJob'[c])
        /\ Checked(smartJob'[c]) \in Nat
    <3>1. Owed(smartJob[c]) = 0 /\ Owed(smartJob'[c]) = 0 /\ Checked(smartJob[c]) = 0
      BY <1>2, <2>2 DEF Owed, Checked
    <3> QED
      BY <1>1, <2>2, <3>1, SumsMove
  <2>6. /\ Total(Owing) \in Nat /\ Total(Checking) \in Nat /\ Room \in Nat
        /\ HighestCheck \in Nat /\ DailyLimit <= HighestCheck /\ DailyLimit \in Int
        /\ spentToday \in Int /\ smartJob[c].amount \in Int
    <3>1. smartJob[c] \in SmartCopy
      BY <1>1 DEF SmartTypes
    <3> QED
      BY <1>1, <3>1, SmartSums, OthersType, HighestChecks DEF SmartTypes, SmartCopy, Room
  <2>7. CountInv'
    BY <1>1, <1>2, <2>5, <2>6 DEF CountInv, spending
  <2>8. BoundInv'
    <3>1. CASE smartJob[c].amount > 0
      <4>1. Checked(smartJob'[c]) = smartJob[c].amount
        BY <2>2, <3>1 DEF Checked
      <4>2. Total(Checking)' <= smartJob[c].amount + Room'
        <5>1. smartJob'[c].next # "idle"
          BY <2>2
        <5> QED
          BY <1>1, <2>2, <2>3, <2>4, <4>1, <5>1, CheckingAlone DEF SmartTypes
      <4>3. Room' = Room
        BY <1>2 DEF Room
      <4>4. smartAccount.limited => spentToday + smartJob[c].amount <= DailyLimit
        BY <1>4 DEF WithinLimit
      <4>5. smartAccount.limited => spentToday + Total(Checking)' <= HighestCheck + Room
        BY <2>5, <2>6, <4>2, <4>3, <4>4
      <4> QED
        BY <1>2, <4>3, <4>5 DEF BoundInv, spending, HighestCheck
    <3>2. CASE ~(smartJob[c].amount > 0)
      <4>1. Checked(smartJob'[c]) = 0
        BY <2>2, <3>2 DEF Checked
      <4>2. Total(Checking)' = Total(Checking)
        BY <2>5, <2>6, <4>1
      <4> QED
        BY <1>1, <1>2, <4>2 DEF BoundInv, spending, Room, HighestCheck
    <3> QED
      BY <3>1, <3>2
  <2>9. smartAccount.status # "none"
    BY <1>1, <1>2 DEF AccountInv
  <2>10. AccountInv'
    BY <1>2, <2>9 DEF AccountInv
  <2> QED
    BY <2>3, <2>4, <2>7, <2>8, <2>10 DEF SmartInv
<1> QED
  BY <1>2, <1>3, <1>4

\* incrby: what was checked is counted, and what is above zero owed an announcement.
LEMMA SmartRecordInv ==
    ASSUME SmartInv, NEW c \in SmartCallers, smartFaults' = smartFaults, RecordTransaction(c)
    PROVE  SmartInv'
<1>1. /\ SmartTypes /\ CountInv /\ BoundInv /\ AccountInv /\ SmartAlone
      /\ smartFaults' # smartFaults + 1 /\ smartJob[c] \in SmartCopy
  BY DEF SmartInv, SmartTypes
<1> DEFINE amount == smartJob[c].amount
<1>2. /\ smartJob[c].next = "record" /\ spentToday' = spentToday + amount
      /\ credited' = IF amount < 0 THEN credited - amount ELSE credited
      /\ smartJob' = [smartJob EXCEPT ![c].next = "expire", ![c].today = TRUE]
      /\ UNCHANGED <<smartAccount, authorized, smartOverlaps>>
  BY <1>1 DEF RecordTransaction, SmartStep
<1>3. /\ smartJob' = [smartJob EXCEPT ![c] = smartJob'[c]]
      /\ smartJob'[c] = [smartJob[c] EXCEPT !.next = "expire", !.today = TRUE]
  BY <1>1, <1>2 DEF SmartTypes
<1>4. /\ smartJob'[c] \in SmartCopy /\ smartJob'[c].next = "expire"
      /\ smartJob'[c].today = TRUE /\ smartJob'[c].amount = amount /\ amount \in Int
  BY <1>1, <1>3 DEF SmartCopy, SmartCalls
<1>5. SmartMoves(c)
  BY <1>1, <1>3, <1>4 DEF SmartMoves, SmartTypes
<1>6. /\ spentToday \in Int /\ credited \in Nat /\ authorized \in Nat
      /\ Total(Owing) \in Nat /\ Total(Checking) \in Nat /\ Room \in Nat
      /\ HighestCheck \in Nat
  BY <1>1, SmartSums, OthersType, HighestChecks DEF SmartTypes, Room
<1>7. spentToday' \in Int /\ credited' \in Nat
  <2> HIDE DEF amount
  <2> QED
    BY <1>2, <1>4, <1>6
<1>8. SmartTypes'
  BY <1>1, <1>2, <1>5, <1>7 DEF SmartTypes, SmartMoves
<1>9. /\ Total(Owing)' = Total(Owing) - 0 + Owed(smartJob'[c])
      /\ Total(Checking)' = Total(Checking) - Checked(smartJob[c]) + 0
  <2>1. Owed(smartJob[c]) = 0 /\ Checked(smartJob'[c]) = 0
    BY <1>2, <1>4 DEF Owed, Checked
  <2> QED
    BY <1>1, <1>5, <2>1, SumsMove
<1>10. /\ Owed(smartJob'[c]) = IF amount > 0 THEN amount ELSE 0
       /\ Checked(smartJob[c]) = IF amount > 0 THEN amount ELSE 0
  BY <1>2, <1>4 DEF Owed, Checked
<1>11. CountInv'
  <2> HIDE DEF amount
  <2>1. authorized + Total(Owing)' <= spentToday' + credited'
    BY <1>1, <1>2, <1>4, <1>6, <1>9, <1>10 DEF CountInv
  <2> QED
    BY <1>2, <2>1 DEF CountInv
<1>12. BoundInv'
  <2> HIDE DEF amount
  <2>1. smartAccount.limited => spentToday' + Total(Checking)' <= HighestCheck + Room
    BY <1>1, <1>2, <1>4, <1>6, <1>9, <1>10 DEF BoundInv
  <2> QED
    BY <1>2, <2>1 DEF BoundInv, Room, HighestCheck
<1>13. AccountInv'
  BY <1>1, <1>2 DEF AccountInv
<1>14. SmartAlone'
  BY <1>1, <1>2, <1>5, SmartGoesOn
<1> QED
  BY <1>8, <1>11, <1>12, <1>13, <1>14 DEF SmartInv

\* The announcement: what was owed is paid, if the day is still the same.
LEMMA SmartExpireInv ==
    ASSUME SmartInv, NEW c \in SmartCallers, smartFaults' = smartFaults, ExpireSpent(c)
    PROVE  SmartInv'
<1>1. /\ SmartTypes /\ CountInv /\ BoundInv /\ AccountInv /\ SmartAlone
      /\ smartFaults' # smartFaults + 1
  BY DEF SmartInv, SmartTypes
<1>2. /\ smartJob[c].next = "expire" /\ SmartGoto(c, "idle")
      /\ authorized' = IF smartJob[c].today /\ smartJob[c].amount > 0
                       THEN authorized + smartJob[c].amount ELSE authorized
      /\ UNCHANGED <<smartAccount, spentToday, credited, smartOverlaps>>
  BY <1>1 DEF ExpireSpent, SmartStep
<1>3. SmartMoves(c) /\ smartJob'[c].next = "idle"
  <2>1. "idle" \in SmartCalls
    BY DEF SmartCalls
  <2> QED
    BY <1>1, <1>2, <2>1, SmartGoesType
<1>4. /\ Owed(smartJob'[c]) = 0 /\ Checked(smartJob'[c]) = 0 /\ Checked(smartJob[c]) = 0
      /\ authorized' = authorized + Owed(smartJob[c])
  BY <1>1, <1>2, <1>3 DEF Owed, Checked, SmartTypes
<1>5. /\ Total(Owing)' = Total(Owing) - Owed(smartJob[c]) + 0
      /\ Total(Checking)' = Total(Checking) - 0 + 0 /\ Owed(smartJob[c]) \in Nat
  BY <1>1, <1>3, <1>4, SumsMove
<1>6. /\ spentToday \in Int /\ credited \in Nat /\ authorized \in Nat
      /\ Total(Owing) \in Nat /\ Total(Checking) \in Nat
  BY <1>1, SmartSums DEF SmartTypes
<1>7. SmartTypes'
  BY <1>1, <1>2, <1>3, <1>4, <1>5, <1>6 DEF SmartTypes, SmartMoves
<1>8. CountInv'
  <2>1. authorized' + Total(Owing)' <= spentToday + credited
    BY <1>1, <1>4, <1>5, <1>6 DEF CountInv
  <2> QED
    BY <1>2, <2>1 DEF CountInv
<1>9. BoundInv'
  BY <1>1, <1>2, <1>5, <1>6 DEF BoundInv, Room, HighestCheck
<1>10. AccountInv'
  BY <1>1, <1>2 DEF AccountInv
<1>11. SmartAlone'
  BY <1>1, <1>2, <1>3, SmartGoesOn
<1> QED
  BY <1>7, <1>8, <1>9, <1>10, <1>11 DEF SmartInv

\* The day ends, and the rules leave the cache.
LEMMA SmartDaysInv ==
    ASSUME SmartInv, NextDay \/ RulesLapse
    PROVE  SmartInv'
<1>1. SmartTypes /\ CountInv /\ BoundInv /\ AccountInv /\ SmartAlone
  BY DEF SmartInv
<1>2. CASE NextDay
  <2>1. /\ spentToday' = 0 /\ authorized' = 0 /\ credited' = 0
        /\ smartJob' = [c \in SmartCallers |-> [smartJob[c] EXCEPT !.today = FALSE]]
        /\ UNCHANGED <<smartAccount, smartFaults, smartOverlaps>>
    BY <1>2 DEF NextDay
  <2>2. \A c \in SmartCallers :
          /\ smartJob'[c] \in SmartCopy /\ smartJob'[c].next = smartJob[c].next
          /\ smartJob'[c].amount = smartJob[c].amount /\ smartJob'[c].today = FALSE
    BY <1>1, <2>1 DEF SmartTypes, SmartCopy
  <2>3. SmartTypes'
    BY <1>1, <2>1, <2>2 DEF SmartTypes
  <2>4. CountInv'
    <3>1. Owing' \in [SmartCallers -> Nat] /\ \A c \in SmartCallers : Owing'[c] = 0
      BY <2>2 DEF Owing, Owed
    <3>2. Total(Owing)' = 0
      BY <3>1, TotalZero
    <3> QED
      BY <2>1, <3>2 DEF CountInv
  <2>5. AccountInv' /\ SmartAlone'
    BY <1>1, <2>1, <2>2 DEF AccountInv, SmartAlone
  <2>6. Room' \in Nat /\ HighestCheck \in Nat /\ MaxAmount <= HighestCheck
    BY OthersType, HighestChecks DEF Room
  <2>7. Total(Checking)' \in Nat
    <3>1. Checking' \in [SmartCallers -> Nat]
      BY <2>2, JobTerms DEF Checking
    <3> QED
      BY <3>1, SmartAssumption, FiniteSummable, TotalType
  <2>8. Total(Checking)' <= HighestCheck + Room'
    <3>1. CASE \E c \in SmartCallers : smartJob'[c].next # "idle"
      <4>1. PICK c \in SmartCallers : smartJob'[c].next # "idle"
        BY <3>1
      <4>2. Total(Checking)' <= Checked(smartJob'[c]) + Room'
        BY <2>3, <2>5, <4>1, CheckingAlone DEF SmartTypes
      <4>3. Checked(smartJob'[c]) \in 0 .. MaxAmount
        BY <2>2, JobTerms
      <4>4. Total(Checking)' \in Nat
        BY <2>7
      <4> QED
        BY <2>6, <4>2, <4>3, <4>4, HighestChecks
    <3>2. CASE \A c \in SmartCallers : smartJob'[c].next = "idle"
      <4>1. Checking' \in [SmartCallers -> Nat] /\ \A c \in SmartCallers : Checking'[c] = 0
        BY <3>2 DEF Checking, Checked
      <4>2. Total(Checking)' = 0
        BY <4>1, TotalZero
      <4>3. \A x, y \in Nat : 0 <= x + y
        OBVIOUS
      <4> QED
        BY <2>6, <4>2, <4>3
    <3> QED
      BY <3>1, <3>2
  <2>9. BoundInv'
    BY <2>1, <2>6, <2>7, <2>8 DEF BoundInv, HighestCheck
  <2> QED
    BY <2>3, <2>4, <2>5, <2>9 DEF SmartInv
<1>3. CASE RulesLapse
  <2>1. /\ smartAccount' \in SmartAccount /\ smartAccount'.status = smartAccount.status
        /\ smartAccount'.limited = smartAccount.limited /\ smartAccount'.cached = FALSE
    BY <1>1, <1>3 DEF RulesLapse, SmartTypes, SmartAccount
  <2>2. UNCHANGED <<spentToday, authorized, credited, smartJob, smartFaults, smartOverlaps>>
    BY <1>3 DEF RulesLapse, spending
  <2>3. SmartTypes' /\ AccountInv' /\ SmartAlone'
    BY <1>1, <2>1, <2>2 DEF SmartTypes, AccountInv, SmartAlone
  <2>4. Owing' = Owing /\ Checking' = Checking /\ Room' = Room
    BY <2>2 DEF Owing, Checking, Room
  <2>5. CountInv' /\ BoundInv'
    BY <1>1, <2>1, <2>2, <2>4 DEF CountInv, BoundInv, HighestCheck, Total, Units
  <2> QED
    BY <2>3, <2>5 DEF SmartInv
<1> QED
  BY <1>2, <1>3

LEMMA SmartNextInv == SmartInv /\ [SmartSteps]_smartVars => SmartInv'
<1> SUFFICES ASSUME SmartInv, [SmartSteps]_smartVars
             PROVE  SmartInv'
  OBVIOUS
<1>1. CASE UNCHANGED smartVars
  <2>1. UNCHANGED <<smartAccount, spentToday, authorized, credited, smartJob, smartFaults,
                    smartOverlaps>>
    BY <1>1 DEF smartVars
  <2>2. SmartTypes' /\ AccountInv' /\ SmartAlone'
    BY <2>1 DEF SmartInv, SmartTypes, AccountInv, SmartAlone
  <2>3. Owing' = Owing /\ Checking' = Checking /\ Room' = Room
    BY <2>1 DEF Owing, Checking, Room
  <2>4. CountInv' /\ BoundInv'
    BY <2>1, <2>3 DEF SmartInv, CountInv, BoundInv, HighestCheck, Total, Units
  <2> QED
    BY <2>2, <2>4 DEF SmartInv
<1>2. ASSUME NEW c \in SmartCallers,
             \/ CacheRules(c) \/ GetRules(c) \/ FillRules(c) \/ ReadSpent(c)
             \/ RecordTransaction(c) \/ ExpireSpent(c) \/ SaveSessionKey(c)
      PROVE  SmartInv'
  <2>1. /\ smartJob[c].next # "idle" /\ smartOverlaps' = smartOverlaps
        /\ \/ smartFaults' = smartFaults
           \/ smartFaults' = smartFaults + 1 /\ SmartGoto(c, "idle") /\ UNCHANGED smartData
    BY <1>2 DEF CacheRules, GetRules, FillRules, ReadSpent, RecordTransaction, ExpireSpent,
                SaveSessionKey, SmartStep
  <2>2. CASE smartFaults' = smartFaults + 1 /\ SmartGoto(c, "idle") /\ UNCHANGED smartData
    BY <2>1, <2>2, SmartFailsInv
  <2>3. CASE smartFaults' = smartFaults
    BY <1>2, <2>3, SmartRulesInv, SmartReadInv, SmartRecordInv, SmartExpireInv
  <2> QED
    BY <2>1, <2>2, <2>3
<1> QED
  BY <1>1, <1>2, SmartBeginsInv, SmartCreateInv, SmartDaysInv DEF SmartSteps

LEMMA SmartStart == SmartInit => SmartInv
<1> SUFFICES ASSUME SmartInit
             PROVE  SmartInv
  OBVIOUS
<1>1. SmartTypes
  <2>1. [status |-> "none", limited |-> FALSE, cached |-> FALSE] \in SmartAccount
    BY DEF SmartAccount, SmartAccountStatus
  <2>2. [c \in SmartCallers |-> SmartIdle] \in [SmartCallers -> SmartCopy]
    BY SmartIdleType
  <2>3. /\ smartAccount \in SmartAccount /\ smartJob \in [SmartCallers -> SmartCopy]
        /\ spentToday = 0 /\ authorized = 0 /\ credited = 0 /\ smartFaults = 0
        /\ smartOverlaps = FALSE
    BY <2>1, <2>2 DEF SmartInit
  <2>4. smartOverlaps \in BOOLEAN
    BY <2>3
  <2>5. spentToday \in Int /\ authorized \in Nat /\ credited \in Nat /\ smartFaults \in Nat
    BY <2>3
  <2> QED
    BY <2>3, <2>4, <2>5, Zenon DEF SmartTypes
<1>2. CountInv
  <2>1. Owing \in [SmartCallers -> Nat] /\ \A c \in SmartCallers : Owing[c] = 0
    BY SmartIdleType DEF SmartInit, Owing, Owed
  <2>2. Total(Owing) = 0
    BY <2>1, TotalZero
  <2> QED
    BY <2>2 DEF SmartInit, CountInv
<1>3. BoundInv /\ AccountInv /\ SmartAlone
  BY SmartIdleType DEF SmartInit, BoundInv, AccountInv, SmartAlone
<1> QED
  BY <1>1, <1>2, <1>3 DEF SmartInv

\* Whatever overlaps and fails, no more is announced as authorized on a day than
\* recordTransaction has counted, but for what negative amounts took off the counter
\* again; and although the counter is checked and increased by different calls, an
\* account with a limit exceeds the highest that one check allows by no more than
\* the other callers may spend at once, and not at all while none overlap.
THEOREM LimitsCorrect == SmartSpec => []LimitsHold
<1>1. SmartInv => LimitsHold
  <2> SUFFICES ASSUME SmartInv
               PROVE  LimitsHold
    OBVIOUS
  <2>1. /\ SmartTypes /\ CountInv /\ BoundInv
        /\ Total(Owing) \in Nat /\ Total(Checking) \in Nat
        /\ spentToday \in Int /\ authorized \in Nat /\ credited \in Nat
    BY SmartSums DEF SmartInv, SmartTypes
  <2>2. authorized <= spentToday + credited
    BY <2>1 DEF CountInv
  <2>3. Room \in Nat /\ HighestCheck \in Nat
    BY OthersType, HighestChecks DEF Room
  <2>4. smartAccount.limited => spentToday <= HighestCheck + Room
    BY <2>1, <2>3 DEF BoundInv
  <2>5. Room = IF smartOverlaps THEN (Cardinality(SmartCallers) - 1) * MaxAmount ELSE 0
    BY DEF Room, Others
  <2> QED
    BY <2>2, <2>4, <2>5 DEF LimitsHold
<1> QED
  BY <1>1, SmartStart, SmartNextInv, PTL DEF SmartSpec

-----------------------------------------------------------------------------
(* Logins and API keys                                                      *)

AuthCalls ==
    {"idle", "saveUser", "compare", "saveFailed", "saveGood", "saveKey", "findKey",
     "compareKey", "saveUse", "saveRevoked"}

AuthCopy ==
    [next : AuthCalls, user : User, key : ApiKey, good : BOOLEAN, late : BOOLEAN,
     expired : BOOLEAN]

AuthTypes ==
    /\ user \in User /\ apiKey \in ApiKey /\ failures \in Nat /\ authFaults \in Nat
    /\ expired \in BOOLEAN /\ keyDead \in BOOLEAN /\ intruders \in BOOLEAN
    /\ authJob \in [AuthCallers -> AuthCopy]

\* What a caller that is alone knows of the rows, and whether it began too late.
AuthKnows(c) ==
    LET job == authJob[c]
    IN  /\ job.next \in {"compare", "saveFailed", "saveGood"} =>
             job.user = user /\ user.exists /\ ~user.locked
        /\ job.next = "saveKey" => apiKey = NoKey
        /\ job.next \in {"findKey", "compareKey"} => (keyDead => job.late)
        /\ job.next = "findKey" /\ job.late => keyDead \/ expired
        /\ job.next = "compareKey" /\ job.late => job.key.status # "active" \/ expired
        /\ job.next = "saveUse" => ~job.late /\ ~keyDead
        /\ job.next = "saveRevoked" => job.key.status = "revoked"

AuthRows ==
    /\ failures <= MaxAttempts /\ failures <= user.loginAttempts
    /\ failures = MaxAttempts => user.locked
    /\ ~user.exists => failures = 0
    /\ keyDead => apiKey.status = "revoked"
    /\ ~intruders

AuthAlone ==
    \A c, d \in AuthCallers :
        authJob[c].next # "idle" /\ authJob[d].next # "idle" => c = d

AuthAloneInv == AuthAlone /\ (\A c \in AuthCallers : AuthKnows(c)) /\ AuthRows

AuthInv == AuthTypes /\ (~authOverlaps => AuthAloneInv)

LEMMA AuthIdleType ==
    /\ AuthIdle \in AuthCopy /\ AuthIdle.next = "idle"
    /\ NoUser \in User /\ NoKey \in ApiKey /\ NoKey.status = "none"
    /\ ~NoUser.exists /\ NoUser.loginAttempts = 0
BY DEF AuthIdle, AuthCopy, AuthCalls, NoUser, NoKey, User, ApiKey, ApiKeyStatus

\* The job of c is job from now on.
AuthMoves(c, job) ==
    /\ job \in AuthCopy /\ authJob'[c] = job
    /\ authJob' \in [AuthCallers -> AuthCopy]
    /\ \A d \in AuthCallers \ {c} : authJob'[d] = authJob[d]

LEMMA AuthSets ==
    ASSUME AuthTypes, NEW c \in AuthCallers, NEW job \in AuthCopy,
           authJob' = [authJob EXCEPT ![c] = job]
    PROVE  AuthMoves(c, job)
BY DEF AuthTypes, AuthMoves

OthersOut(c) == \A d \in AuthCallers \ {c} : authJob[d].next = "idle"

LEMMA AuthTogether ==
    ASSUME AuthInv, NEW c \in AuthCallers, NEW job, AuthMoves(c, job), AuthTypes',
           ~authOverlaps' => OthersOut(c) /\ AuthKnows(c)' /\ AuthRows'
    PROVE  AuthInv'
<1> SUFFICES ASSUME ~authOverlaps'
             PROVE  AuthAloneInv'
  BY DEF AuthInv
<1>1. \A d \in AuthCallers \ {c} : authJob'[d].next = "idle"
  BY DEF AuthMoves, OthersOut
<1>2. AuthAlone'
  BY <1>1 DEF AuthAlone
<1>3. \A d \in AuthCallers \ {c} : AuthKnows(d)'
  BY <1>1 DEF AuthKnows
<1> QED
  BY <1>2, <1>3 DEF AuthAloneInv

\* A request begins with job and changes no row.
LEMMA AuthBeginsInv ==
    ASSUME AuthInv, NEW c \in AuthCallers, NEW job \in AuthCopy, AuthBegin(c, job),
           job.next \in {"compare", "saveFailed", "saveGood"} =>
             job.user = user /\ user.exists /\ ~user.locked,
           job.next = "saveKey" => apiKey = NoKey,
           job.next = "findKey" => job.late = (keyDead \/ expired),
           job.next = "saveRevoked" => job.key.status = "revoked",
           job.next \notin {"compareKey", "saveUse"}
    PROVE  AuthInv'
<1>1. AuthTypes
  BY DEF AuthInv
<1>2. /\ authJob[c].next = "idle" /\ authJob' = [authJob EXCEPT ![c] = job]
      /\ authOverlaps' = (authOverlaps \/ \E d \in AuthCallers : authJob[d].next # "idle")
      /\ UNCHANGED <<user, apiKey, failures, expired, keyDead, intruders, authFaults>>
  BY DEF AuthBegin, authGhosts
<1>3. AuthMoves(c, job)
  BY <1>1, <1>2, AuthSets
<1>4. AuthTypes'
  BY <1>1, <1>2, <1>3 DEF AuthTypes, AuthMoves
<1>5. ASSUME ~authOverlaps'
      PROVE  OthersOut(c) /\ AuthKnows(c)' /\ AuthRows'
  <2>1. OthersOut(c) /\ AuthRows
    BY <1>2, <1>5 DEF OthersOut, AuthInv, AuthAloneInv
  <2>2. keyDead \in BOOLEAN /\ expired \in BOOLEAN
    BY <1>1 DEF AuthTypes
  <2>3. AuthKnows(c)'
    BY <1>2, <1>3, <2>2 DEF AuthMoves, AuthKnows
  <2> QED
    BY <1>2, <2>1, <2>3 DEF AuthRows
<1> QED
  BY <1>3, <1>4, <1>5, AuthTogether

\* A call is done, or rejected, and the request goes on with job.
LEMMA AuthGoesOn ==
    ASSUME AuthInv, NEW c \in AuthCallers, NEW job \in AuthCopy, SetJob(c, job),
           authJob[c].next # "idle", authOverlaps' = authOverlaps,
           user' \in User, apiKey' \in ApiKey, failures' \in Nat, authFaults' \in Nat,
           keyDead' \in BOOLEAN, intruders' \in BOOLEAN, expired' = expired,
           AuthKnows(c) /\ AuthRows => AuthKnows(c)' /\ AuthRows'
    PROVE  AuthInv'
<1>1. AuthTypes
  BY DEF AuthInv
<1>2. AuthMoves(c, job)
  BY <1>1, AuthSets DEF SetJob
<1>3. AuthTypes'
  BY <1>1, <1>2 DEF AuthTypes, AuthMoves
<1>4. ~authOverlaps' => OthersOut(c) /\ AuthKnows(c) /\ AuthRows
  BY DEF AuthInv, AuthAloneInv, AuthAlone, OthersOut
<1> QED
  BY <1>2, <1>3, <1>4, AuthTogether

LEMMA AuthStartsInv ==
    ASSUME AuthInv, NEW c \in AuthCallers,
           \/ Register(c) \/ Login(c) \/ CreateApiKey(c) \/ ValidateApiKey(c)
           \/ RevokeApiKey(c)
    PROVE  AuthInv'
<1>1. AuthTypes /\ user \in User /\ apiKey \in ApiKey
  BY DEF AuthInv, AuthTypes
<1>2. CASE Register(c)
  <2> DEFINE job == [AuthIdle EXCEPT !.next = "saveUser"]
  <2>1. job \in AuthCopy /\ job.next = "saveUser"
    BY AuthIdleType DEF AuthCopy, AuthCalls
  <2>2. AuthBegin(c, job)
    BY <1>2 DEF Register
  <2> HIDE DEF job
  <2> QED
    BY <2>1, <2>2, AuthBeginsInv
<1>3. CASE Login(c)
  <2>1. PICK good \in BOOLEAN :
          AuthBegin(c, [AuthIdle EXCEPT !.next = "compare", !.user = user, !.good = good])
    BY <1>3 DEF Login
  <2> DEFINE job == [AuthIdle EXCEPT !.next = "compare", !.user = user, !.good = good]
  <2>2. job \in AuthCopy /\ job.next = "compare" /\ job.user = user
    BY <1>1, AuthIdleType DEF AuthCopy, AuthCalls
  <2>3. user.exists /\ ~user.locked
    BY <1>3 DEF Login, CanAttemptLogin
  <2> HIDE DEF job
  <2> QED
    BY <2>1, <2>2, <2>3, AuthBeginsInv DEF job
<1>4. CASE CreateApiKey(c)
  <2> DEFINE job == [AuthIdle EXCEPT !.next = "saveKey"]
  <2>1. job \in AuthCopy /\ job.next = "saveKey"
    BY AuthIdleType DEF AuthCopy, AuthCalls
  <2>2. AuthBegin(c, job) /\ apiKey = NoKey
    BY <1>4 DEF CreateApiKey
  <2> HIDE DEF job
  <2> QED
    BY <2>1, <2>2, AuthBeginsInv
<1>5. CASE ValidateApiKey(c)
  <2> DEFINE job == [AuthIdle EXCEPT !.next = "findKey", !.late = keyDead \/ expired]
  <2>1. job \in AuthCopy /\ job.next = "findKey" /\ job.late = (keyDead \/ expired)
    BY AuthIdleType DEF AuthCopy, AuthCalls
  <2>2. AuthBegin(c, job)
    BY <1>5 DEF ValidateApiKey
  <2> HIDE DEF job
  <2> QED
    BY <2>1, <2>2, AuthBeginsInv
<1>6. CASE RevokeApiKey(c)
  <2> DEFINE key == [apiKey EXCEPT !.status = "revoked"]
             job == [AuthIdle EXCEPT !.next = "saveRevoked", !.key = key]
  <2>1. key \in ApiKey /\ key.status = "revoked"
    BY <1>1 DEF ApiKey, ApiKeyStatus
  <2> HIDE DEF key
  <2>2. job \in AuthCopy /\ job.next = "saveRevoked" /\ job.key = key
    BY <2>1, AuthIdleType DEF AuthCopy, AuthCalls
  <2>3. AuthBegin(c, job)
    BY <1>6 DEF RevokeApiKey, key
  <2> HIDE DEF job
  <2> QED
    BY <2>1, <2>2, <2>3, AuthBeginsInv
<1> QED
  BY <1>2, <1>3, <1>4, <1>5, <1>6

\* A request ends: its caller knows nothing any more.
LEMMA AuthEnds ==
    ASSUME AuthInv, NEW c \in AuthCallers, SetJob(c, AuthIdle),
           authJob[c].next # "idle", authOverlaps' = authOverlaps,
           user' \in User, apiKey' \in ApiKey, failures' \in Nat, authFaults' \in Nat,
           keyDead' \in BOOLEAN, intruders' \in BOOLEAN, expired' = expired,
           AuthKnows(c) /\ AuthRows => AuthRows'
    PROVE  AuthInv'
<1>1. AuthTypes
  BY DEF AuthInv
<1>2. AuthMoves(c, AuthIdle)
  BY <1>1, AuthIdleType, AuthSets DEF SetJob
<1>3. AuthKnows(c)'
  BY <1>2, AuthIdleType DEF AuthMoves, AuthKnows
<1> QED
  BY <1>3, AuthIdleType, AuthGoesOn

\* An awaited call is rejected: no row has changed.
LEMMA AuthRejectedInv ==
    ASSUME AuthInv, NEW c \in AuthCallers, SetJob(c, AuthIdle), authJob[c].next # "idle",
           authFaults' = authFaults + 1,
           UNCHANGED <<user, apiKey, failures, expired, keyDead, intruders, authOverlaps>>
    PROVE  AuthInv'
<1>1. AuthTypes
  BY DEF AuthInv
<1>2. AuthRows => AuthRows'
  BY DEF AuthRows
<1> QED
  BY <1>1, <1>2, AuthEnds DEF AuthTypes

\* An awaited call that changes no row is done.
LEMMA AuthReadsInv ==
    ASSUME AuthInv, NEW c \in AuthCallers, NEW job \in AuthCopy, SetJob(c, job),
           authJob[c].next # "idle",
           AuthKnows(c) /\ AuthRows /\ AuthMoves(c, job) => AuthKnows(c)',
           UNCHANGED <<user, apiKey, failures, expired, keyDead, intruders, authFaults,
                       authOverlaps>>
    PROVE  AuthInv'
<1>1. AuthTypes
  BY DEF AuthInv
<1>2. AuthRows => AuthRows'
  BY DEF AuthRows
<1>3. AuthMoves(c, job)
  BY <1>1, AuthSets DEF SetJob
<1> QED
  BY <1>1, <1>2, <1>3, AuthGoesOn DEF AuthTypes

\* v is u with n attempts, locked or not.
LoggedWith(v, u, n, locked) ==
    v \in User /\ v.exists = u.exists /\ v.loginAttempts = n /\ v.locked = locked

LEMMA UserWith ==
    ASSUME NEW u \in User, NEW n \in Nat, NEW locked \in BOOLEAN
    PROVE  LoggedWith([u EXCEPT !.loginAttempts = n, !.locked = locked], u, n, locked)
BY DEF User, LoggedWith

LEMMA AuthUsersInv ==
    ASSUME AuthInv, NEW c \in AuthCallers,
           \/ SaveUser(c) \/ ComparePassword(c) \/ HandleFailedLogin(c) \/ SaveLogin(c)
    PROVE  AuthInv'
<1>1. AuthTypes /\ user \in User /\ apiKey \in ApiKey /\ authJob[c] \in AuthCopy
      /\ failures \in Nat /\ MaxAttempts \in Nat \ {0}
  BY AuthAssumption DEF AuthInv, AuthTypes
<1>2. authJob[c].user \in User
  BY <1>1 DEF AuthCopy
<1>3. CASE SaveUser(c)
  <2>1. CASE user.exists
    <3>1. /\ SetJob(c, AuthIdle) /\ authJob[c].next # "idle"
          /\ UNCHANGED <<user, apiKey, failures, expired, keyDead, intruders, authFaults,
                         authOverlaps>>
      BY <1>3, <2>1 DEF SaveUser, authGhosts
    <3>2. AuthRows => AuthRows'
      BY <3>1 DEF AuthRows
    <3> QED
      BY <1>1, <3>1, <3>2, AuthEnds DEF AuthTypes
  <2>2. CASE ~user.exists
    <3>1. /\ authJob[c].next # "idle" /\ SetJob(c, AuthIdle) /\ authOverlaps' = authOverlaps
          /\ UNCHANGED <<apiKey, failures, expired, keyDead, intruders>>
          /\ \/ user' = [NoUser EXCEPT !.exists = TRUE] /\ UNCHANGED authFaults
             \/ authFaults' = authFaults + 1 /\ UNCHANGED user
      BY <1>3, <2>2 DEF SaveUser, AuthStep, authGhosts
    <3>2. CASE user' = [NoUser EXCEPT !.exists = TRUE] /\ UNCHANGED authFaults
      <4>1. user' \in User /\ user'.exists /\ user'.loginAttempts = 0
        BY <3>2, AuthIdleType DEF User
      <4>2. AuthRows => AuthRows'
        BY <1>1, <2>2, <3>1, <4>1 DEF AuthRows
      <4> QED
        BY <1>1, <3>1, <3>2, <4>1, <4>2, AuthEnds DEF AuthTypes
    <3>3. CASE authFaults' = authFaults + 1 /\ UNCHANGED user
      BY <3>1, <3>3, AuthRejectedInv
    <3> QED
      BY <3>1, <3>2, <3>3
  <2> QED
    BY <2>1, <2>2
<1>4. CASE ComparePassword(c)
  <2> DEFINE job == Then(c, IF authJob[c].good THEN "saveGood" ELSE "saveFailed")
  <2>1. job \in AuthCopy /\ job.next \in {"saveGood", "saveFailed"}
        /\ job.user = authJob[c].user
    BY <1>1 DEF Then, AuthCopy, AuthCalls
  <2>2. authJob[c].next = "compare" /\ UNCHANGED authOverlaps
        /\ UNCHANGED <<user, apiKey, failures, expired, keyDead, intruders>>
        /\ \/ SetJob(c, job) /\ UNCHANGED authFaults
           \/ authFaults' = authFaults + 1 /\ SetJob(c, AuthIdle)
    BY <1>4 DEF ComparePassword, AuthStep, authGhosts
  <2> HIDE DEF job
  <2>3. CASE SetJob(c, job) /\ UNCHANGED authFaults
    <3>1. AuthKnows(c) /\ AuthMoves(c, job) => AuthKnows(c)'
      BY <2>1, <2>2 DEF AuthMoves, AuthKnows
    <3> QED
      BY <2>1, <2>2, <2>3, <3>1, AuthReadsInv
  <2>4. CASE authFaults' = authFaults + 1 /\ SetJob(c, AuthIdle)
    BY <2>2, <2>4, AuthRejectedInv
  <2> QED
    BY <2>2, <2>3, <2>4
<1>5. CASE HandleFailedLogin(c)
  <2>1. authJob[c].next = "saveFailed" /\ UNCHANGED authOverlaps /\ SetJob(c, AuthIdle)
        /\ UNCHANGED <<apiKey, expired, keyDead, intruders>>
        /\ \/ user' = AfterFailedLogin(authJob[c].user) /\ failures' = failures + 1
              /\ UNCHANGED authFaults
           \/ authFaults' = authFaults + 1 /\ UNCHANGED <<user, failures>>
    BY <1>5 DEF HandleFailedLogin, AuthStep, authGhosts
  <2>2. CASE user' = AfterFailedLogin(authJob[c].user) /\ failures' = failures + 1
             /\ UNCHANGED authFaults
    <3> DEFINE u == authJob[c].user
    <3>1. u \in User /\ u.loginAttempts \in Nat
      BY <1>2 DEF User
    <3>2. user' \in User /\ user'.exists = u.exists
          /\ user'.loginAttempts = u.loginAttempts + 1
          /\ (u.loginAttempts + 1 >= MaxAttempts => user'.locked)
      <4> DEFINE n == u.loginAttempts + 1
                 locked == n >= MaxAttempts
      <4>1. user' = [u EXCEPT !.loginAttempts = n, !.locked = locked]
        BY <2>2 DEF AfterFailedLogin
      <4>2. n \in Nat /\ locked \in BOOLEAN
        BY <3>1
      <4>3. LoggedWith(user', u, n, locked)
        <5> HIDE DEF u, n, locked
        <5> QED
          BY <3>1, <4>1, <4>2, UserWith
      <4> QED
        BY <4>3 DEF LoggedWith
    <3>3. AuthKnows(c) => u = user /\ user.exists /\ ~user.locked
      BY <2>1 DEF AuthKnows
    <3> HIDE DEF u
    <3>4. ASSUME AuthKnows(c), AuthRows
          PROVE  AuthRows'
      <4>1. u.loginAttempts = user.loginAttempts /\ user'.exists
        BY <3>2, <3>3, <3>4
      <4>2. failures < MaxAttempts /\ failures <= u.loginAttempts
        BY <1>1, <3>3, <3>4, <4>1 DEF AuthRows
      <4>3. /\ failures' <= MaxAttempts /\ failures' <= user'.loginAttempts
            /\ (failures' = MaxAttempts => user'.locked)
        BY <1>1, <2>2, <3>1, <3>2, <4>2
      <4> QED
        BY <2>1, <3>4, <4>1, <4>3 DEF AuthRows
    <3>5. failures' \in Nat
      BY <1>1, <2>2
    <3> QED
      BY <1>1, <2>1, <2>2, <3>2, <3>4, <3>5, AuthEnds DEF AuthTypes
  <2>3. CASE authFaults' = authFaults + 1 /\ UNCHANGED <<user, failures>>
    BY <2>1, <2>3, AuthRejectedInv
  <2> QED
    BY <2>1, <2>2, <2>3
<1>6. CASE SaveLogin(c)
  <2>1. authJob[c].next = "saveGood" /\ UNCHANGED authOverlaps /\ SetJob(c, AuthIdle)
        /\ UNCHANGED <<apiKey, expired, keyDead, intruders>>
        /\ \/ user' = [authJob[c].user EXCEPT !.loginAttempts = 0] /\ failures' = 0
              /\ UNCHANGED authFaults
           \/ authFaults' = authFaults + 1 /\ UNCHANGED <<user, failures>>
    BY <1>6 DEF SaveLogin, AuthStep, authGhosts
  <2>2. CASE user' = [authJob[c].user EXCEPT !.loginAttempts = 0] /\ failures' = 0
             /\ UNCHANGED authFaults
    <3>1. user' \in User /\ user'.loginAttempts = 0
      BY <1>2, <2>2 DEF User
    <3>2. AuthRows => AuthRows'
      BY <1>1, <2>1, <2>2, <3>1 DEF AuthRows
    <3> QED
      BY <1>1, <2>1, <2>2, <3>1, <3>2, AuthEnds DEF AuthTypes
  <2>3. CASE authFaults' = authFaults + 1 /\ UNCHANGED <<user, failures>>
    BY <2>1, <2>3, AuthRejectedInv
  <2> QED
    BY <2>1, <2>2, <2>3
<1> QED
  BY <1>3, <1>4, <1>5, <1>6

LEMMA AuthKeysInv ==
    ASSUME AuthInv, NEW c \in AuthCallers,
           SaveApiKey(c) \/ FindApiKey(c) \/ CompareKey(c)
    PROVE  AuthInv'
<1>1. AuthTypes /\ apiKey \in ApiKey /\ authJob[c] \in AuthCopy
  BY DEF AuthInv, AuthTypes
<1>2. CASE SaveApiKey(c)
  <2>1. authJob[c].next = "saveKey" /\ UNCHANGED authOverlaps /\ SetJob(c, AuthIdle)
        /\ UNCHANGED <<user, failures, expired, keyDead, intruders>>
        /\ \/ apiKey' = [status |-> "active", usageCount |-> 0] /\ UNCHANGED authFaults
           \/ authFaults' = authFaults + 1 /\ UNCHANGED apiKey
    BY <1>2 DEF SaveApiKey, AuthStep, authGhosts
  <2>2. CASE apiKey' = [status |-> "active", usageCount |-> 0] /\ UNCHANGED authFaults
    <3>1. apiKey' \in ApiKey
      BY <2>2 DEF ApiKey, ApiKeyStatus
    <3>2. AuthKnows(c) /\ AuthRows => AuthRows'
      BY <2>1, <2>2, AuthIdleType DEF AuthKnows, AuthRows
    <3> QED
      BY <1>1, <2>1, <2>2, <3>1, <3>2, AuthEnds DEF AuthTypes
  <2>3. CASE authFaults' = authFaults + 1 /\ UNCHANGED apiKey
    BY <2>1, <2>3, AuthRejectedInv
  <2> QED
    BY <2>1, <2>2, <2>3
<1>3. CASE FindApiKey(c)
  <2> DEFINE next == IF apiKey = NoKey THEN "idle" ELSE "compareKey"
             job == [Then(c, next) EXCEPT !.key = apiKey]
  <2>1. next \in AuthCalls /\ next \in {"idle", "compareKey"}
    BY DEF AuthCalls
  <2>2. authJob[c].next = "findKey" /\ UNCHANGED authOverlaps
        /\ UNCHANGED <<user, apiKey, failures, expired, keyDead, intruders>>
        /\ \/ SetJob(c, job) /\ UNCHANGED authFaults
           \/ authFaults' = authFaults + 1 /\ SetJob(c, AuthIdle)
    BY <1>3 DEF FindApiKey, AuthStep, authGhosts
  <2> HIDE DEF next
  <2>3. job \in AuthCopy /\ job.next = next /\ job.key = apiKey
        /\ job.late = authJob[c].late
    BY <1>1, <2>1 DEF Then, AuthCopy
  <2> HIDE DEF job
  <2>4. CASE SetJob(c, job) /\ UNCHANGED authFaults
    <3>1. AuthKnows(c) /\ AuthRows /\ AuthMoves(c, job) => AuthKnows(c)'
      BY <2>1, <2>2, <2>3 DEF AuthMoves, AuthKnows, AuthRows
    <3> QED
      BY <2>2, <2>3, <2>4, <3>1, AuthReadsInv
  <2>5. CASE authFaults' = authFaults + 1 /\ SetJob(c, AuthIdle)
    BY <2>2, <2>5, AuthRejectedInv
  <2> QED
    BY <2>2, <2>4, <2>5
<1>4. CASE CompareKey(c)
  <2> DEFINE key == authJob[c].key
             used == [Then(c, "saveUse") EXCEPT !.key.usageCount = key.usageCount + 1]
  <2>1. key \in ApiKey /\ key.usageCount \in Nat
    BY <1>1 DEF AuthCopy, ApiKey
  <2>2. authJob[c].next = "compareKey" /\ UNCHANGED authOverlaps
        /\ UNCHANGED <<user, apiKey, failures, expired, keyDead, intruders>>
        /\ \/ IsValid(key) /\ SetJob(c, used) /\ UNCHANGED authFaults
           \/ ~IsValid(key) /\ SetJob(c, AuthIdle) /\ UNCHANGED authFaults
           \/ authFaults' = authFaults + 1 /\ SetJob(c, AuthIdle)
    BY <1>4 DEF CompareKey, AuthStep, authGhosts
  <2>3. [key EXCEPT !.usageCount = key.usageCount + 1] \in ApiKey
    BY <2>1 DEF ApiKey
  <2>4. used \in AuthCopy /\ used.next = "saveUse" /\ used.late = authJob[c].late
    BY <1>1, <2>3 DEF Then, AuthCopy, AuthCalls
  <2> HIDE DEF used
  <2>5. CASE IsValid(key) /\ SetJob(c, used) /\ UNCHANGED authFaults
    <3>1. AuthKnows(c) /\ AuthRows /\ AuthMoves(c, used) => AuthKnows(c)'
      BY <2>2, <2>4, <2>5 DEF AuthMoves, AuthKnows, IsValid
    <3> QED
      BY <2>2, <2>4, <2>5, <3>1, AuthReadsInv
  <2>6. CASE ~IsValid(key) /\ SetJob(c, AuthIdle) /\ UNCHANGED authFaults
    <3>1. AuthRows => AuthRows'
      BY <2>2 DEF AuthRows
    <3> QED
      BY <1>1, <2>2, <2>6, <3>1, AuthEnds DEF AuthTypes
  <2>7. CASE authFaults' = authFaults + 1 /\ SetJob(c, AuthIdle)
    BY <2>2, <2>7, AuthRejectedInv
  <2> QED
    BY <2>2, <2>5, <2>6, <2>7
<1> QED
  BY <1>2, <1>3, <1>4

LEMMA AuthKeySavedInv ==
    ASSUME AuthInv, NEW c \in AuthCallers, SaveUse(c) \/ SaveRevokedKey(c)
    PROVE  AuthInv'
<1>1. AuthTypes /\ apiKey \in ApiKey /\ authJob[c] \in AuthCopy
  BY DEF AuthInv, AuthTypes
<1>2. authJob[c].key \in ApiKey /\ authJob[c].late \in BOOLEAN
  BY <1>1 DEF AuthCopy
<1>3. CASE SaveUse(c)
  <2>1. authJob[c].next = "saveUse" /\ UNCHANGED authOverlaps /\ SetJob(c, AuthIdle)
        /\ UNCHANGED <<user, failures, expired, keyDead>>
        /\ \/ apiKey' = authJob[c].key /\ intruders' = (intruders \/ authJob[c].late)
              /\ UNCHANGED authFaults
           \/ authFaults' = authFaults + 1 /\ UNCHANGED <<apiKey, intruders>>
    BY <1>3 DEF SaveUse, AuthStep, authGhosts
  <2>2. CASE apiKey' = authJob[c].key /\ intruders' = (intruders \/ authJob[c].late)
             /\ UNCHANGED authFaults
    <3>1. AuthKnows(c) /\ AuthRows => AuthRows'
      BY <2>1, <2>2 DEF AuthKnows, AuthRows
    <3>2. intruders' \in BOOLEAN
      BY <2>2
    <3> QED
      BY <1>1, <1>2, <2>1, <2>2, <3>1, <3>2, AuthEnds DEF AuthTypes
  <2>3. CASE authFaults' = authFaults + 1 /\ UNCHANGED <<apiKey, intruders>>
    BY <2>1, <2>3, AuthRejectedInv
  <2> QED
    BY <2>1, <2>2, <2>3
<1>4. CASE SaveRevokedKey(c)
  <2>1. authJob[c].next = "saveRevoked" /\ UNCHANGED authOverlaps /\ SetJob(c, AuthIdle)
        /\ UNCHANGED <<user, failures, expired, intruders>>
        /\ \/ apiKey' = authJob[c].key /\ keyDead' = TRUE /\ UNCHANGED authFaults
           \/ authFaults' = authFaults + 1 /\ UNCHANGED <<apiKey, keyDead>>
    BY <1>4 DEF SaveRevokedKey, AuthStep, authGhosts
  <2>2. CASE apiKey' = authJob[c].key /\ keyDead' = TRUE /\ UNCHANGED authFaults
    <3>1. AuthKnows(c) /\ AuthRows => AuthRows'
      BY <2>1, <2>2 DEF AuthKnows, AuthRows
    <3> QED
      BY <1>1, <1>2, <2>1, <2>2, <3>1, AuthEnds DEF AuthTypes
  <2>3. CASE authFaults' = authFaults + 1 /\ UNCHANGED <<apiKey, keyDead>>
    BY <2>1, <2>3, AuthRejectedInv
  <2> QED
    BY <2>1, <2>2, <2>3
<1> QED
  BY <1>3, <1>4

\* The clock: a lock ends, or the key expires.
LEMMA AuthClockInv ==
    ASSUME AuthInv, LockEnds \/ KeyExpires
    PROVE  AuthInv'
<1>1. AuthTypes /\ user \in User /\ MaxAttempts \in Nat \ {0}
  BY AuthAssumption DEF AuthInv, AuthTypes
<1>2. CASE LockEnds
  <2>1. /\ user.locked /\ user' = [user EXCEPT !.locked = FALSE] /\ failures' = 0
        /\ UNCHANGED <<apiKey, authJob, expired, keyDead, intruders, authFaults,
                       authOverlaps>>
    BY <1>2 DEF LockEnds
  <2>2. user' \in User /\ user'.loginAttempts \in Nat
    BY <1>1, <2>1 DEF User
  <2>3. AuthTypes'
    BY <1>1, <2>1, <2>2 DEF AuthTypes
  <2>4. AuthAlone => AuthAlone'
    BY <2>1 DEF AuthAlone
  <2>5. ASSUME NEW c \in AuthCallers, AuthKnows(c)
        PROVE  AuthKnows(c)'
    <3>1. authJob[c].next \notin {"compare", "saveFailed", "saveGood"}
      BY <2>1, <2>5 DEF AuthKnows
    <3> QED
      BY <2>1, <2>5, <3>1 DEF AuthKnows
  <2>6. AuthRows => AuthRows'
    BY <1>1, <2>1, <2>2 DEF AuthRows
  <2> QED
    BY <2>1, <2>3, <2>4, <2>5, <2>6 DEF AuthInv, AuthAloneInv
<1>3. CASE KeyExpires
  <2>1. /\ expired' = TRUE
        /\ UNCHANGED <<user, apiKey, authJob, failures, keyDead, intruders, authFaults,
                       authOverlaps>>
    BY <1>3 DEF KeyExpires
  <2>2. AuthTypes'
    BY <1>1, <2>1 DEF AuthTypes
  <2>3. AuthAlone => AuthAlone'
    BY <2>1 DEF AuthAlone
  <2>4. ASSUME NEW c \in AuthCallers, AuthKnows(c)
        PROVE  AuthKnows(c)'
    BY <2>1, <2>4 DEF AuthKnows
  <2>5. AuthRows => AuthRows'
    BY <2>1 DEF AuthRows
  <2> QED
    BY <2>1, <2>2, <2>3, <2>4, <2>5 DEF AuthInv, AuthAloneInv
<1> QED
  BY <1>2, <1>3

LEMMA AuthInitInv == AuthInit => AuthInv
<1> SUFFICES ASSUME AuthInit
             PROVE  AuthInv
  OBVIOUS
<1>1. AuthTypes
  BY AuthIdleType DEF AuthInit, AuthTypes
<1>2. \A c \in AuthCallers : authJob[c].next = "idle"
  BY AuthIdleType DEF AuthInit
<1>3. \A c \in AuthCallers : AuthKnows(c)
  BY <1>2 DEF AuthKnows
<1>4. AuthRows
  BY AuthIdleType, AuthAssumption DEF AuthInit, AuthRows
<1> QED
  BY <1>1, <1>2, <1>3, <1>4 DEF AuthInv, AuthAloneInv, AuthAlone

LEMMA AuthNextInv == AuthInv /\ [AuthSteps]_authVars => AuthInv'
<1> SUFFICES ASSUME AuthInv, [AuthSteps]_authVars
             PROVE  AuthInv'
  OBVIOUS
<1>1. CASE LockEnds \/ KeyExpires
  BY <1>1, AuthClockInv
<1>2. ASSUME NEW c \in AuthCallers,
             \/ Register(c) \/ SaveUser(c) \/ Login(c) \/ ComparePassword(c)
             \/ HandleFailedLogin(c) \/ SaveLogin(c) \/ CreateApiKey(c) \/ SaveApiKey(c)
             \/ ValidateApiKey(c) \/ FindApiKey(c) \/ CompareKey(c) \/ SaveUse(c)
             \/ RevokeApiKey(c) \/ SaveRevokedKey(c)
      PROVE  AuthInv'
  BY <1>2, AuthStartsInv, AuthUsersInv, AuthKeysInv, AuthKeySavedInv
<1>3. CASE UNCHANGED authVars
  BY <1>3 DEF AuthInv, AuthTypes, AuthAloneInv, AuthAlone, AuthKnows, AuthRows, authVars
<1> QED
  BY <1>1, <1>2, <1>3 DEF AuthSteps

\* Whatever fails, while requests do not overlap: handleFailedLogin counts every
\* failed login in the row and locks it at the allowed number, and no request is
\* let in by an API key that revokeApiKey had revoked, or whose time had passed,
\* when validateApiKey began.
THEOREM LocksCorrect == AuthSpec => []LocksHold
<1>1. AuthInv => LocksHold
  BY DEF AuthInv, AuthAloneInv, AuthRows, LocksHold
<1> QED
  BY <1>1, AuthInitInv, AuthNextInv, PTL DEF AuthSpec

-----------------------------------------------------------------------------
(* Caches                                                                   *)

CachesSpec == CachesInit /\ [][CachesNext]_cacheVars

Versions == 0 .. MaxVersions

CacheCalls == {"idle", "responseGet", "queryGet", "query", "querySet", "responseSet",
               "listGet", "listQuery", "listSet"}

CacheRequest == [next : CacheCalls, version : Versions, found : BOOLEAN, slack : Nat,
                 at : Nat, read : BOOLEAN, table : Tables]

CacheTypes ==
    /\ now \in Nat /\ version \in Versions /\ present \in BOOLEAN
    /\ superseded \in [Versions -> Nat]
    /\ queryEntry \in Entry /\ responseEntry \in Entry
    /\ listEntry \in ListEntry
    /\ cacheJob \in [Readers -> CacheRequest]
    /\ tooStale \in BOOLEAN

\* Data of version v with slack s, asked for at t, was current at most ttl before.
Fresh(old, v, s, ttl, t) == t <= old[v] + s + ttl

\* An entry is fresh until it expires, which is within its time to live.
EntryFresh(old, n, e, ttl, age) ==
    e.expires <= n + ttl /\ Fresh(old, e.version, e.slack, age, e.expires)

\* So is what a request carries; what it read of the row itself has no slack.
JobFresh(old, n, j) ==
    /\ j.at <= n
    /\ j.next \in {"responseGet", "queryGet", "query", "querySet"} => j.slack = 0
    /\ j.next = "querySet" /\ j.found => Fresh(old, j.version, 0, 0, j.at)
    /\ j.next = "listSet" /\ j.found => Fresh(old, j.version, 0, 0, j.at)
    /\ j.next = "responseSet" /\ j.found => Fresh(old, j.version, j.slack, QueryTtl, j.at)

\* A list that has the row is as fresh as an entry of it.
ListGood(old, n, e) ==
    e \in ListEntry /\ (e.found => EntryFresh(old, n, e, QueryTtl, QueryTtl))

\* Versions from the present one on are not superseded, which is to say not before
\* the end of time.
NotSuperseded ==
    \A v \in Versions : v > version \/ (v = version /\ present) => superseded[v] = MaxTime + 1

CachesInv ==
    /\ CacheTypes /\ now <= MaxTime /\ NotSuperseded
    /\ EntryFresh(superseded, now, queryEntry, QueryTtl, QueryTtl)
    /\ EntryFresh(superseded, now, responseEntry, ResponseTtl, QueryTtl + ResponseTtl)
    /\ \A c \in Readers : JobFresh(superseded, now, cacheJob[c])
    /\ ListGood(superseded, now, listEntry) /\ StalenessBounded

LEMMA CacheIdleType ==
    /\ CacheIdle \in CacheRequest /\ CacheIdle.next = "idle"
    /\ CacheIdle.at = 0 /\ CacheIdle.slack = 0
<1>1. 0 \in Versions
  BY CachesAssumption DEF Versions
<1> QED
  BY <1>1 DEF CacheIdle, CacheRequest, CacheCalls, Tables

LEMMA CachesStart == CachesInit => CachesInv
<1> SUFFICES ASSUME CachesInit
             PROVE  CachesInv
  OBVIOUS
<1> USE CachesAssumption
<1>1. CacheIdle \in CacheRequest /\ CacheIdle.next = "idle" /\ CacheIdle.at = 0
  BY CacheIdleType
<1>2. /\ NoEntry \in Entry /\ NoEntry.expires = 0 /\ NoEntry.version \in Versions
      /\ NoList \in ListEntry /\ ~NoList.found
      /\ NoEntry.slack = 0
  BY DEF NoEntry, Entry, Versions, NoList, ListEntry
<1>3. /\ superseded \in [Versions -> Nat] /\ version \in Versions
      /\ \A v \in Versions : superseded[v] = MaxTime + 1
  BY DEF CachesInit, Versions
<1>4. CacheTypes
  <2>1. cacheJob \in [Readers -> CacheRequest]
    BY <1>1 DEF CachesInit
  <2>2. /\ now \in Nat /\ present \in BOOLEAN /\ tooStale \in BOOLEAN
        /\ queryEntry \in Entry /\ responseEntry \in Entry
        /\ listEntry \in ListEntry
    BY <1>2 DEF CachesInit
  <2> QED
    BY <1>3, <2>1, <2>2 DEF CacheTypes
<1>5. NotSuperseded /\ now = 0 /\ now <= MaxTime
  BY <1>3 DEF NotSuperseded, CachesInit
<1>6. \A ttl, age \in Nat : EntryFresh(superseded, now, NoEntry, ttl, age)
  BY <1>2, <1>3, <1>5 DEF EntryFresh, Fresh
<1>7. \A c \in Readers : JobFresh(superseded, now, cacheJob[c])
  <2>1. ASSUME NEW c \in Readers
        PROVE  cacheJob[c] = CacheIdle
    BY DEF CachesInit
  <2>2. JobFresh(superseded, now, CacheIdle)
    BY <1>1, <1>5 DEF JobFresh
  <2> QED
    BY <2>1, <2>2
<1>8. ListGood(superseded, now, listEntry)
  BY <1>2 DEF ListGood, CachesInit
<1>9. StalenessBounded
  BY DEF StalenessBounded, CachesInit
<1> QED
  BY <1>4, <1>5, <1>6, <1>7, <1>8, <1>9 DEF CachesInv, CachesInit

\* Time and versions go on: what was fresh stays it.
LEMMA EntryStill ==
    ASSUME NEW old \in [Versions -> Nat], NEW n \in Nat, NEW e \in Entry, NEW ttl \in Nat,
           NEW age \in Nat, ttl <= age, EntryFresh(old, n, e, ttl, age)
    PROVE  /\ EntryFresh(old, n + 1, e, ttl, age)
           /\ \A w \in Versions : EntryFresh([old EXCEPT ![w] = n], n, e, ttl, age)
BY DEF EntryFresh, Fresh, Entry, Versions

LEMMA JobStill ==
    ASSUME NEW old \in [Versions -> Nat], NEW n \in Nat, NEW j \in CacheRequest,
           QueryTtl \in Nat, JobFresh(old, n, j)
    PROVE  /\ JobFresh(old, n + 1, j)
           /\ \A w \in Versions : JobFresh([old EXCEPT ![w] = n], n, j)
BY DEF JobFresh, Fresh, CacheRequest

LEMMA NoEntryFresh ==
    ASSUME NEW old \in [Versions -> Nat], NEW n \in Nat, NEW ttl \in Nat, NEW age \in Nat
    PROVE  NoEntry \in Entry /\ EntryFresh(old, n, NoEntry, ttl, age)
BY CachesAssumption DEF NoEntry, Entry, EntryFresh, Fresh, Versions

JobGood(old, n, j) == j \in CacheRequest /\ JobFresh(old, n, j)

JobsGood(old, n, js) ==
    /\ js \in [Readers -> CacheRequest]
    /\ \A c \in Readers : JobGood(old, n, js[c])

LEMMA ListStill ==
    ASSUME NEW old \in [Versions -> Nat], NEW n \in Nat, NEW e, ListGood(old, n, e)
    PROVE  /\ ListGood(old, n + 1, e)
           /\ \A w \in Versions : ListGood([old EXCEPT ![w] = n], n, e)
BY CachesAssumption DEF ListGood, EntryFresh, Fresh, ListEntry, Versions

LEMMA CachesNow ==
    ASSUME CachesInv
    PROVE  /\ now \in Nat /\ version \in Versions /\ present \in BOOLEAN
           /\ superseded \in [Versions -> Nat]
           /\ queryEntry \in Entry /\ responseEntry \in Entry
           /\ tooStale = FALSE /\ now <= MaxTime
           /\ EntryFresh(superseded, now, queryEntry, QueryTtl, QueryTtl)
           /\ EntryFresh(superseded, now, responseEntry, ResponseTtl, QueryTtl + ResponseTtl)
           /\ JobsGood(superseded, now, cacheJob)
           /\ ListGood(superseded, now, listEntry)
BY DEF CachesInv, CacheTypes, JobsGood, JobGood, StalenessBounded

LEMMA OneJobMoves ==
    ASSUME NEW old, NEW n,
           NEW c \in Readers, NEW k, NEW js, JobsGood(old, n, js),
           JobGood(old, n, k)
    PROVE  JobsGood(old, n, [js EXCEPT ![c] = k])
<1>1. js \in [Readers -> CacheRequest] /\ k \in CacheRequest
  BY DEF JobsGood, JobGood
<1>2. \A d \in Readers : JobGood(old, n, js[d])
  BY DEF JobsGood, JobGood
<1> QED
  BY <1>1, <1>2 DEF JobsGood

\* What has to be shown of a step that takes no time and leaves the row.
LEMMA RowRests ==
    ASSUME CachesInv, now' = now, version' = version, present' = present,
           superseded' = superseded,
           queryEntry' \in Entry, responseEntry' \in Entry,
           EntryFresh(superseded, now, queryEntry', QueryTtl, QueryTtl),
           EntryFresh(superseded, now, responseEntry', ResponseTtl, QueryTtl + ResponseTtl),
           JobsGood(superseded, now, cacheJob'),
           ListGood(superseded, now, listEntry'),
           tooStale' = FALSE
    PROVE  CachesInv'
<1>1. CacheTypes'
  BY CachesNow DEF CacheTypes, JobsGood, ListGood
<1>2. now' <= MaxTime /\ NotSuperseded'
  BY CachesNow DEF CachesInv, NotSuperseded
<1>3. /\ EntryFresh(superseded', now', queryEntry', QueryTtl, QueryTtl)
      /\ EntryFresh(superseded', now', responseEntry', ResponseTtl, QueryTtl + ResponseTtl)
  OBVIOUS
<1>4. \A c \in Readers : JobFresh(superseded', now', cacheJob'[c])
  BY DEF JobsGood, JobGood
<1>5. StalenessBounded'
  BY DEF StalenessBounded
<1> QED
  BY <1>1, <1>2, <1>3, <1>4, <1>5 DEF CachesInv

\* An answer that is fresh is not too stale.
LEMMA FreshAnswer ==
    ASSUME NEW v \in Versions, NEW s \in Nat, NEW ttl \in Nat, NEW t \in Nat,
           superseded \in [Versions -> Nat], now \in Nat, tooStale = FALSE,
           now <= t, Fresh(superseded, v, s, ttl, t), CacheAnswer(v, ttl, s)
    PROVE  tooStale' = FALSE
<1>1. ~(superseded[v] < now /\ now - superseded[v] > ttl + s)
  BY DEF Fresh
<1>2. tooStale' = (tooStale \/ (superseded[v] < now /\ now - superseded[v] > ttl + s))
  BY DEF CacheAnswer
<1>3. tooStale' = FALSE
  BY <1>1, <1>2, Zenon
<1> QED
  BY <1>3 DEF CacheAnswer

LEMMA CacheIdleGood ==
    ASSUME NEW old, NEW n \in Nat
    PROVE  JobGood(old, n, CacheIdle)
<1>1. CacheIdle \in CacheRequest /\ CacheIdle.next = "idle" /\ CacheIdle.at = 0
  BY CacheIdleType
<1> QED
  BY <1>1 DEF JobGood, JobFresh

\* The fields of a request that goes on to another call.
LEMMA OnwardFields ==
    ASSUME NEW j \in CacheRequest, NEW next \in CacheCalls
    PROVE  /\ [j EXCEPT !.next = next] \in CacheRequest
           /\ [j EXCEPT !.next = next].next = next
           /\ [j EXCEPT !.next = next].version = j.version
           /\ [j EXCEPT !.next = next].found = j.found
           /\ [j EXCEPT !.next = next].slack = j.slack
           /\ [j EXCEPT !.next = next].at = j.at
           /\ [j EXCEPT !.next = next].table = j.table
BY DEF CacheRequest

\* From a call to the next one that carries no version.
LEMMA GoesOn ==
    ASSUME NEW old, NEW n, NEW j, JobGood(old, n, j),
           NEW next \in CacheCalls,
           \/ j.next = "responseGet" /\ next = "queryGet"
           \/ j.next = "queryGet" /\ next = "query"
           \/ j.next = "listGet" /\ next = "listQuery"
    PROVE  JobGood(old, n, [j EXCEPT !.next = next])
<1> DEFINE k == [j EXCEPT !.next = next]
<1>1. /\ k \in CacheRequest /\ k.next = next /\ k.slack = j.slack /\ k.at = j.at
      /\ k.table = j.table
  BY OnwardFields DEF JobGood
<1> HIDE DEF k
<1>2. JobGood(old, n, k)
  BY <1>1 DEF JobGood, JobFresh
<1> QED
  BY <1>2 DEF k

\* A get that finds nothing leaves everything but the request.
LEMMA MissKeeps ==
    ASSUME CachesInv, NEW c \in Readers, NEW k, JobGood(superseded, now, k),
           cacheJob' = [cacheJob EXCEPT ![c] = k], now' = now, version' = version,
           present' = present, superseded' = superseded, queryEntry' = queryEntry,
           responseEntry' = responseEntry, listEntry' = listEntry,
           tooStale' = FALSE
    PROVE  CachesInv'
<1>1. JobsGood(superseded, now, cacheJob')
  BY CachesNow, OneJobMoves
<1>2. ListGood(superseded, now, listEntry')
  BY CachesNow
<1>3. /\ queryEntry' \in Entry /\ responseEntry' \in Entry
      /\ EntryFresh(superseded, now, queryEntry', QueryTtl, QueryTtl)
      /\ EntryFresh(superseded, now, responseEntry', ResponseTtl, QueryTtl + ResponseTtl)
  BY CachesNow
<1> QED
  BY <1>1, <1>2, <1>3, RowRests

LEMMA GetByIdKeeps ==
    ASSUME CachesInv, NEW c \in Readers, GetById(c)
    PROVE  CachesInv'
<1> DEFINE k == [CacheIdle EXCEPT !.next = "responseGet", !.read = TRUE]
<1>1. k \in CacheRequest /\ k.next = "responseGet" /\ k.at = 0 /\ k.slack = 0
  BY CacheIdleType DEF CacheRequest, CacheCalls
<1>2. cacheJob' = [cacheJob EXCEPT ![c] = k]
  BY DEF GetById, CacheBegin
<1> HIDE DEF k
<1>3. JobGood(superseded, now, k)
  BY <1>1, CachesNow DEF JobGood, JobFresh
<1> QED
  BY <1>2, <1>3, CachesNow, MissKeeps DEF GetById, rowState, entries

LEMMA ResponseGetKeeps ==
    ASSUME CachesInv, NEW c \in Readers, ResponseGet(c)
    PROVE  CachesInv'
<1>1. /\ now' = now /\ version' = version /\ present' = present
      /\ superseded' = superseded /\ queryEntry' = queryEntry
      /\ responseEntry' = responseEntry /\ listEntry' = listEntry
  BY DEF ResponseGet, rowState, entries
<1>2. CASE /\ Stored(responseEntry)
           /\ CacheAnswer(responseEntry.version, QueryTtl + ResponseTtl, responseEntry.slack)
           /\ CacheGoto(c, CacheIdle)
  <2>1. /\ responseEntry.version \in Versions /\ responseEntry.slack \in Nat
        /\ responseEntry.expires \in Nat /\ now <= responseEntry.expires
        /\ QueryTtl + ResponseTtl \in Nat
    BY <1>2, CachesNow, CachesAssumption DEF Entry, Stored, Versions
  <2>2. Fresh(superseded, responseEntry.version, responseEntry.slack,
              QueryTtl + ResponseTtl, responseEntry.expires)
    BY CachesNow DEF EntryFresh
  <2>3. tooStale' = FALSE
    BY <1>2, <2>1, <2>2, CachesNow, FreshAnswer
  <2>4. JobGood(superseded, now, CacheIdle)
    BY CachesNow, CacheIdleGood
  <2> QED
    BY <1>1, <1>2, <2>3, <2>4, CachesNow, MissKeeps DEF CacheGoto
<1>3. CASE /\ cacheJob[c].next = "responseGet"
           /\ CacheGoto(c, CacheThen(c, "queryGet")) /\ UNCHANGED tooStale
  <2> DEFINE k == [cacheJob[c] EXCEPT !.next = "queryGet"]
  <2>1. JobGood(superseded, now, k)
    BY <1>3, CachesNow, GoesOn DEF CacheCalls, JobsGood
  <2>2. cacheJob' = [cacheJob EXCEPT ![c] = k]
    BY <1>3 DEF CacheGoto, CacheThen
  <2>3. tooStale' = tooStale
    BY <1>3
  <2> HIDE DEF k
  <2>4. JobGood(superseded, now, k)
    BY <1>1, <2>1
  <2> QED
    BY <1>1, <2>2, <2>3, <2>4, CachesNow, MissKeeps
<1> QED
  BY <1>2, <1>3 DEF ResponseGet

\* A hit goes out and is to be stored, or is the end.
LEMMA RespondGood ==
    ASSUME CachesInv, NEW c \in Readers, NEW j \in CacheRequest, Respond(c, j),
           j.at <= now, j.found => Fresh(superseded, j.version, j.slack, QueryTtl, j.at)
    PROVE  \E k : cacheJob' = [cacheJob EXCEPT ![c] = k]
                  /\ JobGood(superseded, now, k)
<1>1. CASE j.read
  <2> DEFINE k == [j EXCEPT !.next = "responseSet"]
  <2>1. cacheJob' = [cacheJob EXCEPT ![c] = k]
    BY <1>1 DEF Respond, CacheGoto
  <2>2. /\ k \in CacheRequest /\ k.next = "responseSet" /\ k.version = j.version
        /\ k.found = j.found /\ k.slack = j.slack /\ k.at = j.at
    BY OnwardFields DEF CacheCalls
  <2> HIDE DEF k
  <2>3. JobGood(superseded, now, k)
    BY <2>2 DEF JobGood, JobFresh
  <2> QED
    BY <2>1, <2>3
<1>2. CASE ~j.read
  <2>1. cacheJob' = [cacheJob EXCEPT ![c] = CacheIdle]
    BY <1>2 DEF Respond, CacheGoto
  <2> QED
    BY <2>1, CachesNow, CacheIdleGood
<1> QED
  BY <1>1, <1>2

LEMMA QueryGetKeeps ==
    ASSUME CachesInv, NEW c \in Readers, QueryGet(c)
    PROVE  CachesInv'
<1>1. /\ now' = now /\ version' = version /\ present' = present
      /\ superseded' = superseded /\ queryEntry' = queryEntry
      /\ responseEntry' = responseEntry /\ listEntry' = listEntry
  BY DEF QueryGet, rowState, entries
<1> DEFINE j == [cacheJob[c] EXCEPT !.version = queryEntry.version, !.at = now,
                                    !.slack = queryEntry.slack]
<1>2. CASE /\ Stored(queryEntry)
           /\ CacheAnswer(queryEntry.version, QueryTtl, queryEntry.slack)
           /\ Respond(c, j)
  <2>1. /\ queryEntry.version \in Versions /\ queryEntry.slack \in Nat
        /\ queryEntry.expires \in Nat /\ now <= queryEntry.expires
    BY <1>2, CachesNow DEF Entry, Stored, Versions
  <2>2. Fresh(superseded, queryEntry.version, queryEntry.slack, QueryTtl,
              queryEntry.expires)
    BY CachesNow DEF EntryFresh
  <2>3. tooStale' = FALSE
    BY <1>2, <2>1, <2>2, CachesNow, CachesAssumption, FreshAnswer
  <2>4. Fresh(superseded, queryEntry.version, queryEntry.slack, QueryTtl, now)
    BY <2>1, <2>2, CachesNow, CachesAssumption DEF Fresh
  <2>5. /\ j \in CacheRequest /\ j.at = now /\ j.version = queryEntry.version
        /\ j.slack = queryEntry.slack
    <3>1. cacheJob[c] \in CacheRequest
      BY CachesNow DEF JobsGood
    <3> QED
      BY <2>1, <3>1, CachesNow DEF CacheRequest
  <2> HIDE DEF j
  <2>6. \E k : cacheJob' = [cacheJob EXCEPT ![c] = k]
                 /\ JobGood(superseded, now, k)
    BY <1>1, <1>2, <2>4, <2>5, CachesNow, RespondGood
  <2> QED
    BY <1>1, <2>3, <2>6, CachesNow, MissKeeps
<1>3. CASE /\ cacheJob[c].next = "queryGet"
           /\ CacheGoto(c, CacheThen(c, "query")) /\ UNCHANGED tooStale
  <2> DEFINE k == [cacheJob[c] EXCEPT !.next = "query"]
  <2>1. JobGood(superseded, now, k)
    BY <1>3, CachesNow, GoesOn DEF CacheCalls, JobsGood
  <2>2. cacheJob' = [cacheJob EXCEPT ![c] = k]
    BY <1>3 DEF CacheGoto, CacheThen
  <2>3. tooStale' = tooStale
    BY <1>3
  <2> HIDE DEF k
  <2>4. JobGood(superseded, now, k)
    BY <1>1, <2>1
  <2> QED
    BY <1>1, <2>2, <2>3, <2>4, CachesNow, MissKeeps
<1> QED
  BY <1>2, <1>3 DEF QueryGet

LEMMA QueryKeeps ==
    ASSUME CachesInv, NEW c \in Readers, Query(c)
    PROVE  CachesInv'
<1>1. /\ now' = now /\ version' = version /\ present' = present
      /\ superseded' = superseded /\ queryEntry' = queryEntry
      /\ responseEntry' = responseEntry /\ listEntry' = listEntry
      /\ tooStale' = tooStale
  BY DEF Query, rowState, entries
<1> DEFINE j == cacheJob[c]
           k == [[j EXCEPT !.next = "querySet"] EXCEPT
                   !.version = version, !.found = present, !.at = now]
<1>2. CASE cacheJob' = [cacheJob EXCEPT ![c] = k]
  <2>1. j \in CacheRequest /\ j.next = "query" /\ j.slack = 0
    BY CachesNow DEF Query, JobsGood, JobGood, JobFresh
  <2>2. /\ k \in CacheRequest /\ k.next = "querySet" /\ k.slack = 0
        /\ k.version = version /\ k.found = present /\ k.at = now
    <3>1. /\ [j EXCEPT !.next = "querySet"] \in CacheRequest
          /\ [j EXCEPT !.next = "querySet"].next = "querySet"
          /\ [j EXCEPT !.next = "querySet"].slack = 0
      BY <2>1, OnwardFields DEF CacheCalls
    <3> QED
      BY <3>1, CachesNow DEF CacheRequest
  <2>3. present => superseded[version] = MaxTime + 1
    BY CachesNow DEF CachesInv, NotSuperseded
  <2> HIDE DEF k
  <2>4. JobFresh(superseded, now, k)
    BY <2>2, <2>3, CachesNow, CachesAssumption DEF JobFresh, Fresh
  <2>5. JobGood(superseded, now, k)
    BY <2>2, <2>4 DEF JobGood
  <2> QED
    BY <1>1, <1>2, <2>5, CachesNow, MissKeeps
<1>3. CASE cacheJob' = [cacheJob EXCEPT ![c] = CacheIdle]
  <2>1. JobGood(superseded, now, CacheIdle)
    BY CachesNow, CacheIdleGood
  <2> QED
    BY <1>1, <1>3, <2>1, CachesNow, MissKeeps
<1> QED
  BY <1>2, <1>3 DEF Query, CacheGoto, CacheThen

\* An entry that is filled is fresh for what the version was, and its own time to live.
LEMMA FilledFresh ==
    ASSUME NEW old \in [Versions -> Nat], now \in Nat, NEW j \in CacheRequest, NEW ttl \in Nat,
           NEW age \in Nat, j.at <= now, j.found => Fresh(old, j.version, j.slack, age, j.at)
    PROVE  /\ Filled(j, ttl) \in Entry
           /\ EntryFresh(old, now, Filled(j, ttl), ttl, age + ttl)
<1>1. CASE j.found
  <2> DEFINE e == [version |-> j.version, expires |-> now + ttl,
                   slack |-> j.slack + now - j.at]
  <2>1. /\ j.version \in Versions /\ j.slack \in Nat /\ j.at \in Nat
        /\ j.slack + now - j.at \in Nat
    BY DEF CacheRequest
  <2>2. e \in Entry /\ e.version = j.version /\ e.expires = now + ttl
        /\ e.slack = j.slack + now - j.at
    BY <2>1 DEF Entry, Versions
  <2>3. Filled(j, ttl) = e
    BY <1>1 DEF Filled
  <2> HIDE DEF e
  <2>4. EntryFresh(old, now, e, ttl, age + ttl)
    BY <1>1, <2>1, <2>2 DEF EntryFresh, Fresh
  <2> QED
    BY <2>2, <2>3, <2>4
<1>2. CASE ~j.found
  <2>1. Filled(j, ttl) = NoEntry
    BY <1>2 DEF Filled
  <2> QED
    BY <2>1, NoEntryFresh
<1> QED
  BY <1>1, <1>2

LEMMA QuerySetKeeps ==
    ASSUME CachesInv, NEW c \in Readers, QuerySet(c)
    PROVE  CachesInv'
<1> DEFINE j == cacheJob[c]
<1>1. /\ now' = now /\ version' = version /\ present' = present
      /\ superseded' = superseded
      /\ responseEntry' = responseEntry /\ listEntry' = listEntry
  BY DEF QuerySet, rowState
<1>2. /\ j \in CacheRequest /\ j.next = "querySet" /\ j.slack = 0 /\ j.at <= now
      /\ j.found => Fresh(superseded, j.version, 0, 0, j.at)
  BY CachesNow DEF QuerySet, JobsGood, JobGood, JobFresh
<1>3. /\ Fills(queryEntry, queryEntry', Filled(j, QueryTtl))
      /\ IF j.found THEN CacheAnswer(j.version, QueryTtl, now - j.at)
         ELSE UNCHANGED tooStale
      /\ Respond(c, j)
  BY DEF QuerySet
<1> HIDE DEF j
<1>4. j.version \in Versions /\ j.at \in Nat
  BY <1>2 DEF CacheRequest
<1>5. Filled(j, QueryTtl) \in Entry
      /\ EntryFresh(superseded, now, Filled(j, QueryTtl), QueryTtl, QueryTtl)
  <2>1. /\ Filled(j, QueryTtl) \in Entry
        /\ EntryFresh(superseded, now, Filled(j, QueryTtl), QueryTtl, 0 + QueryTtl)
    BY <1>2, CachesNow, CachesAssumption, FilledFresh
  <2>2. 0 + QueryTtl = QueryTtl
    BY CachesAssumption
  <2> QED
    BY <2>1, <2>2
<1>6. queryEntry' \in Entry /\ EntryFresh(superseded, now, queryEntry', QueryTtl, QueryTtl)
  BY <1>3, <1>5, CachesNow DEF Fills
<1>7. tooStale' = FALSE
  <2>1. CASE j.found
    <3>1. now - j.at \in Nat
      BY <1>2, <1>4, CachesNow
    <3>2. Fresh(superseded, j.version, now - j.at, QueryTtl, now)
      BY <1>2, <1>4, <2>1, CachesNow, CachesAssumption DEF Fresh
    <3>3. CacheAnswer(j.version, QueryTtl, now - j.at)
      BY <1>3, <2>1
    <3>4. now <= now
      BY CachesNow
    <3> QED
      BY <1>4, <3>1, <3>2, <3>3, <3>4, CachesNow, CachesAssumption, FreshAnswer
  <2>2. CASE ~j.found
    BY <1>3, <2>2, CachesNow
  <2> QED
    BY <2>1, <2>2
<1>8. JobsGood(superseded, now, cacheJob')
  <2>1. j.found => Fresh(superseded, j.version, j.slack, QueryTtl, j.at)
    BY <1>2, <1>4, CachesNow, CachesAssumption DEF Fresh
  <2>2. PICK k : cacheJob' = [cacheJob EXCEPT ![c] = k]
                   /\ JobGood(superseded, now, k)
    BY <1>1, <1>2, <1>3, <2>1, RespondGood
  <2> QED
    BY <1>1, <2>2, CachesNow, OneJobMoves
<1>9. /\ ListGood(superseded, now, listEntry') /\ responseEntry' \in Entry
      /\ EntryFresh(superseded, now, responseEntry', ResponseTtl, QueryTtl + ResponseTtl)
  BY <1>1, CachesNow
<1> QED
  BY <1>1, <1>6, <1>7, <1>8, <1>9, CachesNow, RowRests

LEMMA ResponseSetKeeps ==
    ASSUME CachesInv, NEW c \in Readers, ResponseSet(c)
    PROVE  CachesInv'
<1> DEFINE j == cacheJob[c]
<1>1. /\ now' = now /\ version' = version /\ present' = present
      /\ superseded' = superseded /\ tooStale' = tooStale
      /\ queryEntry' = queryEntry /\ listEntry' = listEntry
  BY DEF ResponseSet, rowState
<1>2. /\ j \in CacheRequest /\ j.at <= now
      /\ j.found => Fresh(superseded, j.version, j.slack, QueryTtl, j.at)
  BY CachesNow DEF ResponseSet, JobsGood, JobGood, JobFresh
<1>3. Fills(responseEntry, responseEntry', Filled(j, ResponseTtl))
  BY DEF ResponseSet
<1>4. \/ cacheJob' = [cacheJob EXCEPT ![c] = CacheIdle]
      \/ cacheJob' = [d \in Readers |-> CacheIdle]
  BY DEF ResponseSet, CacheGoto
<1> HIDE DEF j
<1>5. Filled(j, ResponseTtl) \in Entry
      /\ EntryFresh(superseded, now, Filled(j, ResponseTtl), ResponseTtl,
                    QueryTtl + ResponseTtl)
  BY <1>2, CachesNow, CachesAssumption, FilledFresh
<1>6. responseEntry' \in Entry
      /\ EntryFresh(superseded, now, responseEntry', ResponseTtl, QueryTtl + ResponseTtl)
  BY <1>3, <1>5, CachesNow DEF Fills
<1>7. JobsGood(superseded, now, cacheJob')
  <2>1. JobGood(superseded, now, CacheIdle)
    BY CachesNow, CacheIdleGood
  <2>2. CASE cacheJob' = [cacheJob EXCEPT ![c] = CacheIdle]
    BY <1>1, <2>1, <2>2, CachesNow, OneJobMoves
  <2>3. CASE cacheJob' = [d \in Readers |-> CacheIdle]
    BY <2>1, <2>3 DEF JobsGood, JobGood
  <2> QED
    BY <1>4, <2>2, <2>3
<1>8. /\ ListGood(superseded, now, listEntry') /\ queryEntry' \in Entry
      /\ EntryFresh(superseded, now, queryEntry', QueryTtl, QueryTtl)
  BY <1>1, CachesNow
<1> QED
  BY <1>1, <1>6, <1>7, <1>8, CachesNow, RowRests

LEMMA FindAllKeeps ==
    ASSUME CachesInv, NEW c \in Readers, NEW table \in Tables, FindAll(c, table)
    PROVE  CachesInv'
<1> DEFINE k == [CacheIdle EXCEPT !.next = "listGet", !.table = table]
<1>1. /\ now' = now /\ version' = version /\ present' = present
      /\ superseded' = superseded /\ queryEntry' = queryEntry
      /\ responseEntry' = responseEntry /\ listEntry' = listEntry
      /\ tooStale' = tooStale
  BY DEF FindAll, rowState, entries
<1>2. k \in CacheRequest /\ k.next = "listGet" /\ k.at = 0
  BY CacheIdleType DEF CacheRequest, CacheCalls
<1>3. cacheJob' = [cacheJob EXCEPT ![c] = k]
  BY DEF FindAll, CacheBegin
<1> HIDE DEF k
<1>4. JobGood(superseded, now, k)
  BY <1>2, CachesNow DEF JobGood, JobFresh
<1> QED
  BY <1>1, <1>3, <1>4, CachesNow, MissKeeps

LEMMA ListGetKeeps ==
    ASSUME CachesInv, NEW c \in Readers, ListGet(c)
    PROVE  CachesInv'
<1>1. /\ now' = now /\ version' = version /\ present' = present
      /\ superseded' = superseded /\ queryEntry' = queryEntry
      /\ responseEntry' = responseEntry /\ listEntry' = listEntry
  BY DEF ListGet, rowState, entries
<1>2. CASE /\ Stored(listEntry)
           /\ IF listEntry.found
              THEN CacheAnswer(listEntry.version, QueryTtl, listEntry.slack)
              ELSE UNCHANGED tooStale
           /\ CacheGoto(c, CacheIdle)
  <2>1. tooStale' = FALSE
    <3>1. CASE listEntry.found
      <4>1. /\ listEntry.version \in Versions /\ listEntry.slack \in Nat
            /\ listEntry.expires \in Nat /\ now <= listEntry.expires
        BY <1>2, CachesNow DEF ListGood, ListEntry, Stored, Versions
      <4>2. Fresh(superseded, listEntry.version, listEntry.slack, QueryTtl,
                  listEntry.expires)
        BY <3>1, CachesNow DEF ListGood, EntryFresh
      <4>3. CacheAnswer(listEntry.version, QueryTtl, listEntry.slack)
        BY <1>2, <3>1
      <4> QED
        BY <4>1, <4>2, <4>3, CachesNow, CachesAssumption, FreshAnswer
    <3>2. CASE ~listEntry.found
      BY <1>2, <3>2, CachesNow
    <3> QED
      BY <3>1, <3>2
  <2>2. JobGood(superseded, now, CacheIdle)
    BY CachesNow, CacheIdleGood
  <2> QED
    BY <1>1, <1>2, <2>1, <2>2, CachesNow, MissKeeps DEF CacheGoto
<1>3. CASE /\ cacheJob[c].next = "listGet"
           /\ CacheGoto(c, CacheThen(c, "listQuery")) /\ UNCHANGED tooStale
  <2> DEFINE k == [cacheJob[c] EXCEPT !.next = "listQuery"]
  <2>1. JobGood(superseded, now, k)
    BY <1>3, CachesNow, GoesOn DEF CacheCalls, JobsGood
  <2>2. cacheJob' = [cacheJob EXCEPT ![c] = k]
    BY <1>3 DEF CacheGoto, CacheThen
  <2> HIDE DEF k
  <2> QED
    BY <1>1, <1>3, <2>1, <2>2, CachesNow, MissKeeps
<1> QED
  BY <1>2, <1>3 DEF ListGet

LEMMA ListQueryKeeps ==
    ASSUME CachesInv, NEW c \in Readers, ListQuery(c)
    PROVE  CachesInv'
<1>1. /\ now' = now /\ version' = version /\ present' = present
      /\ superseded' = superseded /\ queryEntry' = queryEntry
      /\ responseEntry' = responseEntry /\ listEntry' = listEntry
      /\ tooStale' = tooStale
  BY DEF ListQuery, rowState, entries
<1> DEFINE j == cacheJob[c]
           found == present /\ j.table = "accounts"
           k == [[j EXCEPT !.next = "listSet"] EXCEPT
                   !.version = version, !.at = now, !.found = found]
<1>2. CASE cacheJob' = [cacheJob EXCEPT ![c] = k]
  <2>1. found \in BOOLEAN /\ (found => present)
    BY CachesNow
  <2> HIDE DEF found
  <2>2. j \in CacheRequest
    BY CachesNow DEF JobsGood
  <2>3. /\ k \in CacheRequest /\ k.next = "listSet"
        /\ k.version = version /\ k.found = found /\ k.at = now
    <3>1. /\ [j EXCEPT !.next = "listSet"] \in CacheRequest
          /\ [j EXCEPT !.next = "listSet"].next = "listSet"
      BY <2>2, OnwardFields DEF CacheCalls
    <3> QED
      BY <2>1, <3>1, CachesNow DEF CacheRequest
  <2>4. present => superseded[version] = MaxTime + 1
    BY CachesNow DEF CachesInv, NotSuperseded
  <2> HIDE DEF k
  <2>5. JobFresh(superseded, now, k)
    BY <2>1, <2>3, <2>4, CachesNow, CachesAssumption DEF JobFresh, Fresh
  <2>6. JobGood(superseded, now, k)
    BY <2>3, <2>5 DEF JobGood
  <2> QED
    BY <1>1, <1>2, <2>6, CachesNow, MissKeeps
<1>3. CASE cacheJob' = [cacheJob EXCEPT ![c] = CacheIdle]
  <2>1. JobGood(superseded, now, CacheIdle)
    BY CachesNow, CacheIdleGood
  <2> QED
    BY <1>1, <1>3, <2>1, CachesNow, MissKeeps
<1> QED
  BY <1>2, <1>3 DEF ListQuery, CacheGoto, CacheThen

LEMMA ListSetKeeps ==
    ASSUME CachesInv, NEW c \in Readers, ListSet(c)
    PROVE  CachesInv'
<1> DEFINE j == cacheJob[c]
<1>1. /\ now' = now /\ version' = version /\ present' = present
      /\ superseded' = superseded /\ queryEntry' = queryEntry
      /\ responseEntry' = responseEntry
  BY DEF ListSet, rowState
<1>2. /\ j \in CacheRequest /\ j.at <= now
      /\ j.found => Fresh(superseded, j.version, 0, 0, j.at)
  BY CachesNow DEF ListSet, JobsGood, JobGood, JobFresh
<1>3. /\ Fills(listEntry, listEntry', [found |-> j.found, version |-> j.version,
                                       expires |-> now + QueryTtl, slack |-> now - j.at])
      /\ IF j.found THEN CacheAnswer(j.version, QueryTtl, now - j.at)
         ELSE UNCHANGED tooStale
  BY DEF ListSet
<1>4. JobsGood(superseded, now, cacheJob')
  <2>1. JobGood(superseded, now, CacheIdle)
    BY CachesNow, CacheIdleGood
  <2>2. cacheJob' = [cacheJob EXCEPT ![c] = CacheIdle]
    BY DEF ListSet, CacheGoto
  <2> QED
    BY <2>1, <2>2, CachesNow, OneJobMoves
<1> HIDE DEF j
<1>5. j.version \in Versions /\ j.at \in Nat /\ j.found \in BOOLEAN /\ now - j.at \in Nat
  BY <1>2, CachesNow DEF CacheRequest
<1>6. ListGood(superseded, now, listEntry')
  <2> DEFINE e == [found |-> j.found, version |-> j.version,
                   expires |-> now + QueryTtl, slack |-> now - j.at]
  <2>1. /\ e \in ListEntry /\ e.found = j.found /\ e.version = j.version
        /\ e.expires = now + QueryTtl /\ e.slack = now - j.at
    BY <1>5, CachesNow, CachesAssumption DEF ListEntry, Versions
  <2>2. listEntry' = e \/ listEntry' = listEntry
    BY <1>3 DEF Fills
  <2> HIDE DEF e
  <2>3. j.found => EntryFresh(superseded, now, e, QueryTtl, QueryTtl)
    BY <1>2, <1>5, <2>1, CachesNow, CachesAssumption DEF EntryFresh, Fresh
  <2> QED
    BY <2>1, <2>2, <2>3, CachesNow DEF ListGood
<1>7. tooStale' = FALSE
  <2>1. CASE j.found
    <3>1. Fresh(superseded, j.version, now - j.at, QueryTtl, now)
      BY <1>2, <1>5, <2>1, CachesNow, CachesAssumption DEF Fresh
    <3>2. CacheAnswer(j.version, QueryTtl, now - j.at) /\ now <= now
      BY <1>3, <2>1, CachesNow
    <3> QED
      BY <1>5, <3>1, <3>2, CachesNow, CachesAssumption, FreshAnswer
  <2>2. CASE ~j.found
    BY <1>3, <2>2, CachesNow
  <2> QED
    BY <2>1, <2>2
<1>8. /\ queryEntry' \in Entry /\ responseEntry' \in Entry
      /\ EntryFresh(superseded, now, queryEntry', QueryTtl, QueryTtl)
      /\ EntryFresh(superseded, now, responseEntry', ResponseTtl, QueryTtl + ResponseTtl)
  BY <1>1, CachesNow
<1> QED
  BY <1>1, <1>4, <1>6, <1>7, <1>8, RowRests

\* What has to be shown of a step that takes time, or changes the row.
LEMMA CachesAfter ==
    ASSUME now' \in Nat, now' <= MaxTime, version' \in Versions, present' \in BOOLEAN,
           superseded' \in [Versions -> Nat], NotSuperseded',
           queryEntry' \in Entry, responseEntry' \in Entry,
           EntryFresh(superseded', now', queryEntry', QueryTtl, QueryTtl),
           EntryFresh(superseded', now', responseEntry', ResponseTtl, QueryTtl + ResponseTtl),
           JobsGood(superseded', now', cacheJob'),
           ListGood(superseded', now', listEntry'),
           tooStale' = FALSE
    PROVE  CachesInv'
<1>1. CacheTypes'
  BY DEF CacheTypes, JobsGood, ListGood
<1>2. \A c \in Readers : JobFresh(superseded', now', cacheJob'[c])
  BY DEF JobsGood, JobGood
<1>3. StalenessBounded'
  BY DEF StalenessBounded
<1> QED
  BY <1>1, <1>2, <1>3 DEF CachesInv

\* The present version is superseded now.
LEMMA SupersededGood ==
    ASSUME CachesInv, NEW new, new = [superseded EXCEPT ![version] = now]
    PROVE  /\ new \in [Versions -> Nat]
           /\ EntryFresh(new, now, queryEntry, QueryTtl, QueryTtl)
           /\ EntryFresh(new, now, responseEntry, ResponseTtl, QueryTtl + ResponseTtl)
           /\ JobsGood(new, now, cacheJob) /\ ListGood(new, now, listEntry)
<1>1. new \in [Versions -> Nat]
  BY CachesNow
<1>2. QueryTtl <= QueryTtl /\ ResponseTtl <= QueryTtl + ResponseTtl
      /\ QueryTtl + ResponseTtl \in Nat
  BY CachesAssumption
<1>3. /\ EntryFresh(new, now, queryEntry, QueryTtl, QueryTtl)
      /\ EntryFresh(new, now, responseEntry, ResponseTtl, QueryTtl + ResponseTtl)
  BY <1>2, CachesNow, CachesAssumption, EntryStill
<1>4. \A c \in Readers : JobGood(new, now, cacheJob[c])
  BY CachesNow, CachesAssumption, JobStill DEF JobsGood, JobGood
<1>5. ListGood(new, now, listEntry)
  BY CachesNow, ListStill
<1> QED
  BY <1>1, <1>3, <1>4, <1>5, CachesNow DEF JobsGood

LEMMA UpdateKeeps ==
    ASSUME CachesInv, NEW c \in Readers, Update(c)
    PROVE  CachesInv'
<1> DEFINE new == [superseded EXCEPT ![version] = now]
           k == [CacheIdle EXCEPT !.next = "queryGet"]
<1>1. /\ now' = now /\ version' = version + 1 /\ present' = present /\ present
      /\ queryEntry' = queryEntry /\ responseEntry' = responseEntry
      /\ listEntry' = listEntry
      /\ tooStale' = tooStale
      /\ version < MaxVersions
  BY DEF Update, entries
<1>2. superseded' = new /\ cacheJob' = [cacheJob EXCEPT ![c] = k]
  BY DEF Update, CacheBegin
<1>3. /\ new \in [Versions -> Nat]
      /\ EntryFresh(new, now, queryEntry, QueryTtl, QueryTtl)
      /\ EntryFresh(new, now, responseEntry, ResponseTtl, QueryTtl + ResponseTtl)
      /\ JobsGood(new, now, cacheJob) /\ ListGood(new, now, listEntry)
  BY SupersededGood
<1>4. version' \in Versions
  BY <1>1, CachesNow, CachesAssumption DEF Versions
<1>5. NotSuperseded'
  <2>1. \A v \in Versions : v > version => new[v] = superseded[v]
    BY CachesNow DEF Versions
  <2>2. \A v \in Versions : v > version => superseded[v] = MaxTime + 1
    BY DEF CachesInv, NotSuperseded
  <2> HIDE DEF new
  <2>3. \A v \in Versions : v > version' \/ v = version' => v > version
    BY <1>1, CachesNow, CachesAssumption DEF Versions
  <2> QED
    BY <1>2, <2>1, <2>2, <2>3 DEF NotSuperseded
<1> HIDE DEF new
<1>6. /\ k \in CacheRequest /\ k.next = "queryGet" /\ k.slack = 0 /\ k.at = 0
  BY CacheIdleType DEF CacheRequest, CacheCalls
<1> HIDE DEF k
<1>7. JobGood(new, now, k)
  BY <1>6, CachesNow DEF JobGood, JobFresh
<1>8. JobsGood(superseded', now', cacheJob')
  BY <1>1, <1>2, <1>3, <1>7, OneJobMoves
<1> QED
  BY <1>1, <1>2, <1>3, <1>4, <1>5, <1>8, CachesNow, CachesAfter

LEMMA RemoveRowKeeps ==
    ASSUME CachesInv, RemoveRow
    PROVE  CachesInv'
<1> DEFINE new == [superseded EXCEPT ![version] = now]
<1>1. /\ now' = now /\ version' = version /\ present' = FALSE
      /\ queryEntry' = queryEntry /\ responseEntry' = responseEntry
      /\ listEntry' = listEntry /\ cacheJob' = cacheJob
      /\ tooStale' = tooStale
  BY DEF RemoveRow, entries
<1>2. superseded' = new
  BY DEF RemoveRow
<1>3. /\ new \in [Versions -> Nat]
      /\ EntryFresh(new, now, queryEntry, QueryTtl, QueryTtl)
      /\ EntryFresh(new, now, responseEntry, ResponseTtl, QueryTtl + ResponseTtl)
      /\ JobsGood(new, now, cacheJob) /\ ListGood(new, now, listEntry)
  BY SupersededGood
<1>4. NotSuperseded'
  <2>1. \A v \in Versions : v > version => new[v] = superseded[v]
    BY CachesNow DEF Versions
  <2>2. \A v \in Versions : v > version => superseded[v] = MaxTime + 1
    BY DEF CachesInv, NotSuperseded
  <2> HIDE DEF new
  <2> QED
    BY <1>1, <1>2, <2>1, <2>2 DEF NotSuperseded
<1> HIDE DEF new
<1> QED
  BY <1>1, <1>2, <1>3, <1>4, CachesNow, CachesAfter

LEMMA CacheTimePassesKeeps ==
    ASSUME CachesInv, CacheTimePasses
    PROVE  CachesInv'
<1>1. /\ now' = now + 1 /\ now < MaxTime /\ version' = version /\ present' = present
      /\ superseded' = superseded /\ cacheJob' = cacheJob
      /\ tooStale' = tooStale
  BY DEF CacheTimePasses, rowState
<1>2. /\ queryEntry' \in {queryEntry, NoEntry} /\ responseEntry' \in {responseEntry, NoEntry}
      /\ listEntry' \in {listEntry, NoList}
  BY DEF CacheTimePasses
<1>3. now' \in Nat /\ now' <= MaxTime
  BY <1>1, CachesNow, CachesAssumption
<1>4. QueryTtl <= QueryTtl /\ ResponseTtl <= QueryTtl + ResponseTtl
      /\ QueryTtl + ResponseTtl \in Nat
  BY CachesAssumption
<1>5. /\ EntryFresh(superseded, now + 1, queryEntry, QueryTtl, QueryTtl)
      /\ EntryFresh(superseded, now + 1, responseEntry, ResponseTtl, QueryTtl + ResponseTtl)
  BY <1>4, CachesNow, CachesAssumption, EntryStill
<1>6. /\ NoEntry \in Entry
      /\ EntryFresh(superseded, now + 1, NoEntry, QueryTtl, QueryTtl)
      /\ EntryFresh(superseded, now + 1, NoEntry, ResponseTtl, QueryTtl + ResponseTtl)
  BY <1>1, <1>3, <1>4, CachesNow, CachesAssumption, NoEntryFresh
<1>7. /\ queryEntry' \in Entry /\ responseEntry' \in Entry
      /\ EntryFresh(superseded', now', queryEntry', QueryTtl, QueryTtl)
      /\ EntryFresh(superseded', now', responseEntry', ResponseTtl, QueryTtl + ResponseTtl)
  BY <1>1, <1>2, <1>5, <1>6, CachesNow
<1>8. \A c \in Readers : JobGood(superseded, now + 1, cacheJob[c])
  BY CachesNow, CachesAssumption, JobStill DEF JobsGood, JobGood
<1>9. JobsGood(superseded', now', cacheJob')
  BY <1>1, <1>8, CachesNow DEF JobsGood
<1>10. ListGood(superseded', now', listEntry')
  <2>1. ListGood(superseded, now + 1, listEntry)
    BY CachesNow, ListStill
  <2>2. ListGood(superseded, now + 1, NoList)
    BY CachesAssumption DEF ListGood, NoList, ListEntry
  <2> QED
    BY <1>1, <1>2, <2>1, <2>2
<1>11. NotSuperseded'
  BY <1>1 DEF CachesInv, NotSuperseded
<1> QED
  BY <1>1, <1>3, <1>7, <1>9, <1>10, <1>11, CachesNow, CachesAfter

LEMMA CachesRest ==
    ASSUME CachesInv, UNCHANGED cacheVars
    PROVE  CachesInv'
<1>1. /\ now' = now /\ version' = version /\ present' = present
      /\ superseded' = superseded /\ queryEntry' = queryEntry
      /\ responseEntry' = responseEntry /\ listEntry' = listEntry
      /\ cacheJob' = cacheJob
      /\ tooStale' = tooStale
  BY DEF cacheVars, rowState, entries
<1>2. /\ JobsGood(superseded, now, cacheJob')
      /\ ListGood(superseded, now, listEntry')
  BY <1>1, CachesNow
<1> QED
  BY <1>1, <1>2, CachesNow, RowRests

LEMMA CachesStepKeeps ==
    ASSUME CachesInv, CachesNext
    PROVE  CachesInv'
<1>1. ASSUME NEW c \in Readers,
             \/ GetById(c) \/ Update(c) \/ ResponseGet(c) \/ QueryGet(c) \/ Query(c)
             \/ QuerySet(c) \/ ResponseSet(c)
             \/ \E table \in Tables : FindAll(c, table)
             \/ ListGet(c) \/ ListQuery(c) \/ ListSet(c)
      PROVE  CachesInv'
  BY <1>1, GetByIdKeeps, UpdateKeeps, ResponseGetKeeps, QueryGetKeeps, QueryKeeps,
     QuerySetKeeps, ResponseSetKeeps, FindAllKeeps, ListGetKeeps, ListQueryKeeps,
     ListSetKeeps
<1> QED
  BY <1>1, CacheTimePassesKeeps, RemoveRowKeeps DEF CachesNext

\* Whatever fills and updates race and whatever Redis fails, what the caches answer of a
\* row, alone or in a list, was current within the times to live of the layers it passed
\* and the time their fills took: executeWithCache, intercept and findAll, for all times
\* to live.
THEOREM AnswersBounded == CachesSpec => []StalenessBounded
<1>1. CachesInv => StalenessBounded
  BY DEF CachesInv
<1>2. ASSUME CachesInv, [CachesNext]_cacheVars
      PROVE  CachesInv'
  BY <1>2, CachesStepKeeps, CachesRest
<1> QED
  BY <1>1, <1>2, CachesStart, PTL DEF CachesSpec

-----------------------------------------------------------------------------
(* Endpoints                                                                *)

\* An endpoint e and the last answers h it gave: its consecutive failures are
\* the false answers at the end of h, or more where the window h is full of them.
Judged(e, h) ==
    /\ e \in RpcEndpoint /\ h \in Seq(BOOLEAN) /\ Len(h) <= MaxConsecutiveFailures
    /\ e.isHealthy = (e.consecutiveFailures < MaxConsecutiveFailures)
    /\ \A i \in 1 .. Len(h) : i > Len(h) - e.consecutiveFailures => h[i] = FALSE
    /\ e.consecutiveFailures < Len(h) => h[Len(h) - e.consecutiveFailures] = TRUE
    /\ e.consecutiveFailures >= Len(h) =>
         e.consecutiveFailures = Len(h) \/ Len(h) = MaxConsecutiveFailures

\* The answers remembered after one more.
Seen(h, good) ==
    IF Len(Append(h, good)) > MaxConsecutiveFailures THEN Tail(Append(h, good))
    ELSE Append(h, good)

Updated(e, good) == IF good THEN Answered(e) ELSE Failed(e)

LEMMA SeenIsASequence ==
    ASSUME NEW h \in Seq(BOOLEAN), Len(h) <= MaxConsecutiveFailures, NEW good \in BOOLEAN
    PROVE  /\ Seen(h, good) \in Seq(BOOLEAN) /\ Len(Seen(h, good)) \in Nat
           /\ Len(Seen(h, good)) <= MaxConsecutiveFailures
           /\ \/ /\ Len(Seen(h, good)) = Len(h) + 1
                 /\ \A i \in 1 .. Len(h) : Seen(h, good)[i] = h[i]
              \/ /\ Len(h) = MaxConsecutiveFailures /\ Len(Seen(h, good)) = Len(h)
                 /\ \A i \in 1 .. Len(h) - 1 : Seen(h, good)[i] = h[i + 1]
           /\ Seen(h, good)[Len(Seen(h, good))] = good
<1> DEFINE a == Append(h, good)
<1>1. /\ a \in Seq(BOOLEAN) /\ Len(a) = Len(h) + 1 /\ a # <<>>
      /\ \A i \in 1 .. Len(h) : a[i] = h[i]
      /\ a[Len(h) + 1] = good
  BY AppendProperties
<1>2. /\ Tail(a) \in Seq(BOOLEAN) /\ Len(Tail(a)) = Len(a) - 1
      /\ \A i \in 1 .. Len(Tail(a)) : Tail(a)[i] = a[i + 1]
  BY <1>1, HeadTailProperties
<1>3. Len(h) \in Nat /\ MaxConsecutiveFailures \in Nat /\ MaxConsecutiveFailures > 0
  BY LenProperties, NetworkAssumption
<1>4. CASE Len(a) > MaxConsecutiveFailures
  <2>1. Seen(h, good) = Tail(a) /\ Len(h) = MaxConsecutiveFailures
    BY <1>1, <1>3, <1>4 DEF Seen
  <2>2. Len(Tail(a)) = Len(h)
    BY <1>1, <1>2, <1>3
  <2>3. ASSUME NEW i \in 1 .. Len(h) - 1
        PROVE  Tail(a)[i] = h[i + 1]
    <3>1. i \in 1 .. Len(Tail(a)) /\ i + 1 \in 1 .. Len(h)
      BY <1>3, <2>2
    <3> HIDE DEF a
    <3> QED
      BY <1>1, <1>2, <3>1
  <2>4. Tail(a)[Len(h)] = good
    <3>1. Len(h) \in 1 .. Len(Tail(a))
      BY <1>3, <2>1, <2>2
    <3> HIDE DEF a
    <3> QED
      BY <1>1, <1>2, <3>1
  <2> HIDE DEF a
  <2> QED
    BY <1>2, <1>3, <2>1, <2>2, <2>3, <2>4
<1>5. CASE ~(Len(a) > MaxConsecutiveFailures)
  <2>1. Seen(h, good) = a
    BY <1>5 DEF Seen
  <2> HIDE DEF a
  <2> QED
    BY <1>1, <1>3, <1>5, <2>1
<1> QED
  BY <1>4, <1>5

\* performHealthChecks, one answer: the endpoint stays judged by its window.
LEMMA StillJudged ==
    ASSUME NEW e, NEW h, Judged(e, h), NEW good \in BOOLEAN
    PROVE  Judged(Updated(e, good), Seen(h, good))
<1> DEFINE k == Seen(h, good)
           f == e.consecutiveFailures
<1>1. /\ e \in RpcEndpoint /\ h \in Seq(BOOLEAN) /\ Len(h) <= MaxConsecutiveFailures
      /\ e.isHealthy = (f < MaxConsecutiveFailures)
      /\ \A i \in 1 .. Len(h) : i > Len(h) - f => h[i] = FALSE
      /\ f < Len(h) => h[Len(h) - f] = TRUE
      /\ f >= Len(h) => f = Len(h) \/ Len(h) = MaxConsecutiveFailures
  BY DEF Judged
<1>2. /\ k \in Seq(BOOLEAN) /\ Len(k) \in Nat
      /\ Len(k) <= MaxConsecutiveFailures
      /\ \/ /\ Len(k) = Len(h) + 1
            /\ \A i \in 1 .. Len(h) : k[i] = h[i]
         \/ /\ Len(h) = MaxConsecutiveFailures /\ Len(k) = Len(h)
            /\ \A i \in 1 .. Len(h) - 1 : k[i] = h[i + 1]
      /\ k[Len(k)] = good
  BY <1>1, SeenIsASequence
<1>3. /\ Len(h) \in Nat /\ MaxConsecutiveFailures \in Nat /\ MaxConsecutiveFailures > 0
      /\ f \in Nat /\ e.isHealthy \in BOOLEAN
  BY <1>1, LenProperties, NetworkAssumption DEF RpcEndpoint
<1>4. Len(k) > 0
  BY <1>2, <1>3
<1>5. CASE good
  <2>1. /\ Answered(e) \in RpcEndpoint
        /\ Answered(e).isHealthy = TRUE /\ Answered(e).consecutiveFailures = 0
    BY <1>1 DEF Answered, RpcEndpoint
  <2>2. Updated(e, good) = Answered(e)
    BY <1>5 DEF Updated
  <2> HIDE DEF k, f
  <2>3. /\ \A i \in 1 .. Len(k) : i > Len(k) - 0 => k[i] = FALSE
        /\ Len(k) - 0 = Len(k) /\ 0 < Len(k) /\ 0 < MaxConsecutiveFailures
        /\ ~(0 >= Len(k))
    BY <1>2, <1>3, <1>4
  <2>4. k[Len(k) - 0] = TRUE
    BY <1>2, <1>5, <2>3
  <2>5. Judged(Answered(e), k)
    <3> DEFINE a == Answered(e)
    <3>1. /\ a \in RpcEndpoint /\ a.isHealthy = (0 < MaxConsecutiveFailures)
          /\ a.consecutiveFailures = 0
      BY <2>1, <2>3
    <3> HIDE DEF a
    <3>2. Judged(a, k)
      BY <1>2, <2>3, <2>4, <3>1 DEF Judged
    <3> QED
      BY <3>2 DEF a
  <2> QED
    BY <2>2, <2>5 DEF k
<1>6. CASE ~good
  <2>1. /\ Failed(e) \in RpcEndpoint /\ Failed(e).consecutiveFailures = f + 1
        /\ Failed(e).isHealthy = (f + 1 < MaxConsecutiveFailures)
    BY <1>1, <1>3 DEF Failed, RpcEndpoint
  <2>2. Updated(e, good) = Failed(e)
    BY <1>6 DEF Updated
  <2> HIDE DEF k, f
  <2>3. \A i \in 1 .. Len(k) : i > Len(k) - (f + 1) => k[i] = FALSE
    BY <1>1, <1>2, <1>3, <1>6
  <2>4. f + 1 < Len(k) => k[Len(k) - (f + 1)] = TRUE
    <3> SUFFICES ASSUME f + 1 < Len(k)
                 PROVE  k[Len(k) - (f + 1)] = TRUE
      OBVIOUS
    <3>1. f < Len(h) /\ h[Len(h) - f] = TRUE
      BY <1>1, <1>2, <1>3
    <3>2. CASE Len(k) = Len(h) + 1 /\ \A i \in 1 .. Len(h) : k[i] = h[i]
      <4>1. Len(k) - (f + 1) = Len(h) - f /\ Len(h) - f \in 1 .. Len(h)
        BY <1>3, <3>1, <3>2
      <4> QED
        BY <3>1, <3>2, <4>1
    <3>3. CASE Len(k) = Len(h) /\ \A i \in 1 .. Len(h) - 1 : k[i] = h[i + 1]
      <4>1. /\ Len(k) - (f + 1) \in 1 .. Len(h) - 1
            /\ Len(k) - (f + 1) + 1 = Len(h) - f
        BY <1>3, <3>3
      <4> QED
        BY <3>1, <3>3, <4>1
    <3> QED
      BY <1>2, <3>2, <3>3
  <2>5. f + 1 >= Len(k) => f + 1 = Len(k) \/ Len(k) = MaxConsecutiveFailures
    BY <1>1, <1>2, <1>3
  <2>6. Judged(Failed(e), k)
    BY <1>2, <2>1, <2>3, <2>4, <2>5 DEF Judged
  <2> QED
    BY <2>2, <2>6 DEF k
<1> QED
  BY <1>5, <1>6

\* A set of priorities has a lowest one.
LEMMA LowestOf ==
    ASSUME NEW N \in Nat, NEW X, X \subseteq 1 .. N, X # {}
    PROVE  \E p \in X : \A q \in X : p <= q
<1> DEFINE Intervals == {1 .. x : x \in X}
<1>1. IsWellFoundedOn(StrictSubsetOrdering(1 .. N), SUBSET (1 .. N))
  <2>1. IsFiniteSet(1 .. N)
    BY FS_Interval
  <2>2. FiniteSubsetsOf(1 .. N) = SUBSET (1 .. N)
    BY <2>1, FS_FiniteSubsetsOfFinite
  <2> QED
    BY <2>2, FS_StrictSubsetOrderingWellFounded
<1>2. Intervals \subseteq SUBSET (1 .. N) /\ Intervals # {}
  <2>1. \A x \in X : 1 .. x \in SUBSET (1 .. N)
    OBVIOUS
  <2> QED
    BY <2>1, Zenon
<1>3. PICK x \in Intervals : \A y \in Intervals : <<y, x>> \notin StrictSubsetOrdering(1 .. N)
  <2> HIDE DEF Intervals
  <2> QED
    BY <1>1, <1>2, WFMin
<1>4. PICK p \in X : x = 1 .. p
  BY <1>3
<1>5. ASSUME NEW q \in X
      PROVE  p <= q
  <2> SUFFICES ASSUME q < p
               PROVE  FALSE
    OBVIOUS
  <2>1. 1 .. q \subseteq 1 .. N /\ 1 .. p \subseteq 1 .. N /\ 1 .. q \subseteq 1 .. p
        /\ p \in 1 .. p /\ p \notin 1 .. q
    OBVIOUS
  <2>2. <<1 .. q, x>> \in StrictSubsetOrdering(1 .. N)
    BY <1>4, <2>1 DEF StrictSubsetOrdering
  <2> QED
    BY <1>3, <2>2
<1>6. \A q \in X : p <= q
  BY <1>5
<1> HIDE DEF Intervals
<1> QED
  BY <1>4, <1>6, Zenon

LEMMA PreferredIsHealthy ==
    ASSUME NEW n \in SolanaNetwork, Healthy(n) # {}
    PROVE  GetHealthyEndpoint(n) \in Priorities(n)
<1>1. RpcEndpoints[n] \in Nat
  BY NetworkAssumption DEF SolanaNetwork
<1>2. Healthy(n) \subseteq 1 .. RpcEndpoints[n]
  BY DEF Healthy, Priorities
<1>3. \E p \in Healthy(n) : \A q \in Healthy(n) : p <= q
  BY <1>1, <1>2, LowestOf
<1>4. GetHealthyEndpoint(n) \in Healthy(n)
  BY <1>3, Zenon DEF GetHealthyEndpoint
<1> QED
  BY <1>4 DEF Healthy

\* The inductive invariant, in three parts: the endpoints with their windows; the
\* sweeps, which stay inside the list; the reports, which are not yet given while
\* a check is awaited.
WindowsInv ==
    /\ DOMAIN endpoints = SolanaNetwork /\ DOMAIN probed = SolanaNetwork
    /\ \A n \in SolanaNetwork :
         /\ DOMAIN endpoints[n] = Priorities(n) /\ DOMAIN probed[n] = Priorities(n)
         /\ \A p \in Priorities(n) : Judged(endpoints[n][p], probed[n][p])

SweepsInv ==
    /\ sweeps \in [Sweeps -> [network : SolanaNetwork, priority : Nat]]
    /\ \A s \in Sweeps : sweeps[s].priority <= RpcEndpoints[sweeps[s].network]

Report == [network : SolanaNetwork, asked : SolanaNetwork, isHealthy : BOOLEAN, active : Nat]

ReportsInv ==
    /\ currentNetwork \in SolanaNetwork
    /\ checks \in [Watchers -> [network : SolanaNetwork, priority : Nat]]
    /\ reports \in [Watchers -> Report]
    /\ \A w \in Watchers : checks[w].priority # 0 =>
         /\ checks[w].priority \in Priorities(checks[w].network)
         /\ reports[w].asked = checks[w].network
         /\ ~reports[w].isHealthy
    /\ \A w \in Watchers : reports[w].isHealthy =>
         /\ reports[w].network = reports[w].asked
         /\ reports[w].active \in Priorities(reports[w].asked)

NetInv == WindowsInv /\ SweepsInv /\ ReportsInv

LEMMA NetInitInv == NetInit => NetInv
<1> SUFFICES ASSUME NetInit
             PROVE  NetInv
  OBVIOUS
<1>1. /\ \A n \in SolanaNetwork : RpcEndpoints[n] \in Nat
      /\ "devnet" \in SolanaNetwork
      /\ MaxConsecutiveFailures \in Nat /\ MaxConsecutiveFailures > 0
  BY NetworkAssumption DEF SolanaNetwork
<1>2. WindowsInv
  <2>1. Judged([isHealthy |-> TRUE, consecutiveFailures |-> 0], <<>>)
    <3>1. <<>> \in Seq(BOOLEAN) /\ Len(<<>>) = 0
      BY EmptySeq
    <3> DEFINE e == [isHealthy |-> TRUE, consecutiveFailures |-> 0]
               h == <<>>
    <3>2. /\ e \in RpcEndpoint /\ e.isHealthy = TRUE /\ e.consecutiveFailures = 0
          /\ Len(h) = 0 /\ h \in Seq(BOOLEAN)
      BY <3>1 DEF RpcEndpoint
    <3> HIDE DEF e, h
    <3>3. /\ 0 < MaxConsecutiveFailures /\ 0 >= Len(h) /\ ~(0 < Len(h))
          /\ \A i \in 1 .. Len(h) : FALSE
          /\ Len(h) <= MaxConsecutiveFailures
      BY <1>1, <3>2
    <3>4. e.isHealthy = (0 < MaxConsecutiveFailures)
      BY <3>2, <3>3
    <3>5. Judged(e, h)
      BY <3>2, <3>3, <3>4 DEF Judged
    <3> QED
      BY <3>5 DEF e, h
  <2> QED
    BY <2>1 DEF NetInit, WindowsInv
<1>3. SweepsInv
  BY <1>1 DEF NetInit, SweepsInv, NoProbe
<1>4. ReportsInv
  BY <1>1 DEF NetInit, ReportsInv, NoProbe, NoReport, Report
<1> QED
  BY <1>2, <1>3, <1>4 DEF NetInv

LEMMA StartSweepInv ==
    ASSUME NetInv, NEW s \in Sweeps, NEW n \in SolanaNetwork, StartSweep(s, n)
    PROVE  NetInv'
<1>1. RpcEndpoints[n] \in Nat /\ 1 <= RpcEndpoints[n]
  BY NetworkAssumption DEF SolanaNetwork
<1>2. SweepsInv'
  BY <1>1 DEF StartSweep, NetInv, SweepsInv
<1>3. WindowsInv' /\ ReportsInv'
  BY DEF StartSweep, NetInv, WindowsInv, ReportsInv
<1> QED
  BY <1>2, <1>3 DEF NetInv

LEMMA ProbeInv ==
    ASSUME NetInv, NEW s \in Sweeps, NEW good \in BOOLEAN, Probe(s, good)
    PROVE  NetInv'
<1> DEFINE n == sweeps[s].network
           p == sweeps[s].priority
<1>1. /\ n \in SolanaNetwork /\ RpcEndpoints[n] \in Nat /\ RpcEndpoints[n] > 0
      /\ p \in Priorities(n)
  BY NetworkAssumption DEF NetInv, SweepsInv, SolanaNetwork, Priorities, Probe
<1>2. /\ endpoints' = [endpoints EXCEPT ![n][p] = Updated(endpoints[n][p], good)]
      /\ probed' = [probed EXCEPT ![n][p] = Seen(probed[n][p], good)]
      /\ sweeps' = [sweeps EXCEPT ![s] = NextEndpoint(n, p)]
      /\ UNCHANGED <<currentNetwork, checks, reports>>
  BY DEF Probe, Updated, Seen
<1> HIDE DEF n, p
<1>3. Judged(Updated(endpoints[n][p], good), Seen(probed[n][p], good))
  BY <1>1, StillJudged DEF NetInv, WindowsInv
<1>4. WindowsInv'
  <2>1. /\ DOMAIN endpoints' = SolanaNetwork /\ DOMAIN probed' = SolanaNetwork
        /\ \A m \in SolanaNetwork : /\ DOMAIN endpoints'[m] = Priorities(m)
                                    /\ DOMAIN probed'[m] = Priorities(m)
    BY <1>1, <1>2 DEF NetInv, WindowsInv
  <2>2. ASSUME NEW m \in SolanaNetwork, NEW q \in Priorities(m)
        PROVE  Judged(endpoints'[m][q], probed'[m][q])
    <3>1. CASE m = n /\ q = p
      BY <1>1, <1>2, <1>3, <3>1 DEF NetInv, WindowsInv
    <3>2. CASE ~(m = n /\ q = p)
      <4>1. endpoints'[m][q] = endpoints[m][q] /\ probed'[m][q] = probed[m][q]
        BY <1>1, <1>2, <3>2 DEF NetInv, WindowsInv
      <4> QED
        BY <4>1 DEF NetInv, WindowsInv
    <3> QED
      BY <3>1, <3>2
  <2> QED
    BY <2>1, <2>2 DEF WindowsInv
<1>5. SweepsInv'
  <2>1. p \in Nat
    BY DEF p, NetInv, SweepsInv
  <2>2. /\ NextEndpoint(n, p) \in [network : SolanaNetwork, priority : Nat]
        /\ NextEndpoint(n, p).priority <= RpcEndpoints[NextEndpoint(n, p).network]
    BY <1>1, <2>1, NetworkAssumption DEF NextEndpoint, NoProbe, SolanaNetwork
  <2> QED
    BY <1>2, <2>2 DEF NetInv, SweepsInv
<1>6. ReportsInv'
  BY <1>2 DEF NetInv, ReportsInv
<1> QED
  BY <1>4, <1>5, <1>6 DEF NetInv

LEMMA AskedInv ==
    ASSUME NetInv, NEW w \in Watchers, NEW named \in SolanaNetwork \cup {"unnamed"},
           GetNetworkHealth(w, named)
    PROVE  NetInv'
<1> DEFINE n == IF named = "unnamed" THEN currentNetwork ELSE named
<1>1. n \in SolanaNetwork
  BY DEF NetInv, ReportsInv
<1>2. /\ checks[w].priority = 0
      /\ \/ /\ Healthy(n) = {}
            /\ reports' = [reports EXCEPT ![w] = [NoReport EXCEPT !.network = n, !.asked = n]]
            /\ UNCHANGED checks
         \/ /\ Healthy(n) # {}
            /\ checks' = [checks EXCEPT ![w] =
                            [network |-> n, priority |-> GetHealthyEndpoint(n)]]
            /\ reports' = [reports EXCEPT ![w] = [NoReport EXCEPT !.asked = n]]
      /\ UNCHANGED <<currentNetwork, endpoints, sweeps, probed>>
  BY DEF GetNetworkHealth
<1> HIDE DEF n
<1>3. "devnet" \in SolanaNetwork
  BY NetworkAssumption DEF SolanaNetwork
<1>4. WindowsInv' /\ SweepsInv'
  BY <1>2 DEF NetInv, WindowsInv, SweepsInv
<1>5. CASE Healthy(n) = {}
  <2> DEFINE r == [NoReport EXCEPT !.network = n, !.asked = n]
  <2>1. r \in Report /\ ~r.isHealthy
    BY <1>1, <1>3 DEF NoReport, Report
  <2>2. reports' = [reports EXCEPT ![w] = r] /\ UNCHANGED <<checks, currentNetwork>>
    BY <1>2, <1>5
  <2> HIDE DEF r
  <2> QED
    BY <1>2, <1>4, <2>1, <2>2 DEF NetInv, ReportsInv
<1>6. CASE Healthy(n) # {}
  <2> DEFINE r == [NoReport EXCEPT !.asked = n]
             c == [network |-> n, priority |-> GetHealthyEndpoint(n)]
  <2>1. r \in Report /\ ~r.isHealthy /\ r.asked = n
    BY <1>1, <1>3 DEF NoReport, Report
  <2>2. GetHealthyEndpoint(n) \in Priorities(n)
    BY <1>1, <1>6, PreferredIsHealthy
  <2>3. /\ c \in [network : SolanaNetwork, priority : Nat]
        /\ c.network = n /\ c.priority \in Priorities(n)
    BY <1>1, <2>2 DEF Priorities
  <2>4. /\ reports' = [reports EXCEPT ![w] = r] /\ checks' = [checks EXCEPT ![w] = c]
        /\ UNCHANGED currentNetwork
    BY <1>2, <1>6
  <2> HIDE DEF r, c
  <2> QED
    BY <1>4, <2>1, <2>3, <2>4 DEF NetInv, ReportsInv
<1> QED
  BY <1>5, <1>6

LEMMA SlotInv ==
    ASSUME NetInv, NEW w \in Watchers, NEW good \in BOOLEAN, SlotAnswered(w, good)
    PROVE  NetInv'
<1> DEFINE c == checks[w]
           r == [reports[w] EXCEPT !.network = c.network, !.isHealthy = good,
                                   !.active = IF good THEN c.priority ELSE 0]
<1>1. /\ c.priority # 0
      /\ reports' = [reports EXCEPT ![w] = r]
      /\ checks' = [checks EXCEPT ![w] = NoProbe]
      /\ UNCHANGED <<currentNetwork, endpoints, sweeps, probed>>
  BY DEF SlotAnswered, NetInv, ReportsInv
<1>2. /\ c \in [network : SolanaNetwork, priority : Nat]
      /\ c.priority \in Priorities(c.network) /\ reports[w].asked = c.network
      /\ reports[w] \in Report
  BY <1>1 DEF NetInv, ReportsInv
<1>3. /\ r \in Report /\ r.network = r.asked /\ r.isHealthy = good
      /\ good => r.active \in Priorities(r.asked)
  BY <1>2 DEF Report
<1>4. NoProbe \in [network : SolanaNetwork, priority : Nat] /\ NoProbe.priority = 0
  BY NetworkAssumption DEF NoProbe, SolanaNetwork
<1> HIDE DEF c, r
<1>5. WindowsInv' /\ SweepsInv'
  BY <1>1 DEF NetInv, WindowsInv, SweepsInv
<1>6. ReportsInv'
  BY <1>1, <1>3, <1>4 DEF NetInv, ReportsInv
<1> QED
  BY <1>5, <1>6 DEF NetInv

LEMMA NetNextInv ==
    ASSUME NetInv, [NetNext]_netVars
    PROVE  NetInv'
<1>1. CASE UNCHANGED netVars
  BY <1>1 DEF netVars, NetInv, WindowsInv, SweepsInv, ReportsInv
<1>2. CASE OnModuleDestroy
  BY <1>2 DEF OnModuleDestroy, NetInv, WindowsInv, SweepsInv, ReportsInv
<1>3. CASE \E n \in SolanaNetwork : SetCurrentNetwork(n)
  BY <1>3 DEF SetCurrentNetwork, NetInv, WindowsInv, SweepsInv, ReportsInv
<1> QED
  BY <1>1, <1>2, <1>3, StartSweepInv, ProbeInv, AskedInv, SlotInv DEF NetNext

\* "Failure Tracking", "Automatic Recovery" (EndpointsJudged), for every list of
\* endpoints, any number of sweeps and callers and any number of probes: each
\* endpoint is judged by its last answers, and a report is about its network.
THEOREM EndpointsCorrect == NetSpec => []EndpointsJudged
<1>1. NetInv => EndpointsJudged
  <2> SUFFICES ASSUME NetInv
               PROVE  EndpointsJudged
    OBVIOUS
  <2>1. ASSUME NEW n \in SolanaNetwork, NEW p \in Priorities(n)
        PROVE  endpoints[n][p].isHealthy
                 = (Len(probed[n][p]) < MaxConsecutiveFailures \/ Contains(probed[n][p], TRUE))
    <3> DEFINE e == endpoints[n][p]
               h == probed[n][p]
    <3>1. Judged(e, h)
      BY DEF NetInv, WindowsInv
    <3> HIDE DEF e, h
    <3>2. /\ Len(h) \in Nat /\ MaxConsecutiveFailures \in Nat
          /\ e.consecutiveFailures \in Nat /\ e.isHealthy \in BOOLEAN
      BY <3>1, LenProperties, NetworkAssumption DEF Judged, RpcEndpoint
    <3>3. CASE e.consecutiveFailures < Len(h)
      <4>1. /\ Len(h) - e.consecutiveFailures \in 1 .. Len(h)
            /\ h[Len(h) - e.consecutiveFailures] = TRUE
        BY <3>1, <3>2, <3>3 DEF Judged
      <4>2. Contains(h, TRUE)
        BY <4>1, Zenon DEF Contains
      <4>3. e.isHealthy = TRUE
        BY <3>1, <3>2, <3>3 DEF Judged
      <4> QED
        BY <4>2, <4>3 DEF e, h
    <3>4. CASE ~(e.consecutiveFailures < Len(h))
      <4>1. \A i \in 1 .. Len(h) : h[i] = FALSE
        BY <3>1, <3>2, <3>4 DEF Judged
      <4>2. ~Contains(h, TRUE)
        BY <4>1, Zenon DEF Contains
      <4>3. e.isHealthy = (Len(h) < MaxConsecutiveFailures)
        BY <3>1, <3>2, <3>4 DEF Judged
      <4>4. e.isHealthy = (Len(h) < MaxConsecutiveFailures \/ Contains(h, TRUE))
        <5> DEFINE few == Len(h) < MaxConsecutiveFailures
                   good == Contains(h, TRUE)
        <5>1. few \in BOOLEAN /\ good \in BOOLEAN /\ ~good /\ e.isHealthy = few
          BY <4>2, <4>3 DEF Contains
        <5> HIDE DEF few, good
        <5>2. e.isHealthy = (few \/ good)
          BY <5>1
        <5> QED
          BY <5>2 DEF few, good
      <4> QED
        BY <4>4 DEF e, h
    <3> QED
      BY <3>3, <3>4
  <2>2. \A w \in Watchers : reports[w].isHealthy =>
          /\ reports[w].network = reports[w].asked
          /\ reports[w].active \in Priorities(reports[w].asked)
    BY DEF NetInv, ReportsInv
  <2> QED
    BY <2>1, <2>2 DEF EndpointsJudged
<1> QED
  BY <1>1, NetInitInv, NetNextInv, PTL DEF NetSpec

-----------------------------------------------------------------------------
(* Subscriptions, listeners and stored events                               *)

LogSteps == {"saveLog", "emitLog", "saveConfirmed", "emitConfirmed"}

EventJob == [next : RowSteps \cup LogSteps \cup {"idle", "removed"}, socket : SUBSET Sockets,
             row : SUBSET SubscriptionIds, type : SubscriptionType, tx : SUBSET Reported,
             failed : BOOLEAN]

\* A request is about one socket, one row or one transaction.
EventsTypes ==
    /\ subscriptions \in [SubscriptionIds -> EventSubscription]
    /\ sockets \in [Sockets -> Socket]
    /\ eventJob \in [EventCallers -> EventJob]
    /\ \A c \in EventCallers : /\ Unique(eventJob[c].socket) /\ Unique(eventJob[c].row)
                               /\ Unique(eventJob[c].tx)
    /\ stored \in [Reported -> SUBSET EventType] /\ emitted \in [Reported -> SUBSET EventType]
    /\ lastListener \in Nat
    /\ subOverlapped \in BOOLEAN /\ direct \in BOOLEAN
    /\ listenTroubled \in BOOLEAN /\ wanted \in BOOLEAN

Removers == {c \in EventCallers : eventJob[c].next = "removed"}

\* One removal at a time; the entry is stale during it and right otherwise.
ListenInv ==
    ~listenTroubled =>
      /\ Unique(Removers)
      /\ Removers # {} => listeners = {} /\ ~wanted
      /\ Removers = {} /\ wanted => accountEntry # 0 /\ listeners = {accountEntry}
      /\ Removers = {} /\ ~wanted => accountEntry = 0 /\ listeners = {}

\* What a request about a transaction has stored and emitted at each of its calls.
LogInv ==
    /\ StoredBeforeEmitted
    /\ \A c \in EventCallers : \A t \in eventJob[c].tx :
         /\ eventJob[c].next = "emitLog" => "program_log" \in stored[t]
         /\ eventJob[c].next \in {"saveConfirmed", "emitConfirmed"} =>
              "program_log" \in emitted[t]
         /\ eventJob[c].next = "emitConfirmed" => "transaction_confirmed" \in stored[t]

\* Steps of a request about the rows, and of one about a transaction, as the other
\* records see them.
JobStep(c, steps) ==
    \E j \in EventJob :
       /\ eventJob' = [eventJob EXCEPT ![c] = j]
       /\ Unique(j.socket) /\ Unique(j.row) /\ Unique(j.tx)
       /\ j.next \in steps \cup {"idle"} /\ eventJob[c].next \in steps \cup {"idle"}

RowKept ==
    /\ subscriptions' \in [SubscriptionIds -> EventSubscription]
    /\ sockets' \in [Sockets -> Socket]
    /\ subOverlapped' \in BOOLEAN /\ direct' \in BOOLEAN

LEMMA IdleJobType ==
    EventIdle \in EventJob /\ Unique(EventIdle.socket) /\ Unique(EventIdle.row)
      /\ Unique(EventIdle.tx) /\ EventIdle.next = "idle"
BY DEF EventIdle, EventJob, Unique, SubscriptionType

LEMMA RowStepEffect ==
    ASSUME EventsTypes, NEW c \in EventCallers, RowStep(c)
    PROVE  JobStep(c, RowSteps) /\ RowKept /\ UNCHANGED <<listenVars, logVars>>
<1>0. /\ eventJob[c] \in EventJob
      /\ Unique(eventJob[c].socket) /\ Unique(eventJob[c].row) /\ Unique(eventJob[c].tx)
      /\ \A n \in RowSteps : NextCall(c, n) \in EventJob
  BY DEF EventsTypes, NextCall, EventJob
<1>1. ASSUME NEW s \in Sockets, HandleSubscribe(c, s) \/ HandleUnsubscribe(c, s)
      PROVE  JobStep(c, RowSteps) /\ RowKept /\ UNCHANGED <<listenVars, logVars>>
  <2>1. PICK n \in {"findExisting", "findAny"} :
          /\ eventJob' = [eventJob EXCEPT ![c] = [EventIdle EXCEPT !.next = n, !.socket = {s}]]
          /\ eventJob[c].next = "idle"
    BY <1>1 DEF HandleSubscribe, HandleUnsubscribe, BeginOnRows, EventBegin
  <2>2. [EventIdle EXCEPT !.next = n, !.socket = {s}] \in EventJob
    BY DEF EventIdle, EventJob, RowSteps, SubscriptionType
  <2>3. JobStep(c, RowSteps)
    BY <2>1, <2>2 DEF JobStep, EventIdle, Unique, RowSteps
  <2>4. RowKept /\ UNCHANGED <<listenVars, logVars>>
    BY <1>1 DEF HandleSubscribe, HandleUnsubscribe, BeginOnRows, RowKept, EventsTypes
  <2> QED
    BY <2>3, <2>4
<1>2. ASSUME NEW type \in SubscriptionType, PostSubscription(c, type)
      PROVE  JobStep(c, RowSteps) /\ RowKept /\ UNCHANGED <<listenVars, logVars>>
  <2> DEFINE j == [EventIdle EXCEPT !.next = "findExisting", !.type = type]
  <2>1. /\ eventJob' = [eventJob EXCEPT ![c] = j]
        /\ eventJob[c].next = "idle"
    BY <1>2 DEF PostSubscription, BeginOnRows, EventBegin
  <2>2. j \in EventJob
    BY DEF EventIdle, EventJob, RowSteps, SubscriptionType
  <2>3. JobStep(c, RowSteps)
    BY <2>1, <2>2 DEF JobStep, EventIdle, Unique, RowSteps
  <2>4. RowKept /\ UNCHANGED <<listenVars, logVars>>
    BY <1>2 DEF PostSubscription, BeginOnRows, RowKept, EventsTypes
  <2> QED
    BY <2>3, <2>4
<1>3. CASE FindExisting(c)
  <2> DEFINE j == NextCall(c, "saveActive")
  <2>1. /\ eventJob[c].next = "findExisting"
        /\ \/ eventJob' = [eventJob EXCEPT ![c] = j]
           \/ \E i \in SubscriptionIds :
                eventJob' = [eventJob EXCEPT ![c] = [j EXCEPT !.row = {i}]]
    BY <1>3 DEF FindExisting, EventGoto
  <2>2. j \in EventJob /\ j.next = "saveActive" /\ j.socket = eventJob[c].socket
        /\ j.row = eventJob[c].row /\ j.tx = eventJob[c].tx
    BY <1>0 DEF NextCall, RowSteps, EventJob
  <2> HIDE DEF j
  <2>3. ASSUME eventJob' = [eventJob EXCEPT ![c] = j]
        PROVE  JobStep(c, RowSteps)
    <3>1. j.next \in RowSteps \cup {"idle"} /\ eventJob[c].next \in RowSteps \cup {"idle"}
      BY <2>1, <2>2 DEF RowSteps
    <3>2. Unique(j.socket) /\ Unique(j.row) /\ Unique(j.tx)
      BY <1>0, <2>2
    <3> QED
      BY <2>2, <2>3, <3>1, <3>2, Zenon DEF JobStep
  <2>4. ASSUME NEW i \in SubscriptionIds,
               eventJob' = [eventJob EXCEPT ![c] = [j EXCEPT !.row = {i}]]
        PROVE  JobStep(c, RowSteps)
    <3>1. /\ [j EXCEPT !.row = {i}] \in EventJob
          /\ [j EXCEPT !.row = {i}].next = "saveActive"
          /\ [j EXCEPT !.row = {i}].socket = eventJob[c].socket
          /\ [j EXCEPT !.row = {i}].tx = eventJob[c].tx
          /\ [j EXCEPT !.row = {i}].row = {i}
      BY <2>2 DEF EventJob
    <3> DEFINE k == [j EXCEPT !.row = {i}]
    <3>2. k.next \in RowSteps \cup {"idle"} /\ eventJob[c].next \in RowSteps \cup {"idle"}
      BY <2>1, <3>1 DEF RowSteps
    <3>3. Unique(k.socket) /\ Unique(k.row) /\ Unique(k.tx)
      BY <1>0, <3>1 DEF Unique
    <3>4. k \in EventJob /\ eventJob' = [eventJob EXCEPT ![c] = k]
      BY <2>4, <3>1
    <3> HIDE DEF k
    <3> QED
      BY <3>2, <3>3, <3>4, Zenon DEF JobStep
  <2>5. RowKept /\ UNCHANGED <<listenVars, logVars>>
    BY <1>3 DEF FindExisting, rowVars, RowKept, EventsTypes
  <2> QED
    BY <2>1, <2>3, <2>4, <2>5
<1>4. CASE SaveActive(c)
  <2>1. PICK i \in SubscriptionIds :
          subscriptions' = [subscriptions EXCEPT ![i] =
                              [exists |-> TRUE, type |-> eventJob[c].type, status |-> "active"]]
    BY <1>0, <1>4 DEF SaveActive, EventJob
  <2>2. [exists |-> TRUE, type |-> eventJob[c].type, status |-> "active"] \in EventSubscription
    BY <1>0 DEF EventJob, EventSubscription, SubscriptionStatus
  <2>3. RowKept /\ UNCHANGED <<listenVars, logVars>>
    BY <1>4, <2>1, <2>2 DEF SaveActive, RowKept, EventsTypes
  <2>4. /\ eventJob[c].next = "saveActive"
        /\ \E j \in {EventIdle, NextCall(c, "join")} :
             eventJob' = [eventJob EXCEPT ![c] = j]
    BY <1>4 DEF SaveActive, EventGoto
  <2>5. /\ NextCall(c, "join") \in EventJob /\ NextCall(c, "join").next = "join"
        /\ NextCall(c, "join").socket = eventJob[c].socket
        /\ NextCall(c, "join").row = eventJob[c].row /\ NextCall(c, "join").tx = eventJob[c].tx
    BY <1>0 DEF NextCall, RowSteps, EventJob
  <2> QED
    BY <1>0, <2>3, <2>4, <2>5, IdleJobType DEF JobStep, RowSteps
<1>5. CASE Join(c)
  <2>1. /\ eventJob[c].next = "join" /\ eventJob' = [eventJob EXCEPT ![c] = EventIdle]
    BY <1>5 DEF Join, EventGoto
  <2>2. PICK s \in Sockets :
          sockets' = IF sockets[s].state = "connected"
                     THEN [sockets EXCEPT ![s].joined = TRUE, ![s].listed = @ + 1]
                     ELSE sockets
    BY <1>0, <1>5 DEF Join, EventJob
  <2>3. sockets' \in [Sockets -> Socket]
    BY <2>2 DEF EventsTypes, Socket
  <2>4. RowKept /\ UNCHANGED <<listenVars, logVars>>
    BY <1>5, <2>3 DEF Join, RowKept, EventsTypes
  <2> QED
    BY <2>1, <2>4, IdleJobType DEF JobStep, RowSteps
<1>6. CASE FindAny(c)
  <2> DEFINE j(i) == [NextCall(c, "saveInactive") EXCEPT !.row = {i},
                                                         !.type = subscriptions[i].type]
  <2>1. /\ eventJob[c].next = "findAny"
        /\ \/ eventJob' = [eventJob EXCEPT ![c] = EventIdle]
           \/ \E i \in SubscriptionIds : eventJob' = [eventJob EXCEPT ![c] = j(i)]
    BY <1>6 DEF FindAny, EventGoto
  <2>2. ASSUME NEW i \in SubscriptionIds
        PROVE  /\ j(i) \in EventJob /\ j(i).next = "saveInactive"
               /\ j(i).socket = eventJob[c].socket
               /\ j(i).row = {i} /\ j(i).tx = eventJob[c].tx
    BY <1>0 DEF NextCall, RowSteps, EventJob, EventsTypes, EventSubscription
  <2> HIDE DEF j
  <2>3. RowKept /\ UNCHANGED <<listenVars, logVars>>
    BY <1>6 DEF FindAny, rowVars, RowKept, EventsTypes
  <2>4. JobStep(c, RowSteps)
    BY <1>0, <2>1, <2>2, IdleJobType DEF JobStep, RowSteps, Unique
  <2> QED
    BY <2>3, <2>4
<1>7. CASE SaveInactive(c)
  <2>1. PICK i \in SubscriptionIds :
          subscriptions' = [subscriptions EXCEPT ![i] =
                              [exists |-> TRUE, type |-> eventJob[c].type, status |-> "inactive"]]
    BY <1>0, <1>7 DEF SaveInactive, EventJob
  <2>2. [exists |-> TRUE, type |-> eventJob[c].type, status |-> "inactive"] \in EventSubscription
    BY <1>0 DEF EventJob, EventSubscription, SubscriptionStatus
  <2>3. RowKept /\ UNCHANGED <<listenVars, logVars>>
    BY <1>7, <2>1, <2>2 DEF SaveInactive, RowKept, EventsTypes
  <2>4. /\ eventJob[c].next = "saveInactive"
        /\ eventJob' = [eventJob EXCEPT ![c] = NextCall(c, "leave")]
    BY <1>7 DEF SaveInactive, EventGoto
  <2>5. /\ NextCall(c, "leave") \in EventJob /\ NextCall(c, "leave").next = "leave"
        /\ NextCall(c, "leave").socket = eventJob[c].socket
        /\ NextCall(c, "leave").row = eventJob[c].row /\ NextCall(c, "leave").tx = eventJob[c].tx
    BY <1>0 DEF NextCall, RowSteps, EventJob
  <2> QED
    BY <1>0, <2>3, <2>4, <2>5 DEF JobStep, RowSteps
<1>8. CASE Leave(c)
  <2>1. /\ eventJob[c].next = "leave" /\ eventJob' = [eventJob EXCEPT ![c] = EventIdle]
    BY <1>8 DEF Leave, EventGoto
  <2>2. PICK s \in Sockets :
          sockets' = [sockets EXCEPT ![s].joined = FALSE,
                                     ![s].listed = IF @ > 0 THEN @ - 1 ELSE 0]
    BY <1>0, <1>8 DEF Leave, EventJob
  <2>3. sockets' \in [Sockets -> Socket]
    <3> DEFINE listed == IF sockets[s].listed > 0 THEN sockets[s].listed - 1 ELSE 0
    <3>1. sockets[s] \in Socket /\ listed \in Nat
      BY DEF EventsTypes, Socket
    <3>2. sockets' = [sockets EXCEPT ![s] =
                        [sockets[s] EXCEPT !.joined = FALSE, !.listed = listed]]
      BY <2>2 DEF EventsTypes
    <3> HIDE DEF listed
    <3> QED
      BY <3>1, <3>2 DEF EventsTypes, Socket
  <2>4. RowKept /\ UNCHANGED <<listenVars, logVars>>
    BY <1>8, <2>3 DEF Leave, RowKept, EventsTypes
  <2> QED
    BY <2>1, <2>4, IdleJobType DEF JobStep, RowSteps
<1> QED
  BY <1>1, <1>2, <1>3, <1>4, <1>5, <1>6, <1>7, <1>8 DEF RowStep

LogKept ==
    /\ stored' \in [Reported -> SUBSET EventType] /\ emitted' \in [Reported -> SUBSET EventType]
    /\ LogInv'

\* A request about a transaction stores before it emits, and the log first.
LEMMA LogStepEffect ==
    ASSUME EventsTypes, LogInv, NEW c \in EventCallers,
           LogStep(c) \/ \E t \in Reported, failed \in BOOLEAN : HandleProgramLogs(c, t, failed)
    PROVE  JobStep(c, LogSteps) /\ LogKept /\ UNCHANGED <<rowVars, listenVars>>
<1>0. /\ eventJob[c] \in EventJob
      /\ Unique(eventJob[c].socket) /\ Unique(eventJob[c].row) /\ Unique(eventJob[c].tx)
  BY DEF EventsTypes
<1>1. ASSUME NEW n \in LogSteps
      PROVE  /\ NextCall(c, n) \in EventJob /\ NextCall(c, n).next = n
             /\ NextCall(c, n).socket = eventJob[c].socket
             /\ NextCall(c, n).row = eventJob[c].row /\ NextCall(c, n).tx = eventJob[c].tx
  BY <1>0 DEF NextCall, EventJob
<1>2. ASSUME NEW save \in LogSteps, NEW emit \in LogSteps, NEW type \in EventType,
             CreateEvent(c, save, type, emit),
             <<save, type, emit>> \in {<<"saveLog", "program_log", "emitLog">>,
                <<"saveConfirmed", "transaction_confirmed", "emitConfirmed">>}
      PROVE  JobStep(c, LogSteps) /\ LogKept /\ UNCHANGED <<rowVars, listenVars>>
  <2>1. /\ eventJob[c].next = save
        /\ eventJob' = [eventJob EXCEPT ![c] = NextCall(c, emit)]
        /\ UNCHANGED <<emitted, rowVars, listenVars>>
    BY <1>2 DEF CreateEvent, EventGoto
  <2>2. PICK t \in eventJob[c].tx : stored' = [stored EXCEPT ![t] = @ \cup {type}]
    BY <1>2 DEF CreateEvent
  <2>3. JobStep(c, LogSteps)
    BY <1>0, <1>1, <2>1 DEF JobStep
  <2>4. stored' \in [Reported -> SUBSET EventType] /\ t \in Reported
    BY <1>0, <2>2 DEF EventsTypes, EventJob
  <2>5. \A u \in Reported : /\ stored[u] \subseteq stored'[u]
                            /\ stored'[u] \subseteq stored[u] \cup {type}
                            /\ u # t => stored'[u] = stored[u]
    BY <2>2, <2>4 DEF EventsTypes
  <2>6. \A u \in eventJob[c].tx : u = t /\ u \in Reported /\ type \in stored'[u]
    BY <1>0, <2>2, <2>4 DEF Unique, EventsTypes
  <2>7. StoredBeforeEmitted'
    BY <1>2, <2>1, <2>2, <2>4, <2>5 DEF LogInv, StoredBeforeEmitted
  <2>8. LogInv'
    <3>1. ASSUME NEW d \in EventCallers, NEW u \in eventJob'[d].tx
          PROVE  /\ eventJob'[d].next = "emitLog" => "program_log" \in stored'[u]
                 /\ eventJob'[d].next \in {"saveConfirmed", "emitConfirmed"} =>
                      "program_log" \in emitted'[u]
                 /\ eventJob'[d].next = "emitConfirmed" => "transaction_confirmed" \in stored'[u]
      <4>1. CASE d # c
        <5>1. eventJob'[d] = eventJob[d] /\ u \in Reported
          BY <2>1, <4>1 DEF EventsTypes, EventJob
        <5> QED
          BY <2>1, <2>5, <5>1 DEF LogInv
      <4>2. CASE d = c
        <5>1. eventJob'[c] = NextCall(c, emit)
          BY <2>1 DEF EventsTypes
        <5>2. eventJob'[c].next = emit /\ u \in eventJob[c].tx
          BY <1>1, <4>2, <5>1
        <5> QED
          BY <1>2, <2>1, <2>6, <4>2, <5>2 DEF LogInv
      <4> QED
        BY <4>1, <4>2
    <3> QED
      BY <2>7, <3>1 DEF LogInv
  <2> QED
    BY <2>1, <2>3, <2>4, <2>8 DEF LogKept, EventsTypes
<1>3. ASSUME NEW emit \in LogSteps, NEW type \in EventType, NEW j,
             EmitEvent(c, emit, type, j),
             \/ emit = "emitLog" /\ type = "program_log"
                /\ j \in {EventIdle, NextCall(c, "saveConfirmed")}
             \/ emit = "emitConfirmed" /\ type = "transaction_confirmed" /\ j = EventIdle
      PROVE  JobStep(c, LogSteps) /\ LogKept /\ UNCHANGED <<rowVars, listenVars>>
  <2>1. /\ eventJob[c].next = emit
        /\ eventJob' = [eventJob EXCEPT ![c] = j]
        /\ UNCHANGED <<stored, rowVars, listenVars>>
    BY <1>3 DEF EmitEvent, EventGoto
  <2>2. PICK t \in eventJob[c].tx : emitted' = [emitted EXCEPT ![t] = @ \cup {type}]
    BY <1>3 DEF EmitEvent
  <2>3. /\ j \in EventJob /\ Unique(j.socket) /\ Unique(j.row) /\ Unique(j.tx)
        /\ j.next \in {"idle", "saveConfirmed"} /\ j.tx \subseteq eventJob[c].tx
        /\ j.next = "saveConfirmed" => type = "program_log"
    <3>1. /\ EventIdle.tx = {}
      BY DEF EventIdle
    <3> QED
      BY <1>0, <1>1, <1>3, <3>1, IdleJobType DEF LogSteps
  <2>4. JobStep(c, LogSteps)
    BY <2>1, <2>3 DEF JobStep, LogSteps
  <2>5. emitted' \in [Reported -> SUBSET EventType] /\ t \in Reported
    BY <1>0, <2>2 DEF EventsTypes, EventJob
  <2>6. \A u \in Reported : /\ emitted[u] \subseteq emitted'[u]
                            /\ emitted'[u] \subseteq emitted[u] \cup {type}
                            /\ u # t => emitted'[u] = emitted[u]
    BY <2>2, <2>5 DEF EventsTypes
  <2>7. \A u \in eventJob[c].tx : u = t /\ u \in Reported /\ type \in emitted'[u]
    BY <1>0, <2>2, <2>5 DEF Unique, EventsTypes
  <2>8. type \in stored[t]
    BY <1>3, <2>1, <2>2 DEF LogInv
  <2>9. StoredBeforeEmitted'
    <3>1. ASSUME NEW u \in Reported
          PROVE  /\ emitted'[u] \subseteq stored'[u]
                 /\ "transaction_confirmed" \in stored'[u] => "program_log" \in emitted'[u]
      BY <2>1, <2>6, <2>8 DEF LogInv, StoredBeforeEmitted
    <3> QED
      BY <3>1 DEF StoredBeforeEmitted
  <2>10. LogInv'
    <3>1. ASSUME NEW d \in EventCallers, NEW u \in eventJob'[d].tx
          PROVE  /\ eventJob'[d].next = "emitLog" => "program_log" \in stored'[u]
                 /\ eventJob'[d].next \in {"saveConfirmed", "emitConfirmed"} =>
                      "program_log" \in emitted'[u]
                 /\ eventJob'[d].next = "emitConfirmed" => "transaction_confirmed" \in stored'[u]
      <4>1. CASE d # c
        <5>1. eventJob'[d] = eventJob[d] /\ u \in Reported
          BY <2>1, <4>1 DEF EventsTypes, EventJob
        <5> QED
          BY <2>1, <2>6, <5>1 DEF LogInv
      <4>2. CASE d = c
        <5>1. eventJob'[d] = j
          BY <2>1, <4>2 DEF EventsTypes
        <5> QED
          BY <2>3, <2>7, <5>1
      <4> QED
        BY <4>1, <4>2
    <3> QED
      BY <2>9, <3>1 DEF LogInv
  <2> QED
    BY <2>1, <2>4, <2>5, <2>10 DEF LogKept, EventsTypes
<1>4. ASSUME NEW t \in Reported, NEW failed \in BOOLEAN, HandleProgramLogs(c, t, failed)
      PROVE  JobStep(c, LogSteps) /\ LogKept /\ UNCHANGED <<rowVars, listenVars>>
  <2> DEFINE j == [EventIdle EXCEPT !.next = "saveLog", !.tx = {t}, !.failed = failed]
  <2>1. /\ eventJob' = [eventJob EXCEPT ![c] = j]
        /\ eventJob[c].next = "idle" /\ UNCHANGED <<stored, emitted, rowVars, listenVars>>
    BY <1>4 DEF HandleProgramLogs, EventBegin, logVars
  <2>2. /\ j \in EventJob /\ Unique(j.socket) /\ Unique(j.row) /\ Unique(j.tx)
        /\ j.next = "saveLog"
    BY DEF EventIdle, EventJob, LogSteps, SubscriptionType, Unique
  <2> HIDE DEF j
  <2>3. JobStep(c, LogSteps)
    BY <2>1, <2>2 DEF JobStep, LogSteps
  <2>4. LogInv'
    BY <2>1, <2>2 DEF LogInv, StoredBeforeEmitted, EventsTypes
  <2> QED
    BY <2>1, <2>3, <2>4 DEF LogKept, EventsTypes
<1> QED
  <2>1. CASE CreateEvent(c, "saveLog", "program_log", "emitLog")
    BY <1>2, <2>1 DEF LogSteps, EventType
  <2>2. CASE CreateEvent(c, "saveConfirmed", "transaction_confirmed", "emitConfirmed")
    BY <1>2, <2>2 DEF LogSteps, EventType
  <2>3. CASE EmitEvent(c, "emitLog", "program_log",
                 IF eventJob[c].failed THEN EventIdle ELSE NextCall(c, "saveConfirmed"))
    BY <1>3, <2>3 DEF LogSteps, EventType
  <2>4. CASE EmitEvent(c, "emitConfirmed", "transaction_confirmed", EventIdle)
    BY <1>3, <2>4 DEF LogSteps, EventType
  <2> QED
    BY <1>4, <2>1, <2>2, <2>3, <2>4 DEF LogStep

\* A rejected call ends its request and changes no record.
LEMMA RejectEffect ==
    ASSUME EventsTypes, NEW c \in EventCallers, EventReject(c)
    PROVE  /\ eventJob' = [eventJob EXCEPT ![c] = EventIdle]
           /\ eventJob[c].next \notin {"idle", "join", "leave"}
           /\ listenTroubled' = (listenTroubled \/ eventJob[c].next = "removed")
           /\ UNCHANGED <<rowVars, logVars, accountEntry, listeners, lastListener, wanted>>
BY DEF EventReject

LEMMA TypesAfterJob ==
    ASSUME EventsTypes, NEW c \in EventCallers, NEW steps, JobStep(c, steps)
    PROVE  /\ eventJob' \in [EventCallers -> EventJob]
           /\ \A d \in EventCallers : /\ Unique(eventJob'[d].socket) /\ Unique(eventJob'[d].row)
                                      /\ Unique(eventJob'[d].tx)
<1>1. PICK j \in EventJob :
         /\ eventJob' = [eventJob EXCEPT ![c] = j]
         /\ Unique(j.socket) /\ Unique(j.row) /\ Unique(j.tx)
  BY DEF JobStep
<1>2. \A d \in EventCallers : eventJob'[d] = IF d = c THEN j ELSE eventJob[d]
  BY <1>1 DEF EventsTypes
<1> QED
  BY <1>1, <1>2 DEF EventsTypes

LEMMA ListenAfterJob ==
    ASSUME EventsTypes, ListenInv, NEW c \in EventCallers, NEW steps, "removed" \notin steps,
           JobStep(c, steps), UNCHANGED listenVars
    PROVE  ListenInv'
<1>1. PICK j \in EventJob :
         /\ eventJob' = [eventJob EXCEPT ![c] = j]
         /\ j.next # "removed" /\ eventJob[c].next # "removed"
  BY DEF JobStep
<1>2. Removers' = Removers
  BY <1>1 DEF Removers, EventsTypes
<1> QED
  BY <1>2 DEF ListenInv, listenVars

\* subscribeToAccount, unsubscribeFromAccount: the types and the listeners.
LEMMA SubscribedInv ==
    ASSUME EventsTypes, ListenInv, SubscribeToAccount
    PROVE  ListenInv' /\ EventsTypes' /\ UNCHANGED <<rowVars, logVars, eventJob>>
<1>1. UNCHANGED <<rowVars, logVars, eventJob>> /\ wanted' = TRUE
  BY DEF SubscribeToAccount
<1>2. listenTroubled' = (listenTroubled \/ Removers # {})
  BY DEF SubscribeToAccount, Removing, Removers
<1>3. \/ accountEntry # 0 /\ UNCHANGED <<accountEntry, listeners, lastListener>>
      \/ /\ accountEntry = 0 /\ lastListener' = lastListener + 1
         /\ accountEntry' = lastListener' /\ listeners' = listeners \cup {lastListener'}
  BY DEF SubscribeToAccount
<1>4. EventsTypes'
  BY <1>1, <1>2, <1>3 DEF EventsTypes, rowVars, logVars
<1>5. Removers' = Removers
  BY <1>1 DEF Removers
<1>6. ListenInv'
  <2> SUFFICES ASSUME ~listenTroubled'
               PROVE  accountEntry' # 0 /\ listeners' = {accountEntry'} /\ Removers = {}
    BY <1>1, <1>5 DEF ListenInv, Unique
  <2>1. ~listenTroubled /\ Removers = {}
    BY <1>2
  <2>2. CASE accountEntry # 0 /\ UNCHANGED <<accountEntry, listeners>>
    BY <2>1, <2>2 DEF ListenInv, EventsTypes
  <2>3. CASE accountEntry = 0 /\ accountEntry' = lastListener + 1
                /\ listeners' = listeners \cup {lastListener + 1}
    BY <2>1, <2>3 DEF ListenInv, EventsTypes
  <2> QED
    BY <1>3, <2>1, <2>2, <2>3
<1> QED
  BY <1>1, <1>4, <1>6

LEMMA UnsubscribedInv ==
    ASSUME EventsTypes, ListenInv, NEW c \in EventCallers, UnsubscribeFromAccount(c)
    PROVE  /\ ListenInv' /\ JobStep(c, {"removed"}) /\ UNCHANGED <<rowVars, logVars>>
           /\ lastListener' = lastListener
           /\ wanted' \in BOOLEAN /\ listenTroubled' \in BOOLEAN
<1> DEFINE j == [EventIdle EXCEPT !.next = "removed"]
<1>1. /\ eventJob' = [eventJob EXCEPT ![c] = j] /\ eventJob[c].next = "idle"
      /\ accountEntry # 0 /\ listeners' = listeners \ {accountEntry} /\ wanted' = FALSE
      /\ UNCHANGED <<accountEntry, lastListener, rowVars, logVars>>
  BY DEF UnsubscribeFromAccount, EventBegin
<1>2. listenTroubled' = (listenTroubled \/ Removers # {})
  BY DEF UnsubscribeFromAccount, Removing, Removers
<1>3. /\ j \in EventJob /\ Unique(j.socket) /\ Unique(j.row) /\ Unique(j.tx)
      /\ j.next = "removed"
  BY DEF EventIdle, EventJob, SubscriptionType, Unique
<1> HIDE DEF j
<1>4. JobStep(c, {"removed"})
  BY <1>1, <1>3 DEF JobStep
<1>5. Removers' = Removers \cup {c}
  BY <1>1, <1>3 DEF Removers, EventsTypes
<1>6. ListenInv'
  <2> SUFFICES ASSUME ~listenTroubled'
               PROVE  Removers' = {c} /\ listeners' = {}
    BY <1>1 DEF ListenInv, Unique
  <2>1. ~listenTroubled /\ Removers = {}
    BY <1>2
  <2> QED
    BY <1>1, <1>5, <2>1 DEF ListenInv, EventsTypes
<1> QED
  BY <1>1, <1>2, <1>4, <1>6 DEF EventsTypes

LEMMA EntryDeletedInv ==
    ASSUME EventsTypes, ListenInv, NEW c \in EventCallers,
           \/ DeleteEntry(c)
           \/ EventReject(c) /\ eventJob[c].next = "removed"
    PROVE  /\ ListenInv' /\ JobStep(c, {"removed"}) /\ UNCHANGED <<rowVars, logVars>>
           /\ lastListener' = lastListener
           /\ wanted' \in BOOLEAN /\ listenTroubled' \in BOOLEAN
<1>1. /\ eventJob' = [eventJob EXCEPT ![c] = EventIdle] /\ eventJob[c].next = "removed"
      /\ UNCHANGED <<listeners, lastListener, wanted, rowVars, logVars>>
      /\ \/ accountEntry' = 0 /\ listenTroubled' = listenTroubled
         \/ listenTroubled' = TRUE
  BY RejectEffect DEF DeleteEntry, EventGoto
<1>2. JobStep(c, {"removed"})
  BY <1>1, IdleJobType DEF JobStep
<1>3. c \in Removers /\ Removers' = Removers \ {c}
  BY <1>1, IdleJobType DEF Removers, EventsTypes
<1>4. ListenInv'
  <2> SUFFICES ASSUME ~listenTroubled'
               PROVE  Removers' = {} /\ listeners' = {} /\ ~wanted' /\ accountEntry' = 0
    BY DEF ListenInv, Unique
  <2>1. ~listenTroubled /\ accountEntry' = 0
    BY <1>1
  <2> QED
    BY <1>1, <1>3, <2>1 DEF ListenInv, Unique
<1> QED
  BY <1>1, <1>2, <1>4 DEF EventsTypes

-----------------------------------------------------------------------------
(* Rows and rooms                                                           *)

BusyCallers == {c \in EventCallers : eventJob[c].next \in RowSteps}

ActiveRow == \E i \in WebsocketRows : subscriptions[i].status = "active"

Arrived == {s \in Sockets : sockets[s].state # "new"}

InRooms ==
    \A s \in Sockets : sockets[s].joined => sockets[s].state = "connected" /\ sockets[s].listed > 0

\* Requests kept apart: one at work, one websocket row, and what it is to save is
\* that row.
OneRow ==
    ~subOverlapped =>
      /\ Unique(BusyCallers) /\ Unique(WebsocketRows)
      /\ \A c \in EventCallers : eventJob[c].type = "websocket" =>
           /\ eventJob[c].next = "saveActive" /\ eventJob[c].row = {} => WebsocketRows = {}
           /\ eventJob[c].next = "saveActive" /\ eventJob[c].row # {} =>
                WebsocketRows \subseteq eventJob[c].row
           /\ eventJob[c].next = "saveInactive" => WebsocketRows \subseteq eventJob[c].row

\* One socket besides, and no change over HTTP: the room follows the row, one
\* step behind while the socket joins or leaves.
OneRoom ==
    ~subOverlapped /\ ~direct /\ Unique(Arrived) =>
      /\ \A i \in SubscriptionIds : subscriptions[i].exists => subscriptions[i].type = "websocket"
      /\ \A c \in BusyCallers : /\ eventJob[c].type = "websocket" /\ eventJob[c].socket # {}
                                /\ eventJob[c].socket \subseteq Arrived
      /\ Arrived = {} => WebsocketRows = {}
      /\ \A c \in EventCallers : /\ eventJob[c].next = "join" => ActiveRow
                                 /\ eventJob[c].next = "leave" => ~ActiveRow
      /\ (\A c \in EventCallers : eventJob[c].next \notin {"join", "leave"}) =>
           \A s \in Sockets : sockets[s].state = "connected" => (sockets[s].joined <=> ActiveRow)

RowsInv == InRooms /\ OneRow /\ OneRoom

\* Steps that leave the rows, the rooms and the requests about them alone.
LEMMA RowsQuiet ==
    ASSUME EventsTypes, RowsInv, UNCHANGED rowVars,
           \A c \in EventCallers :
              eventJob'[c] = eventJob[c]
                \/ (eventJob[c].next \notin RowSteps /\ eventJob'[c].next \notin RowSteps)
    PROVE  RowsInv'
<1>1. BusyCallers' = BusyCallers /\ WebsocketRows' = WebsocketRows /\ Arrived' = Arrived
        /\ (ActiveRow' <=> ActiveRow)
  BY DEF BusyCallers, WebsocketRows, Arrived, ActiveRow, rowVars
<1>2. \A c \in EventCallers :
        \/ eventJob[c] = eventJob'[c]
        \/ /\ eventJob[c].next \notin {"saveActive", "saveInactive", "join", "leave"}
           /\ eventJob'[c].next \notin {"saveActive", "saveInactive", "join", "leave"}
  BY DEF RowSteps
<1>3. \A c \in BusyCallers : c \in EventCallers /\ eventJob'[c] = eventJob[c]
  BY DEF BusyCallers
<1>4. InRooms'
  BY DEF RowsInv, InRooms, rowVars
<1>5. OneRow'
  BY <1>1, <1>2 DEF RowsInv, OneRow, rowVars
<1>6. OneRoom'
  <2> SUFFICES ASSUME ~subOverlapped' /\ ~direct' /\ Unique(Arrived')
               PROVE  OneRoom'
    BY DEF OneRoom
  <2>1. /\ \A i \in SubscriptionIds : subscriptions[i].exists => subscriptions[i].type = "websocket"
        /\ \A c \in BusyCallers : /\ eventJob[c].type = "websocket" /\ eventJob[c].socket # {}
                                  /\ eventJob[c].socket \subseteq Arrived
        /\ Arrived = {} => WebsocketRows = {}
        /\ \A c \in EventCallers : /\ eventJob[c].next = "join" => ActiveRow
                                   /\ eventJob[c].next = "leave" => ~ActiveRow
        /\ (\A c \in EventCallers : eventJob[c].next \notin {"join", "leave"}) =>
             \A s \in Sockets : sockets[s].state = "connected" => (sockets[s].joined <=> ActiveRow)
    BY <1>1 DEF RowsInv, OneRoom, rowVars
  <2> QED
    BY <1>1, <1>2, <1>3, <2>1 DEF OneRoom, rowVars
<1> QED
  BY <1>4, <1>5, <1>6 DEF RowsInv

\* What OneRoom says where it says something.
RoomFacts ==
    /\ \A i \in SubscriptionIds : subscriptions[i].exists => subscriptions[i].type = "websocket"
    /\ \A c \in BusyCallers : /\ eventJob[c].type = "websocket" /\ eventJob[c].socket # {}
                              /\ eventJob[c].socket \subseteq Arrived
    /\ Arrived = {} => WebsocketRows = {}
    /\ \A c \in EventCallers : /\ eventJob[c].next = "join" => ActiveRow
                               /\ eventJob[c].next = "leave" => ~ActiveRow
    /\ (\A c \in EventCallers : eventJob[c].next \notin {"join", "leave"}) =>
         \A s \in Sockets : sockets[s].state = "connected" => (sockets[s].joined <=> ActiveRow)

LEMMA RoomFactsOf == OneRoom <=> (~subOverlapped /\ ~direct /\ Unique(Arrived) => RoomFacts)
BY DEF OneRoom, RoomFacts

LEMMA ConnectedInv ==
    ASSUME EventsTypes, RowsInv, NEW s \in Sockets, HandleConnection(s) \/ HandleDisconnect(s)
    PROVE  RowsInv' /\ EventsTypes'
             /\ UNCHANGED <<listenVars, logVars, eventJob>>
<1>1. /\ UNCHANGED <<subscriptions, subOverlapped, direct, listenVars, logVars, eventJob>>
      /\ \/ /\ sockets[s].state = "new"
            /\ sockets' = [sockets EXCEPT ![s].state = "connected"]
         \/ /\ sockets[s].state = "connected"
            /\ sockets' = [sockets EXCEPT ![s] = [state |-> "gone", joined |-> FALSE, listed |-> 0]]
  BY DEF HandleConnection, HandleDisconnect
<1>2. EventsTypes'
  <2>1. PICK x \in Socket : sockets' = [sockets EXCEPT ![s] = x]
    <3>1. [sockets[s] EXCEPT !.state = "connected"] \in Socket
      BY DEF EventsTypes, Socket
    <3>2. [state |-> "gone", joined |-> FALSE, listed |-> 0] \in Socket
      BY DEF Socket
    <3>3. CASE sockets' = [sockets EXCEPT ![s].state = "connected"]
      <4>1. sockets' = [sockets EXCEPT ![s] = [sockets[s] EXCEPT !.state = "connected"]]
        BY <3>3 DEF EventsTypes
      <4> QED
        BY <3>1, <4>1
    <3> QED
      BY <1>1, <3>2, <3>3
  <2>2. sockets' \in [Sockets -> Socket]
    BY <2>1 DEF EventsTypes
  <2> QED
    BY <1>1, <2>2 DEF EventsTypes, listenVars, logVars
<1>3. /\ BusyCallers' = BusyCallers /\ WebsocketRows' = WebsocketRows
      /\ (ActiveRow' <=> ActiveRow)
  BY <1>1 DEF BusyCallers, WebsocketRows, ActiveRow
<1>4. OneRow'
  BY <1>1, <1>3 DEF RowsInv, OneRow
<1>5. CASE sockets[s].state = "new" /\ sockets' = [sockets EXCEPT ![s].state = "connected"]
  <2>1. \A t \in Sockets :
          /\ t # s => sockets'[t] = sockets[t]
          /\ sockets'[s].state = "connected" /\ sockets'[s].joined = sockets[s].joined
    BY <1>5 DEF EventsTypes, Socket
  <2>2. InRooms' /\ ~sockets[s].joined
    BY <1>5, <2>1 DEF RowsInv, InRooms
  <2>3. Arrived' = Arrived \cup {s} /\ s \notin Arrived
    BY <1>5, <2>1 DEF Arrived
  <2>4. ASSUME ~subOverlapped', ~direct', Unique(Arrived')
        PROVE  RoomFacts'
    <3>1. Arrived = {}
      BY <2>3, <2>4 DEF Unique
    <3>2. RoomFacts
      BY <1>1, <2>4, <3>1, RoomFactsOf DEF RowsInv, Unique
    <3>3. BusyCallers = {} /\ WebsocketRows = {} /\ ~ActiveRow
      BY <3>1, <3>2 DEF RoomFacts, ActiveRow
    <3>4. \A t \in Sockets : sockets'[t].state = "connected" => ~sockets'[t].joined
      BY <2>1, <2>2, <3>1 DEF Arrived
    <3> QED
      BY <1>1, <1>3, <3>2, <3>3, <3>4 DEF RoomFacts
  <2>5. OneRoom'
    BY <2>4 DEF OneRoom, RoomFacts
  <2> QED
    BY <1>1, <1>2, <1>4, <2>2, <2>5 DEF RowsInv
<1>6. CASE /\ sockets[s].state = "connected"
           /\ sockets' = [sockets EXCEPT ![s] = [state |-> "gone", joined |-> FALSE, listed |-> 0]]
  <2>1. \A t \in Sockets :
          /\ t # s => sockets'[t] = sockets[t]
          /\ sockets'[s].state = "gone" /\ sockets'[s].joined = FALSE
    BY <1>6 DEF EventsTypes, Socket
  <2>2. InRooms'
    BY <1>6, <2>1 DEF RowsInv, InRooms
  <2>3. Arrived' = Arrived
    BY <1>6, <2>1 DEF Arrived
  <2>4. ASSUME ~subOverlapped', ~direct', Unique(Arrived')
        PROVE  RoomFacts'
    <3>1. RoomFacts
      BY <1>1, <2>3, <2>4, RoomFactsOf DEF RowsInv
    <3>2. \A t \in Sockets : sockets'[t].state = "connected" => sockets'[t] = sockets[t]
      BY <2>1
    <3> QED
      BY <1>1, <1>3, <2>3, <3>1, <3>2 DEF RoomFacts
  <2>5. OneRoom'
    BY <2>4 DEF OneRoom, RoomFacts
  <2> QED
    BY <1>1, <1>2, <1>4, <2>2, <2>5 DEF RowsInv
<1> QED
  BY <1>1, <1>5, <1>6

\* updateSubscription, deleteSubscription: the rows only get fewer.
LEMMA ChangedInv ==
    ASSUME EventsTypes, RowsInv, NEW i \in SubscriptionIds,
           DeleteSubscription(i) \/ \E status \in SubscriptionStatus : PutSubscription(i, status)
    PROVE  RowsInv' /\ EventsTypes'
             /\ UNCHANGED <<listenVars, logVars, eventJob>>
<1>1. /\ UNCHANGED <<sockets, subOverlapped, listenVars, logVars, eventJob>> /\ direct' = TRUE
      /\ subscriptions[i].exists
      /\ \/ subscriptions' = [subscriptions EXCEPT ![i] = NoSubscription]
         \/ \E status \in SubscriptionStatus :
              subscriptions' = [subscriptions EXCEPT ![i].status = status]
  BY DEF DeleteSubscription, PutSubscription
<1>2. EventsTypes'
  <2>1. PICK x \in EventSubscription : subscriptions' = [subscriptions EXCEPT ![i] = x]
    <3>1. \A status \in SubscriptionStatus :
            [subscriptions[i] EXCEPT !.status = status] \in EventSubscription
      BY DEF EventsTypes, EventSubscription
    <3>2. NoSubscription \in EventSubscription
      BY DEF EventSubscription, NoSubscription, SubscriptionType, SubscriptionStatus
    <3>3. ASSUME NEW status \in SubscriptionStatus,
                 subscriptions' = [subscriptions EXCEPT ![i].status = status]
          PROVE  subscriptions' = [subscriptions EXCEPT
                                     ![i] = [subscriptions[i] EXCEPT !.status = status]]
      BY <3>3 DEF EventsTypes
    <3> QED
      BY <1>1, <3>1, <3>2, <3>3
  <2>2. subscriptions' \in [SubscriptionIds -> EventSubscription]
    BY <2>1 DEF EventsTypes
  <2> QED
    BY <1>1, <2>2 DEF EventsTypes, listenVars, logVars
<1>3. WebsocketRows' \subseteq WebsocketRows
  <2>1. \A k \in SubscriptionIds : subscriptions'[k].exists =>
          subscriptions[k].exists /\ subscriptions'[k].type = subscriptions[k].type
    BY <1>1 DEF EventsTypes, EventSubscription, NoSubscription
  <2> QED
    BY <2>1 DEF WebsocketRows
<1>4. OneRow'
  BY <1>1, <1>3 DEF RowsInv, OneRow, BusyCallers, Unique
<1>5. OneRoom' /\ InRooms'
  BY <1>1 DEF OneRoom, RowsInv, InRooms
<1> QED
  BY <1>1, <1>2, <1>4, <1>5 DEF RowsInv

\* handleSubscribe, handleUnsubscribe, and a subscription over HTTP: a request
\* that begins while another is at work overlaps it.
LEMMA BegunInv ==
    ASSUME EventsTypes, RowsInv, NEW c \in EventCallers,
           \/ \E s \in Sockets : HandleSubscribe(c, s) \/ HandleUnsubscribe(c, s)
           \/ \E type \in SubscriptionType : PostSubscription(c, type)
    PROVE  RowsInv'
<1>1. PICK j :
        /\ eventJob' = [eventJob EXCEPT ![c] = j] /\ j.next \in {"findExisting", "findAny"}
        /\ \/ /\ j.socket # {} /\ j.socket \subseteq Arrived /\ j.type = "websocket"
              /\ direct' = direct
           \/ direct' = TRUE
  <2>1. ASSUME NEW s \in Sockets, NEW n \in {"findExisting", "findAny"},
               sockets[s].state = "connected",
               BeginOnRows(c, [EventIdle EXCEPT !.next = n, !.socket = {s}]), direct' = direct
        PROVE  \E j :
                 /\ eventJob' = [eventJob EXCEPT ![c] = j] /\ j.next = n
                 /\ j.socket # {} /\ j.socket \subseteq Arrived /\ j.type = "websocket"
                 /\ direct' = direct
    <3> DEFINE k == [EventIdle EXCEPT !.next = n, !.socket = {s}]
    <3>1. eventJob' = [eventJob EXCEPT ![c] = k]
      BY <2>1 DEF BeginOnRows, EventBegin
    <3>2. k.next = n /\ k.socket = {s} /\ k.type = "websocket" /\ s \in Arrived
      BY <2>1 DEF EventIdle, Arrived
    <3> HIDE DEF k
    <3> QED
      BY <2>1, <3>1, <3>2
  <2>2. ASSUME NEW type \in SubscriptionType, PostSubscription(c, type)
        PROVE  \E j : /\ eventJob' = [eventJob EXCEPT ![c] = j] /\ j.next = "findExisting"
                      /\ direct' = TRUE
    <3> DEFINE k == [EventIdle EXCEPT !.next = "findExisting", !.type = type]
    <3>1. eventJob' = [eventJob EXCEPT ![c] = k] /\ direct' = TRUE
      BY <2>2 DEF PostSubscription, BeginOnRows, EventBegin
    <3>2. k.next = "findExisting"
      BY DEF EventIdle
    <3> HIDE DEF k
    <3> QED
      BY <3>1, <3>2
  <2>3. CASE \E s \in Sockets : HandleSubscribe(c, s)
    BY <2>1, <2>3 DEF HandleSubscribe
  <2>4. CASE \E s \in Sockets : HandleUnsubscribe(c, s)
    BY <2>1, <2>4 DEF HandleUnsubscribe
  <2> QED
    BY <2>2, <2>3, <2>4
<1>2. /\ subOverlapped' = (subOverlapped \/ RowsBusy)
      /\ UNCHANGED <<subscriptions, sockets>> /\ eventJob[c].next = "idle"
  BY DEF HandleSubscribe, HandleUnsubscribe, PostSubscription, BeginOnRows, EventBegin
<1>3. RowsBusy <=> BusyCallers # {}
  BY DEF RowsBusy, BusyCallers
<1>6. \A d \in EventCallers : eventJob'[d] = IF d = c THEN j ELSE eventJob[d]
  BY <1>1 DEF EventsTypes
<1>7. /\ BusyCallers' = BusyCallers \cup {c}
      /\ WebsocketRows' = WebsocketRows /\ Arrived' = Arrived /\ (ActiveRow' <=> ActiveRow)
  BY <1>1, <1>2, <1>6 DEF BusyCallers, WebsocketRows, Arrived, ActiveRow, RowSteps
<1>8. InRooms'
  BY <1>2 DEF RowsInv, InRooms
<1>9. OneRow'
  <2> SUFFICES ASSUME ~subOverlapped'
               PROVE  OneRow'
    BY DEF OneRow
  <2>1. ~subOverlapped /\ BusyCallers = {}
    BY <1>2, <1>3
  <2> QED
    BY <1>1, <1>6, <1>7, <2>1 DEF RowsInv, OneRow, Unique
<1>10. OneRoom'
  <2>1. ASSUME ~subOverlapped', ~direct', Unique(Arrived')
        PROVE  RoomFacts'
    <3>1. ~direct /\ j.socket # {} /\ j.socket \subseteq Arrived /\ j.type = "websocket"
      BY <1>1, <2>1
    <3>2. RoomFacts /\ BusyCallers = {}
      BY <1>2, <1>3, <1>7, <2>1, <3>1, RoomFactsOf DEF RowsInv
    <3>3. \A d \in EventCallers : eventJob[d].next \notin {"join", "leave"}
                                 /\ eventJob'[d].next \notin {"join", "leave"}
      BY <1>1, <1>6, <3>2 DEF BusyCallers, RowSteps
    <3> QED
      BY <1>1, <1>2, <1>6, <1>7, <3>1, <3>2, <3>3 DEF RoomFacts
  <2> QED
    BY <2>1 DEF OneRoom, RoomFacts
<1> QED
  BY <1>8, <1>9, <1>10 DEF RowsInv

\* A request at work on the rows, kept apart, is the only one.
LEMMA Alone ==
    ASSUME RowsInv, ~subOverlapped, NEW c \in EventCallers, eventJob[c].next \in RowSteps
    PROVE  \A d \in EventCallers : d # c => eventJob[d].next \notin RowSteps
BY DEF RowsInv, OneRow, Unique, BusyCallers

\* createSubscription looks for a row, and a rejected call ends the request.
LEMMA FoundInv ==
    ASSUME EventsTypes, RowsInv, NEW c \in EventCallers,
           \/ FindExisting(c) \/ FindAny(c)
           \/ EventReject(c) /\ eventJob[c].next \in RowSteps
    PROVE  RowsInv'
<1>1. /\ eventJob[c].next \in RowSteps \ {"join", "leave"}
      /\ UNCHANGED <<subscriptions, sockets, subOverlapped, direct>>
  BY DEF FindExisting, FindAny, EventReject, RowSteps, rowVars
<1>2. PICK j :
        /\ eventJob' = [eventJob EXCEPT ![c] = j]
        /\ j.next \in {"saveActive", "saveInactive", "idle"}
        /\ j.next = "saveActive" =>
             /\ j.socket = eventJob[c].socket /\ j.type = eventJob[c].type
             /\ \/ \A i \in SubscriptionIds : subscriptions[i].exists => subscriptions[i].type # j.type
                \/ \E i \in SubscriptionIds : j.row = {i} /\ subscriptions[i].exists
                                               /\ subscriptions[i].type = j.type
        /\ j.next = "saveInactive" =>
             /\ j.socket = eventJob[c].socket
             /\ \E i \in SubscriptionIds : j.row = {i} /\ subscriptions[i].exists
                                            /\ subscriptions[i].type = j.type
  <2>0. eventJob[c] \in EventJob
    BY DEF EventsTypes
  <2>1. CASE FindExisting(c)
    <3> DEFINE k == NextCall(c, "saveActive")
               found == {i \in SubscriptionIds : subscriptions[i].exists
                                                   /\ subscriptions[i].type = eventJob[c].type}
    <3>1. \/ found = {} /\ eventJob' = [eventJob EXCEPT ![c] = k]
          \/ \E i \in found : eventJob' = [eventJob EXCEPT ![c] = [k EXCEPT !.row = {i}]]
      BY <2>1 DEF FindExisting, EventGoto
    <3>2. /\ k.next = "saveActive" /\ k.socket = eventJob[c].socket /\ k.type = eventJob[c].type
          /\ \A i : /\ [k EXCEPT !.row = {i}].next = "saveActive"
                    /\ [k EXCEPT !.row = {i}].socket = eventJob[c].socket
                    /\ [k EXCEPT !.row = {i}].type = eventJob[c].type
                    /\ [k EXCEPT !.row = {i}].row = {i}
      BY <2>0 DEF NextCall, EventJob
    <3> HIDE DEF k
    <3>3. CASE found = {} /\ eventJob' = [eventJob EXCEPT ![c] = k]
      <4>1. \A i \in SubscriptionIds : subscriptions[i].exists =>
                                       subscriptions[i].type # k.type
        BY <3>2, <3>3
      <4> HIDE DEF found
      <4> QED
        BY <3>2, <3>3, <4>1
    <3>4. ASSUME NEW i \in found, eventJob' = [eventJob EXCEPT ![c] = [k EXCEPT !.row = {i}]]
          PROVE  \E j :
                   /\ eventJob' = [eventJob EXCEPT ![c] = j]
                   /\ j.next = "saveActive"
                   /\ j.socket = eventJob[c].socket /\ j.type = eventJob[c].type
                   /\ j.row = {i}
      <4> DEFINE kk == [k EXCEPT !.row = {i}]
      <4>1. /\ eventJob' = [eventJob EXCEPT ![c] = kk]
            /\ kk.next = "saveActive"
            /\ kk.socket = eventJob[c].socket /\ kk.type = eventJob[c].type
            /\ kk.row = {i}
        BY <3>2, <3>4
      <4> HIDE DEF kk
      <4> QED
        BY <4>1
    <3>5. CASE \E i \in found : eventJob' = [eventJob EXCEPT ![c] = [k EXCEPT !.row = {i}]]
      <4>1. PICK i \in found : eventJob' = [eventJob EXCEPT ![c] = [k EXCEPT !.row = {i}]]
        BY <3>5
      <4>2. PICK j : /\ eventJob' = [eventJob EXCEPT ![c] = j]
                     /\ j.next = "saveActive"
                     /\ j.socket = eventJob[c].socket /\ j.type = eventJob[c].type
                     /\ j.row = {i}
        BY <3>4, <4>1
      <4>3. /\ i \in SubscriptionIds /\ subscriptions[i].exists
            /\ subscriptions[i].type = j.type
        BY <4>1, <4>2
      <4> HIDE DEF found
      <4> QED
        BY <4>2, <4>3
    <3> QED
      BY <3>1, <3>3, <3>5
  <2>2. CASE FindAny(c)
    <3> DEFINE k(i) == [NextCall(c, "saveInactive") EXCEPT !.row = {i},
                                                           !.type = subscriptions[i].type]
    <3>1. \/ eventJob' = [eventJob EXCEPT ![c] = EventIdle]
          \/ \E i \in SubscriptionIds : subscriptions[i].exists
                                          /\ eventJob' = [eventJob EXCEPT ![c] = k(i)]
      BY <2>2 DEF FindAny, EventGoto
    <3>2. \A i \in SubscriptionIds :
             /\ k(i).next = "saveInactive" /\ k(i).socket = eventJob[c].socket
             /\ k(i).row = {i} /\ k(i).type = subscriptions[i].type
      BY <2>0 DEF NextCall, EventJob
    <3> HIDE DEF k
    <3> QED
      BY <3>1, <3>2, IdleJobType
  <2>3. CASE EventReject(c)
    BY <2>3, RejectEffect, IdleJobType
  <2> QED
    BY <2>1, <2>2, <2>3
<1>3. \A d \in EventCallers : eventJob'[d] = IF d = c THEN j ELSE eventJob[d]
  BY <1>2 DEF EventsTypes
<1>4. /\ BusyCallers' \subseteq BusyCallers /\ c \in BusyCallers
      /\ WebsocketRows' = WebsocketRows /\ Arrived' = Arrived /\ (ActiveRow' <=> ActiveRow)
  BY <1>1, <1>2, <1>3 DEF BusyCallers, WebsocketRows, Arrived, ActiveRow, RowSteps
<1>5. InRooms'
  BY <1>1 DEF RowsInv, InRooms
<1>6. ASSUME ~subOverlapped'
      PROVE  OneRow'
  <2>1. /\ ~subOverlapped /\ Unique(BusyCallers) /\ Unique(WebsocketRows)
        /\ \A d \in EventCallers : d # c => eventJob[d].next \notin RowSteps
    BY <1>1, <1>6, Alone DEF RowsInv, OneRow
  <2>2. Unique(BusyCallers') /\ Unique(WebsocketRows')
    BY <1>4, <2>1 DEF Unique
  <2>3. ASSUME j.type = "websocket", j.next \in {"saveActive", "saveInactive"}
        PROVE  \/ j.next = "saveActive" /\ WebsocketRows = {}
               \/ j.row # {} /\ WebsocketRows \subseteq j.row
    BY <1>2, <2>1, <2>3 DEF WebsocketRows, Unique
  <2>4. \A d \in EventCallers : d # c => eventJob'[d].next \notin {"saveActive", "saveInactive"}
    BY <1>3, <2>1 DEF RowSteps
  <2>5. ASSUME NEW d \in EventCallers, eventJob'[d].type = "websocket"
        PROVE  /\ eventJob'[d].next = "saveActive" /\ eventJob'[d].row = {} => WebsocketRows' = {}
               /\ eventJob'[d].next = "saveActive" /\ eventJob'[d].row # {} =>
                    WebsocketRows' \subseteq eventJob'[d].row
               /\ eventJob'[d].next = "saveInactive" => WebsocketRows' \subseteq eventJob'[d].row
    <3>1. CASE d # c
      BY <2>4, <3>1
    <3>2. CASE d = c
      BY <1>3, <1>4, <2>3, <2>5, <3>2
    <3> QED
      BY <3>1, <3>2
  <2> QED
    BY <2>2, <2>5 DEF OneRow
<1>7. ASSUME ~subOverlapped', ~direct', Unique(Arrived')
      PROVE  RoomFacts'
  <2>1. /\ RoomFacts
        /\ \A d \in EventCallers : d # c => eventJob[d].next \notin RowSteps
    BY <1>1, <1>4, <1>7, RoomFactsOf, Alone DEF RowsInv
  <2>2. /\ \A d \in EventCallers : eventJob[d].next \notin {"join", "leave"}
        /\ \A d \in EventCallers : eventJob'[d].next \notin {"join", "leave"}
    BY <1>1, <1>2, <1>3, <2>1 DEF RowSteps
  <2>3. j.next # "idle" => /\ j.type = "websocket" /\ j.socket # {} /\ j.socket \subseteq Arrived
    BY <1>2, <1>4, <2>1 DEF RoomFacts
  <2>4. \A d \in BusyCallers' : /\ eventJob'[d].type = "websocket" /\ eventJob'[d].socket # {}
                                /\ eventJob'[d].socket \subseteq Arrived
    BY <1>3, <2>1, <2>3 DEF BusyCallers, RowSteps
  <2> QED
    BY <1>1, <1>4, <2>1, <2>2, <2>4 DEF RoomFacts
<1> QED
  BY <1>5, <1>6, <1>7 DEF RowsInv, OneRow, OneRoom, RoomFacts

\* The row is saved as active, and the socket is to join; or as inactive, and the
\* socket is to leave.
LEMMA SavedInv ==
    ASSUME EventsTypes, RowsInv, NEW c \in EventCallers, SaveActive(c) \/ SaveInactive(c)
    PROVE  RowsInv'
<1>0. /\ eventJob[c] \in EventJob /\ Unique(eventJob[c].row)
      /\ UNCHANGED <<sockets, subOverlapped, direct>>
  BY DEF EventsTypes, SaveActive, SaveInactive
<1>1. PICK i \in SubscriptionIds, status \in SubscriptionStatus, j \in EventJob :
        /\ subscriptions' = [subscriptions EXCEPT ![i] =
                               [exists |-> TRUE, type |-> eventJob[c].type, status |-> status]]
        /\ eventJob' = [eventJob EXCEPT ![c] = j]
        /\ \/ /\ eventJob[c].next = "saveActive" /\ status = "active"
              /\ eventJob[c].row = {} \/ i \in eventJob[c].row
              /\ \/ j.next = "idle" /\ eventJob[c].socket = {}
                 \/ j.next = "join" /\ j.socket = eventJob[c].socket /\ j.type = eventJob[c].type
           \/ /\ eventJob[c].next = "saveInactive" /\ status = "inactive"
              /\ i \in eventJob[c].row
              /\ j.next = "leave" /\ j.socket = eventJob[c].socket /\ j.type = eventJob[c].type
  <2>1. \A n \in {"join", "leave"} :
          /\ NextCall(c, n).next = n /\ NextCall(c, n).socket = eventJob[c].socket
          /\ NextCall(c, n).type = eventJob[c].type /\ NextCall(c, n) \in EventJob
    BY <1>0 DEF NextCall, EventJob, RowSteps
  <2>2. CASE SaveActive(c)
    <3>1. PICK i \in SubscriptionIds :
            /\ subscriptions' = [subscriptions EXCEPT ![i] =
                 [exists |-> TRUE, type |-> eventJob[c].type, status |-> "active"]]
            /\ eventJob[c].row = {} \/ i \in eventJob[c].row
      BY <1>0, <2>2 DEF SaveActive, EventJob
    <3>2. /\ eventJob[c].next = "saveActive"
          /\ eventJob' = [eventJob EXCEPT
                            ![c] = IF eventJob[c].socket = {} THEN EventIdle ELSE NextCall(c, "join")]
      BY <2>2 DEF SaveActive, EventGoto
    <3>3. "active" \in SubscriptionStatus
      BY DEF SubscriptionStatus
    <3> QED
      BY <2>1, <3>1, <3>2, <3>3, IdleJobType
  <2>3. CASE SaveInactive(c)
    <3>1. PICK i \in SubscriptionIds :
            /\ subscriptions' = [subscriptions EXCEPT ![i] =
                 [exists |-> TRUE, type |-> eventJob[c].type, status |-> "inactive"]]
            /\ i \in eventJob[c].row
      BY <1>0, <2>3 DEF SaveInactive, EventJob
    <3>2. /\ eventJob[c].next = "saveInactive"
          /\ eventJob' = [eventJob EXCEPT ![c] = NextCall(c, "leave")]
      BY <2>3 DEF SaveInactive, EventGoto
    <3>3. "inactive" \in SubscriptionStatus
      BY DEF SubscriptionStatus
    <3> QED
      BY <2>1, <3>1, <3>2, <3>3
  <2> QED
    BY <2>2, <2>3
<1>2. \A d \in EventCallers : eventJob'[d] = IF d = c THEN j ELSE eventJob[d]
  BY <1>1 DEF EventsTypes
<1>3. /\ \A k \in SubscriptionIds \ {i} : subscriptions'[k] = subscriptions[k]
      /\ subscriptions'[i].exists /\ subscriptions'[i].type = eventJob[c].type
      /\ subscriptions'[i].status = status
  BY <1>1 DEF EventsTypes
<1>4. /\ BusyCallers' \subseteq BusyCallers /\ Arrived' = Arrived
      /\ eventJob[c].next \in RowSteps /\ c \in BusyCallers
  BY <1>0, <1>1, <1>2 DEF BusyCallers, Arrived, RowSteps
<1>5. /\ eventJob[c].type = "websocket" =>
           WebsocketRows' \subseteq WebsocketRows \cup {i} /\ i \in WebsocketRows'
      /\ eventJob[c].type # "websocket" => WebsocketRows' \subseteq WebsocketRows
  BY <1>3 DEF WebsocketRows
<1>6. InRooms'
  BY <1>0 DEF RowsInv, InRooms
<1>7. ASSUME ~subOverlapped
      PROVE  /\ Unique(BusyCallers) /\ Unique(WebsocketRows)
             /\ \A d \in EventCallers : d # c => eventJob[d].next \notin RowSteps
             /\ eventJob[c].type = "websocket" => WebsocketRows' = {i}
  <2>1. /\ Unique(BusyCallers) /\ Unique(WebsocketRows)
        /\ \A d \in EventCallers : d # c => eventJob[d].next \notin RowSteps
    BY <1>4, <1>7, Alone DEF RowsInv, OneRow
  <2>2. ASSUME eventJob[c].type = "websocket"
        PROVE  WebsocketRows \subseteq {i}
    <3>1. CASE eventJob[c].row = {}
      <4>1. eventJob[c].next = "saveActive"
        BY <1>1, <3>1
      <4> QED
        BY <1>7, <2>2, <3>1, <4>1 DEF RowsInv, OneRow
    <3>2. CASE eventJob[c].row # {}
      <4>1. WebsocketRows \subseteq eventJob[c].row /\ i \in eventJob[c].row
        BY <1>1, <1>7, <2>2, <3>2 DEF RowsInv, OneRow
      <4> QED
        BY <1>0, <4>1 DEF Unique
    <3> QED
      BY <3>1, <3>2
  <2> QED
    BY <1>5, <2>1, <2>2
<1>8. ASSUME ~subOverlapped'
      PROVE  OneRow'
  <2>1. Unique(BusyCallers') /\ Unique(WebsocketRows')
    BY <1>0, <1>4, <1>5, <1>7, <1>8 DEF Unique
  <2>2. \A d \in EventCallers : eventJob'[d].next \notin {"saveActive", "saveInactive"}
    BY <1>0, <1>1, <1>2, <1>7, <1>8 DEF RowSteps
  <2> QED
    BY <2>1, <2>2 DEF OneRow
<1>9. ASSUME ~subOverlapped', ~direct', Unique(Arrived')
      PROVE  RoomFacts'
  <2>1. /\ RoomFacts
        /\ \A d \in EventCallers : d # c => eventJob[d].next \notin RowSteps
    BY <1>0, <1>4, <1>7, <1>9, RoomFactsOf DEF RowsInv
  <2>2. /\ eventJob[c].type = "websocket" /\ eventJob[c].socket # {}
        /\ eventJob[c].socket \subseteq Arrived
    BY <1>4, <2>1 DEF RoomFacts
  <2>3. WebsocketRows' = {i}
    BY <1>0, <1>7, <1>9, <2>2
  <2>4. \A k \in SubscriptionIds : subscriptions'[k].exists => subscriptions'[k].type = "websocket"
    BY <1>3, <2>1, <2>2 DEF RoomFacts
  <2>5. \A d \in BusyCallers' : /\ eventJob'[d].type = "websocket" /\ eventJob'[d].socket # {}
                                /\ eventJob'[d].socket \subseteq Arrived
    BY <1>1, <1>2, <2>1, <2>2, IdleJobType DEF BusyCallers, RowSteps
  <2>6. (ActiveRow' <=> status = "active")
    BY <1>3, <2>3 DEF ActiveRow
  <2>7. \A d \in EventCallers : /\ eventJob'[d].next = "join" => ActiveRow'
                                /\ eventJob'[d].next = "leave" => ~ActiveRow'
    BY <1>1, <1>2, <2>1, <2>6 DEF RowSteps
  <2>8. eventJob'[c].next \in {"join", "leave"}
    BY <1>1, <1>2, <2>2
  <2> QED
    BY <1>4, <2>2, <2>4, <2>5, <2>7, <2>8 DEF RoomFacts
<1> QED
  BY <1>6, <1>8, <1>9 DEF RowsInv, OneRow, OneRoom, RoomFacts

\* The socket joins the room or leaves it, if it is still connected.
LEMMA RoomedInv ==
    ASSUME EventsTypes, RowsInv, NEW c \in EventCallers, Join(c) \/ Leave(c)
    PROVE  RowsInv'
<1>0. /\ UNCHANGED <<subscriptions, subOverlapped, direct>>
      /\ eventJob' = [eventJob EXCEPT ![c] = EventIdle]
      /\ eventJob[c].next \in {"join", "leave"}
      /\ eventJob[c] \in EventJob /\ Unique(eventJob[c].socket)
  BY DEF EventsTypes, Join, Leave, EventGoto
<1>1. PICK s \in eventJob[c].socket :
        /\ s \in Sockets
        /\ \A t \in Sockets : /\ t # s => sockets'[t] = sockets[t]
                              /\ sockets'[t].state = sockets[t].state
        /\ \/ eventJob[c].next = "join" /\ sockets[s].state = "connected"
              /\ sockets'[s].joined = TRUE /\ sockets'[s].listed > 0
           \/ eventJob[c].next = "join" /\ sockets[s].state # "connected" /\ sockets' = sockets
           \/ eventJob[c].next = "leave" /\ sockets'[s].joined = FALSE
  <2>1. CASE Join(c)
    <3>1. PICK s \in eventJob[c].socket :
            sockets' = IF sockets[s].state = "connected"
                       THEN [sockets EXCEPT ![s].joined = TRUE, ![s].listed = @ + 1] ELSE sockets
      BY <2>1 DEF Join
    <3>2. s \in Sockets /\ sockets[s] \in Socket
      BY <1>0, <3>1 DEF EventJob, EventsTypes
    <3>3. eventJob[c].next = "join"
      BY <2>1 DEF Join
    <3> QED
      BY <3>1, <3>2, <3>3 DEF EventsTypes, Socket
  <2>2. CASE Leave(c)
    <3>1. PICK s \in eventJob[c].socket :
            sockets' = [sockets EXCEPT ![s].joined = FALSE,
                                       ![s].listed = IF @ > 0 THEN @ - 1 ELSE 0]
      BY <2>2 DEF Leave
    <3>2. s \in Sockets /\ sockets[s] \in Socket
      BY <1>0, <3>1 DEF EventJob, EventsTypes
    <3>3. eventJob[c].next = "leave"
      BY <2>2 DEF Leave
    <3> QED
      BY <3>1, <3>2, <3>3 DEF EventsTypes, Socket
  <2> QED
    BY <2>1, <2>2
<1>2. \A d \in EventCallers : eventJob'[d] = IF d = c THEN EventIdle ELSE eventJob[d]
  BY <1>0 DEF EventsTypes
<1>3. /\ BusyCallers' \subseteq BusyCallers /\ Arrived' = Arrived
      /\ eventJob[c].next \in RowSteps /\ c \in BusyCallers
      /\ WebsocketRows' = WebsocketRows /\ (ActiveRow' <=> ActiveRow)
  BY <1>0, <1>1, <1>2, IdleJobType DEF BusyCallers, Arrived, RowSteps, WebsocketRows, ActiveRow
<1>4. InRooms'
  BY <1>1 DEF RowsInv, InRooms
<1>5. ASSUME ~subOverlapped'
      PROVE  /\ OneRow'
             /\ \A d \in EventCallers : eventJob'[d].next \notin RowSteps
  <2>1. /\ Unique(BusyCallers) /\ Unique(WebsocketRows)
        /\ \A d \in EventCallers : d # c => eventJob[d].next \notin RowSteps
    BY <1>0, <1>3, <1>5, Alone DEF RowsInv, OneRow
  <2>2. \A d \in EventCallers : eventJob'[d].next \notin RowSteps
    BY <1>2, <2>1, IdleJobType DEF RowSteps
  <2> QED
    BY <1>3, <2>1, <2>2 DEF OneRow, Unique, RowSteps
<1>6. ASSUME ~subOverlapped', ~direct', Unique(Arrived')
      PROVE  RoomFacts'
  <2>1. RoomFacts /\ \A d \in EventCallers : eventJob'[d].next \notin RowSteps
    BY <1>0, <1>3, <1>5, <1>6, RoomFactsOf DEF RowsInv
  <2>2. BusyCallers' = {} /\ \A d \in EventCallers : eventJob'[d].next \notin {"join", "leave"}
    BY <2>1 DEF BusyCallers, RowSteps
  <2>3. s \in Arrived
    BY <1>1, <1>3, <2>1 DEF RoomFacts
  <2>4. (ActiveRow <=> eventJob[c].next = "join")
    <3>1. /\ eventJob[c].next = "join" => ActiveRow
          /\ eventJob[c].next = "leave" => ~ActiveRow
      BY <2>1 DEF RoomFacts
    <3> QED
      BY <1>0, <3>1
  <2>5. ASSUME NEW t \in Sockets, sockets'[t].state = "connected"
        PROVE  sockets'[t].joined <=> ActiveRow
    <3>1. t = s
      BY <1>1, <1>3, <1>6, <2>3, <2>5 DEF Unique, Arrived
    <3> QED
      BY <1>1, <2>4, <2>5, <3>1
  <2> QED
    BY <1>0, <1>3, <2>1, <2>2, <2>5 DEF RoomFacts
<1> QED
  BY <1>4, <1>5, <1>6 DEF RowsInv, OneRow, OneRoom, RoomFacts

EventsInv == EventsTypes /\ ListenInv /\ LogInv /\ RowsInv

LEMMA EventsInitInv == EventsInit => EventsInv
<1> SUFFICES ASSUME EventsInit
             PROVE  EventsInv
  OBVIOUS
<1>1. \A i \in SubscriptionIds : ~subscriptions[i].exists
  BY DEF EventsInit, NoSubscription
<1>2. WebsocketRows = {} /\ ~ActiveRow
  BY <1>1 DEF WebsocketRows, ActiveRow
<1>3. \A c \in EventCallers : eventJob[c] = EventIdle
  BY DEF EventsInit
<1>4. BusyCallers = {} /\ Removers = {}
  BY <1>3, IdleJobType DEF BusyCallers, RowSteps, Removers
<1>5. \A s \in Sockets : sockets[s].state = "new" /\ sockets[s].joined = FALSE
  BY DEF EventsInit
<1>6. EventsTypes
  <2>1. NoSubscription \in EventSubscription
    BY DEF NoSubscription, EventSubscription, SubscriptionType, SubscriptionStatus
  <2>2. [state |-> "new", joined |-> FALSE, listed |-> 0] \in Socket
    BY DEF Socket
  <2> QED
    BY <2>1, <2>2, IdleJobType DEF EventsTypes, EventsInit
<1>7. ListenInv
  BY <1>4 DEF ListenInv, EventsInit, Unique
<1>8. LogInv
  BY <1>3, IdleJobType DEF LogInv, StoredBeforeEmitted, EventsInit
<1>9. InRooms /\ OneRow /\ OneRoom
  <2>1. InRooms
    BY <1>5 DEF InRooms
  <2>2. OneRow
    BY <1>2, <1>4 DEF OneRow, Unique
  <2>3. RoomFacts
    BY <1>1, <1>2, <1>3, <1>4, <1>5, IdleJobType DEF RoomFacts
  <2> QED
    BY <2>1, <2>2, <2>3, RoomFactsOf
<1> QED
  BY <1>6, <1>7, <1>8, <1>9 DEF EventsInv, RowsInv

LEMMA EventsNextInv ==
    ASSUME EventsInv, [EventsNext]_eventVars
    PROVE  EventsInv'
<1> USE DEF EventsInv
<1>1. CASE UNCHANGED eventVars
  <2>1. EventsTypes'
    BY <1>1 DEF EventsTypes, eventVars, rowVars, listenVars, logVars
  <2>2. ListenInv' /\ LogInv'
    BY <1>1 DEF ListenInv, Removers, LogInv, StoredBeforeEmitted, eventVars, listenVars, logVars
  <2>3. RowsInv'
    BY <1>1, RowsQuiet DEF eventVars
  <2> QED
    BY <2>1, <2>2, <2>3
<1>2. ASSUME UNCHANGED <<logVars, eventJob>>
      PROVE  LogInv'
  BY <1>2 DEF LogInv, StoredBeforeEmitted, logVars
<1>3. ASSUME UNCHANGED <<listenVars, eventJob>>
      PROVE  ListenInv'
  BY <1>3 DEF ListenInv, Removers, listenVars
<1>4. CASE \E s \in Sockets : HandleConnection(s) \/ HandleDisconnect(s)
  BY <1>2, <1>3, <1>4, ConnectedInv
<1>5. CASE \E i \in SubscriptionIds :
             DeleteSubscription(i) \/ \E status \in SubscriptionStatus : PutSubscription(i, status)
  BY <1>2, <1>3, <1>5, ChangedInv
<1>6. CASE SubscribeToAccount
  BY <1>2, <1>6, SubscribedInv, RowsQuiet
<1>7. ASSUME NEW c \in EventCallers, NEW steps, JobStep(c, steps), UNCHANGED logVars,
             steps \cap LogSteps = {}
      PROVE  LogInv'
  <2>1. PICK j \in EventJob : /\ eventJob' = [eventJob EXCEPT ![c] = j]
                              /\ j.next \in steps \cup {"idle"}
    BY <1>7 DEF JobStep
  <2>2. \A d \in EventCallers : eventJob'[d] = IF d = c THEN j ELSE eventJob[d]
    BY <2>1 DEF EventsTypes
  <2>3. j.next \notin {"emitLog", "saveConfirmed", "emitConfirmed"}
    BY <1>7, <2>1 DEF LogSteps
  <2> QED
    BY <1>7, <2>2, <2>3 DEF LogInv, StoredBeforeEmitted, logVars
<1>8. ASSUME NEW c \in EventCallers, NEW steps, JobStep(c, steps), UNCHANGED rowVars,
             steps \cap RowSteps = {}
      PROVE  RowsInv'
  <2>1. PICK j \in EventJob : /\ eventJob' = [eventJob EXCEPT ![c] = j]
                              /\ j.next \in steps \cup {"idle"}
                              /\ eventJob[c].next \in steps \cup {"idle"}
    BY <1>8 DEF JobStep
  <2>2. \A d \in EventCallers : eventJob'[d] = IF d = c THEN j ELSE eventJob[d]
    BY <2>1 DEF EventsTypes
  <2>3. eventJob[c].next \notin RowSteps /\ j.next \notin RowSteps
    BY <1>8, <2>1 DEF RowSteps
  <2> QED
    BY <1>8, <2>2, <2>3, RowsQuiet
<1>9. RowSteps \cap LogSteps = {} /\ "removed" \notin RowSteps /\ "removed" \notin LogSteps
        /\ {"removed"} \cap RowSteps = {} /\ {"removed"} \cap LogSteps = {}
        /\ LogSteps \cap RowSteps = {}
  BY DEF RowSteps, LogSteps
<1>10. ASSUME NEW c \in EventCallers, RowStep(c)
       PROVE  EventsInv'
  <2>1. JobStep(c, RowSteps) /\ RowKept /\ UNCHANGED <<listenVars, logVars>>
    BY <1>10, RowStepEffect
  <2>2. EventsTypes'
    BY <2>1, TypesAfterJob DEF EventsTypes, RowKept, listenVars, logVars
  <2>3. ListenInv' /\ LogInv'
    BY <1>7, <1>9, <2>1, ListenAfterJob
  <2>4. RowsInv'
    BY <1>10, BegunInv, FoundInv, SavedInv, RoomedInv DEF RowStep
  <2> QED
    BY <2>2, <2>3, <2>4
<1>11. ASSUME NEW c \in EventCallers,
              LogStep(c)
                \/ \E t \in Reported, failed \in BOOLEAN : HandleProgramLogs(c, t, failed)
       PROVE  EventsInv'
  <2>1. JobStep(c, LogSteps) /\ LogKept /\ UNCHANGED <<rowVars, listenVars>>
    BY <1>11, LogStepEffect
  <2>2. EventsTypes'
    BY <2>1, TypesAfterJob DEF EventsTypes, LogKept, rowVars, listenVars
  <2>3. ListenInv' /\ LogInv' /\ RowsInv'
    BY <1>8, <1>9, <2>1, ListenAfterJob DEF LogKept
  <2> QED
    BY <2>2, <2>3
<1>12. ASSUME NEW c \in EventCallers,
              UnsubscribeFromAccount(c) \/ DeleteEntry(c)
                \/ (EventReject(c) /\ eventJob[c].next = "removed")
       PROVE  EventsInv'
  <2>1. /\ ListenInv' /\ JobStep(c, {"removed"}) /\ UNCHANGED <<rowVars, logVars>>
        /\ lastListener' = lastListener
        /\ wanted' \in BOOLEAN /\ listenTroubled' \in BOOLEAN
    BY <1>12, UnsubscribedInv, EntryDeletedInv
  <2>2. EventsTypes'
    BY <2>1, TypesAfterJob DEF EventsTypes, rowVars, logVars
  <2>3. LogInv' /\ RowsInv'
    BY <1>7, <1>8, <1>9, <2>1
  <2> QED
    BY <2>1, <2>2, <2>3
<1>13. ASSUME NEW c \in EventCallers, EventReject(c), eventJob[c].next # "removed"
       PROVE  EventsInv'
  <2>1. /\ eventJob' = [eventJob EXCEPT ![c] = EventIdle]
        /\ eventJob[c].next \in RowSteps \cup LogSteps \cup {"idle"}
        /\ listenTroubled' = listenTroubled
        /\ UNCHANGED <<rowVars, logVars, accountEntry, listeners, lastListener, wanted>>
    BY <1>13, RejectEffect DEF EventReject, RowSteps, LogSteps, EventsTypes
  <2>2. JobStep(c, RowSteps \cup LogSteps)
    BY <2>1, IdleJobType DEF JobStep
  <2>3. EventsTypes'
    BY <2>1, <2>2, TypesAfterJob DEF EventsTypes, rowVars, logVars
  <2>4. UNCHANGED listenVars
    BY <2>1 DEF listenVars
  <2>5. ListenInv'
    BY <1>9, <2>2, <2>4, ListenAfterJob
  <2>6. \A d \in EventCallers : eventJob'[d] = IF d = c THEN EventIdle ELSE eventJob[d]
    BY <2>1 DEF EventsTypes
  <2>7. LogInv'
    BY <2>1, <2>6, IdleJobType DEF LogInv, StoredBeforeEmitted, logVars
  <2>8. RowsInv'
    <3>1. CASE eventJob[c].next \in RowSteps
      BY <1>13, <3>1, FoundInv
    <3>2. CASE eventJob[c].next \notin RowSteps
      BY <2>1, <2>6, <3>2, IdleJobType, RowsQuiet DEF RowSteps
    <3> QED
      BY <3>1, <3>2
  <2> QED
    BY <2>3, <2>5, <2>7, <2>8
<1> QED
  BY <1>1, <1>4, <1>5, <1>6, <1>10, <1>11, <1>12, <1>13 DEF EventsNext

LEMMA TrackedFromInv == EventsInv => SubscribersTracked
<1> SUFFICES ASSUME EventsInv
             PROVE  SubscribersTracked
  OBVIOUS
<1>1. StoredBeforeEmitted
  BY DEF EventsInv, LogInv
<1>2. OneListener
  <2> SUFFICES ASSUME ~listenTroubled
               PROVE  Unique(listeners) /\ (wanted <=> listeners # {})
    BY AtMostOne, UniqueIsFinite DEF OneListener
  <2>1. CASE Removers = {} /\ wanted
    BY <2>1 DEF EventsInv, ListenInv, Unique
  <2>2. CASE Removers # {} \/ ~wanted
    BY <2>2 DEF EventsInv, ListenInv, Unique
  <2> QED
    BY <2>1, <2>2
<1>3. RoomsMatchRows
  <2>1. \A s \in Sockets : sockets[s].joined => sockets[s].state = "connected" /\ sockets[s].listed > 0
    BY DEF EventsInv, RowsInv, InRooms
  <2>2. ASSUME ~subOverlapped
        PROVE  Cardinality(WebsocketRows) <= 1
    BY <2>2, AtMostOne, UniqueIsFinite DEF EventsInv, RowsInv, OneRow
  <2>3. ASSUME ~subOverlapped, ~direct, ~RowsBusy,
               Cardinality({s \in Sockets : sockets[s].state # "new"}) <= 1,
               NEW s \in Sockets, sockets[s].state = "connected"
        PROVE  sockets[s].joined <=> \E i \in WebsocketRows : subscriptions[i].status = "active"
    <3>1. IsFiniteSet(Arrived)
      BY EventsAssumption, FS_Subset DEF Arrived
    <3>2. Unique(Arrived)
      BY <2>3, <3>1, AtMostOne DEF Arrived
    <3>3. RoomFacts
      BY <2>3, <3>2, RoomFactsOf DEF EventsInv, RowsInv
    <3>4. \A c \in EventCallers : eventJob[c].next \notin {"join", "leave"}
      BY <2>3 DEF RowsBusy, RowSteps
    <3> QED
      BY <2>3, <3>3, <3>4 DEF RoomFacts, ActiveRow
  <2> QED
    BY <2>1, <2>2, <2>3 DEF RoomsMatchRows
<1> QED
  BY <1>1, <1>2, <1>3 DEF SubscribersTracked

\* The rows, the rooms, the listeners and the stored events tell the same
\* (SubscribersTracked), for any number of clients' sockets, requests, rows and
\* transactions: createSubscription, handleSubscribe, handleUnsubscribe,
\* subscribeToAccount and handleProgramLogs, as far as requests keep apart.
THEOREM SubscriptionsCorrect == EventsSpec => []SubscribersTracked
<1> QED
  BY EventsInitInv, EventsNextInv, TrackedFromInv, PTL DEF EventsSpec

-----------------------------------------------------------------------------
(* Types of the DEX pools                                                   *)

\* Not a number, or one number.
LEMMA DecimalIs ==
    ASSUME NEW x
    PROVE  IsDecimal(x) <=> x = NaN \/ \E u \in Int : x = {u}
<1>1. ASSUME IsDecimal(x), x # NaN
      PROVE  \E u \in Int : x = {u}
  <2>1. IsFiniteSet(x) /\ Cardinality(x) \in Nat /\ Cardinality(x) <= 1 /\ x \subseteq Int
    BY <1>1, FS_CardinalityType DEF IsDecimal
  <2>2. Cardinality(x) # 0
    BY <1>1, <2>1, FS_EmptySet DEF NaN
  <2>3. Cardinality(x) = 1
    BY <2>1, <2>2
  <2>4. PICK u : x = {u}
    BY <2>1, <2>3, FS_Singleton
  <2> QED
    BY <2>1, <2>4
<1>2. IsDecimal(NaN)
  BY FS_EmptySet DEF IsDecimal, NaN
<1>3. ASSUME NEW u \in Int
      PROVE  IsDecimal({u})
  <2>1. IsFiniteSet({u}) /\ Cardinality({u}) = 1
    BY FS_Singleton
  <2> QED
    BY <2>1 DEF IsDecimal
<1> QED
  BY <1>1, <1>2, <1>3

LEMMA DecimalMinus ==
    ASSUME NEW x, NEW y, IsDecimal(x), IsDecimal(y)
    PROVE  IsDecimal(Minus(x, y))
<1>1. CASE x = NaN \/ y = NaN
  <2>1. Minus(x, y) = NaN
    BY <1>1 DEF Minus, NaN
  <2> QED
    BY <2>1, DecimalIs
<1>2. CASE x # NaN /\ y # NaN
  <2>1. PICK u \in Int : x = {u}
    BY <1>2, DecimalIs
  <2>2. PICK v \in Int : y = {v}
    BY <1>2, DecimalIs
  <2>3. Minus(x, y) = {u - v} /\ u - v \in Int
    BY <2>1, <2>2 DEF Minus
  <2> QED
    BY <2>3, DecimalIs
<1> QED
  BY <1>1, <1>2

LEMMA DecimalRest ==
    ASSUME NEW x, IsDecimal(x), NEW percentage \in {50, 100}
    PROVE  IsDecimal(Rest(x, percentage))
<1>1. CASE x = NaN
  <2>1. Rest(x, percentage) = NaN
    BY <1>1 DEF Rest, NaN
  <2> QED
    BY <2>1, DecimalIs
<1>2. CASE x # NaN
  <2>1. PICK u \in Int : x = {u}
    BY <1>2, DecimalIs
  <2>2. Rest(x, percentage) = {u - (u * percentage) \div 100}
    BY <2>1 DEF Rest
  <2>3. u - (u * percentage) \div 100 \in Int
    <3>1. percentage \in Int /\ u * percentage \in Int
      OBVIOUS
    <3>2. (u * percentage) \div 100 \in Int
      BY <3>1
    <3> QED
      BY <3>2
  <2> QED
    BY <2>2, <2>3, DecimalIs
<1> QED
  BY <1>1, <1>2

LEMMA QuotientType ==
    ASSUME NEW n \in Int, NEW d \in Int, d # 0
    PROVE  Quotient(n, d) \in Int
<1>1. CASE d > 0
  BY <1>1 DEF Quotient
<1>2. CASE ~(d > 0)
  <2>1. -n \in Int /\ -d \in Nat /\ -d > 0
    BY <1>2
  <2>2. (-n) \div (-d) \in Int
    BY <2>1
  <2> QED
    BY <1>2, <2>2 DEF Quotient
<1> QED
  BY <1>1, <1>2

LEMMA DecimalOut ==
    ASSUME NEW pool, NEW amountIn \in Int, NEW direction \in SwapDirection, NEW fraction,
           \A t \in Tokens_ : IsDecimal(pool[t]), 0 \notin pool[direction]
    PROVE  IsDecimal(CalculateSwapAmount(pool, amountIn, direction, fraction))
<1> DEFINE xs == pool[direction]
           ys == pool[OutOf(direction)]
           out == {Quotient(y * amountIn, x) : x \in xs, y \in ys}
<1>1. IsDecimal(xs) /\ IsDecimal(ys) /\ 0 \notin xs
  BY DEF SwapDirection, Tokens_, OutOf
<1>2. CalculateSwapAmount(pool, amountIn, direction, fraction) = IF fraction THEN NaN ELSE out
  BY DEF CalculateSwapAmount
<1>3. IsDecimal(out)
  <2> HIDE DEF xs, ys
  <2>1. CASE xs = NaN \/ ys = NaN
    <3>1. out = NaN
      BY <2>1 DEF NaN
    <3> HIDE DEF out
    <3> QED
      BY <3>1, DecimalIs
  <2>2. CASE xs # NaN /\ ys # NaN
    <3>1. PICK x \in Int : xs = {x}
      BY <1>1, <2>2, DecimalIs
    <3>2. PICK y \in Int : ys = {y}
      BY <1>1, <2>2, DecimalIs
    <3>3. out = {Quotient(y * amountIn, x)}
      BY <3>1, <3>2
    <3>4. x # 0 /\ y * amountIn \in Int
      BY <1>1, <3>1
    <3>5. Quotient(y * amountIn, x) \in Int
      BY <3>4, QuotientType
    <3> QED
      BY <3>3, <3>5, DecimalIs
  <2> QED
    BY <2>1, <2>2
<1> HIDE DEF out
<1> QED
  BY <1>2, <1>3, DecimalIs

DexCalls == {"idle", "upsert", "createSwap", "sendSwap", "swapPool", "failSwap",
             "createShare", "sharePool", "removePool", "removeShare"}

DecimalPool(pool) == \A t \in Tokens_ : IsDecimal(pool[t])

DecimalShare(row) == IsDecimal(row.a) /\ IsDecimal(row.b)

DexJobTyped(j) ==
    /\ j.next \in DexCalls
    /\ DecimalPool(j.pool) /\ IsDecimal(j.row.amountOut) /\ DecimalShare(j.position)
    /\ j.next \in {"createSwap", "sendSwap"} => j.swap \in Swaps
    /\ j.next = "removePool" => j.share \in Shares

DexRowsTyped(pool, base, sw, liq, sent) ==
    /\ DecimalPool(pool) /\ DecimalPool(base)
    /\ \A s \in Swaps : /\ sw[s].status \in {"none", "pending", "confirmed", "failed"}
                        /\ IsDecimal(sw[s].amountOut)
    /\ \A s \in Shares : DecimalShare(liq[s])
    /\ sent \subseteq Swaps

DexTyped ==
    /\ DexRowsTyped(dexPool, dexBase, swaps, liquidity, swapped)
    /\ \A c \in Traders : DexJobTyped(dexJob[c])

LEMMA DexIdleTyped ==
    /\ DexJobTyped(DexIdle) /\ IsDecimal(NaN)
    /\ IsDecimal(NoSwap.amountOut) /\ DecimalShare(NoShare)
<1>1. IsDecimal(NaN)
  BY DecimalIs
<1>2. /\ IsDecimal(NoSwap.amountOut) /\ DecimalShare(NoShare)
  BY <1>1 DEF NoSwap, NoShare, DecimalShare
<1>3. /\ DexIdle.next = "idle" /\ DexIdle.row = NoSwap /\ DexIdle.position = NoShare
      /\ \A t \in Tokens_ : DexIdle.pool[t] = NaN
  BY DEF DexIdle
<1> QED
  BY <1>1, <1>2, <1>3 DEF DexJobTyped, DexCalls, DecimalPool

\* What has to be shown of a step of c to the job k.
LEMMA DexTypedAfter ==
    ASSUME DexInv, DexTyped, NEW c \in Traders, NEW k, DexJobTyped(k),
           dexJob' = [dexJob EXCEPT ![c] = k],
           DexRowsTyped(dexPool', dexBase', swaps', liquidity', swapped')
    PROVE  DexTyped'
<1>1. \A d \in Traders : dexJob'[d] = IF d = c THEN k ELSE dexJob[d]
  BY DEF DexInv, DexShapes
<1> QED
  BY <1>1 DEF DexTyped

LEMMA DexTypedGoto ==
    ASSUME DexInv, DexTyped, NEW c \in Traders, NEW next \in DexCalls,
           next # "removePool",
           next \in {"createSwap", "sendSwap"} => dexJob[c].next \in {"createSwap", "sendSwap"},
           DexGoto(c, next),
           DexRowsTyped(dexPool', dexBase', swaps', liquidity', swapped')
    PROVE  DexTyped'
<1> DEFINE k == DexNextJob(dexJob[c], next)
<1>1. dexJob' = [dexJob EXCEPT ![c] = k]
  BY DEF DexGoto, DexNextJob
<1>2. DexJobShape(dexJob[c]) /\ DexJobTyped(dexJob[c])
  BY DEF DexInv, DexShapes, DexTyped
<1>3. CASE next = "idle"
  <2>1. k = DexIdle
    BY <1>3 DEF DexNextJob
  <2> QED
    BY <1>1, <2>1, DexIdleTyped, DexTypedAfter
<1>4. CASE next # "idle"
  <2>1. /\ k.next = next /\ k.pool = dexJob[c].pool /\ k.swap = dexJob[c].swap
        /\ k.row = dexJob[c].row /\ k.position = dexJob[c].position
    BY <1>2, <1>4, DexNextShape
  <2> HIDE DEF k
  <2>2. DexJobTyped(k)
    BY <1>2, <2>1 DEF DexJobTyped
  <2> QED
    BY <1>1, <2>2, DexTypedAfter
<1> QED
  BY <1>3, <1>4

\* A request begins.
LEMMA DexTypedBegun ==
    ASSUME DexInv, DexTyped, NEW c \in Traders, NEW k, DexJobTyped(k), DexBegin(c, k)
    PROVE  DexTyped'
<1>1. /\ dexJob' = [dexJob EXCEPT ![c] = k]
      /\ dexPool' = dexPool /\ dexBase' = dexBase /\ swaps' = swaps
      /\ liquidity' = liquidity /\ swapped' = swapped
  BY DEF DexBegin
<1>2. DexRowsTyped(dexPool', dexBase', swaps', liquidity', swapped')
  BY <1>1 DEF DexTyped
<1> QED
  BY <1>1, <1>2, DexTypedAfter

\* A save that is refused.
LEMMA DexTypedRefused ==
    ASSUME DexInv, DexTyped, NEW c \in Traders, NEW next \in {"idle", "failSwap"},
           DexRejected(c, next), UNCHANGED <<dexPool, swaps, liquidity>>,
           swapped' = swapped, DecimalPool(dexBase')
    PROVE  DexTyped'
<1>1. DexGoto(c, next) /\ next \in DexCalls
  BY DEF DexRejected, DexCalls
<1>2. DexRowsTyped(dexPool', dexBase', swaps', liquidity', swapped')
  BY DEF DexTyped, DexRowsTyped
<1> QED
  BY <1>1, <1>2, DexTypedGoto

LEMMA DexTypedSwap ==
    ASSUME DexInv, DexTyped, NEW c \in Traders, dexJob[c].next # "idle",
           NEW status \in {"pending", "failed"},
           WriteSwap(c, status), dexBase' = dexBase, swapped' = swapped
    PROVE  DexRowsTyped(dexPool', dexBase', swaps', liquidity', swapped')
<1> DEFINE j == dexJob[c]
           row == [j.row EXCEPT !.status = status]
<1>1. /\ swaps' = [swaps EXCEPT ![j.swap] = row]
      /\ dexPool' = dexPool /\ liquidity' = liquidity
  BY DEF WriteSwap
<1>2. row.status = status /\ row.amountOut = j.row.amountOut
  BY DexNow DEF DexJobShape, RowShape
<1>3. IsDecimal(row.amountOut)
  BY <1>2 DEF DexTyped, DexJobTyped
<1> HIDE DEF row
<1>4. \A s \in Swaps : swaps'[s] = IF s = j.swap THEN row ELSE swaps[s]
  BY <1>1, DexNow DEF DexShapes
<1>5. \A s \in Swaps : /\ swaps'[s].status \in {"none", "pending", "confirmed", "failed"}
                      /\ IsDecimal(swaps'[s].amountOut)
  BY <1>2, <1>3, <1>4 DEF DexTyped, DexRowsTyped
<1> QED
  BY <1>1, <1>5 DEF DexTyped, DexRowsTyped

LEMMA DexTypedSwaps ==
    ASSUME DexInv, DexTyped, NEW c \in Traders,
           CreateSwap(c) \/ FailSwap(c)
    PROVE  DexTyped'
<1>1. /\ dexBase' = dexBase /\ swapped' = swapped /\ DecimalPool(dexBase')
      /\ dexJob[c].next \in {"createSwap", "failSwap"}
  BY DEF CreateSwap, FailSwap, DexSave, DexTyped, DexRowsTyped
<1>2. ASSUME NEW next \in {"idle", "failSwap"}, DexRejected(c, next),
             UNCHANGED <<dexPool, swaps, liquidity>>
      PROVE  DexTyped'
  BY <1>1, <1>2, DexTypedRefused
<1>3. ASSUME NEW status \in {"pending", "failed"}, WriteSwap(c, status),
             NEW next \in {"idle", "sendSwap"}, DexGoto(c, next),
             next = "sendSwap" => dexJob[c].next = "createSwap"
      PROVE  DexTyped'
  <2>1. DexRowsTyped(dexPool', dexBase', swaps', liquidity', swapped')
    BY <1>1, <1>3, DexTypedSwap
  <2> QED
    BY <1>3, <2>1, DexTypedGoto DEF DexCalls
<1> QED
  BY <1>2, <1>3 DEF CreateSwap, FailSwap, DexSave

LEMMA DexTypedSend ==
    ASSUME DexInv, DexTyped, NEW c \in Traders, SendSwap(c)
    PROVE  DexTyped'
<1> DEFINE s == dexJob[c].swap
<1>1. /\ dexJob[c].next = "sendSwap" /\ dexPool' = dexPool /\ swaps' = swaps
      /\ liquidity' = liquidity /\ dexBase' = dexBase
  BY DEF SendSwap
<1>2. s \in Swaps /\ swapped \subseteq Swaps
  BY <1>1 DEF DexTyped, DexJobTyped, DexRowsTyped
<1>3. PICK next \in {"swapPool", "failSwap"} :
        swapped' \in {swapped, swapped \cup {s}} /\ DexGoto(c, next)
  BY DEF SendSwap, DexRejected
<1>4. DexRowsTyped(dexPool', dexBase', swaps', liquidity', swapped')
  BY <1>1, <1>2, <1>3 DEF DexTyped, DexRowsTyped
<1> QED
  BY <1>1, <1>3, <1>4, DexTypedGoto DEF DexCalls

\* The pool is not saved: only the request goes on.
LEMMA DexTypedPools ==
    ASSUME DexInv, DexTyped, NEW c \in Traders, SwapPool(c) \/ SharePool(c)
    PROVE  DexTyped'
<1>1. /\ dexPool' = dexPool /\ dexBase' = dexBase /\ swaps' = swaps
      /\ liquidity' = liquidity /\ swapped' = swapped
      /\ DexGoto(c, "failSwap") \/ DexGoto(c, "idle")
  BY DEF SwapPool, SharePool
<1>2. DexRowsTyped(dexPool', dexBase', swaps', liquidity', swapped')
  BY <1>1 DEF DexTyped
<1> QED
  BY <1>1, <1>2, DexTypedGoto DEF DexCalls

LEMMA DexTypedShares ==
    ASSUME DexInv, DexTyped, NEW c \in Traders, CreateShare(c) \/ RemoveShare(c)
    PROVE  DexTyped'
<1> DEFINE j == dexJob[c]
<1>1. /\ dexBase' = dexBase /\ swapped' = swapped /\ DecimalPool(dexBase')
  BY DEF CreateShare, RemoveShare, DexSave, DexTyped, DexRowsTyped
<1>2. CASE DexRejected(c, "idle") /\ UNCHANGED <<dexPool, swaps, liquidity>>
  BY <1>1, <1>2, DexTypedRefused
<1>3. ASSUME WriteShare(c), NEW next \in {"idle", "sharePool"}, DexGoto(c, next)
      PROVE  DexTyped'
  <2>1. /\ liquidity' = [liquidity EXCEPT ![j.share] = j.position]
        /\ dexPool' = dexPool /\ swaps' = swaps
    BY <1>3 DEF WriteShare
  <2>2. \A s \in Shares : liquidity'[s] = IF s = j.share THEN j.position ELSE liquidity[s]
    BY <2>1, DexNow DEF DexShapes
  <2>3. \A s \in Shares : DecimalShare(liquidity'[s])
    BY <2>2 DEF DexTyped, DexRowsTyped, DexJobTyped
  <2>4. DexRowsTyped(dexPool', dexBase', swaps', liquidity', swapped')
    BY <1>1, <2>1, <2>3 DEF DexTyped, DexRowsTyped
  <2> QED
    BY <1>3, <2>4, DexTypedGoto DEF DexCalls
<1> QED
  BY <1>2, <1>3 DEF CreateShare, RemoveShare, DexSave

LEMMA DexTypedRemovePool ==
    ASSUME DexInv, DexTyped, NEW c \in Traders, RemovePool(c)
    PROVE  DexTyped'
<1> DEFINE j == dexJob[c]
           taken == [t \in Tokens_ |-> Minus(liquidity[j.share][t], j.position[t])]
<1>1. /\ j.next = "removePool" /\ swapped' = swapped
      /\ dexBase' = [t \in Tokens_ |-> Minus(dexBase[t], taken[t])]
  BY DEF RemovePool, DexSave
<1>2. /\ DecimalShare(liquidity[j.share]) /\ DecimalShare(j.position)
      /\ DecimalPool(dexBase) /\ DecimalPool(j.pool)
  BY <1>1 DEF DexTyped, DexJobTyped, DexRowsTyped
<1>3. DecimalPool(dexBase')
  <2>1. ASSUME NEW t \in Tokens_
        PROVE  IsDecimal(dexBase'[t])
    <3>1. IsDecimal(liquidity[j.share][t]) /\ IsDecimal(j.position[t]) /\ IsDecimal(dexBase[t])
      BY <1>2 DEF DecimalShare, DecimalPool, Tokens_
    <3>2. IsDecimal(Minus(liquidity[j.share][t], j.position[t]))
      BY <3>1, DecimalMinus
    <3>3. IsDecimal(Minus(dexBase[t], Minus(liquidity[j.share][t], j.position[t])))
      BY <3>1, <3>2, DecimalMinus
    <3> QED
      BY <1>1, <3>3
  <2> QED
    BY <2>1 DEF DecimalPool
<1> HIDE DEF taken
<1>4. CASE DexRejected(c, "idle") /\ UNCHANGED <<dexPool, swaps, liquidity>>
  BY <1>1, <1>3, <1>4, DexTypedRefused
<1>5. CASE /\ dexPool' = j.pool /\ swaps' = swaps /\ liquidity' = liquidity
           /\ DexGoto(c, "removeShare")
  <2>1. DexRowsTyped(dexPool', dexBase', swaps', liquidity', swapped')
    BY <1>1, <1>2, <1>3, <1>5 DEF DexTyped, DexRowsTyped
  <2> QED
    BY <1>5, <2>1, DexTypedGoto DEF DexCalls
<1> QED
  BY <1>4, <1>5 DEF RemovePool, DexSave

\* createOrUpdatePool sets whole balances.
LEMMA DecimalPair ==
    ASSUME NEW x \in DexAmounts, NEW y \in DexAmounts
    PROVE  DecimalPool([t \in Tokens_ |-> IF t = "a" THEN {x} ELSE {y}])
<1>1. IsDecimal({x}) /\ IsDecimal({y})
  BY DecimalIs, DexAssumption
<1> QED
  BY <1>1 DEF DecimalPool

LEMMA DexTypedUpdate ==
    ASSUME DexInv, DexTyped, NEW c \in Traders, CreateOrUpdateDexPool(c)
    PROVE  DexTyped'
<1>1. /\ dexBase' = dexPool' /\ DexGoto(c, "idle")
      /\ swaps' = swaps /\ liquidity' = liquidity /\ swapped' = swapped
  BY DEF CreateOrUpdateDexPool
<1>2. PICK x, y \in DexAmounts : dexPool' = [t \in Tokens_ |-> IF t = "a" THEN {x} ELSE {y}]
  BY DEF CreateOrUpdateDexPool
<1>3. DecimalPool(dexPool')
  BY <1>2, DecimalPair
<1>4. DexRowsTyped(dexPool', dexBase', swaps', liquidity', swapped')
  BY <1>1, <1>3 DEF DexTyped, DexRowsTyped
<1> QED
  BY <1>1, <1>4, DexTypedGoto DEF DexCalls

LEMMA DexTypedPerform ==
    ASSUME DexInv, DexTyped, NEW c \in Traders, PerformSwap(c)
    PROVE  DexTyped'
<1>1. PICK s \in Swaps, amountIn \in DexAmounts, direction \in SwapDirection,
           fraction \in BOOLEAN :
        /\ 0 \notin dexPool[direction]
        /\ DexBegin(c, [DexIdle EXCEPT !.next = "createSwap", !.pool = dexPool,
             !.swap = s, !.row = [direction |-> direction, amountIn |-> amountIn,
               amountOut |-> CalculateSwapAmount(dexPool, amountIn, direction, fraction),
               status |-> "pending"]])
  BY DEF PerformSwap
<1> DEFINE out == CalculateSwapAmount(dexPool, amountIn, direction, fraction)
<1>2. DecimalPool(dexPool) /\ amountIn \in Int
  BY DexAssumption DEF DexTyped, DexRowsTyped
<1>3. IsDecimal(out)
  BY <1>1, <1>2, DecimalOut DEF DecimalPool
<1> HIDE DEF out
<1> DEFINE row == [direction |-> direction, amountIn |-> amountIn, amountOut |-> out,
                   status |-> "pending"]
<1>4. row.amountOut = out
  OBVIOUS
<1> HIDE DEF row
<1> DEFINE k == [DexIdle EXCEPT !.next = "createSwap", !.pool = dexPool, !.swap = s,
                                !.row = row]
<1>5. DexBegin(c, k)
  BY <1>1 DEF row, out
<1>6. /\ k.next = "createSwap" /\ k.pool = dexPool /\ k.row = row
      /\ k.position = DexIdle.position /\ k.swap = s
  BY DexIdleShape DEF DexJobShape
<1> HIDE DEF k
<1>7. DexJobTyped(k)
  BY <1>2, <1>3, <1>4, <1>6, DexIdleTyped DEF DexJobTyped, DexCalls
<1> QED
  BY <1>5, <1>7, DexTypedBegun

LEMMA DexTypedAdd ==
    ASSUME DexInv, DexTyped, NEW c \in Traders, AddLiquidity(c)
    PROVE  DexTyped'
<1>1. PICK s \in Shares, a, b \in DexAmounts :
        DexBegin(c, [DexIdle EXCEPT !.next = "createShare", !.pool = dexPool,
          !.share = s, !.position = [a |-> {a}, b |-> {b}, liquidityShares |-> NaN,
                                     isActive |-> TRUE]])
  BY DEF AddLiquidity
<1> DEFINE position == [a |-> {a}, b |-> {b}, liquidityShares |-> NaN, isActive |-> TRUE]
<1>2. DecimalShare(position)
  <2>1. IsDecimal({a}) /\ IsDecimal({b})
    BY DecimalIs, DexAssumption
  <2> QED
    BY <2>1 DEF DecimalShare
<1> HIDE DEF position
<1> DEFINE k == [DexIdle EXCEPT !.next = "createShare", !.pool = dexPool, !.share = s,
                                !.position = position]
<1>3. DexBegin(c, k)
  BY <1>1 DEF position
<1>4. /\ k.next = "createShare" /\ k.pool = dexPool /\ k.position = position
      /\ k.row = DexIdle.row
  BY DexIdleShape DEF DexJobShape
<1> HIDE DEF k
<1>5. DexJobTyped(k)
  BY <1>2, <1>4, DexIdleTyped DEF DexJobTyped, DexCalls, DexTyped, DexRowsTyped
<1> QED
  BY <1>3, <1>5, DexTypedBegun

LEMMA DexTypedRemove ==
    ASSUME DexInv, DexTyped, NEW c \in Traders, RemoveLiquidity(c)
    PROVE  DexTyped'
<1>1. PICK s \in Shares, percentage \in {50, 100} :
        LET row == liquidity[s]
        IN  /\ row # NoShare
            /\ DexBegin(c, [DexIdle EXCEPT !.next = "removePool", !.share = s,
                 !.position = [row EXCEPT !.a = Rest(@, percentage),
                                          !.b = Rest(@, percentage)],
                 !.pool = [t \in Tokens_ |->
                             Minus(dexPool[t], Minus(row[t], Rest(row[t], percentage)))]])
  BY Zenon DEF RemoveLiquidity
<1> DEFINE row == liquidity[s]
           position == [row EXCEPT !.a = Rest(@, percentage), !.b = Rest(@, percentage)]
           pool == [t \in Tokens_ |-> Minus(dexPool[t],
                      Minus(row[t], Rest(row[t], percentage)))]
<1>2. ShareShape(row) /\ DecimalShare(row) /\ DecimalPool(dexPool)
  BY DexNow DEF DexShapes, DexTyped, DexRowsTyped
<1>3. IsDecimal(Rest(row.a, percentage)) /\ IsDecimal(Rest(row.b, percentage))
  BY <1>2, DecimalRest DEF DecimalShare
<1>4. DecimalShare(position)
  <2> HIDE DEF row
  <2>1. /\ position.a = Rest(row.a, percentage) /\ position.b = Rest(row.b, percentage)
    BY <1>2 DEF ShareShape
  <2> QED
    BY <1>3, <2>1 DEF DecimalShare
<1>5. DecimalPool(pool)
  <2> HIDE DEF row
  <2>1. ASSUME NEW t \in Tokens_
        PROVE  IsDecimal(pool[t])
    <3>1. IsDecimal(row[t]) /\ IsDecimal(Rest(row[t], percentage)) /\ IsDecimal(dexPool[t])
      BY <1>2, <1>3 DEF DecimalShare, DecimalPool, Tokens_
    <3>2. IsDecimal(Minus(row[t], Rest(row[t], percentage)))
      BY <3>1, DecimalMinus
    <3>3. IsDecimal(Minus(dexPool[t], Minus(row[t], Rest(row[t], percentage))))
      BY <3>1, <3>2, DecimalMinus
    <3> QED
      BY <3>3
  <2> QED
    BY <2>1 DEF DecimalPool
<1> HIDE DEF position, pool
<1> DEFINE k == [DexIdle EXCEPT !.next = "removePool", !.share = s,
                                !.position = position, !.pool = pool]
<1>6. DexBegin(c, k)
  BY <1>1 DEF position, pool
<1>7. /\ k.next = "removePool" /\ k.pool = pool /\ k.position = position
      /\ k.share = s /\ k.row = DexIdle.row
  BY DexIdleShape DEF DexJobShape
<1> HIDE DEF k
<1>8. DexJobTyped(k)
  BY <1>4, <1>5, <1>7, DexIdleTyped DEF DexJobTyped, DexCalls
<1> QED
  BY <1>6, <1>8, DexTypedBegun

LEMMA DexTypedStep ==
    ASSUME DexInv, DexTyped, DexStep
    PROVE  DexTyped'
<1>1. PICK c \in Traders :
        \/ LoadPool(c) \/ CreateOrUpdateDexPool(c)
        \/ PerformSwap(c) \/ CreateSwap(c) \/ SendSwap(c) \/ SwapPool(c)
        \/ FailSwap(c)
        \/ AddLiquidity(c) \/ CreateShare(c) \/ SharePool(c)
        \/ RemoveLiquidity(c) \/ RemovePool(c) \/ RemoveShare(c)
  BY DEF DexStep
<1>2. CASE LoadPool(c)
  <2> DEFINE k == [DexIdle EXCEPT !.next = "upsert"]
  <2>1. DexBegin(c, k)
    BY <1>2 DEF LoadPool
  <2>2. /\ k.next = "upsert" /\ k.pool = DexIdle.pool /\ k.position = DexIdle.position
        /\ k.row = DexIdle.row
    BY DexIdleShape DEF DexJobShape
  <2> HIDE DEF k
  <2>3. DexJobTyped(k)
    BY <2>2, DexIdleTyped DEF DexJobTyped, DexCalls
  <2> QED
    BY <2>1, <2>3, DexTypedBegun
<1> QED
  BY <1>1, <1>2, DexTypedUpdate, DexTypedPerform, DexTypedSwaps, DexTypedSend,
     DexTypedPools, DexTypedAdd, DexTypedShares, DexTypedRemove,
     DexTypedRemovePool

\* All that is known of the DEX pools.
DexAll == DexInv /\ DexTyped /\ dexFaults \in 0 .. MaxDexFaults

LEMMA DexAllStart == DexInit => DexAll
<1> SUFFICES ASSUME DexInit
             PROVE  DexAll
  OBVIOUS
<1>1. PICK x, y \in DexAmounts : dexPool = [t \in Tokens_ |-> IF t = "a" THEN {x} ELSE {y}]
  BY DEF DexInit
<1>2. DecimalPool(dexPool) /\ DecimalPool(dexBase)
  BY <1>1, DecimalPair DEF DexInit
<1>3. /\ \A s \in Swaps : /\ swaps[s].status \in {"none", "pending", "confirmed", "failed"}
                         /\ IsDecimal(swaps[s].amountOut)
      /\ \A s \in Shares : DecimalShare(liquidity[s])
      /\ swapped \subseteq Swaps
  <2>1. NoSwap.status = "none"
    BY DEF NoSwap
  <2> QED
    BY <2>1, DexIdleTyped DEF DexInit
<1>4. \A c \in Traders : DexJobTyped(dexJob[c])
  BY DexIdleTyped DEF DexInit
<1>5. dexFaults \in 0 .. MaxDexFaults
  BY DexAssumption DEF DexInit
<1> QED
  BY <1>2, <1>3, <1>4, <1>5, DexStart DEF DexAll, DexTyped, DexRowsTyped

LEMMA DexAllKept ==
    ASSUME DexAll, [DexNext]_dexVars
    PROVE  DexAll'
<1>1. CASE DexNext
  <2>1. DexStep /\ dexFaults' <= MaxDexFaults
    BY <1>1 DEF DexNext
  <2>2. DexInv' /\ DexTyped'
    BY <2>1, DexStepKeeps, DexTypedStep DEF DexAll
  <2>3. dexFaults' \in Nat
    BY <2>2 DEF DexInv, DexShapes
  <2> QED
    BY <2>1, <2>2, <2>3, DexAssumption DEF DexAll
<1>2. CASE UNCHANGED dexVars
  <2>1. DexInv'
    BY <1>2, DexRest DEF DexAll
  <2>2. /\ dexPool' = dexPool /\ dexBase' = dexBase /\ swaps' = swaps
        /\ liquidity' = liquidity /\ dexJob' = dexJob /\ swapped' = swapped
        /\ dexFaults' = dexFaults
    BY <1>2 DEF dexVars
  <2>3. DexTyped'
    BY <2>2 DEF DexAll, DexTyped
  <2> QED
    BY <2>1, <2>2, <2>3 DEF DexAll
<1> QED
  BY <1>1, <1>2

LEMMA DexAllMeans == DexAll => DexTypeOK
BY DEF DexAll, DexTyped, DexInv, DexShapes, DexRowsTyped, DexJobTyped, DexCalls, DecimalPool,
       DecimalShare, DexTypeOK

-----------------------------------------------------------------------------
(* Types of the lending pools and of the tokens                             *)

\* All that is known of the lending pools.
LendAll == LendInv /\ lendFaults \in 0 .. MaxLendFaults /\ lendOps \in 0 .. MaxLendOps

LEMMA LendAllStart == LendingInit => LendAll
BY LendStart, LendingAssumption DEF LendAll, LendingInit

LEMMA LendAllKept ==
    ASSUME LendAll, [LendingNext]_lendVars
    PROVE  LendAll'
<1>1. CASE LendingNext
  <2>1. LendingStep /\ lendOps' <= MaxLendOps /\ lendFaults' <= MaxLendFaults
    BY <1>1 DEF LendingNext
  <2>2. LendInv'
    BY <2>1, LendStepKeeps DEF LendAll
  <2>3. lendFaults' \in Nat
    BY <2>2 DEF LendInv, LendTypes
  <2>4. lendOps' \in {lendOps, lendOps + 1}
    BY <2>1 DEF LendingStep, SupplyToPool, BorrowFromPool, RepayBorrow, WithdrawSupply,
                CreatePosition, SendLending, SavePool, SavePosition, ClosePosition,
                LoadForUpdate, CreateOrUpdatePool, LendBegin
  <2> QED
    BY <2>1, <2>2, <2>3, <2>4, LendingAssumption DEF LendAll
<1>2. CASE UNCHANGED lendVars
  BY <1>2, LendRest DEF LendAll, lendVars
<1> QED
  BY <1>1, <1>2

LEMMA LendAllMeans == LendAll => LendingTypeOK
BY DEF LendAll, LendInv, LendTypes, LendJob, LendCalls, LendingTypeOK

\* A token account.
Account == [exists : BOOLEAN, amount : Nat, frozen : BOOLEAN, delegated : BOOLEAN]

Amounts(hs) == [o \in Owners |-> hs[o].amount]

LEMMA AccountFields ==
    ASSUME NEW a \in Account, NEW n \in Nat, NEW b \in BOOLEAN
    PROVE  /\ [a EXCEPT !.amount = n] \in Account /\ [a EXCEPT !.amount = n].amount = n
           /\ [a EXCEPT !.exists = b] \in Account
           /\ [a EXCEPT !.exists = b].amount = a.amount
           /\ [a EXCEPT !.exists = b, !.amount = n] = [[a EXCEPT !.exists = b] EXCEPT !.amount = n]
           /\ [a EXCEPT !.amount = n, !.exists = b] = [[a EXCEPT !.exists = b] EXCEPT !.amount = n]
BY DEF Account

\* Never more tokens than the mint may issue.
HoldingsKept(hs) == hs \in [Owners -> Account] /\ Total(Amounts(hs)) <= MaxSupply

LEMMA AmountsSum ==
    ASSUME NEW hs \in [Owners -> Account]
    PROVE  /\ Amounts(hs) \in [Owners -> Nat] /\ Summable(Amounts(hs))
           /\ Total(Amounts(hs)) \in Nat
<1>1. Amounts(hs) \in [Owners -> Nat]
  BY DEF Amounts, Account
<1>2. Summable(Amounts(hs))
  BY <1>1, FiniteSummable, TokensAssumption
<1> QED
  BY <1>1, <1>2, TotalType

\* One account changes.
LEMMA AccountSet ==
    ASSUME NEW hs \in [Owners -> Account], NEW o \in Owners, NEW a \in Account
    PROVE  /\ [hs EXCEPT ![o] = a] \in [Owners -> Account]
           /\ Total(Amounts([hs EXCEPT ![o] = a]))
                = Total(Amounts(hs)) - hs[o].amount + a.amount
<1>1. Amounts([hs EXCEPT ![o] = a]) = [Amounts(hs) EXCEPT ![o] = a.amount]
  BY DEF Amounts
<1>2. a.amount \in Nat /\ Amounts(hs)[o] = hs[o].amount
  BY DEF Account, Amounts
<1>3. Total([Amounts(hs) EXCEPT ![o] = a.amount])
        = Total(Amounts(hs)) - Amounts(hs)[o] + a.amount
  BY <1>2, AmountsSum, TotalChange
<1> QED
  BY <1>1, <1>2, <1>3

\* One account changes, and the supply has room for what it gets.
LEMMA AccountKept ==
    ASSUME NEW hs, HoldingsKept(hs), NEW o \in Owners, NEW a \in Account,
           Total(Amounts(hs)) - hs[o].amount + a.amount <= MaxSupply
    PROVE  HoldingsKept([hs EXCEPT ![o] = a])
<1> DEFINE new == [hs EXCEPT ![o] = a]
<1>1. hs \in [Owners -> Account]
  BY DEF HoldingsKept
<1>2. new \in [Owners -> Account] /\ Total(Amounts(new)) <= MaxSupply
  BY <1>1, AccountSet
<1> HIDE DEF new
<1>3. HoldingsKept(new)
  BY <1>2 DEF HoldingsKept
<1> QED
  BY <1>3 DEF new

TokenInstruction(o) ==
    \/ MintTokens(o) \/ BurnTokens(o)
    \/ GetOrCreateATA(o) \/ CloseTokenAccount(o) \/ FreezeTokenAccount(o)
    \/ ThawTokenAccount(o) \/ DelegateTokenAccount(o) \/ ApproveTokenSpending(o)
    \/ RevokeTokenDelegation(o) \/ RevokeTokenApproval(o)

LEMMA InstructionKept ==
    ASSUME HoldingsKept(holdings), NEW o \in Owners, TokenInstruction(o)
    PROVE  HoldingsKept(holdings')
<1> DEFINE h == holdings[o]
<1>1. /\ holdings \in [Owners -> Account] /\ h \in Account /\ h.amount \in Nat
      /\ Total(Amounts(holdings)) \in Nat /\ Total(Amounts(holdings)) <= MaxSupply
  BY AmountsSum DEF HoldingsKept, Account
<1>2. Supply = Total(Amounts(holdings))
  BY DEF Supply, Amounts
<1>3. MaxSupply \in Nat
  BY TokensAssumption
<1>4. PICK a \in Account :
        /\ holdings' = [holdings EXCEPT ![o] = a]
        /\ \/ a.amount = h.amount
           \/ a.amount = h.amount + 1 /\ Supply < MaxSupply
           \/ a.amount < h.amount
  <2>1. CASE MintTokens(o)
    <3> DEFINE a == [h EXCEPT !.exists = TRUE, !.amount = h.amount + 1]
    <3>1. a \in Account /\ a.amount = h.amount + 1
      <4>1. h.amount + 1 \in Nat /\ h \in Account
        BY <1>1
      <4> HIDE DEF h
      <4> QED
        BY <4>1, AccountFields
    <3>2. holdings' = [holdings EXCEPT ![o] = a] /\ Supply < MaxSupply
      BY <1>1, <2>1 DEF MintTokens, OnChain
    <3> QED
      BY <3>1, <3>2
  <2>2. CASE BurnTokens(o)
    <3> DEFINE a == [h EXCEPT !.amount = h.amount - 1]
    <3>1. h.amount > 0 /\ holdings' = [holdings EXCEPT ![o] = a]
      BY <2>2 DEF BurnTokens, OnChain
    <3>2. a \in Account /\ a.amount = h.amount - 1 /\ a.amount < h.amount
      BY <1>1, <3>1 DEF Account
    <3> QED
      BY <3>1, <3>2
  <2>3. CASE GetOrCreateATA(o)
    <3> DEFINE a == [h EXCEPT !.exists = TRUE]
    <3>1. a \in Account /\ a.amount = h.amount
      BY <1>1 DEF Account
    <3>2. holdings' = [holdings EXCEPT ![o] = a]
      BY <2>3 DEF GetOrCreateATA, OnChain
    <3> QED
      BY <3>1, <3>2
  <2>4. CASE CloseTokenAccount(o)
    <3>1. NoAccount \in Account /\ NoAccount.amount = 0
      BY DEF NoAccount, Account
    <3>2. holdings' = [holdings EXCEPT ![o] = NoAccount] /\ h.amount = 0
      BY <2>4 DEF CloseTokenAccount, OnChain
    <3> QED
      BY <3>1, <3>2
  <2>5. CASE FreezeTokenAccount(o) \/ ThawTokenAccount(o)
    <3>1. PICK b \in BOOLEAN : holdings' = [holdings EXCEPT ![o] = [h EXCEPT !.frozen = b]]
      BY <2>5 DEF FreezeTokenAccount, ThawTokenAccount, OnChain
    <3>2. [h EXCEPT !.frozen = b] \in Account /\ [h EXCEPT !.frozen = b].amount = h.amount
      BY <1>1 DEF Account
    <3> QED
      BY <3>1, <3>2
  <2>6. CASE \/ DelegateTokenAccount(o) \/ ApproveTokenSpending(o)
             \/ RevokeTokenDelegation(o) \/ RevokeTokenApproval(o)
    <3>1. PICK b \in BOOLEAN : holdings' = [holdings EXCEPT ![o] = [h EXCEPT !.delegated = b]]
      BY <2>6 DEF DelegateTokenAccount, ApproveTokenSpending, RevokeTokenDelegation,
                  RevokeTokenApproval, OnChain
    <3>2. /\ [h EXCEPT !.delegated = b] \in Account
          /\ [h EXCEPT !.delegated = b].amount = h.amount
      BY <1>1 DEF Account
    <3> QED
      BY <3>1, <3>2
  <2> QED
    BY <2>1, <2>2, <2>3, <2>4, <2>5, <2>6 DEF TokenInstruction
<1>5. Total(Amounts(holdings)) - h.amount + a.amount <= MaxSupply
  <2>1. a.amount \in Nat
    BY DEF Account
  <2> QED
    BY <1>1, <1>2, <1>3, <1>4, <2>1
<1> QED
  BY <1>4, <1>5, AccountKept

\* A token goes from o to another account.
LEMMA TransferKept ==
    ASSUME HoldingsKept(holdings), NEW o \in Owners, NEW recipient \in Owners,
           TransferNFT(o, recipient)
    PROVE  HoldingsKept(holdings')
<1> DEFINE h == holdings[o]
           r == holdings[recipient]
           a == [h EXCEPT !.amount = h.amount - 1]
           b == [r EXCEPT !.amount = r.amount + 1, !.exists = TRUE]
           half == [holdings EXCEPT ![o] = a]
<1>1. /\ holdings \in [Owners -> Account] /\ h \in Account /\ r \in Account
      /\ h.amount \in Nat /\ r.amount \in Nat
      /\ Total(Amounts(holdings)) \in Nat /\ Total(Amounts(holdings)) <= MaxSupply
  BY AmountsSum DEF HoldingsKept, Account
<1>2. o # recipient /\ h.amount > 0
  BY DEF TransferNFT
<1>3. a \in Account /\ a.amount = h.amount - 1
  BY <1>1, <1>2 DEF Account
<1>4. b \in Account /\ b.amount = r.amount + 1
  <2> DEFINE n == r.amount + 1
             e == [r EXCEPT !.exists = TRUE]
  <2>1. n \in Nat /\ r \in Account
    BY <1>1
  <2> HIDE DEF n, r
  <2>2. e \in Account /\ [r EXCEPT !.amount = n, !.exists = TRUE] = [e EXCEPT !.amount = n]
    BY <2>1, AccountFields
  <2> HIDE DEF e
  <2>3. [e EXCEPT !.amount = n] \in Account /\ [e EXCEPT !.amount = n].amount = n
    BY <2>1, <2>2, AccountFields
  <2> QED
    BY <2>2, <2>3 DEF n
<1>5. holdings' = [half EXCEPT ![recipient] = b]
  BY <1>1, <1>2 DEF TransferNFT, OnChain
<1> HIDE DEF a, b
<1>6. /\ half \in [Owners -> Account] /\ half[recipient] = r
      /\ Total(Amounts(half)) = Total(Amounts(holdings)) - h.amount + a.amount
  <2>1. /\ [holdings EXCEPT ![o] = a] \in [Owners -> Account]
        /\ Total(Amounts([holdings EXCEPT ![o] = a]))
             = Total(Amounts(holdings)) - holdings[o].amount + a.amount
    <3> HIDE DEF h
    <3>1. holdings \in [Owners -> Account] /\ a \in Account
      BY <1>1, <1>3
    <3> QED
      BY <3>1, AccountSet
  <2>2. half[recipient] = r
    BY <1>1, <1>2
  <2> QED
    BY <2>1, <2>2
<1> HIDE DEF half
<1>7. /\ holdings' \in [Owners -> Account]
      /\ Total(Amounts(holdings')) = Total(Amounts(half)) - r.amount + b.amount
  <2>1. /\ [half EXCEPT ![recipient] = b] \in [Owners -> Account]
        /\ Total(Amounts([half EXCEPT ![recipient] = b]))
             = Total(Amounts(half)) - half[recipient].amount + b.amount
    <3> HIDE DEF r
    <3>1. half \in [Owners -> Account] /\ b \in Account
      BY <1>4, <1>6
    <3> QED
      BY <3>1, AccountSet
  <2> QED
    BY <1>5, <1>6, <2>1
<1>8. Total(Amounts(holdings')) = Total(Amounts(holdings))
  BY <1>1, <1>3, <1>4, <1>6, <1>7
<1> QED
  BY <1>1, <1>7, <1>8 DEF HoldingsKept

TokensRest == minted \in {"no", "mint", "account", "yes"} /\ refused \subseteq Owners

LEMMA TokensStepTyped ==
    ASSUME HoldingsKept(holdings), TokensRest, TokensStep
    PROVE  HoldingsKept(holdings') /\ TokensRest'
<1>1. CASE CreateNFTWithMetadata
  <2>1. minted' \in {"no", "mint", "account", "yes"} /\ refused' = refused
    BY <1>1 DEF CreateNFTWithMetadata, tables
  <2> DEFINE o == Creator
             h == holdings[o]
  <2>2. o \in Owners
    BY TokensAssumption DEF Creator
  <2> HIDE DEF o
  <2>3. /\ holdings \in [Owners -> Account] /\ h \in Account /\ h.amount \in Nat
        /\ Total(Amounts(holdings)) \in Nat /\ Total(Amounts(holdings)) <= MaxSupply
    BY <2>2, AmountsSum DEF HoldingsKept, Account
  <2>4. CASE holdings' = holdings
    BY <2>1, <2>4 DEF TokensRest
  <2>5. CASE holdings' = [holdings EXCEPT ![o].exists = TRUE]
    <3> DEFINE a == [h EXCEPT !.exists = TRUE]
    <3>1. a \in Account /\ a.amount = h.amount /\ holdings' = [holdings EXCEPT ![o] = a]
      BY <2>3, <2>5 DEF Account
    <3> HIDE DEF a
    <3>2. Total(Amounts(holdings)) - h.amount + a.amount <= MaxSupply
      BY <2>3, <3>1, TokensAssumption
    <3>3. HoldingsKept(holdings')
      BY <2>2, <3>1, <3>2, AccountKept
    <3> QED
      BY <2>1, <3>3 DEF TokensRest
  <2>6. CASE Supply < MaxSupply /\ holdings' = [holdings EXCEPT ![o].amount = @ + 1]
    <3> DEFINE a == [h EXCEPT !.amount = h.amount + 1]
    <3>1. a \in Account /\ a.amount = h.amount + 1 /\ holdings' = [holdings EXCEPT ![o] = a]
      BY <2>3, <2>6 DEF Account
    <3> HIDE DEF a
    <3>2. Supply = Total(Amounts(holdings)) /\ MaxSupply \in Nat
      BY TokensAssumption DEF Supply, Amounts
    <3>3. Total(Amounts(holdings)) - h.amount + a.amount <= MaxSupply
      BY <2>3, <2>6, <3>1, <3>2
    <3>4. HoldingsKept(holdings')
      BY <2>2, <3>1, <3>3, AccountKept
    <3> QED
      BY <2>1, <3>4 DEF TokensRest
  <2> QED
    BY <1>1, <2>4, <2>5, <2>6 DEF CreateNFTWithMetadata, o
<1>2. ASSUME NEW o \in Owners, TokenInstruction(o)
      PROVE  HoldingsKept(holdings') /\ TokensRest'
  <2>1. UNCHANGED <<minted, refused>>
    BY <1>2 DEF TokenInstruction, MintTokens, BurnTokens, GetOrCreateATA, CloseTokenAccount,
                FreezeTokenAccount, ThawTokenAccount, DelegateTokenAccount,
                ApproveTokenSpending, RevokeTokenDelegation, RevokeTokenApproval,
                OnChain, tables
  <2> QED
    BY <1>2, <2>1, InstructionKept DEF TokensRest
<1>3. ASSUME NEW o \in Owners, NEW recipient \in Owners, TransferNFT(o, recipient)
      PROVE  HoldingsKept(holdings') /\ TokensRest'
  <2>1. UNCHANGED <<minted, refused>>
    BY <1>3 DEF TransferNFT, OnChain, tables
  <2> QED
    BY <1>3, <2>1, TransferKept DEF TokensRest
<1>4. CASE RefuseListing
  BY <1>4 DEF RefuseListing, TokensRest
<1>5. CASE AuctionEnds
  BY <1>5 DEF AuctionEnds, TokensRest
<1>6. ASSUME NEW c \in Users,
             \/ CreateNFTListing(c) \/ SaveListing(c) \/ PlaceBid(c) \/ HighestBid(c)
             \/ MarkOutbid(c) \/ SaveBid(c) \/ AcceptBid(c) \/ LoadBid(c) \/ SaveSale(c)
             \/ MarkSold(c) \/ MarkAccepted(c) \/ RejectOthers(c) \/ CancelListing(c)
             \/ MarkCancelled(c) \/ CancelBids(c)
      PROVE  HoldingsKept(holdings') /\ TokensRest'
  <2>1. UNCHANGED <<holdings, minted, refused>>
    BY <1>6 DEF CreateNFTListing, SaveListing, PlaceBid, HighestBid, MarkOutbid, SaveBid,
                AcceptBid, LoadBid, SaveSale, MarkSold, MarkAccepted, RejectOthers,
                CancelListing, MarkCancelled, CancelBids, NftBegin, NftStep
  <2> QED
    BY <2>1 DEF TokensRest
<1> QED
  BY <1>1, <1>2, <1>3, <1>4, <1>5, <1>6 DEF TokensStep, TokenInstruction

\* All that is known of the tokens and their marketplace.
TokensAll ==
    NftInv /\ HoldingsKept(holdings) /\ TokensRest /\ nftFaults \in 0 .. MaxNftFaults

LEMMA TokensAllStart == TokensInit => TokensAll
<1> SUFFICES ASSUME TokensInit
             PROVE  TokensAll
  OBVIOUS
<1>1. /\ holdings = [o \in Owners |-> NoAccount] /\ minted = "no" /\ refused = {}
      /\ nftFaults = 0
  BY DEF TokensInit
<1>2. NoAccount \in Account /\ NoAccount.amount = 0
  BY DEF NoAccount, Account
<1>3. holdings \in [Owners -> Account] /\ \A o \in Owners : Amounts(holdings)[o] = 0
  BY <1>1, <1>2 DEF Amounts
<1>4. Total(Amounts(holdings)) = 0
  BY <1>3, AmountsSum, TotalZero
<1> QED
  BY <1>1, <1>3, <1>4, NftStart, TokensAssumption DEF TokensAll, HoldingsKept, TokensRest

LEMMA TokensAllKept ==
    ASSUME TokensAll, [TokensNext]_nftVars
    PROVE  TokensAll'
<1>1. CASE TokensNext
  <2>1. TokensStep /\ nftFaults' <= MaxNftFaults
    BY <1>1 DEF TokensNext
  <2>2. NftInv' /\ HoldingsKept(holdings') /\ TokensRest'
    BY <2>1, TokensStepKeeps, TokensStepTyped DEF TokensAll
  <2>3. nftFaults' \in Nat
    BY <2>2 DEF NftInv, NftTypes
  <2> QED
    BY <2>1, <2>2, <2>3, TokensAssumption DEF TokensAll
<1>2. CASE UNCHANGED nftVars
  <2>1. NftInv'
    BY <1>2, TablesKeep DEF nftVars, TokensAll
  <2> QED
    BY <1>2, <2>1 DEF nftVars, TokensAll, TokensRest
<1> QED
  BY <1>1, <1>2

LEMMA TokensAllMeans == TokensAll => TokensTypeOK
<1> SUFFICES ASSUME TokensAll
             PROVE  TokensTypeOK
  OBVIOUS
<1>1. /\ listings \in [Listings -> NFTListing] /\ bids \in [Bids -> NFTBid]
      /\ sales \in NFTSale /\ nftOverlaps \in BOOLEAN
      /\ \A c \in Users : nftJob[c].next \in NftCalls
  BY DEF TokensAll, NftInv, NftTypes, NftCopy
<1>2. ASSUME NEW o \in Owners
      PROVE  holdings[o].amount \in 0 .. MaxSupply
  <2>1. holdings \in [Owners -> Account] /\ Total(Amounts(holdings)) <= MaxSupply
    BY DEF TokensAll, HoldingsKept
  <2>2. holdings[o].amount \in Nat /\ Amounts(holdings)[o] = holdings[o].amount
    BY <2>1 DEF Account, Amounts
  <2>3. Total(Amounts(holdings)) \in Nat /\ Amounts(holdings)[o] <= Total(Amounts(holdings))
    BY <2>1, AmountsSum, TotalTerm
  <2> QED
    BY <2>1, <2>2, <2>3, TokensAssumption
<1> QED
  BY <1>1, <1>2 DEF TokensAll, TokensRest, TokensTypeOK, NftCalls, Placing, Accepting

-----------------------------------------------------------------------------
(* Types of the accounts                                                    *)

\* All that is known of the MPC wallet: the revocations a signature found when it
\* began were returned, so only revoked shares are counted as misused.
MpcAll ==
    /\ MpcInv /\ mpcFaults \in 0 .. MaxMpcFaults /\ mpcOverlaps \in BOOLEAN
    /\ misused \subseteq revoked
    /\ \A c \in MpcCallers : mpcJob[c].since \subseteq revoked

LEMMA MpcAllStart == MpcInit => MpcAll
<1> SUFFICES ASSUME MpcInit
             PROVE  MpcAll
  OBVIOUS
<1>1. MpcInv
  BY MpcStart
<1>2. mpcFaults \in 0 .. MaxMpcFaults
  BY MpcAssumption DEF MpcInit
<1>3. mpcOverlaps \in BOOLEAN /\ misused = {}
  BY DEF MpcInit
<1>4. \A c \in MpcCallers : mpcJob[c].since = {}
  BY DEF MpcInit, MpcIdle
<1> QED
  BY <1>1, <1>2, <1>3, <1>4 DEF MpcAll

LEMMA MpcSince ==
    ASSUME MpcTypes, misused \subseteq revoked, mpcOverlaps \in BOOLEAN,
           \A c \in MpcCallers : mpcJob[c].since \subseteq revoked, MpcSteps
    PROVE  /\ misused' \subseteq revoked' /\ mpcOverlaps' \in BOOLEAN
           /\ \A c \in MpcCallers : mpcJob'[c].since \subseteq revoked'
<1>1. PICK c \in MpcCallers :
        \/ CreateMpcWallet(c) \/ SaveShares(c) \/ ReloadWallet(c)
        \/ SignTransaction(c) \/ UpdateShareUsage(c)
        \/ RevokeKeyShare(c) \/ SaveRevoked(c) \/ SaveRecovering(c)
  BY DEF MpcSteps
<1> DEFINE j == mpcJob[c]
<1>2. mpcJob \in [MpcCallers -> MpcCopy] /\ j \in MpcCopy /\ j.since \subseteq revoked
  BY DEF MpcTypes
<1>3. MpcIdle.since = {} /\ MpcIdle \in MpcCopy
  BY MpcIdleType DEF MpcIdle
<1>4. /\ revoked \subseteq revoked' /\ mpcOverlaps' \in BOOLEAN
      /\ misused' \subseteq misused \cup j.since
  BY <1>1 DEF CreateMpcWallet, SaveShares, ReloadWallet, SignTransaction, UpdateShareUsage,
              RevokeKeyShare, SaveRevoked, SaveRecovering, MpcBegin, MpcSave
<1>5. PICK k : mpcJob' = [mpcJob EXCEPT ![c] = k] /\ k.since \in {{}, j.since, revoked}
  <2>1. CASE CreateMpcWallet(c)
    <3>1. PICK scheme \in Schemes :
            mpcJob' = [mpcJob EXCEPT ![c] = [MpcIdle EXCEPT !.next = "saveShares",
                         !.wallet = [status |-> "active", scheme |-> scheme]]]
      BY <2>1 DEF CreateMpcWallet, MpcBegin
    <3>2. [MpcIdle EXCEPT !.next = "saveShares",
             !.wallet = [status |-> "active", scheme |-> scheme]].since = {}
      BY DEF MpcIdle
    <3> QED
      BY <3>1, <3>2
  <2>2. CASE SignTransaction(c)
    <3>1. PICK used \in SUBSET ActiveShares(shares) \ {{}} :
            mpcJob' = [mpcJob EXCEPT ![c] = [MpcIdle EXCEPT !.next = "saveUsage",
              !.wallet = mpcWallet, !.shares = shares, !.used = used, !.since = revoked]]
      BY <2>2 DEF SignTransaction, MpcBegin
    <3>2. [MpcIdle EXCEPT !.next = "saveUsage", !.wallet = mpcWallet, !.shares = shares,
                          !.used = used, !.since = revoked].since = revoked
      BY DEF MpcIdle
    <3> QED
      BY <3>1, <3>2
  <2>3. CASE RevokeKeyShare(c)
    <3>1. PICK p \in Participants :
            mpcJob' = [mpcJob EXCEPT ![c] = [MpcIdle EXCEPT !.next = "saveShare",
              !.wallet = mpcWallet, !.shares = shares, !.share = p]]
      BY <2>3 DEF RevokeKeyShare, MpcBegin
    <3>2. [MpcIdle EXCEPT !.next = "saveShare", !.wallet = mpcWallet, !.shares = shares,
                          !.share = p].since = {}
      BY DEF MpcIdle
    <3> QED
      BY <3>1, <3>2
  <2>4. CASE \/ SaveShares(c) \/ ReloadWallet(c) \/ UpdateShareUsage(c)
             \/ SaveRevoked(c) \/ SaveRecovering(c)
    <3>1. PICK next : mpcJob' = [mpcJob EXCEPT ![c] = IF next = "idle" THEN MpcIdle
                                                      ELSE [j EXCEPT !.next = next]]
      BY <2>4 DEF SaveShares, ReloadWallet, UpdateShareUsage, SaveRevoked, SaveRecovering,
                  MpcSave
    <3>2. [j EXCEPT !.next = next].since = j.since
      BY <1>2 DEF MpcCopy
    <3> QED
      BY <1>3, <3>1, <3>2
  <2> QED
    BY <1>1, <2>1, <2>2, <2>3, <2>4
<1>6. \A d \in MpcCallers : mpcJob'[d] = IF d = c THEN k ELSE mpcJob[d]
  BY <1>2, <1>5
<1> QED
  BY <1>2, <1>4, <1>5, <1>6

LEMMA MpcAllKept ==
    ASSUME MpcAll, [MpcNext]_mpcVars
    PROVE  MpcAll'
<1>1. CASE MpcNext
  <2>1. MpcSteps /\ mpcFaults' <= MaxMpcFaults
    BY <1>1 DEF MpcNext
  <2>2. MpcInv'
    BY <2>1, MpcNextInv DEF MpcAll
  <2>3. mpcFaults' \in 0 .. MaxMpcFaults
    BY <2>1, <2>2, MpcAssumption DEF MpcInv, MpcTypes
  <2> QED
    BY <2>1, <2>2, <2>3, MpcSince DEF MpcAll, MpcInv
<1>2. CASE UNCHANGED mpcVars
  <2>1. MpcInv'
    BY <1>2, MpcNextInv DEF MpcAll
  <2> QED
    BY <1>2, <2>1 DEF MpcAll, mpcVars
<1> QED
  BY <1>1, <1>2

LEMMA MpcAllMeans == MpcAll => MpcTypeOK
BY DEF MpcAll, MpcInv, MpcTypes, MpcCopy, MpcTypeOK

\* All that is known of the signatures.
SigningAll ==
    /\ SigningInv /\ account.listed <= MaxSigners
    /\ executing \in [MultiSigTxs -> 0 .. MaxExecuting]

LEMMA SigningAllStart == SigningInit => SigningAll
<1> SUFFICES ASSUME SigningInit
             PROVE  SigningAll
  OBVIOUS
<1>1. SigningInv
  BY SigningStart
<1> QED
  BY <1>1, SigningAssumption DEF SigningInit, SigningAll

LEMMA SigningAllKept ==
    ASSUME SigningAll, [SigningNext]_signingVars
    PROVE  SigningAll'
<1>1. SigningInv'
  BY SigningNextInv DEF SigningAll
<1>2. CASE /\ \E signers \in SUBSET SignerKeys \ {{}}, listed \in 1 .. MaxSigners :
                \E threshold \in 1 .. listed :
                  account' = [signers |-> signers, listed |-> listed, threshold |-> threshold]
           /\ executing' = executing
  <2>1. account'.listed <= MaxSigners
    BY <1>2
  <2> QED
    BY <1>1, <1>2, <2>1 DEF SigningAll
<1>3. CASE account' = account /\ executing' = executing
  BY <1>1, <1>3 DEF SigningAll
<1>4. ASSUME NEW t \in MultiSigTxs, account' = account,
             \/ executing' = [executing EXCEPT ![t] = @ + 1] /\ executing'[t] <= MaxExecuting
             \/ executing' = [executing EXCEPT ![t] = @ - 1] /\ executing[t] > 0
      PROVE  SigningAll'
  <2>1. executing \in [MultiSigTxs -> 0 .. MaxExecuting] /\ MaxExecuting \in Nat
    BY SigningAssumption DEF SigningAll
  <2>2. PICK n \in Int : executing' = [executing EXCEPT ![t] = n] /\ n \in 0 .. MaxExecuting
    BY <1>4, <2>1
  <2>3. executing' \in [MultiSigTxs -> 0 .. MaxExecuting]
    BY <2>1, <2>2
  <2> QED
    BY <1>1, <1>4, <2>3 DEF SigningAll
<1>5. CASE CreateMultiSigAccount
  BY <1>2, <1>5 DEF CreateMultiSigAccount
<1>6. ASSUME NEW t \in MultiSigTxs, NEW k \in SignerKeys,
             CreateMultiSigTransaction(t) \/ SignMultiSigTransaction(t, k)
      PROVE  SigningAll'
  BY <1>3, <1>6 DEF CreateMultiSigTransaction, SignMultiSigTransaction
<1>7. ASSUME NEW t \in MultiSigTxs, ExecuteMultiSigTransaction(t) \/ ExecutionFails(t)
      PROVE  SigningAll'
  BY <1>3, <1>4, <1>7 DEF ExecuteMultiSigTransaction, ExecutionFails
<1>8. ASSUME NEW r \in OfflineIds, NEW k \in SignerKeys,
             \/ Expires(r) \/ CancelOfflineSigningRequest(r)
             \/ CreateOfflineSigningRequest(r, k) \/ CreateOfflineMessageSigningRequest(r, k)
             \/ SignOfflineRequest(r, k)
      PROVE  SigningAll'
  <2>1. UNCHANGED multiSigVars
    BY <1>8 DEF Expires, CancelOfflineSigningRequest, CreateOfflineSigningRequest,
                CreateOfflineMessageSigningRequest, SignOfflineRequest, CreateRequest
  <2> QED
    BY <1>3, <2>1 DEF multiSigVars
<1>9. ASSUME NEW x \in Transfers, SignAndSendTransaction(x) \/ RecordSent(x)
      PROVE  SigningAll'
  <2>1. UNCHANGED multiSigVars
    BY <1>9 DEF SignAndSendTransaction, RecordSent
  <2> QED
    BY <1>3, <2>1 DEF multiSigVars
<1>10. CASE UNCHANGED signingVars
  BY <1>3, <1>10 DEF signingVars
<1>11. \E k \in SignerKeys : TRUE
  BY SigningAssumption
<1> QED
  BY <1>5, <1>6, <1>7, <1>8, <1>9, <1>10, <1>11 DEF SigningNext

LEMMA SigningAllMeans == SigningAll => SigningTypeOK
BY DEF SigningAll, SigningInv, SigningTypes, SigningTypeOK

\* All that is known of the smart account.
SmartAll == SmartInv /\ smartFaults \in 0 .. MaxSmartFaults

LEMMA SmartAllStart == SmartInit => SmartAll
<1> SUFFICES ASSUME SmartInit
             PROVE  SmartAll
  OBVIOUS
<1>1. SmartInv
  BY SmartStart
<1>2. smartFaults = 0
  BY DEF SmartInit
<1> QED
  BY <1>1, <1>2, SmartAssumption DEF SmartAll

LEMMA SmartAllKept ==
    ASSUME SmartAll, [SmartNext]_smartVars
    PROVE  SmartAll'
<1>1. CASE SmartNext
  <2>1. SmartSteps /\ smartFaults' <= MaxSmartFaults
    BY <1>1 DEF SmartNext
  <2>2. SmartInv'
    BY <2>1, SmartNextInv DEF SmartAll
  <2>3. smartFaults' \in 0 .. MaxSmartFaults
    BY <2>1, <2>2, SmartAssumption DEF SmartInv, SmartTypes
  <2> QED
    BY <2>2, <2>3 DEF SmartAll
<1>2. CASE UNCHANGED smartVars
  <2>1. SmartInv'
    BY <1>2, SmartNextInv DEF SmartAll
  <2> QED
    BY <1>2, <2>1 DEF SmartAll, smartVars
<1> QED
  BY <1>1, <1>2

LEMMA SmartAllMeans == SmartAll => SmartTypeOK
BY DEF SmartAll, SmartInv, SmartTypes, SmartCopy, SmartCalls, SmartTypeOK

\* All that is known of the user and the API key.
AuthAll == AuthInv /\ authFaults \in 0 .. MaxAuthFaults /\ authOverlaps \in BOOLEAN

LEMMA AuthAllStart == AuthInit => AuthAll
<1> SUFFICES ASSUME AuthInit
             PROVE  AuthAll
  OBVIOUS
<1>1. AuthInv
  BY AuthInitInv
<1>2. authFaults = 0 /\ authOverlaps = FALSE
  BY DEF AuthInit
<1>3. authFaults \in 0 .. MaxAuthFaults
  BY <1>2, AuthAssumption
<1> QED
  BY <1>1, <1>2, <1>3 DEF AuthAll

LEMMA AuthAllKept ==
    ASSUME AuthAll, [AuthNext]_authVars
    PROVE  AuthAll'
<1>1. CASE AuthNext
  <2>1. AuthSteps /\ authFaults' <= MaxAuthFaults
    BY <1>1 DEF AuthNext
  <2>2. AuthInv'
    BY <2>1, AuthNextInv DEF AuthAll
  <2>3. authFaults' \in 0 .. MaxAuthFaults
    BY <2>1, <2>2, AuthAssumption DEF AuthInv, AuthTypes
  <2>4. authOverlaps' \in BOOLEAN
    BY <2>1 DEF AuthAll, AuthSteps, LockEnds, KeyExpires, Register, SaveUser, Login,
                ComparePassword, HandleFailedLogin, SaveLogin, CreateApiKey, SaveApiKey,
                ValidateApiKey, FindApiKey, CompareKey, SaveUse, RevokeApiKey,
                SaveRevokedKey, AuthBegin, AuthStep
  <2> QED
    BY <2>2, <2>3, <2>4 DEF AuthAll
<1>2. CASE UNCHANGED authVars
  <2>1. AuthInv'
    BY <1>2, AuthNextInv DEF AuthAll
  <2> QED
    BY <1>2, <2>1 DEF AuthAll, authVars
<1> QED
  BY <1>1, <1>2

LEMMA AuthAllMeans == AuthAll => AuthTypeOK
BY DEF AuthAll, AuthInv, AuthTypes, AuthCopy, AuthCalls, AuthTypeOK

-----------------------------------------------------------------------------
(* Types of the endpoints, the subscriptions and the caches                 *)

\* All that is known of the endpoints.
NetAll ==
    /\ NetInv /\ destroyed \in BOOLEAN /\ probes \in 0 .. MaxProbes
    /\ \A n \in SolanaNetwork : endpoints[n] \in [Priorities(n) -> RpcEndpoint]

LEMMA NetAllStart == NetInit => NetAll
<1> SUFFICES ASSUME NetInit
             PROVE  NetAll
  OBVIOUS
<1>1. NetInv
  BY NetInitInv
<1>2. destroyed = FALSE /\ probes = 0 /\ MaxProbes \in Nat
  BY NetworkAssumption DEF NetInit
<1>3. [isHealthy |-> TRUE, consecutiveFailures |-> 0] \in RpcEndpoint
  BY DEF RpcEndpoint
<1>4. \A n \in SolanaNetwork : endpoints[n] \in [Priorities(n) -> RpcEndpoint]
  BY <1>3 DEF NetInit
<1>5. probes \in 0 .. MaxProbes
  BY <1>2
<1>6. destroyed \in BOOLEAN
  BY <1>2
<1> QED
  BY <1>1, <1>4, <1>5, <1>6 DEF NetAll

LEMMA NetAllKept ==
    ASSUME NetAll, [NetNext]_netVars
    PROVE  NetAll'
<1>1. NetInv'
  BY NetNextInv DEF NetAll
<1>2. ASSUME destroyed' \in {destroyed, TRUE}, probes' = probes, endpoints' = endpoints
      PROVE  NetAll'
  BY <1>1, <1>2 DEF NetAll
<1>3. ASSUME NEW s \in Sweeps, NEW good \in BOOLEAN, Probe(s, good)
      PROVE  NetAll'
  <2> DEFINE n == sweeps[s].network
             p == sweeps[s].priority
             e == Updated(endpoints[n][p], good)
  <2>1. /\ sweeps[s] \in [network : SolanaNetwork, priority : Nat]
        /\ p <= RpcEndpoints[n] /\ p # 0 /\ RpcEndpoints[n] \in Nat
    BY <1>3, NetworkAssumption DEF NetAll, NetInv, SweepsInv, Probe, SolanaNetwork
  <2>2. n \in SolanaNetwork /\ p \in Priorities(n)
    BY <2>1 DEF Priorities
  <2>3. /\ endpoints' = [endpoints EXCEPT ![n][p] = e]
        /\ probes < MaxProbes /\ probes' = probes + 1 /\ destroyed' = destroyed
    BY <1>3 DEF Probe, Updated
  <2> HIDE DEF n, p
  <2>4. endpoints[n] \in [Priorities(n) -> RpcEndpoint] /\ endpoints[n][p] \in RpcEndpoint
    BY <2>2 DEF NetAll
  <2>5. e \in RpcEndpoint
    <3> DEFINE d == endpoints[n][p]
    <3>1. d \in [isHealthy : BOOLEAN, consecutiveFailures : Nat]
      BY <2>4 DEF RpcEndpoint
    <3> HIDE DEF d
    <3>2. Answered(d) \in RpcEndpoint
      BY <3>1 DEF Answered, RpcEndpoint
    <3>3. d.consecutiveFailures + 1 \in Nat
      BY <3>1
    <3>4. Failed(d) \in RpcEndpoint
      BY <3>3 DEF Failed, RpcEndpoint
    <3>5. e = Answered(d) \/ e = Failed(d)
      BY DEF Updated, d
    <3> QED
      BY <3>2, <3>4, <3>5
  <2> HIDE DEF e
  <2>6. [endpoints[n] EXCEPT ![p] = e] \in [Priorities(n) -> RpcEndpoint]
    BY <2>4, <2>5
  <2>7. \A m \in SolanaNetwork :
          endpoints'[m] = IF m = n THEN [endpoints[n] EXCEPT ![p] = e] ELSE endpoints[m]
    BY <1>1, <2>3 DEF NetAll, NetInv, WindowsInv
  <2>8. \A m \in SolanaNetwork : endpoints'[m] \in [Priorities(m) -> RpcEndpoint]
    BY <2>6, <2>7 DEF NetAll
  <2>9. probes' \in 0 .. MaxProbes
    BY <2>3, NetworkAssumption DEF NetAll
  <2> QED
    BY <1>1, <2>3, <2>8, <2>9 DEF NetAll
<1>4. CASE UNCHANGED netVars
  BY <1>2, <1>4 DEF netVars
<1>5. CASE OnModuleDestroy
  BY <1>2, <1>5 DEF OnModuleDestroy
<1>6. ASSUME NEW s \in Sweeps, NEW n \in SolanaNetwork, StartSweep(s, n)
      PROVE  NetAll'
  BY <1>2, <1>6 DEF StartSweep
<1>7. ASSUME NEW n, SetCurrentNetwork(n)
      PROVE  NetAll'
  BY <1>2, <1>7 DEF SetCurrentNetwork
<1>8. ASSUME NEW w \in Watchers, NEW n, GetNetworkHealth(w, n)
      PROVE  NetAll'
  BY <1>2, <1>8 DEF GetNetworkHealth
<1>9. ASSUME NEW w \in Watchers, NEW good, SlotAnswered(w, good)
      PROVE  NetAll'
  BY <1>2, <1>9 DEF SlotAnswered
<1> QED
  BY <1>3, <1>4, <1>5, <1>6, <1>7, <1>8, <1>9 DEF NetNext

LEMMA NetAllMeans == NetAll => NetTypeOK
<1> SUFFICES ASSUME NetAll
             PROVE  NetTypeOK
  OBVIOUS
<1>1. ASSUME NEW s \in Sweeps
      PROVE  /\ sweeps[s].network \in SolanaNetwork
             /\ sweeps[s].priority \in 0 .. RpcEndpoints[sweeps[s].network]
  <2>1. /\ sweeps[s] \in [network : SolanaNetwork, priority : Nat]
        /\ sweeps[s].priority <= RpcEndpoints[sweeps[s].network]
    BY DEF NetAll, NetInv, SweepsInv
  <2>2. RpcEndpoints[sweeps[s].network] \in Nat
    BY <2>1, NetworkAssumption DEF SolanaNetwork
  <2> QED
    BY <2>1, <2>2
<1>2. ASSUME NEW w \in Watchers
      PROVE  checks[w].priority \in 0 .. RpcEndpoints[checks[w].network]
  <2>1. /\ checks[w] \in [network : SolanaNetwork, priority : Nat]
        /\ checks[w].priority # 0 => checks[w].priority \in Priorities(checks[w].network)
    BY DEF NetAll, NetInv, ReportsInv
  <2>2. RpcEndpoints[checks[w].network] \in Nat
    BY <2>1, NetworkAssumption DEF SolanaNetwork
  <2> QED
    BY <2>1, <2>2 DEF Priorities
<1> QED
  BY <1>1, <1>2 DEF NetAll, NetInv, ReportsInv, NetTypeOK

\* All that is known of the subscriptions, the listeners and the stored events.
EventsAll ==
    /\ EventsInv /\ eventFaults \in 0 .. MaxEventFaults
    /\ accountEntry \in 0 .. lastListener /\ listeners \subseteq 1 .. lastListener

LEMMA EventsAllStart == EventsInit => EventsAll
BY EventsInitInv, EventsAssumption DEF EventsInit, EventsAll

LEMMA EventsAllKept ==
    ASSUME EventsAll, [EventsNext]_eventVars
    PROVE  EventsAll'
<1>1. EventsInv'
  BY EventsNextInv DEF EventsAll
<1>2. EventsTypes /\ lastListener \in Nat /\ lastListener' \in Nat
  BY <1>1 DEF EventsAll, EventsInv, EventsTypes
<1>3. ASSUME eventFaults' = eventFaults \/ (eventFaults < MaxEventFaults
                                              /\ eventFaults' = eventFaults + 1),
             accountEntry' \in {0, accountEntry, lastListener'},
             listeners' \subseteq listeners \cup {lastListener'},
             \/ lastListener' = lastListener /\ listeners' \subseteq listeners
                  /\ accountEntry' \in {0, accountEntry}
             \/ lastListener' = lastListener + 1
      PROVE  EventsAll'
  <2>1. eventFaults' \in 0 .. MaxEventFaults
    BY <1>3, EventsAssumption DEF EventsAll
  <2>2. accountEntry' \in 0 .. lastListener'
    BY <1>2, <1>3 DEF EventsAll
  <2>3. listeners' \subseteq 1 .. lastListener'
    BY <1>2, <1>3 DEF EventsAll
  <2> QED
    BY <1>1, <2>1, <2>2, <2>3 DEF EventsAll
<1>4. ASSUME UNCHANGED listenVars, eventFaults' = eventFaults
      PROVE  EventsAll'
  BY <1>3, <1>4 DEF listenVars
<1>5. CASE UNCHANGED eventVars
  BY <1>4, <1>5 DEF eventVars
<1>6. ASSUME NEW s \in Sockets, HandleConnection(s) \/ HandleDisconnect(s)
      PROVE  EventsAll'
  BY <1>4, <1>6 DEF HandleConnection, HandleDisconnect
<1>7. ASSUME NEW i \in SubscriptionIds, NEW status \in SubscriptionStatus,
             DeleteSubscription(i) \/ PutSubscription(i, status)
      PROVE  EventsAll'
  BY <1>4, <1>7 DEF DeleteSubscription, PutSubscription
<1>8. CASE SubscribeToAccount
  BY <1>3, <1>8 DEF SubscribeToAccount
<1>9. ASSUME NEW c \in EventCallers,
             RowStep(c) \/ LogStep(c)
      PROVE  EventsAll'
  <2>1. UNCHANGED listenVars
    <3>1. CASE RowStep(c)
      BY <1>2, <3>1, RowStepEffect
    <3>2. CASE LogStep(c)
      <4>1. LogInv
        BY DEF EventsAll, EventsInv
      <4> QED
        BY <1>2, <3>2, <4>1, LogStepEffect
    <3> QED
      BY <1>9, <3>1, <3>2
  <2>2. eventFaults' = eventFaults
    BY <1>9 DEF RowStep, LogStep, CreateEvent, EmitEvent, HandleSubscribe, HandleUnsubscribe,
                PostSubscription, FindExisting, SaveActive, Join, FindAny, SaveInactive, Leave,
                BeginOnRows, EventBegin, EventGoto
  <2> QED
    BY <1>4, <2>1, <2>2
<1>10. ASSUME NEW c \in EventCallers, EventReject(c)
       PROVE  EventsAll'
  BY <1>3, <1>10 DEF EventReject
<1>11. ASSUME NEW c \in EventCallers, UnsubscribeFromAccount(c) \/ DeleteEntry(c)
       PROVE  EventsAll'
  BY <1>3, <1>11 DEF UnsubscribeFromAccount, DeleteEntry, EventBegin, EventGoto
<1>12. ASSUME NEW c \in EventCallers, NEW t \in Reported, NEW failed \in BOOLEAN,
              HandleProgramLogs(c, t, failed)
       PROVE  EventsAll'
  BY <1>4, <1>12 DEF HandleProgramLogs, EventBegin
<1>13. \E status \in SubscriptionStatus : TRUE
  BY DEF SubscriptionStatus
<1> QED
  BY <1>5, <1>6, <1>7, <1>8, <1>9, <1>10, <1>11, <1>12, <1>13 DEF EventsNext

LEMMA EventsAllMeans == EventsAll => EventsTypeOK
BY DEF EventsAll, EventsInv, EventsTypes, EventJob, LogSteps, EventsTypeOK

\* The caches.
LEMMA CachesKept ==
    ASSUME CachesInv, [CachesNext]_cacheVars
    PROVE  CachesInv'
BY CachesStepKeeps, CachesRest

LEMMA CachesMeans == CachesInv => CachesTypeOK
<1> SUFFICES ASSUME CachesInv
             PROVE  CachesTypeOK
  OBVIOUS
<1>1. now \in Nat /\ now <= MaxTime
  BY DEF CachesInv, CacheTypes
<1>2. now \in 0 .. MaxTime
  BY <1>1, CachesAssumption
<1> QED
  BY <1>2 DEF CachesInv, CacheTypes, Versions, CacheRequest, CacheCalls, CachesTypeOK

-----------------------------------------------------------------------------
(* The services side by side: one of them is examined, the others rest      *)

ServicesSpec == Init /\ [][Next]_<<examined, programVars, accountVars, platformVars>>

\* All that is known of the programs, of the accounts and of the platform.
ProgramsAll == LendAll /\ DexAll /\ TokensAll /\ GasInv /\ DealTypeOK

AccountsAll == MpcAll /\ SigningAll /\ SmartAll /\ AuthAll

PlatformAll == NetAll /\ EventsAll /\ CachesInv

\* Variables that rest are a stuttering step of their service.
LEMMA AllRest ==
    /\ UNCHANGED programVars => /\ UNCHANGED lendVars /\ UNCHANGED dexVars /\ UNCHANGED nftVars
                                /\ UNCHANGED gasVars /\ UNCHANGED answers
    /\ UNCHANGED accountVars => /\ UNCHANGED mpcVars /\ UNCHANGED signingVars
                                /\ UNCHANGED smartVars /\ UNCHANGED authVars
    /\ UNCHANGED platformVars => /\ UNCHANGED netVars /\ UNCHANGED eventVars
                                 /\ UNCHANGED cacheVars
BY DEF programVars, accountVars, platformVars

LEMMA ProgramsAllKept ==
    ASSUME ProgramsAll, ProgramsNext \/ UNCHANGED programVars
    PROVE  ProgramsAll'
<1>1. /\ [LendingNext]_lendVars /\ [DexNext]_dexVars /\ [TokensNext]_nftVars
      /\ [GasNext]_gasVars /\ [DealNext]_answers
  <2>1. CASE UNCHANGED programVars
    BY <2>1, AllRest
  <2>2. CASE ProgramsNext
    BY <2>2 DEF ProgramsNext
  <2> QED
    BY <2>1, <2>2
<1>2. LendAll'
  BY <1>1, LendAllKept DEF ProgramsAll
<1>3. DexAll'
  BY <1>1, DexAllKept DEF ProgramsAll
<1>4. TokensAll'
  BY <1>1, TokensAllKept DEF ProgramsAll
<1>5. GasInv'
  BY <1>1, GasNextInv DEF ProgramsAll
<1>6. DealTypeOK'
  BY <1>1, DealNextType DEF ProgramsAll
<1> QED
  BY <1>2, <1>3, <1>4, <1>5, <1>6 DEF ProgramsAll

LEMMA AccountsAllKept ==
    ASSUME AccountsAll, AccountsNext \/ UNCHANGED accountVars
    PROVE  AccountsAll'
<1>1. /\ [MpcNext]_mpcVars /\ [SigningNext]_signingVars
      /\ [SmartNext]_smartVars /\ [AuthNext]_authVars
  <2>1. CASE UNCHANGED accountVars
    BY <2>1, AllRest
  <2>2. CASE AccountsNext
    BY <2>2 DEF AccountsNext
  <2> QED
    BY <2>1, <2>2
<1>2. MpcAll'
  BY <1>1, MpcAllKept DEF AccountsAll
<1>3. SigningAll'
  BY <1>1, SigningAllKept DEF AccountsAll
<1>4. SmartAll'
  BY <1>1, SmartAllKept DEF AccountsAll
<1>5. AuthAll'
  BY <1>1, AuthAllKept DEF AccountsAll
<1> QED
  BY <1>2, <1>3, <1>4, <1>5 DEF AccountsAll

LEMMA PlatformAllKept ==
    ASSUME PlatformAll, PlatformNext \/ UNCHANGED platformVars
    PROVE  PlatformAll'
<1>1. [NetNext]_netVars /\ [EventsNext]_eventVars /\ [CachesNext]_cacheVars
  <2>1. CASE UNCHANGED platformVars
    BY <2>1, AllRest
  <2>2. CASE PlatformNext
    BY <2>2 DEF PlatformNext
  <2> QED
    BY <2>1, <2>2
<1>2. NetAll'
  BY <1>1, NetAllKept DEF PlatformAll
<1>3. EventsAll'
  BY <1>1, EventsAllKept DEF PlatformAll
<1>4. CachesInv'
  BY <1>1, CachesKept DEF PlatformAll
<1> QED
  BY <1>2, <1>3, <1>4 DEF PlatformAll

LEMMA AllStart == Init => ProgramsAll /\ AccountsAll /\ PlatformAll
<1> SUFFICES ASSUME Init
             PROVE  ProgramsAll /\ AccountsAll /\ PlatformAll
  OBVIOUS
<1>1. /\ LendingInit /\ DexInit /\ TokensInit /\ GasInit /\ DealInit
      /\ MpcInit /\ SigningInit /\ SmartInit /\ AuthInit
      /\ NetInit /\ EventsInit /\ CachesInit
  BY DEF Init
<1>2. DealTypeOK
  BY <1>1 DEF DealInit, DealTypeOK
<1>3. ProgramsAll
  BY <1>1, <1>2, LendAllStart, DexAllStart, TokensAllStart, GasStart DEF ProgramsAll
<1>4. AccountsAll
  BY <1>1, MpcAllStart, SigningAllStart, SmartAllStart, AuthAllStart DEF AccountsAll
<1>5. PlatformAll
  BY <1>1, NetAllStart, EventsAllStart, CachesStart DEF PlatformAll
<1> QED
  BY <1>3, <1>4, <1>5

LEMMA AllMeans == ProgramsAll /\ AccountsAll /\ PlatformAll => TypeOK
<1> SUFFICES ASSUME ProgramsAll, AccountsAll, PlatformAll
             PROVE  TypeOK
  OBVIOUS
<1>1. LendingTypeOK /\ DexTypeOK /\ TokensTypeOK
  BY LendAllMeans, DexAllMeans, TokensAllMeans DEF ProgramsAll
<1>2. GasTypeOK /\ DealTypeOK
  BY DEF ProgramsAll, GasInv
<1>3. MpcTypeOK /\ SigningTypeOK /\ SmartTypeOK /\ AuthTypeOK
  BY MpcAllMeans, SigningAllMeans, SmartAllMeans, AuthAllMeans DEF AccountsAll
<1>4. NetTypeOK /\ EventsTypeOK /\ CachesTypeOK
  BY NetAllMeans, EventsAllMeans, CachesMeans DEF PlatformAll
<1> QED
  BY <1>1, <1>2, <1>3, <1>4 DEF TypeOK

\* Whatever order the requests of a service take, and wherever one is cut short, its
\* rows, caches and pending calls have their types: the decimals of a DEX pool are
\* numbers or not a number, the supply of a token does not exceed its maximum, and a
\* share counted as misused was revoked.
THEOREM ServicesTyped == ServicesSpec => []TypeOK
<1>1. ProgramsAll /\ AccountsAll /\ PlatformAll
        /\ [Next]_<<examined, programVars, accountVars, platformVars>>
        => (ProgramsAll /\ AccountsAll /\ PlatformAll)'
  <2> SUFFICES ASSUME ProgramsAll, AccountsAll, PlatformAll,
                      [Next]_<<examined, programVars, accountVars, platformVars>>
               PROVE  ProgramsAll' /\ AccountsAll' /\ PlatformAll'
    OBVIOUS
  <2>1. /\ ProgramsNext \/ UNCHANGED programVars
        /\ AccountsNext \/ UNCHANGED accountVars
        /\ PlatformNext \/ UNCHANGED platformVars
    BY DEF Next
  <2> QED
    BY <2>1, ProgramsAllKept, AccountsAllKept, PlatformAllKept
<1> QED
  BY <1>1, AllStart, AllMeans, PTL DEF ServicesSpec
=============================================================================
