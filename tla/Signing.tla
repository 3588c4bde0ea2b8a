--------------------------------- MODULE Signing ---------------------------------
(***************************************************************************)
(* SigningService (signing/signing.service.ts): multi-signature accounts    *)
(* and transactions, offline requests, and transactions signed and sent.    *)
(* All but the last live in maps of the process; their methods do not wait, *)
(* except for the execution of a multi-signature transaction.               *)
(*                                                                          *)
(*   account     the configuration of the one multi-signature account       *)
(*   multiSig    per transaction: status and the signatures collected       *)
(*   executing   the executions under way: a set of transactions each may   *)
(*               be in twice, so a count                                    *)
(*   offline     per request: status, key, content, whether it has expired  *)
(*   signatures  how often each offline request was answered by a signature *)
(*   transfers   per transaction signed and sent: the call awaited, and     *)
(*               whether it landed and has a row                            *)
(***************************************************************************)
EXTENDS Naturals, FiniteSets, Sequences, SequencesExt

CONSTANTS SignerKeys, MultiSigTxs, OfflineIds, Transfers,
          MaxSigners,       \* the length of a list of signers, 11 in the code
          MaxExecuting      \* executions of one transaction under way

ASSUME SigningAssumption ==
    SignerKeys # {} /\ MaxSigners \in Nat /\ MaxExecuting \in Nat

VARIABLES account, multiSig, executing, offline, signatures, transfers

signingVars == <<account, multiSig, executing, offline, signatures, transfers>>

\* A list of signers may name one twice: what is kept is who, and its length.
MultiSigConfig == [signers : SUBSET SignerKeys, listed : Nat, threshold : Nat]

MultiSigTransaction ==
    [status : {"none", "pending", "ready", "executed", "failed"},
     collectedSignatures : Seq(SignerKeys)]

OfflineSigningRequest ==
    [status : {"none", "pending", "signed", "expired", "cancelled"}, publicKey : SignerKeys,
     content : {"message", "transaction", "empty"}, late : BOOLEAN]

SomeKey == CHOOSE k \in SignerKeys : TRUE

SigningTypeOK ==
    /\ account \in MultiSigConfig /\ account.listed <= MaxSigners
    /\ multiSig \in [MultiSigTxs -> MultiSigTransaction]
    /\ executing \in [MultiSigTxs -> 0 .. MaxExecuting]
    /\ offline \in [OfflineIds -> OfflineSigningRequest]
    /\ signatures \in [OfflineIds -> Nat]
    /\ transfers \in [Transfers -> [next : {"send", "save", "answered", "failed"},
                                    landed : BOOLEAN, row : BOOLEAN]]

SigningInit ==
    /\ account = [signers |-> {}, listed |-> 0, threshold |-> 0]
    /\ multiSig = [t \in MultiSigTxs |-> [status |-> "none", collectedSignatures |-> <<>>]]
    /\ executing = [t \in MultiSigTxs |-> 0]
    /\ offline = [r \in OfflineIds |-> [status |-> "none", publicKey |-> SomeKey,
                                        content |-> "empty", late |-> FALSE]]
    /\ signatures = [r \in OfflineIds |-> 0]
    /\ transfers = [x \in Transfers |-> [next |-> "send", landed |-> FALSE, row |-> FALSE]]

-----------------------------------------------------------------------------
(* Multi-signature accounts                                                 *)

multiSigVars == <<account, multiSig, executing>>
otherVars == <<offline, signatures, transfers>>

\* The threshold is checked against the length of the list.
CreateMultiSigAccount ==
    /\ account.listed = 0
    /\ \E signers \in SUBSET SignerKeys \ {{}}, listed \in 1 .. MaxSigners :
         \E threshold \in 1 .. listed :
            /\ Cardinality(signers) <= listed
            /\ account' = [signers |-> signers, listed |-> listed, threshold |-> threshold]
    /\ UNCHANGED <<multiSig, executing, otherVars>>

CreateMultiSigTransaction(t) ==
    /\ account.listed # 0 /\ multiSig[t].status = "none"
    /\ multiSig' = [multiSig EXCEPT ![t].status = "pending"]
    /\ UNCHANGED <<account, executing, otherVars>>

\* Mutant: a signer may sign again.
AlreadySignedNever(t, k) == FALSE

AlreadySigned(t, k) == k \in ToSet(multiSig[t].collectedSignatures)

\* The library refuses a key the transaction does not ask for, so a step may
\* also not happen; a signature it makes drops the earlier ones from the
\* transaction, though not from the list.
SignMultiSigTransaction(t, k) ==
    LET collected == Append(multiSig[t].collectedSignatures, k)
    IN  /\ multiSig[t].status = "pending"
        /\ k \in account.signers /\ ~AlreadySigned(t, k)
        /\ multiSig' = [multiSig EXCEPT ![t] =
             [status |-> IF Len(collected) >= account.threshold THEN "ready" ELSE @.status,
              collectedSignatures |-> collected]]
        /\ UNCHANGED <<account, executing, otherVars>>

FailMultiSig(t) == multiSig' = [multiSig EXCEPT ![t].status = "failed"]

\* One not ready is an error like any other, and the handler marks the
\* transaction failed, the one that still collects signatures too.
ExecuteMultiSigTransaction(t) ==
    /\ multiSig[t].status # "none"
    /\ IF multiSig[t].status = "ready"
       THEN executing' = [executing EXCEPT ![t] = @ + 1] /\ UNCHANGED multiSig
       ELSE FailMultiSig(t) /\ UNCHANGED executing
    /\ executing'[t] <= MaxExecuting
    /\ UNCHANGED <<account, otherVars>>

\* sendAndConfirmTransaction asks for a blockhash and signs anew: with the empty
\* list of signers it is handed it throws, so nothing is ever executed.
ExecutionFails(t) ==
    /\ executing[t] > 0 /\ executing' = [executing EXCEPT ![t] = @ - 1]
    /\ FailMultiSig(t)
    /\ UNCHANGED <<account, otherVars>>

-----------------------------------------------------------------------------
(* Offline requests                                                         *)

CreateRequest(r, k, content) ==
    /\ offline[r].status = "none"
    /\ offline' = [offline EXCEPT ![r] = [status |-> "pending", publicKey |-> k,
                                          content |-> content, late |-> FALSE]]
    /\ UNCHANGED <<multiSigVars, signatures, transfers>>

CreateOfflineSigningRequest(r, k) == CreateRequest(r, k, "transaction")

CreateOfflineMessageSigningRequest(r, k) ==
    CreateRequest(r, k, "message") \/ CreateRequest(r, k, "empty")

\* The time of a request runs out.
Expires(r) ==
    /\ offline[r].status # "none" /\ ~offline[r].late
    /\ offline' = [offline EXCEPT ![r].late = TRUE]
    /\ UNCHANGED <<multiSigVars, signatures, transfers>>

\* What is kept of a transaction is its message, parsed as if it were the whole:
\* that throws, unless its bytes happen to be one.  An empty message counts as a
\* transaction of no bytes.
Parses(content) == CASE content = "message" -> {TRUE}
                     [] content = "transaction" -> BOOLEAN
                     [] content = "empty" -> {FALSE}

SignOfflineRequest(r, k) ==
    /\ offline[r].status = "pending"
    /\ IF offline[r].late
       THEN offline' = [offline EXCEPT ![r].status = "expired"] /\ UNCHANGED signatures
       ELSE /\ k = offline[r].publicKey /\ TRUE \in Parses(offline[r].content)
            /\ offline' = [offline EXCEPT ![r].status = "signed"]
            /\ signatures' = [signatures EXCEPT ![r] = @ + 1]
    /\ UNCHANGED <<multiSigVars, transfers>>

CancelOfflineSigningRequest(r) ==
    /\ offline[r].status = "pending"
    /\ offline' = [offline EXCEPT ![r].status = "cancelled"]
    /\ UNCHANGED <<multiSigVars, signatures, transfers>>

-----------------------------------------------------------------------------
(* Signed and sent: createAndSignTransfer builds what SignAndSend sends     *)

\* Confirmed, or an error, which may come after the cluster confirmed.
SignAndSendTransaction(x) ==
    /\ transfers[x].next = "send"
    /\ \/ transfers' = [transfers EXCEPT ![x].next = "save", ![x].landed = TRUE]
       \/ \E landed \in BOOLEAN :
            transfers' = [transfers EXCEPT ![x].next = "failed", ![x].landed = landed]
    /\ UNCHANGED <<multiSigVars, offline, signatures>>

\* The row is saved, or the save rejected and an error answered.
RecordSent(x) ==
    /\ transfers[x].next = "save"
    /\ \/ transfers' = [transfers EXCEPT ![x].next = "answered", ![x].row = TRUE]
       \/ transfers' = [transfers EXCEPT ![x].next = "failed"]
    /\ UNCHANGED <<multiSigVars, offline, signatures>>

SigningNext ==
    \/ CreateMultiSigAccount
    \/ \E t \in MultiSigTxs :
         \/ CreateMultiSigTransaction(t) \/ ExecuteMultiSigTransaction(t) \/ ExecutionFails(t)
         \/ \E k \in SignerKeys : SignMultiSigTransaction(t, k)
    \/ \E r \in OfflineIds :
         \/ Expires(r) \/ CancelOfflineSigningRequest(r)
         \/ \E k \in SignerKeys : \/ CreateOfflineSigningRequest(r, k)
                                  \/ CreateOfflineMessageSigningRequest(r, k)
                                  \/ SignOfflineRequest(r, k)
    \/ \E x \in Transfers : SignAndSendTransaction(x) \/ RecordSent(x)

-----------------------------------------------------------------------------

\* A transaction is ready, and so executed, only with the signatures of as many
\* different signers of the account as its threshold asks for, and a list that
\* names too few different ones never gets there; an offline request is answered
\* by one signature at most, never once cancelled or expired; and what is
\* recorded or answered as sent has landed.
SignaturesCounted ==
    /\ \A t \in MultiSigTxs :
         LET signed == ToSet(multiSig[t].collectedSignatures)
         IN  /\ signed \subseteq account.signers
             /\ multiSig[t].status = "ready" \/ executing[t] > 0
                  => Cardinality(signed) >= account.threshold
    /\ \A r \in OfflineIds :
         signatures[r] = IF offline[r].status = "signed" THEN 1 ELSE 0
    /\ \A x \in Transfers : transfers[x].row => transfers[x].landed
=============================================================================
