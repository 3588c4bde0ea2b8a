----------------------------- MODULE Transactions -----------------------------
(***************************************************************************)
(* TransactionsService (transactions.service.ts): transactions sent to the  *)
(* chain, the rows that record them and the events that announce both.  One *)
(* step per awaited call.                                                   *)
(*                                                                          *)
(*   chain       per signature, what the cluster made of the transaction    *)
(*   rows        the table: the row of a signature, and of a failed attempt *)
(*   given       per row, whether a client chose its status: never, the     *)
(*               last status written ("now"), or an earlier one ("once")    *)
(*   job         per caller: the call it awaits next and what it remembers  *)
(*   announced   the events published, [signature, type]                    *)
(*   sendFaults  rejected calls so far                                      *)
(*   entwined    a call began while another was in progress                 *)
(*                                                                          *)
(* The chain is external: a transaction is unknown, processed, perhaps      *)
(* rejected (processed with an error, which another fork may still revise), *)
(* then confirmed or failed for good.  The failed attempt of signature s    *)
(* has its own made-up signature ('failed-' and the clock): attempts.       *)
(***************************************************************************)
EXTENDS Integers, Sequences, SequencesExt, FiniteSets

CONSTANTS Callers,       \* the requests
          Signatures,    \* the transactions sent
          Foreign,       \* transactions of the same address sent elsewhere
          MaxSendFaults, \* bound on the faults
          MaxUpdates     \* bound on the events, through status updates

VARIABLES chain, rows, given, attempts, job, announced, sendFaults, entwined

sendVars == <<chain, rows, given, attempts, job, announced, sendFaults, entwined>>

All == Signatures \cup Foreign

ASSUME TransactionsAssumption ==
    All # {} /\ Signatures \cap Foreign = {} /\ MaxSendFaults \in Nat

TransactionStatus_ == {"pending", "confirmed", "failed"}

NoTransaction == [status |-> "none"]

\* A row of the table transactions; its other columns, the type too, are data.
TransactionRow == [status : TransactionStatus_]

EventTypes == {"created", "status_updated", "confirmed", "failed"}

NoJob == [next |-> "idle", signature |-> CHOOSE s \in All : TRUE,
          status |-> "pending", previous |-> "pending",
          sending |-> FALSE, client |-> FALSE]

Calls == {"idle", "accounts", "build", "send", "await", "create", "created",
          "confirmed", "saveFailed", "failedCreated", "failedEvent",
          "load", "getStatus", "updateLoad", "updateWrite", "reload", "updated", "outcome"}

\* What getSignatureStatus tells: no error and confirmed, an error, neither.
Landed == {"confirmed", "revised"}

Erred == {"rejected", "failed"}

Outcomes == {"unknown", "processed"} \cup Landed \cup Erred

TransactionsTypeOK ==
    /\ chain \in [All -> Outcomes] /\ given \in [All -> {"never", "now", "once"}]
    /\ rows \in [All -> TransactionRow \cup {NoTransaction}]
    /\ attempts \in [All -> TransactionRow \cup {NoTransaction}]
    /\ \A c \in Callers : job[c].next \in Calls /\ job[c].status \in TransactionStatus_
    /\ \A i \in DOMAIN announced : announced[i].type \in EventTypes
    /\ sendFaults \in 0 .. MaxSendFaults /\ entwined \in BOOLEAN

TransactionsInit ==
    /\ chain = [s \in All |-> "unknown"]
    /\ rows = [s \in All |-> NoTransaction] /\ given = [s \in All |-> "never"]
    /\ attempts = [s \in All |-> NoTransaction]
    /\ job = [c \in Callers |-> NoJob]
    /\ announced = <<>>
    /\ sendFaults = 0 /\ entwined = FALSE

-----------------------------------------------------------------------------
(* Steps shared by the operations.                                          *)

Idle_(c) == job[c].next = "idle"

Begin(c, s, next) ==
    /\ Idle_(c)
    /\ job' = [job EXCEPT ![c] = [NoJob EXCEPT !.signature = s, !.next = next]]
    /\ entwined' = (entwined \/ \E d \in Callers : ~Idle_(d))

Proceed(c, next) == job' = [job EXCEPT ![c] = IF next = "idle" THEN NoJob
                                              ELSE [@ EXCEPT !.next = next]]

\* A rejected call: a sender records the failure, the others pass it on.
Caught(c) == Proceed(c, IF job[c].sending THEN "saveFailed" ELSE "idle")

Fault == sendFaults < MaxSendFaults /\ sendFaults' = sendFaults + 1

\* publishEvent buffers the event; a full buffer is flushed, which may reject.
Publish(c, step, type, next) ==
    /\ job[c].next = step
    /\ announced' = Append(announced, [signature |-> job[c].signature, type |-> type])
    /\ \/ Proceed(c, next) /\ UNCHANGED sendFaults
       \/ Caught(c) /\ Fault
    /\ UNCHANGED <<chain, rows, given, attempts, entwined>>

-----------------------------------------------------------------------------
(* Sending: five methods with one course.                                   *)

\* A new transaction; input that does not parse is recorded as a failure.
Send(c, first) ==
    /\ \E s \in Signatures :
         /\ chain[s] = "unknown" /\ attempts[s] = NoTransaction
         /\ \A d \in Callers : ~Idle_(d) => job[d].signature # s
         /\ \E next \in {first, "saveFailed"} :
              /\ Idle_(c)
              /\ job' = [job EXCEPT ![c] = [NoJob EXCEPT !.signature = s,
                           !.next = next, !.sending = TRUE, !.status = "confirmed"]]
    /\ entwined' = (entwined \/ \E d \in Callers : ~Idle_(d))
    /\ UNCHANGED <<chain, rows, given, attempts, announced, sendFaults>>

SendTransfer(c) == Send(c, "send")

SendTokenTransfer(c) == Send(c, "accounts")

CreateMultiInstructionTransaction(c) == Send(c, "send")

CreateBatchedTransaction(c) == Send(c, "build")

SendProgramInvocation(c) == Send(c, "send")

\* getOrCreateAssociatedTokenAccount of both sides.
TokenAccounts(c) ==
    /\ job[c].next = "accounts"
    /\ \/ Proceed(c, "send") /\ UNCHANGED sendFaults
       \/ Caught(c) /\ Fault
    /\ UNCHANGED <<chain, rows, given, attempts, announced, entwined>>

\* An operation to mint is not implemented, an unknown one not supported.
BuildBatch(c) ==
    /\ job[c].next = "build"
    /\ Proceed(c, "send") \/ Caught(c)
    /\ UNCHANGED <<chain, rows, given, attempts, announced, entwined, sendFaults>>

\* sendAndConfirmTransaction, first half: refused by the simulation, or sent.
SendRaw(c) ==
    /\ job[c].next = "send"
    /\ \/ Caught(c) /\ UNCHANGED chain
       \/ Proceed(c, "await") /\ chain' = [chain EXCEPT ![job[c].signature] = "processed"]
    /\ UNCHANGED <<rows, given, attempts, announced, entwined, sendFaults>>

\* Second half: the outcome, or a timeout, which is a fault.
AwaitConfirmation(c) ==
    /\ job[c].next = "await"
    /\ \/ chain[job[c].signature] \in Landed /\ Proceed(c, "create")
          /\ UNCHANGED sendFaults
       \/ chain[job[c].signature] = "failed" /\ Caught(c) /\ UNCHANGED sendFaults
       \/ Caught(c) /\ Fault
    /\ UNCHANGED <<chain, rows, given, attempts, announced, entwined>>

\* Whose status the row of s bears after a write of c.
GivenBy(c, s) == IF job[c].client THEN "now"
                 ELSE IF given[s] = "never" THEN "never" ELSE "once"

\* create: the signature is unique; a client that names the row's id replaces it.
CreateRow(c) ==
    LET s == job[c].signature
    IN  /\ job[c].next = "create"
        /\ \/ /\ rows[s] = NoTransaction \/ job[c].client
              /\ rows' = [rows EXCEPT ![s] = [status |-> job[c].status]]
              /\ given' = [given EXCEPT ![s] = GivenBy(c, s)]
              /\ Proceed(c, "created") /\ UNCHANGED sendFaults
           \/ /\ rows[s] # NoTransaction /\ Caught(c)
              /\ UNCHANGED <<rows, given, sendFaults>>
           \/ Caught(c) /\ Fault /\ UNCHANGED <<rows, given>>
        /\ UNCHANGED <<chain, attempts, announced, entwined>>

PublishCreated(c) ==
    Publish(c, "created", "created", IF job[c].sending THEN "confirmed" ELSE "idle")

PublishConfirmed(c) == Publish(c, "confirmed", "confirmed", "idle")

\* The catch block: the record of a failed attempt and its two events.
SaveFailed(c) ==
    /\ job[c].next = "saveFailed"
    /\ \/ /\ attempts' = [attempts EXCEPT ![job[c].signature] = [status |-> "failed"]]
          /\ job' = [job EXCEPT ![c].next = "failedCreated", ![c].sending = FALSE]
          /\ UNCHANGED sendFaults
       \/ Proceed(c, "idle") /\ Fault /\ UNCHANGED attempts
    /\ UNCHANGED <<chain, rows, given, announced, entwined>>

PublishFailedCreated(c) == Publish(c, "failedCreated", "created", "failedEvent")

PublishFailed(c) == Publish(c, "failedEvent", "failed", "idle")

-----------------------------------------------------------------------------
(* Rows made by clients, status updates, history, removal                   *)

\* A request of a client that chooses the status; nothing checks it.
ClientBegins(c, s, next) ==
    /\ Idle_(c)
    /\ \E status \in TransactionStatus_ :
         job' = [job EXCEPT ![c] = [NoJob EXCEPT !.signature = s, !.status = status,
                                                 !.next = next, !.client = TRUE]]
    /\ entwined' = (entwined \/ \E d \in Callers : ~Idle_(d))
    /\ UNCHANGED <<chain, rows, given, attempts, announced, sendFaults>>

\* create of a transaction that is tracked, not sent; the signature of one sent
\* here is known once it was sent.
Create(c) == \E s \in All : /\ s \in Foreign \/ chain[s] # "unknown"
                            /\ ClientBegins(c, s, "create")

\* update by a client (PUT).
Update(c) == \E s \in All : rows[s] # NoTransaction /\ ClientBegins(c, s, "updateLoad")

UpdateTransactionStatus(c) ==
    \E s \in All :
        /\ Begin(c, s, "load")
        /\ UNCHANGED <<chain, rows, given, attempts, announced, sendFaults>>

\* Mutant: a processed transaction counts as confirmed.
newStatusEager(s) == IF chain[s] \in Erred THEN "failed" ELSE "confirmed"

newStatus(s) == IF chain[s] \in Erred THEN "failed"
                ELSE IF chain[s] \in Landed THEN "confirmed" ELSE "pending"

\* getTransactionHistory on one transaction of the address: a row that is
\* missing is created, one that exists is updated.
GetTransactionHistory(c) ==
    /\ Idle_(c)
    /\ \E s \in All :
         /\ chain[s] \in Landed \cup {"failed"}
         /\ job' = [job EXCEPT ![c] = [NoJob EXCEPT !.signature = s,
              !.status = newStatus(s),
              !.next = IF rows[s] = NoTransaction THEN "create" ELSE "load"]]
    /\ entwined' = (entwined \/ \E d \in Callers : ~Idle_(d))
    /\ UNCHANGED <<chain, rows, given, attempts, announced, sendFaults>>

\* findBySignature: the status the answer of the cluster is compared with.
LoadRow(c) ==
    LET row == rows[job[c].signature]
    IN  /\ job[c].next = "load"
        /\ IF row = NoTransaction THEN Proceed(c, "idle")
           ELSE job' = [job EXCEPT ![c].next = "getStatus", ![c].previous = row.status]
        /\ UNCHANGED <<chain, rows, given, attempts, announced, entwined, sendFaults>>

\* getSignatureStatus: nothing is done for an unknown or unchanged one.
GetSignatureStatus(c) ==
    LET s == job[c].signature
    IN  /\ job[c].next = "getStatus"
        /\ IF chain[s] = "unknown" \/ newStatus(s) = job[c].previous
           THEN Proceed(c, "idle")
           ELSE job' = [job EXCEPT ![c].next = "updateLoad", ![c].status = newStatus(s)]
        /\ UNCHANGED <<chain, rows, given, attempts, announced, entwined, sendFaults>>

\* update: the status before, the write, the row again, the events.
UpdateLoad(c) ==
    LET row == rows[job[c].signature]
    IN  /\ job[c].next = "updateLoad"
        /\ IF row = NoTransaction THEN Proceed(c, "idle")
           ELSE job' = [job EXCEPT ![c].next = "updateWrite", ![c].previous = row.status]
        /\ UNCHANGED <<chain, rows, given, attempts, announced, entwined, sendFaults>>

UpdateWrite(c) ==
    LET s == job[c].signature
    IN  /\ job[c].next = "updateWrite"
        /\ IF rows[s] = NoTransaction THEN UNCHANGED <<rows, given>>
           ELSE /\ rows' = [rows EXCEPT ![s].status = job[c].status]
                /\ given' = [given EXCEPT ![s] = GivenBy(c, s)]
        /\ Proceed(c, "reload")
        /\ UNCHANGED <<chain, attempts, announced, entwined, sendFaults>>

\* A client's update ends with its event, the service's goes on to the outcome.
AfterUpdate(c) == IF job[c].client THEN "idle" ELSE "outcome"

Reload(c) ==
    /\ job[c].next = "reload"
    /\ Proceed(c, IF rows[job[c].signature] = NoTransaction THEN "idle"
                  ELSE IF job[c].status # job[c].previous THEN "updated"
                  ELSE AfterUpdate(c))
    /\ UNCHANGED <<chain, rows, given, attempts, announced, entwined, sendFaults>>

PublishUpdated(c) == Publish(c, "updated", "status_updated", AfterUpdate(c))

PublishOutcome(c) ==
    \/ job[c].status # "pending" /\ Publish(c, "outcome", job[c].status, "idle")
    \/ /\ job[c].next = "outcome" /\ job[c].status = "pending"
       /\ Proceed(c, "idle")
       /\ UNCHANGED <<chain, rows, given, attempts, announced, entwined, sendFaults>>

\* remove: one statement.
RemoveRow(c) ==
    /\ Idle_(c)
    /\ \E s \in All : /\ rows[s] # NoTransaction
                      /\ rows' = [rows EXCEPT ![s] = NoTransaction]
    /\ entwined' = (entwined \/ \E d \in Callers : ~Idle_(d))
    /\ UNCHANGED <<chain, given, attempts, job, announced, sendFaults>>

-----------------------------------------------------------------------------

\* The cluster: transactions of others arrive, and each gets its outcome.
Cluster ==
    /\ \E s \in All :
         \/ s \in Foreign /\ chain[s] = "unknown"
            /\ chain' = [chain EXCEPT ![s] = "processed"]
         \/ chain[s] = "processed"
            /\ \E outcome \in {"confirmed", "failed", "rejected"} :
                 chain' = [chain EXCEPT ![s] = outcome]
         \/ chain[s] = "rejected"
            /\ \E outcome \in {"revised", "failed"} :
                 chain' = [chain EXCEPT ![s] = outcome]
    /\ UNCHANGED <<rows, given, attempts, job, announced, sendFaults, entwined>>

TransactionsStep ==
    \/ Cluster
    \/ \E c \in Callers :
         \/ SendTransfer(c) \/ SendTokenTransfer(c) \/ SendProgramInvocation(c)
         \/ CreateMultiInstructionTransaction(c) \/ CreateBatchedTransaction(c)
         \/ TokenAccounts(c) \/ BuildBatch(c) \/ SendRaw(c) \/ AwaitConfirmation(c)
         \/ CreateRow(c) \/ PublishCreated(c) \/ PublishConfirmed(c)
         \/ SaveFailed(c) \/ PublishFailedCreated(c) \/ PublishFailed(c)
         \/ Create(c) \/ Update(c)
         \/ UpdateTransactionStatus(c) \/ GetTransactionHistory(c) \/ LoadRow(c)
         \/ GetSignatureStatus(c) \/ UpdateLoad(c) \/ UpdateWrite(c) \/ Reload(c)
         \/ PublishUpdated(c) \/ PublishOutcome(c) \/ RemoveRow(c)

\* Bounds: on the events; and calls overlap or fail, not both in one behaviour.
TransactionsNext ==
    /\ TransactionsStep
    /\ Len(announced') <= MaxUpdates
    /\ entwined' => sendFaults' = 0

-----------------------------------------------------------------------------
(* Properties                                                               *)

Announcements(s, type) ==
    Cardinality({i \in DOMAIN announced : announced[i] = [signature |-> s, type |-> type]})

\* Status st can be told of a transaction the cluster speaks of as ch: confirmed
\* where it confirmed it, failed where it has reported an error of it.
Says(st, ch) == /\ st = "confirmed" => ch \in Landed
                /\ st = "failed" => ch \in Erred \cup {"revised"}

\* Whatever sends, updates, imports, removals and writes of clients overlap and
\* fail, a row whose status no client chose says confirmed only of a transaction
\* the cluster confirmed, and failed only of one it reported an error of; only
\* what it confirmed is announced as confirmed.  One request at a time and without
\* faults, FAILED is recorded of no transfer that landed, and no transfer is
\* announced as confirmed twice unless a client touched its row.
RecordsMatchChain ==
    /\ \A s \in All : /\ given[s] # "now" => Says(rows[s].status, chain[s])
                      /\ Announcements(s, "confirmed") > 0 => chain[s] \in Landed
    /\ sendFaults = 0 /\ ~entwined =>
         \A s \in Signatures :
            /\ attempts[s] # NoTransaction => chain[s] \in {"unknown", "failed"}
            /\ given[s] = "never" => Announcements(s, "confirmed") <= 1
=============================================================================
