------------------------------- MODULE Escrow -------------------------------
(***************************************************************************)
(* EscrowService (escrow.service.ts) on one escrow account, one step per   *)
(* awaited database call.  A request loads the entity into memory, computes *)
(* on that copy and writes the whole copy back; the service opens no       *)
(* transaction and takes no lock, so the row it overwrites may have been    *)
(* changed by another request since it was loaded.                          *)
(*                                                                          *)
(*   escrow      the row of esports_escrow_accounts                         *)
(*   deposits    the DEPOSIT rows of esports_escrow_transactions, the only  *)
(*               rows of that log the service reads back                    *)
(*   refundedTo  per wallet, the sum of its REFUND rows                     *)
(*   logged      per type, the sum of the rows of the log                   *)
(*   pc, held, job   per request: the call it awaits next, the entity it    *)
(*               holds in memory, and its local variables                   *)
(*   faults      database errors and process crashes so far                 *)
(*                                                                          *)
(* The log rows of a release are written one await at a time; their amounts *)
(* are chosen as they are written, so every list of distributions with the  *)
(* checked total is covered.                                                *)
(***************************************************************************)
EXTENDS EscrowEntity, FiniteSets, Sums

CONSTANTS Requests,      \* concurrent callers of the service
          Wallets,       \* participants
          Amounts,       \* entry fees that may be deposited
          RefundScopes,  \* sets of wallets a refund may be asked for
          MaxDeposits,   \* bound on the DEPOSIT rows
          MaxFaults      \* bound on the faults

ASSUME EscrowAssumption ==
    /\ Amounts \subseteq Nat \ {0}
    /\ RefundScopes \subseteq SUBSET Wallets
    /\ Wallets # {}
    /\ MaxDeposits \in Nat
    /\ MaxFaults \in Nat

VARIABLES escrow, deposits, refundedTo, logged, pc, held, job, faults

table == <<escrow, deposits, refundedTo, logged>>
vars == <<escrow, deposits, refundedTo, logged, pc, held, job, faults>>

DepositRow == [id : Nat, wallet : Wallets, amount : Nat]

Logged == [deposit : Nat, release : Nat, refund : Nat, fee : Nat]

PC == {"idle", "depositRow", "depositSave", "lockSave",
       "releasingSave", "feeRow", "releaseRow", "releaseSave",
       "findDeposits", "refundingSave", "refundRow", "refundSave",
       "compensate", "closeSave"}

\* scope: the depositor, or the wallets to refund; amount: deposited, to
\* distribute, or refunded so far; left: still to distribute; todo: DEPOSIT
\* rows still to refund.
Job == [scope : SUBSET Wallets, amount : Nat, fee : Nat, left : Nat,
        todo : SUBSET DepositRow]

SumAmounts(rows) == Total([d \in rows |-> d.amount])

NoJob == [scope |-> {}, amount |-> 0, fee |-> 0, left |-> 0, todo |-> {}]

TypeOK ==
    /\ escrow \in EscrowRow
    /\ deposits \subseteq DepositRow
    /\ refundedTo \in [Wallets -> Nat]
    /\ logged \in Logged
    /\ pc \in [Requests -> PC]
    /\ held \in [Requests -> EscrowRow]
    /\ job \in [Requests -> Job]
    /\ faults \in 0..MaxFaults

\* createEscrow has run: its callers pass a source id generated for the call,
\* so no second createEscrow competes for the source.
Init ==
    /\ escrow = NewEscrow
    /\ deposits = {}
    /\ refundedTo = [w \in Wallets |-> 0]
    /\ logged = [deposit |-> 0, release |-> 0, refund |-> 0, fee |-> 0]
    /\ pc = [r \in Requests |-> "idle"]
    /\ held = [r \in Requests |-> NewEscrow]
    /\ job = [r \in Requests |-> NoJob]
    /\ faults = 0

-----------------------------------------------------------------------------
(* Steps shared by the operations.                                          *)

\* getEscrowById resolved and the guard passed: continue with entity e.
Start(r, next, e, j) ==
    /\ pc[r] = "idle"
    /\ pc' = [pc EXCEPT ![r] = next]
    /\ held' = [held EXCEPT ![r] = e]
    /\ job' = [job EXCEPT ![r] = j]
    /\ UNCHANGED <<table, faults>>

\* The request settles, successfully or not, and its memory is dropped.
Return(r) ==
    /\ pc' = [pc EXCEPT ![r] = "idle"]
    /\ held' = [held EXCEPT ![r] = NewEscrow]
    /\ job' = [job EXCEPT ![r] = NoJob]

\* escrowRepository.save(entity) as the last call of the request.
SaveAndReturn(r, e) ==
    /\ escrow' = e
    /\ Return(r)
    /\ UNCHANGED <<deposits, refundedTo, logged, faults>>

-----------------------------------------------------------------------------
(* depositToEscrow                                                          *)

DepositLoad(r) ==
    /\ canDeposit(escrow)
    /\ Cardinality(deposits)
         + Cardinality({q \in Requests : pc[q] = "depositRow"}) < MaxDeposits
    /\ \E w \in Wallets, a \in Amounts :
         Start(r, "depositRow", escrow,
               [NoJob EXCEPT !.scope = {w}, !.amount = a])

SaveDepositRow(r) ==
    /\ pc[r] = "depositRow"
    /\ \E w \in job[r].scope :
         deposits' = deposits \cup {[id |-> Cardinality(deposits) + 1,
                                     wallet |-> w, amount |-> job[r].amount]}
    /\ logged' = [logged EXCEPT !.deposit = @ + job[r].amount]
    /\ held' = [held EXCEPT ![r] = AfterDeposit(@, job[r].amount)]
    /\ pc' = [pc EXCEPT ![r] = "depositSave"]
    /\ UNCHANGED <<escrow, refundedTo, job, faults>>

DepositSave(r) ==
    /\ pc[r] = "depositSave"
    /\ SaveAndReturn(r, held[r])

-----------------------------------------------------------------------------
(* lockEscrow and closeEscrow                                               *)

LockLoad(r) ==
    /\ escrow.status = "active"
    /\ Start(r, "lockSave", WithStatus(escrow, "locked"), NoJob)

LockSave(r) ==
    /\ pc[r] = "lockSave"
    /\ SaveAndReturn(r, held[r])

\* Mutant: an escrow is closed whatever is left in it.
CloseLoadUnguarded(r) ==
    Start(r, "closeSave", WithStatus(escrow, "closed"), NoJob)

\* The only guard of closeEscrow is on the balance.
CloseLoad(r) ==
    /\ ~(escrow.balance > 0)
    /\ Start(r, "closeSave", WithStatus(escrow, "closed"), NoJob)

CloseSave(r) ==
    /\ pc[r] = "closeSave"
    /\ SaveAndReturn(r, held[r])

-----------------------------------------------------------------------------
(* releaseEscrow                                                            *)

\* Mutant: the distributions are checked against the balance before the fee.
ReleaseLoadBeforeFee(r) ==
    /\ canRelease(escrow)
    /\ \E total \in 0 .. escrow.balance :
         Start(r, "releasingSave", WithStatus(escrow, "releasing"),
               [NoJob EXCEPT !.amount = total, !.left = total,
                             !.fee = PlatformFee(escrow)])

ReleaseLoad(r) ==
    /\ canRelease(escrow)
    /\ \E total \in 0 .. (escrow.balance - PlatformFee(escrow)) :
         Start(r, "releasingSave", WithStatus(escrow, "releasing"),
               [NoJob EXCEPT !.amount = total, !.left = total,
                             !.fee = PlatformFee(escrow)])

\* The await after which the try block writes `left` more to the log.
NextReleaseCall(left) == IF left > 0 THEN "releaseRow" ELSE "releaseSave"

ReleasingSave(r) ==
    /\ pc[r] = "releasingSave"
    /\ escrow' = held[r]
    /\ pc' = [pc EXCEPT ![r] = IF job[r].fee > 0 THEN "feeRow"
                               ELSE NextReleaseCall(job[r].left)]
    /\ UNCHANGED <<deposits, refundedTo, logged, held, job, faults>>

\* Mutant: the fee row is built and never saved.
SaveFeeRowUnsaved(r) ==
    /\ pc[r] = "feeRow"
    /\ pc' = [pc EXCEPT ![r] = NextReleaseCall(job[r].left)]
    /\ UNCHANGED <<escrow, deposits, refundedTo, logged, held, job, faults>>

SaveFeeRow(r) ==
    /\ pc[r] = "feeRow"
    /\ logged' = [logged EXCEPT !.fee = @ + job[r].fee]
    /\ pc' = [pc EXCEPT ![r] = NextReleaseCall(job[r].left)]
    /\ UNCHANGED <<escrow, deposits, refundedTo, held, job, faults>>

\* Mutant: the loop may run past the checked total.
SaveReleaseRowOverrun(r) ==
    /\ pc[r] = "releaseRow"
    /\ \E a \in 1 .. (job[r].left + 1) :
         /\ logged' = [logged EXCEPT !.release = @ + a]
         /\ job' = [job EXCEPT ![r].left = @ - a]
         /\ pc' = [pc EXCEPT ![r] = NextReleaseCall(job[r].left - a)]
    /\ UNCHANGED <<escrow, deposits, refundedTo, held, faults>>

SaveReleaseRow(r) ==
    /\ pc[r] = "releaseRow"
    /\ \E a \in 1 .. job[r].left :
         /\ logged' = [logged EXCEPT !.release = @ + a]
         /\ job' = [job EXCEPT ![r].left = @ - a]
         /\ pc' = [pc EXCEPT ![r] = NextReleaseCall(job[r].left - a)]
    /\ UNCHANGED <<escrow, deposits, refundedTo, held, faults>>

ReleaseSave(r) ==
    /\ pc[r] = "releaseSave"
    /\ SaveAndReturn(r, AfterRelease(held[r], job[r].amount, job[r].fee))

-----------------------------------------------------------------------------
(* refundEscrow                                                             *)

RefundLoad(r) ==
    /\ canRefund(escrow)
    /\ \E scope \in RefundScopes :
         Start(r, "findDeposits", escrow, [NoJob EXCEPT !.scope = scope])

\* The DEPOSIT rows are read after the entity; none is an error.
FindDeposits(r) ==
    LET found == {d \in deposits : d.wallet \in job[r].scope}
    IN  /\ pc[r] = "findDeposits"
        /\ \/ /\ found # {}
              /\ pc' = [pc EXCEPT ![r] = "refundingSave"]
              /\ held' = [held EXCEPT ![r] = WithStatus(@, "refunding")]
              /\ job' = [job EXCEPT ![r].todo = found]
           \/ /\ found = {}
              /\ Return(r)
        /\ UNCHANGED <<table, faults>>

RefundingSave(r) ==
    /\ pc[r] = "refundingSave"
    /\ escrow' = held[r]
    /\ pc' = [pc EXCEPT ![r] = "refundRow"]
    /\ UNCHANGED <<deposits, refundedTo, logged, held, job, faults>>

SaveRefundRow(r) ==
    /\ pc[r] = "refundRow"
    /\ \E d \in job[r].todo :
         /\ logged' = [logged EXCEPT !.refund = @ + d.amount]
         /\ refundedTo' = [refundedTo EXCEPT ![d.wallet] = @ + d.amount]
         /\ job' = [job EXCEPT ![r].todo = @ \ {d},
                               ![r].amount = @ + d.amount]
         /\ pc' = [pc EXCEPT ![r] = IF job[r].todo = {d} THEN "refundSave"
                                    ELSE "refundRow"]
    /\ UNCHANGED <<escrow, deposits, held, faults>>

RefundSave(r) ==
    /\ pc[r] = "refundSave"
    /\ SaveAndReturn(r, AfterRefund(held[r], job[r].amount))

-----------------------------------------------------------------------------
(* Faults                                                                   *)

\* A call outside the try blocks rejects: the request throws.
Throw(r) ==
    /\ faults < MaxFaults
    /\ pc[r] \in PC \ {"idle", "feeRow", "releaseRow", "releaseSave",
                       "refundRow", "refundSave"}
    /\ faults' = faults + 1
    /\ Return(r)
    /\ UNCHANGED table

\* A call inside a try block rejects.  The handler puts the previous status
\* on the entity it holds, whose totals are already updated when the call
\* that failed was the last one, and saves it.
Catch(r, e) ==
    /\ faults < MaxFaults
    /\ faults' = faults + 1
    /\ held' = [held EXCEPT ![r] = e]
    /\ pc' = [pc EXCEPT ![r] = "compensate"]
    /\ UNCHANGED <<table, job>>

CatchRelease(r) ==
    \/ /\ pc[r] \in {"feeRow", "releaseRow"}
       /\ Catch(r, WithStatus(held[r], "locked"))
    \/ /\ pc[r] = "releaseSave"
       /\ Catch(r, WithStatus(AfterRelease(held[r], job[r].amount,
                                           job[r].fee), "locked"))

CatchRefund(r) ==
    \/ /\ pc[r] = "refundRow"
       /\ Catch(r, WithStatus(held[r], "active"))
    \/ /\ pc[r] = "refundSave"
       /\ Catch(r, WithStatus(AfterRefund(held[r], job[r].amount), "active"))

Compensate(r) ==
    /\ pc[r] = "compensate"
    /\ SaveAndReturn(r, held[r])

\* The process stops: every request in flight is lost, the tables stay.
Crash ==
    /\ faults < MaxFaults
    /\ \E r \in Requests : pc[r] # "idle"
    /\ faults' = faults + 1
    /\ pc' = [r \in Requests |-> "idle"]
    /\ held' = [r \in Requests |-> NewEscrow]
    /\ job' = [r \in Requests |-> NoJob]
    /\ UNCHANGED table

-----------------------------------------------------------------------------

Step(r) ==
    \/ DepositLoad(r) \/ SaveDepositRow(r) \/ DepositSave(r)
    \/ LockLoad(r) \/ LockSave(r) \/ CloseLoad(r) \/ CloseSave(r)
    \/ ReleaseLoad(r) \/ ReleasingSave(r) \/ SaveFeeRow(r)
    \/ SaveReleaseRow(r) \/ ReleaseSave(r)
    \/ RefundLoad(r) \/ FindDeposits(r) \/ RefundingSave(r)
    \/ SaveRefundRow(r) \/ RefundSave(r)
    \/ Throw(r) \/ CatchRelease(r) \/ CatchRefund(r) \/ Compensate(r)

Next == Crash \/ \E r \in Requests : Step(r)

Spec == Init /\ [][Next]_vars

\* What a request that was started does next when no call is rejected.
Proceed(r) ==
    \/ SaveDepositRow(r) \/ DepositSave(r) \/ LockSave(r) \/ CloseSave(r)
    \/ ReleasingSave(r) \/ SaveFeeRow(r) \/ SaveReleaseRow(r) \/ ReleaseSave(r)
    \/ FindDeposits(r) \/ RefundingSave(r) \/ SaveRefundRow(r) \/ RefundSave(r)
    \/ Compensate(r)

\* An awaited call settles, and the event loop resumes the request.
Fairness == \A r \in Requests : WF_vars(Proceed(r))

FairSpec == Spec /\ Fairness

-----------------------------------------------------------------------------
(* Properties                                                               *)

\* No request is between two of its calls.
Quiescent == \A r \in Requests : pc[r] = "idle"

\* The documented balance formula holds of the row and of every copy of it in
\* memory, whatever the interleaving and the faults: an operation that changes
\* one total and forgets the balance breaks it several calls later.
BalanceIdentity == Balanced(escrow) /\ \A r \in Requests : Balanced(held[r])

\* The log is written ahead of the row: a total of the row never exceeds the
\* sum of the log rows of its type, with any number of concurrent requests,
\* rejected calls and crashes.
AuditCoversRow ==
    /\ escrow.deposited <= logged.deposit
    /\ escrow.released <= logged.release
    /\ escrow.refunded <= logged.refund
    /\ escrow.fee <= logged.fee

\* Between requests the totals of the row are the sums of the log.  Callers
\* that wait for one another get this; concurrent ones lose updates.
RowMatchesLog ==
    Quiescent =>
        /\ escrow.deposited = logged.deposit
        /\ escrow.released = logged.release
        /\ escrow.refunded = logged.refund
        /\ escrow.fee = logged.fee

\* The log never pays out more than was paid in: no second release of the same
\* pot, no refund of a pot that was released.
PaidOutOfDeposits ==
    logged.release + logged.refund + logged.fee <= logged.deposit

DepositedBy(w) == SumAmounts({d \in deposits : d.wallet = w})

\* "Atomic prize distribution to winners": between requests there are RELEASE
\* or PLATFORM_FEE rows only if the release went through; "REFUNDED: all funds
\* returned": each wallet got back what it paid in.
SettlementComplete ==
    /\ Quiescent /\ logged.release + logged.fee > 0
         => escrow.status \in {"released", "closed"}
    /\ escrow.status = "refunded"
         => \A w \in Wallets : refundedTo[w] = DepositedBy(w)

\* A locked escrow never goes back to accepting deposits by itself: it leaves
\* LOCKED for RELEASING or REFUNDING, or for CLOSED with nothing left in it.
LockedUntilSettled ==
    [][escrow.status = "locked" =>
          \/ escrow'.status \in {"locked", "releasing", "refunding"}
          \/ escrow'.status = "closed" /\ escrow.balance <= 0]_vars

\* "RELEASING: prize distribution in progress", "REFUNDING: refund in progress":
\* a settlement that was announced ends.  No operation accepts an escrow that
\* is left in one of these statuses.
SettlementEnds ==
    escrow.status \in {"releasing", "refunding"}
        ~> escrow.status \notin {"releasing", "refunding"}

\* Run one request at a time and without faults, the service is the atomic
\* account: each write applies one operation to the row as it is.
Account == INSTANCE EscrowAccount WITH account <- escrow

ImplementsAccount == Account!Spec
=============================================================================
