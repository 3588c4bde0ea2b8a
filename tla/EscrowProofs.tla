---------------------------- MODULE EscrowProofs ----------------------------
(***************************************************************************)
(* Proofs about EscrowService (Escrow.tla) for every set of requests and    *)
(* wallets, every amount, fee and bound.                                    *)
(***************************************************************************)
EXTENDS Escrow, LedgerProofs

-----------------------------------------------------------------------------
(* The entity                                                               *)

LEMMA NoJobType == NoJob \in Job
BY DEF NoJob, Job

\* The jobs the operations start with and the updates they make to them.
LEMMA JobTypes ==
    ASSUME NEW j \in Job, NEW a \in Nat, NEW f \in Nat,
           NEW scope \in SUBSET Wallets, NEW rows \in SUBSET DepositRow
    PROVE  /\ [j EXCEPT !.scope = scope] \in Job
           /\ [j EXCEPT !.scope = scope, !.amount = a] \in Job
           /\ [j EXCEPT !.amount = a, !.left = a, !.fee = f] \in Job
           /\ a <= j.left => [j EXCEPT !.left = @ - a] \in Job
           /\ [j EXCEPT !.todo = rows] \in Job
           /\ \A d \in rows : [j EXCEPT !.todo = @ \ {d}, !.amount = @ + a] \in Job
<1>1. j.amount + a \in Nat /\ (a <= j.left => j.left - a \in Nat)
  BY DEF Job
<1>2. \A d : j.todo \ {d} \in SUBSET DepositRow
  BY DEF Job
<1> QED
  BY <1>1, <1>2 DEF Job

-----------------------------------------------------------------------------
(* Types                                                                    *)

\* TypeOK with what it needs to be inductive: deposit rows are numbered by
\* their count.
TypeInv == TypeOK /\ IsFiniteSet(deposits)

LEMMA TypeInit == Init => TypeInv
BY EscrowAssumption, NewEscrowType, NoJobType, FS_EmptySet
   DEF Init, TypeInv, TypeOK, Logged, PC

\* The three ways a request keeps its memory typed.
LEMMA StartType ==
    ASSUME NEW r \in Requests, NEW next \in PC, NEW e \in EscrowRow,
           NEW j \in Job, TypeInv, Start(r, next, e, j)
    PROVE  TypeInv'
BY DEF TypeInv, TypeOK, Start, table

LEMMA ReturnType ==
    ASSUME NEW r \in Requests, TypeInv, Return(r)
    PROVE  /\ pc' \in [Requests -> PC]
           /\ held' \in [Requests -> EscrowRow]
           /\ job' \in [Requests -> Job]
BY NewEscrowType, NoJobType DEF TypeInv, TypeOK, Return, PC

LEMMA SaveAndReturnType ==
    ASSUME NEW r \in Requests, NEW e \in EscrowRow, TypeInv,
           SaveAndReturn(r, e)
    PROVE  TypeInv'
BY ReturnType DEF TypeInv, TypeOK, SaveAndReturn

\* No step of a request, fault or not, takes a variable out of its type.
LEMMA TypeStep ==
    ASSUME TypeInv, NEW r \in Requests, Step(r)
    PROVE  TypeInv'
<1> DEFINE e == held[r]
           j == job[r]
<1>1. /\ e \in EscrowRow /\ j \in Job /\ j.amount \in Nat /\ j.fee \in Nat
      /\ j.left \in Nat /\ j.scope \in SUBSET Wallets
      /\ j.todo \in SUBSET DepositRow /\ escrow \in EscrowRow
  BY DEF TypeInv, TypeOK, Job
<1>2. CASE DepositLoad(r)
  <2>1. PICK w \in Wallets, a \in Amounts :
          Start(r, "depositRow", escrow,
                [NoJob EXCEPT !.scope = {w}, !.amount = a])
    BY <1>2 DEF DepositLoad
  <2>2. [NoJob EXCEPT !.scope = {w}, !.amount = a] \in Job
    <3>1. {w} \in SUBSET Wallets /\ a \in Nat
      BY EscrowAssumption
    <3> QED
      BY <3>1, NoJobType DEF Job
  <2> QED
    BY <1>1, <2>1, <2>2, StartType DEF PC
<1>3. CASE SaveDepositRow(r)
  <2>1. PICK w \in j.scope :
          deposits' = deposits \cup {[id |-> Cardinality(deposits) + 1,
                                      wallet |-> w, amount |-> j.amount]}
    BY <1>3 DEF SaveDepositRow
  <2>2. Cardinality(deposits) + 1 \in Nat
    BY FS_CardinalityType DEF TypeInv
  <2>3. deposits' \subseteq DepositRow
    BY <1>1, <2>1, <2>2 DEF TypeInv, TypeOK, DepositRow
  <2>4. IsFiniteSet(deposits')
    BY <2>1, FS_AddElement DEF TypeInv
  <2>5. logged' \in Logged
    BY <1>1, <1>3 DEF SaveDepositRow, TypeInv, TypeOK, Logged
  <2>6. held' \in [Requests -> EscrowRow]
    BY <1>1, <1>3, EntityTypes DEF SaveDepositRow, TypeInv, TypeOK
  <2> QED
    BY <1>3, <2>3, <2>4, <2>5, <2>6 DEF SaveDepositRow, TypeInv, TypeOK, PC
<1>4. CASE DepositSave(r) \/ LockSave(r) \/ CloseSave(r) \/ Compensate(r)
  BY <1>1, <1>4, SaveAndReturnType
     DEF DepositSave, LockSave, CloseSave, Compensate
<1>5. CASE LockLoad(r) \/ CloseLoad(r)
  <2>1. WithStatus(escrow, "locked") \in EscrowRow
        /\ WithStatus(escrow, "closed") \in EscrowRow
    BY <1>1, EntityTypes DEF EscrowStatus
  <2> QED
    BY <1>5, <2>1, NoJobType, StartType DEF LockLoad, CloseLoad, PC
<1>6. CASE ReleaseLoad(r)
  <2>1. PlatformFee(escrow) \in Nat /\ escrow.balance \in Int
    BY <1>1, <1>6, FeeOfBalance DEF ReleaseLoad, canRelease, EscrowRow
  <2>2. PICK total \in 0 .. (escrow.balance - PlatformFee(escrow)) :
          Start(r, "releasingSave", WithStatus(escrow, "releasing"),
                [NoJob EXCEPT !.amount = total, !.left = total,
                              !.fee = PlatformFee(escrow)])
    BY <1>6 DEF ReleaseLoad
  <2>3. [NoJob EXCEPT !.amount = total, !.left = total,
                      !.fee = PlatformFee(escrow)] \in Job
    <3>1. total \in Nat
      BY <2>1
    <3> QED
      BY <2>1, <3>1, NoJobType, JobTypes
  <2>4. WithStatus(escrow, "releasing") \in EscrowRow
    BY <1>1, EntityTypes DEF EscrowStatus
  <2> QED
    BY <2>2, <2>3, <2>4, StartType DEF PC
<1>7. CASE ReleasingSave(r) \/ SaveFeeRow(r) \/ RefundingSave(r)
  <2>1. NextReleaseCall(j.left) \in PC
    BY DEF NextReleaseCall, PC
  <2>2. pc' \in [Requests -> PC]
    BY <1>7, <2>1
       DEF ReleasingSave, SaveFeeRow, RefundingSave, TypeInv, TypeOK, PC
  <2>3. escrow' \in EscrowRow /\ logged' \in Logged
    BY <1>1, <1>7
       DEF ReleasingSave, SaveFeeRow, RefundingSave, TypeInv, TypeOK, Logged
  <2> QED
    BY <1>7, <2>2, <2>3
       DEF ReleasingSave, SaveFeeRow, RefundingSave, TypeInv, TypeOK
<1>8. CASE SaveReleaseRow(r)
  <2>1. PICK a \in 1 .. j.left :
          /\ logged' = [logged EXCEPT !.release = @ + a]
          /\ job' = [job EXCEPT ![r].left = @ - a]
          /\ pc' = [pc EXCEPT ![r] = NextReleaseCall(j.left - a)]
    BY <1>8 DEF SaveReleaseRow
  <2>2. NextReleaseCall(j.left - a) \in PC
    BY DEF NextReleaseCall, PC
  <2>3. [j EXCEPT !.left = @ - a] \in Job
    <3>1. a \in Nat /\ a <= j.left
      BY <1>1
    <3> QED
      BY <1>1, <3>1, JobTypes
  <2>4. logged' \in Logged
    BY <1>1, <2>1 DEF TypeInv, TypeOK, Logged
  <2>5. job' \in [Requests -> Job]
    BY <2>1, <2>3 DEF TypeInv, TypeOK
  <2> QED
    BY <1>8, <2>1, <2>2, <2>4, <2>5 DEF SaveReleaseRow, TypeInv, TypeOK
<1>9. CASE ReleaseSave(r) \/ RefundSave(r)
  <2>1. /\ AfterRelease(e, j.amount, j.fee) \in EscrowRow
        /\ AfterRefund(e, j.amount) \in EscrowRow
    BY <1>1, EntityTypes
  <2> QED
    BY <1>9, <2>1, SaveAndReturnType DEF ReleaseSave, RefundSave
<1>10. CASE RefundLoad(r)
  <2>1. \A scope \in RefundScopes : [NoJob EXCEPT !.scope = scope] \in Job
    BY NoJobType, JobTypes, EscrowAssumption
  <2> QED
    BY <1>1, <1>10, <2>1, StartType DEF RefundLoad, PC
<1>11. CASE FindDeposits(r)
  <2> DEFINE found == {d \in deposits : d.wallet \in j.scope}
  <2>1. [j EXCEPT !.todo = found] \in Job
    BY <1>1, JobTypes DEF TypeInv, TypeOK
  <2>2. WithStatus(e, "refunding") \in EscrowRow
    BY <1>1, EntityTypes DEF EscrowStatus
  <2>3. CASE Return(r)
    BY <1>11, <2>3, ReturnType DEF FindDeposits, TypeInv, TypeOK, table
  <2>4. CASE /\ pc' = [pc EXCEPT ![r] = "refundingSave"]
             /\ held' = [held EXCEPT ![r] = WithStatus(@, "refunding")]
             /\ job' = [job EXCEPT ![r].todo = found]
    BY <1>11, <2>1, <2>2, <2>4 DEF FindDeposits, TypeInv, TypeOK, table, PC
  <2> QED
    BY <1>11, <2>3, <2>4 DEF FindDeposits
<1>12. CASE SaveRefundRow(r)
  <2>1. PICK d \in j.todo :
          /\ logged' = [logged EXCEPT !.refund = @ + d.amount]
          /\ refundedTo' = [refundedTo EXCEPT ![d.wallet] = @ + d.amount]
          /\ job' = [job EXCEPT ![r].todo = @ \ {d},
                                ![r].amount = @ + d.amount]
          /\ pc' = [pc EXCEPT ![r] = IF j.todo = {d} THEN "refundSave"
                                     ELSE "refundRow"]
    BY <1>12 DEF SaveRefundRow
  <2>2. d \in DepositRow /\ d.amount \in Nat /\ d.wallet \in Wallets
    BY <1>1 DEF DepositRow
  <2>3. [j EXCEPT !.todo = @ \ {d}, !.amount = @ + d.amount] \in Job
    BY <1>1, <2>2, JobTypes
  <2>4. job' \in [Requests -> Job]
    BY <2>1, <2>3 DEF TypeInv, TypeOK
  <2>5. logged' \in Logged /\ refundedTo' \in [Wallets -> Nat]
    BY <2>1, <2>2 DEF TypeInv, TypeOK, Logged
  <2>6. pc' \in [Requests -> PC]
    BY <2>1 DEF TypeInv, TypeOK, PC
  <2> QED
    BY <1>12, <2>4, <2>5, <2>6 DEF SaveRefundRow, TypeInv, TypeOK
<1>13. CASE Throw(r)
  <2>1. faults' \in 0..MaxFaults
    BY <1>13, EscrowAssumption DEF Throw, TypeInv, TypeOK
  <2> QED
    BY <1>13, <2>1, ReturnType DEF Throw, TypeInv, TypeOK, table
<1>14. ASSUME NEW c \in EscrowRow, Catch(r, c)
       PROVE  TypeInv'
  <2>1. faults' \in 0..MaxFaults
    BY <1>14, EscrowAssumption DEF Catch, TypeInv, TypeOK
  <2> QED
    BY <1>14, <2>1 DEF Catch, TypeInv, TypeOK, table, PC
<1>15. CASE CatchRelease(r) \/ CatchRefund(r)
  <2>1. /\ AfterRelease(e, j.amount, j.fee) \in EscrowRow
        /\ AfterRefund(e, j.amount) \in EscrowRow
    BY <1>1, EntityTypes
  <2>2. /\ WithStatus(e, "locked") \in EscrowRow
        /\ WithStatus(e, "active") \in EscrowRow
        /\ WithStatus(AfterRelease(e, j.amount, j.fee), "locked") \in EscrowRow
        /\ WithStatus(AfterRefund(e, j.amount), "active") \in EscrowRow
    BY <1>1, <2>1, EntityTypes DEF EscrowStatus
  <2> QED
    BY <1>14, <1>15, <2>2 DEF CatchRelease, CatchRefund
<1> QED
  BY <1>2, <1>3, <1>4, <1>5, <1>6, <1>7, <1>8, <1>9, <1>10, <1>11, <1>12,
     <1>13, <1>15 DEF Step

\* Nor does a crash.
LEMMA TypeCrash == TypeInv /\ Crash => TypeInv'
<1> SUFFICES ASSUME TypeInv, Crash PROVE TypeInv'
  OBVIOUS
<1>1. faults' \in 0..MaxFaults
  BY EscrowAssumption DEF Crash, TypeInv, TypeOK
<1> QED
  BY <1>1, NewEscrowType, NoJobType DEF Crash, TypeInv, TypeOK, table, PC

LEMMA TypeNext == TypeInv /\ [Next]_vars => TypeInv'
<1>1. TypeInv /\ UNCHANGED vars => TypeInv'
  BY DEF vars, TypeInv, TypeOK
<1> QED
  BY <1>1, TypeStep, TypeCrash DEF Next

LEMMA TypeAlways == Spec => []TypeInv
BY TypeInit, TypeNext, PTL DEF Spec

\* Every variable keeps its type: in particular the totals and the amounts
\* still to distribute are never negative, for any fee and any amounts.
THEOREM TypeCorrect == Spec => []TypeOK
<1>1. TypeInv => TypeOK
  BY DEF TypeInv
<1> QED
  BY <1>1, TypeAlways, PTL

-----------------------------------------------------------------------------
(* The log is ahead of the row                                              *)

\* The totals of entity e are covered by the log.
Covered(e) ==
    /\ e.deposited <= logged.deposit
    /\ e.released <= logged.release
    /\ e.refunded <= logged.refund
    /\ e.fee <= logged.fee

\* What request r will add to a total of its entity is in the log already, as
\* far as its loop has come.
Ahead(r) ==
    LET e == held[r]
        j == job[r]
    IN  /\ Covered(e)
        /\ pc[r] \in {"releasingSave", "feeRow", "releaseRow", "releaseSave"} =>
              e.released + j.amount <= logged.release + j.left
        /\ pc[r] \in {"releaseRow", "releaseSave"} =>
              e.fee + j.fee <= logged.fee
        /\ pc[r] = "releaseSave" => j.left = 0
        /\ pc[r] \in {"findDeposits", "refundingSave", "refundRow", "refundSave"} =>
              e.refunded + j.amount <= logged.refund

AuditInv == Covered(escrow) /\ \A r \in Requests : Ahead(r)

\* A step of one request leaves the memory of the others alone.
LEMMA OthersUntouched ==
    ASSUME TypeInv, NEW r \in Requests, Step(r), NEW q \in Requests, q # r
    PROVE  pc'[q] = pc[q] /\ held'[q] = held[q] /\ job'[q] = job[q]
<1>1. ASSUME NEW next, NEW e, NEW j, Start(r, next, e, j)
      PROVE  pc'[q] = pc[q] /\ held'[q] = held[q] /\ job'[q] = job[q]
  BY <1>1 DEF Start, TypeInv, TypeOK
<1>2. ASSUME Return(r)
      PROVE  pc'[q] = pc[q] /\ held'[q] = held[q] /\ job'[q] = job[q]
  BY <1>2 DEF Return, TypeInv, TypeOK
<1>3. ASSUME NEW e, Catch(r, e)
      PROVE  pc'[q] = pc[q] /\ held'[q] = held[q] /\ job'[q] = job[q]
  BY <1>3 DEF Catch, TypeInv, TypeOK
<1>4. CASE \/ DepositLoad(r) \/ LockLoad(r) \/ CloseLoad(r)
           \/ ReleaseLoad(r) \/ RefundLoad(r)
  BY <1>1, <1>4 DEF DepositLoad, LockLoad, CloseLoad, ReleaseLoad, RefundLoad
<1>5. CASE \/ DepositSave(r) \/ LockSave(r) \/ CloseSave(r) \/ Compensate(r)
           \/ ReleaseSave(r) \/ RefundSave(r) \/ Throw(r)
  BY <1>2, <1>5 DEF DepositSave, LockSave, CloseSave, Compensate, ReleaseSave,
                    RefundSave, SaveAndReturn, Throw
<1>6. CASE CatchRelease(r) \/ CatchRefund(r)
  BY <1>3, <1>6 DEF CatchRelease, CatchRefund
<1>7. CASE SaveDepositRow(r) \/ ReleasingSave(r) \/ SaveFeeRow(r) \/ RefundingSave(r)
  BY <1>7 DEF SaveDepositRow, ReleasingSave, SaveFeeRow, RefundingSave,
              TypeInv, TypeOK
<1>8. CASE SaveReleaseRow(r) \/ SaveRefundRow(r)
  BY <1>8 DEF SaveReleaseRow, SaveRefundRow, TypeInv, TypeOK
<1>9. CASE FindDeposits(r)
  BY <1>2, <1>9 DEF FindDeposits, TypeInv, TypeOK
<1> QED
  BY <1>4, <1>5, <1>6, <1>7, <1>8, <1>9 DEF Step

\* The log is append-only.
LEMMA LogGrows ==
    ASSUME TypeInv, NEW r \in Requests, Step(r)
    PROVE  /\ logged.deposit <= logged'.deposit
           /\ logged.release <= logged'.release
           /\ logged.refund <= logged'.refund
           /\ logged.fee <= logged'.fee
<1>1. /\ logged \in Logged /\ job[r].amount \in Nat /\ job[r].fee \in Nat
      /\ job[r].left \in Nat /\ job[r].todo \in SUBSET DepositRow
  BY DEF TypeInv, TypeOK, Job
<1>2. CASE SaveDepositRow(r) \/ SaveFeeRow(r)
  BY <1>1, <1>2 DEF SaveDepositRow, SaveFeeRow, Logged
<1>3. CASE SaveReleaseRow(r)
  BY <1>1, <1>3 DEF SaveReleaseRow, Logged
<1>4. CASE SaveRefundRow(r)
  BY <1>1, <1>4 DEF SaveRefundRow, Logged, DepositRow
<1>5. CASE logged' = logged
  BY <1>1, <1>5 DEF Logged
<1> QED
  BY <1>2, <1>3, <1>4, <1>5
     DEF Step, Start, SaveAndReturn, table, DepositLoad, LockLoad, CloseLoad,
         ReleaseLoad, RefundLoad, DepositSave, LockSave, CloseSave, Compensate,
         ReleaseSave, RefundSave, ReleasingSave, RefundingSave, FindDeposits,
         Throw, CatchRelease, CatchRefund, Catch

\* An entity that was covered stays covered.
LEMMA CoveredStays ==
    ASSUME TypeInv, NEW r \in Requests, Step(r), NEW e \in EscrowRow, Covered(e)
    PROVE  /\ e.deposited <= logged'.deposit
           /\ e.released <= logged'.release
           /\ e.refunded <= logged'.refund
           /\ e.fee <= logged'.fee
<1>1. logged \in Logged /\ logged' \in Logged
  BY TypeStep DEF TypeInv, TypeOK
<1> QED
  BY <1>1, LogGrows DEF Covered, EscrowRow, Logged

LEMMA AuditInit == Init => AuditInv
BY DEF Init, AuditInv, Ahead, Covered, NewEscrow, NoJob

\* A step keeps the other requests ahead of their entities.
LEMMA AheadOthers ==
    ASSUME TypeInv, AuditInv, NEW r \in Requests, Step(r),
           NEW q \in Requests, q # r
    PROVE  Ahead(q)'
<1>1. pc'[q] = pc[q] /\ held'[q] = held[q] /\ job'[q] = job[q]
  BY OthersUntouched
<1>2. held[q] \in EscrowRow /\ job[q] \in Job /\ Ahead(q)
  BY DEF TypeInv, TypeOK, AuditInv
<1>3. logged \in Logged /\ logged' \in Logged
  BY TypeStep DEF TypeInv, TypeOK
<1>4. Covered(held[q])'
  BY <1>1, <1>2, CoveredStays DEF Ahead, Covered
<1> QED
  BY <1>1, <1>2, <1>3, <1>4, LogGrows DEF Ahead, EscrowRow, Job, Logged

\* Its own entity, whatever the request does next: an idle request is ahead,
\* and a request that starts with a covered entity and nothing to add is.
LEMMA AheadReturn ==
    ASSUME TypeInv, NEW r \in Requests, Step(r), Return(r)
    PROVE  Ahead(r)'
<1>1. pc'[r] = "idle" /\ held'[r] = NewEscrow /\ job'[r] = NoJob
  BY DEF Return, TypeInv, TypeOK
<1>2. logged' \in Logged
  BY TypeStep DEF TypeInv, TypeOK
<1> QED
  BY <1>1, <1>2 DEF Ahead, Covered, NewEscrow, NoJob, Logged

\* Every step of the request itself keeps it ahead.
LEMMA AheadSelf ==
    ASSUME TypeInv, AuditInv, NEW r \in Requests, Step(r)
    PROVE  Ahead(r)'
<1> DEFINE e == held[r]
           j == job[r]
<1>1. /\ e \in EscrowRow /\ j \in Job /\ j.amount \in Nat /\ j.fee \in Nat
      /\ j.left \in Nat /\ j.todo \in SUBSET DepositRow
      /\ escrow \in EscrowRow /\ logged \in Logged
  BY DEF TypeInv, TypeOK, Job
<1>2. /\ logged.deposit \in Nat /\ logged.release \in Nat
      /\ logged.refund \in Nat /\ logged.fee \in Nat
      /\ e.deposited \in Nat /\ e.released \in Nat /\ e.refunded \in Nat
      /\ e.fee \in Nat
  BY <1>1 DEF Logged, EscrowRow
<1>3. Covered(escrow) /\ Ahead(r) /\ Covered(e)
  BY DEF AuditInv, Ahead
<1>4. ASSUME NEW next \in {"depositRow", "lockSave", "closeSave", "findDeposits"},
             NEW c, NEW k \in Job, Covered(c), k.amount = 0,
             Start(r, next, c, k)
      PROVE  Ahead(r)'
  <2>1. /\ pc'[r] = next /\ held'[r] = c /\ job'[r] = k /\ logged' = logged
    BY <1>4 DEF Start, table, TypeInv, TypeOK
  <2>2. c.refunded \in Nat
    BY <1>4, <2>1, TypeStep DEF TypeInv, TypeOK, EscrowRow
  <2> QED
    BY <1>4, <2>1, <2>2 DEF Ahead, Covered
<1>5. CASE \/ DepositLoad(r) \/ LockLoad(r) \/ CloseLoad(r) \/ RefundLoad(r)
  <2>1. /\ Covered(WithStatus(escrow, "locked"))
        /\ Covered(WithStatus(escrow, "closed"))
    BY <1>1, <1>3, StatusTotals DEF Covered
  <2>2. /\ NoJob \in Job /\ NoJob.amount = 0
        /\ \A scope \in RefundScopes :
             /\ [NoJob EXCEPT !.scope = scope] \in Job
             /\ [NoJob EXCEPT !.scope = scope].amount = 0
    BY NoJobType, JobTypes, EscrowAssumption DEF NoJob
  <2>3. CASE LockLoad(r) \/ CloseLoad(r)
    BY <1>4, <2>1, <2>2, <2>3 DEF LockLoad, CloseLoad
  <2>4. CASE RefundLoad(r)
    BY <1>3, <1>4, <2>2, <2>4 DEF RefundLoad
  <2>5. CASE DepositLoad(r)
    <3>1. /\ pc'[r] = "depositRow" /\ held'[r] = escrow /\ logged' = logged
      BY <2>5 DEF DepositLoad, Start, table, TypeInv, TypeOK
    <3> QED
      BY <1>3, <3>1 DEF Ahead, Covered
  <2> QED
    BY <1>5, <2>3, <2>4, <2>5
<1>6. CASE \/ DepositSave(r) \/ LockSave(r) \/ CloseSave(r) \/ Compensate(r)
           \/ ReleaseSave(r) \/ RefundSave(r) \/ Throw(r)
  BY <1>6, AheadReturn
     DEF DepositSave, LockSave, CloseSave, Compensate, ReleaseSave,
         RefundSave, SaveAndReturn, Throw
<1>7. CASE SaveDepositRow(r)
  <2>1. /\ pc'[r] = "depositSave" /\ held'[r] = AfterDeposit(e, j.amount)
        /\ logged' = [logged EXCEPT !.deposit = @ + j.amount]
    BY <1>7 DEF SaveDepositRow, TypeInv, TypeOK
  <2>2. Covered(held[r])'
    <3>1. /\ logged'.deposit = logged.deposit + j.amount
          /\ logged'.release = logged.release
          /\ logged'.refund = logged.refund /\ logged'.fee = logged.fee
      BY <1>1, <2>1 DEF Logged
    <3> QED
      BY <1>1, <1>2, <1>3, <2>1, <3>1, DepositTotals DEF Covered
  <2> QED
    BY <2>1, <2>2 DEF Ahead
<1>8. CASE ReleaseLoad(r)
  <2>1. PICK total \in 0 .. (escrow.balance - PlatformFee(escrow)) :
          Start(r, "releasingSave", WithStatus(escrow, "releasing"),
                [NoJob EXCEPT !.amount = total, !.left = total,
                              !.fee = PlatformFee(escrow)])
    BY <1>8 DEF ReleaseLoad
  <2>2. /\ pc'[r] = "releasingSave" /\ logged' = logged
        /\ held'[r] = WithStatus(escrow, "releasing")
        /\ job'[r].amount = total /\ job'[r].left = total
    BY <2>1 DEF Start, table, NoJob, TypeInv, TypeOK
  <2>3. Covered(WithStatus(escrow, "releasing"))
    BY <1>1, <1>3, StatusTotals DEF Covered
  <2>4. escrow.balance \in Int /\ PlatformFee(escrow) \in Nat
    BY <1>1, <1>8, FeeOfBalance DEF ReleaseLoad, canRelease, EscrowRow
  <2>5. WithStatus(escrow, "releasing").released \in Nat /\ total \in Nat
    BY <1>1, <2>4, StatusTotals DEF EscrowRow
  <2> QED
    BY <1>2, <2>2, <2>3, <2>5 DEF Ahead, Covered
<1>9. CASE ReleasingSave(r)
  <2>1. /\ pc[r] = "releasingSave" /\ held'[r] = e /\ job'[r] = j
        /\ pc'[r] = (IF j.fee > 0 THEN "feeRow" ELSE NextReleaseCall(j.left))
        /\ logged' = logged
    BY <1>9 DEF ReleasingSave, TypeInv, TypeOK
  <2>2. e.fee + j.fee <= logged.fee \/ j.fee > 0
    BY <1>1, <1>2, <1>3 DEF Covered
  <2> QED
    BY <1>1, <1>2, <1>3, <2>1, <2>2 DEF Ahead, Covered, NextReleaseCall
<1>10. CASE SaveFeeRow(r)
  <2>1. /\ pc[r] = "feeRow" /\ held'[r] = e /\ job'[r] = j
        /\ pc'[r] = NextReleaseCall(j.left)
        /\ logged' = [logged EXCEPT !.fee = @ + j.fee]
    BY <1>10 DEF SaveFeeRow, TypeInv, TypeOK
  <2>2. /\ logged'.fee = logged.fee + j.fee /\ logged'.release = logged.release
        /\ logged'.deposit = logged.deposit /\ logged'.refund = logged.refund
    BY <1>1, <2>1 DEF Logged
  <2> QED
    BY <1>1, <1>2, <1>3, <2>1, <2>2 DEF Ahead, Covered, NextReleaseCall
<1>11. CASE SaveReleaseRow(r)
  <2>1. PICK a \in 1 .. j.left :
          /\ logged' = [logged EXCEPT !.release = @ + a]
          /\ job' = [job EXCEPT ![r].left = @ - a]
          /\ pc' = [pc EXCEPT ![r] = NextReleaseCall(j.left - a)]
    BY <1>11 DEF SaveReleaseRow
  <2>2. /\ pc[r] = "releaseRow" /\ held'[r] = e
        /\ pc'[r] = NextReleaseCall(j.left - a)
        /\ job'[r].left = j.left - a /\ job'[r].amount = j.amount
        /\ job'[r].fee = j.fee
    BY <1>1, <1>11, <2>1 DEF SaveReleaseRow, TypeInv, TypeOK, Job
  <2>3. /\ logged'.release = logged.release + a /\ logged'.fee = logged.fee
        /\ logged'.deposit = logged.deposit /\ logged'.refund = logged.refund
    BY <1>1, <2>1 DEF Logged
  <2> QED
    BY <1>1, <1>2, <1>3, <2>2, <2>3 DEF Ahead, Covered, NextReleaseCall
<1>12. CASE FindDeposits(r)
  <2>1. CASE Return(r)
    BY <2>1, AheadReturn
  <2>2. CASE /\ pc' = [pc EXCEPT ![r] = "refundingSave"]
             /\ held' = [held EXCEPT ![r] = WithStatus(@, "refunding")]
             /\ job' = [job EXCEPT ![r].todo =
                           {d \in deposits : d.wallet \in j.scope}]
    <3>1. /\ pc[r] = "findDeposits" /\ pc'[r] = "refundingSave"
          /\ held'[r] = WithStatus(e, "refunding") /\ logged' = logged
          /\ job'[r].amount = j.amount
      BY <1>1, <1>12, <2>2 DEF FindDeposits, table, TypeInv, TypeOK, Job
    <3> QED
      BY <1>1, <1>3, <3>1, StatusTotals DEF Ahead, Covered
  <2> QED
    BY <1>12, <2>1, <2>2 DEF FindDeposits
<1>13. CASE RefundingSave(r)
  <2>1. /\ pc[r] = "refundingSave" /\ held'[r] = e /\ job'[r] = j
        /\ pc'[r] = "refundRow" /\ logged' = logged
    BY <1>13 DEF RefundingSave, TypeInv, TypeOK
  <2> QED
    BY <1>3, <2>1 DEF Ahead, Covered
<1>14. CASE SaveRefundRow(r)
  <2>1. PICK d \in j.todo :
          /\ logged' = [logged EXCEPT !.refund = @ + d.amount]
          /\ job' = [job EXCEPT ![r].todo = @ \ {d},
                                ![r].amount = @ + d.amount]
          /\ pc' = [pc EXCEPT ![r] = IF j.todo = {d} THEN "refundSave"
                                     ELSE "refundRow"]
    BY <1>14 DEF SaveRefundRow
  <2>2. d.amount \in Nat
    BY <1>1 DEF DepositRow
  <2>3. /\ pc[r] = "refundRow" /\ held'[r] = e
        /\ pc'[r] \in {"refundSave", "refundRow"}
        /\ job'[r].amount = j.amount + d.amount
    BY <1>1, <1>14, <2>1 DEF SaveRefundRow, TypeInv, TypeOK, Job
  <2>4. /\ logged'.refund = logged.refund + d.amount
        /\ logged'.release = logged.release /\ logged'.fee = logged.fee
        /\ logged'.deposit = logged.deposit
    BY <1>1, <2>1 DEF Logged
  <2> QED
    BY <1>1, <1>2, <1>3, <2>2, <2>3, <2>4 DEF Ahead, Covered
<1>15. ASSUME NEW c, Covered(c), Catch(r, c)
       PROVE  Ahead(r)'
  <2>1. pc'[r] = "compensate" /\ held'[r] = c /\ logged' = logged
    BY <1>15 DEF Catch, table, TypeInv, TypeOK
  <2> QED
    BY <1>15, <2>1 DEF Ahead, Covered
<1>16. CASE CatchRelease(r)
  <2>1. Covered(WithStatus(e, "locked"))
    BY <1>1, <1>3, StatusTotals DEF Covered
  <2>2. CASE pc[r] \in {"feeRow", "releaseRow"}
    BY <1>15, <1>16, <2>1, <2>2 DEF CatchRelease
  <2>3. CASE pc[r] = "releaseSave"
    <3> DEFINE c == AfterRelease(e, j.amount, j.fee)
    <3>1. c \in EscrowRow
      BY <1>1, EntityTypes
    <3>2. /\ c.deposited <= logged.deposit /\ c.released <= logged.release
          /\ c.refunded <= logged.refund /\ c.fee <= logged.fee
      <4>1. /\ e.released + j.amount <= logged.release + j.left
            /\ j.left = 0 /\ e.fee + j.fee <= logged.fee
        BY <1>3, <2>3 DEF Ahead
      <4>2. /\ c.deposited = e.deposited /\ c.released = e.released + j.amount
            /\ c.refunded = e.refunded /\ c.fee = e.fee + j.fee
        BY <1>1, ReleaseTotals
      <4> QED
        BY <1>1, <1>2, <1>3, <4>1, <4>2 DEF Covered
    <3> HIDE DEF c
    <3>3. Covered(WithStatus(c, "locked"))
      BY <3>1, <3>2, StatusTotals DEF Covered
    <3> QED
      BY <1>15, <1>16, <2>3, <3>3 DEF CatchRelease, c
  <2> QED
    BY <1>16, <2>2, <2>3 DEF CatchRelease
<1>17. CASE CatchRefund(r)
  <2>1. Covered(WithStatus(e, "active"))
    BY <1>1, <1>3, StatusTotals DEF Covered
  <2>2. CASE pc[r] = "refundRow"
    BY <1>15, <1>17, <2>1, <2>2 DEF CatchRefund
  <2>3. CASE pc[r] = "refundSave"
    <3> DEFINE c == AfterRefund(e, j.amount)
    <3>1. c \in EscrowRow
      BY <1>1, EntityTypes
    <3>2. /\ c.deposited <= logged.deposit /\ c.released <= logged.release
          /\ c.refunded <= logged.refund /\ c.fee <= logged.fee
      BY <1>1, <1>2, <1>3, <2>3, RefundTotals DEF Ahead, Covered
    <3> HIDE DEF c
    <3>3. Covered(WithStatus(c, "active"))
      BY <3>1, <3>2, StatusTotals DEF Covered
    <3> QED
      BY <1>15, <1>17, <2>3, <3>3 DEF CatchRefund, c
  <2> QED
    BY <1>17, <2>2, <2>3 DEF CatchRefund
<1> QED
  BY <1>5, <1>6, <1>7, <1>8, <1>9, <1>10, <1>11, <1>12, <1>13, <1>14,
     <1>16, <1>17 DEF Step

\* The row is written from an entity that is covered.
LEMMA CoveredRow ==
    ASSUME TypeInv, AuditInv, NEW r \in Requests, Step(r)
    PROVE  Covered(escrow)'
<1> DEFINE e == held[r]
           j == job[r]
<1>1. e \in EscrowRow /\ escrow \in EscrowRow /\ j.amount \in Nat /\ j.fee \in Nat
  BY DEF TypeInv, TypeOK, Job
<1>2. Covered(escrow) /\ Covered(e) /\ Ahead(r)
  BY DEF AuditInv, Ahead
<1>3. CASE escrow' = escrow \/ escrow' = e
  BY <1>1, <1>2, <1>3, CoveredStays DEF Covered
<1>4. CASE ReleaseSave(r) \/ RefundSave(r)
  <2>1. logged' = logged
    BY <1>4 DEF ReleaseSave, RefundSave, SaveAndReturn
  <2>2. /\ logged \in Logged /\ job[r].left \in Nat
    BY DEF TypeInv, TypeOK, Job
  <2>3. CASE ReleaseSave(r)
    <3>1. /\ e.released + j.amount <= logged.release + j.left
          /\ j.left = 0 /\ e.fee + j.fee <= logged.fee
      BY <1>2, <2>3 DEF ReleaseSave, Ahead
    <3>2. /\ escrow'.deposited = e.deposited
          /\ escrow'.released = e.released + j.amount
          /\ escrow'.refunded = e.refunded /\ escrow'.fee = e.fee + j.fee
      BY <1>1, <2>3, ReleaseTotals DEF ReleaseSave, SaveAndReturn
    <3> QED
      BY <1>1, <1>2, <2>1, <2>2, <3>1, <3>2 DEF Covered, EscrowRow, Logged
  <2>4. CASE RefundSave(r)
    <3>1. e.refunded + j.amount <= logged.refund
      BY <1>2, <2>4 DEF RefundSave, Ahead
    <3>2. /\ escrow'.deposited = e.deposited /\ escrow'.released = e.released
          /\ escrow'.refunded = e.refunded + j.amount /\ escrow'.fee = e.fee
      BY <1>1, <2>4, RefundTotals DEF RefundSave, SaveAndReturn
    <3> QED
      BY <1>2, <2>1, <3>1, <3>2 DEF Covered
  <2> QED
    BY <1>4, <2>3, <2>4
<1> QED
  BY <1>3, <1>4
     DEF Step, Start, SaveAndReturn, table, DepositLoad, LockLoad, CloseLoad,
         ReleaseLoad, RefundLoad, DepositSave, LockSave, CloseSave, Compensate,
         SaveDepositRow, SaveFeeRow, SaveReleaseRow, SaveRefundRow,
         ReleasingSave, RefundingSave, FindDeposits, Throw, CatchRelease,
         CatchRefund, Catch

LEMMA AuditStep ==
    ASSUME TypeInv, AuditInv, NEW r \in Requests, Step(r)
    PROVE  AuditInv'
<1>1. \A q \in Requests : Ahead(q)'
  BY AheadSelf, AheadOthers
<1> QED
  BY <1>1, CoveredRow DEF AuditInv

LEMMA AuditCrash == TypeInv /\ AuditInv /\ Crash => AuditInv'
<1> SUFFICES ASSUME TypeInv, AuditInv, Crash PROVE AuditInv'
  OBVIOUS
<1>1. logged \in Logged /\ escrow' = escrow /\ logged' = logged
  BY DEF Crash, table, TypeInv, TypeOK
<1>2. \A q \in Requests :
         pc'[q] = "idle" /\ held'[q] = NewEscrow /\ job'[q] = NoJob
  BY DEF Crash
<1>3. Covered(escrow)'
  BY <1>1 DEF AuditInv, Covered
<1>4. \A q \in Requests : Ahead(q)'
  BY <1>1, <1>2 DEF Ahead, Covered, NewEscrow, Logged
<1> QED
  BY <1>3, <1>4 DEF AuditInv

\* With any number of requests, and whatever fails, no total of the row ever
\* exceeds what the log accounts for.
THEOREM AuditCorrect == Spec => []AuditCoversRow
<1>1. AuditInv => AuditCoversRow
  BY DEF AuditInv, AuditCoversRow, Covered
<1>2. TypeInv /\ AuditInv /\ [Next]_vars => AuditInv'
  <2>1. AuditInv /\ UNCHANGED vars => AuditInv'
    BY DEF vars, AuditInv, Ahead, Covered
  <2> QED
    BY <2>1, AuditStep, AuditCrash DEF Next
<1> QED
  BY <1>1, <1>2, TypeAlways, AuditInit, PTL DEF Spec

-----------------------------------------------------------------------------
(* The balance formula                                                      *)

\* Every operation computes a balanced entity from a balanced one.
LEMMA BalancedOps ==
    ASSUME NEW e \in EscrowRow, NEW a \in Nat, NEW f \in Nat, Balanced(e)
    PROVE  /\ \A s : Balanced(WithStatus(e, s))
           /\ Balanced(AfterDeposit(e, a))
           /\ Balanced(AfterRelease(e, a, f))
           /\ Balanced(AfterRefund(e, a))
<1>1. /\ e.deposited \in Nat /\ e.released \in Nat /\ e.refunded \in Nat
      /\ e.fee \in Nat /\ e.balance \in Int
  BY DEF EscrowRow
<1>2. \A s : Balanced(WithStatus(e, s))
  BY StatusTotals DEF Balanced
<1>3. Balanced(AfterDeposit(e, a))
  <2>1. e.balance + a = (e.deposited + a) - e.released - e.refunded - e.fee
    BY <1>1 DEF Balanced
  <2> DEFINE n == AfterDeposit(e, a)
  <2>2. /\ n.deposited = e.deposited + a /\ n.released = e.released
        /\ n.refunded = e.refunded /\ n.fee = e.fee
        /\ n.balance = e.balance + a
    BY DepositTotals
  <2> HIDE DEF n
  <2>3. n.balance = n.deposited - n.released - n.refunded - n.fee
    BY <2>1, <2>2
  <2> QED
    BY <2>3 DEF Balanced, n
<1>4. Balanced(AfterRelease(e, a, f))
  <2>1. e.balance - a - f
          = e.deposited - (e.released + a) - e.refunded - (e.fee + f)
    BY <1>1 DEF Balanced
  <2> DEFINE n == AfterRelease(e, a, f)
  <2>2. /\ n.deposited = e.deposited /\ n.released = e.released + a
        /\ n.refunded = e.refunded /\ n.fee = e.fee + f
        /\ n.balance = e.balance - a - f
    BY ReleaseTotals
  <2> HIDE DEF n
  <2>3. n.balance = n.deposited - n.released - n.refunded - n.fee
    BY <2>1, <2>2
  <2> QED
    BY <2>3 DEF Balanced, n
<1>5. Balanced(AfterRefund(e, a))
  <2>1. e.balance - a = e.deposited - e.released - (e.refunded + a) - e.fee
    BY <1>1 DEF Balanced
  <2> DEFINE n == AfterRefund(e, a)
  <2>2. /\ n.deposited = e.deposited /\ n.released = e.released
        /\ n.refunded = e.refunded + a /\ n.fee = e.fee
        /\ n.balance = e.balance - a
    BY RefundTotals
  <2> HIDE DEF n
  <2>3. n.balance = n.deposited - n.released - n.refunded - n.fee
    BY <2>1, <2>2
  <2> QED
    BY <2>3 DEF Balanced, n
<1> QED
  BY <1>2, <1>3, <1>4, <1>5

\* A step puts into the row, and into the request's memory, the entity it
\* held, the row itself, or what an operation computed from them.
LEMMA BalanceStep ==
    ASSUME TypeInv, BalanceIdentity, NEW r \in Requests, Step(r)
    PROVE  BalanceIdentity'
<1> DEFINE e == held[r]
           j == job[r]
<1>1. /\ e \in EscrowRow /\ escrow \in EscrowRow /\ j.amount \in Nat
      /\ j.fee \in Nat /\ Balanced(e) /\ Balanced(escrow)
  BY DEF TypeInv, TypeOK, Job, BalanceIdentity
<1>2. Balanced(NewEscrow)
  BY DEF Balanced, NewEscrow
<1>3. /\ \A s : Balanced(WithStatus(escrow, s)) /\ Balanced(WithStatus(e, s))
      /\ Balanced(AfterDeposit(e, j.amount))
      /\ Balanced(AfterRelease(e, j.amount, j.fee))
      /\ Balanced(AfterRefund(e, j.amount))
  BY <1>1, BalancedOps
<1>4. \A s : /\ Balanced(WithStatus(AfterRelease(e, j.amount, j.fee), s))
             /\ Balanced(WithStatus(AfterRefund(e, j.amount), s))
  BY <1>1, <1>3, EntityTypes, BalancedOps
<1>5. Balanced(escrow')
  BY <1>1, <1>3
     DEF Step, Start, SaveAndReturn, table, DepositLoad, LockLoad, CloseLoad,
         ReleaseLoad, RefundLoad, DepositSave, LockSave, CloseSave, Compensate,
         ReleaseSave, RefundSave, SaveDepositRow, SaveFeeRow, SaveReleaseRow,
         SaveRefundRow, ReleasingSave, RefundingSave, FindDeposits, Throw,
         CatchRelease, CatchRefund, Catch
<1>6. Balanced(held'[r])
  <2>1. ASSUME NEW next, NEW c, NEW k, Start(r, next, c, k)
        PROVE  held'[r] = c
    BY <2>1 DEF Start, TypeInv, TypeOK
  <2>2. ASSUME Return(r)
        PROVE  held'[r] = NewEscrow
    BY <2>2 DEF Return, TypeInv, TypeOK
  <2>3. ASSUME NEW c, Catch(r, c)
        PROVE  held'[r] = c
    BY <2>3 DEF Catch, TypeInv, TypeOK
  <2>4. CASE \/ DepositLoad(r) \/ LockLoad(r) \/ CloseLoad(r)
             \/ ReleaseLoad(r) \/ RefundLoad(r)
    BY <1>1, <1>3, <2>1, <2>4
       DEF DepositLoad, LockLoad, CloseLoad, ReleaseLoad, RefundLoad
  <2>5. CASE \/ DepositSave(r) \/ LockSave(r) \/ CloseSave(r) \/ Compensate(r)
             \/ ReleaseSave(r) \/ RefundSave(r) \/ Throw(r)
    BY <1>2, <2>2, <2>5
       DEF DepositSave, LockSave, CloseSave, Compensate, ReleaseSave,
           RefundSave, SaveAndReturn, Throw
  <2>6. CASE CatchRelease(r) \/ CatchRefund(r)
    BY <1>3, <1>4, <2>3, <2>6 DEF CatchRelease, CatchRefund
  <2>7. CASE SaveDepositRow(r)
    BY <1>3, <2>7 DEF SaveDepositRow, TypeInv, TypeOK
  <2>8. CASE FindDeposits(r)
    BY <1>2, <1>3, <2>2, <2>8 DEF FindDeposits, TypeInv, TypeOK
  <2>9. CASE held' = held
    BY <1>1, <2>9
  <2> QED
    BY <2>4, <2>5, <2>6, <2>7, <2>8, <2>9
       DEF Step, SaveFeeRow, SaveReleaseRow, SaveRefundRow, ReleasingSave,
           RefundingSave
<1>7. \A q \in Requests \ {r} : Balanced(held'[q])
  BY OthersUntouched DEF BalanceIdentity
<1> QED
  BY <1>5, <1>6, <1>7 DEF BalanceIdentity, Balanced

\* The formula the entity documents holds of the row and of every copy in
\* memory, with any number of requests and whatever fails.
THEOREM BalanceCorrect == Spec => []BalanceIdentity
<1>1. Init => BalanceIdentity
  BY DEF Init, BalanceIdentity, Balanced, NewEscrow
<1>2. TypeInv /\ BalanceIdentity /\ [Next]_vars => BalanceIdentity'
  <2>1. BalanceIdentity /\ UNCHANGED vars => BalanceIdentity'
    BY DEF vars, BalanceIdentity, Balanced
  <2>2. BalanceIdentity /\ Crash => BalanceIdentity'
    BY DEF Crash, table, BalanceIdentity, Balanced, NewEscrow
  <2> QED
    BY <2>1, <2>2, BalanceStep DEF Next
<1> QED
  BY <1>1, <1>2, TypeAlways, PTL DEF Spec

-----------------------------------------------------------------------------
(* One request at a time                                                    *)

\* What the only request in flight knows of the row: the row still has the
\* status the request found it in, or gave it.
Knows(r) ==
    /\ pc[r] \in {"depositRow", "depositSave"} =>
          escrow.status \in {"created", "active"}
    /\ pc[r] = "lockSave" => escrow.status = "active"
    /\ pc[r] = "closeSave" => escrow.balance <= 0 /\ held[r].status = "closed"
    /\ pc[r] = "releasingSave" => held[r].status = "releasing"
    /\ pc[r] \in {"feeRow", "releaseRow", "releaseSave"} =>
          escrow.status = "releasing"
    /\ pc[r] = "refundingSave" => held[r].status = "refunding"
    /\ pc[r] \in {"refundRow", "refundSave"} => escrow.status = "refunding"
    /\ pc[r] = "compensate" => escrow.status \in {"releasing", "refunding"}

LEMMA KnowsStep ==
    ASSUME TypeInv, NEW r \in Requests, Knows(r), Step(r)
    PROVE  Knows(r)'
<1>1. held[r] \in EscrowRow /\ escrow \in EscrowRow
  BY DEF TypeInv, TypeOK
<1>2. ASSUME NEW next, NEW e, NEW j, Start(r, next, e, j)
      PROVE  pc'[r] = next /\ held'[r] = e /\ escrow' = escrow
  BY <1>2 DEF Start, table, TypeInv, TypeOK
<1>3. ASSUME Return(r)
      PROVE  Knows(r)'
  <2>1. pc'[r] = "idle"
    BY <1>3 DEF Return, TypeInv, TypeOK
  <2> QED
    BY <2>1 DEF Knows
<1>4. \A s : WithStatus(escrow, s).status = s /\ WithStatus(held[r], s).status = s
  BY <1>1, StatusTotals
<1>5. CASE DepositLoad(r) \/ LockLoad(r) \/ RefundLoad(r)
  <2>1. CASE DepositLoad(r)
    BY <1>2, <2>1 DEF DepositLoad, canDeposit, Knows
  <2>2. CASE LockLoad(r)
    BY <1>2, <2>2 DEF LockLoad, Knows
  <2>3. CASE RefundLoad(r)
    BY <1>2, <2>3 DEF RefundLoad, Knows
  <2> QED
    BY <1>5, <2>1, <2>2, <2>3
<1>6. CASE CloseLoad(r)
  <2>1. escrow.balance <= 0
    BY <1>1, <1>6 DEF CloseLoad, EscrowRow
  <2> QED
    BY <1>2, <1>4, <1>6, <2>1 DEF CloseLoad, Knows
<1>7. CASE ReleaseLoad(r)
  BY <1>2, <1>4, <1>7 DEF ReleaseLoad, Knows
<1>8. CASE \/ DepositSave(r) \/ LockSave(r) \/ CloseSave(r) \/ Compensate(r)
           \/ ReleaseSave(r) \/ RefundSave(r) \/ Throw(r)
  BY <1>3, <1>8 DEF DepositSave, LockSave, CloseSave, Compensate, ReleaseSave,
                    RefundSave, SaveAndReturn, Throw
<1>9. CASE SaveDepositRow(r)
  BY <1>9 DEF SaveDepositRow, Knows, TypeInv, TypeOK
<1>10. CASE ReleasingSave(r) \/ SaveFeeRow(r)
  BY <1>10 DEF ReleasingSave, SaveFeeRow, NextReleaseCall, Knows, TypeInv, TypeOK
<1>11. CASE SaveReleaseRow(r)
  BY <1>11 DEF SaveReleaseRow, NextReleaseCall, Knows, TypeInv, TypeOK
<1>12. CASE RefundingSave(r)
  BY <1>12 DEF RefundingSave, Knows, TypeInv, TypeOK
<1>13. CASE SaveRefundRow(r)
  BY <1>13 DEF SaveRefundRow, Knows, TypeInv, TypeOK
<1>14. CASE FindDeposits(r)
  BY <1>3, <1>4, <1>14 DEF FindDeposits, Knows, TypeInv, TypeOK
<1>15. ASSUME NEW e, Catch(r, e), escrow.status \in {"releasing", "refunding"}
       PROVE  Knows(r)'
  BY <1>15 DEF Catch, table, Knows, TypeInv, TypeOK
<1>16. CASE CatchRelease(r) \/ CatchRefund(r)
  BY <1>15, <1>16 DEF CatchRelease, CatchRefund, Knows
<1> QED
  BY <1>5, <1>6, <1>7, <1>8, <1>9, <1>10, <1>11, <1>12, <1>13, <1>14, <1>16
     DEF Step

\* The only step that takes a row out of LOCKED announces a settlement, or
\* closes an account with nothing in it.
LEMMA LockedStep ==
    ASSUME TypeInv, NEW r \in Requests, Knows(r), Step(r),
           escrow.status = "locked"
    PROVE  \/ escrow'.status \in {"locked", "releasing", "refunding"}
           \/ escrow'.status = "closed" /\ escrow.balance <= 0
<1>1. CASE CloseSave(r) \/ ReleasingSave(r) \/ RefundingSave(r)
  BY <1>1 DEF CloseSave, SaveAndReturn, ReleasingSave, RefundingSave, Knows
<1>2. CASE \/ DepositSave(r) \/ LockSave(r) \/ Compensate(r)
           \/ ReleaseSave(r) \/ RefundSave(r)
  BY <1>2 DEF DepositSave, LockSave, Compensate, ReleaseSave, RefundSave, Knows
<1>3. CASE escrow' = escrow
  BY <1>3
<1> QED
  BY <1>1, <1>2, <1>3
     DEF Step, Start, table, DepositLoad, LockLoad, CloseLoad, ReleaseLoad,
         RefundLoad, SaveDepositRow, SaveFeeRow, SaveReleaseRow, SaveRefundRow,
         FindDeposits, Throw, CatchRelease, CatchRefund, Catch

\* Callers that wait for one another never see a locked escrow take deposits
\* again, not even when calls are rejected and the process restarts.  Two
\* callers at a time may: one writes the row it read back over a locked one.
THEOREM LockedSerially ==
    ASSUME NEW r, Requests = {r}
    PROVE  Spec => LockedUntilSettled
<1> DEFINE KnowsInv == Knows(r)
           Settles == escrow.status = "locked" =>
                        \/ escrow'.status \in {"locked", "releasing", "refunding"}
                        \/ escrow'.status = "closed" /\ escrow.balance <= 0
<1>1. r \in Requests /\ \A q \in Requests : q = r
  OBVIOUS
<1>2. Init => KnowsInv
  BY <1>1 DEF Init, Knows
<1>3. TypeInv /\ KnowsInv /\ [Next]_vars => KnowsInv'
  <2>1. KnowsInv /\ UNCHANGED vars => KnowsInv'
    BY DEF vars, Knows
  <2>2. KnowsInv /\ Crash => KnowsInv'
    BY <1>1 DEF Crash, Knows
  <2> QED
    BY <1>1, <2>1, <2>2, KnowsStep DEF Next
<1>4. TypeInv /\ KnowsInv /\ [Next]_vars => [Settles]_vars
  <2>1. Crash => Settles
    BY DEF Crash, table
  <2> QED
    BY <1>1, <2>1, LockedStep DEF Next
<1> HIDE DEF KnowsInv
<1>5. Spec => [][Settles]_vars
  BY <1>2, <1>3, <1>4, TypeAlways, PTL DEF Spec
<1> QED
  BY <1>5 DEF LockedUntilSettled

-----------------------------------------------------------------------------
(* One request at a time, no faults: the row and the log                    *)

\* The entity the only request in flight holds is the row as it is, or what its
\* operation makes of it, and the guard that operation passed still holds.
Fresh(r) ==
    /\ pc[r] \in {"depositRow", "findDeposits", "feeRow", "releaseRow", "releaseSave",
                  "refundRow", "refundSave"} => held[r] = escrow
    /\ pc[r] = "depositSave" => held[r] = AfterDeposit(escrow, job[r].amount)
    /\ pc[r] \in {"depositRow", "depositSave"} =>
         canDeposit(escrow) /\ job[r].amount \in Amounts
    /\ pc[r] = "lockSave" =>
         escrow.status = "active" /\ held[r] = WithStatus(escrow, "locked")
    /\ pc[r] = "closeSave" =>
         escrow.balance <= 0 /\ held[r] = WithStatus(escrow, "closed")
    /\ pc[r] = "releasingSave" =>
         canRelease(escrow) /\ held[r] = WithStatus(escrow, "releasing")
    /\ pc[r] \in {"feeRow", "releaseRow", "releaseSave"} => escrow.status = "releasing"
    /\ pc[r] \in {"findDeposits", "refundingSave"} => canRefund(escrow)
    /\ pc[r] = "refundingSave" => held[r] = WithStatus(escrow, "refunding")
    /\ pc[r] \in {"refundRow", "refundSave"} => escrow.status = "refunding"
    /\ pc[r] # "compensate"

\* What the log is ahead of the row by: what the request has logged and not saved.
Posted(r) ==
    /\ logged.deposit =
         escrow.deposited + (IF pc[r] = "depositSave" THEN job[r].amount ELSE 0)
    /\ logged.release =
         escrow.released + (IF pc[r] \in {"releaseRow", "releaseSave"}
                            THEN job[r].amount - job[r].left ELSE 0)
    /\ logged.fee =
         escrow.fee + (IF pc[r] \in {"releaseRow", "releaseSave"} THEN job[r].fee ELSE 0)
    /\ logged.refund =
         escrow.refunded + (IF pc[r] \in {"refundRow", "refundSave"}
                            THEN job[r].amount ELSE 0)
    /\ pc[r] \in {"releasingSave", "feeRow"} => job[r].left = job[r].amount
    /\ pc[r] = "releaseSave" => job[r].left = 0
    /\ pc[r] \in {"findDeposits", "refundingSave"} => job[r].amount = 0

InStep(r) == Fresh(r) /\ Posted(r)

\* The part of the rows that is of one wallet.
Of(rows, w) == {d \in rows : d.wallet = w}

\* The pot while the only refunds are of all wallets: it is settled once, and whole.
Pot(r) ==
    /\ escrow.balance >= 0
    /\ escrow.status \notin {"released", "closed"} => escrow.released = 0 /\ escrow.fee = 0
    /\ escrow.status \notin {"released", "closed", "refunded"} => escrow.refunded = 0
    /\ pc[r] \in {"releasingSave", "feeRow", "releaseRow", "releaseSave"} =>
         /\ job[r].fee = PlatformFee(escrow)
         /\ job[r].amount + job[r].fee <= escrow.balance

AmountOf(rows) == [d \in rows |-> d.amount]

Counted(rows) == Summable(AmountOf(rows))

\* The deposit rows and what was returned of them.
Returned(r) ==
    /\ SumAmounts(deposits) = logged.deposit
    /\ escrow.status \notin {"refunding", "refunded", "closed"} =>
         \A w \in Wallets : refundedTo[w] = 0
    /\ escrow.status = "refunded" => \A w \in Wallets : refundedTo[w] = DepositedBy(w)
    /\ pc[r] = "findDeposits" => job[r].scope = Wallets
    /\ pc[r] = "refundingSave" => job[r].todo = deposits
    /\ pc[r] \in {"refundRow", "refundSave"} =>
         /\ job[r].todo \subseteq deposits
         /\ job[r].amount + SumAmounts(job[r].todo) = SumAmounts(deposits)
         /\ \A w \in Wallets :
              refundedTo[w] + SumAmounts(Of(job[r].todo, w)) = DepositedBy(w)
    /\ pc[r] = "refundSave" => job[r].todo = {}

Rows == /\ Counted(deposits)
        /\ \A d \in deposits : d.id <= Cardinality(deposits)

LEMMA SumNone == Counted({}) /\ SumAmounts({}) = 0
<1>1. AmountOf({}) \in [{} -> Nat] /\ \A x \in {} : AmountOf({})[x] = 0
  BY DEF AmountOf
<1> QED
  BY <1>1, TotalZero DEF Counted, SumAmounts, AmountOf

LEMMA SumPart ==
    ASSUME NEW rows \in SUBSET DepositRow, Counted(rows), NEW part \in SUBSET rows
    PROVE  Counted(part) /\ SumAmounts(part) \in Nat
<1>1. AmountOf(rows) \in [rows -> Nat]
  BY DEF AmountOf, DepositRow
<1>2. [d \in part |-> AmountOf(rows)[d]] = AmountOf(part)
  BY DEF AmountOf
<1>3. Counted(part)
  BY <1>1, <1>2, TotalPart DEF Counted
<1> QED
  BY <1>3, TotalType DEF Counted, SumAmounts, AmountOf

LEMMA SumAdds ==
    ASSUME NEW rows \in SUBSET DepositRow, Counted(rows), NEW d \in DepositRow, d \notin rows
    PROVE  /\ Counted(rows \cup {d})
           /\ SumAmounts(rows \cup {d}) = SumAmounts(rows) + d.amount
<1> DEFINE g == AmountOf(rows \cup {d})
<1>1. g \in [rows \cup {d} -> Nat] /\ g[d] = d.amount
  BY DEF AmountOf, DepositRow
<1>2. [y \in rows |-> g[y]] = AmountOf(rows)
  BY DEF AmountOf
<1> HIDE DEF g
<1>3. Summable([y \in rows |-> g[y]])
  BY <1>2 DEF Counted
<1>4. Summable(g) /\ Total(g) = Total([y \in rows |-> g[y]]) + g[d]
  BY <1>1, <1>3, TotalAdd
<1>5. Summable(g) /\ Total(g) = Total(AmountOf(rows)) + d.amount
  BY <1>1, <1>2, <1>4
<1> QED
  BY <1>5 DEF Counted, SumAmounts, AmountOf, g

LEMMA SumDrops ==
    ASSUME NEW rows \in SUBSET DepositRow, Counted(rows), NEW d \in rows
    PROVE  SumAmounts(rows) = SumAmounts(rows \ {d}) + d.amount
<1>1. Counted(rows \ {d}) /\ rows \ {d} \in SUBSET DepositRow /\ d \in DepositRow
  BY SumPart
<1>2. (rows \ {d}) \cup {d} = rows
  OBVIOUS
<1> QED
  BY <1>1, <1>2, SumAdds

-----------------------------------------------------------------------------
(* The row and the log agree between requests                               *)

\* The totals of the row are those of the log.
Agree ==
    /\ logged.deposit = escrow.deposited /\ logged.release = escrow.released
    /\ logged.refund = escrow.refunded /\ logged.fee = escrow.fee

LEMMA InStepReturn ==
    ASSUME TypeInv, TypeInv', NEW r \in Requests, Return(r), Agree'
    PROVE  InStep(r)'
<1>1. pc'[r] = "idle"
  BY DEF Return, TypeInv, TypeOK
<1>2. Fresh(r)'
  BY <1>1 DEF Fresh
<1>3. escrow' \in EscrowRow
  BY DEF TypeInv, TypeOK
<1>4. Posted(r)'
  BY <1>1, <1>3 DEF Posted, Agree, EscrowRow
<1> QED
  BY <1>2, <1>4 DEF InStep

\* Where the request has nothing logged that it has not saved.
LEMMA InStepIdle ==
    ASSUME TypeInv, NEW r \in Requests, Posted(r),
           pc[r] \notin {"depositSave", "releaseRow", "releaseSave", "refundRow",
                         "refundSave"}
    PROVE  Agree
BY DEF Posted, Agree, TypeInv, TypeOK, EscrowRow

LEMMA InStepLoads ==
    ASSUME TypeInv, NEW r \in Requests, InStep(r),
           \/ DepositLoad(r) \/ LockLoad(r) \/ CloseLoad(r) \/ ReleaseLoad(r)
           \/ RefundLoad(r)
    PROVE  InStep(r)'
<1>1. escrow \in EscrowRow /\ logged \in Logged
  BY DEF TypeInv, TypeOK
<1>2. ASSUME NEW next, NEW e, NEW j, Start(r, next, e, j)
      PROVE  /\ pc[r] = "idle" /\ pc'[r] = next /\ held'[r] = e /\ job'[r] = j
             /\ escrow' = escrow /\ logged' = logged
  BY <1>2 DEF Start, table, TypeInv, TypeOK
<1>3. pc[r] = "idle" => Agree
  BY InStepIdle DEF InStep
<1>4. ASSUME NEW next \in {"depositRow", "lockSave", "closeSave", "findDeposits"},
             NEW e, NEW j, Start(r, next, e, j), next = "findDeposits" => j.amount = 0
      PROVE  Posted(r)'
  BY <1>1, <1>2, <1>3, <1>4 DEF Posted, Agree, EscrowRow
<1>5. CASE DepositLoad(r)
  <2>1. PICK w \in Wallets, a \in Amounts :
          Start(r, "depositRow", escrow, [NoJob EXCEPT !.scope = {w}, !.amount = a])
    BY <1>5 DEF DepositLoad
  <2>2. [NoJob EXCEPT !.scope = {w}, !.amount = a].amount = a /\ canDeposit(escrow)
    BY <1>5 DEF NoJob, DepositLoad
  <2>3. Fresh(r)'
    BY <1>2, <2>1, <2>2 DEF Fresh, canDeposit
  <2> QED
    BY <1>4, <2>1, <2>3 DEF InStep
<1>6. CASE LockLoad(r)
  <2>1. Fresh(r)'
    BY <1>2, <1>6 DEF LockLoad, Fresh
  <2> QED
    BY <1>4, <1>6, <2>1 DEF LockLoad, InStep
<1>7. CASE CloseLoad(r)
  <2>1. escrow.balance <= 0
    BY <1>1, <1>7 DEF CloseLoad, EscrowRow
  <2>2. Fresh(r)'
    BY <1>2, <1>7, <2>1 DEF CloseLoad, Fresh
  <2> QED
    BY <1>4, <1>7, <2>2 DEF CloseLoad, InStep
<1>8. CASE ReleaseLoad(r)
  <2>1. PICK total \in 0 .. (escrow.balance - PlatformFee(escrow)) :
          Start(r, "releasingSave", WithStatus(escrow, "releasing"),
                [NoJob EXCEPT !.amount = total, !.left = total,
                              !.fee = PlatformFee(escrow)])
    BY <1>8 DEF ReleaseLoad
  <2> DEFINE j == [NoJob EXCEPT !.amount = total, !.left = total,
                                !.fee = PlatformFee(escrow)]
  <2>2. j.amount = total /\ j.left = total
    BY DEF NoJob
  <2> HIDE DEF j
  <2>3. Start(r, "releasingSave", WithStatus(escrow, "releasing"), j)
    BY <2>1 DEF j
  <2>4. Fresh(r)'
    BY <1>2, <1>8, <2>3 DEF ReleaseLoad, Fresh, canRelease
  <2>5. Posted(r)'
    BY <1>1, <1>2, <1>3, <2>2, <2>3 DEF Posted, Agree, EscrowRow
  <2> QED
    BY <2>4, <2>5 DEF InStep
<1>9. CASE RefundLoad(r)
  <2>1. PICK scope \in RefundScopes :
          Start(r, "findDeposits", escrow, [NoJob EXCEPT !.scope = scope])
    BY <1>9 DEF RefundLoad
  <2>2. [NoJob EXCEPT !.scope = scope].amount = 0
    BY DEF NoJob
  <2>3. Fresh(r)'
    BY <1>2, <1>9, <2>1 DEF RefundLoad, Fresh, canRefund
  <2> QED
    BY <1>4, <2>1, <2>2, <2>3 DEF InStep
<1> QED
  BY <1>5, <1>6, <1>7, <1>8, <1>9

LEMMA InStepSaves ==
    ASSUME TypeInv, TypeInv', NEW r \in Requests, InStep(r),
           \/ DepositSave(r) \/ LockSave(r) \/ CloseSave(r) \/ ReleaseSave(r)
           \/ RefundSave(r)
    PROVE  InStep(r)'
<1> DEFINE e == escrow
           j == job[r]
<1>1. /\ e \in EscrowRow /\ held[r] \in EscrowRow /\ logged \in Logged
      /\ j.amount \in Nat /\ j.fee \in Nat
  BY DEF TypeInv, TypeOK, Job
<1>2. Fresh(r) /\ Posted(r)
  BY DEF InStep
<1>3. CASE DepositSave(r)
  <2>1. pc[r] = "depositSave" /\ escrow' = AfterDeposit(e, j.amount)
        /\ logged' = logged /\ Return(r)
    BY <1>2, <1>3 DEF DepositSave, SaveAndReturn, Fresh
  <2>2. Agree'
    BY <1>1, <1>2, <2>1, DepositTotals DEF Posted, Agree, EscrowRow
  <2> QED
    BY <2>1, <2>2, InStepReturn
<1>4. CASE LockSave(r) \/ CloseSave(r)
  <2>1. /\ pc[r] \in {"lockSave", "closeSave"} /\ logged' = logged /\ Return(r)
        /\ escrow' = WithStatus(e, "locked") \/ escrow' = WithStatus(e, "closed")
    BY <1>2, <1>4 DEF LockSave, CloseSave, SaveAndReturn, Fresh
  <2>2. Agree
    BY <1>2, <2>1, InStepIdle
  <2>3. Agree'
    BY <1>1, <2>1, <2>2, StatusTotals DEF Agree
  <2> QED
    BY <2>1, <2>3, InStepReturn
<1>5. CASE ReleaseSave(r)
  <2>1. pc[r] = "releaseSave" /\ escrow' = AfterRelease(e, j.amount, j.fee)
        /\ logged' = logged /\ Return(r)
    BY <1>2, <1>5 DEF ReleaseSave, SaveAndReturn, Fresh
  <2>2. /\ logged.deposit = e.deposited /\ logged.release = e.released + j.amount
        /\ logged.refund = e.refunded /\ logged.fee = e.fee + j.fee
    BY <1>1, <1>2, <2>1 DEF Posted, EscrowRow
  <2>3. /\ escrow'.deposited = e.deposited /\ escrow'.released = e.released + j.amount
        /\ escrow'.refunded = e.refunded /\ escrow'.fee = e.fee + j.fee
    BY <1>1, <2>1, ReleaseTotals
  <2>4. Agree'
    BY <2>1, <2>2, <2>3 DEF Agree
  <2> QED
    BY <2>1, <2>4, InStepReturn
<1>6. CASE RefundSave(r)
  <2>1. pc[r] = "refundSave" /\ escrow' = AfterRefund(e, j.amount)
        /\ logged' = logged /\ Return(r)
    BY <1>2, <1>6 DEF RefundSave, SaveAndReturn, Fresh
  <2>2. Agree'
    BY <1>1, <1>2, <2>1, RefundTotals DEF Posted, Agree, EscrowRow
  <2> QED
    BY <2>1, <2>2, InStepReturn
<1> QED
  BY <1>3, <1>4, <1>5, <1>6

LEMMA InStepReleases ==
    ASSUME TypeInv, TypeInv', NEW r \in Requests, InStep(r),
           ReleasingSave(r) \/ SaveFeeRow(r) \/ SaveReleaseRow(r)
    PROVE  InStep(r)'
<1> DEFINE e == escrow
           j == job[r]
<1>1. /\ e \in EscrowRow /\ logged \in Logged /\ j.amount \in Nat /\ j.fee \in Nat
      /\ j.left \in Nat /\ e.released \in Nat /\ e.fee \in Nat /\ logged.fee \in Nat
      /\ logged.release \in Nat
  BY DEF TypeInv, TypeOK, Job, Logged, EscrowRow
<1>2. Fresh(r) /\ Posted(r)
  BY DEF InStep
<1>3. CASE ReleasingSave(r)
  <2> DEFINE next == IF j.fee > 0 THEN "feeRow" ELSE NextReleaseCall(j.left)
  <2>1. /\ pc[r] = "releasingSave" /\ escrow' = WithStatus(e, "releasing")
        /\ held' = held /\ held[r] = escrow' /\ logged' = logged /\ job' = job
        /\ pc'[r] = next
    BY <1>2, <1>3 DEF ReleasingSave, Fresh, TypeInv, TypeOK
  <2>2. next \in {"feeRow", "releaseRow", "releaseSave"}
        /\ (next # "feeRow" => j.fee = 0) /\ (next = "releaseSave" => j.left = 0)
    BY <1>1 DEF NextReleaseCall
  <2> HIDE DEF next
  <2>3. Fresh(r)'
    BY <1>1, <2>1, <2>2, StatusTotals DEF Fresh
  <2>4. Agree /\ j.left = j.amount
    BY <1>2, <2>1, InStepIdle DEF Posted
  <2>5. /\ escrow'.deposited = e.deposited /\ escrow'.released = e.released
        /\ escrow'.refunded = e.refunded /\ escrow'.fee = e.fee
    BY <1>1, <2>1, StatusTotals
  <2>6. Posted(r)'
    BY <1>1, <2>1, <2>2, <2>4, <2>5 DEF Posted, Agree, EscrowRow
  <2> QED
    BY <2>3, <2>6 DEF InStep
<1>4. CASE SaveFeeRow(r)
  <2> DEFINE next == NextReleaseCall(j.left)
  <2>1. /\ pc[r] = "feeRow" /\ escrow' = escrow /\ held' = held /\ job' = job
        /\ logged' = [logged EXCEPT !.fee = @ + j.fee] /\ pc'[r] = next
    BY <1>4 DEF SaveFeeRow, TypeInv, TypeOK
  <2>2. next \in {"releaseRow", "releaseSave"} /\ (next = "releaseSave" => j.left = 0)
    BY <1>1 DEF NextReleaseCall
  <2> HIDE DEF next
  <2>3. Fresh(r)'
    BY <1>2, <2>1, <2>2 DEF Fresh
  <2>4. Agree /\ j.left = j.amount
    BY <1>2, <2>1, InStepIdle DEF Posted
  <2>5. /\ logged'.deposit = logged.deposit /\ logged'.release = logged.release
        /\ logged'.refund = logged.refund /\ logged'.fee = logged.fee + j.fee
    BY <1>1, <2>1 DEF Logged
  <2>6. Posted(r)'
    BY <1>1, <2>1, <2>2, <2>4, <2>5 DEF Posted, Agree, EscrowRow
  <2> QED
    BY <2>3, <2>6 DEF InStep
<1>5. CASE SaveReleaseRow(r)
  <2>1. PICK a \in 1 .. j.left :
          /\ logged' = [logged EXCEPT !.release = @ + a]
          /\ job' = [job EXCEPT ![r].left = @ - a]
          /\ pc' = [pc EXCEPT ![r] = NextReleaseCall(j.left - a)]
    BY <1>5 DEF SaveReleaseRow
  <2>2. pc[r] = "releaseRow" /\ escrow' = escrow /\ held' = held
    BY <1>5 DEF SaveReleaseRow
  <2> DEFINE next == NextReleaseCall(j.left - a)
  <2>3. next \in {"releaseRow", "releaseSave"} /\ (next = "releaseSave" => j.left - a = 0)
    BY <1>1 DEF NextReleaseCall
  <2>4. pc'[r] = next
    BY <2>1 DEF TypeInv, TypeOK
  <2>5. job'[r].left = j.left - a /\ job'[r].amount = j.amount /\ job'[r].fee = j.fee
    BY <2>1 DEF TypeInv, TypeOK, Job
  <2> HIDE DEF next
  <2>6. Fresh(r)'
    BY <1>2, <2>2, <2>3, <2>4 DEF Fresh
  <2>7. /\ logged'.deposit = logged.deposit /\ logged'.release = logged.release + a
        /\ logged'.refund = logged.refund /\ logged'.fee = logged.fee
    BY <1>1, <2>1 DEF Logged
  <2>8. /\ logged.deposit = e.deposited + 0 /\ logged.refund = e.refunded + 0
        /\ logged.release = e.released + (j.amount - j.left) /\ logged.fee = e.fee + j.fee
    BY <1>2, <2>2 DEF Posted
  <2>9. logged'.release = e.released + (j.amount - (j.left - a))
    BY <1>1, <2>7, <2>8
  <2>10. Posted(r)'
    BY <2>2, <2>3, <2>4, <2>5, <2>7, <2>8, <2>9 DEF Posted
  <2> QED
    BY <2>6, <2>10 DEF InStep
<1> QED
  BY <1>3, <1>4, <1>5

LEMMA InStepRows ==
    ASSUME TypeInv, TypeInv', NEW r \in Requests, InStep(r),
           SaveDepositRow(r) \/ FindDeposits(r) \/ RefundingSave(r) \/ SaveRefundRow(r)
    PROVE  InStep(r)'
<1> DEFINE e == escrow
           j == job[r]
<1>1. /\ e \in EscrowRow /\ logged \in Logged /\ j \in Job /\ j.amount \in Nat
      /\ e.refunded \in Nat /\ logged.refund \in Nat
  BY DEF TypeInv, TypeOK, Job, Logged, EscrowRow
<1>2. Fresh(r) /\ Posted(r)
  BY DEF InStep
<1>3. CASE SaveDepositRow(r)
  <2>1. /\ pc[r] = "depositRow" /\ pc'[r] = "depositSave" /\ escrow' = escrow /\ job' = job
        /\ held'[r] = AfterDeposit(held[r], j.amount)
        /\ logged' = [logged EXCEPT !.deposit = @ + j.amount]
    BY <1>3 DEF SaveDepositRow, TypeInv, TypeOK
  <2>2. Fresh(r)'
    BY <1>2, <2>1 DEF Fresh, canDeposit
  <2>3. Agree
    BY <1>2, <2>1, InStepIdle
  <2>4. /\ logged'.deposit = logged.deposit + j.amount /\ logged'.release = logged.release
        /\ logged'.refund = logged.refund /\ logged'.fee = logged.fee
    BY <1>1, <2>1 DEF Logged
  <2>5. Posted(r)'
    BY <1>1, <2>1, <2>3, <2>4 DEF Posted, Agree, EscrowRow
  <2> QED
    BY <2>2, <2>5 DEF InStep
<1>4. CASE FindDeposits(r)
  <2> DEFINE found == {d \in deposits : d.wallet \in j.scope}
  <2>1. /\ pc[r] = "findDeposits" /\ escrow' = escrow /\ logged' = logged
        /\ \/ /\ pc' = [pc EXCEPT ![r] = "refundingSave"]
              /\ held' = [held EXCEPT ![r] = WithStatus(@, "refunding")]
              /\ job' = [job EXCEPT ![r].todo = found]
           \/ Return(r)
    BY <1>4 DEF FindDeposits, table
  <2> HIDE DEF found
  <2>2. Agree
    BY <1>2, <2>1, InStepIdle
  <2>3. CASE Return(r)
    BY <2>1, <2>2, <2>3, InStepReturn DEF Agree
  <2>4. CASE /\ pc' = [pc EXCEPT ![r] = "refundingSave"]
             /\ held' = [held EXCEPT ![r] = WithStatus(@, "refunding")]
             /\ job' = [job EXCEPT ![r].todo = found]
    <3>1. /\ pc'[r] = "refundingSave" /\ held'[r] = WithStatus(held[r], "refunding")
          /\ job'[r].amount = j.amount
      BY <2>4 DEF TypeInv, TypeOK, Job
    <3>2. Fresh(r)'
      BY <1>2, <2>1, <3>1 DEF Fresh, canRefund
    <3>3. Posted(r)'
      BY <1>1, <1>2, <2>1, <2>2, <3>1 DEF Posted, Agree, EscrowRow
    <3> QED
      BY <3>2, <3>3 DEF InStep
  <2> QED
    BY <2>1, <2>3, <2>4
<1>5. CASE RefundingSave(r)
  <2>1. /\ pc[r] = "refundingSave" /\ escrow' = WithStatus(e, "refunding")
        /\ held' = held /\ held[r] = escrow' /\ logged' = logged /\ job' = job
        /\ pc'[r] = "refundRow"
    BY <1>2, <1>5 DEF RefundingSave, Fresh, TypeInv, TypeOK
  <2>2. Fresh(r)'
    BY <1>1, <2>1, StatusTotals DEF Fresh
  <2>3. Agree /\ j.amount = 0
    BY <1>2, <2>1, InStepIdle DEF Posted
  <2>4. /\ escrow'.deposited = e.deposited /\ escrow'.released = e.released
        /\ escrow'.refunded = e.refunded /\ escrow'.fee = e.fee
    BY <1>1, <2>1, StatusTotals
  <2>5. Posted(r)'
    BY <1>1, <2>1, <2>3, <2>4 DEF Posted, Agree, EscrowRow
  <2> QED
    BY <2>2, <2>5 DEF InStep
<1>6. CASE SaveRefundRow(r)
  <2>1. PICK d \in j.todo :
          /\ logged' = [logged EXCEPT !.refund = @ + d.amount]
          /\ job' = [job EXCEPT ![r].todo = @ \ {d}, ![r].amount = @ + d.amount]
          /\ pc' = [pc EXCEPT ![r] = IF j.todo = {d} THEN "refundSave" ELSE "refundRow"]
    BY <1>6 DEF SaveRefundRow
  <2>2. pc[r] = "refundRow" /\ escrow' = escrow /\ held' = held /\ d.amount \in Nat
    BY <1>1, <1>6 DEF SaveRefundRow, Job, DepositRow
  <2>3. pc'[r] \in {"refundRow", "refundSave"}
    BY <2>1 DEF TypeInv, TypeOK
  <2>4. job'[r].amount = j.amount + d.amount
    BY <2>1 DEF TypeInv, TypeOK, Job
  <2>5. Fresh(r)'
    BY <1>2, <2>2, <2>3 DEF Fresh
  <2>6. /\ logged'.deposit = logged.deposit /\ logged'.release = logged.release
        /\ logged'.refund = logged.refund + d.amount /\ logged'.fee = logged.fee
    BY <1>1, <2>1 DEF Logged
  <2>7. /\ logged.deposit = e.deposited + 0 /\ logged.release = e.released + 0
        /\ logged.refund = e.refunded + j.amount /\ logged.fee = e.fee + 0
    BY <1>2, <2>2 DEF Posted
  <2>8. logged'.refund = e.refunded + (j.amount + d.amount)
    BY <1>1, <2>2, <2>6, <2>7
  <2>9. Posted(r)'
    BY <2>2, <2>3, <2>4, <2>6, <2>7, <2>8 DEF Posted
  <2> QED
    BY <2>5, <2>9 DEF InStep
<1> QED
  BY <1>3, <1>4, <1>5, <1>6

LEMMA InStepStep ==
    ASSUME TypeInv, TypeInv', NEW r \in Requests, MaxFaults = 0, InStep(r), Step(r)
    PROVE  InStep(r)'
<1>1. ~(faults < MaxFaults) /\ pc[r] # "compensate"
  BY DEF TypeInv, TypeOK, InStep, Fresh
<1>2. ~(Throw(r) \/ CatchRelease(r) \/ CatchRefund(r) \/ Compensate(r))
  BY <1>1 DEF Throw, CatchRelease, CatchRefund, Catch, Compensate
<1> QED
  BY <1>2, InStepLoads, InStepSaves, InStepReleases, InStepRows DEF Step

\* Callers that wait for one another and meet no fault find, between requests, the
\* totals of the row to be the sums of the log: depositToEscrow, releaseEscrow and
\* refundEscrow save all that they log, for any deposits, fee and refunds, partial
\* ones too.
THEOREM LogMatchesSerially ==
    ASSUME NEW r, Requests = {r}, MaxFaults = 0
    PROVE  Spec => []RowMatchesLog
<1> DEFINE Alone == InStep(r)
<1>1. r \in Requests /\ \A q \in Requests : q = r
  OBVIOUS
<1>2. Init => Alone
  <2> SUFFICES ASSUME Init
               PROVE  InStep(r)
    OBVIOUS
  <2>1. pc[r] = "idle" /\ Agree /\ escrow \in EscrowRow
    BY <1>1, NewEscrowType DEF Init, Agree, NewEscrow
  <2> QED
    BY <2>1 DEF InStep, Fresh, Posted, Agree, EscrowRow
<1>3. TypeInv /\ TypeInv' /\ Alone /\ [Next]_vars => Alone'
  <2>1. Alone /\ UNCHANGED vars => Alone'
    BY DEF vars, InStep, Fresh, Posted
  <2>2. TypeInv => ~Crash
    BY DEF Crash, TypeInv, TypeOK
  <2> QED
    BY <1>1, <2>1, <2>2, InStepStep DEF Next
<1>4. TypeInv /\ Alone => RowMatchesLog
  <2>1. TypeInv /\ Alone /\ pc[r] = "idle" => Agree
    BY <1>1, InStepIdle DEF InStep
  <2> QED
    BY <1>1, <2>1 DEF RowMatchesLog, Quiescent, Agree
<1> HIDE DEF Alone
<1> QED
  BY <1>2, <1>3, <1>4, TypeAlways, PTL DEF Spec

-----------------------------------------------------------------------------
(* The pot is settled once and whole                                        *)

LEMMA SaveDepositRowAdds ==
    ASSUME TypeInv, Rows, NEW r \in Requests, SaveDepositRow(r)
    PROVE  /\ Rows'
           /\ SumAmounts(deposits') = SumAmounts(deposits) + job[r].amount
<1> DEFINE n == Cardinality(deposits)
<1>1. /\ deposits \in SUBSET DepositRow /\ IsFiniteSet(deposits) /\ n \in Nat
      /\ job[r].amount \in Nat /\ job[r].scope \in SUBSET Wallets
  BY FS_CardinalityType DEF TypeInv, TypeOK, Job
<1>2. PICK w \in job[r].scope :
        deposits' = deposits \cup {[id |-> n + 1, wallet |-> w, amount |-> job[r].amount]}
  BY DEF SaveDepositRow
<1> DEFINE d == [id |-> n + 1, wallet |-> w, amount |-> job[r].amount]
<1>3. d \in DepositRow /\ d.id = n + 1 /\ d.amount = job[r].amount
  BY <1>1 DEF DepositRow
<1>4. deposits' = deposits \cup {d}
  BY <1>2
<1> HIDE DEF d
<1>5. d \notin deposits
  BY <1>1, <1>3 DEF Rows
<1>6. Cardinality(deposits') = n + 1
  BY <1>1, <1>4, <1>5, FS_AddElement
<1>7. /\ Counted(deposits')
      /\ SumAmounts(deposits') = SumAmounts(deposits) + d.amount
  BY <1>1, <1>3, <1>4, <1>5, SumAdds DEF Rows
<1>8. \A x \in deposits : x.id <= n /\ x.id \in Nat
  BY <1>1 DEF Rows, DepositRow
<1> HIDE DEF n
<1>9. \A x \in deposits' : x.id <= n + 1
  BY <1>1, <1>3, <1>4, <1>8
<1> QED
  BY <1>3, <1>6, <1>7, <1>9 DEF Rows

LEMMA RowsStep ==
    ASSUME TypeInv, Rows, NEW r \in Requests, Step(r)
    PROVE  Rows'
<1>1. CASE SaveDepositRow(r)
  BY <1>1, SaveDepositRowAdds
<1>2. CASE deposits' = deposits
  BY <1>2 DEF Rows, Counted
<1> QED
  BY <1>1, <1>2
     DEF Step, Start, SaveAndReturn, table, DepositLoad, LockLoad, CloseLoad,
         ReleaseLoad, RefundLoad, DepositSave, LockSave, CloseSave, Compensate,
         ReleaseSave, RefundSave, SaveFeeRow, SaveReleaseRow, SaveRefundRow,
         ReleasingSave, RefundingSave, FindDeposits, Throw, CatchRelease,
         CatchRefund, Catch

\* What is known of the only request in flight and of the rows.
Settling(r) ==
    TypeInv /\ Rows /\ BalanceIdentity /\ InStep(r) /\ Pot(r) /\ Returned(r)

\* A request ends, and the row is what it was or what its last save made it.
LEMMA PotReturn ==
    ASSUME TypeInv, NEW r \in Requests, Return(r), Returned(r),
           UNCHANGED <<deposits, refundedTo, logged>>,
           escrow'.balance >= 0,
           escrow'.status \notin {"released", "closed"} =>
             escrow'.released = 0 /\ escrow'.fee = 0,
           escrow'.status \notin {"released", "closed", "refunded"} => escrow'.refunded = 0,
           escrow'.status \notin {"refunding", "refunded", "closed"} =>
             \A w \in Wallets : refundedTo[w] = 0,
           escrow'.status = "refunded" => \A w \in Wallets : refundedTo[w] = DepositedBy(w)
    PROVE  Pot(r)' /\ Returned(r)'
<1>1. pc'[r] = "idle"
  BY DEF Return, TypeInv, TypeOK
<1>2. Pot(r)'
  BY <1>1 DEF Pot
<1> QED
  BY <1>1, <1>2 DEF Returned, DepositedBy

LEMMA PotLoads ==
    ASSUME NEW r \in Requests, Settling(r), RefundScopes = {Wallets},
           \/ DepositLoad(r) \/ LockLoad(r) \/ CloseLoad(r) \/ ReleaseLoad(r)
           \/ RefundLoad(r)
    PROVE  Pot(r)' /\ Returned(r)'
<1>1. /\ escrow \in EscrowRow /\ escrow.balance \in Int /\ Pot(r) /\ Returned(r)
      /\ TypeInv
  BY DEF Settling, TypeInv, TypeOK, EscrowRow
<1>2. ASSUME NEW next, NEW e, NEW j, Start(r, next, e, j)
      PROVE  /\ pc'[r] = next /\ job'[r] = j
             /\ UNCHANGED <<escrow, deposits, refundedTo, logged>>
  BY <1>1, <1>2 DEF Start, table, TypeInv, TypeOK
<1>3. ASSUME NEW next \in {"depositRow", "lockSave", "closeSave", "findDeposits"},
             NEW e, NEW j, Start(r, next, e, j), next = "findDeposits" => j.scope = Wallets
      PROVE  Pot(r)' /\ Returned(r)'
  <2>1. Pot(r)'
    BY <1>1, <1>2, <1>3 DEF Pot
  <2> QED
    BY <1>1, <1>2, <1>3, <2>1 DEF Returned, DepositedBy
<1>4. CASE DepositLoad(r) \/ LockLoad(r) \/ CloseLoad(r)
  BY <1>3, <1>4 DEF DepositLoad, LockLoad, CloseLoad
<1>5. CASE RefundLoad(r)
  <2>1. PICK scope \in RefundScopes :
          Start(r, "findDeposits", escrow, [NoJob EXCEPT !.scope = scope])
    BY <1>5 DEF RefundLoad
  <2>2. [NoJob EXCEPT !.scope = scope].scope = Wallets
    BY DEF NoJob
  <2> QED
    BY <1>3, <2>1, <2>2
<1>6. CASE ReleaseLoad(r)
  <2> DEFINE fee == PlatformFee(escrow)
  <2>1. PICK total \in 0 .. (escrow.balance - fee) :
          Start(r, "releasingSave", WithStatus(escrow, "releasing"),
                [NoJob EXCEPT !.amount = total, !.left = total, !.fee = fee])
    BY <1>6 DEF ReleaseLoad
  <2> DEFINE j == [NoJob EXCEPT !.amount = total, !.left = total, !.fee = fee]
  <2>2. j.amount = total /\ j.fee = fee
    BY DEF NoJob
  <2> HIDE DEF j
  <2>3. Start(r, "releasingSave", WithStatus(escrow, "releasing"), j)
    BY <2>1 DEF j
  <2>4. fee \in Nat
    BY <1>1, <1>6, FeeOfBalance DEF ReleaseLoad, canRelease
  <2>5. total + fee <= escrow.balance
    <3> HIDE DEF fee
    <3> QED
      BY <1>1, <2>4
  <2>6. Pot(r)'
    BY <1>1, <1>2, <2>2, <2>3, <2>5 DEF Pot, PlatformFee
  <2>7. Returned(r)'
    BY <1>1, <1>2, <2>3 DEF Returned, DepositedBy
  <2> QED
    BY <2>6, <2>7
<1> QED
  BY <1>4, <1>5, <1>6

LEMMA StatusesAfter ==
    ASSUME NEW e \in EscrowRow, NEW a \in Nat, NEW f \in Nat
    PROVE  /\ AfterDeposit(e, a).status =
                IF e.status = "created" THEN "active" ELSE e.status
           /\ AfterRelease(e, a, f).status = "released"
           /\ e.balance = a => AfterRefund(e, a).status = "refunded"
BY DEF EscrowRow, AfterDeposit, AfterRelease, AfterRefund

\* What a refund returned is the whole pot.
LEMMA RefundIsPot ==
    ASSUME NEW r \in Requests, Settling(r), pc[r] = "refundSave"
    PROVE  /\ job[r].amount = escrow.balance
           /\ \A w \in Wallets : refundedTo[w] = DepositedBy(w)
<1>1. /\ escrow.status = "refunding" /\ logged.deposit = escrow.deposited + 0
      /\ Balanced(escrow) /\ job[r].todo = {}
      /\ escrow.released = 0 /\ escrow.fee = 0 /\ escrow.refunded = 0
  BY DEF Settling, InStep, Fresh, Posted, Pot, Returned, BalanceIdentity
<1>2. /\ job[r].amount + SumAmounts(job[r].todo) = logged.deposit
      /\ \A w \in Wallets :
           refundedTo[w] + SumAmounts(Of(job[r].todo, w)) = DepositedBy(w)
  BY DEF Settling, Returned
<1>3. \A w \in Wallets : Of(job[r].todo, w) = {}
  BY <1>1 DEF Of
<1>4. escrow \in EscrowRow /\ job[r].amount \in Nat /\ refundedTo \in [Wallets -> Nat]
  BY DEF Settling, TypeInv, TypeOK, Job
<1>5. escrow.balance = escrow.deposited
  BY <1>1, <1>4 DEF Balanced, EscrowRow
<1>6. job[r].amount = escrow.balance
  BY <1>1, <1>2, <1>4, <1>5, SumNone DEF EscrowRow
<1>7. ASSUME NEW w \in Wallets
      PROVE  refundedTo[w] = DepositedBy(w)
  <2>1. refundedTo[w] \in Nat /\ refundedTo[w] + 0 = DepositedBy(w)
    BY <1>2, <1>3, <1>4, SumNone
  <2> QED
    BY <2>1
<1> QED
  BY <1>6, <1>7

LEMMA PotSaves ==
    ASSUME NEW r \in Requests, Settling(r),
           \/ DepositSave(r) \/ LockSave(r) \/ CloseSave(r) \/ ReleaseSave(r)
           \/ RefundSave(r)
    PROVE  Pot(r)' /\ Returned(r)'
<1> DEFINE e == escrow
           j == job[r]
<1>1. /\ e \in EscrowRow /\ j.amount \in Nat /\ j.fee \in Nat /\ e.balance \in Int
      /\ TypeInv /\ Pot(r) /\ Returned(r) /\ Fresh(r) /\ Posted(r)
  BY DEF Settling, InStep, TypeInv, TypeOK, Job, EscrowRow
<1>2. CASE DepositSave(r)
  <2>1. pc[r] = "depositSave" /\ escrow' = AfterDeposit(e, j.amount) /\ Return(r)
        /\ UNCHANGED <<deposits, refundedTo, logged>> /\ e.status \in {"created", "active"}
    BY <1>1, <1>2 DEF DepositSave, SaveAndReturn, Fresh, canDeposit
  <2>2. /\ escrow'.status = "active" /\ escrow'.balance = e.balance + j.amount
        /\ escrow'.released = e.released /\ escrow'.fee = e.fee
        /\ escrow'.refunded = e.refunded
    BY <1>1, <2>1, DepositTotals, StatusesAfter
  <2>3. /\ e.balance >= 0 /\ e.released = 0 /\ e.fee = 0 /\ e.refunded = 0
        /\ \A w \in Wallets : refundedTo[w] = 0
    BY <1>1, <2>1 DEF Pot, Returned
  <2>4. escrow'.balance >= 0
    BY <1>1, <2>2, <2>3
  <2> QED
    BY <1>1, <2>1, <2>2, <2>3, <2>4, PotReturn
<1>3. CASE LockSave(r)
  <2>1. e.status = "active" /\ escrow' = WithStatus(e, "locked") /\ Return(r)
        /\ UNCHANGED <<deposits, refundedTo, logged>>
    BY <1>1, <1>3 DEF LockSave, SaveAndReturn, Fresh
  <2>2. /\ escrow'.status = "locked" /\ escrow'.balance = e.balance
        /\ escrow'.released = e.released /\ escrow'.fee = e.fee
        /\ escrow'.refunded = e.refunded
    BY <1>1, <2>1, StatusTotals
  <2>3. /\ e.balance >= 0 /\ e.released = 0 /\ e.fee = 0 /\ e.refunded = 0
        /\ \A w \in Wallets : refundedTo[w] = 0
    BY <1>1, <2>1 DEF Pot, Returned
  <2> QED
    BY <1>1, <2>1, <2>2, <2>3, PotReturn
<1>4. CASE CloseSave(r)
  <2>1. escrow' = WithStatus(e, "closed") /\ Return(r)
        /\ UNCHANGED <<deposits, refundedTo, logged>>
    BY <1>1, <1>4 DEF CloseSave, SaveAndReturn, Fresh
  <2>2. escrow'.status = "closed" /\ escrow'.balance = e.balance
    BY <1>1, <2>1, StatusTotals
  <2>3. e.balance >= 0
    BY <1>1 DEF Pot
  <2> QED
    BY <1>1, <2>1, <2>2, <2>3, PotReturn
<1>5. CASE ReleaseSave(r)
  <2>1. pc[r] = "releaseSave" /\ escrow' = AfterRelease(e, j.amount, j.fee) /\ Return(r)
        /\ UNCHANGED <<deposits, refundedTo, logged>> /\ e.status = "releasing"
    BY <1>1, <1>5 DEF ReleaseSave, SaveAndReturn, Fresh
  <2>2. escrow'.status = "released" /\ escrow'.balance = e.balance - j.amount - j.fee
    BY <1>1, <2>1, ReleaseTotals, StatusesAfter
  <2>3. j.amount + j.fee <= e.balance /\ \A w \in Wallets : refundedTo[w] = 0
    BY <1>1, <2>1 DEF Pot, Returned
  <2>4. escrow'.balance >= 0
    BY <1>1, <2>2, <2>3
  <2> QED
    BY <1>1, <2>1, <2>2, <2>3, <2>4, PotReturn
<1>6. CASE RefundSave(r)
  <2>1. pc[r] = "refundSave" /\ escrow' = AfterRefund(e, j.amount) /\ Return(r)
        /\ UNCHANGED <<deposits, refundedTo, logged>> /\ e.status = "refunding"
    BY <1>1, <1>6 DEF RefundSave, SaveAndReturn, Fresh
  <2>2. j.amount = e.balance /\ \A w \in Wallets : refundedTo[w] = DepositedBy(w)
    BY <2>1, RefundIsPot
  <2>3. /\ escrow'.status = "refunded" /\ escrow'.balance = e.balance - j.amount
        /\ escrow'.released = e.released /\ escrow'.fee = e.fee
    BY <1>1, <2>1, <2>2, RefundTotals, StatusesAfter
  <2>4. e.released = 0 /\ e.fee = 0
    BY <1>1, <2>1 DEF Pot
  <2>5. escrow'.balance >= 0
    BY <1>1, <2>2, <2>3
  <2> QED
    BY <1>1, <2>1, <2>2, <2>3, <2>4, <2>5, PotReturn
<1> QED
  BY <1>2, <1>3, <1>4, <1>5, <1>6

LEMMA PotReleases ==
    ASSUME NEW r \in Requests, Settling(r),
           \/ ReleasingSave(r) \/ SaveFeeRow(r) \/ SaveReleaseRow(r) \/ SaveDepositRow(r)
    PROVE  Pot(r)' /\ Returned(r)'
<1> DEFINE e == escrow
           j == job[r]
<1>1. /\ e \in EscrowRow /\ j \in Job /\ logged \in Logged
      /\ TypeInv /\ Rows /\ Pot(r) /\ Returned(r) /\ Fresh(r) /\ Posted(r)
  BY DEF Settling, InStep, TypeInv, TypeOK
<1>2. CASE ReleasingSave(r)
  <2>1. /\ pc[r] = "releasingSave" /\ escrow' = WithStatus(e, "releasing")
        /\ UNCHANGED <<deposits, refundedTo, logged, job>> /\ e.status = "locked"
    BY <1>1, <1>2 DEF ReleasingSave, Fresh, canRelease
  <2>2. pc'[r] \in {"feeRow", "releaseRow", "releaseSave"}
    BY <1>1, <1>2 DEF ReleasingSave, NextReleaseCall, TypeInv, TypeOK
  <2>3. /\ escrow'.status = "releasing" /\ escrow'.balance = e.balance
        /\ escrow'.released = e.released /\ escrow'.fee = e.fee
        /\ escrow'.refunded = e.refunded
    BY <1>1, <2>1, StatusTotals
  <2>4. Pot(r)'
    BY <1>1, <2>1, <2>2, <2>3 DEF Pot, PlatformFee
  <2>5. Returned(r)'
    BY <1>1, <2>1, <2>2, <2>3 DEF Returned, DepositedBy
  <2> QED
    BY <2>4, <2>5
<1>3. CASE SaveFeeRow(r) \/ SaveReleaseRow(r)
  <2>1. /\ pc[r] \in {"feeRow", "releaseRow"} /\ UNCHANGED <<escrow, deposits, refundedTo>>
        /\ e.status = "releasing"
    BY <1>1, <1>3 DEF SaveFeeRow, SaveReleaseRow, Fresh
  <2>2. pc'[r] \in {"releaseRow", "releaseSave"}
    BY <1>1, <1>3 DEF SaveFeeRow, SaveReleaseRow, NextReleaseCall, TypeInv, TypeOK
  <2>3. job'[r].fee = j.fee /\ job'[r].amount = j.amount
    BY <1>1, <1>3 DEF SaveFeeRow, SaveReleaseRow, TypeInv, TypeOK, Job
  <2>4. logged'.deposit = logged.deposit
    BY <1>1, <1>3 DEF SaveFeeRow, SaveReleaseRow, Logged
  <2>5. Pot(r)'
    BY <1>1, <2>1, <2>2, <2>3 DEF Pot, PlatformFee
  <2>6. Returned(r)'
    BY <1>1, <2>1, <2>2, <2>4 DEF Returned, DepositedBy
  <2> QED
    BY <2>5, <2>6
<1>4. CASE SaveDepositRow(r)
  <2>1. /\ pc[r] = "depositRow" /\ pc'[r] = "depositSave"
        /\ UNCHANGED <<escrow, refundedTo>> /\ e.status \in {"created", "active"}
        /\ logged' = [logged EXCEPT !.deposit = @ + j.amount]
    BY <1>1, <1>4 DEF SaveDepositRow, Fresh, canDeposit, TypeInv, TypeOK
  <2>2. logged'.deposit = logged.deposit + j.amount
    BY <1>1, <2>1 DEF Logged
  <2>3. SumAmounts(deposits') = SumAmounts(deposits) + j.amount
    BY <1>1, <1>4, SaveDepositRowAdds
  <2>4. Pot(r)'
    BY <1>1, <2>1 DEF Pot
  <2>5. SumAmounts(deposits)' = logged'.deposit
    BY <1>1, <2>2, <2>3 DEF Returned
  <2>6. Returned(r)'
    BY <1>1, <2>1, <2>5 DEF Returned
  <2> QED
    BY <2>4, <2>6
<1> QED
  BY <1>2, <1>3, <1>4

\* One deposit is returned: what is left to return shrinks by it, in all and for
\* its wallet.
LEMMA RefundMoves ==
    ASSUME NEW todo \in SUBSET DepositRow, Counted(todo), NEW d \in todo
    PROVE  /\ SumAmounts(todo) = SumAmounts(todo \ {d}) + d.amount
           /\ SumAmounts(Of(todo, d.wallet))
                = SumAmounts(Of(todo \ {d}, d.wallet)) + d.amount
           /\ \A w : w # d.wallet => Of(todo \ {d}, w) = Of(todo, w)
           /\ \A w : SumAmounts(Of(todo \ {d}, w)) \in Nat
           /\ SumAmounts(todo \ {d}) \in Nat
<1>1. \A w : Of(todo, w) \in SUBSET todo /\ Of(todo \ {d}, w) \in SUBSET todo
  BY DEF Of
<1>2. Of(todo, d.wallet) \ {d} = Of(todo \ {d}, d.wallet) /\ d \in Of(todo, d.wallet)
  BY DEF Of
<1>3. Counted(Of(todo, d.wallet)) /\ Of(todo, d.wallet) \in SUBSET DepositRow
  BY <1>1, SumPart
<1>4. SumAmounts(Of(todo, d.wallet)) = SumAmounts(Of(todo, d.wallet) \ {d}) + d.amount
  BY <1>2, <1>3, SumDrops
<1>5. \A w : w # d.wallet => Of(todo \ {d}, w) = Of(todo, w)
  BY DEF Of
<1>6. \A w : SumAmounts(Of(todo \ {d}, w)) \in Nat
  BY <1>1, SumPart
<1>7. SumAmounts(todo \ {d}) \in Nat
  BY SumPart
<1> QED
  BY <1>2, <1>4, <1>5, <1>6, <1>7, SumDrops

LEMMA PotRefunds ==
    ASSUME NEW r \in Requests, Settling(r),
           FindDeposits(r) \/ RefundingSave(r) \/ SaveRefundRow(r)
    PROVE  Pot(r)' /\ Returned(r)'
<1> DEFINE e == escrow
           j == job[r]
<1>1. /\ e \in EscrowRow /\ j \in Job /\ logged \in Logged /\ j.amount \in Nat
      /\ deposits \in SUBSET DepositRow /\ refundedTo \in [Wallets -> Nat]
      /\ TypeInv /\ Rows /\ Pot(r) /\ Returned(r) /\ Fresh(r) /\ Posted(r)
  BY DEF Settling, InStep, TypeInv, TypeOK, Job
<1>2. CASE FindDeposits(r)
  <2> DEFINE found == {d \in deposits : d.wallet \in j.scope}
  <2>1. pc[r] = "findDeposits" /\ UNCHANGED table
    BY <1>2 DEF FindDeposits
  <2>2. found = deposits
    <3>1. j.scope = Wallets
      BY <1>1, <2>1 DEF Returned
    <3> QED
      BY <1>1, <3>1 DEF DepositRow
  <2>3. \/ Return(r)
        \/ /\ pc' = [pc EXCEPT ![r] = "refundingSave"]
           /\ job' = [job EXCEPT ![r].todo = found]
    BY <1>2 DEF FindDeposits
  <2> HIDE DEF found
  <2>4. CASE Return(r)
    <3>1. pc'[r] = "idle"
      BY <1>1, <2>4 DEF Return, TypeInv, TypeOK
    <3>2. Pot(r)'
      BY <1>1, <2>1, <3>1 DEF Pot, table
    <3> QED
      BY <1>1, <2>1, <3>1, <3>2 DEF Returned, DepositedBy, table
  <2>5. CASE /\ pc' = [pc EXCEPT ![r] = "refundingSave"]
             /\ job' = [job EXCEPT ![r].todo = found]
    <3>1. pc'[r] = "refundingSave" /\ job'[r].todo = deposits
      BY <1>1, <2>2, <2>5 DEF TypeInv, TypeOK, Job
    <3>2. Pot(r)'
      BY <1>1, <2>1, <3>1 DEF Pot, table
    <3> QED
      BY <1>1, <2>1, <3>1, <3>2 DEF Returned, DepositedBy, table
  <2> QED
    BY <2>3, <2>4, <2>5
<1>3. CASE RefundingSave(r)
  <2>1. /\ pc[r] = "refundingSave" /\ pc'[r] = "refundRow"
        /\ escrow' = WithStatus(e, "refunding") /\ e.status \in {"active", "locked"}
        /\ UNCHANGED <<deposits, refundedTo, logged, job>>
    BY <1>1, <1>3 DEF RefundingSave, Fresh, canRefund, TypeInv, TypeOK
  <2>2. /\ escrow'.status = "refunding" /\ escrow'.balance = e.balance
        /\ escrow'.released = e.released /\ escrow'.fee = e.fee
        /\ escrow'.refunded = e.refunded
    BY <1>1, <2>1, StatusTotals
  <2>3. Pot(r)'
    BY <1>1, <2>1, <2>2 DEF Pot
  <2>4. j.amount = 0 /\ j.todo = deposits /\ \A w \in Wallets : refundedTo[w] = 0
    BY <1>1, <2>1 DEF Posted, Returned
  <2>5. SumAmounts(deposits) \in Nat /\ \A w : SumAmounts(Of(deposits, w)) \in Nat
    <3>1. \A w : Of(deposits, w) \in SUBSET deposits
      BY DEF Of
    <3> QED
      BY <1>1, <3>1, SumPart DEF Rows
  <2>6. \A w : DepositedBy(w) = SumAmounts(Of(deposits, w))
    BY DEF DepositedBy, Of
  <2>7. /\ j.amount + SumAmounts(j.todo) = SumAmounts(deposits)
        /\ \A w \in Wallets :
             refundedTo[w] + SumAmounts(Of(j.todo, w)) = DepositedBy(w)
    BY <2>4, <2>5, <2>6
  <2>8. Returned(r)'
    BY <1>1, <2>1, <2>2, <2>4, <2>7 DEF Returned, DepositedBy
  <2> QED
    BY <2>3, <2>8
<1>4. CASE SaveRefundRow(r)
  <2>1. PICK d \in j.todo :
          /\ logged' = [logged EXCEPT !.refund = @ + d.amount]
          /\ refundedTo' = [refundedTo EXCEPT ![d.wallet] = @ + d.amount]
          /\ job' = [job EXCEPT ![r].todo = @ \ {d}, ![r].amount = @ + d.amount]
          /\ pc' = [pc EXCEPT ![r] = IF j.todo = {d} THEN "refundSave" ELSE "refundRow"]
    BY <1>4 DEF SaveRefundRow
  <2>2. pc[r] = "refundRow" /\ UNCHANGED <<escrow, deposits>> /\ e.status = "refunding"
    BY <1>1, <1>4 DEF SaveRefundRow, Fresh
  <2>3. /\ pc'[r] \in {"refundRow", "refundSave"}
        /\ pc'[r] = "refundSave" => j.todo \ {d} = {}
    BY <1>1, <2>1 DEF TypeInv, TypeOK
  <2>4. job'[r].todo = j.todo \ {d} /\ job'[r].amount = j.amount + d.amount
    BY <1>1, <2>1 DEF TypeInv, TypeOK, Job
  <2>5. logged'.deposit = logged.deposit
    BY <1>1, <2>1 DEF Logged
  <2>6. Pot(r)'
    BY <1>1, <2>2, <2>3 DEF Pot
  <2>7. /\ j.todo \in SUBSET DepositRow /\ d \in DepositRow /\ d.amount \in Nat
        /\ d.wallet \in Wallets /\ j.todo \subseteq deposits /\ Counted(j.todo)
    <3>1. j.todo \in SUBSET DepositRow /\ j.todo \in SUBSET deposits
      BY <1>1, <2>2 DEF Job, Returned
    <3> QED
      BY <1>1, <3>1, SumPart DEF DepositRow, Rows
  <2>8. /\ SumAmounts(j.todo) = SumAmounts(j.todo \ {d}) + d.amount
        /\ SumAmounts(Of(j.todo, d.wallet))
             = SumAmounts(Of(j.todo \ {d}, d.wallet)) + d.amount
        /\ \A w : w # d.wallet => Of(j.todo \ {d}, w) = Of(j.todo, w)
        /\ \A w : SumAmounts(Of(j.todo \ {d}, w)) \in Nat
        /\ SumAmounts(j.todo \ {d}) \in Nat
    BY <2>7, RefundMoves
  <2>9. /\ j.amount + SumAmounts(j.todo) = SumAmounts(deposits)
        /\ \A w \in Wallets :
             refundedTo[w] + SumAmounts(Of(j.todo, w)) = DepositedBy(w)
    BY <1>1, <2>2 DEF Returned
  <2>10. j.amount + d.amount + SumAmounts(j.todo \ {d}) = SumAmounts(deposits)
    BY <1>1, <2>7, <2>8, <2>9
  <2>11. ASSUME NEW w \in Wallets
         PROVE  refundedTo'[w] + SumAmounts(Of(j.todo \ {d}, w)) = DepositedBy(w)
    <3>1. CASE w = d.wallet
      <4>1. refundedTo'[w] = refundedTo[w] + d.amount
        BY <1>1, <2>1, <3>1
      <4>2. SumAmounts(Of(j.todo, w)) = SumAmounts(Of(j.todo \ {d}, w)) + d.amount
        BY <2>8, <3>1
      <4>3. refundedTo[w] + SumAmounts(Of(j.todo, w)) = DepositedBy(w)
        BY <2>9
      <4>4. /\ refundedTo[w] \in Nat /\ d.amount \in Nat
            /\ SumAmounts(Of(j.todo \ {d}, w)) \in Nat
        BY <1>1, <2>7, <2>8
      <4> QED
        BY <4>1, <4>2, <4>3, <4>4
    <3>2. CASE w # d.wallet
      <4>1. refundedTo'[w] = refundedTo[w]
        BY <1>1, <2>1, <3>2
      <4> QED
        BY <2>8, <2>9, <3>2, <4>1
    <3> QED
      BY <3>1, <3>2
  <2>12. SumAmounts(deposits) = logged.deposit
    BY <1>1 DEF Returned
  <2>13. Returned(r)'
    BY <2>2, <2>3, <2>4, <2>5, <2>7, <2>10, <2>11, <2>12 DEF Returned, DepositedBy
  <2> QED
    BY <2>6, <2>13
<1> QED
  BY <1>2, <1>3, <1>4

LEMMA SettlingStep ==
    ASSUME NEW r \in Requests, MaxFaults = 0, RefundScopes = {Wallets}, Settling(r),
           Step(r)
    PROVE  Settling(r)'
<1>1. TypeInv /\ Rows /\ BalanceIdentity /\ InStep(r)
  BY DEF Settling
<1>2. TypeInv' /\ Rows' /\ BalanceIdentity'
  BY <1>1, TypeStep, RowsStep, BalanceStep
<1>3. InStep(r)'
  BY <1>1, <1>2, InStepStep
<1>4. ~(faults < MaxFaults) /\ pc[r] # "compensate"
  BY <1>1 DEF TypeInv, TypeOK, InStep, Fresh
<1>5. ~(Throw(r) \/ CatchRelease(r) \/ CatchRefund(r) \/ Compensate(r))
  BY <1>4 DEF Throw, CatchRelease, CatchRefund, Catch, Compensate
<1>6. Pot(r)' /\ Returned(r)'
  BY <1>5, PotLoads, PotSaves, PotReleases, PotRefunds DEF Step
<1> QED
  BY <1>2, <1>3, <1>6 DEF Settling

LEMMA SettlingInit ==
    ASSUME NEW r \in Requests, Init
    PROVE  Settling(r)
<1>1. TypeInv /\ deposits = {} /\ pc[r] = "idle"
  BY TypeInit DEF Init
<1>2. Rows
  BY <1>1, SumNone DEF Rows
<1>3. BalanceIdentity
  BY DEF Init, BalanceIdentity, Balanced, NewEscrow
<1>4. Agree /\ escrow \in EscrowRow
  BY <1>1 DEF Init, Agree, NewEscrow, TypeInv, TypeOK
<1>5. InStep(r)
  BY <1>1, <1>4 DEF InStep, Fresh, Posted, Agree, EscrowRow
<1>6. Pot(r)
  BY <1>1 DEF Init, Pot, NewEscrow
<1>7. Returned(r)
  BY <1>1, SumNone DEF Init, Returned, NewEscrow
<1> QED
  BY <1>1, <1>2, <1>3, <1>5, <1>6, <1>7 DEF Settling

LEMMA SettlingAlways ==
    ASSUME NEW r, Requests = {r}, MaxFaults = 0, RefundScopes = {Wallets}
    PROVE  Spec => []Settling(r)
<1> DEFINE Alone == Settling(r)
<1>1. r \in Requests /\ \A q \in Requests : q = r
  OBVIOUS
<1>2. Init => Alone
  BY <1>1, SettlingInit
<1>3. Alone /\ [Next]_vars => Alone'
  <2>1. Alone /\ UNCHANGED vars => Alone'
    BY TypeNext
       DEF vars, Settling, Rows, Counted, BalanceIdentity, InStep, Fresh, Posted, Pot,
           Returned, DepositedBy, TypeInv, TypeOK
  <2>2. Alone => ~Crash
    BY DEF Crash, Settling, TypeInv, TypeOK
  <2> QED
    BY <1>1, <2>1, <2>2, SettlingStep DEF Next
<1> HIDE DEF Alone
<1>4. Spec => []Alone
  BY <1>2, <1>3, PTL DEF Spec
<1> QED
  BY <1>4 DEF Alone

\* Callers that wait for one another and meet no fault settle a pot completely:
\* releaseEscrow leaves RELEASE or PLATFORM_FEE rows only behind a row that is
\* RELEASED, and refundEscrow of everyone returns to each wallet what it paid in.
THEOREM SettledSerially ==
    ASSUME NEW r, Requests = {r}, MaxFaults = 0, RefundScopes = {Wallets}
    PROVE  Spec => []SettlementComplete
<1>1. Settling(r) => SettlementComplete
  <2> SUFFICES ASSUME Settling(r)
               PROVE  SettlementComplete
    OBVIOUS
  <2>1. /\ TypeInv /\ InStep(r) /\ Pot(r) /\ Returned(r) /\ r \in Requests
        /\ escrow \in EscrowRow
    BY DEF Settling, TypeInv, TypeOK
  <2>2. ASSUME pc[r] = "idle", logged.release + logged.fee > 0
        PROVE  escrow.status \in {"released", "closed"}
    <3>1. Agree
      BY <2>1, <2>2, InStepIdle DEF InStep
    <3> QED
      BY <2>1, <2>2, <3>1 DEF Agree, Pot
  <2>3. escrow.status = "refunded" => \A w \in Wallets : refundedTo[w] = DepositedBy(w)
    BY <2>1 DEF Returned
  <2> QED
    BY <2>1, <2>2, <2>3 DEF SettlementComplete, Quiescent
<1> QED
  BY <1>1, SettlingAlways, PTL

-----------------------------------------------------------------------------
(* The atomic account                                                       *)

\* Each write of the row is one operation of the account, and what comes between
\* two writes leaves the account alone.
LEMMA AccountStep ==
    ASSUME NEW r \in Requests, MaxFaults = 0, Settling(r), Step(r)
    PROVE  Account!Next \/ UNCHANGED escrow
<1> DEFINE e == escrow
           j == job[r]
<1>1. /\ e \in EscrowRow /\ j.amount \in Nat /\ j.fee \in Nat
      /\ TypeInv /\ Pot(r) /\ Fresh(r) /\ Posted(r)
  BY DEF Settling, InStep, TypeInv, TypeOK, Job
<1>2. CASE DepositSave(r)
  <2>1. /\ canDeposit(e) /\ j.amount \in Amounts /\ escrow' = AfterDeposit(e, j.amount)
    BY <1>1, <1>2 DEF DepositSave, SaveAndReturn, Fresh
  <2>2. Account!Deposit
    BY <2>1 DEF Account!Deposit, Account!canDeposit, Account!AfterDeposit, canDeposit,
                AfterDeposit
  <2> QED
    BY <2>2 DEF Account!Next
<1>3. CASE LockSave(r)
  <2>1. e.status = "active" /\ escrow' = WithStatus(e, "locked")
    BY <1>1, <1>3 DEF LockSave, SaveAndReturn, Fresh
  <2>2. Account!Lock
    BY <2>1 DEF Account!Lock, Account!WithStatus, WithStatus
  <2> QED
    BY <2>2 DEF Account!Next
<1>4. CASE CloseSave(r)
  <2>1. e.balance <= 0 /\ escrow' = WithStatus(e, "closed")
    BY <1>1, <1>4 DEF CloseSave, SaveAndReturn, Fresh
  <2>2. e.balance = 0
    BY <1>1, <2>1 DEF Pot, EscrowRow
  <2>3. Account!Close
    BY <2>1, <2>2 DEF Account!Close, Account!WithStatus, WithStatus
  <2> QED
    BY <2>3 DEF Account!Next
<1>5. CASE ReleasingSave(r)
  <2>1. canRelease(e) /\ escrow' = WithStatus(e, "releasing")
    BY <1>1, <1>5 DEF ReleasingSave, Fresh
  <2>2. Account!BeginRelease
    BY <2>1 DEF Account!BeginRelease, Account!canRelease, Account!WithStatus, canRelease,
                WithStatus
  <2> QED
    BY <2>2 DEF Account!Next
<1>6. CASE ReleaseSave(r)
  <2>1. /\ e.status = "releasing" /\ escrow' = AfterRelease(e, j.amount, j.fee)
        /\ j.fee = PlatformFee(e) /\ j.amount + j.fee <= e.balance
    BY <1>1, <1>6 DEF ReleaseSave, SaveAndReturn, Fresh, Pot
  <2>2. j.amount \in 0 .. (e.balance - j.fee)
    BY <1>1, <2>1 DEF EscrowRow
  <2>3. Account!EndRelease
    <3>1. Account!PlatformFee(e) = PlatformFee(e)
      BY DEF Account!PlatformFee, PlatformFee
    <3>2. escrow' = Account!AfterRelease(e, j.amount, Account!PlatformFee(e))
      BY <2>1, <3>1 DEF Account!AfterRelease, AfterRelease
    <3>3. j.amount \in 0 .. (e.balance - Account!PlatformFee(e))
      BY <2>1, <2>2, <3>1
    <3> QED
      BY <2>1, <3>2, <3>3 DEF Account!EndRelease
  <2> QED
    BY <2>3 DEF Account!Next
<1>7. CASE RefundingSave(r)
  <2>1. canRefund(e) /\ escrow' = WithStatus(e, "refunding")
    BY <1>1, <1>7 DEF RefundingSave, Fresh
  <2>2. Account!BeginRefund
    BY <2>1 DEF Account!BeginRefund, Account!canRefund, Account!WithStatus, canRefund,
                WithStatus
  <2> QED
    BY <2>2 DEF Account!Next
<1>8. CASE RefundSave(r)
  <2>1. /\ pc[r] = "refundSave" /\ e.status = "refunding"
        /\ escrow' = AfterRefund(e, j.amount)
    BY <1>1, <1>8 DEF RefundSave, SaveAndReturn, Fresh
  <2>2. j.amount = e.balance
    BY <2>1, RefundIsPot
  <2>3. Account!EndRefund
    BY <2>1, <2>2 DEF Account!EndRefund, Account!AfterRefund, AfterRefund
  <2> QED
    BY <2>3 DEF Account!Next
<1>9. ~(Throw(r) \/ CatchRelease(r) \/ CatchRefund(r) \/ Compensate(r))
  BY <1>1
     DEF TypeInv, TypeOK, Fresh, Throw, CatchRelease, CatchRefund, Catch, Compensate
<1> QED
  BY <1>2, <1>3, <1>4, <1>5, <1>6, <1>7, <1>8, <1>9
     DEF Step, Start, table, DepositLoad, LockLoad, CloseLoad, ReleaseLoad, RefundLoad,
         SaveDepositRow, SaveFeeRow, SaveReleaseRow, SaveRefundRow, FindDeposits

\* Callers that wait for one another and meet no fault see an atomic account: every
\* save of EscrowService is one operation of EscrowAccount on the row as it is, and
\* releaseEscrow and refundEscrow, in two writes each, announce and settle the pot.
THEOREM ImplementsSerially ==
    ASSUME NEW r, Requests = {r}, MaxFaults = 0, RefundScopes = {Wallets}
    PROVE  Spec => ImplementsAccount
<1>1. r \in Requests /\ \A q \in Requests : q = r
  OBVIOUS
<1>2. Init => Account!Init
  BY DEF Init, Account!Init, NewEscrow, Account!NewEscrow
<1>3. Settling(r) /\ [Next]_vars => [Account!Next]_escrow
  <2>1. Settling(r) => ~Crash
    BY DEF Crash, Settling, TypeInv, TypeOK
  <2>2. UNCHANGED vars => UNCHANGED escrow
    BY DEF vars
  <2> QED
    BY <1>1, <2>1, <2>2, AccountStep DEF Next
<1> QED
  BY <1>2, <1>3, SettlingAlways, PTL DEF Spec, ImplementsAccount, Account!Spec
=============================================================================
