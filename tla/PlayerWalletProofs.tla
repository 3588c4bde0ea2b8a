-------------------------- MODULE PlayerWalletProofs --------------------------
(***************************************************************************)
(* Proofs about PlayerWalletService (PlayerWallet.tla) for every set of     *)
(* requests, all amounts, limits, days and bounds.                          *)
(***************************************************************************)
EXTENDS MCPlayerWallet, LedgerProofs

-----------------------------------------------------------------------------
(* The clock                                                                *)

LEMMA NextDayResetType == \A t \in Nat : NextDayReset(t) \in Nat
<1> TAKE t \in Nat
<1> DEFINE d == t \div DayLength
<1>1. DayLength \in Nat \ {0}
  BY PlayerWalletAssumption
<1>2. d \in Nat
  BY <1>1
<1> HIDE DEF d
<1>3. (d + 1) * DayLength \in Nat
  BY <1>1, <1>2
<1> QED
  BY <1>3 DEF NextDayReset, d

LEMMA NoDailyType == NoDaily \in DailyRow
<1>1. NextDayReset(0) \in Nat /\ -Cooldown \in Int
  BY NextDayResetType, PlayerWalletAssumption
<1> QED
  BY <1>1 DEF NoDaily, DailyRow

LEMMA NoJobType == NoJob \in Job
BY DEF NoJob, Job, WalletOps, LoggedOps

LEMMA Quotient ==
    ASSUME NEW a \in Nat, NEW b \in Nat \ {0}
    PROVE  /\ a \div b \in Nat
           /\ (a \div b) * b <= a
           /\ a < (a \div b + 1) * b
OBVIOUS

LEMMA TimesMonotone ==
    ASSUME NEW a \in Nat, NEW b \in Nat, NEW c \in Nat, a <= b
    PROVE  a * c <= b * c
OBVIOUS

LEMMA DayOfRange ==
    ASSUME NEW t \in Nat
    PROVE  /\ DayOf(t) \in Nat
           /\ t <= DayOf(t) * DayLength
           /\ DayOf(t) * DayLength < t + DayLength
<1>1. DayLength \in Nat \ {0} /\ t + DayLength - 1 \in Nat
  BY PlayerWalletAssumption
<1> DEFINE q == (t + DayLength - 1) \div DayLength
<1>2. /\ q \in Nat /\ q * DayLength <= t + DayLength - 1
      /\ t + DayLength - 1 < (q + 1) * DayLength
  BY <1>1, Quotient
<1> HIDE DEF q
<1>3. (q + 1) * DayLength = q * DayLength + DayLength /\ q * DayLength \in Nat
  BY <1>1, <1>2
<1> HIDE <1>1
<1>4. t <= q * DayLength /\ q * DayLength < t + DayLength
  BY <1>1, <1>2, <1>3
<1> QED
  BY <1>2, <1>4 DEF DayOf, q

\* A later instant is not of an earlier day.
LEMMA DayOfMonotone ==
    ASSUME NEW s \in Nat, NEW t \in Nat, s <= t
    PROVE  DayOf(s) <= DayOf(t)
<1> DEFINE p == DayOf(s)
           q == DayOf(t)
<1>1. DayLength \in Nat \ {0}
  BY PlayerWalletAssumption
<1>2. p \in Nat /\ q \in Nat /\ p * DayLength < s + DayLength /\ t <= q * DayLength
  BY DayOfRange
<1> HIDE DEF p, q
<1>3. ASSUME q < p
      PROVE  FALSE
  <2>1. (q + 1) * DayLength <= p * DayLength
    BY <1>1, <1>2, <1>3, TimesMonotone
  <2>2. (q + 1) * DayLength = q * DayLength + DayLength
    BY <1>1, <1>2
  <2> DEFINE x == q * DayLength
             y == p * DayLength
  <2>3. x \in Nat /\ y \in Nat
    BY <1>1, <1>2
  <2> HIDE DEF x, y
  <2>4. x + DayLength <= y /\ y < s + DayLength /\ t <= x
    BY <1>2, <2>1, <2>2 DEF x, y
  <2> QED
    BY <1>1, <2>3, <2>4
<1>4. p <= q
  BY <1>2, <1>3
<1> QED
  BY <1>4 DEF p, q

\* The reset lies ahead, and any instant after it is of a later day.
LEMMA AfterReset ==
    ASSUME NEW t \in Nat, NEW s \in Nat
    PROVE  /\ NextDayReset(t) \in Nat /\ t <= NextDayReset(t)
           /\ NextDayReset(t) < s => DayOf(NextDayReset(t)) < DayOf(s)
<1> DEFINE k == t \div DayLength + 1
           n == k * DayLength
<1>1. DayLength \in Nat \ {0}
  BY PlayerWalletAssumption
<1>2. k \in Nat /\ t < n /\ n \in Nat
  BY <1>1, Quotient
<1>3. NextDayReset(t) = n
  BY DEF NextDayReset
<1> HIDE DEF k
<1>4. ASSUME n < s
      PROVE  DayOf(n) < DayOf(s)
  <2> DEFINE p == DayOf(n)
             q == DayOf(s)
  <2>1. /\ p \in Nat /\ q \in Nat
        /\ p * DayLength < n + DayLength /\ s <= q * DayLength
    BY <1>2, DayOfRange
  <2> HIDE DEF p, q
  <2>2. ASSUME q <= p
        PROVE  FALSE
    <3>1. q * DayLength <= p * DayLength
      BY <1>1, <2>1, <2>2, TimesMonotone
    <3>2. p <= k
      <4>1. ASSUME k < p
            PROVE  FALSE
        <5>1. (k + 1) * DayLength <= p * DayLength
          BY <1>1, <1>2, <2>1, <4>1, TimesMonotone
        <5>2. (k + 1) * DayLength = n + DayLength
          BY <1>1, <1>2
        <5> HIDE DEF n
        <5> DEFINE y == p * DayLength
        <5>3. y \in Nat
          BY <1>1, <2>1
        <5>4. n + DayLength <= y /\ y < n + DayLength
          BY <2>1, <5>1, <5>2
        <5> HIDE DEF y
        <5> QED
          BY <1>1, <1>2, <5>3, <5>4
      <4> QED
        BY <1>2, <2>1, <4>1
    <3>3. p * DayLength <= n
      BY <1>1, <1>2, <2>1, <3>2, TimesMonotone
    <3> DEFINE x == q * DayLength
               y == p * DayLength
    <3>4. x \in Nat /\ y \in Nat
      BY <1>1, <2>1
    <3>5. x <= y /\ y <= n /\ s <= x
      BY <2>1, <3>1, <3>3
    <3> HIDE DEF x, y, n
    <3> QED
      BY <1>2, <1>4, <3>4, <3>5
  <2>3. p < q
    BY <2>1, <2>2
  <2> QED
    BY <2>3 DEF p, q
<1> HIDE DEF n
<1> QED
  BY <1>2, <1>3, <1>4

-----------------------------------------------------------------------------
(* Types                                                                    *)

\* The copy a request holds affords what it is about to do to it.
Affords(r) ==
    /\ pc[r] = "txRow" => /\ job[r].op \in LoggedOps
                          /\ Allowed(job[r].op, held[r], job[r].amount)
    /\ pc[r] \in {"resetSave", "withdrawRow", "sign", "completeRow"} =>
          canWithdraw(held[r], job[r].amount)

\* TypeOK with what it needs to be inductive: no balance is reduced by more
\* than it holds.
TypeInv == TypeOK /\ \A r \in Requests : Affords(r)

LEMMA TypeInit == Init => TypeInv
BY NewWalletType, NoDailyType, NoJobType, PlayerWalletAssumption
   DEF Init, TypeInv, TypeOK, Logged, LoggedOps, PC, Affords

\* The steps of a request leave the other requests' memory alone.
LEMMA OthersUntouched ==
    ASSUME TypeOK, NEW r \in Requests, Step(r), NEW q \in Requests, q # r
    PROVE  /\ pc'[q] = pc[q] /\ held'[q] = held[q]
           /\ heldDaily'[q] = heldDaily[q] /\ job'[q] = job[q]
BY DEF TypeOK, Step, OpLoad, SaveTxRow, SaveWallet, WithdrawLoad, ResetSave,
       SaveWithdrawalRow, Sign, CompleteRow, WithdrawSave, Throw, CatchWithdraw,
       FailRow, Start, Return, memory

\* A request that returns leaves a typed memory behind, and nothing it affords.
LEMMA ReturnType ==
    ASSUME NEW r \in Requests, TypeInv, Return(r)
    PROVE  /\ pc' \in [Requests -> PC]
           /\ held' \in [Requests -> WalletRow]
           /\ heldDaily' \in [Requests -> DailyRow]
           /\ job' \in [Requests -> Job]
           /\ Affords(r)'
BY NewWalletType, NoDailyType, NoJobType
   DEF TypeInv, TypeOK, Return, PC, Affords

\* A request that starts keeps the types and affords what it starts with.
LEMMA StartType ==
    ASSUME NEW r \in Requests, NEW next \in PC, NEW w \in WalletRow,
           NEW d \in DailyRow, NEW j \in Job, TypeInv, Start(r, next, w, d, j),
           next = "txRow" => j.op \in LoggedOps /\ Allowed(j.op, w, j.amount),
           next \in {"resetSave", "withdrawRow"} => canWithdraw(w, j.amount),
           next \notin {"sign", "completeRow"}
    PROVE  TypeOK' /\ Affords(r)'
BY DEF TypeInv, TypeOK, Start, tables, history, Affords

\* No step of a request, fault or not, takes a variable out of its type, and
\* the request still affords what it is about to do.
LEMMA TypeStep ==
    ASSUME TypeInv, NEW r \in Requests, Step(r)
    PROVE  TypeOK' /\ Affords(r)'
<1> DEFINE w == held[r]
           j == job[r]
<1>1. /\ w \in WalletRow /\ j \in Job /\ j.amount \in Nat /\ j.checkedAt \in Nat
      /\ wallet \in WalletRow /\ daily \in DailyRow /\ heldDaily[r] \in DailyRow
      /\ clock \in Nat /\ Amounts \subseteq Nat /\ Affords(r)
  BY PlayerWalletAssumption DEF TypeInv, TypeOK, Job
<1>2. CASE OpLoad(r)
  <2>1. PICK op \in WalletOps, amount \in Amounts :
          /\ Allowed(op, wallet, amount)
          /\ Start(r, IF op \in LoggedOps THEN "txRow" ELSE "walletSave",
                   IF op \in LoggedOps THEN wallet ELSE After(op, wallet, amount),
                   daily, [NoJob EXCEPT !.op = op, !.amount = amount])
    BY <1>2 DEF OpLoad
  <2> DEFINE k == [NoJob EXCEPT !.op = op, !.amount = amount]
  <2>2. k \in Job /\ k.op = op /\ k.amount = amount
    BY <1>1 DEF Job, NoJob
  <2>3. After(op, wallet, amount) \in WalletRow
    BY <1>1, <2>1, AfterType
  <2> HIDE DEF k
  <2>4. CASE op \in LoggedOps
    <3>1. Start(r, "txRow", wallet, daily, k)
      BY <2>1, <2>4 DEF k
    <3> QED
      BY <1>1, <2>1, <2>2, <2>4, <3>1, StartType DEF PC
  <2>5. CASE op \notin LoggedOps
    <3>1. Start(r, "walletSave", After(op, wallet, amount), daily, k)
      BY <2>1, <2>5 DEF k
    <3> QED
      BY <1>1, <2>2, <2>3, <3>1, StartType DEF PC
  <2> QED
    BY <2>4, <2>5
<1>3. CASE SaveTxRow(r)
  <2>1. j.op \in LoggedOps /\ Allowed(j.op, w, j.amount)
    BY <1>1, <1>3 DEF Affords, SaveTxRow
  <2>2. After(j.op, w, j.amount) \in WalletRow
    BY <1>1, <2>1, AfterType DEF WalletOps
  <2>3. logged' \in Logged
    BY <1>1, <1>3, <2>1 DEF SaveTxRow, TypeInv, TypeOK, Logged, LoggedOps
  <2> QED
    BY <1>3, <2>2, <2>3 DEF SaveTxRow, history, TypeInv, TypeOK, PC, Affords
<1>4. CASE SaveWallet(r)
  BY <1>1, <1>4, ReturnType DEF SaveWallet, SaveHeld, TypeInv, TypeOK
<1>5. CASE WithdrawLoad(r)
  <2>1. PICK amount \in Amounts :
          LET k == [op |-> "withdraw", amount |-> amount, checkedAt |-> clock]
          IN  /\ canWithdraw(wallet, amount)
              /\ \/ Start(r, "resetSave", wallet, ResetDaily(daily), k)
                 \/ Start(r, "withdrawRow", wallet, daily, k)
    BY <1>5 DEF WithdrawLoad
  <2> DEFINE k == [op |-> "withdraw", amount |-> amount, checkedAt |-> clock]
  <2>2. k \in Job /\ k.amount = amount
    BY <1>1 DEF Job
  <2>3. ResetDaily(daily) \in DailyRow
    BY <1>1, NextDayResetType DEF ResetDaily, DailyRow
  <2> HIDE DEF k
  <2>4. CASE Start(r, "resetSave", wallet, ResetDaily(daily), k)
    BY <1>1, <2>1, <2>2, <2>3, <2>4, StartType DEF PC
  <2>5. CASE Start(r, "withdrawRow", wallet, daily, k)
    BY <1>1, <2>1, <2>2, <2>5, StartType DEF PC
  <2> QED
    BY <2>1, <2>4, <2>5 DEF k
<1>6. CASE ResetSave(r)
  <2>1. /\ wallet' \in WalletRow /\ daily' \in DailyRow
        /\ UNCHANGED <<logged, withdrawal, clock, history, faults>>
    BY <1>1, <1>6 DEF ResetSave, SaveHeld
  <2>2. CASE Return(r)
    BY <2>1, <2>2, ReturnType DEF history, TypeInv, TypeOK
  <2>3. CASE /\ pc' = [pc EXCEPT ![r] = "withdrawRow"]
             /\ UNCHANGED memory
    BY <1>1, <1>6, <2>1, <2>3
       DEF ResetSave, memory, history, TypeInv, TypeOK, PC, Affords
  <2> QED
    BY <1>6, <2>2, <2>3 DEF ResetSave
<1>7. CASE SaveWithdrawalRow(r)
  BY <1>1, <1>7 DEF SaveWithdrawalRow, memory, history, TypeInv, TypeOK, PC, Affords
<1>8. CASE Sign(r)
  <2> DEFINE day == DayOf(j.checkedAt)
  <2>1. signed' = [signed EXCEPT ![day] = @ + j.amount] /\ signed \in [Days -> Nat]
    BY <1>8 DEF Sign, TypeInv, TypeOK
  <2> HIDE DEF day
  <2>2. signed' \in [Days -> Nat]
    <3>1. \A x \in Days : signed[x] \in Nat /\ signed[x] + j.amount \in Nat
      BY <1>1, <2>1
    <3> QED
      BY <2>1, <3>1
  <2>3. signedTotal' \in Nat
    BY <1>1, <1>8 DEF Sign, TypeInv, TypeOK
  <2> QED
    BY <1>1, <1>8, <2>2, <2>3 DEF Sign, tables, memory, TypeInv, TypeOK, PC, Affords
<1>9. CASE CompleteRow(r)
  <2>1. AfterWithdraw(w, j.amount) \in WalletRow
    BY <1>1, <1>9, AfterWithdrawType DEF Affords, CompleteRow
  <2> DEFINE d == heldDaily[r]
  <2>2. [d EXCEPT !.amount = @ + j.amount, !.lastAt = clock] \in DailyRow
    <3>1. d.amount + j.amount \in Nat /\ clock \in Int /\ d \in DailyRow
      BY <1>1 DEF DailyRow
    <3> HIDE DEF d
    <3> QED
      BY <3>1 DEF DailyRow
  <2>3. heldDaily' \in [Requests -> DailyRow]
    BY <1>9, <2>2 DEF CompleteRow, TypeInv, TypeOK
  <2> QED
    BY <1>9, <2>1, <2>3 DEF CompleteRow, history, TypeInv, TypeOK, PC, Affords
<1>10. CASE WithdrawSave(r)
  BY <1>1, <1>10, ReturnType DEF WithdrawSave, SaveHeld, history, TypeInv, TypeOK
<1>11. CASE Throw(r)
  <2>1. faults' \in 0..MaxFaults
    BY <1>11, PlayerWalletAssumption DEF Throw, TypeInv, TypeOK
  <2> QED
    BY <1>11, <2>1, ReturnType DEF Throw, tables, history, TypeInv, TypeOK
<1>12. CASE CatchWithdraw(r)
  <2>1. faults' \in 0..MaxFaults
    BY <1>12, PlayerWalletAssumption DEF CatchWithdraw, TypeInv, TypeOK
  <2> QED
    BY <1>12, <2>1
       DEF CatchWithdraw, tables, memory, history, TypeInv, TypeOK, PC, Affords
<1>13. CASE FailRow(r)
  BY <1>13, ReturnType DEF FailRow, history, TypeInv, TypeOK
<1> QED
  BY <1>2, <1>3, <1>4, <1>5, <1>6, <1>7, <1>8, <1>9, <1>10, <1>11, <1>12,
     <1>13 DEF Step

LEMMA TypeNext == TypeInv /\ [Next]_vars => TypeInv'
<1> SUFFICES ASSUME TypeInv, [Next]_vars
             PROVE  TypeInv'
  OBVIOUS
<1>1. CASE Tick
  BY <1>1, PlayerWalletAssumption
     DEF Tick, tables, memory, history, TypeInv, TypeOK, Affords
<1>2. CASE Crash
  <2>1. faults' \in 0..MaxFaults
    BY <1>2, PlayerWalletAssumption DEF Crash, TypeInv, TypeOK
  <2> QED
    BY <1>2, <2>1, NewWalletType, NoDailyType, NoJobType
       DEF Crash, tables, history, TypeInv, TypeOK, PC, Affords
<1>3. ASSUME NEW r \in Requests, Step(r)
      PROVE  TypeInv'
  <2>1. TypeOK' /\ Affords(r)'
    BY <1>3, TypeStep
  <2>2. \A q \in Requests \ {r} : Affords(q)'
    BY <1>3, OthersUntouched DEF TypeInv, Affords
  <2> QED
    BY <2>1, <2>2 DEF TypeInv
<1>4. CASE UNCHANGED vars
  BY <1>4 DEF vars, TypeInv, TypeOK, Affords
<1> QED
  BY <1>1, <1>2, <1>3, <1>4 DEF Next

LEMMA TypeAlways == Spec => []TypeInv
BY TypeInit, TypeNext, PTL DEF Spec

\* Every variable keeps its type: in particular no balance goes below zero,
\* whatever requests overlap and fail.
THEOREM TypeCorrect == Spec => []TypeOK
<1>1. TypeInv => TypeOK
  BY DEF TypeInv
<1> QED
  BY <1>1, TypeAlways, PTL

-----------------------------------------------------------------------------
(* No money appears in the row                                              *)

\* Every operation computes a backed entity from a backed one.
LEMMA BackedOps ==
    ASSUME NEW w \in WalletRow, NEW a \in Nat, Backed(w)
    PROVE  /\ \A op \in WalletOps : Backed(After(op, w, a))
           /\ Backed(AfterWithdraw(w, a))
<1>1. /\ w.deposited \in Nat /\ w.winnings \in Nat /\ w.withdrawn \in Nat
      /\ Value(w) \in Nat /\ Value(w) <= w.deposited + w.winnings - w.withdrawn
  BY DEF WalletRow, Value, Backed
<1>2. ASSUME NEW op \in WalletOps
      PROVE  Backed(After(op, w, a))
  <2> DEFINE n == After(op, w, a)
  <2>1. /\ op \in {"deposit", "creditPrize"} => Value(n) = Value(w) + a
        /\ op = "deductEntryFee" => Value(n) = Value(w) - a
        /\ op \in {"lockFunds", "unlockFunds"} => Value(n) = Value(w)
        /\ n.deposited = IF op = "deposit" THEN w.deposited + a ELSE w.deposited
        /\ n.winnings = IF op = "creditPrize" THEN w.winnings + a ELSE w.winnings
        /\ n.withdrawn = w.withdrawn
    BY AfterTotals
  <2> HIDE DEF n
  <2>2. Value(n) <= n.deposited + n.winnings - n.withdrawn
    BY <1>1, <2>1 DEF WalletOps, LoggedOps
  <2> QED
    BY <2>2 DEF Backed, Value, n
<1>3. Backed(AfterWithdraw(w, a))
  <2> DEFINE n == AfterWithdraw(w, a)
  <2>1. /\ Value(n) = Value(w) - a /\ n.deposited = w.deposited
        /\ n.winnings = w.winnings /\ n.withdrawn = w.withdrawn + a
    BY AfterWithdrawTotals
  <2> HIDE DEF n
  <2>2. Value(n) <= n.deposited + n.winnings - n.withdrawn
    BY <1>1, <2>1
  <2> QED
    BY <2>2 DEF Backed, Value, n
<1> QED
  BY <1>2, <1>3

\* The totals of w are covered by the log and by what was signed in total.
Covered(w, log, total) ==
    /\ w.deposited <= log["deposit"]
    /\ w.winnings <= log["creditPrize"]
    /\ w.entryFees <= log["lockFunds"]
    /\ w.withdrawn <= total

\* The copy of request r is covered, and with it the withdrawal it is about to
\* count.
Honest(r) ==
    /\ Backed(held[r]) /\ Covered(held[r], logged, signedTotal)
    /\ pc[r] = "completeRow" => held[r].withdrawn + job[r].amount <= signedTotal

\* FundsBacked with what it needs to be inductive: not the row alone but every
\* copy that may be written over it is covered.
FundsInv ==
    /\ Backed(wallet) /\ Covered(wallet, logged, signedTotal)
    /\ \A r \in Requests : Honest(r)

LEMMA NewWalletFunds ==
    TypeOK => Backed(NewWallet) /\ Covered(NewWallet, logged, signedTotal)
BY DEF TypeOK, Logged, LoggedOps, NewWallet, Backed, Covered

LEMMA FundsInit == Init => FundsInv
BY DEF Init, FundsInv, Honest, Backed, Covered, NewWallet, LoggedOps

\* The log and the signatures only grow, so what was covered stays covered.
LEMMA CoveredStays ==
    ASSUME TypeInv, NEW r \in Requests, Step(r), NEW w \in WalletRow,
           Covered(w, logged, signedTotal)
    PROVE  Covered(w, logged', signedTotal') /\ signedTotal <= signedTotal'
<1>1. /\ logged \in Logged /\ job[r].amount \in Nat /\ signedTotal \in Nat
  BY DEF TypeInv, TypeOK, Job
<1>2. CASE SaveTxRow(r)
  BY <1>1, <1>2 DEF SaveTxRow, history, Logged, LoggedOps, WalletRow, Covered
<1>3. CASE Sign(r)
  BY <1>1, <1>3 DEF Sign, tables, WalletRow, Covered
<1>4. CASE logged' = logged /\ signedTotal' = signedTotal
  BY <1>1, <1>4 DEF Covered
<1> QED
  BY <1>2, <1>3, <1>4
     DEF Step, OpLoad, SaveWallet, WithdrawLoad, ResetSave, SaveWithdrawalRow,
         CompleteRow, WithdrawSave, Throw, CatchWithdraw, FailRow, Start, tables,
         history

\* The row is written from a copy, or left alone.
LEMMA RowStep ==
    ASSUME TypeInv, FundsInv, NEW r \in Requests, Step(r)
    PROVE  Backed(wallet') /\ Covered(wallet', logged', signedTotal')
<1>1. /\ wallet \in WalletRow /\ Backed(wallet) /\ Covered(wallet, logged, signedTotal)
      /\ held[r] \in WalletRow /\ Backed(held[r])
      /\ Covered(held[r], logged, signedTotal)
  BY DEF TypeInv, TypeOK, FundsInv, Honest
<1>2. wallet' = wallet \/ wallet' = held[r]
  BY DEF Step, OpLoad, SaveTxRow, SaveWallet, WithdrawLoad, ResetSave,
         SaveWithdrawalRow, Sign, CompleteRow, WithdrawSave, Throw,
         CatchWithdraw, FailRow, Start, SaveHeld, tables
<1> QED
  BY <1>1, <1>2, CoveredStays

\* A step keeps the copy of the request that takes it honest.
LEMMA HonestStep ==
    ASSUME TypeInv, FundsInv, NEW r \in Requests, Step(r)
    PROVE  Honest(r)'
<1> DEFINE w == held[r]
           j == job[r]
<1>1. /\ w \in WalletRow /\ j \in Job /\ j.amount \in Nat /\ wallet \in WalletRow
      /\ logged \in Logged /\ signedTotal \in Nat /\ Amounts \subseteq Nat
      /\ Affords(r) /\ TypeOK
  BY PlayerWalletAssumption DEF TypeInv, TypeOK, Job
<1>2. /\ Backed(wallet) /\ Covered(wallet, logged, signedTotal)
      /\ Backed(w) /\ Covered(w, logged, signedTotal) /\ Honest(r)
  BY DEF FundsInv, Honest
<1>3. ASSUME Return(r)
      PROVE  Honest(r)'
  <2>1. pc'[r] = "idle" /\ held'[r] = NewWallet
    BY <1>1, <1>3 DEF Return, TypeOK
  <2>2. Covered(NewWallet, logged', signedTotal')
    BY <1>1, NewWalletFunds, NewWalletType, CoveredStays
  <2> QED
    BY <1>1, <2>1, <2>2, NewWalletFunds DEF Honest, Backed, Covered
<1>4. ASSUME NEW next \in PC \ {"completeRow"}, NEW c \in WalletRow, NEW d, NEW k,
             Start(r, next, c, d, k), Backed(c), Covered(c, logged, signedTotal)
      PROVE  Honest(r)'
  <2>1. pc'[r] = next /\ held'[r] = c /\ Covered(c, logged', signedTotal')
    BY <1>1, <1>4, CoveredStays DEF Start, TypeOK
  <2> QED
    BY <1>4, <2>1 DEF Honest, Backed, Covered
<1>5. CASE OpLoad(r)
  <2>1. PICK op \in WalletOps, amount \in Amounts :
          /\ Allowed(op, wallet, amount)
          /\ Start(r, IF op \in LoggedOps THEN "txRow" ELSE "walletSave",
                   IF op \in LoggedOps THEN wallet ELSE After(op, wallet, amount),
                   daily, [NoJob EXCEPT !.op = op, !.amount = amount])
    BY <1>5 DEF OpLoad
  <2> DEFINE k == [NoJob EXCEPT !.op = op, !.amount = amount]
             c == After(op, wallet, amount)
  <2>2. CASE op \in LoggedOps
    <3>1. Start(r, "txRow", wallet, daily, k)
      BY <2>1, <2>2
    <3> QED
      BY <1>1, <1>2, <1>4, <3>1 DEF PC
  <2>3. CASE op \notin LoggedOps
    <3>1. Start(r, "walletSave", c, daily, k)
      BY <2>1, <2>3
    <3>2. op = "deductEntryFee" /\ amount \in Nat
      BY <1>1, <2>3 DEF WalletOps
    <3>3. c \in WalletRow /\ Backed(c)
      BY <1>1, <1>2, <2>1, <3>2, AfterType, BackedOps
    <3>4. Covered(c, logged, signedTotal)
      <4>1. /\ c.deposited = wallet.deposited /\ c.winnings = wallet.winnings
            /\ c.entryFees = wallet.entryFees /\ c.withdrawn = wallet.withdrawn
        BY <1>1, <3>2, AfterTotals
      <4> HIDE DEF c
      <4> QED
        BY <1>2, <4>1 DEF Covered
    <3> HIDE DEF c, k
    <3> QED
      BY <1>4, <3>1, <3>3, <3>4 DEF PC
  <2> QED
    BY <2>2, <2>3
<1>6. CASE SaveTxRow(r)
  <2> DEFINE c == After(j.op, w, j.amount)
  <2>1. /\ j.op \in LoggedOps /\ j.op \in WalletOps
        /\ logged' = [logged EXCEPT ![j.op] = @ + j.amount]
        /\ held'[r] = c /\ pc'[r] = "walletSave" /\ signedTotal' = signedTotal
    BY <1>1, <1>6 DEF SaveTxRow, Affords, history, WalletOps, TypeOK
  <2>2. Backed(c)
    BY <1>1, <1>2, <2>1, BackedOps
  <2>3. /\ c.deposited = IF j.op = "deposit" THEN w.deposited + j.amount
                         ELSE w.deposited
        /\ c.winnings = IF j.op = "creditPrize" THEN w.winnings + j.amount
                        ELSE w.winnings
        /\ c.entryFees = IF j.op = "lockFunds" THEN w.entryFees + j.amount
                         ELSE w.entryFees
        /\ c.withdrawn = w.withdrawn
    BY <1>1, <2>1, AfterTotals
  <2> HIDE DEF c
  <2>4. /\ c.deposited <= logged'["deposit"] /\ c.winnings <= logged'["creditPrize"]
        /\ c.entryFees <= logged'["lockFunds"] /\ c.withdrawn <= signedTotal'
    BY <1>1, <1>2, <2>1, <2>3 DEF Covered, Logged, LoggedOps, WalletRow
  <2> QED
    BY <2>1, <2>2, <2>4 DEF Honest, Covered, Backed
<1>7. CASE WithdrawLoad(r)
  <2>1. PICK next, d, k : /\ next \in {"resetSave", "withdrawRow"}
                          /\ Start(r, next, wallet, d, k)
    BY <1>7 DEF WithdrawLoad
  <2> QED
    BY <1>1, <1>2, <1>4, <2>1 DEF PC
<1>8. CASE Sign(r)
  <2>1. /\ held'[r] = w /\ job'[r] = j /\ signedTotal' = signedTotal + j.amount
    BY <1>8 DEF Sign, memory
  <2>2. Covered(w, logged', signedTotal')
    BY <1>1, <1>2, CoveredStays
  <2>3. w.withdrawn + j.amount <= signedTotal'
    BY <1>1, <1>2, <2>1 DEF Covered, WalletRow
  <2> QED
    BY <1>2, <2>1, <2>2, <2>3 DEF Honest, Covered, Backed
<1>9. CASE CompleteRow(r)
  <2> DEFINE c == AfterWithdraw(w, j.amount)
  <2>1. /\ held'[r] = c /\ pc'[r] = "withdrawSave" /\ logged' = logged
        /\ signedTotal' = signedTotal /\ w.withdrawn + j.amount <= signedTotal
    BY <1>1, <1>2, <1>9 DEF CompleteRow, history, Honest, TypeOK
  <2>2. Backed(c)
    BY <1>1, <1>2, BackedOps
  <2>3. /\ c.deposited = w.deposited /\ c.winnings = w.winnings
        /\ c.entryFees = w.entryFees /\ c.withdrawn = w.withdrawn + j.amount
    BY <1>1, AfterWithdrawTotals
  <2> HIDE DEF c
  <2> QED
    BY <1>2, <2>1, <2>2, <2>3 DEF Honest, Covered, Backed
<1>10. CASE SaveWallet(r) \/ WithdrawSave(r) \/ Throw(r) \/ FailRow(r)
  BY <1>3, <1>10 DEF SaveWallet, WithdrawSave, Throw, FailRow
<1>11. ASSUME held' = held, pc'[r] # "completeRow"
       PROVE  Honest(r)'
  BY <1>1, <1>2, <1>11, CoveredStays DEF Honest, Covered, Backed
<1>12. CASE ResetSave(r) \/ SaveWithdrawalRow(r) \/ CatchWithdraw(r)
  BY <1>1, <1>3, <1>11, <1>12
     DEF ResetSave, SaveWithdrawalRow, CatchWithdraw, memory, TypeOK
<1> QED
  BY <1>5, <1>6, <1>7, <1>8, <1>9, <1>10, <1>12 DEF Step

LEMMA FundsNext == TypeInv /\ FundsInv /\ [Next]_vars => FundsInv'
<1> SUFFICES ASSUME TypeInv, FundsInv, [Next]_vars
             PROVE  FundsInv'
  OBVIOUS
<1>1. CASE Tick \/ UNCHANGED vars
  BY <1>1 DEF Tick, vars, tables, memory, history, FundsInv, Honest, Backed, Covered
<1>2. CASE Crash
  <2>1. Backed(NewWallet) /\ Covered(NewWallet, logged, signedTotal)
    BY NewWalletFunds DEF TypeInv
  <2> QED
    BY <1>2, <2>1 DEF Crash, tables, history, FundsInv, Honest, Backed, Covered
<1>3. ASSUME NEW r \in Requests, Step(r)
      PROVE  FundsInv'
  <2>1. ASSUME NEW q \in Requests, q # r
        PROVE  Honest(q)'
    <3>1. /\ held[q] \in WalletRow /\ Covered(held[q], logged, signedTotal)
          /\ Honest(q) /\ job[q].amount \in Nat /\ held[q].withdrawn \in Nat
          /\ signedTotal \in Nat
      BY DEF FundsInv, Honest, TypeInv, TypeOK, Job, WalletRow
    <3>2. /\ Covered(held[q], logged', signedTotal') /\ signedTotal <= signedTotal'
          /\ pc'[q] = pc[q] /\ held'[q] = held[q] /\ job'[q] = job[q]
          /\ signedTotal' \in Nat
      <4>1. held'[q] = held[q] /\ pc'[q] = pc[q] /\ job'[q] = job[q]
        BY <1>3, <2>1, OthersUntouched DEF TypeInv
      <4>2. TypeOK'
        BY <1>3, TypeStep
      <4>3. /\ signedTotal <= signedTotal'
            /\ \A c \in WalletRow :
                 Covered(c, logged, signedTotal) => Covered(c, logged', signedTotal')
        BY <1>3, <3>1, CoveredStays
      <4> QED
        BY <3>1, <4>1, <4>2, <4>3 DEF Covered, TypeOK
    <3> QED
      BY <3>1, <3>2 DEF Honest, Covered, Backed
  <2>2. Backed(wallet') /\ Covered(wallet', logged', signedTotal')
    BY <1>3, RowStep
  <2> QED
    BY <1>3, <2>1, <2>2, HonestStep DEF FundsInv, Backed
<1> QED
  BY <1>1, <1>2, <1>3 DEF Next

\* No interleaving of stale copies, no rejected call and no restart lets the row
\* claim more than came in: the value of the row and of every copy that may be
\* written over it is at most its own totals say, and those totals are in the
\* transaction log and among the signatures.
THEOREM FundsCorrect == Spec => []FundsBacked
<1>1. FundsInv => FundsBacked
  BY DEF FundsInv, Honest, FundsBacked, LogCoversWallet, Covered
<1> QED
  BY <1>1, FundsInit, FundsNext, TypeAlways, PTL DEF Spec

-----------------------------------------------------------------------------
(* One request at a time                                                    *)

\* The requests that wait for one another: none is in its error handler.
Alone ==
    /\ \A q, r \in Requests : pc[q] # "idle" /\ pc[r] # "idle" => q = r
    /\ \A r \in Requests : pc[r] # "failRow"
    /\ faults = 0

\* What came in, less what was signed away and what entry fees took.
NetLogged == logged["deposit"] + logged["creditPrize"] - signedTotal - spent

\* What the copy of request r is worth, from what it has logged and signed.
Counts(r) ==
    LET value == Value(held[r])
        amount == job[r].amount
    IN  /\ pc[r] \in {"txRow", "resetSave", "withdrawRow", "sign", "withdrawSave"} =>
              value = NetLogged
        /\ pc[r] = "walletSave" =>
              value = IF job[r].op = "deductEntryFee" THEN NetLogged - amount ELSE NetLogged
        /\ pc[r] = "completeRow" => value = NetLogged + amount

BooksInv ==
    serial => /\ Quiescent => Value(wallet) = NetLogged
              /\ \A r \in Requests : Counts(r)

\* From day on, the days have signed no more than amount.
SignedSince(day, amount) == \A d \in Days : d >= day => signed[d] <= amount

\* What the counters of request r, which are about to be saved, tell of the days
\* since its limits were checked.
Limits(r) ==
    LET d == heldDaily[r]
        j == job[r]
        checked == DayOf(j.checkedAt)
    IN  /\ pc[r] \in {"txRow", "walletSave"} =>
              d = daily /\ SignedSince(DayOf(clock), daily.amount)
        /\ pc[r] = "resetSave" =>
              /\ d = [daily EXCEPT !.amount = 0, !.resetAt = NextDayReset(j.checkedAt)]
              /\ daily.resetAt < j.checkedAt /\ SignedSince(checked, 0)
        /\ pc[r] \in {"resetSave", "withdrawRow", "sign", "completeRow",
                      "withdrawSave"} =>
              j.checkedAt <= clock /\ j.checkedAt <= d.resetAt
        /\ pc[r] \in {"withdrawRow", "sign", "completeRow"} =>
              d = daily /\ clock - d.lastAt >= Cooldown
        /\ pc[r] \in {"withdrawRow", "sign"} =>
              d.amount + j.amount <= DailyLimit /\ SignedSince(checked, d.amount)
        /\ pc[r] = "completeRow" => SignedSince(checked, d.amount + j.amount)
        /\ pc[r] = "withdrawSave" =>
              /\ d.resetAt = daily.resetAt /\ d.lastAt - daily.lastAt >= Cooldown
              /\ SignedSince(checked, d.amount)

\* The row's counter covers the days since the last reset, and no later day has
\* been signed for.
LimitsInv ==
    serial => /\ WithinDailyLimit
              /\ \E t \in Nat : daily.resetAt = NextDayReset(t)
              /\ \A d \in Days : signed[d] > 0 => d <= DayOf(daily.resetAt)
              /\ Quiescent => SignedSince(DayOf(clock), daily.amount)
              /\ \A r \in Requests : Limits(r)

\* A step of one of them: nothing fails, and the others are idle throughout.
LEMMA AloneStep ==
    ASSUME TypeInv, Alone, OneAtATime, NEW r \in Requests, Step(r)
    PROVE  /\ \A q \in Requests \ {r} : pc[q] = "idle" /\ pc'[q] = "idle"
           /\ ~Throw(r) /\ ~CatchWithdraw(r) /\ ~FailRow(r)
           /\ Alone'
<1>1. ~Throw(r) /\ ~CatchWithdraw(r) /\ ~FailRow(r)
  BY DEF Alone, OneAtATime, Throw, CatchWithdraw, FailRow
<1>2. ASSUME NEW q \in Requests \ {r}
      PROVE  pc[q] = "idle" /\ pc'[q] = "idle"
  <2>1. pc'[q] = pc[q]
    BY <1>2, OthersUntouched DEF TypeInv
  <2>2. CASE pc[r] = "idle"
    <3>1. pc'[r] # "idle"
      BY <1>1, <2>2
         DEF Step, OpLoad, SaveTxRow, SaveWallet, WithdrawLoad, ResetSave,
             SaveWithdrawalRow, Sign, CompleteRow, WithdrawSave, Start,
             TypeInv, TypeOK
    <3> QED
      BY <1>2, <2>1, <3>1 DEF OneAtATime
  <2>3. CASE pc[r] # "idle"
    BY <1>2, <2>1, <2>3 DEF Alone
  <2> QED
    BY <2>2, <2>3
<1>3. pc'[r] # "failRow"
  BY <1>1
     DEF Step, OpLoad, SaveTxRow, SaveWallet, WithdrawLoad, ResetSave,
         SaveWithdrawalRow, Sign, CompleteRow, WithdrawSave, Start, Return,
         TypeInv, TypeOK
<1>4. Alone'
  BY <1>2, <1>3 DEF Alone, OneAtATime
<1> QED
  BY <1>1, <1>2, <1>4

LEMMA BooksStep ==
    ASSUME TypeInv, Alone, OneAtATime, NEW r \in Requests, Step(r),
           Quiescent => Value(wallet) = NetLogged, Counts(r)
    PROVE  /\ Quiescent' => Value(wallet') = NetLogged'
           /\ Counts(r)'
<1> DEFINE w == held[r]
           j == job[r]
<1>1. /\ w \in WalletRow /\ j \in Job /\ j.amount \in Nat /\ wallet \in WalletRow
      /\ logged \in Logged /\ signedTotal \in Nat /\ spent \in Nat
      /\ Amounts \subseteq Nat /\ Affords(r) /\ TypeOK
  BY PlayerWalletAssumption DEF TypeInv, TypeOK, Job
<1>2. /\ logged["deposit"] \in Nat /\ logged["creditPrize"] \in Nat
      /\ NetLogged \in Int /\ Value(w) \in Nat /\ Value(wallet) \in Nat
  BY <1>1 DEF NetLogged, Logged, Value, WalletRow
<1>3. /\ \A q \in Requests \ {r} : pc[q] = "idle" /\ pc'[q] = "idle"
      /\ ~Throw(r) /\ ~CatchWithdraw(r) /\ ~FailRow(r)
  BY AloneStep
<1>4. pc'[r] # "idle" => ~Quiescent'
  BY DEF Quiescent
<1>5. pc[r] = "idle" => Value(wallet) = NetLogged
  BY <1>3 DEF Quiescent
<1>6. CASE OpLoad(r)
  <2>1. PICK op \in WalletOps, amount \in Amounts :
          /\ Allowed(op, wallet, amount)
          /\ Start(r, IF op \in LoggedOps THEN "txRow" ELSE "walletSave",
                   IF op \in LoggedOps THEN wallet ELSE After(op, wallet, amount),
                   daily, [NoJob EXCEPT !.op = op, !.amount = amount])
    BY <1>6 DEF OpLoad
  <2> DEFINE k == [NoJob EXCEPT !.op = op, !.amount = amount]
             c == After(op, wallet, amount)
  <2>2. /\ NetLogged' = NetLogged /\ Value(wallet) = NetLogged
        /\ held'[r] = IF op \in LoggedOps THEN wallet ELSE c
        /\ pc'[r] = IF op \in LoggedOps THEN "txRow" ELSE "walletSave"
        /\ job'[r] = k /\ k.op = op /\ k.amount = amount /\ amount \in Nat
    BY <1>1, <1>5, <2>1 DEF Start, tables, history, NetLogged, TypeOK, NoJob
  <2>3. op \notin LoggedOps =>
          op = "deductEntryFee" /\ Value(c) = Value(wallet) - amount
    BY <1>1, <2>2, AfterTotals DEF WalletOps
  <2> HIDE DEF k, c
  <2> QED
    BY <1>4, <2>2, <2>3 DEF Counts
<1>7. CASE SaveTxRow(r)
  <2> DEFINE c == After(j.op, w, j.amount)
  <2>1. /\ j.op \in LoggedOps /\ j.op \in WalletOps /\ Value(w) = NetLogged
        /\ logged' = [logged EXCEPT ![j.op] = @ + j.amount]
        /\ held'[r] = c /\ pc'[r] = "walletSave" /\ job'[r] = j
        /\ signedTotal' = signedTotal /\ spent' = spent
    BY <1>1, <1>7 DEF SaveTxRow, Affords, Counts, history, WalletOps, TypeOK
  <2>2. /\ j.op \in {"deposit", "creditPrize"} => Value(c) = Value(w) + j.amount
        /\ j.op \in {"lockFunds", "unlockFunds"} => Value(c) = Value(w)
    BY <1>1, <2>1, AfterTotals
  <2> HIDE DEF c
  <2>3. NetLogged' = IF j.op \in {"deposit", "creditPrize"} THEN NetLogged + j.amount
                   ELSE NetLogged
    BY <1>1, <1>2, <2>1 DEF NetLogged, Logged, LoggedOps
  <2> QED
    BY <1>4, <2>1, <2>2, <2>3 DEF Counts, LoggedOps
<1>8. CASE SaveWallet(r)
  <2>1. /\ wallet' = w /\ pc'[r] = "idle"
        /\ logged' = logged /\ signedTotal' = signedTotal
        /\ spent' = IF j.op = "deductEntryFee" THEN spent + j.amount ELSE spent
        /\ Value(w) = IF j.op = "deductEntryFee" THEN NetLogged - j.amount ELSE NetLogged
    BY <1>1, <1>8 DEF SaveWallet, SaveHeld, Return, Counts, TypeOK
  <2>2. Value(w) = NetLogged'
    BY <1>1, <1>2, <2>1 DEF NetLogged
  <2> QED
    BY <2>1, <2>2 DEF Counts
<1>9. CASE WithdrawLoad(r)
  <2>1. PICK next, d, k : /\ next \in {"resetSave", "withdrawRow"}
                          /\ Start(r, next, wallet, d, k)
    BY <1>9 DEF WithdrawLoad
  <2>2. /\ NetLogged' = NetLogged /\ Value(wallet) = NetLogged
        /\ held'[r] = wallet /\ pc'[r] = next
    BY <1>1, <1>5, <2>1 DEF Start, tables, history, NetLogged, TypeOK
  <2> QED
    BY <1>4, <2>1, <2>2 DEF Counts
<1>10. CASE ResetSave(r)
  <2>1. wallet' = w /\ NetLogged' = NetLogged /\ Value(w) = NetLogged
    BY <1>10 DEF ResetSave, SaveHeld, history, NetLogged, Counts
  <2>2. CASE Return(r)
    <3>1. pc'[r] = "idle"
      BY <1>1, <2>2 DEF Return, TypeOK
    <3> QED
      BY <2>1, <3>1 DEF Counts
  <2>3. CASE pc' = [pc EXCEPT ![r] = "withdrawRow"] /\ UNCHANGED memory
    <3>1. pc'[r] = "withdrawRow" /\ held'[r] = w
      BY <1>1, <2>3 DEF memory, TypeOK
    <3> QED
      BY <1>4, <2>1, <3>1 DEF Counts
  <2> QED
    BY <1>10, <2>2, <2>3 DEF ResetSave
<1>11. CASE SaveWithdrawalRow(r)
  <2>1. /\ NetLogged' = NetLogged /\ Value(w) = NetLogged
        /\ held'[r] = w /\ pc'[r] = "sign"
    BY <1>1, <1>11 DEF SaveWithdrawalRow, memory, history, NetLogged, Counts, TypeOK
  <2> QED
    BY <1>4, <2>1 DEF Counts
<1>12. CASE Sign(r)
  <2>1. /\ Value(w) = NetLogged /\ held'[r] = w /\ job'[r] = j
        /\ pc'[r] = "completeRow" /\ logged' = logged /\ spent' = spent
        /\ signedTotal' = signedTotal + j.amount
    BY <1>1, <1>12 DEF Sign, tables, memory, Counts, TypeOK
  <2>2. NetLogged' = NetLogged - j.amount
    BY <1>1, <1>2, <2>1 DEF NetLogged
  <2> QED
    BY <1>1, <1>2, <1>4, <2>1, <2>2 DEF Counts
<1>13. CASE CompleteRow(r)
  <2> DEFINE c == AfterWithdraw(w, j.amount)
  <2>1. /\ NetLogged' = NetLogged /\ Value(w) = NetLogged + j.amount
        /\ held'[r] = c /\ pc'[r] = "withdrawSave"
    BY <1>1, <1>13 DEF CompleteRow, history, NetLogged, Counts, TypeOK
  <2>2. Value(c) = Value(w) - j.amount
    BY <1>1, AfterWithdrawTotals
  <2> HIDE DEF c
  <2> QED
    BY <1>1, <1>2, <1>4, <2>1, <2>2 DEF Counts
<1>14. CASE WithdrawSave(r)
  <2>1. /\ wallet' = w /\ pc'[r] = "idle" /\ NetLogged' = NetLogged
        /\ Value(w) = NetLogged
    BY <1>1, <1>14
       DEF WithdrawSave, SaveHeld, Return, history, NetLogged, Counts, TypeOK
  <2> QED
    BY <2>1 DEF Counts
<1> QED
  BY <1>3, <1>6, <1>7, <1>8, <1>9, <1>10, <1>11, <1>12, <1>13, <1>14 DEF Step

\* Signing bounds of an earlier day hold from a later day on.
LEMMA SignedSinceLater ==
    ASSUME TypeInv, NEW s \in Nat, NEW t \in Nat, s <= t, NEW a \in Nat,
           SignedSince(DayOf(s), a)
    PROVE  SignedSince(DayOf(t), a)
<1>1. DayOf(s) \in Nat /\ DayOf(t) \in Nat /\ DayOf(s) <= DayOf(t)
  BY DayOfRange, DayOfMonotone
<1>2. Days \subseteq Int
  BY DEF Days
<1> QED
  BY <1>1, <1>2 DEF SignedSince

LEMMA LimitsStep ==
    ASSUME TypeInv, Alone, OneAtATime, NEW r \in Requests, Step(r),
           WithinDailyLimit,
           \E t \in Nat : daily.resetAt = NextDayReset(t),
           \A d \in Days : signed[d] > 0 => d <= DayOf(daily.resetAt),
           Quiescent => SignedSince(DayOf(clock), daily.amount),
           Limits(r)
    PROVE  /\ WithinDailyLimit'
           /\ \E t \in Nat : daily'.resetAt = NextDayReset(t)
           /\ \A d \in Days : signed'[d] > 0 => d <= DayOf(daily'.resetAt)
           /\ Quiescent' => SignedSince(DayOf(clock), daily.amount)'
           /\ Limits(r)'
           /\ CooldownKept
<1> DEFINE d == heldDaily[r]
           j == job[r]
           checked == DayOf(j.checkedAt)
<1>1. /\ d \in DailyRow /\ daily \in DailyRow /\ j \in Job /\ j.amount \in Nat
      /\ j.checkedAt \in Nat /\ clock \in Nat /\ signed \in [Days -> Nat]
      /\ Amounts \subseteq Nat /\ TypeOK /\ Days \subseteq Int
      /\ DailyLimit \in Nat /\ Cooldown \in Nat
  <2>1. TypeOK /\ Amounts \subseteq Nat /\ DailyLimit \in Nat /\ Cooldown \in Nat
    BY PlayerWalletAssumption DEF TypeInv
  <2>2. /\ d \in DailyRow /\ daily \in DailyRow /\ j \in Job /\ clock \in Nat
        /\ signed \in [Days -> Nat]
    BY <2>1 DEF TypeOK
  <2>3. j.amount \in Nat /\ j.checkedAt \in Nat
    BY <2>1, <2>2 DEF Job
  <2> QED
    BY <2>1, <2>2, <2>3 DEF Days
<1>2. /\ d.amount \in Nat /\ d.resetAt \in Nat /\ d.lastAt \in Int
      /\ daily.amount \in Nat /\ daily.resetAt \in Nat /\ daily.lastAt \in Int
  BY <1>1 DEF DailyRow
<1>3. /\ \A q \in Requests \ {r} : pc[q] = "idle" /\ pc'[q] = "idle"
      /\ ~Throw(r) /\ ~CatchWithdraw(r) /\ ~FailRow(r)
  BY AloneStep
<1>4. pc'[r] # "idle" => ~Quiescent'
  BY DEF Quiescent
<1>5. pc[r] = "idle" => SignedSince(DayOf(clock), daily.amount)
  BY <1>3 DEF Quiescent
<1>6. ASSUME signed' = signed, daily' = daily
      PROVE  /\ WithinDailyLimit'
             /\ \E t \in Nat : daily'.resetAt = NextDayReset(t)
             /\ \A x \in Days : signed'[x] > 0 => x <= DayOf(daily'.resetAt)
             /\ CooldownKept
  BY <1>6 DEF WithinDailyLimit, CooldownKept
<1>7. CASE OpLoad(r)
  <2>1. PICK next, w, k : /\ next \in {"txRow", "walletSave"}
                          /\ Start(r, next, w, daily, k)
    BY <1>7 DEF OpLoad
  <2>2. /\ signed' = signed /\ daily' = daily /\ clock' = clock
        /\ heldDaily'[r] = daily /\ pc'[r] = next /\ pc[r] = "idle"
    BY <1>1, <2>1 DEF Start, tables, history, TypeOK
  <2>3. Limits(r)'
    BY <1>5, <2>1, <2>2 DEF Limits, SignedSince
  <2> QED
    BY <1>4, <1>6, <2>1, <2>2, <2>3
<1>8. CASE SaveTxRow(r)
  <2>1. /\ signed' = signed /\ daily' = daily /\ clock' = clock
        /\ heldDaily'[r] = d /\ pc'[r] = "walletSave" /\ pc[r] = "txRow"
    BY <1>1, <1>8 DEF SaveTxRow, history, TypeOK
  <2>2. Limits(r)'
    BY <2>1 DEF Limits, SignedSince
  <2> QED
    BY <1>4, <1>6, <2>1, <2>2
<1>9. CASE SaveWallet(r)
  <2>1. /\ signed' = signed /\ daily' = daily /\ clock' = clock
        /\ pc'[r] = "idle" /\ SignedSince(DayOf(clock), daily.amount)
    BY <1>1, <1>9 DEF SaveWallet, SaveHeld, Return, Limits, TypeOK
  <2>2. Limits(r)' /\ SignedSince(DayOf(clock), daily.amount)'
    BY <2>1 DEF Limits, SignedSince
  <2> QED
    BY <1>6, <2>1, <2>2
<1>10. CASE WithdrawLoad(r)
  <2>1. PICK amount \in Amounts :
          LET k == [op |-> "withdraw", amount |-> amount, checkedAt |-> clock]
          IN  \/ /\ ResetDue
                 /\ Start(r, "resetSave", wallet, ResetDaily(daily), k)
              \/ /\ ~ResetDue
                 /\ WithinLimits(daily, amount)
                 /\ Start(r, "withdrawRow", wallet, daily, k)
    BY <1>10 DEF WithdrawLoad
  <2> DEFINE k == [op |-> "withdraw", amount |-> amount, checkedAt |-> clock]
  <2>2. /\ k.amount = amount /\ k.checkedAt = clock /\ amount \in Nat
    BY <1>1
  <2> HIDE DEF k
  <2>3. /\ signed' = signed /\ daily' = daily /\ clock' = clock /\ pc'[r] # "idle"
        /\ job'[r] = k /\ pc[r] = "idle"
    BY <1>1, <2>1 DEF Start, tables, history, TypeOK, k
  <2>4. CASE ResetDue /\ Start(r, "resetSave", wallet, ResetDaily(daily), k)
    <3>1. heldDaily'[r] = ResetDaily(daily) /\ pc'[r] = "resetSave"
      BY <1>1, <2>4 DEF Start, TypeOK
    <3>2. clock <= NextDayReset(clock) /\ NextDayReset(clock) \in Nat
      BY <1>1, AfterReset
    <3>3. DayOf(daily.resetAt) < DayOf(clock)
      BY <1>1, <2>4, AfterReset DEF ResetDue
    <3>4. DayOf(daily.resetAt) \in Nat /\ DayOf(clock) \in Nat
      BY <1>1, <1>2, DayOfRange
    <3>5. SignedSince(DayOf(clock), 0)
      <4> SUFFICES ASSUME NEW x \in Days, x >= DayOf(clock), signed[x] > 0
                   PROVE  FALSE
        BY <1>1 DEF SignedSince
      <4> QED
        BY <1>1, <3>3, <3>4
    <3>6. /\ heldDaily'[r] = [daily EXCEPT !.amount = 0, !.resetAt = NextDayReset(clock)]
          /\ heldDaily'[r].resetAt = NextDayReset(clock)
      BY <1>1, <3>1 DEF ResetDaily, DailyRow
    <3>7. job'[r].checkedAt = clock /\ daily.resetAt < clock
      BY <1>1, <1>2, <2>2, <2>3, <2>4 DEF ResetDue
    <3>8. \A x \in Days : x >= DayOf(clock) => signed'[x] <= 0
      BY <2>3, <3>5 DEF SignedSince
    <3>9. Limits(r)'
      BY <1>1, <2>3, <3>1, <3>2, <3>6, <3>7, <3>8 DEF Limits, SignedSince
    <3> QED
      BY <1>4, <1>6, <2>3, <3>9
  <2>5. CASE ~ResetDue /\ WithinLimits(daily, amount)
             /\ Start(r, "withdrawRow", wallet, daily, k)
    <3>1. heldDaily'[r] = daily /\ pc'[r] = "withdrawRow"
      BY <1>1, <2>5 DEF Start, TypeOK
    <3>2. Limits(r)'
      BY <1>1, <1>2, <1>5, <2>2, <2>3, <2>5, <3>1
         DEF Limits, SignedSince, ResetDue, WithinLimits
    <3> QED
      BY <1>4, <1>6, <2>3, <3>2
  <2> QED
    BY <2>1, <2>4, <2>5 DEF k
<1>11. CASE ResetSave(r)
  <2>1. /\ signed' = signed /\ daily' = d /\ clock' = clock /\ pc[r] = "resetSave"
    BY <1>11 DEF ResetSave, SaveHeld, history
  <2>2. /\ d = [daily EXCEPT !.amount = 0, !.resetAt = NextDayReset(j.checkedAt)]
        /\ SignedSince(checked, 0)
        /\ j.checkedAt <= clock /\ j.checkedAt <= d.resetAt
    BY <2>1 DEF Limits
  <2>3. /\ d.amount = 0 /\ d.resetAt = NextDayReset(j.checkedAt)
        /\ d.lastAt = daily.lastAt
    BY <1>1, <2>2 DEF DailyRow
  <2>4. SignedSince(DayOf(clock), 0)
    BY <1>1, <2>2, SignedSinceLater
  <2>5. \A x \in Days : signed[x] > 0 => x <= DayOf(d.resetAt)
    <3>1. checked \in Nat /\ DayOf(d.resetAt) \in Nat /\ checked <= DayOf(d.resetAt)
      BY <1>1, <1>2, <2>2, DayOfRange, DayOfMonotone
    <3> HIDE DEF checked, d
    <3>2. ASSUME NEW x \in Days, signed[x] > 0
          PROVE  x <= DayOf(d.resetAt)
      <4>1. x < checked
        BY <1>1, <2>2, <3>1, <3>2 DEF SignedSince
      <4>2. x \in Int
        BY <1>1
      <4> QED
        BY <3>1, <4>1, <4>2
    <3> QED
      BY <3>2
  <2>6. /\ WithinDailyLimit' /\ CooldownKept
        /\ \E t \in Nat : daily'.resetAt = NextDayReset(t)
        /\ \A x \in Days : signed'[x] > 0 => x <= DayOf(daily'.resetAt)
    BY <1>1, <2>1, <2>3, <2>5 DEF WithinDailyLimit, CooldownKept
  <2>7. CASE Return(r)
    <3>1. pc'[r] = "idle"
      BY <1>1, <2>7 DEF Return, TypeOK
    <3>2. Limits(r)' /\ SignedSince(DayOf(clock), daily.amount)'
      BY <2>1, <2>3, <2>4, <3>1 DEF Limits, SignedSince
    <3> QED
      BY <2>6, <3>2
  <2>8. CASE /\ WithinLimits(d, j.amount)
             /\ pc' = [pc EXCEPT ![r] = "withdrawRow"] /\ UNCHANGED memory
    <3>1. pc'[r] = "withdrawRow" /\ heldDaily'[r] = d /\ job'[r] = j
      BY <1>1, <2>8 DEF memory, TypeOK
    <3>2. Limits(r)'
      BY <1>1, <2>1, <2>2, <2>3, <2>8, <3>1 DEF Limits, SignedSince, WithinLimits
    <3> QED
      BY <1>4, <2>6, <3>1, <3>2
  <2> QED
    BY <1>11, <2>7, <2>8 DEF ResetSave
<1>12. CASE SaveWithdrawalRow(r)
  <2>1. /\ signed' = signed /\ daily' = daily /\ clock' = clock
        /\ heldDaily'[r] = d /\ job'[r] = j
        /\ pc[r] = "withdrawRow" /\ pc'[r] = "sign"
    BY <1>1, <1>12 DEF SaveWithdrawalRow, memory, history, TypeOK
  <2>2. Limits(r)'
    BY <2>1 DEF Limits, SignedSince
  <2> QED
    BY <1>4, <1>6, <2>1, <2>2
<1>13. CASE Sign(r)
  <2>1. /\ signed' = [signed EXCEPT ![checked] = @ + j.amount]
        /\ daily' = daily /\ clock' = clock
        /\ heldDaily'[r] = d /\ job'[r] = j
        /\ pc[r] = "sign" /\ pc'[r] = "completeRow"
    BY <1>1, <1>13 DEF Sign, tables, memory, TypeOK
  <2>2. /\ d = daily /\ d.amount + j.amount <= DailyLimit
        /\ SignedSince(checked, d.amount)
        /\ j.checkedAt <= clock /\ j.checkedAt <= d.resetAt
        /\ clock - d.lastAt >= Cooldown
    BY <2>1 DEF Limits
  <2>3. checked \in Nat /\ DayOf(d.resetAt) \in Nat /\ checked <= DayOf(d.resetAt)
    BY <1>1, <1>2, <2>2, DayOfRange, DayOfMonotone
  <2> HIDE DEF d, j, checked
  <2>4. \A x \in Days : signed'[x] = IF x = checked THEN signed[x] + j.amount
                                     ELSE signed[x]
    BY <1>1, <2>1
  <2>5. WithinDailyLimit'
    <3> SUFFICES ASSUME NEW x \in Days
                 PROVE  signed'[x] <= DailyLimit
      BY DEF WithinDailyLimit
    <3>1. CASE x = checked
      <4>1. signed[x] <= d.amount
        BY <2>2, <2>3, <3>1 DEF SignedSince
      <4>2. signed[x] \in Nat
        BY <1>1
      <4> QED
        BY <1>1, <1>2, <2>2, <2>4, <3>1, <4>1, <4>2
    <3>2. CASE x # checked
      BY <2>4, <3>2 DEF WithinDailyLimit
    <3> QED
      BY <3>1, <3>2
  <2>6. \A x \in Days : signed'[x] > 0 => x <= DayOf(daily'.resetAt)
    BY <1>1, <2>1, <2>2, <2>3, <2>4
  <2>7. \A x \in Days : x >= checked => signed'[x] <= d.amount + j.amount
    <3> SUFFICES ASSUME NEW x \in Days, x >= checked
                 PROVE  signed'[x] <= d.amount + j.amount
      OBVIOUS
    <3>1. signed[x] <= d.amount /\ signed[x] \in Nat
      BY <1>1, <2>2 DEF SignedSince
    <3> QED
      BY <1>1, <1>2, <2>4, <3>1
  <2>8. Limits(r)'
    BY <2>1, <2>2, <2>7 DEF Limits, SignedSince, checked
  <2> QED
    BY <1>4, <2>1, <2>5, <2>6, <2>8 DEF CooldownKept
<1>14. CASE CompleteRow(r)
  <2>1. /\ signed' = signed /\ daily' = daily /\ clock' = clock
        /\ heldDaily'[r] = [d EXCEPT !.amount = @ + j.amount, !.lastAt = clock]
        /\ job'[r] = j /\ pc[r] = "completeRow" /\ pc'[r] = "withdrawSave"
    BY <1>1, <1>14 DEF CompleteRow, history, TypeOK
  <2>2. /\ d = daily /\ clock - d.lastAt >= Cooldown
        /\ SignedSince(checked, d.amount + j.amount)
        /\ j.checkedAt <= clock /\ j.checkedAt <= d.resetAt
    BY <2>1 DEF Limits
  <2>3. /\ heldDaily'[r].amount = d.amount + j.amount
        /\ heldDaily'[r].lastAt = clock /\ heldDaily'[r].resetAt = d.resetAt
    BY <1>1, <2>1 DEF DailyRow
  <2>4. Limits(r)'
    BY <2>1, <2>2, <2>3 DEF Limits, SignedSince
  <2> QED
    BY <1>4, <1>6, <2>1, <2>4
<1>15. CASE WithdrawSave(r)
  <2>1. /\ signed' = signed /\ daily' = d /\ clock' = clock
        /\ pc[r] = "withdrawSave" /\ pc'[r] = "idle"
    BY <1>1, <1>15 DEF WithdrawSave, SaveHeld, Return, history, TypeOK
  <2>2. /\ d.resetAt = daily.resetAt /\ d.lastAt - daily.lastAt >= Cooldown
        /\ SignedSince(checked, d.amount) /\ j.checkedAt <= clock
    BY <2>1 DEF Limits
  <2>3. SignedSince(DayOf(clock), d.amount)
    BY <1>1, <1>2, <2>2, SignedSinceLater
  <2>4. Limits(r)' /\ SignedSince(DayOf(clock), daily.amount)'
    BY <2>1, <2>3 DEF Limits, SignedSince
  <2> QED
    BY <2>1, <2>2, <2>4 DEF WithinDailyLimit, CooldownKept
<1> QED
  BY <1>3, <1>7, <1>8, <1>9, <1>10, <1>11, <1>12, <1>13, <1>14, <1>15 DEF Step

\* What a behaviour of one request at a time keeps.
SerialInv == (serial => Alone) /\ BooksInv /\ LimitsInv

LEMMA SerialInit == MCInit => SerialInv
<1> SUFFICES ASSUME MCInit, serial
             PROVE  Alone /\ BooksInv /\ LimitsInv
  BY DEF SerialInv, BooksInv, LimitsInv
<1>1. Init /\ TypeInv
  BY TypeInit DEF MCInit
<1>2. /\ DailyLimit \in Nat /\ Days \subseteq Int /\ 0 \in Nat
      /\ NextDayReset(0) \in Nat
  BY PlayerWalletAssumption, NextDayResetType DEF Days
<1>3. /\ daily.amount = 0 /\ daily.resetAt = NextDayReset(0)
      /\ \A d \in Days : signed[d] = 0
      /\ \A r \in Requests : pc[r] = "idle"
  BY <1>1 DEF Init, NoDaily
<1>4. Alone
  BY <1>1 DEF Alone, Init
<1>5. BooksInv
  <2>1. Value(wallet) = 0 /\ NetLogged = 0
    BY <1>1 DEF Init, NewWallet, Value, NetLogged, LoggedOps
  <2> QED
    BY <1>3, <2>1 DEF BooksInv, Counts
<1>6. LimitsInv
  <2>1. \A r \in Requests : Limits(r)
    BY <1>3 DEF Limits
  <2>2. WithinDailyLimit /\ SignedSince(DayOf(clock), daily.amount)
    BY <1>2, <1>3 DEF WithinDailyLimit, SignedSince
  <2>3. \A d \in Days : signed[d] > 0 => d <= DayOf(daily.resetAt)
    BY <1>3
  <2> QED
    BY <1>2, <1>3, <2>1, <2>2, <2>3 DEF LimitsInv
<1> QED
  BY <1>4, <1>5, <1>6

\* Time passes: the days it passes have not been signed for, and a cooldown that
\* was over stays over.
LEMMA SerialTick ==
    ASSUME TypeInv, SerialInv, serial, Tick, UNCHANGED serial
    PROVE  SerialInv'
<1>1. /\ UNCHANGED <<tables, pc, memory, history, faults, serial>>
      /\ clock \in Nat /\ clock' = clock + 1 /\ Cooldown \in Nat
      /\ daily \in DailyRow
      /\ heldDaily \in [Requests -> DailyRow] /\ job \in [Requests -> Job]
      /\ Days \subseteq Int
  BY PlayerWalletAssumption DEF Tick, TypeInv, TypeOK, Days
<1>2. Alone' /\ BooksInv'
  BY <1>1
     DEF SerialInv, Alone, BooksInv, Quiescent, NetLogged, Counts, tables, memory,
         history
<1>3. ASSUME NEW a \in Nat, SignedSince(DayOf(clock), a)
      PROVE  SignedSince(DayOf(clock'), a)
  BY <1>1, <1>3, SignedSinceLater
<1>4. Quiescent' => SignedSince(DayOf(clock), daily.amount)'
  BY <1>1, <1>3
     DEF SerialInv, LimitsInv, Quiescent, SignedSince, DailyRow, tables, history
<1>5. ASSUME NEW r \in Requests
      PROVE  Limits(r)'
  <2> DEFINE d == heldDaily[r]
             j == job[r]
  <2>1. /\ Limits(r) /\ daily.amount \in Nat /\ j.checkedAt \in Nat
        /\ d.lastAt \in Int
    BY <1>1 DEF SerialInv, LimitsInv, DailyRow, Job
  <2>2. SignedSince(DayOf(clock), daily.amount) =>
          SignedSince(DayOf(clock'), daily.amount)
    BY <1>3, <2>1
  <2>3. /\ j.checkedAt <= clock => j.checkedAt <= clock'
        /\ clock - d.lastAt >= Cooldown => clock' - d.lastAt >= Cooldown
    BY <1>1, <2>1
  <2> QED
    BY <1>1, <2>1, <2>2, <2>3 DEF Limits, SignedSince, tables, memory, history
<1>6. LimitsInv'
  BY <1>1, <1>4, <1>5
     DEF SerialInv, LimitsInv, WithinDailyLimit, tables, history
<1> QED
  BY <1>2, <1>6 DEF SerialInv

LEMMA SerialNext ==
    ASSUME TypeInv, SerialInv, [MCNext]_<<vars, serial>>
    PROVE  SerialInv' /\ (serial => CooldownKept)
<1>1. CASE UNCHANGED <<vars, serial>>
  BY <1>1
     DEF vars, SerialInv, Alone, BooksInv, LimitsInv, Quiescent, NetLogged, Counts,
         Limits, SignedSince, WithinDailyLimit, CooldownKept
<1>2. CASE MCNext /\ ~serial
  BY <1>2 DEF MCNext, SerialInv, BooksInv, LimitsInv
<1>3. CASE MCNext /\ serial
  <2>1. /\ Next /\ serial' = serial /\ OneAtATime /\ Alone
        /\ Quiescent => Value(wallet) = NetLogged
        /\ WithinDailyLimit
        /\ \E t \in Nat : daily.resetAt = NextDayReset(t)
        /\ \A d \in Days : signed[d] > 0 => d <= DayOf(daily.resetAt)
        /\ Quiescent => SignedSince(DayOf(clock), daily.amount)
        /\ \A r \in Requests : Counts(r) /\ Limits(r)
    BY <1>3 DEF MCNext, SerialInv, BooksInv, LimitsInv
  <2>2. CASE Tick
    BY <1>3, <2>1, <2>2, SerialTick DEF Tick, tables, CooldownKept
  <2>3. CASE Crash
    BY <2>1, <2>3, PlayerWalletAssumption DEF Crash, OneAtATime, Alone
  <2>4. ASSUME NEW r \in Requests, Step(r)
        PROVE  SerialInv' /\ CooldownKept
    <3>1. ASSUME NEW q \in Requests, q # r
          PROVE  Counts(q)' /\ Limits(q)'
      <4>1. pc'[q] = "idle"
        BY <2>1, <2>4, <3>1, AloneStep
      <4> QED
        BY <4>1 DEF Counts, Limits
    <3>2. Alone'
      BY <2>1, <2>4, AloneStep
    <3>3. /\ Quiescent' => Value(wallet') = NetLogged'
          /\ Counts(r)'
      BY <2>1, <2>4, BooksStep
    <3>4. /\ WithinDailyLimit'
          /\ \E t \in Nat : daily'.resetAt = NextDayReset(t)
          /\ \A d \in Days : signed'[d] > 0 => d <= DayOf(daily'.resetAt)
          /\ Quiescent' => SignedSince(DayOf(clock), daily.amount)'
          /\ Limits(r)'
          /\ CooldownKept
      BY <2>1, <2>4, LimitsStep
    <3>5. BooksInv'
      BY <3>1, <3>3 DEF BooksInv
    <3>6. LimitsInv'
      BY <3>1, <3>4 DEF LimitsInv
    <3> QED
      BY <3>2, <3>4, <3>5, <3>6 DEF SerialInv
  <2> QED
    BY <2>1, <2>2, <2>3, <2>4 DEF Next
<1> QED
  BY <1>1, <1>2, <1>3

\* The two instances of the runs are instances of the wallet.
LEMMA MCStep == MCNext => Next
BY DEF MCNext

LEMMA SerialAlways == MCSpec => []TypeInv /\ []SerialInv
<1>1. MCInit => TypeInv
  BY TypeInit DEF MCInit
<1>2. TypeInv /\ [MCNext]_<<vars, serial>> => TypeInv'
  BY MCStep, TypeNext DEF vars
<1>3. TypeInv /\ SerialInv /\ [MCNext]_<<vars, serial>> => SerialInv'
  BY SerialNext
<1> QED
  BY <1>1, <1>2, <1>3, SerialInit, PTL DEF MCSpec

\* With one request at a time, deposit, lockFunds, unlockFunds, creditPrize,
\* deductEntryFee and withdraw lose nothing and create nothing: the balances are
\* what came in less what MPC signing let out and what entry fees took.
THEOREM ConservedSerially == MCSpec => []WalletConserved
<1>1. TypeInv /\ SerialInv => WalletConserved
  BY DEF SerialInv, BooksInv, WalletConserved, Conserved, Value, NetLogged
<1> QED
  BY <1>1, SerialAlways, PTL

\* "Rate Limiting: daily withdrawal limits", with one request at a time: what is
\* signed away on the checks of one day stays within the limit, however the day
\* turns between a check, its save and the signature, and two withdrawals that
\* completed are a cooldown apart.
THEOREM LimitsSerially == MCSpec => WithdrawalLimits
<1>1. SerialInv => (serial => WithinDailyLimit)
  BY DEF SerialInv, LimitsInv
<1>2. TypeInv /\ SerialInv /\ [MCNext]_<<vars, serial>> =>
        [serial => CooldownKept]_vars
  BY SerialNext
<1> QED
  BY <1>1, <1>2, SerialAlways, PTL DEF MCSpec, WithdrawalLimits
=============================================================================
