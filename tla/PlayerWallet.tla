---------------------------- MODULE PlayerWallet ----------------------------
(***************************************************************************)
(* PlayerWalletService (player-wallet.service.ts) on one wallet, one step   *)
(* per awaited call.  As in EscrowService, a request writes back the whole  *)
(* row it loaded.                                                           *)
(*                                                                          *)
(*   wallet, daily   the row of esports_player_wallets, its withdrawal      *)
(*                   limit columns apart                                    *)
(*   logged          per type, the sum of the rows of the transaction log   *)
(*   withdrawal      per request, the status of the WITHDRAWAL row of its   *)
(*                   last withdrawal                                        *)
(*   pc, held, heldDaily, job   per request, as in Escrow                   *)
(*   clock           time, of which a day has DayLength units               *)
(*   spent           history: what deductEntryFee took, on the rows' word   *)
(*   signed          history: per day of its check, what MPC signing let    *)
(*                   out of the wallet                                      *)
(*   signedTotal     history: the same of all days                          *)
(***************************************************************************)
EXTENDS PlayerWalletEntity

CONSTANTS Requests, Amounts,
          DailyLimit,   \* WITHDRAWAL_DAILY_LIMIT_LAMPORTS
          Cooldown,     \* WITHDRAWAL_COOLDOWN_MS, in units of the clock
          DayLength,
          MaxClock, MaxFunds, MaxFees, MaxFaults  \* bounds of the model

ASSUME PlayerWalletAssumption ==
    /\ Amounts \subseteq Nat \ {0}
    /\ {DailyLimit, Cooldown, MaxClock, MaxFunds, MaxFees, MaxFaults} \subseteq Nat
    /\ DayLength \in Nat \ {0}

VARIABLES wallet, daily, logged, withdrawal, pc, held, heldDaily, job,
          clock, spent, signed, signedTotal, faults

memory == <<held, heldDaily, job>>
tables == <<wallet, daily, logged, withdrawal>>
history == <<spent, signed, signedTotal>>
vars == <<wallet, daily, logged, withdrawal, pc, held, heldDaily, job,
          clock, spent, signed, signedTotal, faults>>

\* dailyWithdrawalAmount, dailyWithdrawalResetAt, lastWithdrawalAt
DailyRow == [amount : Nat, resetAt : Nat, lastAt : Int]

Logged == [{"deposit", "lockFunds", "unlockFunds", "creditPrize"} -> Nat]

PC == {"idle", "txRow", "walletSave", "resetSave", "withdrawRow", "sign",
       "completeRow", "withdrawSave", "failRow"}

Job == [op : WalletOps \cup {"withdraw"}, amount : Nat, checkedAt : Nat]

NoJob == [op |-> "deposit", amount |-> 0, checkedAt |-> 0]

\* The first instant of a day still counts with the day before: the reset
\* compares with a strict "greater than".
DayOf(t) == (t + DayLength - 1) \div DayLength
Days == 0 .. DayOf(MaxClock)

\* getNextDayReset: the midnight after t.
NextDayReset(t) == (t \div DayLength + 1) * DayLength

\* A wallet that never withdrew is out of its cooldown.
NoDaily == [amount |-> 0, resetAt |-> NextDayReset(0), lastAt |-> -Cooldown]

TypeOK ==
    /\ wallet \in WalletRow
    /\ daily \in DailyRow
    /\ logged \in Logged
    /\ withdrawal \in [Requests -> {"none", "processing", "completed", "failed"}]
    /\ pc \in [Requests -> PC]
    /\ held \in [Requests -> WalletRow]
    /\ heldDaily \in [Requests -> DailyRow]
    /\ job \in [Requests -> Job]
    /\ clock \in 0..MaxClock
    /\ spent \in Nat
    /\ signed \in [Days -> Nat]
    /\ signedTotal \in Nat
    /\ faults \in 0..MaxFaults

\* createWallet has run; its unique index on playerId keeps it from running
\* twice for a player.
Init ==
    /\ wallet = NewWallet
    /\ daily = NoDaily
    /\ logged = [op \in LoggedOps |-> 0]
    /\ withdrawal = [r \in Requests |-> "none"]
    /\ pc = [r \in Requests |-> "idle"]
    /\ held = [r \in Requests |-> NewWallet]
    /\ heldDaily = [r \in Requests |-> NoDaily]
    /\ job = [r \in Requests |-> NoJob]
    /\ clock = 0
    /\ spent = 0
    /\ signed = [d \in Days |-> 0]
    /\ signedTotal = 0
    /\ faults = 0

-----------------------------------------------------------------------------

\* getWallet resolved and the guard passed.
Start(r, next, w, d, j) ==
    /\ pc[r] = "idle"
    /\ pc' = [pc EXCEPT ![r] = next]
    /\ held' = [held EXCEPT ![r] = w]
    /\ heldDaily' = [heldDaily EXCEPT ![r] = d]
    /\ job' = [job EXCEPT ![r] = j]
    /\ UNCHANGED <<tables, clock, history, faults>>

Return(r) ==
    /\ pc' = [pc EXCEPT ![r] = "idle"]
    /\ held' = [held EXCEPT ![r] = NewWallet]
    /\ heldDaily' = [heldDaily EXCEPT ![r] = NoDaily]
    /\ job' = [job EXCEPT ![r] = NoJob]

\* walletRepository.save(wallet)
SaveHeld(r) ==
    /\ wallet' = held[r]
    /\ daily' = heldDaily[r]

-----------------------------------------------------------------------------
(* deposit, lockFunds, unlockFunds, creditPrize, deductEntryFee             *)

WithinBounds(op, amount) ==
    /\ op \in {"deposit", "creditPrize"} =>
         logged["deposit"] + logged["creditPrize"] + amount <= MaxFunds
    /\ op = "lockFunds" => logged["lockFunds"] + amount <= MaxFees

OpLoad(r) ==
    \E op \in WalletOps, amount \in Amounts :
      /\ Allowed(op, wallet, amount)
      /\ WithinBounds(op, amount)
      /\ Start(r, IF op \in LoggedOps THEN "txRow" ELSE "walletSave",
               IF op \in LoggedOps THEN wallet ELSE After(op, wallet, amount),
               daily, [NoJob EXCEPT !.op = op, !.amount = amount])

SaveTxRow(r) ==
    /\ pc[r] = "txRow"
    /\ logged' = [logged EXCEPT ![job[r].op] = @ + job[r].amount]
    /\ held' = [held EXCEPT ![r] = After(job[r].op, @, job[r].amount)]
    /\ pc' = [pc EXCEPT ![r] = "walletSave"]
    /\ UNCHANGED <<wallet, daily, withdrawal, heldDaily, job, clock, history,
                   faults>>

SaveWallet(r) ==
    /\ pc[r] = "walletSave"
    /\ SaveHeld(r)
    /\ spent' = IF job[r].op = "deductEntryFee" THEN spent + job[r].amount
                ELSE spent
    /\ Return(r)
    /\ UNCHANGED <<logged, withdrawal, clock, signed, signedTotal, faults>>

-----------------------------------------------------------------------------
(* withdraw                                                                 *)

\* The checks after the daily counter was brought up to date.
WithinLimits(d, amount) ==
    /\ d.amount + amount <= DailyLimit
    /\ clock - d.lastAt >= Cooldown

ResetDue == clock > daily.resetAt

ResetDaily(d) == [d EXCEPT !.amount = 0, !.resetAt = NextDayReset(clock)]

\* A stale counter is reset, and saved, before it is compared with the limit.
WithdrawLoad(r) ==
    \E amount \in Amounts :
      LET j == [op |-> "withdraw", amount |-> amount, checkedAt |-> clock]
      IN  /\ canWithdraw(wallet, amount)
          /\ \/ /\ ResetDue
                /\ Start(r, "resetSave", wallet, ResetDaily(daily), j)
             \/ /\ ~ResetDue
                /\ WithinLimits(daily, amount)
                /\ Start(r, "withdrawRow", wallet, daily, j)

ResetSave(r) ==
    /\ pc[r] = "resetSave"
    /\ SaveHeld(r)
    /\ IF WithinLimits(heldDaily[r], job[r].amount)
       THEN /\ pc' = [pc EXCEPT ![r] = "withdrawRow"]
            /\ UNCHANGED memory
       ELSE Return(r)
    /\ UNCHANGED <<logged, withdrawal, clock, history, faults>>

SaveWithdrawalRow(r) ==
    /\ pc[r] = "withdrawRow"
    /\ withdrawal' = [withdrawal EXCEPT ![r] = "processing"]
    /\ pc' = [pc EXCEPT ![r] = "sign"]
    /\ UNCHANGED <<wallet, daily, logged, memory, clock, history, faults>>

\* MpcService.signTransaction
Sign(r) ==
    /\ pc[r] = "sign"
    /\ signed' = [signed EXCEPT ![DayOf(job[r].checkedAt)] = @ + job[r].amount]
    /\ signedTotal' = signedTotal + job[r].amount
    /\ pc' = [pc EXCEPT ![r] = "completeRow"]
    /\ UNCHANGED <<tables, memory, clock, spent, faults>>

\* Mutant: the daily amount is not counted.
CompleteRowUncounted(r) ==
    /\ pc[r] = "completeRow"
    /\ withdrawal' = [withdrawal EXCEPT ![r] = "completed"]
    /\ held' = [held EXCEPT ![r] = AfterWithdraw(@, job[r].amount)]
    /\ heldDaily' = [heldDaily EXCEPT ![r].lastAt = clock]
    /\ pc' = [pc EXCEPT ![r] = "withdrawSave"]
    /\ UNCHANGED <<wallet, daily, logged, job, clock, history, faults>>

CompleteRow(r) ==
    /\ pc[r] = "completeRow"
    /\ withdrawal' = [withdrawal EXCEPT ![r] = "completed"]
    /\ held' = [held EXCEPT ![r] = AfterWithdraw(@, job[r].amount)]
    /\ heldDaily' = [heldDaily EXCEPT ![r].amount = @ + job[r].amount,
                                      ![r].lastAt = clock]
    /\ pc' = [pc EXCEPT ![r] = "withdrawSave"]
    /\ UNCHANGED <<wallet, daily, logged, job, clock, history, faults>>

WithdrawSave(r) ==
    /\ pc[r] = "withdrawSave"
    /\ SaveHeld(r)
    /\ Return(r)
    /\ UNCHANGED <<logged, withdrawal, clock, history, faults>>

-----------------------------------------------------------------------------
(* Time and faults                                                          *)

Tick ==
    /\ clock < MaxClock
    /\ clock' = clock + 1
    /\ UNCHANGED <<tables, pc, memory, history, faults>>

\* A call outside withdraw's try block, or in its handler, rejects.
Throw(r) ==
    /\ faults < MaxFaults
    /\ pc[r] \in {"txRow", "walletSave", "resetSave", "withdrawRow", "failRow"}
    /\ faults' = faults + 1
    /\ Return(r)
    /\ UNCHANGED <<tables, clock, history>>

\* A call inside the try block rejects, after the signature or before.
CatchWithdraw(r) ==
    /\ faults < MaxFaults
    /\ pc[r] \in {"sign", "completeRow", "withdrawSave"}
    /\ faults' = faults + 1
    /\ pc' = [pc EXCEPT ![r] = "failRow"]
    /\ UNCHANGED <<tables, memory, clock, history>>

\* Mutant: the handler gives the amount back to the wallet it still holds.
FailRowCredits(r) ==
    /\ pc[r] = "failRow"
    /\ withdrawal' = [withdrawal EXCEPT ![r] = "failed"]
    /\ wallet' = [held[r] EXCEPT !.available = @ + job[r].amount]
    /\ Return(r)
    /\ UNCHANGED <<daily, logged, clock, history, faults>>

FailRow(r) ==
    /\ pc[r] = "failRow"
    /\ withdrawal' = [withdrawal EXCEPT ![r] = "failed"]
    /\ Return(r)
    /\ UNCHANGED <<wallet, daily, logged, clock, history, faults>>

Crash ==
    /\ faults < MaxFaults
    /\ \E r \in Requests : pc[r] # "idle"
    /\ faults' = faults + 1
    /\ pc' = [r \in Requests |-> "idle"]
    /\ held' = [r \in Requests |-> NewWallet]
    /\ heldDaily' = [r \in Requests |-> NoDaily]
    /\ job' = [r \in Requests |-> NoJob]
    /\ UNCHANGED <<tables, clock, history>>

-----------------------------------------------------------------------------

Step(r) ==
    \/ OpLoad(r) \/ SaveTxRow(r) \/ SaveWallet(r)
    \/ WithdrawLoad(r) \/ ResetSave(r) \/ SaveWithdrawalRow(r) \/ Sign(r)
    \/ CompleteRow(r) \/ WithdrawSave(r)
    \/ Throw(r) \/ CatchWithdraw(r) \/ FailRow(r)

Next == Tick \/ Crash \/ \E r \in Requests : Step(r)

Spec == Init /\ [][Next]_vars

-----------------------------------------------------------------------------
(* Properties                                                               *)

Quiescent == \A r \in Requests : pc[r] = "idle"

\* Every total of the row is covered by the log, and the withdrawn total by
\* signatures.
LogCoversWallet ==
    /\ wallet.deposited <= logged["deposit"]
    /\ wallet.winnings <= logged["creditPrize"]
    /\ wallet.entryFees <= logged["lockFunds"]
    /\ wallet.withdrawn <= signedTotal

\* What the row says is in the wallet never exceeds what the row says came in
\* and was not withdrawn, nor those totals the log and the signatures, whatever
\* requests interleave and fail: no stale copy can make money appear in the row.
FundsBacked ==
    /\ Backed(wallet) /\ \A r \in Requests : Backed(held[r])
    /\ LogCoversWallet

\* The balances are exactly what came in minus what was signed away and what
\* entry fees took.
Conserved ==
    wallet.available + wallet.locked
        = logged["deposit"] + logged["creditPrize"] - signedTotal - spent

\* What is signed away on the checks of one day stays within the limit.
WithinDailyLimit == \A d \in Days : signed[d] <= DailyLimit

\* Two withdrawals that completed are a cooldown apart.
CooldownKept == daily.lastAt' # daily.lastAt => daily.lastAt' - daily.lastAt >= Cooldown
=============================================================================
