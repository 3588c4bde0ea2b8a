-------------------------- MODULE PlayerWalletEntity --------------------------
(***************************************************************************)
(* The row of table esports_player_wallets (player-wallet.entity.ts) as a   *)
(* value, and for each operation of PlayerWalletService its guard and the   *)
(* entity it computes.  No code sets a wallet's status after createWallet   *)
(* made it ACTIVE, so the status, and the isActive() conjunct of the        *)
(* guards, is left out.                                                     *)
(***************************************************************************)
EXTENDS Integers

WalletRow == [available : Nat, locked : Nat, deposited : Nat, withdrawn : Nat,
              winnings : Nat, entryFees : Nat]

\* The amounts createWallet inserts.
NewWallet == [available |-> 0, locked |-> 0, deposited |-> 0, withdrawn |-> 0,
              winnings |-> 0, entryFees |-> 0]

\* Mutant: reserved entry fees may be withdrawn.
canWithdrawTotal(w, amount) == w.available + w.locked >= amount

canWithdraw(w, amount) == w.available >= amount

\* Operations that write one row of the transaction log, then the wallet.
LoggedOps == {"deposit", "lockFunds", "unlockFunds", "creditPrize"}

\* deductEntryFee writes the wallet alone.
WalletOps == LoggedOps \cup {"deductEntryFee"}

Allowed(op, w, amount) ==
    /\ op = "lockFunds" => w.available >= amount
    /\ op \in {"unlockFunds", "deductEntryFee"} => w.locked >= amount

After(op, w, amount) ==
    CASE op = "deposit" ->
           [w EXCEPT !.available = @ + amount, !.deposited = @ + amount]
      [] op = "lockFunds" ->
           [w EXCEPT !.available = @ - amount, !.locked = @ + amount,
                     !.entryFees = @ + amount]
      [] op = "unlockFunds" ->
           [w EXCEPT !.available = @ + amount, !.locked = @ - amount]
      [] op = "creditPrize" ->
           [w EXCEPT !.available = @ + amount, !.winnings = @ + amount]
      [] op = "deductEntryFee" -> [w EXCEPT !.locked = @ - amount]

\* Mutant: a withdrawal is counted and not debited.
AfterWithdrawUndebited(w, amount) == [w EXCEPT !.withdrawn = @ + amount]

AfterWithdraw(w, amount) ==
    [w EXCEPT !.available = @ - amount, !.withdrawn = @ + amount]

(***************************************************************************)
(* What is in the wallet came from deposits and prizes and was not          *)
(* withdrawn.  The difference is what entry fees took out of it, which the  *)
(* row does not record.                                                     *)
(***************************************************************************)
Backed(w) == w.available + w.locked <= w.deposited + w.winnings - w.withdrawn
=============================================================================
