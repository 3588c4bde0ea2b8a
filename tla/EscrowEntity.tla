---------------------------- MODULE EscrowEntity ----------------------------
(***************************************************************************)
(* The row of table esports_escrow_accounts (escrow.entity.ts) as a value: *)
(* its lifecycle status, its five amounts, the guards the entity defines   *)
(* (canDeposit, canRelease, canRefund) and, for each operation of          *)
(* EscrowService, the entity that operation computes from the entity it    *)
(* loaded.  The columns are named deposited, released, refunded, fee and   *)
(* balance for totalDeposited, totalReleased, totalRefunded,               *)
(* platformFeeCollected and currentBalance.                                *)
(***************************************************************************)
EXTENDS Integers

CONSTANT FeeBps  \* Math.round(platformFeePercent * 100), in 1/10000

ASSUME FeeBpsAssumption == FeeBps \in 0..10000

EscrowStatus == {"created", "active", "locked", "releasing", "released",
                 "refunding", "refunded", "closed"}

EscrowRow == [status : EscrowStatus,
              deposited : Nat, released : Nat, refunded : Nat, fee : Nat,
              balance : Int]

\* What createEscrow inserts.
NewEscrow == [status |-> "created", deposited |-> 0, released |-> 0,
              refunded |-> 0, fee |-> 0, balance |-> 0]

canDeposit(e) == e.status \in {"created", "active"}
canRelease(e) == e.status = "locked" /\ e.balance > 0

canRefund(e)  == e.status \in {"active", "locked"} /\ e.balance > 0

WithStatus(e, s) == [e EXCEPT !.status = s]

\* depositToEscrow: the first deposit activates the escrow.
AfterDeposit(e, amount) ==
    [e EXCEPT !.deposited = @ + amount,
              !.balance   = @ + amount,
              !.status    = IF @ = "created" THEN "active" ELSE @]

\* The truncating BigInt division of releaseEscrow.
PlatformFee(e) == (e.balance * FeeBps) \div 10000

\* Mutant: the fee is collected but stays in the balance.
AfterReleaseKeepingFee(e, total, fee) ==
    [e EXCEPT !.released = @ + total, !.fee = @ + fee,
              !.balance = @ - total, !.status = "released"]

\* Mutant: the entity is saved with the status it was locked with.
AfterReleaseStillLocked(e, total, fee) ==
    [e EXCEPT !.released = @ + total, !.fee = @ + fee,
              !.balance = @ - total - fee, !.status = "locked"]

\* Mutant: the status is not moved on from RELEASING.
AfterReleaseStillReleasing(e, total, fee) ==
    [e EXCEPT !.released = @ + total, !.fee = @ + fee,
              !.balance = @ - total - fee]

AfterRelease(e, total, fee) ==
    [e EXCEPT !.released = @ + total,
              !.fee      = @ + fee,
              !.balance  = @ - total - fee,
              !.status   = "released"]

\* Mutant: the balance goes down and totalRefunded does not go up.
AfterRefundUncounted(e, total) ==
    [e EXCEPT !.balance = @ - total,
              !.status = IF e.balance = total THEN "refunded" ELSE "active"]

\* A refund that leaves a remainder reopens the escrow.
AfterRefund(e, total) ==
    [e EXCEPT !.refunded = @ + total,
              !.balance  = @ - total,
              !.status   = IF e.balance = total THEN "refunded" ELSE "active"]

(***************************************************************************)
(* "currentBalance = totalDeposited - totalReleased - totalRefunded -      *)
(* platformFeeCollected" (escrow.entity.ts, Balance Tracking).             *)
(***************************************************************************)
Balanced(e) == e.balance = e.deposited - e.released - e.refunded - e.fee
=============================================================================
