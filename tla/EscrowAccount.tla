--------------------------- MODULE EscrowAccount ---------------------------
(***************************************************************************)
(* What an escrow promises to the services that use it: one account whose  *)
(* operations are atomic.  Escrow.tla, restricted to one caller at a time,  *)
(* implements this module.                                                  *)
(***************************************************************************)
EXTENDS EscrowEntity

CONSTANT Amounts  \* what a deposit may be

VARIABLE account

Init == account = NewEscrow

Deposit == /\ canDeposit(account)
           /\ \E amount \in Amounts : account' = AfterDeposit(account, amount)

Lock == account.status = "active" /\ account' = WithStatus(account, "locked")

\* Settlement takes two writes, the first of which announces it.
BeginRelease == /\ canRelease(account)
                /\ account' = WithStatus(account, "releasing")

\* Prizes and the fee come out of the pot; what is not distributed stays in it.
EndRelease ==
    /\ account.status = "releasing"
    /\ \E total \in 0 .. (account.balance - PlatformFee(account)) :
         account' = AfterRelease(account, total, PlatformFee(account))

BeginRefund == /\ canRefund(account)
               /\ account' = WithStatus(account, "refunding")

\* A refund returns the whole pot.
EndRefund == /\ account.status = "refunding"
             /\ account' = AfterRefund(account, account.balance)

Close == account.balance = 0 /\ account' = WithStatus(account, "closed")

Next == Deposit \/ Lock \/ BeginRelease \/ EndRelease
          \/ BeginRefund \/ EndRefund \/ Close

Spec == Init /\ [][Next]_account
=============================================================================
