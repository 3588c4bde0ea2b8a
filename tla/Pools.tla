---------------------------------- MODULE Pools ----------------------------------
(***************************************************************************)
(* The lending pools (Lending.tla) and the DEX pools (Dex.tla) side by      *)
(* side: two services that share no rows.                                   *)
(***************************************************************************)
EXTENDS Lending, Dex

PoolsInit == LendingInit /\ DexInit

PoolsStep ==
    \/ LendingStep /\ UNCHANGED dexVars
    \/ DexStep /\ UNCHANGED lendVars

PoolsSpec == PoolsInit /\ [][PoolsStep]_<<lendVars, dexVars>>

\* What the rows of the two kinds of pools say, against what went on chain and what
\* was booked (supply, borrow, repay, withdraw, swap, add and remove liquidity).
PoolBooks == LendingBooks /\ DexBooks
==================================================================================
