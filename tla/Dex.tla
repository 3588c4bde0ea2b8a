---------------------------------- MODULE Dex ----------------------------------
(***************************************************************************)
(* DexService (dex.service.ts) with the rows DexPool (dex-pool.entity.ts),  *)
(* DexSwap (dex-swap.entity.ts) and DexLiquidityPosition                    *)
(* (dex-liquidity-position.entity.ts): one pool, its swaps and liquidity    *)
(* positions.  One step per awaited call.  As in Lending, the save of a pool *)
(* that getPool loaded, with its swaps and positions, is refused once a row  *)
(* was inserted since: of a swap and of a deposit it always is.             *)
(*                                                                          *)
(*   dexPool     the balances of tokens A and B                             *)
(*   swaps       the table of swaps                                         *)
(*   liquidity   the table of liquidity positions                           *)
(*   dexJob      per caller: the call it awaits next, and its copies        *)
(*   swapped     the swaps the cluster confirmed                            *)
(*   dexBase     history: the balances createOrUpdatePool set, less what    *)
(*               removals took since                                        *)
(*   dexFaults, dexOverlaps, dexOps   as in Lending                         *)
(*                                                                          *)
(* A decimal is the set of its value, NaN the empty set.  PostgreSQL hands   *)
(* decimal columns out as strings of nine places, which the entities type   *)
(* as numbers: `-` and `/` convert them, `+` appends.                       *)
(***************************************************************************)
EXTENDS Integers, FiniteSets

CONSTANTS Traders,       \* concurrent requests
          Swaps, Shares, \* ids of swaps and of liquidity positions
          DexAmounts,    \* amounts in, balances set
          MaxDexFaults, MaxDexOps

ASSUME DexAssumption == DexAmounts \subseteq Int /\ MaxDexFaults \in Nat

VARIABLES dexPool, swaps, liquidity, dexJob, swapped, dexBase, dexFaults, dexOverlaps,
          dexOps

dexVars == <<dexPool, swaps, liquidity, dexJob, swapped, dexBase, dexFaults,
             dexOverlaps, dexOps>>

NaN == {}

Minus(x, y) == {u - v : u \in x, v \in y}

Tokens_ == {"a", "b"}

SwapDirection == {"a", "b"}   \* the token that goes in

OutOf(direction) == IF direction = "a" THEN "b" ELSE "a"

DexPool == [Tokens_ -> SUBSET Int]

DexSwap == [direction : SwapDirection, amountIn : Int, amountOut : SUBSET Int,
            status : {"none", "pending", "confirmed", "failed"}]

DexLiquidityPosition == [a : SUBSET Int, b : SUBSET Int, liquidityShares : SUBSET Int,
                         isActive : BOOLEAN]

NoSwap == [direction |-> "a", amountIn |-> 0, amountOut |-> NaN, status |-> "none"]

NoShare == [a |-> NaN, b |-> NaN, liquidityShares |-> NaN, isActive |-> FALSE]

DexIdle == [next |-> "idle", pool |-> [t \in Tokens_ |-> NaN],
            swap |-> CHOOSE s \in Swaps : TRUE, row |-> NoSwap,
            share |-> CHOOSE s \in Shares : TRUE, position |-> NoShare]

IsDecimal(x) == IsFiniteSet(x) /\ Cardinality(x) <= 1 /\ x \subseteq Int

DexTypeOK ==
    /\ \A t \in Tokens_ : IsDecimal(dexPool[t]) /\ IsDecimal(dexBase[t])
    /\ \A s \in Swaps : /\ swaps[s].status \in {"none", "pending", "confirmed", "failed"}
                        /\ IsDecimal(swaps[s].amountOut)
    /\ \A s \in Shares : IsDecimal(liquidity[s].a) /\ IsDecimal(liquidity[s].b)
    /\ \A c \in Traders : dexJob[c].next \in {"idle", "upsert", "createSwap", "sendSwap",
         "swapPool", "failSwap", "createShare", "sharePool",
         "removePool", "removeShare"}
    /\ dexFaults \in 0 .. MaxDexFaults /\ dexOverlaps \in BOOLEAN /\ swapped \subseteq Swaps

DexInit ==
    /\ \E x, y \in DexAmounts : dexPool = [t \in Tokens_ |-> IF t = "a" THEN {x} ELSE {y}]
    /\ dexBase = dexPool
    /\ swaps = [s \in Swaps |-> NoSwap] /\ liquidity = [s \in Shares |-> NoShare]
    /\ dexJob = [c \in Traders |-> DexIdle]
    /\ swapped = {} /\ dexFaults = 0 /\ dexOverlaps = FALSE /\ dexOps = 0

-----------------------------------------------------------------------------

DexBegin(c, job) ==
    /\ dexJob[c].next = "idle"
    /\ dexJob' = [dexJob EXCEPT ![c] = job]
    /\ dexOverlaps' = (dexOverlaps \/ \E d \in Traders : dexJob[d].next # "idle")
    /\ dexOps' = dexOps + 1
    /\ UNCHANGED <<dexPool, swaps, liquidity, swapped, dexBase, dexFaults>>

DexGoto(c, next) ==
    dexJob' = [dexJob EXCEPT ![c] = IF next = "idle" THEN DexIdle
                                    ELSE [@ EXCEPT !.next = next]]

DexRejected(c, next) == dexFaults' = dexFaults + 1 /\ DexGoto(c, next)

\* An awaited save: done, or refused.
DexSave(c, step, write, next, onError) ==
    /\ dexJob[c].next = step
    /\ \/ write /\ DexGoto(c, next) /\ UNCHANGED dexFaults
       \/ DexRejected(c, onError) /\ UNCHANGED <<dexPool, swaps, liquidity>>
    /\ UNCHANGED <<swapped, dexOverlaps, dexOps>>

-----------------------------------------------------------------------------
(* Swaps                                                                    *)

\* A balance may be below zero.
Quotient(n, d) == IF d > 0 THEN n \div d ELSE (-n) \div (-d)

\* reserveOut * dx / (reserveIn + dx), where + appends dx to the decimals of
\* reserveIn: the divisor stays reserveIn, or is not a number where dx, after the
\* fee, has a fraction itself.
CalculateSwapAmount(pool, amountIn, direction, fraction) ==
    IF fraction THEN NaN
    ELSE {Quotient(y * amountIn, x) : x \in pool[direction], y \in pool[OutOf(direction)]}

\* A balance of zero makes the amount infinite, which no column takes.
PerformSwap(c) ==
    \E s \in Swaps, amountIn \in DexAmounts, direction \in SwapDirection,
       fraction \in BOOLEAN :
        /\ swaps[s] = NoSwap
        /\ \A d \in Traders : dexJob[d].next # "idle" => dexJob[d].swap # s
        /\ 0 \notin dexPool[direction]
        /\ DexBegin(c, [DexIdle EXCEPT !.next = "createSwap", !.pool = dexPool,
             !.swap = s, !.row = [direction |-> direction, amountIn |-> amountIn,
               amountOut |-> CalculateSwapAmount(dexPool, amountIn, direction, fraction),
               status |-> "pending"]])

WriteSwap(c, status) ==
    /\ swaps' = [swaps EXCEPT ![dexJob[c].swap] = [dexJob[c].row EXCEPT !.status = status]]
    /\ UNCHANGED <<dexPool, liquidity>>

CreateSwap(c) ==
    /\ DexSave(c, "createSwap", WriteSwap(c, "pending"), "sendSwap", "idle")
    /\ UNCHANGED dexBase

\* sendProgramInvocation; an error may come after the cluster confirmed.
SendSwap(c) ==
    LET s == dexJob[c].swap
    IN  /\ dexJob[c].next = "sendSwap"
        /\ \/ swapped' = swapped \cup {s} /\ DexGoto(c, "swapPool") /\ UNCHANGED dexFaults
           \/ swapped' \in {swapped, swapped \cup {s}} /\ DexRejected(c, "failSwap")
        /\ UNCHANGED <<dexPool, swaps, liquidity, dexBase, dexOverlaps, dexOps>>

\* The save of the pool is refused, as the swap is not among those loaded.
SwapPool(c) ==
    /\ dexJob[c].next = "swapPool" /\ DexGoto(c, "failSwap")
    /\ UNCHANGED <<dexPool, swaps, liquidity, swapped, dexBase, dexFaults, dexOverlaps, dexOps>>

FailSwap(c) ==
    /\ DexSave(c, "failSwap", WriteSwap(c, "failed"), "idle", "idle")
    /\ UNCHANGED dexBase

-----------------------------------------------------------------------------
(* Liquidity: rows only, no transaction is sent                             *)

\* The shares divide by balance A followed by balance B: not a number.
AddLiquidity(c) ==
    \E s \in Shares, a, b \in DexAmounts :
        /\ liquidity[s] = NoShare
        /\ \A d \in Traders : dexJob[d].next # "idle" => dexJob[d].share # s
        /\ DexBegin(c, [DexIdle EXCEPT !.next = "createShare", !.pool = dexPool,
             !.share = s, !.position = [a |-> {a}, b |-> {b}, liquidityShares |-> NaN,
                                        isActive |-> TRUE]])

WriteShare(c) ==
    /\ liquidity' = [liquidity EXCEPT ![dexJob[c].share] = dexJob[c].position]
    /\ UNCHANGED <<dexPool, swaps>>

CreateShare(c) ==
    /\ DexSave(c, "createShare", WriteShare(c), "sharePool", "idle")
    /\ UNCHANGED dexBase

\* Refused like SwapPool: the caller gets an error, the row of the position stays.
SharePool(c) ==
    /\ dexJob[c].next = "sharePool" /\ DexGoto(c, "idle")
    /\ UNCHANGED <<dexPool, swaps, liquidity, swapped, dexBase, dexFaults, dexOverlaps, dexOps>>

Rest(x, percentage) == {u - (u * percentage) \div 100 : u \in x}

\* Mutant: what is left is taken from the pool.
RemoveLiquidityRest(c) ==
    \E s \in Shares, percentage \in {50, 100} :
        LET row == liquidity[s]
        IN  /\ row # NoShare
            /\ DexBegin(c, [DexIdle EXCEPT !.next = "removePool", !.share = s,
                 !.position = [row EXCEPT !.a = Rest(@, percentage),
                                          !.b = Rest(@, percentage)],
                 !.pool = [t \in Tokens_ |-> Minus(dexPool[t], Rest(row[t], percentage))]])

\* The pool comes with the position, without its rows.  The shares are not a
\* number, so never at or below zero: the position stays active.
RemoveLiquidity(c) ==
    \E s \in Shares, percentage \in {50, 100} :
        LET row == liquidity[s]
        IN  /\ row # NoShare
            /\ DexBegin(c, [DexIdle EXCEPT !.next = "removePool", !.share = s,
                 !.position = [row EXCEPT !.a = Rest(@, percentage),
                                          !.b = Rest(@, percentage)],
                 !.pool = [t \in Tokens_ |->
                             Minus(dexPool[t], Minus(row[t], Rest(row[t], percentage)))]])

RemovePool(c) ==
    LET job == dexJob[c]
        taken == [t \in Tokens_ |-> Minus(liquidity[job.share][t], job.position[t])]
    IN  /\ DexSave(c, "removePool", dexPool' = job.pool /\ UNCHANGED <<swaps, liquidity>>,
                   "removeShare", "idle")
        /\ dexBase' = [t \in Tokens_ |-> Minus(dexBase[t], taken[t])]

RemoveShare(c) ==
    /\ DexSave(c, "removeShare", WriteShare(c), "idle", "idle")
    /\ UNCHANGED dexBase

-----------------------------------------------------------------------------

\* createOrUpdatePool sets the balances: two calls.
LoadPool(c) == DexBegin(c, [DexIdle EXCEPT !.next = "upsert"])

CreateOrUpdateDexPool(c) ==
    /\ dexJob[c].next = "upsert"
    /\ \E x, y \in DexAmounts :
         dexPool' = [t \in Tokens_ |-> IF t = "a" THEN {x} ELSE {y}]
    /\ dexBase' = dexPool'
    /\ DexGoto(c, "idle")
    /\ UNCHANGED <<swaps, liquidity, swapped, dexFaults, dexOverlaps, dexOps>>

DexStep ==
    \E c \in Traders :
        \/ LoadPool(c) \/ CreateOrUpdateDexPool(c)
        \/ PerformSwap(c) \/ CreateSwap(c) \/ SendSwap(c) \/ SwapPool(c)
        \/ FailSwap(c)
        \/ AddLiquidity(c) \/ CreateShare(c) \/ SharePool(c)
        \/ RemoveLiquidity(c) \/ RemovePool(c) \/ RemoveShare(c)

\* Bounds as in Lending.
DexNext ==
    /\ DexStep
    /\ dexOps' <= MaxDexOps /\ dexFaults' <= MaxDexFaults
    /\ dexOverlaps' => dexFaults' = 0

-----------------------------------------------------------------------------

\* Without a rejected call a swap is pending only while it is carried out, and one
\* recorded as failed was confirmed by the cluster; one request at a time and
\* without faults the balances are those set last, less what removals took: what
\* swaps and deposits bring never counts, and a deposit that failed can be removed.
DexBooks ==
    /\ dexFaults = 0 => \A s \in Swaps :
         /\ swaps[s].status = "failed" => s \in swapped
         /\ swaps[s].status = "pending" =>
              \E c \in Traders : dexJob[c].swap = s /\ dexJob[c].next # "idle"
    /\ (~dexOverlaps /\ dexFaults = 0 /\ \A c \in Traders : dexJob[c].next = "idle")
          => dexPool = dexBase
=============================================================================
