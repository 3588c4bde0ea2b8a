-------------------------------- MODULE Lending --------------------------------
(***************************************************************************)
(* LendingService (lending.service.ts) with the rows LendingPool            *)
(* (lending-pool.entity.ts) and LendingPosition                             *)
(* (lending-position.entity.ts): a position is opened or reduced around a   *)
(* transaction on the chain, and the reserve loaded before the transaction  *)
(* is written back after it.  One step per awaited call.                    *)
(*                                                                          *)
(* getPool loads a pool with its positions.  On saving it TypeORM compares   *)
(* that array with the table and sets the pool of a row that is missing to  *)
(* null, which the column refuses: of an opening, whose row was inserted     *)
(* after the load, the pool is never saved.  A repayment or withdrawal loads *)
(* the position and by it the pool, without positions, and saves that.      *)
(*                                                                          *)
(*   reserve     liquiditySupply and liquidityBorrowed of the one asset     *)
(*   positions   the table of positions                                     *)
(*   lendJob     per caller: the call it awaits next, and its copies        *)
(*   landed      the positions whose opening the cluster confirmed          *)
(*   reserveBase history: the reserve createOrUpdatePool set last, less     *)
(*               what the cluster confirmed as paid back or withdrawn since *)
(*   lendFaults, lendOverlaps   rejected calls; requests that overlapped    *)
(*   lendOps     operations so far                                          *)
(***************************************************************************)
EXTENDS Integers

CONSTANTS Lenders,        \* concurrent requests
          Positions,      \* ids of positions
          LendAmounts,    \* amounts and collaterals
          MaxLendFaults, MaxLendOps

ASSUME LendingAssumption ==
    /\ Positions # {} /\ LendAmounts \subseteq Int
    /\ MaxLendFaults \in Nat /\ MaxLendOps \in Nat

VARIABLES reserve, positions, lendJob, landed, reserveBase, lendFaults, lendOverlaps,
          lendOps

lendVars == <<reserve, positions, lendJob, landed, reserveBase, lendFaults,
              lendOverlaps, lendOps>>

PositionType == {"supply", "borrow"}

PositionStatus == {"none", "active", "closed", "liquidated"}

LendingPool == [PositionType -> Int]

\* owned: userAddress is set.  It is empty until the opening is complete.
LendingPosition ==
    [type : PositionType, amount : Int, status : PositionStatus, owned : BOOLEAN]

NoPosition == [type |-> "supply", amount |-> 0, status |-> "none", owned |-> FALSE]

EmptyReserve == [t \in PositionType |-> 0]

LendIdle == [next |-> "idle", position |-> CHOOSE p \in Positions : TRUE,
             row |-> NoPosition, pool |-> EmptyReserve, delta |-> 0, opens |-> FALSE]

LendingTypeOK ==
    /\ reserve \in LendingPool /\ reserveBase \in LendingPool
    /\ positions \in [Positions -> LendingPosition] /\ landed \subseteq Positions
    /\ \A c \in Lenders :
         /\ lendJob[c].next \in {"idle", "create", "send", "savePool", "savePosition",
                                 "close", "upsert"}
         /\ lendJob[c].row \in LendingPosition /\ lendJob[c].pool \in LendingPool
    /\ lendFaults \in 0 .. MaxLendFaults /\ lendOverlaps \in BOOLEAN
    /\ lendOps \in 0 .. MaxLendOps

LendingInit ==
    /\ reserve = EmptyReserve /\ reserveBase = EmptyReserve
    /\ positions = [p \in Positions |-> NoPosition]
    /\ lendJob = [c \in Lenders |-> LendIdle]
    /\ landed = {} /\ lendFaults = 0 /\ lendOverlaps = FALSE /\ lendOps = 0

-----------------------------------------------------------------------------

\* A request begins with the rows it loads.
LendBegin(c, job) ==
    /\ lendJob[c].next = "idle"
    /\ lendJob' = [lendJob EXCEPT ![c] = job]
    /\ lendOverlaps' = (lendOverlaps \/ \E d \in Lenders : lendJob[d].next # "idle")
    /\ lendOps' = lendOps + 1
    /\ UNCHANGED <<reserve, positions, landed, reserveBase, lendFaults>>

LendGoto(c, next) ==
    lendJob' = [lendJob EXCEPT ![c] = IF next = "idle" THEN LendIdle
                                      ELSE [@ EXCEPT !.next = next]]

\* An opening that fails is closed; the other requests just throw.
LendRejected(c) ==
    /\ lendFaults' = lendFaults + 1
    /\ LendGoto(c, IF lendJob[c].opens THEN "close" ELSE "idle")

\* Mutant: the position is the user's from the start.
OpeningOwned(p, type, amount) ==
    [LendIdle EXCEPT !.next = "create", !.position = p, !.pool = reserve,
        !.delta = amount, !.opens = TRUE,
        !.row = [type |-> type, amount |-> amount, status |-> "active", owned |-> TRUE]]

Opening(p, type, amount) ==
    [LendIdle EXCEPT !.next = "create", !.position = p, !.pool = reserve,
        !.delta = amount, !.opens = TRUE,
        !.row = [type |-> type, amount |-> amount, status |-> "active", owned |-> FALSE]]

FreePosition(p) ==
    positions[p] = NoPosition /\ \A d \in Lenders : lendJob[d].next # "idle"
                                                      => lendJob[d].position # p

SupplyToPool(c) ==
    \E p \in Positions, amount \in LendAmounts :
        FreePosition(p) /\ LendBegin(c, Opening(p, "supply", amount))

\* The health factor is collateral * 0.75 / amount, at least 1.2.
HealthyBorrow(amount, collateral) == 75 * collateral >= 120 * amount

BorrowFromPool(c) ==
    \E p \in Positions, amount, collateral \in LendAmounts :
        /\ FreePosition(p) /\ HealthyBorrow(amount, collateral)
        /\ LendBegin(c, Opening(p, "borrow", amount))

\* The rest of the position and what is booked; at zero or below it is closed.
Reducing(p, amount) ==
    LET rest == positions[p].amount - amount
    IN  [LendIdle EXCEPT !.next = "send", !.position = p, !.pool = reserve,
            !.delta = -amount,
            !.row = [positions[p] EXCEPT !.amount = rest,
                       !.status = IF rest <= 0 THEN "closed" ELSE @]]

\* The owner is checked, the status and the amount are not.
RepayBorrow(c) ==
    \E p \in Positions, amount \in LendAmounts :
        /\ positions[p].type = "borrow" /\ positions[p].owned
        /\ LendBegin(c, Reducing(p, amount))

WithdrawSupply(c) ==
    \E p \in Positions, amount \in LendAmounts :
        /\ positions[p].type = "supply" /\ positions[p].owned
        /\ LendBegin(c, Reducing(p, amount))

CreatePosition(c) ==
    /\ lendJob[c].next = "create"
    /\ \/ /\ positions' = [positions EXCEPT ![lendJob[c].position] = lendJob[c].row]
          /\ LendGoto(c, "send") /\ UNCHANGED lendFaults
       \/ lendFaults' = lendFaults + 1 /\ LendGoto(c, "idle") /\ UNCHANGED positions
    /\ UNCHANGED <<reserve, landed, reserveBase, lendOverlaps, lendOps>>

\* sendProgramInvocation of the instruction: confirmed, refused, or confirmed
\* with the answer lost.  Then the user's address is known.
SendLending(c) ==
    LET job == lendJob[c]
    IN  /\ job.next = "send"
        /\ \/ /\ landed' = landed \cup {job.position}
              /\ lendJob' = [lendJob EXCEPT ![c].next = "savePool", ![c].row.owned = TRUE]
              /\ reserveBase' = IF job.opens THEN reserveBase
                                ELSE [reserveBase EXCEPT ![job.row.type] = @ + job.delta]
              /\ UNCHANGED lendFaults
           \/ /\ landed' \in {landed, landed \cup {job.position}}
              /\ LendRejected(c) /\ UNCHANGED reserveBase
        /\ UNCHANGED <<reserve, positions, lendOverlaps, lendOps>>

\* The reserve of the copy, changed, is written, unless the copy came with the
\* positions: then the save is refused.
SavePool(c) ==
    LET job == lendJob[c]
    IN  /\ job.next = "savePool"
        /\ \/ /\ job.opens /\ LendGoto(c, "close")
              /\ UNCHANGED <<reserve, lendFaults>>
           \/ /\ ~job.opens
              /\ reserve' = [job.pool EXCEPT ![job.row.type] = @ + job.delta]
              /\ LendGoto(c, "savePosition") /\ UNCHANGED lendFaults
           \/ ~job.opens /\ LendRejected(c) /\ UNCHANGED reserve
        /\ UNCHANGED <<positions, landed, reserveBase, lendOverlaps, lendOps>>

\* Of a repayment or withdrawal.
SavePosition(c) ==
    /\ lendJob[c].next = "savePosition"
    /\ \/ /\ positions' = [positions EXCEPT ![lendJob[c].position] = lendJob[c].row]
          /\ LendGoto(c, "idle") /\ UNCHANGED lendFaults
       \/ LendRejected(c) /\ UNCHANGED positions
    /\ UNCHANGED <<reserve, landed, reserveBase, lendOverlaps, lendOps>>

\* The catch block.
ClosePosition(c) ==
    /\ lendJob[c].next = "close"
    /\ \/ /\ positions' = [positions EXCEPT ![lendJob[c].position] =
                             [lendJob[c].row EXCEPT !.status = "closed"]]
          /\ UNCHANGED lendFaults
       \/ lendFaults' = lendFaults + 1 /\ UNCHANGED positions
    /\ LendGoto(c, "idle")
    /\ UNCHANGED <<reserve, landed, reserveBase, lendOverlaps, lendOps>>

\* createOrUpdatePool replaces the reserves: two calls.
LoadForUpdate(c) == LendBegin(c, [LendIdle EXCEPT !.next = "upsert"])

CreateOrUpdatePool(c) ==
    /\ lendJob[c].next = "upsert"
    /\ \E new \in [PositionType -> LendAmounts] :
         reserve' = new /\ reserveBase' = new
    /\ LendGoto(c, "idle")
    /\ UNCHANGED <<positions, landed, lendFaults, lendOverlaps, lendOps>>

LendingStep ==
    \E c \in Lenders :
        \/ SupplyToPool(c) \/ BorrowFromPool(c) \/ RepayBorrow(c) \/ WithdrawSupply(c)
        \/ CreatePosition(c) \/ SendLending(c) \/ SavePool(c) \/ SavePosition(c)
        \/ ClosePosition(c) \/ LoadForUpdate(c) \/ CreateOrUpdatePool(c)

\* Bounds: on the operations and faults; and requests overlap or fail, not both
\* in one behaviour.
LendingNext ==
    /\ LendingStep
    /\ lendOps' <= MaxLendOps /\ lendFaults' <= MaxLendFaults
    /\ lendOverlaps' => lendFaults' = 0

-----------------------------------------------------------------------------

\* Whatever overlaps and fails, a position that names its owner is closed although
\* its opening reached the chain; without a rejected call a position is active
\* only while it is being opened; and one request at a time and without faults
\* the reserve is what createOrUpdatePool set, less what was paid back since: what
\* was supplied and borrowed is never in it.
LendingBooks ==
    /\ \A p \in Positions :
         positions[p].owned => positions[p].status = "closed" /\ p \in landed
    /\ lendFaults = 0 =>
         \A p \in Positions : positions[p].status = "active" =>
           \E c \in Lenders : lendJob[c].position = p /\ lendJob[c].next # "idle"
    /\ (~lendOverlaps /\ lendFaults = 0 /\ \A c \in Lenders : lendJob[c].next = "idle")
          => reserve = reserveBase
=============================================================================
