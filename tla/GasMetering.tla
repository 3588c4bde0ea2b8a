------------------------------ MODULE GasMetering ------------------------------
(***************************************************************************)
(* The gas meters of SvmService (svm.service.ts:417-589) with their row      *)
(* GasMeter (gas-meter.entity.ts): one meter, the requests that charge it    *)
(* (consumeGas) and those that change it, one step per awaited call.  What   *)
(* else the service offers cannot happen: a program is refused when it is    *)
(* created (its DTO has no programId, which the row requires), so none is    *)
(* ever deployed or executed, and checkGasMeter is never reached.            *)
(*                                                                          *)
(*   meter        its row: none yet, or deleted, or what it holds            *)
(*   gasJob       per request: the save it awaits next and the row it loaded *)
(*   consumed     gas charged by all saves                                   *)
(*   spent        gas charged since the last full reset, or the creation     *)
(*   plain        no allocation was changed since                            *)
(*   reallocated  an allocation was changed ever                             *)
(*   gasOverlaps  two requests were under way at a time                      *)
(*   gasOps       requests begun                                             *)
(*                                                                          *)
(* PostgreSQL hands bigint columns out as strings, which the entity types as*)
(* numbers: `-` and comparisons convert them, `+=` appends, and a result    *)
(* with a fraction is refused when it is saved.                             *)
(***************************************************************************)
EXTENDS Integers

CONSTANTS GasCallers,           \* requests that may overlap
          GasAmounts,           \* gas of a request, of one digit
          Allocation,           \* gasAllocated
          MaxBigint,            \* the largest value of a column
          MaxGasOps

ASSUME GasAssumption ==
    /\ GasAmounts \subseteq 1 .. 9
    /\ Allocation \in Nat \ {0} /\ MaxBigint \in Nat

VARIABLES meter, gasJob, consumed, spent, plain, reallocated, gasOverlaps, gasOps

gasVars == <<meter, gasJob, consumed, spent, plain, reallocated, gasOverlaps, gasOps>>

GasMeterStatus == {"active", "paused", "exceeded"}

MeterStatus == {"none", "deleted", "active", "paused", "exceeded"}

\* The other columns are configuration, or derived from these.
GasMeter == [status : MeterStatus, gasAllocated : Nat, gasUsed : Nat, gasRemaining : Int,
             operationCount : Nat, autoPause : BOOLEAN]

Absent(status) == [status |-> status, gasAllocated |-> 0, gasUsed |-> 0,
                   gasRemaining |-> 0, operationCount |-> 0, autoPause |-> FALSE]

NoMeter == Absent("none")

GasIdle == [next |-> "idle", gasAmount |-> 0, meter |-> NoMeter]

GasTypeOK ==
    /\ meter \in GasMeter
    /\ gasJob \in [GasCallers -> [next : {"idle", "charge", "pause", "change", "remove"},
                                  gasAmount : Nat, meter : GasMeter]]
    /\ consumed \in Nat /\ spent \in Nat
    /\ plain \in BOOLEAN /\ reallocated \in BOOLEAN /\ gasOverlaps \in BOOLEAN

GasInit ==
    /\ meter = NoMeter /\ gasJob = [c \in GasCallers |-> GasIdle]
    /\ consumed = 0 /\ spent = 0 /\ plain = TRUE /\ reallocated = FALSE
    /\ gasOverlaps = FALSE /\ gasOps = 0

-----------------------------------------------------------------------------

Ledger == <<consumed, spent, plain, reallocated>>

Exists(m) == m.status \in GasMeterStatus

\* createGasMeter: the row is saved with nothing used.
CreateGasMeter ==
    /\ meter.status = "none" /\ gasOps' = gasOps + 1
    /\ \E auto \in BOOLEAN :
         meter' = [status |-> "active", gasAllocated |-> Allocation, gasUsed |-> 0,
                   gasRemaining |-> Allocation, operationCount |-> 0, autoPause |-> auto]
    /\ UNCHANGED <<gasJob, Ledger, gasOverlaps>>

\* A request loads the row and awaits a save or a removal of it.
GasBegin(c, next, gasAmount) ==
    /\ gasJob[c].next = "idle" /\ Exists(meter)
    /\ gasJob' = [gasJob EXCEPT ![c] = [next |-> next, gasAmount |-> gasAmount, meter |-> meter]]
    /\ gasOverlaps' = (gasOverlaps \/ \E d \in GasCallers : gasJob[d].next # "idle")
    /\ gasOps' = gasOps + 1
    /\ UNCHANGED <<meter, Ledger>>

\* The request ends.
GasEnd(c, next) ==
    /\ gasJob[c].next = next /\ gasJob' = [gasJob EXCEPT ![c] = GasIdle]
    /\ UNCHANGED <<gasOverlaps, gasOps>>

\* The loaded row is saved, over what it is by now, or anew if it was deleted.
SaveMeter(c, next, m) == GasEnd(c, next) /\ meter' = m

\* A save or removal that the database refuses.
Refused(c) ==
    /\ gasJob[c].next # "idle" /\ GasEnd(c, gasJob[c].next) /\ UNCHANGED <<meter, Ledger>>

-----------------------------------------------------------------------------
(* Charges                                                                  *)

EnoughGas(m, gasAmount) == m.gasRemaining >= gasAmount

\* consumeGas: of an active meter only, and no more than it has; a meter with
\* autoPauseOnThreshold is marked when that was asked for.
ConsumeGas(c) ==
    \E gasAmount \in GasAmounts :
        /\ meter.status = "active"
        /\ \/ EnoughGas(meter, gasAmount) /\ GasBegin(c, "charge", gasAmount)
           \/ /\ ~EnoughGas(meter, gasAmount) /\ meter.autoPause
              /\ GasBegin(c, "pause", gasAmount)

\* x followed by the digit d.
Appended(x, d) == 10 * x + d

\* gasUsed fits its column, and averageGasPerOperation and efficiencyRating come
\* out as integers.
Storable(m) ==
    /\ m.gasUsed <= MaxBigint /\ m.gasUsed % m.operationCount = 0
    /\ (m.gasUsed * 100) % m.gasAllocated = 0 \/ m.gasUsed > m.gasAllocated

\* Mutant: what remains is not reduced.
AfterChargeUnpaid(m, gasAmount) ==
    [m EXCEPT !.gasUsed = Appended(@, gasAmount), !.operationCount = Appended(@, 1)]

AfterCharge(m, gasAmount) ==
    [m EXCEPT !.gasUsed = Appended(@, gasAmount), !.gasRemaining = @ - gasAmount,
              !.operationCount = Appended(@, 1)]

ChargeMeter(c) ==
    LET j == gasJob[c]
    IN  /\ j.next = "charge" /\ Storable(AfterCharge(j.meter, j.gasAmount))
        /\ SaveMeter(c, "charge", AfterCharge(j.meter, j.gasAmount))
        /\ consumed' = consumed + j.gasAmount /\ spent' = spent + j.gasAmount
        /\ UNCHANGED <<plain, reallocated>>

PauseMeter(c) ==
    /\ SaveMeter(c, "pause", [gasJob[c].meter EXCEPT !.status = "exceeded"])
    /\ UNCHANGED Ledger

-----------------------------------------------------------------------------
(* Changes                                                                  *)

GetGasMeter(c) == \E next \in {"change", "remove"} : GasBegin(c, next, 0)

Reallocated == plain' = FALSE /\ reallocated' = TRUE /\ UNCHANGED <<consumed, spent>>

\* updateGasMeter: a status, and an additional allocation appended to both columns.
UpdateGasMeter(c) ==
    LET old == gasJob[c].meter
    IN  \/ \E status \in GasMeterStatus :
             SaveMeter(c, "change", [old EXCEPT !.status = status]) /\ UNCHANGED Ledger
        \/ \E add \in GasAmounts :
             /\ Appended(old.gasAllocated, add) <= MaxBigint
             /\ SaveMeter(c, "change", [old EXCEPT !.gasAllocated = Appended(@, add),
                                                   !.gasRemaining = Appended(@, add)])
             /\ Reallocated

\* resetGasMeter, in full or to a new allocation.
ResetGasMeter(c) ==
    LET old == gasJob[c].meter
    IN  \/ /\ SaveMeter(c, "change", [old EXCEPT !.gasUsed = 0, !.operationCount = 0,
                  !.gasRemaining = old.gasAllocated, !.status = "active"])
           /\ spent' = 0 /\ plain' = TRUE /\ UNCHANGED <<consumed, reallocated>>
        \/ \E new \in GasAmounts :
             /\ SaveMeter(c, "change", [old EXCEPT !.gasAllocated = new,
                  !.gasRemaining = IF new < old.gasUsed THEN 0 ELSE new - old.gasUsed,
                  !.status = IF new < old.gasUsed THEN "exceeded" ELSE @])
             /\ Reallocated

DeleteGasMeter(c) ==
    /\ SaveMeter(c, "remove", Absent("deleted")) /\ UNCHANGED Ledger

-----------------------------------------------------------------------------

GasNext ==
    /\ \/ CreateGasMeter
       \/ \E c \in GasCallers :
            \/ ConsumeGas(c) \/ GetGasMeter(c) \/ ChargeMeter(c) \/ PauseMeter(c)
            \/ UpdateGasMeter(c) \/ ResetGasMeter(c) \/ DeleteGasMeter(c) \/ Refused(c)
    /\ gasOps' <= MaxGasOps

-----------------------------------------------------------------------------

\* Whatever overlaps and is refused, the gas remaining never goes below zero, and
\* as long as no allocation was changed a meter shows no more gas as gone than was
\* consumed, though charges overwrite each other and resets, and come back from
\* copies older than a reset or a removal; one request at a time it shows as gone
\* exactly what was charged since the last full reset, until the allocation is
\* changed.
GasHonoured ==
    /\ meter.gasRemaining >= 0
    /\ ~reallocated => meter.gasAllocated - meter.gasRemaining <= consumed
    /\ ~gasOverlaps /\ plain /\ Exists(meter) =>
         meter.gasRemaining = meter.gasAllocated - spent
=============================================================================
