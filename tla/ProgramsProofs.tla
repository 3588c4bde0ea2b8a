----------------------------- MODULE ProgramsProofs -----------------------------
(***************************************************************************)
(* Proofs about gas meters (GasMetering.tla), requests to other parties'    *)
(* marketplaces (NftMarketplaceCpi.tla), the listings, bids and sales of    *)
(* the own one (Tokens.tla) and the lending and DEX pools (Pools.tla), for  *)
(* every number of concurrent requests, all ids, gas amounts, prices,       *)
(* amounts and bounds.                                                      *)
(***************************************************************************)
EXTENDS GasMetering, NftMarketplaceCpi, Tokens, Pools, LedgerProofs

-----------------------------------------------------------------------------
(* Gas meters                                                               *)

GasSpec == GasInit /\ [][GasNext]_gasVars

\* What a meter shows as gone was consumed, until its allocation is changed.
Shown(m) == m.gasRemaining >= 0 /\ (~reallocated => m.gasAllocated - m.gasRemaining <= consumed)

\* The copies under way are as good as the row; a request alone holds the row itself.
GasInv ==
    /\ GasTypeOK /\ Shown(meter) /\ (meter.status = "none" => spent = 0)
    /\ \A c \in GasCallers :
         /\ Shown(gasJob[c].meter)
         /\ gasJob[c].next # "idle" => Exists(gasJob[c].meter)
         /\ gasJob[c].next = "charge" => gasJob[c].gasAmount <= gasJob[c].meter.gasRemaining
    /\ ~gasOverlaps =>
         /\ plain /\ Exists(meter) => meter.gasRemaining = meter.gasAllocated - spent
         /\ \A c \in GasCallers : gasJob[c].next # "idle" =>
              /\ gasJob[c].meter = meter
              /\ \A d \in GasCallers : gasJob[d].next # "idle" => d = c

LEMMA MeterBuilt ==
    ASSUME NEW s \in MeterStatus, NEW a \in Nat, NEW u \in Nat,
           NEW r \in Int, NEW o \in Nat, NEW p \in BOOLEAN
    PROVE  [status |-> s, gasAllocated |-> a, gasUsed |-> u, gasRemaining |-> r,
            operationCount |-> o, autoPause |-> p] \in GasMeter
  BY DEF GasMeter

LEMMA MeterFields ==
    ASSUME NEW m \in GasMeter
    PROVE  /\ m.status \in MeterStatus /\ m.gasAllocated \in Nat
           /\ m.gasUsed \in Nat /\ m.gasRemaining \in Int /\ m.operationCount \in Nat
           /\ m.autoPause \in BOOLEAN
           /\ m = [status |-> m.status, gasAllocated |-> m.gasAllocated, gasUsed |-> m.gasUsed,
                   gasRemaining |-> m.gasRemaining, operationCount |-> m.operationCount,
                   autoPause |-> m.autoPause]
  BY DEF GasMeter

LEMMA AbsentType ==
    ASSUME NEW status \in {"none", "deleted"}
    PROVE  /\ Absent(status) \in GasMeter /\ Absent(status).gasRemaining = 0
           /\ Absent(status).gasAllocated = 0 /\ ~Exists(Absent(status))
<1>1. Absent(status) \in GasMeter
  BY DEF Absent, GasMeter, MeterStatus
<1>2. /\ Absent(status).gasRemaining = 0 /\ Absent(status).gasAllocated = 0
      /\ Absent(status).status = status
  BY DEF Absent
<1>. QED  BY <1>1, <1>2 DEF Exists, GasMeterStatus

LEMMA NoMeterType ==
    /\ NoMeter \in GasMeter /\ NoMeter.gasRemaining = 0 /\ NoMeter.gasAllocated = 0
    /\ ~Exists(NoMeter)
  BY AbsentType DEF NoMeter

LEMMA GasStart == GasInit => GasInv
<1> SUFFICES ASSUME GasInit PROVE GasInv
  OBVIOUS
<1>1. GasIdle \in [next : {"idle", "charge", "pause", "change", "remove"}, gasAmount : Nat,
                   meter : GasMeter]
      /\ GasIdle.next = "idle" /\ GasIdle.meter = NoMeter
  BY NoMeterType DEF GasIdle
<1>2. \A c \in GasCallers : gasJob[c] = GasIdle
  BY DEF GasInit
<1>3. GasTypeOK
  BY <1>1, NoMeterType DEF GasInit, GasTypeOK
<1>4. Shown(NoMeter)
  BY NoMeterType DEF GasInit, Shown
<1>. QED  BY <1>1, <1>2, <1>3, <1>4, NoMeterType DEF GasInit, GasInv

\* A request that ends leaves the others alone.
LEMMA GasEnded ==
    ASSUME GasInv, NEW c \in GasCallers, NEW next, next # "idle", GasEnd(c, next)
    PROVE  /\ gasJob' \in [GasCallers -> [next : {"idle", "charge", "pause", "change", "remove"},
                                          gasAmount : Nat, meter : GasMeter]]
           /\ gasJob'[c] = GasIdle /\ \A d \in GasCallers \ {c} : gasJob'[d] = gasJob[d]
           /\ gasOverlaps' = gasOverlaps
           /\ ~gasOverlaps => \A d \in GasCallers : gasJob'[d].next = "idle"
<1>1. gasJob \in [GasCallers -> [next : {"idle", "charge", "pause", "change", "remove"},
                                 gasAmount : Nat, meter : GasMeter]]
  BY DEF GasInv, GasTypeOK
<1>2. /\ gasJob[c].next # "idle" /\ gasJob' = [gasJob EXCEPT ![c] = GasIdle]
      /\ gasOverlaps' = gasOverlaps
  BY DEF GasEnd
<1>3. GasIdle.next = "idle" /\ GasIdle \in [next : {"idle", "charge", "pause", "change", "remove"},
                                            gasAmount : Nat, meter : GasMeter]
  BY NoMeterType DEF GasIdle
<1>4. ~gasOverlaps => \A d \in GasCallers : gasJob[d].next # "idle" => d = c
  BY <1>2 DEF GasInv
<1>. QED  BY <1>1, <1>2, <1>3, <1>4

\* A row saved from a copy keeps the invariant if its figures do.
LEMMA GasSaved ==
    ASSUME GasInv, NEW c \in GasCallers, NEW next, next # "idle",
           NEW m \in GasMeter, SaveMeter(c, next, m),
           consumed' \in Nat, spent' \in Nat, plain' \in BOOLEAN, reallocated' \in BOOLEAN,
           consumed' >= consumed, reallocated => reallocated',
           m.gasRemaining >= 0, ~reallocated' => m.gasAllocated - m.gasRemaining <= consumed',
           ~gasOverlaps /\ plain' /\ Exists(m) => m.gasRemaining = m.gasAllocated - spent',
           m.status = "none" => spent' = 0
    PROVE  GasInv'
<1>1. GasEnd(c, next) /\ meter' = m
  BY DEF SaveMeter
<1>2. /\ gasJob' \in [GasCallers -> [next : {"idle", "charge", "pause", "change", "remove"},
                                     gasAmount : Nat, meter : GasMeter]]
      /\ gasJob'[c] = GasIdle /\ \A d \in GasCallers \ {c} : gasJob'[d] = gasJob[d]
      /\ gasOverlaps' = gasOverlaps
      /\ ~gasOverlaps => \A d \in GasCallers : gasJob'[d].next = "idle"
  BY <1>1, GasEnded
<1>3. GasTypeOK'
  BY <1>1, <1>2 DEF GasInv, GasTypeOK
<1>4. ASSUME NEW n \in GasMeter, Shown(n)
      PROVE  n.gasRemaining >= 0 /\ (~reallocated' => n.gasAllocated - n.gasRemaining <= consumed')
  <2>1. consumed \in Nat /\ n.gasAllocated \in Int /\ n.gasRemaining \in Int
    BY DEF GasInv, GasTypeOK, GasMeter
  <2>. QED  BY <1>4, <2>1 DEF Shown
<1>5. \A d \in GasCallers :
        /\ gasJob'[d].meter.gasRemaining >= 0
        /\ ~reallocated' => gasJob'[d].meter.gasAllocated - gasJob'[d].meter.gasRemaining
                              <= consumed'
        /\ gasJob'[d].next # "idle" => Exists(gasJob'[d].meter)
        /\ gasJob'[d].next = "charge" => gasJob'[d].gasAmount <= gasJob'[d].meter.gasRemaining
  <2>1. CASE TRUE
    <3> SUFFICES ASSUME NEW d \in GasCallers
        PROVE /\ gasJob'[d].meter.gasRemaining >= 0
              /\ ~reallocated' => gasJob'[d].meter.gasAllocated - gasJob'[d].meter.gasRemaining
                                    <= consumed'
              /\ gasJob'[d].next # "idle" => Exists(gasJob'[d].meter)
              /\ gasJob'[d].next = "charge" =>
                   gasJob'[d].gasAmount <= gasJob'[d].meter.gasRemaining
      OBVIOUS
    <3>1. CASE d = c
      BY <1>2, <3>1, NoMeterType DEF GasIdle
    <3>2. CASE d # c
      <4>1. gasJob'[d] = gasJob[d] /\ gasJob[d].meter \in GasMeter /\ Shown(gasJob[d].meter)
        BY <1>2, <3>2 DEF GasInv, GasTypeOK
      <4>. QED  BY <1>4, <4>1 DEF GasInv
    <3>. QED  BY <3>1, <3>2
  <2>. QED  BY <2>1
<1>. QED  BY <1>1, <1>2, <1>3, <1>5 DEF GasInv, Shown, Exists

LEMMA GasBegun ==
    ASSUME GasInv, NEW c \in GasCallers, NEW next \in {"charge", "pause", "change", "remove"},
           NEW gasAmount \in Nat, GasBegin(c, next, gasAmount),
           next = "charge" => gasAmount <= meter.gasRemaining
    PROVE  GasInv'
<1> DEFINE j == [next |-> next, gasAmount |-> gasAmount, meter |-> meter]
<1>1. /\ meter' = meter /\ consumed' = consumed /\ spent' = spent /\ plain' = plain
      /\ reallocated' = reallocated /\ gasJob' = [gasJob EXCEPT ![c] = j]
      /\ gasOverlaps' = (gasOverlaps \/ \E d \in GasCallers : gasJob[d].next # "idle")
      /\ Exists(meter) /\ gasJob[c].next = "idle"
  BY DEF GasBegin, Ledger
<1>2. j \in [next : {"idle", "charge", "pause", "change", "remove"}, gasAmount : Nat,
             meter : GasMeter]
  BY DEF GasInv, GasTypeOK
<1>3. gasJob \in [GasCallers -> [next : {"idle", "charge", "pause", "change", "remove"},
                                 gasAmount : Nat, meter : GasMeter]]
  BY DEF GasInv, GasTypeOK
<1>4. /\ gasJob' \in [GasCallers -> [next : {"idle", "charge", "pause", "change", "remove"},
                                     gasAmount : Nat, meter : GasMeter]]
      /\ gasJob'[c] = j /\ \A d \in GasCallers \ {c} : gasJob'[d] = gasJob[d]
  BY <1>1, <1>2, <1>3
<1>5. j.meter = meter /\ j.next = next /\ j.gasAmount = gasAmount
  OBVIOUS
<1> HIDE DEF j
<1>6. GasTypeOK'
  BY <1>1, <1>4 DEF GasInv, GasTypeOK
<1>7. \A d \in GasCallers :
        /\ Shown(gasJob'[d].meter)
        /\ gasJob'[d].next # "idle" => Exists(gasJob'[d].meter)
        /\ gasJob'[d].next = "charge" => gasJob'[d].gasAmount <= gasJob'[d].meter.gasRemaining
  BY <1>1, <1>4, <1>5 DEF GasInv
<1>8. ~gasOverlaps' => \A d \in GasCallers : gasJob'[d].next # "idle" =>
        gasJob'[d].meter = meter' /\ d = c
  BY <1>1, <1>4, <1>5
<1>9. ~gasOverlaps' =>
        (plain' /\ Exists(meter') => meter'.gasRemaining = meter'.gasAllocated - spent')
  BY <1>1 DEF GasInv
<1>. QED  BY <1>1, <1>6, <1>7, <1>8, <1>9 DEF GasInv, Shown, Exists

LEMMA GasCharged ==
    ASSUME GasInv, NEW c \in GasCallers, ChargeMeter(c)
    PROVE  GasInv'
<1> DEFINE j == gasJob[c]
           m == AfterCharge(j.meter, j.gasAmount)
<1>1. /\ SaveMeter(c, "charge", m) /\ consumed' = consumed + j.gasAmount
      /\ spent' = spent + j.gasAmount /\ plain' = plain /\ reallocated' = reallocated
  BY DEF ChargeMeter
<1>2. /\ j.meter \in GasMeter /\ j.gasAmount \in Nat /\ Shown(j.meter)
      /\ consumed \in Nat /\ spent \in Nat
  BY DEF GasInv, GasTypeOK
<1>3. j.next = "charge"
  BY DEF ChargeMeter
<1>4. j.gasAmount <= j.meter.gasRemaining
  BY <1>3 DEF GasInv
<1>5. /\ m \in GasMeter /\ m.gasRemaining = j.meter.gasRemaining - j.gasAmount
      /\ m.gasAllocated = j.meter.gasAllocated /\ m.status = j.meter.status
  <2> DEFINE u == Appended(j.meter.gasUsed, j.gasAmount)
             o == Appended(j.meter.operationCount, 1)
             r == j.meter.gasRemaining - j.gasAmount
  <2>1. u \in Nat /\ o \in Nat /\ r \in Int
    BY <1>2, MeterFields DEF Appended
  <2>2. m = [j.meter EXCEPT !.gasUsed = u, !.gasRemaining = r, !.operationCount = o]
    BY DEF AfterCharge
  <2> HIDE DEF u, o, r, m
  <2>3. m = [status |-> j.meter.status, gasAllocated |-> j.meter.gasAllocated, gasUsed |-> u,
             gasRemaining |-> r, operationCount |-> o, autoPause |-> j.meter.autoPause]
    BY <1>2, <2>2 DEF GasMeter
  <2>4. m \in GasMeter
    BY <1>2, <2>1, <2>3, MeterFields, MeterBuilt
  <2>. QED  BY <2>3, <2>4 DEF r
<1>6. j.meter.gasRemaining \in Int /\ j.meter.gasAllocated \in Int
  BY <1>2 DEF GasMeter
<1>7. ~gasOverlaps => j.meter = meter
  BY <1>3 DEF GasInv
<1>8. ~gasOverlaps /\ plain /\ Exists(m) =>
        j.meter.gasRemaining = j.meter.gasAllocated - spent
  BY <1>5, <1>7 DEF GasInv, Exists
<1> HIDE DEF m, j
<1>9. m.gasRemaining >= 0 /\ (~reallocated => m.gasAllocated - m.gasRemaining <= consumed')
  BY <1>1, <1>2, <1>4, <1>5, <1>6 DEF Shown
<1>10. ~gasOverlaps /\ plain' /\ Exists(m) => m.gasRemaining = m.gasAllocated - spent'
  BY <1>1, <1>2, <1>5, <1>6, <1>8
<1>11. plain \in BOOLEAN /\ reallocated \in BOOLEAN
  BY DEF GasInv, GasTypeOK
<1>12. m.status # "none"
  BY <1>3, <1>5 DEF GasInv, Exists, GasMeterStatus, j
<1>. QED  BY <1>1, <1>2, <1>5, <1>9, <1>10, <1>11, <1>12, GasSaved

\* A row that differs from the copy in its status, or in configuration.
LEMMA GasMarked ==
    ASSUME GasInv, NEW c \in GasCallers, NEW next \in {"pause", "change"},
           NEW status \in GasMeterStatus,
           SaveMeter(c, next, [gasJob[c].meter EXCEPT !.status = status]), UNCHANGED Ledger
    PROVE  GasInv'
<1> DEFINE m == [gasJob[c].meter EXCEPT !.status = status]
<1>1. gasJob[c].next = next
  BY DEF SaveMeter, GasEnd
<1>2. gasJob[c].meter \in GasMeter /\ Shown(gasJob[c].meter) /\ Exists(gasJob[c].meter)
  BY <1>1 DEF GasInv, GasTypeOK
<1>3. /\ m \in GasMeter /\ m.status # "none" /\ m.gasRemaining = gasJob[c].meter.gasRemaining
      /\ m.gasAllocated = gasJob[c].meter.gasAllocated
  BY <1>2 DEF GasMeter, GasMeterStatus, MeterStatus
<1>4. ~gasOverlaps => gasJob[c].meter = meter
  BY <1>1 DEF GasInv
<1>5. consumed' = consumed /\ spent' = spent /\ plain' = plain /\ reallocated' = reallocated
  BY DEF Ledger
<1>6. consumed \in Nat /\ spent \in Nat /\ plain \in BOOLEAN /\ reallocated \in BOOLEAN
  BY DEF GasInv, GasTypeOK
<1>7. ~gasOverlaps /\ plain => m.gasRemaining = m.gasAllocated - spent
  BY <1>2, <1>3, <1>4 DEF GasInv
<1>8. SaveMeter(c, next, m)
  OBVIOUS
<1> HIDE DEF m
<1>. QED  BY <1>2, <1>3, <1>5, <1>6, <1>7, <1>8, GasSaved DEF Shown

LEMMA GasChanged ==
    ASSUME GasInv, NEW c \in GasCallers, UpdateGasMeter(c) \/ ResetGasMeter(c)
    PROVE  GasInv'
<1> DEFINE old == gasJob[c].meter
<1>1. old \in GasMeter /\ Shown(old) /\ consumed \in Nat /\ spent \in Nat
      /\ plain \in BOOLEAN /\ reallocated \in BOOLEAN
  BY DEF GasInv, GasTypeOK
<1>2. old.gasAllocated \in Nat /\ old.gasUsed \in Nat /\ old.gasRemaining \in Int
      /\ old.gasRemaining >= 0
  BY <1>1 DEF GasMeter, Shown
<1>3. ASSUME NEW m \in GasMeter, m.gasRemaining >= 0, m.status # "none",
             SaveMeter(c, "change", m), Reallocated
      PROVE  GasInv'
  <2>1. plain' = FALSE /\ reallocated' = TRUE /\ consumed' = consumed /\ spent' = spent
    BY <1>3 DEF Reallocated
  <2>2. consumed' >= consumed /\ consumed' \in Nat
    BY <1>1, <2>1
  <2> HIDE DEF old
  <2>. QED  BY <1>1, <1>3, <2>1, <2>2, GasSaved
<1>4. ASSUME NEW status \in GasMeterStatus, UNCHANGED Ledger,
             SaveMeter(c, "change", [old EXCEPT !.status = status])
      PROVE  GasInv'
  BY <1>4, GasMarked
<1>5. ASSUME NEW add \in GasAmounts, Reallocated,
             SaveMeter(c, "change", [old EXCEPT !.gasAllocated = Appended(@, add),
                                                !.gasRemaining = Appended(@, add)])
      PROVE  GasInv'
  <2> DEFINE m == [old EXCEPT !.gasAllocated = Appended(@, add),
                              !.gasRemaining = Appended(@, add)]
  <2>1. add \in Nat
    BY GasAssumption
  <2>2. Appended(old.gasAllocated, add) \in Nat /\ Appended(old.gasRemaining, add) \in Nat
    BY <1>2, <2>1 DEF Appended
  <2> DEFINE a == Appended(old.gasAllocated, add)
             r == Appended(old.gasRemaining, add)
  <2>3. m = [old EXCEPT !.gasAllocated = a, !.gasRemaining = r]
    OBVIOUS
  <2>4. SaveMeter(c, "change", m)
    BY <1>5
  <2>5. a \in Nat /\ r \in Int /\ r >= 0
    BY <2>2
  <2> HIDE DEF m, old, a, r
  <2>6. m \in GasMeter
    BY <1>1, <2>3, <2>5 DEF GasMeter
  <2>7. m.gasRemaining >= 0
    BY <1>1, <2>3, <2>5 DEF GasMeter
  <2>8. ASSUME SaveMeter(c, "change", m) PROVE m.status # "none"
    <3>1. gasJob[c].next = "change"
      BY <2>8 DEF SaveMeter, GasEnd
    <3>2. old.status # "none"
      BY <3>1 DEF GasInv, Exists, GasMeterStatus, old
    <3>. QED  BY <1>1, <2>3, <3>2 DEF GasMeter
  <2>. QED  BY <1>3, <1>5, <2>4, <2>6, <2>7, <2>8
<1>6. ASSUME SaveMeter(c, "change", [old EXCEPT !.gasUsed = 0, !.operationCount = 0,
                                     !.gasRemaining = old.gasAllocated, !.status = "active"]),
             spent' = 0, plain' = TRUE, UNCHANGED <<consumed, reallocated>>
      PROVE  GasInv'
  <2> DEFINE m == [old EXCEPT !.gasUsed = 0, !.operationCount = 0,
                              !.gasRemaining = old.gasAllocated, !.status = "active"]
  <2>1. /\ m \in GasMeter /\ m.status = "active" /\ m.gasRemaining = old.gasAllocated
        /\ m.gasAllocated = old.gasAllocated
    <3>0. m = [old EXCEPT !.gasUsed = 0, !.operationCount = 0,
                          !.gasRemaining = old.gasAllocated, !.status = "active"]
      OBVIOUS
    <3> HIDE DEF m, old
    <3>1. m = [status |-> "active", gasAllocated |-> old.gasAllocated, gasUsed |-> 0,
               gasRemaining |-> old.gasAllocated, operationCount |-> 0,
               autoPause |-> old.autoPause]
      BY <1>1, <3>0 DEF GasMeter
    <3>2. m \in GasMeter
      BY <1>1, <1>2, <3>1, MeterFields, MeterBuilt DEF MeterStatus
    <3>. QED  BY <3>1, <3>2
  <2>2. SaveMeter(c, "change", m)
    BY <1>6
  <2> HIDE DEF m, old
  <2>. QED  BY <1>1, <1>2, <1>6, <2>1, <2>2, GasSaved
<1>7. ASSUME NEW new \in GasAmounts, Reallocated,
             SaveMeter(c, "change", [old EXCEPT !.gasAllocated = new,
               !.gasRemaining = IF new < old.gasUsed THEN 0 ELSE new - old.gasUsed,
               !.status = IF new < old.gasUsed THEN "exceeded" ELSE @])
      PROVE  GasInv'
  <2> DEFINE r == IF new < old.gasUsed THEN 0 ELSE new - old.gasUsed
             m == [old EXCEPT !.gasAllocated = new, !.gasRemaining = r,
                              !.status = IF new < old.gasUsed THEN "exceeded" ELSE @]
  <2>1. new \in Nat
    BY GasAssumption
  <2>2. r \in Nat
    BY <1>2, <2>1
  <2> HIDE DEF r
  <2>0. old.status # "none"
    <3>1. gasJob[c].next = "change"
      BY <1>7 DEF SaveMeter, GasEnd
    <3>. QED  BY <3>1 DEF GasInv, Exists, GasMeterStatus
  <2>3. m \in GasMeter /\ m.gasRemaining >= 0 /\ m.status # "none"
    <3> DEFINE s == IF new < old.gasUsed THEN "exceeded" ELSE old.status
    <3>0. m = [old EXCEPT !.gasAllocated = new, !.gasRemaining = r, !.status = s]
      OBVIOUS
    <3>2. s \in MeterStatus /\ s # "none"
      BY <1>1, <2>0, MeterFields DEF MeterStatus
    <3> HIDE DEF m, s, old
    <3>1. m = [status |-> s, gasAllocated |-> new, gasUsed |-> old.gasUsed, gasRemaining |-> r,
               operationCount |-> old.operationCount, autoPause |-> old.autoPause]
      BY <1>1, <3>0 DEF GasMeter
    <3>3. m \in GasMeter
      BY <1>1, <2>1, <2>2, <3>1, <3>2, MeterFields, MeterBuilt
    <3>. QED  BY <2>2, <3>1, <3>2, <3>3
  <2>4. SaveMeter(c, "change", m)
    BY <1>7 DEF r
  <2>. QED  BY <1>3, <1>7, <2>3, <2>4
<1>8. CASE UpdateGasMeter(c)
  BY <1>4, <1>5, <1>8 DEF UpdateGasMeter
<1>9. CASE ResetGasMeter(c)
  BY <1>6, <1>7, <1>9 DEF ResetGasMeter
<1>. QED  BY <1>8, <1>9

LEMMA GasNextInv == GasInv /\ [GasNext]_gasVars => GasInv'
<1> SUFFICES ASSUME GasInv, [GasNext]_gasVars PROVE GasInv'
  OBVIOUS
<1>0. consumed \in Nat /\ spent \in Nat /\ plain \in BOOLEAN /\ reallocated \in BOOLEAN
  BY DEF GasInv, GasTypeOK
<1>1. CASE CreateGasMeter
  <2>1. PICK auto \in BOOLEAN :
          meter' = [status |-> "active", gasAllocated |-> Allocation, gasUsed |-> 0,
                    gasRemaining |-> Allocation, operationCount |-> 0, autoPause |-> auto]
    BY <1>1 DEF CreateGasMeter
  <2>2. meter' \in GasMeter /\ meter'.gasRemaining = Allocation /\ meter'.gasAllocated = Allocation
    BY <2>1, GasAssumption DEF GasMeter, MeterStatus
  <2>3. /\ gasJob' = gasJob /\ gasOverlaps' = gasOverlaps /\ consumed' = consumed
        /\ spent' = spent /\ plain' = plain /\ reallocated' = reallocated
        /\ meter.status = "none"
    BY <1>1 DEF CreateGasMeter, Ledger
  <2>4. meter \in GasMeter /\ gasJob \in [GasCallers -> [next : {"idle", "charge", "pause", "change",
           "remove"}, gasAmount : Nat, meter : GasMeter]]
    BY DEF GasInv, GasTypeOK
  <2>5. GasTypeOK'
    <3>1. gasOverlaps \in BOOLEAN
      BY DEF GasInv, GasTypeOK
    <3>2. consumed' \in Nat /\ spent' \in Nat
      BY <1>0, <2>3
    <3>3. plain' \in BOOLEAN /\ reallocated' \in BOOLEAN /\ gasOverlaps' \in BOOLEAN
      BY <1>0, <2>3, <3>1
    <3>4. gasJob' \in [GasCallers -> [next : {"idle", "charge", "pause", "change", "remove"},
                                     gasAmount : Nat, meter : GasMeter]]
      BY <2>3, <2>4
    <3>. QED  BY <2>2, <3>2, <3>3, <3>4 DEF GasTypeOK
  <2>6. Shown(meter)'
    BY <1>0, <2>2, <2>3, GasAssumption DEF Shown
  <2>7. spent' = 0 /\ meter'.status = "active"
    BY <2>1, <2>3 DEF GasInv
  <2>8. \A c \in GasCallers : Shown(gasJob[c].meter)'
    BY <2>3 DEF GasInv, Shown
  <2>9. ~gasOverlaps => \A c \in GasCallers : gasJob[c].next = "idle"
    BY <2>3 DEF GasInv, Exists, GasMeterStatus
  <2>10. meter'.gasRemaining = meter'.gasAllocated - spent'
    BY <2>2, <2>7, GasAssumption
  <2>. QED  BY <2>3, <2>5, <2>6, <2>7, <2>8, <2>9, <2>10 DEF GasInv, Exists
<1>2. ASSUME NEW c \in GasCallers, ConsumeGas(c) PROVE GasInv'
  <2>1. PICK gasAmount \in GasAmounts :
          \/ EnoughGas(meter, gasAmount) /\ GasBegin(c, "charge", gasAmount)
          \/ GasBegin(c, "pause", gasAmount)
    BY <1>2 DEF ConsumeGas
  <2>2. gasAmount \in Nat
    BY GasAssumption
  <2>3. meter.gasRemaining \in Int
    BY DEF GasInv, GasTypeOK, GasMeter
  <2>. QED  BY <2>1, <2>2, <2>3, GasBegun DEF EnoughGas
<1>3. ASSUME NEW c \in GasCallers, GetGasMeter(c) PROVE GasInv'
  BY <1>3, GasBegun DEF GetGasMeter
<1>4. ASSUME NEW c \in GasCallers, PauseMeter(c) PROVE GasInv'
  BY <1>4, GasMarked DEF PauseMeter, GasMeterStatus
<1>5. ASSUME NEW c \in GasCallers, DeleteGasMeter(c) PROVE GasInv'
  <2> DEFINE m == Absent("deleted")
  <2>1. /\ SaveMeter(c, "remove", m) /\ consumed' = consumed /\ spent' = spent
        /\ plain' = plain /\ reallocated' = reallocated
    BY <1>5 DEF DeleteGasMeter, Ledger
  <2>2. /\ m \in GasMeter /\ m.gasRemaining = 0 /\ m.gasAllocated = 0 /\ ~Exists(m)
        /\ m.status = "deleted"
    BY AbsentType DEF Absent
  <2> HIDE DEF m
  <2>. QED  BY <1>0, <2>1, <2>2, GasSaved
<1>6. ASSUME NEW c \in GasCallers, Refused(c) PROVE GasInv'
  <2>1. /\ GasEnd(c, gasJob[c].next) /\ gasJob[c].next # "idle" /\ meter' = meter
        /\ consumed' = consumed /\ spent' = spent /\ plain' = plain
        /\ reallocated' = reallocated
    BY <1>6 DEF Refused, Ledger
  <2>2. /\ SaveMeter(c, gasJob[c].next, meter) /\ meter \in GasMeter /\ Shown(meter)
    BY <2>1 DEF SaveMeter, GasInv, GasTypeOK
  <2>3. /\ ~gasOverlaps /\ plain /\ Exists(meter) =>
              meter.gasRemaining = meter.gasAllocated - spent
        /\ meter.status = "none" => spent = 0
    BY DEF GasInv
  <2>. QED  BY <1>0, <2>1, <2>2, <2>3, GasSaved DEF Shown
<1>7. CASE UNCHANGED gasVars
  BY <1>7 DEF gasVars, GasInv, GasTypeOK, Shown, Exists
<1>. QED  BY <1>1, <1>2, <1>3, <1>4, <1>5, <1>6, <1>7, GasCharged, GasChanged DEF GasNext

\* The rows of gas meters and the requests under way have their types (svm.service.ts).
THEOREM GasTypes == GasSpec => []GasTypeOK
<1>1. GasInv => GasTypeOK
  BY DEF GasInv
<1>. QED  BY <1>1, GasStart, GasNextInv, PTL DEF GasSpec

\* Whatever charges, resets, changes and removals of a meter overlap and are refused
\* (consumeGas, updateGasMeter, resetGasMeter), the gas remaining never goes below
\* zero and, until an allocation is changed, no more is shown as gone than was
\* consumed; one request at a time it is exactly what was charged.
THEOREM GasCorrect == GasSpec => []GasHonoured
<1>1. GasInv => GasHonoured
  BY DEF GasInv, GasHonoured, Shown
<1>. QED  BY <1>1, GasStart, GasNextInv, PTL DEF GasSpec

-----------------------------------------------------------------------------
(* Deals on other parties' marketplaces                                     *)

DealSpec == DealInit /\ [][DealNext]_answers

LEMMA DealNextType == DealTypeOK /\ [DealNext]_answers => DealTypeOK'
<1> SUFFICES ASSUME DealTypeOK, [DealNext]_answers PROVE DealTypeOK'
  OBVIOUS
<1>1. CASE DealNext
  <2>1. PICK q \in DealRequest : answers' = answers \cup {<<q, Answer(q)>>}
    BY <1>1 DEF DealNext, ListNFTOnMarketplace, PlaceBidOnMarketplace, ExecuteNFTSale,
      CancelNFTListing, UpdateNFTListing, Ask
  <2>2. Answer(q) \in {"unsupported", "failed", "sent"}
    BY DEF Answer
  <2>. QED  BY <2>1, <2>2 DEF DealTypeOK
<1>2. CASE UNCHANGED answers
  BY <1>2 DEF DealTypeOK
<1>. QED  BY <1>1, <1>2

\* Requests to other marketplaces and their answers keep their types
\* (nft-marketplace-cpi.service.ts).
THEOREM DealTypes == DealSpec => []DealTypeOK
<1>1. DealInit => DealTypeOK
  BY DEF DealInit, DealTypeOK
<1>. QED  BY <1>1, DealNextType, PTL DEF DealSpec

-----------------------------------------------------------------------------
(* Listings, bids and sales                                                 *)

TokensSpec == TokensInit /\ [][TokensStep]_nftVars

Placing == {"highest", "outbid", "saveBid"}
Accepting == {"loadBid", "saveSale", "markSold", "markAccepted", "rejectOthers"}
Clearing == {"markAccepted", "rejectOthers", "cancelBids"}

NftCalls == Placing \cup Accepting \cup {"idle", "saveListing", "cancelListing", "cancelBids"}

NftCopy == [next : NftCalls, listing : Listings, bid : Bids, row : NFTBid, offer : NFTListing]

NftTypes ==
    /\ listings \in [Listings -> NFTListing] /\ bids \in [Bids -> NFTBid]
    /\ sales \in NFTSale /\ nftJob \in [Users -> NftCopy]
    /\ nftFaults \in Nat /\ nftOverlaps \in BOOLEAN

\* A bid that is placed has no row before; one that is accepted has, and a sale
\* before its listing is sold.
KeptJob(k, bs, ss) ==
    /\ k.next \in Placing => /\ bs[k.bid].status = "none"
                             /\ k.row.status = "active" /\ k.row.listing = k.listing
    /\ k.next \in Accepting => bs[k.bid].status # "none" /\ bs[k.bid].listing = k.listing
    /\ k.next = "markSold" => ss[k.bid] > 0
    /\ k.next = "saveListing" => k.offer.status = "active"

KeptRows(ls, bs, ss) ==
    /\ \A b \in Bids : bs[b].status = "none" => bs[b] = NoBid /\ ss[b] = 0
    /\ \A l \in Listings : ls[l].status = "sold" =>
         \E b \in Bids : bs[b].listing = l /\ ss[b] > 0

\* No two requests place the same bid.
PlacedOnce(js) ==
    \A c, d \in Users : js[c].next \in Placing /\ js[d].next \in Placing
                          /\ js[c].bid = js[d].bid => c = d

\* What a request that is alone knows of its listing.
KnowsJob(k, ls, bs) ==
    LET listing == ls[k.listing]
        Bid(b) == bs[b].listing = k.listing
    IN  /\ k.next \in Placing \cup {"saveSale", "markSold", "cancelListing"} =>
             listing.status = "active"
        /\ k.next \in {"highest", "outbid"} => listing.type = "auction"
        /\ k.next \in {"outbid", "saveBid"} /\ listing.type = "auction" =>
             \A b \in Bids : Bid(b) /\ bs[b].status \in {"active", "outbid"} =>
                               k.row.amount > bs[b].amount
        /\ k.next = "saveBid" /\ listing.type = "auction" =>
             \A b \in Bids : Bid(b) => bs[b].status # "active"
        /\ k.next = "saveListing" => listing.status = "none"
        /\ k.next = "saveSale" => bs[k.bid].status = "active"
        /\ k.next \in {"markAccepted", "rejectOthers"} => listing.status = "sold"
        /\ k.next = "cancelBids" => listing.status = "cancelled"

\* A listing is sold once, or about to be marked so.
SoldAt(k, ls, bs, ss) ==
    \A b \in Bids : ss[b] > 0 =>
      /\ ss[b] = 1
      /\ \/ ls[bs[b].listing].status = "sold"
         \/ k.next = "markSold" /\ k.listing = bs[b].listing
      /\ \A o \in Bids : ss[o] > 0 /\ bs[o].listing = bs[b].listing => o = b

\* Active bids are of active listings, or about to be cleared.
ActiveAt(k, ls, bs) ==
    \A b \in Bids :
      /\ bs[b].status = "active" =>
           \/ ls[bs[b].listing].status = "active"
           \/ k.next \in Clearing /\ k.listing = bs[b].listing
      /\ bs[b].status # "none" => ls[bs[b].listing].status # "none"

\* The active bid of an auction is above all others, and there is one as soon as
\* one was outbid, or it is about to be saved.
OrderAt(k, ls, bs) ==
    \A o \in Bids : ls[bs[o].listing].type = "auction" =>
      /\ bs[o].status \in {"active", "outbid"} =>
           \A b \in Bids : bs[b].status = "active" /\ bs[b].listing = bs[o].listing
                             /\ b # o => bs[b].amount > bs[o].amount
      /\ bs[o].status = "outbid" /\ ls[bs[o].listing].status = "active" =>
           \/ \E b \in Bids : bs[b].status = "active" /\ bs[b].listing = bs[o].listing
           \/ k.next = "saveBid" /\ k.listing = bs[o].listing

MarketAt(k, ls, bs, ss) ==
    KnowsJob(k, ls, bs) /\ SoldAt(k, ls, bs, ss) /\ ActiveAt(k, ls, bs) /\ OrderAt(k, ls, bs)

MarketAlone ==
    /\ \A c, d \in Users : nftJob[c].next # "idle" /\ nftJob[d].next # "idle" => c = d
    /\ \A c \in Users : nftJob[c].next # "idle" => MarketAt(nftJob[c], listings, bids, sales)
    /\ (\A c \in Users : nftJob[c].next = "idle") => MarketAt(NftIdle, listings, bids, sales)

NftInv ==
    /\ NftTypes /\ KeptRows(listings, bids, sales) /\ PlacedOnce(nftJob)
    /\ \A c \in Users : KeptJob(nftJob[c], bids, sales)
    /\ ~nftOverlaps /\ nftFaults = 0 => MarketAlone

LEMMA NftIdleType ==
    /\ NftIdle \in NftCopy /\ NftIdle.next = "idle"
    /\ NoBid \in NFTBid /\ NoBid.status = "none"
    /\ NoListing \in NFTListing /\ NoListing.status = "none"
<1>1. NoBid \in NFTBid /\ NoBid.status = "none"
  BY TokensAssumption DEF NoBid, NFTBid, BidStatus
<1>2. NoListing \in NFTListing /\ NoListing.status = "none"
  BY DEF NoListing, NFTListing, ListingStatus, ListingType, Addresses
<1> QED
  BY <1>1, <1>2, TokensAssumption DEF NftIdle, NftCopy, NftCalls

\* Nothing is asked of a request that is over.
LEMMA NothingKept ==
    ASSUME NEW k, k.next = "idle", NEW bs, NEW ss
    PROVE  KeptJob(k, bs, ss)
BY DEF KeptJob, Placing, Accepting

LEMMA RestIsIdle ==
    ASSUME NEW k, k.next = "idle", NEW ls, NEW bs, NEW ss
    PROVE  MarketAt(k, ls, bs, ss) <=> MarketAt(NftIdle, ls, bs, ss)
<1>1. NftIdle.next = "idle"
  BY NftIdleType
<1>2. KnowsJob(k, ls, bs) /\ KnowsJob(NftIdle, ls, bs)
  BY <1>1 DEF KnowsJob, Placing
<1>3. SoldAt(k, ls, bs, ss) <=> SoldAt(NftIdle, ls, bs, ss)
  BY <1>1 DEF SoldAt
<1>4. ActiveAt(k, ls, bs) <=> ActiveAt(NftIdle, ls, bs)
  BY <1>1 DEF ActiveAt, Clearing
<1>5. OrderAt(k, ls, bs) <=> OrderAt(NftIdle, ls, bs)
  BY <1>1 DEF OrderAt
<1> QED
  BY <1>2, <1>3, <1>4, <1>5 DEF MarketAt

LEMMA NftStart == TokensInit => NftInv
<1> SUFFICES ASSUME TokensInit
             PROVE  NftInv
  OBVIOUS
<1>1. /\ \A l \in Listings : listings[l] = NoListing
      /\ \A b \in Bids : bids[b] = NoBid /\ sales[b] = 0
      /\ \A c \in Users : nftJob[c] = NftIdle
  BY DEF TokensInit
<1>2. NftTypes
  BY NftIdleType DEF TokensInit, NftTypes, NFTSale
<1>3. KeptRows(listings, bids, sales)
  BY <1>1, NftIdleType DEF KeptRows
<1>4. PlacedOnce(nftJob) /\ \A c \in Users : KeptJob(nftJob[c], bids, sales)
  BY <1>1, NftIdleType, NothingKept DEF PlacedOnce, Placing
<1>5. MarketAt(NftIdle, listings, bids, sales)
  <2>1. KnowsJob(NftIdle, listings, bids) /\ SoldAt(NftIdle, listings, bids, sales)
    BY <1>1, NftIdleType DEF KnowsJob, Placing, SoldAt
  <2>2. ActiveAt(NftIdle, listings, bids) /\ OrderAt(NftIdle, listings, bids)
    BY <1>1, NftIdleType DEF ActiveAt, OrderAt
  <2> QED
    BY <2>1, <2>2 DEF MarketAt
<1>6. MarketAlone
  BY <1>1, <1>5, NftIdleType DEF MarketAlone
<1> QED
  BY <1>2, <1>3, <1>4, <1>6 DEF NftInv

\* A step of c to the job k, and what it leaves of the others.
NftMoves(c, k) ==
    /\ nftJob' \in [Users -> NftCopy] /\ nftJob'[c] = k
    /\ \A d \in Users : d # c => nftJob'[d] = nftJob[d]

NftOthersIdle(c) == \A d \in Users : d # c => nftJob[d].next = "idle"

\* Before a step of c that keeps apart from the others, it is the only one.
LEMMA MarketBefore ==
    ASSUME NftInv, NEW c \in Users, ~nftOverlaps, nftFaults = 0,
           nftJob[c].next # "idle" \/ \A d \in Users : nftJob[d].next = "idle"
    PROVE  NftOthersIdle(c) /\ MarketAt(nftJob[c], listings, bids, sales)
<1>1. MarketAlone
  BY DEF NftInv
<1>2. CASE nftJob[c].next # "idle"
  BY <1>1, <1>2 DEF MarketAlone, NftOthersIdle
<1>3. CASE \A d \in Users : nftJob[d].next = "idle"
  <2>1. MarketAt(NftIdle, listings, bids, sales) /\ nftJob[c].next = "idle"
    BY <1>1, <1>3 DEF MarketAlone
  <2>2. MarketAt(nftJob[c], listings, bids, sales)
    BY <2>1, RestIsIdle
  <2> QED
    BY <1>3, <2>2 DEF NftOthersIdle
<1> QED
  BY <1>2, <1>3

\* After it, it is what there is to know of the market.
LEMMA MarketAfter ==
    ASSUME NEW c \in Users, NEW k \in NftCopy, NftMoves(c, k), NftOthersIdle(c),
           MarketAt(k, listings', bids', sales')
    PROVE  MarketAlone'
<1>1. \A d \in Users : d # c => nftJob'[d].next = "idle"
  BY DEF NftMoves, NftOthersIdle
<1>2. nftJob'[c] = k
  BY DEF NftMoves
<1>3. ASSUME NEW d \in Users, nftJob'[d].next # "idle"
      PROVE  MarketAt(nftJob'[d], listings', bids', sales')
  BY <1>1, <1>2, <1>3
<1>4. (\A d \in Users : nftJob'[d].next = "idle") =>
        MarketAt(NftIdle, listings', bids', sales')
  BY <1>2, RestIsIdle
<1> QED
  BY <1>1, <1>3, <1>4 DEF MarketAlone

\* What a request becomes after a call, and the step it takes when that call is
\* done, or rejected.
NftNext(j, next) == IF next = "idle" THEN NftIdle ELSE [j EXCEPT !.next = next]

NftGoes(c, step, next) ==
    /\ nftJob[c].next = step
    /\ nftJob' = [nftJob EXCEPT ![c] = NftNext(nftJob[c], next)]
    /\ nftFaults' = nftFaults /\ nftOverlaps' = nftOverlaps

NftFails(c) ==
    /\ nftJob' = [nftJob EXCEPT ![c] = NftIdle]
    /\ nftFaults' = nftFaults + 1 /\ nftOverlaps' = nftOverlaps
    /\ listings' = listings /\ bids' = bids /\ sales' = sales

LEMMA NftNextType ==
    ASSUME NEW j \in NftCopy, NEW next \in NftCalls
    PROVE  /\ NftNext(j, next) \in NftCopy /\ NftNext(j, next).next = next
           /\ next # "idle" => /\ NftNext(j, next).listing = j.listing
                               /\ NftNext(j, next).bid = j.bid
                               /\ NftNext(j, next).row = j.row
                               /\ NftNext(j, next).offer = j.offer
<1>1. CASE next = "idle"
  BY <1>1, NftIdleType DEF NftNext
<1>2. CASE next # "idle"
  <2>1. NftNext(j, next) = [j EXCEPT !.next = next]
    BY <1>2 DEF NftNext
  <2> QED
    BY <2>1 DEF NftCopy
<1> QED
  BY <1>1, <1>2

LEMMA NftMoved ==
    ASSUME NftTypes, NEW c \in Users, NEW k \in NftCopy,
           nftJob' = [nftJob EXCEPT ![c] = k]
    PROVE  NftMoves(c, k)
BY DEF NftTypes, NftMoves

\* A job keeps what it kept while no bid vanishes or moves and no sale is undone.
LEMMA KeptStill ==
    ASSUME NEW k \in NftCopy, NEW bs, NEW ss, NEW bt, NEW st, KeptJob(k, bs, ss),
           bt[k.bid].status = "none" <=> bs[k.bid].status = "none",
           bt[k.bid].listing = bs[k.bid].listing,
           ss[k.bid] > 0 => st[k.bid] > 0
    PROVE  KeptJob(k, bt, st)
BY DEF KeptJob

\* What has to be shown of a step of c.
LEMMA NftAfter ==
    ASSUME NftInv, NEW c \in Users, NEW k \in NftCopy, NftMoves(c, k),
           listings' \in [Listings -> NFTListing], bids' \in [Bids -> NFTBid],
           sales' \in NFTSale, nftFaults' \in Nat, nftOverlaps' \in BOOLEAN,
           KeptRows(listings', bids', sales'), KeptJob(k, bids', sales'),
           \A d \in Users : d # c => KeptJob(nftJob[d], bids', sales'),
           k.next \in Placing =>
             \A d \in Users : d # c /\ nftJob[d].next \in Placing => nftJob[d].bid # k.bid,
           ~nftOverlaps' /\ nftFaults' = 0 =>
             NftOthersIdle(c) /\ MarketAt(k, listings', bids', sales')
    PROVE  NftInv'
<1>1. NftTypes'
  BY DEF NftTypes, NftMoves
<1>2. PlacedOnce(nftJob')
  <2>1. PlacedOnce(nftJob)
    BY DEF NftInv
  <2>2. nftJob'[c] = k /\ \A d \in Users : d # c => nftJob'[d] = nftJob[d]
    BY DEF NftMoves
  <2> QED
    BY <2>1, <2>2 DEF PlacedOnce
<1>3. \A d \in Users : KeptJob(nftJob'[d], bids', sales')
  BY DEF NftMoves
<1>4. ~nftOverlaps' /\ nftFaults' = 0 => MarketAlone'
  BY MarketAfter
<1> QED
  BY <1>1, <1>2, <1>3, <1>4 DEF NftInv

LEMMA NftFailed ==
    ASSUME NftInv, NEW c \in Users, NftFails(c)
    PROVE  NftInv'
<1>1. NftIdle \in NftCopy /\ NftIdle.next \notin Placing /\ KeptJob(NftIdle, bids, sales)
  BY NftIdleType, NothingKept DEF Placing
<1>2. NftMoves(c, NftIdle)
  BY <1>1, NftMoved DEF NftInv, NftFails
<1>3. nftFaults' \in Nat /\ nftFaults' # 0
  BY DEF NftInv, NftTypes, NftFails
<1>4. KeptRows(listings, bids, sales) /\ \A d \in Users : KeptJob(nftJob[d], bids, sales)
  BY DEF NftInv
<1>5. /\ listings \in [Listings -> NFTListing] /\ bids \in [Bids -> NFTBid]
      /\ sales \in NFTSale /\ nftOverlaps \in BOOLEAN
  BY DEF NftInv, NftTypes
<1>6. /\ listings' = listings /\ bids' = bids /\ sales' = sales
      /\ nftOverlaps' = nftOverlaps
  BY DEF NftFails
<1>7. /\ KeptRows(listings', bids', sales') /\ KeptJob(NftIdle, bids', sales')
      /\ \A d \in Users : KeptJob(nftJob[d], bids', sales')
      /\ listings' \in [Listings -> NFTListing] /\ bids' \in [Bids -> NFTBid]
      /\ sales' \in NFTSale /\ nftOverlaps' \in BOOLEAN
  BY <1>1, <1>4, <1>5, <1>6
<1> QED
  BY <1>1, <1>2, <1>3, <1>7, NftAfter

\* What has to be shown of a call that is done.
LEMMA NftWent ==
    ASSUME NftInv, NEW c \in Users, NEW step, step # "idle", NEW next \in NftCalls,
           NftGoes(c, step, next), next \in Placing => step \in Placing,
           listings' \in [Listings -> NFTListing], bids' \in [Bids -> NFTBid],
           sales' \in NFTSale, KeptRows(listings', bids', sales'),
           KeptJob(NftNext(nftJob[c], next), bids', sales'),
           \A d \in Users : d # c => KeptJob(nftJob[d], bids', sales'),
           MarketAt(nftJob[c], listings, bids, sales) =>
             MarketAt(NftNext(nftJob[c], next), listings', bids', sales')
    PROVE  NftInv'
<1> DEFINE k == NftNext(nftJob[c], next)
<1>1. nftJob[c] \in NftCopy
  BY DEF NftInv, NftTypes
<1>2. k \in NftCopy /\ k.next = next /\ (next # "idle" => k.bid = nftJob[c].bid)
  BY <1>1, NftNextType
<1>3. nftJob' = [nftJob EXCEPT ![c] = k] /\ nftJob[c].next = step
  BY DEF NftGoes
<1>4. /\ nftFaults' = nftFaults /\ nftOverlaps' = nftOverlaps
      /\ nftFaults' \in Nat /\ nftOverlaps' \in BOOLEAN
  BY DEF NftGoes, NftInv, NftTypes
<1>5. KeptJob(k, bids', sales')
  OBVIOUS
<1>6. MarketAt(nftJob[c], listings, bids, sales) => MarketAt(k, listings', bids', sales')
  OBVIOUS
<1> HIDE DEF k
<1>7. NftMoves(c, k)
  BY <1>2, <1>3, NftMoved DEF NftInv
<1>8. k.next \in Placing =>
        \A d \in Users : d # c /\ nftJob[d].next \in Placing => nftJob[d].bid # k.bid
  <2>1. PlacedOnce(nftJob)
    BY DEF NftInv
  <2>2. k.next \in Placing => nftJob[c].next \in Placing /\ k.bid = nftJob[c].bid
    BY <1>2, <1>3 DEF Placing
  <2> QED
    BY <2>1, <2>2 DEF PlacedOnce
<1>9. ~nftOverlaps' /\ nftFaults' = 0 =>
        NftOthersIdle(c) /\ MarketAt(k, listings', bids', sales')
  BY <1>3, <1>4, <1>6, MarketBefore
<1> QED
  BY <1>2, <1>4, <1>5, <1>7, <1>8, <1>9, NftAfter

\* What the market knows once a call is done, row by row.  k is what is next, and
\* lt, bt and st what the tables hold by then.
LEMMA MarketListed ==
    ASSUME NEW j \in NftCopy, NEW ls \in [Listings -> NFTListing],
           NEW bs \in [Bids -> NFTBid], NEW ss \in NFTSale, NEW lt,
           MarketAt(j, ls, bs, ss), KeptRows(ls, bs, ss), j.next = "saveListing",
           \A l \in Listings : l # j.listing => lt[l] = ls[l]
    PROVE  MarketAt(NftIdle, lt, bs, ss)
<1>1. NftIdle.next = "idle" /\ j.listing \in Listings
  BY NftIdleType DEF NftCopy
<1>2. \A b \in Bids : bs[b].status # "none" \/ ss[b] > 0 => bs[b].listing # j.listing
  <2>1. ls[j.listing].status = "none"
    BY DEF MarketAt, KnowsJob
  <2>2. \A b \in Bids : ss[b] > 0 => bs[b].status # "none"
    BY DEF KeptRows
  <2>3. \A b \in Bids : bs[b].status # "none" => ls[bs[b].listing].status # "none"
    BY DEF MarketAt, ActiveAt
  <2> QED
    BY <2>1, <2>2, <2>3
<1>3. \A b \in Bids : bs[b].listing \in Listings /\ ss[b] \in Nat
  BY DEF NFTBid, NFTSale
<1>4. KnowsJob(NftIdle, lt, bs)
  BY <1>1 DEF KnowsJob, Placing
<1>5. SoldAt(NftIdle, lt, bs, ss)
  <2>1. SoldAt(j, ls, bs, ss)
    BY DEF MarketAt
  <2> QED
    BY <2>1, <1>2, <1>3 DEF SoldAt
<1>6. ActiveAt(NftIdle, lt, bs)
  <2>1. ActiveAt(j, ls, bs)
    BY DEF MarketAt
  <2> QED
    BY <2>1, <1>2, <1>3 DEF ActiveAt, Clearing
<1>7. OrderAt(NftIdle, lt, bs)
  <2>1. OrderAt(j, ls, bs)
    BY DEF MarketAt
  <2> QED
    BY <2>1, <1>2, <1>3 DEF OrderAt
<1> QED
  BY <1>4, <1>5, <1>6, <1>7 DEF MarketAt

\* The highest bid is above the outbid ones too.
LEMMA MarketHighest ==
    ASSUME NEW j \in NftCopy, NEW k \in NftCopy, NEW ls \in [Listings -> NFTListing],
           NEW bs \in [Bids -> NFTBid], NEW ss \in NFTSale,
           MarketAt(j, ls, bs, ss), j.next = "highest", k.next \in {"outbid", "idle"},
           k.next = "outbid" => /\ k.listing = j.listing /\ k.row = j.row
                                /\ \A b \in Bids : bs[b].listing = j.listing
                                     /\ bs[b].status = "active"
                                     => j.row.amount > bs[b].amount
    PROVE  MarketAt(k, ls, bs, ss)
<1>1. KnowsJob(j, ls, bs) /\ SoldAt(j, ls, bs, ss) /\ ActiveAt(j, ls, bs)
      /\ OrderAt(j, ls, bs)
  BY DEF MarketAt
<1>2. SoldAt(k, ls, bs, ss)
  BY <1>1 DEF SoldAt
<1>3. ActiveAt(k, ls, bs)
  BY <1>1 DEF ActiveAt, Clearing
<1>4. OrderAt(k, ls, bs)
  BY <1>1 DEF OrderAt
<1>5. KnowsJob(k, ls, bs)
  <2>1. ls[j.listing].status = "active" /\ ls[j.listing].type = "auction"
    BY <1>1 DEF KnowsJob, Placing
  <2>2. ASSUME k.next = "outbid", NEW o \in Bids, bs[o].listing = j.listing,
               bs[o].status \in {"active", "outbid"}
        PROVE  j.row.amount > bs[o].amount
    <3>1. CASE bs[o].status = "active"
      BY <2>2, <3>1
    <3>2. CASE bs[o].status = "outbid"
      <4>1. PICK b \in Bids : bs[b].status = "active" /\ bs[b].listing = j.listing
        BY <1>1, <2>1, <2>2, <3>2 DEF OrderAt
      <4>2. bs[b].amount > bs[o].amount
        BY <1>1, <2>1, <2>2, <3>2, <4>1 DEF OrderAt
      <4>3. j.row.amount > bs[b].amount
        BY <2>2, <4>1
      <4>4. j.row.amount \in Int /\ bs[b].amount \in Int /\ bs[o].amount \in Int
        BY DEF NftCopy, NFTBid
      <4> QED
        BY <4>2, <4>3, <4>4
    <3> QED
      BY <2>2, <3>1, <3>2
  <2> QED
    BY <2>1, <2>2 DEF KnowsJob, Placing
<1> QED
  BY <1>2, <1>3, <1>4, <1>5 DEF MarketAt

LEMMA MarketOutbid ==
    ASSUME NEW j \in NftCopy, NEW k \in NftCopy, NEW ls \in [Listings -> NFTListing],
           NEW bs \in [Bids -> NFTBid], NEW ss \in NFTSale, NEW bt,
           MarketAt(j, ls, bs, ss), j.next = "outbid", k.next = "saveBid",
           k.listing = j.listing, k.row = j.row,
           \A b \in Bids : /\ bt[b].listing = bs[b].listing /\ bt[b].amount = bs[b].amount
                           /\ IF bs[b].listing = j.listing /\ bs[b].status = "active"
                              THEN bt[b].status = "outbid"
                              ELSE bt[b].status = bs[b].status
    PROVE  MarketAt(k, ls, bt, ss)
<1>1. KnowsJob(j, ls, bs) /\ SoldAt(j, ls, bs, ss) /\ ActiveAt(j, ls, bs)
      /\ OrderAt(j, ls, bs)
  BY DEF MarketAt
<1>2. \A b \in Bids :
        /\ bt[b].status \in {"active", "outbid"} => bs[b].status \in {"active", "outbid"}
        /\ bt[b].status = "active" => bs[b].status = "active" /\ bs[b].listing # j.listing
        /\ bt[b].status = "none" <=> bs[b].status = "none"
        /\ bs[b].listing # j.listing => bt[b].status = bs[b].status
  OBVIOUS
<1>3. \A b \in Bids : bt[b].listing = bs[b].listing /\ bt[b].amount = bs[b].amount
  OBVIOUS
<1>4. SoldAt(k, ls, bt, ss)
  BY <1>1, <1>3 DEF SoldAt
<1>5. ActiveAt(k, ls, bt)
  BY <1>1, <1>2, <1>3 DEF ActiveAt, Clearing
<1>6. OrderAt(k, ls, bt)
  <2>1. ASSUME NEW o \in Bids, ls[bt[o].listing].type = "auction",
               bt[o].status \in {"active", "outbid"}, NEW b \in Bids,
               bt[b].status = "active", bt[b].listing = bt[o].listing, b # o
        PROVE  bt[b].amount > bt[o].amount
    BY <1>1, <1>2, <1>3, <2>1 DEF OrderAt
  <2>2. ASSUME NEW o \in Bids, ls[bt[o].listing].type = "auction",
               bt[o].status = "outbid", ls[bt[o].listing].status = "active",
               bt[o].listing # j.listing
        PROVE  \E b \in Bids : bt[b].status = "active" /\ bt[b].listing = bt[o].listing
    <3>1. bs[o].status = "outbid" /\ bs[o].listing = bt[o].listing
      BY <1>2, <1>3, <2>2
    <3>2. PICK b \in Bids : bs[b].status = "active" /\ bs[b].listing = bs[o].listing
      BY <1>1, <2>2, <3>1 DEF OrderAt
    <3> QED
      BY <1>2, <1>3, <2>2, <3>1, <3>2
  <2> QED
    BY <2>1, <2>2 DEF OrderAt
<1>7. KnowsJob(k, ls, bt)
  <2>1. ls[j.listing].status = "active" /\ ls[j.listing].type = "auction"
    BY <1>1 DEF KnowsJob, Placing
  <2>2. \A b \in Bids : bt[b].listing = j.listing /\ bt[b].status \in {"active", "outbid"}
                          => j.row.amount > bt[b].amount
    BY <1>1, <1>2, <1>3, <2>1 DEF KnowsJob
  <2> QED
    BY <1>2, <1>3, <2>1, <2>2 DEF KnowsJob, Placing
<1> QED
  BY <1>4, <1>5, <1>6, <1>7 DEF MarketAt

LEMMA MarketBidSaved ==
    ASSUME NEW j \in NftCopy, NEW ls \in [Listings -> NFTListing],
           NEW bs \in [Bids -> NFTBid], NEW ss \in NFTSale, NEW bt \in [Bids -> NFTBid],
           MarketAt(j, ls, bs, ss), KeptRows(ls, bs, ss), KeptJob(j, bs, ss),
           j.next = "saveBid", bt[j.bid] = j.row,
           \A b \in Bids : b # j.bid => bt[b] = bs[b]
    PROVE  MarketAt(NftIdle, ls, bt, ss)
<1>1. KnowsJob(j, ls, bs) /\ SoldAt(j, ls, bs, ss) /\ ActiveAt(j, ls, bs)
      /\ OrderAt(j, ls, bs)
  BY DEF MarketAt
<1>2. /\ NftIdle.next = "idle" /\ j.bid \in Bids /\ j.row.amount \in Int
      /\ \A b \in Bids : bs[b].amount \in Int /\ ss[b] \in Nat
  BY NftIdleType DEF NftCopy, NFTBid, NFTSale
<1>3. /\ bs[j.bid].status = "none" /\ ss[j.bid] = 0
      /\ bt[j.bid].status = "active" /\ bt[j.bid].listing = j.listing
      /\ bt[j.bid].amount = j.row.amount
  BY <1>2 DEF KeptJob, KeptRows, Placing
<1>4. ls[j.listing].status = "active"
  BY <1>1 DEF KnowsJob, Placing
<1>5. ASSUME ls[j.listing].type = "auction", NEW b \in Bids, b # j.bid,
             bt[b].listing = j.listing
      PROVE  /\ bt[b].status # "active"
             /\ bt[b].status = "outbid" => bt[j.bid].amount > bt[b].amount
  BY <1>1, <1>3, <1>5 DEF KnowsJob
<1>6. KnowsJob(NftIdle, ls, bt)
  BY <1>2 DEF KnowsJob, Placing
<1>7. SoldAt(NftIdle, ls, bt, ss)
  <2>1. \A b \in Bids : ss[b] > 0 => b # j.bid /\ bt[b] = bs[b]
    BY <1>2, <1>3
  <2> QED
    BY <1>1, <2>1 DEF SoldAt
<1>8. ActiveAt(NftIdle, ls, bt)
  <2>1. ASSUME NEW b \in Bids
        PROVE  /\ bt[b].status = "active" => ls[bt[b].listing].status = "active"
               /\ bt[b].status # "none" => ls[bt[b].listing].status # "none"
    <3>1. CASE b = j.bid
      BY <1>3, <1>4, <3>1
    <3>2. CASE b # j.bid
      BY <1>1, <3>2 DEF ActiveAt, Clearing
    <3> QED
      BY <3>1, <3>2
  <2> QED
    BY <2>1 DEF ActiveAt
<1>9. OrderAt(NftIdle, ls, bt)
  <2>1. ASSUME NEW o \in Bids, ls[bt[o].listing].type = "auction",
               bt[o].status \in {"active", "outbid"}, NEW b \in Bids,
               bt[b].status = "active", bt[b].listing = bt[o].listing, b # o
        PROVE  bt[b].amount > bt[o].amount
    <3>1. CASE bt[o].listing = j.listing
      BY <1>3, <1>5, <2>1, <3>1
    <3>2. CASE bt[o].listing # j.listing
      BY <1>1, <1>3, <2>1, <3>2 DEF OrderAt
    <3> QED
      BY <3>1, <3>2
  <2>2. ASSUME NEW o \in Bids, ls[bt[o].listing].type = "auction",
               bt[o].status = "outbid", ls[bt[o].listing].status = "active"
        PROVE  \E b \in Bids : bt[b].status = "active" /\ bt[b].listing = bt[o].listing
    <3>1. CASE bt[o].listing = j.listing
      BY <1>2, <1>3, <3>1
    <3>2. CASE bt[o].listing # j.listing
      <4>1. bs[o] = bt[o]
        BY <1>3, <3>2
      <4>2. PICK b \in Bids : bs[b].status = "active" /\ bs[b].listing = bs[o].listing
        BY <1>1, <2>2, <3>2, <4>1 DEF OrderAt
      <4> QED
        BY <1>3, <4>1, <4>2
    <3> QED
      BY <3>1, <3>2
  <2> QED
    BY <2>1, <2>2 DEF OrderAt
<1> QED
  BY <1>6, <1>7, <1>8, <1>9 DEF MarketAt

LEMMA MarketLoaded ==
    ASSUME NEW j \in NftCopy, NEW k \in NftCopy, NEW ls, NEW bs, NEW ss,
           MarketAt(j, ls, bs, ss), KeptJob(j, bs, ss), j.next = "loadBid",
           k.next \in {"saveSale", "idle"},
           k.next = "saveSale" => /\ k.listing = j.listing /\ k.bid = j.bid
                                  /\ bs[j.bid].status = "active"
    PROVE  MarketAt(k, ls, bs, ss)
<1>1. KnowsJob(j, ls, bs) /\ SoldAt(j, ls, bs, ss) /\ ActiveAt(j, ls, bs)
      /\ OrderAt(j, ls, bs)
  BY DEF MarketAt
<1>2. bs[j.bid].listing = j.listing /\ j.bid \in Bids
  BY DEF KeptJob, Accepting, NftCopy
<1>3. KnowsJob(k, ls, bs)
  BY <1>1, <1>2 DEF KnowsJob, ActiveAt, Placing, Clearing
<1>4. SoldAt(k, ls, bs, ss)
  BY <1>1 DEF SoldAt
<1>5. ActiveAt(k, ls, bs)
  BY <1>1 DEF ActiveAt, Clearing
<1>6. OrderAt(k, ls, bs)
  BY <1>1 DEF OrderAt
<1> QED
  BY <1>3, <1>4, <1>5, <1>6 DEF MarketAt

LEMMA MarketSold ==
    ASSUME NEW j \in NftCopy, NEW k \in NftCopy, NEW ls, NEW bs, NEW ss \in NFTSale,
           NEW st, MarketAt(j, ls, bs, ss), KeptJob(j, bs, ss), j.next = "saveSale",
           k.next = "markSold", k.listing = j.listing,
           st[j.bid] = ss[j.bid] + 1, \A b \in Bids : b # j.bid => st[b] = ss[b]
    PROVE  MarketAt(k, ls, bs, st)
<1>1. KnowsJob(j, ls, bs) /\ SoldAt(j, ls, bs, ss) /\ ActiveAt(j, ls, bs)
      /\ OrderAt(j, ls, bs)
  BY DEF MarketAt
<1>2. /\ bs[j.bid].listing = j.listing /\ j.bid \in Bids
      /\ ls[j.listing].status = "active" /\ \A b \in Bids : ss[b] \in Nat
  BY <1>1 DEF KeptJob, Accepting, NftCopy, KnowsJob, NFTSale
<1>3. \A b \in Bids : ss[b] > 0 => bs[b].listing # j.listing
  BY <1>1, <1>2 DEF SoldAt
<1>4. st[j.bid] = 1
  BY <1>2, <1>3
<1>5. KnowsJob(k, ls, bs)
  BY <1>2 DEF KnowsJob, Placing
<1>6. SoldAt(k, ls, bs, st)
  <2>1. ASSUME NEW b \in Bids, st[b] > 0
        PROVE  /\ st[b] = 1
               /\ \/ ls[bs[b].listing].status = "sold"
                  \/ k.next = "markSold" /\ k.listing = bs[b].listing
    BY <1>1, <1>2, <1>4, <2>1 DEF SoldAt
  <2>2. ASSUME NEW b \in Bids, st[b] > 0, NEW o \in Bids, st[o] > 0,
               bs[o].listing = bs[b].listing
        PROVE  o = b
    BY <1>1, <1>2, <1>3, <2>2 DEF SoldAt
  <2> QED
    BY <2>1, <2>2 DEF SoldAt
<1>7. ActiveAt(k, ls, bs)
  BY <1>1 DEF ActiveAt, Clearing
<1>8. OrderAt(k, ls, bs)
  BY <1>1 DEF OrderAt
<1> QED
  BY <1>5, <1>6, <1>7, <1>8 DEF MarketAt

\* The listing is closed: sold, or cancelled, which no sale stands against.
LEMMA MarketClosed ==
    ASSUME NEW j \in NftCopy, NEW k \in NftCopy, NEW ls, NEW bs \in [Bids -> NFTBid],
           NEW ss, NEW lt, MarketAt(j, ls, bs, ss), k.listing = j.listing,
           \/ j.next = "markSold" /\ k.next = "markAccepted" /\ lt[j.listing].status = "sold"
           \/ j.next = "cancelListing" /\ k.next = "cancelBids"
                /\ lt[j.listing].status = "cancelled",
           lt[j.listing].type = ls[j.listing].type,
           \A l \in Listings : l # j.listing => lt[l] = ls[l]
    PROVE  MarketAt(k, lt, bs, ss)
<1>1. KnowsJob(j, ls, bs) /\ SoldAt(j, ls, bs, ss) /\ ActiveAt(j, ls, bs)
      /\ OrderAt(j, ls, bs)
  BY DEF MarketAt
<1>2. /\ ls[j.listing].status = "active"
      /\ \A b \in Bids : bs[b].listing \in Listings
  BY <1>1 DEF KnowsJob, NFTBid
<1>3. KnowsJob(k, lt, bs)
  BY DEF KnowsJob, Placing
<1>4. SoldAt(k, lt, bs, ss)
  BY <1>1, <1>2 DEF SoldAt
<1>5. ActiveAt(k, lt, bs)
  BY <1>1, <1>2 DEF ActiveAt, Clearing
<1>6. OrderAt(k, lt, bs)
  BY <1>1, <1>2 DEF OrderAt
<1> QED
  BY <1>3, <1>4, <1>5, <1>6 DEF MarketAt

\* The bids of a closed listing are answered: the one that is accepted, or the
\* active ones that are left.
Answers(l, bs, bt) ==
    \A b \in Bids : /\ bt[b].listing = bs[b].listing /\ bt[b].amount = bs[b].amount
                    /\ \/ bt[b].status = bs[b].status
                       \/ /\ bs[b].listing = l /\ bs[b].status # "none"
                          /\ bt[b].status \in {"accepted", "rejected", "cancelled"}

NoneActive(l, bs, bt) == \A b \in Bids : bs[b].listing = l => bt[b].status # "active"

LEMMA MarketAnswered ==
    ASSUME NEW j \in NftCopy, NEW k \in NftCopy, NEW ls, NEW bs, NEW ss, NEW bt,
           MarketAt(j, ls, bs, ss), ls[j.listing].status \in {"sold", "cancelled"},
           j.next \in Clearing, k.next \in {"rejectOthers", "idle"},
           k.next = "rejectOthers" => j.next = "markAccepted" /\ k.listing = j.listing,
           k.next = "idle" => NoneActive(j.listing, bs, bt),
           Answers(j.listing, bs, bt)
    PROVE  MarketAt(k, ls, bt, ss)
<1>1. KnowsJob(j, ls, bs) /\ SoldAt(j, ls, bs, ss) /\ ActiveAt(j, ls, bs)
      /\ OrderAt(j, ls, bs)
  BY DEF MarketAt
<1>2. \A b \in Bids :
        /\ bt[b].status \in {"active", "outbid", "none"} => bt[b].status = bs[b].status
        /\ bs[b].listing # j.listing => bt[b].status = bs[b].status
        /\ bt[b].listing = bs[b].listing /\ bt[b].amount = bs[b].amount
  BY DEF Answers
<1>3. KnowsJob(k, ls, bt)
  BY <1>1 DEF KnowsJob, Placing, Clearing
<1>4. SoldAt(k, ls, bt, ss)
  BY <1>1, <1>2 DEF SoldAt, Clearing
<1>5. ActiveAt(k, ls, bt)
  BY <1>1, <1>2 DEF ActiveAt, Clearing, NoneActive
<1>6. OrderAt(k, ls, bt)
  <2>1. ASSUME NEW o \in Bids, ls[bt[o].listing].type = "auction",
               bt[o].status \in {"active", "outbid"}, NEW b \in Bids,
               bt[b].status = "active", bt[b].listing = bt[o].listing, b # o
        PROVE  bt[b].amount > bt[o].amount
    BY <1>1, <1>2, <2>1 DEF OrderAt
  <2>2. ASSUME NEW o \in Bids, ls[bt[o].listing].type = "auction",
               bt[o].status = "outbid", ls[bt[o].listing].status = "active"
        PROVE  \E b \in Bids : bt[b].status = "active" /\ bt[b].listing = bt[o].listing
    <3>1. bs[o].listing # j.listing /\ bs[o].status = "outbid"
          /\ bs[o].listing = bt[o].listing
      BY <1>2, <2>2
    <3>2. PICK b \in Bids : bs[b].status = "active" /\ bs[b].listing = bs[o].listing
      BY <1>1, <2>2, <3>1 DEF OrderAt, Clearing
    <3> QED
      BY <1>2, <3>1, <3>2
  <2> QED
    BY <2>1, <2>2 DEF OrderAt
<1> QED
  BY <1>3, <1>4, <1>5, <1>6 DEF MarketAt

\* What is known of a state, for a request in it.
LEMMA NftNow ==
    ASSUME NftInv, NEW c \in Users
    PROVE  /\ listings \in [Listings -> NFTListing] /\ bids \in [Bids -> NFTBid]
           /\ sales \in NFTSale /\ nftJob[c] \in NftCopy
           /\ nftFaults \in Nat /\ nftOverlaps \in BOOLEAN
           /\ KeptRows(listings, bids, sales)
           /\ \A d \in Users : KeptJob(nftJob[d], bids, sales)
BY DEF NftInv, NftTypes

LEMMA SaveListingKeeps ==
    ASSUME NftInv, NEW c \in Users, SaveListing(c)
    PROVE  NftInv'
<1> DEFINE j == nftJob[c]
<1>1. CASE NftFails(c)
  BY <1>1, NftFailed
<1>2. CASE /\ NftGoes(c, "saveListing", "idle")
           /\ listings' = [listings EXCEPT ![j.listing] = j.offer]
           /\ bids' = bids /\ sales' = sales
  <2>1. /\ listings \in [Listings -> NFTListing] /\ bids \in [Bids -> NFTBid]
        /\ sales \in NFTSale /\ j \in NftCopy
        /\ KeptRows(listings, bids, sales)
        /\ \A d \in Users : KeptJob(nftJob[d], bids, sales)
    BY NftNow
  <2>2. j.next = "saveListing" /\ j.offer.status = "active" /\ j.offer \in NFTListing
        /\ j.listing \in Listings
    BY <1>2, <2>1 DEF NftGoes, KeptJob, NftCopy
  <2>3. NftNext(j, "idle") = NftIdle
    BY DEF NftNext
  <2> HIDE DEF j
  <2>4. /\ listings' \in [Listings -> NFTListing] /\ listings'[j.listing] = j.offer
        /\ \A l \in Listings : l # j.listing => listings'[l] = listings[l]
    BY <1>2, <2>1, <2>2
  <2>5. KeptRows(listings', bids', sales')
    BY <1>2, <2>1, <2>2, <2>4 DEF KeptRows
  <2>6. MarketAt(j, listings, bids, sales) => MarketAt(NftIdle, listings', bids, sales)
    BY <2>1, <2>2, <2>4, MarketListed
  <2>7. KeptJob(NftIdle, bids', sales') /\ \A d \in Users : KeptJob(nftJob[d], bids', sales')
    BY <1>2, <2>1, NothingKept, NftIdleType
  <2>8. "idle" \in NftCalls /\ "idle" \notin Placing
    BY DEF NftCalls, Placing
  <2>9. bids' \in [Bids -> NFTBid] /\ sales' \in NFTSale
        /\ (MarketAt(j, listings, bids, sales) => MarketAt(NftIdle, listings', bids', sales'))
    BY <1>2, <2>1, <2>6
  <2> QED
    BY <1>2, <2>3, <2>4, <2>5, <2>7, <2>8, <2>9, NftWent DEF j
<1> QED
  BY <1>1, <1>2 DEF SaveListing, NftStep, NftFails, NftGoes, NftNext

\* Reading the active bids, or the bid that is accepted, changes no table.
LEMMA ReadsKeep ==
    ASSUME NftInv, NEW c \in Users, NEW step \in {"highest", "loadBid"}, NEW next \in NftCalls,
           NftGoes(c, step, next), listings' = listings, bids' = bids, sales' = sales,
           next \in Placing => step \in Placing,
           KeptJob(NftNext(nftJob[c], next), bids, sales),
           MarketAt(nftJob[c], listings, bids, sales) =>
             MarketAt(NftNext(nftJob[c], next), listings, bids, sales)
    PROVE  NftInv'
<1>1. /\ listings \in [Listings -> NFTListing] /\ bids \in [Bids -> NFTBid]
      /\ sales \in NFTSale
      /\ KeptRows(listings, bids, sales)
      /\ \A d \in Users : KeptJob(nftJob[d], bids, sales)
  BY NftNow
<1> DEFINE k == NftNext(nftJob[c], next)
<1> HIDE DEF k
<1>2. /\ listings' \in [Listings -> NFTListing] /\ bids' \in [Bids -> NFTBid]
      /\ sales' \in NFTSale /\ KeptRows(listings', bids', sales')
      /\ \A d \in Users : KeptJob(nftJob[d], bids', sales')
  BY <1>1
<1>3. KeptJob(k, bids', sales')
  BY DEF k
<1>4. MarketAt(nftJob[c], listings, bids, sales) => MarketAt(k, listings', bids', sales')
  BY DEF k
<1> QED
  BY <1>2, <1>3, <1>4, NftWent DEF k

LEMMA HighestBidKeeps ==
    ASSUME NftInv, NEW c \in Users, HighestBid(c)
    PROVE  NftInv'
<1> DEFINE j == nftJob[c]
           next == IF HigherThanAll(j.row.amount, j.listing) THEN "outbid" ELSE "idle"
           k == NftNext(j, next)
<1>1. CASE NftFails(c)
  BY <1>1, NftFailed
<1>2. CASE /\ NftGoes(c, "highest", next)
           /\ listings' = listings /\ bids' = bids /\ sales' = sales
  <2>1. /\ listings \in [Listings -> NFTListing] /\ bids \in [Bids -> NFTBid]
        /\ sales \in NFTSale /\ j \in NftCopy /\ KeptJob(j, bids, sales)
    BY NftNow
  <2>2. j.next = "highest"
    BY <1>2 DEF NftGoes
  <2>3. next \in {"outbid", "idle"} /\ next \in NftCalls /\ "highest" \in Placing
    BY DEF NftCalls, Placing
  <2>4. next = "outbid" => \A b \in Bids : bids[b].listing = j.listing
                             /\ bids[b].status = "active" => j.row.amount > bids[b].amount
    BY DEF HigherThanAll, ActiveBids
  <2> HIDE DEF next, j
  <2>5. /\ k \in NftCopy /\ k.next = next
        /\ next # "idle" => k.listing = j.listing /\ k.bid = j.bid /\ k.row = j.row
    BY <2>1, <2>3, NftNextType
  <2> HIDE DEF k
  <2>6. KeptJob(k, bids, sales)
    BY <2>1, <2>2, <2>3, <2>5 DEF KeptJob, Placing, Accepting
  <2>7. MarketAt(j, listings, bids, sales) => MarketAt(k, listings, bids, sales)
    BY <2>1, <2>2, <2>3, <2>4, <2>5, MarketHighest
  <2> QED
    BY <1>2, <2>3, <2>6, <2>7, ReadsKeep DEF j, k
<1> QED
  BY <1>1, <1>2 DEF HighestBid, NftStep, NftFails, NftGoes, NftNext

LEMMA LoadBidKeeps ==
    ASSUME NftInv, NEW c \in Users, LoadBid(c)
    PROVE  NftInv'
<1> DEFINE j == nftJob[c]
           next == IF bids[j.bid].status = "active" THEN "saveSale" ELSE "idle"
           k == NftNext(j, next)
<1>1. CASE NftFails(c)
  BY <1>1, NftFailed
<1>2. CASE /\ NftGoes(c, "loadBid", next)
           /\ listings' = listings /\ bids' = bids /\ sales' = sales
  <2>1. j \in NftCopy /\ KeptJob(j, bids, sales)
    BY NftNow
  <2>2. j.next = "loadBid"
    BY <1>2 DEF NftGoes
  <2>3. next \in {"saveSale", "idle"} /\ next \in NftCalls /\ next \notin Placing
        /\ (next = "saveSale" => bids[j.bid].status = "active")
    BY DEF NftCalls, Placing, Accepting
  <2> HIDE DEF next, j
  <2>4. /\ k \in NftCopy /\ k.next = next
        /\ next # "idle" => k.listing = j.listing /\ k.bid = j.bid
    BY <2>1, <2>3, NftNextType
  <2> HIDE DEF k
  <2>5. KeptJob(k, bids, sales)
    BY <2>1, <2>2, <2>3, <2>4 DEF KeptJob, Placing, Accepting
  <2>6. MarketAt(j, listings, bids, sales) => MarketAt(k, listings, bids, sales)
    BY <2>1, <2>2, <2>3, <2>4, MarketLoaded
  <2> QED
    BY <1>2, <2>3, <2>5, <2>6, ReadsKeep DEF j, k
<1> QED
  BY <1>1, <1>2 DEF LoadBid, NftStep, NftFails, NftGoes, NftNext

\* The bids of a listing that are active are given another status.
LEMMA ActiveBidsSet ==
    ASSUME NftInv, NEW l, NEW status \in BidStatus \ {"none"},
           bids' = [b \in Bids |-> IF bids[b].listing = l /\ bids[b].status = "active"
                                   THEN [bids[b] EXCEPT !.status = status] ELSE bids[b]],
           listings' = listings, sales' = sales
    PROVE  /\ bids' \in [Bids -> NFTBid]
           /\ \A b \in Bids :
                /\ bids'[b].listing = bids[b].listing /\ bids'[b].amount = bids[b].amount
                /\ IF bids[b].listing = l /\ bids[b].status = "active"
                   THEN bids'[b].status = status ELSE bids'[b] = bids[b]
           /\ KeptRows(listings', bids', sales')
           /\ \A d \in Users : KeptJob(nftJob[d], bids', sales')
<1>1. /\ bids \in [Bids -> NFTBid] /\ nftJob \in [Users -> NftCopy]
      /\ KeptRows(listings, bids, sales)
      /\ \A d \in Users : KeptJob(nftJob[d], bids, sales)
  BY DEF NftInv, NftTypes
<1>2. \A b \in Bids :
        IF bids[b].listing = l /\ bids[b].status = "active"
        THEN bids'[b] = [bids[b] EXCEPT !.status = status] ELSE bids'[b] = bids[b]
  OBVIOUS
<1>3. ASSUME NEW b \in Bids
      PROVE  /\ bids'[b] \in NFTBid
             /\ bids'[b].listing = bids[b].listing /\ bids'[b].amount = bids[b].amount
             /\ IF bids[b].listing = l /\ bids[b].status = "active"
                THEN bids'[b].status = status ELSE bids'[b] = bids[b]
  BY <1>1, <1>2 DEF NFTBid
<1>4. bids' \in [Bids -> NFTBid]
  <2>1. bids' = [b \in Bids |-> bids'[b]]
    OBVIOUS
  <2> QED
    BY <1>3, <2>1
<1>5. \A b \in Bids : /\ bids'[b].status = "none" <=> bids[b].status = "none"
                      /\ bids[b].status = "none" => bids'[b] = bids[b]
  BY <1>3
<1>6. KeptRows(listings', bids', sales')
  BY <1>1, <1>3, <1>5 DEF KeptRows
<1>7. ASSUME NEW d \in Users
      PROVE  KeptJob(nftJob[d], bids', sales')
  <2>1. nftJob[d] \in NftCopy /\ nftJob[d].bid \in Bids
    BY <1>1 DEF NftCopy
  <2> QED
    BY <1>1, <1>3, <1>5, <2>1, KeptStill
<1> QED
  BY <1>3, <1>4, <1>6, <1>7

LEMMA MarkOutbidKeeps ==
    ASSUME NftInv, NEW c \in Users, MarkOutbid(c)
    PROVE  NftInv'
<1> DEFINE j == nftJob[c]
           k == NftNext(j, "saveBid")
<1>1. CASE NftFails(c)
  BY <1>1, NftFailed
<1>2. CASE /\ NftGoes(c, "outbid", "saveBid")
           /\ bids' = [b \in Bids |->
                         IF bids[b].listing = j.listing /\ bids[b].status = "active"
                         THEN [bids[b] EXCEPT !.status = "outbid"] ELSE bids[b]]
           /\ listings' = listings /\ sales' = sales
  <2>1. /\ listings \in [Listings -> NFTListing] /\ bids \in [Bids -> NFTBid]
        /\ sales \in NFTSale /\ j \in NftCopy
    BY NftNow
  <2>2. j.next = "outbid"
    BY <1>2 DEF NftGoes
  <2>3. /\ bids' \in [Bids -> NFTBid]
        /\ \A b \in Bids :
             /\ bids'[b].listing = bids[b].listing /\ bids'[b].amount = bids[b].amount
             /\ IF bids[b].listing = j.listing /\ bids[b].status = "active"
                THEN bids'[b].status = "outbid" ELSE bids'[b] = bids[b]
        /\ KeptRows(listings', bids', sales')
        /\ \A d \in Users : KeptJob(nftJob[d], bids', sales')
    <3>1. "outbid" \in BidStatus \ {"none"}
      BY DEF BidStatus
    <3> HIDE DEF j
    <3> QED
      BY <1>2, <3>1, ActiveBidsSet
  <2>4. KeptJob(j, bids', sales')
    BY <2>3
  <2>5. "saveBid" \in NftCalls /\ "outbid" \in Placing
    BY DEF NftCalls, Placing
  <2> HIDE DEF j
  <2>6. /\ k \in NftCopy /\ k.next = "saveBid"
        /\ k.listing = j.listing /\ k.bid = j.bid /\ k.row = j.row
    BY <2>1, <2>5, NftNextType
  <2> HIDE DEF k
  <2>7. KeptJob(k, bids', sales')
    BY <2>2, <2>4, <2>6 DEF KeptJob, Placing, Accepting
  <2>8. MarketAt(j, listings, bids, sales) => MarketAt(k, listings, bids', sales)
    BY <2>1, <2>2, <2>3, <2>6, MarketOutbid
  <2>9. listings' \in [Listings -> NFTListing] /\ sales' \in NFTSale
        /\ (MarketAt(j, listings, bids, sales) => MarketAt(k, listings', bids', sales'))
    BY <1>2, <2>1, <2>8
  <2> QED
    BY <1>2, <2>3, <2>5, <2>7, <2>9, NftWent DEF j, k
<1> QED
  BY <1>1, <1>2 DEF MarkOutbid, SetActiveBids, NftStep, NftFails, NftGoes, NftNext

LEMMA RejectOthersKeeps ==
    ASSUME NftInv, NEW c \in Users,
           NEW step \in {"rejectOthers", "cancelBids"}, NEW status \in {"rejected", "cancelled"},
           NftGoes(c, step, "idle"),
           bids' = [b \in Bids |->
                      IF bids[b].listing = nftJob[c].listing /\ bids[b].status = "active"
                      THEN [bids[b] EXCEPT !.status = status] ELSE bids[b]],
           listings' = listings, sales' = sales
    PROVE  NftInv'
<1> DEFINE j == nftJob[c]
<1>1. /\ listings \in [Listings -> NFTListing] /\ sales \in NFTSale /\ j \in NftCopy
  BY NftNow
<1>2. j.next = step
  BY DEF NftGoes
<1>3. /\ bids' \in [Bids -> NFTBid]
      /\ \A b \in Bids :
           /\ bids'[b].listing = bids[b].listing /\ bids'[b].amount = bids[b].amount
           /\ IF bids[b].listing = j.listing /\ bids[b].status = "active"
              THEN bids'[b].status = status ELSE bids'[b] = bids[b]
      /\ KeptRows(listings', bids', sales')
      /\ \A d \in Users : KeptJob(nftJob[d], bids', sales')
  <2>1. status \in BidStatus \ {"none"}
    BY DEF BidStatus
  <2> QED
    BY <2>1, ActiveBidsSet
<1>4. NftNext(j, "idle") = NftIdle
  BY DEF NftNext
<1>5. NftIdle \in NftCopy /\ NftIdle.next = "idle" /\ "idle" \in NftCalls
      /\ "idle" \notin Placing /\ KeptJob(NftIdle, bids', sales')
  BY NftIdleType, NothingKept DEF NftCalls, Placing
<1> HIDE DEF j
<1>6. ASSUME MarketAt(j, listings, bids, sales)
      PROVE  MarketAt(NftIdle, listings, bids', sales)
  <2>1. listings[j.listing].status \in {"sold", "cancelled"} /\ j.next \in Clearing
    BY <1>2, <1>6 DEF MarketAt, KnowsJob, Clearing
  <2>2. NoneActive(j.listing, bids, bids') /\ Answers(j.listing, bids, bids')
    BY <1>3 DEF NoneActive, Answers
  <2> QED
    BY <1>1, <1>5, <1>6, <2>1, <2>2, MarketAnswered
<1>7. listings' \in [Listings -> NFTListing] /\ sales' \in NFTSale
      /\ (MarketAt(j, listings, bids, sales) => MarketAt(NftIdle, listings', bids', sales'))
  BY <1>1, <1>6
<1> QED
  BY <1>3, <1>4, <1>5, <1>7, NftWent DEF j

LEMMA SaveBidKeeps ==
    ASSUME NftInv, NEW c \in Users, SaveBid(c)
    PROVE  NftInv'
<1> DEFINE j == nftJob[c]
<1>1. CASE NftFails(c)
  BY <1>1, NftFailed
<1>2. CASE /\ NftGoes(c, "saveBid", "idle")
           /\ bids' = [bids EXCEPT ![j.bid] = j.row]
           /\ listings' = listings /\ sales' = sales
  <2>1. /\ listings \in [Listings -> NFTListing] /\ bids \in [Bids -> NFTBid]
        /\ sales \in NFTSale /\ j \in NftCopy
        /\ KeptRows(listings, bids, sales)
        /\ \A d \in Users : KeptJob(nftJob[d], bids, sales)
        /\ nftJob \in [Users -> NftCopy] /\ PlacedOnce(nftJob)
    BY NftNow DEF NftInv, NftTypes
  <2>2. j.next = "saveBid" /\ j.bid \in Bids /\ j.row \in NFTBid
    BY <1>2, <2>1 DEF NftGoes, NftCopy
  <2>3. bids[j.bid].status = "none" /\ j.row.status = "active"
    BY <2>1, <2>2 DEF KeptJob, Placing
  <2>4. NftNext(j, "idle") = NftIdle
    BY DEF NftNext
  <2>5. NftIdle \in NftCopy /\ NftIdle.next = "idle" /\ "idle" \in NftCalls
        /\ "idle" \notin Placing /\ KeptJob(NftIdle, bids', sales')
    BY NftIdleType, NothingKept DEF NftCalls, Placing
  <2>6. ASSUME NEW d \in Users, d # c
        PROVE  KeptJob(nftJob[d], bids', sales')
    <3>1. nftJob[d] \in NftCopy /\ KeptJob(nftJob[d], bids, sales)
      BY <2>1
    <3>2. CASE nftJob[d].bid # j.bid
      <4>1. bids'[nftJob[d].bid] = bids[nftJob[d].bid] /\ sales' = sales
        BY <1>2, <2>1, <3>1, <3>2 DEF NftCopy
      <4> QED
        BY <3>1, <4>1, KeptStill
    <3>3. CASE nftJob[d].bid = j.bid
      <4>1. nftJob[d].next \notin Placing
        BY <2>1, <2>2, <2>6, <3>3 DEF PlacedOnce, Placing
      <4>2. nftJob[d].next \notin Accepting /\ nftJob[d].next # "markSold"
        BY <2>3, <3>1, <3>3 DEF KeptJob, Accepting
      <4> QED
        BY <3>1, <4>1, <4>2 DEF KeptJob
    <3> QED
      BY <3>2, <3>3
  <2> HIDE DEF j
  <2>7. /\ bids' \in [Bids -> NFTBid] /\ bids'[j.bid] = j.row
        /\ \A b \in Bids : b # j.bid => bids'[b] = bids[b]
    BY <1>2, <2>1, <2>2
  <2>8. KeptRows(listings, bids', sales)
    <3>1. \A b \in Bids : bids'[b].status = "none" => bids'[b] = NoBid /\ sales[b] = 0
      BY <2>1, <2>3, <2>7 DEF KeptRows
    <3>2. sales[j.bid] = 0
      BY <2>1, <2>2, <2>3 DEF KeptRows
    <3>3. ASSUME NEW l \in Listings, listings[l].status = "sold"
          PROVE  \E b \in Bids : bids'[b].listing = l /\ sales[b] > 0
      <4>1. PICK b \in Bids : bids[b].listing = l /\ sales[b] > 0
        BY <2>1, <3>3 DEF KeptRows
      <4>2. b # j.bid
        BY <3>2, <4>1
      <4> QED
        BY <2>7, <4>1, <4>2
    <3> QED
      BY <3>1, <3>3 DEF KeptRows
  <2>9. MarketAt(j, listings, bids, sales) => MarketAt(NftIdle, listings, bids', sales)
    <3>1. KeptJob(j, bids, sales)
      BY <2>1 DEF j
    <3> QED
      BY <2>1, <2>2, <2>7, <3>1, MarketBidSaved
  <2>10. /\ listings' \in [Listings -> NFTListing] /\ sales' \in NFTSale
         /\ KeptRows(listings', bids', sales')
         /\ MarketAt(j, listings, bids, sales) => MarketAt(NftIdle, listings', bids', sales')
    BY <1>2, <2>1, <2>8, <2>9
  <2> QED
    BY <1>2, <2>4, <2>5, <2>6, <2>7, <2>10, NftWent DEF j
<1> QED
  BY <1>1, <1>2 DEF SaveBid, NftStep, NftFails, NftGoes, NftNext

LEMMA SaveSaleKeeps ==
    ASSUME NftInv, NEW c \in Users, SaveSale(c)
    PROVE  NftInv'
<1> DEFINE j == nftJob[c]
           k == NftNext(j, "markSold")
<1>1. CASE NftFails(c)
  BY <1>1, NftFailed
<1>2. CASE /\ NftGoes(c, "saveSale", "markSold")
           /\ sales' = [sales EXCEPT ![j.bid] = @ + 1]
           /\ listings' = listings /\ bids' = bids
  <2>1. /\ listings \in [Listings -> NFTListing] /\ bids \in [Bids -> NFTBid]
        /\ sales \in NFTSale /\ j \in NftCopy
        /\ KeptRows(listings, bids, sales) /\ KeptJob(j, bids, sales)
        /\ \A d \in Users : KeptJob(nftJob[d], bids, sales) /\ nftJob[d] \in NftCopy
    BY NftNow DEF NftInv, NftTypes
  <2>2. j.next = "saveSale" /\ j.bid \in Bids
    BY <1>2, <2>1 DEF NftGoes, NftCopy
  <2>3. bids[j.bid].status # "none" /\ bids[j.bid].listing = j.listing
    BY <2>1, <2>2 DEF KeptJob, Accepting
  <2>4. "markSold" \in NftCalls /\ "markSold" \notin Placing
    BY DEF NftCalls, Placing, Accepting
  <2> HIDE DEF j
  <2>5. /\ k \in NftCopy /\ k.next = "markSold"
        /\ k.listing = j.listing /\ k.bid = j.bid
    BY <2>1, <2>4, NftNextType
  <2> HIDE DEF k
  <2>6. /\ sales' \in NFTSale /\ sales'[j.bid] = sales[j.bid] + 1
        /\ \A b \in Bids : b # j.bid => sales'[b] = sales[b]
    BY <1>2, <2>1, <2>2 DEF NFTSale
  <2>7. \A b \in Bids : sales[b] \in Nat /\ (sales[b] > 0 => sales'[b] > 0)
    BY <2>1, <2>6 DEF NFTSale
  <2>8. KeptRows(listings, bids, sales')
    BY <2>1, <2>3, <2>6, <2>7 DEF KeptRows
  <2>9. KeptJob(k, bids, sales')
    <3>1. sales'[k.bid] > 0
      BY <2>2, <2>5, <2>6, <2>7
    <3> QED
      BY <2>3, <2>5, <3>1 DEF KeptJob, Placing
  <2>10. ASSUME NEW d \in Users
         PROVE  KeptJob(nftJob[d], bids, sales')
    <3>1. nftJob[d].bid \in Bids
      BY <2>1 DEF NftCopy
    <3> QED
      BY <2>1, <2>7, <3>1, KeptStill
  <2>11. MarketAt(j, listings, bids, sales) => MarketAt(k, listings, bids, sales')
    BY <2>1, <2>2, <2>5, <2>6, MarketSold
  <2>12. /\ listings' \in [Listings -> NFTListing] /\ bids' \in [Bids -> NFTBid]
         /\ KeptRows(listings', bids', sales') /\ KeptJob(k, bids', sales')
         /\ \A d \in Users : KeptJob(nftJob[d], bids', sales')
         /\ MarketAt(j, listings, bids, sales) => MarketAt(k, listings', bids', sales')
    BY <1>2, <2>1, <2>8, <2>9, <2>10, <2>11
  <2> QED
    BY <1>2, <2>4, <2>6, <2>12, NftWent DEF j, k
<1> QED
  BY <1>1, <1>2 DEF SaveSale, NftStep, NftFails, NftGoes, NftNext

\* A listing is marked sold, or cancelled.
LEMMA ClosingKeeps ==
    ASSUME NftInv, NEW c \in Users, NEW step, NEW next \in NftCalls, NEW status,
           \/ step = "markSold" /\ next = "markAccepted" /\ status = "sold"
           \/ step = "cancelListing" /\ next = "cancelBids" /\ status = "cancelled",
           NftGoes(c, step, next),
           listings' = [listings EXCEPT ![nftJob[c].listing].status = status],
           bids' = bids, sales' = sales
    PROVE  NftInv'
<1> DEFINE j == nftJob[c]
           k == NftNext(j, next)
<1>1. /\ listings \in [Listings -> NFTListing] /\ bids \in [Bids -> NFTBid]
      /\ sales \in NFTSale /\ j \in NftCopy
      /\ KeptRows(listings, bids, sales) /\ KeptJob(j, bids, sales)
      /\ \A d \in Users : KeptJob(nftJob[d], bids, sales)
  BY NftNow
<1>2. j.next = step /\ j.listing \in Listings /\ j.bid \in Bids
      /\ next \notin Placing /\ next # "idle" /\ step # "idle"
      /\ status \in ListingStatus /\ next \notin {"markSold", "saveListing"}
  BY <1>1 DEF NftGoes, NftCopy, Placing, ListingStatus
<1>3. /\ listings' \in [Listings -> NFTListing]
      /\ listings'[j.listing].status = status
      /\ listings'[j.listing].type = listings[j.listing].type
      /\ \A l \in Listings : l # j.listing => listings'[l] = listings[l]
  BY <1>1, <1>2 DEF NFTListing
<1> HIDE DEF j
<1>4. /\ k \in NftCopy /\ k.next = next
      /\ k.listing = j.listing /\ k.bid = j.bid
  BY <1>1, <1>2, NftNextType
<1> HIDE DEF k
<1>5. KeptRows(listings', bids, sales)
  <2>1. ASSUME status = "sold"
        PROVE  bids[j.bid].listing = j.listing /\ sales[j.bid] > 0
    BY <1>1, <1>2, <2>1 DEF KeptJob, Accepting
  <2>2. \A l \in Listings : l # j.listing \/ status # "sold" =>
          (listings'[l].status = "sold" => listings[l].status = "sold")
    BY <1>2, <1>3
  <2> QED
    BY <1>1, <1>2, <2>1, <2>2 DEF KeptRows
<1>6. KeptJob(k, bids, sales)
  BY <1>1, <1>2, <1>4 DEF KeptJob, Placing, Accepting
<1>7. ASSUME MarketAt(j, listings, bids, sales)
      PROVE  MarketAt(k, listings', bids, sales)
  <2>1. \/ j.next = "markSold" /\ k.next = "markAccepted"
             /\ listings'[j.listing].status = "sold"
        \/ j.next = "cancelListing" /\ k.next = "cancelBids"
             /\ listings'[j.listing].status = "cancelled"
    BY <1>2, <1>3, <1>4
  <2> QED
    BY <1>1, <1>3, <1>4, <1>7, <2>1, MarketClosed
<1>8. /\ bids' \in [Bids -> NFTBid] /\ sales' \in NFTSale
      /\ KeptRows(listings', bids', sales') /\ KeptJob(k, bids', sales')
      /\ \A d \in Users : KeptJob(nftJob[d], bids', sales')
      /\ MarketAt(j, listings, bids, sales) => MarketAt(k, listings', bids', sales')
  BY <1>1, <1>5, <1>6, <1>7
<1> QED
  BY <1>2, <1>3, <1>8, NftWent DEF j, k

LEMMA MarkAcceptedKeeps ==
    ASSUME NftInv, NEW c \in Users, MarkAccepted(c)
    PROVE  NftInv'
<1> DEFINE j == nftJob[c]
           k == NftNext(j, "rejectOthers")
<1>1. CASE NftFails(c)
  BY <1>1, NftFailed
<1>2. CASE /\ NftGoes(c, "markAccepted", "rejectOthers")
           /\ bids' = [bids EXCEPT ![j.bid].status = "accepted"]
           /\ listings' = listings /\ sales' = sales
  <2>1. /\ listings \in [Listings -> NFTListing] /\ bids \in [Bids -> NFTBid]
        /\ sales \in NFTSale /\ j \in NftCopy
        /\ KeptRows(listings, bids, sales) /\ KeptJob(j, bids, sales)
        /\ \A d \in Users : KeptJob(nftJob[d], bids, sales) /\ nftJob[d] \in NftCopy
    BY NftNow DEF NftInv, NftTypes
  <2>2. j.next = "markAccepted" /\ j.bid \in Bids
    BY <1>2, <2>1 DEF NftGoes, NftCopy
  <2>3. bids[j.bid].status # "none" /\ bids[j.bid].listing = j.listing
    BY <2>1, <2>2 DEF KeptJob, Accepting
  <2>4. /\ "rejectOthers" \in NftCalls /\ "rejectOthers" \notin Placing
    BY DEF NftCalls, Placing, Accepting
  <2> HIDE DEF j
  <2>5. /\ k \in NftCopy /\ k.next = "rejectOthers"
        /\ k.listing = j.listing /\ k.bid = j.bid
    BY <2>1, <2>4, NftNextType
  <2> HIDE DEF k
  <2>6. /\ bids' \in [Bids -> NFTBid] /\ bids'[j.bid].status = "accepted"
        /\ bids'[j.bid].listing = bids[j.bid].listing
        /\ bids'[j.bid].amount = bids[j.bid].amount
        /\ \A b \in Bids : b # j.bid => bids'[b] = bids[b]
    BY <1>2, <2>1, <2>2 DEF NFTBid, BidStatus
  <2>7. \A b \in Bids : /\ bids'[b].status = "none" <=> bids[b].status = "none"
                        /\ bids'[b].listing = bids[b].listing
                        /\ bids[b].status = "none" => bids'[b] = bids[b]
    BY <2>3, <2>6
  <2>8. KeptRows(listings, bids', sales)
    BY <2>1, <2>7 DEF KeptRows
  <2>9. KeptJob(k, bids', sales)
    BY <2>2, <2>3, <2>5, <2>6 DEF KeptJob, Placing, Accepting
  <2>10. ASSUME NEW d \in Users
         PROVE  KeptJob(nftJob[d], bids', sales)
    <3>1. nftJob[d].bid \in Bids
      BY <2>1 DEF NftCopy
    <3> QED
      BY <2>1, <2>7, <3>1, KeptStill
  <2>11. ASSUME MarketAt(j, listings, bids, sales)
         PROVE  MarketAt(k, listings, bids', sales)
    <3>1. listings[j.listing].status = "sold" /\ j.next \in Clearing
      BY <2>2, <2>11 DEF MarketAt, KnowsJob, Clearing
    <3>2. Answers(j.listing, bids, bids')
      BY <2>3, <2>6 DEF Answers
    <3> QED
      BY <2>1, <2>2, <2>5, <2>11, <3>1, <3>2, MarketAnswered
  <2>12. /\ listings' \in [Listings -> NFTListing] /\ sales' \in NFTSale
         /\ KeptRows(listings', bids', sales') /\ KeptJob(k, bids', sales')
         /\ \A d \in Users : KeptJob(nftJob[d], bids', sales')
         /\ MarketAt(j, listings, bids, sales) => MarketAt(k, listings', bids', sales')
    BY <1>2, <2>1, <2>8, <2>9, <2>10, <2>11
  <2> QED
    BY <1>2, <2>4, <2>6, <2>12, NftWent DEF j, k
<1> QED
  BY <1>1, <1>2 DEF MarkAccepted, NftStep, NftFails, NftGoes, NftNext

\* A request begins, at a market it knows when it is alone.
LEMMA NftBegun ==
    ASSUME NftInv, NEW c \in Users, NEW k \in NftCopy, NftBegin(c, k),
           KeptJob(k, bids, sales),
           k.next \in Placing =>
             \A d \in Users : nftJob[d].next # "idle" => nftJob[d].bid # k.bid,
           k.next \notin {"saveSale", "markSold", "markAccepted", "rejectOthers",
                          "outbid", "cancelBids"},
           KnowsJob(k, listings, bids)
    PROVE  NftInv'
<1>1. /\ listings \in [Listings -> NFTListing] /\ bids \in [Bids -> NFTBid]
      /\ sales \in NFTSale /\ nftJob[c] \in NftCopy
      /\ nftFaults \in Nat /\ nftOverlaps \in BOOLEAN
      /\ KeptRows(listings, bids, sales)
      /\ \A d \in Users : KeptJob(nftJob[d], bids, sales)
  BY NftNow
<1>2. /\ nftJob[c].next = "idle" /\ nftJob' = [nftJob EXCEPT ![c] = k]
      /\ nftFaults' = nftFaults
      /\ nftOverlaps' = (nftOverlaps \/ \E d \in Users : nftJob[d].next # "idle")
      /\ listings' = listings /\ bids' = bids /\ sales' = sales
  BY DEF NftBegin
<1>3. NftMoves(c, k)
  BY <1>2, NftMoved DEF NftInv
<1>4. \A d \in Users : nftJob[d].next \in Placing => nftJob[d].next # "idle"
  BY DEF Placing
<1>5. ASSUME ~nftOverlaps', nftFaults' = 0
      PROVE  NftOthersIdle(c) /\ MarketAt(k, listings, bids, sales)
  <2>1. ~nftOverlaps /\ nftFaults = 0 /\ \A d \in Users : nftJob[d].next = "idle"
    BY <1>2, <1>5
  <2>2. NftOthersIdle(c) /\ MarketAt(nftJob[c], listings, bids, sales)
    BY <2>1, MarketBefore
  <2>3. SoldAt(k, listings, bids, sales)
    BY <1>2, <2>2 DEF MarketAt, SoldAt
  <2>4. ActiveAt(k, listings, bids)
    BY <1>2, <2>2 DEF MarketAt, ActiveAt, Clearing
  <2>5. OrderAt(k, listings, bids)
    BY <1>2, <2>2 DEF MarketAt, OrderAt
  <2> QED
    BY <2>2, <2>3, <2>4, <2>5 DEF MarketAt
<1>6. /\ listings' \in [Listings -> NFTListing] /\ bids' \in [Bids -> NFTBid]
      /\ sales' \in NFTSale /\ nftFaults' \in Nat /\ nftOverlaps' \in BOOLEAN
      /\ KeptRows(listings', bids', sales') /\ KeptJob(k, bids', sales')
      /\ \A d \in Users : KeptJob(nftJob[d], bids', sales')
      /\ ~nftOverlaps' /\ nftFaults' = 0 =>
           NftOthersIdle(c) /\ MarketAt(k, listings', bids', sales')
  BY <1>1, <1>2, <1>5
<1> QED
  BY <1>3, <1>4, <1>6, NftAfter

LEMMA CreateNFTListingKeeps ==
    ASSUME NftInv, NEW c \in Users, CreateNFTListing(c)
    PROVE  NftInv'
<1>1. PICK l \in Listings, nftMint, seller \in Addresses, type \in ListingType,
           price \in Prices :
        /\ listings[l] = NoListing
        /\ NftBegin(c, [NftIdle EXCEPT !.next = "saveListing", !.listing = l,
               !.offer = [status |-> "active", type |-> type, price |-> price,
                          nftMint |-> nftMint, seller |-> seller, ended |-> FALSE]])
  BY DEF CreateNFTListing
<1> DEFINE offer == [status |-> "active", type |-> type, price |-> price,
                     nftMint |-> nftMint, seller |-> seller, ended |-> FALSE]
           k == [NftIdle EXCEPT !.next = "saveListing", !.listing = l, !.offer = offer]
<1>2. offer \in NFTListing /\ offer.status = "active"
  BY TokensAssumption DEF NFTListing, ListingStatus
<1>3. NftBegin(c, k)
  BY <1>1
<1> HIDE DEF offer
<1>4. k \in NftCopy /\ k.next = "saveListing" /\ k.listing = l /\ k.offer = offer
  BY <1>2, NftIdleType DEF NftCopy, NftCalls
<1> HIDE DEF k
<1>5. KeptJob(k, bids, sales)
  BY <1>2, <1>4 DEF KeptJob, Placing, Accepting
<1>6. KnowsJob(k, listings, bids)
  BY <1>1, <1>4, NftIdleType DEF KnowsJob, Placing
<1>7. k.next \notin Placing
  BY <1>4 DEF Placing
<1> QED
  BY <1>3, <1>4, <1>5, <1>6, <1>7, NftBegun

LEMMA PlaceBidKeeps ==
    ASSUME NftInv, NEW c \in Users, PlaceBid(c)
    PROVE  NftInv'
<1>1. PICK l \in Listings, b \in Bids, amount \in Prices :
        /\ bids[b] = NoBid
        /\ \A d \in Users : nftJob[d].next # "idle" => nftJob[d].bid # b
        /\ listings[l].status = "active"
        /\ NftBegin(c, [NftIdle EXCEPT !.listing = l, !.bid = b,
             !.next = IF listings[l].type = "auction" THEN "highest" ELSE "saveBid",
             !.row = [status |-> "active", amount |-> amount, listing |-> l]])
  BY DEF PlaceBid
<1> DEFINE row == [status |-> "active", amount |-> amount, listing |-> l]
           next == IF listings[l].type = "auction" THEN "highest" ELSE "saveBid"
           k == [NftIdle EXCEPT !.listing = l, !.bid = b, !.next = next, !.row = row]
<1>2. row \in NFTBid /\ row.status = "active" /\ row.listing = l
  BY TokensAssumption DEF NFTBid, BidStatus
<1>3. /\ next \in {"highest", "saveBid"} /\ next \in NftCalls
      /\ next = "highest" => listings[l].type = "auction"
      /\ next = "saveBid" => listings[l].type # "auction"
  BY DEF NftCalls, Placing
<1>4. NftBegin(c, k)
  BY <1>1
<1> HIDE DEF row, next
<1>5. k \in NftCopy /\ k.next = next /\ k.listing = l /\ k.bid = b /\ k.row = row
  BY <1>2, <1>3, NftIdleType DEF NftCopy
<1> HIDE DEF k
<1>6. KeptJob(k, bids, sales)
  BY <1>1, <1>2, <1>3, <1>5, NftIdleType DEF KeptJob, Placing, Accepting
<1>7. KnowsJob(k, listings, bids)
  BY <1>1, <1>3, <1>5 DEF KnowsJob, Placing
<1> QED
  BY <1>1, <1>3, <1>4, <1>5, <1>6, <1>7, NftBegun

LEMMA AcceptBidKeeps ==
    ASSUME NftInv, NEW c \in Users, AcceptBid(c)
    PROVE  NftInv'
<1>1. PICK b \in Bids :
        /\ bids[b] # NoBid
        /\ NftBegin(c, [NftIdle EXCEPT !.next = "loadBid", !.bid = b,
                                       !.listing = bids[b].listing])
  BY DEF AcceptBid
<1> DEFINE k == [NftIdle EXCEPT !.next = "loadBid", !.bid = b, !.listing = bids[b].listing]
<1>2. bids[b].status # "none" /\ bids[b].listing \in Listings
  BY <1>1, NftNow DEF KeptRows, NFTBid
<1>3. k \in NftCopy /\ k.next = "loadBid" /\ k.listing = bids[b].listing /\ k.bid = b
  BY <1>2, NftIdleType DEF NftCopy, NftCalls, Accepting
<1>4. NftBegin(c, k)
  BY <1>1
<1> HIDE DEF k
<1>5. KeptJob(k, bids, sales)
  BY <1>2, <1>3 DEF KeptJob, Placing, Accepting
<1>6. KnowsJob(k, listings, bids) /\ k.next \notin Placing
  BY <1>3 DEF KnowsJob, Placing
<1> QED
  BY <1>3, <1>4, <1>5, <1>6, NftBegun

LEMMA CancelListingKeeps ==
    ASSUME NftInv, NEW c \in Users, CancelListing(c)
    PROVE  NftInv'
<1>1. PICK l \in Listings :
        /\ listings[l].status = "active"
        /\ NftBegin(c, [NftIdle EXCEPT !.next = "cancelListing", !.listing = l])
  BY DEF CancelListing
<1> DEFINE k == [NftIdle EXCEPT !.next = "cancelListing", !.listing = l]
<1>2. k \in NftCopy /\ k.next = "cancelListing" /\ k.listing = l
  BY NftIdleType DEF NftCopy, NftCalls
<1>3. NftBegin(c, k)
  BY <1>1
<1> HIDE DEF k
<1>4. KeptJob(k, bids, sales)
  BY <1>2 DEF KeptJob, Placing, Accepting
<1>5. KnowsJob(k, listings, bids) /\ k.next \notin Placing
  BY <1>1, <1>2 DEF KnowsJob, Placing
<1> QED
  BY <1>2, <1>3, <1>4, <1>5, NftBegun

\* The status and the type of a listing are all the market looks at.
LEMMA MarketEnded ==
    ASSUME NEW k, NEW ls, NEW bs, NEW ss, NEW lt, MarketAt(k, ls, bs, ss),
           k.listing \in Listings, \A b \in Bids : bs[b].listing \in Listings,
           \A l \in Listings : lt[l].status = ls[l].status /\ lt[l].type = ls[l].type
    PROVE  MarketAt(k, lt, bs, ss)
<1>1. KnowsJob(k, lt, bs)
  BY DEF MarketAt, KnowsJob
<1>2. SoldAt(k, lt, bs, ss)
  BY DEF MarketAt, SoldAt
<1>3. ActiveAt(k, lt, bs)
  BY DEF MarketAt, ActiveAt
<1>4. OrderAt(k, lt, bs)
  BY DEF MarketAt, OrderAt
<1> QED
  BY <1>1, <1>2, <1>3, <1>4 DEF MarketAt

LEMMA AuctionEndsKeeps ==
    ASSUME NftInv, AuctionEnds
    PROVE  NftInv'
<1>1. PICK l \in Listings : listings' = [listings EXCEPT ![l].ended = TRUE]
  BY DEF AuctionEnds
<1>2. /\ bids' = bids /\ sales' = sales /\ nftJob' = nftJob
      /\ nftFaults' = nftFaults /\ nftOverlaps' = nftOverlaps
  BY DEF AuctionEnds
<1>3. NftTypes /\ KeptRows(listings, bids, sales) /\ PlacedOnce(nftJob)
      /\ \A c \in Users : KeptJob(nftJob[c], bids, sales)
  BY DEF NftInv
<1>4. /\ listings' \in [Listings -> NFTListing]
      /\ \A o \in Listings : /\ listings'[o].status = listings[o].status
                             /\ listings'[o].type = listings[o].type
  BY <1>1, <1>3 DEF NftTypes, NFTListing
<1>5. NftTypes'
  BY <1>2, <1>3, <1>4 DEF NftTypes
<1>6. KeptRows(listings', bids, sales)
  BY <1>3, <1>4 DEF KeptRows
<1>7. ASSUME MarketAlone
      PROVE  MarketAlone'
  <2>1. NftIdle.listing \in Listings
    BY NftIdleType DEF NftCopy
  <2>2. \A b \in Bids : bids[b].listing \in Listings
    BY <1>3 DEF NftTypes, NFTBid
  <2>3. \A c \in Users : nftJob[c].listing \in Listings
    BY <1>3 DEF NftTypes, NftCopy
  <2>4. \A c \in Users : MarketAt(nftJob[c], listings, bids, sales) =>
                           MarketAt(nftJob[c], listings', bids, sales)
    BY <1>4, <2>2, <2>3, MarketEnded
  <2>5. MarketAt(NftIdle, listings, bids, sales) => MarketAt(NftIdle, listings', bids, sales)
    BY <1>4, <2>1, <2>2, MarketEnded
  <2> QED
    BY <1>2, <1>7, <2>4, <2>5 DEF MarketAlone
<1>8. /\ KeptRows(listings', bids', sales') /\ PlacedOnce(nftJob')
      /\ \A c \in Users : KeptJob(nftJob'[c], bids', sales')
  BY <1>2, <1>3, <1>6
<1> QED
  BY <1>2, <1>5, <1>7, <1>8 DEF NftInv

LEMMA TablesKeep ==
    ASSUME NftInv, listings' = listings, bids' = bids, sales' = sales, nftJob' = nftJob,
           nftFaults' = nftFaults, nftOverlaps' = nftOverlaps
    PROVE  NftInv'
BY DEF NftInv, NftTypes, MarketAlone

LEMMA TokensStepKeeps ==
    ASSUME NftInv, TokensStep
    PROVE  NftInv'
<1>1. CASE CreateNFTWithMetadata
  BY <1>1, TablesKeep DEF CreateNFTWithMetadata, tables
<1>2. CASE \E o \in Owners :
             \/ MintTokens(o) \/ BurnTokens(o)
             \/ GetOrCreateATA(o) \/ CloseTokenAccount(o) \/ FreezeTokenAccount(o)
             \/ ThawTokenAccount(o) \/ DelegateTokenAccount(o) \/ ApproveTokenSpending(o)
             \/ RevokeTokenDelegation(o) \/ RevokeTokenApproval(o)
             \/ \E recipient \in Owners : TransferNFT(o, recipient)
  <2>1. UNCHANGED tables
    BY <1>2 DEF MintTokens, BurnTokens, GetOrCreateATA, CloseTokenAccount,
                FreezeTokenAccount, ThawTokenAccount, DelegateTokenAccount,
                ApproveTokenSpending, RevokeTokenDelegation, RevokeTokenApproval,
                TransferNFT, OnChain
  <2> QED
    BY <2>1, TablesKeep DEF tables
<1>3. CASE AuctionEnds
  BY <1>3, AuctionEndsKeeps
<1>4. CASE RefuseListing
  BY <1>4, TablesKeep DEF RefuseListing
<1>5. ASSUME NEW c \in Users,
             \/ CreateNFTListing(c) \/ SaveListing(c) \/ PlaceBid(c) \/ HighestBid(c)
             \/ MarkOutbid(c) \/ SaveBid(c) \/ AcceptBid(c) \/ LoadBid(c) \/ SaveSale(c)
             \/ MarkSold(c) \/ MarkAccepted(c) \/ RejectOthers(c) \/ CancelListing(c)
             \/ MarkCancelled(c) \/ CancelBids(c)
      PROVE  NftInv'
  <2>1. CASE RejectOthers(c) \/ CancelBids(c)
    <3>1. NftFails(c)
            \/ \E step \in {"rejectOthers", "cancelBids"},
                  status \in {"rejected", "cancelled"} :
                 /\ NftGoes(c, step, "idle")
                 /\ bids' = [b \in Bids |->
                               IF bids[b].listing = nftJob[c].listing
                                    /\ bids[b].status = "active"
                               THEN [bids[b] EXCEPT !.status = status] ELSE bids[b]]
                 /\ listings' = listings /\ sales' = sales
      BY <2>1 DEF RejectOthers, CancelBids, SetActiveBids, NftStep, NftFails, NftGoes, NftNext
    <3> QED
      BY <3>1, NftFailed, RejectOthersKeeps
  <2>2. CASE MarkSold(c) \/ MarkCancelled(c)
    <3>1. CASE NftFails(c)
      BY <3>1, NftFailed
    <3>2. CASE /\ NftGoes(c, "markSold", "markAccepted")
               /\ listings' = [listings EXCEPT ![nftJob[c].listing].status = "sold"]
               /\ bids' = bids /\ sales' = sales
      <4>1. "markAccepted" \in NftCalls
        BY DEF NftCalls, Accepting
      <4> QED
        BY <3>2, <4>1, ClosingKeeps
    <3>3. CASE /\ NftGoes(c, "cancelListing", "cancelBids")
               /\ listings' = [listings EXCEPT ![nftJob[c].listing].status = "cancelled"]
               /\ bids' = bids /\ sales' = sales
      <4>1. "cancelBids" \in NftCalls
        BY DEF NftCalls
      <4> QED
        BY <3>3, <4>1, ClosingKeeps
    <3> QED
      BY <2>2, <3>1, <3>2, <3>3
         DEF MarkSold, MarkCancelled, SetListing, NftStep, NftFails, NftGoes, NftNext
  <2> QED
    BY <1>5, <2>1, <2>2, SaveListingKeeps, HighestBidKeeps, MarkOutbidKeeps, SaveBidKeeps,
       LoadBidKeeps, SaveSaleKeeps, MarkAcceptedKeeps, CreateNFTListingKeeps, PlaceBidKeeps,
       AcceptBidKeeps, CancelListingKeeps
<1> QED
  BY <1>1, <1>2, <1>3, <1>4, <1>5 DEF TokensStep

LEMMA NftInvHolds == TokensSpec => []NftInv
<1>1. ASSUME NftInv, [TokensStep]_nftVars
      PROVE  NftInv'
  <2>1. CASE UNCHANGED nftVars
    BY <1>1, <2>1, TablesKeep DEF nftVars
  <2> QED
    BY <1>1, <2>1, TokensStepKeeps
<1> QED
  BY <1>1, NftStart, PTL DEF TokensSpec

LEMMA NftInvMeans == NftInv => OneSalePerListing
<1> SUFFICES ASSUME NftInv, NEW l \in Listings
             PROVE  /\ listings[l].status = "sold" => SoldBids(l) # {}
                    /\ (~nftOverlaps /\ nftFaults = 0
                          /\ \A c \in Users : nftJob[c].next = "idle") =>
                         /\ SoldBids(l) # {} => listings[l].status = "sold"
                         /\ \A b, other \in SoldBids(l) : b = other /\ sales[b] = 1
                         /\ ActiveBids(l) # {} => listings[l].status = "active"
                         /\ listings[l].type = "auction" =>
                              \A b, other \in Bids :
                                bids[b].status = "active"
                                  /\ bids[other].status \in {"active", "outbid"}
                                  /\ bids[b].listing = l /\ bids[other].listing = l
                                  /\ b # other
                                => bids[b].amount > bids[other].amount
  BY DEF OneSalePerListing
<1>1. listings[l].status = "sold" => SoldBids(l) # {}
  BY DEF NftInv, KeptRows, SoldBids
<1>2. ASSUME ~nftOverlaps, nftFaults = 0, \A c \in Users : nftJob[c].next = "idle"
      PROVE  /\ SoldBids(l) # {} => listings[l].status = "sold"
             /\ \A b, other \in SoldBids(l) : b = other /\ sales[b] = 1
             /\ ActiveBids(l) # {} => listings[l].status = "active"
             /\ listings[l].type = "auction" =>
                  \A b, other \in Bids :
                    bids[b].status = "active" /\ bids[other].status \in {"active", "outbid"}
                      /\ bids[b].listing = l /\ bids[other].listing = l /\ b # other
                    => bids[b].amount > bids[other].amount
  <2>1. MarketAt(NftIdle, listings, bids, sales) /\ NftIdle.next = "idle"
    BY <1>2, NftIdleType DEF NftInv, MarketAlone
  <2>2. SoldAt(NftIdle, listings, bids, sales) /\ ActiveAt(NftIdle, listings, bids)
        /\ OrderAt(NftIdle, listings, bids)
    BY <2>1 DEF MarketAt
  <2>3. /\ SoldBids(l) # {} => listings[l].status = "sold"
        /\ \A b, other \in SoldBids(l) : b = other /\ sales[b] = 1
    BY <2>1, <2>2 DEF SoldBids, SoldAt
  <2>4. ActiveBids(l) # {} => listings[l].status = "active"
    BY <2>1, <2>2 DEF ActiveBids, ActiveAt, Clearing
  <2>5. listings[l].type = "auction" =>
          \A b, other \in Bids :
            bids[b].status = "active" /\ bids[other].status \in {"active", "outbid"}
              /\ bids[b].listing = l /\ bids[other].listing = l /\ b # other
            => bids[b].amount > bids[other].amount
    BY <2>2 DEF OrderAt
  <2> QED
    BY <2>3, <2>4, <2>5
<1> QED
  BY <1>1, <1>2

\* Whatever overlaps and fails, a listing is sold only to a bid with a sale; and while
\* one request is served at a time and none fails, a listing has one sale at most, a
\* closed one no active bid, and the active bid of an auction is above all others:
\* acceptBid, placeBid and cancelListing of TokensService, for any number of rows.
THEOREM SoldOnce == TokensSpec => []OneSalePerListing
BY NftInvHolds, NftInvMeans, PTL

-----------------------------------------------------------------------------
(* Lending pools                                                            *)

LendCalls == {"idle", "create", "send", "savePool", "savePosition", "close", "upsert"}

LendJob == [next : LendCalls, position : Positions, row : LendingPosition,
            pool : LendingPool, delta : Int, opens : BOOLEAN]

LendTypes ==
    /\ reserve \in LendingPool /\ reserveBase \in LendingPool
    /\ positions \in [Positions -> LendingPosition] /\ landed \subseteq Positions
    /\ lendJob \in [Lenders -> LendJob]
    /\ lendFaults \in Nat /\ lendOverlaps \in BOOLEAN

\* A row names its owner once its opening has landed and been closed.
OwnedClosed(row, p, ld) == row.owned => row.status = "closed" /\ p \in ld

\* The copy of a request: an opening, or a position that was closed before.
KnowsPosition(j, ld) ==
    /\ j.row.owned => j.position \in ld
    /\ j.row.status = "active" => j.opens
    /\ j.next = "create" => j.opens /\ ~j.row.owned
    /\ j.next = "savePosition" => j.row.owned /\ ~j.opens
    /\ j.next \in {"send", "savePool"} /\ ~j.opens => j.row.owned
    /\ j.row.owned => j.row.status \in {"active", "closed"}
    /\ j.opens => j.row.status = "active"

\* The request that opens a position, between the insertion of the row and its end.
Opens(j, p) == j.position = p /\ j.opens /\ j.next \in {"send", "savePool", "close"}

\* What a request that is alone has still to bring into the reserve.
ToBook(j, t) ==
    IF j.next = "savePool" /\ ~j.opens /\ t = j.row.type THEN j.delta ELSE 0

BooksAt(j, rs, base) ==
    /\ j.next \in {"send", "savePool"} /\ ~j.opens => j.pool = rs
    /\ \A t \in PositionType : rs[t] + ToBook(j, t) = base[t]

LendAlone ==
    /\ \A c, d \in Lenders : lendJob[c].next # "idle" /\ lendJob[d].next # "idle" => c = d
    /\ \A c \in Lenders : lendJob[c].next # "idle" =>
         BooksAt(lendJob[c], reserve, reserveBase)
    /\ (\A c \in Lenders : lendJob[c].next = "idle") =>
         BooksAt(LendIdle, reserve, reserveBase)

LendInv ==
    /\ LendTypes
    /\ \A p \in Positions : OwnedClosed(positions[p], p, landed)
    /\ \A c \in Lenders : KnowsPosition(lendJob[c], landed)
    /\ lendFaults = 0 => \A p \in Positions : positions[p].status = "active" =>
         \E c \in Lenders : Opens(lendJob[c], p)
    /\ ~lendOverlaps /\ lendFaults = 0 => LendAlone

LEMMA LendIdleType ==
    /\ LendIdle \in LendJob /\ LendIdle.next = "idle" /\ LendIdle.row = NoPosition
    /\ NoPosition \in LendingPosition /\ NoPosition.status = "none" /\ ~NoPosition.owned
    /\ EmptyReserve \in LendingPool /\ ~LendIdle.opens
<1>1. NoPosition \in LendingPosition /\ NoPosition.status = "none" /\ ~NoPosition.owned
  BY DEF NoPosition, LendingPosition, PositionType, PositionStatus
<1>2. EmptyReserve \in LendingPool
  BY DEF EmptyReserve, LendingPool
<1>3. (CHOOSE p \in Positions : TRUE) \in Positions
  BY LendingAssumption
<1> QED
  BY <1>1, <1>2, <1>3 DEF LendIdle, LendJob, LendCalls

LEMMA LendStart == LendingInit => LendInv
<1> SUFFICES ASSUME LendingInit
             PROVE  LendInv
  OBVIOUS
<1>1. /\ \A p \in Positions : positions[p] = NoPosition
      /\ \A c \in Lenders : lendJob[c] = LendIdle
      /\ reserve = EmptyReserve /\ reserveBase = EmptyReserve
  BY DEF LendingInit
<1>2. LendTypes
  BY LendIdleType DEF LendingInit, LendTypes
<1>3. \A t \in PositionType : EmptyReserve[t] = 0
  BY DEF EmptyReserve
<1>4. BooksAt(LendIdle, reserve, reserveBase)
  BY <1>1, <1>3, LendIdleType DEF BooksAt, ToBook
<1>5. LendAlone
  BY <1>1, <1>4, LendIdleType DEF LendAlone
<1> QED
  BY <1>1, <1>2, <1>5, LendIdleType DEF LendInv, OwnedClosed, KnowsPosition

\* A step of c to the job k, and what it leaves of the others.
LendMoves(c, k) ==
    /\ lendJob' \in [Lenders -> LendJob] /\ lendJob'[c] = k
    /\ \A d \in Lenders : d # c => lendJob'[d] = lendJob[d]

LendOthersIdle(c) == \A d \in Lenders : d # c => lendJob[d].next = "idle"

LEMMA LendMoved ==
    ASSUME LendTypes, NEW c \in Lenders, NEW k \in LendJob,
           lendJob' = [lendJob EXCEPT ![c] = k]
    PROVE  LendMoves(c, k)
BY DEF LendTypes, LendMoves

LEMMA IdleBooks ==
    ASSUME NEW k, k.next = "idle", NEW rs, NEW base
    PROVE  BooksAt(k, rs, base) <=> BooksAt(LendIdle, rs, base)
BY LendIdleType DEF BooksAt, ToBook

LEMMA LendBefore ==
    ASSUME LendInv, NEW c \in Lenders, ~lendOverlaps, lendFaults = 0,
           lendJob[c].next # "idle" \/ \A d \in Lenders : lendJob[d].next = "idle"
    PROVE  LendOthersIdle(c) /\ BooksAt(lendJob[c], reserve, reserveBase)
<1>1. LendAlone
  BY DEF LendInv
<1>2. CASE lendJob[c].next # "idle"
  BY <1>1, <1>2 DEF LendAlone, LendOthersIdle
<1>3. CASE \A d \in Lenders : lendJob[d].next = "idle"
  <2>1. BooksAt(LendIdle, reserve, reserveBase) /\ lendJob[c].next = "idle"
    BY <1>1, <1>3 DEF LendAlone
  <2>2. BooksAt(lendJob[c], reserve, reserveBase)
    BY <2>1, IdleBooks
  <2> QED
    BY <1>3, <2>2 DEF LendOthersIdle
<1> QED
  BY <1>2, <1>3

\* What has to be shown of a step of c.
LEMMA LendAfter ==
    ASSUME LendInv, NEW c \in Lenders, NEW k \in LendJob, LendMoves(c, k),
           reserve' \in LendingPool, reserveBase' \in LendingPool,
           positions' \in [Positions -> LendingPosition], landed' \subseteq Positions,
           landed \subseteq landed', lendFaults' \in Nat, lendOverlaps' \in BOOLEAN,
           \A p \in Positions : OwnedClosed(positions'[p], p, landed'),
           KnowsPosition(k, landed'),
           lendFaults' = 0 => lendFaults = 0,
           lendFaults' = 0 => \A p \in Positions : positions'[p].status = "active" =>
             \/ Opens(k, p)
             \/ positions[p].status = "active" /\ ~Opens(lendJob[c], p),
           ~lendOverlaps' /\ lendFaults' = 0 =>
             LendOthersIdle(c) /\ BooksAt(k, reserve', reserveBase')
    PROVE  LendInv'
<1>1. LendTypes'
  BY DEF LendTypes, LendMoves
<1>2. \A d \in Lenders : KnowsPosition(lendJob'[d], landed')
  <2> TAKE d \in Lenders
  <2>1. CASE d = c
    BY <2>1 DEF LendMoves
  <2>2. CASE d # c
    <3>1. lendJob'[d] = lendJob[d] /\ KnowsPosition(lendJob[d], landed)
      BY <2>2 DEF LendMoves, LendInv
    <3> QED
      BY <3>1 DEF KnowsPosition
  <2> QED
    BY <2>1, <2>2
<1>3. ASSUME LendOthersIdle(c), BooksAt(k, reserve', reserveBase')
      PROVE  LendAlone'
  <2>1. lendJob'[c] = k /\ \A d \in Lenders : d # c => lendJob'[d].next = "idle"
    BY <1>3 DEF LendMoves, LendOthersIdle
  <2>2. (\A d \in Lenders : lendJob'[d].next = "idle") =>
          BooksAt(LendIdle, reserve', reserveBase')
    BY <1>3, <2>1, IdleBooks
  <2>3. \A d \in Lenders : lendJob'[d].next # "idle" =>
          BooksAt(lendJob'[d], reserve', reserveBase')
    BY <1>3, <2>1
  <2> QED
    BY <2>1, <2>2, <2>3 DEF LendAlone
<1>4. ASSUME lendFaults' = 0, NEW p \in Positions, positions'[p].status = "active"
      PROVE  \E d \in Lenders : Opens(lendJob'[d], p)
  <2>1. CASE Opens(k, p)
    BY <2>1 DEF LendMoves
  <2>2. CASE positions[p].status = "active" /\ ~Opens(lendJob[c], p)
    <3>1. PICK d \in Lenders : Opens(lendJob[d], p)
      BY <1>4, <2>2 DEF LendInv
    <3>2. d # c
      BY <2>2, <3>1
    <3> QED
      BY <3>1, <3>2 DEF LendMoves
  <2> QED
    BY <1>4, <2>1, <2>2
<1> QED
  BY <1>1, <1>2, <1>3, <1>4 DEF LendInv

LendNext(j, next) == IF next = "idle" THEN LendIdle ELSE [j EXCEPT !.next = next]

LEMMA LendNextType ==
    ASSUME NEW j \in LendJob, NEW next \in LendCalls
    PROVE  /\ LendNext(j, next) \in LendJob /\ LendNext(j, next).next = next
           /\ next # "idle" => /\ LendNext(j, next).position = j.position
                               /\ LendNext(j, next).row = j.row
                               /\ LendNext(j, next).pool = j.pool
                               /\ LendNext(j, next).delta = j.delta
                               /\ LendNext(j, next).opens = j.opens
<1>1. CASE next = "idle"
  BY <1>1, LendIdleType DEF LendNext
<1>2. CASE next # "idle"
  <2>1. LendNext(j, next) = [j EXCEPT !.next = next]
    BY <1>2 DEF LendNext
  <2> QED
    BY <2>1 DEF LendJob
<1> QED
  BY <1>1, <1>2

LEMMA LendNow ==
    ASSUME LendInv, NEW c \in Lenders
    PROVE  /\ reserve \in LendingPool /\ reserveBase \in LendingPool
           /\ positions \in [Positions -> LendingPosition] /\ landed \subseteq Positions
           /\ lendJob[c] \in LendJob /\ lendJob[c].position \in Positions
           /\ lendJob[c].row \in LendingPosition /\ lendJob[c].opens \in BOOLEAN
           /\ lendFaults \in Nat /\ lendOverlaps \in BOOLEAN
           /\ \A p \in Positions : OwnedClosed(positions[p], p, landed)
           /\ KnowsPosition(lendJob[c], landed)
BY DEF LendInv, LendTypes, LendJob

LEMMA IdleKnows ==
    ASSUME NEW ld
    PROVE  KnowsPosition(LendIdle, ld)
BY LendIdleType DEF KnowsPosition

\* A rejected call of c.
LEMMA LendFailed ==
    ASSUME LendInv, NEW c \in Lenders, NEW next \in {"idle", "close"},
           lendJob' = [lendJob EXCEPT ![c] = LendNext(lendJob[c], next)],
           lendFaults' = lendFaults + 1, lendOverlaps' = lendOverlaps,
           reserve' = reserve, reserveBase' = reserveBase, positions' = positions,
           landed \subseteq landed', landed' \subseteq Positions
    PROVE  LendInv'
<1> DEFINE k == LendNext(lendJob[c], next)
<1>1. next \in LendCalls
  BY DEF LendCalls
<1>2. k \in LendJob /\ k.next = next
  BY <1>1, LendNow, LendNextType
<1>3. KnowsPosition(k, landed)
  <2>1. CASE next = "idle"
    BY <2>1, IdleKnows DEF LendNext
  <2>2. CASE next = "close"
    <3>1. k.row = lendJob[c].row /\ k.position = lendJob[c].position
          /\ k.opens = lendJob[c].opens
      BY <1>1, <2>2, LendNow, LendNextType
    <3> HIDE DEF k
    <3> QED
      BY <1>2, <2>2, <3>1, LendNow DEF KnowsPosition
  <2> QED
    BY <2>1, <2>2
<1>4. lendJob' = [lendJob EXCEPT ![c] = k]
  OBVIOUS
<1> HIDE DEF k
<1>5. LendMoves(c, k)
  BY <1>2, <1>4, LendMoved DEF LendInv
<1>6. lendFaults' \in Nat /\ lendFaults' # 0 /\ lendOverlaps' \in BOOLEAN
  BY LendNow
<1>7. KnowsPosition(k, landed') /\ \A p \in Positions : OwnedClosed(positions'[p], p, landed')
  BY <1>3, LendNow DEF OwnedClosed, KnowsPosition
<1>8. /\ reserve' \in LendingPool /\ reserveBase' \in LendingPool
      /\ positions' \in [Positions -> LendingPosition]
  BY LendNow
<1> QED
  BY <1>2, <1>5, <1>6, <1>7, <1>8, LendAfter

\* A call of c that is done.
LEMMA LendWent ==
    ASSUME LendInv, NEW c \in Lenders, NEW k \in LendJob, lendJob[c].next # "idle",
           lendJob' = [lendJob EXCEPT ![c] = k],
           lendFaults' = lendFaults, lendOverlaps' = lendOverlaps,
           reserve' \in LendingPool, reserveBase' \in LendingPool,
           positions' \in [Positions -> LendingPosition], landed' \subseteq Positions,
           landed \subseteq landed',
           \A p \in Positions : OwnedClosed(positions'[p], p, landed'),
           KnowsPosition(k, landed'),
           \A p \in Positions : positions'[p].status = "active" =>
             Opens(k, p) \/ (positions[p].status = "active" /\ ~Opens(lendJob[c], p)),
           lendFaults = 0 /\ BooksAt(lendJob[c], reserve, reserveBase) =>
             BooksAt(k, reserve', reserveBase')
    PROVE  LendInv'
<1>1. LendMoves(c, k)
  BY LendMoved DEF LendInv
<1>2. lendFaults' \in Nat /\ lendOverlaps' \in BOOLEAN
  BY LendNow
<1>3. ~lendOverlaps' /\ lendFaults' = 0 =>
        LendOthersIdle(c) /\ BooksAt(k, reserve', reserveBase')
  BY LendBefore
<1> QED
  BY <1>1, <1>2, <1>3, LendAfter

\* A request of c that begins.
LEMMA LendBegun ==
    ASSUME LendInv, NEW c \in Lenders, NEW k \in LendJob, LendBegin(c, k),
           KnowsPosition(k, landed),
           BooksAt(LendIdle, reserve, reserveBase) => BooksAt(k, reserve, reserveBase)
    PROVE  LendInv'
<1>1. /\ lendJob[c].next = "idle" /\ lendJob' = [lendJob EXCEPT ![c] = k]
      /\ lendFaults' = lendFaults
      /\ lendOverlaps' = (lendOverlaps \/ \E d \in Lenders : lendJob[d].next # "idle")
      /\ reserve' = reserve /\ reserveBase' = reserveBase /\ positions' = positions
      /\ landed' = landed
  BY DEF LendBegin
<1>2. LendMoves(c, k)
  BY <1>1, LendMoved DEF LendInv
<1>3. ASSUME ~lendOverlaps', lendFaults' = 0
      PROVE  LendOthersIdle(c) /\ BooksAt(k, reserve, reserveBase)
  <2>1. ~lendOverlaps /\ lendFaults = 0 /\ \A d \in Lenders : lendJob[d].next = "idle"
    BY <1>1, <1>3
  <2>2. LendOthersIdle(c) /\ BooksAt(lendJob[c], reserve, reserveBase)
    BY <2>1, LendBefore
  <2> QED
    BY <1>1, <2>2, IdleBooks
<1>4. lendFaults' \in Nat /\ lendOverlaps' \in BOOLEAN /\ \A p : ~Opens(lendJob[c], p)
  BY <1>1, LendNow DEF Opens
<1>5. /\ reserve' \in LendingPool /\ reserveBase' \in LendingPool
      /\ positions' \in [Positions -> LendingPosition] /\ landed' \subseteq Positions
      /\ landed \subseteq landed' /\ KnowsPosition(k, landed')
      /\ \A p \in Positions : OwnedClosed(positions'[p], p, landed')
  BY <1>1, LendNow
<1>6. ~lendOverlaps' /\ lendFaults' = 0 =>
        LendOthersIdle(c) /\ BooksAt(k, reserve', reserveBase')
  BY <1>1, <1>3
<1> QED
  BY <1>1, <1>2, <1>4, <1>5, <1>6, LendAfter

LEMMA OpeningKeeps ==
    ASSUME LendInv, NEW c \in Lenders, NEW p \in Positions, NEW amount \in LendAmounts,
           NEW type \in PositionType, LendBegin(c, Opening(p, type, amount))
    PROVE  LendInv'
<1> DEFINE row == [type |-> type, amount |-> amount, status |-> "active", owned |-> FALSE]
           k == [LendIdle EXCEPT !.next = "create", !.position = p, !.pool = reserve,
                   !.delta = amount, !.opens = TRUE, !.row = row]
<1>1. row \in LendingPosition /\ ~row.owned /\ row.status = "active" /\ amount \in Int
  BY LendingAssumption DEF LendingPosition, PositionStatus
<1>2. LendBegin(c, k)
  BY DEF Opening
<1> HIDE DEF row
<1>3. k \in LendJob /\ k.next = "create" /\ k.opens /\ k.row = row
  BY <1>1, LendNow, LendIdleType DEF LendJob, LendCalls
<1> HIDE DEF k
<1>4. KnowsPosition(k, landed)
  BY <1>1, <1>3 DEF KnowsPosition
<1>5. BooksAt(LendIdle, reserve, reserveBase) => BooksAt(k, reserve, reserveBase)
  BY <1>3, LendIdleType DEF BooksAt, ToBook
<1> QED
  BY <1>2, <1>3, <1>4, <1>5, LendBegun

LEMMA ReducingKeeps ==
    ASSUME LendInv, NEW c \in Lenders, NEW p \in Positions, NEW amount \in LendAmounts,
           positions[p].owned, LendBegin(c, Reducing(p, amount))
    PROVE  LendInv'
<1> DEFINE rest == positions[p].amount - amount
           less == -amount
           status == IF rest <= 0 THEN "closed" ELSE positions[p].status
           row == [positions[p] EXCEPT !.amount = rest, !.status = status]
           k == [LendIdle EXCEPT !.next = "send", !.position = p, !.pool = reserve,
                   !.delta = less, !.row = row]
<1>1. /\ positions[p] \in LendingPosition /\ amount \in Int
      /\ positions[p].amount \in Int /\ positions[p].status = "closed" /\ p \in landed
  BY LendNow, LendingAssumption DEF LendingPosition, OwnedClosed
<1>2. row \in LendingPosition /\ row.owned /\ row.status = "closed"
  <2>1. rest \in Int /\ status = "closed"
    BY <1>1
  <2> HIDE DEF rest, status
  <2> QED
    BY <1>1, <2>1 DEF LendingPosition, PositionStatus
<1>3. LendBegin(c, k)
  BY DEF Reducing
<1>4. less \in Int /\ reserve \in LendingPool
  BY <1>1, LendNow
<1> HIDE DEF row, less
<1>5. /\ k \in LendJob /\ k.next = "send" /\ k.position = p /\ k.pool = reserve
      /\ k.row = row /\ ~k.opens
  BY <1>2, <1>4, LendIdleType DEF LendJob, LendCalls
<1> HIDE DEF k
<1>6. KnowsPosition(k, landed)
  BY <1>1, <1>2, <1>5 DEF KnowsPosition
<1>7. BooksAt(LendIdle, reserve, reserveBase) => BooksAt(k, reserve, reserveBase)
  BY <1>5, LendIdleType DEF BooksAt, ToBook
<1> QED
  BY <1>3, <1>5, <1>6, <1>7, LendBegun

LEMMA RejectedKeeps ==
    ASSUME LendInv, NEW c \in Lenders, LendRejected(c), lendOverlaps' = lendOverlaps,
           reserve' = reserve, reserveBase' = reserveBase, positions' = positions,
           landed \subseteq landed', landed' \subseteq Positions
    PROVE  LendInv'
<1>1. PICK next \in {"idle", "close"} :
        lendJob' = [lendJob EXCEPT ![c] = LendNext(lendJob[c], next)]
  BY DEF LendRejected, LendGoto, LendNext
<1>2. lendFaults' = lendFaults + 1
  BY DEF LendRejected
<1> QED
  BY <1>1, <1>2, LendFailed

\* A row of the position of c is written.
LEMMA RowSaved ==
    ASSUME LendInv, NEW c \in Lenders, NEW row \in LendingPosition,
           OwnedClosed(row, lendJob[c].position, landed),
           positions' = [positions EXCEPT ![lendJob[c].position] = row]
    PROVE  /\ positions' \in [Positions -> LendingPosition]
           /\ \A p \in Positions : OwnedClosed(positions'[p], p, landed)
           /\ positions'[lendJob[c].position] = row
           /\ \A p \in Positions : p # lendJob[c].position => positions'[p] = positions[p]
BY LendNow

LEMMA CreatePositionKeeps ==
    ASSUME LendInv, NEW c \in Lenders, CreatePosition(c)
    PROVE  LendInv'
<1> DEFINE j == lendJob[c]
           k == [j EXCEPT !.next = "send"]
<1>1. /\ j.next = "create" /\ reserve' = reserve /\ landed' = landed
      /\ reserveBase' = reserveBase /\ lendOverlaps' = lendOverlaps
  BY DEF CreatePosition
<1>2. CASE lendFaults' = lendFaults + 1 /\ LendGoto(c, "idle") /\ positions' = positions
  <2>1. lendJob' = [lendJob EXCEPT ![c] = LendNext(lendJob[c], "idle")]
    BY <1>2 DEF LendGoto, LendNext
  <2> QED
    BY <1>1, <1>2, <2>1, LendNow, LendFailed
<1>3. CASE /\ positions' = [positions EXCEPT ![lendJob[c].position] = lendJob[c].row]
           /\ LendGoto(c, "send") /\ lendFaults' = lendFaults
  <2>1. lendJob' = [lendJob EXCEPT ![c] = k]
    BY <1>3 DEF LendGoto
  <2>2. j \in LendJob /\ KnowsPosition(j, landed) /\ j.row \in LendingPosition
        /\ j.position \in Positions
    BY LendNow
  <2> HIDE DEF j
  <2>3. /\ k \in LendJob /\ k.next = "send" /\ k.position = j.position
        /\ k.row = j.row /\ k.pool = j.pool /\ k.opens = j.opens
    BY <2>2 DEF LendJob, LendCalls
  <2> HIDE DEF k
  <2>4. j.opens /\ ~j.row.owned
    BY <1>1, <2>2 DEF KnowsPosition
  <2>5. OwnedClosed(j.row, j.position, landed)
    BY <2>4 DEF OwnedClosed
  <2>6. /\ positions' \in [Positions -> LendingPosition]
        /\ \A p \in Positions : OwnedClosed(positions'[p], p, landed)
        /\ \A p \in Positions : p # j.position => positions'[p] = positions[p]
    BY <1>3, <2>2, <2>5, RowSaved DEF j
  <2>7. KnowsPosition(k, landed)
    BY <2>2, <2>3, <2>4 DEF KnowsPosition
  <2>8. \A p \in Positions : positions'[p].status = "active" =>
          Opens(k, p) \/ (positions[p].status = "active" /\ ~Opens(j, p))
    BY <1>1, <2>3, <2>4, <2>6 DEF Opens
  <2>9. BooksAt(j, reserve, reserveBase) => BooksAt(k, reserve, reserveBase)
    BY <1>1, <2>3, <2>4 DEF BooksAt, ToBook, j
  <2> QED
    BY <1>1, <1>3, <2>1, <2>3, <2>6, <2>7, <2>8, <2>9, LendNow, LendWent DEF j
<1> QED
  BY <1>1, <1>2, <1>3 DEF CreatePosition

LEMMA SendLendingKeeps ==
    ASSUME LendInv, NEW c \in Lenders, SendLending(c)
    PROVE  LendInv'
<1> DEFINE j == lendJob[c]
           row == [j.row EXCEPT !.owned = TRUE]
           k == [j EXCEPT !.next = "savePool", !.row = row]
<1>1. /\ j.next = "send" /\ reserve' = reserve /\ positions' = positions
      /\ lendOverlaps' = lendOverlaps
  BY DEF SendLending
<1>2. CASE landed' \in {landed, landed \cup {j.position}} /\ LendRejected(c)
           /\ reserveBase' = reserveBase
  <2>1. landed \subseteq landed' /\ landed' \subseteq Positions
    BY <1>2, LendNow
  <2> QED
    BY <1>1, <1>2, <2>1, RejectedKeeps
<1>3. CASE /\ landed' = landed \cup {j.position}
           /\ lendJob' = [lendJob EXCEPT ![c].next = "savePool", ![c].row.owned = TRUE]
           /\ reserveBase' = IF j.opens THEN reserveBase
                             ELSE [reserveBase EXCEPT ![j.row.type] = @ + j.delta]
           /\ lendFaults' = lendFaults
  <2>1. /\ j \in LendJob /\ j.position \in Positions /\ j.row \in LendingPosition
        /\ KnowsPosition(j, landed)
    BY LendNow
  <2>2. lendJob' = [lendJob EXCEPT ![c] = k]
    BY <1>3, <2>1 DEF LendInv, LendTypes, LendJob
  <2>3. reserve \in LendingPool /\ reserveBase \in LendingPool
    BY LendNow
  <2> HIDE DEF j
  <2>4. /\ row \in LendingPosition /\ row.type = j.row.type /\ row.owned
        /\ row.status = j.row.status
    BY <2>1 DEF LendingPosition
  <2> HIDE DEF row
  <2>5. /\ k \in LendJob /\ k.next = "savePool" /\ k.position = j.position
        /\ k.row = row /\ k.pool = j.pool /\ k.delta = j.delta /\ k.opens = j.opens
    BY <2>1, <2>4 DEF LendJob, LendCalls
  <2> HIDE DEF k
  <2>6. landed' \subseteq Positions /\ landed \subseteq landed' /\ j.position \in landed'
    BY <1>3, <2>1, LendNow
  <2>7. KnowsPosition(k, landed')
    <3>1. (j.row.status = "active" => j.opens) /\ (j.opens => j.row.status = "active")
      BY <2>1 DEF KnowsPosition
    <3>2. j.row.status \in {"active", "closed"}
      BY <1>1, <2>1 DEF KnowsPosition
    <3> QED
      BY <2>4, <2>5, <2>6, <3>1, <3>2 DEF KnowsPosition
  <2>8. \A p \in Positions : OwnedClosed(positions'[p], p, landed')
    BY <1>1, <2>6, LendNow DEF OwnedClosed
  <2>9. \A p \in Positions : positions'[p].status = "active" =>
          Opens(k, p) \/ (positions[p].status = "active" /\ ~Opens(j, p))
    BY <1>1, <2>5 DEF Opens
  <2>10. /\ reserveBase' \in LendingPool
         /\ \A t \in PositionType : reserveBase'[t] = reserveBase[t] + ToBook(k, t)
    <3>1. j.row.type \in PositionType /\ j.delta \in Int
      BY <2>1 DEF LendJob, LendingPosition
    <3>2. CASE j.opens
      BY <1>3, <2>3, <2>5, <3>2 DEF ToBook, LendingPool
    <3>3. CASE ~j.opens
      <4>1. reserveBase' = [reserveBase EXCEPT ![j.row.type] = @ + j.delta]
        BY <1>3, <3>3
      <4>2. \A t \in PositionType :
              ToBook(k, t) = IF t = j.row.type THEN j.delta ELSE 0
        BY <2>4, <2>5, <3>3 DEF ToBook
      <4> QED
        BY <2>3, <3>1, <4>1, <4>2 DEF LendingPool
    <3> QED
      BY <3>2, <3>3
  <2>11. ASSUME BooksAt(j, reserve, reserveBase)
         PROVE  BooksAt(k, reserve, reserveBase')
    <3>1. \A t \in PositionType : ToBook(j, t) = 0 /\ reserve[t] \in Int
      BY <1>1, <2>3 DEF ToBook, LendingPool, j
    <3>2. \A t \in PositionType : reserve[t] = reserveBase[t]
      BY <2>11, <3>1 DEF BooksAt
    <3>3. k.next \in {"send", "savePool"} /\ ~k.opens => k.pool = reserve
      BY <1>1, <2>5, <2>11 DEF BooksAt, j
    <3> QED
      BY <2>10, <3>2, <3>3 DEF BooksAt
  <2>12. positions' \in [Positions -> LendingPosition] /\ reserve' \in LendingPool
         /\ (BooksAt(j, reserve, reserveBase) => BooksAt(k, reserve', reserveBase'))
         /\ j.next # "idle"
    BY <1>1, <2>11, LendNow
  <2> QED
    BY <1>1, <1>3, <2>2, <2>5, <2>6, <2>7, <2>8, <2>9, <2>10, <2>12, LendWent DEF j
<1> QED
  BY <1>1, <1>2, <1>3 DEF SendLending

\* The save is refused: the opening goes on to its handler.
LEMMA RefusedPoolKeeps ==
    ASSUME LendInv, NEW c \in Lenders, lendJob[c].next = "savePool", lendJob[c].opens,
           LendGoto(c, "close"), lendFaults' = lendFaults, reserve' = reserve,
           positions' = positions, landed' = landed, reserveBase' = reserveBase,
           lendOverlaps' = lendOverlaps
    PROVE  LendInv'
<1> DEFINE j == lendJob[c]
           k == [j EXCEPT !.next = "close"]
<1>1. lendJob' = [lendJob EXCEPT ![c] = k]
  BY DEF LendGoto
<1>2. j \in LendJob /\ KnowsPosition(j, landed) /\ j.next = "savePool" /\ j.opens
  BY LendNow
<1> HIDE DEF j
<1>3. /\ k \in LendJob /\ k.next = "close" /\ k.position = j.position
      /\ k.row = j.row /\ k.opens
  BY <1>2 DEF LendJob, LendCalls
<1> HIDE DEF k
<1>4. KnowsPosition(k, landed)
  BY <1>2, <1>3 DEF KnowsPosition
<1>5. \A p \in Positions : positions'[p].status = "active" =>
        Opens(k, p) \/ (positions[p].status = "active" /\ ~Opens(j, p))
  BY <1>2, <1>3 DEF Opens
<1>6. BooksAt(j, reserve, reserveBase) => BooksAt(k, reserve, reserveBase)
  BY <1>2, <1>3 DEF BooksAt, ToBook
<1>7. /\ reserve' \in LendingPool /\ reserveBase' \in LendingPool /\ landed' \subseteq Positions
      /\ positions' \in [Positions -> LendingPosition] /\ landed \subseteq landed'
      /\ KnowsPosition(k, landed') /\ \A p \in Positions : OwnedClosed(positions'[p], p, landed')
      /\ (BooksAt(j, reserve, reserveBase) => BooksAt(k, reserve', reserveBase'))
      /\ j.next # "idle"
  BY <1>2, <1>4, <1>6, LendNow
<1> QED
  BY <1>1, <1>3, <1>5, <1>7, LendWent DEF j

\* The reserve of a reduced position is written.
LEMMA SaveLendingPoolKeeps ==
    ASSUME LendInv, NEW c \in Lenders, lendJob[c].next = "savePool", ~lendJob[c].opens,
           reserve' = [lendJob[c].pool EXCEPT ![lendJob[c].row.type] = @ + lendJob[c].delta],
           LendGoto(c, "savePosition"), lendFaults' = lendFaults,
           positions' = positions, landed' = landed, reserveBase' = reserveBase,
           lendOverlaps' = lendOverlaps
    PROVE  LendInv'
<1> DEFINE j == lendJob[c]
           k == [j EXCEPT !.next = "savePosition"]
<1>1. lendJob' = [lendJob EXCEPT ![c] = k]
  BY DEF LendGoto
<1>2. j \in LendJob /\ KnowsPosition(j, landed) /\ j.next = "savePool" /\ ~j.opens
  BY LendNow
<1>3. reserve' = [j.pool EXCEPT ![j.row.type] = @ + j.delta]
  OBVIOUS
<1> HIDE DEF j
<1>4. /\ k \in LendJob /\ k.next = "savePosition" /\ k.position = j.position
      /\ k.row = j.row /\ ~k.opens
  BY <1>2 DEF LendJob, LendCalls
<1> HIDE DEF k
<1>5. KnowsPosition(k, landed)
  BY <1>2, <1>4 DEF KnowsPosition
<1>6. \A p \in Positions : positions'[p].status = "active" =>
        Opens(k, p) \/ (positions[p].status = "active" /\ ~Opens(j, p))
  BY <1>2 DEF Opens
<1>7. j.pool \in LendingPool /\ j.row.type \in PositionType /\ j.delta \in Int
  BY <1>2 DEF LendJob, LendingPosition
<1>8. reserve' \in LendingPool
      /\ \A t \in PositionType : reserve'[t] = j.pool[t] + ToBook(j, t)
  <2>1. \A t \in PositionType : ToBook(j, t) = IF t = j.row.type THEN j.delta ELSE 0
    BY <1>2 DEF ToBook
  <2>2. j.pool \in [PositionType -> Int]
    BY <1>7 DEF LendingPool
  <2>3. reserve' = [t \in PositionType |-> IF t = j.row.type THEN j.pool[t] + j.delta
                                           ELSE j.pool[t]]
    BY <1>3, <1>7, <2>2
  <2>4. \A t \in PositionType : j.pool[t] \in Int
    BY <2>2
  <2>5. reserve' \in LendingPool
    <3>1. \A t \in PositionType :
            (IF t = j.row.type THEN j.pool[t] + j.delta ELSE j.pool[t]) \in Int
      BY <1>7, <2>4
    <3>2. reserve' \in [PositionType -> Int]
      BY <2>3, <3>1
    <3> QED
      BY <3>2 DEF LendingPool
  <2>6. \A t \in PositionType : reserve'[t] = j.pool[t] + ToBook(j, t)
    BY <1>7, <2>1, <2>3, <2>4
  <2> QED
    BY <2>5, <2>6
<1>9. ASSUME BooksAt(j, reserve, reserveBase)
      PROVE  BooksAt(k, reserve', reserveBase)
  <2>1. j.pool = reserve /\ \A t \in PositionType : ToBook(k, t) = 0
    BY <1>2, <1>4, <1>9 DEF BooksAt, ToBook
  <2>2. \A t \in PositionType : reserve'[t] + ToBook(k, t) = reserveBase[t]
    BY <1>8, <1>9, <2>1 DEF BooksAt, LendingPool
  <2> QED
    BY <1>4, <2>2 DEF BooksAt
<1>10. /\ reserveBase' \in LendingPool /\ landed' \subseteq Positions
       /\ positions' \in [Positions -> LendingPosition] /\ landed \subseteq landed'
       /\ KnowsPosition(k, landed') /\ \A p \in Positions : OwnedClosed(positions'[p], p, landed')
       /\ (BooksAt(j, reserve, reserveBase) => BooksAt(k, reserve', reserveBase'))
       /\ j.next # "idle"
  BY <1>2, <1>5, <1>9, LendNow
<1> QED
  BY <1>1, <1>4, <1>6, <1>8, <1>10, LendWent DEF j

LEMMA SavePoolKeeps ==
    ASSUME LendInv, NEW c \in Lenders, SavePool(c)
    PROVE  LendInv'
<1>1. CASE LendRejected(c) /\ reserve' = reserve
  BY <1>1, LendNow, RejectedKeeps DEF SavePool
<1>2. CASE lendJob[c].opens /\ LendGoto(c, "close") /\ reserve' = reserve
           /\ lendFaults' = lendFaults
  BY <1>2, RefusedPoolKeeps DEF SavePool
<1>3. CASE /\ ~lendJob[c].opens
           /\ reserve' = [lendJob[c].pool EXCEPT ![lendJob[c].row.type] = @ + lendJob[c].delta]
           /\ LendGoto(c, "savePosition") /\ lendFaults' = lendFaults
  BY <1>3, SaveLendingPoolKeeps DEF SavePool
<1> QED
  BY <1>1, <1>2, <1>3 DEF SavePool

\* A request writes the row of its position, closed, and ends.
LEMMA ClosedKeeps ==
    ASSUME LendInv, NEW c \in Lenders, NEW row \in LendingPosition, row.status = "closed",
           row.owned = lendJob[c].row.owned,
           lendJob[c].next \in {"close", "savePosition"},
           positions' = [positions EXCEPT ![lendJob[c].position] = row],
           LendGoto(c, "idle"), lendFaults' = lendFaults, lendOverlaps' = lendOverlaps,
           reserve' = reserve, reserveBase' = reserveBase, landed' = landed
    PROVE  LendInv'
<1>1. lendJob' = [lendJob EXCEPT ![c] = LendIdle]
  BY DEF LendGoto
<1>2. OwnedClosed(row, lendJob[c].position, landed)
  BY LendNow DEF OwnedClosed, KnowsPosition
<1>3. /\ positions' \in [Positions -> LendingPosition]
      /\ \A p \in Positions : OwnedClosed(positions'[p], p, landed)
      /\ positions'[lendJob[c].position] = row
      /\ \A p \in Positions : p # lendJob[c].position => positions'[p] = positions[p]
  BY <1>2, RowSaved
<1>4. \A p \in Positions : positions'[p].status = "active" =>
        positions[p].status = "active" /\ ~Opens(lendJob[c], p)
  BY <1>3 DEF Opens
<1>5. BooksAt(lendJob[c], reserve, reserveBase) => BooksAt(LendIdle, reserve, reserveBase)
  BY LendIdleType DEF BooksAt, ToBook
<1>6. /\ reserve' \in LendingPool /\ reserveBase' \in LendingPool /\ landed' \subseteq Positions
      /\ landed \subseteq landed' /\ \A p \in Positions : OwnedClosed(positions'[p], p, landed')
      /\ KnowsPosition(LendIdle, landed') /\ LendIdle \in LendJob /\ lendJob[c].next # "idle"
      /\ (BooksAt(lendJob[c], reserve, reserveBase) => BooksAt(LendIdle, reserve', reserveBase'))
  BY <1>3, <1>5, LendNow, IdleKnows, LendIdleType
<1> QED
  BY <1>1, <1>3, <1>4, <1>6, LendWent

LEMMA SavePositionKeeps ==
    ASSUME LendInv, NEW c \in Lenders, SavePosition(c)
    PROVE  LendInv'
<1>1. CASE /\ positions' = [positions EXCEPT ![lendJob[c].position] = lendJob[c].row]
           /\ LendGoto(c, "idle") /\ lendFaults' = lendFaults
  <2>1. lendJob[c].row.status = "closed" /\ lendJob[c].row \in LendingPosition
    BY LendNow DEF SavePosition, KnowsPosition
  <2> QED
    BY <1>1, <2>1, ClosedKeeps DEF SavePosition
<1>2. CASE LendRejected(c) /\ positions' = positions
  BY <1>2, LendNow, RejectedKeeps DEF SavePosition
<1> QED
  BY <1>1, <1>2 DEF SavePosition

LEMMA ClosePositionKeeps ==
    ASSUME LendInv, NEW c \in Lenders, ClosePosition(c)
    PROVE  LendInv'
<1> DEFINE row == [lendJob[c].row EXCEPT !.status = "closed"]
<1>1. /\ lendJob[c].next = "close" /\ LendGoto(c, "idle")
      /\ reserve' = reserve /\ landed' = landed /\ reserveBase' = reserveBase
      /\ lendOverlaps' = lendOverlaps
  BY DEF ClosePosition
<1>2. CASE positions' = [positions EXCEPT ![lendJob[c].position] = row]
           /\ lendFaults' = lendFaults
  <2>1. row \in LendingPosition /\ row.status = "closed" /\ row.owned = lendJob[c].row.owned
    BY LendNow DEF LendingPosition, PositionStatus
  <2> HIDE DEF row
  <2> QED
    BY <1>1, <1>2, <2>1, ClosedKeeps
<1>3. CASE lendFaults' = lendFaults + 1 /\ positions' = positions
  <2>1. lendJob' = [lendJob EXCEPT ![c] = LendNext(lendJob[c], "idle")]
    BY <1>1 DEF LendNext, LendGoto
  <2> QED
    BY <1>1, <1>3, <2>1, LendNow, LendFailed
<1> QED
  BY <1>2, <1>3 DEF ClosePosition

LEMMA CreateOrUpdatePoolKeeps ==
    ASSUME LendInv, NEW c \in Lenders, CreateOrUpdatePool(c)
    PROVE  LendInv'
<1>1. /\ lendJob[c].next = "upsert" /\ lendJob' = [lendJob EXCEPT ![c] = LendIdle]
      /\ positions' = positions /\ landed' = landed
      /\ lendFaults' = lendFaults /\ lendOverlaps' = lendOverlaps
  BY DEF CreateOrUpdatePool, LendGoto
<1>2. PICK new \in [PositionType -> LendAmounts] : reserve' = new /\ reserveBase' = new
  BY DEF CreateOrUpdatePool
<1>3. new \in LendingPool
  BY LendingAssumption DEF LendingPool
<1>4. BooksAt(LendIdle, new, new)
  BY <1>3, LendIdleType DEF BooksAt, ToBook, LendingPool
<1>5. /\ positions' \in [Positions -> LendingPosition] /\ landed' \subseteq Positions
      /\ landed \subseteq landed' /\ \A p \in Positions : OwnedClosed(positions'[p], p, landed')
      /\ KnowsPosition(LendIdle, landed') /\ LendIdle \in LendJob
      /\ lendJob[c].next # "idle" /\ BooksAt(LendIdle, reserve', reserveBase')
      /\ reserve' \in LendingPool /\ reserveBase' \in LendingPool
      /\ \A p : ~Opens(lendJob[c], p)
  BY <1>1, <1>2, <1>3, <1>4, LendNow, IdleKnows, LendIdleType DEF Opens
<1> QED
  BY <1>1, <1>5, LendWent

LEMMA LendStepKeeps ==
    ASSUME LendInv, LendingStep
    PROVE  LendInv'
<1>1. PICK c \in Lenders :
        \/ SupplyToPool(c) \/ BorrowFromPool(c) \/ RepayBorrow(c) \/ WithdrawSupply(c)
        \/ CreatePosition(c) \/ SendLending(c) \/ SavePool(c) \/ SavePosition(c)
        \/ ClosePosition(c) \/ LoadForUpdate(c) \/ CreateOrUpdatePool(c)
  BY DEF LendingStep
<1>2. CASE SupplyToPool(c) \/ BorrowFromPool(c)
  <2>1. PICK p \in Positions, amount \in LendAmounts, type \in {"supply", "borrow"} :
          LendBegin(c, Opening(p, type, amount))
    BY <1>2 DEF SupplyToPool, BorrowFromPool
  <2>2. type \in PositionType
    BY DEF PositionType
  <2> QED
    BY <2>1, <2>2, OpeningKeeps
<1>3. CASE RepayBorrow(c) \/ WithdrawSupply(c)
  <2>1. PICK p \in Positions, amount \in LendAmounts :
          positions[p].owned /\ LendBegin(c, Reducing(p, amount))
    BY <1>3 DEF RepayBorrow, WithdrawSupply
  <2> QED
    BY <2>1, ReducingKeeps
<1>4. CASE LoadForUpdate(c)
  <2> DEFINE k == [LendIdle EXCEPT !.next = "upsert"]
  <2>1. k \in LendJob /\ k.next = "upsert" /\ k.row = NoPosition /\ ~k.opens
    BY LendIdleType DEF LendJob, LendCalls
  <2>2. LendBegin(c, k)
    BY <1>4 DEF LoadForUpdate
  <2> HIDE DEF k
  <2>3. KnowsPosition(k, landed)
    BY <2>1, LendIdleType DEF KnowsPosition
  <2>4. BooksAt(LendIdle, reserve, reserveBase) => BooksAt(k, reserve, reserveBase)
    BY <2>1, LendIdleType DEF BooksAt, ToBook
  <2> QED
    BY <2>1, <2>2, <2>3, <2>4, LendBegun
<1> QED
  BY <1>1, <1>2, <1>3, <1>4, CreatePositionKeeps, SendLendingKeeps, SavePoolKeeps,
     SavePositionKeeps, ClosePositionKeeps, CreateOrUpdatePoolKeeps

LEMMA LendRest ==
    ASSUME LendInv, UNCHANGED lendVars
    PROVE  LendInv'
<1>1. /\ reserve' = reserve /\ reserveBase' = reserveBase /\ positions' = positions
      /\ landed' = landed /\ lendJob' = lendJob
      /\ lendFaults' = lendFaults /\ lendOverlaps' = lendOverlaps
  BY DEF lendVars
<1> QED
  BY <1>1 DEF LendInv, LendTypes, LendAlone

LEMMA LendInvMeans == LendInv => LendingBooks
<1> SUFFICES ASSUME LendInv
             PROVE  LendingBooks
  OBVIOUS
<1>1. \A p \in Positions : positions[p].owned => positions[p].status = "closed" /\ p \in landed
  BY DEF LendInv, OwnedClosed
<1>2. lendFaults = 0 => \A p \in Positions : positions[p].status = "active" =>
        \E c \in Lenders : lendJob[c].position = p /\ lendJob[c].next # "idle"
  BY DEF LendInv, Opens
<1>3. ASSUME ~lendOverlaps, lendFaults = 0, \A c \in Lenders : lendJob[c].next = "idle"
      PROVE  reserve = reserveBase
  <2>1. BooksAt(LendIdle, reserve, reserveBase)
    BY <1>3 DEF LendInv, LendAlone
  <2>2. reserve \in LendingPool /\ reserveBase \in LendingPool
    BY DEF LendInv, LendTypes
  <2>3. \A t \in PositionType : reserve[t] = reserveBase[t]
    BY <2>1, <2>2, LendIdleType DEF BooksAt, ToBook, LendingPool
  <2> QED
    BY <2>2, <2>3 DEF LendingPool
<1> QED
  BY <1>1, <1>2, <1>3 DEF LendingBooks

-----------------------------------------------------------------------------
(* DEX pools                                                                *)

\* The fields a copy is read at; what they hold is not asked.
RowShape(row) ==
    /\ row = [f \in {"direction", "amountIn", "amountOut", "status"} |-> row[f]]
    /\ row.direction \in SwapDirection

ShareShape(row) ==
    row = [f \in {"a", "b", "liquidityShares", "isActive"} |-> row[f]]

DexJobShape(j) ==
    /\ j = [f \in {"next", "pool", "swap", "row", "share", "position"} |-> j[f]]
    /\ j.pool = [t \in Tokens_ |-> j.pool[t]]
    /\ RowShape(j.row) /\ ShareShape(j.position)

DexShapes ==
    /\ dexPool = [t \in Tokens_ |-> dexPool[t]] /\ dexBase = [t \in Tokens_ |-> dexBase[t]]
    /\ swaps = [s \in Swaps |-> swaps[s]]
    /\ liquidity = [s \in Shares |-> liquidity[s]]
    /\ \A s \in Shares : ShareShape(liquidity[s])
    /\ dexJob = [c \in Traders |-> dexJob[c]]
    /\ \A c \in Traders : DexJobShape(dexJob[c])
    /\ dexFaults \in Nat /\ dexOverlaps \in BOOLEAN

\* What a status says of the cluster, while no call was rejected.
Told(row, s, sent, faults) == row.status = "failed" /\ faults = 0 => s \in sent

\* What a request knows of the cluster by the call it awaits.
Heard(j, sent, faults) ==
    j.next \in {"swapPool", "failSwap"} /\ faults = 0 => j.swap \in sent

\* The request that carries a swap out, from the insertion of its row on.
Carries(j, s) == j.swap = s /\ j.next \in {"sendSwap", "swapPool", "failSwap"}

\* The balances as a request that is alone leaves them before the call it awaits.
BalancesAt(j, pool, base, shares) ==
    /\ pool = base
    /\ j.next = "removePool" =>
         j.pool = [t \in Tokens_ |-> Minus(base[t], Minus(shares[j.share][t], j.position[t]))]

DexAlone ==
    /\ \A c, d \in Traders : dexJob[c].next # "idle" /\ dexJob[d].next # "idle" => c = d
    /\ \A c \in Traders : dexJob[c].next # "idle" =>
         BalancesAt(dexJob[c], dexPool, dexBase, liquidity)
    /\ (\A c \in Traders : dexJob[c].next = "idle") => dexPool = dexBase

DexInv ==
    /\ DexShapes
    /\ \A s \in Swaps : Told(swaps[s], s, swapped, dexFaults)
    /\ \A c \in Traders : Heard(dexJob[c], swapped, dexFaults)
    /\ dexFaults = 0 => \A s \in Swaps : swaps[s].status = "pending" =>
         \E c \in Traders : Carries(dexJob[c], s)
    /\ ~dexOverlaps /\ dexFaults = 0 => DexAlone

LEMMA DexIdleShape ==
    /\ DexJobShape(DexIdle) /\ DexIdle.next = "idle"
    /\ RowShape(NoSwap) /\ NoSwap.status = "none" /\ ShareShape(NoShare)
<1>1. RowShape(NoSwap) /\ NoSwap.status = "none" /\ ShareShape(NoShare)
  BY DEF RowShape, ShareShape, NoSwap, NoShare, SwapDirection
<1>2. DexIdle.row = NoSwap /\ DexIdle.position = NoShare /\ DexIdle.next = "idle"
  BY DEF DexIdle
<1>3. DexIdle.pool = [t \in Tokens_ |-> NaN]
  BY DEF DexIdle
<1>4. DexIdle.pool = [t \in Tokens_ |-> DexIdle.pool[t]]
  BY <1>3
<1>5. DexIdle = [f \in {"next", "pool", "swap", "row", "share", "position"} |-> DexIdle[f]]
  <2> DEFINE pool == [t \in Tokens_ |-> NaN]
             s == CHOOSE s \in Swaps : TRUE
             h == CHOOSE h \in Shares : TRUE
  <2>1. DexIdle = [next |-> "idle", pool |-> pool, swap |-> s, row |-> NoSwap,
                   share |-> h, position |-> NoShare]
    BY DEF DexIdle
  <2> HIDE DEF pool, s, h
  <2> QED
    BY <2>1
<1> QED
  BY <1>1, <1>2, <1>4, <1>5 DEF DexJobShape

LEMMA DexStart == DexInit => DexInv
<1> SUFFICES ASSUME DexInit
             PROVE  DexInv
  OBVIOUS
<1>1. /\ \A s \in Swaps : swaps[s] = NoSwap
      /\ \A s \in Shares : liquidity[s] = NoShare
      /\ \A c \in Traders : dexJob[c] = DexIdle
      /\ dexPool = dexBase /\ dexFaults = 0 /\ dexOverlaps = FALSE
  BY DEF DexInit
<1>2. dexPool = [t \in Tokens_ |-> dexPool[t]]
  <2>1. PICK x, y \in DexAmounts : dexPool = [t \in Tokens_ |-> IF t = "a" THEN {x} ELSE {y}]
    BY DEF DexInit
  <2> QED
    BY <2>1
<1>3. /\ swaps = [s \in Swaps |-> swaps[s]] /\ liquidity = [s \in Shares |-> liquidity[s]]
      /\ dexJob = [c \in Traders |-> dexJob[c]]
  BY DEF DexInit
<1>4. DexShapes
  BY <1>1, <1>2, <1>3, DexIdleShape DEF DexShapes
<1> QED
  BY <1>1, <1>4, DexIdleShape DEF DexInv, DexAlone, Told, Heard

\* A step of c to the job k, and what it leaves of the others.
DexMoves(c, k) ==
    /\ dexJob' = [d \in Traders |-> dexJob'[d]] /\ dexJob'[c] = k
    /\ \A d \in Traders : d # c => dexJob'[d] = dexJob[d]

DexOthersIdle(c) == \A d \in Traders : d # c => dexJob[d].next = "idle"

LEMMA DexMoved ==
    ASSUME DexShapes, NEW c \in Traders, NEW k,
           dexJob' = [dexJob EXCEPT ![c] = k]
    PROVE  DexMoves(c, k)
BY DEF DexShapes, DexMoves

LEMMA DexBefore ==
    ASSUME DexInv, NEW c \in Traders, ~dexOverlaps, dexFaults = 0,
           dexJob[c].next # "idle" \/ \A d \in Traders : dexJob[d].next = "idle"
    PROVE  /\ DexOthersIdle(c)
           /\ BalancesAt(dexJob[c], dexPool, dexBase, liquidity)
<1>1. DexAlone
  BY DEF DexInv
<1>2. CASE dexJob[c].next # "idle"
  BY <1>1, <1>2 DEF DexAlone, DexOthersIdle
<1>3. CASE \A d \in Traders : dexJob[d].next = "idle"
  BY <1>1, <1>3 DEF DexAlone, DexOthersIdle, BalancesAt
<1> QED
  BY <1>2, <1>3

\* What has to be shown of a step of c.
LEMMA DexAfter ==
    ASSUME DexInv, NEW c \in Traders, NEW k, DexJobShape(k), DexMoves(c, k),
           dexPool' = [t \in Tokens_ |-> dexPool'[t]],
           dexBase' = [t \in Tokens_ |-> dexBase'[t]],
           swaps' = [s \in Swaps |-> swaps'[s]],
           liquidity' = [s \in Shares |-> liquidity'[s]],
           \A s \in Shares : ShareShape(liquidity'[s]),
           swapped \subseteq swapped', dexFaults' \in {dexFaults, dexFaults + 1},
           dexOverlaps' \in BOOLEAN,
           \A s \in Swaps : Told(swaps'[s], s, swapped', dexFaults'),
           Heard(k, swapped', dexFaults'),
           dexFaults' = 0 => \A s \in Swaps : swaps'[s].status = "pending" =>
             Carries(k, s) \/ (swaps[s].status = "pending" /\ ~Carries(dexJob[c], s)),
           ~dexOverlaps' /\ dexFaults' = 0 =>
             DexOthersIdle(c) /\ BalancesAt(k, dexPool', dexBase', liquidity')
    PROVE  DexInv'
<1>1. dexFaults \in Nat /\ dexFaults' \in Nat /\ (dexFaults # 0 => dexFaults' # 0)
  BY DEF DexInv, DexShapes
<1>2. \A d \in Traders : DexJobShape(dexJob'[d])
  BY DEF DexMoves, DexInv, DexShapes
<1>3. DexShapes'
  BY <1>1, <1>2 DEF DexShapes, DexMoves
<1>4. \A d \in Traders : Heard(dexJob'[d], swapped', dexFaults')
  <2> TAKE d \in Traders
  <2>1. CASE d = c
    BY <2>1 DEF DexMoves
  <2>2. CASE d # c
    <3>1. dexJob'[d] = dexJob[d] /\ Heard(dexJob[d], swapped, dexFaults)
      BY <2>2 DEF DexMoves, DexInv
    <3> QED
      BY <1>1, <3>1 DEF Heard
  <2> QED
    BY <2>1, <2>2
<1>5. ASSUME DexOthersIdle(c), BalancesAt(k, dexPool', dexBase', liquidity')
      PROVE  DexAlone'
  <2>1. dexJob'[c] = k /\ \A d \in Traders : d # c => dexJob'[d].next = "idle"
    BY <1>5 DEF DexMoves, DexOthersIdle
  <2>2. (\A d \in Traders : dexJob'[d].next = "idle") => dexPool' = dexBase'
    BY <1>5, <2>1 DEF BalancesAt
  <2>3. \A d \in Traders : dexJob'[d].next # "idle" =>
          BalancesAt(dexJob'[d], dexPool', dexBase', liquidity')
    BY <1>5, <2>1
  <2> QED
    BY <2>1, <2>2, <2>3 DEF DexAlone
<1>6. ASSUME dexFaults' = 0, NEW s \in Swaps, swaps'[s].status = "pending"
      PROVE  \E d \in Traders : Carries(dexJob'[d], s)
  <2>1. CASE Carries(k, s)
    BY <2>1 DEF DexMoves
  <2>2. CASE swaps[s].status = "pending" /\ ~Carries(dexJob[c], s)
    <3>1. PICK d \in Traders : Carries(dexJob[d], s)
      BY <1>1, <1>6, <2>2 DEF DexInv
    <3>2. d # c
      BY <2>2, <3>1
    <3> QED
      BY <3>1, <3>2 DEF DexMoves
  <2> QED
    BY <1>6, <2>1, <2>2
<1> QED
  BY <1>3, <1>4, <1>5, <1>6 DEF DexInv

DexNextJob(j, next) == IF next = "idle" THEN DexIdle ELSE [j EXCEPT !.next = next]

LEMMA DexNextShape ==
    ASSUME NEW j, NEW next, DexJobShape(j)
    PROVE  /\ DexJobShape(DexNextJob(j, next)) /\ DexNextJob(j, next).next = next
           /\ next # "idle" => /\ DexNextJob(j, next).pool = j.pool
                               /\ DexNextJob(j, next).swap = j.swap
                               /\ DexNextJob(j, next).row = j.row
                               /\ DexNextJob(j, next).share = j.share
                               /\ DexNextJob(j, next).position = j.position
<1>1. CASE next = "idle"
  BY <1>1, DexIdleShape DEF DexNextJob
<1>2. CASE next # "idle"
  <2> DEFINE k == [j EXCEPT !.next = next]
  <2>1. DexNextJob(j, next) = k
    BY <1>2 DEF DexNextJob
  <2>2. /\ k.next = next /\ k.pool = j.pool /\ k.swap = j.swap /\ k.row = j.row
        /\ k.share = j.share /\ k.position = j.position
        /\ k = [f \in {"next", "pool", "swap", "row", "share", "position"} |-> k[f]]
    BY DEF DexJobShape
  <2> HIDE DEF k
  <2>3. DexJobShape(k)
    BY <2>2 DEF DexJobShape
  <2> QED
    BY <2>1, <2>2, <2>3
<1> QED
  BY <1>1, <1>2

LEMMA DexNow ==
    ASSUME DexInv, NEW c \in Traders
    PROVE  /\ DexShapes /\ DexJobShape(dexJob[c])
           /\ dexFaults \in Nat /\ dexOverlaps \in BOOLEAN
           /\ \A s \in Swaps : Told(swaps[s], s, swapped, dexFaults)
           /\ Heard(dexJob[c], swapped, dexFaults)
BY DEF DexInv, DexShapes

\* A call of c that is rejected.
LEMMA DexFailed ==
    ASSUME DexInv, NEW c \in Traders, NEW next \in {"idle", "failSwap"},
           dexJob' = [dexJob EXCEPT ![c] = DexNextJob(dexJob[c], next)],
           dexFaults' = dexFaults + 1, dexOverlaps' = dexOverlaps,
           dexPool' = dexPool, swaps' = swaps, liquidity' = liquidity,
           swapped \subseteq swapped', dexBase' = [t \in Tokens_ |-> dexBase'[t]]
    PROVE  DexInv'
<1> DEFINE k == DexNextJob(dexJob[c], next)
<1>1. DexJobShape(k) /\ k.next = next
  BY DexNow, DexNextShape
<1>2. dexJob' = [dexJob EXCEPT ![c] = k]
  OBVIOUS
<1> HIDE DEF k
<1>3. DexMoves(c, k)
  BY <1>2, DexMoved, DexNow
<1>4. dexFaults' # 0 /\ dexFaults' \in {dexFaults, dexFaults + 1} /\ dexOverlaps' \in BOOLEAN
  BY DexNow
<1>5. Heard(k, swapped', dexFaults')
  BY <1>1, <1>4 DEF Heard
<1>6. \A s \in Swaps : Told(swaps'[s], s, swapped', dexFaults')
  BY <1>4, DexNow DEF Told
<1>7. /\ dexPool' = [t \in Tokens_ |-> dexPool'[t]]
      /\ swaps' = [s \in Swaps |-> swaps'[s]]
      /\ liquidity' = [s \in Shares |-> liquidity'[s]]
      /\ \A s \in Shares : ShareShape(liquidity'[s])
  BY DexNow DEF DexShapes
<1> QED
  BY <1>1, <1>3, <1>4, <1>5, <1>6, <1>7, DexAfter

\* A call of c that is done.
LEMMA DexWent ==
    ASSUME DexInv, NEW c \in Traders, NEW k, DexJobShape(k), dexJob[c].next # "idle",
           dexJob' = [dexJob EXCEPT ![c] = k],
           dexFaults' = dexFaults, dexOverlaps' = dexOverlaps,
           dexPool' = [t \in Tokens_ |-> dexPool'[t]],
           dexBase' = [t \in Tokens_ |-> dexBase'[t]],
           swaps' = [s \in Swaps |-> swaps'[s]],
           liquidity' = [s \in Shares |-> liquidity'[s]],
           \A s \in Shares : ShareShape(liquidity'[s]),
           swapped \subseteq swapped',
           \A s \in Swaps : Told(swaps'[s], s, swapped', dexFaults'),
           Heard(k, swapped', dexFaults'),
           \A s \in Swaps : swaps'[s].status = "pending" =>
             Carries(k, s) \/ (swaps[s].status = "pending" /\ ~Carries(dexJob[c], s)),
           dexFaults = 0 /\ BalancesAt(dexJob[c], dexPool, dexBase, liquidity) =>
             BalancesAt(k, dexPool', dexBase', liquidity')
    PROVE  DexInv'
<1>1. DexMoves(c, k)
  BY DexMoved, DexNow
<1>2. dexFaults' \in {dexFaults, dexFaults + 1} /\ dexOverlaps' \in BOOLEAN
  BY DexNow
<1>3. ~dexOverlaps' /\ dexFaults' = 0 =>
        DexOthersIdle(c) /\ BalancesAt(k, dexPool', dexBase', liquidity')
  BY DexBefore
<1> QED
  BY <1>1, <1>2, <1>3, DexAfter

\* A request of c that begins.
LEMMA DexBegun ==
    ASSUME DexInv, NEW c \in Traders, NEW k, DexJobShape(k), DexBegin(c, k),
           k.next \in {"upsert", "createSwap", "createShare", "removePool"},
           dexPool = dexBase => BalancesAt(k, dexPool, dexBase, liquidity)
    PROVE  DexInv'
<1>1. /\ dexJob[c].next = "idle" /\ dexJob' = [dexJob EXCEPT ![c] = k]
      /\ dexFaults' = dexFaults
      /\ dexOverlaps' = (dexOverlaps \/ \E d \in Traders : dexJob[d].next # "idle")
      /\ dexPool' = dexPool /\ dexBase' = dexBase /\ swaps' = swaps
      /\ liquidity' = liquidity /\ swapped' = swapped
  BY DEF DexBegin
<1>2. DexMoves(c, k)
  BY <1>1, DexMoved, DexNow
<1>3. ASSUME ~dexOverlaps', dexFaults' = 0
      PROVE  DexOthersIdle(c) /\ BalancesAt(k, dexPool, dexBase, liquidity)
  <2>1. ~dexOverlaps /\ dexFaults = 0 /\ \A d \in Traders : dexJob[d].next = "idle"
    BY <1>1, <1>3
  <2>2. DexOthersIdle(c) /\ BalancesAt(dexJob[c], dexPool, dexBase, liquidity)
    BY <2>1, DexBefore
  <2>3. dexPool = dexBase
    BY <1>1, <2>2 DEF BalancesAt
  <2> QED
    BY <2>2, <2>3
<1>4. dexFaults' \in {dexFaults, dexFaults + 1} /\ dexOverlaps' \in BOOLEAN
  BY <1>1, DexNow
<1>5. /\ dexPool' = [t \in Tokens_ |-> dexPool'[t]] /\ dexBase' = [t \in Tokens_ |-> dexBase'[t]]
      /\ swaps' = [s \in Swaps |-> swaps'[s]] /\ liquidity' = [s \in Shares |-> liquidity'[s]]
      /\ \A s \in Shares : ShareShape(liquidity'[s])
      /\ swapped \subseteq swapped'
      /\ \A s \in Swaps : Told(swaps'[s], s, swapped', dexFaults')
  BY <1>1, DexNow DEF DexShapes
<1>6. Heard(k, swapped', dexFaults')
  BY DEF Heard
<1>7. ~dexOverlaps' /\ dexFaults' = 0 =>
        DexOthersIdle(c) /\ BalancesAt(k, dexPool', dexBase', liquidity')
  BY <1>1, <1>3
<1>8. swaps' = swaps /\ \A s : ~Carries(dexJob[c], s)
  BY <1>1 DEF Carries
<1> QED
  BY <1>2, <1>4, <1>5, <1>6, <1>7, <1>8, DexAfter

\* An awaited save is refused.
LEMMA SaveRefused ==
    ASSUME DexInv, NEW c \in Traders, NEW next \in {"idle", "failSwap"},
           DexRejected(c, next), UNCHANGED <<dexPool, swaps, liquidity>>,
           UNCHANGED <<swapped, dexOverlaps, dexOps>>,
           dexBase' = [t \in Tokens_ |-> dexBase'[t]]
    PROVE  DexInv'
<1>1. /\ dexJob' = [dexJob EXCEPT ![c] = DexNextJob(dexJob[c], next)]
      /\ dexFaults' = dexFaults + 1 /\ dexOverlaps' = dexOverlaps
      /\ dexPool' = dexPool /\ swaps' = swaps /\ liquidity' = liquidity
      /\ swapped \subseteq swapped'
  BY DEF DexRejected, DexGoto, DexNextJob
<1> QED
  BY <1>1, DexFailed

\* A swap is saved with a status the cluster does not contradict.
LEMMA SwapSaved ==
    ASSUME DexInv, NEW c \in Traders, NEW status, NEW next,
           dexJob[c].next # "idle", WriteSwap(c, status), DexGoto(c, next),
           dexFaults' = dexFaults, swapped' = swapped, dexOverlaps' = dexOverlaps,
           dexBase' = dexBase, next \in {"idle", "sendSwap"},
           status = "pending" => next = "sendSwap",
           status = "failed" /\ dexFaults = 0 => dexJob[c].swap \in swapped
    PROVE  DexInv'
<1> DEFINE j == dexJob[c]
           k == DexNextJob(j, next)
           row == [j.row EXCEPT !.status = status]
<1>1. /\ dexJob' = [dexJob EXCEPT ![c] = k] /\ swaps' = [swaps EXCEPT ![j.swap] = row]
      /\ dexPool' = dexPool /\ liquidity' = liquidity
  BY DEF WriteSwap, DexGoto, DexNextJob
<1>2. row.status = status
  BY DexNow DEF DexJobShape, RowShape
<1>3. /\ DexJobShape(k) /\ k.next = next /\ (next # "idle" => k.swap = j.swap)
  BY DexNow, DexNextShape
<1> HIDE DEF row, k
<1>4. /\ dexPool' = [t \in Tokens_ |-> dexPool'[t]] /\ dexBase' = [t \in Tokens_ |-> dexBase'[t]]
      /\ liquidity' = [s \in Shares |-> liquidity'[s]]
      /\ \A s \in Shares : ShareShape(liquidity'[s])
  BY <1>1, DexNow DEF DexShapes
<1>5. swaps = [s \in Swaps |-> swaps[s]]
  BY DexNow DEF DexShapes
<1>6. /\ swaps' = [s \in Swaps |-> swaps'[s]]
      /\ \A s \in Swaps : swaps'[s] = IF s = j.swap THEN row ELSE swaps[s]
  BY <1>1, <1>5
<1>7. \A s \in Swaps : Told(swaps'[s], s, swapped', dexFaults')
  BY <1>2, <1>6, DexNow DEF Told
<1>8. Heard(k, swapped', dexFaults')
  BY <1>3 DEF Heard
<1>9. dexFaults = 0 /\ BalancesAt(j, dexPool, dexBase, liquidity) =>
        BalancesAt(k, dexPool', dexBase', liquidity')
  BY <1>1, <1>3 DEF BalancesAt
<1>10. \A s \in Swaps : swaps'[s].status = "pending" =>
         Carries(k, s) \/ (swaps[s].status = "pending" /\ ~Carries(j, s))
  BY <1>2, <1>3, <1>6 DEF Carries
<1> QED
  BY <1>1, <1>3, <1>4, <1>6, <1>7, <1>8, <1>9, <1>10, DexWent DEF j

LEMMA CreateSwapKeeps ==
    ASSUME DexInv, NEW c \in Traders, CreateSwap(c)
    PROVE  DexInv'
<1>1. dexJob[c].next = "createSwap" /\ dexBase' = dexBase
  BY DEF CreateSwap, DexSave
<1>2. CASE WriteSwap(c, "pending") /\ DexGoto(c, "sendSwap") /\ dexFaults' = dexFaults
  <2>1. swapped' = swapped /\ dexOverlaps' = dexOverlaps
    BY DEF CreateSwap, DexSave
  <2> QED
    BY <1>1, <1>2, <2>1, SwapSaved
<1>3. CASE DexRejected(c, "idle") /\ UNCHANGED <<dexPool, swaps, liquidity>>
  <2>1. /\ UNCHANGED <<swapped, dexOverlaps, dexOps>>
        /\ dexBase' = [t \in Tokens_ |-> dexBase'[t]]
    BY <1>1, DexNow DEF CreateSwap, DexSave, DexShapes
  <2> QED
    BY <1>3, <2>1, SaveRefused
<1> QED
  BY <1>2, <1>3 DEF CreateSwap, DexSave

LEMMA FailSwapKeeps ==
    ASSUME DexInv, NEW c \in Traders, FailSwap(c)
    PROVE  DexInv'
<1>1. dexJob[c].next = "failSwap" /\ dexBase' = dexBase
  BY DEF FailSwap, DexSave
<1>2. CASE WriteSwap(c, "failed") /\ DexGoto(c, "idle") /\ dexFaults' = dexFaults
  <2>1. swapped' = swapped /\ dexOverlaps' = dexOverlaps
    BY DEF FailSwap, DexSave
  <2>2. dexFaults = 0 => dexJob[c].swap \in swapped
    BY <1>1, DexNow DEF Heard
  <2> QED
    BY <1>1, <1>2, <2>1, <2>2, SwapSaved
<1>3. CASE DexRejected(c, "idle") /\ UNCHANGED <<dexPool, swaps, liquidity>>
  <2>1. /\ UNCHANGED <<swapped, dexOverlaps, dexOps>>
        /\ dexBase' = [t \in Tokens_ |-> dexBase'[t]]
    BY <1>1, DexNow DEF FailSwap, DexSave, DexShapes
  <2> QED
    BY <1>3, <2>1, SaveRefused
<1> QED
  BY <1>2, <1>3 DEF FailSwap, DexSave

LEMMA SendSwapKeeps ==
    ASSUME DexInv, NEW c \in Traders, SendSwap(c)
    PROVE  DexInv'
<1> DEFINE j == dexJob[c]
           s == j.swap
           k == DexNextJob(j, "swapPool")
<1>1. /\ j.next = "sendSwap" /\ dexPool' = dexPool /\ swaps' = swaps
      /\ liquidity' = liquidity /\ dexOverlaps' = dexOverlaps /\ dexBase' = dexBase
  BY DEF SendSwap
<1>2. CASE /\ swapped' \in {swapped, swapped \cup {s}}
           /\ DexRejected(c, "failSwap")
  <2>1. swapped \subseteq swapped' /\ dexBase' = [t \in Tokens_ |-> dexBase'[t]]
    BY <1>1, <1>2, DexNow DEF DexShapes
  <2>2. /\ dexJob' = [dexJob EXCEPT ![c] = DexNextJob(dexJob[c], "failSwap")]
        /\ dexFaults' = dexFaults + 1
    BY <1>2 DEF DexRejected, DexGoto, DexNextJob
  <2> QED
    BY <1>1, <2>1, <2>2, DexFailed
<1>3. CASE /\ swapped' = swapped \cup {s} /\ DexGoto(c, "swapPool")
           /\ dexFaults' = dexFaults
  <2>1. dexJob' = [dexJob EXCEPT ![c] = k]
    BY <1>3 DEF DexGoto, DexNextJob
  <2>2. DexJobShape(k) /\ k.next = "swapPool" /\ k.swap = j.swap
    BY DexNow, DexNextShape
  <2> HIDE DEF k
  <2>3. dexBase' = [t \in Tokens_ |-> dexBase'[t]]
    BY <1>1, DexNow DEF DexShapes
  <2>4. /\ dexPool' = [t \in Tokens_ |-> dexPool'[t]]
        /\ swaps' = [q \in Swaps |-> swaps'[q]]
        /\ liquidity' = [q \in Shares |-> liquidity'[q]]
        /\ \A q \in Shares : ShareShape(liquidity'[q])
        /\ swapped \subseteq swapped'
    BY <1>1, <1>3, DexNow DEF DexShapes
  <2>5. \A q \in Swaps : Told(swaps'[q], q, swapped', dexFaults')
    BY <1>1, <1>3, DexNow DEF Told
  <2>6. Heard(k, swapped', dexFaults')
    BY <1>3, <2>2 DEF Heard
  <2>7. BalancesAt(j, dexPool, dexBase, liquidity) =>
          BalancesAt(k, dexPool', dexBase', liquidity')
    BY <1>1, <2>2 DEF BalancesAt
  <2>8. \A q \in Swaps : swaps'[q].status = "pending" =>
          Carries(k, q) \/ (swaps[q].status = "pending" /\ ~Carries(j, q))
    BY <1>1, <2>2 DEF Carries
  <2> QED
    BY <1>1, <1>3, <2>1, <2>2, <2>3, <2>4, <2>5, <2>6, <2>7, <2>8, DexWent DEF j
<1> QED
  BY <1>2, <1>3 DEF SendSwap

\* A call of c that writes the balances, or the share, of its copy.
LEMMA DexSaved ==
    ASSUME DexInv, NEW c \in Traders, NEW next \in {"sharePool", "removeShare", "idle"},
           dexJob[c].next \in {"createShare", "sharePool", "removePool", "removeShare", "upsert"},
           DexGoto(c, next), dexFaults' = dexFaults,
           swapped' = swapped, dexOverlaps' = dexOverlaps, swaps' = swaps,
           dexPool' = [t \in Tokens_ |-> dexPool'[t]],
           dexBase' = [t \in Tokens_ |-> dexBase'[t]],
           liquidity' = [s \in Shares |-> liquidity'[s]],
           \A s \in Shares : ShareShape(liquidity'[s]),
           dexFaults = 0 /\ BalancesAt(dexJob[c], dexPool, dexBase, liquidity) =>
             dexPool' = dexBase'
    PROVE  DexInv'
<1> DEFINE k == DexNextJob(dexJob[c], next)
<1>1. dexJob' = [dexJob EXCEPT ![c] = k]
  BY DEF DexGoto, DexNextJob
<1>2. DexJobShape(k) /\ k.next = next
  BY DexNow, DexNextShape
<1> HIDE DEF k
<1>3. swaps' = [s \in Swaps |-> swaps'[s]] /\ swapped \subseteq swapped'
  BY DexNow DEF DexShapes
<1>4. \A s \in Swaps : Told(swaps'[s], s, swapped', dexFaults')
  BY DexNow DEF Told
<1>5. Heard(k, swapped', dexFaults')
  BY <1>2 DEF Heard
<1>6. dexFaults = 0 /\ BalancesAt(dexJob[c], dexPool, dexBase, liquidity) =>
        BalancesAt(k, dexPool', dexBase', liquidity')
  BY <1>2 DEF BalancesAt
<1>7. dexJob[c].next # "idle" /\ \A s : ~Carries(dexJob[c], s)
  BY DEF Carries
<1> QED
  BY <1>1, <1>2, <1>3, <1>4, <1>5, <1>6, <1>7, DexWent

LEMMA SwapPoolKeeps ==
    ASSUME DexInv, NEW c \in Traders, SwapPool(c)
    PROVE  DexInv'
<1> DEFINE j == dexJob[c]
           k == DexNextJob(j, "failSwap")
<1>1. /\ j.next = "swapPool" /\ dexPool' = dexPool /\ swaps' = swaps
      /\ liquidity' = liquidity /\ dexBase' = dexBase /\ swapped' = swapped
      /\ dexFaults' = dexFaults /\ dexOverlaps' = dexOverlaps
      /\ dexJob' = [dexJob EXCEPT ![c] = k]
  BY DEF SwapPool, DexGoto, DexNextJob
<1>2. DexJobShape(k) /\ k.next = "failSwap" /\ k.swap = j.swap
  BY DexNow, DexNextShape
<1> HIDE DEF k
<1>3. /\ dexPool' = [t \in Tokens_ |-> dexPool'[t]] /\ dexBase' = [t \in Tokens_ |-> dexBase'[t]]
      /\ swaps' = [s \in Swaps |-> swaps'[s]] /\ liquidity' = [s \in Shares |-> liquidity'[s]]
      /\ \A s \in Shares : ShareShape(liquidity'[s])
      /\ swapped \subseteq swapped'
      /\ \A s \in Swaps : Told(swaps'[s], s, swapped', dexFaults')
  BY <1>1, DexNow DEF DexShapes
<1>4. Heard(k, swapped', dexFaults')
  BY <1>1, <1>2, DexNow DEF Heard
<1>5. \A s \in Swaps : swaps'[s].status = "pending" =>
        Carries(k, s) \/ (swaps[s].status = "pending" /\ ~Carries(j, s))
  BY <1>1, <1>2 DEF Carries
<1>6. BalancesAt(j, dexPool, dexBase, liquidity) => BalancesAt(k, dexPool', dexBase', liquidity')
  BY <1>1, <1>2 DEF BalancesAt
<1> QED
  BY <1>1, <1>2, <1>3, <1>4, <1>5, <1>6, DexWent DEF j

\* The share of c is written as its copy.
LEMMA ShareSaved ==
    ASSUME DexInv, NEW c \in Traders, NEW next \in {"sharePool", "idle"},
           dexJob[c].next \in {"createShare", "removeShare"},
           WriteShare(c), DexGoto(c, next), dexFaults' = dexFaults,
           swapped' = swapped, dexOverlaps' = dexOverlaps, dexBase' = dexBase
    PROVE  DexInv'
<1> DEFINE j == dexJob[c]
<1>1. /\ liquidity' = [liquidity EXCEPT ![j.share] = j.position]
      /\ dexPool' = dexPool /\ swaps' = swaps
  BY DEF WriteShare
<1>2. /\ liquidity = [s \in Shares |-> liquidity[s]]
      /\ \A s \in Shares : ShareShape(liquidity[s])
      /\ ShareShape(j.position)
  BY DexNow DEF DexShapes, DexJobShape
<1>3. /\ liquidity' = [s \in Shares |-> liquidity'[s]]
      /\ \A s \in Shares : ShareShape(liquidity'[s])
  BY <1>1, <1>2
<1>4. dexPool' = [t \in Tokens_ |-> dexPool'[t]] /\ dexBase' = [t \in Tokens_ |-> dexBase'[t]]
  BY <1>1, DexNow DEF DexShapes
<1>5. BalancesAt(j, dexPool, dexBase, liquidity) => dexPool' = dexBase'
  BY <1>1 DEF BalancesAt
<1> QED
  BY <1>1, <1>3, <1>4, <1>5, DexSaved DEF j

LEMMA CreateShareKeeps ==
    ASSUME DexInv, NEW c \in Traders, CreateShare(c)
    PROVE  DexInv'
<1>1. dexJob[c].next = "createShare" /\ dexBase' = dexBase
  BY DEF CreateShare, DexSave
<1>2. CASE WriteShare(c) /\ DexGoto(c, "sharePool") /\ dexFaults' = dexFaults
  <2>1. swapped' = swapped /\ dexOverlaps' = dexOverlaps
    BY DEF CreateShare, DexSave
  <2> QED
    BY <1>1, <1>2, <2>1, ShareSaved
<1>3. CASE DexRejected(c, "idle") /\ UNCHANGED <<dexPool, swaps, liquidity>>
  <2>1. /\ UNCHANGED <<swapped, dexOverlaps, dexOps>>
        /\ dexBase' = [t \in Tokens_ |-> dexBase'[t]]
    BY <1>1, DexNow DEF CreateShare, DexSave, DexShapes
  <2> QED
    BY <1>3, <2>1, SaveRefused
<1> QED
  BY <1>2, <1>3 DEF CreateShare, DexSave

LEMMA RemoveShareKeeps ==
    ASSUME DexInv, NEW c \in Traders, RemoveShare(c)
    PROVE  DexInv'
<1>1. dexJob[c].next = "removeShare" /\ dexBase' = dexBase
  BY DEF RemoveShare, DexSave
<1>2. CASE WriteShare(c) /\ DexGoto(c, "idle") /\ dexFaults' = dexFaults
  <2>1. swapped' = swapped /\ dexOverlaps' = dexOverlaps
    BY DEF RemoveShare, DexSave
  <2> QED
    BY <1>1, <1>2, <2>1, ShareSaved
<1>3. CASE DexRejected(c, "idle") /\ UNCHANGED <<dexPool, swaps, liquidity>>
  <2>1. /\ UNCHANGED <<swapped, dexOverlaps, dexOps>>
        /\ dexBase' = [t \in Tokens_ |-> dexBase'[t]]
    BY <1>1, DexNow DEF RemoveShare, DexSave, DexShapes
  <2> QED
    BY <1>3, <2>1, SaveRefused
<1> QED
  BY <1>2, <1>3 DEF RemoveShare, DexSave

LEMMA SharePoolKeeps ==
    ASSUME DexInv, NEW c \in Traders, SharePool(c)
    PROVE  DexInv'
<1>1. /\ dexJob[c].next = "sharePool" /\ dexPool' = dexPool /\ swaps' = swaps
      /\ liquidity' = liquidity /\ dexBase' = dexBase /\ swapped' = swapped
      /\ dexFaults' = dexFaults /\ dexOverlaps' = dexOverlaps /\ DexGoto(c, "idle")
  BY DEF SharePool
<1>2. /\ dexPool' = [t \in Tokens_ |-> dexPool'[t]] /\ dexBase' = [t \in Tokens_ |-> dexBase'[t]]
      /\ liquidity' = [s \in Shares |-> liquidity'[s]]
      /\ \A s \in Shares : ShareShape(liquidity'[s])
  BY <1>1, DexNow DEF DexShapes
<1>3. BalancesAt(dexJob[c], dexPool, dexBase, liquidity) => dexPool' = dexBase'
  BY <1>1 DEF BalancesAt
<1> QED
  BY <1>1, <1>2, <1>3, DexSaved

LEMMA RemovePoolKeeps ==
    ASSUME DexInv, NEW c \in Traders, RemovePool(c)
    PROVE  DexInv'
<1> DEFINE j == dexJob[c]
           taken == [t \in Tokens_ |-> Minus(liquidity[j.share][t], j.position[t])]
<1>1. /\ j.next = "removePool" /\ swapped' = swapped /\ dexOverlaps' = dexOverlaps
      /\ dexBase' = [t \in Tokens_ |-> Minus(dexBase[t], taken[t])]
  BY DEF RemovePool, DexSave
<1>2. dexBase' = [t \in Tokens_ |-> dexBase'[t]]
  BY <1>1
<1>3. CASE DexRejected(c, "idle") /\ UNCHANGED <<dexPool, swaps, liquidity>>
  <2>1. UNCHANGED <<swapped, dexOverlaps, dexOps>>
    BY DEF RemovePool, DexSave
  <2> QED
    BY <1>2, <1>3, <2>1, SaveRefused
<1>4. CASE /\ dexPool' = j.pool /\ swaps' = swaps /\ liquidity' = liquidity
           /\ DexGoto(c, "removeShare") /\ dexFaults' = dexFaults
  <2>1. dexPool' = [t \in Tokens_ |-> dexPool'[t]]
    BY <1>4, DexNow DEF DexJobShape
  <2>2. /\ liquidity' = [s \in Shares |-> liquidity'[s]]
        /\ \A s \in Shares : ShareShape(liquidity'[s])
    BY <1>4, DexNow DEF DexShapes
  <2>3. BalancesAt(j, dexPool, dexBase, liquidity) => dexPool' = dexBase'
    BY <1>1, <1>4 DEF BalancesAt
  <2> QED
    BY <1>1, <1>2, <1>4, <2>1, <2>2, <2>3, DexSaved
<1> QED
  BY <1>3, <1>4 DEF RemovePool, DexSave

LEMMA CreateOrUpdateDexPoolKeeps ==
    ASSUME DexInv, NEW c \in Traders, CreateOrUpdateDexPool(c)
    PROVE  DexInv'
<1>1. /\ dexJob[c].next = "upsert" /\ dexBase' = dexPool' /\ DexGoto(c, "idle")
      /\ swaps' = swaps /\ liquidity' = liquidity /\ swapped' = swapped
      /\ dexFaults' = dexFaults /\ dexOverlaps' = dexOverlaps
  BY DEF CreateOrUpdateDexPool
<1>2. PICK x, y \in DexAmounts : dexPool' = [t \in Tokens_ |-> IF t = "a" THEN {x} ELSE {y}]
  BY DEF CreateOrUpdateDexPool
<1>3. dexPool' = [t \in Tokens_ |-> dexPool'[t]]
  BY <1>2
<1>4. dexBase' = [t \in Tokens_ |-> dexBase'[t]]
  BY <1>1, <1>3
<1>5. /\ liquidity' = [s \in Shares |-> liquidity'[s]]
      /\ \A s \in Shares : ShareShape(liquidity'[s])
  BY <1>1, DexNow DEF DexShapes
<1> QED
  BY <1>1, <1>3, <1>4, <1>5, DexSaved

LEMMA PerformSwapKeeps ==
    ASSUME DexInv, NEW c \in Traders, PerformSwap(c)
    PROVE  DexInv'
<1>1. PICK s \in Swaps, amountIn \in DexAmounts, direction \in SwapDirection,
           fraction \in BOOLEAN :
        DexBegin(c, [DexIdle EXCEPT !.next = "createSwap", !.pool = dexPool,
          !.swap = s, !.row = [direction |-> direction, amountIn |-> amountIn,
            amountOut |-> CalculateSwapAmount(dexPool, amountIn, direction, fraction),
            status |-> "pending"]])
  BY DEF PerformSwap
<1> DEFINE out == CalculateSwapAmount(dexPool, amountIn, direction, fraction)
<1> HIDE DEF out
<1> DEFINE row == [direction |-> direction, amountIn |-> amountIn, amountOut |-> out,
                   status |-> "pending"]
<1>2. RowShape(row)
  BY DEF RowShape
<1> HIDE DEF row
<1> DEFINE k == [DexIdle EXCEPT !.next = "createSwap", !.pool = dexPool, !.swap = s,
                                !.row = row]
<1>3. DexBegin(c, k)
  BY <1>1 DEF row, out
<1>4. /\ k.next = "createSwap" /\ k.pool = dexPool /\ k.row = row
      /\ k.position = DexIdle.position
      /\ k = [f \in {"next", "pool", "swap", "row", "share", "position"} |-> k[f]]
  BY DexIdleShape DEF DexJobShape
<1> HIDE DEF k
<1>5. DexJobShape(k)
  BY <1>2, <1>4, DexNow, DexIdleShape DEF DexJobShape, DexShapes
<1>6. dexPool = dexBase => BalancesAt(k, dexPool, dexBase, liquidity)
  BY <1>4 DEF BalancesAt
<1> QED
  BY <1>3, <1>4, <1>5, <1>6, DexBegun

LEMMA AddLiquidityKeeps ==
    ASSUME DexInv, NEW c \in Traders, AddLiquidity(c)
    PROVE  DexInv'
<1>1. PICK s \in Shares, a, b \in DexAmounts :
        DexBegin(c, [DexIdle EXCEPT !.next = "createShare", !.pool = dexPool,
          !.share = s, !.position = [a |-> {a}, b |-> {b}, liquidityShares |-> NaN,
                                     isActive |-> TRUE]])
  BY DEF AddLiquidity
<1> DEFINE position == [a |-> {a}, b |-> {b}, liquidityShares |-> NaN, isActive |-> TRUE]
<1>2. ShareShape(position)
  BY DEF ShareShape
<1> HIDE DEF position
<1> DEFINE k == [DexIdle EXCEPT !.next = "createShare", !.pool = dexPool, !.share = s,
                                !.position = position]
<1>3. DexBegin(c, k)
  BY <1>1 DEF position
<1>4. /\ k.next = "createShare" /\ k.pool = dexPool /\ k.position = position
      /\ k.row = DexIdle.row
      /\ k = [f \in {"next", "pool", "swap", "row", "share", "position"} |-> k[f]]
  BY DexIdleShape DEF DexJobShape
<1> HIDE DEF k
<1>5. DexJobShape(k)
  BY <1>2, <1>4, DexNow, DexIdleShape DEF DexJobShape, DexShapes
<1>6. dexPool = dexBase => BalancesAt(k, dexPool, dexBase, liquidity)
  BY <1>4 DEF BalancesAt
<1> QED
  BY <1>3, <1>4, <1>5, <1>6, DexBegun

LEMMA RemoveLiquidityKeeps ==
    ASSUME DexInv, NEW c \in Traders, RemoveLiquidity(c)
    PROVE  DexInv'
<1>1. PICK s \in Shares, percentage \in {50, 100} :
        LET row == liquidity[s]
        IN  /\ row # NoShare
            /\ DexBegin(c, [DexIdle EXCEPT !.next = "removePool", !.share = s,
                 !.position = [row EXCEPT !.a = Rest(@, percentage),
                                          !.b = Rest(@, percentage)],
                 !.pool = [t \in Tokens_ |->
                             Minus(dexPool[t], Minus(row[t], Rest(row[t], percentage)))]])
  BY Zenon DEF RemoveLiquidity
<1> DEFINE row == liquidity[s]
           position == [row EXCEPT !.a = Rest(@, percentage), !.b = Rest(@, percentage)]
           pool == [t \in Tokens_ |-> Minus(dexPool[t],
                      Minus(row[t], Rest(row[t], percentage)))]
<1>2. ShareShape(row)
  BY DexNow DEF DexShapes
<1>3. /\ ShareShape(position)
      /\ \A t \in Tokens_ : position[t] = Rest(row[t], percentage)
  <2> HIDE DEF row
  <2>1. /\ position.a = Rest(row.a, percentage) /\ position.b = Rest(row.b, percentage)
        /\ position = [f \in {"a", "b", "liquidityShares", "isActive"} |-> position[f]]
    BY <1>2 DEF ShareShape
  <2> QED
    BY <2>1 DEF ShareShape, Tokens_
<1> HIDE DEF position
<1>4. /\ pool = [t \in Tokens_ |-> pool[t]]
      /\ pool = [t \in Tokens_ |-> Minus(dexPool[t], Minus(row[t], position[t]))]
  BY <1>3
<1> HIDE DEF pool
<1> DEFINE k == [DexIdle EXCEPT !.next = "removePool", !.share = s,
                                !.position = position, !.pool = pool]
<1>5. DexBegin(c, k)
  BY <1>1 DEF position, pool
<1>6. /\ k.next = "removePool" /\ k.pool = pool /\ k.position = position
      /\ k.share = s /\ k.row = DexIdle.row
      /\ k = [f \in {"next", "pool", "swap", "row", "share", "position"} |-> k[f]]
  BY DexIdleShape DEF DexJobShape
<1> HIDE DEF k
<1>7. DexJobShape(k)
  BY <1>3, <1>4, <1>6, DexIdleShape DEF DexJobShape
<1>8. dexPool = dexBase => BalancesAt(k, dexPool, dexBase, liquidity)
  BY <1>4, <1>6 DEF BalancesAt
<1> QED
  BY <1>5, <1>6, <1>7, <1>8, DexBegun

LEMMA DexStepKeeps ==
    ASSUME DexInv, DexStep
    PROVE  DexInv'
<1>1. PICK c \in Traders :
        \/ LoadPool(c) \/ CreateOrUpdateDexPool(c)
        \/ PerformSwap(c) \/ CreateSwap(c) \/ SendSwap(c) \/ SwapPool(c)
        \/ FailSwap(c)
        \/ AddLiquidity(c) \/ CreateShare(c) \/ SharePool(c)
        \/ RemoveLiquidity(c) \/ RemovePool(c) \/ RemoveShare(c)
  BY DEF DexStep
<1>2. CASE LoadPool(c)
  <2> DEFINE k == [DexIdle EXCEPT !.next = "upsert"]
  <2>1. DexBegin(c, k)
    BY <1>2 DEF LoadPool
  <2>2. k = DexNextJob(DexIdle, "upsert")
    BY DEF DexNextJob
  <2> HIDE DEF k
  <2>3. DexJobShape(k) /\ k.next = "upsert"
    BY <2>2, DexIdleShape, DexNextShape
  <2>4. dexPool = dexBase => BalancesAt(k, dexPool, dexBase, liquidity)
    BY <2>3 DEF BalancesAt
  <2> QED
    BY <2>1, <2>3, <2>4, DexBegun
<1> QED
  BY <1>1, <1>2, CreateOrUpdateDexPoolKeeps, PerformSwapKeeps, CreateSwapKeeps,
     SendSwapKeeps, SwapPoolKeeps, FailSwapKeeps, AddLiquidityKeeps,
     CreateShareKeeps, SharePoolKeeps, RemoveLiquidityKeeps, RemovePoolKeeps,
     RemoveShareKeeps

LEMMA DexRest ==
    ASSUME DexInv, UNCHANGED dexVars
    PROVE  DexInv'
<1>1. /\ dexPool' = dexPool /\ dexBase' = dexBase /\ swaps' = swaps
      /\ liquidity' = liquidity /\ dexJob' = dexJob /\ swapped' = swapped
      /\ dexFaults' = dexFaults /\ dexOverlaps' = dexOverlaps
  BY DEF dexVars
<1> QED
  BY <1>1 DEF DexInv, DexShapes, DexAlone

LEMMA DexInvMeans == DexInv => DexBooks
BY DEF DexInv, DexAlone, DexBooks, Told, Carries

-----------------------------------------------------------------------------
(* The pools side by side                                                   *)

LEMMA PoolsStepKeeps ==
    ASSUME LendInv, DexInv, [PoolsStep]_<<lendVars, dexVars>>
    PROVE  LendInv' /\ DexInv'
<1>1. CASE LendingStep /\ UNCHANGED dexVars
  BY <1>1, LendStepKeeps, DexRest
<1>2. CASE DexStep /\ UNCHANGED lendVars
  BY <1>2, LendRest, DexStepKeeps
<1>3. CASE UNCHANGED <<lendVars, dexVars>>
  BY <1>3, LendRest, DexRest
<1> QED
  BY <1>1, <1>2, <1>3 DEF PoolsStep

\* Whatever overlaps and fails, a lending position that names its owner is closed though
\* its opening is on the chain; without a rejected call a position is active only while
\* it is being opened, a swap pending only while it is carried out, and one recorded as
\* failed was confirmed by the cluster; and one request at a time and without faults
\* the reserves and balances are those set last, changed by repayments, withdrawals and
\* removals only: LendingService and DexService, for any number of positions, swaps and
\* requests.
THEOREM PoolsKept == PoolsSpec => []PoolBooks
<1>1. PoolsInit => LendInv /\ DexInv
  BY LendStart, DexStart DEF PoolsInit
<1>2. LendInv /\ DexInv /\ [PoolsStep]_<<lendVars, dexVars>> => LendInv' /\ DexInv'
  BY PoolsStepKeeps
<1>3. LendInv /\ DexInv => PoolBooks
  BY LendInvMeans, DexInvMeans DEF PoolBooks
<1> QED
  BY <1>1, <1>2, <1>3, PTL DEF PoolsSpec
=============================================================================
