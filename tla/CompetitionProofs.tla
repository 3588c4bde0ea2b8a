-------------------------- MODULE CompetitionProofs --------------------------
(***************************************************************************)
(* Theorems about Matchmaking.tla: the types, the money and the statuses of *)
(* a match, its escrow and its players' wallets, for every number of        *)
(* requests and players, every fee, and any number of faults.               *)
(*                                                                          *)
(* RequestStep says what a step of one request has to respect to keep the   *)
(* invariant; the lemma of each action shows that it does.                  *)
(***************************************************************************)
EXTENDS Matchmaking, LedgerProofs

-----------------------------------------------------------------------------
(* Counting requests and participants                                       *)

\* The requests that await the call k.
At(k, pcs) == {r \in Requests : pcs[r] = k}

Count(k, pcs) == Cardinality(At(k, pcs))

\* One if they are the same, else none.
One(k, n) == IF k = n THEN 1 ELSE 0

LEMMA CountType ==
    ASSUME NEW k, NEW pcs
    PROVE  IsFiniteSet(At(k, pcs)) /\ Count(k, pcs) \in Nat
<1>1. At(k, pcs) \in SUBSET Requests
  BY DEF At
<1> QED
  BY <1>1, FS_Subset, FS_CardinalityType, MatchmakingAssumption DEF Count

\* One request moves on.
LEMMA CountMoves ==
    ASSUME NEW pcs \in [Requests -> PC], NEW new \in [Requests -> PC], NEW r \in Requests,
           \A q \in Requests : q # r => new[q] = pcs[q]
    PROVE  \A k : Count(k, new) = Count(k, pcs) - One(pcs[r], k) + One(new[r], k)
<1> TAKE k
<1> DEFINE rest == At(k, pcs) \ {r}
<1>1. At(k, new) = IF new[r] = k THEN rest \cup {r} ELSE rest
  BY DEF At
<1>2. IsFiniteSet(At(k, pcs)) /\ Count(k, pcs) \in Nat /\ (pcs[r] = k <=> r \in At(k, pcs))
  BY CountType DEF At
<1>3. /\ IsFiniteSet(rest)
      /\ Cardinality(rest) = Count(k, pcs) - One(pcs[r], k)
  BY <1>2, FS_RemoveElement DEF Count, One
<1>4. r \notin rest
  OBVIOUS
<1> HIDE DEF rest
<1>5. Cardinality(rest \cup {r}) = Cardinality(rest) + 1
  BY <1>3, <1>4, FS_AddElement
<1>6. CASE new[r] = k
  BY <1>1, <1>2, <1>3, <1>5, <1>6 DEF Count, One
<1>7. CASE new[r] # k
  BY <1>1, <1>2, <1>3, <1>7 DEF Count, One
<1> QED
  BY <1>6, <1>7

LEMMA PresentFinite ==
    ASSUME NEW ps
    PROVE  IsFiniteSet(Present(ps)) /\ Cardinality(Present(ps)) \in Nat
<1>1. Present(ps) \in SUBSET Players
  BY DEF Present
<1> QED
  BY <1>1, FS_Subset, FS_CardinalityType, MatchmakingAssumption

\* A player joins.
LEMMA PresentJoins ==
    ASSUME NEW ps \in [Players -> ParticipantStatus], NEW p \in Players, ps[p] = "none"
    PROVE  /\ Present([ps EXCEPT ![p] = "joined"]) = Present(ps) \cup {p}
           /\ Cardinality(Present([ps EXCEPT ![p] = "joined"]))
                = Cardinality(Present(ps)) + 1
<1>1. p \notin Present(ps)
  BY DEF Present
<1>2. Present([ps EXCEPT ![p] = "joined"]) = Present(ps) \cup {p}
  BY DEF Present
<1>3. Cardinality(Present(ps) \cup {p}) = Cardinality(Present(ps)) + 1
  BY <1>1, PresentFinite, FS_AddElement
<1> QED
  BY <1>2, <1>3

-----------------------------------------------------------------------------
(* What is in the wallets                                                   *)

Purse(ws) == [p \in Players |-> Value(ws[p])]

InAll(ws) == Total(Purse(ws))

LEMMA PurseTypes ==
    ASSUME NEW ws \in [Players -> WalletRow]
    PROVE  Purse(ws) \in [Players -> Nat]
<1>1. \A p \in Players : Value(ws[p]) \in Nat
  BY DEF Value, WalletRow
<1> QED
  BY <1>1 DEF Purse

\* There are finitely many players.
LEMMA WalletsCounted ==
    ASSUME NEW ws \in [Players -> WalletRow]
    PROVE  Summable(Purse(ws)) /\ InAll(ws) \in Nat
BY PurseTypes, FiniteSummable, TotalType, MatchmakingAssumption DEF InAll

\* One wallet changes.
LEMMA WalletChanges ==
    ASSUME NEW ws \in [Players -> WalletRow], NEW p \in Players, NEW w \in WalletRow
    PROVE  InAll([ws EXCEPT ![p] = w]) = InAll(ws) - Value(ws[p]) + Value(w)
<1>1. Value(w) \in Nat
  BY DEF Value, WalletRow
<1>2. /\ Purse([ws EXCEPT ![p] = w]) = [Purse(ws) EXCEPT ![p] = Value(w)]
      /\ Purse(ws)[p] = Value(ws[p])
  BY DEF Purse
<1>3. Total([Purse(ws) EXCEPT ![p] = Value(w)]) = Total(Purse(ws)) - Purse(ws)[p] + Value(w)
  BY <1>1, WalletsCounted, PurseTypes, TotalChange
<1> QED
  BY <1>2, <1>3 DEF InAll

LEMMA SumsOfWallets == InWallets = InAll(wallets)
BY DEF InWallets, InAll, Purse, Value

\* What the calls to a wallet do to its locked amount.
LEMMA AfterLocked ==
    ASSUME NEW w \in WalletRow, NEW a \in Nat
    PROVE  /\ After("lockFunds", w, a).locked = w.locked + a
           /\ After("unlockFunds", w, a).locked = w.locked - a
           /\ After("deductEntryFee", w, a).locked = w.locked - a
<1>1. After("lockFunds", w, a) =
        [w EXCEPT !.available = @ - a, !.locked = @ + a, !.entryFees = @ + a]
  BY DEF After
<1>2. After("unlockFunds", w, a) = [w EXCEPT !.available = @ + a, !.locked = @ - a]
  BY DEF After
<1>3. After("deductEntryFee", w, a) = [w EXCEPT !.locked = @ - a]
  BY DEF After
<1> QED
  BY <1>1, <1>2, <1>3 DEF WalletRow

\* A call to the wallet of a player that is not refused.
LEMMA WalletCallDone ==
    ASSUME wallets \in [Players -> WalletRow], NEW p \in Players,
           NEW op \in {"lockFunds", "unlockFunds", "deductEntryFee"},
           Allowed(op, wallets[p], EntryFee),
           wallets' = [wallets EXCEPT ![p] = After(op, wallets[p], EntryFee)]
    PROVE  /\ wallets' \in [Players -> WalletRow]
           /\ InAll(wallets') = InAll(wallets)
                                  - EntryFee * (IF op = "deductEntryFee" THEN 1 ELSE 0)
           /\ wallets'[p].locked = IF op = "lockFunds" THEN wallets[p].locked + EntryFee
                                   ELSE wallets[p].locked - EntryFee
           /\ wallets[p].locked \in Nat /\ wallets'[p].locked \in Nat
           /\ \A x \in Players : x # p => wallets'[x] = wallets[x]
<1> DEFINE w == After(op, wallets[p], EntryFee)
<1>1. wallets[p] \in WalletRow /\ EntryFee \in Nat /\ op \in WalletOps
  BY MatchmakingAssumption DEF WalletOps, LoggedOps
<1>2. w \in WalletRow
  BY <1>1, AfterType
<1>3. Value(wallets[p]) \in Nat /\ InAll(wallets) \in Nat
  BY <1>1, WalletsCounted DEF WalletRow, Value
<1>4. /\ op = "deductEntryFee" => Value(w) = Value(wallets[p]) - EntryFee
      /\ op \in {"lockFunds", "unlockFunds"} => Value(w) = Value(wallets[p])
  BY <1>1, AfterTotals
<1>5. w.locked = IF op = "lockFunds" THEN wallets[p].locked + EntryFee
                 ELSE wallets[p].locked - EntryFee
  BY <1>1, AfterLocked
<1> HIDE DEF w
<1>6. wallets' = [wallets EXCEPT ![p] = w]
  BY DEF w
<1>7. InAll([wallets EXCEPT ![p] = w]) = InAll(wallets) - Value(wallets[p]) + Value(w)
  BY <1>2, WalletChanges
<1>8. InAll(wallets') = InAll(wallets) - Value(wallets[p]) + Value(w)
  BY <1>6, <1>7
<1>9. InAll(wallets') = InAll(wallets)
                         - EntryFee * (IF op = "deductEntryFee" THEN 1 ELSE 0)
  BY <1>1, <1>3, <1>4, <1>8
<1>10. wallets[p].locked \in Nat /\ w.locked \in Nat
  BY <1>1, <1>2 DEF WalletRow
<1>11. wallets' \in [Players -> WalletRow] /\ wallets'[p] = w
       /\ \A x \in Players : x # p => wallets'[x] = wallets[x]
  BY <1>2, <1>6
<1> QED
  BY <1>5, <1>9, <1>10, <1>11
-----------------------------------------------------------------------------
(* The inductive invariant of a match                                       *)

\* The calls a join awaits, and those at which it still has to deduct its fee.
Joining == {"findParticipant", "lockFunds"} \cup Holding
Due == {"deposit", "deduct"}

\* What a request remembers when it awaits the call k.  A join knows its player,
\* whose row it did not load, but has saved when it saves the match; the rows
\* that were loaded or found are still there.
Link(k, j, ps) ==
    /\ Present(j.seen) \subseteq Present(ps)
    /\ k \in Joining => \E p \in Players : j.player = {p}
    /\ k \in Joining \ {"findParticipant"} => j.player \cap Present(j.seen) = {}
    /\ k = "saveJoined" => j.player \subseteq Present(ps)
    /\ k \in {"unlock", "saveWithdrawn"} => j.players \subseteq Present(ps)
    /\ k = "saveWithdrawn" => \E p \in Present(ps) : j.player = {p}

MatchTypes == TypeOK /\ \A r \in Requests : Link(pc[r], job[r], participants)

\* The amounts of the escrow go with its status.
PotAmounts(e) ==
    /\ e.balance = e.deposited - e.refunded /\ e.released = 0 /\ e.fee = 0
    /\ e.status \in {"created", "active", "refunded"}
    /\ e.status # "refunded" => e.refunded = 0
    /\ e.status = "refunded" => e.balance = 0

\* Who cancels the match found the escrow refunded.
Ended(k, e) ==
    k \in {"findRefunds", "unlock", "saveWithdrawn", "saveCancelled"}
      => e.status = "refunded"

Ends == \A r \in Requests : Ended(pc[r], escrow)

\* The row of a match that is not cancelled is the one createMatch wrote.
RowKept(m, e) == IF m.status = "cancelled" THEN e.status = "refunded" ELSE m = NoRow

\* The fee of a participant left the wallet and came into the pot.
Paid ==
    /\ InAll(wallets) + EntryFee * (Cardinality(Present(participants))
                                     + Count("saveParticipant", pc))
         <= Funds * Cardinality(Players)
    /\ EntryFee * (Cardinality(Present(participants)) + Count("saveParticipant", pc)
                    + Count("deduct", pc)) <= escrow.deposited

\* The joins that met another and have yet to deduct their fee: the others that
\* met have done so, or left it in the pot.
Waiting(m, pcs) == {r \in m : pcs[r] \in Due}

Spent == meetings - Cardinality(Waiting(met, pc))

\* Fees in pot and wallet are about to be deducted, or left by a fault or by a
\* join that met another.
NoneTwice ==
    escrow.status # "refunded" =>
      InAll(wallets) + escrow.deposited
        <= Funds * Cardinality(Players)
             + EntryFee * (Count("deduct", pc) + faults * Cardinality(Requests) + Spent)

\* met holds the joins that met, while they run.
Met == /\ Meeting(pc, job) \subseteq met
       /\ \A r \in met : pc[r] \in Holding

\* A join that met no other has its fee locked until it deducts it.
Locks ==
    escrow.status # "refunded" =>
      \A r \in Requests \ met : \A p \in Players :
        pc[r] \in Due /\ job[r].player = {p} => wallets[p].locked >= EntryFee

MatchInv ==
    /\ MatchTypes /\ PotAmounts(escrow) /\ Ends /\ RowKept(match, escrow)
    /\ Paid /\ NoneTwice /\ Met /\ Locks
-----------------------------------------------------------------------------
(* A request moves                                                          *)

LEMMA NoJobType ==
    NoJob \in Job /\ NoJob.player = {} /\ NoJob.seen = NoParticipants
BY DEF NoJob, NoRow, Job, MatchRow, MatchStatus, NoParticipants, ParticipantStatus

LEMMA IdleLink == \A ps : Link("idle", NoJob, ps)
<1>1. Present(NoParticipants) = {}
  BY DEF Present, NoParticipants
<1> QED
  BY <1>1, NoJobType DEF Link, Joining, Holding

\* Request r awaits k and remembers j.
Moves(r, k, j) == pc' = [pc EXCEPT ![r] = k] /\ job' = [job EXCEPT ![r] = j]

LEMMA GotoMoves ==
    ASSUME NEW r \in Requests, NEW k, NEW j, Goto(r, k, j)
    PROVE  Moves(r, k, IF k = "idle" THEN NoJob ELSE j)
BY DEF Goto, Moves

LEMMA MovesIs ==
    ASSUME MatchTypes, NEW r \in Requests, NEW k \in PC, NEW j \in Job, Moves(r, k, j)
    PROVE  /\ pc' \in [Requests -> PC] /\ job' \in [Requests -> Job]
           /\ pc'[r] = k /\ job'[r] = j
           /\ \A q \in Requests : q # r => pc'[q] = pc[q] /\ job'[q] = job[q]
BY DEF MatchTypes, TypeOK, Moves

LEMMA CountsMove ==
    ASSUME MatchTypes, NEW r \in Requests, NEW k \in PC, NEW j \in Job, Moves(r, k, j)
    PROVE  \A n : Count(n, pc') = Count(n, pc) - One(pc[r], n) + One(k, n)
<1>1. pc \in [Requests -> PC]
  BY DEF MatchTypes, TypeOK
<1>2. pc' \in [Requests -> PC] /\ pc'[r] = k /\ \A q \in Requests : q # r => pc'[q] = pc[q]
  BY MovesIs
<1>3. \A n : Count(n, pc') = Count(n, pc) - One(pc[r], n) + One(pc'[r], n)
  BY <1>1, <1>2, CountMoves
<1> QED
  BY <1>2, <1>3

\* What the request remembers.
LEMMA JobFacts ==
    ASSUME MatchInv, NEW r \in Requests
    PROVE  /\ pc[r] \in PC /\ job[r] \in Job /\ Link(pc[r], job[r], participants)
           /\ Ended(pc[r], escrow) /\ job[r].row \in MatchRow
           /\ job[r].seen \in [Players -> ParticipantStatus]
           /\ job[r].players \in SUBSET Players /\ job[r].player \in SUBSET Players
BY DEF MatchInv, MatchTypes, TypeOK, Job, Ends

LEMMA InvParts ==
    ASSUME MatchInv
    PROVE  /\ MatchTypes /\ Paid /\ NoneTwice /\ Met /\ Locks /\ Ends
           /\ PotAmounts(escrow) /\ RowKept(match, escrow)
           /\ escrow \in EscrowRow /\ faults \in 0..MaxFaults /\ faults \in Nat
           /\ match \in MatchRow /\ participants \in [Players -> ParticipantStatus]
           /\ wallets \in [Players -> WalletRow]
           /\ pc \in [Requests -> PC] /\ job \in [Requests -> Job]
           /\ met \subseteq Requests /\ meetings \in Nat
           /\ EntryFee \in Nat /\ EntryFee > 0
BY MatchmakingAssumption DEF MatchInv, MatchTypes, TypeOK

\* A join knows its player.
LEMMA PlayerKnown ==
    ASSUME MatchInv, NEW r \in Requests, pc[r] \in Joining
    PROVE  Player(r) \in Players /\ job[r].player = {Player(r)}
<1>1. PICK p \in Players : job[r].player = {p}
  BY JobFacts DEF Link
<1>2. Player(r) \in job[r].player
  BY <1>1 DEF Player
<1> QED
  BY <1>1, <1>2

\* The numbers Paid and NoneTwice speak of.
LEMMA MoneyTypes ==
    ASSUME MatchTypes
    PROVE  /\ InAll(wallets) \in Nat /\ Cardinality(Present(participants)) \in Nat
           /\ \A n : Count(n, pc) \in Nat
           /\ EntryFee \in Nat /\ EntryFee > 0 /\ Funds * Cardinality(Players) \in Nat
           /\ Cardinality(Requests) \in Nat /\ faults \in Nat /\ meetings \in Nat
           /\ escrow.deposited \in Nat
<1>1. Cardinality(Players) \in Nat /\ Cardinality(Requests) \in Nat /\ Funds \in Nat
  BY FS_CardinalityType, MatchmakingAssumption
<1>2. Funds * Cardinality(Players) \in Nat
  BY <1>1
<1> QED
  BY <1>1, <1>2, WalletsCounted, PresentFinite, CountType, MatchmakingAssumption
     DEF MatchTypes, TypeOK, EscrowRow

LEMMA WaitingFinite ==
    ASSUME NEW m \in SUBSET Requests, NEW pcs
    PROVE  IsFiniteSet(Waiting(m, pcs)) /\ Cardinality(Waiting(m, pcs)) \in Nat
<1>1. Waiting(m, pcs) \in SUBSET Requests
  BY DEF Waiting
<1> QED
  BY <1>1, FS_Subset, FS_CardinalityType, MatchmakingAssumption

LEMMA NatTimes == \A a, b \in Nat : a * b \in Nat
OBVIOUS

LEMMA Grows ==
    ASSUME NEW f \in Nat, NEW a \in Int, NEW b \in Int, a <= b
    PROVE  f * a <= f * b
<1>1. b - a \in Nat
  OBVIOUS
<1>2. f * (b - a) \in Nat
  BY <1>1
<1>3. f * (b - a) = f * b - f * a /\ f * a \in Int /\ f * b \in Int
  OBVIOUS
<1> QED
  BY <1>2, <1>3

LEMMA Dist == \A a, b, c \in Int : a * (b + c) = a * b + a * c /\ a * b \in Int
OBVIOUS
-----------------------------------------------------------------------------
(* What a step of one request keeps                                         *)

\* A join that met another no longer awaits the deduction of its fee.
Freed(r, k) == IF r \in met /\ pc[r] \in Due /\ k \notin Due THEN 1 ELSE 0

LEMMA MetMoves ==
    ASSUME MatchTypes, Met, Meet, NEW r \in Requests, NEW k \in PC, NEW j \in Job,
           Moves(r, k, j), pc[r] \in Holding => k \in Holding \cup {"idle"},
           k \in Due => pc[r] \in Due \cup {"lockFunds"}
    PROVE  /\ Met' /\ met' \subseteq Requests /\ meetings' \in Nat
           /\ \A q \in met : pc'[q] # "idle" => q \in met'
           /\ Spent \in Int /\ Spent' \in Int /\ Spent' >= Spent + Freed(r, k)
<1> DEFINE now == Meeting(pc', job')
           new == now \ met
           old == Waiting(met, pc)
           left == IF Freed(r, k) = 1 THEN old \ {r} ELSE old
<1>1. met \subseteq Requests /\ meetings \in Nat
  BY DEF MatchTypes, TypeOK
<1>2. /\ met' = {q \in met : pc'[q] # "idle"} \cup now
      /\ meetings' = meetings + Cardinality(new)
  BY DEF Meet
<1>3. now \subseteq Requests /\ \A q \in now : pc'[q] \in Holding
  BY DEF Meeting
<1>4. /\ pc'[r] = k /\ \A q \in Requests : q # r => pc'[q] = pc[q]
  BY MovesIs
<1>5. \A q \in met : pc[q] \in Holding
  BY DEF Met
<1>6. Met'
  <2>1. Meeting(pc', job') \subseteq met'
    BY <1>2
  <2>2. ASSUME NEW q \in met'
        PROVE  pc'[q] \in Holding
    BY <1>1, <1>2, <1>3, <1>4, <1>5, <2>2
  <2> QED
    BY <2>1, <2>2 DEF Met
<1>7. IsFiniteSet(new) /\ Cardinality(new) \in Nat
  <2>1. new \in SUBSET Requests
    BY <1>3
  <2> QED
    BY <2>1, FS_Subset, FS_CardinalityType, MatchmakingAssumption
<1>8. IsFiniteSet(old) /\ Cardinality(old) \in Nat /\ old \subseteq met
  BY <1>1, WaitingFinite DEF Waiting
<1>9. /\ IsFiniteSet(left) /\ left \subseteq met /\ Cardinality(left) \in Nat
      /\ Cardinality(left) = Cardinality(old) - Freed(r, k)
  <2>1. CASE Freed(r, k) = 1
    <3>1. r \in old
      BY <1>1, <2>1 DEF Freed, Waiting
    <3>2. IsFiniteSet(old \ {r}) /\ Cardinality(old \ {r}) = Cardinality(old) - 1
      BY <1>8, <3>1, FS_RemoveElement
    <3>3. Cardinality(old \ {r}) \in Nat
      BY <3>2, FS_CardinalityType
    <3> QED
      BY <1>8, <2>1, <3>2, <3>3
  <2>2. CASE Freed(r, k) # 1
    <3>1. Freed(r, k) = 0
      BY <2>2 DEF Freed
    <3> QED
      BY <1>8, <3>1
  <2> QED
    BY <2>1, <2>2
<1>10. Waiting(met', pc') \subseteq left \cup new
  <2> SUFFICES ASSUME NEW q \in met', pc'[q] \in Due, q \notin new
               PROVE  q \in left
    BY DEF Waiting
  <2>1. q \in met
    BY <1>2
  <2>2. CASE q = r
    <3>1. k \in Due /\ pc[r] \in Holding
      BY <1>4, <1>5, <2>1, <2>2
    <3>2. pc[r] \in Due
      BY <3>1 DEF Holding
    <3>3. Freed(r, k) # 1
      BY <3>1 DEF Freed
    <3> QED
      BY <2>1, <2>2, <3>2, <3>3 DEF Waiting
  <2>3. CASE q # r
    BY <1>1, <1>4, <2>1, <2>3 DEF Waiting
  <2> QED
    BY <2>2, <2>3
<1> HIDE DEF left, new, old
<1>11. /\ IsFiniteSet(left \cup new)
       /\ Cardinality(left \cup new) = Cardinality(left) + Cardinality(new)
  <2>1. left \cap new = {}
    BY <1>9 DEF new
  <2> QED
    BY <1>7, <1>9, <2>1, FS_Union, FS_EmptySet
<1>12. Cardinality(Waiting(met', pc')) <= Cardinality(left) + Cardinality(new)
       /\ Cardinality(Waiting(met', pc')) \in Nat
  BY <1>10, <1>11, FS_Subset, FS_CardinalityType
<1>13. Spent = meetings - Cardinality(old)
       /\ Spent' = meetings' - Cardinality(Waiting(met', pc'))
  BY DEF Spent, old
<1>14. Freed(r, k) \in Int
  BY DEF Freed
<1>15. Spent \in Int /\ Spent' \in Int /\ Spent' >= Spent + Freed(r, k) /\ meetings' \in Nat
  BY <1>1, <1>2, <1>7, <1>8, <1>9, <1>12, <1>13, <1>14
<1>16. met' \subseteq Requests /\ \A q \in met : pc'[q] # "idle" => q \in met'
  BY <1>1, <1>2, <1>3
<1> QED
  BY <1>6, <1>15, <1>16

\* Sums of fees: n participants, s about to be, d fees to deduct; a is what may
\* be in both places.  A fee goes out of the wallets (x) and into the pot (y).
LEMMA FeesMove ==
    ASSUME NEW f \in Nat, NEW all \in Nat, NEW x \in 0 .. 1, NEW y \in 0 .. 1,
           NEW in \in Int, NEW in2 \in Int, NEW pot \in Int, NEW pot2 \in Int,
           NEW n \in Int, NEW n2 \in Int, NEW d \in Int, NEW d2 \in Int,
           NEW a \in Int, NEW a2 \in Int,
           in2 = in - f * x, pot2 = pot + f * y,
           n2 <= n + x, n2 + d2 <= n + d + y
    PROVE  /\ in + f * n <= all => in2 + f * n2 <= all
           /\ f * (n + d) <= pot => f * (n2 + d2) <= pot2
           /\ in + pot <= all + f * a /\ a + (y - x) <= a2 => in2 + pot2 <= all + f * a2
<1>1. x \in Int /\ y \in Int /\ f \in Int /\ y - x \in Int
  OBVIOUS
<1>2. f * n2 <= f * (n + x) /\ f * (n2 + d2) <= f * (n + d + y)
  <2>1. n + x \in Int /\ n2 + d2 \in Int /\ n + d + y \in Int
    BY <1>1
  <2> QED
    BY <2>1, Grows
<1>3. f * (n + x) = f * n + f * x /\ f * n \in Int /\ f * x \in Int
  BY <1>1, Dist
<1>4. f * (n + d + y) = f * (n + d) + f * y /\ f * (n + d) \in Int /\ f * y \in Int
  <2>1. n + d \in Int
    OBVIOUS
  <2> QED
    BY <1>1, <2>1, Dist
<1>5. f * (a + (y - x)) = f * a + f * (y - x) /\ f * a \in Int /\ f * (y - x) \in Int
  BY <1>1, Dist
<1>6. f * (y - x) = f * y - f * x
  BY <1>1
<1>7. f * n2 \in Int /\ f * (n2 + d2) \in Int /\ f * a2 \in Int
  OBVIOUS
<1>8. ASSUME a + (y - x) <= a2
      PROVE  f * (a + (y - x)) <= f * a2
  <2>1. a + (y - x) \in Int
    BY <1>1
  <2> QED
    BY <1>8, <2>1, Grows
<1> DEFINE fx == f * x
           fy == f * y
           fn == f * n
           fn2 == f * n2
           fa == f * a
           fa2 == f * a2
           fd == f * (n + d)
           fd2 == f * (n2 + d2)
<1>9. /\ fx \in Int /\ fy \in Int /\ fn \in Int /\ fn2 \in Int /\ fa \in Int /\ fa2 \in Int
      /\ fd \in Int /\ fd2 \in Int
      /\ in2 = in - fx /\ pot2 = pot + fy /\ fn2 <= fn + fx /\ fd2 <= fd + fy
      /\ a + (y - x) <= a2 => fa + (fy - fx) <= fa2
  BY <1>2, <1>3, <1>4, <1>5, <1>6, <1>7, <1>8
<1> HIDE DEF fx, fy, fn, fn2, fa, fa2, fd, fd2
<1>10. /\ in + fn <= all => in2 + fn2 <= all
       /\ fd <= pot => fd2 <= pot2
       /\ in + pot <= all + fa /\ a + (y - x) <= a2 => in2 + pot2 <= all + fa2
  BY <1>9
<1> QED
  BY <1>10 DEF fx, fy, fn, fn2, fa, fa2, fd, fd2

LEMMA MoneyMoves ==
    ASSUME MatchTypes, Paid, NoneTwice, NEW x \in 0 .. 1, NEW y \in 0 .. 1,
           NEW n2 \in Nat, NEW s2 \in Nat, NEW d2 \in Nat,
           n2 = Cardinality(Present(participants')),
           s2 = Count("saveParticipant", pc'), d2 = Count("deduct", pc'),
           InAll(wallets') = InAll(wallets) - EntryFee * x,
           escrow'.deposited = escrow.deposited + EntryFee * y,
           faults' \in Nat, Spent \in Int, Spent' \in Int,
           n2 + s2 <= Cardinality(Present(participants)) + Count("saveParticipant", pc) + x,
           n2 + s2 + d2 <= Cardinality(Present(participants)) + Count("saveParticipant", pc)
                           + Count("deduct", pc) + y,
           escrow'.status # "refunded" =>
             /\ escrow.status # "refunded"
             /\ Count("deduct", pc) + faults * Cardinality(Requests) + Spent + (y - x)
                  <= d2 + faults' * Cardinality(Requests) + Spent'
    PROVE  Paid' /\ NoneTwice'
<1> DEFINE n == Cardinality(Present(participants))
           s == Count("saveParticipant", pc)
           d == Count("deduct", pc)
           R == Cardinality(Requests)
           all == Funds * Cardinality(Players)
           m == n + s
           m2 == n2 + s2
           a == d + faults * R + Spent
           a2 == d2 + faults' * R + Spent'
           pot == escrow.deposited
           pot2 == escrow'.deposited
           in == InAll(wallets)
           in2 == InAll(wallets')
<1>1. /\ n \in Nat /\ d \in Nat /\ s \in Nat /\ R \in Nat /\ EntryFee \in Nat /\ all \in Nat
      /\ faults \in Nat /\ in \in Nat /\ pot \in Nat
  BY MoneyTypes
<1>2. faults * R \in Nat /\ faults' * R \in Nat /\ EntryFee * x \in Int /\ EntryFee * y \in Int
  <2>1. x \in Int /\ y \in Int
    OBVIOUS
  <2> QED
    BY <1>1, <2>1, NatTimes, Dist
<1>3. /\ m \in Int /\ m2 \in Int /\ a \in Int /\ a2 \in Int /\ d \in Int /\ d2 \in Int
      /\ in \in Int /\ pot \in Int /\ pot2 \in Int /\ in2 \in Int
  BY <1>1, <1>2
<1>4. /\ in2 = in - EntryFee * x /\ pot2 = pot + EntryFee * y
      /\ m2 <= m + x /\ m2 + d2 <= m + d + y
  OBVIOUS
<1>5. /\ in + EntryFee * m <= all /\ EntryFee * (m + d) <= pot
      /\ escrow.status # "refunded" => in + pot <= all + EntryFee * a
  BY DEF Paid, NoneTwice
<1>6. escrow'.status # "refunded" => escrow.status # "refunded" /\ a + (y - x) <= a2
  BY <1>1, <1>2
<1> HIDE DEF m, m2, a, a2, in, in2, pot, pot2, d, all
<1>7. /\ in + EntryFee * m <= all => in2 + EntryFee * m2 <= all
      /\ EntryFee * (m + d) <= pot => EntryFee * (m2 + d2) <= pot2
      /\ in + pot <= all + EntryFee * a /\ a + (y - x) <= a2
           => in2 + pot2 <= all + EntryFee * a2
  BY <1>1, <1>3, <1>4, FeesMove
<1>8. Paid'
  BY <1>5, <1>7 DEF Paid, m2, in2, pot2, all
<1>9. NoneTwice'
  BY <1>5, <1>6, <1>7 DEF NoneTwice, a2, in2, pot2, all
<1> QED
  BY <1>8, <1>9
\* What the tables hold after a step.
TablesType ==
    /\ match \in MatchRow /\ participants \in [Players -> ParticipantStatus]
    /\ escrow \in EscrowRow /\ wallets \in [Players -> WalletRow] /\ faults \in 0..MaxFaults

\* Each request keeps its link when one moves.
LEMMA LinksMove ==
    ASSUME MatchTypes, NEW r \in Requests, NEW k \in PC, NEW j \in Job, Moves(r, k, j),
           Link(k, j, participants'), Present(participants) \subseteq Present(participants')
    PROVE  \A q \in Requests : Link(pc'[q], job'[q], participants')
<1> SUFFICES ASSUME NEW q \in Requests PROVE Link(pc'[q], job'[q], participants')
  OBVIOUS
<1>1. CASE q = r
  BY <1>1, MovesIs
<1>2. CASE q # r
  <2>1. pc'[q] = pc[q] /\ job'[q] = job[q]
    BY <1>2, MovesIs
  <2>2. Link(pc[q], job[q], participants)
    BY DEF MatchTypes
  <2> QED
    BY <2>1, <2>2 DEF Link
<1> QED
  BY <1>1, <1>2

\* A join that met no other keeps its lock: who takes from the wallet of its
\* player either cancels the match or is a join that met it.
LEMMA LocksMove ==
    ASSUME MatchInv, Meet, NEW r \in Requests, NEW k \in PC, NEW j \in Job, Moves(r, k, j),
           \A q \in met : pc'[q] # "idle" => q \in met',
           escrow.status = "refunded" => escrow'.status = "refunded",
           escrow'.status # "refunded" => \A p \in Players :
             \/ wallets'[p].locked \in Nat /\ wallets'[p].locked >= wallets[p].locked
             \/ pc[r] \in Holding /\ job[r].player = {p},
           k \in Due =>
             \/ pc[r] \in Due /\ wallets' = wallets /\ j.player = job[r].player
             \/ \A p \in Players : j.player = {p} => wallets'[p].locked >= EntryFee
    PROVE  Locks'
<1> SUFFICES ASSUME escrow'.status # "refunded", NEW q \in Requests, q \notin met',
                    NEW p \in Players, pc'[q] \in Due, job'[q].player = {p}
             PROVE  wallets'[p].locked >= EntryFee
  BY DEF Locks
<1>1. /\ MatchTypes /\ Locks /\ Met /\ EntryFee \in Nat
      /\ wallets[p].locked \in Nat
  BY InvParts DEF WalletRow
<1>2. /\ pc'[r] = k /\ job'[r] = j
      /\ q # r => pc'[q] = pc[q] /\ job'[q] = job[q]
  BY <1>1, MovesIs
<1>3. q \notin met
  BY DEF Due
<1>4. CASE q = r
  BY <1>1, <1>2, <1>3, <1>4 DEF Locks
<1>5. CASE q # r
  <2>1. wallets[p].locked >= EntryFee
    BY <1>1, <1>2, <1>3, <1>5 DEF Locks
  <2>2. ~(pc[r] \in Holding /\ job[r].player = {p})
    <3>1. pc[q] \in Holding /\ job[q].player = {p}
      BY <1>2, <1>5 DEF Due, Holding
    <3> QED
      BY <1>1, <1>3, <1>5, <3>1 DEF Met, Meeting
  <2> QED
    BY <1>1, <2>1, <2>2
<1> QED
  BY <1>4, <1>5

\* What a fee in both places adds to the sum of fees.
Open(k) == One(k, "deduct")

\* A request r that awaits k next keeps the invariant if these all hold.
LEMMA RequestStep ==
    ASSUME MatchInv, Meet, NEW r \in Requests, NEW k \in PC, NEW j \in Job,
           Moves(r, k, j), Link(k, j, participants'), TablesType', PotAmounts(escrow'),
           Ended(k, escrow'), RowKept(match', escrow'),
           escrow.status = "refunded" => escrow'.status = "refunded",
           Present(participants) \subseteq Present(participants'),
           pc[r] \in Holding => k \in Holding \cup {"idle"},
           k \in Due => pc[r] \in Due \cup {"lockFunds"},
           escrow'.status # "refunded" => \A p \in Players :
             \/ wallets'[p].locked \in Nat /\ wallets'[p].locked >= wallets[p].locked
             \/ pc[r] \in Holding /\ job[r].player = {p},
           k \in Due =>
             \/ pc[r] \in Due /\ wallets' = wallets /\ j.player = job[r].player
             \/ \A p \in Players : j.player = {p} => wallets'[p].locked >= EntryFee,
           NEW x \in 0 .. 1, NEW y \in 0 .. 1, NEW e \in 0 .. 1,
           faults' = faults + e,
           InAll(wallets') = InAll(wallets) - EntryFee * x,
           escrow'.deposited = escrow.deposited + EntryFee * y,
           NEW more \in 0 .. 1,
           Cardinality(Present(participants'))
             = Cardinality(Present(participants)) + more,
           more + One(k, "saveParticipant") <= One(pc[r], "saveParticipant") + x,
           more + One(k, "saveParticipant") + Open(k)
             <= One(pc[r], "saveParticipant") + Open(pc[r]) + y,
           escrow'.status # "refunded" => Open(pc[r]) + (y - x) <= Open(k) + e + Freed(r, k)
    PROVE  MatchInv'
<1>1. /\ MatchTypes /\ Paid /\ NoneTwice /\ Met /\ Ends
      /\ pc \in [Requests -> PC] /\ faults \in Nat
  BY InvParts
<1>2. /\ Met' /\ met' \subseteq Requests /\ meetings' \in Nat
      /\ \A q \in met : pc'[q] # "idle" => q \in met'
      /\ Spent \in Int /\ Spent' \in Int /\ Spent' >= Spent + Freed(r, k)
  BY <1>1, MetMoves
<1>3. MatchTypes'
  <2>1. \A q \in Requests : Link(pc'[q], job'[q], participants')
    BY <1>1, LinksMove
  <2>2. pc' \in [Requests -> PC] /\ job' \in [Requests -> Job]
    BY <1>1, MovesIs
  <2> QED
    BY <1>2, <2>1, <2>2 DEF MatchTypes, TypeOK, TablesType
<1>4. Ends'
  BY <1>1, MovesIs DEF Ends, Ended
<1>5. Locks'
  BY <1>2, LocksMove
<1> DEFINE n == Cardinality(Present(participants))
           s == Count("saveParticipant", pc)
           d == Count("deduct", pc)
           n2 == Cardinality(Present(participants'))
           s2 == Count("saveParticipant", pc')
           d2 == Count("deduct", pc')
           R == Cardinality(Requests)
<1>6. /\ n \in Nat /\ s \in Nat /\ d \in Nat /\ R \in Nat
      /\ n2 \in Nat /\ s2 \in Nat /\ d2 \in Nat /\ faults' \in Nat
  <2>1. n \in Nat /\ s \in Nat /\ d \in Nat /\ R \in Nat
    BY <1>1, MoneyTypes
  <2>2. n2 \in Nat /\ s2 \in Nat /\ d2 \in Nat /\ faults' \in Nat
    BY <1>3, PresentFinite, CountType, MatchmakingAssumption DEF MatchTypes, TypeOK
  <2> QED
    BY <2>1, <2>2
<1>7. /\ s2 = s - One(pc[r], "saveParticipant") + One(k, "saveParticipant")
      /\ d2 = d - Open(pc[r]) + Open(k)
  BY <1>1, CountsMove DEF Open
<1>8. R >= 1
  <2>1. Requests # {}
    OBVIOUS
  <2>2. R # 0
    BY <2>1, FS_EmptySet, MatchmakingAssumption
  <2> QED
    BY <1>6, <2>2
<1>9. faults' * R >= faults * R + e /\ faults * R \in Nat /\ faults' * R \in Nat
  <2> HIDE DEF R
  <2>1. CASE e = 0
    BY <1>1, <1>6, <2>1, NatTimes
  <2>2. CASE e = 1
    <3>1. (faults + 1) * R = faults * R + R /\ faults * R \in Nat
      BY <1>1, <1>6
    <3> QED
      BY <1>1, <1>6, <1>8, <2>2, <3>1, NatTimes
  <2> QED
    BY <2>1, <2>2
<1>10. /\ One(pc[r], "saveParticipant") \in 0 .. 1 /\ One(k, "saveParticipant") \in 0 .. 1
       /\ Open(pc[r]) \in 0 .. 1 /\ Open(k) \in 0 .. 1 /\ Freed(r, k) \in 0 .. 1
  BY DEF One, Open, Freed
<1> HIDE DEF n, s, d, n2, s2, d2, R
<1>11. n2 + s2 <= n + s + x /\ n2 + s2 + d2 <= n + s + d + y
  <2>1. n2 = n + more
    BY DEF n, n2
  <2> QED
    BY <1>6, <1>7, <1>10, <2>1
<1> DEFINE a == faults * R
           a2 == faults' * R
<1>12. ASSUME escrow'.status # "refunded"
       PROVE  d + faults * R + Spent + (y - x) <= d2 + faults' * R + Spent'
  <2>1. a \in Nat /\ a2 \in Nat /\ a2 >= a + e
    BY <1>9
  <2>2. Open(pc[r]) + (y - x) <= Open(k) + e + Freed(r, k)
    BY <1>12
  <2> HIDE DEF a, a2
  <2>3. d + a + Spent + (y - x) <= d2 + a2 + Spent'
    BY <1>2, <1>6, <1>7, <1>10, <2>1, <2>2
  <2> QED
    BY <2>3 DEF a, a2
<1>13. Paid' /\ NoneTwice'
  BY <1>1, <1>2, <1>6, <1>11, <1>12, MoneyMoves DEF n, s, d, n2, s2, d2, R
<1> QED
  BY <1>2, <1>3, <1>4, <1>5, <1>13 DEF MatchInv

\* No fee moves: only the request, a status, or the row of the match.
LEMMA QuietStep ==
    ASSUME MatchInv, Meet, NEW r \in Requests, NEW k \in PC, NEW j \in Job,
           Moves(r, k, j), Link(k, j, participants'), TablesType', PotAmounts(escrow'),
           Ended(k, escrow'), RowKept(match', escrow'),
           escrow.status = "refunded" => escrow'.status = "refunded",
           Present(participants') = Present(participants),
           wallets' = wallets, escrow'.deposited = escrow.deposited,
           pc[r] \in Holding => k \in Holding \cup {"idle"},
           k \notin Due, k # "saveParticipant",
           (faults' = faults /\ pc[r] # "deduct") \/ faults' = faults + 1
    PROVE  MatchInv'
<1>1. /\ wallets \in [Players -> WalletRow] /\ faults \in Nat /\ EntryFee \in Nat
      /\ MatchTypes
  BY InvParts
<1>2. \A p \in Players : wallets'[p].locked \in Nat /\ wallets'[p].locked >= wallets[p].locked
  BY <1>1 DEF WalletRow
<1>3. InAll(wallets') = InAll(wallets) - EntryFee * 0
      /\ escrow'.deposited = escrow.deposited + EntryFee * 0
  BY <1>1, MoneyTypes
<1>4. Cardinality(Present(participants')) = Cardinality(Present(participants)) + 0
  BY PresentFinite
<1>5. /\ One(k, "saveParticipant") = 0 /\ Open(k) = 0
      /\ One(pc[r], "saveParticipant") \in 0 .. 1 /\ Open(pc[r]) \in 0 .. 1
      /\ Freed(r, k) \in 0 .. 1
  BY DEF One, Open, Freed, Due
<1>6. PICK e \in 0 .. 1 : faults' = faults + e /\ (e = 0 => pc[r] # "deduct")
  BY <1>1
<1>7. Open(pc[r]) <= e
  BY <1>6 DEF Open, One
<1>8. /\ 0 + One(k, "saveParticipant") <= One(pc[r], "saveParticipant") + 0
      /\ 0 + One(k, "saveParticipant") + Open(k)
           <= One(pc[r], "saveParticipant") + Open(pc[r]) + 0
      /\ Open(pc[r]) + (0 - 0) <= Open(k) + e + Freed(r, k)
  BY <1>5, <1>6, <1>7
<1>9. 0 \in 0 .. 1
  OBVIOUS
<1> QED
  BY <1>2, <1>3, <1>4, <1>6, <1>8, <1>9, RequestStep

\* Nothing but the request changes.
LEMMA LoadsStep ==
    ASSUME MatchInv, Meet, NEW r \in Requests, NEW k \in PC, NEW j \in Job,
           Moves(r, k, j), Link(k, j, participants), Ended(k, escrow),
           UNCHANGED <<match, participants, escrow, wallets>>,
           pc[r] \in Holding => k \in Holding \cup {"idle"},
           k \notin Due, k # "saveParticipant",
           (faults' = faults /\ pc[r] # "deduct")
             \/ (faults' = faults + 1 /\ faults < MaxFaults)
    PROVE  MatchInv'
<1>1. TablesType' /\ PotAmounts(escrow') /\ RowKept(match', escrow')
  <2>1. faults' \in 0 .. MaxFaults
    BY InvParts, MatchmakingAssumption
  <2>2. match' = match /\ participants' = participants /\ escrow' = escrow
        /\ wallets' = wallets
    OBVIOUS
  <2> QED
    BY <2>1, <2>2, InvParts DEF TablesType
<1>2. /\ Link(k, j, participants') /\ Ended(k, escrow') /\ wallets' = wallets
      /\ escrow' = escrow /\ Present(participants') = Present(participants)
  OBVIOUS
<1>3. (faults' = faults /\ pc[r] # "deduct") \/ faults' = faults + 1
  OBVIOUS
<1> QED
  BY <1>1, <1>2, <1>3, QuietStep

\* A request that settles.
LEMMA SettlesStep ==
    ASSUME MatchInv, Meet, NEW r \in Requests, Goto(r, "idle", job[r]) \/ Goto(r, "idle", NoJob),
           UNCHANGED <<match, participants, escrow, wallets>>,
           (faults' = faults /\ pc[r] # "deduct")
             \/ (faults' = faults + 1 /\ faults < MaxFaults)
    PROVE  MatchInv'
<1>1. Moves(r, "idle", NoJob)
  BY GotoMoves
<1>2. /\ "idle" \in PC /\ NoJob \in Job /\ "idle" \notin Due
      /\ Link("idle", NoJob, participants) /\ Ended("idle", escrow)
  BY NoJobType, IdleLink DEF PC, Due, Ended
<1> QED
  BY <1>1, <1>2, LoadsStep
-----------------------------------------------------------------------------
(* The steps of joinMatch                                                   *)

\* getMatchById resolved and the guard passed.
LEMMA StartStep ==
    ASSUME MatchInv, Meet, NEW r \in Requests, NEW k \in {"findParticipant", "refund"},
           NEW player \in SUBSET Players, Start(r, k, player),
           k = "findParticipant" => \E p \in Players : player = {p}
    PROVE  MatchInv'
<1> DEFINE j == [row |-> match, seen |-> participants, players |-> {}, player |-> player]
<1>1. /\ Moves(r, k, j) /\ pc[r] = "idle" /\ faults' = faults
      /\ UNCHANGED <<match, participants, escrow, wallets>>
  BY DEF Start, Moves, tables
<1>2. j \in Job /\ j.player = player /\ j.seen = participants
  BY InvParts DEF Job
<1> HIDE DEF j
<1>3. k \in PC /\ k \notin Due /\ Ended(k, escrow) /\ k # "saveParticipant"
  BY DEF PC, Due, Ended
<1>4. Link(k, j, participants)
  BY <1>2 DEF Link, Joining, Holding
<1>5. pc[r] \notin Holding /\ pc[r] # "deduct"
  BY <1>1 DEF Holding
<1> QED
  BY <1>1, <1>2, <1>3, <1>4, <1>5, LoadsStep

LEMMA LoadStarts ==
    ASSUME MatchInv, Meet, NEW r \in Requests, JoinLoad(r) \/ CancelLoad(r)
    PROVE  MatchInv'
<1>1. CASE JoinLoad(r)
  <2>1. PICK p \in Players : Start(r, "findParticipant", {p})
    BY <1>1 DEF JoinLoad
  <2> QED
    BY <2>1, StartStep
<1>2. CASE CancelLoad(r)
  <2>1. Start(r, "refund", {})
    BY <1>2 DEF CancelLoad
  <2> QED
    BY <2>1, StartStep
<1> QED
  BY <1>1, <1>2

\* Who has no participant row was not loaded either.
LEMMA FindParticipantStep ==
    ASSUME MatchInv, Meet, NEW r \in Requests, FindParticipant(r)
    PROVE  MatchInv'
<1> DEFINE p == Player(r)
<1>1. /\ pc[r] = "findParticipant"
      /\ Goto(r, IF p \in Joined THEN "idle" ELSE "lockFunds", job[r])
      /\ UNCHANGED <<match, participants, escrow, wallets>> /\ faults' = faults
  BY DEF FindParticipant, tables
<1>2. pc[r] \in Joining /\ pc[r] # "deduct" /\ pc[r] \notin Holding
  BY <1>1 DEF Joining, Holding
<1>3. p \in Players /\ job[r].player = {p}
  BY <1>2, PlayerKnown
<1> HIDE DEF p
<1>4. CASE p \in Joined
  <2>1. Goto(r, "idle", job[r])
    BY <1>1, <1>4
  <2> QED
    BY <1>1, <1>2, <2>1, SettlesStep
<1>5. CASE p \notin Joined
  <2>1. Moves(r, "lockFunds", job[r])
    BY <1>1, <1>5, GotoMoves
  <2>2. job[r] \in Job /\ Present(job[r].seen) \subseteq Present(participants)
    BY JobFacts DEF Link
  <2>3. Link("lockFunds", job[r], participants)
    BY <1>3, <1>5, <2>2 DEF Link, Joining, Holding, Joined
  <2>4. /\ "lockFunds" \in PC /\ "lockFunds" \notin Due /\ Ended("lockFunds", escrow)
    BY DEF PC, Due, Ended
  <2> QED
    BY <1>1, <1>2, <2>1, <2>2, <2>3, <2>4, LoadsStep
<1> QED
  BY <1>4, <1>5

\* A join goes on with its fee locked.
LEMMA JoinLink ==
    ASSUME MatchInv, NEW r \in Requests, pc[r] \in Joining \ {"findParticipant"},
           NEW k \in Holding \cup {"idle"},
           k = "saveJoined" => job[r].player \subseteq Present(participants'),
           Present(participants) \subseteq Present(participants')
    PROVE  Link(k, job[r], participants') /\ Ended(k, escrow') /\ k \in PC
<1>1. Link(pc[r], job[r], participants)
  BY JobFacts
<1> QED
  BY <1>1 DEF Link, Ended, Joining, Holding, PC

LEMMA LockFundsStep ==
    ASSUME MatchInv, Meet, NEW r \in Requests, LockFunds(r)
    PROVE  MatchInv'
<1> DEFINE p == Player(r)
<1>1. pc[r] = "lockFunds" /\ WalletCall(r, "lockFunds", p, "deposit", "idle")
  BY DEF LockFunds
<1>2. pc[r] \in Joining \ {"findParticipant"} /\ pc[r] \notin Holding /\ pc[r] # "deduct"
  BY <1>1 DEF Joining, Holding
<1>3. p \in Players /\ job[r].player = {p}
  BY <1>2, PlayerKnown
<1> HIDE DEF p
<1>4. /\ match' = match /\ participants' = participants /\ escrow' = escrow
      /\ faults' = faults
  BY <1>1 DEF WalletCall
<1>5. CASE wallets' = wallets /\ Goto(r, "idle", job[r])
  BY <1>2, <1>4, <1>5, SettlesStep
<1>6. CASE /\ Allowed("lockFunds", wallets[p], EntryFee) /\ Goto(r, "deposit", job[r])
           /\ wallets' = [wallets EXCEPT ![p] = After("lockFunds", wallets[p], EntryFee)]
  <2>1. /\ wallets \in [Players -> WalletRow] /\ EntryFee \in Nat /\ MatchTypes
        /\ PotAmounts(escrow) /\ RowKept(match, escrow) /\ faults \in 0 .. MaxFaults
        /\ escrow \in EscrowRow /\ match \in MatchRow
        /\ participants \in [Players -> ParticipantStatus]
    BY InvParts
  <2>2. /\ wallets' \in [Players -> WalletRow] /\ InAll(wallets') = InAll(wallets) - EntryFee * 0
        /\ wallets'[p].locked = wallets[p].locked + EntryFee
        /\ wallets[p].locked \in Nat /\ wallets'[p].locked \in Nat
        /\ \A q \in Players : q # p => wallets'[q] = wallets[q]
    <3>1. "lockFunds" \in {"lockFunds", "unlockFunds", "deductEntryFee"}
      OBVIOUS
    <3> QED
      BY <1>3, <1>6, <2>1, <3>1, WalletCallDone
  <2>3. Moves(r, "deposit", job[r]) /\ job[r] \in Job
    BY <1>6, GotoMoves, JobFacts
  <2>4. Link("deposit", job[r], participants') /\ Ended("deposit", escrow') /\ "deposit" \in PC
    <3>1. "deposit" \in Holding \cup {"idle"}
      BY DEF Holding
    <3> QED
      BY <1>2, <1>4, <3>1, JoinLink
  <2>5. TablesType'
    BY <1>4, <2>1, <2>2 DEF TablesType
  <2>6. ASSUME NEW q \in Players
        PROVE  wallets'[q].locked \in Nat /\ wallets'[q].locked >= wallets[q].locked
    BY <2>1, <2>2 DEF WalletRow
  <2>7. ASSUME NEW q \in Players, job[r].player = {q}
        PROVE  wallets'[q].locked >= EntryFee
    <3>1. q = p
      BY <1>3, <2>7
    <3>2. wallets'[p].locked >= EntryFee
      BY <2>1, <2>2
    <3> QED
      BY <3>1, <3>2
  <2>8. escrow'.deposited = escrow.deposited + EntryFee * 0
        /\ Cardinality(Present(participants')) = Cardinality(Present(participants)) + 0
    BY <1>4, <2>1, MoneyTypes
  <2>9. /\ 0 + One("deposit", "saveParticipant") <= One(pc[r], "saveParticipant") + 0
        /\ 0 + One("deposit", "saveParticipant") + Open("deposit")
             <= One(pc[r], "saveParticipant") + Open(pc[r]) + 0
        /\ Open(pc[r]) + (0 - 0) <= Open("deposit") + 0 + Freed(r, "deposit")
    BY <1>1 DEF One, Open, Freed, Due
  <2>10. 0 \in 0 .. 1 /\ faults' = faults + 0 /\ pc[r] \in Due \cup {"lockFunds"}
    BY <1>1, <1>4, <2>1
  <2> HIDE DEF Due
  <2> QED
    BY <1>2, <1>4, <2>1, <2>2, <2>3, <2>4, <2>5, <2>6, <2>7, <2>8, <2>9, <2>10, RequestStep
<1> QED
  BY <1>1, <1>5, <1>6 DEF WalletCall

\* The rollback is awaited next, and nothing else has changed.
LEMMA ToRollbackStep ==
    ASSUME MatchInv, Meet, NEW r \in Requests,
           pc[r] \in {"deposit", "deduct", "saveParticipant", "saveJoined"},
           Goto(r, "rollback", job[r]), UNCHANGED <<match, participants, escrow, wallets>>,
           (faults' = faults /\ pc[r] # "deduct")
             \/ (faults' = faults + 1 /\ faults < MaxFaults)
    PROVE  MatchInv'
<1>1. pc[r] \in Joining \ {"findParticipant"} /\ "rollback" \in Holding
  BY DEF Joining, Holding
<1>2. Moves(r, "rollback", job[r]) /\ job[r] \in Job
  BY GotoMoves, JobFacts
<1>3. participants' = participants /\ escrow' = escrow
  OBVIOUS
<1>4. Link("rollback", job[r], participants') /\ Ended("rollback", escrow')
      /\ "rollback" \in PC
  BY <1>1, <1>3, JoinLink
<1>5. "rollback" \notin Due
  BY DEF Due
<1> QED
  BY <1>1, <1>2, <1>3, <1>4, <1>5, LoadsStep

\* The tables after a step of the operation that leaves the others alone.
LEMMA WalletsAlone ==
    ASSUME MatchInv, NEW r \in Requests
    PROVE  \A p \in Players :
             \/ wallets[p].locked \in Nat /\ wallets[p].locked >= wallets[p].locked
             \/ pc[r] \in Holding /\ job[r].player = {p}
BY InvParts DEF WalletRow

LEMMA DepositFeeStep ==
    ASSUME MatchInv, Meet, NEW r \in Requests, DepositFee(r)
    PROVE  MatchInv'
<1>1. /\ pc[r] = "deposit"
      /\ EscrowCall(r, canDeposit(escrow), AfterDeposit(escrow, EntryFee),
                    "deduct", "rollback")
  BY DEF DepositFee
<1>2. /\ match' = match /\ participants' = participants /\ wallets' = wallets
      /\ faults' = faults
  BY <1>1 DEF EscrowCall
<1>3. CASE escrow' = escrow /\ Goto(r, "rollback", job[r])
  BY <1>1, <1>2, <1>3, ToRollbackStep
<1>4. CASE /\ canDeposit(escrow) /\ escrow' = AfterDeposit(escrow, EntryFee)
           /\ Goto(r, "deduct", job[r])
  <2>1. /\ MatchTypes /\ PotAmounts(escrow) /\ RowKept(match, escrow) /\ escrow \in EscrowRow
        /\ EntryFee \in Nat /\ faults \in 0 .. MaxFaults /\ match \in MatchRow
        /\ participants \in [Players -> ParticipantStatus]
        /\ wallets \in [Players -> WalletRow] /\ escrow.status \in {"created", "active"}
    BY <1>4, InvParts DEF canDeposit
  <2>2. /\ escrow' \in EscrowRow /\ escrow'.status = "active"
        /\ escrow'.deposited = escrow.deposited + EntryFee
        /\ escrow'.released = escrow.released /\ escrow'.refunded = escrow.refunded
        /\ escrow'.fee = escrow.fee /\ escrow'.balance = escrow.balance + EntryFee
    <3>1. AfterDeposit(escrow, EntryFee).status = "active"
      BY <2>1 DEF AfterDeposit, EscrowRow
    <3>2. escrow' \in EscrowRow
      BY <1>4, <2>1, EntityTypes
    <3> QED
      BY <1>4, <2>1, <3>1, <3>2, DepositTotals
  <2>3. PotAmounts(escrow') /\ RowKept(match', escrow')
    <3>1. escrow.deposited \in Int /\ escrow.balance \in Int /\ escrow.refunded \in Int
      BY <2>1 DEF EscrowRow
    <3> QED
      BY <1>2, <2>1, <2>2, <3>1 DEF PotAmounts, RowKept
  <2>4. Moves(r, "deduct", job[r]) /\ job[r] \in Job
    BY <1>4, GotoMoves, JobFacts
  <2>5. pc[r] \in Joining \ {"findParticipant"} /\ "deduct" \in Holding \cup {"idle"}
    BY <1>1 DEF Joining, Holding
  <2>6. Link("deduct", job[r], participants') /\ Ended("deduct", escrow') /\ "deduct" \in PC
    BY <1>2, <2>5, JoinLink
  <2>7. TablesType'
    BY <1>2, <2>1, <2>2 DEF TablesType
  <2>8. /\ InAll(wallets') = InAll(wallets) - EntryFee * 0
        /\ escrow'.deposited = escrow.deposited + EntryFee * 1
        /\ Cardinality(Present(participants')) = Cardinality(Present(participants)) + 0
        /\ faults' = faults + 0
    BY <1>2, <2>1, <2>2, MoneyTypes
  <2>9. /\ 0 + One("deduct", "saveParticipant") <= One(pc[r], "saveParticipant") + 0
        /\ 0 + One("deduct", "saveParticipant") + Open("deduct")
             <= One(pc[r], "saveParticipant") + Open(pc[r]) + 1
        /\ Open(pc[r]) + (1 - 0) <= Open("deduct") + 0 + Freed(r, "deduct")
    BY <1>1 DEF One, Open, Freed, Due
  <2>10. 0 \in 0 .. 1 /\ 1 \in 0 .. 1 /\ pc[r] \in Due
         /\ (escrow.status = "refunded" => escrow'.status = "refunded")
    BY <1>1, <2>1 DEF Due
  <2>11. \A p \in Players :
           \/ wallets'[p].locked \in Nat /\ wallets'[p].locked >= wallets[p].locked
           \/ pc[r] \in Holding /\ job[r].player = {p}
    BY <1>2, WalletsAlone
  <2> HIDE DEF Due
  <2> QED
    BY <1>2, <2>2, <2>3, <2>4, <2>5, <2>6, <2>7, <2>8, <2>9, <2>10, <2>11, RequestStep
<1> QED
  BY <1>1, <1>3, <1>4 DEF EscrowCall

\* A join whose fee is not locked any more met the join that unlocked it.
LEMMA DeductRefused ==
    ASSUME MatchInv, NEW r \in Requests, pc[r] = "deduct",
           ~Allowed("deductEntryFee", wallets[Player(r)], EntryFee),
           escrow.status # "refunded"
    PROVE  Freed(r, "rollback") = 1
<1> DEFINE p == Player(r)
<1>1. pc[r] \in Joining /\ pc[r] \in Due
  BY DEF Joining, Holding, Due
<1>2. p \in Players /\ job[r].player = {p}
  BY <1>1, PlayerKnown
<1>3. ~(wallets[p].locked >= EntryFee)
  BY DEF Allowed
<1>4. Locks
  BY InvParts
<1> HIDE DEF p
<1>5. r \in met
  BY <1>1, <1>2, <1>3, <1>4 DEF Locks
<1> QED
  BY <1>1, <1>5 DEF Freed, Due

\* A call of a join to its player's wallet that takes the locked fee.
LEMMA TakesStep ==
    ASSUME MatchInv, Meet, NEW r \in Requests, pc[r] \in {"deduct", "rollback"},
           NEW op \in {"unlockFunds", "deductEntryFee"}, NEW k \in {"saveParticipant", "idle"},
           Allowed(op, wallets[Player(r)], EntryFee),
           wallets' = [wallets EXCEPT ![Player(r)] = After(op, wallets[Player(r)], EntryFee)],
           Goto(r, k, job[r]), UNCHANGED <<match, participants, escrow, faults>>,
           op = "deductEntryFee" <=> pc[r] = "deduct",
           k = "saveParticipant" <=> pc[r] = "deduct"
    PROVE  MatchInv'
<1> DEFINE p == Player(r)
           x == IF op = "deductEntryFee" THEN 1 ELSE 0
           j == IF k = "idle" THEN NoJob ELSE job[r]
<1>1. pc[r] \in Joining \ {"findParticipant"} /\ pc[r] \in Holding
      /\ k \in Holding \cup {"idle"} /\ k \notin Due
  BY DEF Joining, Holding, Due
<1>2. p \in Players /\ job[r].player = {p}
  BY <1>1, PlayerKnown
<1>3. /\ wallets \in [Players -> WalletRow] /\ MatchTypes /\ PotAmounts(escrow)
      /\ RowKept(match, escrow) /\ faults \in 0 .. MaxFaults /\ faults \in Nat
      /\ escrow \in EscrowRow /\ match \in MatchRow
      /\ participants \in [Players -> ParticipantStatus]
  BY InvParts
<1>4. /\ wallets' \in [Players -> WalletRow] /\ InAll(wallets') = InAll(wallets) - EntryFee * x
      /\ \A q \in Players : q # p => wallets'[q] = wallets[q]
  <2>1. op \in {"lockFunds", "unlockFunds", "deductEntryFee"}
    OBVIOUS
  <2>2. p \in Players /\ wallets \in [Players -> WalletRow]
    BY <1>2, <1>3
  <2> QED
    BY <2>1, <2>2, WalletCallDone
<1>5. \A q \in Players :
        \/ wallets'[q].locked \in Nat /\ wallets'[q].locked >= wallets[q].locked
        \/ pc[r] \in Holding /\ job[r].player = {q}
  <2> SUFFICES ASSUME NEW q \in Players, q # p
               PROVE  wallets'[q].locked \in Nat /\ wallets'[q].locked >= wallets[q].locked
    BY <1>1, <1>2
  <2>1. wallets'[q] = wallets[q] /\ wallets[q].locked \in Nat
    BY <1>3, <1>4 DEF WalletRow
  <2> QED
    BY <2>1
<1>6. /\ match' = match /\ participants' = participants /\ escrow' = escrow
      /\ faults' = faults + 0
      /\ escrow'.deposited = escrow.deposited + EntryFee * 0
      /\ Cardinality(Present(participants')) = Cardinality(Present(participants)) + 0
  BY <1>3, MoneyTypes
<1>7. Moves(r, k, j)
  BY GotoMoves
<1>8. j \in Job /\ k \in PC /\ Ended(k, escrow') /\ Link(k, j, participants')
  <2>1. Link(k, job[r], participants') /\ Ended(k, escrow') /\ k \in PC
    BY <1>1, <1>6, JoinLink
  <2> QED
    BY <2>1, JobFacts, NoJobType, IdleLink
<1>9. TablesType' /\ PotAmounts(escrow') /\ RowKept(match', escrow')
  BY <1>3, <1>4, <1>6 DEF TablesType
<1>10. /\ 0 + One(k, "saveParticipant") <= One(pc[r], "saveParticipant") + x
       /\ 0 + One(k, "saveParticipant") + Open(k)
            <= One(pc[r], "saveParticipant") + Open(pc[r]) + 0
       /\ Open(pc[r]) + (0 - x) <= Open(k) + 0 + Freed(r, k)
  BY DEF One, Open, Freed
<1>11. 0 \in 0 .. 1 /\ x \in 0 .. 1
       /\ (escrow.status = "refunded" => escrow'.status = "refunded")
  BY <1>6
<1> HIDE DEF Due, x, j, p
<1> QED
  BY <1>1, <1>4, <1>5, <1>6, <1>7, <1>8, <1>9, <1>10, <1>11, RequestStep

LEMMA DeductFeeStep ==
    ASSUME MatchInv, Meet, NEW r \in Requests, DeductFee(r)
    PROVE  MatchInv'
<1> DEFINE p == Player(r)
<1>1. /\ pc[r] = "deduct"
      /\ WalletCall(r, "deductEntryFee", p, "saveParticipant", "rollback")
  BY DEF DeductFee
<1>2. /\ match' = match /\ participants' = participants /\ escrow' = escrow
      /\ faults' = faults
  BY <1>1 DEF WalletCall
<1>3. CASE /\ Allowed("deductEntryFee", wallets[p], EntryFee)
           /\ wallets' = [wallets EXCEPT ![p] = After("deductEntryFee", wallets[p], EntryFee)]
           /\ Goto(r, "saveParticipant", job[r])
  BY <1>1, <1>2, <1>3, TakesStep
<1>4. CASE /\ ~Allowed("deductEntryFee", wallets[p], EntryFee)
           /\ wallets' = wallets /\ Goto(r, "rollback", job[r])
  <2>1. escrow'.status # "refunded" => Freed(r, "rollback") = 1
    BY <1>1, <1>2, <1>4, DeductRefused
  <2>2. /\ pc[r] \in Joining \ {"findParticipant"} /\ "rollback" \in Holding \cup {"idle"}
        /\ "rollback" \notin Due
    BY <1>1 DEF Joining, Holding, Due
  <2>3. /\ Link("rollback", job[r], participants') /\ Ended("rollback", escrow')
        /\ "rollback" \in PC
    BY <1>2, <2>2, JoinLink
  <2>4. Moves(r, "rollback", job[r]) /\ job[r] \in Job
    BY <1>4, GotoMoves, JobFacts
  <2>5. TablesType' /\ PotAmounts(escrow') /\ RowKept(match', escrow')
    BY <1>2, <1>4, InvParts DEF TablesType
  <2>6. /\ InAll(wallets') = InAll(wallets) - EntryFee * 0
        /\ escrow'.deposited = escrow.deposited + EntryFee * 0
        /\ Cardinality(Present(participants')) = Cardinality(Present(participants)) + 0
        /\ faults' = faults + 0
    BY <1>2, <1>4, InvParts, MoneyTypes
  <2>7. /\ 0 + One("rollback", "saveParticipant") <= One(pc[r], "saveParticipant") + 0
        /\ 0 + One("rollback", "saveParticipant") + Open("rollback")
             <= One(pc[r], "saveParticipant") + Open(pc[r]) + 0
        /\ escrow'.status # "refunded"
             => Open(pc[r]) + (0 - 0) <= Open("rollback") + 0 + Freed(r, "rollback")
    BY <1>1, <2>1 DEF One, Open
  <2>8. \A q \in Players :
          \/ wallets'[q].locked \in Nat /\ wallets'[q].locked >= wallets[q].locked
          \/ pc[r] \in Holding /\ job[r].player = {q}
    BY <1>4, WalletsAlone
  <2>9. 0 \in 0 .. 1 /\ (escrow.status = "refunded" => escrow'.status = "refunded")
    BY <1>2
  <2> HIDE DEF Due
  <2> QED
    BY <1>2, <2>2, <2>3, <2>4, <2>5, <2>6, <2>7, <2>8, <2>9, RequestStep
<1> QED
  BY <1>1, <1>3, <1>4 DEF WalletCall

LEMMA RollbackStep ==
    ASSUME MatchInv, Meet, NEW r \in Requests, Rollback(r)
    PROVE  MatchInv'
<1> DEFINE p == Player(r)
<1>1. pc[r] = "rollback" /\ WalletCall(r, "unlockFunds", p, "idle", "idle")
  BY DEF Rollback
<1>2. /\ match' = match /\ participants' = participants /\ escrow' = escrow
      /\ faults' = faults
  BY <1>1 DEF WalletCall
<1>3. CASE /\ Allowed("unlockFunds", wallets[p], EntryFee)
           /\ wallets' = [wallets EXCEPT ![p] = After("unlockFunds", wallets[p], EntryFee)]
           /\ Goto(r, "idle", job[r])
  BY <1>1, <1>2, <1>3, TakesStep
<1>4. CASE wallets' = wallets /\ Goto(r, "idle", job[r])
  BY <1>1, <1>2, <1>4, SettlesStep
<1> QED
  BY <1>1, <1>3, <1>4 DEF WalletCall

\* The first row of a player that is saved.
LEMMA SaveParticipantStep ==
    ASSUME MatchInv, Meet, NEW r \in Requests, SaveParticipant(r)
    PROVE  MatchInv'
<1> DEFINE p == Player(r)
           ps == [participants EXCEPT ![p] = "joined"]
<1>1. pc[r] = "saveParticipant" /\ UNCHANGED <<match, escrow, wallets, faults>>
  BY DEF SaveParticipant
<1>2. pc[r] \in Joining \ {"findParticipant"} /\ pc[r] \in Holding /\ pc[r] # "deduct"
  BY <1>1 DEF Joining, Holding
<1>3. p \in Players /\ job[r].player = {p}
  BY <1>2, PlayerKnown
<1>4. CASE participants' = participants /\ Goto(r, "rollback", job[r])
  BY <1>1, <1>4, ToRollbackStep
<1>5. CASE p \notin Joined /\ participants' = ps /\ Goto(r, "saveJoined", job[r])
  <2>1. /\ MatchTypes /\ PotAmounts(escrow) /\ RowKept(match, escrow) /\ escrow \in EscrowRow
        /\ EntryFee \in Nat /\ faults \in 0 .. MaxFaults /\ match \in MatchRow
        /\ participants \in [Players -> ParticipantStatus]
        /\ wallets \in [Players -> WalletRow]
    BY InvParts
  <2>2. participants[p] = "none" /\ ps \in [Players -> ParticipantStatus]
    BY <1>3, <1>5, <2>1 DEF Joined, Present, ParticipantStatus
  <2>3. /\ Present(ps) = Present(participants) \cup {p}
        /\ Cardinality(Present(ps)) = Cardinality(Present(participants)) + 1
    BY <1>3, <2>1, <2>2, PresentJoins
  <2>4. participants' = ps
    BY <1>5
  <2> HIDE DEF ps, p
  <2>5. /\ Link("saveJoined", job[r], participants') /\ Ended("saveJoined", escrow')
        /\ "saveJoined" \in PC
    <3>1. "saveJoined" \in Holding \cup {"idle"}
      BY DEF Holding
    <3>2. /\ job[r].player \subseteq Present(participants')
          /\ Present(participants) \subseteq Present(participants')
      BY <1>3, <2>3, <2>4
    <3> QED
      BY <1>2, <3>1, <3>2, JoinLink
  <2>6. Moves(r, "saveJoined", job[r]) /\ job[r] \in Job
    BY <1>5, GotoMoves, JobFacts
  <2>7. TablesType' /\ PotAmounts(escrow') /\ RowKept(match', escrow')
    BY <1>1, <2>1, <2>2, <2>4 DEF TablesType
  <2>8. /\ InAll(wallets') = InAll(wallets) - EntryFee * 0
        /\ escrow'.deposited = escrow.deposited + EntryFee * 0
        /\ Cardinality(Present(participants')) = Cardinality(Present(participants)) + 1
        /\ faults' = faults + 0
    <3>1. wallets' = wallets /\ escrow' = escrow /\ faults' = faults
      BY <1>1
    <3>2. /\ InAll(wallets) \in Nat /\ escrow.deposited \in Nat /\ EntryFee \in Nat
          /\ faults \in Nat
      BY <2>1, MoneyTypes
    <3> QED
      BY <2>3, <2>4, <3>1, <3>2
  <2>9. /\ 1 + One("saveJoined", "saveParticipant") <= One(pc[r], "saveParticipant") + 0
        /\ 1 + One("saveJoined", "saveParticipant") + Open("saveJoined")
             <= One(pc[r], "saveParticipant") + Open(pc[r]) + 0
        /\ Open(pc[r]) + (0 - 0) <= Open("saveJoined") + 0 + Freed(r, "saveJoined")
    BY <1>1 DEF One, Open, Freed
  <2>10. \A q \in Players :
           \/ wallets'[q].locked \in Nat /\ wallets'[q].locked >= wallets[q].locked
           \/ pc[r] \in Holding /\ job[r].player = {q}
    BY <1>1, WalletsAlone
  <2>11. /\ 0 \in 0 .. 1 /\ 1 \in 0 .. 1 /\ "saveJoined" \notin Due
         /\ "saveJoined" \in Holding \cup {"idle"}
         /\ (escrow.status = "refunded" => escrow'.status = "refunded")
         /\ Present(participants) \subseteq Present(participants')
    BY <1>1, <2>3, <2>4 DEF Due, Holding
  <2> HIDE DEF Due
  <2> QED
    BY <1>2, <2>5, <2>6, <2>7, <2>8, <2>9, <2>10, <2>11, RequestStep
<1> QED
  BY <1>4, <1>5 DEF SaveParticipant

\* The final save of joinMatch detaches the participant it has just saved.
LEMMA SaveJoinedStep ==
    ASSUME MatchInv, Meet, NEW r \in Requests, SaveJoined(r)
    PROVE  MatchInv'
<1>1. PICK row : pc[r] = "saveJoined" /\ SaveMatch(r, row, "idle", "rollback")
  BY DEF SaveJoined
<1>2. pc[r] \in Joining
  BY <1>1 DEF Joining, Holding
<1>3. job[r].player = {Player(r)} /\ Player(r) \in Players
  BY <1>2, PlayerKnown
<1>4. /\ Player(r) \in Joined /\ Player(r) \notin Present(job[r].seen)
  <2>1. Link(pc[r], job[r], participants)
    BY JobFacts
  <2>2. job[r].player \subseteq Present(participants)
        /\ job[r].player \cap Present(job[r].seen) = {}
    BY <1>1, <1>2, <2>1 DEF Link
  <2> QED
    BY <1>3, <2>2 DEF Joined
<1>5. /\ Goto(r, "rollback", job[r])
      /\ UNCHANGED <<match, participants, escrow, wallets, faults>>
  BY <1>1, <1>4 DEF SaveMatch
<1> QED
  BY <1>1, <1>5, ToRollbackStep
-----------------------------------------------------------------------------
(* The steps of cancelMatch                                                 *)

LEMMA RefundStep ==
    ASSUME MatchInv, Meet, NEW r \in Requests, Refund(r)
    PROVE  MatchInv'
<1>1. /\ pc[r] = "refund"
      /\ EscrowCall(r, canRefund(escrow), AfterRefund(escrow, escrow.deposited),
                    "findRefunds", "idle")
  BY DEF Refund
<1>2. /\ match' = match /\ participants' = participants /\ wallets' = wallets
      /\ faults' = faults
  BY <1>1 DEF EscrowCall
<1>3. CASE escrow' = escrow /\ Goto(r, "idle", job[r])
  BY <1>1, <1>2, <1>3, SettlesStep
<1>4. CASE /\ canRefund(escrow) /\ escrow' = AfterRefund(escrow, escrow.deposited)
           /\ Goto(r, "findRefunds", job[r])
  <2>1. /\ MatchTypes /\ PotAmounts(escrow) /\ RowKept(match, escrow) /\ escrow \in EscrowRow
        /\ faults \in 0 .. MaxFaults /\ match \in MatchRow
        /\ participants \in [Players -> ParticipantStatus]
        /\ wallets \in [Players -> WalletRow] /\ escrow.status \in {"active", "locked"}
        /\ escrow.deposited \in Nat /\ escrow.balance \in Int
    BY <1>4, InvParts DEF canRefund, EscrowRow
  <2>2. /\ escrow' \in EscrowRow
        /\ escrow'.deposited = escrow.deposited /\ escrow'.released = escrow.released
        /\ escrow'.refunded = escrow.refunded + escrow.deposited /\ escrow'.fee = escrow.fee
        /\ escrow'.balance = escrow.balance - escrow.deposited
    BY <1>4, <2>1, EntityTypes, RefundTotals
  <2>3. escrow.balance = escrow.deposited /\ escrow.released = 0 /\ escrow.fee = 0
        /\ escrow.refunded = 0
    <3>1. escrow.released = 0 /\ escrow.fee = 0 /\ escrow.refunded = 0
      BY <2>1 DEF PotAmounts
    <3>2. escrow.balance = escrow.deposited - escrow.refunded
      BY <2>1 DEF PotAmounts
    <3> QED
      BY <2>1, <3>1, <3>2
  <2>4. escrow'.status = "refunded"
    BY <1>4, <2>1, <2>3 DEF AfterRefund, EscrowRow
  <2>5. PotAmounts(escrow') /\ RowKept(match', escrow')
    BY <1>2, <2>1, <2>2, <2>3, <2>4 DEF PotAmounts, RowKept
  <2>6. Moves(r, "findRefunds", job[r]) /\ job[r] \in Job
    BY <1>4, GotoMoves, JobFacts
  <2>7. /\ "findRefunds" \in PC /\ "findRefunds" \notin Due
        /\ Ended("findRefunds", escrow')
        /\ Link("findRefunds", job[r], participants')
    BY <1>2, <2>4, JobFacts DEF PC, Due, Ended, Link, Joining, Holding
  <2>8. TablesType'
    BY <1>2, <2>1, <2>2 DEF TablesType
  <2>9. /\ Present(participants') = Present(participants)
        /\ pc[r] \notin Holding /\ pc[r] # "deduct"
    BY <1>1, <1>2 DEF Holding
  <2> QED
    BY <1>2, <2>2, <2>4, <2>5, <2>6, <2>7, <2>8, <2>9, QuietStep
<1> QED
  BY <1>1, <1>3, <1>4 DEF EscrowCall

\* Players that are left to refund, of whom there are rows.
LEMMA NextLink ==
    ASSUME MatchInv, NEW r \in Requests, escrow.status = "refunded",
           NEW left \in SUBSET Present(participants), NEW ps, Present(ps) = Present(participants)
    PROVE  LET k == NextUnlock(left)
               j == [job[r] EXCEPT !.players = left]
           IN  /\ k \in PC /\ k \notin Due /\ k # "saveParticipant" /\ k # "idle"
               /\ k \notin Joining /\ Ended(k, escrow) /\ j \in Job /\ Link(k, j, ps)
<1> DEFINE k == NextUnlock(left)
           j == [job[r] EXCEPT !.players = left]
<1>1. job[r] \in Job /\ Present(job[r].seen) \subseteq Present(participants)
  BY JobFacts DEF Link
<1>2. left \in SUBSET Players
  BY DEF Present
<1>3. j \in Job /\ j.players = left /\ j.seen = job[r].seen
  BY <1>1, <1>2 DEF Job
<1>4. k \in {"saveCancelled", "unlock"}
  BY DEF NextUnlock
<1> HIDE DEF j, k
<1>5. /\ k \in PC /\ k \notin Due /\ k \notin Joining /\ Ended(k, escrow)
  BY <1>4 DEF PC, Due, Joining, Holding, Ended
<1>6. Link(k, j, ps)
  BY <1>1, <1>3, <1>4, <1>5 DEF Link
<1> QED
  BY <1>3, <1>4, <1>5, <1>6 DEF j, k

LEMMA FindRefundsStep ==
    ASSUME MatchInv, Meet, NEW r \in Requests, FindRefunds(r)
    PROVE  MatchInv'
<1> DEFINE found == {p \in Players : participants[p] = "joined"}
           k == NextUnlock(found)
           j == [job[r] EXCEPT !.players = found]
<1>1. /\ pc[r] = "findRefunds" /\ Goto(r, k, j)
      /\ UNCHANGED <<match, participants, escrow, wallets>> /\ faults' = faults
  BY DEF FindRefunds, tables
<1>2. escrow.status = "refunded"
  BY <1>1, JobFacts DEF Ended
<1>3. found \in SUBSET Present(participants)
  BY DEF Present
<1> HIDE DEF found
<1>4. /\ k \in PC /\ k \notin Due /\ k # "saveParticipant" /\ k # "idle"
      /\ k \notin Joining /\ Ended(k, escrow) /\ j \in Job /\ Link(k, j, participants)
  BY <1>2, <1>3, NextLink
<1> HIDE DEF k, j
<1>5. Moves(r, k, j)
  BY <1>1, <1>4, GotoMoves
<1>6. pc[r] \notin Holding /\ pc[r] # "deduct"
  BY <1>1 DEF Holding
<1> QED
  BY <1>1, <1>4, <1>5, <1>6, LoadsStep

\* The pot is refunded: the fees in the wallets are no longer in both places.
LEMMA UnlockStep ==
    ASSUME MatchInv, Meet, NEW r \in Requests, Unlock(r)
    PROVE  MatchInv'
<1>1. pc[r] = "unlock" /\ UNCHANGED <<match, participants, escrow, faults>>
  BY DEF Unlock
<1>2. PICK p \in job[r].players :
        \/ /\ Allowed("unlockFunds", wallets[p], EntryFee)
           /\ wallets' = [wallets EXCEPT ![p] = After("unlockFunds", wallets[p], EntryFee)]
           /\ Goto(r, "saveWithdrawn", [job[r] EXCEPT !.player = {p}])
        \/ wallets' = wallets /\ Goto(r, "idle", NoJob)
  BY DEF Unlock
<1>3. /\ job[r].players \subseteq Present(participants) /\ job[r] \in Job
      /\ Present(job[r].seen) \subseteq Present(participants)
      /\ escrow.status = "refunded" /\ p \in Players
  BY <1>1, JobFacts DEF Link, Ended, Present
<1>4. CASE wallets' = wallets /\ Goto(r, "idle", NoJob)
  BY <1>1, <1>4, SettlesStep
<1>5. CASE /\ Allowed("unlockFunds", wallets[p], EntryFee)
           /\ wallets' = [wallets EXCEPT ![p] = After("unlockFunds", wallets[p], EntryFee)]
           /\ Goto(r, "saveWithdrawn", [job[r] EXCEPT !.player = {p}])
  <2> DEFINE j == [job[r] EXCEPT !.player = {p}]
  <2>1. /\ MatchTypes /\ PotAmounts(escrow) /\ RowKept(match, escrow) /\ escrow \in EscrowRow
        /\ EntryFee \in Nat /\ faults \in 0 .. MaxFaults /\ faults \in Nat
        /\ match \in MatchRow /\ participants \in [Players -> ParticipantStatus]
        /\ wallets \in [Players -> WalletRow]
    BY InvParts
  <2>2. wallets' \in [Players -> WalletRow] /\ InAll(wallets') = InAll(wallets) - EntryFee * 0
    <3>1. "unlockFunds" \in {"lockFunds", "unlockFunds", "deductEntryFee"}
      OBVIOUS
    <3> QED
      BY <1>3, <1>5, <2>1, <3>1, WalletCallDone
  <2>3. /\ j \in Job /\ j.player = {p} /\ j.players = job[r].players /\ j.seen = job[r].seen
    BY <1>3 DEF Job
  <2>4. Moves(r, "saveWithdrawn", j)
    BY <1>5, GotoMoves
  <2> HIDE DEF j
  <2>5. /\ Link("saveWithdrawn", j, participants') /\ Ended("saveWithdrawn", escrow')
        /\ "saveWithdrawn" \in PC /\ "saveWithdrawn" \notin Due
        /\ pc[r] \notin Holding
    BY <1>1, <1>3, <2>3 DEF Link, Joining, Holding, Ended, PC, Due
  <2>6. TablesType' /\ PotAmounts(escrow') /\ RowKept(match', escrow')
    BY <1>1, <2>1, <2>2 DEF TablesType
  <2>7. /\ escrow'.deposited = escrow.deposited + EntryFee * 0
        /\ Cardinality(Present(participants')) = Cardinality(Present(participants)) + 0
        /\ faults' = faults + 0
    <3>1. escrow.deposited \in Nat
      BY <2>1, MoneyTypes
    <3> QED
      BY <1>1, <2>1, <3>1, PresentFinite
  <2>8. /\ 0 + One("saveWithdrawn", "saveParticipant") <= One(pc[r], "saveParticipant") + 0
        /\ 0 + One("saveWithdrawn", "saveParticipant") + Open("saveWithdrawn")
             <= One(pc[r], "saveParticipant") + Open(pc[r]) + 0
    BY <1>1 DEF One, Open
  <2>9. /\ 0 \in 0 .. 1 /\ escrow'.status = "refunded" /\ participants' = participants
    BY <1>1, <1>3
  <2> HIDE DEF Due
  <2> QED
    BY <2>2, <2>3, <2>4, <2>5, <2>6, <2>7, <2>8, <2>9, RequestStep
<1> QED
  BY <1>2, <1>4, <1>5

LEMMA SaveWithdrawnStep ==
    ASSUME MatchInv, Meet, NEW r \in Requests, SaveWithdrawn(r)
    PROVE  MatchInv'
<1> DEFINE left == job[r].players \ job[r].player
           j == [job[r] EXCEPT !.players = left]
           k == NextUnlock(left)
           ps == [participants EXCEPT ![Player(r)] = "withdrawn"]
<1>1. /\ pc[r] = "saveWithdrawn" /\ Goto(r, k, j) /\ participants' = ps
      /\ UNCHANGED <<match, escrow, wallets, faults>>
  BY DEF SaveWithdrawn
<1>2. /\ escrow.status = "refunded" /\ job[r].players \subseteq Present(participants)
      /\ \E p \in Present(participants) : job[r].player = {p}
  BY <1>1, JobFacts DEF Ended, Link
<1>3. Player(r) \in Present(participants)
  BY <1>2 DEF Player
<1>4. participants \in [Players -> ParticipantStatus]
  BY InvParts
<1>5. ps \in [Players -> ParticipantStatus] /\ Present(ps) = Present(participants)
  <2>1. Player(r) \in Players /\ participants[Player(r)] # "none"
    BY <1>3 DEF Present
  <2> QED
    BY <1>4, <2>1 DEF Present, ParticipantStatus
<1>6. left \in SUBSET Present(participants)
  BY <1>2
<1> HIDE DEF ps, left
<1>7. /\ k \in PC /\ k \notin Due /\ k # "saveParticipant" /\ k # "idle"
      /\ k \notin Joining /\ Ended(k, escrow) /\ j \in Job /\ Link(k, j, ps)
  BY <1>2, <1>5, <1>6, NextLink
<1> HIDE DEF k, j
<1>8. Moves(r, k, j)
  BY <1>1, <1>7, GotoMoves
<1>9. TablesType' /\ PotAmounts(escrow') /\ RowKept(match', escrow')
  BY <1>1, <1>5, InvParts DEF TablesType
<1>10. /\ pc[r] \notin Holding /\ pc[r] # "deduct" /\ escrow' = escrow
       /\ Present(participants') = Present(participants) /\ wallets' = wallets
       /\ Link(k, j, participants') /\ Ended(k, escrow')
  BY <1>1, <1>5, <1>7 DEF Holding
<1> QED
  BY <1>1, <1>7, <1>8, <1>9, <1>10, QuietStep

\* The loaded statuses of the participants are written back, and there are no
\* other rows.
LEMMA SaveCancelledStep ==
    ASSUME MatchInv, Meet, NEW r \in Requests, SaveCancelled(r)
    PROVE  MatchInv'
<1> DEFINE row == [job[r].row EXCEPT !.status = "cancelled"]
<1>1. pc[r] = "saveCancelled" /\ SaveMatch(r, row, "idle", "idle")
  BY DEF SaveCancelled
<1>2. UNCHANGED <<escrow, wallets, faults>>
  BY <1>1 DEF SaveMatch
<1>3. CASE UNCHANGED <<match, participants>> /\ Goto(r, "idle", job[r])
  BY <1>1, <1>2, <1>3, SettlesStep
<1>4. CASE /\ Joined \subseteq Present(job[r].seen)
           /\ match' = row /\ participants' = job[r].seen /\ Goto(r, "idle", job[r])
  <2>1. /\ job[r].row \in MatchRow /\ job[r].seen \in [Players -> ParticipantStatus]
        /\ Present(job[r].seen) \subseteq Present(participants)
        /\ escrow.status = "refunded"
    BY <1>1, JobFacts DEF Link, Ended
  <2>2. row \in MatchRow /\ row.status = "cancelled"
    BY <2>1 DEF MatchRow, MatchStatus
  <2> HIDE DEF row
  <2>3. Present(participants') = Present(participants)
    BY <1>4, <2>1 DEF Joined
  <2>4. TablesType' /\ PotAmounts(escrow') /\ RowKept(match', escrow')
    BY <1>2, <1>4, <2>1, <2>2, InvParts DEF TablesType, RowKept
  <2>5. Moves(r, "idle", NoJob)
    BY <1>4, GotoMoves
  <2>6. /\ "idle" \in PC /\ NoJob \in Job /\ "idle" \notin Due
        /\ Link("idle", NoJob, participants') /\ Ended("idle", escrow')
        /\ pc[r] # "deduct"
    BY <1>1, NoJobType, IdleLink DEF PC, Due, Ended
  <2> QED
    BY <1>2, <2>3, <2>4, <2>5, <2>6, QuietStep
<1> QED
  BY <1>1, <1>3, <1>4 DEF SaveMatch
-----------------------------------------------------------------------------
(* Faults                                                                   *)

LEMMA RejectStep ==
    ASSUME MatchInv, Meet, NEW r \in Requests, Reject(r)
    PROVE  MatchInv'
<1>1. /\ UNCHANGED <<match, participants, escrow, wallets>>
      /\ faults' = faults + 1 /\ faults < MaxFaults
  BY DEF Reject, tables
<1>2. CASE /\ pc[r] \in {"deposit", "deduct", "saveParticipant", "saveJoined"}
           /\ Goto(r, "rollback", job[r])
  BY <1>1, <1>2, ToRollbackStep
<1>3. CASE Goto(r, "idle", NoJob)
  BY <1>1, <1>3, SettlesStep
<1> QED
  BY <1>2, <1>3 DEF Reject

LEMMA CrashSums ==
    ASSUME NEW d \in Nat, NEW a \in Nat, NEW b \in Nat, NEW R \in Nat,
           NEW sp \in Int, NEW sp2 \in Int, d <= R, b = a + R, sp <= sp2
    PROVE  d + a + sp + (0 - 0) <= 0 + b + sp2
OBVIOUS

\* The process stops: every fee that was yet to be deducted is in both places.
LEMMA CrashStep ==
    ASSUME MatchInv, Meet, Crash
    PROVE  MatchInv'
<1>1. /\ match' = match /\ participants' = participants /\ escrow' = escrow
      /\ wallets' = wallets /\ faults' = faults + 1 /\ faults < MaxFaults
      /\ pc' = [r \in Requests |-> "idle"] /\ job' = [r \in Requests |-> NoJob]
  BY DEF Crash, tables
<1>2. /\ MatchTypes /\ Paid /\ NoneTwice /\ Met /\ Ends /\ PotAmounts(escrow)
      /\ RowKept(match, escrow)
      /\ faults \in Nat /\ faults \in 0 .. MaxFaults /\ met \subseteq Requests /\ meetings \in Nat
      /\ escrow \in EscrowRow /\ match \in MatchRow
      /\ participants \in [Players -> ParticipantStatus]
      /\ wallets \in [Players -> WalletRow]
  BY InvParts
<1>3. Meeting(pc', job') = {}
  BY <1>1 DEF Meeting, Holding
<1>4. met' = {} /\ meetings' = meetings
  <2>1. /\ met' = {q \in met : pc'[q] # "idle"} \cup Meeting(pc', job')
        /\ meetings' = meetings + Cardinality(Meeting(pc', job') \ met)
    BY DEF Meet
  <2>2. Cardinality({} \ met) = 0
    BY FS_EmptySet
  <2> QED
    BY <1>1, <1>2, <1>3, <2>1, <2>2
<1>5. faults' \in Nat /\ faults' \in 0 .. MaxFaults
  BY <1>1, <1>2, MatchmakingAssumption
<1>6. MatchTypes'
  <2>1. pc' \in [Requests -> PC] /\ job' \in [Requests -> Job]
    BY <1>1, NoJobType DEF PC
  <2>2. \A r \in Requests : Link(pc'[r], job'[r], participants')
    BY <1>1, IdleLink
  <2> QED
    BY <1>1, <1>2, <1>4, <1>5, <2>1, <2>2 DEF MatchTypes, TypeOK
<1>7. Ends' /\ Met' /\ Locks'
  BY <1>1, <1>3, <1>4 DEF Ends, Ended, Met, Locks, Due
<1>8. At("saveParticipant", pc') = {} /\ At("deduct", pc') = {}
  BY <1>1 DEF At
<1>9. Count("saveParticipant", pc') = 0 /\ Count("deduct", pc') = 0
  BY <1>8, FS_EmptySet DEF Count
<1>10. Waiting(met', pc') = {} /\ Spent' = meetings' - Cardinality(Waiting(met', pc'))
  BY <1>4 DEF Waiting, Spent
<1>11. /\ Spent \in Int /\ Spent' \in Int /\ Spent <= Spent'
  <2>1. Cardinality(Waiting(met, pc)) \in Nat
    BY <1>2, WaitingFinite
  <2>2. Spent = meetings - Cardinality(Waiting(met, pc))
    BY DEF Spent
  <2>3. Spent' = meetings - 0
    BY <1>4, <1>10, FS_EmptySet
  <2> QED
    BY <1>2, <2>1, <2>2, <2>3
<1> DEFINE R == Cardinality(Requests)
           d == Count("deduct", pc)
           n == Cardinality(Present(participants))
           s == Count("saveParticipant", pc)
<1>12. d \in Nat /\ R \in Nat /\ d <= R /\ n \in Nat /\ s \in Nat
  <2>1. At("deduct", pc) \in SUBSET Requests
    BY DEF At
  <2> QED
    BY <1>2, <2>1, MoneyTypes, FS_Subset, MatchmakingAssumption DEF Count
<1>13. d + faults * R + Spent + (0 - 0) <= 0 + faults' * R + Spent'
  <2> HIDE DEF d, R
  <2>1. faults' * R = faults * R + R /\ faults * R \in Nat /\ faults' * R \in Nat
    BY <1>1, <1>2, <1>12
  <2> QED
    BY <1>11, <1>12, <2>1, CrashSums
<1>14. /\ InAll(wallets') = InAll(wallets) - EntryFee * 0
       /\ escrow'.deposited = escrow.deposited + EntryFee * 0
  BY <1>1, <1>2, MoneyTypes
<1>15. Paid' /\ NoneTwice'
  <2>1. 0 \in 0 .. 1 /\ 0 \in Nat
    OBVIOUS
  <2>2. n + 0 <= n + s + 0 /\ n + 0 + 0 <= n + s + d + 0
    BY <1>12
  <2>3. escrow'.status # "refunded" =>
          /\ escrow.status # "refunded"
          /\ d + faults * R + Spent + (0 - 0) <= 0 + faults' * R + Spent'
    BY <1>1, <1>13
  <2>4. n \in Nat /\ n = Cardinality(Present(participants'))
    BY <1>1, <1>12
  <2> HIDE DEF n, s, d, R
  <2> QED
    BY <1>2, <1>5, <1>9, <1>11, <1>14, <2>1, <2>2, <2>3, <2>4, MoneyMoves DEF n, s, d, R
<1> QED
  BY <1>1, <1>2, <1>6, <1>7, <1>15 DEF MatchInv
-----------------------------------------------------------------------------
(* The invariant                                                            *)

LEMMA MatchInvInit == Init => MatchInv
<1> SUFFICES ASSUME Init PROVE MatchInv
  OBVIOUS
<1>0. /\ IsFiniteSet(Players) /\ Funds \in Nat /\ MaxFaults \in Nat /\ EntryFee \in Nat
      /\ Cardinality(Players) \in Nat /\ Cardinality(Requests) \in Nat
  BY FS_CardinalityType, MatchmakingAssumption
<1>1. /\ match = NoRow /\ escrow = NewEscrow /\ faults = 0
      /\ participants = NoParticipants /\ met = {} /\ meetings = 0
      /\ pc = [r \in Requests |-> "idle"] /\ job = [r \in Requests |-> NoJob]
  BY DEF Init
<1> DEFINE full == After("deposit", NewWallet, Funds)
<1>2. full \in WalletRow /\ Value(full) = Funds
  <2>1. NewWallet \in WalletRow /\ Value(NewWallet) = 0
    BY NewWalletType DEF Value, NewWallet
  <2>2. "deposit" \in WalletOps /\ Allowed("deposit", NewWallet, Funds)
    BY DEF WalletOps, LoggedOps, Allowed
  <2>3. full \in WalletRow
    BY <1>0, <2>1, <2>2, AfterType
  <2>4. Value(full) = Value(NewWallet) + Funds
    BY <1>0, <2>1, <2>2, AfterTotals
  <2> HIDE DEF full
  <2> QED
    BY <1>0, <2>1, <2>3, <2>4
<1>3. wallets = [p \in Players |-> full]
  BY DEF Init
<1> HIDE DEF full
<1>4. MatchTypes
  <2>1. match \in MatchRow /\ escrow \in EscrowRow
    BY <1>1, NewEscrowType DEF NoRow, MatchRow, MatchStatus
  <2>2. participants \in [Players -> ParticipantStatus]
        /\ wallets \in [Players -> WalletRow]
    BY <1>1, <1>2, <1>3 DEF ParticipantStatus, NoParticipants
  <2>3. pc \in [Requests -> PC] /\ job \in [Requests -> Job]
    BY <1>1, NoJobType DEF PC
  <2>4. faults \in 0 .. MaxFaults /\ met \subseteq Requests /\ meetings \in Nat
    BY <1>0, <1>1
  <2>5. \A r \in Requests : Link(pc[r], job[r], participants)
    BY <1>1, IdleLink
  <2> QED
    BY <2>1, <2>2, <2>3, <2>4, <2>5 DEF MatchTypes, TypeOK
<1>5. PotAmounts(escrow) /\ RowKept(match, escrow)
  BY <1>1 DEF NewEscrow, PotAmounts, RowKept, NoRow
<1>6. Ends /\ Met /\ Locks
  BY <1>1 DEF Ends, Ended, Met, Meeting, Holding, Locks, Due
<1>7. InAll(wallets) = Funds * Cardinality(Players)
  <2>1. Purse(wallets) = [p \in Players |-> Funds]
    BY <1>2, <1>3 DEF Purse
  <2>2. Total([p \in Players |-> Funds]) = Funds * Cardinality(Players)
    BY <1>0, TotalConstant
  <2> QED
    BY <2>1, <2>2 DEF InAll
<1>8. /\ Present(participants) = {} /\ At("saveParticipant", pc) = {}
      /\ At("deduct", pc) = {} /\ Waiting(met, pc) = {}
  BY <1>1 DEF Present, At, NoParticipants, Waiting
<1>9. /\ Cardinality(Present(participants)) = 0 /\ Count("saveParticipant", pc) = 0
      /\ Count("deduct", pc) = 0 /\ Spent = 0
  <2>1. Spent = 0 - 0
    BY <1>1, <1>8, FS_EmptySet DEF Spent
  <2> QED
    BY <1>8, <2>1, FS_EmptySet DEF Count
<1> DEFINE all == Funds * Cardinality(Players)
<1>10. all \in Nat /\ EntryFee * 0 = 0 /\ escrow.deposited = 0
       /\ 0 * Cardinality(Requests) = 0
  BY <1>0, <1>1, NatTimes DEF NewEscrow
<1> HIDE DEF all
<1>11. Paid
  <2>1. InAll(wallets) + EntryFee * (0 + 0) <= all
        /\ EntryFee * (0 + 0 + 0) <= escrow.deposited
    BY <1>7, <1>10 DEF all
  <2> QED
    BY <1>9, <2>1 DEF Paid, all
<1>12. NoneTwice
  <2>1. InAll(wallets) + escrow.deposited
          <= all + EntryFee * (0 + 0 * Cardinality(Requests) + 0)
    BY <1>7, <1>10 DEF all
  <2> QED
    BY <1>1, <1>9, <2>1 DEF NoneTwice, all
<1> QED
  BY <1>4, <1>5, <1>6, <1>11, <1>12 DEF MatchInv

LEMMA MatchInvNext ==
    ASSUME MatchInv, Next
    PROVE  MatchInv'
<1>1. Step /\ Meet
  BY DEF Next
<1>2. CASE Crash
  BY <1>1, <1>2, CrashStep
<1>3. ASSUME NEW r \in Requests, JoinMatch(r)
      PROVE  MatchInv'
  <2> USE <1>1
  <2>1. CASE JoinLoad(r)
    BY <2>1, LoadStarts
  <2>2. CASE FindParticipant(r)
    BY <2>2, FindParticipantStep
  <2>3. CASE LockFunds(r)
    BY <2>3, LockFundsStep
  <2>4. CASE DepositFee(r)
    BY <2>4, DepositFeeStep
  <2>5. CASE DeductFee(r)
    BY <2>5, DeductFeeStep
  <2>6. CASE SaveParticipant(r)
    BY <2>6, SaveParticipantStep
  <2>7. CASE SaveJoined(r)
    BY <2>7, SaveJoinedStep
  <2>8. CASE Rollback(r)
    BY <2>8, RollbackStep
  <2> QED
    BY <1>3, <2>1, <2>2, <2>3, <2>4, <2>5, <2>6, <2>7, <2>8 DEF JoinMatch
<1>4. ASSUME NEW r \in Requests, CancelMatch(r)
      PROVE  MatchInv'
  <2> USE <1>1
  <2>1. CASE CancelLoad(r)
    BY <2>1, LoadStarts
  <2>2. CASE Refund(r)
    BY <2>2, RefundStep
  <2>3. CASE FindRefunds(r)
    BY <2>3, FindRefundsStep
  <2>4. CASE Unlock(r)
    BY <2>4, UnlockStep
  <2>5. CASE SaveWithdrawn(r)
    BY <2>5, SaveWithdrawnStep
  <2>6. CASE SaveCancelled(r)
    BY <2>6, SaveCancelledStep
  <2> QED
    BY <1>4, <2>1, <2>2, <2>3, <2>4, <2>5, <2>6 DEF CancelMatch
<1>5. ASSUME NEW r \in Requests, Reject(r)
      PROVE  MatchInv'
  BY <1>1, <1>5, RejectStep
<1> QED
  BY <1>1, <1>2, <1>3, <1>4, <1>5 DEF Step

LEMMA MatchInvStays ==
    ASSUME MatchInv, UNCHANGED vars
    PROVE  MatchInv'
<1>1. /\ match' = match /\ participants' = participants /\ escrow' = escrow
      /\ wallets' = wallets /\ pc' = pc /\ job' = job /\ faults' = faults
      /\ met' = met /\ meetings' = meetings
  BY DEF vars
<1> QED
  BY <1>1 DEF MatchInv, MatchTypes, TypeOK, Ends, Paid, NoneTwice, Met, Locks, Spent

\* The invariant holds for any number of requests and players, whatever fails.
THEOREM MatchInvariant == Spec => []MatchInv
<1>1. MatchInv /\ [Next]_vars => MatchInv'
  BY MatchInvNext, MatchInvStays
<1> QED
  BY <1>1, MatchInvInit, PTL DEF Spec

\* What the rows, the requests and their jobs hold has its type.
THEOREM MatchTypesCorrect == Spec => []TypeOK
<1>1. MatchInv => TypeOK
  BY DEF MatchInv, MatchTypes
<1> QED
  BY <1>1, MatchInvariant, PTL

\* No money appears between the wallets and the pot of a match: no more than
\* the joins whose deduction failed, and those that met another of their
\* player, left in both.
THEOREM MoneyKept == Spec => []NoMoneyCreated
<1>1. MatchInv => NoMoneyCreated
  <2> SUFFICES ASSUME MatchInv PROVE NoMoneyCreated
    OBVIOUS
  <2>1. MatchTypes /\ Paid /\ NoneTwice /\ PotAmounts(escrow) /\ met \subseteq Requests
        /\ escrow \in EscrowRow
    BY InvParts
  <2> DEFINE n == Cardinality(Present(participants))
             s == Count("saveParticipant", pc)
             d == Count("deduct", pc)
             f == faults * Cardinality(Requests)
             all == Funds * Cardinality(Players)
  <2>2. /\ n \in Nat /\ d \in Nat /\ s \in Nat /\ f \in Nat /\ EntryFee \in Nat
        /\ all \in Nat /\ InAll(wallets) \in Nat /\ escrow.deposited \in Nat
        /\ meetings \in Nat
    BY <2>1, MoneyTypes, NatTimes
  <2>3. InAll(wallets) + EntryFee * (n + s) <= all
    BY <2>1 DEF Paid
  <2>4. escrow.status # "refunded" =>
          InAll(wallets) + escrow.deposited <= all + EntryFee * (d + f + Spent)
    BY <2>1 DEF NoneTwice
  <2>5. /\ Cardinality(Joined) = n /\ InWallets = InAll(wallets)
        /\ Cardinality({r \in Requests : pc[r] = "deduct"}) = d
    BY SumsOfWallets DEF Count, At, Joined
  <2>6. /\ escrow.balance = escrow.deposited - escrow.refunded /\ escrow.fee = 0
        /\ escrow.refunded \in Nat /\ escrow.balance \in Int
        /\ escrow.status = "refunded" => escrow.balance = 0
    BY <2>1 DEF PotAmounts, EscrowRow
  <2>7. Spent \in Int /\ Spent <= meetings
    <3>1. Cardinality(Waiting(met, pc)) \in Nat
      BY <2>1, WaitingFinite
    <3> QED
      BY <2>2, <3>1 DEF Spent
  <2> HIDE DEF n, s, d, f, all
  <2>8. EntryFee * n <= EntryFee * (n + s) /\ EntryFee * n \in Nat
        /\ EntryFee * (n + s) \in Nat /\ EntryFee * (d + f + meetings) \in Nat
    <3>1. n + s \in Nat /\ d + f + meetings \in Nat /\ n <= n + s
      BY <2>2
    <3> QED
      BY <2>2, <3>1, Grows, NatTimes
  <2>9. EntryFee * (d + f + Spent) <= EntryFee * (d + f + meetings)
        /\ EntryFee * (d + f + Spent) \in Int
    <3>1. /\ d + f + Spent \in Int /\ d + f + meetings \in Int
          /\ d + f + Spent <= d + f + meetings
      BY <2>2, <2>7
    <3> QED
      BY <2>2, <3>1, Grows
  <2>10. InAll(wallets) + EntryFee * n <= all
    BY <2>2, <2>3, <2>8
  <2>11. InAll(wallets) + escrow.balance + escrow.fee <= all + EntryFee * (d + f + meetings)
    <3>1. CASE escrow.status # "refunded"
      BY <2>2, <2>4, <2>6, <2>8, <2>9, <3>1
    <3>2. CASE escrow.status = "refunded"
      BY <2>2, <2>6, <2>8, <2>10, <3>2
    <3> QED
      BY <3>1, <3>2
  <2> QED
    BY <2>5, <2>10, <2>11 DEF NoMoneyCreated, all, f
<1> QED
  BY <1>1, MatchInvariant, PTL

\* The match never says more than its escrow, and its row stays as it was made
\* until it is cancelled.
THEOREM MatchKeepsToEscrow == Spec => []MatchMatchesEscrow
<1>1. MatchInv => MatchMatchesEscrow
  <2> SUFFICES ASSUME MatchInv PROVE MatchMatchesEscrow
    OBVIOUS
  <2>1. MatchTypes /\ Paid /\ RowKept(match, escrow)
    BY InvParts
  <2> DEFINE n == Cardinality(Present(participants))
             s == Count("saveParticipant", pc)
             d == Count("deduct", pc)
  <2>2. n \in Nat /\ d \in Nat /\ s \in Nat /\ EntryFee \in Nat /\ escrow.deposited \in Nat
    BY <2>1, MoneyTypes
  <2>3. EntryFee * (n + s + d) <= escrow.deposited
    BY <2>1 DEF Paid
  <2> HIDE DEF n, s, d
  <2>4. EntryFee * n <= EntryFee * (n + s + d) /\ EntryFee * n \in Nat
        /\ EntryFee * (n + s + d) \in Nat
    <3>1. n + s + d \in Nat /\ n <= n + s + d
      BY <2>2
    <3> QED
      BY <2>2, <3>1, Grows, NatTimes
  <2>5. EntryFee * n <= escrow.deposited
    BY <2>2, <2>3, <2>4
  <2> QED
    BY <2>1, <2>5 DEF MatchMatchesEscrow, RowKept, Joined, n
<1> QED
  BY <1>1, MatchInvariant, PTL
=============================================================================
