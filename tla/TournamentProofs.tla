--------------------------- MODULE TournamentProofs ---------------------------
(***************************************************************************)
(* Theorems about PrizeDistribution.tla (the records, the escrow and the    *)
(* wallets of a prize distribution agree) and Tournament.tla (entries are   *)
(* paid for and no money is made; a completed tournament has paid; its      *)
(* bracket decides; the prizes go where the bracket says),                  *)
(* for every set of players, every fee or pot and any number of requests    *)
(* and faults.                                                              *)
(***************************************************************************)
EXTENDS MCTournament, LedgerProofs

-----------------------------------------------------------------------------
(* Positions                                                                *)

\* The positions in a finite set have an order.
LEMMA InOrderIs ==
    ASSUME NEW H \in SUBSET Nat, IsFiniteSet(H)
    PROVE  /\ Cardinality(H) \in Nat
           /\ InOrder(H) \in [1 .. Cardinality(H) -> H]
           /\ \A a, b \in 1 .. Cardinality(H) : a < b => InOrder(H)[a] < InOrder(H)[b]
<1> DEFINE n == Cardinality(H)
           upto(i) == {j \in H : j <= i}
           rank == [i \in H |-> Cardinality(upto(i))]
<1>1. n \in Nat
  BY FS_CardinalityType
<1>2. \A i \in H : /\ IsFiniteSet(upto(i)) /\ rank[i] \in 1 .. n
                   /\ rank[i] = Cardinality(upto(i))
  <2> TAKE i \in H
  <2>1. upto(i) \in SUBSET H /\ i \in upto(i)
    OBVIOUS
  <2>2. /\ IsFiniteSet(upto(i)) /\ Cardinality(upto(i)) <= n
        /\ Cardinality(upto(i)) \in Nat
    BY <2>1, FS_Subset, FS_CardinalityType
  <2>3. Cardinality(upto(i)) # 0
    BY <2>1, <2>2, FS_EmptySet
  <2> QED
    BY <1>1, <2>2, <2>3
<1>3. ASSUME NEW i \in H, NEW k \in H, i < k
      PROVE  rank[i] < rank[k]
  <2>1. upto(i) \in SUBSET upto(k) /\ k \in upto(k) /\ k \notin upto(i)
    <3>1. i \in Nat /\ k \in Nat /\ i <= k /\ ~(k <= i) /\ k <= k
      BY <1>3
    <3>2. \A j \in H : j <= i => j <= k
      BY <3>1
    <3> QED
      BY <3>1, <3>2
  <2>2. IsFiniteSet(upto(k)) /\ upto(i) # upto(k)
    BY <1>2, <2>1
  <2> DEFINE A == upto(i)
             B == upto(k)
  <2>3. A \in SUBSET B /\ IsFiniteSet(B) /\ A # B
    BY <2>1, <2>2
  <2>4. rank[i] = Cardinality(A) /\ rank[k] = Cardinality(B)
        /\ rank[i] \in 1 .. n /\ rank[k] \in 1 .. n
    BY <1>2
  <2> HIDE DEF A, B, rank
  <2>5. Cardinality(A) <= Cardinality(B) /\ (Cardinality(A) = Cardinality(B) => A = B)
    BY <2>3, FS_Subset
  <2> QED
    BY <1>1, <2>3, <2>4, <2>5
<1>4. \A i, k \in H : rank[i] = rank[k] => i = k
  <2> TAKE i, k \in H
  <2>1. i \in Nat /\ k \in Nat /\ rank[i] \in 1 .. n /\ rank[k] \in 1 .. n
    BY <1>2
  <2>2. i < k => rank[i] < rank[k]
    BY <1>3
  <2>3. k < i => rank[k] < rank[i]
    BY <1>3
  <2> HIDE DEF rank
  <2> QED
    BY <1>1, <2>1, <2>2, <2>3
<1> HIDE DEF upto
<1>5. rank \in [H -> 1 .. n]
  BY <1>2
<1> HIDE DEF rank
<1>6. IsFiniteSet(1 .. n) /\ Cardinality(1 .. n) = n
  <2>1. 1 \in Int /\ n \in Int /\ (IF 1 > n THEN 0 ELSE n - 1 + 1) = n
    BY <1>1
  <2> QED
    BY <2>1, FS_Interval
<1>7. \A k \in 1 .. n : \E i \in H : rank[i] = k
  <2>1. rank \in Injection(H, 1 .. n)
    BY <1>4, <1>5 DEF Injection, IsInjective
  <2>2. rank \in Surjection(H, 1 .. n)
    BY <1>6, <2>1, FS_Injection
  <2> QED
    BY <2>2 DEF Surjection
<1> DEFINE s == [k \in 1 .. n |-> CHOOSE i \in H : rank[i] = k]
<1>8. \A k \in 1 .. n : s[k] \in H /\ rank[s[k]] = k
  BY <1>7
<1>9. s \in [1 .. n -> H] /\ \A a, b \in DOMAIN s : a < b => s[a] < s[b]
  <2>1. s \in [1 .. n -> H]
    BY <1>8
  <2>2. ASSUME NEW a \in 1 .. n, NEW b \in 1 .. n, a < b
        PROVE  s[a] < s[b]
    <3>1. s[a] \in H /\ s[b] \in H /\ rank[s[a]] = a /\ rank[s[b]] = b
      BY <1>8
    <3> DEFINE x == s[a]
               y == s[b]
    <3>2. x \in H /\ y \in H /\ rank[x] = a /\ rank[y] = b /\ x \in Nat /\ y \in Nat
      BY <3>1
    <3> HIDE DEF x, y, s
    <3>3. y < x => rank[y] < rank[x]
      BY <1>3, <3>2
    <3>4. x # y
      BY <2>2, <3>2
    <3>5. ~(y < x)
      BY <2>2, <3>2, <3>3
    <3>6. x < y
      BY <3>2, <3>4, <3>5
    <3> QED
      BY <3>6 DEF x, y
  <2> QED
    BY <2>1, <2>2
<1> HIDE DEF s
<1>10. /\ InOrder(H) \in [1 .. n -> H]
       /\ \A a, b \in DOMAIN InOrder(H) : a < b => InOrder(H)[a] < InOrder(H)[b]
  BY <1>9 DEF InOrder
<1> QED
  BY <1>1, <1>10

\* A sum over one position more.
LEMMA TotalNext ==
    ASSUME NEW n \in Nat, NEW f \in [1 .. n + 1 -> Nat]
    PROVE  /\ [y \in 1 .. n |-> f[y]] \in [1 .. n -> Nat]
           /\ f[n + 1] \in Nat
           /\ Total([y \in 1 .. n |-> f[y]]) \in Nat
           /\ Total(f) = Total([y \in 1 .. n |-> f[y]]) + f[n + 1]
<1>1. 1 .. n + 1 = (1 .. n) \cup {n + 1} /\ n + 1 \notin 1 .. n
  OBVIOUS
<1>2. [y \in 1 .. n |-> f[y]] \in [1 .. n -> Nat] /\ f[n + 1] \in Nat
  BY <1>1
<1>3. Summable([y \in 1 .. n |-> f[y]])
  <2>1. IsFiniteSet(1 .. n)
    BY FS_Interval
  <2> QED
    BY <1>2, <2>1, FiniteSummable
<1>4. f \in [(1 .. n) \cup {n + 1} -> Nat]
  BY <1>1
<1>5. Total([y \in 1 .. n |-> f[y]]) \in Nat
  BY <1>3, TotalType
<1> QED
  BY <1>1, <1>2, <1>3, <1>4, <1>5, TotalAdd

\* Sums of up to three terms.
LEMMA TotalOfThree ==
    /\ \A f \in [1 .. 1 -> Nat] : Total(f) = f[1]
    /\ \A f \in [1 .. 2 -> Nat] : Total(f) = f[1] + f[2]
    /\ \A f \in [1 .. 3 -> Nat] : Total(f) = f[1] + f[2] + f[3]
<1>1. ASSUME NEW n \in Nat, NEW f \in [1 .. n + 1 -> Nat]
      PROVE  /\ [y \in 1 .. n |-> f[y]] \in [1 .. n -> Nat]
             /\ f[n + 1] \in Nat
             /\ Total(f) = Total([y \in 1 .. n |-> f[y]]) + f[n + 1]
  BY <1>1, TotalNext
<1>2. ASSUME NEW f \in [1 .. 0 -> Nat]
      PROVE  Total(f) = 0
  <2>1. f \in [{} -> Nat] /\ \A x \in {} : f[x] = 0
    OBVIOUS
  <2> QED
    BY <2>1, TotalZero
<1>3. ASSUME NEW f \in [1 .. 1 -> Nat]
      PROVE  Total(f) = f[1]
  <2>1. f \in [1 .. 0 + 1 -> Nat]
    OBVIOUS
  <2>2. /\ [y \in 1 .. 0 |-> f[y]] \in [1 .. 0 -> Nat] /\ f[0 + 1] \in Nat
        /\ Total(f) = Total([y \in 1 .. 0 |-> f[y]]) + f[0 + 1]
    BY <2>1, <1>1
  <2>3. Total([y \in 1 .. 0 |-> f[y]]) = 0
    BY <2>2, <1>2
  <2> QED
    BY <2>2, <2>3
<1>4. ASSUME NEW f \in [1 .. 2 -> Nat]
      PROVE  Total(f) = f[1] + f[2]
  <2>1. f \in [1 .. 1 + 1 -> Nat]
    OBVIOUS
  <2>2. /\ [y \in 1 .. 1 |-> f[y]] \in [1 .. 1 -> Nat] /\ f[1 + 1] \in Nat
        /\ Total(f) = Total([y \in 1 .. 1 |-> f[y]]) + f[1 + 1]
    BY <2>1, <1>1
  <2>3. Total([y \in 1 .. 1 |-> f[y]]) = f[1]
    <3>1. Total([y \in 1 .. 1 |-> f[y]]) = [y \in 1 .. 1 |-> f[y]][1]
      BY <2>2, <1>3
    <3> QED
      BY <3>1
  <2> QED
    BY <2>2, <2>3
<1>5. ASSUME NEW f \in [1 .. 3 -> Nat]
      PROVE  Total(f) = f[1] + f[2] + f[3]
  <2>1. f \in [1 .. 2 + 1 -> Nat]
    OBVIOUS
  <2>2. /\ [y \in 1 .. 2 |-> f[y]] \in [1 .. 2 -> Nat] /\ f[2 + 1] \in Nat
        /\ Total(f) = Total([y \in 1 .. 2 |-> f[y]]) + f[2 + 1]
    BY <2>1, <1>1
  <2>3. Total([y \in 1 .. 2 |-> f[y]]) = f[1] + f[2]
    <3>1. Total([y \in 1 .. 2 |-> f[y]])
            = [y \in 1 .. 2 |-> f[y]][1] + [y \in 1 .. 2 |-> f[y]][2]
      BY <2>2, <1>4
    <3> QED
      BY <3>1
  <2> QED
    BY <2>2, <2>3
<1> QED
  BY <1>3, <1>4, <1>5

-----------------------------------------------------------------------------
(* Prizes *)

Entry(P) == [player : P, amount : Nat, status : EntryStatus]

PlaceRow == [place : Nat, percentage : Nat, isMvp : BOOLEAN]

Share(structure, distributable) ==
    [i \in DOMAIN structure |-> (distributable * structure[i].percentage) \div 100]

LEMMA ShareType ==
    ASSUME NEW structure \in Seq(PlaceRow), NEW d \in Nat
    PROVE  /\ Share(structure, d) \in [DOMAIN structure -> Nat]
           /\ Summable(Share(structure, d))
           /\ IsFiniteSet(DOMAIN structure)
           /\ DOMAIN structure = 1 .. Len(structure)
<1>1. DOMAIN structure = 1 .. Len(structure) /\ Len(structure) \in Nat
  OBVIOUS
<1>2. IsFiniteSet(DOMAIN structure)
  BY <1>1, FS_Interval
<1>3. ASSUME NEW i \in DOMAIN structure
      PROVE  (d * structure[i].percentage) \div 100 \in Nat
  <2>1. structure[i].percentage \in Nat
    <3>1. structure[i] \in PlaceRow
      OBVIOUS
    <3> QED
      BY <3>1 DEF PlaceRow
  <2> DEFINE a == d * structure[i].percentage
  <2>2. a \in Nat
    BY <2>1
  <2> HIDE DEF a
  <2>3. a \div 100 \in Nat
    BY <2>2
  <2> QED
    BY <2>3 DEF a
<1>4. Share(structure, d) \in [DOMAIN structure -> Nat]
  BY <1>3 DEF Share
<1> QED
  BY <1>1, <1>2, <1>4, FiniteSummable

LEMMA ShareOfThree ==
    ASSUME NEW structure \in Seq(PlaceRow), Len(structure) = 3, NEW d \in Nat
    PROVE  Total(Share(structure, d)) = (d * structure[1].percentage) \div 100
                                          + (d * structure[2].percentage) \div 100
                                          + (d * structure[3].percentage) \div 100
<1> DEFINE f == Share(structure, d)
<1>1. DOMAIN structure = 1 .. 3
  OBVIOUS
<1>2. f \in [1 .. 3 -> Nat]
  BY <1>1, ShareType
<1>3. \A i \in 1 .. 3 : f[i] = (d * structure[i].percentage) \div 100
  BY <1>1 DEF Share
<1> HIDE DEF f
<1>4. Total(f) = f[1] + f[2] + f[3]
  BY <1>2, TotalOfThree
<1> QED
  BY <1>3, <1>4 DEF f

\* Prizes are entries of holders, all pending, and no more than the shares.
LEMMA DistributionIs ==
    ASSUME NEW P, NEW structure \in Seq(PlaceRow),
           NEW holders \in [DOMAIN structure -> P \cup {Nobody}], NEW d \in Nat
    PROVE  LET prizes == Distribution(structure, holders, d)
           IN  /\ prizes \in Seq(Entry(P))
               /\ \A k \in DOMAIN prizes : prizes[k].status = "pending"
               /\ totalDistribution(prizes) <= Total(Share(structure, d))
<1> DEFINE H == {i \in DOMAIN structure : holders[i] # Nobody}
           given == InOrder(H)
           n == Cardinality(H)
           prizes == Distribution(structure, holders, d)
<1>1. /\ IsFiniteSet(DOMAIN structure) /\ DOMAIN structure = 1 .. Len(structure)
      /\ Share(structure, d) \in [DOMAIN structure -> Nat]
      /\ Summable(Share(structure, d))
  BY ShareType
<1>2. H \in SUBSET Nat /\ H \in SUBSET DOMAIN structure /\ IsFiniteSet(H)
  BY <1>1, FS_Subset
<1>3. /\ n \in Nat /\ given \in [1 .. n -> H]
      /\ \A a, b \in 1 .. n : a < b => given[a] < given[b]
  <2> HIDE DEF H
  <2> QED
    BY <1>2, InOrderIs
<1>4. prizes = [k \in 1 .. n |->
                  [player |-> holders[given[k]],
                   amount |-> (d * structure[given[k]].percentage) \div 100,
                   status |-> "pending"]]
  <2>1. DOMAIN given = 1 .. n
    BY <1>3
  <2> QED
    BY <2>1 DEF Distribution
<1>5. ASSUME NEW k \in 1 .. n
      PROVE  /\ given[k] \in DOMAIN structure /\ holders[given[k]] \in P
             /\ (d * structure[given[k]].percentage) \div 100 = Share(structure, d)[given[k]]
             /\ Share(structure, d)[given[k]] \in Nat
  <2>1. given[k] \in H
    BY <1>3
  <2>2. given[k] \in DOMAIN structure /\ holders[given[k]] # Nobody
    BY <2>1
  <2> HIDE DEF given
  <2> QED
    BY <1>1, <2>2 DEF Share
<1> HIDE DEF given, H, prizes, n
<1>6. /\ DOMAIN prizes = 1 .. n
      /\ \A k \in 1 .. n : /\ prizes[k] \in Entry(P) /\ prizes[k].status = "pending"
                           /\ prizes[k].amount = Share(structure, d)[given[k]]
  BY <1>4, <1>5 DEF Entry, EntryStatus
<1>7. prizes \in Seq(Entry(P))
  <2>1. prizes \in [1 .. n -> Entry(P)]
    BY <1>4, <1>6
  <2> QED
    BY <1>3, <2>1
<1>8. totalDistribution(prizes) <= Total(Share(structure, d))
  <2>1. Amounts(prizes) \in [1 .. n -> Nat]
    BY <1>5, <1>6 DEF Amounts
  <2>2. given \in [1 .. n -> DOMAIN structure]
    BY <1>3, <1>5
  <2>3. \A x, y \in 1 .. n : given[x] = given[y] => x = y
    <3> TAKE x, y \in 1 .. n
    <3>1. given[x] \in Nat /\ given[y] \in Nat /\ x \in Nat /\ y \in Nat
      BY <1>1, <1>5
    <3> QED
      BY <1>3, <3>1
  <2>4. \A x \in 1 .. n : Amounts(prizes)[x] <= Share(structure, d)[given[x]]
    BY <1>5, <1>6 DEF Amounts
  <2> QED
    BY <1>1, <2>1, <2>2, <2>3, <2>4, TotalAtMost DEF totalDistribution
<1> QED
  BY <1>6, <1>7, <1>8 DEF prizes

LEMMA AmountsType ==
    ASSUME NEW P, NEW prizes \in Seq(Entry(P))
    PROVE  /\ DOMAIN prizes = 1 .. Len(prizes) /\ Len(prizes) \in Nat
           /\ Amounts(prizes) \in [DOMAIN prizes -> Nat]
           /\ \A k \in DOMAIN prizes : Amounts(prizes)[k] = prizes[k].amount
           /\ Summable(Amounts(prizes))
           /\ totalDistribution(prizes) \in Nat
<1>1. DOMAIN prizes = 1 .. Len(prizes) /\ Len(prizes) \in Nat
  OBVIOUS
<1>2. \A k \in DOMAIN prizes : prizes[k] \in Entry(P)
  OBVIOUS
<1>3. Amounts(prizes) \in [DOMAIN prizes -> Nat]
  BY <1>2 DEF Amounts, Entry
<1>4. IsFiniteSet(DOMAIN prizes)
  BY <1>1, FS_Interval
<1>5. Summable(Amounts(prizes))
  BY <1>3, <1>4, FiniteSummable
<1> QED
  BY <1>1, <1>3, <1>5, TotalType DEF totalDistribution, Amounts

\* The prizes of a match are no more than what is there to distribute.
LEMMA MatchPrizesAre ==
    ASSUME NEW strategy \in DOMAIN PrizeStructure, NEW ranking \in Seq(Contestants),
           NEW mvp \in Contestants \cup {Nobody}, NEW d \in Nat
    PROVE  LET prizes == MatchPrizes(strategy, ranking, mvp, d)
           IN  /\ prizes \in Seq(Prizes)
               /\ \A k \in DOMAIN prizes : prizes[k].status = "pending"
               /\ totalDistribution(prizes) <= d
<1> DEFINE structure == PrizeStructure[strategy]
           holders == [i \in DOMAIN structure |->
                         matchRecipient(ranking, mvp, structure[i])]
           prizes == MatchPrizes(strategy, ranking, mvp, d)
<1>1. CASE ranking = <<>>
  <2>1. prizes = <<>>
    BY <1>1 DEF MatchPrizes
  <2>2. Amounts(<<>>) \in [{} -> Nat] /\ \A x \in {} : Amounts(<<>>)[x] = 0
    BY DEF Amounts
  <2>3. totalDistribution(<<>>) = 0
    BY <2>2, TotalZero DEF totalDistribution
  <2> QED
    BY <2>1, <2>3
<1>2. CASE ranking # <<>>
  <2>1. prizes = Distribution(structure, holders, d)
    BY <1>2 DEF MatchPrizes
  <2>2. /\ structure \in Seq(PlaceRow)
        /\ Total(Share(structure, d)) <= d
    <3>1. CASE strategy = "winner_takes_all"
      <4> DEFINE a == (d * 100) \div 100
      <4>1. structure = <<Place(1, 100)>>
        BY <3>1 DEF PrizeStructure
      <4>2. structure \in Seq(PlaceRow)
        BY <4>1 DEF Place, PlaceRow
      <4>3. Share(structure, d) = [i \in 1 .. 1 |-> a]
        BY <4>1 DEF Share, Place
      <4>4. a \in Nat /\ a <= d
        OBVIOUS
      <4> HIDE DEF a
      <4>5. Total(Share(structure, d)) = a
        <5>1. [i \in 1 .. 1 |-> a] \in [1 .. 1 -> Nat] /\ [i \in 1 .. 1 |-> a][1] = a
          BY <4>4
        <5> QED
          BY <4>3, <5>1, TotalOfThree
      <4> QED
        BY <4>2, <4>4, <4>5
    <3>2. CASE strategy = "top_3_split"
      <4>1. structure = <<Place(1, 60), Place(2, 30), Place(3, 10)>>
        BY <3>2 DEF PrizeStructure
      <4>2. \A i, n \in Nat : Place(i, n) \in PlaceRow /\ Place(i, n).percentage = n
        BY DEF Place, PlaceRow
      <4>3. /\ structure \in Seq(PlaceRow) /\ Len(structure) = 3
            /\ structure[1].percentage = 60 /\ structure[2].percentage = 30
            /\ structure[3].percentage = 10
        BY <4>1, <4>2
      <4> HIDE DEF structure
      <4>4. Total(Share(structure, d))
              = (d * 60) \div 100 + (d * 30) \div 100 + (d * 10) \div 100
        <5>1. Total(Share(structure, d)) = (d * structure[1].percentage) \div 100
                                              + (d * structure[2].percentage) \div 100
                                              + (d * structure[3].percentage) \div 100
          BY <4>3, ShareOfThree
        <5> QED
          BY <4>3, <5>1
      <4>5. (d * 60) \div 100 + (d * 30) \div 100 + (d * 10) \div 100 <= d
        OBVIOUS
      <4> QED
        BY <4>3, <4>4, <4>5
    <3>3. CASE strategy = "performance_mvp"
      <4> DEFINE first == Place(0, 10)
                 last == [first EXCEPT !.isMvp = TRUE]
      <4>1. structure = <<Place(1, 70), Place(2, 20), last>>
        BY <3>3 DEF PrizeStructure
      <4>2. \A i, n \in Nat : Place(i, n) \in PlaceRow /\ Place(i, n).percentage = n
        BY DEF Place, PlaceRow
      <4>3. last \in PlaceRow /\ last.percentage = 10
        <5>1. first \in PlaceRow /\ first.percentage = 10
          BY <4>2
        <5> HIDE DEF first
        <5> QED
          BY <5>1 DEF PlaceRow
      <4> HIDE DEF last
      <4>4. /\ structure \in Seq(PlaceRow) /\ Len(structure) = 3
            /\ structure[1].percentage = 70 /\ structure[2].percentage = 20
            /\ structure[3].percentage = 10
        BY <4>1, <4>2, <4>3
      <4> HIDE DEF structure
      <4>5. Total(Share(structure, d))
              = (d * 70) \div 100 + (d * 20) \div 100 + (d * 10) \div 100
        <5>1. Total(Share(structure, d)) = (d * structure[1].percentage) \div 100
                                              + (d * structure[2].percentage) \div 100
                                              + (d * structure[3].percentage) \div 100
          BY <4>4, ShareOfThree
        <5> QED
          BY <4>4, <5>1
      <4>6. (d * 70) \div 100 + (d * 20) \div 100 + (d * 10) \div 100 <= d
        OBVIOUS
      <4> QED
        BY <4>4, <4>5, <4>6
    <3> QED
      BY <3>1, <3>2, <3>3 DEF PrizeStructure
  <2>3. holders \in [DOMAIN structure -> Contestants \cup {Nobody}]
    <3>1. \A i \in DOMAIN ranking : ranking[i] \in Contestants
      OBVIOUS
    <3>2. \A mine : matchRecipient(ranking, mvp, mine) \in Contestants \cup {Nobody}
      BY <3>1, Zenon DEF matchRecipient
    <3> QED
      BY <3>2
  <2> HIDE DEF structure, holders, prizes
  <2>4. /\ prizes \in Seq(Entry(Contestants))
        /\ \A k \in DOMAIN prizes : prizes[k].status = "pending"
        /\ totalDistribution(prizes) <= Total(Share(structure, d))
    <3>1. LET given == Distribution(structure, holders, d)
          IN  /\ given \in Seq(Entry(Contestants))
              /\ \A k \in DOMAIN given : given[k].status = "pending"
              /\ totalDistribution(given) <= Total(Share(structure, d))
      BY <2>2, <2>3, DistributionIs
    <3> QED
      BY <2>1, <3>1
  <2>5. totalDistribution(prizes) \in Int /\ Total(Share(structure, d)) \in Int
    <3>1. totalDistribution(prizes) \in Nat
      BY <2>4, AmountsType
    <3>2. Summable(Share(structure, d))
      BY <2>2, ShareType
    <3>3. Total(Share(structure, d)) \in Nat
      BY <3>2, TotalType
    <3> QED
      BY <3>1, <3>3
  <2>6. totalDistribution(prizes) <= d
    BY <2>2, <2>4, <2>5
  <2> QED
    BY <2>4, <2>6 DEF Entry, Prizes, prizes
<1> QED
  BY <1>1, <1>2

-----------------------------------------------------------------------------
(* The loop over the distributions *)

Distinct(ps) == \A a, b \in DOMAIN ps : ps[a].player = ps[b].player => a = b

Part(ps, n) == [k \in DOMAIN ps |-> IF k <= n THEN ps[k].amount ELSE 0]

PaidPart(ps, n) ==
    [k \in DOMAIN ps |-> IF k <= n /\ ps[k].status = "completed" THEN ps[k].amount ELSE 0]

\* The loop has written w prizes and credited c, or skipped them.
Progress(ps, w, c, paid, cr, pw, fl) ==
    /\ w \in Nat /\ (c = w \/ c = w + 1) /\ c <= Len(ps)
    /\ Total(cr) <= Total(Part(ps, c))
    /\ paid + (IF c = w + 1 THEN ps[c].amount ELSE 0) <= Total(cr)
    /\ \A k \in DOMAIN ps : EntryOf(ps, ps[k].player) # k => ps[k].status = "pending"
    /\ Distinct(ps) =>
         /\ \A k \in DOMAIN ps : k > c => ps[k].status = "pending"
         /\ \A k \in DOMAIN ps : k <= c /\ ps[k].status = "completed"
              => cr[ps[k].player] >= ps[k].amount
         /\ \A k \in DOMAIN ps : k <= w /\ ps[k].status = "completed"
              => pw[ps[k].player] = ps[k].amount
         /\ paid = Total(PaidPart(ps, w))
         /\ fl = 0 => \A k \in DOMAIN ps : k <= c => ps[k].status = "completed"
         /\ c = w + 1 => ps[c].status = "completed"

LEMMA PrizesAreEntries == Prizes = Entry(Contestants)
BY DEF Prizes, Entry

LEMMA PrizeRow ==
    ASSUME NEW ps \in Seq(Prizes)
    PROVE  /\ DOMAIN ps = 1 .. Len(ps) /\ Len(ps) \in Nat
           /\ \A k \in DOMAIN ps : /\ ps[k] \in Prizes
                                   /\ ps[k].player \in Contestants
                                   /\ ps[k].amount \in Nat
                                   /\ ps[k].status \in EntryStatus
<1>1. DOMAIN ps = 1 .. Len(ps) /\ Len(ps) \in Nat
  OBVIOUS
<1>2. \A k \in DOMAIN ps : ps[k] \in Prizes
  OBVIOUS
<1> QED
  BY <1>1, <1>2 DEF Prizes

\* The entry that is marked is the first of its player.
LEMMA EntryIs ==
    ASSUME NEW ps \in Seq(Prizes), NEW pos \in DOMAIN ps
    PROVE  LET e == EntryOf(ps, ps[pos].player)
           IN  /\ e \in DOMAIN ps /\ ps[e].player = ps[pos].player
               /\ EntryOf(ps, ps[e].player) = e
               /\ Distinct(ps) => e = pos
<1> DEFINE same == {i \in DOMAIN ps : ps[i].player = ps[pos].player}
           e == EntryOf(ps, ps[pos].player)
<1>1. same \in SUBSET Nat /\ pos \in same
  BY PrizeRow
<1>2. e = Min(same)
  BY DEF EntryOf
<1> HIDE DEF e
<1>3. Min(same) \in same
  <2> HIDE DEF same
  <2> QED
    BY <1>1, MinOfNaturals
<1>4. e \in DOMAIN ps /\ ps[e].player = ps[pos].player
  BY <1>2, <1>3
<1>5. EntryOf(ps, ps[e].player) = e
  BY <1>4 DEF e
<1>6. Distinct(ps) => e = pos
  BY <1>4 DEF Distinct
<1> QED
  BY <1>4, <1>5, <1>6 DEF e

\* The prizes with the entry of the pos-th prize's player marked.
Mark(ps, pos, st) == [ps EXCEPT ![EntryOf(ps, ps[pos].player)].status = st]

\* Whose entry that is.
MarkedAt(ps, pos) == EntryOf(ps, ps[pos].player)

LEMMA Marking ==
    ASSUME NEW ps \in Seq(Prizes), NEW pos \in DOMAIN ps, NEW st \in EntryStatus
    PROVE  /\ Mark(ps, pos, st) \in Seq(Prizes)
           /\ DOMAIN Mark(ps, pos, st) = DOMAIN ps /\ Len(Mark(ps, pos, st)) = Len(ps)
           /\ \A k \in DOMAIN ps :
                /\ Mark(ps, pos, st)[k].player = ps[k].player
                /\ Mark(ps, pos, st)[k].amount = ps[k].amount
                /\ Mark(ps, pos, st)[k].status
                     = IF k = MarkedAt(ps, pos) THEN st ELSE ps[k].status
           /\ \A p : EntryOf(Mark(ps, pos, st), p) = EntryOf(ps, p)
           /\ Distinct(Mark(ps, pos, st)) <=> Distinct(ps)
           /\ Amounts(Mark(ps, pos, st)) = Amounts(ps)
           /\ \A n : Part(Mark(ps, pos, st), n) = Part(ps, n)
<1> DEFINE e == EntryOf(ps, ps[pos].player)
           new == [ps EXCEPT ![e].status = st]
<1>1. e \in DOMAIN ps
  BY EntryIs
<1> HIDE DEF e
<1>2. \A k \in DOMAIN ps : ps[k] \in Prizes
  BY PrizeRow
<1>3. /\ DOMAIN new = DOMAIN ps
      /\ \A k \in DOMAIN ps : new[k] = IF k = e THEN [ps[k] EXCEPT !.status = st] ELSE ps[k]
  BY <1>1
<1> HIDE DEF new
<1>4. \A k \in DOMAIN ps : /\ new[k] \in Prizes
                           /\ new[k].player = ps[k].player
                           /\ new[k].amount = ps[k].amount
                           /\ new[k].status = IF k = e THEN st ELSE ps[k].status
  BY <1>2, <1>3 DEF Prizes
<1>5. new \in Seq(Prizes) /\ Len(new) = Len(ps)
  <2>1. /\ DOMAIN ps = 1 .. Len(ps) /\ Len(ps) \in Nat
    BY PrizeRow
  <2>2. new = [k \in 1 .. Len(ps) |-> new[k]]
    BY <1>3, <2>1 DEF new
  <2>3. new \in [1 .. Len(ps) -> Prizes]
    BY <1>4, <2>1, <2>2
  <2> QED
    BY <2>1, <2>3
<1>6. \A p : EntryOf(new, p) = EntryOf(ps, p)
  <2> TAKE p
  <2>1. {i \in DOMAIN new : new[i].player = p} = {i \in DOMAIN ps : ps[i].player = p}
    BY <1>3, <1>4
  <2> QED
    BY <2>1 DEF EntryOf
<1>7. Distinct(new) <=> Distinct(ps)
  BY <1>3, <1>4 DEF Distinct
<1>8. Amounts(new) = Amounts(ps)
  BY <1>3, <1>4 DEF Amounts
<1>9. \A n : Part(new, n) = Part(ps, n)
  BY <1>3, <1>4 DEF Part
<1>10. new = Mark(ps, pos, st) /\ e = MarkedAt(ps, pos)
  BY DEF new, e, Mark, MarkedAt
<1> QED
  BY <1>3, <1>4, <1>5, <1>6, <1>7, <1>8, <1>9, <1>10

\* What a part of the prizes is, and one prize more.
LEMMA PartIs ==
    ASSUME NEW ps \in Seq(Prizes), NEW n \in Nat
    PROVE  /\ Part(ps, n) \in [DOMAIN ps -> Nat] /\ Summable(Part(ps, n))
           /\ PaidPart(ps, n) \in [DOMAIN ps -> Nat] /\ Summable(PaidPart(ps, n))
           /\ Total(Part(ps, n)) \in Nat /\ Total(PaidPart(ps, n)) \in Nat
           /\ Total(Part(ps, n)) <= totalDistribution(ps)
<1>1. \A k \in DOMAIN ps : ps[k].amount \in Nat
  BY PrizeRow
<1>2. Part(ps, n) \in [DOMAIN ps -> Nat] /\ PaidPart(ps, n) \in [DOMAIN ps -> Nat]
  BY <1>1 DEF Part, PaidPart
<1>3. /\ Amounts(ps) \in [DOMAIN ps -> Nat] /\ Summable(Amounts(ps))
      /\ \A k \in DOMAIN ps : Amounts(ps)[k] = ps[k].amount
  BY AmountsType, PrizesAreEntries
<1>4. \A k \in DOMAIN ps : /\ Part(ps, n)[k] <= Amounts(ps)[k]
                           /\ PaidPart(ps, n)[k] <= Amounts(ps)[k]
  BY <1>1, <1>3 DEF Part, PaidPart
<1>5. /\ Summable(Part(ps, n)) /\ Summable(PaidPart(ps, n))
      /\ Total(Part(ps, n)) <= Total(Amounts(ps))
  <2>1. Summable(Part(ps, n)) /\ Total(Part(ps, n)) <= Total(Amounts(ps))
    BY <1>2, <1>3, <1>4, TotalMonotone
  <2>2. Summable(PaidPart(ps, n))
    BY <1>2, <1>3, <1>4, TotalMonotone
  <2> QED
    BY <2>1, <2>2
<1> QED
  BY <1>2, <1>5, TotalType DEF totalDistribution

LEMMA PartGrows ==
    ASSUME NEW ps \in Seq(Prizes), NEW n \in Nat, n + 1 \in DOMAIN ps
    PROVE  /\ Total(Part(ps, n + 1)) = Total(Part(ps, n)) + ps[n + 1].amount
           /\ Total(PaidPart(ps, n + 1))
                = Total(PaidPart(ps, n))
                    + (IF ps[n + 1].status = "completed" THEN ps[n + 1].amount ELSE 0)
<1> DEFINE a == ps[n + 1].amount
           b == IF ps[n + 1].status = "completed" THEN ps[n + 1].amount ELSE 0
<1>1. a \in Nat /\ b \in Nat /\ DOMAIN ps = 1 .. Len(ps)
  BY PrizeRow
<1>2. /\ Part(ps, n)[n + 1] = 0 /\ PaidPart(ps, n)[n + 1] = 0
  BY DEF Part, PaidPart
<1>3. Part(ps, n + 1) = [Part(ps, n) EXCEPT ![n + 1] = a]
  <2>1. \A k \in DOMAIN ps : k <= n + 1 <=> k <= n \/ k = n + 1
    BY <1>1
  <2> QED
    BY <2>1 DEF Part
<1>4. PaidPart(ps, n + 1) = [PaidPart(ps, n) EXCEPT ![n + 1] = b]
  <2>1. \A k \in DOMAIN ps : k <= n + 1 <=> k <= n \/ k = n + 1
    BY <1>1
  <2> QED
    BY <2>1 DEF PaidPart
<1> HIDE DEF a, b
<1>5. /\ Part(ps, n) \in [DOMAIN ps -> Nat] /\ Summable(Part(ps, n))
      /\ PaidPart(ps, n) \in [DOMAIN ps -> Nat] /\ Summable(PaidPart(ps, n))
      /\ Total(Part(ps, n)) \in Nat /\ Total(PaidPart(ps, n)) \in Nat
  BY PartIs
<1>6. ASSUME NEW f \in [DOMAIN ps -> Nat], Summable(f), f[n + 1] = 0, NEW m \in Nat
      PROVE  Total([f EXCEPT ![n + 1] = m]) = Total(f) + m
  <2>1. Total([f EXCEPT ![n + 1] = m]) = Total(f) - f[n + 1] + m
    BY <1>6, TotalChange
  <2>2. Total(f) \in Nat
    BY <1>6, TotalType
  <2> QED
    BY <1>6, <2>1, <2>2
<1>7. /\ Total([Part(ps, n) EXCEPT ![n + 1] = a]) = Total(Part(ps, n)) + a
      /\ Total([PaidPart(ps, n) EXCEPT ![n + 1] = b]) = Total(PaidPart(ps, n)) + b
  <2>1. Total([Part(ps, n) EXCEPT ![n + 1] = a]) = Total(Part(ps, n)) + a
    BY <1>1, <1>2, <1>5, <1>6
  <2>2. Total([PaidPart(ps, n) EXCEPT ![n + 1] = b]) = Total(PaidPart(ps, n)) + b
    BY <1>1, <1>2, <1>5, <1>6
  <2> QED
    BY <2>1, <2>2
<1>8. /\ Total(Part(ps, n + 1)) = Total(Part(ps, n)) + a
      /\ Total(PaidPart(ps, n + 1)) = Total(PaidPart(ps, n)) + b
  BY <1>3, <1>4, <1>7
<1> QED
  BY <1>8 DEF a, b

\* The loop starts with nothing credited.
LEMMA ProgressStarts ==
    ASSUME NEW ps \in Seq(Prizes), \A k \in DOMAIN ps : ps[k].status = "pending",
           NEW cr \in [Contestants -> Nat], \A p \in Contestants : cr[p] = 0,
           NEW pw, NEW fl
    PROVE  Progress(ps, 0, 0, 0, cr, pw, fl)
<1>1. DOMAIN ps = 1 .. Len(ps) /\ Len(ps) \in Nat
  BY PrizeRow
<1>2. Total(cr) = 0
  BY TotalZero
<1>3. Total(Part(ps, 0)) \in Nat /\ Total(PaidPart(ps, 0)) = 0
  <2>1. /\ PaidPart(ps, 0) \in [DOMAIN ps -> Nat]
        /\ Total(Part(ps, 0)) \in Nat
    BY PartIs
  <2>2. \A k \in DOMAIN ps : PaidPart(ps, 0)[k] = 0
    BY DEF PaidPart
  <2> QED
    BY <2>1, <2>2, TotalZero
<1>4. \A k \in DOMAIN ps : ~(k <= 0)
  BY <1>1
<1> QED
  BY <1>1, <1>2, <1>3, <1>4 DEF Progress

\* A credit adds to the sum of the credits.
LEMMA CreditAdds ==
    ASSUME NEW cr \in [Contestants -> Nat], NEW p \in Contestants, NEW a \in Nat
    PROVE  LET new == [cr EXCEPT ![p] = @ + a]
           IN  /\ new \in [Contestants -> Nat] /\ Total(new) = Total(cr) + a
               /\ \A q \in Contestants : new[q] >= cr[q]
               /\ new[p] >= a
               /\ Total(cr) \in Nat
<1> DEFINE n == cr[p] + a
           new == [cr EXCEPT ![p] = n]
<1>1. Summable(cr)
  BY FiniteSummable, PrizesAssumption
<1>2. Total(cr) \in Nat /\ cr[p] \in Nat /\ n \in Nat /\ n >= a /\ n >= cr[p]
  BY <1>1, TotalType
<1>3. \A q \in Contestants : new[q] = IF q = p THEN n ELSE cr[q]
  OBVIOUS
<1>4. new \in [Contestants -> Nat]
  BY <1>2
<1>5. Total(new) = Total(cr) - cr[p] + n
  <2> HIDE DEF n
  <2> QED
    BY <1>1, <1>2, TotalChange
<1>6. Total(new) = Total(cr) + a
  <2> HIDE DEF new
  <2> QED
    BY <1>2, <1>5
<1>7. \A q \in Contestants : new[q] >= cr[q]
  BY <1>2, <1>3
<1> QED
  BY <1>2, <1>3, <1>4, <1>6, <1>7

LEMMA ProgressCredits ==
    ASSUME NEW ps \in Seq(Prizes), NEW w \in Nat, NEW paid \in Nat,
           NEW cr \in [Contestants -> Nat], NEW pw \in [Contestants -> Nat],
           NEW fl \in Nat,
           Progress(ps, w, w, paid, cr, pw, fl), w + 1 \in DOMAIN ps
    PROVE  Progress(Mark(ps, w + 1, "completed"), w, w + 1, paid,
                    [cr EXCEPT ![ps[w + 1].player] = @ + ps[w + 1].amount], pw, fl)
<1> DEFINE p == ps[w + 1].player
           a == ps[w + 1].amount
           e == MarkedAt(ps, w + 1)
           new == Mark(ps, w + 1, "completed")
           crn == [cr EXCEPT ![p] = @ + a]
<1>1. /\ DOMAIN ps = 1 .. Len(ps) /\ Len(ps) \in Nat /\ w + 1 <= Len(ps)
      /\ p \in Contestants /\ a \in Nat
      /\ \A k \in DOMAIN ps : ps[k].player \in Contestants /\ ps[k].amount \in Nat
  BY PrizeRow
<1>2. /\ e \in DOMAIN ps /\ ps[e].player = p /\ EntryOf(ps, ps[e].player) = e
      /\ Distinct(ps) => e = w + 1
  BY EntryIs DEF MarkedAt
<1>3. /\ new \in Seq(Prizes) /\ DOMAIN new = DOMAIN ps /\ Len(new) = Len(ps)
      /\ \A k \in DOMAIN ps : /\ new[k].player = ps[k].player
                              /\ new[k].amount = ps[k].amount
                              /\ new[k].status = IF k = e THEN "completed" ELSE ps[k].status
      /\ \A q : EntryOf(new, q) = EntryOf(ps, q)
      /\ Distinct(new) <=> Distinct(ps)
      /\ \A n : Part(new, n) = Part(ps, n)
  <2>1. "completed" \in EntryStatus
    BY DEF EntryStatus
  <2> QED
    BY <2>1, Marking
<1>4. /\ crn \in [Contestants -> Nat] /\ Total(crn) = Total(cr) + a
      /\ \A q \in Contestants : crn[q] >= cr[q]
      /\ crn[p] >= a
      /\ Total(cr) \in Nat
  BY <1>1, CreditAdds
<1>5. Total(Part(ps, w + 1)) = Total(Part(ps, w)) + a /\ Total(Part(ps, w)) \in Nat
  BY PartGrows, PartIs
<1> HIDE DEF p, a, e, new, crn
<1>6. /\ w + 1 <= Len(new) /\ new[w + 1].amount = a
      /\ Total(crn) <= Total(Part(new, w + 1))
      /\ paid + new[w + 1].amount <= Total(crn)
  <2>1. Total(cr) <= Total(Part(ps, w)) /\ paid + 0 <= Total(cr)
    <3>1. w # w + 1
      OBVIOUS
    <3> QED
      BY <3>1 DEF Progress
  <2>2. new[w + 1].amount = a
    BY <1>3 DEF a
  <2>3. Total(Part(new, w + 1)) = Total(Part(ps, w + 1))
    BY <1>3
  <2> QED
    BY <1>1, <1>3, <1>4, <1>5, <2>1, <2>2, <2>3
<1>7. \A k \in DOMAIN new : EntryOf(new, new[k].player) # k => new[k].status = "pending"
  <2>1. \A k \in DOMAIN ps : EntryOf(ps, ps[k].player) # k => ps[k].status = "pending"
    BY DEF Progress
  <2> QED
    BY <1>2, <1>3, <2>1
<1>8. ASSUME Distinct(new)
      PROVE  /\ \A k \in DOMAIN new : k > w + 1 => new[k].status = "pending"
             /\ \A k \in DOMAIN new : k <= w + 1 /\ new[k].status = "completed"
                  => crn[new[k].player] >= new[k].amount
             /\ \A k \in DOMAIN new : k <= w /\ new[k].status = "completed"
                  => pw[new[k].player] = new[k].amount
             /\ paid = Total(PaidPart(new, w))
             /\ fl = 0 => \A k \in DOMAIN new : k <= w + 1 => new[k].status = "completed"
             /\ new[w + 1].status = "completed"
  <2>1. Distinct(ps) /\ e = w + 1
    BY <1>2, <1>3, <1>8
  <2>2. /\ \A k \in DOMAIN ps : k > w => ps[k].status = "pending"
        /\ \A k \in DOMAIN ps : k <= w /\ ps[k].status = "completed"
             => cr[ps[k].player] >= ps[k].amount
        /\ \A k \in DOMAIN ps : k <= w /\ ps[k].status = "completed"
             => pw[ps[k].player] = ps[k].amount
        /\ paid = Total(PaidPart(ps, w))
        /\ fl = 0 => \A k \in DOMAIN ps : k <= w => ps[k].status = "completed"
    BY <2>1 DEF Progress
  <2>3. \A k \in DOMAIN ps : k \in Nat /\ (k <= w + 1 <=> k <= w \/ k = w + 1)
                             /\ (k <= w => k # w + 1) /\ (k > w + 1 => k > w /\ k # w + 1)
    BY <1>1
  <2>4. \A k \in DOMAIN new : k > w + 1 => new[k].status = "pending"
    BY <1>3, <2>1, <2>2, <2>3
  <2>5. \A k \in DOMAIN new : k <= w + 1 /\ new[k].status = "completed"
          => crn[new[k].player] >= new[k].amount
    <3> TAKE k \in DOMAIN new
    <3> HAVE k <= w + 1 /\ new[k].status = "completed"
    <3>1. CASE k = w + 1
      BY <1>3, <1>4, <3>1 DEF p, a
    <3>2. CASE k <= w
      <4>1. ps[k].status = "completed"
        BY <1>3, <2>1, <2>3, <3>2
      <4>2. cr[ps[k].player] >= ps[k].amount
        BY <1>3, <2>2, <3>2, <4>1
      <4>3. crn[ps[k].player] >= cr[ps[k].player] /\ crn[ps[k].player] \in Nat
            /\ cr[ps[k].player] \in Nat /\ ps[k].amount \in Nat
        BY <1>1, <1>3, <1>4
      <4> QED
        BY <1>3, <4>2, <4>3
    <3> QED
      BY <1>3, <2>3, <3>1, <3>2
  <2>6. \A k \in DOMAIN new : k <= w /\ new[k].status = "completed"
          => pw[new[k].player] = new[k].amount
    BY <1>3, <2>1, <2>2, <2>3
  <2>7. PaidPart(new, w) = PaidPart(ps, w)
    <3>1. \A k \in DOMAIN ps : k <= w => new[k].status = ps[k].status
      BY <1>3, <2>1, <2>3
    <3> QED
      BY <1>3, <3>1 DEF PaidPart
  <2>8. fl = 0 => \A k \in DOMAIN new : k <= w + 1 => new[k].status = "completed"
    BY <1>3, <2>1, <2>2, <2>3
  <2>9. new[w + 1].status = "completed"
    BY <1>3, <2>1
  <2> QED
    BY <2>2, <2>4, <2>5, <2>6, <2>7, <2>8, <2>9
<1>9. Progress(new, w, w + 1, paid, crn, pw, fl)
  BY <1>6, <1>7, <1>8 DEF Progress
<1> QED
  BY <1>9 DEF p, a, e, new, crn

\* The column is written, and the prize counts as distributed.
LEMMA ProgressWrites ==
    ASSUME NEW ps \in Seq(Prizes), NEW w \in Nat, NEW paid \in Nat,
           NEW cr \in [Contestants -> Nat], NEW pw \in [Contestants -> Nat],
           NEW fl \in Nat,
           Progress(ps, w, w + 1, paid, cr, pw, fl), w + 1 \in DOMAIN ps
    PROVE  Progress(ps, w + 1, w + 1, paid + ps[w + 1].amount, cr,
                    [pw EXCEPT ![ps[w + 1].player] = ps[w + 1].amount], fl)
<1> DEFINE p == ps[w + 1].player
           a == ps[w + 1].amount
           pwn == [pw EXCEPT ![p] = a]
<1>1. /\ DOMAIN ps = 1 .. Len(ps) /\ Len(ps) \in Nat
      /\ p \in Contestants /\ a \in Nat
      /\ \A k \in DOMAIN ps : ps[k].player \in Contestants /\ ps[k].amount \in Nat
  BY PrizeRow
<1>2. \A q \in Contestants : pwn[q] = IF q = p THEN a ELSE pw[q]
  OBVIOUS
<1>3. /\ w + 1 <= Len(ps) /\ Total(cr) <= Total(Part(ps, w + 1))
      /\ paid + a <= Total(cr)
      /\ \A k \in DOMAIN ps : EntryOf(ps, ps[k].player) # k => ps[k].status = "pending"
  <2>1. w + 1 <= Len(ps) /\ Total(cr) <= Total(Part(ps, w + 1))
    BY DEF Progress
  <2>2. paid + (IF w + 1 = w + 1 THEN ps[w + 1].amount ELSE 0) <= Total(cr)
    BY DEF Progress
  <2>3. \A k \in DOMAIN ps : EntryOf(ps, ps[k].player) # k => ps[k].status = "pending"
    BY DEF Progress
  <2> QED
    BY <2>1, <2>2, <2>3
<1>4. ASSUME Distinct(ps)
      PROVE  /\ \A k \in DOMAIN ps : k > w + 1 => ps[k].status = "pending"
             /\ \A k \in DOMAIN ps : k <= w + 1 /\ ps[k].status = "completed"
                  => cr[ps[k].player] >= ps[k].amount
             /\ \A k \in DOMAIN ps : k <= w + 1 /\ ps[k].status = "completed"
                  => pwn[ps[k].player] = ps[k].amount
             /\ paid + a = Total(PaidPart(ps, w + 1))
             /\ fl = 0 => \A k \in DOMAIN ps : k <= w + 1 => ps[k].status = "completed"
  <2>1. /\ \A k \in DOMAIN ps : k > w + 1 => ps[k].status = "pending"
        /\ \A k \in DOMAIN ps : k <= w + 1 /\ ps[k].status = "completed"
             => cr[ps[k].player] >= ps[k].amount
        /\ \A k \in DOMAIN ps : k <= w /\ ps[k].status = "completed"
             => pw[ps[k].player] = ps[k].amount
        /\ paid = Total(PaidPart(ps, w))
        /\ fl = 0 => \A k \in DOMAIN ps : k <= w + 1 => ps[k].status = "completed"
        /\ ps[w + 1].status = "completed"
    BY <1>4 DEF Progress
  <2>2. \A k \in DOMAIN ps : k <= w + 1 /\ ps[k].status = "completed"
          => pwn[ps[k].player] = ps[k].amount
    <3> TAKE k \in DOMAIN ps
    <3> HAVE k <= w + 1 /\ ps[k].status = "completed"
    <3>1. CASE k = w + 1
      BY <1>1, <1>2, <3>1
    <3>2. CASE k <= w
      <4>1. k # w + 1
        BY <3>2
      <4>2. ps[k].player # p
        BY <1>4, <4>1 DEF Distinct
      <4>3. pw[ps[k].player] = ps[k].amount
        BY <2>1, <3>2
      <4> HIDE DEF pwn, p
      <4> QED
        BY <1>1, <1>2, <4>2, <4>3
    <3> QED
      BY <1>1, <3>1, <3>2
  <2>3. paid + a = Total(PaidPart(ps, w + 1))
    <3>1. Total(PaidPart(ps, w + 1)) = Total(PaidPart(ps, w)) + a
      BY <2>1, PartGrows
    <3> QED
      BY <2>1, <3>1
  <2> QED
    BY <2>1, <2>2, <2>3
<1> HIDE DEF p, a, pwn
<1>5. w + 1 # w + 1 + 1 /\ w + 1 \in Nat /\ paid + a + 0 = paid + a
  BY <1>1
<1>6. Progress(ps, w + 1, w + 1, paid + a, cr, pwn, fl)
  BY <1>3, <1>4, <1>5 DEF Progress
<1> QED
  BY <1>6 DEF p, a, pwn

\* The loop goes on after a rejected credit or update.
LEMMA ProgressFails ==
    ASSUME NEW ps \in Seq(Prizes), NEW w \in Nat, NEW c, NEW paid \in Nat,
           NEW cr \in [Contestants -> Nat], NEW pw \in [Contestants -> Nat],
           NEW fl, NEW newFl, newFl # 0,
           Progress(ps, w, c, paid, cr, pw, fl), w + 1 \in DOMAIN ps
    PROVE  Progress(Mark(ps, w + 1, "failed"), w + 1, w + 1, paid, cr, pw, newFl)
<1> DEFINE e == MarkedAt(ps, w + 1)
           new == Mark(ps, w + 1, "failed")
<1>1. /\ DOMAIN ps = 1 .. Len(ps) /\ Len(ps) \in Nat /\ w + 1 <= Len(ps)
      /\ \A k \in DOMAIN ps : ps[k].player \in Contestants /\ ps[k].amount \in Nat
  BY PrizeRow
<1>2. /\ e \in DOMAIN ps /\ EntryOf(ps, ps[e].player) = e
      /\ Distinct(ps) => e = w + 1
  BY EntryIs DEF MarkedAt
<1>3. /\ new \in Seq(Prizes) /\ DOMAIN new = DOMAIN ps /\ Len(new) = Len(ps)
      /\ \A k \in DOMAIN ps : /\ new[k].player = ps[k].player
                              /\ new[k].amount = ps[k].amount
                              /\ new[k].status = IF k = e THEN "failed" ELSE ps[k].status
      /\ \A q : EntryOf(new, q) = EntryOf(ps, q)
      /\ Distinct(new) <=> Distinct(ps)
      /\ \A n : Part(new, n) = Part(ps, n)
  <2>1. "failed" \in EntryStatus
    BY DEF EntryStatus
  <2> QED
    BY <2>1, Marking
<1> HIDE DEF e, new
<1>4. Total(cr) \in Nat
  BY FiniteSummable, TotalType, PrizesAssumption
<1>5. Total(cr) <= Total(Part(new, w + 1)) /\ paid <= Total(cr)
  <2>1. /\ Total(Part(ps, w + 1)) = Total(Part(ps, w)) + ps[w + 1].amount
        /\ Total(Part(ps, w)) \in Nat /\ ps[w + 1].amount \in Nat
    BY <1>1, PartGrows, PartIs
  <2>2. /\ c = w \/ c = w + 1
        /\ Total(cr) <= Total(Part(ps, c))
        /\ paid + (IF c = w + 1 THEN ps[c].amount ELSE 0) <= Total(cr)
    BY DEF Progress
  <2>3. Total(cr) <= Total(Part(ps, w + 1))
    BY <1>4, <2>1, <2>2
  <2>4. paid <= Total(cr)
    BY <1>4, <2>1, <2>2
  <2> QED
    BY <1>3, <2>3, <2>4
<1>6. \A k \in DOMAIN new : EntryOf(new, new[k].player) # k => new[k].status = "pending"
  <2>1. \A k \in DOMAIN ps : EntryOf(ps, ps[k].player) # k => ps[k].status = "pending"
    BY DEF Progress
  <2> QED
    BY <1>2, <1>3, <2>1
<1>7. ASSUME Distinct(new)
      PROVE  /\ \A k \in DOMAIN new : k > w + 1 => new[k].status = "pending"
             /\ \A k \in DOMAIN new : k <= w + 1 /\ new[k].status = "completed"
                  => cr[new[k].player] >= new[k].amount
             /\ \A k \in DOMAIN new : k <= w + 1 /\ new[k].status = "completed"
                  => pw[new[k].player] = new[k].amount
             /\ paid = Total(PaidPart(new, w + 1))
  <2>1. Distinct(ps) /\ e = w + 1
    BY <1>2, <1>3, <1>7
  <2>2. /\ \A k \in DOMAIN ps : k > c => ps[k].status = "pending"
        /\ \A k \in DOMAIN ps : k <= c /\ ps[k].status = "completed"
             => cr[ps[k].player] >= ps[k].amount
        /\ \A k \in DOMAIN ps : k <= w /\ ps[k].status = "completed"
             => pw[ps[k].player] = ps[k].amount
        /\ paid = Total(PaidPart(ps, w))
        /\ c = w \/ c = w + 1
    BY <2>1 DEF Progress
  <2>3. \A k \in DOMAIN ps : k \in Nat /\ (k <= w + 1 <=> k <= w \/ k = w + 1)
                             /\ (k <= w => k # w + 1 /\ k <= c)
                             /\ (k > w + 1 => k > c /\ k # w + 1)
    BY <1>1, <2>2
  <2>4. \A k \in DOMAIN new : k > w + 1 => new[k].status = "pending"
    BY <1>3, <2>1, <2>2, <2>3
  <2>5. \A k \in DOMAIN new : k <= w + 1 /\ new[k].status = "completed"
          => k <= w /\ ps[k].status = "completed"
    <3>1. "failed" # "completed"
      OBVIOUS
    <3> QED
      BY <1>3, <2>1, <2>3, <3>1
  <2>6. \A k \in DOMAIN new : k <= w + 1 /\ new[k].status = "completed"
          => /\ cr[new[k].player] >= new[k].amount
             /\ pw[new[k].player] = new[k].amount
    BY <1>3, <2>2, <2>3, <2>5
  <2>7. PaidPart(new, w + 1) = PaidPart(ps, w)
    <3>1. \A k \in DOMAIN ps : k <= w + 1 /\ new[k].status = "completed"
                                 <=> k <= w /\ ps[k].status = "completed"
      BY <1>3, <2>1, <2>3, <2>5
    <3> QED
      BY <1>3, <3>1 DEF PaidPart
  <2> QED
    BY <2>2, <2>4, <2>6, <2>7
<1>8. w + 1 # w + 1 + 1 /\ w + 1 \in Nat /\ paid + 0 = paid /\ w + 1 <= Len(new)
  BY <1>1, <1>3
<1>9. Progress(new, w + 1, w + 1, paid, cr, pw, newFl)
  BY <1>5, <1>6, <1>7, <1>8 DEF Progress
<1> QED
  BY <1>9 DEF new

\* What a completed distribution has done.
LEMMA ProgressEnds ==
    ASSUME NEW ps \in Seq(Prizes), NEW paid, NEW cr, NEW pw, NEW fl,
           Progress(ps, Len(ps), Len(ps), paid, cr, pw, fl)
    PROVE  /\ (\A k \in DOMAIN ps : ps[k].status = "completed") =>
                /\ paid = totalDistribution(ps)
                /\ \A k \in DOMAIN ps : /\ cr[ps[k].player] >= ps[k].amount
                                        /\ pw[ps[k].player] = ps[k].amount
           /\ fl = 0 /\ Distinct(ps) => \A k \in DOMAIN ps : ps[k].status = "completed"
<1>1. DOMAIN ps = 1 .. Len(ps) /\ \A k \in DOMAIN ps : k <= Len(ps)
  BY PrizeRow
<1>2. ASSUME \A k \in DOMAIN ps : ps[k].status = "completed"
      PROVE  /\ paid = totalDistribution(ps)
             /\ \A k \in DOMAIN ps : /\ cr[ps[k].player] >= ps[k].amount
                                     /\ pw[ps[k].player] = ps[k].amount
  <2>1. Distinct(ps)
    <3>1. \A k \in DOMAIN ps : EntryOf(ps, ps[k].player) = k
      <4>1. \A k \in DOMAIN ps : EntryOf(ps, ps[k].player) # k => ps[k].status = "pending"
        BY DEF Progress
      <4>2. "pending" # "completed"
        OBVIOUS
      <4> QED
        BY <1>2, <4>1, <4>2
    <3> QED
      BY <3>1 DEF Distinct
  <2>2. /\ \A k \in DOMAIN ps : k <= Len(ps) /\ ps[k].status = "completed"
             => cr[ps[k].player] >= ps[k].amount
        /\ \A k \in DOMAIN ps : k <= Len(ps) /\ ps[k].status = "completed"
             => pw[ps[k].player] = ps[k].amount
        /\ paid = Total(PaidPart(ps, Len(ps)))
    BY <2>1 DEF Progress
  <2>3. PaidPart(ps, Len(ps)) = Amounts(ps)
    BY <1>1, <1>2 DEF PaidPart, Amounts
  <2> QED
    BY <1>1, <1>2, <2>2, <2>3 DEF totalDistribution
<1>3. ASSUME fl = 0, Distinct(ps)
      PROVE  \A k \in DOMAIN ps : ps[k].status = "completed"
  BY <1>1, <1>3 DEF Progress
<1> QED
  BY <1>2, <1>3

-----------------------------------------------------------------------------
(* The invariant *)

RecordRow == [total : Nat, distributed : Nat, prizes : Seq(Prizes), status : PrizeStatus]

PayoutStep == {"idle", "create", "release", "credit", "update", "save", "fail"}

PayoutRow == [step : PayoutStep, at : Nat, paid : Nat, record : RecordRow]

ResultRow == [strategy : DOMAIN PrizeStructure, ranking : Seq(Contestants),
              mvp : Contestants \cup {Nobody}]

PayTypes ==
    /\ pot \in EscrowRow /\ pot.balance \in Nat /\ pot.status \in {"locked", "released"}
    /\ result \in ResultRow
    /\ credited \in [Contestants -> Nat] /\ prizeWon \in [Contestants -> Nat]
    /\ records \in Seq(RecordRow)
    /\ payout \in PayoutRow
    /\ payFaults \in 0 .. MaxPayFaults

InLoop(step) == step \in {"credit", "update", "save"}

Credits(j) == IF j.step = "credit" THEN j.at - 1 ELSE j.at

Written(j) == IF j.step \in {"credit", "update"} THEN j.at - 1 ELSE j.at

\* No record tells of a prize that was distributed.
Unsettled(rs) ==
    \A i \in DOMAIN rs : rs[i].status \in {"processing", "failed"} /\ rs[i].distributed = 0

\* Before the release: nothing is credited, and the release will not be refused.
Fresh(e, j, rs, cr) ==
    e.status = "locked" =>
        /\ e.balance > 0
        /\ \A p \in Contestants : cr[p] = 0
        /\ ~InLoop(j.step) /\ j.paid = 0
        /\ Unsettled(rs)
        /\ j.step \in {"create", "release"} =>
             totalDistribution(j.record.prizes) <= e.balance - PlatformFee(e)

Drafted(j) ==
    /\ j.step \in {"create", "release"} =>
         j.paid = 0 /\ \A k \in DOMAIN j.record.prizes : j.record.prizes[k].status = "pending"
    /\ j.step = "create" => j.record.status = "processing" /\ j.record.distributed = 0

\* In the loop, which only one call reaches.
Looping(e, j, rs, cr, pw, fl) ==
    InLoop(j.step) =>
        /\ Unsettled(rs)
        /\ totalDistribution(j.record.prizes) <= e.released
        /\ j.step \in {"credit", "update"} => j.at \in DOMAIN j.record.prizes
        /\ j.step = "save" => j.at = Len(j.record.prizes)
        /\ Progress(j.record.prizes, Written(j), Credits(j), j.paid, cr, pw, fl)

Claims(e, j, rs, cr) ==
    /\ Total(cr) <= e.released
    /\ j.paid <= Total(cr)
    /\ \A i \in DOMAIN rs : rs[i].distributed <= Total(cr)

Recorded(j, rs) == j.step \notin {"idle", "create"} => rs # <<>>

\* A completed record is about prizes that are in the wallets.
Paid(d, cr, pw) ==
    d.status = "completed" =>
        /\ d.distributed = totalDistribution(d.prizes)
        /\ \A k \in DOMAIN d.prizes : /\ cr[d.prizes[k].player] >= d.prizes[k].amount
                                      /\ pw[d.prizes[k].player] = d.prizes[k].amount

AllPaid(rs, cr, pw) == \A i \in DOMAIN rs : Paid(rs[i], cr, pw)

\* Without a fault, the first distribution goes through.
Smooth(e, j, rs, fl) ==
    fl = 0 =>
        /\ rs = <<>> => e.status = "locked"
        /\ Len(rs) = 1 => /\ j.step # "fail"
                          /\ j.step = "release" => e.status = "locked"
        /\ rs # <<>> /\ Distinct(rs[1].prizes)
             => rs[1].status \in {"processing", "completed"}

PrizeInv ==
    /\ PayTypes
    /\ Fresh(pot, payout, records, credited)
    /\ Drafted(payout)
    /\ Looping(pot, payout, records, credited, prizeWon, payFaults)
    /\ Claims(pot, payout, records, credited)
    /\ Recorded(payout, records)
    /\ AllPaid(records, credited, prizeWon)
    /\ Smooth(pot, payout, records, payFaults)

LEMMA PrizesOfRecord ==
    ASSUME NEW d \in RecordRow
    PROVE  /\ d.prizes \in Seq(Prizes)
           /\ totalDistribution(d.prizes) \in Nat
           /\ d.total \in Nat /\ d.distributed \in Nat /\ d.status \in PrizeStatus
BY AmountsType, PrizesAreEntries DEF RecordRow

LEMMA FeeOfPot ==
    ASSUME NEW e \in EscrowRow, e.balance \in Nat
    PROVE  PlatformFee(e) \in Nat /\ PlatformFee(e) <= e.balance
<1>1. CASE e.balance > 0
  BY <1>1, FeeOfBalance
<1>2. CASE e.balance = 0
  <2>1. PlatformFee(e) = (0 * FeeBps) \div 10000
    BY <1>2 DEF PlatformFee
  <2>2. 0 * FeeBps = 0 /\ 0 \div 10000 = 0
    BY FeeBpsAssumption
  <2> QED
    BY <1>2, <2>1, <2>2
<1> QED
  BY <1>1, <1>2

LEMMA CreditsCounted ==
    ASSUME NEW cr \in [Contestants -> Nat]
    PROVE  Total(cr) \in Nat
BY FiniteSummable, TotalType, PrizesAssumption

\* The invariant holds of the properties' sakes.
LEMMA PrizeInvMeans == PrizeInv => PrizeRecordsTruthful /\ PrizeTypeOK
<1> SUFFICES ASSUME PrizeInv
             PROVE  PrizeRecordsTruthful /\ PrizeTypeOK
  OBVIOUS
<1>1. CreditedOnce
  BY DEF PrizeInv, Claims, CreditedOnce
<1>2. CompletedMeansPaid
  BY DEF PrizeInv, AllPaid, Paid, CompletedMeansPaid
<1>3. PartialOnlyAfterFailure
  <2> SUFFICES ASSUME payFaults = 0, records # <<>>,
                      IsInjective([i \in DOMAIN records[1].prizes |->
                                     records[1].prizes[i].player])
               PROVE  records[1].status \in {"processing", "completed"}
    BY DEF PartialOnlyAfterFailure
  <2>1. Distinct(records[1].prizes)
    BY DEF IsInjective, Distinct
  <2> QED
    BY <2>1 DEF PrizeInv, Smooth
<1>4. PrizeTypeOK
  <2>1. \A d \in RecordRow : IsRecord(d)
    <3> TAKE d \in RecordRow
    <3>1. \A i \in DOMAIN d.prizes : d.prizes[i] \in Prizes
      BY PrizesOfRecord, PrizeRow
    <3> QED
      BY <3>1, PrizesOfRecord DEF IsRecord
  <2>2. \A i \in DOMAIN records : records[i] \in RecordRow
    BY DEF PrizeInv, PayTypes
  <2>3. payout.record \in RecordRow /\ payout.paid \in Nat /\ payout.step \in PayoutStep
    BY DEF PrizeInv, PayTypes, PayoutRow
  <2>4. result.ranking \in Seq(Contestants) /\ result.mvp \in Contestants \cup {Nobody}
    BY DEF PrizeInv, PayTypes, ResultRow
  <2> QED
    BY <2>1, <2>2, <2>3, <2>4 DEF PrizeInv, PayTypes, PrizeTypeOK, PayoutStep
<1> QED
  BY <1>1, <1>2, <1>3, <1>4 DEF PrizeRecordsTruthful

LEMMA PrizeInitInv == PrizeInit => PrizeInv
<1> SUFFICES ASSUME PrizeInit
             PROVE  PrizeInv
  OBVIOUS
<1>1. PICK b \in Pots : pot = [AfterDeposit(NewEscrow, b) EXCEPT !.status = "locked"]
  BY DEF PrizeInit
<1>2. pot \in EscrowRow /\ pot.balance = b /\ pot.released = 0 /\ pot.status = "locked"
      /\ b \in Nat \ {0}
  <2>1. b \in Nat \ {0}
    BY PrizesAssumption
  <2> DEFINE e == AfterDeposit(NewEscrow, b)
  <2>2. e \in EscrowRow
    BY <2>1, NewEscrowType, EntityTypes
  <2>3. e.balance = NewEscrow.balance + b /\ e.released = NewEscrow.released
    BY <2>1, NewEscrowType, DepositTotals
  <2>4. NewEscrow.balance = 0 /\ NewEscrow.released = 0
    BY DEF NewEscrow
  <2>5. pot = [e EXCEPT !.status = "locked"]
    BY <1>1
  <2> HIDE DEF e
  <2>6. pot \in EscrowRow /\ pot.status = "locked" /\ pot.balance = e.balance
        /\ pot.released = e.released
    BY <2>2, <2>5 DEF EscrowRow, EscrowStatus
  <2> QED
    BY <2>1, <2>3, <2>4, <2>6
<1>3. result \in ResultRow
  <2>1. SetToSeqs(Contestants) \subseteq Seq(Contestants)
    <3>1. Cardinality(Contestants) \in Nat
      BY FS_CardinalityType, PrizesAssumption
    <3>2. \A f \in SetToSeqs(Contestants) : f \in [1 .. Cardinality(Contestants) -> Contestants]
      BY Zenon DEF SetToSeqs
    <3> QED
      BY <3>1, <3>2
  <2> DEFINE rankings == SetToSeqs(Contestants) \cup {<<>>}
  <2>2. rankings \subseteq Seq(Contestants)
    <3>1. <<>> \in Seq(Contestants)
      OBVIOUS
    <3> QED
      BY <2>1, <3>1
  <2>3. result \in [strategy : DOMAIN PrizeStructure, ranking : rankings,
                    mvp : Contestants \cup {Nobody}]
    BY DEF PrizeInit
  <2> HIDE DEF rankings
  <2> QED
    BY <2>2, <2>3 DEF ResultRow
<1>4. /\ credited \in [Contestants -> Nat] /\ \A p \in Contestants : credited[p] = 0
      /\ prizeWon \in [Contestants -> Nat]
  BY DEF PrizeInit
<1>5. Total(credited) = 0
  BY <1>4, TotalZero
<1>6. records = <<>> /\ payout = Idle /\ payFaults = 0
  BY DEF PrizeInit
<1>7. payout \in PayoutRow /\ payout.step = "idle" /\ payout.paid = 0
  <2>1. <<>> \in Seq(Prizes)
    OBVIOUS
  <2> QED
    BY <1>6, <2>1 DEF Idle, PayoutRow, PayoutStep, RecordRow, PrizeStatus
<1>8. PayTypes
  BY <1>2, <1>3, <1>4, <1>6, <1>7, PrizesAssumption DEF PayTypes
<1>9. /\ Fresh(pot, payout, records, credited) /\ Drafted(payout)
      /\ Looping(pot, payout, records, credited, prizeWon, payFaults)
      /\ Recorded(payout, records)
      /\ AllPaid(records, credited, prizeWon)
      /\ Smooth(pot, payout, records, payFaults)
  BY <1>2, <1>4, <1>6, <1>7
  DEF Fresh, Drafted, Looping, InLoop, Recorded, AllPaid, Smooth, Unsettled
<1>10. Claims(pot, payout, records, credited)
  BY <1>2, <1>5, <1>6, <1>7 DEF Claims
<1> QED
  BY <1>8, <1>9, <1>10 DEF PrizeInv

-----------------------------------------------------------------------------
(* The steps *)

LEMMA IdleIs ==
    /\ Idle \in PayoutRow /\ Idle.step = "idle" /\ Idle.paid = 0
    /\ Idle.record \in RecordRow
<1>1. <<>> \in Seq(Prizes)
  OBVIOUS
<1> QED
  BY <1>1 DEF Idle, PayoutRow, PayoutStep, RecordRow, PrizeStatus

\* A call is over, and nothing else happens.
LEMMA CallEnds ==
    ASSUME PrizeInv, payout' = Idle,
           UNCHANGED <<pot, result, credited, prizeWon, records>>,
           payFaults' \in 0 .. MaxPayFaults, payFaults' # 0
    PROVE  PrizeInv'
<1>1. /\ pot' = pot /\ result' = result /\ credited' = credited /\ prizeWon' = prizeWon
      /\ records' = records
  OBVIOUS
<1>2. Idle \in PayoutRow /\ Idle.step = "idle" /\ Idle.paid = 0
  BY IdleIs
<1>3. PayTypes'
  BY <1>1, <1>2 DEF PrizeInv, PayTypes
<1>4. Fresh(pot, Idle, records, credited) /\ Drafted(Idle)
      /\ Looping(pot, Idle, records, credited, prizeWon, payFaults')
      /\ Recorded(Idle, records)
      /\ Smooth(pot, Idle, records, payFaults')
  BY <1>2 DEF PrizeInv, Fresh, Drafted, Looping, InLoop, Recorded, Smooth
<1>5. Claims(pot, Idle, records, credited)
  <2>1. Total(credited) \in Nat
    BY CreditsCounted DEF PrizeInv, PayTypes
  <2> QED
    BY <1>2, <2>1 DEF PrizeInv, Claims
<1>6. AllPaid(records, credited, prizeWon)
  BY DEF PrizeInv
<1> QED
  BY <1>1, <1>3, <1>4, <1>5, <1>6 DEF PrizeInv

LEMMA ReadEscrowInv ==
    ASSUME PrizeInv, ReadEscrow
    PROVE  PrizeInv'
<1> DEFINE prizes == MatchPrizes(result.strategy, result.ranking, result.mvp, Distributable)
           d == [total |-> pot.balance, distributed |-> 0, prizes |-> prizes,
                 status |-> "processing"]
<1>1. /\ payout' = [Idle EXCEPT !.step = "create", !.record = d]
      /\ pot' = pot /\ result' = result /\ credited' = credited /\ prizeWon' = prizeWon
      /\ records' = records /\ payFaults' = payFaults /\ payout.step = "idle"
  BY DEF ReadEscrow
<1>2. PlatformFee(pot) \in Nat /\ PlatformFee(pot) <= pot.balance /\ pot.balance \in Nat
      /\ Distributable \in Nat /\ Distributable = pot.balance - PlatformFee(pot)
  <2>1. PlatformFee(pot) \in Nat /\ PlatformFee(pot) <= pot.balance /\ pot.balance \in Nat
    BY FeeOfPot DEF PrizeInv, PayTypes
  <2> QED
    BY <2>1 DEF Distributable
<1>3. /\ prizes \in Seq(Prizes)
      /\ \A k \in DOMAIN prizes : prizes[k].status = "pending"
      /\ totalDistribution(prizes) <= Distributable
  <2>1. /\ result.strategy \in DOMAIN PrizeStructure /\ result.ranking \in Seq(Contestants)
        /\ result.mvp \in Contestants \cup {Nobody}
    BY DEF PrizeInv, PayTypes, ResultRow
  <2> QED
    BY <1>2, <2>1, MatchPrizesAre
<1> HIDE DEF prizes
<1>4. d \in RecordRow /\ d.prizes = prizes /\ d.status = "processing" /\ d.distributed = 0
  BY <1>2, <1>3 DEF RecordRow, PrizeStatus
<1> HIDE DEF d
<1>5. /\ payout' \in PayoutRow /\ payout'.step = "create" /\ payout'.paid = 0
      /\ payout'.record = d
  BY <1>1, <1>4, IdleIs DEF PayoutRow, PayoutStep
<1>6. PayTypes'
  BY <1>1, <1>5 DEF PrizeInv, PayTypes
<1>7. Fresh(pot, payout', records, credited)
  BY <1>1, <1>2, <1>3, <1>4, <1>5 DEF PrizeInv, Fresh, InLoop
<1>8. Drafted(payout')
  BY <1>3, <1>4, <1>5 DEF Drafted
<1>9. Looping(pot, payout', records, credited, prizeWon, payFaults)
  BY <1>5 DEF Looping, InLoop
<1>10. Claims(pot, payout', records, credited)
  <2>1. Total(credited) \in Nat
    BY CreditsCounted DEF PrizeInv, PayTypes
  <2> QED
    BY <1>5, <2>1 DEF PrizeInv, Claims
<1>11. Recorded(payout', records) /\ AllPaid(records, credited, prizeWon)
       /\ Smooth(pot, payout', records, payFaults)
  BY <1>5 DEF PrizeInv, Recorded, Smooth
<1> QED
  BY <1>1, <1>6, <1>7, <1>8, <1>9, <1>10, <1>11 DEF PrizeInv

LEMMA CreateRecordInv ==
    ASSUME PrizeInv, CreateRecord
    PROVE  PrizeInv'
<1>1. /\ payout' = [payout EXCEPT !.step = "release"] /\ payout.step = "create"
      /\ records' = Append(records, payout.record)
      /\ pot' = pot /\ result' = result /\ credited' = credited /\ prizeWon' = prizeWon
      /\ payFaults' = payFaults
  BY DEF CreateRecord
<1>2. payout \in PayoutRow /\ payout.record \in RecordRow /\ records \in Seq(RecordRow)
  BY DEF PrizeInv, PayTypes, PayoutRow
<1>3. /\ payout' \in PayoutRow /\ payout'.step = "release" /\ payout'.paid = payout.paid
      /\ payout'.record = payout.record
  BY <1>1, <1>2 DEF PayoutRow, PayoutStep
<1>4. /\ payout.record.status = "processing" /\ payout.record.distributed = 0
      /\ payout.paid = 0
  BY <1>1 DEF PrizeInv, Drafted
<1>5. /\ records' \in Seq(RecordRow) /\ records' # <<>>
      /\ Len(records') = Len(records) + 1 /\ Len(records) \in Nat
      /\ DOMAIN records = 1 .. Len(records)
      /\ DOMAIN records' = 1 .. Len(records) + 1
      /\ \A i \in DOMAIN records : records'[i] = records[i]
      /\ records'[Len(records) + 1] = payout.record
  BY <1>1, <1>2
<1>6. \A i \in DOMAIN records' : i \in DOMAIN records \/ i = Len(records) + 1
  BY <1>5
<1>7. PayTypes'
  BY <1>1, <1>3, <1>5 DEF PrizeInv, PayTypes
<1>8. Unsettled(records) => Unsettled(records')
  BY <1>4, <1>5, <1>6 DEF Unsettled
<1>9. Fresh(pot, payout', records', credited)
  BY <1>1, <1>3, <1>8 DEF PrizeInv, Fresh, InLoop
<1>10. Drafted(payout') /\ Recorded(payout', records')
  BY <1>1, <1>3, <1>5 DEF PrizeInv, Drafted, Recorded
<1>11. Looping(pot, payout', records', credited, prizeWon, payFaults)
  BY <1>3 DEF Looping, InLoop
<1>12. Claims(pot, payout', records', credited)
  <2>1. Total(credited) \in Nat
    BY CreditsCounted DEF PrizeInv, PayTypes
  <2> QED
    BY <1>3, <1>4, <1>5, <1>6, <2>1 DEF PrizeInv, Claims
<1>13. AllPaid(records', credited, prizeWon)
  <2>1. Paid(payout.record, credited, prizeWon)
    BY <1>4 DEF Paid
  <2>2. \A i \in DOMAIN records : Paid(records[i], credited, prizeWon)
    BY DEF PrizeInv, AllPaid
  <2> QED
    BY <1>5, <1>6, <2>1, <2>2 DEF AllPaid
<1>14. Smooth(pot, payout', records', payFaults)
  <2> SUFFICES ASSUME payFaults = 0
               PROVE  /\ Len(records') = 1 => pot.status = "locked"
                      /\ Distinct(records'[1].prizes)
                           => records'[1].status \in {"processing", "completed"}
    BY <1>3, <1>5 DEF Smooth
  <2>1. CASE records = <<>>
    <3>1. Len(records) = 0
      BY <2>1
    <3>2. records'[1] = payout.record
      BY <1>5, <3>1
    <3> QED
      BY <1>4, <2>1, <3>2 DEF PrizeInv, Smooth
  <2>2. CASE records # <<>>
    <3>1. Len(records') # 1 /\ 1 \in DOMAIN records
      BY <1>2, <1>5, <2>2
    <3> QED
      BY <1>5, <2>2, <3>1 DEF PrizeInv, Smooth
  <2> QED
    BY <2>1, <2>2
<1> QED
  BY <1>1, <1>7, <1>9, <1>10, <1>11, <1>12, <1>13, <1>14 DEF PrizeInv

\* The first call of the loop, or the save where there is no prize.
LEMMA OnwardIs ==
    ASSUME payout \in PayoutRow, NEW i \in Nat, i <= Len(payout.record.prizes)
    PROVE  /\ Onward(i) \in PayoutRow
           /\ Onward(i).record = payout.record /\ Onward(i).paid = payout.paid
           /\ InLoop(Onward(i).step) /\ Onward(i).step \in {"credit", "save"}
           /\ Onward(i).step = "credit" => Onward(i).at \in DOMAIN payout.record.prizes
           /\ Onward(i).step = "save" => Onward(i).at = Len(payout.record.prizes)
           /\ Written(Onward(i)) = i /\ Credits(Onward(i)) = i
<1>1. /\ payout.record \in RecordRow
      /\ DOMAIN payout.record.prizes = 1 .. Len(payout.record.prizes)
      /\ Len(payout.record.prizes) \in Nat
  BY PrizesOfRecord, PrizeRow DEF PayoutRow
<1>2. CASE i < Len(payout.record.prizes)
  <2> DEFINE n == i + 1
  <2>1. Onward(i) = [payout EXCEPT !.step = "credit", !.at = n] /\ n \in Nat
    BY <1>2 DEF Onward
  <2> HIDE DEF n
  <2>2. /\ Onward(i) \in PayoutRow /\ Onward(i).step = "credit" /\ Onward(i).at = n
        /\ Onward(i).record = payout.record /\ Onward(i).paid = payout.paid
    BY <2>1 DEF PayoutRow, PayoutStep
  <2>3. n \in DOMAIN payout.record.prizes /\ n - 1 = i
    BY <1>1, <1>2 DEF n
  <2> QED
    BY <2>2, <2>3 DEF InLoop, Written, Credits
<1>3. CASE ~(i < Len(payout.record.prizes))
  <2>1. Onward(i) = [payout EXCEPT !.step = "save", !.at = i]
    BY <1>3 DEF Onward
  <2>2. /\ Onward(i) \in PayoutRow /\ Onward(i).step = "save" /\ Onward(i).at = i
        /\ Onward(i).record = payout.record /\ Onward(i).paid = payout.paid
    BY <2>1 DEF PayoutRow, PayoutStep
  <2>3. i = Len(payout.record.prizes)
    BY <1>1, <1>3
  <2> QED
    BY <2>2, <2>3 DEF InLoop, Written, Credits
<1> QED
  BY <1>2, <1>3

\* A failed call that did not get into the loop, or that got through it.
LEMMA ReleaseRefusedInv ==
    ASSUME PrizeInv, payout.step = "release" \/ payout.step = "save",
           payout' = [payout EXCEPT !.step = "fail"],
           UNCHANGED <<pot, result, credited, prizeWon, records>>,
           payFaults' \in 0 .. MaxPayFaults,
           payFaults' = 0 => payFaults = 0 /\ payout.step = "release" /\ pot.status # "locked"
    PROVE  PrizeInv'
<1>1. /\ pot' = pot /\ result' = result /\ credited' = credited /\ prizeWon' = prizeWon
      /\ records' = records
  OBVIOUS
<1>2. /\ payout' \in PayoutRow /\ payout'.step = "fail" /\ payout'.paid = payout.paid
      /\ payout'.record = payout.record
  BY DEF PrizeInv, PayTypes, PayoutRow, PayoutStep
<1>3. PayTypes'
  BY <1>1, <1>2 DEF PrizeInv, PayTypes
<1>4. Fresh(pot, payout', records, credited) /\ Drafted(payout')
      /\ Looping(pot, payout', records, credited, prizeWon, payFaults')
      /\ Recorded(payout', records)
  <2>1. records # <<>>
    BY DEF PrizeInv, Recorded
  <2> QED
    BY <1>2, <2>1 DEF PrizeInv, Fresh, Drafted, Looping, InLoop, Recorded
<1>5. Claims(pot, payout', records, credited)
  BY <1>2 DEF PrizeInv, Claims
<1>6. AllPaid(records, credited, prizeWon)
  BY DEF PrizeInv
<1>7. Smooth(pot, payout', records, payFaults')
  <2> SUFFICES ASSUME payFaults' = 0
               PROVE  /\ records # <<>> /\ Len(records) # 1
                      /\ Distinct(records[1].prizes)
                           => records[1].status \in {"processing", "completed"}
    BY <1>2 DEF Smooth
  <2>1. payFaults = 0 /\ payout.step = "release" /\ pot.status # "locked"
    OBVIOUS
  <2>2. records # <<>>
    BY DEF PrizeInv, Recorded
  <2> QED
    BY <2>1, <2>2 DEF PrizeInv, Smooth
<1> QED
  BY <1>1, <1>3, <1>4, <1>5, <1>6, <1>7 DEF PrizeInv

LEMMA ReleasePotInv ==
    ASSUME PrizeInv, ReleasePot
    PROVE  PrizeInv'
<1> DEFINE fee == PlatformFee(pot)
           total == totalDistribution(payout.record.prizes)
<1>1. /\ payout.step = "release"
      /\ result' = result /\ credited' = credited /\ prizeWon' = prizeWon
      /\ records' = records /\ payFaults' = payFaults
      /\ \/ /\ canRelease(pot) /\ total <= pot.balance - fee
            /\ pot' = AfterRelease(pot, total, fee) /\ payout' = Onward(0)
         \/ /\ ~(canRelease(pot) /\ total <= pot.balance - fee)
            /\ payout' = [payout EXCEPT !.step = "fail"] /\ pot' = pot
  BY DEF ReleasePot
<1>2. /\ payout \in PayoutRow /\ payout.record \in RecordRow
      /\ payout.record.prizes \in Seq(Prizes) /\ total \in Nat
      /\ pot \in EscrowRow /\ pot.balance \in Nat
      /\ fee \in Nat
      /\ credited \in [Contestants -> Nat]
  <2>1. payout \in PayoutRow /\ payout.record \in RecordRow
    BY DEF PrizeInv, PayTypes, PayoutRow
  <2>2. pot \in EscrowRow /\ pot.balance \in Nat /\ credited \in [Contestants -> Nat]
    BY DEF PrizeInv, PayTypes
  <2> QED
    BY <2>1, <2>2, PrizesOfRecord, FeeOfPot
<1> HIDE DEF fee, total
<1>3. CASE /\ canRelease(pot) /\ total <= pot.balance - fee
           /\ pot' = AfterRelease(pot, total, fee) /\ payout' = Onward(0)
  <2>1. /\ pot' \in EscrowRow /\ pot'.released = pot.released + total
        /\ pot'.balance = pot.balance - total - fee /\ pot'.status = "released"
        /\ pot.released \in Nat
    <3>1. pot' \in EscrowRow
      BY <1>2, <1>3, EntityTypes
    <3>2. pot'.released = pot.released + total /\ pot'.balance = pot.balance - total - fee
      BY <1>2, <1>3, ReleaseTotals
    <3>3. pot'.status = "released"
      BY <1>2, <1>3 DEF AfterRelease, EscrowRow
    <3>4. pot.released \in Nat
      BY <1>2 DEF EscrowRow
    <3> QED
      BY <3>1, <3>2, <3>3, <3>4
  <2>2. pot'.balance \in Nat /\ pot'.released >= total /\ pot'.released \in Nat
    BY <1>2, <1>3, <2>1
  <2>3. pot.status = "locked"
    BY <1>3 DEF canRelease
  <2>4. /\ \A p \in Contestants : credited[p] = 0
        /\ payout.paid = 0 /\ Unsettled(records)
        /\ records # <<>>
        /\ \A k \in DOMAIN payout.record.prizes : payout.record.prizes[k].status = "pending"
    BY <1>1, <2>3 DEF PrizeInv, Fresh, Drafted, Recorded
  <2>5. Total(credited) = 0
    BY <1>2, <2>4, TotalZero
  <2>6. /\ payout' \in PayoutRow
        /\ payout'.record = payout.record /\ payout'.paid = payout.paid
        /\ InLoop(payout'.step) /\ payout'.step \in {"credit", "save"}
        /\ payout'.step = "credit" => payout'.at \in DOMAIN payout.record.prizes
        /\ payout'.step = "save" => payout'.at = Len(payout.record.prizes)
        /\ Written(payout') = 0 /\ Credits(payout') = 0
    <3>1. 0 \in Nat /\ 0 <= Len(payout.record.prizes)
      BY <1>2
    <3> QED
      BY <1>2, <1>3, <3>1, OnwardIs
  <2>7. PayTypes'
    BY <1>1, <2>1, <2>2, <2>6 DEF PrizeInv, PayTypes
  <2>8. Fresh(pot', payout', records, credited)
    BY <2>1 DEF Fresh
  <2>9. Drafted(payout') /\ Recorded(payout', records)
    BY <2>4, <2>6 DEF Drafted, Recorded
  <2>10. Looping(pot', payout', records, credited, prizeWon, payFaults)
    <3>1. Progress(payout.record.prizes, 0, 0, 0, credited, prizeWon, payFaults)
      BY <1>2, <2>4, ProgressStarts
    <3>2. Progress(payout'.record.prizes, Written(payout'), Credits(payout'), payout'.paid,
                   credited, prizeWon, payFaults)
      BY <2>4, <2>6, <3>1
    <3>3. totalDistribution(payout'.record.prizes) <= pot'.released
      BY <2>2, <2>6 DEF total
    <3> QED
      BY <2>4, <2>6, <3>2, <3>3 DEF Looping
  <2>11. Claims(pot', payout', records, credited)
    <3>1. \A i \in DOMAIN records : records[i].distributed = 0
      BY <2>4 DEF Unsettled
    <3> QED
      BY <2>2, <2>4, <2>5, <2>6, <3>1 DEF Claims
  <2>12. AllPaid(records, credited, prizeWon)
    BY DEF PrizeInv
  <2>13. Smooth(pot', payout', records, payFaults)
    BY <2>4, <2>6 DEF PrizeInv, Smooth
  <2> QED
    BY <1>1, <2>7, <2>8, <2>9, <2>10, <2>11, <2>12, <2>13 DEF PrizeInv
<1>4. CASE /\ ~(canRelease(pot) /\ total <= pot.balance - fee)
           /\ payout' = [payout EXCEPT !.step = "fail"] /\ pot' = pot
  <2>1. pot.status # "locked"
    <3> SUFFICES ASSUME pot.status = "locked"
                 PROVE  FALSE
      OBVIOUS
    <3>1. pot.balance > 0 /\ total <= pot.balance - fee
      BY <1>1 DEF PrizeInv, Fresh, total, fee
    <3> QED
      BY <1>4, <3>1 DEF canRelease
  <2>2. payFaults \in 0 .. MaxPayFaults
    BY DEF PrizeInv, PayTypes
  <2> QED
    BY <1>1, <1>4, <2>1, <2>2, ReleaseRefusedInv
<1> QED
  BY <1>1, <1>3, <1>4

LEMMA MarkedIs ==
    ASSUME payout \in PayoutRow, payout.at \in DOMAIN payout.record.prizes,
           NEW st \in EntryStatus
    PROVE  /\ Marked(st) \in PayoutRow
           /\ Marked(st).record \in RecordRow
           /\ Marked(st).record.prizes = Mark(payout.record.prizes, payout.at, st)
           /\ Marked(st).at = payout.at /\ Marked(st).paid = payout.paid
           /\ Marked(st).step = payout.step
<1> DEFINE ps == payout.record.prizes
           e == EntryOf(ps, ps[payout.at].player)
           new == Mark(ps, payout.at, st)
<1>1. payout.record \in RecordRow /\ ps \in Seq(Prizes)
  BY PrizesOfRecord DEF PayoutRow
<1>2. new \in Seq(Prizes)
  BY <1>1, Marking
<1>3. Marked(st) = [payout EXCEPT !.record.prizes[e].status = st]
  BY DEF Marked
<1>4. new = [ps EXCEPT ![e].status = st]
  BY DEF Mark
<1> HIDE DEF e, new
<1>5. Marked(st) = [payout EXCEPT !.record = [payout.record EXCEPT !.prizes = new]]
  BY <1>3, <1>4
<1> HIDE DEF ps
<1>6. [payout.record EXCEPT !.prizes = new] \in RecordRow
      /\ [payout.record EXCEPT !.prizes = new].prizes = new
  BY <1>1, <1>2 DEF RecordRow
<1> DEFINE d == [payout.record EXCEPT !.prizes = new]
<1>7. Marked(st) = [payout EXCEPT !.record = d] /\ d \in RecordRow /\ d.prizes = new
  BY <1>5, <1>6
<1> HIDE DEF d
<1>8. /\ Marked(st) \in PayoutRow /\ Marked(st).record = d /\ Marked(st).at = payout.at
      /\ Marked(st).paid = payout.paid /\ Marked(st).step = payout.step
  BY <1>7 DEF PayoutRow
<1> QED
  BY <1>7, <1>8 DEF new, ps

LEMMA CreditPrizeInv ==
    ASSUME PrizeInv, CreditPrize
    PROVE  PrizeInv'
<1> DEFINE ps == payout.record.prizes
           pos == payout.at
           new == Mark(ps, pos, "completed")
<1>1. /\ payout.step = "credit"
      /\ credited' = [credited EXCEPT ![ps[pos].player] = @ + ps[pos].amount]
      /\ payout' = [Marked("completed") EXCEPT !.step = "update"]
      /\ pot' = pot /\ result' = result /\ prizeWon' = prizeWon
      /\ records' = records /\ payFaults' = payFaults
  BY DEF CreditPrize
<1>2. /\ payout \in PayoutRow /\ payout.record \in RecordRow /\ pos \in Nat /\ payout.paid \in Nat
      /\ ps \in Seq(Prizes)
      /\ credited \in [Contestants -> Nat] /\ prizeWon \in [Contestants -> Nat]
      /\ payFaults \in Nat
  <2>1. payout \in PayoutRow /\ payout.record \in RecordRow /\ pos \in Nat /\ payout.paid \in Nat
    BY DEF PrizeInv, PayTypes, PayoutRow
  <2>2. /\ credited \in [Contestants -> Nat] /\ prizeWon \in [Contestants -> Nat]
        /\ payFaults \in Nat
    BY DEF PrizeInv, PayTypes
  <2> QED
    BY <2>1, <2>2, PrizesOfRecord
<1>3. /\ Unsettled(records) /\ totalDistribution(ps) <= pot.released
      /\ pos \in DOMAIN ps /\ InLoop(payout.step)
      /\ Progress(ps, pos - 1, pos - 1, payout.paid, credited, prizeWon, payFaults)
  <2>1. InLoop(payout.step)
    BY <1>1 DEF InLoop
  <2>2. Written(payout) = pos - 1 /\ Credits(payout) = pos - 1
    BY <1>1 DEF Written, Credits
  <2> HIDE DEF pos
  <2> QED
    BY <1>1, <2>1, <2>2 DEF PrizeInv, Looping, pos
<1>4. /\ ps[pos].player \in Contestants /\ ps[pos].amount \in Nat
      /\ pos - 1 \in Nat /\ pos - 1 + 1 = pos /\ pos >= 1
  <2>1. /\ ps[pos].player \in Contestants /\ ps[pos].amount \in Nat
        /\ DOMAIN ps = 1 .. Len(ps) /\ Len(ps) \in Nat
    BY <1>2, <1>3, PrizeRow
  <2> HIDE DEF pos
  <2>2. pos \in Nat /\ pos >= 1
    BY <1>3, <2>1
  <2> QED
    BY <2>1, <2>2
<1>5. /\ Marked("completed") \in PayoutRow
      /\ Marked("completed").record.prizes = new
      /\ Marked("completed").at = pos /\ Marked("completed").paid = payout.paid
  BY <1>2, <1>3, MarkedIs DEF EntryStatus
<1>6. /\ payout' \in PayoutRow /\ payout'.step = "update" /\ payout'.at = pos
      /\ payout'.paid = payout.paid /\ payout'.record.prizes = new
  BY <1>1, <1>5 DEF PayoutRow, PayoutStep
<1>7. /\ credited' \in [Contestants -> Nat]
      /\ Total(credited') = Total(credited) + ps[pos].amount /\ Total(credited) \in Nat
  <2> DEFINE p == ps[pos].player
             a == ps[pos].amount
  <2>1. credited' = [credited EXCEPT ![p] = @ + a] /\ p \in Contestants /\ a \in Nat
    BY <1>1, <1>4
  <2> HIDE DEF p, a
  <2>2. /\ [credited EXCEPT ![p] = @ + a] \in [Contestants -> Nat]
        /\ Total([credited EXCEPT ![p] = @ + a]) = Total(credited) + a
        /\ Total(credited) \in Nat
    BY <1>2, <2>1, CreditAdds
  <2> QED
    BY <2>1, <2>2 DEF a
<1>8. Progress(new, pos - 1, pos, payout.paid, credited', prizeWon, payFaults)
  <2> DEFINE w == pos - 1
  <2>1. w \in Nat /\ w + 1 = pos
    BY <1>4
  <2>2. Progress(ps, w, w, payout.paid, credited, prizeWon, payFaults) /\ w + 1 \in DOMAIN ps
    BY <1>3, <2>1
  <2> HIDE DEF w
  <2>3. Progress(Mark(ps, w + 1, "completed"), w, w + 1, payout.paid,
                 [credited EXCEPT ![ps[w + 1].player] = @ + ps[w + 1].amount],
                 prizeWon, payFaults)
    BY <1>2, <2>1, <2>2, ProgressCredits
  <2>4. Progress(new, w, pos, payout.paid, credited', prizeWon, payFaults)
    BY <1>1, <2>1, <2>3
  <2> QED
    BY <2>4 DEF w
<1>9. totalDistribution(new) = totalDistribution(ps) /\ DOMAIN new = DOMAIN ps
      /\ new \in Seq(Prizes) /\ totalDistribution(ps) \in Nat
  BY <1>2, <1>3, Marking, PrizesOfRecord DEF totalDistribution, EntryStatus
<1> HIDE DEF ps, pos, new
<1>10. PayTypes'
  BY <1>1, <1>6, <1>7 DEF PrizeInv, PayTypes
<1>11. Fresh(pot, payout', records, credited')
  BY <1>3 DEF PrizeInv, Fresh
<1>12. Drafted(payout') /\ Recorded(payout', records)
  BY <1>1, <1>6 DEF PrizeInv, Drafted, Recorded
<1>13. Looping(pot, payout', records, credited', prizeWon, payFaults)
  <2>1. Written(payout') = pos - 1 /\ Credits(payout') = pos
    BY <1>6 DEF Written, Credits
  <2> QED
    BY <1>3, <1>6, <1>8, <1>9, <2>1 DEF Looping
<1>14. Claims(pot, payout', records, credited')
  <2>1. pot.released \in Nat
    BY DEF PrizeInv, PayTypes, EscrowRow
  <2>2. Total(credited') <= totalDistribution(new)
    <3>1. Total(credited') <= Total(Part(new, pos))
      BY <1>8 DEF Progress
    <3>2. Total(Part(new, pos)) \in Nat /\ Total(Part(new, pos)) <= totalDistribution(new)
      BY <1>4, <1>9, PartIs
    <3> QED
      BY <1>4, <1>7, <1>9, <3>1, <3>2
  <2>3. Total(credited') <= pot.released
    BY <1>3, <1>4, <1>7, <1>9, <2>1, <2>2
  <2>4. payout.paid <= Total(credited) /\ \A i \in DOMAIN records : records[i].distributed = 0
    BY <1>3 DEF PrizeInv, Claims, Unsettled
  <2> QED
    BY <1>2, <1>4, <1>6, <1>7, <2>3, <2>4 DEF Claims
<1>15. AllPaid(records, credited', prizeWon)
  BY <1>3 DEF AllPaid, Paid, Unsettled
<1>16. Smooth(pot, payout', records, payFaults)
  BY <1>1, <1>6 DEF PrizeInv, Smooth
<1> QED
  BY <1>1, <1>10, <1>11, <1>12, <1>13, <1>14, <1>15, <1>16 DEF PrizeInv

LEMMA UpdatePrizeWonInv ==
    ASSUME PrizeInv, UpdatePrizeWon
    PROVE  PrizeInv'
<1> DEFINE ps == payout.record.prizes
           pos == payout.at
           a == ps[pos].amount
<1>1. /\ payout.step = "update"
      /\ prizeWon' = [prizeWon EXCEPT ![ps[pos].player] = a]
      /\ payout' = [Onward(pos) EXCEPT !.paid = @ + a]
      /\ pot' = pot /\ result' = result /\ credited' = credited
      /\ records' = records /\ payFaults' = payFaults
  BY DEF UpdatePrizeWon
<1>2. /\ payout \in PayoutRow /\ payout.record \in RecordRow /\ pos \in Nat /\ payout.paid \in Nat
      /\ ps \in Seq(Prizes)
      /\ credited \in [Contestants -> Nat] /\ prizeWon \in [Contestants -> Nat]
      /\ payFaults \in Nat
  <2>1. payout \in PayoutRow /\ payout.record \in RecordRow /\ pos \in Nat /\ payout.paid \in Nat
    BY DEF PrizeInv, PayTypes, PayoutRow
  <2>2. /\ credited \in [Contestants -> Nat] /\ prizeWon \in [Contestants -> Nat]
        /\ payFaults \in Nat
    BY DEF PrizeInv, PayTypes
  <2> QED
    BY <2>1, <2>2, PrizesOfRecord
<1>3. /\ Unsettled(records) /\ totalDistribution(ps) <= pot.released
      /\ pos \in DOMAIN ps /\ InLoop(payout.step)
      /\ Progress(ps, pos - 1, pos, payout.paid, credited, prizeWon, payFaults)
  <2>1. InLoop(payout.step)
    BY <1>1 DEF InLoop
  <2>2. Written(payout) = pos - 1 /\ Credits(payout) = pos
    BY <1>1 DEF Written, Credits
  <2> HIDE DEF pos
  <2> QED
    BY <1>1, <2>1, <2>2 DEF PrizeInv, Looping, pos
<1>4. /\ ps[pos].player \in Contestants /\ a \in Nat /\ pos <= Len(ps)
      /\ pos - 1 \in Nat /\ pos - 1 + 1 = pos /\ pos >= 1
  BY <1>2, <1>3, PrizeRow
<1>5. /\ Onward(pos) \in PayoutRow
      /\ Onward(pos).record = payout.record /\ Onward(pos).paid = payout.paid
      /\ InLoop(Onward(pos).step) /\ Onward(pos).step \in {"credit", "save"}
      /\ Onward(pos).step = "credit" => Onward(pos).at \in DOMAIN ps
      /\ Onward(pos).step = "save" => Onward(pos).at = Len(ps)
      /\ Written(Onward(pos)) = pos /\ Credits(Onward(pos)) = pos
  BY <1>2, <1>4, OnwardIs
<1>6. /\ payout' \in PayoutRow
      /\ payout'.record = payout.record /\ payout'.paid = payout.paid + a
      /\ InLoop(payout'.step) /\ payout'.step \in {"credit", "save"}
      /\ payout'.step = "credit" => payout'.at \in DOMAIN ps
      /\ payout'.step = "save" => payout'.at = Len(ps)
      /\ Written(payout') = pos /\ Credits(payout') = pos
  <2> DEFINE j == Onward(pos)
             n == payout.paid + a
  <2>1. payout' = [j EXCEPT !.paid = n] /\ n \in Nat /\ j \in PayoutRow
    <3>1. j \in PayoutRow
      BY <1>5
    <3>2. payout.paid \in Nat /\ a \in Nat
      BY <1>2, <1>4
    <3> HIDE DEF a, j
    <3>3. n \in Nat
      BY <3>2
    <3>4. j.paid = payout.paid /\ payout' = [j EXCEPT !.paid = @ + a]
      BY <1>1, <1>5 DEF j
    <3> QED
      BY <3>1, <3>3, <3>4
  <2> HIDE DEF j, n
  <2>2. /\ payout' \in PayoutRow /\ payout'.step = j.step /\ payout'.at = j.at
        /\ payout'.record = j.record /\ payout'.paid = n
    BY <2>1 DEF PayoutRow
  <2>3. Written(payout') = Written(j) /\ Credits(payout') = Credits(j)
    BY <2>2 DEF Written, Credits
  <2> QED
    BY <1>5, <2>2, <2>3 DEF j, n
<1>7. Progress(ps, pos, pos, payout.paid + a, credited, prizeWon', payFaults)
  <2> DEFINE w == pos - 1
  <2>1. w \in Nat /\ w + 1 = pos
    BY <1>4
  <2>2. Progress(ps, w, w + 1, payout.paid, credited, prizeWon, payFaults) /\ w + 1 \in DOMAIN ps
    BY <1>3, <2>1
  <2> HIDE DEF w
  <2>3. Progress(ps, w + 1, w + 1, payout.paid + ps[w + 1].amount, credited,
                 [prizeWon EXCEPT ![ps[w + 1].player] = ps[w + 1].amount], payFaults)
    BY <1>2, <2>1, <2>2, ProgressWrites
  <2> QED
    BY <1>1, <2>1, <2>3
<1>8. prizeWon' \in [Contestants -> Nat]
  BY <1>1, <1>2, <1>4
<1> HIDE DEF ps, pos, a
<1>9. PayTypes'
  BY <1>1, <1>6, <1>8 DEF PrizeInv, PayTypes
<1>10. Fresh(pot, payout', records, credited)
  BY <1>3 DEF PrizeInv, Fresh
<1>11. Drafted(payout') /\ Recorded(payout', records)
  BY <1>1, <1>6 DEF PrizeInv, Drafted, Recorded
<1>12. Looping(pot, payout', records, credited, prizeWon', payFaults)
  BY <1>3, <1>6, <1>7 DEF Looping, ps
<1>13. Claims(pot, payout', records, credited)
  <2>1. payout.paid + a <= Total(credited)
    <3>1. payout.paid + a + (IF pos = pos + 1 THEN ps[pos].amount ELSE 0) <= Total(credited)
      BY <1>7 DEF Progress
    <3>2. pos # pos + 1 /\ payout.paid + a + 0 = payout.paid + a
      BY <1>2, <1>4
    <3> QED
      BY <3>1, <3>2
  <2> QED
    BY <1>6, <2>1 DEF PrizeInv, Claims
<1>14. AllPaid(records, credited, prizeWon')
  BY <1>3 DEF AllPaid, Paid, Unsettled
<1>15. Smooth(pot, payout', records, payFaults)
  BY <1>1, <1>6 DEF PrizeInv, Smooth
<1> QED
  BY <1>1, <1>9, <1>10, <1>11, <1>12, <1>13, <1>14, <1>15 DEF PrizeInv

\* A record is written over the one that was created.
LEMMA SaveRecordInv ==
    ASSUME PrizeInv, NEW d \in RecordRow, SaveRecord(d), UNCHANGED payFaults,
           payout.step \in {"save", "fail"},
           d.distributed = payout.paid,
           d.status = "failed" \/ InLoop(payout.step),
           Paid(d, credited, prizeWon),
           payFaults = 0 /\ Len(records) = 1 /\ Distinct(d.prizes) => d.status = "completed"
    PROVE  PrizeInv'
<1>1. /\ records' = [records EXCEPT ![Len(records)] = d] /\ payout' = Idle
      /\ pot' = pot /\ result' = result /\ credited' = credited /\ prizeWon' = prizeWon
      /\ payFaults' = payFaults
  BY DEF SaveRecord, ThisRecord
<1>2. /\ records \in Seq(RecordRow) /\ records # <<>> /\ credited \in [Contestants -> Nat]
  BY DEF PrizeInv, PayTypes, Recorded
<1>3. /\ Len(records) \in DOMAIN records
      /\ records' \in Seq(RecordRow) /\ DOMAIN records' = DOMAIN records
      /\ Len(records') = Len(records) /\ records' # <<>>
      /\ 1 \in DOMAIN records
      /\ \A i \in DOMAIN records : records'[i] = IF i = Len(records) THEN d ELSE records[i]
  <2>1. Len(records) \in Nat \ {0} /\ DOMAIN records = 1 .. Len(records)
    BY <1>2
  <2>2. records' \in Seq(RecordRow) /\ Len(records') = Len(records)
    BY <1>1, <1>2, <2>1
  <2> QED
    BY <1>1, <2>1, <2>2
<1>4. Total(credited) \in Nat
  BY <1>2, CreditsCounted
<1>5. PayTypes'
  BY <1>1, <1>3, IdleIs DEF PrizeInv, PayTypes
<1>6. Fresh(pot, Idle, records', credited)
  <2> SUFFICES ASSUME pot.status = "locked"
               PROVE  Unsettled(records')
    BY IdleIs DEF PrizeInv, Fresh, InLoop
  <2>1. Unsettled(records) /\ payout.paid = 0 /\ ~InLoop(payout.step)
    BY DEF PrizeInv, Fresh
  <2> QED
    BY <1>3, <2>1 DEF Unsettled
<1>7. /\ Drafted(Idle) /\ Recorded(Idle, records')
      /\ Looping(pot, Idle, records', credited, prizeWon, payFaults)
  BY IdleIs DEF Drafted, Recorded, Looping, InLoop
<1>8. Claims(pot, Idle, records', credited)
  BY <1>3, <1>4, IdleIs DEF PrizeInv, Claims
<1>9. AllPaid(records', credited, prizeWon)
  BY <1>3 DEF PrizeInv, AllPaid
<1>10. Smooth(pot, Idle, records', payFaults)
  <2> SUFFICES ASSUME payFaults = 0, Distinct(records'[1].prizes)
               PROVE  records'[1].status \in {"processing", "completed"}
    BY <1>3, IdleIs DEF Smooth
  <2>1. CASE Len(records) = 1
    <3>1. records'[1] = d
      BY <1>3, <2>1
    <3> QED
      BY <2>1, <3>1
  <2>2. CASE Len(records) # 1
    <3>1. records'[1] = records[1]
      BY <1>3, <2>2
    <3> QED
      BY <1>2, <3>1 DEF PrizeInv, Smooth
  <2> QED
    BY <2>1, <2>2
<1> QED
  BY <1>1, <1>5, <1>6, <1>7, <1>8, <1>9, <1>10 DEF PrizeInv

LEMMA SaveOutcomeInv ==
    ASSUME PrizeInv, SaveOutcome
    PROVE  PrizeInv'
<1> DEFINE ps == payout.record.prizes
           st == IF isFullyDistributed(payout.record) THEN "completed" ELSE "partial"
           d == [payout.record EXCEPT !.distributed = payout.paid, !.status = st]
<1>1. payout.step = "save" /\ SaveRecord(d)
  BY DEF SaveOutcome
<1>2. payout.record \in RecordRow /\ payout.paid \in Nat /\ ps \in Seq(Prizes)
      /\ UNCHANGED payFaults
  <2>1. payout.record \in RecordRow /\ payout.paid \in Nat
    BY DEF PrizeInv, PayTypes, PayoutRow
  <2> QED
    BY <1>1, <2>1, PrizesOfRecord DEF SaveRecord
<1>3. Progress(ps, Len(ps), Len(ps), payout.paid, credited, prizeWon, payFaults)
  <2>1. /\ InLoop(payout.step) /\ payout.at = Len(ps)
        /\ Progress(ps, Written(payout), Credits(payout), payout.paid, credited,
                    prizeWon, payFaults)
    BY <1>1 DEF PrizeInv, Looping, InLoop
  <2>2. Written(payout) = Len(ps) /\ Credits(payout) = Len(ps)
    BY <1>1, <2>1 DEF Written, Credits
  <2> QED
    BY <2>1, <2>2
<1>4. (st = "completed" <=> \A k \in DOMAIN ps : ps[k].status = "completed")
      /\ st \in {"completed", "partial"}
  BY DEF isFullyDistributed
<1>5. /\ (\A k \in DOMAIN ps : ps[k].status = "completed") =>
           /\ payout.paid = totalDistribution(ps)
           /\ \A k \in DOMAIN ps : /\ credited[ps[k].player] >= ps[k].amount
                                   /\ prizeWon[ps[k].player] = ps[k].amount
      /\ payFaults = 0 /\ Distinct(ps) => \A k \in DOMAIN ps : ps[k].status = "completed"
  BY <1>2, <1>3, ProgressEnds
<1> HIDE DEF st
<1>6. /\ d \in RecordRow /\ d.distributed = payout.paid /\ d.status = st /\ d.prizes = ps
  BY <1>2, <1>4 DEF RecordRow, PrizeStatus
<1> HIDE DEF d, ps
<1>7. Paid(d, credited, prizeWon)
  BY <1>4, <1>5, <1>6 DEF Paid
<1>8. InLoop(payout.step) /\ payout.step \in {"save", "fail"}
  BY <1>1 DEF InLoop
<1>9. payFaults = 0 /\ Len(records) = 1 /\ Distinct(d.prizes) => d.status = "completed"
  BY <1>4, <1>5, <1>6
<1> QED
  BY <1>1, <1>2, <1>6, <1>7, <1>8, <1>9, SaveRecordInv

LEMMA SaveFailedInv ==
    ASSUME PrizeInv, SaveFailed
    PROVE  PrizeInv'
<1> DEFINE d == [payout.record EXCEPT !.distributed = payout.paid, !.status = "failed"]
<1>1. payout.step = "fail" /\ SaveRecord(d)
  BY DEF SaveFailed
<1>2. payout.record \in RecordRow /\ payout.paid \in Nat /\ UNCHANGED payFaults
  BY <1>1 DEF PrizeInv, PayTypes, PayoutRow, SaveRecord
<1>3. d \in RecordRow /\ d.distributed = payout.paid /\ d.status = "failed"
  BY <1>2 DEF RecordRow, PrizeStatus
<1> HIDE DEF d
<1>4. Paid(d, credited, prizeWon)
  BY <1>3 DEF Paid
<1>5. ~(payFaults = 0 /\ Len(records) = 1)
  BY <1>1 DEF PrizeInv, Smooth
<1> QED
  BY <1>1, <1>2, <1>3, <1>4, <1>5, SaveRecordInv

LEMMA RejectPayoutInv ==
    ASSUME PrizeInv, RejectPayout
    PROVE  PrizeInv'
<1> DEFINE ps == payout.record.prizes
           pos == payout.at
           new == Mark(ps, pos, "failed")
<1>1. /\ payFaults' = payFaults + 1 /\ payFaults < MaxPayFaults
      /\ pot' = pot /\ result' = result /\ credited' = credited /\ prizeWon' = prizeWon
      /\ records' = records
  BY DEF RejectPayout
<1>2. payFaults' \in 0 .. MaxPayFaults /\ payFaults' # 0 /\ payFaults \in Nat
  BY <1>1, PrizesAssumption DEF PrizeInv, PayTypes
<1>3. CASE /\ payout.step \in {"credit", "update"}
           /\ payout' = [Onward(pos) EXCEPT !.record = Marked("failed").record]
  <2>1. /\ payout \in PayoutRow /\ payout.record \in RecordRow /\ pos \in Nat
        /\ payout.paid \in Nat /\ ps \in Seq(Prizes)
        /\ credited \in [Contestants -> Nat] /\ prizeWon \in [Contestants -> Nat]
    <3>1. payout \in PayoutRow /\ payout.record \in RecordRow /\ pos \in Nat /\ payout.paid \in Nat
      BY DEF PrizeInv, PayTypes, PayoutRow
    <3>2. /\ credited \in [Contestants -> Nat] /\ prizeWon \in [Contestants -> Nat]
      BY DEF PrizeInv, PayTypes
    <3> QED
      BY <3>1, <3>2, PrizesOfRecord
  <2>2. /\ Unsettled(records) /\ totalDistribution(ps) <= pot.released
        /\ pos \in DOMAIN ps /\ InLoop(payout.step)
        /\ Progress(ps, pos - 1, Credits(payout), payout.paid, credited, prizeWon, payFaults)
    <3>1. InLoop(payout.step)
      BY <1>3 DEF InLoop
    <3>2. Written(payout) = pos - 1
      BY <1>3 DEF Written
    <3> HIDE DEF pos
    <3> QED
      BY <1>3, <3>1, <3>2 DEF PrizeInv, Looping, pos
  <2>3. /\ pos <= Len(ps) /\ pos - 1 \in Nat /\ pos - 1 + 1 = pos /\ pos >= 1
    BY <2>1, <2>2, PrizeRow
  <2>4. /\ Marked("failed").record \in RecordRow /\ Marked("failed").record.prizes = new
    BY <2>1, <2>2, MarkedIs DEF EntryStatus
  <2>5. /\ totalDistribution(new) = totalDistribution(ps) /\ DOMAIN new = DOMAIN ps
        /\ Len(new) = Len(ps) /\ new \in Seq(Prizes)
    BY <2>1, <2>2, Marking DEF totalDistribution, EntryStatus
  <2>6. /\ Onward(pos) \in PayoutRow
        /\ Onward(pos).paid = payout.paid
        /\ InLoop(Onward(pos).step) /\ Onward(pos).step \in {"credit", "save"}
        /\ Onward(pos).step = "credit" => Onward(pos).at \in DOMAIN ps
        /\ Onward(pos).step = "save" => Onward(pos).at = Len(ps)
        /\ Written(Onward(pos)) = pos /\ Credits(Onward(pos)) = pos
    BY <2>1, <2>3, OnwardIs
  <2>7. /\ payout' \in PayoutRow
        /\ payout'.record.prizes = new /\ payout'.paid = payout.paid
        /\ InLoop(payout'.step) /\ payout'.step \in {"credit", "save"}
        /\ payout'.step = "credit" => payout'.at \in DOMAIN ps
        /\ payout'.step = "save" => payout'.at = Len(ps)
        /\ Written(payout') = pos /\ Credits(payout') = pos
    <3> DEFINE j == Onward(pos)
               d == Marked("failed").record
    <3>1. payout' = [j EXCEPT !.record = d] /\ d \in RecordRow /\ j \in PayoutRow
          /\ d.prizes = new
      BY <1>3, <2>4, <2>6
    <3> HIDE DEF j, d
    <3>2. /\ payout' \in PayoutRow /\ payout'.step = j.step /\ payout'.at = j.at
          /\ payout'.record = d /\ payout'.paid = j.paid
      BY <3>1 DEF PayoutRow
    <3>3. Written(payout') = Written(j) /\ Credits(payout') = Credits(j)
      BY <3>2 DEF Written, Credits
    <3> QED
      BY <2>6, <3>1, <3>2, <3>3 DEF j
  <2>8. Progress(new, pos, pos, payout.paid, credited, prizeWon, payFaults')
    <3> DEFINE w == pos - 1
    <3>1. w \in Nat /\ w + 1 = pos
      BY <2>3
    <3>2. Progress(ps, w, Credits(payout), payout.paid, credited, prizeWon, payFaults)
          /\ w + 1 \in DOMAIN ps
      BY <2>2, <3>1
    <3> HIDE DEF w
    <3>3. Progress(Mark(ps, w + 1, "failed"), w + 1, w + 1, payout.paid, credited,
                   prizeWon, payFaults')
      BY <1>2, <2>1, <3>1, <3>2, ProgressFails
    <3> QED
      BY <3>1, <3>3
  <2> HIDE DEF ps, pos, new
  <2>9. PayTypes'
    BY <1>1, <1>2, <2>7 DEF PrizeInv, PayTypes
  <2>10. Fresh(pot, payout', records, credited)
    BY <2>2 DEF PrizeInv, Fresh
  <2>11. Drafted(payout') /\ Recorded(payout', records)
    BY <1>3, <2>7 DEF PrizeInv, Drafted, Recorded
  <2>12. Looping(pot, payout', records, credited, prizeWon, payFaults')
    BY <2>2, <2>5, <2>7, <2>8 DEF Looping
  <2>13. Claims(pot, payout', records, credited)
    BY <2>7 DEF PrizeInv, Claims
  <2>14. AllPaid(records, credited, prizeWon)
    BY DEF PrizeInv
  <2>15. Smooth(pot, payout', records, payFaults')
    BY <1>2 DEF Smooth
  <2> QED
    BY <1>1, <2>9, <2>10, <2>11, <2>12, <2>13, <2>14, <2>15 DEF PrizeInv
<1>4. CASE /\ payout.step \in {"release", "save"}
           /\ payout' = [payout EXCEPT !.step = "fail"]
  BY <1>1, <1>2, <1>4, ReleaseRefusedInv
<1>5. CASE payout' = Idle
  BY <1>1, <1>2, <1>5, CallEnds
<1> QED
  BY <1>3, <1>4, <1>5 DEF RejectPayout

LEMMA CrashPayoutInv ==
    ASSUME PrizeInv, CrashPayout
    PROVE  PrizeInv'
<1>1. /\ payFaults' = payFaults + 1 /\ payFaults < MaxPayFaults
      /\ UNCHANGED <<pot, result, credited, prizeWon, records>> /\ payout' = Idle
  BY DEF CrashPayout
<1>2. payFaults' \in 0 .. MaxPayFaults /\ payFaults' # 0
  BY <1>1, PrizesAssumption DEF PrizeInv, PayTypes
<1> QED
  BY <1>1, <1>2, CallEnds

\* The record of a distribution tells what distributeMatchPrizes did, for every
\* number of contestants, any balance of the escrow and any number of repeated
\* calls, rejected calls and crashes.
THEOREM PrizesTruthful == PrizeSpec => [](PrizeTypeOK /\ PrizeRecordsTruthful)
<1>1. PrizeInv /\ [PrizeNext]_prizeVars => PrizeInv'
  <2> SUFFICES ASSUME PrizeInv, [PrizeNext]_prizeVars
               PROVE  PrizeInv'
    OBVIOUS
  <2>1. CASE UNCHANGED prizeVars
    <3>1. /\ pot' = pot /\ result' = result /\ credited' = credited
          /\ prizeWon' = prizeWon /\ records' = records /\ payout' = payout
          /\ payFaults' = payFaults
      BY <2>1 DEF prizeVars
    <3>2. PayTypes'
      BY <3>1 DEF PrizeInv, PayTypes
    <3> QED
      BY <3>1, <3>2 DEF PrizeInv
  <2>2. CASE ReadEscrow
    BY <2>2, ReadEscrowInv
  <2>3. CASE CreateRecord
    BY <2>3, CreateRecordInv
  <2>4. CASE ReleasePot
    BY <2>4, ReleasePotInv
  <2>5. CASE CreditPrize
    BY <2>5, CreditPrizeInv
  <2>6. CASE UpdatePrizeWon
    BY <2>6, UpdatePrizeWonInv
  <2>7. CASE SaveOutcome
    BY <2>7, SaveOutcomeInv
  <2>8. CASE SaveFailed
    BY <2>8, SaveFailedInv
  <2>9. CASE RejectPayout
    BY <2>9, RejectPayoutInv
  <2>10. CASE CrashPayout
    BY <2>10, CrashPayoutInv
  <2> QED
    BY <2>1, <2>2, <2>3, <2>4, <2>5, <2>6, <2>7, <2>8, <2>9, <2>10 DEF PrizeNext
<1> QED
  BY PrizeInitInv, PrizeInvMeans, <1>1, PTL DEF PrizeSpec

-----------------------------------------------------------------------------
(* The money of a tournament                                                *)

\* The calls of registerPlayer; those after the fee was locked; those that can
\* find it locked; those that lead to the entry.
Registering == {"findEntry", "lockFunds", "deposit", "deduct", "saveEntry", "savePool",
                "rollback"}
Charging == {"deposit", "deduct", "saveEntry", "savePool", "rollback"}
Holding == {"deposit", "deduct", "rollback"}
Entering == {"deduct", "saveEntry", "savePool"}

\* The calls of cancelTournament after the refund.
Returning == {"findEntries", "unlock", "saveWithdrawn", "saveCancelled"}

Who(j) == The(j.players)

Registered(en) == {p \in Entrants_ : en[p].status # "none"}

Awaiting(S, a) == {r \in Organizers : a[r] \in S}

\* What requests remember, and the rows.
EntriesAre(en) ==
    /\ DOMAIN en = Entrants_
    /\ \A p \in Entrants_ : en[p] = [f \in {"status", "place"} |-> en[p][f]]

HeldIs(j) ==
    /\ j = [f \in {"row", "seen", "players", "prizes"} |-> j[f]]
    /\ EntriesAre(j.seen)
    /\ j.players \in SUBSET Entrants_
    /\ j.prizes \in Seq(Entry(Entrants_))

CupTypes ==
    /\ EntriesAre(entry)
    /\ chest \in EscrowRow /\ chest.balance \in Nat
    /\ purse \in [Entrants_ -> WalletRow]
    /\ at \in [Organizers -> Steps]
    /\ DOMAIN held = Organizers /\ \A r \in Organizers : HeldIs(held[r])
    /\ cupFaults \in Nat

\* What a call tells about the request and the tables.
LinkOf(k, j, status, reg) ==
    /\ k \in Registering => \E p \in Entrants_ : j.players = {p}
    /\ k = "credit" => status = "released" /\ j.prizes # <<>>
    /\ k \in Returning => status = "refunded"
    /\ k \in {"unlock", "saveWithdrawn"} => j.players \in SUBSET reg

Links(a, h, status, reg) == \A r \in Organizers : LinkOf(a[r], h[r], status, reg)

ChestIs(e) ==
    /\ e.status \in {"created", "active", "locked", "released", "refunded"}
    /\ e.status \in {"created", "active", "locked"} => e.balance = e.deposited

\* No two requests are in these calls for the same player.
OneEach(S, a, h) ==
    \A r, q \in Organizers :
        a[r] \in S /\ a[q] \in S /\ Who(h[r]) = Who(h[q]) => r = q

\* Until prizes are paid, a player has the fee or has spent it.
StageOf(k, w) ==
    /\ k \in Charging => w.available = 0
    /\ k \in {"deposit", "deduct"} => w.locked = Fee
    /\ k \in {"saveEntry", "savePool"} => Value(w) = 0

OneFee(status, reg, pu, a, h) ==
    status # "released" =>
        /\ \A p \in Entrants_ : Value(pu[p]) \in {0, Fee}
        /\ \A p \in reg : Value(pu[p]) = 0
        /\ \A r \in Organizers : StageOf(a[r], pu[Who(h[r])])
        /\ OneEach(Charging, a, h)

\* Afterwards, what is locked suffices for every request that counts on it.
HeldFor(p, a, h) == {r \in Organizers : a[r] \in Holding /\ Who(h[r]) = p}

FeesLocked(pu, a, h) ==
    \A r \in Organizers :
        a[r] = "deduct"
          => pu[Who(h[r])].locked >= Fee * Cardinality(HeldFor(Who(h[r]), a, h))

NotYet(reg, a, h) ==
    \A r \in Organizers : a[r] \in {"deduct", "saveEntry"} => Who(h[r]) \notin reg

\* All the money there is, with the prizes that are still to be credited.
Values(pu) == [p \in Entrants_ |-> Value(pu[p])]

Claim(k, j) == IF k = "credit" THEN totalDistribution(j.prizes) ELSE 0

ClaimsOf(a, h) == [r \in Organizers |-> Claim(a[r], h[r])]

Bounded(e, pu, a, h, fl) ==
    Total(Values(pu)) + e.balance + e.fee + Total(ClaimsOf(a, h))
        <= Fee * (Cardinality(Entrants_) + Cardinality(Awaiting({"deduct"}, a)) + fl)

FeesCame(e, reg, a) ==
    Fee * (Cardinality(reg) + Cardinality(Awaiting({"deduct", "saveEntry"}, a)))
        <= e.deposited

CupMoney ==
    /\ CupTypes
    /\ Links(at, held, chest.status, Registered(entry))
    /\ ChestIs(chest)
    /\ OneEach(Entering, at, held)
    /\ OneFee(chest.status, Registered(entry), purse, at, held)
    /\ FeesLocked(purse, at, held)
    /\ NotYet(Registered(entry), at, held)
    /\ Bounded(chest, purse, at, held, cupFaults)
    /\ FeesCame(chest, Registered(entry), at)

\* While nothing overlapped, at most one request is running.
Solo(a, o) == o = 0 => \A r, q \in Organizers : a[r] # "idle" /\ a[q] # "idle" => r = q

\* No request has loaded a registration that is not there any more: none is
\* ever deleted.
SeenKnown == \A r \in Organizers : Registered(held[r].seen) \in SUBSET Registered(entry)

CupInv == CupMoney /\ SeenKnown /\ overlaps \in Nat /\ Solo(at, overlaps)

LEMMA CountChanges ==
    ASSUME NEW S, IsFiniteSet(S), NEW A \in SUBSET S, NEW B \in SUBSET S, NEW x \in S,
           \A y \in S : y # x => (y \in A <=> y \in B)
    PROVE  /\ Cardinality(A) \in Nat /\ Cardinality(B) \in Nat
           /\ Cardinality(B) = Cardinality(A) - (IF x \in A THEN 1 ELSE 0)
                                              + (IF x \in B THEN 1 ELSE 0)
<1> DEFINE rest == A \ {x}
<1>1. /\ IsFiniteSet(A) /\ IsFiniteSet(B) /\ IsFiniteSet(rest)
      /\ Cardinality(A) \in Nat /\ Cardinality(B) \in Nat /\ Cardinality(rest) \in Nat
  <2>1. IsFiniteSet(A) /\ IsFiniteSet(B) /\ IsFiniteSet(rest)
    BY FS_Subset
  <2> QED
    BY <2>1, FS_CardinalityType
<1>2. B = (IF x \in B THEN rest \cup {x} ELSE rest) /\ x \notin rest
  OBVIOUS
<1>3. Cardinality(rest) = Cardinality(A) - (IF x \in A THEN 1 ELSE 0)
  BY <1>1, FS_RemoveElement
<1>4. Cardinality(rest \cup {x}) = Cardinality(rest) + 1
  <2> HIDE DEF rest
  <2> QED
    BY <1>1, <1>2, FS_AddElement
<1> HIDE DEF rest
<1> QED
  BY <1>1, <1>2, <1>3, <1>4

\* A part counts no more than the whole.
LEMMA CountFewer ==
    ASSUME NEW S, IsFiniteSet(S), NEW A \in SUBSET S, NEW B \in SUBSET A
    PROVE  /\ Cardinality(A) \in Nat /\ Cardinality(B) \in Nat
           /\ Cardinality(B) <= Cardinality(A)
<1>1. IsFiniteSet(A) /\ IsFiniteSet(B)
  BY FS_Subset
<1> QED
  BY <1>1, FS_Subset, FS_CardinalityType

\* A request moves on to the call k, with the memory j; the others stay.
Moved(a, h, b, g, r, k, j) ==
    /\ b \in [Organizers -> Steps] /\ DOMAIN g = Organizers
    /\ b[r] = k /\ g[r] = j /\ HeldIs(j)
    /\ \A q \in Organizers : q # r => b[q] = a[q] /\ g[q] = h[q]

\* The memory of a request that settles is empty.
Memory(k, j) == IF k = "idle" THEN NotHeld ELSE j

LEMMA NotHeldIs == HeldIs(NotHeld) /\ NotHeld.players = {} /\ NotHeld.prizes = <<>>
<1>1. EntriesAre(NoEntries)
  BY DEF EntriesAre, NoEntries
<1>2. NotHeld = [f \in {"row", "seen", "players", "prizes"} |-> NotHeld[f]]
      /\ NotHeld.seen = NoEntries /\ NotHeld.players = {} /\ NotHeld.prizes = <<>>
  BY DEF NotHeld
<1>3. <<>> \in Seq(Entry(Entrants_))
  OBVIOUS
<1> QED
  BY <1>1, <1>2, <1>3 DEF HeldIs

LEMMA AwaitMoves ==
    ASSUME CupTypes, NEW r \in Organizers, NEW k \in Steps, NEW j, HeldIs(j), Await(r, k, j)
    PROVE  Moved(at, held, at', held', r, k, Memory(k, j))
<1>1. HeldIs(Memory(k, j))
  BY NotHeldIs DEF Memory
<1>2. at' \in [Organizers -> Steps] /\ at'[r] = k
      /\ \A q \in Organizers : q # r => at'[q] = at[q]
  BY DEF Await, CupTypes
<1>3. DOMAIN held' = Organizers /\ held'[r] = Memory(k, j)
      /\ \A q \in Organizers : q # r => held'[q] = held[q]
  BY DEF Await, CupTypes, Memory
<1> QED
  BY <1>1, <1>2, <1>3 DEF Moved

\* The call of a registration that is remembered for its player.
Stays(k, j, l, i, S) == l \in S => k \in S /\ Who(i) = Who(j)

LEMMA OneEachMoves ==
    ASSUME NEW S, NEW a, NEW h, NEW b, NEW g, NEW r \in Organizers, NEW k, NEW j,
           Moved(a, h, b, g, r, k, j), Stays(a[r], h[r], k, j, S), OneEach(S, a, h)
    PROVE  OneEach(S, b, g)
BY DEF Moved, Stays, OneEach

LEMMA NotYetMoves ==
    ASSUME NEW reg, NEW a, NEW h, NEW b, NEW g, NEW r \in Organizers, NEW k, NEW j,
           Moved(a, h, b, g, r, k, j), Stays(a[r], h[r], k, j, {"deduct", "saveEntry"}),
           NotYet(reg, a, h)
    PROVE  NotYet(reg, b, g)
BY DEF Moved, Stays, NotYet

LEMMA HeldForChange ==
    ASSUME NEW a, NEW h, NEW b, NEW g, NEW r \in Organizers, NEW k, NEW j,
           Moved(a, h, b, g, r, k, j), NEW p
    PROVE  /\ Cardinality(HeldFor(p, a, h)) \in Nat /\ Cardinality(HeldFor(p, b, g)) \in Nat
           /\ Cardinality(HeldFor(p, b, g))
                = Cardinality(HeldFor(p, a, h))
                    - (IF a[r] \in Holding /\ Who(h[r]) = p THEN 1 ELSE 0)
                    + (IF k \in Holding /\ Who(j) = p THEN 1 ELSE 0)
<1>1. HeldFor(p, a, h) \in SUBSET Organizers /\ HeldFor(p, b, g) \in SUBSET Organizers
  BY DEF HeldFor
<1>2. /\ \A q \in Organizers : q # r => (q \in HeldFor(p, a, h) <=> q \in HeldFor(p, b, g))
      /\ r \in HeldFor(p, a, h) <=> a[r] \in Holding /\ Who(h[r]) = p
      /\ r \in HeldFor(p, b, g) <=> k \in Holding /\ Who(j) = p
  BY DEF Moved, HeldFor
<1>3. IsFiniteSet(Organizers)
  BY TournamentAssumption
<1> QED
  BY <1>1, <1>2, <1>3, CountChanges

LEMMA FeeTimes ==
    /\ Fee \in Nat /\ Fee > 0
    /\ \A a, b \in Int : Fee * (a + b) = Fee * a + Fee * b
    /\ \A a \in Nat : Fee * a \in Nat
    /\ \A a, b \in Nat : a <= b => Fee * a <= Fee * b
    /\ Fee * 1 = Fee /\ Fee * 0 = 0
<1>1. Fee \in Nat /\ Fee > 0
  BY TournamentAssumption
<1>2. \A f \in Nat :
        /\ \A a, b \in Int : f * (a + b) = f * a + f * b
        /\ \A a \in Nat : f * a \in Nat
        /\ \A a, b \in Nat : a <= b => f * a <= f * b
        /\ f * 1 = f /\ f * 0 = 0
  <2> TAKE f \in Nat
  <2>1. \A a, b \in Int : f * (a + b) = f * a + f * b
    OBVIOUS
  <2>2. \A a \in Nat : f * a \in Nat
    OBVIOUS
  <2>3. ASSUME NEW a \in Nat, NEW b \in Nat, a <= b
        PROVE  f * a <= f * b
    <3>1. b - a \in Nat /\ b = a + (b - a)
      BY <2>3
    <3>2. f * b = f * a + f * (b - a)
      BY <2>1, <3>1
    <3>3. f * a \in Nat /\ f * b \in Nat /\ f * (b - a) \in Nat
      BY <2>2, <3>1
    <3> QED
      BY <3>2, <3>3
  <2> QED
    BY <2>1, <2>2, <2>3
<1> QED
  BY <1>1, <1>2

\* The wallet of a player covers n more fees, and no more than n requests more
\* count on it.
Covers(p, n, pu, a, h, pu2, b, g) ==
    /\ pu2[p].locked >= pu[p].locked + Fee * n
    /\ Cardinality(HeldFor(p, b, g)) <= Cardinality(HeldFor(p, a, h)) + n

LEMMA FeesLockedMoves ==
    ASSUME NEW pu \in [Entrants_ -> WalletRow], NEW pu2 \in [Entrants_ -> WalletRow],
           NEW a, NEW h, NEW b, NEW g, NEW r \in Organizers, NEW k, NEW j,
           Moved(a, h, b, g, r, k, j), FeesLocked(pu, a, h),
           \A q \in Organizers :
             b[q] = "deduct"
               => /\ a[q] = "deduct" /\ Who(g[q]) = Who(h[q]) /\ Who(h[q]) \in Entrants_
                  /\ \E n \in Int : Covers(Who(h[q]), n, pu, a, h, pu2, b, g)
    PROVE  FeesLocked(pu2, b, g)
<1> SUFFICES ASSUME NEW q \in Organizers, b[q] = "deduct"
             PROVE  pu2[Who(g[q])].locked >= Fee * Cardinality(HeldFor(Who(g[q]), b, g))
  BY DEF FeesLocked
<1>1. a[q] = "deduct" /\ Who(g[q]) = Who(h[q]) /\ Who(h[q]) \in Entrants_
  OBVIOUS
<1> DEFINE p == Who(h[q])
           m == Cardinality(HeldFor(p, a, h))
           m2 == Cardinality(HeldFor(p, b, g))
           x == pu[p].locked
           y == pu2[p].locked
<1>2. PICK n \in Int : Covers(p, n, pu, a, h, pu2, b, g)
  OBVIOUS
<1>3. m \in Nat /\ m2 \in Nat
  BY HeldForChange
<1>4. x >= Fee * m /\ x \in Nat /\ y \in Nat
  BY <1>1 DEF FeesLocked, WalletRow
<1>5. y >= x + Fee * n /\ m2 <= m + n
  BY <1>2 DEF Covers
<1> HIDE DEF m, m2, x, y
<1>6. m + n \in Nat
  BY <1>3, <1>5
<1>7. Fee * m2 <= Fee * (m + n)
  BY <1>3, <1>5, <1>6, FeeTimes
<1>8. Fee * (m + n) = Fee * m + Fee * n
  BY <1>3, FeeTimes
<1>9. Fee * m \in Int /\ Fee * n \in Int /\ Fee * m2 \in Int
  BY <1>3, FeeTimes
<1>10. y >= Fee * m2
  BY <1>4, <1>5, <1>7, <1>8, <1>9
<1> QED
  BY <1>1, <1>10 DEF y, m2

LEMMA LinksMove ==
    ASSUME NEW a, NEW h, NEW b, NEW g, NEW r \in Organizers, NEW k, NEW j, NEW st, NEW reg,
           NEW st2, NEW reg2, Moved(a, h, b, g, r, k, j), Links(a, h, st, reg),
           LinkOf(k, j, st2, reg2), reg \in SUBSET reg2,
           st2 = st \/ st \notin {"released", "refunded"}
    PROVE  Links(b, g, st2, reg2)
<1> SUFFICES ASSUME NEW q \in Organizers, q # r
             PROVE  LinkOf(a[q], h[q], st2, reg2)
  BY DEF Links, Moved
<1>1. LinkOf(a[q], h[q], st, reg)
  BY DEF Links
<1>2. CASE st2 = st
  BY <1>1, <1>2 DEF LinkOf
<1>3. CASE st \notin {"released", "refunded"}
  BY <1>1, <1>3 DEF LinkOf, Returning
<1> QED
  BY <1>2, <1>3

LEMMA WhoIs ==
    ASSUME NEW k \in Registering, NEW j, NEW st, NEW reg, LinkOf(k, j, st, reg)
    PROVE  Who(j) \in Entrants_ /\ j.players = {Who(j)}
<1>1. PICK p \in Entrants_ : j.players = {p}
  BY DEF LinkOf
<1>2. The({p}) = p
  BY DEF The
<1> QED
  BY <1>1, <1>2 DEF Who

LEMMA AllWho ==
    ASSUME NEW a, NEW h, NEW st, NEW reg, Links(a, h, st, reg)
    PROVE  \A q \in Organizers : a[q] \in Registering => Who(h[q]) \in Entrants_
BY WhoIs DEF Links

LEMMA StepsIn ==
    /\ Charging \in SUBSET Registering /\ Holding \in SUBSET Charging
    /\ Entering \in SUBSET Charging /\ Registering \in SUBSET Steps
    /\ "idle" \notin Registering /\ "credit" \notin Registering
    /\ "lockFunds" \notin Charging /\ Returning \cap Registering = {}
    /\ "credit" \notin Returning
BY DEF Charging, Registering, Holding, Entering, Steps, Returning

\* A request that is not charging, or gives up.
LeavesOff(l, i, k, j) ==
    k \notin Charging \/ (k = "rollback" /\ l \in Charging /\ Who(j) = Who(i))

LEMMA OneFeeMoves ==
    ASSUME NEW a, NEW h, NEW b, NEW g, NEW r \in Organizers, NEW k, NEW j, NEW st, NEW reg,
           NEW pu, Moved(a, h, b, g, r, k, j), LeavesOff(a[r], h[r], k, j),
           OneFee(st, reg, pu, a, h)
    PROVE  OneFee(st, reg, pu, b, g)
<1> SUFFICES ASSUME st # "released"
             PROVE  /\ \A q \in Organizers : StageOf(b[q], pu[Who(g[q])])
                    /\ OneEach(Charging, b, g)
  BY DEF OneFee
<1>1. /\ \A q \in Organizers : StageOf(a[q], pu[Who(h[q])])
      /\ OneEach(Charging, a, h)
  BY DEF OneFee
<1>2. Stays(a[r], h[r], k, j, Charging)
  BY StepsIn DEF LeavesOff, Stays
<1>3. OneEach(Charging, b, g)
  BY <1>1, <1>2, OneEachMoves
<1>4. StageOf(k, pu[Who(j)])
  <2>1. CASE k \notin Charging
    BY <2>1 DEF StageOf, Charging
  <2>2. CASE k = "rollback" /\ a[r] \in Charging /\ Who(j) = Who(h[r])
    BY <1>1, <2>2 DEF StageOf
  <2> QED
    BY <2>1, <2>2 DEF LeavesOff
<1> QED
  BY <1>1, <1>3, <1>4 DEF Moved

LEMMA AwaitingMoves ==
    ASSUME NEW a, NEW h, NEW b, NEW g, NEW r \in Organizers, NEW k, NEW j,
           Moved(a, h, b, g, r, k, j), NEW S
    PROVE  /\ Cardinality(Awaiting(S, a)) \in Nat /\ Cardinality(Awaiting(S, b)) \in Nat
           /\ Cardinality(Awaiting(S, b))
                = Cardinality(Awaiting(S, a)) - (IF a[r] \in S THEN 1 ELSE 0)
                                              + (IF k \in S THEN 1 ELSE 0)
<1>1. Awaiting(S, a) \in SUBSET Organizers /\ Awaiting(S, b) \in SUBSET Organizers
  BY DEF Awaiting
<1>2. /\ \A q \in Organizers : q # r => (q \in Awaiting(S, a) <=> q \in Awaiting(S, b))
      /\ r \in Awaiting(S, a) <=> a[r] \in S
      /\ r \in Awaiting(S, b) <=> k \in S
  BY DEF Moved, Awaiting
<1>3. IsFiniteSet(Organizers)
  BY TournamentAssumption
<1> QED
  BY <1>1, <1>2, <1>3, CountChanges

LEMMA EntriesMove ==
    ASSUME NEW a, NEW h, NEW b, NEW g, NEW r \in Organizers, NEW k, NEW j,
           Moved(a, h, b, g, r, k, j)
    PROVE  LET d == Cardinality(Awaiting({"deduct", "saveEntry"}, a))
               d2 == Cardinality(Awaiting({"deduct", "saveEntry"}, b))
           IN  /\ d \in Nat /\ d2 \in Nat
               /\ d2 = d - (IF a[r] \in {"deduct", "saveEntry"} THEN 1 ELSE 0)
                         + (IF k \in {"deduct", "saveEntry"} THEN 1 ELSE 0)
<1> DEFINE S == {"deduct", "saveEntry"}
<1> HIDE DEF S
<1>1. /\ Cardinality(Awaiting(S, a)) \in Nat /\ Cardinality(Awaiting(S, b)) \in Nat
      /\ Cardinality(Awaiting(S, b))
           = Cardinality(Awaiting(S, a)) - (IF a[r] \in S THEN 1 ELSE 0)
                                         + (IF k \in S THEN 1 ELSE 0)
  BY AwaitingMoves
<1> QED
  BY <1>1 DEF S

LEMMA ClaimType ==
    ASSUME NEW k, NEW j, HeldIs(j)
    PROVE  Claim(k, j) \in Nat /\ totalDistribution(j.prizes) \in Nat
<1>1. totalDistribution(j.prizes) \in Nat
  BY AmountsType DEF HeldIs
<1> QED
  BY <1>1 DEF Claim

LEMMA ClaimsMove ==
    ASSUME NEW a, NEW h, NEW b, NEW g, NEW r \in Organizers, NEW k, NEW j,
           \A q \in Organizers : HeldIs(h[q]), Moved(a, h, b, g, r, k, j)
    PROVE  /\ Total(ClaimsOf(a, h)) \in Nat /\ Total(ClaimsOf(b, g)) \in Nat
           /\ Claim(a[r], h[r]) \in Nat /\ Claim(k, j) \in Nat
           /\ Total(ClaimsOf(b, g)) = Total(ClaimsOf(a, h)) - Claim(a[r], h[r]) + Claim(k, j)
<1> DEFINE f == ClaimsOf(a, h)
           n == Claim(k, j)
<1>1. f \in [Organizers -> Nat] /\ f[r] = Claim(a[r], h[r])
  BY ClaimType DEF ClaimsOf
<1>2. n \in Nat
  BY ClaimType DEF Moved
<1>3. ClaimsOf(b, g) = [f EXCEPT ![r] = n]
  BY DEF ClaimsOf, Moved
<1>4. Summable(f)
  BY <1>1, FiniteSummable, TournamentAssumption
<1> HIDE DEF f, n
<1>5. /\ Summable([f EXCEPT ![r] = n])
      /\ Total([f EXCEPT ![r] = n]) = Total(f) - f[r] + n
  BY <1>1, <1>2, <1>4, TotalChange
<1>6. Total(f) \in Nat /\ Total([f EXCEPT ![r] = n]) \in Nat
  BY <1>4, <1>5, TotalType
<1>7. f[r] \in Nat
  BY <1>1
<1> QED
  BY <1>1, <1>2, <1>3, <1>5, <1>6, <1>7 DEF f, n

LEMMA ValuesType ==
    ASSUME NEW pu \in [Entrants_ -> WalletRow]
    PROVE  /\ Values(pu) \in [Entrants_ -> Nat] /\ Summable(Values(pu))
           /\ Total(Values(pu)) \in Nat
<1>1. Values(pu) \in [Entrants_ -> Nat]
  BY DEF Values, Value, WalletRow
<1>2. Summable(Values(pu))
  BY <1>1, FiniteSummable, TournamentAssumption
<1> QED
  BY <1>1, <1>2, TotalType

\* One wallet is written.
OneWallet(pu, pu2, p, w) ==
    /\ pu \in [Entrants_ -> WalletRow] /\ pu2 \in [Entrants_ -> WalletRow]
    /\ p \in Entrants_ /\ w \in WalletRow /\ pu2[p] = w
    /\ \A x \in Entrants_ : x # p => pu2[x] = pu[x]

LEMMA OneWalletIs ==
    ASSUME NEW pu \in [Entrants_ -> WalletRow], NEW p \in Entrants_, NEW w \in WalletRow
    PROVE  OneWallet(pu, [pu EXCEPT ![p] = w], p, w)
BY DEF OneWallet

LEMMA ValuesChange ==
    ASSUME NEW pu, NEW pu2, NEW p, NEW w, OneWallet(pu, pu2, p, w)
    PROVE  /\ Value(pu[p]) \in Nat /\ Value(w) \in Nat
           /\ Total(Values(pu)) \in Nat /\ Total(Values(pu2)) \in Nat
           /\ Total(Values(pu2)) = Total(Values(pu)) - Value(pu[p]) + Value(w)
<1>1. pu \in [Entrants_ -> WalletRow] /\ p \in Entrants_ /\ w \in WalletRow
      /\ pu2 \in [Entrants_ -> WalletRow]
  BY DEF OneWallet
<1> DEFINE f == Values(pu)
           n == Value(w)
<1>2. f \in [Entrants_ -> Nat] /\ Summable(f) /\ Total(f) \in Nat /\ Total(Values(pu2)) \in Nat
  BY <1>1, ValuesType
<1>3. n \in Nat /\ f[p] = Value(pu[p]) /\ Value(pu[p]) \in Nat
  BY <1>1 DEF Value, WalletRow, Values
<1>4. Values(pu2) = [f EXCEPT ![p] = n]
  BY DEF Values, OneWallet
<1> HIDE DEF f, n
<1>5. Total([f EXCEPT ![p] = n]) = Total(f) - f[p] + n
  BY <1>1, <1>2, <1>3, TotalChange
<1> QED
  BY <1>2, <1>3, <1>4, <1>5 DEF f, n

\* The bound on the money, after a step of request r.
LEMMA BoundedMoves ==
    ASSUME NEW a, NEW h, NEW b, NEW g, NEW r \in Organizers, NEW k, NEW j,
           \A q \in Organizers : HeldIs(h[q]), Moved(a, h, b, g, r, k, j),
           NEW e \in EscrowRow, NEW pu \in [Entrants_ -> WalletRow], NEW fl \in Nat,
           NEW e2 \in EscrowRow, NEW pu2 \in [Entrants_ -> WalletRow], NEW fl2 \in Nat,
           Bounded(e, pu, a, h, fl), NEW n \in Int,
           n = (IF k = "deduct" THEN 1 ELSE 0) - (IF a[r] = "deduct" THEN 1 ELSE 0) + fl2 - fl,
           Total(Values(pu2)) + e2.balance + e2.fee + Claim(k, j)
             <= Total(Values(pu)) + e.balance + e.fee + Claim(a[r], h[r]) + Fee * n
    PROVE  Bounded(e2, pu2, b, g, fl2)
<1> DEFINE N == Cardinality(Entrants_)
           d == Cardinality(Awaiting({"deduct"}, a))
           d2 == Cardinality(Awaiting({"deduct"}, b))
           t == Total(ClaimsOf(a, h))
           t2 == Total(ClaimsOf(b, g))
           v == Total(Values(pu))
           v2 == Total(Values(pu2))
           c == Claim(a[r], h[r])
           c2 == Claim(k, j)
           x == N + d + fl
           y == N + d2 + fl2
<1>1. d \in Nat /\ d2 \in Nat
      /\ d2 = d - (IF a[r] = "deduct" THEN 1 ELSE 0) + (IF k = "deduct" THEN 1 ELSE 0)
  <2> DEFINE S == {"deduct"}
  <2> HIDE DEF S
  <2>1. /\ Cardinality(Awaiting(S, a)) \in Nat /\ Cardinality(Awaiting(S, b)) \in Nat
        /\ Cardinality(Awaiting(S, b))
             = Cardinality(Awaiting(S, a)) - (IF a[r] \in S THEN 1 ELSE 0)
                                           + (IF k \in S THEN 1 ELSE 0)
    BY AwaitingMoves
  <2> QED
    BY <2>1 DEF S
<1>2. t \in Nat /\ t2 \in Nat /\ c \in Nat /\ c2 \in Nat /\ t2 = t - c + c2
  BY ClaimsMove
<1>3. v \in Nat /\ v2 \in Nat
  BY ValuesType
<1>4. e.balance \in Int /\ e.fee \in Nat /\ e2.balance \in Int /\ e2.fee \in Nat
  BY DEF EscrowRow
<1>5. N \in Nat
  BY FS_CardinalityType, TournamentAssumption
<1>6. v + e.balance + e.fee + t <= Fee * x
  BY DEF Bounded
<1>7. v2 + e2.balance + e2.fee + c2 <= v + e.balance + e.fee + c + Fee * n
  OBVIOUS
<1> SUFFICES v2 + e2.balance + e2.fee + t2 <= Fee * y
  BY DEF Bounded
<1> HIDE DEF N, d, d2, t, t2, v, v2, c, c2
<1>8. x \in Int /\ n \in Int /\ y = x + n
  BY <1>1, <1>5
<1> HIDE DEF x, y
<1>9. Fee * y = Fee * x + Fee * n /\ Fee * x \in Int /\ Fee * n \in Int
  BY <1>8, FeeTimes
<1> DEFINE fx == Fee * x
           fn == Fee * n
           fy == Fee * y
<1>10. /\ fy = fx + fn /\ fx \in Int /\ fn \in Int
       /\ v + e.balance + e.fee + t <= fx
       /\ v2 + e2.balance + e2.fee + c2 <= v + e.balance + e.fee + c + fn
  BY <1>6, <1>7, <1>9
<1> HIDE DEF fx, fn, fy
<1>11. v2 + e2.balance + e2.fee + t2 <= fy
  BY <1>2, <1>3, <1>4, <1>10
<1> QED
  BY <1>11 DEF fy

\* The fees in the escrow, after a step of request r.
LEMMA FeesCameMoves ==
    ASSUME NEW a, NEW h, NEW b, NEW g, NEW r \in Organizers, NEW k, NEW j,
           Moved(a, h, b, g, r, k, j),
           NEW e \in EscrowRow, NEW e2 \in EscrowRow,
           NEW reg \in SUBSET Entrants_, NEW reg2 \in SUBSET Entrants_,
           FeesCame(e, reg, a), NEW n \in Int,
           n = Cardinality(reg2) - Cardinality(reg)
                 + (IF k \in {"deduct", "saveEntry"} THEN 1 ELSE 0)
                 - (IF a[r] \in {"deduct", "saveEntry"} THEN 1 ELSE 0),
           e.deposited + Fee * n <= e2.deposited
    PROVE  FeesCame(e2, reg2, b)
<1> DEFINE m == Cardinality(reg)
           m2 == Cardinality(reg2)
           d == Cardinality(Awaiting({"deduct", "saveEntry"}, a))
           d2 == Cardinality(Awaiting({"deduct", "saveEntry"}, b))
           x == m + d
           y == m2 + d2
<1>1. m \in Nat /\ m2 \in Nat
  BY CountFewer, TournamentAssumption
<1>2. /\ d \in Nat /\ d2 \in Nat
      /\ d2 = d - (IF a[r] \in {"deduct", "saveEntry"} THEN 1 ELSE 0)
                + (IF k \in {"deduct", "saveEntry"} THEN 1 ELSE 0)
  BY EntriesMove
<1>3. Fee * x <= e.deposited /\ e.deposited \in Nat /\ e2.deposited \in Nat
  BY DEF FeesCame, EscrowRow
<1> SUFFICES Fee * y <= e2.deposited
  BY DEF FeesCame
<1>4. x \in Int /\ y = x + n
  <2> HIDE DEF m, m2, d, d2
  <2> QED
    BY <1>1, <1>2 DEF m, m2
<1> HIDE DEF x, y
<1>5. Fee * y = Fee * x + Fee * n /\ Fee * x \in Int /\ Fee * n \in Int
  BY <1>4, FeeTimes
<1> QED
  BY <1>3, <1>5

-----------------------------------------------------------------------------
(* Steps that move no fee                                                   *)

\* A write of the escrow by which nothing comes in and nothing is paid out.
ChestGoes(e, e2) ==
    /\ e2 \in EscrowRow /\ e2.balance \in Nat /\ ChestIs(e2)
    /\ e2.status = e.status
         \/ (e.status \notin {"released", "refunded"} /\ e2.status # "released")
    /\ e2.balance + e2.fee <= e.balance + e.fee
    /\ e.deposited <= e2.deposited

LEMMA CupFacts ==
    ASSUME CupMoney
    PROVE  /\ Registered(entry) \in SUBSET Entrants_
           /\ \A q \in Organizers : HeldIs(held[q]) /\ at[q] \in Steps
           /\ \A q \in Organizers : at[q] \in Registering => Who(held[q]) \in Entrants_
           /\ chest.balance \in Nat /\ chest.fee \in Nat /\ chest.deposited \in Nat
           /\ chest \in EscrowRow /\ purse \in [Entrants_ -> WalletRow] /\ cupFaults \in Nat
<1>1. \A q \in Organizers : at[q] \in Registering => Who(held[q]) \in Entrants_
  BY AllWho DEF CupMoney
<1> QED
  BY <1>1 DEF CupMoney, CupTypes, Registered, EscrowRow

LEMMA QuietStep ==
    ASSUME CupMoney, NEW r \in Organizers, NEW k, NEW j,
           Moved(at, held, at', held', r, k, j),
           LeavesOff(at[r], held[r], k, j),
           LinkOf(k, j, chest'.status, Registered(entry)),
           Claim(k, j) <= Claim(at[r], held[r]),
           purse' = purse, ChestGoes(chest, chest'),
           EntriesAre(entry'), Registered(entry') = Registered(entry),
           cupFaults' \in Nat, cupFaults' >= cupFaults,
           at[r] = "deduct" => cupFaults' > cupFaults
    PROVE  CupMoney'
<1> DEFINE reg == Registered(entry)
<1>1. /\ reg \in SUBSET Entrants_
      /\ \A q \in Organizers : HeldIs(held[q]) /\ at[q] \in Steps
      /\ \A q \in Organizers : at[q] \in Registering => Who(held[q]) \in Entrants_
      /\ chest.balance \in Nat /\ chest.fee \in Nat /\ chest.deposited \in Nat
      /\ chest \in EscrowRow /\ purse \in [Entrants_ -> WalletRow] /\ cupFaults \in Nat
  BY CupFacts
<1>2. /\ chest' \in EscrowRow /\ chest'.balance \in Nat /\ chest'.fee \in Nat
      /\ chest'.deposited \in Nat /\ chest.deposited <= chest'.deposited
      /\ chest'.balance + chest'.fee <= chest.balance + chest.fee
      /\ ChestIs(chest')
  BY DEF ChestGoes, EscrowRow
<1>3. CupTypes'
  BY <1>1, <1>2 DEF CupTypes, Moved
<1>4. Links(at', held', chest'.status, reg)
  <2>1. chest'.status = chest.status \/ chest.status \notin {"released", "refunded"}
    BY DEF ChestGoes
  <2>2. Links(at, held, chest.status, reg)
    BY DEF CupMoney
  <2> QED
    BY <2>1, <2>2, LinksMove
<1>5. OneEach(Entering, at', held')
  <2>1. Stays(at[r], held[r], k, j, Entering)
    BY StepsIn DEF Stays, LeavesOff, Entering
  <2> QED
    BY <2>1, OneEachMoves DEF CupMoney
<1>6. NotYet(reg, at', held')
  <2>1. Stays(at[r], held[r], k, j, {"deduct", "saveEntry"})
    BY DEF Stays, LeavesOff, Charging
  <2> QED
    BY <2>1, NotYetMoves DEF CupMoney
<1>7. OneFee(chest'.status, reg, purse, at', held')
  <2>1. OneFee(chest.status, reg, purse, at', held')
    BY OneFeeMoves DEF CupMoney
  <2>2. chest'.status # "released" => chest.status # "released"
    BY DEF ChestGoes
  <2> QED
    BY <2>1, <2>2 DEF OneFee
<1>8. FeesLocked(purse, at', held')
  <2>1. ASSUME NEW q \in Organizers, at'[q] = "deduct"
        PROVE  /\ at[q] = "deduct" /\ Who(held'[q]) = Who(held[q]) /\ Who(held[q]) \in Entrants_
               /\ Covers(Who(held[q]), 0, purse, at, held, purse, at', held')
    <3>1. q # r /\ at[q] = "deduct" /\ held'[q] = held[q]
      BY <2>1 DEF Moved, LeavesOff, Charging
    <3>2. Who(held[q]) \in Entrants_
      BY <1>1, <3>1 DEF Registering
    <3> DEFINE p == Who(held[q])
    <3>3. k \in Holding /\ Who(j) = p => at[r] \in Holding /\ Who(held[r]) = p
      <4>1. at[r] \in Entering => Who(held[r]) # p
        BY <3>1 DEF CupMoney, OneEach, Entering
      <4> QED
        BY <4>1 DEF LeavesOff, Holding, Charging, Entering
    <3>4. Cardinality(HeldFor(p, at', held')) <= Cardinality(HeldFor(p, at, held)) + 0
      <4> HIDE DEF p
      <4> QED
        BY <3>3, HeldForChange
    <3>5. purse[p].locked >= purse[p].locked + Fee * 0
      BY <1>1, <3>2, FeeTimes DEF WalletRow
    <3> QED
      BY <3>1, <3>2, <3>4, <3>5 DEF Covers
  <2>2. FeesLocked(purse, at, held)
    BY DEF CupMoney
  <2>3. 0 \in Int
    OBVIOUS
  <2> QED
    BY <1>1, <2>1, <2>2, <2>3, FeesLockedMoves
<1>9. Bounded(chest', purse, at', held', cupFaults')
  <2> DEFINE n == (IF k = "deduct" THEN 1 ELSE 0) - (IF at[r] = "deduct" THEN 1 ELSE 0)
                    + cupFaults' - cupFaults
             v == Total(Values(purse))
             c == Claim(at[r], held[r])
             c2 == Claim(k, j)
  <2>1. n \in Nat
    <3>1. k # "deduct"
      BY DEF LeavesOff, Charging
    <3>2. /\ cupFaults \in Nat /\ cupFaults' \in Nat /\ cupFaults' >= cupFaults
          /\ at[r] = "deduct" => cupFaults' > cupFaults
      BY <1>1
    <3>3. CASE at[r] = "deduct"
      <4>1. n = 0 - 1 + cupFaults' - cupFaults
        BY <3>1, <3>3
      <4>2. \A x, y \in Nat : y > x => 0 - 1 + y - x \in Nat
        OBVIOUS
      <4> QED
        BY <3>2, <3>3, <4>1, <4>2
    <3>4. CASE at[r] # "deduct"
      <4>1. n = 0 - 0 + cupFaults' - cupFaults
        BY <3>1, <3>4
      <4>2. \A x, y \in Nat : y >= x => 0 - 0 + y - x \in Nat
        OBVIOUS
      <4> QED
        BY <3>2, <4>1, <4>2
    <3> QED
      BY <3>3, <3>4
  <2>2. v \in Nat /\ c \in Nat /\ c2 \in Nat /\ c2 <= c
    BY <1>1, ValuesType, ClaimType DEF Moved
  <2>3. Fee * n \in Nat
    BY <2>1, FeeTimes
  <2> HIDE DEF v, c, c2
  <2>4. v + chest'.balance + chest'.fee + c2 <= v + chest.balance + chest.fee + c + Fee * n
    <3> DEFINE fn == Fee * n
    <3> HIDE DEF n, fn
    <3> QED
      BY <1>1, <1>2, <2>2, <2>3 DEF fn
  <2>5. Bounded(chest, purse, at, held, cupFaults)
    BY DEF CupMoney
  <2>6. n \in Int
    BY <2>1
  <2> QED
    BY <1>1, <1>2, <2>4, <2>5, <2>6, BoundedMoves DEF v, c, c2
<1>10. FeesCame(chest', reg, at')
  <2> DEFINE n == (IF k \in {"deduct", "saveEntry"} THEN 1 ELSE 0)
                    - (IF at[r] \in {"deduct", "saveEntry"} THEN 1 ELSE 0)
             m == Cardinality(reg)
  <2>1. n \in {0, -1} /\ m \in Nat
    <3>1. k \notin {"deduct", "saveEntry"}
      BY DEF LeavesOff, Charging
    <3>2. m \in Nat
      BY <1>1, CountFewer, TournamentAssumption
    <3> QED
      BY <3>1, <3>2
  <2>2. Fee * n <= 0 /\ Fee * n \in Int
    <3> HIDE DEF n
    <3>1. Fee * 0 = 0 /\ Fee * (-1) = -Fee /\ Fee \in Nat
      BY FeeTimes
    <3> QED
      BY <2>1, <3>1
  <2>3. chest.deposited + Fee * n <= chest'.deposited
    BY <1>1, <1>2, <2>2
  <2>4. n = m - m + n /\ n \in Int
    BY <2>1
  <2>5. FeesCame(chest, reg, at)
    BY DEF CupMoney
  <2> HIDE DEF reg
  <2> QED
    BY <1>1, <1>2, <2>3, <2>4, <2>5, FeesCameMoves DEF reg
<1> QED
  BY <1>2, <1>3, <1>4, <1>5, <1>6, <1>7, <1>8, <1>9, <1>10 DEF CupMoney

\* Until prizes are paid, only the request itself holds a player's fee.
LEMMA OneFeeLocks ==
    ASSUME NEW a, NEW h, NEW reg, NEW pu \in [Entrants_ -> WalletRow], NEW st,
           st # "released", OneFee(st, reg, pu, a, h)
    PROVE  FeesLocked(pu, a, h)
<1> SUFFICES ASSUME NEW r \in Organizers, a[r] = "deduct"
             PROVE  pu[Who(h[r])].locked >= Fee * Cardinality(HeldFor(Who(h[r]), a, h))
  BY DEF FeesLocked
<1>1. pu[Who(h[r])].locked = Fee
  BY DEF OneFee, StageOf
<1>2. HeldFor(Who(h[r]), a, h) = {r}
  <2>1. OneEach(Charging, a, h)
    BY DEF OneFee
  <2> QED
    BY <2>1 DEF HeldFor, Holding, Charging, OneEach
<1>3. Cardinality({r}) = 1
  BY FS_Singleton
<1> QED
  BY <1>1, <1>2, <1>3, FeeTimes

\* One wallet is written, by a step that leaves as many fees locked for the others.
LEMMA FeesStayLocked ==
    ASSUME CupMoney, NEW r \in Organizers, NEW k, NEW j,
           Moved(at, held, at', held', r, k, j), k # "deduct",
           NEW pu \in [Entrants_ -> WalletRow], NEW p, NEW n \in Int,
           \A x \in Entrants_ : x # p => pu[x] = purse[x],
           \A x \in Entrants_ : x # p =>
              Cardinality(HeldFor(x, at', held')) <= Cardinality(HeldFor(x, at, held)),
           (\E q \in Organizers : q # r /\ at[q] = "deduct" /\ Who(held[q]) = p)
              => Covers(p, n, purse, at, held, pu, at', held')
    PROVE  FeesLocked(pu, at', held')
<1>1. /\ \A q \in Organizers : at[q] \in Registering => Who(held[q]) \in Entrants_
      /\ purse \in [Entrants_ -> WalletRow]
  BY CupFacts
<1>2. ASSUME NEW q \in Organizers, at'[q] = "deduct"
      PROVE  /\ at[q] = "deduct" /\ Who(held'[q]) = Who(held[q]) /\ Who(held[q]) \in Entrants_
             /\ \E m \in Int : Covers(Who(held[q]), m, purse, at, held, pu, at', held')
  <2>1. q # r /\ at[q] = "deduct" /\ held'[q] = held[q]
    BY <1>2 DEF Moved
  <2>2. Who(held[q]) \in Entrants_
    BY <1>1, <2>1 DEF Registering
  <2>3. CASE Who(held[q]) = p
    BY <2>1, <2>2, <2>3
  <2>4. CASE Who(held[q]) # p
    <3> DEFINE x == Who(held[q])
    <3>1. pu[x] = purse[x] /\ pu[x].locked \in Nat
      BY <1>1, <2>2, <2>4 DEF WalletRow
    <3>2. Cardinality(HeldFor(x, at', held')) <= Cardinality(HeldFor(x, at, held)) + 0
      <4>1. Cardinality(HeldFor(x, at', held')) <= Cardinality(HeldFor(x, at, held))
        BY <2>2, <2>4
      <4>2. Cardinality(HeldFor(x, at, held)) \in Nat
        <5> HIDE DEF x
        <5> QED
          BY HeldForChange
      <4> QED
        BY <4>1, <4>2
    <3>3. pu[x].locked >= purse[x].locked + Fee * 0
      BY <3>1, FeeTimes
    <3>4. Covers(x, 0, purse, at, held, pu, at', held')
      BY <3>2, <3>3 DEF Covers
    <3> QED
      BY <2>1, <2>2, <3>4
  <2> QED
    BY <2>3, <2>4
<1>3. FeesLocked(purse, at, held)
  BY DEF CupMoney
<1> QED
  BY <1>1, <1>2, <1>3, FeesLockedMoves

-----------------------------------------------------------------------------
(* Steps that move fees and prizes                                          *)

\* What a call of the wallet writes.
LEMMA FeeMoved ==
    ASSUME NEW w \in WalletRow
    PROVE  /\ Allowed("lockFunds", w, Fee) =>
                /\ w.available >= Fee
                /\ After("lockFunds", w, Fee) \in WalletRow
                /\ After("lockFunds", w, Fee).available = w.available - Fee
                /\ After("lockFunds", w, Fee).locked = w.locked + Fee
                /\ Value(After("lockFunds", w, Fee)) = Value(w)
           /\ Allowed("unlockFunds", w, Fee) =>
                /\ w.locked >= Fee
                /\ After("unlockFunds", w, Fee) \in WalletRow
                /\ After("unlockFunds", w, Fee).locked = w.locked - Fee
                /\ Value(After("unlockFunds", w, Fee)) = Value(w)
           /\ Allowed("deductEntryFee", w, Fee) <=> w.locked >= Fee
           /\ Allowed("deductEntryFee", w, Fee) =>
                /\ After("deductEntryFee", w, Fee) \in WalletRow
                /\ After("deductEntryFee", w, Fee).available = w.available
                /\ After("deductEntryFee", w, Fee).locked = w.locked - Fee
                /\ Value(After("deductEntryFee", w, Fee)) = Value(w) - Fee
           /\ w.available \in Nat /\ w.locked \in Nat /\ Value(w) = w.available + w.locked
<1>1. Fee \in Nat
  BY FeeTimes
<1>2. \A op \in WalletOps : Allowed(op, w, Fee) => After(op, w, Fee) \in WalletRow
  BY <1>1, AfterType
<1>3. /\ Value(After("lockFunds", w, Fee)) = Value(w)
      /\ Value(After("unlockFunds", w, Fee)) = Value(w)
      /\ Value(After("deductEntryFee", w, Fee)) = Value(w) - Fee
  BY <1>1, AfterTotals DEF WalletOps, LoggedOps
<1>4. /\ After("lockFunds", w, Fee)
           = [w EXCEPT !.available = @ - Fee, !.locked = @ + Fee, !.entryFees = @ + Fee]
      /\ After("unlockFunds", w, Fee) = [w EXCEPT !.available = @ + Fee, !.locked = @ - Fee]
      /\ After("deductEntryFee", w, Fee) = [w EXCEPT !.locked = @ - Fee]
  BY DEF After
<1>5. /\ After("lockFunds", w, Fee).available = w.available - Fee
      /\ After("lockFunds", w, Fee).locked = w.locked + Fee
  BY <1>4 DEF WalletRow
<1>6. After("unlockFunds", w, Fee).locked = w.locked - Fee
  BY <1>4 DEF WalletRow
<1>7. /\ After("deductEntryFee", w, Fee).available = w.available
      /\ After("deductEntryFee", w, Fee).locked = w.locked - Fee
  BY <1>4 DEF WalletRow
<1>8. /\ Allowed("lockFunds", w, Fee) => w.available >= Fee
      /\ Allowed("unlockFunds", w, Fee) => w.locked >= Fee
      /\ Allowed("deductEntryFee", w, Fee) <=> w.locked >= Fee
  BY DEF Allowed
<1>9. w.available \in Nat /\ w.locked \in Nat /\ Value(w) = w.available + w.locked
  BY DEF WalletRow, Value
<1>10. {"lockFunds", "unlockFunds", "deductEntryFee"} \subseteq WalletOps
  BY DEF WalletOps, LoggedOps
<1> QED
  BY <1>2, <1>3, <1>5, <1>6, <1>7, <1>8, <1>9, <1>10

\* lockFunds, of a player who had the fee.
LEMMA LockStep ==
    ASSUME CupMoney, NEW r \in Organizers, at[r] = "lockFunds", NEW p, p = Who(held[r]),
           Moved(at, held, at', held', r, "deposit", held[r]),
           Allowed("lockFunds", purse[p], Fee),
           NEW w, w = After("lockFunds", purse[p], Fee), OneWallet(purse, purse', p, w),
           chest' = chest, entry' = entry, cupFaults' = cupFaults
    PROVE  CupMoney'
<1> DEFINE reg == Registered(entry)
           j == held[r]
<1>1. /\ reg \in SUBSET Entrants_
      /\ \A q \in Organizers : HeldIs(held[q]) /\ at[q] \in Steps
      /\ \A q \in Organizers : at[q] \in Registering => Who(held[q]) \in Entrants_
      /\ chest.balance \in Nat /\ chest.fee \in Nat /\ chest.deposited \in Nat
      /\ chest \in EscrowRow /\ purse \in [Entrants_ -> WalletRow] /\ cupFaults \in Nat
  BY CupFacts
<1>2. p \in Entrants_
  BY <1>1 DEF Registering
<1>3. /\ w \in WalletRow /\ w.available = purse[p].available - Fee
      /\ w.locked = purse[p].locked + Fee /\ Value(w) = Value(purse[p])
      /\ purse[p].available >= Fee
      /\ purse[p].available \in Nat /\ purse[p].locked \in Nat
      /\ Value(purse[p]) = purse[p].available + purse[p].locked
  BY <1>1, <1>2, FeeMoved
<1>4. /\ purse' \in [Entrants_ -> WalletRow] /\ purse'[p] = w
      /\ \A x \in Entrants_ : x # p => purse'[x] = purse[x]
  BY DEF OneWallet
<1>5. CupTypes'
  BY <1>1, <1>4 DEF CupTypes, Moved, CupMoney
<1>6. Links(at', held', chest.status, reg)
  <2>1. LinkOf("lockFunds", j, chest.status, reg)
    BY DEF CupMoney, Links
  <2>2. LinkOf("deposit", j, chest.status, reg)
    BY <2>1 DEF LinkOf, Registering, Returning
  <2> QED
    BY <1>1, <2>2, LinksMove DEF CupMoney
<1>7. OneEach(Entering, at', held')
  <2>1. Stays(at[r], j, "deposit", j, Entering)
    BY DEF Stays, Entering
  <2> QED
    BY <2>1, OneEachMoves DEF CupMoney
<1>8. NotYet(reg, at', held')
  <2>1. Stays(at[r], j, "deposit", j, {"deduct", "saveEntry"})
    BY DEF Stays
  <2> QED
    BY <2>1, NotYetMoves DEF CupMoney
<1>9. OneFee(chest.status, reg, purse', at', held')
  <2> SUFFICES ASSUME chest.status # "released"
               PROVE  /\ \A x \in Entrants_ : Value(purse'[x]) \in {0, Fee}
                      /\ \A x \in reg : Value(purse'[x]) = 0
                      /\ \A q \in Organizers : StageOf(at'[q], purse'[Who(held'[q])])
                      /\ OneEach(Charging, at', held')
    BY DEF OneFee
  <2>1. /\ \A x \in Entrants_ : Value(purse[x]) \in {0, Fee}
        /\ \A x \in reg : Value(purse[x]) = 0
        /\ \A q \in Organizers : StageOf(at[q], purse[Who(held[q])])
        /\ OneEach(Charging, at, held)
    BY DEF CupMoney, OneFee
  <2>2. /\ Value(purse[p]) = Fee /\ purse[p].available = Fee /\ purse[p].locked = 0
        /\ p \notin reg /\ w.available = 0 /\ w.locked = Fee
    <3>1. Value(purse[p]) \in {0, Fee} /\ (p \in reg => Value(purse[p]) = 0)
      BY <1>2, <2>1
    <3>2. Fee \in Nat /\ Fee > 0
      BY FeeTimes
    <3>3. \A a, l, f \in Nat : f > 0 /\ a >= f /\ a + l \in {0, f}
              => a + l = f /\ a + l # 0 /\ a = f /\ l = 0 /\ a - f = 0 /\ l + f = f
      OBVIOUS
    <3>4. /\ purse[p].available \in Nat /\ purse[p].locked \in Nat
          /\ purse[p].available >= Fee /\ Value(purse[p]) = purse[p].available + purse[p].locked
          /\ w.available = purse[p].available - Fee /\ w.locked = purse[p].locked + Fee
      BY <1>3
    <3>5. /\ purse[p].available + purse[p].locked = Fee
          /\ purse[p].available + purse[p].locked # 0
          /\ purse[p].available = Fee /\ purse[p].locked = 0
          /\ purse[p].available - Fee = 0 /\ purse[p].locked + Fee = Fee
      BY <3>1, <3>2, <3>3, <3>4
    <3> QED
      BY <3>1, <3>4, <3>5
  <2>3. \A q \in Organizers : q # r /\ at[q] \in Charging => Who(held[q]) # p
    <3>1. Fee # 0
      BY FeeTimes
    <3> QED
      BY <2>1, <2>2, <3>1 DEF StageOf
  <2>4. StageOf("deposit", w)
    BY <2>2 DEF StageOf
  <2>5. \A q \in Organizers : StageOf(at'[q], purse'[Who(held'[q])])
    <3> SUFFICES ASSUME NEW q \in Organizers, at'[q] \in Charging
                 PROVE  StageOf(at'[q], purse'[Who(held'[q])])
      BY DEF StageOf, Charging
    <3>1. CASE q = r
      BY <1>4, <2>4, <3>1 DEF Moved
    <3>2. CASE q # r
      <4>1. at'[q] = at[q] /\ held'[q] = held[q] /\ Who(held[q]) # p
        BY <2>3, <3>2 DEF Moved
      <4>2. Who(held[q]) \in Entrants_
        BY <1>1, <4>1, StepsIn
      <4> QED
        BY <1>4, <2>1, <4>1, <4>2
    <3> QED
      BY <3>1, <3>2
  <2>6. OneEach(Charging, at', held')
    BY <2>1, <2>3 DEF Moved, OneEach
  <2>7. \A x \in Entrants_ : Value(purse'[x]) = Value(purse[x])
    BY <1>3, <1>4
  <2> QED
    BY <1>1, <2>1, <2>5, <2>6, <2>7
<1>10. FeesLocked(purse', at', held')
  <2>1. \A x : /\ Cardinality(HeldFor(x, at, held)) \in Nat
               /\ Cardinality(HeldFor(x, at', held'))
                    = Cardinality(HeldFor(x, at, held)) + (IF p = x THEN 1 ELSE 0)
    <3> TAKE x
    <3>1. at[r] \notin Holding /\ "deposit" \in Holding
      BY DEF Holding
    <3> QED
      BY <3>1, HeldForChange
  <2>2. purse'[p].locked >= purse[p].locked + Fee * 1
    BY <1>3, <1>4, FeeTimes
  <2>3. Covers(p, 1, purse, at, held, purse', at', held')
    BY <2>1, <2>2 DEF Covers
  <2>4. \A x \in Entrants_ : x # p =>
          Cardinality(HeldFor(x, at', held')) <= Cardinality(HeldFor(x, at, held))
    BY <2>1
  <2> QED
    BY <1>4, <2>3, <2>4, FeesStayLocked
<1>11. Bounded(chest, purse', at', held', cupFaults)
  <2> DEFINE v == Total(Values(purse))
             v2 == Total(Values(purse'))
  <2>1. v \in Nat /\ v2 = v - Value(purse[p]) + Value(w)
    BY ValuesChange
  <2>2. Claim("lockFunds", j) = 0 /\ Claim("deposit", j) = 0
    BY DEF Claim
  <2>3. v2 = v
    BY <1>3, <2>1
  <2> HIDE DEF v, v2
  <2>4. v2 + chest.balance + chest.fee + Claim("deposit", j)
          <= v + chest.balance + chest.fee + Claim(at[r], j) + Fee * 0
    <3>1. Fee * 0 = 0
      BY FeeTimes
    <3>2. Claim(at[r], j) = 0
      BY <2>2
    <3> QED
      BY <1>1, <2>1, <2>2, <2>3, <3>1, <3>2
  <2>5. 0 = (IF "deposit" = "deduct" THEN 1 ELSE 0) - (IF at[r] = "deduct" THEN 1 ELSE 0)
              + cupFaults - cupFaults
    BY <1>1
  <2> QED
    BY <1>1, <1>4, <2>4, <2>5, BoundedMoves DEF v, v2, CupMoney
<1>12. FeesCame(chest, reg, at')
  <2>1. Cardinality(reg) \in Nat
    BY <1>1, CountFewer, TournamentAssumption
  <2>2. chest.deposited + Fee * 0 <= chest.deposited
    BY <1>1, FeeTimes
  <2>3. 0 = Cardinality(reg) - Cardinality(reg)
              + (IF "deposit" \in {"deduct", "saveEntry"} THEN 1 ELSE 0)
              - (IF at[r] \in {"deduct", "saveEntry"} THEN 1 ELSE 0)
    BY <2>1
  <2> QED
    BY <1>1, <2>2, <2>3, FeesCameMoves DEF CupMoney
<1>13. ChestIs(chest)
  BY DEF CupMoney
<1> QED
  BY <1>5, <1>6, <1>7, <1>8, <1>9, <1>10, <1>11, <1>12, <1>13 DEF CupMoney

\* depositToEscrow of a fee: the escrow is not settled.
LEMMA DepositStep ==
    ASSUME CupMoney, NEW r \in Organizers, at[r] = "deposit",
           Moved(at, held, at', held', r, "deduct", held[r]),
           canDeposit(chest), chest' = AfterDeposit(chest, Fee),
           purse' = purse, entry' = entry, cupFaults' = cupFaults
    PROVE  CupMoney'
<1> DEFINE reg == Registered(entry)
           j == held[r]
<1>1. /\ reg \in SUBSET Entrants_
      /\ \A q \in Organizers : HeldIs(held[q]) /\ at[q] \in Steps
      /\ \A q \in Organizers : at[q] \in Registering => Who(held[q]) \in Entrants_
      /\ chest.balance \in Nat /\ chest.fee \in Nat /\ chest.deposited \in Nat
      /\ chest \in EscrowRow /\ purse \in [Entrants_ -> WalletRow] /\ cupFaults \in Nat
  BY CupFacts
<1>2. Fee \in Nat /\ Fee > 0 /\ Fee * 1 = Fee
  BY FeeTimes
<1>3. /\ chest.status \in {"created", "active"} /\ chest'.status = "active"
      /\ chest' \in EscrowRow /\ chest'.deposited = chest.deposited + Fee
      /\ chest'.balance = chest.balance + Fee /\ chest'.fee = chest.fee
      /\ chest'.balance \in Nat
  <2>1. chest.status \in {"created", "active"}
    BY DEF canDeposit
  <2>2. /\ chest' \in EscrowRow /\ chest'.deposited = chest.deposited + Fee
        /\ chest'.balance = chest.balance + Fee /\ chest'.fee = chest.fee
    BY <1>1, <1>2, EntityTypes, DepositTotals
  <2>3. chest'.status = "active"
    BY <1>1, <2>1 DEF AfterDeposit, EscrowRow
  <2>4. chest'.balance \in Nat
    BY <1>1, <1>2, <2>2
  <2> QED
    BY <2>1, <2>2, <2>3, <2>4
<1>4. ChestIs(chest')
  <2>1. chest.balance = chest.deposited
    BY <1>3 DEF CupMoney, ChestIs
  <2> QED
    BY <1>3, <2>1 DEF ChestIs
<1>5. CupTypes'
  BY <1>1, <1>3 DEF CupTypes, Moved, CupMoney
<1>6. Links(at', held', chest'.status, reg)
  <2>1. LinkOf("deposit", j, chest.status, reg)
    BY DEF CupMoney, Links
  <2>2. LinkOf("deduct", j, chest'.status, reg)
    BY <2>1 DEF LinkOf, Registering, Returning
  <2>3. /\ chest'.status \notin {"released", "refunded"}
        /\ chest.status \notin {"released", "refunded"}
    BY <1>3
  <2>4. Links(at, held, chest.status, reg)
    BY DEF CupMoney
  <2> QED
    BY <1>1, <2>2, <2>3, <2>4, LinksMove
<1>7. chest.status # "released"
  BY <1>3
<1>8. /\ \A x \in Entrants_ : Value(purse[x]) \in {0, Fee}
      /\ \A x \in reg : Value(purse[x]) = 0
      /\ \A q \in Organizers : StageOf(at[q], purse[Who(held[q])])
      /\ OneEach(Charging, at, held)
  BY <1>7 DEF CupMoney, OneFee
<1>9. StageOf("deduct", purse[Who(j)]) /\ purse[Who(j)].locked = Fee
  BY <1>8 DEF StageOf, Charging
<1>10. OneEach(Charging, at', held')
  <2>1. Stays(at[r], j, "deduct", j, Charging)
    BY DEF Stays, Charging
  <2> QED
    BY <1>8, <2>1, OneEachMoves
<1>11. OneEach(Entering, at', held')
  BY <1>10, StepsIn DEF OneEach
<1>12. OneFee(chest'.status, reg, purse, at', held')
  <2>1. \A q \in Organizers : StageOf(at'[q], purse[Who(held'[q])])
    BY <1>8, <1>9 DEF Moved
  <2> QED
    BY <1>8, <1>10, <2>1 DEF OneFee
<1>13. FeesLocked(purse, at', held')
  <2>1. chest'.status # "released"
    BY <1>3
  <2> QED
    BY <1>1, <1>12, <2>1, OneFeeLocks
<1>14. NotYet(reg, at', held')
  <2>1. Who(j) \notin reg
    <3>1. Who(j) \in Entrants_
      BY <1>1 DEF Registering
    <3>2. Value(purse[Who(j)]) # 0
      BY <1>1, <1>2, <1>9, <3>1 DEF Value, WalletRow
    <3> QED
      BY <1>8, <3>2
  <2> QED
    BY <2>1 DEF Moved, NotYet, CupMoney
<1>15. Bounded(chest', purse, at', held', cupFaults)
  <2> DEFINE v == Total(Values(purse))
  <2>1. v \in Nat
    BY <1>1, ValuesType
  <2>2. Claim(at[r], j) = 0 /\ Claim("deduct", j) = 0
    BY DEF Claim
  <2> HIDE DEF v
  <2>3. v + chest'.balance + chest'.fee + Claim("deduct", j)
          <= v + chest.balance + chest.fee + Claim(at[r], j) + Fee * 1
    BY <1>1, <1>2, <1>3, <2>1, <2>2
  <2>4. 1 = (IF "deduct" = "deduct" THEN 1 ELSE 0) - (IF at[r] = "deduct" THEN 1 ELSE 0)
              + cupFaults - cupFaults
    BY <1>1
  <2> QED
    BY <1>1, <1>3, <2>3, <2>4, BoundedMoves DEF v, CupMoney
<1>16. FeesCame(chest', reg, at')
  <2>1. Cardinality(reg) \in Nat
    BY <1>1, CountFewer, TournamentAssumption
  <2>2. chest.deposited + Fee * 1 <= chest'.deposited
    BY <1>1, <1>2, <1>3
  <2>3. 1 = Cardinality(reg) - Cardinality(reg)
              + (IF "deduct" \in {"deduct", "saveEntry"} THEN 1 ELSE 0)
              - (IF at[r] \in {"deduct", "saveEntry"} THEN 1 ELSE 0)
    BY <2>1
  <2> QED
    BY <1>1, <1>3, <2>2, <2>3, FeesCameMoves DEF CupMoney
<1> QED
  BY <1>4, <1>5, <1>6, <1>11, <1>12, <1>13, <1>14, <1>15, <1>16 DEF CupMoney

\* A fee that is counted on is there: deductEntryFee is never refused.
LEMMA DeductAllowed ==
    ASSUME CupMoney, NEW r \in Organizers, at[r] = "deduct"
    PROVE  Allowed("deductEntryFee", purse[Who(held[r])], Fee)
<1> DEFINE p == Who(held[r])
           n == Cardinality(HeldFor(p, at, held))
<1>1. p \in Entrants_ /\ purse[p] \in WalletRow
  BY CupFacts DEF Registering
<1>2. purse[p].locked >= Fee * n
  BY DEF CupMoney, FeesLocked
<1>3. n \in Nat /\ 1 <= n
  <2>1. HeldFor(p, at, held) \in SUBSET Organizers
    BY DEF HeldFor
  <2>2. {r} \in SUBSET HeldFor(p, at, held)
    BY DEF HeldFor, Holding
  <2>3. Cardinality({r}) = 1
    BY FS_Singleton
  <2> HIDE DEF p
  <2> QED
    BY <2>1, <2>2, <2>3, CountFewer, TournamentAssumption
<1> HIDE DEF n
<1>4. Fee * 1 <= Fee * n /\ Fee * 1 = Fee /\ Fee \in Nat /\ Fee * n \in Nat
  BY <1>3, FeeTimes
<1>5. purse[p].locked >= Fee
  BY <1>1, <1>2, <1>4 DEF WalletRow
<1> QED
  BY <1>1, <1>5, FeeMoved

\* deductEntryFee of a fee that is in the escrow.
LEMMA DeductStep ==
    ASSUME CupMoney, NEW r \in Organizers, at[r] = "deduct", NEW p, p = Who(held[r]),
           Moved(at, held, at', held', r, "saveEntry", held[r]),
           NEW w, w = After("deductEntryFee", purse[p], Fee), OneWallet(purse, purse', p, w),
           chest' = chest, entry' = entry, cupFaults' = cupFaults
    PROVE  CupMoney'
<1> DEFINE reg == Registered(entry)
           j == held[r]
<1>1. /\ reg \in SUBSET Entrants_
      /\ \A q \in Organizers : HeldIs(held[q]) /\ at[q] \in Steps
      /\ \A q \in Organizers : at[q] \in Registering => Who(held[q]) \in Entrants_
      /\ chest.balance \in Nat /\ chest.fee \in Nat /\ chest.deposited \in Nat
      /\ chest \in EscrowRow /\ purse \in [Entrants_ -> WalletRow] /\ cupFaults \in Nat
  BY CupFacts
<1>2. p \in Entrants_ /\ Allowed("deductEntryFee", purse[p], Fee)
  BY <1>1, DeductAllowed DEF Registering
<1>3. /\ w \in WalletRow /\ w.available = purse[p].available
      /\ w.locked = purse[p].locked - Fee /\ Value(w) = Value(purse[p]) - Fee
      /\ w.available \in Nat /\ w.locked \in Nat /\ Value(w) = w.available + w.locked
      /\ purse[p].available \in Nat /\ purse[p].locked \in Nat
      /\ Value(purse[p]) = purse[p].available + purse[p].locked
  BY <1>1, <1>2, FeeMoved
<1>4. /\ purse' \in [Entrants_ -> WalletRow] /\ purse'[p] = w
      /\ \A x \in Entrants_ : x # p => purse'[x] = purse[x]
  BY DEF OneWallet
<1>5. CupTypes'
  BY <1>1, <1>4 DEF CupTypes, Moved, CupMoney
<1>6. Links(at', held', chest.status, reg)
  <2>1. LinkOf("deduct", j, chest.status, reg)
    BY DEF CupMoney, Links
  <2>2. LinkOf("saveEntry", j, chest.status, reg)
    BY <2>1 DEF LinkOf, Registering, Returning
  <2> QED
    BY <1>1, <2>2, LinksMove DEF CupMoney
<1>7. OneEach(Entering, at', held') /\ OneEach(Entering, at, held)
  <2>1. Stays(at[r], j, "saveEntry", j, Entering)
    BY DEF Stays, Entering
  <2> QED
    BY <2>1, OneEachMoves DEF CupMoney
<1>8. NotYet(reg, at', held')
  <2>1. Stays(at[r], j, "saveEntry", j, {"deduct", "saveEntry"})
    BY DEF Stays
  <2> QED
    BY <2>1, NotYetMoves DEF CupMoney
<1>9. OneFee(chest.status, reg, purse', at', held')
  <2> SUFFICES ASSUME chest.status # "released"
               PROVE  /\ \A x \in Entrants_ : Value(purse'[x]) \in {0, Fee}
                      /\ \A x \in reg : Value(purse'[x]) = 0
                      /\ \A q \in Organizers : StageOf(at'[q], purse'[Who(held'[q])])
                      /\ OneEach(Charging, at', held')
    BY DEF OneFee
  <2>1. /\ \A x \in Entrants_ : Value(purse[x]) \in {0, Fee}
        /\ \A x \in reg : Value(purse[x]) = 0
        /\ \A q \in Organizers : StageOf(at[q], purse[Who(held[q])])
        /\ OneEach(Charging, at, held)
    BY DEF CupMoney, OneFee
  <2>2. w.available = 0 /\ w.locked = 0 /\ Value(w) = 0
    <3>1. purse[p].available = 0 /\ purse[p].locked = Fee
      BY <2>1 DEF StageOf, Charging
    <3>2. Fee \in Nat
      BY FeeTimes
    <3> QED
      BY <1>3, <3>1, <3>2
  <2>3. StageOf("saveEntry", w)
    BY <2>2 DEF StageOf
  <2>4. \A q \in Organizers : StageOf(at'[q], purse'[Who(held'[q])])
    <3> SUFFICES ASSUME NEW q \in Organizers, at'[q] \in Charging
                 PROVE  StageOf(at'[q], purse'[Who(held'[q])])
      BY DEF StageOf, Charging
    <3>1. CASE q = r
      BY <1>4, <2>3, <3>1 DEF Moved
    <3>2. CASE q # r
      <4>1. at'[q] = at[q] /\ held'[q] = held[q]
        BY <3>2 DEF Moved
      <4>2. Who(held[q]) # p
        BY <2>1, <3>2, <4>1 DEF OneEach, Charging
      <4>3. Who(held[q]) \in Entrants_
        BY <1>1, <4>1, StepsIn
      <4> QED
        BY <1>4, <2>1, <4>1, <4>2, <4>3
    <3> QED
      BY <3>1, <3>2
  <2>5. OneEach(Charging, at', held')
    <3>1. Stays(at[r], j, "saveEntry", j, Charging)
      BY DEF Stays, Charging
    <3> QED
      BY <2>1, <3>1, OneEachMoves
  <2>6. \A x \in Entrants_ : Value(purse'[x]) = Value(purse[x]) \/ Value(purse'[x]) = 0
    BY <1>4, <2>2
  <2> QED
    BY <1>1, <2>1, <2>4, <2>5, <2>6
<1>10. FeesLocked(purse', at', held')
  <2>1. \A x \in Entrants_ : x # p =>
          Cardinality(HeldFor(x, at', held')) <= Cardinality(HeldFor(x, at, held))
    <3> TAKE x \in Entrants_
    <3> HAVE x # p
    <3>1. "saveEntry" \notin Holding
      BY DEF Holding
    <3> QED
      BY <3>1, HeldForChange
  <2>2. ~ \E q \in Organizers : q # r /\ at[q] = "deduct" /\ Who(held[q]) = p
    BY <1>7 DEF OneEach, Entering
  <2>3. 0 \in Int
    OBVIOUS
  <2> QED
    BY <1>4, <2>1, <2>2, <2>3, FeesStayLocked
<1>11. Bounded(chest, purse', at', held', cupFaults)
  <2> DEFINE v == Total(Values(purse))
             v2 == Total(Values(purse'))
  <2>1. v \in Nat /\ v2 = v - Value(purse[p]) + Value(w)
    BY ValuesChange
  <2>2. Claim(at[r], j) = 0 /\ Claim("saveEntry", j) = 0
    BY DEF Claim
  <2>3. v2 = v - Fee /\ Fee \in Nat /\ Fee * (-1) = -Fee
    <3>1. Fee \in Nat /\ Fee * (-1) = -Fee
      BY FeeTimes
    <3>2. \A x, y, f \in Nat : x - y + (y - f) = x - f
      OBVIOUS
    <3>3. Value(purse[p]) \in Nat
      BY <1>3
    <3> QED
      BY <1>3, <2>1, <3>1, <3>2, <3>3
  <2> HIDE DEF v, v2
  <2>4. v2 + chest.balance + chest.fee + Claim("saveEntry", j)
          <= v + chest.balance + chest.fee + Claim(at[r], j) + Fee * (-1)
    <3> DEFINE fn == Fee * (-1)
    <3>1. fn = -Fee
      BY <2>3
    <3> HIDE DEF fn
    <3>2. v2 + chest.balance + chest.fee + Claim("saveEntry", j)
            <= v + chest.balance + chest.fee + Claim(at[r], j) + fn
      BY <1>1, <2>1, <2>2, <2>3, <3>1
    <3> QED
      BY <3>2 DEF fn
  <2>5. -1 = (IF "saveEntry" = "deduct" THEN 1 ELSE 0) - (IF at[r] = "deduct" THEN 1 ELSE 0)
              + cupFaults - cupFaults
    BY <1>1
  <2>6. -1 \in Int
    OBVIOUS
  <2> QED
    BY <1>1, <1>4, <2>4, <2>5, <2>6, BoundedMoves DEF v, v2, CupMoney
<1>12. FeesCame(chest, reg, at')
  <2>1. Cardinality(reg) \in Nat
    BY <1>1, CountFewer, TournamentAssumption
  <2>2. chest.deposited + Fee * 0 <= chest.deposited
    <3>1. Fee * 0 = 0
      BY FeeTimes
    <3> QED
      BY <1>1, <3>1
  <2>3. 0 = Cardinality(reg) - Cardinality(reg)
              + (IF "saveEntry" \in {"deduct", "saveEntry"} THEN 1 ELSE 0)
              - (IF at[r] \in {"deduct", "saveEntry"} THEN 1 ELSE 0)
    BY <2>1
  <2> QED
    BY <1>1, <2>2, <2>3, FeesCameMoves DEF CupMoney
<1>13. ChestIs(chest)
  BY DEF CupMoney
<1> QED
  BY <1>5, <1>6, <1>7, <1>8, <1>9, <1>10, <1>11, <1>12, <1>13 DEF CupMoney

\* A step to a call that holds no fee, by which no wallet locks less.
LEMMA LocksKept ==
    ASSUME CupMoney, NEW r \in Organizers, NEW k, NEW j,
           Moved(at, held, at', held', r, k, j), k \notin Holding,
           NEW pu \in [Entrants_ -> WalletRow],
           \A x \in Entrants_ : pu[x].locked >= purse[x].locked
    PROVE  FeesLocked(pu, at', held')
<1>1. /\ \A q \in Organizers : at[q] \in Registering => Who(held[q]) \in Entrants_
      /\ purse \in [Entrants_ -> WalletRow]
  BY CupFacts
<1>2. ASSUME NEW q \in Organizers, at'[q] = "deduct"
      PROVE  /\ at[q] = "deduct" /\ Who(held'[q]) = Who(held[q]) /\ Who(held[q]) \in Entrants_
             /\ Covers(Who(held[q]), 0, purse, at, held, pu, at', held')
  <2>1. q # r /\ at[q] = "deduct" /\ held'[q] = held[q]
    BY <1>2 DEF Moved, Holding
  <2>2. Who(held[q]) \in Entrants_
    BY <1>1, <2>1 DEF Registering
  <2> DEFINE x == Who(held[q])
  <2>3. Cardinality(HeldFor(x, at', held')) <= Cardinality(HeldFor(x, at, held)) + 0
    <3> HIDE DEF x
    <3> QED
      BY HeldForChange
  <2>4. pu[x].locked >= purse[x].locked + Fee * 0
    <3>1. Fee * 0 = 0
      BY FeeTimes
    <3>2. pu[x].locked >= purse[x].locked /\ purse[x].locked \in Nat
      BY <1>1, <2>2 DEF WalletRow
    <3> QED
      BY <3>1, <3>2
  <2> QED
    BY <2>1, <2>2, <2>3, <2>4 DEF Covers
<1>3. FeesLocked(purse, at, held)
  BY DEF CupMoney
<1>4. 0 \in Int
  OBVIOUS
<1> QED
  BY <1>1, <1>2, <1>3, <1>4, FeesLockedMoves

\* The fee was deducted and the player is not registered: saveEntry registers.
LEMMA SaveEntryStep ==
    ASSUME CupMoney, NEW r \in Organizers, at[r] = "saveEntry", NEW p, p = Who(held[r]),
           Moved(at, held, at', held', r, "savePool", held[r]),
           entry' = [entry EXCEPT ![p].status = "confirmed"],
           chest' = chest, purse' = purse, cupFaults' = cupFaults
    PROVE  CupMoney'
<1> DEFINE reg == Registered(entry)
           reg2 == Registered(entry')
           j == held[r]
<1>1. /\ reg \in SUBSET Entrants_
      /\ \A q \in Organizers : HeldIs(held[q]) /\ at[q] \in Steps
      /\ \A q \in Organizers : at[q] \in Registering => Who(held[q]) \in Entrants_
      /\ chest.balance \in Nat /\ chest.fee \in Nat /\ chest.deposited \in Nat
      /\ chest \in EscrowRow /\ purse \in [Entrants_ -> WalletRow] /\ cupFaults \in Nat
  BY CupFacts
<1>2. p \in Entrants_
  BY <1>1 DEF Registering
<1>3. EntriesAre(entry') /\ reg2 = reg \cup {p}
  <2>1. EntriesAre(entry)
    BY DEF CupMoney, CupTypes
  <2>2. /\ DOMAIN entry' = Entrants_
        /\ \A x \in Entrants_ : x # p => entry'[x] = entry[x]
        /\ entry'[p] = [entry[p] EXCEPT !.status = "confirmed"]
    BY <1>2, <2>1 DEF EntriesAre
  <2>3. /\ entry'[p] = [f \in {"status", "place"} |-> entry'[p][f]]
        /\ entry'[p].status = "confirmed"
    BY <1>2, <2>1, <2>2 DEF EntriesAre
  <2> QED
    BY <1>2, <2>1, <2>2, <2>3 DEF EntriesAre, Registered
<1>4. reg2 \in SUBSET Entrants_ /\ reg \in SUBSET reg2 /\ p \notin reg
  <2>1. p \notin reg
    BY DEF CupMoney, NotYet
  <2> QED
    BY <1>1, <1>2, <1>3, <2>1
<1>5. CupTypes'
  BY <1>1, <1>3 DEF CupTypes, Moved, CupMoney
<1>6. Links(at', held', chest.status, reg2)
  <2>1. LinkOf("saveEntry", j, chest.status, reg)
    BY DEF CupMoney, Links
  <2>2. LinkOf("savePool", j, chest.status, reg2)
    BY <2>1 DEF LinkOf, Registering, Returning
  <2>3. Links(at, held, chest.status, reg)
    BY DEF CupMoney
  <2> HIDE DEF reg, reg2
  <2> QED
    BY <1>4, <2>2, <2>3, LinksMove
<1>7. OneEach(Entering, at', held') /\ OneEach(Entering, at, held)
  <2>1. Stays(at[r], j, "savePool", j, Entering)
    BY DEF Stays, Entering
  <2> QED
    BY <2>1, OneEachMoves DEF CupMoney
<1>8. NotYet(reg2, at', held')
  <2> SUFFICES ASSUME NEW q \in Organizers, at'[q] \in {"deduct", "saveEntry"}
               PROVE  Who(held'[q]) \notin reg2
    BY DEF NotYet
  <2>1. q # r /\ at[q] \in {"deduct", "saveEntry"} /\ held'[q] = held[q]
    BY DEF Moved
  <2>2. Who(held[q]) # p
    BY <1>7, <2>1 DEF OneEach, Entering
  <2>3. Who(held[q]) \notin reg
    BY <2>1 DEF CupMoney, NotYet
  <2> QED
    BY <1>3, <2>1, <2>2, <2>3
<1>9. OneFee(chest.status, reg2, purse, at', held')
  <2> SUFFICES ASSUME chest.status # "released"
               PROVE  /\ \A x \in Entrants_ : Value(purse[x]) \in {0, Fee}
                      /\ \A x \in reg2 : Value(purse[x]) = 0
                      /\ \A q \in Organizers : StageOf(at'[q], purse[Who(held'[q])])
                      /\ OneEach(Charging, at', held')
    BY DEF OneFee
  <2>1. /\ \A x \in Entrants_ : Value(purse[x]) \in {0, Fee}
        /\ \A x \in reg : Value(purse[x]) = 0
        /\ \A q \in Organizers : StageOf(at[q], purse[Who(held[q])])
        /\ OneEach(Charging, at, held)
    BY DEF CupMoney, OneFee
  <2>2. Value(purse[p]) = 0 /\ StageOf("savePool", purse[p])
    BY <2>1 DEF StageOf, Charging
  <2>3. \A q \in Organizers : StageOf(at'[q], purse[Who(held'[q])])
    BY <2>1, <2>2 DEF Moved
  <2>4. OneEach(Charging, at', held')
    <3>1. Stays(at[r], j, "savePool", j, Charging)
      BY DEF Stays, Charging
    <3> QED
      BY <2>1, <3>1, OneEachMoves
  <2> QED
    BY <1>3, <2>1, <2>2, <2>3, <2>4
<1>10. FeesLocked(purse, at', held')
  <2>1. "savePool" \notin Holding
    BY DEF Holding
  <2>2. \A x \in Entrants_ : purse[x].locked >= purse[x].locked
    BY <1>1 DEF WalletRow
  <2> QED
    BY <1>1, <2>1, <2>2, LocksKept
<1>11. Bounded(chest, purse, at', held', cupFaults)
  <2> DEFINE v == Total(Values(purse))
  <2>1. v \in Nat
    BY <1>1, ValuesType
  <2>2. Claim(at[r], j) = 0 /\ Claim("savePool", j) = 0
    BY DEF Claim
  <2> HIDE DEF v
  <2>3. v + chest.balance + chest.fee + Claim("savePool", j)
          <= v + chest.balance + chest.fee + Claim(at[r], j) + Fee * 0
    <3>1. Fee * 0 = 0
      BY FeeTimes
    <3> QED
      BY <1>1, <2>1, <2>2, <3>1
  <2>4. 0 = (IF "savePool" = "deduct" THEN 1 ELSE 0) - (IF at[r] = "deduct" THEN 1 ELSE 0)
              + cupFaults - cupFaults
    BY <1>1
  <2> QED
    BY <1>1, <2>3, <2>4, BoundedMoves DEF v, CupMoney
<1>12. FeesCame(chest, reg2, at')
  <2>1. Cardinality(reg) \in Nat /\ Cardinality(reg2) = Cardinality(reg) + 1
    <3>1. IsFiniteSet(reg)
      BY <1>1, FS_Subset, TournamentAssumption
    <3> HIDE DEF reg, reg2
    <3> QED
      BY <1>3, <1>4, <3>1, FS_AddElement, FS_CardinalityType
  <2>2. chest.deposited + Fee * 0 <= chest.deposited
    <3>1. Fee * 0 = 0
      BY FeeTimes
    <3> QED
      BY <1>1, <3>1
  <2>3. 0 = Cardinality(reg2) - Cardinality(reg)
              + (IF "savePool" \in {"deduct", "saveEntry"} THEN 1 ELSE 0)
              - (IF at[r] \in {"deduct", "saveEntry"} THEN 1 ELSE 0)
    BY <2>1
  <2>4. FeesCame(chest, reg, at)
    BY DEF CupMoney
  <2> HIDE DEF reg, reg2
  <2> QED
    BY <1>1, <1>4, <2>2, <2>3, <2>4, FeesCameMoves
<1>13. ChestIs(chest)
  BY DEF CupMoney
<1> QED
  BY <1>5, <1>6, <1>7, <1>8, <1>9, <1>10, <1>11, <1>12, <1>13 DEF CupMoney

\* The rollback of a registration, which is over.
LEMMA UnlockStep ==
    ASSUME CupMoney, NEW r \in Organizers, at[r] = "rollback", NEW p, p = Who(held[r]),
           Moved(at, held, at', held', r, "idle", NotHeld),
           Allowed("unlockFunds", purse[p], Fee),
           NEW w, w = After("unlockFunds", purse[p], Fee), OneWallet(purse, purse', p, w),
           chest' = chest, entry' = entry, cupFaults' = cupFaults
    PROVE  CupMoney'
<1> DEFINE reg == Registered(entry)
           j == held[r]
<1>1. /\ reg \in SUBSET Entrants_
      /\ \A q \in Organizers : HeldIs(held[q]) /\ at[q] \in Steps
      /\ \A q \in Organizers : at[q] \in Registering => Who(held[q]) \in Entrants_
      /\ chest.balance \in Nat /\ chest.fee \in Nat /\ chest.deposited \in Nat
      /\ chest \in EscrowRow /\ purse \in [Entrants_ -> WalletRow] /\ cupFaults \in Nat
  BY CupFacts
<1>2. p \in Entrants_
  BY <1>1 DEF Registering
<1>3. /\ w \in WalletRow /\ w.locked = purse[p].locked - Fee /\ Value(w) = Value(purse[p])
      /\ purse[p].locked \in Nat /\ Value(purse[p]) \in Nat
  <2>1. /\ w \in WalletRow /\ w.locked = purse[p].locked - Fee /\ Value(w) = Value(purse[p])
        /\ purse[p].locked \in Nat /\ purse[p].available \in Nat
        /\ Value(purse[p]) = purse[p].available + purse[p].locked
    BY <1>1, <1>2, FeeMoved
  <2> QED
    BY <2>1
<1>4. /\ purse' \in [Entrants_ -> WalletRow] /\ purse'[p] = w
      /\ \A x \in Entrants_ : x # p => purse'[x] = purse[x]
  BY DEF OneWallet
<1>5. CupTypes'
  BY <1>1, <1>4 DEF CupTypes, Moved, CupMoney
<1>6. Links(at', held', chest.status, reg)
  <2>1. LinkOf("idle", NotHeld, chest.status, reg)
    BY DEF LinkOf, Registering, Returning
  <2> QED
    BY <1>1, <2>1, LinksMove DEF CupMoney
<1>7. OneEach(Entering, at', held')
  <2>1. Stays(at[r], j, "idle", NotHeld, Entering)
    BY DEF Stays, Entering
  <2> QED
    BY <2>1, OneEachMoves DEF CupMoney
<1>8. NotYet(reg, at', held')
  <2>1. Stays(at[r], j, "idle", NotHeld, {"deduct", "saveEntry"})
    BY DEF Stays
  <2> QED
    BY <2>1, NotYetMoves DEF CupMoney
<1>9. OneFee(chest.status, reg, purse', at', held')
  <2> SUFFICES ASSUME chest.status # "released"
               PROVE  /\ \A x \in Entrants_ : Value(purse'[x]) \in {0, Fee}
                      /\ \A x \in reg : Value(purse'[x]) = 0
                      /\ \A q \in Organizers : StageOf(at'[q], purse'[Who(held'[q])])
                      /\ OneEach(Charging, at', held')
    BY DEF OneFee
  <2>1. /\ \A x \in Entrants_ : Value(purse[x]) \in {0, Fee}
        /\ \A x \in reg : Value(purse[x]) = 0
        /\ \A q \in Organizers : StageOf(at[q], purse[Who(held[q])])
        /\ OneEach(Charging, at, held)
    BY DEF CupMoney, OneFee
  <2>2. \A q \in Organizers : StageOf(at'[q], purse'[Who(held'[q])])
    <3> SUFFICES ASSUME NEW q \in Organizers, at'[q] \in Charging
                 PROVE  StageOf(at'[q], purse'[Who(held'[q])])
      BY DEF StageOf, Charging
    <3>1. q # r /\ at'[q] = at[q] /\ held'[q] = held[q]
      BY DEF Moved, Charging
    <3>2. Who(held[q]) # p
      BY <2>1, <3>1 DEF OneEach, Charging
    <3>3. Who(held[q]) \in Entrants_
      BY <1>1, <3>1, StepsIn
    <3> QED
      BY <1>4, <2>1, <3>1, <3>2, <3>3
  <2>3. OneEach(Charging, at', held')
    <3>1. Stays(at[r], j, "idle", NotHeld, Charging)
      BY DEF Stays, Charging
    <3> QED
      BY <2>1, <3>1, OneEachMoves
  <2>4. \A x \in Entrants_ : Value(purse'[x]) = Value(purse[x])
    BY <1>3, <1>4
  <2> QED
    BY <1>1, <2>1, <2>2, <2>3, <2>4
<1>10. FeesLocked(purse', at', held')
  <2>1. \A x : /\ Cardinality(HeldFor(x, at, held)) \in Nat
               /\ Cardinality(HeldFor(x, at', held'))
                    = Cardinality(HeldFor(x, at, held)) - (IF p = x THEN 1 ELSE 0)
    <3> TAKE x
    <3>1. at[r] \in Holding /\ "idle" \notin Holding
      BY DEF Holding
    <3> QED
      BY <3>1, HeldForChange
  <2>2. purse'[p].locked >= purse[p].locked + Fee * (-1)
    <3> DEFINE fn == Fee * (-1)
    <3>1. fn = -Fee /\ Fee \in Nat
      BY FeeTimes
    <3> HIDE DEF fn
    <3>2. purse'[p].locked >= purse[p].locked + fn
      BY <1>3, <1>4, <3>1
    <3> QED
      BY <3>2 DEF fn
  <2>3. Covers(p, -1, purse, at, held, purse', at', held')
    BY <2>1, <2>2 DEF Covers
  <2>4. \A x \in Entrants_ : x # p =>
          Cardinality(HeldFor(x, at', held')) <= Cardinality(HeldFor(x, at, held))
    BY <2>1
  <2>5. -1 \in Int
    OBVIOUS
  <2> QED
    BY <1>4, <2>3, <2>4, <2>5, FeesStayLocked
<1>11. Bounded(chest, purse', at', held', cupFaults)
  <2> DEFINE v == Total(Values(purse))
             v2 == Total(Values(purse'))
  <2>1. v \in Nat /\ v2 = v - Value(purse[p]) + Value(w)
    BY ValuesChange
  <2>2. Claim(at[r], j) = 0 /\ Claim("idle", NotHeld) = 0
    BY DEF Claim
  <2>3. v2 = v
    BY <1>3, <2>1
  <2> HIDE DEF v, v2
  <2>4. v2 + chest.balance + chest.fee + Claim("idle", NotHeld)
          <= v + chest.balance + chest.fee + Claim(at[r], j) + Fee * 0
    <3>1. Fee * 0 = 0
      BY FeeTimes
    <3> QED
      BY <1>1, <2>1, <2>2, <2>3, <3>1
  <2>5. 0 = (IF "idle" = "deduct" THEN 1 ELSE 0) - (IF at[r] = "deduct" THEN 1 ELSE 0)
              + cupFaults - cupFaults
    BY <1>1
  <2> QED
    BY <1>1, <1>4, <2>4, <2>5, BoundedMoves DEF v, v2, CupMoney
<1>12. FeesCame(chest, reg, at')
  <2>1. Cardinality(reg) \in Nat
    BY <1>1, CountFewer, TournamentAssumption
  <2>2. chest.deposited + Fee * 0 <= chest.deposited
    <3>1. Fee * 0 = 0
      BY FeeTimes
    <3> QED
      BY <1>1, <3>1
  <2>3. 0 = Cardinality(reg) - Cardinality(reg)
              + (IF "idle" \in {"deduct", "saveEntry"} THEN 1 ELSE 0)
              - (IF at[r] \in {"deduct", "saveEntry"} THEN 1 ELSE 0)
    BY <2>1
  <2> QED
    BY <1>1, <2>2, <2>3, FeesCameMoves DEF CupMoney
<1>13. ChestIs(chest)
  BY DEF CupMoney
<1> QED
  BY <1>5, <1>6, <1>7, <1>8, <1>9, <1>10, <1>11, <1>12, <1>13 DEF CupMoney

\* The first prize and the prizes after it are no more than all of them.
LEMMA TailTotal ==
    ASSUME NEW P, NEW prizes \in Seq(Entry(P)), prizes # <<>>
    PROVE  /\ Head(prizes).player \in P /\ Head(prizes).amount \in Nat
           /\ Tail(prizes) \in Seq(Entry(P))
           /\ totalDistribution(Tail(prizes)) \in Nat
           /\ totalDistribution(Tail(prizes)) + Head(prizes).amount
                <= totalDistribution(prizes)
<1> DEFINE n == Len(prizes)
           rest == Tail(prizes)
           f == Amounts(prizes)
           S == DOMAIN prizes
           T == S \ {1}
           h == [y \in T |-> f[y]]
           g == [k \in DOMAIN rest |-> k + 1]
<1>1. /\ S = 1 .. n /\ n \in Nat \ {0} /\ 1 \in S
      /\ f \in [S -> Nat] /\ f[1] = prizes[1].amount /\ Summable(f)
      /\ \A k \in S : f[k] = prizes[k].amount
  <2>1. n \in Nat \ {0} /\ S = 1 .. n
    OBVIOUS
  <2>2. 1 \in S
    BY <2>1
  <2> QED
    BY <2>1, <2>2, AmountsType
<1>2. /\ rest \in Seq(Entry(P)) /\ DOMAIN rest = 1 .. n - 1
      /\ \A k \in DOMAIN rest : rest[k] = prizes[k + 1]
  <2>1. rest \in Seq(Entry(P)) /\ Len(rest) = n - 1
    OBVIOUS
  <2>2. \A k \in 1 .. n - 1 : rest[k] = prizes[k + 1]
    OBVIOUS
  <2> QED
    BY <2>1, <2>2
<1>3. Head(prizes) = prizes[1] /\ prizes[1] \in Entry(P)
  <2>1. Head(prizes) = prizes[1]
    OBVIOUS
  <2> QED
    BY <1>1, <2>1
<1>4. Head(prizes).player \in P /\ Head(prizes).amount \in Nat
  BY <1>3 DEF Entry
<1>5. /\ Amounts(rest) \in [DOMAIN rest -> Nat] /\ totalDistribution(rest) \in Nat
      /\ \A k \in DOMAIN rest : Amounts(rest)[k] = rest[k].amount
  BY <1>2, AmountsType
<1>6. h \in [T -> Nat] /\ Summable(h) /\ Total(f) = Total(h) + f[1]
  <2>1. Summable(h) /\ Total(f) = Total(h) + f[1]
    <3>1. f \in [S -> Nat] /\ Summable(f) /\ 1 \in S
      BY <1>1
    <3> HIDE DEF f, S
    <3> QED
      BY <3>1, TotalDrop
  <2> QED
    BY <1>1, <2>1
<1>7. Total(Amounts(rest)) <= Total(h)
  <2>1. g \in [DOMAIN rest -> T] /\ \A x, y \in DOMAIN rest : g[x] = g[y] => x = y
    BY <1>1, <1>2
  <2>2. \A x \in DOMAIN rest : Amounts(rest)[x] <= h[g[x]]
    <3> TAKE x \in DOMAIN rest
    <3>1. g[x] = x + 1 /\ g[x] \in T
      BY <2>1
    <3>2. h[g[x]] = prizes[x + 1].amount
      BY <1>1, <3>1
    <3>3. Amounts(rest)[x] = prizes[x + 1].amount /\ Amounts(rest)[x] \in Nat
      BY <1>2, <1>5
    <3> QED
      BY <3>2, <3>3
  <2> HIDE DEF g, h, T
  <2> QED
    BY <1>5, <1>6, <2>1, <2>2, TotalAtMost
<1>8. Total(h) \in Nat /\ Total(Amounts(rest)) \in Nat
  BY <1>5, <1>6, TotalType DEF totalDistribution
<1>9. Total(Amounts(rest)) + f[1] <= Total(f)
  <2> HIDE DEF f, h
  <2> QED
    BY <1>1, <1>6, <1>7, <1>8
<1> QED
  BY <1>1, <1>2, <1>3, <1>4, <1>5, <1>9 DEF totalDistribution

\* The rest of the prizes is remembered like the prizes.
LEMMA TailHeld ==
    ASSUME NEW j, HeldIs(j), j.prizes # <<>>, NEW i, i = [j EXCEPT !.prizes = Tail(@)]
    PROVE  /\ HeldIs(i) /\ i.prizes = Tail(j.prizes)
           /\ Head(j.prizes).player \in Entrants_ /\ Head(j.prizes).amount \in Nat
           /\ totalDistribution(i.prizes) \in Nat
           /\ totalDistribution(i.prizes) + Head(j.prizes).amount
                <= totalDistribution(j.prizes)
<1>1. j.prizes \in Seq(Entry(Entrants_))
  BY DEF HeldIs
<1>2. i.prizes = Tail(j.prizes) /\ i.players = j.players
      /\ i = [f \in {"row", "seen", "players", "prizes"} |-> i[f]]
  BY DEF HeldIs
<1>3. /\ Head(j.prizes).player \in Entrants_ /\ Head(j.prizes).amount \in Nat
      /\ Tail(j.prizes) \in Seq(Entry(Entrants_))
      /\ totalDistribution(Tail(j.prizes)) \in Nat
      /\ totalDistribution(Tail(j.prizes)) + Head(j.prizes).amount
           <= totalDistribution(j.prizes)
  BY <1>1, TailTotal
<1> QED
  BY <1>2, <1>3 DEF HeldIs

\* The parts of the invariant that a step of the settlement leaves alone.
LEMMA SettlingMoves ==
    ASSUME CupMoney, NEW r \in Organizers, NEW k, NEW j, k \notin Registering,
           at[r] \notin Registering, Moved(at, held, at', held', r, k, j),
           LinkOf(k, j, chest'.status, Registered(entry)),
           chest' \in EscrowRow, chest'.balance \in Nat, chest'.status = "released",
           chest.status \notin {"refunded"}, chest'.deposited = chest.deposited,
           purse' \in [Entrants_ -> WalletRow],
           \A x \in Entrants_ : purse'[x].locked >= purse[x].locked,
           chest.status \in {"locked", "released"},
           entry' = entry, cupFaults' = cupFaults,
           Bounded(chest', purse', at', held', cupFaults)
    PROVE  CupMoney'
<1> DEFINE reg == Registered(entry)
<1>1. /\ reg \in SUBSET Entrants_
      /\ \A q \in Organizers : HeldIs(held[q]) /\ at[q] \in Steps
      /\ chest.balance \in Nat /\ chest.fee \in Nat /\ chest.deposited \in Nat
      /\ chest \in EscrowRow /\ purse \in [Entrants_ -> WalletRow] /\ cupFaults \in Nat
  BY CupFacts
<1>2. /\ k \notin Charging /\ k \notin Holding /\ k \notin Entering
      /\ k \notin {"deduct", "saveEntry"} /\ at[r] \notin {"deduct", "saveEntry"}
  BY DEF Registering, Charging, Holding, Entering
<1>3. CupTypes'
  BY <1>1 DEF CupTypes, Moved, CupMoney
<1>4. Links(at', held', chest'.status, reg)
  <2>1. chest'.status = chest.status \/ chest.status \notin {"released", "refunded"}
    OBVIOUS
  <2>2. Links(at, held, chest.status, reg)
    BY DEF CupMoney
  <2>3. reg \in SUBSET reg
    OBVIOUS
  <2> QED
    BY <2>1, <2>2, <2>3, LinksMove
<1>5. ChestIs(chest')
  BY DEF ChestIs
<1>6. OneEach(Entering, at', held')
  <2>1. Stays(at[r], held[r], k, j, Entering)
    BY <1>2 DEF Stays
  <2> QED
    BY <2>1, OneEachMoves DEF CupMoney
<1>7. OneFee(chest'.status, reg, purse', at', held')
  BY DEF OneFee
<1>8. FeesLocked(purse', at', held')
  BY <1>2, LocksKept
<1>9. NotYet(reg, at', held')
  <2>1. Stays(at[r], held[r], k, j, {"deduct", "saveEntry"})
    BY <1>2 DEF Stays
  <2> QED
    BY <2>1, NotYetMoves DEF CupMoney
<1>10. FeesCame(chest', reg, at')
  <2>1. Cardinality(reg) \in Nat
    BY <1>1, CountFewer, TournamentAssumption
  <2>2. chest.deposited + Fee * 0 <= chest'.deposited
    <3>1. Fee * 0 = 0
      BY FeeTimes
    <3> QED
      BY <1>1, <3>1
  <2>3. 0 = Cardinality(reg) - Cardinality(reg)
              + (IF k \in {"deduct", "saveEntry"} THEN 1 ELSE 0)
              - (IF at[r] \in {"deduct", "saveEntry"} THEN 1 ELSE 0)
    BY <1>2, <2>1
  <2>4. FeesCame(chest, reg, at)
    BY DEF CupMoney
  <2> QED
    BY <1>1, <2>2, <2>3, <2>4, FeesCameMoves
<1> QED
  BY <1>3, <1>4, <1>5, <1>6, <1>7, <1>8, <1>9, <1>10 DEF CupMoney

\* What leaves the escrow as prizes is claimed, and the fee stays.
LEMMA PaidOut ==
    \A a, b, f, n, m, i \in Nat :
        i <= n => a + (b - n - m) + (f + m) + i <= a + b + f + 0 + 0
OBVIOUS

\* releaseEscrow of the prizes: they are claims now.
LEMMA ReleaseStep ==
    ASSUME CupMoney, NEW r \in Organizers, at[r] = "release", NEW total, NEW fee,
           total = totalDistribution(held[r].prizes), fee = PlatformFee(chest),
           canRelease(chest), total <= chest.balance - fee,
           chest' = AfterRelease(chest, total, fee),
           NEW k, k = (IF held[r].prizes = <<>> THEN "saveRow" ELSE "credit"),
           Moved(at, held, at', held', r, k, held[r]),
           purse' = purse, entry' = entry, cupFaults' = cupFaults
    PROVE  CupMoney'
<1> DEFINE j == held[r]
<1>1. /\ \A q \in Organizers : HeldIs(held[q]) /\ at[q] \in Steps
      /\ chest.balance \in Nat /\ chest.fee \in Nat /\ chest.deposited \in Nat
      /\ chest \in EscrowRow /\ purse \in [Entrants_ -> WalletRow] /\ cupFaults \in Nat
  BY CupFacts
<1>2. total \in Nat /\ Claim(k, j) \in Nat /\ Claim(k, j) <= total /\ Claim(at[r], j) = 0
  <2>1. total \in Nat
    BY <1>1, ClaimType
  <2> QED
    BY <2>1 DEF Claim
<1>3. fee \in Nat
  BY <1>1, FeeOfPot
<1>4. /\ chest' \in EscrowRow /\ chest'.deposited = chest.deposited
      /\ chest'.fee = chest.fee + fee /\ chest'.balance = chest.balance - total - fee
  <2>1. AfterRelease(chest, total, fee) \in EscrowRow
    BY <1>1, <1>2, <1>3, EntityTypes
  <2>2. /\ AfterRelease(chest, total, fee).deposited = chest.deposited
        /\ AfterRelease(chest, total, fee).fee = chest.fee + fee
        /\ AfterRelease(chest, total, fee).balance = chest.balance - total - fee
    <3>1. \A a, f \in Nat : /\ AfterRelease(chest, a, f).deposited = chest.deposited
                            /\ AfterRelease(chest, a, f).fee = chest.fee + f
                            /\ AfterRelease(chest, a, f).balance = chest.balance - a - f
      <4> TAKE a, f \in Nat
      <4>1. chest \in EscrowRow
        BY <1>1
      <4> QED
        BY <4>1, ReleaseTotals
    <3> QED
      BY <1>2, <1>3, <3>1
  <2> QED
    BY <2>1, <2>2
<1>5. chest'.balance \in Nat
  BY <1>1, <1>2, <1>3, <1>4
<1>6. chest'.status = "released" /\ chest.status = "locked"
  BY <1>1 DEF AfterRelease, EscrowRow, canRelease
<1>7. LinkOf(k, j, chest'.status, Registered(entry))
  BY <1>6 DEF LinkOf, Registering, Returning
<1>8. Bounded(chest', purse, at', held', cupFaults)
  <2> DEFINE v == Total(Values(purse))
  <2>1. v \in Nat
    BY <1>1, ValuesType
  <2> HIDE DEF v
  <2>2. v + chest'.balance + chest'.fee + Claim(k, j)
          <= v + chest.balance + chest.fee + Claim(at[r], j) + Fee * 0
    <3>1. Fee * 0 = 0
      BY FeeTimes
    <3> DEFINE c == Claim(k, j)
    <3>2. c \in Nat /\ c <= total /\ Claim(at[r], j) = 0
      BY <1>2
    <3> HIDE DEF c
    <3>3. v + chest'.balance + chest'.fee + c <= v + chest.balance + chest.fee + 0 + 0
      <4>1. /\ chest.balance \in Nat /\ chest.fee \in Nat /\ total \in Nat /\ fee \in Nat
            /\ v \in Nat /\ c \in Nat /\ c <= total
        BY <1>1, <1>2, <1>3, <2>1, <3>2
      <4>2. v + (chest.balance - total - fee) + (chest.fee + fee) + c
              <= v + chest.balance + chest.fee + 0 + 0
        BY <4>1, PaidOut
      <4> QED
        BY <1>4, <4>2
    <3> QED
      BY <3>1, <3>2, <3>3 DEF c
  <2>3. 0 = (IF k = "deduct" THEN 1 ELSE 0) - (IF at[r] = "deduct" THEN 1 ELSE 0)
              + cupFaults - cupFaults
    BY <1>1
  <2> QED
    BY <1>1, <1>4, <2>2, <2>3, BoundedMoves DEF v, CupMoney
<1>9. k \notin Registering /\ at[r] \notin Registering
  BY DEF Registering
<1>10. \A x \in Entrants_ : purse'[x].locked >= purse[x].locked
  BY <1>1 DEF WalletRow
<1> QED
  BY <1>1, <1>4, <1>5, <1>6, <1>7, <1>8, <1>9, <1>10, SettlingMoves

\* What a prize does to the wallet.
LEMMA PrizeMoved ==
    ASSUME NEW w \in WalletRow, NEW n \in Nat
    PROVE  /\ After("creditPrize", w, n) \in WalletRow
           /\ After("creditPrize", w, n).locked = w.locked
           /\ Value(After("creditPrize", w, n)) = Value(w) + n
<1>1. Allowed("creditPrize", w, n) /\ "creditPrize" \in WalletOps
  BY DEF Allowed, WalletOps, LoggedOps
<1>2. After("creditPrize", w, n) \in WalletRow
  BY <1>1, AfterType
<1>3. Value(After("creditPrize", w, n)) = Value(w) + n
  BY <1>1, AfterTotals
<1>4. After("creditPrize", w, n) = [w EXCEPT !.available = @ + n, !.winnings = @ + n]
  BY DEF After
<1>5. After("creditPrize", w, n).locked = w.locked
  BY <1>4 DEF WalletRow
<1> QED
  BY <1>2, <1>3, <1>5

\* The loop of the distribution gives up no claim but the prize's.
LEMMA NextClaim ==
    ASSUME NEW i, HeldIs(i), i.prizes # <<>>, NEW j, j = [i EXCEPT !.prizes = Tail(@)],
           NEW k, k = (IF j.prizes = <<>> THEN "saveRow" ELSE "credit")
    PROVE  /\ HeldIs(j) /\ j.prizes = Tail(i.prizes)
           /\ k \in {"saveRow", "credit"} /\ (k = "credit" => j.prizes # <<>>)
           /\ Head(i.prizes).player \in Entrants_ /\ Head(i.prizes).amount \in Nat
           /\ Claim(k, j) \in Nat /\ Claim("credit", i) \in Nat
           /\ Claim(k, j) + Head(i.prizes).amount <= Claim("credit", i)
<1> DEFINE amount == Head(i.prizes).amount
           t == totalDistribution(j.prizes)
           u == totalDistribution(i.prizes)
<1>1. HeldIs(j) /\ Head(i.prizes).player \in Entrants_ /\ amount \in Nat
      /\ t \in Nat /\ t + amount <= u /\ j.prizes = Tail(i.prizes)
  BY TailHeld
<1>2. u \in Nat
  BY ClaimType
<1>3. Claim("credit", i) = u /\ (Claim(k, j) = 0 \/ Claim(k, j) = t)
  BY DEF Claim
<1> HIDE DEF amount, t, u
<1>4. Claim(k, j) \in Nat /\ Claim("credit", i) \in Nat
      /\ Claim(k, j) + amount <= Claim("credit", i)
  <2>1. \A x, y, a, b \in Nat : x + a <= y /\ (b = 0 \/ b = x) => b + a <= y
    OBVIOUS
  <2>2. Claim(k, j) \in Nat
    BY <1>1, <1>3
  <2> QED
    BY <1>1, <1>2, <1>3, <2>1, <2>2
<1> QED
  BY <1>1, <1>4 DEF amount

\* creditPrize of the next prize.
LEMMA CreditStep ==
    ASSUME CupMoney, NEW r \in Organizers, at[r] = "credit",
           NEW j, NEW k \in {"saveRow", "credit"}, k = "credit" => j.prizes # <<>>,
           Moved(at, held, at', held', r, k, j),
           NEW amount \in Nat, Claim(k, j) + amount <= Claim("credit", held[r]),
           NEW p, NEW w, OneWallet(purse, purse', p, w),
           w.locked = purse[p].locked, Value(w) = Value(purse[p]) + amount,
           chest' = chest, entry' = entry, cupFaults' = cupFaults
    PROVE  CupMoney'
<1> DEFINE i == held[r]
<1>1. /\ \A q \in Organizers : HeldIs(held[q]) /\ at[q] \in Steps
      /\ chest.balance \in Nat /\ chest.fee \in Nat /\ chest.deposited \in Nat
      /\ chest \in EscrowRow /\ purse \in [Entrants_ -> WalletRow] /\ cupFaults \in Nat
  BY CupFacts
<1>2. chest.status = "released"
  BY DEF CupMoney, Links, LinkOf
<1>3. Claim(k, j) \in Nat /\ Claim(at[r], i) \in Nat /\ Claim(k, j) + amount <= Claim(at[r], i)
  BY <1>1, ClaimType DEF Moved
<1>4. /\ purse' \in [Entrants_ -> WalletRow] /\ purse'[p] = w
      /\ \A x \in Entrants_ : x # p => purse'[x] = purse[x]
  BY DEF OneWallet
<1>5. \A x \in Entrants_ : purse'[x].locked >= purse[x].locked
  <2>1. \A x \in Entrants_ : purse'[x].locked = purse[x].locked /\ purse[x].locked \in Nat
    <3> TAKE x \in Entrants_
    <3>1. purse[x].locked \in Nat
      BY <1>1 DEF WalletRow
    <3>2. purse'[x].locked = purse[x].locked
      BY <1>4
    <3> QED
      BY <3>1, <3>2
  <2> QED
    BY <2>1
<1>6. LinkOf(k, j, chest.status, Registered(entry))
  BY <1>2 DEF LinkOf, Registering, Returning
<1>7. Bounded(chest, purse', at', held', cupFaults)
  <2> DEFINE v == Total(Values(purse))
             v2 == Total(Values(purse'))
             c == Claim(k, j)
             d == Claim(at[r], i)
             x == Value(purse[p])
             y == Value(w)
  <2>1. v \in Nat /\ v2 \in Nat /\ v2 = v - x + y /\ x \in Nat /\ y = x + amount
    BY ValuesChange
  <2>2. c \in Nat /\ d \in Nat /\ c + amount <= d
    BY <1>3
  <2> HIDE DEF v, v2, c, d, x, y
  <2>3. v2 + chest.balance + chest.fee + c <= v + chest.balance + chest.fee + d + 0
    <3>1. \A b, f, n, a1, x1, c1, d1 \in Nat :
            c1 + n <= d1 => (a1 - x1 + (x1 + n)) + b + f + c1 <= a1 + b + f + d1 + 0
      OBVIOUS
    <3>2. v2 = v - x + (x + amount)
      BY <2>1
    <3>3. chest.balance \in Nat /\ chest.fee \in Nat
      BY <1>1
    <3> QED
      BY <2>1, <2>2, <3>1, <3>2, <3>3
  <2>4. v2 + chest.balance + chest.fee + c <= v + chest.balance + chest.fee + d + Fee * 0
    <3>1. Fee * 0 = 0
      BY FeeTimes
    <3> QED
      BY <2>3, <3>1
  <2>5. 0 = (IF k = "deduct" THEN 1 ELSE 0) - (IF at[r] = "deduct" THEN 1 ELSE 0)
              + cupFaults - cupFaults
    BY <1>1
  <2>6. Bounded(chest, purse, at, held, cupFaults)
    BY DEF CupMoney
  <2>7. 0 \in Int
    OBVIOUS
  <2> QED
    BY <1>1, <1>4, <2>4, <2>5, <2>6, <2>7, BoundedMoves DEF v, v2, c, d
<1>8. k \notin Registering /\ at[r] \notin Registering
  BY DEF Registering
<1>9. chest.status \in {"locked", "released"} /\ chest.status \notin {"refunded"}
  BY <1>2
<1> QED
  BY <1>1, <1>2, <1>4, <1>5, <1>6, <1>7, <1>8, <1>9, SettlingMoves

-----------------------------------------------------------------------------
(* The operations                                                           *)

LEMMA SameChest ==
    ASSUME CupMoney
    PROVE  ChestGoes(chest, chest)
BY CupFacts DEF CupMoney, ChestGoes

\* A call that moves no money, and the next one.
LEMMA CallMoves ==
    ASSUME CupMoney, NEW r \in Organizers, NEW k \in Steps, NEW j, HeldIs(j),
           Await(r, k, j), k # "credit",
           LeavesOff(at[r], held[r], k, j),
           LinkOf(k, j, chest'.status, Registered(entry)),
           purse' = purse, ChestGoes(chest, chest'),
           EntriesAre(entry'), Registered(entry') = Registered(entry),
           cupFaults' \in Nat, cupFaults' >= cupFaults,
           at[r] = "deduct" => cupFaults' > cupFaults
    PROVE  CupMoney'
<1> DEFINE m == Memory(k, j)
<1>1. Moved(at, held, at', held', r, k, m)
  BY AwaitMoves DEF CupMoney
<1>2. LeavesOff(at[r], held[r], k, m)
  BY DEF LeavesOff, Memory, Charging
<1>3. LinkOf(k, m, chest'.status, Registered(entry))
  <2>1. CASE k = "idle"
    BY <2>1 DEF LinkOf, Registering, Returning
  <2>2. CASE k # "idle"
    <3>1. m = j
      BY <2>2 DEF Memory
    <3> QED
      BY <3>1
  <2> QED
    BY <2>1, <2>2
<1>4. Claim(k, m) <= Claim(at[r], held[r])
  <2>1. Claim(k, m) = 0
    BY DEF Claim
  <2>2. Claim(at[r], held[r]) \in Nat
    BY CupFacts, ClaimType
  <2> QED
    BY <2>1, <2>2
<1> HIDE DEF m
<1> QED
  BY <1>1, <1>2, <1>3, <1>4, QuietStep

\* The calls outside registration, payment and return.
Plain == {"idle", "saveRow", "seed", "saveBracket", "lockChest", "createMatches", "place",
          "readChest", "release", "refund"}

LEMMA PlainIs ==
    ASSUME NEW k \in Plain
    PROVE  /\ k \in Steps /\ k # "credit" /\ k \notin Charging
           /\ \A j, st, reg : LinkOf(k, j, st, reg)
BY DEF Plain, Steps, Charging, LinkOf, Registering, Returning

LEMMA PlainStep ==
    ASSUME CupMoney, NEW r \in Organizers, NEW k \in Plain, NEW j, HeldIs(j),
           Await(r, k, j), at[r] # "deduct",
           purse' = purse, chest' = chest, entry' = entry, cupFaults' = cupFaults
    PROVE  CupMoney'
<1>1. /\ k \in Steps /\ k # "credit" /\ LeavesOff(at[r], held[r], k, j)
      /\ LinkOf(k, j, chest'.status, Registered(entry))
  BY PlainIs DEF LeavesOff
<1>2. ChestGoes(chest, chest')
  BY SameChest
<1>3. EntriesAre(entry') /\ Registered(entry') = Registered(entry)
  BY DEF CupMoney, CupTypes
<1>4. cupFaults \in Nat /\ cupFaults >= cupFaults
  BY CupFacts
<1> QED
  BY <1>1, <1>2, <1>3, <1>4, CallMoves

LEMMA JobIs ==
    ASSUME NEW j, HeldIs(j)
    PROVE  /\ \A row : HeldIs([j EXCEPT !.row = row])
           /\ \A row : [j EXCEPT !.row = row].players = j.players
           /\ \A ps \in SUBSET Entrants_ : /\ HeldIs([j EXCEPT !.players = ps])
                                           /\ [j EXCEPT !.players = ps].players = ps
           /\ \A s \in Seq(Entry(Entrants_)) : HeldIs([j EXCEPT !.prizes = s])
BY DEF HeldIs

LEMMA CupJobIs ==
    ASSUME CupMoney
    PROVE  /\ \A row : HeldIs([NotHeld EXCEPT !.row = row, !.seen = entry])
           /\ \A row : \A ps \in SUBSET Entrants_ :
                /\ HeldIs([NotHeld EXCEPT !.row = row, !.seen = entry, !.players = ps])
                /\ [NotHeld EXCEPT !.row = row, !.seen = entry, !.players = ps].players = ps
<1>1. HeldIs(NotHeld) /\ EntriesAre(entry)
  BY NotHeldIs DEF CupMoney, CupTypes
<1> QED
  BY <1>1 DEF HeldIs

LEMMA LoadPlain ==
    ASSUME CupMoney, NEW r \in Organizers, NEW k \in Plain, LoadCup(r, k, {})
    PROVE  CupMoney'
<1> DEFINE j == [NotHeld EXCEPT !.row = cup, !.seen = entry, !.players = {}]
<1>1. HeldIs(j)
  BY CupJobIs
<1>2. /\ Await(r, k, j) /\ at[r] = "idle" /\ purse' = purse /\ chest' = chest
      /\ entry' = entry /\ cupFaults' = cupFaults
  BY DEF LoadCup, cupTables
<1> HIDE DEF j
<1> QED
  BY <1>1, <1>2, PlainStep

\* A save writes the registrations back, or nothing: the players who are
\* registered stay the same.
LEMMA SavedEntries ==
    ASSUME CupMoney, SeenKnown, NEW r \in Organizers, NEW row, NEW k, NEW l,
           SaveCup(r, row, k, l)
    PROVE  /\ EntriesAre(entry') /\ Registered(entry') = Registered(entry)
           /\ purse' = purse /\ chest' = chest /\ cupFaults' = cupFaults
           /\ Await(r, k, held[r]) \/ (entry' = entry /\ Await(r, l, held[r]))
<1>1. /\ EntriesAre(entry) /\ EntriesAre(held[r].seen)
      /\ Registered(held[r].seen) \in SUBSET Registered(entry)
  BY CupFacts DEF CupMoney, CupTypes, HeldIs, SeenKnown
<1>2. /\ purse' = purse /\ chest' = chest /\ cupFaults' = cupFaults
      /\ \/ Unseen(r) = {} /\ entry' = held[r].seen /\ Await(r, k, held[r])
         \/ entry' = entry /\ Await(r, l, held[r])
  BY DEF SaveCup
<1>3. Unseen(r) = {} => Registered(held[r].seen) = Registered(entry)
  BY <1>1 DEF Unseen, Registered
<1> QED
  BY <1>1, <1>2, <1>3

LEMMA SavePlain ==
    ASSUME CupMoney, SeenKnown, NEW r \in Organizers, NEW k \in Plain, NEW l \in Plain,
           NEW row, SaveCup(r, row, k, l), at[r] # "deduct"
    PROVE  CupMoney'
<1>1. HeldIs(held[r]) /\ cupFaults \in Nat /\ cupFaults >= cupFaults
  BY CupFacts
<1>2. /\ EntriesAre(entry') /\ Registered(entry') = Registered(entry)
      /\ purse' = purse /\ chest' = chest /\ cupFaults' = cupFaults
      /\ Await(r, k, held[r]) \/ Await(r, l, held[r])
  BY SavedEntries
<1>3. PICK m \in Plain : Await(r, m, held[r])
  BY <1>2
<1>4. /\ m \in Steps /\ m # "credit" /\ LeavesOff(at[r], held[r], m, held[r])
      /\ LinkOf(m, held[r], chest'.status, Registered(entry))
  BY PlainIs DEF LeavesOff
<1>5. ChestGoes(chest, chest')
  BY <1>2, SameChest
<1> QED
  BY <1>1, <1>2, <1>3, <1>4, <1>5, CallMoves

\* openRegistration, closeRegistration, and the writes of the row.
LEMMA WindowMoves ==
    ASSUME CupMoney, NEW r \in Organizers, OpenRegistration(r) \/ CloseRegistration(r)
    PROVE  CupMoney'
<1>1. PICK row : Await(r, "saveRow", [NotHeld EXCEPT !.row = row, !.seen = entry])
  BY DEF OpenRegistration, CloseRegistration
<1>2. /\ at[r] = "idle" /\ purse' = purse /\ chest' = chest
      /\ entry' = entry /\ cupFaults' = cupFaults
  BY DEF OpenRegistration, CloseRegistration, cupTables
<1>3. HeldIs([NotHeld EXCEPT !.row = row, !.seen = entry])
  BY CupJobIs
<1>4. "saveRow" \in Plain
  BY DEF Plain
<1> DEFINE j == [NotHeld EXCEPT !.row = row, !.seen = entry]
<1> HIDE DEF j
<1>5. HeldIs(j) /\ Await(r, "saveRow", j)
  BY <1>1, <1>3 DEF j
<1> QED
  BY <1>2, <1>4, <1>5, PlainStep

LEMMA RowSaved ==
    ASSUME CupMoney, SeenKnown, NEW r \in Organizers,
           SaveRow(r) \/ SaveBracket(r) \/ SaveCancellation(r)
    PROVE  CupMoney'
<1>1. "idle" \in Plain /\ "lockChest" \in Plain
  BY DEF Plain
<1>2. CASE SaveRow(r)
  BY <1>1, <1>2, SavePlain DEF SaveRow
<1>3. CASE SaveBracket(r)
  BY <1>1, <1>3, SavePlain DEF SaveBracket
<1>4. CASE SaveCancellation(r)
  BY <1>1, <1>4, SavePlain DEF SaveCancellation
<1> QED
  BY <1>2, <1>3, <1>4

LEMMA CupLoaded ==
    ASSUME CupMoney, NEW r \in Organizers,
           GenerateBracket(r) \/ StartTournament(r) \/ CancelTournament(r)
    PROVE  CupMoney'
<1>1. "seed" \in Plain /\ "createMatches" \in Plain /\ "refund" \in Plain
  BY DEF Plain
<1> QED
  BY <1>1, LoadPlain DEF GenerateBracket, StartTournament, CancelTournament

\* The bracket and the matches of its first round.
LEMMA SeedPlayersMoves ==
    ASSUME CupMoney, NEW r \in Organizers, SeedPlayers(r)
    PROVE  CupMoney'
<1>1. "saveBracket" \in Plain /\ "idle" \in Plain
  BY DEF Plain
<1>2. /\ at[r] # "deduct" /\ purse' = purse /\ chest' = chest
      /\ entry' = entry /\ cupFaults' = cupFaults
  BY DEF SeedPlayers, cupTables
<1>3. CASE Cardinality(Confirmed) >= MinEntries
  <2>1. PICK seeds \in SetToSeqs(Confirmed) :
          Await(r, "saveBracket",
                [held[r] EXCEPT !.row.bracket = generateBracketStructure(seeds),
                                !.row.status = "bracket_generated"])
    BY <1>3 DEF SeedPlayers
  <2> DEFINE b == generateBracketStructure(seeds)
             j == [held[r] EXCEPT !.row.bracket = b, !.row.status = "bracket_generated"]
  <2>2. HeldIs(j)
    <3>1. HeldIs(held[r])
      BY CupFacts
    <3> HIDE DEF b
    <3> QED
      BY <3>1 DEF HeldIs
  <2>3. Await(r, "saveBracket", j)
    BY <2>1
  <2> HIDE DEF j
  <2> QED
    BY <1>1, <1>2, <2>2, <2>3, PlainStep
<1>4. CASE ~(Cardinality(Confirmed) >= MinEntries)
  <2>1. Await(r, "idle", NotHeld)
    BY <1>4 DEF SeedPlayers
  <2> QED
    BY <1>1, <1>2, <2>1, NotHeldIs, PlainStep
<1> QED
  BY <1>3, <1>4

LEMMA CreateMatchesMoves ==
    ASSUME CupMoney, NEW r \in Organizers, CreateMatches(r)
    PROVE  CupMoney'
<1>1. "saveRow" \in Plain /\ "idle" \in Plain
  BY DEF Plain
<1>2. /\ at[r] # "deduct" /\ purse' = purse /\ chest' = chest
      /\ entry' = entry /\ cupFaults' = cupFaults
  BY DEF CreateMatches, cupTables
<1> DEFINE j == [held[r] EXCEPT !.row.status = "in_progress"]
<1>3. HeldIs(j)
  <2>1. HeldIs(held[r])
    BY CupFacts
  <2> QED
    BY <2>1 DEF HeldIs
<1>4. Await(r, "idle", NotHeld) \/ Await(r, "saveRow", j)
  BY DEF CreateMatches
<1> HIDE DEF j
<1> QED
  BY <1>1, <1>2, <1>3, <1>4, NotHeldIs, PlainStep

\* advanceRound, and what it reads before the release.
LEMMA AdvanceRoundMoves ==
    ASSUME CupMoney, NEW r \in Organizers, AdvanceRound(r)
    PROVE  CupMoney'
<1>1. /\ at[r] # "deduct" /\ purse' = purse /\ chest' = chest
      /\ entry' = entry /\ cupFaults' = cupFaults
  BY DEF AdvanceRound, cupTables
<1>2. \E row : \E ps \in SUBSET Entrants_ :
        Await(r, IF row.status = "completed" THEN NextPlace(ps) ELSE "saveRow",
              [NotHeld EXCEPT !.row = row, !.seen = entry, !.players = ps])
  BY DEF AdvanceRound
<1>3. PICK row : \E ps \in SUBSET Entrants_ :
        Await(r, IF row.status = "completed" THEN NextPlace(ps) ELSE "saveRow",
              [NotHeld EXCEPT !.row = row, !.seen = entry, !.players = ps])
  BY <1>2
<1>4. PICK ps \in SUBSET Entrants_ :
        Await(r, IF row.status = "completed" THEN NextPlace(ps) ELSE "saveRow",
              [NotHeld EXCEPT !.row = row, !.seen = entry, !.players = ps])
  BY <1>3
<1> DEFINE j == [NotHeld EXCEPT !.row = row, !.seen = entry, !.players = ps]
           k == IF row.status = "completed" THEN NextPlace(ps) ELSE "saveRow"
<1>5. HeldIs(j)
  BY CupJobIs
<1>6. k \in Plain
  BY DEF Plain, NextPlace
<1>7. Await(r, k, j)
  BY <1>4
<1> HIDE DEF j, k
<1> QED
  BY <1>1, <1>5, <1>6, <1>7, PlainStep

LEMMA PlacePlayerMoves ==
    ASSUME CupMoney, NEW r \in Organizers, PlacePlayer(r)
    PROVE  CupMoney'
<1>1. HeldIs(held[r]) /\ EntriesAre(entry) /\ cupFaults \in Nat
  BY CupFacts DEF CupMoney, CupTypes
<1>2. PICK p \in held[r].players :
        /\ entry' = [entry EXCEPT ![p].place =
                       IF entry[p].status = "none" THEN @
                       ELSE finalPlacement(held[r].row.bracket, p)]
        /\ Await(r, NextPlace(held[r].players \ {p}),
                 [held[r] EXCEPT !.players = held[r].players \ {p}])
  BY DEF PlacePlayer
<1> DEFINE k == NextPlace(held[r].players \ {p})
           j == [held[r] EXCEPT !.players = held[r].players \ {p}]
           n == IF entry[p].status = "none" THEN entry[p].place
                ELSE finalPlacement(held[r].row.bracket, p)
<1>3. /\ at[r] # "deduct" /\ purse' = purse /\ chest' = chest /\ cupFaults' = cupFaults
  BY DEF PlacePlayer
<1>4. HeldIs(j)
  <2>1. held[r].players \ {p} \in SUBSET Entrants_
    BY <1>1 DEF HeldIs
  <2> QED
    BY <1>1, <2>1, JobIs
<1>5. k \in Plain
  BY DEF Plain, NextPlace
<1>6. EntriesAre(entry') /\ Registered(entry') = Registered(entry)
  <2> HIDE DEF n
  <2>1. p \in Entrants_
    BY <1>1 DEF HeldIs
  <2>2. /\ DOMAIN entry' = Entrants_
        /\ \A x \in Entrants_ : x # p => entry'[x] = entry[x]
        /\ entry'[p] = [entry[p] EXCEPT !.place = n]
    BY <1>1, <1>2, <2>1 DEF EntriesAre, n
  <2>3. entry'[p] = [f \in {"status", "place"} |-> entry'[p][f]]
        /\ entry'[p].status = entry[p].status
    BY <1>1, <2>1, <2>2 DEF EntriesAre
  <2> QED
    BY <1>1, <2>1, <2>2, <2>3 DEF EntriesAre, Registered
<1>7. Await(r, k, j)
  BY <1>2
<1> HIDE DEF k, j, n
<1>8. /\ k \in Steps /\ k # "credit" /\ LeavesOff(at[r], held[r], k, j)
      /\ LinkOf(k, j, chest'.status, Registered(entry))
  BY <1>5, PlainIs DEF LeavesOff
<1>9. ChestGoes(chest, chest')
  BY <1>3, SameChest
<1>10. cupFaults' \in Nat /\ cupFaults' >= cupFaults
  BY <1>1, <1>3
<1> QED
  BY <1>3, <1>4, <1>6, <1>7, <1>8, <1>9, <1>10, CallMoves

\* The prizes of a tournament go to its players.
LEMMA TournamentPrizesAre ==
    ASSUME NEW structure \in Seq(PlaceRow), NEW P, NEW T \in SUBSET P, NEW placement,
           DOMAIN placement = T, NEW d \in Nat
    PROVE  TournamentPrizes(structure, placement, d) \in Seq(Entry(P))
<1> DEFINE placed(e) == {p \in DOMAIN placement : placement[p] = e.place /\ ~e.isMvp}
           holders == [i \in DOMAIN structure |->
                         IF placed(structure[i]) = {} THEN Nobody
                         ELSE CHOOSE p \in placed(structure[i]) : TRUE]
<1>1. holders \in [DOMAIN structure -> P \cup {Nobody}]
  <2> SUFFICES ASSUME NEW i \in DOMAIN structure, placed(structure[i]) # {}
               PROVE  (CHOOSE p \in placed(structure[i]) : TRUE) \in P
    OBVIOUS
  <2>1. placed(structure[i]) \in SUBSET P
    OBVIOUS
  <2> HIDE DEF placed
  <2> QED
    BY <2>1
<1>2. TournamentPrizes(structure, placement, d) = Distribution(structure, holders, d)
  BY DEF TournamentPrizes
<1> HIDE DEF holders
<1>3. LET prizes == Distribution(structure, holders, d)
      IN  /\ prizes \in Seq(Entry(P))
          /\ \A k \in DOMAIN prizes : prizes[k].status = "pending"
          /\ totalDistribution(prizes) <= Total(Share(structure, d))
  BY <1>1, DistributionIs
<1> QED
  BY <1>2, <1>3

LEMMA ReadChestMoves ==
    ASSUME CupMoney, NEW r \in Organizers, ReadChest(r)
    PROVE  CupMoney'
<1> DEFINE placed == {p \in Entrants_ : entry[p].place > 0}
           placement == [p \in placed |-> entry[p].place]
           d == chest.balance - PlatformFee(chest)
           s == TournamentPrizes(Structure, placement, d)
           j == [held[r] EXCEPT !.prizes = s]
<1>1. HeldIs(held[r]) /\ chest \in EscrowRow /\ chest.balance \in Nat
  BY CupFacts
<1>2. d \in Nat
  BY <1>1, FeeOfPot
<1>3. s \in Seq(Entry(Entrants_))
  <2>1. Structure \in Seq(PlaceRow)
    BY TournamentAssumption DEF PlaceRow
  <2>2. DOMAIN placement = placed /\ placed \in SUBSET Entrants_
    OBVIOUS
  <2> HIDE DEF placed, placement, d
  <2> QED
    BY <1>2, <2>1, <2>2, TournamentPrizesAre
<1>4. /\ Await(r, "release", j) /\ at[r] # "deduct" /\ purse' = purse /\ chest' = chest
      /\ entry' = entry /\ cupFaults' = cupFaults
  BY DEF ReadChest, cupTables
<1>5. HeldIs(j)
  <2> HIDE DEF s
  <2> QED
    BY <1>1, <1>3, JobIs
<1>6. "release" \in Plain
  BY DEF Plain
<1> HIDE DEF j
<1> QED
  BY <1>4, <1>5, <1>6, PlainStep

\* registerPlayer.
LEMMA RegisterPlayerMoves ==
    ASSUME CupMoney, NEW r \in Organizers, RegisterPlayer(r)
    PROVE  CupMoney'
<1>1. PICK p \in Entrants_ : LoadCup(r, "findEntry", {p})
  BY DEF RegisterPlayer
<1> DEFINE j == [NotHeld EXCEPT !.row = cup, !.seen = entry, !.players = {p}]
<1>2. HeldIs(j) /\ j.players = {p}
  BY CupJobIs
<1>3. /\ Await(r, "findEntry", j) /\ at[r] # "deduct" /\ purse' = purse /\ chest' = chest
      /\ entry' = entry /\ cupFaults' = cupFaults
  BY <1>1 DEF LoadCup, cupTables
<1> HIDE DEF j
<1>4. /\ "findEntry" \in Steps /\ LeavesOff(at[r], held[r], "findEntry", j)
      /\ LinkOf("findEntry", j, chest.status, Registered(entry))
  BY <1>2 DEF Steps, LeavesOff, Charging, LinkOf, Returning
<1>5. ChestGoes(chest, chest)
  BY SameChest
<1>6. EntriesAre(entry) /\ cupFaults \in Nat /\ cupFaults >= cupFaults
  BY CupFacts DEF CupMoney, CupTypes
<1> QED
  BY <1>2, <1>3, <1>4, <1>5, <1>6, CallMoves

\* A call of a registration knows its player.
LEMMA LinkedTo ==
    ASSUME CupMoney, NEW r \in Organizers, at[r] \in Registering
    PROVE  /\ Who(held[r]) \in Entrants_ /\ purse[Who(held[r])] \in WalletRow
           /\ HeldIs(held[r])
           /\ \A k \in Registering : LinkOf(k, held[r], chest.status, Registered(entry))
<1>1. LinkOf(at[r], held[r], chest.status, Registered(entry))
  BY DEF CupMoney, Links
<1>2. \A k \in Registering : LinkOf(k, held[r], chest.status, Registered(entry))
  BY <1>1 DEF LinkOf, Registering, Returning
<1> QED
  BY <1>2, CupFacts

LEMMA FindEntryMoves ==
    ASSUME CupMoney, NEW r \in Organizers, FindEntry(r)
    PROVE  CupMoney'
<1>1. /\ at[r] = "findEntry" /\ purse' = purse /\ chest' = chest
      /\ entry' = entry /\ cupFaults' = cupFaults
      /\ Await(r, "lockFunds", held[r]) \/ Await(r, "idle", held[r])
  BY DEF FindEntry, cupTables
<1>2. at[r] \in Registering /\ "lockFunds" \in Registering
  BY <1>1 DEF Registering
<1>3. HeldIs(held[r]) /\ LinkOf("lockFunds", held[r], chest.status, Registered(entry))
  BY <1>2, LinkedTo
<1>4. CASE Await(r, "lockFunds", held[r])
  <2>1. "lockFunds" \in Steps /\ LeavesOff(at[r], held[r], "lockFunds", held[r])
    BY DEF Steps, LeavesOff, Charging
  <2>2. ChestGoes(chest, chest)
    BY SameChest
  <2>3. EntriesAre(entry) /\ cupFaults \in Nat /\ cupFaults >= cupFaults
    BY CupFacts DEF CupMoney, CupTypes
  <2> QED
    BY <1>1, <1>3, <1>4, <2>1, <2>2, <2>3, CallMoves
<1>5. CASE Await(r, "idle", held[r])
  <2>1. "idle" \in Plain /\ at[r] # "deduct"
    BY <1>1 DEF Plain
  <2> QED
    BY <1>1, <1>3, <1>5, <2>1, PlainStep
<1> QED
  BY <1>1, <1>4, <1>5

\* A registration gives up.
LEMMA GivesUp ==
    ASSUME CupMoney, NEW r \in Organizers, at[r] \in Charging, Await(r, "rollback", held[r]),
           purse' = purse, chest' = chest, entry' = entry,
           cupFaults' \in Nat, cupFaults' >= cupFaults,
           at[r] = "deduct" => cupFaults' > cupFaults
    PROVE  CupMoney'
<1>1. HeldIs(held[r]) /\ LinkOf("rollback", held[r], chest.status, Registered(entry))
  <2>1. at[r] \in Registering /\ "rollback" \in Registering
    BY StepsIn DEF Registering
  <2> QED
    BY <2>1, LinkedTo
<1>2. "rollback" \in Steps /\ LeavesOff(at[r], held[r], "rollback", held[r])
  BY DEF Steps, LeavesOff
<1>3. ChestGoes(chest, chest) /\ EntriesAre(entry)
  BY SameChest DEF CupMoney, CupTypes
<1> QED
  BY <1>1, <1>2, <1>3, CallMoves

\* The call k follows, and the request remembers what it did.
LEMMA Remembers ==
    ASSUME CupMoney, NEW r \in Organizers, NEW k \in Steps \ {"idle"}, Await(r, k, held[r])
    PROVE  Moved(at, held, at', held', r, k, held[r])
<1>1. HeldIs(held[r])
  BY CupFacts
<1>2. Moved(at, held, at', held', r, k, Memory(k, held[r]))
  BY <1>1, AwaitMoves DEF CupMoney
<1>3. Memory(k, held[r]) = held[r]
  BY DEF Memory
<1> QED
  BY <1>2, <1>3

LEMMA LockFeeMoves ==
    ASSUME CupMoney, NEW r \in Organizers, LockFee(r)
    PROVE  CupMoney'
<1> DEFINE p == Who(held[r])
           w == After("lockFunds", purse[p], Fee)
<1>1. /\ at[r] = "lockFunds" /\ chest' = chest /\ entry' = entry /\ cupFaults' = cupFaults
      /\ \/ /\ Allowed("lockFunds", purse[p], Fee)
            /\ purse' = [purse EXCEPT ![p] = w]
            /\ Await(r, "deposit", held[r])
         \/ purse' = purse /\ Await(r, "idle", held[r])
  BY DEF LockFee, PurseCall, Who
<1>2. /\ p \in Entrants_ /\ purse[p] \in WalletRow /\ HeldIs(held[r])
      /\ purse \in [Entrants_ -> WalletRow]
  <2>1. at[r] \in Registering
    BY <1>1 DEF Registering
  <2> QED
    BY <2>1, LinkedTo, CupFacts
<1>3. CASE /\ Allowed("lockFunds", purse[p], Fee)
           /\ purse' = [purse EXCEPT ![p] = w]
           /\ Await(r, "deposit", held[r])
  <2>1. w \in WalletRow
    BY <1>2, <1>3, FeeMoved
  <2> HIDE DEF w, p
  <2>2. OneWallet(purse, purse', p, w)
    BY <1>2, <1>3, <2>1, OneWalletIs
  <2>3. Moved(at, held, at', held', r, "deposit", held[r])
    BY <1>3, Remembers DEF Steps
  <2> QED
    BY <1>1, <1>3, <2>2, <2>3, LockStep DEF w, p
<1>4. CASE purse' = purse /\ Await(r, "idle", held[r])
  <2>1. "idle" \in Plain /\ at[r] # "deduct"
    BY <1>1 DEF Plain
  <2> QED
    BY <1>1, <1>2, <1>4, <2>1, PlainStep
<1> QED
  BY <1>1, <1>3, <1>4

LEMMA DepositEntryFeeMoves ==
    ASSUME CupMoney, NEW r \in Organizers, DepositEntryFee(r)
    PROVE  CupMoney'
<1>1. /\ at[r] = "deposit" /\ purse' = purse /\ entry' = entry /\ cupFaults' = cupFaults
      /\ \/ /\ canDeposit(chest) /\ chest' = AfterDeposit(chest, Fee)
            /\ Await(r, "deduct", held[r])
         \/ chest' = chest /\ Await(r, "rollback", held[r])
  BY DEF DepositEntryFee, ChestCall
<1>2. CASE /\ canDeposit(chest) /\ chest' = AfterDeposit(chest, Fee)
           /\ Await(r, "deduct", held[r])
  <2>1. Moved(at, held, at', held', r, "deduct", held[r])
    BY <1>2, Remembers DEF Steps
  <2> QED
    BY <1>1, <1>2, <2>1, DepositStep
<1>3. CASE chest' = chest /\ Await(r, "rollback", held[r])
  <2>1. at[r] \in Charging /\ at[r] # "deduct"
    BY <1>1 DEF Charging
  <2>2. cupFaults' \in Nat /\ cupFaults' >= cupFaults
    BY <1>1, CupFacts
  <2> QED
    BY <1>1, <1>3, <2>1, <2>2, GivesUp
<1> QED
  BY <1>1, <1>2, <1>3

LEMMA DeductEntryFeeMoves ==
    ASSUME CupMoney, NEW r \in Organizers, DeductEntryFee(r)
    PROVE  CupMoney'
<1> DEFINE p == Who(held[r])
           w == After("deductEntryFee", purse[p], Fee)
<1>1. at[r] = "deduct" /\ chest' = chest /\ entry' = entry /\ cupFaults' = cupFaults
  BY DEF DeductEntryFee, PurseCall
<1>2. Allowed("deductEntryFee", purse[p], Fee)
  BY <1>1, DeductAllowed
<1>3. purse' = [purse EXCEPT ![p] = w] /\ Await(r, "saveEntry", held[r])
  BY <1>2 DEF DeductEntryFee, PurseCall, Who
<1>4. /\ p \in Entrants_ /\ purse[p] \in WalletRow
      /\ purse \in [Entrants_ -> WalletRow]
  <2>1. at[r] \in Registering
    BY <1>1 DEF Registering
  <2> QED
    BY <2>1, LinkedTo, CupFacts
<1>5. w \in WalletRow
  BY <1>2, <1>4, FeeMoved
<1> HIDE DEF w, p
<1>6. OneWallet(purse, purse', p, w)
  BY <1>3, <1>4, <1>5, OneWalletIs
<1>7. Moved(at, held, at', held', r, "saveEntry", held[r])
  BY <1>3, Remembers DEF Steps
<1> QED
  BY <1>1, <1>6, <1>7, DeductStep DEF w, p

LEMMA SaveEntryMoves ==
    ASSUME CupMoney, NEW r \in Organizers, SaveEntry(r)
    PROVE  CupMoney'
<1> DEFINE p == Who(held[r])
<1>1. /\ at[r] = "saveEntry" /\ chest' = chest /\ purse' = purse /\ cupFaults' = cupFaults
      /\ \/ /\ entry' = [entry EXCEPT ![p].status = "confirmed"]
            /\ Await(r, "savePool", held[r])
         \/ entry[p].status # "none"
  BY DEF SaveEntry, Who
<1>2. entry[p].status = "none"
  <2>1. p \notin Registered(entry)
    BY <1>1 DEF CupMoney, NotYet
  <2>2. p \in Entrants_
    BY <1>1, CupFacts DEF Registering
  <2> QED
    BY <2>1, <2>2 DEF Registered
<1>3. Moved(at, held, at', held', r, "savePool", held[r])
  BY <1>1, <1>2, Remembers DEF Steps
<1> QED
  BY <1>1, <1>2, <1>3, SaveEntryStep

LEMMA SavePoolMoves ==
    ASSUME CupMoney, SeenKnown, NEW r \in Organizers, SavePool(r)
    PROVE  CupMoney'
<1>1. at[r] = "savePool" /\ SaveCup(r, held[r].row, "idle", "rollback")
  BY DEF SavePool
<1>2. /\ EntriesAre(entry') /\ Registered(entry') = Registered(entry)
      /\ purse' = purse /\ chest' = chest /\ cupFaults' = cupFaults
      /\ Await(r, "idle", held[r]) \/ (entry' = entry /\ Await(r, "rollback", held[r]))
  BY <1>1, SavedEntries
<1>3. /\ HeldIs(held[r]) /\ cupFaults \in Nat /\ cupFaults >= cupFaults
      /\ ChestGoes(chest, chest') /\ at[r] # "deduct" /\ at[r] \in Charging
  BY <1>1, <1>2, SameChest, CupFacts DEF Charging
<1>4. CASE Await(r, "idle", held[r])
  <2>1. /\ "idle" \in Steps /\ LeavesOff(at[r], held[r], "idle", held[r])
        /\ LinkOf("idle", held[r], chest'.status, Registered(entry))
    BY PlainIs DEF Plain, LeavesOff
  <2> QED
    BY <1>2, <1>3, <1>4, <2>1, CallMoves
<1>5. CASE entry' = entry /\ Await(r, "rollback", held[r])
  BY <1>2, <1>3, <1>5, GivesUp
<1> QED
  BY <1>2, <1>4, <1>5

LEMMA RollbackEntryMoves ==
    ASSUME CupMoney, NEW r \in Organizers, RollbackEntry(r)
    PROVE  CupMoney'
<1> DEFINE p == Who(held[r])
           w == After("unlockFunds", purse[p], Fee)
<1>1. /\ at[r] = "rollback" /\ chest' = chest /\ entry' = entry /\ cupFaults' = cupFaults
      /\ Await(r, "idle", held[r])
      /\ \/ /\ Allowed("unlockFunds", purse[p], Fee)
            /\ purse' = [purse EXCEPT ![p] = w]
         \/ purse' = purse
  BY DEF RollbackEntry, PurseCall, Who
<1>2. /\ p \in Entrants_ /\ purse[p] \in WalletRow /\ HeldIs(held[r])
      /\ purse \in [Entrants_ -> WalletRow]
  <2>1. at[r] \in Registering
    BY <1>1 DEF Registering
  <2> QED
    BY <2>1, LinkedTo, CupFacts
<1>3. CASE Allowed("unlockFunds", purse[p], Fee) /\ purse' = [purse EXCEPT ![p] = w]
  <2>1. w \in WalletRow
    BY <1>2, <1>3, FeeMoved
  <2> HIDE DEF w, p
  <2>2. OneWallet(purse, purse', p, w)
    BY <1>2, <1>3, <2>1, OneWalletIs
  <2>3. Moved(at, held, at', held', r, "idle", Memory("idle", held[r]))
    BY <1>1, <1>2, AwaitMoves DEF CupMoney, Steps
  <2>4. Moved(at, held, at', held', r, "idle", NotHeld)
    BY <2>3 DEF Memory
  <2> QED
    BY <1>1, <1>3, <2>2, <2>4, UnlockStep DEF w, p
<1>4. CASE purse' = purse
  <2>1. "idle" \in Plain /\ at[r] # "deduct"
    BY <1>1 DEF Plain
  <2> QED
    BY <1>1, <1>2, <1>4, <2>1, PlainStep
<1> QED
  BY <1>1, <1>3, <1>4

\* generateBracket locks the escrow.
LEMMA LockChestMoves ==
    ASSUME CupMoney, NEW r \in Organizers, LockChest(r)
    PROVE  CupMoney'
<1>1. /\ at[r] = "lockChest" /\ purse' = purse /\ entry' = entry /\ cupFaults' = cupFaults
      /\ Await(r, "idle", held[r])
      /\ \/ chest.status = "active" /\ chest' = WithStatus(chest, "locked")
         \/ chest' = chest
  BY DEF LockChest, ChestCall
<1>2. HeldIs(held[r]) /\ "idle" \in Plain /\ at[r] # "deduct"
  BY <1>1, CupFacts DEF Plain
<1>3. CASE chest.status = "active" /\ chest' = WithStatus(chest, "locked")
  <2>1. chest \in EscrowRow /\ chest.balance \in Nat /\ chest.fee \in Nat
        /\ chest.deposited \in Nat /\ chest.balance = chest.deposited
    BY <1>3, CupFacts DEF CupMoney, ChestIs
  <2>2. /\ chest' \in EscrowRow /\ chest'.status = "locked"
        /\ chest'.deposited = chest.deposited /\ chest'.balance = chest.balance
        /\ chest'.fee = chest.fee
    <3>1. chest' \in EscrowRow
      BY <1>3, <2>1 DEF EscrowRow, EscrowStatus, WithStatus
    <3> QED
      BY <1>3, <2>1, <3>1, StatusTotals
  <2>3. ChestGoes(chest, chest')
    BY <1>3, <2>1, <2>2 DEF ChestGoes, ChestIs
  <2>4. /\ "idle" \in Steps /\ LeavesOff(at[r], held[r], "idle", held[r])
        /\ LinkOf("idle", held[r], chest'.status, Registered(entry))
    BY <1>2, PlainIs DEF LeavesOff
  <2>5. EntriesAre(entry) /\ cupFaults \in Nat /\ cupFaults >= cupFaults
    BY CupFacts DEF CupMoney, CupTypes
  <2> QED
    BY <1>1, <1>2, <2>3, <2>4, <2>5, CallMoves
<1>4. CASE chest' = chest
  BY <1>1, <1>2, <1>4, PlainStep
<1> QED
  BY <1>1, <1>3, <1>4

LEMMA ReleaseChestMoves ==
    ASSUME CupMoney, NEW r \in Organizers, ReleaseChest(r)
    PROVE  CupMoney'
<1> DEFINE total == totalDistribution(held[r].prizes)
           fee == PlatformFee(chest)
           k == IF held[r].prizes = <<>> THEN "saveRow" ELSE "credit"
<1>1. /\ at[r] = "release" /\ purse' = purse /\ entry' = entry /\ cupFaults' = cupFaults
      /\ \/ /\ canRelease(chest) /\ total <= chest.balance - fee
            /\ chest' = AfterRelease(chest, total, fee)
            /\ Await(r, k, held[r])
         \/ chest' = chest /\ Await(r, "idle", held[r])
  BY DEF ReleaseChest, ChestCall
<1>2. CASE /\ canRelease(chest) /\ total <= chest.balance - fee
           /\ chest' = AfterRelease(chest, total, fee)
           /\ Await(r, k, held[r])
  <2>1. k \in Steps \ {"idle"}
    BY DEF Steps
  <2>2. Moved(at, held, at', held', r, k, held[r])
    <3> HIDE DEF k
    <3> QED
      BY <1>2, <2>1, Remembers
  <2> HIDE DEF total, fee, k
  <2> QED
    BY <1>1, <1>2, <2>2, ReleaseStep DEF total, fee, k
<1>3. CASE chest' = chest /\ Await(r, "idle", held[r])
  <2>1. "idle" \in Plain /\ at[r] # "deduct" /\ HeldIs(held[r])
    BY <1>1, CupFacts DEF Plain
  <2> QED
    BY <1>1, <1>3, <2>1, PlainStep
<1> QED
  BY <1>1, <1>2, <1>3

\* The next prize of the loop.
LEMMA NextPrizeMoves ==
    ASSUME CupMoney, NEW r \in Organizers, at[r] = "credit", NextPrize(r)
    PROVE  \E j, k :
             /\ Moved(at, held, at', held', r, k, j)
             /\ k \in {"saveRow", "credit"} /\ (k = "credit" => j.prizes # <<>>)
             /\ Head(held[r].prizes).player \in Entrants_
             /\ Head(held[r].prizes).amount \in Nat
             /\ Claim(k, j) \in Nat /\ Claim("credit", held[r]) \in Nat
             /\ Claim(k, j) + Head(held[r].prizes).amount <= Claim("credit", held[r])
<1> DEFINE i == held[r]
           j == [i EXCEPT !.prizes = Tail(@)]
           k == IF j.prizes = <<>> THEN "saveRow" ELSE "credit"
<1>1. HeldIs(i) /\ i.prizes # <<>>
  BY CupFacts DEF CupMoney, Links, LinkOf
<1>2. /\ HeldIs(j) /\ j.prizes = Tail(i.prizes)
      /\ k \in {"saveRow", "credit"} /\ (k = "credit" => j.prizes # <<>>)
      /\ Head(i.prizes).player \in Entrants_ /\ Head(i.prizes).amount \in Nat
      /\ Claim(k, j) \in Nat /\ Claim("credit", i) \in Nat
      /\ Claim(k, j) + Head(i.prizes).amount <= Claim("credit", i)
  <2> HIDE DEF i
  <2> QED
    BY <1>1, NextClaim
<1>3. Await(r, k, j)
  <2>1. j = [held[r] EXCEPT !.prizes = Tail(held[r].prizes)]
    BY <1>1 DEF HeldIs
  <2>2. k = IF Tail(held[r].prizes) = <<>> THEN "saveRow" ELSE "credit"
    BY <1>2
  <2> HIDE DEF j, k
  <2> QED
    BY <2>1, <2>2 DEF NextPrize
<1>4. k \in Steps /\ k # "idle"
  <2> HIDE DEF k
  <2> QED
    BY <1>2 DEF Steps
<1> HIDE DEF i, j, k
<1>5. Moved(at, held, at', held', r, k, Memory(k, j))
  BY <1>2, <1>3, <1>4, AwaitMoves DEF CupMoney
<1>6. Memory(k, j) = j
  BY <1>4 DEF Memory
<1> QED
  BY <1>2, <1>5, <1>6 DEF i

LEMMA CreditWinnerMoves ==
    ASSUME CupMoney, NEW r \in Organizers, CreditWinner(r)
    PROVE  CupMoney'
<1> DEFINE p == Head(held[r].prizes).player
           amount == Head(held[r].prizes).amount
           w == After("creditPrize", purse[p], amount)
<1>1. /\ at[r] = "credit" /\ chest' = chest /\ entry' = entry /\ cupFaults' = cupFaults
      /\ purse' = [purse EXCEPT ![p] = w] /\ NextPrize(r)
  BY DEF CreditWinner
<1>2. PICK j, k :
        /\ Moved(at, held, at', held', r, k, j)
        /\ k \in {"saveRow", "credit"} /\ (k = "credit" => j.prizes # <<>>)
        /\ p \in Entrants_ /\ amount \in Nat
        /\ Claim(k, j) \in Nat /\ Claim("credit", held[r]) \in Nat
        /\ Claim(k, j) + amount <= Claim("credit", held[r])
  BY <1>1, NextPrizeMoves
<1>3. purse \in [Entrants_ -> WalletRow] /\ purse[p] \in WalletRow
  BY <1>2, CupFacts
<1>4. w \in WalletRow /\ w.locked = purse[p].locked /\ Value(w) = Value(purse[p]) + amount
  BY <1>2, <1>3, PrizeMoved
<1> HIDE DEF p, amount, w
<1>5. OneWallet(purse, purse', p, w)
  BY <1>1, <1>2, <1>3, <1>4, OneWalletIs
<1> QED
  BY <1>1, <1>2, <1>4, <1>5, CreditStep

\* cancelTournament.
LEMMA RefundChestMoves ==
    ASSUME CupMoney, NEW r \in Organizers, RefundChest(r)
    PROVE  CupMoney'
<1>1. /\ at[r] = "refund" /\ purse' = purse /\ entry' = entry /\ cupFaults' = cupFaults
      /\ \/ /\ canRefund(chest) /\ chest' = AfterRefund(chest, chest.deposited)
            /\ Await(r, "findEntries", held[r])
         \/ chest' = chest /\ Await(r, "idle", held[r])
  BY DEF RefundChest, ChestCall
<1>2. HeldIs(held[r]) /\ "idle" \in Plain /\ at[r] # "deduct"
  BY <1>1, CupFacts DEF Plain
<1>3. CASE /\ canRefund(chest) /\ chest' = AfterRefund(chest, chest.deposited)
           /\ Await(r, "findEntries", held[r])
  <2> DEFINE n == chest.deposited
  <2>1. /\ chest \in EscrowRow /\ n \in Nat /\ chest.balance \in Nat /\ chest.fee \in Nat
        /\ chest.balance = n /\ chest.status \in {"active", "locked"}
    BY <1>3, CupFacts DEF CupMoney, ChestIs, canRefund
  <2>2. /\ AfterRefund(chest, n) \in EscrowRow
        /\ AfterRefund(chest, n).deposited = chest.deposited
        /\ AfterRefund(chest, n).fee = chest.fee
        /\ AfterRefund(chest, n).balance = chest.balance - n
    <3>1. AfterRefund(chest, n) \in EscrowRow
      BY <2>1, EntityTypes
    <3> HIDE DEF n
    <3>2. \A a \in Nat : /\ AfterRefund(chest, a).deposited = chest.deposited
                         /\ AfterRefund(chest, a).fee = chest.fee
                         /\ AfterRefund(chest, a).balance = chest.balance - a
      BY <2>1, RefundTotals
    <3> QED
      BY <2>1, <3>1, <3>2
  <2>3. AfterRefund(chest, n).status = "refunded"
    BY <2>1 DEF AfterRefund, EscrowRow
  <2>4. chest'.balance = 0
    BY <1>3, <2>1, <2>2
  <2>5. ChestGoes(chest, chest')
    BY <1>3, <2>1, <2>2, <2>3, <2>4 DEF ChestGoes, ChestIs
  <2>6. LinkOf("findEntries", held[r], chest'.status, Registered(entry))
    BY <1>3, <2>3 DEF LinkOf, Registering
  <2>7. "findEntries" \in Steps /\ LeavesOff(at[r], held[r], "findEntries", held[r])
    BY DEF Steps, LeavesOff, Charging
  <2>8. EntriesAre(entry) /\ cupFaults \in Nat /\ cupFaults >= cupFaults
    BY CupFacts DEF CupMoney, CupTypes
  <2> QED
    BY <1>1, <1>2, <1>3, <2>5, <2>6, <2>7, <2>8, CallMoves
<1>4. CASE chest' = chest /\ Await(r, "idle", held[r])
  BY <1>1, <1>2, <1>4, PlainStep
<1> QED
  BY <1>1, <1>3, <1>4

\* The players who are still to be returned their fee are registered.
LEMMA NextReturnMoves ==
    ASSUME CupMoney, NEW r \in Organizers, at[r] \in Returning,
           NEW ps \in SUBSET Entrants_, ps \in SUBSET Registered(entry),
           Await(r, NextReturn(ps), [held[r] EXCEPT !.players = ps]),
           purse' = purse, chest' = chest, cupFaults' = cupFaults,
           EntriesAre(entry'), Registered(entry') = Registered(entry)
    PROVE  CupMoney'
<1> DEFINE j == [held[r] EXCEPT !.players = ps]
           k == NextReturn(ps)
<1>1. HeldIs(j) /\ j.players = ps
  <2>1. HeldIs(held[r])
    BY CupFacts
  <2> QED
    BY <2>1, JobIs
<1>2. k \in {"saveCancelled", "unlock"}
  BY DEF NextReturn
<1>3. chest.status = "refunded"
  BY DEF CupMoney, Links, LinkOf
<1> HIDE DEF j, k
<1>4. LinkOf(k, j, chest.status, Registered(entry))
  BY <1>1, <1>2, <1>3 DEF LinkOf, Registering
<1>5. k \in Steps /\ k # "credit" /\ LeavesOff(at[r], held[r], k, j)
  BY <1>2 DEF Steps, LeavesOff, Charging
<1>6. at[r] # "deduct"
  BY StepsIn DEF Returning
<1>7. ChestGoes(chest, chest) /\ cupFaults \in Nat /\ cupFaults >= cupFaults
  BY SameChest, CupFacts
<1>8. Await(r, k, j)
  BY DEF k, j
<1> QED
  BY <1>1, <1>4, <1>5, <1>6, <1>7, <1>8, CallMoves

LEMMA FindEntriesMoves ==
    ASSUME CupMoney, NEW r \in Organizers, FindEntries(r)
    PROVE  CupMoney'
<1>1. /\ at[r] = "findEntries" /\ purse' = purse /\ chest' = chest /\ entry' = entry
      /\ cupFaults' = cupFaults
      /\ Await(r, NextReturn(Confirmed), [held[r] EXCEPT !.players = Confirmed])
  BY DEF FindEntries, cupTables
<1>2. Confirmed \in SUBSET Entrants_ /\ Confirmed \in SUBSET Registered(entry)
  BY DEF Confirmed, Registered
<1>3. at[r] \in Returning /\ EntriesAre(entry)
  BY <1>1 DEF Returning, CupMoney, CupTypes
<1> QED
  BY <1>1, <1>2, <1>3, NextReturnMoves

\* After the refund no wallet has a fee to unlock: unlockFunds is refused.
LEMMA UnlockFeeMoves ==
    ASSUME CupMoney, NEW r \in Organizers, UnlockFee(r)
    PROVE  CupMoney'
<1>1. PICK p \in held[r].players : PurseCall(r, "unlockFunds", p, "saveWithdrawn", "idle")
  BY DEF UnlockFee
<1>2. at[r] = "unlock"
  BY DEF UnlockFee
<1>3. chest.status = "refunded" /\ held[r].players \in SUBSET Registered(entry)
  BY <1>2 DEF CupMoney, Links, LinkOf, Returning
<1>4. p \in Registered(entry) /\ p \in Entrants_ /\ purse[p] \in WalletRow
  BY <1>3, CupFacts
<1>5. Value(purse[p]) = 0
  BY <1>3, <1>4 DEF CupMoney, OneFee
<1>6. ~Allowed("unlockFunds", purse[p], Fee)
  <2>1. /\ purse[p].available \in Nat /\ purse[p].locked \in Nat
        /\ Value(purse[p]) = purse[p].available + purse[p].locked
        /\ Allowed("unlockFunds", purse[p], Fee) => purse[p].locked >= Fee
    BY <1>4, FeeMoved
  <2>2. Fee \in Nat /\ Fee > 0
    BY FeeTimes
  <2> QED
    BY <1>5, <2>1, <2>2
<1>7. /\ Await(r, "idle", held[r]) /\ purse' = purse /\ chest' = chest
      /\ entry' = entry /\ cupFaults' = cupFaults
  BY <1>1, <1>6 DEF PurseCall
<1>8. "idle" \in Plain /\ at[r] # "deduct" /\ HeldIs(held[r])
  BY <1>2, CupFacts DEF Plain
<1> QED
  BY <1>7, <1>8, PlainStep

LEMMA SaveWithdrawalMoves ==
    ASSUME CupMoney, NEW r \in Organizers, SaveWithdrawal(r)
    PROVE  CupMoney'
<1>1. PICK p \in held[r].players :
        /\ entry' = [entry EXCEPT ![p].status = "withdrawn"]
        /\ Await(r, NextReturn(held[r].players \ {p}),
                 [held[r] EXCEPT !.players = @ \ {p}])
  BY DEF SaveWithdrawal
<1>2. /\ at[r] = "saveWithdrawn" /\ purse' = purse /\ chest' = chest
      /\ cupFaults' = cupFaults
  BY DEF SaveWithdrawal
<1>3. held[r].players \in SUBSET Registered(entry)
  BY <1>2 DEF CupMoney, Links, LinkOf, Returning
<1> DEFINE ps == held[r].players \ {p}
<1>4. ps \in SUBSET Registered(entry) /\ ps \in SUBSET Entrants_ /\ p \in Entrants_
      /\ entry[p].status # "none"
  BY <1>3 DEF Registered
<1>5. EntriesAre(entry') /\ Registered(entry') = Registered(entry)
  <2>1. EntriesAre(entry)
    BY DEF CupMoney, CupTypes
  <2>2. /\ DOMAIN entry' = Entrants_
        /\ \A x \in Entrants_ : x # p => entry'[x] = entry[x]
        /\ entry'[p] = [entry[p] EXCEPT !.status = "withdrawn"]
    BY <1>1, <1>4, <2>1 DEF EntriesAre
  <2>3. entry'[p] = [f \in {"status", "place"} |-> entry'[p][f]]
        /\ entry'[p].status = "withdrawn"
    BY <1>4, <2>1, <2>2 DEF EntriesAre
  <2> QED
    BY <1>4, <2>1, <2>2, <2>3 DEF EntriesAre, Registered
<1>6. Await(r, NextReturn(ps), [held[r] EXCEPT !.players = ps])
  <2>1. HeldIs(held[r])
    BY CupFacts
  <2>2. [held[r] EXCEPT !.players = @ \ {p}] = [held[r] EXCEPT !.players = ps]
    BY <2>1 DEF HeldIs
  <2> QED
    BY <1>1, <2>2
<1>7. at[r] \in Returning
  BY <1>2 DEF Returning
<1> HIDE DEF ps
<1> QED
  BY <1>2, <1>4, <1>5, <1>6, <1>7, NextReturnMoves

-----------------------------------------------------------------------------
(* Faults                                                                   *)

LEMMA RejectCupCallMoves ==
    ASSUME CupMoney, NEW r \in Organizers, RejectCupCall(r)
    PROVE  CupMoney'
<1>1. /\ purse' = purse /\ chest' = chest /\ entry' = entry /\ cupFaults' = cupFaults + 1
      /\ \/ at[r] \in {"deposit", "deduct", "saveEntry", "savePool"}
              /\ Await(r, "rollback", held[r])
         \/ at[r] = "credit" /\ NextPrize(r)
         \/ Await(r, "idle", NotHeld) /\ at[r] # "deduct"
  BY DEF RejectCupCall, cupTables
<1>2. cupFaults \in Nat /\ cupFaults' \in Nat /\ cupFaults' > cupFaults
      /\ cupFaults' >= cupFaults
  BY <1>1, CupFacts
<1>3. EntriesAre(entry) /\ ChestGoes(chest, chest)
  BY SameChest DEF CupMoney, CupTypes
<1>4. CASE at[r] \in {"deposit", "deduct", "saveEntry", "savePool"}
             /\ Await(r, "rollback", held[r])
  <2>1. at[r] \in Charging
    BY <1>4 DEF Charging
  <2> QED
    BY <1>1, <1>2, <1>4, <2>1, GivesUp
<1>5. CASE at[r] = "credit" /\ NextPrize(r)
  <2>1. PICK j, k :
          /\ Moved(at, held, at', held', r, k, j)
          /\ k \in {"saveRow", "credit"} /\ (k = "credit" => j.prizes # <<>>)
          /\ Head(held[r].prizes).amount \in Nat
          /\ Claim(k, j) \in Nat /\ Claim("credit", held[r]) \in Nat
          /\ Claim(k, j) + Head(held[r].prizes).amount <= Claim("credit", held[r])
    BY <1>5, NextPrizeMoves
  <2>2. Claim(k, j) <= Claim(at[r], held[r])
    <3>1. \A a, b, c \in Nat : a + b <= c => a <= c
      OBVIOUS
    <3> QED
      BY <1>5, <2>1, <3>1
  <2>3. chest.status = "released"
    BY <1>5 DEF CupMoney, Links, LinkOf
  <2>4. LinkOf(k, j, chest.status, Registered(entry))
    BY <2>1, <2>3 DEF LinkOf, Registering, Returning
  <2>5. LeavesOff(at[r], held[r], k, j) /\ at[r] # "deduct"
    BY <1>5, <2>1 DEF LeavesOff, Charging
  <2> QED
    BY <1>1, <1>2, <1>3, <2>1, <2>2, <2>4, <2>5, QuietStep
<1>6. CASE Await(r, "idle", NotHeld) /\ at[r] # "deduct"
  <2>1. /\ "idle" \in Steps /\ LeavesOff(at[r], held[r], "idle", NotHeld)
        /\ LinkOf("idle", NotHeld, chest.status, Registered(entry))
    BY PlainIs DEF Plain, LeavesOff
  <2> QED
    BY <1>1, <1>2, <1>3, <1>6, <2>1, NotHeldIs, CallMoves
<1> QED
  BY <1>1, <1>4, <1>5, <1>6

\* A crash, of the one request there is: at most one fee stays in both places.
LEMMA CrashStep ==
    ASSUME CupMoney, Solo(at, 0),
           at' = [r \in Organizers |-> "idle"], held' = [r \in Organizers |-> NotHeld],
           purse' = purse, chest' = chest, entry' = entry, cupFaults' = cupFaults + 1
    PROVE  CupMoney'
<1> DEFINE reg == Registered(entry)
<1>1. /\ reg \in SUBSET Entrants_
      /\ \A q \in Organizers : HeldIs(held[q]) /\ at[q] \in Steps
      /\ chest.balance \in Nat /\ chest.fee \in Nat /\ chest.deposited \in Nat
      /\ chest \in EscrowRow /\ purse \in [Entrants_ -> WalletRow] /\ cupFaults \in Nat
  BY CupFacts
<1>2. /\ at' \in [Organizers -> Steps] /\ DOMAIN held' = Organizers
      /\ \A q \in Organizers : at'[q] = "idle" /\ held'[q] = NotHeld
  BY DEF Steps
<1>3. CupTypes'
  BY <1>1, <1>2, NotHeldIs DEF CupTypes, CupMoney
<1>4. Links(at', held', chest.status, reg)
  BY <1>2 DEF Links, LinkOf, Registering, Returning
<1>5. OneEach(Entering, at', held') /\ OneEach(Charging, at', held') /\ NotYet(reg, at', held')
      /\ FeesLocked(purse, at', held')
  BY <1>2 DEF OneEach, Entering, Charging, NotYet, FeesLocked
<1>6. OneFee(chest.status, reg, purse, at', held')
  <2>1. \A q \in Organizers : StageOf(at'[q], purse[Who(held'[q])])
    BY <1>2 DEF StageOf, Charging
  <2> QED
    BY <1>5, <2>1 DEF OneFee, CupMoney
<1>7. /\ Awaiting({"deduct"}, at') = {} /\ Awaiting({"deduct", "saveEntry"}, at') = {}
      /\ Cardinality({}) = 0
  BY <1>2, FS_EmptySet DEF Awaiting
<1>8. Bounded(chest, purse, at', held', cupFaults')
  <2> DEFINE N == Cardinality(Entrants_)
             d == Cardinality(Awaiting({"deduct"}, at))
             v == Total(Values(purse))
             t == Total(ClaimsOf(at, held))
             t2 == Total(ClaimsOf(at', held'))
  <2>1. d \in Nat /\ d <= 1
    <3> DEFINE S == Awaiting({"deduct"}, at)
    <3>1. \A x, y \in S : x = y
      BY DEF Solo, Awaiting
    <3>2. CASE S = {}
      <4>1. Awaiting({"deduct"}, at) = {}
        BY <3>2
      <4>2. d = Cardinality({})
        BY <4>1
      <4> HIDE DEF d, S
      <4> QED
        BY <1>7, <4>2
    <3>3. CASE S # {}
      <4>1. PICK x \in S : TRUE
        BY <3>3
      <4>2. S = {x}
        BY <3>1, <4>1
      <4> HIDE DEF S
      <4>3. Cardinality(S) = 1
        BY <4>2, FS_Singleton
      <4> QED
        BY <4>3 DEF S
    <3> QED
      BY <3>2, <3>3
  <2>2. N \in Nat /\ v \in Nat
    BY <1>1, FS_CardinalityType, ValuesType, TournamentAssumption
  <2>3. t \in Nat
    <3>1. ClaimsOf(at, held) \in [Organizers -> Nat]
      BY <1>1, ClaimType DEF ClaimsOf
    <3> QED
      BY <3>1, FiniteSummable, TotalType, TournamentAssumption
  <2>4. t2 = 0
    <3>1. /\ ClaimsOf(at', held') \in [Organizers -> Nat]
          /\ \A q \in Organizers : ClaimsOf(at', held')[q] = 0
      BY <1>2 DEF ClaimsOf, Claim
    <3> QED
      BY <3>1, TotalZero
  <2>5. v + chest.balance + chest.fee + t <= Fee * (N + d + cupFaults)
    BY DEF CupMoney, Bounded
  <2> SUFFICES v + chest.balance + chest.fee + t2 <= Fee * (N + 0 + (cupFaults + 1))
    BY <1>7 DEF Bounded
  <2> HIDE DEF N, d, v, t, t2
  <2>6. Fee * (N + d + cupFaults) <= Fee * (N + 0 + (cupFaults + 1))
    <3>1. N + d + cupFaults \in Nat /\ N + 0 + (cupFaults + 1) \in Nat
          /\ N + d + cupFaults <= N + 0 + (cupFaults + 1)
      BY <1>1, <2>1, <2>2
    <3> QED
      BY <3>1, FeeTimes
  <2> DEFINE x == Fee * (N + d + cupFaults)
             y == Fee * (N + 0 + (cupFaults + 1))
  <2>7. x \in Nat /\ y \in Nat
    <3>1. N + d + cupFaults \in Nat /\ N + 0 + (cupFaults + 1) \in Nat
      BY <1>1, <2>1, <2>2
    <3> QED
      BY <3>1, FeeTimes
  <2>8. v + chest.balance + chest.fee + t <= x /\ x <= y
    BY <2>5, <2>6
  <2> HIDE DEF x, y
  <2>9. v + chest.balance + chest.fee + t2 <= y
    BY <1>1, <2>2, <2>3, <2>4, <2>7, <2>8
  <2> QED
    BY <2>9 DEF y
<1>9. FeesCame(chest, reg, at')
  <2> DEFINE m == Cardinality(reg)
             d == Cardinality(Awaiting({"deduct", "saveEntry"}, at))
  <2>1. m \in Nat
    BY <1>1, CountFewer, TournamentAssumption
  <2>2. d \in Nat
    <3>1. Awaiting({"deduct", "saveEntry"}, at) \in SUBSET Organizers
      BY DEF Awaiting
    <3> QED
      BY <3>1, CountFewer, TournamentAssumption
  <2>3. Fee * (m + d) <= chest.deposited
    BY DEF CupMoney, FeesCame
  <2> SUFFICES Fee * (m + 0) <= chest.deposited
    BY <1>7 DEF FeesCame
  <2> HIDE DEF m, d
  <2>4. m + d \in Nat /\ m + 0 \in Nat /\ m + 0 <= m + d
    BY <2>1, <2>2
  <2>5. Fee * (m + 0) <= Fee * (m + d) /\ Fee * (m + 0) \in Nat /\ Fee * (m + d) \in Nat
    BY <2>4, FeeTimes
  <2> DEFINE x == Fee * (m + 0)
             y == Fee * (m + d)
  <2>6. x <= y /\ y <= chest.deposited /\ x \in Nat /\ y \in Nat
    BY <2>3, <2>5
  <2> HIDE DEF x, y
  <2>7. x <= chest.deposited
    BY <1>1, <2>6
  <2> QED
    BY <2>7 DEF x
<1>10. cupFaults' \in Nat /\ ChestIs(chest)
  BY <1>1 DEF CupMoney
<1> QED
  BY <1>3, <1>4, <1>5, <1>6, <1>8, <1>9, <1>10 DEF CupMoney

-----------------------------------------------------------------------------
(* The theorem                                                              *)

CupCall(r) ==
    \/ OpenRegistration(r) \/ CloseRegistration(r) \/ SaveRow(r)
    \/ RegisterPlayer(r) \/ FindEntry(r) \/ LockFee(r) \/ DepositEntryFee(r)
    \/ DeductEntryFee(r) \/ SaveEntry(r) \/ SavePool(r) \/ RollbackEntry(r)
    \/ GenerateBracket(r) \/ SeedPlayers(r) \/ SaveBracket(r) \/ LockChest(r)
    \/ StartTournament(r) \/ CreateMatches(r)
    \/ AdvanceRound(r) \/ PlacePlayer(r) \/ ReadChest(r) \/ ReleaseChest(r)
    \/ CreditWinner(r)
    \/ CancelTournament(r) \/ RefundChest(r) \/ FindEntries(r) \/ UnlockFee(r)
    \/ SaveWithdrawal(r) \/ SaveCancellation(r)
    \/ RejectCupCall(r)

LEMMA CupCalls == TournamentStep => CrashCup \/ \E r \in Organizers : CupCall(r)
BY DEF TournamentStep, CupCall

LEMMA CupCallMoney ==
    ASSUME CupMoney, SeenKnown, NEW r \in Organizers, CupCall(r)
    PROVE  CupMoney'
<1>1. CASE OpenRegistration(r) \/ CloseRegistration(r)
  BY <1>1, WindowMoves
<1>2. CASE SaveRow(r) \/ SaveBracket(r) \/ SaveCancellation(r)
  BY <1>2, RowSaved
<1>3. CASE GenerateBracket(r) \/ StartTournament(r) \/ CancelTournament(r)
  BY <1>3, CupLoaded
<1>4. CASE RegisterPlayer(r)
  BY <1>4, RegisterPlayerMoves
<1>5. CASE FindEntry(r)
  BY <1>5, FindEntryMoves
<1>6. CASE LockFee(r)
  BY <1>6, LockFeeMoves
<1>7. CASE DepositEntryFee(r)
  BY <1>7, DepositEntryFeeMoves
<1>8. CASE DeductEntryFee(r)
  BY <1>8, DeductEntryFeeMoves
<1>9. CASE SaveEntry(r)
  BY <1>9, SaveEntryMoves
<1>10. CASE RollbackEntry(r)
  BY <1>10, RollbackEntryMoves
<1>11. CASE SeedPlayers(r)
  BY <1>11, SeedPlayersMoves
<1>12. CASE LockChest(r)
  BY <1>12, LockChestMoves
<1>13. CASE CreateMatches(r)
  BY <1>13, CreateMatchesMoves
<1>14. CASE AdvanceRound(r)
  BY <1>14, AdvanceRoundMoves
<1>15. CASE PlacePlayer(r)
  BY <1>15, PlacePlayerMoves
<1>16. CASE ReadChest(r)
  BY <1>16, ReadChestMoves
<1>17. CASE ReleaseChest(r)
  BY <1>17, ReleaseChestMoves
<1>18. CASE CreditWinner(r)
  BY <1>18, CreditWinnerMoves
<1>19. CASE RefundChest(r)
  BY <1>19, RefundChestMoves
<1>20. CASE FindEntries(r)
  BY <1>20, FindEntriesMoves
<1>21. CASE UnlockFee(r)
  BY <1>21, UnlockFeeMoves
<1>22. CASE SaveWithdrawal(r)
  BY <1>22, SaveWithdrawalMoves
<1>23. CASE RejectCupCall(r)
  BY <1>23, RejectCupCallMoves
<1>24. CASE SavePool(r)
  BY <1>24, SavePoolMoves
<1> QED
  BY <1>1, <1>2, <1>3, <1>4, <1>5, <1>6, <1>7, <1>8, <1>9, <1>10, <1>11, <1>12, <1>13,
     <1>14, <1>15, <1>16, <1>17, <1>18, <1>19, <1>20, <1>21, <1>22, <1>23, <1>24 DEF CupCall

\* What a call leaves to the request as loaded registrations.
SeenFrom(r) ==
    \E j : /\ held' = [held EXCEPT ![r] = j]
           /\ j.seen \in {held[r].seen, entry, NoEntries}

LEMMA AwaitSeen ==
    ASSUME NEW r \in Organizers, NEW k, NEW j, Await(r, k, j),
           j.seen \in {held[r].seen, entry, NoEntries}
    PROVE  SeenFrom(r)
<1>1. held' = [held EXCEPT ![r] = Memory(k, j)]
  BY DEF Await, Memory
<1>2. Memory(k, j).seen \in {held[r].seen, entry, NoEntries}
  BY DEF Memory, NotHeld
<1> QED
  BY <1>1, <1>2 DEF SeenFrom

LEMMA CupCallSeen ==
    ASSUME CupMoney, NEW r \in Organizers, CupCall(r)
    PROVE  SeenFrom(r)
<1>1. HeldIs(held[r])
  BY CupFacts
<1>2. CASE \E k : Await(r, k, held[r])
  BY <1>2, AwaitSeen
<1>3. CASE \E k, ps : Await(r, k, [held[r] EXCEPT !.players = ps])
  <2>1. PICK k, ps : Await(r, k, [held[r] EXCEPT !.players = ps])
    BY <1>3
  <2>2. [held[r] EXCEPT !.players = ps].seen = held[r].seen
    BY <1>1 DEF HeldIs
  <2> QED
    BY <2>1, <2>2, AwaitSeen
<1>4. CASE \E k, s : Await(r, k, [held[r] EXCEPT !.prizes = s])
  <2>1. PICK k, s : Await(r, k, [held[r] EXCEPT !.prizes = s])
    BY <1>4
  <2>2. [held[r] EXCEPT !.prizes = s].seen = held[r].seen
    BY <1>1 DEF HeldIs
  <2> QED
    BY <2>1, <2>2, AwaitSeen
<1>5. CASE \E k, row, ps : Await(r, k, [NotHeld EXCEPT !.row = row, !.seen = entry,
                                                       !.players = ps])
  <2>1. PICK k, row, ps : Await(r, k, [NotHeld EXCEPT !.row = row, !.seen = entry,
                                                      !.players = ps])
    BY <1>5
  <2>2. [NotHeld EXCEPT !.row = row, !.seen = entry, !.players = ps].seen = entry
    BY DEF NotHeld
  <2> QED
    BY <2>1, <2>2, AwaitSeen
<1>6. CASE OpenRegistration(r) \/ CloseRegistration(r)
  <2>1. PICK row : Await(r, "saveRow", [NotHeld EXCEPT !.row = row, !.seen = entry])
    BY <1>6 DEF OpenRegistration, CloseRegistration
  <2>2. [NotHeld EXCEPT !.row = row, !.seen = entry].seen = entry
    BY DEF NotHeld
  <2> QED
    BY <2>1, <2>2, AwaitSeen
<1>7. CASE Await(r, "idle", NotHeld)
  <2>1. NotHeld.seen = NoEntries
    BY DEF NotHeld
  <2> QED
    BY <1>7, <2>1, AwaitSeen
<1>8. CASE RegisterPlayer(r) \/ GenerateBracket(r) \/ StartTournament(r)
             \/ CancelTournament(r)
  BY <1>5, <1>8 DEF RegisterPlayer, GenerateBracket, StartTournament, CancelTournament, LoadCup
<1>9. CASE SaveRow(r) \/ SavePool(r) \/ SaveBracket(r) \/ SaveCancellation(r) \/ FindEntry(r)
             \/ SaveEntry(r)
  BY <1>2, <1>9 DEF SaveRow, SavePool, SaveBracket, SaveCancellation, SaveCup, FindEntry,
                   SaveEntry
<1>10. CASE LockFee(r) \/ DeductEntryFee(r) \/ RollbackEntry(r) \/ UnlockFee(r)
  BY <1>2, <1>10 DEF LockFee, DeductEntryFee, RollbackEntry, UnlockFee, PurseCall
<1>11. CASE DepositEntryFee(r) \/ LockChest(r) \/ ReleaseChest(r) \/ RefundChest(r)
  BY <1>2, <1>11 DEF DepositEntryFee, LockChest, ReleaseChest, RefundChest, ChestCall
<1>12. CASE SeedPlayers(r)
  <2>1. CASE Await(r, "idle", NotHeld)
    BY <1>7, <2>1
  <2>2. CASE \E b : Await(r, "saveBracket",
                          [held[r] EXCEPT !.row.bracket = b, !.row.status = "bracket_generated"])
    <3>1. PICK b : Await(r, "saveBracket",
                         [held[r] EXCEPT !.row.bracket = b, !.row.status = "bracket_generated"])
      BY <2>2
    <3>2. [held[r] EXCEPT !.row.bracket = b, !.row.status = "bracket_generated"].seen
            = held[r].seen
      BY <1>1 DEF HeldIs
    <3> QED
      BY <3>1, <3>2, AwaitSeen
  <2> QED
    BY <1>12, <2>1, <2>2 DEF SeedPlayers
<1>13. CASE CreateMatches(r)
  <2>1. CASE Await(r, "idle", NotHeld)
    BY <1>7, <2>1
  <2>2. CASE Await(r, "saveRow", [held[r] EXCEPT !.row.status = "in_progress"])
    <3>1. [held[r] EXCEPT !.row.status = "in_progress"].seen = held[r].seen
      BY <1>1 DEF HeldIs
    <3> QED
      BY <2>2, <3>1, AwaitSeen
  <2> QED
    BY <1>13, <2>1, <2>2 DEF CreateMatches
<1>14. CASE AdvanceRound(r)
  BY <1>5, <1>14 DEF AdvanceRound
<1>15. CASE PlacePlayer(r) \/ FindEntries(r)
  BY <1>3, <1>15 DEF PlacePlayer, FindEntries
<1>16. CASE SaveWithdrawal(r)
  <2>1. PICK p \in held[r].players :
          Await(r, NextReturn(held[r].players \ {p}), [held[r] EXCEPT !.players = @ \ {p}])
    BY <1>16 DEF SaveWithdrawal
  <2>2. [held[r] EXCEPT !.players = @ \ {p}].seen = held[r].seen
    BY <1>1 DEF HeldIs
  <2> QED
    BY <2>1, <2>2, AwaitSeen
<1>17. CASE ReadChest(r) \/ CreditWinner(r)
  BY <1>4, <1>17 DEF ReadChest, CreditWinner, NextPrize
<1>18. CASE RejectCupCall(r)
  BY <1>2, <1>4, <1>7, <1>18 DEF RejectCupCall, NextPrize
<1> QED
  BY <1>6, <1>8, <1>9, <1>10, <1>11, <1>12, <1>13, <1>14, <1>15, <1>16, <1>17, <1>18
  DEF CupCall

\* A registration is inserted, updated or written back.
LEMMA CupCallEntries ==
    ASSUME CupMoney, SeenKnown, NEW r \in Organizers, CupCall(r)
    PROVE  Registered(entry) \in SUBSET Registered(entry')
<1>1. EntriesAre(entry)
  BY DEF CupMoney, CupTypes
<1>2. CASE entry' = entry
  BY <1>2
<1>3. CASE \E p \in Entrants_, s \in {"confirmed", "withdrawn"} :
             entry' = [entry EXCEPT ![p].status = s]
  <2>1. PICK p \in Entrants_, s \in {"confirmed", "withdrawn"} :
          entry' = [entry EXCEPT ![p].status = s]
    BY <1>3
  <2>2. \A q \in Entrants_ : q # p => entry'[q] = entry[q]
    BY <1>1, <2>1 DEF EntriesAre
  <2>3. entry'[p].status = s
    <3>1. entry'[p] = [entry[p] EXCEPT !.status = s]
      BY <1>1, <2>1 DEF EntriesAre
    <3>2. entry[p] = [f \in {"status", "place"} |-> entry[p][f]]
      BY <1>1 DEF EntriesAre
    <3> QED
      BY <3>1, <3>2
  <2> QED
    BY <2>2, <2>3 DEF Registered
<1>4. CASE \E p, n : entry' = [entry EXCEPT ![p].place = n]
  <2>1. PICK p, n : entry' = [entry EXCEPT ![p].place = n]
    BY <1>4
  <2>2. \A q \in Entrants_ : q # p => entry'[q] = entry[q]
    BY <1>1, <2>1 DEF EntriesAre
  <2>3. p \in Entrants_ => entry'[p].status = entry[p].status
    <3> SUFFICES ASSUME p \in Entrants_
                 PROVE  entry'[p].status = entry[p].status
      OBVIOUS
    <3>1. entry'[p] = [entry[p] EXCEPT !.place = n]
      BY <1>1, <2>1 DEF EntriesAre
    <3>2. entry[p] = [f \in {"status", "place"} |-> entry[p][f]]
      BY <1>1 DEF EntriesAre
    <3> QED
      BY <3>1, <3>2
  <2> QED
    BY <2>2, <2>3 DEF Registered
<1>5. CASE SaveRow(r) \/ SavePool(r) \/ SaveBracket(r) \/ SaveCancellation(r)
  BY <1>5, SavedEntries DEF SaveRow, SavePool, SaveBracket, SaveCancellation
<1>6. CASE SaveEntry(r)
  <2>1. at[r] = "saveEntry"
    BY <1>6 DEF SaveEntry
  <2>2. Who(held[r]) \in Entrants_
    BY <2>1, CupFacts DEF Registering
  <2>3. entry' = entry \/ entry' = [entry EXCEPT ![Who(held[r])].status = "confirmed"]
    BY <1>6 DEF SaveEntry, Who
  <2> QED
    BY <1>2, <1>3, <2>2, <2>3
<1>7. CASE SaveWithdrawal(r)
  <2>1. PICK p \in held[r].players : entry' = [entry EXCEPT ![p].status = "withdrawn"]
    BY <1>7 DEF SaveWithdrawal
  <2>2. p \in Entrants_
    BY CupFacts DEF HeldIs
  <2> QED
    BY <1>3, <2>1, <2>2
<1>8. CASE PlacePlayer(r)
  <2>1. PICK p : entry' = [entry EXCEPT ![p].place =
                             IF entry[p].status = "none" THEN @
                             ELSE finalPlacement(held[r].row.bracket, p)]
    BY <1>8 DEF PlacePlayer
  <2> DEFINE n == IF entry[p].status = "none" THEN entry[p].place
                  ELSE finalPlacement(held[r].row.bracket, p)
  <2>2. entry' = [entry EXCEPT ![p].place = n]
    BY <2>1
  <2> HIDE DEF n
  <2> QED
    BY <1>4, <2>2
<1>9. CASE \/ OpenRegistration(r) \/ CloseRegistration(r) \/ RegisterPlayer(r) \/ FindEntry(r)
           \/ GenerateBracket(r) \/ SeedPlayers(r) \/ StartTournament(r) \/ CreateMatches(r)
           \/ AdvanceRound(r) \/ ReadChest(r) \/ CreditWinner(r)
           \/ CancelTournament(r) \/ FindEntries(r) \/ RejectCupCall(r)
  BY <1>2, <1>9 DEF OpenRegistration, CloseRegistration, RegisterPlayer, FindEntry,
     GenerateBracket, SeedPlayers, StartTournament, CreateMatches, AdvanceRound, ReadChest,
     CreditWinner, CancelTournament, FindEntries, RejectCupCall, LoadCup, cupTables
<1>10. CASE \/ LockFee(r) \/ DepositEntryFee(r) \/ DeductEntryFee(r) \/ RollbackEntry(r)
            \/ LockChest(r) \/ ReleaseChest(r) \/ RefundChest(r) \/ UnlockFee(r)
  BY <1>2, <1>10 DEF LockFee, DepositEntryFee, DeductEntryFee, RollbackEntry, LockChest,
     ReleaseChest, RefundChest, UnlockFee, PurseCall, ChestCall
<1> QED
  BY <1>5, <1>6, <1>7, <1>8, <1>9, <1>10 DEF CupCall

LEMMA SeenMoves ==
    ASSUME CupMoney, SeenKnown, NEW r \in Organizers, CupCall(r)
    PROVE  SeenKnown'
<1>1. PICK j : /\ held' = [held EXCEPT ![r] = j]
               /\ j.seen \in {held[r].seen, entry, NoEntries}
  BY CupCallSeen DEF SeenFrom
<1>2. Registered(entry) \in SUBSET Registered(entry')
  BY CupCallEntries
<1>3. Registered(NoEntries) = {}
  BY DEF Registered, NoEntries
<1>4. DOMAIN held = Organizers
  BY DEF CupMoney, CupTypes
<1>5. \A q \in Organizers : held'[q] = IF q = r THEN j ELSE held[q]
  BY <1>1, <1>4
<1>6. ASSUME NEW q \in Organizers
      PROVE  Registered(held'[q].seen) \in SUBSET Registered(entry')
  BY <1>1, <1>2, <1>3, <1>5 DEF SeenKnown
<1> QED
  BY <1>6 DEF SeenKnown

\* Only the request itself moves on.
LEMMA CupCallAwaits ==
    ASSUME NEW r \in Organizers, CupCall(r)
    PROVE  \E k : at' = [at EXCEPT ![r] = k]
<1>1. CASE OpenRegistration(r) \/ CloseRegistration(r) \/ SaveRow(r) \/ RegisterPlayer(r)
             \/ FindEntry(r)
  BY <1>1 DEF OpenRegistration, CloseRegistration, SaveRow, SaveCup, RegisterPlayer, LoadCup,
             FindEntry, Await
<1>2. CASE LockFee(r) \/ DeductEntryFee(r) \/ RollbackEntry(r) \/ UnlockFee(r)
  BY <1>2 DEF LockFee, DeductEntryFee, RollbackEntry, UnlockFee, PurseCall, Await
<1>3. CASE DepositEntryFee(r) \/ LockChest(r) \/ ReleaseChest(r) \/ RefundChest(r)
  BY <1>3 DEF DepositEntryFee, LockChest, ReleaseChest, RefundChest, ChestCall, Await
<1>4. CASE SaveEntry(r) \/ SavePool(r) \/ SaveBracket(r) \/ SaveCancellation(r)
  BY <1>4 DEF SaveEntry, SavePool, SaveBracket, SaveCancellation, SaveCup, Await
<1>5. CASE GenerateBracket(r) \/ StartTournament(r) \/ CancelTournament(r)
  BY <1>5 DEF GenerateBracket, StartTournament, CancelTournament, LoadCup, Await
<1>6. CASE SeedPlayers(r)
  BY <1>6 DEF SeedPlayers, Await
<1>7. CASE CreateMatches(r)
  BY <1>7 DEF CreateMatches, Await
<1>8. CASE AdvanceRound(r)
  BY <1>8 DEF AdvanceRound, Await
<1>9. CASE PlacePlayer(r)
  BY <1>9 DEF PlacePlayer, Await
<1>10. CASE ReadChest(r) \/ CreditWinner(r) \/ FindEntries(r) \/ SaveWithdrawal(r)
  BY <1>10 DEF ReadChest, CreditWinner, NextPrize, FindEntries, SaveWithdrawal, Await
<1>11. CASE RejectCupCall(r)
  BY <1>11 DEF RejectCupCall, NextPrize, Await
<1> QED
  BY <1>1, <1>2, <1>3, <1>4, <1>5, <1>6, <1>7, <1>8, <1>9, <1>10, <1>11 DEF CupCall

\* A second request that begins is counted.
LEMMA SoloMoves ==
    ASSUME NEW a \in [Organizers -> Steps], NEW b, NEW r \in Organizers, NEW k,
           b = [a EXCEPT ![r] = k], Solo(a, 0), ~(Running(a) > 0 /\ Running(b) > Running(a))
    PROVE  Solo(b, 0)
<1> SUFFICES ASSUME NEW x \in Organizers, NEW y \in Organizers,
                    b[x] # "idle", b[y] # "idle", x # y
             PROVE  FALSE
  BY DEF Solo
<1>1. \A q \in Organizers : q # r => b[q] = a[q]
  OBVIOUS
<1>2. PICK q \in Organizers : q # r /\ b[q] # "idle" /\ a[q] # "idle" /\ b[r] # "idle"
  BY <1>1 DEF Solo
<1>3. a[r] = "idle"
  BY <1>2 DEF Solo
<1> DEFINE A == {z \in Organizers : a[z] # "idle"}
           B == {z \in Organizers : b[z] # "idle"}
<1>4. /\ A \in SUBSET Organizers /\ B \in SUBSET Organizers
      /\ \A z \in Organizers : z # r => (z \in A <=> z \in B)
      /\ r \notin A /\ r \in B /\ {q} \in SUBSET A
  BY <1>1, <1>2, <1>3
<1>5. Cardinality({q}) = 1
  BY FS_Singleton
<1>6. Running(a) = Cardinality(A) /\ Running(b) = Cardinality(B)
  BY DEF Running
<1> HIDE DEF A, B
<1>7. Cardinality(A) \in Nat /\ Cardinality(B) = Cardinality(A) - 0 + 1
  <2>1. /\ Cardinality(A) \in Nat
        /\ Cardinality(B) = Cardinality(A) - (IF r \in A THEN 1 ELSE 0)
                                           + (IF r \in B THEN 1 ELSE 0)
    <3>1. /\ A \in SUBSET Organizers /\ B \in SUBSET Organizers
          /\ \A z \in Organizers : z # r => (z \in A <=> z \in B)
      BY <1>4
    <3>2. IsFiniteSet(Organizers)
      BY TournamentAssumption
    <3> QED
      BY <3>1, <3>2, CountChanges
  <2> QED
    BY <1>4, <2>1
<1>8. 1 <= Cardinality(A)
  BY <1>4, <1>5, CountFewer, TournamentAssumption
<1> QED
  BY <1>6, <1>7, <1>8

LEMMA CupInitInv == TournamentInit => CupInv
<1> SUFFICES ASSUME TournamentInit
             PROVE  CupInv
  OBVIOUS
<1>1. /\ \A q \in Organizers : at[q] = "idle" /\ held[q] = NotHeld
      /\ at \in [Organizers -> Steps] /\ DOMAIN held = Organizers
      /\ cupFaults = 0 /\ overlaps = 0 /\ chest = NewEscrow
      /\ \A p \in Entrants_ : entry[p] = [status |-> "none", place |-> 0]
      /\ DOMAIN entry = Entrants_
  BY DEF TournamentInit, Steps, NoEntries
<1> DEFINE w == After("deposit", NewWallet, Fee)
<1>2. w \in WalletRow /\ Value(w) = Fee /\ Fee \in Nat
  <2>1. "deposit" \in WalletOps /\ Allowed("deposit", NewWallet, Fee)
    BY DEF WalletOps, LoggedOps, Allowed
  <2>2. NewWallet \in WalletRow /\ Fee \in Nat
    BY NewWalletType, FeeTimes
  <2>3. w \in WalletRow /\ Value(w) = Value(NewWallet) + Fee
    BY <2>1, <2>2, AfterType, AfterTotals
  <2>4. Value(NewWallet) = 0
    BY DEF Value, NewWallet
  <2> QED
    BY <2>2, <2>3, <2>4
<1> HIDE DEF w
<1>3. purse = [p \in Entrants_ |-> w] /\ purse \in [Entrants_ -> WalletRow]
      /\ \A p \in Entrants_ : purse[p] = w
  BY <1>2 DEF TournamentInit, w
<1>4. EntriesAre(entry) /\ Registered(entry) = {}
  BY <1>1 DEF EntriesAre, Registered
<1>5. /\ chest \in EscrowRow /\ chest.status = "created" /\ chest.balance = 0 /\ chest.fee = 0
      /\ chest.deposited = 0
  BY <1>1, NewEscrowType DEF NewEscrow
<1>6. CupTypes
  BY <1>1, <1>3, <1>4, <1>5, NotHeldIs DEF CupTypes
<1>7. Links(at, held, chest.status, Registered(entry)) /\ ChestIs(chest)
  BY <1>1, <1>5 DEF Links, LinkOf, Registering, Returning, ChestIs
<1>8. /\ OneEach(Entering, at, held) /\ OneEach(Charging, at, held)
      /\ FeesLocked(purse, at, held) /\ NotYet(Registered(entry), at, held)
  BY <1>1 DEF OneEach, Entering, Charging, FeesLocked, NotYet
<1>9. OneFee(chest.status, Registered(entry), purse, at, held)
  <2>1. \A q \in Organizers : StageOf(at[q], purse[Who(held[q])])
    BY <1>1 DEF StageOf, Charging
  <2>2. \A p \in Entrants_ : Value(purse[p]) \in {0, Fee}
    BY <1>2, <1>3
  <2> QED
    BY <1>4, <1>8, <2>1, <2>2 DEF OneFee
<1>10. /\ Awaiting({"deduct"}, at) = {} /\ Awaiting({"deduct", "saveEntry"}, at) = {}
       /\ Cardinality({}) = 0
  BY <1>1, FS_EmptySet DEF Awaiting
<1>11. Bounded(chest, purse, at, held, cupFaults)
  <2>1. Total(Values(purse)) = Fee * Cardinality(Entrants_)
    <3>1. Values(purse) = [p \in Entrants_ |-> Fee]
      BY <1>2, <1>3 DEF Values
    <3> QED
      BY <1>2, <3>1, TotalConstant, TournamentAssumption
  <2>2. Total(ClaimsOf(at, held)) = 0
    <3>1. /\ ClaimsOf(at, held) \in [Organizers -> Nat]
          /\ \A q \in Organizers : ClaimsOf(at, held)[q] = 0
      BY <1>1 DEF ClaimsOf, Claim
    <3> QED
      BY <3>1, TotalZero
  <2> DEFINE N == Cardinality(Entrants_)
             v == Fee * N
  <2>3. N \in Nat
    BY FS_CardinalityType, TournamentAssumption
  <2> SUFFICES Fee * N + 0 + 0 + 0 <= Fee * (N + 0 + 0)
    BY <1>1, <1>5, <1>10, <2>1, <2>2 DEF Bounded
  <2> HIDE DEF N
  <2>4. v \in Nat
    BY <2>3, FeeTimes
  <2>5. N + 0 + 0 = N
    BY <2>3
  <2> HIDE DEF v
  <2>6. v + 0 + 0 + 0 <= v
    BY <2>4
  <2> QED
    BY <2>5, <2>6 DEF v
<1>12. FeesCame(chest, Registered(entry), at)
  <2>1. Fee * (0 + 0) = 0
    BY FeeTimes
  <2> QED
    BY <1>4, <1>5, <1>10, <2>1 DEF FeesCame
<1>13. Solo(at, overlaps) /\ overlaps \in Nat
  BY <1>1 DEF Solo
<1>14. SeenKnown
  BY <1>1 DEF SeenKnown, NotHeld, Registered, NoEntries
<1> QED
  BY <1>6, <1>7, <1>8, <1>9, <1>11, <1>12, <1>13, <1>14 DEF CupInv, CupMoney

LEMMA CupNextInv ==
    ASSUME CupInv, [TournamentNext]_cupVars
    PROVE  CupInv'
<1>1. CASE UNCHANGED cupVars
  BY <1>1 DEF cupVars, CupInv, CupMoney, CupTypes, EntriesAre, Links, LinkOf, ChestIs, OneEach,
             OneFee, StageOf, FeesLocked, HeldFor, NotYet, Bounded, Values, ClaimsOf, FeesCame,
             Awaiting, Registered, Solo, HeldIs, SeenKnown
<1>2. CASE TournamentNext
  <2>1. /\ TournamentStep
        /\ overlaps' = overlaps + 1 \/ overlaps' = overlaps
        /\ overlaps' = overlaps => ~(Running(at) > 0 /\ Running(at') > Running(at))
        /\ overlaps' > 0 => cupFaults' = 0
        /\ overlaps \in Nat /\ CupMoney /\ SeenKnown /\ Solo(at, overlaps)
    BY <1>2 DEF TournamentNext, CupInv
  <2>2. overlaps' \in Nat /\ (overlaps' = 0 => overlaps = 0)
    BY <2>1
  <2>3. CASE CrashCup
    <3>1. /\ at' = [r \in Organizers |-> "idle"] /\ held' = [r \in Organizers |-> NotHeld]
          /\ purse' = purse /\ chest' = chest /\ entry' = entry /\ cupFaults' = cupFaults + 1
      BY <2>3 DEF CrashCup, cupTables
    <3>2. cupFaults' # 0
      BY <2>1, <3>1, CupFacts
    <3>3. overlaps = 0
      BY <2>1, <2>2, <3>2
    <3>4. CupMoney'
      BY <2>1, <3>1, <3>3, CrashStep
    <3>5. Solo(at', overlaps')
      BY <3>1 DEF Solo
    <3>6. SeenKnown'
      BY <3>1 DEF SeenKnown, NotHeld, Registered, NoEntries
    <3> QED
      BY <2>2, <3>4, <3>5, <3>6 DEF CupInv
  <2>4. ASSUME NEW r \in Organizers, CupCall(r)
        PROVE  CupInv'
    <3>1. CupMoney'
      BY <2>1, <2>4, CupCallMoney
    <3>2. Solo(at', overlaps')
      <4> SUFFICES ASSUME overlaps' = 0
                   PROVE  Solo(at', 0)
        BY DEF Solo
      <4>1. /\ Solo(at, 0) /\ ~(Running(at) > 0 /\ Running(at') > Running(at))
            /\ at \in [Organizers -> Steps]
        BY <2>1, <2>2 DEF CupMoney, CupTypes
      <4>2. PICK k : at' = [at EXCEPT ![r] = k]
        BY <2>4, CupCallAwaits
      <4> QED
        BY <4>1, <4>2, SoloMoves
    <3>3. SeenKnown'
      BY <2>1, <2>4, SeenMoves
    <3> QED
      BY <2>2, <3>1, <3>2, <3>3 DEF CupInv
  <2> QED
    BY <2>1, <2>3, <2>4, CupCalls
<1> QED
  BY <1>1, <1>2

LEMMA CupInvMeans == CupInv => EntriesBacked
<1> SUFFICES ASSUME CupInv
             PROVE  EntriesBacked
  OBVIOUS
<1>1. CupMoney /\ cupFaults \in Nat /\ purse \in [Entrants_ -> WalletRow]
      /\ chest.balance \in Nat /\ chest.fee \in Nat /\ chest.deposited \in Nat
      /\ Registered(entry) \in SUBSET Entrants_
      /\ \A q \in Organizers : HeldIs(held[q])
  BY CupFacts DEF CupInv
<1>2. PurseTotal = Total(Values(purse))
  BY DEF PurseTotal, Values, Value
<1>3. Awaiting({"deduct"}, at) = {r \in Organizers : at[r] = "deduct"}
  BY DEF Awaiting
<1>4. PurseTotal + chest.balance + chest.fee
        <= Fee * (Cardinality(Entrants_)
                  + Cardinality({r \in Organizers : at[r] = "deduct"}) + cupFaults)
  <2> DEFINE d == Cardinality(Awaiting({"deduct"}, at))
             v == Total(Values(purse))
             t == Total(ClaimsOf(at, held))
             x == Fee * (Cardinality(Entrants_) + d + cupFaults)
  <2>1. v + chest.balance + chest.fee + t <= x
    BY <1>1 DEF CupMoney, Bounded
  <2>2. v \in Nat
    BY <1>1, ValuesType
  <2>3. t \in Nat
    <3>1. ClaimsOf(at, held) \in [Organizers -> Nat]
      BY <1>1, ClaimType DEF ClaimsOf
    <3> QED
      BY <3>1, FiniteSummable, TotalType, TournamentAssumption
  <2>4. x \in Nat
    <3>1. d \in Nat
      <4>1. Awaiting({"deduct"}, at) \in SUBSET Organizers
        BY DEF Awaiting
      <4> QED
        BY <4>1, CountFewer, TournamentAssumption
    <3>2. Cardinality(Entrants_) \in Nat
      BY FS_CardinalityType, TournamentAssumption
    <3> HIDE DEF d
    <3>3. Cardinality(Entrants_) + d + cupFaults \in Nat
      BY <1>1, <3>1, <3>2
    <3> QED
      BY <3>3, FeeTimes
  <2> HIDE DEF v, t, x
  <2>5. v + chest.balance + chest.fee <= x
    BY <1>1, <2>1, <2>2, <2>3, <2>4
  <2> QED
    BY <1>2, <1>3, <2>5 DEF v, x, d
<1>5. Fee * Cardinality(Confirmed) <= chest.deposited
  <2> DEFINE m == Cardinality(Registered(entry))
             c == Cardinality(Confirmed)
             d == Cardinality(Awaiting({"deduct", "saveEntry"}, at))
  <2>1. m \in Nat /\ c \in Nat /\ c <= m
    <3>1. Confirmed \in SUBSET Registered(entry)
      BY DEF Confirmed, Registered
    <3> QED
      BY <1>1, <3>1, CountFewer, TournamentAssumption
  <2>2. d \in Nat
    <3>1. Awaiting({"deduct", "saveEntry"}, at) \in SUBSET Organizers
      BY DEF Awaiting
    <3> QED
      BY <3>1, CountFewer, TournamentAssumption
  <2>3. Fee * (m + d) <= chest.deposited
    BY <1>1 DEF CupMoney, FeesCame
  <2> HIDE DEF m, c, d
  <2>4. m + d \in Nat /\ c <= m + d
    BY <2>1, <2>2
  <2>5. Fee * c <= Fee * (m + d) /\ Fee * c \in Nat /\ Fee * (m + d) \in Nat
    BY <2>1, <2>4, FeeTimes
  <2> DEFINE x == Fee * c
             y == Fee * (m + d)
  <2>6. x <= y /\ y <= chest.deposited /\ x \in Nat /\ y \in Nat
    BY <2>3, <2>5
  <2> HIDE DEF x, y
  <2>7. x <= chest.deposited
    BY <1>1, <2>6
  <2> QED
    BY <2>7 DEF x, c
<1> QED
  BY <1>4, <1>5 DEF EntriesBacked

\* Wallets, escrow, fees and the prizes still to be credited never hold more than
\* the players brought, but for the fees between deposit and deduction or broken
\* off there, and every registered player was paid for: registerPlayer against
\* itself and against cancelTournament and advanceRound, for any number of
\* players and requests.
THEOREM TournamentBacked == TournamentSpec => []EntriesBacked
<1>1. TournamentInit => CupInv
  BY CupInitInv
<1>2. CupInv /\ [TournamentNext]_cupVars => CupInv'
  BY CupNextInv
<1>3. CupInv => EntriesBacked
  BY CupInvMeans
<1> QED
  BY <1>1, <1>2, <1>3, PTL DEF TournamentSpec

-----------------------------------------------------------------------------
(* A completed tournament has paid                                          *)

IsCupRow(row) ==
    row = [f \in {"status", "bracket"} |-> row[f]] /\ row.status \in TournamentStatus

Paying == {"place", "readChest", "release"}

\* A row that says "completed" is in the table, or about to be saved, only when
\* the escrow has been released; before that its request is still on the way.
RowPaid(k, row, status) ==
    /\ IsCupRow(row)
    /\ row.status = "completed" => k \in Paying \/ status = "released"

PaidInv ==
    /\ RowPaid("idle", cup, chest.status)
    /\ \A r \in Organizers : RowPaid(at[r], held[r].row, chest.status)

NextPaid == CupTypes /\ PaidInv

\* Nothing leaves RELEASED.
KeepsReleased == chest.status = "released" => chest'.status = "released"

LEMMA EmptyRowPaid == \A k, s : RowPaid(k, NotHeld.row, s)
BY DEF RowPaid, NotHeld, NoCup, IsCupRow, TournamentStatus

LEMMA AwaitPaid ==
    ASSUME NextPaid, NEW r \in Organizers, NEW k, NEW j, Await(r, k, j), KeepsReleased,
           k = "idle" \/ RowPaid(k, j.row, chest'.status),
           RowPaid("idle", cup', chest'.status)
    PROVE  PaidInv'
<1>1. /\ at'[r] = k /\ held'[r] = IF k = "idle" THEN NotHeld ELSE j
      /\ \A q \in Organizers : q # r => at'[q] = at[q] /\ held'[q] = held[q]
  BY DEF Await, NextPaid, CupTypes
<1>2. RowPaid(at'[r], held'[r].row, chest'.status)
  BY <1>1, EmptyRowPaid
<1>3. ASSUME NEW q \in Organizers, q # r
      PROVE  RowPaid(at'[q], held'[q].row, chest'.status)
  BY <1>1, <1>3 DEF NextPaid, PaidInv, RowPaid, KeepsReleased
<1> QED
  BY <1>2, <1>3 DEF PaidInv

\* The request keeps the row it holds, and does not go back to the release.
LEMMA CarryPaid ==
    ASSUME NextPaid, NEW r \in Organizers, NEW k, NEW j, Await(r, k, j), KeepsReleased,
           j.row = held[r].row, at[r] \notin Paying \/ k \in Paying \cup {"idle"},
           RowPaid("idle", cup', chest'.status)
    PROVE  PaidInv'
<1>1. k = "idle" \/ RowPaid(k, j.row, chest'.status)
  BY DEF NextPaid, PaidInv, RowPaid, KeepsReleased, Paying
<1> QED
  BY <1>1, AwaitPaid

LEMMA SameCupPaid ==
    ASSUME NextPaid, KeepsReleased, cup' = cup
    PROVE  RowPaid("idle", cup', chest'.status)
BY DEF NextPaid, PaidInv, RowPaid, KeepsReleased, Paying

\* Calls that read the bracket of the row they hold.
BracketReaders == {"createMatches", "place"}

\* The request goes on with the row it holds, and starts no reader of the bracket.
Carries(r) ==
    \E k, j : Await(r, k, j) /\ j.row = held[r].row /\ (k \in BracketReaders => k = at[r])

LEMMA HeldRow ==
    ASSUME NextPaid, NEW r \in Organizers
    PROVE  /\ \A v : [held[r] EXCEPT !.players = v].row = held[r].row
           /\ \A v : [held[r] EXCEPT !.prizes = v].row = held[r].row
BY DEF NextPaid, CupTypes, HeldIs

LEMMA HeldCarries ==
    ASSUME NextPaid, NEW r \in Organizers, NEW k, k \in BracketReaders => k = at[r], NEW v,
           \/ Await(r, k, [held[r] EXCEPT !.players = v])
           \/ Await(r, k, [held[r] EXCEPT !.prizes = v])
    PROVE  Carries(r)
<1> DEFINE i == [held[r] EXCEPT !.players = v]
           j == [held[r] EXCEPT !.prizes = v]
<1>1. i.row = held[r].row /\ j.row = held[r].row
  BY HeldRow
<1>2. Await(r, k, i) \/ Await(r, k, j)
  OBVIOUS
<1> HIDE DEF i, j
<1> QED
  BY <1>1, <1>2 DEF Carries

LEMMA NextPrizeCarries ==
    ASSUME NextPaid, NEW r \in Organizers, NextPrize(r)
    PROVE  Carries(r)
<1> DEFINE v == Tail(held[r].prizes)
           k == IF v = <<>> THEN "saveRow" ELSE "credit"
<1>1. Await(r, k, [held[r] EXCEPT !.prizes = v])
  BY DEF NextPrize
<1>2. k \notin BracketReaders
  BY DEF BracketReaders
<1> HIDE DEF v, k
<1> QED
  BY <1>1, <1>2, HeldCarries

\* Calls that leave the row alone.
PlainCall(r) ==
    \/ FindEntry(r) \/ LockFee(r) \/ DeductEntryFee(r) \/ SaveEntry(r)
    \/ RollbackEntry(r) \/ CreditWinner(r) \/ FindEntries(r) \/ UnlockFee(r)
    \/ SaveWithdrawal(r)

LEMMA PlainCarries ==
    ASSUME NextPaid, NEW r \in Organizers, PlainCall(r)
    PROVE  cup' = cup /\ chest' = chest /\ at[r] \notin Paying /\ Carries(r)
<1>1. cup' = cup /\ chest' = chest /\ at[r] \notin Paying
  BY DEF PlainCall, FindEntry, LockFee, DeductEntryFee, SaveEntry, RollbackEntry, CreditWinner,
         FindEntries, UnlockFee, SaveWithdrawal, PurseCall, cupTables, Paying
<1>2. Carries(r)
  <2>1. CASE FindEntry(r)
    BY <2>1 DEF FindEntry, Carries, BracketReaders
  <2>2. CASE LockFee(r) \/ DeductEntryFee(r) \/ RollbackEntry(r) \/ UnlockFee(r)
    BY <2>2 DEF LockFee, DeductEntryFee, RollbackEntry, UnlockFee, PurseCall, Carries,
                BracketReaders
  <2>3. CASE SaveEntry(r)
    BY <2>3 DEF SaveEntry, Carries, BracketReaders
  <2>4. CASE CreditWinner(r)
    <3>1. NextPrize(r)
      BY <2>4 DEF CreditWinner
    <3> QED
      BY <3>1, NextPrizeCarries
  <2>5. CASE FindEntries(r)
    <3>1. Await(r, NextReturn(Confirmed), [held[r] EXCEPT !.players = Confirmed])
      BY <2>5 DEF FindEntries
    <3>2. NextReturn(Confirmed) \notin BracketReaders
      BY DEF NextReturn, BracketReaders
    <3> QED
      BY <3>1, <3>2, HeldCarries
  <2>6. CASE SaveWithdrawal(r)
    <3>1. PICK p \in held[r].players :
                Await(r, NextReturn(held[r].players \ {p}),
                      [held[r] EXCEPT !.players = held[r].players \ {p}])
      BY <2>6 DEF SaveWithdrawal
    <3>2. NextReturn(held[r].players \ {p}) \notin BracketReaders
      BY DEF NextReturn, BracketReaders
    <3> QED
      BY <3>1, <3>2, HeldCarries
  <2> QED
    BY <2>1, <2>2, <2>3, <2>4, <2>5, <2>6 DEF PlainCall
<1> QED
  BY <1>1, <1>2

\* A request that begins takes the row of the table, or one with another status.
LEMMA BeginPaid ==
    ASSUME NextPaid, NEW r \in Organizers,
           \/ OpenRegistration(r) \/ CloseRegistration(r) \/ RegisterPlayer(r)
           \/ GenerateBracket(r) \/ StartTournament(r) \/ CancelTournament(r)
    PROVE  PaidInv'
<1>1. IsCupRow(cup) /\ RowPaid("idle", cup, chest.status)
  BY DEF NextPaid, PaidInv, RowPaid
<1>2. CASE OpenRegistration(r)
  <2> DEFINE row == [cup EXCEPT !.status = "registration_open"]
             j == [NotHeld EXCEPT !.row = row, !.seen = entry]
  <2>1. j.row = row /\ RowPaid("saveRow", row, chest.status)
    BY <1>1 DEF NotHeld, RowPaid, IsCupRow, TournamentStatus
  <2>2. Await(r, "saveRow", j) /\ chest' = chest /\ cup' = cup
    BY <1>2 DEF OpenRegistration, cupTables
  <2> QED
    BY <2>1, <2>2, AwaitPaid, SameCupPaid DEF KeepsReleased
<1>3. CASE CloseRegistration(r)
  <2> DEFINE row == [cup EXCEPT !.status = "registration_closed"]
             j == [NotHeld EXCEPT !.row = row, !.seen = entry]
  <2>1. j.row = row /\ RowPaid("saveRow", row, chest.status)
    BY <1>1 DEF NotHeld, RowPaid, IsCupRow, TournamentStatus
  <2>2. Await(r, "saveRow", j) /\ chest' = chest /\ cup' = cup
    BY <1>3 DEF CloseRegistration, cupTables
  <2> QED
    BY <2>1, <2>2, AwaitPaid, SameCupPaid DEF KeepsReleased
<1>4. ASSUME NEW k, NEW players, LoadCup(r, k, players)
      PROVE  PaidInv'
  <2> DEFINE j == [NotHeld EXCEPT !.row = cup, !.seen = entry, !.players = players]
  <2>1. j.row = cup /\ RowPaid(k, cup, chest.status)
    BY <1>1 DEF NotHeld, RowPaid, Paying
  <2>2. Await(r, k, j) /\ chest' = chest /\ cup' = cup
    BY <1>4 DEF LoadCup, cupTables
  <2> QED
    BY <2>1, <2>2, AwaitPaid, SameCupPaid DEF KeepsReleased
<1> QED
  BY <1>2, <1>3, <1>4 DEF RegisterPlayer, GenerateBracket, StartTournament, CancelTournament

\* The row a request saves is one it holds, or that row cancelled.
LEMMA SaveRowPaid ==
    ASSUME NextPaid, NEW r \in Organizers,
           SaveRow(r) \/ SavePool(r) \/ SaveBracket(r) \/ SaveCancellation(r)
    PROVE  PaidInv'
<1>1. PICK k \in {"idle", "lockChest", "rollback"} : Await(r, k, held[r])
  BY DEF SaveRow, SavePool, SaveBracket, SaveCancellation, SaveCup
<1>2. chest' = chest /\ at[r] \notin Paying
  BY DEF SaveRow, SavePool, SaveBracket, SaveCancellation, SaveCup, Paying
<1>3. cup' \in {cup, held[r].row, [held[r].row EXCEPT !.status = "cancelled"]}
  BY DEF SaveRow, SavePool, SaveBracket, SaveCancellation, SaveCup
<1>4. RowPaid(at[r], held[r].row, chest.status) /\ RowPaid("idle", cup, chest.status)
  BY DEF NextPaid, PaidInv
<1>5. RowPaid("idle", cup', chest'.status)
  BY <1>2, <1>3, <1>4 DEF RowPaid, IsCupRow, TournamentStatus
<1> QED
  BY <1>1, <1>2, <1>5, CarryPaid DEF KeepsReleased

LEMMA PlainPaid ==
    ASSUME NextPaid, NEW r \in Organizers, PlainCall(r)
    PROVE  PaidInv'
<1>1. PICK k, j : Await(r, k, j) /\ j.row = held[r].row
  BY PlainCarries DEF Carries
<1> QED
  BY <1>1, PlainCarries, CarryPaid, SameCupPaid DEF KeepsReleased

\* The escrow admits no deposit, lock or refund once it is released.
LEMMA ChestPaid ==
    ASSUME NextPaid, NEW r \in Organizers,
           DepositEntryFee(r) \/ LockChest(r) \/ RefundChest(r)
    PROVE  PaidInv'
<1>1. cup' = cup /\ KeepsReleased /\ at[r] \notin Paying
  BY DEF DepositEntryFee, LockChest, RefundChest, ChestCall, canDeposit, canRefund,
         KeepsReleased, Paying
<1>2. PICK k : Await(r, k, held[r])
  BY DEF DepositEntryFee, LockChest, RefundChest, ChestCall
<1> QED
  BY <1>1, <1>2, CarryPaid, SameCupPaid

LEMMA SeedPaid ==
    ASSUME NextPaid, NEW r \in Organizers, SeedPlayers(r)
    PROVE  PaidInv'
<1>1. cup' = cup /\ chest' = chest
  <2>1. UNCHANGED <<cupTables, cupFaults, strays>>
    BY DEF SeedPlayers
  <2> QED
    BY <2>1 DEF cupTables
<1>2. IsCupRow(held[r].row) /\ HeldIs(held[r])
  BY DEF NextPaid, PaidInv, RowPaid, CupTypes
<1>3. CASE Cardinality(Confirmed) >= MinEntries
  <2>1. PICK seeds \in SetToSeqs(Confirmed) :
          Await(r, "saveBracket",
                [held[r] EXCEPT !.row.bracket = generateBracketStructure(seeds),
                                !.row.status = "bracket_generated"])
    BY <1>3 DEF SeedPlayers
  <2> DEFINE b == generateBracketStructure(seeds)
             j == [held[r] EXCEPT !.row.bracket = b, !.row.status = "bracket_generated"]
  <2>2. RowPaid("saveBracket", j.row, chest.status)
    <3> HIDE DEF b
    <3> QED
      BY <1>2 DEF HeldIs, IsCupRow, RowPaid, TournamentStatus
  <2>3. Await(r, "saveBracket", j)
    BY <2>1
  <2> HIDE DEF j
  <2> QED
    BY <1>1, <2>2, <2>3, AwaitPaid, SameCupPaid DEF KeepsReleased
<1>4. CASE ~(Cardinality(Confirmed) >= MinEntries)
  <2>1. Await(r, "idle", NotHeld)
    BY <1>4 DEF SeedPlayers
  <2> QED
    BY <1>1, <2>1, AwaitPaid, SameCupPaid DEF KeepsReleased
<1> QED
  BY <1>3, <1>4

LEMMA CreateMatchesPaid ==
    ASSUME NextPaid, NEW r \in Organizers, CreateMatches(r)
    PROVE  PaidInv'
<1> DEFINE j == [held[r] EXCEPT !.row.status = "in_progress"]
<1>1. cup' = cup /\ chest' = chest
  BY DEF CreateMatches, cupTables
<1>2. Await(r, "idle", NotHeld) \/ Await(r, "saveRow", j)
  BY DEF CreateMatches
<1>3. IsCupRow(held[r].row) /\ HeldIs(held[r])
  BY DEF NextPaid, PaidInv, RowPaid, CupTypes
<1>4. RowPaid("saveRow", j.row, chest.status)
  BY <1>3 DEF HeldIs, IsCupRow, RowPaid, TournamentStatus
<1> HIDE DEF j
<1> QED
  BY <1>1, <1>2, <1>4, AwaitPaid, SameCupPaid DEF KeepsReleased

\* A reported final completes the row, and its request goes to the placements.
LEMMA AdvancePaid ==
    ASSUME NextPaid, NEW r \in Organizers, AdvanceRound(r)
    PROVE  PaidInv'
<1>1. cup' = cup /\ chest' = chest /\ IsCupRow(cup) /\ cup.status = "in_progress"
  BY DEF AdvanceRound, cupTables, NextPaid, PaidInv, RowPaid
<1>2. PICK results, ps :
        Await(r, IF Reported(cup, results).status = "completed" THEN NextPlace(ps) ELSE "saveRow",
              [NotHeld EXCEPT !.row = Reported(cup, results), !.seen = entry, !.players = ps])
  BY DEF AdvanceRound
<1> DEFINE row == Reported(cup, results)
           k == IF row.status = "completed" THEN NextPlace(ps) ELSE "saveRow"
           j == [NotHeld EXCEPT !.row = row, !.seen = entry, !.players = ps]
<1>3. IsCupRow(row)
  BY <1>1 DEF Reported, IsCupRow, TournamentStatus
<1>4. Await(r, k, j)
  BY <1>2
<1>5. j.row = row
  BY DEF NotHeld
<1> HIDE DEF row, j
<1>6. RowPaid(k, j.row, chest'.status)
  BY <1>3, <1>5 DEF RowPaid, Paying, NextPlace
<1> HIDE DEF k
<1> QED
  BY <1>1, <1>4, <1>6, AwaitPaid, SameCupPaid DEF KeepsReleased

LEMMA PlacePlayerPaid ==
    ASSUME NextPaid, NEW r \in Organizers, PlacePlayer(r)
    PROVE  PaidInv'
<1>1. cup' = cup /\ chest' = chest
  BY DEF PlacePlayer
<1>2. PICK v : Await(r, NextPlace(v), [held[r] EXCEPT !.players = v])
  BY DEF PlacePlayer
<1> DEFINE k == NextPlace(v)
           j == [held[r] EXCEPT !.players = v]
<1>3. k \in Paying /\ j.row = held[r].row /\ Await(r, k, j)
  BY <1>2, HeldRow DEF Paying, NextPlace
<1> HIDE DEF k, j
<1> QED
  BY <1>1, <1>3, CarryPaid, SameCupPaid DEF KeepsReleased

LEMMA ReadChestPaid ==
    ASSUME NextPaid, NEW r \in Organizers, ReadChest(r)
    PROVE  PaidInv'
<1>1. cup' = cup /\ chest' = chest
  BY DEF ReadChest, cupTables
<1>2. PICK v : Await(r, "release", [held[r] EXCEPT !.prizes = v])
  BY DEF ReadChest
<1> DEFINE j == [held[r] EXCEPT !.prizes = v]
<1>3. j.row = held[r].row /\ Await(r, "release", j)
  BY <1>2, HeldRow
<1> HIDE DEF j
<1> QED
  BY <1>1, <1>3, CarryPaid, SameCupPaid DEF KeepsReleased, Paying

\* Refused, the release ends the request and the row is not saved.
LEMMA ReleasePaid ==
    ASSUME NextPaid, NEW r \in Organizers, ReleaseChest(r)
    PROVE  PaidInv'
<1>1. cup' = cup
  BY DEF ReleaseChest, ChestCall
<1>2. \/ chest' = chest /\ Await(r, "idle", held[r])
      \/ /\ \E k : Await(r, k, held[r])
         /\ \E t, f : chest' = AfterRelease(chest, t, f)
  BY DEF ReleaseChest, ChestCall
<1>3. CASE chest' = chest /\ Await(r, "idle", held[r])
  BY <1>1, <1>3, AwaitPaid, SameCupPaid DEF KeepsReleased
<1>4. ASSUME NEW k, Await(r, k, held[r]), \E t, f : chest' = AfterRelease(chest, t, f)
      PROVE  PaidInv'
  <2>1. chest'.status = "released"
    BY <1>4 DEF AfterRelease, NextPaid, CupTypes, EscrowRow
  <2>2. RowPaid(k, held[r].row, chest'.status)
    BY <2>1 DEF NextPaid, PaidInv, RowPaid
  <2> QED
    BY <1>1, <1>4, <2>1, <2>2, AwaitPaid, SameCupPaid DEF KeepsReleased
<1> QED
  BY <1>2, <1>3, <1>4

LEMMA RejectPaid ==
    ASSUME NextPaid, NEW r \in Organizers, RejectCupCall(r)
    PROVE  PaidInv'
<1>1. cup' = cup /\ chest' = chest
  BY DEF RejectCupCall, cupTables
<1>2. CASE Await(r, "idle", NotHeld)
  BY <1>1, <1>2, AwaitPaid, SameCupPaid DEF KeepsReleased
<1>3. CASE at[r] \in {"deposit", "deduct", "saveEntry", "savePool"}
           /\ Await(r, "rollback", held[r])
  BY <1>1, <1>3, CarryPaid, SameCupPaid DEF KeepsReleased, Paying
<1>4. CASE at[r] = "credit" /\ NextPrize(r)
  <2>1. PICK k, j : Await(r, k, j) /\ j.row = held[r].row
    BY <1>4, NextPrizeCarries DEF Carries
  <2> QED
    BY <1>1, <1>4, <2>1, CarryPaid, SameCupPaid DEF KeepsReleased, Paying
<1> QED
  BY <1>2, <1>3, <1>4 DEF RejectCupCall

LEMMA CrashPaid ==
    ASSUME NextPaid, CrashCup
    PROVE  PaidInv'
<1>1. /\ cup' = cup /\ chest' = chest
      /\ \A r \in Organizers : held'[r] = NotHeld
  BY DEF CrashCup, cupTables
<1>2. RowPaid("idle", cup', chest'.status)
  BY <1>1 DEF NextPaid, PaidInv
<1> QED
  BY <1>1, <1>2, EmptyRowPaid DEF PaidInv

LEMMA PaidNext ==
    ASSUME CupInv, PaidInv, [TournamentNext]_cupVars
    PROVE  PaidInv'
<1>1. NextPaid
  BY DEF NextPaid, CupInv, CupMoney
<1>2. CASE UNCHANGED cupVars
  BY <1>2 DEF cupVars, PaidInv, RowPaid, IsCupRow
<1>3. CASE CrashCup
  BY <1>1, <1>3, CrashPaid
<1>4. ASSUME NEW r \in Organizers, CupCall(r)
      PROVE  PaidInv'
  BY <1>1, <1>4, BeginPaid, SaveRowPaid, PlainPaid, ChestPaid, SeedPaid, CreateMatchesPaid,
     AdvancePaid, PlacePlayerPaid, ReadChestPaid, ReleasePaid, RejectPaid DEF CupCall, PlainCall
<1> QED
  BY <1>2, <1>3, <1>4, CupCalls DEF TournamentNext

LEMMA PaidInit == TournamentInit => PaidInv
<1> SUFFICES ASSUME TournamentInit
             PROVE  PaidInv
  OBVIOUS
<1>1. \A r \in Organizers : held[r].row = NotHeld.row
  BY DEF TournamentInit
<1>2. cup = NotHeld.row
  BY DEF TournamentInit, NotHeld
<1> QED
  BY <1>1, <1>2, EmptyRowPaid DEF PaidInv

\* "COMPLETED: tournament finished, prizes distributed: RELEASED": whatever
\* overlaps and fails in advanceRound, registerPlayer and cancelTournament, the row
\* says completed only when the escrow has paid.
THEOREM CompletedHasPaid == TournamentSpec => []CompletedPaid
<1>1. TournamentInit => CupInv /\ PaidInv
  BY CupInitInv, PaidInit
<1>2. CupInv /\ PaidInv /\ [TournamentNext]_cupVars => (CupInv /\ PaidInv)'
  BY CupNextInv, PaidNext
<1>3. CupInv /\ PaidInv => CompletedPaid
  BY DEF PaidInv, RowPaid, CompletedPaid, Paying
<1> QED
  BY <1>1, <1>2, <1>3, PTL DEF TournamentSpec
-----------------------------------------------------------------------------
(* The bracket of the row                                                   *)

\* s results have strayed, reg are the registered players.
HasBracket(s, reg, row) ==
    \E n : Started(reg, row.bracket, n) /\ (s = 0 => Sound(row.bracket, n))

Bracketed == {"bracket_generated", "in_progress", "completed"}

\* A bracket of the row, in the table or held, is a bracket of the registered
\* players, and a sound one if no result strayed; from its generation on the row
\* has one, and a completed row has one whose final is decided.  k is the call the
\* holder awaits.
RowSound(s, reg, k, row) ==
    /\ row.bracket = <<>> \/ HasBracket(s, reg, row)
    /\ row.status \in Bracketed \/ k \in BracketReaders => HasBracket(s, reg, row)
    /\ row.status = "completed" => FinalMatch(row.bracket).winner # NoPlayer

SoundInv ==
    /\ strays \in 0 .. MaxStrays
    /\ RowSound(strays, Registered(entry), "idle", cup)
    /\ \A r \in Organizers : RowSound(strays, Registered(entry), at[r], held[r].row)

NextSound == NextPaid /\ SoundInv

\* Registrations stay, and so do stray results.
Goes ==
    /\ Registered(entry) \in SUBSET Registered(entry')
    /\ strays' \in 0 .. MaxStrays /\ (strays' = 0 => strays = 0)

RowSoundNext(k, row) == RowSound(strays', Registered(entry'), k, row)

LEMMA RowSoundGoes ==
    ASSUME Goes, NEW k, NEW row, RowSound(strays, Registered(entry), k, row)
    PROVE  RowSoundNext(k, row)
<1>1. HasBracket(strays, Registered(entry), row) => HasBracket(strays', Registered(entry'), row)
  BY StartedMore DEF HasBracket, Goes
<1> QED
  BY <1>1 DEF RowSound, RowSoundNext

LEMMA EmptyRowSound == \A s, reg : RowSound(s, reg, "idle", NotHeld.row)
BY DEF RowSound, NotHeld, NoCup, Bracketed, BracketReaders

LEMMA AwaitSound ==
    ASSUME NextSound, Goes, NEW r \in Organizers, NEW k, NEW j, Await(r, k, j),
           k = "idle" \/ RowSoundNext(k, j.row), RowSoundNext("idle", cup')
    PROVE  SoundInv'
<1>1. /\ at'[r] = k /\ held'[r] = IF k = "idle" THEN NotHeld ELSE j
      /\ \A q \in Organizers : q # r => at'[q] = at[q] /\ held'[q] = held[q]
  BY DEF Await, NextSound, NextPaid, CupTypes
<1>2. RowSoundNext(at'[r], held'[r].row)
  <2>1. CASE k = "idle"
    BY <1>1, <2>1, EmptyRowSound DEF RowSoundNext
  <2>2. CASE k # "idle"
    BY <1>1, <2>2
  <2> QED
    BY <2>1, <2>2
<1>3. ASSUME NEW q \in Organizers, q # r
      PROVE  RowSoundNext(at'[q], held'[q].row)
  <2>1. RowSound(strays, Registered(entry), at[q], held[q].row)
    BY DEF NextSound, SoundInv
  <2>2. RowSoundNext(at[q], held[q].row)
    BY <2>1, RowSoundGoes
  <2> QED
    BY <1>1, <1>3, <2>2
<1>4. \A q \in Organizers : RowSoundNext(at'[q], held'[q].row)
  BY <1>2, <1>3
<1> QED
  BY <1>4 DEF SoundInv, RowSoundNext, Goes

LEMMA AnyCallSound ==
    ASSUME NEW s, NEW reg, NEW k, NEW m, NEW row, RowSound(s, reg, k, row),
           m \in BracketReaders => m = k
    PROVE  RowSound(s, reg, m, row)
BY DEF RowSound

LEMMA CarrySound ==
    ASSUME NextSound, Goes, NEW r \in Organizers, Carries(r), cup' = cup
    PROVE  SoundInv'
<1>1. PICK k, j : Await(r, k, j) /\ j.row = held[r].row /\ (k \in BracketReaders => k = at[r])
  BY DEF Carries
<1>2. RowSoundNext(at[r], held[r].row) /\ RowSoundNext("idle", cup')
  BY RowSoundGoes DEF NextSound, SoundInv
<1>3. RowSoundNext(k, j.row)
  BY <1>1, <1>2, AnyCallSound DEF RowSoundNext
<1> QED
  BY <1>1, <1>2, <1>3, AwaitSound

LEMMA BeginSound ==
    ASSUME NextSound, Goes, NEW r \in Organizers,
           \/ OpenRegistration(r) \/ CloseRegistration(r) \/ RegisterPlayer(r)
           \/ GenerateBracket(r) \/ StartTournament(r) \/ CancelTournament(r)
    PROVE  SoundInv'
<1>1. IsCupRow(cup) /\ RowSoundNext("idle", cup)
  BY RowSoundGoes DEF NextSound, NextPaid, PaidInv, RowPaid, SoundInv
<1>2. ASSUME NEW s, s \notin Bracketed
      PROVE  RowSoundNext("saveRow", [cup EXCEPT !.status = s])
  BY <1>1, <1>2 DEF RowSoundNext, RowSound, HasBracket, IsCupRow, Bracketed, BracketReaders
<1>3. CASE OpenRegistration(r)
  <2> DEFINE row == [cup EXCEPT !.status = "registration_open"]
             j == [NotHeld EXCEPT !.row = row, !.seen = entry]
  <2>1. RowSoundNext("saveRow", row)
    BY <1>2 DEF Bracketed
  <2>2. j.row = row
    BY DEF NotHeld
  <2>3. Await(r, "saveRow", j) /\ cup' = cup
    BY <1>3 DEF OpenRegistration, cupTables
  <2> HIDE DEF row, j
  <2> QED
    BY <1>1, <2>1, <2>2, <2>3, AwaitSound
<1>4. CASE CloseRegistration(r)
  <2> DEFINE row == [cup EXCEPT !.status = "registration_closed"]
             j == [NotHeld EXCEPT !.row = row, !.seen = entry]
  <2>1. RowSoundNext("saveRow", row)
    BY <1>2 DEF Bracketed
  <2>2. j.row = row
    BY DEF NotHeld
  <2>3. Await(r, "saveRow", j) /\ cup' = cup
    BY <1>4 DEF CloseRegistration, cupTables
  <2> HIDE DEF row, j
  <2> QED
    BY <1>1, <2>1, <2>2, <2>3, AwaitSound
<1>5. ASSUME NEW k, NEW players, LoadCup(r, k, players),
             k \in BracketReaders => cup.status = "bracket_generated"
      PROVE  SoundInv'
  <2> DEFINE j == [NotHeld EXCEPT !.row = cup, !.seen = entry, !.players = players]
  <2>1. j.row = cup
    BY DEF NotHeld
  <2>2. RowSoundNext(k, cup)
    BY <1>1, <1>5 DEF RowSoundNext, RowSound, Bracketed
  <2>3. Await(r, k, j) /\ cup' = cup
    BY <1>5 DEF LoadCup, cupTables
  <2> HIDE DEF j
  <2> QED
    BY <1>1, <2>1, <2>2, <2>3, AwaitSound
<1> QED
  BY <1>3, <1>4, <1>5 DEF RegisterPlayer, GenerateBracket, StartTournament, CancelTournament,
                          BracketReaders

LEMMA SaveRowSound ==
    ASSUME NextSound, Goes, NEW r \in Organizers,
           SaveRow(r) \/ SavePool(r) \/ SaveBracket(r) \/ SaveCancellation(r)
    PROVE  SoundInv'
<1>1. PICK k \in {"idle", "lockChest", "rollback"} : Await(r, k, held[r])
  BY DEF SaveRow, SavePool, SaveBracket, SaveCancellation, SaveCup
<1>2. \/ cup' = cup \/ cup' = held[r].row
      \/ cup' = [held[r].row EXCEPT !.status = "cancelled"]
  BY DEF SaveRow, SavePool, SaveBracket, SaveCancellation, SaveCup
<1>3. /\ RowSoundNext(at[r], held[r].row) /\ IsCupRow(held[r].row)
      /\ RowSoundNext("idle", cup)
  BY RowSoundGoes DEF NextSound, SoundInv, NextPaid, PaidInv, RowPaid
<1>4. RowSoundNext("idle", held[r].row) /\ RowSoundNext(k, held[r].row)
  BY <1>1, <1>3, AnyCallSound DEF BracketReaders, RowSoundNext
<1>5. RowSoundNext("idle", [held[r].row EXCEPT !.status = "cancelled"])
  BY <1>3, <1>4 DEF RowSoundNext, RowSound, HasBracket, IsCupRow, Bracketed, BracketReaders
<1> QED
  BY <1>1, <1>2, <1>3, <1>4, <1>5, AwaitSound

\* The calls of the escrow, the placements and the prizes carry the row along.
LEMMA ChestSound ==
    ASSUME NextSound, Goes, NEW r \in Organizers,
           \/ DepositEntryFee(r) \/ LockChest(r) \/ RefundChest(r) \/ ReleaseChest(r)
    PROVE  SoundInv'
<1>1. cup' = cup
  BY DEF DepositEntryFee, LockChest, RefundChest, ReleaseChest, ChestCall
<1>2. \E k \in Steps \ BracketReaders : Await(r, k, held[r])
  BY DEF DepositEntryFee, LockChest, RefundChest, ReleaseChest, ChestCall, Steps, BracketReaders
<1> QED
  BY <1>1, <1>2, CarrySound DEF Carries

LEMMA PlacePlayerSound ==
    ASSUME NextSound, Goes, NEW r \in Organizers, PlacePlayer(r)
    PROVE  SoundInv'
<1>1. cup' = cup /\ NextPaid /\ at[r] = "place"
  BY DEF PlacePlayer, NextSound
<1>2. PICK v : Await(r, NextPlace(v), [held[r] EXCEPT !.players = v])
  BY DEF PlacePlayer
<1> DEFINE k == NextPlace(v)
<1>3. k \in BracketReaders => k = at[r]
  BY <1>1 DEF BracketReaders, NextPlace
<1>4. Await(r, k, [held[r] EXCEPT !.players = v])
  BY <1>2
<1> HIDE DEF k
<1> QED
  BY <1>1, <1>3, <1>4, HeldCarries, CarrySound

LEMMA ReadChestSound ==
    ASSUME NextSound, Goes, NEW r \in Organizers, ReadChest(r)
    PROVE  SoundInv'
<1>1. cup' = cup /\ NextPaid
  BY DEF ReadChest, NextSound, cupTables
<1>2. PICK v : Await(r, "release", [held[r] EXCEPT !.prizes = v])
  BY DEF ReadChest
<1>3. "release" \notin BracketReaders
  BY DEF BracketReaders
<1> QED
  BY <1>1, <1>2, <1>3, HeldCarries, CarrySound

\* The shuffled registrations are at least two distinct players.
LEMMA SeedsAre ==
    ASSUME NEW S \in SUBSET Entrants_, NEW seeds \in SetToSeqs(S), Cardinality(S) >= MinEntries
    PROVE  \E n : /\ Started(S, generateBracketStructure(seeds), n)
                  /\ Sound(generateBracketStructure(seeds), n)
<1> DEFINE c == Cardinality(S)
<1>1. IsFiniteSet(S)
  BY FS_Subset, TournamentAssumption
<1>2. c \in Nat /\ c >= 2
  BY <1>1, FS_CardinalityType, BracketAssumption
<1>3. /\ seeds \in [1 .. c -> S]
      /\ \A i, j \in 1 .. c : i # j => seeds[i] # seeds[j]
  BY Zenon DEF SetToSeqs
<1> HIDE DEF c
<1>4. seeds = [i \in 1 .. c |-> seeds[i]]
  BY <1>3
<1>5. Len(seeds) = c
  BY <1>2, <1>4, LenIs
<1>6. \A i \in 1 .. c : seeds[i] \in S /\ seeds[i] # NoPlayer
  BY <1>3, BracketAssumption
<1>7. \A i, j \in 1 .. c : seeds[i] = seeds[j] => i = j
  BY <1>3
<1>8. Sound(generateBracketStructure(seeds), numRounds(Len(seeds)))
  BY <1>2, <1>5, <1>6, <1>7, GeneratedSound
<1>9. Started(S, generateBracketStructure(seeds), numRounds(Len(seeds)))
  BY <1>2, <1>5, <1>6, <1>8, GeneratedStarted
<1> QED
  BY <1>8, <1>9

LEMMA SeedSound ==
    ASSUME NextSound, Goes, NEW r \in Organizers, SeedPlayers(r)
    PROVE  SoundInv'
<1>1. cup' = cup
  <2>1. UNCHANGED <<cupTables, cupFaults, strays>>
    BY DEF SeedPlayers
  <2> QED
    BY <2>1 DEF cupTables
<1>2. /\ IsCupRow(held[r].row) /\ HeldIs(held[r])
      /\ RowSoundNext("idle", cup) /\ RowSoundNext(at[r], held[r].row)
  BY RowSoundGoes DEF NextSound, NextPaid, PaidInv, RowPaid, CupTypes, SoundInv
<1>3. CASE Cardinality(Confirmed) >= MinEntries
  <2>1. PICK seeds \in SetToSeqs(Confirmed) :
          Await(r, "saveBracket",
                [held[r] EXCEPT !.row.bracket = generateBracketStructure(seeds),
                                !.row.status = "bracket_generated"])
    BY <1>3 DEF SeedPlayers
  <2>2. Confirmed \in SUBSET Entrants_
    BY DEF Confirmed
  <2> DEFINE b == generateBracketStructure(seeds)
             j == [held[r] EXCEPT !.row.bracket = b, !.row.status = "bracket_generated"]
  <2>3. \E n : Started(Registered(entry'), b, n) /\ Sound(b, n)
    <3>1. Confirmed \subseteq Registered(entry')
      BY DEF Confirmed, Registered, Goes
    <3>2. PICK n : Started(Confirmed, b, n) /\ Sound(b, n)
      BY <1>3, <2>1, <2>2, SeedsAre
    <3> HIDE DEF b
    <3> QED
      BY <3>1, <3>2, StartedMore
  <2>4. j.row.bracket = b /\ j.row.status = "bracket_generated"
    <3> HIDE DEF b
    <3> QED
      BY <1>2 DEF HeldIs, IsCupRow
  <2>5. Await(r, "saveBracket", j)
    BY <2>1
  <2> HIDE DEF b, j
  <2>6. RowSoundNext("saveBracket", j.row)
    BY <2>3, <2>4 DEF RowSoundNext, RowSound, HasBracket
  <2> QED
    BY <1>1, <1>2, <2>5, <2>6, AwaitSound
<1>4. CASE ~(Cardinality(Confirmed) >= MinEntries)
  <2>1. Await(r, "idle", NotHeld)
    BY <1>4 DEF SeedPlayers
  <2> QED
    BY <1>1, <1>2, <2>1, AwaitSound
<1> QED
  BY <1>3, <1>4

LEMMA CreateMatchesSound ==
    ASSUME NextSound, Goes, NEW r \in Organizers, CreateMatches(r)
    PROVE  SoundInv'
<1> DEFINE j == [held[r] EXCEPT !.row.status = "in_progress"]
<1>1. cup' = cup /\ at[r] = "createMatches"
  BY DEF CreateMatches, cupTables
<1>2. Await(r, "idle", NotHeld) \/ Await(r, "saveRow", j)
  BY DEF CreateMatches
<1>3. /\ IsCupRow(held[r].row) /\ HeldIs(held[r])
      /\ RowSoundNext("idle", cup) /\ RowSoundNext(at[r], held[r].row)
  BY RowSoundGoes DEF NextSound, NextPaid, PaidInv, RowPaid, CupTypes, SoundInv
<1>4. HasBracket(strays', Registered(entry'), held[r].row)
  BY <1>1, <1>3 DEF RowSoundNext, RowSound, BracketReaders
<1>5. j.row.status = "in_progress" /\ j.row.bracket = held[r].row.bracket
  BY <1>3 DEF HeldIs, IsCupRow
<1> HIDE DEF j
<1>6. RowSoundNext("saveRow", j.row)
  BY <1>4, <1>5 DEF RowSoundNext, RowSound, HasBracket
<1> QED
  BY <1>1, <1>2, <1>3, <1>6, AwaitSound

\* A bracket has finitely many pairings.
LEMMA PairingsFinite ==
    ASSUME NEW reg, NEW b, NEW n, Started(reg, b, n)
    PROVE  IsFiniteSet(Pairings(b))
<1> DEFINE all == (1 .. n) \X (1 .. Pow2(n))
<1>1. n \in Nat \ {0} /\ DOMAIN b = 1 .. n /\ \A r \in 1 .. n : DOMAIN b[r] = Numbers(n, r)
  BY StartedIs DEF Started, Shape
<1>2. Pow2(n) \in Nat
  BY <1>1, Pow2Type
<1>3. IsFiniteSet(1 .. n) /\ IsFiniteSet(1 .. Pow2(n))
  BY <1>1, <1>2, FS_Interval
<1>4. IsFiniteSet(all)
  BY <1>3, FS_Product
<1>5. \A r \in 1 .. n : Numbers(n, r) \subseteq 1 .. Pow2(n)
  <2> DEFINE S == {k \in 0 .. n : \A q \in 0 .. k : Pow2(q) <= Pow2(k)}
  <2>1. 0 \in S
    <3>1. \A q \in 0 .. 0 : q = 0
      OBVIOUS
    <3> QED
      BY <1>1, <3>1, Pow2Zero
  <2>2. ASSUME NEW k \in 0 .. n, k \in S, k < n
        PROVE  k + 1 \in S
    <3>1. k \in Nat /\ k + 1 \in 0 .. n
      BY <1>1, <2>2
    <3>2. Pow2(k + 1) = 2 * Pow2(k) /\ Pow2(k) \in Nat
      BY <3>1, Pow2Next, Pow2Type
    <3>3. \A q \in 0 .. k + 1 : q = k + 1 \/ q \in 0 .. k
      BY <3>1
    <3>4. \A q \in 0 .. k : Pow2(q) \in Nat /\ Pow2(q) <= Pow2(k)
      BY <2>2, <3>1, Pow2Type
    <3>5. \A q \in 0 .. k : Pow2(q) <= Pow2(k + 1)
      BY <3>2, <3>4
    <3>6. Pow2(k + 1) <= Pow2(k + 1)
      BY <3>2
    <3> QED
      BY <3>1, <3>3, <3>5, <3>6
  <2> HIDE DEF S
  <2>a. n \in Nat
    BY <1>1
  <2>3. n \in S
    BY <2>a, <2>1, <2>2, UpTo
  <2>4. \A r \in 1 .. n : n - r \in 0 .. n /\ n - r \in Nat
    BY <1>1
  <2>5. \A r \in 1 .. n : Pow2(n - r) <= Pow2(n) /\ Pow2(n - r) \in Nat
    BY <2>3, <2>4, Pow2Type DEF S
  <2> QED
    BY <1>2, <2>5 DEF Numbers
<1>6. Pairings(b) \subseteq all
  BY <1>1, <1>5 DEF Pairings
<1> QED
  BY <1>4, <1>6, FS_Subset

\* Where nothing strays, matches with two players and no winner are reported.
LEMMA ReportsAre ==
    ASSUME NEW b, NEW n, Sound(b, n), NEW results, DOMAIN results \in SUBSET Pairings(b),
           Stray(b, results) = {}
    PROVE  MayReport(b, n, results)
<1>1. DOMAIN b = 1 .. n /\ \A r \in 1 .. n : DOMAIN b[r] = Numbers(n, r)
  BY SoundIs DEF Sound, Shape
<1> SUFFICES ASSUME NEW m \in DOMAIN results
             PROVE  \E r \in 1 .. n : \E i \in Numbers(n, r) :
                      m = <<r, i>> /\ b[r][i].winner = NoPlayer
                                   /\ results[m] \in {b[r][i].p1, b[r][i].p2}
  BY DEF MayReport
<1>2. m \in Pairings(b) /\ Awaited(b, m, results[m])
  BY DEF Stray
<1>3. PICK r \in 1 .. n : m \in {r} \X Numbers(n, r)
  BY <1>1, <1>2 DEF Pairings
<1>4. PICK i \in Numbers(n, r) : m = <<r, i>>
  BY <1>3
<1>5. m[1] = r /\ m[2] = i
  BY <1>4
<1>6. results[m] \in {b[r][i].p1, b[r][i].p2} /\ b[r][i].winner = NoPlayer
  BY <1>2, <1>5 DEF Entrants, Awaited, Waiting
<1> QED
  BY <1>4, <1>6

LEMMA ReportedIs ==
    ASSUME NEW row, IsCupRow(row), row.status = "in_progress", NEW results
    PROVE  LET b == WithResults(row.bracket, results)
               new == Reported(row, results)
           IN  \/ new.bracket = b /\ new.status = "completed" /\ FinalMatch(b).winner # NoPlayer
               \/ new.bracket = advanceWinnersToNextRound(b) /\ new.status = "in_progress"
<1> DEFINE b == WithResults(row.bracket, results)
           c == advanceWinnersToNextRound(b)
<1>1. \/ /\ FinalMatch(b).winner # NoPlayer
         /\ Reported(row, results) = [row EXCEPT !.bracket = b, !.status = "completed"]
      \/ Reported(row, results) = [row EXCEPT !.bracket = c]
  BY DEF Reported
<1> HIDE DEF b, c
<1>2. /\ [row EXCEPT !.bracket = b, !.status = "completed"].bracket = b
      /\ [row EXCEPT !.bracket = b, !.status = "completed"].status = "completed"
      /\ [row EXCEPT !.bracket = c].bracket = c
      /\ [row EXCEPT !.bracket = c].status = "in_progress"
  BY DEF IsCupRow
<1>3. \/ /\ Reported(row, results).bracket = b /\ Reported(row, results).status = "completed"
         /\ FinalMatch(b).winner # NoPlayer
      \/ Reported(row, results).bracket = c /\ Reported(row, results).status = "in_progress"
  BY <1>1, <1>2
<1> QED
  BY <1>3 DEF b, c

LEMMA ReportedSound ==
    ASSUME NEW row, IsCupRow(row), row.status = "in_progress", NEW reg, NEW n,
           Started(reg, row.bracket, n), NEW results
    PROVE  /\ Started(reg, Reported(row, results).bracket, n)
           /\ Sound(row.bracket, n) /\ MayReport(row.bracket, n, results)
                => Sound(Reported(row, results).bracket, n)
           /\ Reported(row, results).status = "completed"
                => FinalMatch(Reported(row, results).bracket).winner # NoPlayer
<1> DEFINE b == WithResults(row.bracket, results)
           c == advanceWinnersToNextRound(b)
<1>1. Started(reg, b, n)
  BY ResultsStarted
<1>2. Started(reg, c, n)
  BY <1>1, AdvanceStarted
<1>3. ASSUME Sound(row.bracket, n), MayReport(row.bracket, n, results)
      PROVE  Sound(b, n) /\ Sound(c, n)
  <2>1. Sound(b, n)
    BY <1>3, ResultsSound
  <2> QED
    BY <2>1, AdvanceSound
<1>4. \/ /\ Reported(row, results).bracket = b /\ Reported(row, results).status = "completed"
         /\ FinalMatch(b).winner # NoPlayer
      \/ Reported(row, results).bracket = c /\ Reported(row, results).status = "in_progress"
  BY ReportedIs
<1> HIDE DEF b, c
<1> QED
  BY <1>1, <1>2, <1>3, <1>4

\* What strays is counted.
LEMMA AdvanceGoes ==
    ASSUME NextSound, NEW r \in Organizers, AdvanceRound(r)
    PROVE  /\ entry' = entry
           /\ strays' \in 0 .. MaxStrays /\ (strays' = 0 => strays = 0)
           /\ \E results, ps :
                /\ DOMAIN results \in SUBSET Pairings(cup.bracket)
                /\ strays' = 0 => Stray(cup.bracket, results) = {}
                /\ Await(r, IF Reported(cup, results).status = "completed" THEN NextPlace(ps)
                            ELSE "saveRow",
                         [NotHeld EXCEPT !.row = Reported(cup, results), !.seen = entry,
                                         !.players = ps])
<1> DEFINE Awaits(results, ps) ==
             Await(r, IF Reported(cup, results).status = "completed" THEN NextPlace(ps)
                      ELSE "saveRow",
                   [NotHeld EXCEPT !.row = Reported(cup, results), !.seen = entry,
                                   !.players = ps])
           all == {m \in Pairings(cup.bracket) :
                     StraysLeft > 0 \/ Waiting(cup.bracket[m[1]][m[2]])}
<1>a. PICK matches \in SUBSET all :
        \E results \in [matches -> Entrants_ \cup {Stranger, NoPlayer}] :
          /\ Cardinality(Stray(cup.bracket, results)) <= StraysLeft
          /\ strays' = strays + Cardinality(Stray(cup.bracket, results))
          /\ \E ps : Awaits(results, ps)
  BY DEF AdvanceRound
<1>b. PICK results \in [matches -> Entrants_ \cup {Stranger, NoPlayer}] :
          /\ Cardinality(Stray(cup.bracket, results)) <= StraysLeft
          /\ strays' = strays + Cardinality(Stray(cup.bracket, results))
          /\ \E ps : Awaits(results, ps)
  BY <1>a
<1>c. PICK ps : Awaits(results, ps)
  BY <1>b
<1>1. DOMAIN results \in SUBSET Pairings(cup.bracket)
  OBVIOUS
<1> HIDE DEF Awaits, all
<1>2. PICK n : Started(Registered(entry), cup.bracket, n)
  <2>1. cup.status = "in_progress" /\ RowSound(strays, Registered(entry), "idle", cup)
    BY DEF AdvanceRound, NextSound, SoundInv
  <2> QED
    BY <2>1 DEF RowSound, HasBracket, Bracketed
<1>3. IsFiniteSet(Pairings(cup.bracket))
  BY <1>2, PairingsFinite
<1>4. Stray(cup.bracket, results) \subseteq Pairings(cup.bracket)
  BY <1>1 DEF Stray
<1> DEFINE S == Stray(cup.bracket, results)
<1> HIDE DEF S
<1>5. IsFiniteSet(S)
  BY <1>3, <1>4, FS_Subset DEF S
<1>6. Cardinality(S) \in Nat /\ (Cardinality(S) = 0 => S = {})
  BY <1>5, FS_CardinalityType, FS_EmptySet
<1>7. strays \in 0 .. MaxStrays /\ MaxStrays \in Nat
  BY TournamentAssumption DEF NextSound, SoundInv
<1>8. Cardinality(S) <= StraysLeft /\ strays' = strays + Cardinality(S)
  BY <1>b DEF S
<1>9. strays' \in 0 .. MaxStrays /\ (strays' = 0 => strays = 0 /\ S = {})
  BY <1>6, <1>7, <1>8 DEF StraysLeft
<1>10. entry' = entry
  BY DEF AdvanceRound, cupTables
<1> QED
  BY <1>1, <1>9, <1>10, <1>c DEF S, Awaits

LEMMA AdvanceRoundSound ==
    ASSUME NextSound, Goes, NEW r \in Organizers, AdvanceRound(r)
    PROVE  SoundInv'
<1>1. /\ cup' = cup /\ IsCupRow(cup) /\ cup.status = "in_progress"
      /\ RowSound(strays, Registered(entry), "idle", cup)
  BY DEF AdvanceRound, cupTables, NextSound, NextPaid, PaidInv, RowPaid, SoundInv
<1>2. PICK n : /\ Started(Registered(entry), cup.bracket, n)
               /\ strays = 0 => Sound(cup.bracket, n)
  BY <1>1 DEF RowSound, HasBracket, Bracketed
<1>3. PICK results, ps :
        /\ DOMAIN results \in SUBSET Pairings(cup.bracket)
        /\ strays' = 0 => Stray(cup.bracket, results) = {}
        /\ Await(r, IF Reported(cup, results).status = "completed" THEN NextPlace(ps)
                    ELSE "saveRow",
                 [NotHeld EXCEPT !.row = Reported(cup, results), !.seen = entry,
                                 !.players = ps])
  BY AdvanceGoes
<1>4. strays' = 0 => Sound(cup.bracket, n) /\ MayReport(cup.bracket, n, results)
  BY <1>2, <1>3, ReportsAre DEF Goes
<1> DEFINE row == Reported(cup, results)
           k == IF row.status = "completed" THEN NextPlace(ps) ELSE "saveRow"
           j == [NotHeld EXCEPT !.row = row, !.seen = entry, !.players = ps]
<1>5. /\ Started(Registered(entry), row.bracket, n)
      /\ strays' = 0 => Sound(row.bracket, n)
      /\ row.status = "completed" => FinalMatch(row.bracket).winner # NoPlayer
  BY <1>1, <1>2, <1>4, ReportedSound
<1>6. Await(r, k, j)
  BY <1>3
<1>7. j.row = row
  BY DEF NotHeld
<1> HIDE DEF row, k, j
<1>8. Started(Registered(entry'), row.bracket, n)
  BY <1>5, StartedMore DEF Goes
<1>9. RowSoundNext(k, j.row)
  BY <1>5, <1>7, <1>8 DEF RowSoundNext, RowSound, HasBracket
<1>10. RowSoundNext("idle", cup')
  BY <1>1, RowSoundGoes
<1> QED
  BY <1>6, <1>9, <1>10, AwaitSound

LEMMA RejectSound ==
    ASSUME NextSound, Goes, NEW r \in Organizers, RejectCupCall(r)
    PROVE  SoundInv'
<1>1. cup' = cup /\ RowSoundNext("idle", cup) /\ NextPaid
  BY RowSoundGoes DEF RejectCupCall, cupTables, NextSound, SoundInv
<1>2. CASE Await(r, "idle", NotHeld)
  BY <1>1, <1>2, AwaitSound
<1>3. CASE Await(r, "rollback", held[r])
  <2>1. Carries(r)
    BY <1>3 DEF Carries, BracketReaders
  <2> QED
    BY <1>1, <2>1, CarrySound
<1>4. CASE NextPrize(r)
  BY <1>1, <1>4, NextPrizeCarries, CarrySound
<1> QED
  BY <1>2, <1>3, <1>4 DEF RejectCupCall

LEMMA CrashSound ==
    ASSUME NextSound, CrashCup
    PROVE  SoundInv'
<1>1. /\ cup' = cup
      /\ \A r \in Organizers : at'[r] = "idle" /\ held'[r] = NotHeld
      /\ entry' = entry /\ strays' = strays
  BY DEF CrashCup, cupTables
<1> QED
  BY <1>1, EmptyRowSound DEF NextSound, SoundInv

LEMMA CallGoes ==
    ASSUME CupInv, NextSound, NEW r \in Organizers, CupCall(r)
    PROVE  Goes
<1>1. Registered(entry) \in SUBSET Registered(entry')
  BY CupCallEntries DEF CupInv
<1>2. CASE AdvanceRound(r)
  BY <1>1, <1>2, AdvanceGoes DEF Goes
<1>3. CASE \/ OpenRegistration(r) \/ CloseRegistration(r) \/ SaveRow(r) \/ SavePool(r)
           \/ SaveBracket(r) \/ SaveCancellation(r)
           \/ RegisterPlayer(r) \/ GenerateBracket(r) \/ StartTournament(r)
           \/ CancelTournament(r)
  <2>1. strays' = strays
    BY <1>3 DEF OpenRegistration, CloseRegistration, SaveRow, SavePool, SaveBracket,
                SaveCancellation, RegisterPlayer, GenerateBracket, StartTournament,
                CancelTournament, SaveCup, LoadCup
  <2> QED
    BY <1>1, <2>1 DEF Goes, NextSound, SoundInv
<1>4. CASE \/ FindEntry(r) \/ LockFee(r) \/ DepositEntryFee(r) \/ DeductEntryFee(r)
           \/ SaveEntry(r) \/ RollbackEntry(r) \/ LockChest(r) \/ ReleaseChest(r)
           \/ RefundChest(r) \/ UnlockFee(r)
  <2>1. strays' = strays
    BY <1>4 DEF FindEntry, LockFee, DepositEntryFee, DeductEntryFee, SaveEntry, RollbackEntry,
                LockChest, ReleaseChest, RefundChest, UnlockFee, PurseCall, ChestCall
  <2> QED
    BY <1>1, <2>1 DEF Goes, NextSound, SoundInv
<1>5. CASE \/ SeedPlayers(r) \/ CreateMatches(r) \/ PlacePlayer(r) \/ ReadChest(r)
           \/ CreditWinner(r) \/ FindEntries(r) \/ SaveWithdrawal(r) \/ RejectCupCall(r)
  <2>1. strays' = strays
    BY <1>5 DEF SeedPlayers, CreateMatches, PlacePlayer, ReadChest, CreditWinner, FindEntries,
                SaveWithdrawal, RejectCupCall
  <2> QED
    BY <1>1, <2>1 DEF Goes, NextSound, SoundInv
<1> QED
  BY <1>2, <1>3, <1>4, <1>5 DEF CupCall

LEMMA SoundNext ==
    ASSUME CupInv, PaidInv, SoundInv, [TournamentNext]_cupVars
    PROVE  SoundInv'
<1>1. NextPaid /\ NextSound
  BY DEF NextPaid, NextSound, CupInv, CupMoney
<1>2. CASE UNCHANGED cupVars
  BY <1>2 DEF cupVars, SoundInv
<1>3. CASE CrashCup
  BY <1>1, <1>3, CrashSound
<1>4. ASSUME NEW r \in Organizers, Goes, PlainCall(r)
      PROVE  SoundInv'
  BY <1>1, <1>4, PlainCarries, CarrySound
<1>5. ASSUME NEW r \in Organizers, CupCall(r)
      PROVE  SoundInv'
  BY <1>1, <1>4, <1>5, CallGoes, BeginSound, SaveRowSound, ChestSound, SeedSound, CreateMatchesSound,
     AdvanceRoundSound, PlacePlayerSound, ReadChestSound, RejectSound DEF CupCall, PlainCall
<1> QED
  BY <1>2, <1>3, <1>5, CupCalls DEF TournamentNext

LEMMA SoundInit == TournamentInit => SoundInv
<1> SUFFICES ASSUME TournamentInit
             PROVE  SoundInv
  OBVIOUS
<1>1. \A r \in Organizers : at[r] = "idle" /\ held[r] = NotHeld
  BY DEF TournamentInit
<1>2. cup = NotHeld.row
  BY DEF TournamentInit, NotHeld
<1>3. strays = 0 /\ 0 \in 0 .. MaxStrays
  BY TournamentAssumption DEF TournamentInit
<1> QED
  BY <1>1, <1>2, <1>3, EmptyRowSound DEF SoundInv

LEMMA SoundMeans == SoundInv => BracketDecides
<1> SUFFICES ASSUME SoundInv, cup.bracket # <<>>
             PROVE  /\ SeededOnce(cup.bracket, Starters)
                    /\ strays = 0 =>
                         /\ Fed(cup.bracket)
                         /\ Cardinality(Starters) = Pow2(Len(cup.bracket))
                              => SingleLossEliminates
  BY DEF BracketDecides
<1>1. /\ HasBracket(strays, Registered(entry), cup)
      /\ cup.status = "completed" => FinalMatch(cup.bracket).winner # NoPlayer
  BY DEF SoundInv, RowSound
<1>2. PICK n : /\ Started(Registered(entry), cup.bracket, n)
               /\ strays = 0 => Sound(cup.bracket, n)
  BY <1>1 DEF HasBracket
<1>3. Starters = Starting(cup.bracket)
  BY DEF Starters, Starting
<1>4. SeededOnce(cup.bracket, Starters) /\ Len(cup.bracket) = n
  BY <1>2, <1>3, StartedSeededOnce, StartedIs
<1>5. strays = 0 => Fed(cup.bracket)
  BY <1>2, SoundFed
<1>6. ASSUME strays = 0, Cardinality(Starters) = Pow2(Len(cup.bracket)),
             cup.status = "completed"
      PROVE  Undefeated(cup.bracket, Starters) = {FinalMatch(cup.bracket).winner}
  BY <1>1, <1>2, <1>3, <1>4, <1>6, SoundDecides
<1> QED
  BY <1>4, <1>5, <1>6 DEF SingleLossEliminates

\* Whatever is reported in whatever order (advanceRound), for any match and with
\* any winner, and for every number of players: each player of a bracket starts in
\* one match (generateBracket).  As long as each result is one that a match waits
\* for, each place of a later round is the winner's of the match that feeds it,
\* and without byes the champion is the only player without a loss.
THEOREM BracketCorrect == TournamentSpec => []BracketDecides
<1>1. TournamentInit => CupInv /\ PaidInv /\ SoundInv
  BY CupInitInv, PaidInit, SoundInit
<1>2. CupInv /\ PaidInv /\ SoundInv /\ [TournamentNext]_cupVars
        => (CupInv /\ PaidInv /\ SoundInv)'
  BY CupNextInv, PaidNext, SoundNext
<1>3. SoundInv => BracketDecides
  BY SoundMeans
<1> QED
  BY <1>1, <1>2, <1>3, PTL DEF TournamentSpec

-----------------------------------------------------------------------------
(* Types                                                                    *)

LEMMA MaxOfInterval ==
    ASSUME NEW n \in Nat, NEW S \in SUBSET (1 .. n), S # {}
    PROVE  Max(S) \in S
<1> DEFINE T == {n - x : x \in S}
<1>1. T \in SUBSET Nat /\ T # {}
  <2>1. \A x \in S : x \in Nat /\ n - x \in Nat
    OBVIOUS
  <2> QED
    BY <2>1
<1>2. PICK m \in T : \A y \in T : m <= y
  BY <1>1, MinOfNaturals
<1>3. PICK x \in S : m = n - x
  BY <1>2
<1>4. \A y \in S : x >= y
  <2> TAKE y \in S
  <2>1. n - y \in T
    OBVIOUS
  <2>2. n - x <= n - y
    BY <1>2, <1>3, <2>1
  <2> QED
    BY <2>2
<1> QED
  BY <1>4 DEF Max

LEMMA PlacementType ==
    ASSUME NEW reg, NEW b, NEW n, Started(reg, b, n), NEW p
    PROVE  finalPlacement(b, p) \in Nat
<1>1. n \in Nat /\ Len(b) = n /\ DOMAIN b = 1 .. n
  BY StartedIs
<1>2. RoundsLost(b, p) \in SUBSET (1 .. n)
  BY <1>1 DEF RoundsLost
<1>3. ASSUME RoundsLost(b, p) # {}
      PROVE  Pow2(Len(b) - Max(RoundsLost(b, p)) + 1) \in Nat
  <2> DEFINE m == Max(RoundsLost(b, p))
  <2>1. m \in 1 .. n
    BY <1>1, <1>2, <1>3, MaxOfInterval
  <2>2. Len(b) - m + 1 \in Nat
    BY <1>1, <2>1
  <2> QED
    BY <2>2, Pow2Type
<1> QED
  BY <1>3 DEF finalPlacement

Typed(en) ==
    /\ en = [p \in Entrants_ |-> en[p]]
    /\ \A p \in Entrants_ : /\ en[p].status \in {"none", "confirmed", "withdrawn"}
                            /\ en[p].place \in Nat

SeenTyped == \A r \in Organizers : Typed(held[r].seen)

\* What CupInv, PaidInv and SoundInv leave to show.
CupTypesInv ==
    /\ Typed(entry) /\ SeenTyped
    /\ cupFaults \in 0 .. MaxCupFaults /\ overlaps \in 0 .. MaxOverlaps

LEMMA EntryChanges ==
    ASSUME EntriesAre(entry), Typed(entry), NEW p,
           NEW s \in {"none", "confirmed", "withdrawn"}, NEW n \in Nat,
           \/ entry' = [entry EXCEPT ![p].status = s]
           \/ entry' = [entry EXCEPT ![p].place = n]
    PROVE  Typed(entry')
<1>1. /\ entry' = [q \in Entrants_ |-> entry'[q]]
      /\ \A q \in Entrants_ : q # p => entry'[q] = entry[q]
      /\ p \in Entrants_ => \/ entry'[p] = [entry[p] EXCEPT !.status = s]
                           \/ entry'[p] = [entry[p] EXCEPT !.place = n]
  BY DEF Typed
<1>2. p \in Entrants_ => entry[p] = [f \in {"status", "place"} |-> entry[p][f]]
  BY DEF EntriesAre
<1>3. p \in Entrants_ => /\ entry'[p].status \in {"none", "confirmed", "withdrawn"}
                          /\ entry'[p].place \in Nat
  BY <1>1, <1>2 DEF Typed
<1> QED
  BY <1>1, <1>3 DEF Typed

LEMMA EntriesTyped ==
    ASSUME NextSound, Typed(entry), SeenTyped, NEW r \in Organizers, CupCall(r)
    PROVE  Typed(entry')
<1>1. EntriesAre(entry)
  BY DEF NextSound, NextPaid, CupTypes
<1>2. CASE SaveEntry(r)
  <2>1. entry' = entry \/ entry' = [entry EXCEPT ![Who(held[r])].status = "confirmed"]
    BY <1>2 DEF SaveEntry, Who
  <2>2. CASE entry' = entry
    BY <2>2
  <2>3. CASE entry' = [entry EXCEPT ![Who(held[r])].status = "confirmed"]
    BY <1>1, <2>3, EntryChanges
  <2> QED
    BY <2>1, <2>2, <2>3
<1>3. CASE SaveWithdrawal(r)
  <2>1. PICK p : entry' = [entry EXCEPT ![p].status = "withdrawn"]
    BY <1>3 DEF SaveWithdrawal
  <2> QED
    BY <1>1, <2>1, EntryChanges
<1>4. CASE PlacePlayer(r)
  <2>1. HasBracket(strays, Registered(entry), held[r].row)
    BY <1>4 DEF PlacePlayer, NextSound, SoundInv, RowSound, BracketReaders
  <2>2. PICK p \in held[r].players :
          entry' = [entry EXCEPT ![p].place = IF entry[p].status = "none" THEN @
                                              ELSE finalPlacement(held[r].row.bracket, p)]
    BY <1>4 DEF PlacePlayer
  <2> DEFINE n == IF entry[p].status = "none" THEN entry[p].place
                  ELSE finalPlacement(held[r].row.bracket, p)
  <2>3. finalPlacement(held[r].row.bracket, p) \in Nat
    BY <2>1, PlacementType DEF HasBracket
  <2>4. p \in Entrants_
    BY DEF NextSound, NextPaid, CupTypes, HeldIs
  <2>5. n \in Nat
    BY <2>3, <2>4 DEF Typed
  <2>6. entry' = [entry EXCEPT ![p].place = n]
    BY <2>2
  <2> HIDE DEF n
  <2> QED
    BY <1>1, <2>5, <2>6, EntryChanges
<1>5. ASSUME entry' = entry
      PROVE  Typed(entry')
  BY <1>5
<1>14. CASE OpenRegistration(r) \/ CloseRegistration(r)
  BY <1>5, <1>14 DEF OpenRegistration, CloseRegistration, cupTables
<1>6. CASE SaveRow(r) \/ SavePool(r) \/ SaveBracket(r) \/ SaveCancellation(r)
  <2>1. entry' = entry \/ entry' = held[r].seen
    BY <1>6 DEF SaveRow, SavePool, SaveBracket, SaveCancellation, SaveCup
  <2> QED
    BY <2>1 DEF SeenTyped
<1>7. CASE RegisterPlayer(r) \/ GenerateBracket(r) \/ StartTournament(r) \/ CancelTournament(r)
  BY <1>5, <1>7 DEF RegisterPlayer, GenerateBracket, StartTournament, CancelTournament, LoadCup,
                    cupTables
<1>8. CASE LockFee(r) \/ DeductEntryFee(r) \/ RollbackEntry(r) \/ UnlockFee(r) \/ CreditWinner(r)
  BY <1>5, <1>8 DEF LockFee, DeductEntryFee, RollbackEntry, UnlockFee, CreditWinner, PurseCall
<1>9. CASE DepositEntryFee(r) \/ LockChest(r) \/ RefundChest(r) \/ ReleaseChest(r)
  BY <1>5, <1>9 DEF DepositEntryFee, LockChest, RefundChest, ReleaseChest, ChestCall
<1>10. CASE FindEntry(r) \/ CreateMatches(r) \/ ReadChest(r) \/ FindEntries(r)
  BY <1>5, <1>10 DEF FindEntry, CreateMatches, ReadChest, FindEntries, cupTables
<1>11. CASE SeedPlayers(r)
  <2>1. UNCHANGED <<cupTables, cupFaults, strays>>
    BY <1>11 DEF SeedPlayers
  <2> QED
    BY <1>5, <2>1 DEF cupTables
<1>12. CASE AdvanceRound(r)
  <2>1. UNCHANGED <<cupTables, cupFaults>>
    BY <1>12 DEF AdvanceRound
  <2> QED
    BY <1>5, <2>1 DEF cupTables
<1>13. CASE RejectCupCall(r)
  BY <1>5, <1>13 DEF RejectCupCall, cupTables
<1> QED
  BY <1>2, <1>3, <1>4, <1>6, <1>7, <1>8, <1>9, <1>10, <1>11, <1>12, <1>13,
     <1>14 DEF CupCall

LEMMA SeenStaysTyped ==
    ASSUME CupMoney, Typed(entry), SeenTyped, NEW r \in Organizers, CupCall(r)
    PROVE  SeenTyped'
<1>1. PICK j : /\ held' = [held EXCEPT ![r] = j]
               /\ j.seen \in {held[r].seen, entry, NoEntries}
  BY CupCallSeen DEF SeenFrom
<1>2. Typed(NoEntries)
  BY DEF Typed, NoEntries
<1>3. DOMAIN held = Organizers
  BY DEF CupMoney, CupTypes
<1>4. \A q \in Organizers : held'[q] = IF q = r THEN j ELSE held[q]
  BY <1>1, <1>3
<1>5. Typed(j.seen)
  BY <1>1, <1>2 DEF SeenTyped
<1>6. \A q \in Organizers : Typed(held'[q].seen)
  BY <1>4, <1>5 DEF SeenTyped
<1> QED
  BY <1>6 DEF SeenTyped

\* Only a rejected call and a crash count as faults, and both ask for the bound.
LEMMA FaultsKept ==
    ASSUME NEW r \in Organizers, CupCall(r), ~RejectCupCall(r)
    PROVE  cupFaults' = cupFaults
<1>2. CASE SeedPlayers(r)
  <2>1. UNCHANGED <<cupTables, cupFaults, strays>>
    BY <1>2 DEF SeedPlayers
  <2> QED
    BY <2>1
<1>3. CASE AdvanceRound(r)
  <2>1. UNCHANGED <<cupTables, cupFaults>>
    BY <1>3 DEF AdvanceRound
  <2> QED
    BY <2>1
<1>4. CASE OpenRegistration(r) \/ CloseRegistration(r) \/ SaveRow(r) \/ SavePool(r)
           \/ SaveBracket(r) \/ SaveCancellation(r)
  BY <1>4 DEF OpenRegistration, CloseRegistration, SaveRow, SavePool, SaveBracket,
              SaveCancellation, SaveCup
<1>5. CASE RegisterPlayer(r) \/ GenerateBracket(r) \/ StartTournament(r) \/ CancelTournament(r)
  BY <1>5 DEF RegisterPlayer, GenerateBracket, StartTournament, CancelTournament, LoadCup
<1>6. CASE LockFee(r) \/ DeductEntryFee(r) \/ RollbackEntry(r) \/ UnlockFee(r) \/ CreditWinner(r)
  BY <1>6 DEF LockFee, DeductEntryFee, RollbackEntry, UnlockFee, CreditWinner, PurseCall
<1>7. CASE DepositEntryFee(r) \/ LockChest(r) \/ RefundChest(r) \/ ReleaseChest(r)
  BY <1>7 DEF DepositEntryFee, LockChest, RefundChest, ReleaseChest, ChestCall
<1>8. CASE FindEntry(r) \/ CreateMatches(r) \/ ReadChest(r) \/ FindEntries(r)
  BY <1>8 DEF FindEntry, CreateMatches, ReadChest, FindEntries
<1>9. CASE SaveEntry(r) \/ SaveWithdrawal(r) \/ PlacePlayer(r)
  BY <1>9 DEF SaveEntry, SaveWithdrawal, PlacePlayer
<1> QED
  BY <1>2, <1>3, <1>4, <1>5, <1>6, <1>7, <1>8, <1>9 DEF CupCall

LEMMA FaultsCounted ==
    ASSUME cupFaults \in 0 .. MaxCupFaults, NEW r \in Organizers, CupCall(r)
    PROVE  cupFaults' \in 0 .. MaxCupFaults
<1>1. CASE RejectCupCall(r)
  BY <1>1, TournamentAssumption DEF RejectCupCall
<1>2. CASE ~RejectCupCall(r)
  BY <1>2, FaultsKept
<1> QED
  BY <1>1, <1>2

LEMMA TypesNext ==
    ASSUME CupInv, PaidInv, SoundInv, CupTypesInv, [TournamentNext]_cupVars
    PROVE  CupTypesInv'
<1>1. NextSound
  BY DEF NextPaid, NextSound, CupInv, CupMoney
<1>2. CASE UNCHANGED cupVars
  BY <1>2 DEF cupVars, CupTypesInv, SeenTyped
<1>3. ASSUME TournamentNext
      PROVE  Typed(entry') /\ SeenTyped' /\ cupFaults' \in 0 .. MaxCupFaults
  <2>1. CASE CrashCup
    <3>1. entry' = entry /\ \A r \in Organizers : held'[r] = NotHeld
      BY <2>1 DEF CrashCup, cupTables
    <3>2. cupFaults' \in 0 .. MaxCupFaults
      BY <2>1, TournamentAssumption DEF CrashCup, CupTypesInv
    <3>3. Typed(NotHeld.seen)
      BY DEF Typed, NoEntries, NotHeld
    <3>4. \A r \in Organizers : Typed(held'[r].seen)
      BY <3>1, <3>3
    <3> QED
      BY <3>1, <3>2, <3>4 DEF CupTypesInv, SeenTyped
  <2>2. ASSUME NEW r \in Organizers, CupCall(r)
        PROVE  Typed(entry') /\ SeenTyped' /\ cupFaults' \in 0 .. MaxCupFaults
    BY <1>1, <2>2, EntriesTyped, SeenStaysTyped, FaultsCounted DEF CupTypesInv, CupInv
  <2> QED
    BY <1>3, <2>1, <2>2, CupCalls DEF TournamentNext
<1>4. ASSUME TournamentNext
      PROVE  overlaps' \in 0 .. MaxOverlaps
  <2>1. overlaps' \in {overlaps, overlaps + 1} /\ overlaps' <= MaxOverlaps
    BY <1>4 DEF TournamentNext
  <2> QED
    BY <2>1, TournamentAssumption DEF CupTypesInv
<1> QED
  BY <1>2, <1>3, <1>4 DEF CupTypesInv

LEMMA TypesInit == TournamentInit => CupTypesInv
<1> SUFFICES ASSUME TournamentInit
             PROVE  CupTypesInv
  OBVIOUS
<1>1. Typed(NoEntries) /\ NotHeld.seen = NoEntries
  BY DEF Typed, NoEntries, NotHeld
<1>2. entry = NoEntries /\ \A r \in Organizers : held[r] = NotHeld
  BY DEF TournamentInit
<1>3. cupFaults \in 0 .. MaxCupFaults /\ overlaps \in 0 .. MaxOverlaps
  BY TournamentAssumption DEF TournamentInit
<1> QED
  BY <1>1, <1>2, <1>3 DEF CupTypesInv, SeenTyped

LEMMA TypedIs ==
    ASSUME NEW en, Typed(en), EntriesAre(en)
    PROVE  en \in Registrations
<1>1. ASSUME NEW p \in Entrants_
      PROVE  en[p] \in [status : {"none", "confirmed", "withdrawn"}, place : Nat]
  BY DEF EntriesAre, Typed
<1>2. en = [p \in Entrants_ |-> en[p]]
  BY DEF Typed
<1> QED
  BY <1>1, <1>2 DEF Registrations

LEMMA TypesMean == CupInv /\ PaidInv /\ SoundInv /\ CupTypesInv => TournamentTypeOK
<1> SUFFICES ASSUME CupInv, PaidInv, SoundInv, CupTypesInv
             PROVE  TournamentTypeOK
  OBVIOUS
<1>1. CupTypes
  BY DEF CupInv, CupMoney
<1>2. entry \in Registrations /\ \A r \in Organizers : held[r].seen \in Registrations
  BY <1>1, TypedIs DEF CupTypes, HeldIs, CupTypesInv, SeenTyped
<1>3. cup.status \in TournamentStatus
  BY DEF PaidInv, RowPaid, IsCupRow
<1>4. \A r \in Organizers : held[r].row.status \in TournamentStatus
  BY DEF PaidInv, RowPaid, IsCupRow
<1>5. \A r \in Organizers : held[r].players \subseteq Entrants_
  BY <1>1 DEF CupTypes, HeldIs
<1> QED
  BY <1>1, <1>2, <1>3, <1>4, <1>5 DEF CupTypes, CupTypesInv, SoundInv, TournamentTypeOK

\* The rows and the requests of tournament.service.ts have their types.
THEOREM TournamentTypes == TournamentSpec => []TournamentTypeOK
<1>1. TournamentInit => CupInv /\ PaidInv /\ SoundInv /\ CupTypesInv
  BY CupInitInv, PaidInit, SoundInit, TypesInit
<1>2. CupInv /\ PaidInv /\ SoundInv /\ CupTypesInv /\ [TournamentNext]_cupVars
        => (CupInv /\ PaidInv /\ SoundInv /\ CupTypesInv)'
  BY CupNextInv, PaidNext, SoundNext, TypesNext
<1>3. CupInv /\ PaidInv /\ SoundInv /\ CupTypesInv => TournamentTypeOK
  BY TypesMean
<1> QED
  BY <1>1, <1>2, <1>3, PTL DEF TournamentSpec

\* The rows, requests and records of a tournament and of a distribution of prizes
\* (tournament.service.ts, prize-distribution.service.ts) keep their types:
\* statuses stay in their enumerations, no counter of a wallet falls below zero,
\* and every placement is a number.
THEOREM CupsTyped == Spec => []TypeOK
<1>1. Spec => TournamentSpec
  <2>1. Init => TournamentInit
    BY DEF Init
  <2>2. [Next]_<<examined, cupVars, prizeVars>> => [TournamentNext]_cupVars
    BY DEF Next
  <2> QED
    BY <2>1, <2>2, PTL DEF Spec, TournamentSpec
<1>2. Spec => PrizeSpec
  <2>1. Init => PrizeInit
    BY DEF Init
  <2>2. [Next]_<<examined, cupVars, prizeVars>> => [PrizeNext]_prizeVars
    BY DEF Next
  <2> QED
    BY <2>1, <2>2, PTL DEF Spec, PrizeSpec
<1>3. TournamentTypeOK /\ PrizeTypeOK => TypeOK
  BY DEF TypeOK
<1> QED
  BY <1>1, <1>2, <1>3, TournamentTypes, PrizesTruthful, PTL

-----------------------------------------------------------------------------
(* Shares and prizes                                                        *)

LEMMA RatioAdds ==
    ASSUME NEW d \in Nat, NEW a \in Nat, NEW b \in Nat, NEW x \in Nat, NEW y \in Nat,
           100 * a <= d * b, 100 * x <= d * y
    PROVE  100 * (a + x) <= d * (b + y)
<1>1. d * (b + y) = d * b + d * y
  OBVIOUS
<1>2. d * b \in Nat /\ d * y \in Nat
  OBVIOUS
<1> QED
  BY <1>1, <1>2

\* What holds of each summand holds of the sums.
LEMMA TotalRatio ==
    ASSUME NEW d \in Nat, NEW n \in Nat, NEW f \in [1 .. n -> Nat], NEW g \in [1 .. n -> Nat],
           \A i \in 1 .. n : 100 * f[i] <= d * g[i]
    PROVE  100 * Total(f) <= d * Total(g)
<1> DEFINE F(m) == [i \in 1 .. m |-> f[i]]
           G(m) == [i \in 1 .. m |-> g[i]]
           S == {m \in 0 .. n : 100 * Total(F(m)) <= d * Total(G(m))}
<1>1. 0 \in S
  <2>1. F(0) \in [{} -> Nat] /\ G(0) \in [{} -> Nat]
    OBVIOUS
  <2>2. Total(F(0)) = 0 /\ Total(G(0)) = 0
    <3> HIDE DEF F, G
    <3>1. /\ \A x \in {} : F(0)[x] = 0
          /\ \A x \in {} : G(0)[x] = 0
      OBVIOUS
    <3> QED
      BY <2>1, <3>1, TotalZero
  <2>3. 100 * 0 <= d * 0
    OBVIOUS
  <2> HIDE DEF F, G
  <2> QED
    BY <2>2, <2>3
<1>2. ASSUME NEW m \in 0 .. n, m \in S, m < n
      PROVE  m + 1 \in S
  <2>1. m \in Nat /\ m + 1 \in 0 .. n /\ m + 1 \in 1 .. n
    BY <1>2
  <2>2. \A i \in 1 .. m + 1 : i \in 1 .. n
    BY <2>1
  <2>3. F(m + 1) \in [1 .. m + 1 -> Nat] /\ G(m + 1) \in [1 .. m + 1 -> Nat]
    BY <2>2
  <2>4. /\ F(m) = [y \in 1 .. m |-> F(m + 1)[y]] /\ F(m + 1)[m + 1] = f[m + 1]
        /\ G(m) = [y \in 1 .. m |-> G(m + 1)[y]] /\ G(m + 1)[m + 1] = g[m + 1]
    BY <2>1
  <2>5. 100 * Total(F(m)) <= d * Total(G(m))
    BY <1>2
  <2> HIDE DEF F, G
  <2>6. /\ Total(F(m)) \in Nat /\ f[m + 1] \in Nat
        /\ Total(F(m + 1)) = Total(F(m)) + f[m + 1]
    BY <2>1, <2>3, <2>4, TotalNext
  <2>7. /\ Total(G(m)) \in Nat /\ g[m + 1] \in Nat
        /\ Total(G(m + 1)) = Total(G(m)) + g[m + 1]
    BY <2>1, <2>3, <2>4, TotalNext
  <2>8. 100 * f[m + 1] <= d * g[m + 1]
    BY <2>1
  <2>9. 100 * (Total(F(m)) + f[m + 1]) <= d * (Total(G(m)) + g[m + 1])
    BY <2>5, <2>6, <2>7, <2>8, RatioAdds
  <2> QED
    BY <2>1, <2>6, <2>7, <2>9
<1>3. F(n) = f /\ G(n) = g
  OBVIOUS
<1>4. n \in 0 .. n
  OBVIOUS
<1>5. n \in S
  <2> HIDE DEF S
  <2> QED
    BY <1>1, <1>2, <1>4, UpTo
<1> HIDE DEF F, G
<1> QED
  BY <1>3, <1>5

Percentages(structure) == [i \in DOMAIN structure |-> structure[i].percentage]

\* The shares of a structure of no more than 100% are no more than what there is.
LEMMA SharesAtMost ==
    ASSUME NEW structure \in Seq(PlaceRow), NEW d \in Nat,
           Total(Percentages(structure)) <= 100
    PROVE  Total(Share(structure, d)) <= d
<1> DEFINE n == Len(structure)
           f == Share(structure, d)
           g == Percentages(structure)
<1>1. DOMAIN structure = 1 .. n /\ n \in Nat
  OBVIOUS
<1>2. f \in [1 .. n -> Nat] /\ Summable(f)
  BY <1>1, ShareType
<1>3. \A i \in 1 .. n : structure[i].percentage \in Nat
  <2> TAKE i \in 1 .. n
  <2>1. structure[i] \in PlaceRow
    BY <1>1
  <2> QED
    BY <2>1 DEF PlaceRow
<1>4. g \in [1 .. n -> Nat]
  BY <1>1, <1>3 DEF Percentages
<1>5. Summable(g)
  <2>1. IsFiniteSet(1 .. n)
    BY <1>1, FS_Interval
  <2> HIDE DEF g
  <2> QED
    BY <1>4, <2>1, FiniteSummable
<1>6. \A v \in Nat : 100 * (v \div 100) <= v
  OBVIOUS
<1>7. \A i \in 1 .. n : 100 * f[i] <= d * g[i]
  <2> TAKE i \in 1 .. n
  <2>1. f[i] = (d * g[i]) \div 100 /\ g[i] \in Nat
    BY <1>1, <1>4 DEF Share, Percentages
  <2> DEFINE v == d * g[i]
  <2>2. v \in Nat
    BY <2>1
  <2>3. f[i] = v \div 100
    BY <2>1
  <2> HIDE DEF v, f, g
  <2>4. 100 * f[i] <= v
    BY <1>6, <2>2, <2>3
  <2> QED
    BY <2>4 DEF v
<1> HIDE DEF f, g, n
<1>8. 100 * Total(f) <= d * Total(g)
  BY <1>1, <1>2, <1>4, <1>7, TotalRatio
<1>9. Total(f) \in Nat /\ Total(g) \in Nat
  BY <1>2, <1>5, TotalType
<1>10. \A t \in Nat : t <= 100 => d * t <= d * 100
  <2> TAKE t \in Nat
  <2> HAVE t <= 100
  <2>1. 100 - t \in Nat
    OBVIOUS
  <2>2. d * (100 - t) \in Nat
    BY <2>1
  <2>3. d * (100 - t) = d * 100 - d * t
    OBVIOUS
  <2>4. d * t \in Nat
    OBVIOUS
  <2> QED
    BY <2>2, <2>3, <2>4
<1>11. d * Total(g) <= d * 100
  BY <1>9, <1>10 DEF g
<1> DEFINE t == d * Total(g)
<1>12. t \in Nat
  BY <1>9
<1>13. 100 * Total(f) <= t /\ t <= d * 100
  BY <1>8, <1>11
<1> HIDE DEF t
<1>14. Total(f) <= d
  BY <1>9, <1>12, <1>13
<1> QED
  BY <1>14 DEF f

-----------------------------------------------------------------------------
(* First and second                                                         *)

LEMMA FirstIs ==
    ASSUME NEW reg, NEW b, NEW n, Started(reg, b, n), NEW p, finalPlacement(b, p) = 1
    PROVE  p = FinalMatch(b).winner
<1> SUFFICES ASSUME FinalMatch(b).winner # p
             PROVE  FALSE
  OBVIOUS
<1> DEFINE S == RoundsLost(b, p)
           k == Len(b) - Max(S) + 1
<1>1. n \in Nat /\ Len(b) = n /\ DOMAIN b = 1 .. n
  BY StartedIs
<1>2. S \in SUBSET (1 .. n)
  BY <1>1 DEF RoundsLost
<1>3. S # {} /\ Pow2(k) = 1
  BY DEF finalPlacement
<1> HIDE DEF S
<1>4. Max(S) \in 1 .. n
  BY <1>1, <1>2, <1>3, MaxOfInterval
<1>5. k \in Nat /\ k >= 1
  BY <1>1, <1>4
<1> HIDE DEF k
<1> QED
  BY <1>3, <1>5, Pow2Type

LEMMA SecondIs ==
    ASSUME NEW reg, NEW b, NEW n, Started(reg, b, n), NEW p, finalPlacement(b, p) = 2
    PROVE  p = Loser(FinalMatch(b))
<1> DEFINE S == RoundsLost(b, p)
           k == Len(b) - Max(S) + 1
<1>1. /\ n \in Nat \ {0} /\ Len(b) = n /\ DOMAIN b = 1 .. n /\ FinalMatch(b) = b[n][1]
      /\ n \in 1 .. n
  BY StartedIs
<1>2. S \in SUBSET (1 .. n)
  BY <1>1 DEF RoundsLost
<1>3. S # {} /\ Pow2(k) = 2
  BY DEF finalPlacement
<1> HIDE DEF S
<1>4. Max(S) \in S /\ Max(S) \in 1 .. n
  BY <1>1, <1>2, <1>3, MaxOfInterval
<1>5. k \in Nat /\ k >= 1 /\ (k <= 1 => Max(S) = n)
  BY <1>1, <1>4
<1> HIDE DEF k
<1>6. k <= 1
  BY <1>3, <1>5, Pow2Type
<1>7. n \in S
  BY <1>4, <1>5, <1>6
<1>8. DOMAIN b[n] = {1}
  BY <1>1, FinalIs DEF Started, Shape
<1>9. PICK m \in Range(b[n]) : Loser(m) = p
  BY <1>7 DEF S, RoundsLost
<1>10. m = b[n][1]
  BY <1>8, <1>9 DEF Range
<1> QED
  BY <1>1, <1>9, <1>10

\* Nobody shares the first or the second place.
LEMMA OnePerPlace ==
    ASSUME NEW reg, NEW b, NEW n, Started(reg, b, n), NEW i \in 1 .. 2, NEW p, NEW q,
           finalPlacement(b, p) = i, finalPlacement(b, q) = i
    PROVE  p = q
<1>1. i = 1 \/ i = 2
  OBVIOUS
<1> QED
  BY <1>1, FirstIs, SecondIs

\* What a prize run changes: the placements and the winnings.
Places(en) == [p \in Entrants_ |-> en[p].place]

Wins(pu) == [p \in Entrants_ |-> pu[p].winnings]

\* Player p is still to get a, once, or has got it.
OwedOnce(ps, p, a, won) ==
    \/ won = a /\ \A k \in DOMAIN ps : ps[k].player # p
    \/ /\ won = 0
       /\ \E k \in DOMAIN ps : /\ ps[k].player = p /\ ps[k].amount = a
                               /\ \A l \in DOMAIN ps : ps[l].player = p => l = k

PrizeOf(d, i) == (d * Structure[i].percentage) \div 100

Owing(en, b, ps, d, w) ==
    \A i \in 1 .. 2 : \A p \in Registered(en) :
        finalPlacement(b, p) = i => OwedOnce(ps, p, PrizeOf(d, i), w[p])

\* The first two entries of the prize structure are those of the places 1 and 2,
\* and no other entry is.
PodiumFirst ==
    /\ Len(Structure) >= 2
    /\ \A i \in 1 .. 2 : \A k \in DOMAIN Structure :
         (Structure[k].place = i /\ ~Structure[k].isMvp) <=> k = i

\* The order of the positions leaves none of them out.
LEMMA InOrderOnto ==
    ASSUME NEW H \in SUBSET Nat, IsFiniteSet(H), NEW i \in H
    PROVE  \E k \in 1 .. Cardinality(H) : InOrder(H)[k] = i
<1> DEFINE n == Cardinality(H)
           f == InOrder(H)
<1>1. /\ n \in Nat /\ f \in [1 .. n -> H]
      /\ \A a, b \in 1 .. n : a < b => f[a] < f[b]
  BY InOrderIs
<1> HIDE DEF n, f
<1>2. ASSUME NEW a \in 1 .. n, NEW b \in 1 .. n, f[a] = f[b]
      PROVE  a = b
  <2>0. f[a] \in H /\ f[b] \in H
    BY <1>1
  <2>1. f[a] \in Nat /\ f[b] \in Nat
    BY <2>0
  <2>2. a \in Nat /\ b \in Nat
    BY <1>1
  <2> QED
    BY <1>1, <1>2, <2>1, <2>2
<1>3. f \in Injection(1 .. n, H)
  BY <1>1, <1>2 DEF Injection, IsInjective
<1>4. IsFiniteSet(1 .. n) /\ Cardinality(1 .. n) = n
  BY <1>1, FS_Interval
<1>5. f \in Surjection(1 .. n, H)
  BY <1>3, <1>4, FS_Injection DEF n
<1> QED
  BY <1>5 DEF Surjection, n, f

\* Who holds one place of a structure has one prize, of its share.
LEMMA HolderPaid ==
    ASSUME NEW P, NEW structure \in Seq(PlaceRow),
           NEW holders \in [DOMAIN structure -> P \cup {Nobody}], NEW d \in Nat,
           NEW i \in DOMAIN structure, holders[i] # Nobody,
           \A j \in DOMAIN structure : holders[j] = holders[i] => j = i
    PROVE  OwedOnce(Distribution(structure, holders, d), holders[i],
                    (d * structure[i].percentage) \div 100, 0)
<1> DEFINE H == {h \in DOMAIN structure : holders[h] # Nobody}
           given == InOrder(H)
           n == Cardinality(H)
           prizes == Distribution(structure, holders, d)
<1>1. IsFiniteSet(DOMAIN structure) /\ DOMAIN structure = 1 .. Len(structure)
  BY ShareType
<1>2. H \in SUBSET Nat /\ IsFiniteSet(H) /\ i \in H
  BY <1>1, FS_Subset
<1>3. /\ n \in Nat /\ given \in [1 .. n -> H]
      /\ \A a, b \in 1 .. n : a < b => given[a] < given[b]
  <2> HIDE DEF H
  <2> QED
    BY <1>2, InOrderIs
<1>4. PICK k \in 1 .. n : given[k] = i
  <2> HIDE DEF H
  <2> QED
    BY <1>2, InOrderOnto
<1>5. prizes = [m \in 1 .. n |->
                  [player |-> holders[given[m]],
                   amount |-> (d * structure[given[m]].percentage) \div 100,
                   status |-> "pending"]]
  <2>1. DOMAIN given = 1 .. n
    BY <1>3
  <2> QED
    BY <2>1 DEF Distribution
<1>6. ASSUME NEW l \in 1 .. n, holders[given[l]] = holders[i]
      PROVE  l = k
  <2>1. given[l] \in H /\ given[l] \in Nat /\ l \in Nat /\ k \in Nat
    BY <1>2, <1>3
  <2>2. given[l] = i
    BY <1>6, <2>1
  <2> HIDE DEF given, H, n
  <2> QED
    BY <1>2, <1>3, <1>4, <2>1, <2>2
<1> HIDE DEF given, H, n, prizes
<1>7. DOMAIN prizes = 1 .. n
  BY <1>5
<1>8. /\ prizes[k].player = holders[i]
      /\ prizes[k].amount = (d * structure[i].percentage) \div 100
  BY <1>4, <1>5
<1>9. \A l \in 1 .. n : prizes[l].player = holders[given[l]]
  BY <1>5
<1> QED
  BY <1>6, <1>7, <1>8, <1>9 DEF prizes, OwedOnce

\* The placed registrations, and the prizes of their placements.
PlacedIn(en) == {p \in Entrants_ : en[p].place > 0}

PrizesAt(en, d) == TournamentPrizes(Structure, [p \in PlacedIn(en) |-> en[p].place], d)

\* Every registration is placed as the bracket says, and has no prize yet.
AllPlaced(en, b, w) ==
    \A p \in Entrants_ :
       /\ en[p].place = IF p \in Registered(en) THEN finalPlacement(b, p) ELSE 0
       /\ w[p] = 0

\* The prizes of the placements: the first and the second are owed, and no more
\* than there is.
LEMMA PrizesOwed ==
    ASSUME PodiumFirst, NEW reg, NEW b, NEW n, Started(reg, b, n), NEW d \in Nat, NEW en,
           NEW w, AllPlaced(en, b, w)
    PROVE  Owing(en, b, PrizesAt(en, d), d, w) /\ totalDistribution(PrizesAt(en, d)) <= d
<1> DEFINE placed == PlacedIn(en)
           placement == [p \in placed |-> en[p].place]
           prizes == PrizesAt(en, d)
           at1(e) == {p \in DOMAIN placement : placement[p] = e.place /\ ~e.isMvp}
           holders == [i \in DOMAIN Structure |->
                         IF at1(Structure[i]) = {} THEN Nobody
                         ELSE CHOOSE p \in at1(Structure[i]) : TRUE]
<1>1. Structure \in Seq(PlaceRow) /\ Total(Percentages(Structure)) <= 100
  BY TournamentAssumption DEF PlaceRow, Percentages
<1>2. Nobody \notin Entrants_
  BY BracketAssumption DEF Nobody, NoPlayer
<1>3. \A i \in DOMAIN Structure : at1(Structure[i]) \in SUBSET Entrants_
  BY DEF PlacedIn
<1>4. \A i \in DOMAIN Structure :
        /\ holders[i] \in at1(Structure[i]) \cup {Nobody}
        /\ at1(Structure[i]) # {} => holders[i] \in at1(Structure[i])
  <2> HIDE DEF at1
  <2> QED
    OBVIOUS
<1>5. holders \in [DOMAIN Structure -> Entrants_ \cup {Nobody}]
  <2>1. holders = [i \in DOMAIN Structure |-> holders[i]]
    OBVIOUS
  <2> HIDE DEF holders, at1
  <2> QED
    BY <1>3, <1>4, <2>1
<1>6. prizes = Distribution(Structure, holders, d)
  BY DEF TournamentPrizes, PrizesAt
<1>7. \A i \in DOMAIN Structure : \A p :
        p \in at1(Structure[i])
          <=> /\ p \in Entrants_ /\ en[p].place > 0 /\ en[p].place = Structure[i].place
              /\ ~Structure[i].isMvp
  BY DEF PlacedIn
<1>0. \A p \in Entrants_ :
        /\ en[p].place = IF p \in Registered(en) THEN finalPlacement(b, p) ELSE 0
        /\ w[p] = 0
  BY DEF AllPlaced
<1> HIDE DEF holders, at1, prizes
<1>8. totalDistribution(prizes) <= d
  <2>1. totalDistribution(prizes) <= Total(Share(Structure, d))
    BY <1>1, <1>5, <1>6, DistributionIs
  <2>2. Total(Share(Structure, d)) <= d
    BY <1>1, SharesAtMost
  <2>3. Total(Share(Structure, d)) \in Nat
    BY <1>1, ShareType, TotalType
  <2>4. totalDistribution(prizes) \in Nat
    <3>1. prizes \in Seq(Entry(Entrants_))
      BY <1>1, <1>5, <1>6, DistributionIs
    <3> QED
      BY <3>1, AmountsType
  <2> QED
    BY <2>1, <2>2, <2>3, <2>4
<1>9. ASSUME NEW i \in 1 .. 2, NEW p \in Registered(en), finalPlacement(b, p) = i
      PROVE  OwedOnce(prizes, p, PrizeOf(d, i), w[p])
  <2>0. p \in Entrants_ /\ en[p].place = i
    BY <1>0, <1>9 DEF Registered
  <2>1. i \in DOMAIN Structure /\ Structure[i].place = i /\ ~Structure[i].isMvp
    <3>1. DOMAIN Structure = 1 .. Len(Structure) /\ Len(Structure) \in Nat
      BY <1>1
    <3>2. i \in DOMAIN Structure
      BY <3>1 DEF PodiumFirst
    <3> QED
      BY <3>2 DEF PodiumFirst
  <2>2. p \in at1(Structure[i])
    BY <1>7, <2>0, <2>1
  <2>3. holders[i] = p
    <3>1. holders[i] \in at1(Structure[i])
      BY <1>4, <2>1, <2>2
    <3>2. /\ holders[i] \in Entrants_ /\ en[holders[i]].place = i
          /\ en[holders[i]].place > 0
      BY <1>7, <2>1, <3>1
    <3>3. finalPlacement(b, holders[i]) = i
      BY <1>0, <2>1, <3>2
    <3> QED
      BY <1>9, <3>3, OnePerPlace
  <2>4. ASSUME NEW j \in DOMAIN Structure, holders[j] = holders[i]
        PROVE  j = i
    <3>1. p \in at1(Structure[j])
      BY <1>2, <1>4, <2>0, <2>3, <2>4
    <3>2. Structure[j].place = i /\ ~Structure[j].isMvp
      BY <1>7, <2>0, <3>1
    <3> QED
      BY <3>2 DEF PodiumFirst
  <2>5. holders[i] # Nobody
    BY <1>2, <2>0, <2>3
  <2>6. OwedOnce(Distribution(Structure, holders, d), holders[i],
                 (d * Structure[i].percentage) \div 100, 0)
    BY <1>1, <1>5, <2>1, <2>4, <2>5, HolderPaid
  <2> QED
    BY <1>0, <1>6, <2>0, <2>3, <2>6 DEF PrizeOf
<1>10. Owing(en, b, prizes, d, w)
  BY <1>9 DEF Owing
<1> QED
  BY <1>8, <1>10 DEF prizes

\* A prize that is credited is no longer owed.
LEMMA CreditOwed ==
    ASSUME NEW P, NEW ps \in Seq(Entry(P)), ps # <<>>, NEW p, NEW a, NEW won, NEW won2,
           OwedOnce(ps, p, a, won),
           won2 = IF p = Head(ps).player THEN won + Head(ps).amount ELSE won
    PROVE  OwedOnce(Tail(ps), p, a, won2)
<1> DEFINE n == Len(ps)
           rest == Tail(ps)
<1>1. n \in Nat \ {0} /\ DOMAIN ps = 1 .. n /\ Head(ps) = ps[1] /\ 1 \in DOMAIN ps
  OBVIOUS
<1>2. /\ DOMAIN rest = 1 .. n - 1
      /\ \A k \in DOMAIN rest : rest[k] = ps[k + 1]
  <2>1. rest \in Seq(Entry(P)) /\ Len(rest) = n - 1
    BY <1>1
  <2>2. \A k \in 1 .. n - 1 : rest[k] = ps[k + 1]
    BY <1>1
  <2> QED
    BY <2>1, <2>2
<1> HIDE DEF rest
<1>3. \A k \in DOMAIN rest : k + 1 \in DOMAIN ps /\ k + 1 # 1
  BY <1>1, <1>2
<1>4. CASE won = a /\ \A k \in DOMAIN ps : ps[k].player # p
  <2>1. won2 = a
    BY <1>1, <1>4
  <2>2. \A k \in DOMAIN rest : rest[k].player # p
    BY <1>2, <1>3, <1>4
  <2> QED
    BY <2>1, <2>2 DEF OwedOnce, rest
<1>5. CASE /\ won = 0
           /\ \E k \in DOMAIN ps : /\ ps[k].player = p /\ ps[k].amount = a
                                   /\ \A l \in DOMAIN ps : ps[l].player = p => l = k
  <2>1. PICK k \in DOMAIN ps : /\ ps[k].player = p /\ ps[k].amount = a
                               /\ \A l \in DOMAIN ps : ps[l].player = p => l = k
    BY <1>5
  <2>2. CASE k = 1
    <3>0. ps[1].amount \in Nat
      <4>1. ps[1] \in Entry(P)
        BY <1>1
      <4> QED
        BY <4>1 DEF Entry
    <3>1. won2 = a
      BY <1>1, <1>5, <2>1, <2>2, <3>0
    <3>2. \A l \in DOMAIN rest : rest[l].player # p
      BY <1>2, <1>3, <2>1, <2>2
    <3> QED
      BY <3>1, <3>2 DEF OwedOnce, rest
  <2>3. CASE k # 1
    <3>1. won2 = 0
      BY <1>1, <1>5, <2>1, <2>3
    <3>2. k - 1 \in DOMAIN rest /\ (k - 1) + 1 = k
      BY <1>1, <1>2, <2>3
    <3>3. rest[k - 1].player = p /\ rest[k - 1].amount = a
      BY <1>2, <2>1, <3>2
    <3>4. ASSUME NEW l \in DOMAIN rest, rest[l].player = p
          PROVE  l = k - 1
      <4>1. l + 1 = k
        BY <1>2, <1>3, <2>1, <3>4
      <4> QED
        BY <1>1, <1>2, <4>1
    <3> QED
      BY <3>1, <3>2, <3>3, <3>4 DEF OwedOnce, rest
  <2> QED
    BY <2>2, <2>3
<1> QED
  BY <1>4, <1>5 DEF OwedOnce

-----------------------------------------------------------------------------
(* One request at a time: what fits, while a tournament goes to its prizes   *)

Calm == overlaps = 0 /\ cupFaults = 0

Untouched(en, w) == \A p \in Entrants_ : en[p].place = 0 /\ w[p] = 0

\* What of the escrow is for the prizes, before and after its release.
Pot(e) == IF e.status = "released" THEN e.deposited - e.fee ELSE e.balance - PlatformFee(e)

Early == {"draft", "registration_open", "registration_closed"}

\* The calls of advanceRound from the first placement to the release.
PrizeRun == {"place", "readChest", "release"}

\* The calls up to which the row is remembered as it was loaded.
Unsaved == {"findEntry", "lockFunds", "deposit", "deduct", "saveEntry", "savePool", "seed",
            "createMatches"}

RowFits(row, e, en, w) ==
    /\ row.status \in Early => Untouched(en, w)
    /\ row.status = "completed" => Owing(en, row.bracket, <<>>, Pot(e), w)

\* Placements are given, out of a locked escrow, where nobody has one or a prize.
RunFits(k, j, e, en, w) ==
    /\ k \in {"place", "readChest"} =>
         \A p \in Entrants_ :
            /\ w[p] = 0
            /\ en[p].place = IF (k = "place" /\ p \in j.players) \/ p \notin Registered(en)
                             THEN 0 ELSE finalPlacement(j.row.bracket, p)
    /\ k = "release" => /\ Owing(en, j.row.bracket, j.prizes, Pot(e), w)
                        /\ totalDistribution(j.prizes) <= Pot(e)

ChestFits(e) ==
    /\ e.status \in {"created", "active", "locked"} => e.fee = 0
    /\ e.status \in {"active", "locked"} => e.balance > 0

\* The tables, while the only request awaits k.
TableFits(k, c, e, en, w) ==
    /\ ChestFits(e)
    /\ RowFits(c, e, en, w)
    /\ c.status = "completed" => k = "idle"
    /\ e.status = "locked" => k \in PrizeRun \/ Untouched(en, w)

\* What it remembers.
CallFits(k, j, c, e, en, w) ==
    /\ k \in Unsaved => j.row = c
    /\ k # "idle" /\ j.row.status # "completed" => Places(j.seen) = Places(en)
    /\ k = "seed" => c.status = "registration_closed"
    /\ k \in {"saveBracket", "lockChest"} => Untouched(en, w)
    /\ k = "saveBracket" => j.row.status = "bracket_generated"
    /\ k = "saveRow" => RowFits(j.row, e, en, w)
    /\ k \in PrizeRun \cup {"credit"} =>
         j.row.status = "completed" /\ c.status = "in_progress"
    /\ k = "credit" => Owing(en, j.row.bracket, j.prizes, Pot(e), w)
    /\ e.status = "locked" => RunFits(k, j, e, en, w)

Fits(k, j, c, e, en, w) == TableFits(k, c, e, en, w) /\ CallFits(k, j, c, e, en, w)

FitsNow(k, j) == Fits(k, j, cup, chest, entry, Wins(purse))

\* While nothing overlapped and nothing failed.
QuietInv ==
    Calm =>
      /\ (\A q \in Organizers : at[q] = "idle") => FitsNow("idle", NotHeld)
      /\ \A q \in Organizers : at[q] # "idle" => FitsNow(at[q], held[q])

\* The request goes on, or settles, and fits.
FitsOn(r) ==
    \E k, j : Await(r, k, j) /\ Fits(k, j, cup', chest', entry', Wins(purse'))

NextQuiet(r) == CupMoney /\ SeenKnown /\ NextSound /\ FitsNow(at[r], held[r])

\* Calls after which nothing but the tables has to fit.
QuietCalls == Steps \ (PrizeRun \cup {"seed", "saveBracket", "lockChest", "saveRow", "credit"})

LEMMA PassFits ==
    ASSUME NEW r \in Organizers, NEW k \in QuietCalls, NEW j, Await(r, k, j),
           TableFits(at[r], cup', chest', entry', Wins(purse')),
           at[r] \notin PrizeRun, k \in Unsaved => j.row = cup',
           k # "idle" => cup'.status # "completed",
           k # "idle" /\ j.row.status # "completed" => Places(j.seen) = Places(entry')
    PROVE  FitsOn(r)
<1> DEFINE en == entry'
           w == Wins(purse')
<1> HIDE DEF en, w
<1>1. TableFits(k, cup', chest', en, w)
  BY DEF TableFits, en, w
<1>2. CallFits(k, j, cup', chest', en, w)
  BY DEF CallFits, RunFits, QuietCalls, PrizeRun, en
<1> QED
  BY <1>1, <1>2 DEF FitsOn, Fits, en, w

LEMMA IdleFits ==
    ASSUME NEW i, NEW j, NEW c, NEW e, NEW en, NEW w, Fits("idle", i, c, e, en, w)
    PROVE  Fits("idle", j, c, e, en, w)
BY DEF Fits, CallFits, RunFits, Unsaved, PrizeRun

\* Registrations and fees leave placements and winnings alone.
LEMMA PlacesStay ==
    ASSUME NextSound, NEW p, NEW s, entry' = [entry EXCEPT ![p].status = s]
    PROVE  Places(entry') = Places(entry)
<1>1. EntriesAre(entry)
  BY DEF NextSound, NextPaid, CupTypes
<1>2. \A q \in Entrants_ : entry'[q].place = entry[q].place
  BY <1>1 DEF EntriesAre
<1> QED
  BY <1>2 DEF Places

LEMMA WinsStay ==
    ASSUME NextSound, NEW p, NEW op \in {"lockFunds", "unlockFunds", "deductEntryFee"}, NEW a,
           purse' = [purse EXCEPT ![p] = After(op, @, a)]
    PROVE  Wins(purse') = Wins(purse)
<1>1. purse \in [Entrants_ -> WalletRow]
  BY DEF NextSound, NextPaid, CupTypes
<1>2. \A w \in WalletRow : After(op, w, a).winnings = w.winnings
  BY DEF After, WalletRow
<1>3. \A q \in Entrants_ : purse'[q] = IF q = p THEN After(op, purse[q], a) ELSE purse[q]
  BY <1>1
<1>4. \A q \in Entrants_ : purse'[q].winnings = purse[q].winnings
  BY <1>1, <1>2, <1>3
<1> QED
  BY <1>4 DEF Wins

LEMMA PurseCallFits ==
    ASSUME NextSound, NEW r \in Organizers, NEW p, NEW done, NEW refused,
           NEW op \in {"lockFunds", "unlockFunds", "deductEntryFee"},
           PurseCall(r, op, p, done, refused)
    PROVE  /\ cup' = cup /\ chest' = chest /\ entry' = entry /\ Wins(purse') = Wins(purse)
           /\ Await(r, done, held[r]) \/ Await(r, refused, held[r])
<1>1. /\ cup' = cup /\ chest' = chest /\ entry' = entry
      /\ Await(r, done, held[r]) \/ Await(r, refused, held[r])
      /\ purse' = purse \/ purse' = [purse EXCEPT ![p] = After(op, @, Fee)]
  BY DEF PurseCall
<1>2. CASE purse' = purse
  BY <1>1, <1>2
<1>3. CASE purse' = [purse EXCEPT ![p] = After(op, @, Fee)]
  BY <1>1, <1>3, WinsStay
<1> QED
  BY <1>1, <1>2, <1>3

\* Only placements and winnings matter, while the tournament is not completed.
LEMMA TableStays ==
    ASSUME NEW k, NEW c, NEW e, NEW w, NEW en, NEW en2, TableFits(k, c, e, en, w),
           Places(en2) = Places(en), c.status # "completed"
    PROVE  TableFits(k, c, e, en2, w)
<1>1. \A p \in Entrants_ : en2[p].place = en[p].place
  <2>1. \A p \in Entrants_ : Places(en2)[p] = en2[p].place /\ Places(en)[p] = en[p].place
    BY DEF Places
  <2> QED
    BY <2>1
<1>2. Untouched(en, w) => Untouched(en2, w)
  BY <1>1 DEF Untouched
<1> QED
  BY <1>2 DEF TableFits, RowFits

\* A request that goes on after a call that changes no table it looks at.
LEMMA SameFits ==
    ASSUME NEW r \in Organizers, NextQuiet(r), at[r] \notin PrizeRun, NEW k \in QuietCalls,
           NEW j, Await(r, k, j), k \in Unsaved => j.row = cup,
           k # "idle" /\ j.row.status # "completed" => Places(j.seen) = Places(entry),
           cup.status # "completed", cup' = cup, chest' = chest, Places(entry') = Places(entry),
           Wins(purse') = Wins(purse)
    PROVE  FitsOn(r)
<1>1. TableFits(at[r], cup, chest, entry, Wins(purse))
  BY DEF NextQuiet, FitsNow, Fits
<1>2. TableFits(at[r], cup, chest, entry', Wins(purse))
  BY <1>1, TableStays
<1>3. TableFits(at[r], cup', chest', entry', Wins(purse'))
  BY <1>2
<1> QED
  BY <1>3, PassFits

LEMMA RunningFits ==
    ASSUME NEW r \in Organizers, NextQuiet(r), at[r] # "idle"
    PROVE  /\ cup.status # "completed" /\ (at[r] \in Unsaved => held[r].row = cup)
           /\ held[r].row.status # "completed" => Places(held[r].seen) = Places(entry)
BY DEF NextQuiet, FitsNow, Fits, TableFits, CallFits

\* Calls of registerPlayer and cancelTournament on wallets and registrations.
LEMMA PlainFits ==
    ASSUME NEW r \in Organizers, NextQuiet(r), PlainCall(r), ~CreditWinner(r)
    PROVE  FitsOn(r)
<1>1. NextSound
  BY DEF NextQuiet
<1>2. /\ at[r] # "idle" /\ at[r] \notin PrizeRun
      /\ at[r] \in {"findEntry", "lockFunds", "deduct", "saveEntry", "rollback",
                    "findEntries", "unlock", "saveWithdrawn"}
  BY DEF PlainCall, FindEntry, LockFee, DeductEntryFee, SaveEntry, RollbackEntry, FindEntries,
         UnlockFee, SaveWithdrawal, PrizeRun
<1>3. /\ cup.status # "completed" /\ (at[r] \in Unsaved => held[r].row = cup)
      /\ held[r].row.status # "completed" => Places(held[r].seen) = Places(entry)
  BY <1>2, RunningFits
<1>4. CASE FindEntry(r)
  <2>1. /\ at[r] = "findEntry" /\ cup' = cup /\ chest' = chest /\ entry' = entry /\ purse' = purse
        /\ Await(r, "lockFunds", held[r]) \/ Await(r, "idle", held[r])
    BY <1>4 DEF FindEntry, cupTables
  <2> QED
    BY <1>2, <1>3, <2>1, SameFits DEF QuietCalls, Steps, PrizeRun, Unsaved
<1>5. ASSUME NEW p, NEW op \in {"lockFunds", "unlockFunds", "deductEntryFee"},
             NEW done \in {"deposit", "saveEntry", "idle", "saveWithdrawn"},
             NEW refused \in {"idle", "rollback"}, PurseCall(r, op, p, done, refused),
             done \in {"deposit", "saveEntry"} => at[r] \in {"lockFunds", "deduct"}
      PROVE  FitsOn(r)
  <2>1. /\ cup' = cup /\ chest' = chest /\ entry' = entry /\ Wins(purse') = Wins(purse)
        /\ Await(r, done, held[r]) \/ Await(r, refused, held[r])
    BY <1>1, <1>5, PurseCallFits
  <2>2. /\ done \in QuietCalls /\ refused \in QuietCalls /\ refused \notin Unsaved
        /\ done \in Unsaved => held[r].row = cup
    BY <1>3, <1>5 DEF QuietCalls, Steps, PrizeRun, Unsaved
  <2> QED
    BY <1>2, <1>3, <2>1, <2>2, SameFits
<1>10. CASE LockFee(r) \/ DeductEntryFee(r) \/ RollbackEntry(r) \/ UnlockFee(r)
  BY <1>5, <1>10 DEF LockFee, DeductEntryFee, RollbackEntry, UnlockFee
<1>6. CASE SaveEntry(r)
  <2>1. /\ at[r] = "saveEntry" /\ cup' = cup /\ chest' = chest /\ purse' = purse
        /\ Await(r, "savePool", held[r]) \/ Await(r, "rollback", held[r])
        /\ \/ entry' = entry
           \/ entry' = [entry EXCEPT ![The(held[r].players)].status = "confirmed"]
    BY <1>6 DEF SaveEntry
  <2>2. Places(entry') = Places(entry)
    BY <1>1, <2>1, PlacesStay
  <2> QED
    BY <1>2, <1>3, <2>1, <2>2, SameFits DEF QuietCalls, Steps, PrizeRun, Unsaved
<1>7. \A ps : NextReturn(ps) \in QuietCalls /\ NextReturn(ps) \notin Unsaved
  BY DEF NextReturn, QuietCalls, Steps, PrizeRun, Unsaved
<1>11. HeldIs(held[r])
  BY DEF NextQuiet, CupMoney, CupTypes
<1>12. ASSUME NEW ps
       PROVE  /\ [held[r] EXCEPT !.players = ps].row = held[r].row
              /\ [held[r] EXCEPT !.players = ps].seen = held[r].seen
  BY <1>11 DEF HeldIs
<1>8. CASE FindEntries(r)
  <2>1. PICK j : Await(r, NextReturn(Confirmed), j) /\ j.row = held[r].row /\ j.seen = held[r].seen
    BY <1>8, <1>12 DEF FindEntries
  <2>2. cup' = cup /\ chest' = chest /\ entry' = entry /\ purse' = purse
    BY <1>8 DEF FindEntries, cupTables
  <2> QED
    BY <1>2, <1>3, <1>7, <2>1, <2>2, SameFits
<1>9. CASE SaveWithdrawal(r)
  <2>a. PICK p : /\ entry' = [entry EXCEPT ![p].status = "withdrawn"]
                 /\ Await(r, NextReturn(held[r].players \ {p}),
                          [held[r] EXCEPT !.players = @ \ {p}])
    BY <1>9 DEF SaveWithdrawal
  <2> DEFINE ps == held[r].players \ {p}
             j == [held[r] EXCEPT !.players = ps]
  <2>1. Await(r, NextReturn(ps), j)
    BY <2>a
  <2>b. j.row = held[r].row /\ j.seen = held[r].seen
    <3> HIDE DEF ps
    <3> QED
      BY <1>12
  <2> HIDE DEF ps, j
  <2>2. cup' = cup /\ chest' = chest /\ purse' = purse
    BY <1>9 DEF SaveWithdrawal
  <2>3. Places(entry') = Places(entry)
    BY <1>1, <2>a, PlacesStay
  <2> QED
    BY <1>2, <1>3, <1>7, <2>1, <2>b, <2>2, <2>3, SameFits
<1> QED
  BY <1>4, <1>6, <1>8, <1>9, <1>10 DEF PlainCall

\* Operations that begin.
LEMMA LoadFits ==
    ASSUME NEW r \in Organizers, NextQuiet(r), cup.status # "completed",
           \/ RegisterPlayer(r) \/ StartTournament(r) \/ CancelTournament(r)
    PROVE  FitsOn(r)
<1>a. PICK k \in {"findEntry", "createMatches", "refund"} : \E ps : LoadCup(r, k, ps)
  BY DEF RegisterPlayer, StartTournament, CancelTournament
<1>1. PICK ps : LoadCup(r, k, ps)
  BY <1>a
<1> DEFINE j == [NotHeld EXCEPT !.row = cup, !.seen = entry, !.players = ps]
<1>2. /\ at[r] = "idle" /\ Await(r, k, j) /\ cup' = cup /\ chest' = chest /\ entry' = entry
      /\ purse' = purse
  BY <1>1 DEF LoadCup, cupTables
<1>3. j.row = cup /\ j.seen = entry
  BY DEF NotHeld
<1>4. k \in QuietCalls /\ at[r] \notin PrizeRun
  BY <1>2 DEF QuietCalls, Steps, PrizeRun
<1> HIDE DEF j
<1> QED
  BY <1>2, <1>3, <1>4, SameFits

LEMMA WindowFits ==
    ASSUME NEW r \in Organizers, NextQuiet(r), OpenRegistration(r) \/ CloseRegistration(r)
    PROVE  FitsOn(r)
<1> DEFINE en == entry
           w == Wins(purse)
<1>1. /\ cup.status \in {"draft", "registration_open"} /\ at[r] = "idle"
      /\ cup' = cup /\ chest' = chest /\ entry' = entry /\ purse' = purse
  BY DEF OpenRegistration, CloseRegistration, cupTables
<1>2. PICK s \in Early : Await(r, "saveRow", [NotHeld EXCEPT !.row = [cup EXCEPT !.status = s],
                                                        !.seen = entry])
  BY DEF OpenRegistration, CloseRegistration, Early
<1> DEFINE row == [cup EXCEPT !.status = s]
           j == [NotHeld EXCEPT !.row = row, !.seen = entry]
<1>3. j.row = row /\ row.status = s /\ j.seen = entry
  BY DEF NotHeld, NextQuiet, NextSound, NextPaid, PaidInv, RowPaid, IsCupRow
<1>4. Await(r, "saveRow", j)
  BY <1>2
<1> HIDE DEF row, j
<1>a. Places(j.seen) = Places(en)
  BY <1>3
<1>5. TableFits("idle", cup, chest, en, w)
  BY <1>1 DEF NextQuiet, FitsNow, Fits
<1> HIDE DEF en, w
<1>6. Untouched(en, w)
  BY <1>1, <1>5 DEF TableFits, RowFits, Early
<1>7. TableFits("saveRow", cup, chest, en, w)
  BY <1>1, <1>5, <1>6 DEF TableFits
<1>8. RowFits(j.row, chest, en, w)
  BY <1>3, <1>6 DEF RowFits, Early
<1>9. CallFits("saveRow", j, cup, chest, en, w)
  BY <1>8, <1>a DEF CallFits, RunFits, Unsaved, PrizeRun
<1> QED
  BY <1>1, <1>4, <1>7, <1>9 DEF FitsOn, Fits, en, w

\* A save of the row writes back the registrations, or is refused.
LEMMA SaveIs ==
    ASSUME NEW r \in Organizers, NEW row, NEW next, NEW refused, SaveCup(r, row, next, refused)
    PROVE  /\ chest' = chest /\ purse' = purse
           /\ \/ cup' = cup /\ entry' = entry /\ Await(r, refused, held[r])
              \/ cup' = row /\ entry' = held[r].seen /\ Await(r, next, held[r])
BY DEF SaveCup

LEMMA RefusedFits ==
    ASSUME NEW r \in Organizers, NextQuiet(r), at[r] \notin PrizeRun \cup {"idle"},
           NEW k \in {"idle", "rollback"}, Await(r, k, held[r]),
           cup' = cup, entry' = entry, chest' = chest, purse' = purse
    PROVE  FitsOn(r)
<1>1. /\ cup.status # "completed"
      /\ held[r].row.status # "completed" => Places(held[r].seen) = Places(entry)
  BY RunningFits
<1> QED
  BY <1>1, SameFits DEF QuietCalls, Steps, PrizeRun, Unsaved

\* The tables after a row that is not completed was saved.
LEMMA SavedFits ==
    ASSUME NEW r \in Organizers, NextQuiet(r), at[r] \notin PrizeRun \cup {"idle"}, NEW row,
           RowFits(row, chest, entry, Wins(purse)), row.status # "completed",
           held[r].row.status # "completed"
    PROVE  TableFits("idle", row, chest, held[r].seen, Wins(purse))
<1> DEFINE w == Wins(purse)
<1>1. TableFits(at[r], cup, chest, entry, w) /\ Places(held[r].seen) = Places(entry)
  BY RunningFits DEF NextQuiet, FitsNow, Fits
<1> HIDE DEF w
<1>2. TableFits("idle", row, chest, entry, w)
  BY <1>1 DEF TableFits, w
<1> QED
  BY <1>1, <1>2, TableStays DEF w

LEMMA SaveRowFits ==
    ASSUME NEW r \in Organizers, NextQuiet(r), SaveRow(r)
    PROVE  FitsOn(r)
<1> DEFINE w == Wins(purse)
           row == held[r].row
           seen == held[r].seen
<1>1. /\ at[r] = "saveRow" /\ chest' = chest /\ purse' = purse
      /\ \/ cup' = cup /\ entry' = entry /\ Await(r, "idle", held[r])
         \/ cup' = row /\ entry' = seen /\ Await(r, "idle", held[r])
  BY SaveIs DEF SaveRow
<1>2. TableFits("saveRow", cup, chest, entry, w) /\ CallFits("saveRow", held[r], cup, chest, entry, w)
  BY <1>1 DEF NextQuiet, FitsNow, Fits
<1>3. RowFits(row, chest, entry, w)
  BY <1>2 DEF CallFits
<1>4. CASE cup' = cup /\ entry' = entry /\ Await(r, "idle", held[r])
  BY <1>1, <1>4, RefusedFits DEF PrizeRun
<1>5. CASE cup' = row /\ entry' = seen /\ Await(r, "idle", held[r])
  <2>1. ASSUME row.status = "completed"
        PROVE  TableFits("idle", row, chest, seen, w)
    <3>1. chest.status = "released"
      BY <1>1, <2>1 DEF NextQuiet, NextSound, NextPaid, PaidInv, RowPaid, Paying
    <3>2. Owing(seen, row.bracket, <<>>, Pot(chest), w)
      <4>1. Registered(seen) \in SUBSET Registered(entry)
        BY DEF NextQuiet, SeenKnown
      <4>2. Owing(entry, row.bracket, <<>>, Pot(chest), w)
        BY <1>3, <2>1 DEF RowFits
      <4> QED
        BY <4>1, <4>2 DEF Owing
    <3> HIDE DEF row, seen, w
    <3>3. TableFits("idle", row, chest, seen, w)
      BY <1>2, <2>1, <3>1, <3>2 DEF TableFits, RowFits, Early, ChestFits
    <3> QED
      BY <3>3
  <2>2. ASSUME row.status # "completed"
        PROVE  TableFits("idle", row, chest, seen, w)
    BY <1>1, <1>3, <2>2, SavedFits DEF PrizeRun
  <2>3. TableFits("idle", row, chest, seen, w)
    BY <2>1, <2>2
  <2> HIDE DEF row, seen, w
  <2>4. CallFits("idle", held[r], row, chest, seen, w)
    BY DEF CallFits, RunFits, Unsaved, PrizeRun
  <2> QED
    BY <1>1, <1>5, <2>3, <2>4 DEF FitsOn, Fits, w
<1> QED
  BY <1>1, <1>4, <1>5

LEMMA SavePoolFits ==
    ASSUME NEW r \in Organizers, NextQuiet(r), SavePool(r)
    PROVE  FitsOn(r)
<1>1. /\ at[r] = "savePool" /\ chest' = chest /\ purse' = purse
      /\ \/ cup' = cup /\ entry' = entry /\ Await(r, "rollback", held[r])
         \/ cup' = held[r].row /\ entry' = held[r].seen /\ Await(r, "idle", held[r])
  BY SaveIs DEF SavePool
<1>2. /\ held[r].row = cup /\ cup.status # "completed"
      /\ held[r].row.status # "completed" => Places(held[r].seen) = Places(entry)
  BY <1>1, RunningFits DEF Unsaved
<1>3. CASE cup' = cup /\ entry' = entry /\ Await(r, "rollback", held[r])
  BY <1>1, <1>3, RefusedFits DEF PrizeRun
<1>4. CASE cup' = held[r].row /\ entry' = held[r].seen /\ Await(r, "idle", held[r])
  <2>1. /\ at[r] \notin PrizeRun /\ cup' = cup /\ Wins(purse') = Wins(purse)
        /\ Places(entry') = Places(entry)
    BY <1>1, <1>2, <1>4 DEF PrizeRun
  <2> QED
    BY <1>1, <1>2, <1>4, <2>1, SameFits DEF QuietCalls, Steps, PrizeRun, Unsaved
<1> QED
  BY <1>1, <1>3, <1>4

LEMMA SaveBracketFits ==
    ASSUME NEW r \in Organizers, NextQuiet(r), SaveBracket(r)
    PROVE  FitsOn(r)
<1> DEFINE w == Wins(purse)
           row == held[r].row
           seen == held[r].seen
<1>1. /\ at[r] = "saveBracket" /\ chest' = chest /\ purse' = purse
      /\ \/ cup' = cup /\ entry' = entry /\ Await(r, "idle", held[r])
         \/ cup' = row /\ entry' = seen /\ Await(r, "lockChest", held[r])
  BY SaveIs DEF SaveBracket
<1>2. TableFits("saveBracket", cup, chest, entry, w)
      /\ CallFits("saveBracket", held[r], cup, chest, entry, w)
  BY <1>1 DEF NextQuiet, FitsNow, Fits
<1>3. row.status = "bracket_generated" /\ Untouched(entry, w)
  BY <1>2 DEF CallFits
<1>4. CASE cup' = cup /\ entry' = entry /\ Await(r, "idle", held[r])
  BY <1>1, <1>4, RefusedFits DEF PrizeRun
<1>5. CASE cup' = row /\ entry' = seen /\ Await(r, "lockChest", held[r])
  <2>1. TableFits("idle", row, chest, seen, w)
    <3>1. RowFits(row, chest, entry, w) /\ row.status # "completed"
      <4> HIDE DEF w, row
      <4> QED
        BY <1>3 DEF RowFits
    <3> QED
      BY <1>1, <3>1, SavedFits DEF PrizeRun
  <2>2. Untouched(seen, w)
    <3>1. Places(seen) = Places(entry)
      BY <1>2, <1>3 DEF CallFits
    <3>2. \A p \in Entrants_ : Places(seen)[p] = seen[p].place /\ Places(entry)[p] = entry[p].place
      BY DEF Places
    <3> QED
      BY <1>3, <3>1, <3>2 DEF Untouched
  <2> HIDE DEF row, seen, w
  <2>3. TableFits("lockChest", row, chest, seen, w)
    BY <1>3, <2>1, <2>2 DEF TableFits
  <2>4. CallFits("lockChest", held[r], row, chest, seen, w)
    BY <2>2 DEF CallFits, RunFits, Unsaved, PrizeRun, seen
  <2> QED
    BY <1>1, <1>5, <2>3, <2>4 DEF FitsOn, Fits, w
<1> QED
  BY <1>1, <1>4, <1>5

LEMMA SaveCancellationFits ==
    ASSUME NEW r \in Organizers, NextQuiet(r), SaveCancellation(r)
    PROVE  FitsOn(r)
<1> DEFINE w == Wins(purse)
           row == [held[r].row EXCEPT !.status = "cancelled"]
           seen == held[r].seen
<1>1. /\ at[r] = "saveCancelled" /\ chest' = chest /\ purse' = purse
      /\ \/ cup' = cup /\ entry' = entry /\ Await(r, "idle", held[r])
         \/ cup' = row /\ entry' = seen /\ Await(r, "idle", held[r])
  BY SaveIs DEF SaveCancellation
<1>2. row.status = "cancelled" /\ chest.status = "refunded"
  BY <1>1 DEF NextQuiet, NextSound, NextPaid, PaidInv, RowPaid, IsCupRow, CupMoney, Links,
              LinkOf, Returning
<1>3. TableFits("saveCancelled", cup, chest, entry, w)
  BY <1>1 DEF NextQuiet, FitsNow, Fits
<1> HIDE DEF w, row
<1>4. CASE cup' = cup /\ entry' = entry /\ Await(r, "idle", held[r])
  BY <1>1, <1>4, RefusedFits DEF PrizeRun
<1>5. CASE cup' = row /\ entry' = seen /\ Await(r, "idle", held[r])
  <2>1. TableFits("idle", row, chest, seen, w)
    BY <1>2, <1>3 DEF TableFits, RowFits, Early
  <2>2. CallFits("idle", held[r], row, chest, seen, w)
    BY DEF CallFits, RunFits, Unsaved, PrizeRun
  <2> QED
    BY <1>1, <1>5, <2>1, <2>2 DEF FitsOn, Fits, w
<1> QED
  BY <1>1, <1>4, <1>5

\* The escrow takes deposits while it is created or active, is locked where no
\* placement is given yet, and refunds what it holds.
LEMMA DepositFits ==
    ASSUME NEW r \in Organizers, NextQuiet(r), DepositEntryFee(r)
    PROVE  FitsOn(r)
<1> DEFINE en == entry
           w == Wins(purse)
<1>1. /\ at[r] = "deposit" /\ cup' = cup /\ entry' = entry /\ purse' = purse
      /\ chest \in EscrowRow /\ chest.balance \in Nat /\ Fee \in Nat \ {0}
  BY TournamentAssumption DEF DepositEntryFee, ChestCall, NextQuiet, CupMoney, CupTypes
<1>2. \/ chest' = chest /\ Await(r, "rollback", held[r])
      \/ /\ canDeposit(chest) /\ chest' = AfterDeposit(chest, Fee)
         /\ Await(r, "deduct", held[r])
  BY DEF DepositEntryFee, ChestCall
<1>3. /\ cup.status # "completed" /\ held[r].row = cup
      /\ held[r].row.status # "completed" => Places(held[r].seen) = Places(entry)
  BY <1>1, RunningFits DEF Unsaved
<1>4. CASE chest' = chest /\ Await(r, "rollback", held[r])
  BY <1>1, <1>3, <1>4, SameFits DEF QuietCalls, Steps, PrizeRun, Unsaved
<1>5. CASE /\ canDeposit(chest) /\ chest' = AfterDeposit(chest, Fee)
           /\ Await(r, "deduct", held[r])
  <2>1. /\ chest'.status = "active" /\ chest'.fee = chest.fee
        /\ chest'.balance = chest.balance + Fee
    BY <1>1, <1>5 DEF canDeposit, AfterDeposit, EscrowRow
  <2>2. TableFits("deposit", cup, chest, en, w)
    BY <1>1 DEF NextQuiet, FitsNow, Fits
  <2> HIDE DEF en, w
  <2>3. ChestFits(chest')
    <3>1. chest.fee = 0
      BY <1>5, <2>2 DEF TableFits, ChestFits, canDeposit
    <3>2. chest'.balance > 0
      BY <1>1, <2>1
    <3> QED
      BY <2>1, <3>1, <3>2 DEF ChestFits
  <2>4. RowFits(cup, chest', en, w)
    BY <1>3, <2>2 DEF TableFits, RowFits
  <2>5. TableFits("deposit", cup, chest', en, w)
    BY <1>3, <2>1, <2>3, <2>4 DEF TableFits
  <2> QED
    BY <1>1, <1>3, <1>5, <2>5, PassFits DEF QuietCalls, Steps, PrizeRun, Unsaved, en, w
<1> QED
  BY <1>2, <1>4, <1>5

LEMMA LockChestFits ==
    ASSUME NEW r \in Organizers, NextQuiet(r), LockChest(r)
    PROVE  FitsOn(r)
<1> DEFINE en == entry
           w == Wins(purse)
<1>1. /\ at[r] = "lockChest" /\ cup' = cup /\ entry' = entry /\ purse' = purse
      /\ Await(r, "idle", held[r]) /\ chest \in EscrowRow
      /\ \/ chest' = chest
         \/ chest.status = "active" /\ chest' = WithStatus(chest, "locked")
  BY DEF LockChest, ChestCall, NextQuiet, CupMoney, CupTypes
<1>2. /\ TableFits("lockChest", cup, chest, en, w)
      /\ CallFits("lockChest", held[r], cup, chest, en, w)
  BY <1>1 DEF NextQuiet, FitsNow, Fits
<1> HIDE DEF en, w
<1>3. Untouched(en, w) /\ cup.status # "completed" /\ ChestFits(chest)
  BY <1>2 DEF CallFits, TableFits
<1>4. ChestFits(chest')
  BY <1>1, <1>3 DEF ChestFits, WithStatus, EscrowRow
<1>5. TableFits("idle", cup, chest', en, w)
  BY <1>3, <1>4 DEF TableFits, RowFits
<1>6. CallFits("idle", held[r], cup, chest', en, w)
  BY DEF CallFits, RunFits, Unsaved, PrizeRun
<1> QED
  BY <1>1, <1>5, <1>6 DEF FitsOn, Fits, en, w

LEMMA RefundFits ==
    ASSUME NEW r \in Organizers, NextQuiet(r), RefundChest(r)
    PROVE  FitsOn(r)
<1> DEFINE en == entry
           w == Wins(purse)
<1>1. /\ at[r] = "refund" /\ cup' = cup /\ entry' = entry /\ purse' = purse
      /\ chest \in EscrowRow /\ ChestIs(chest)
  BY DEF RefundChest, ChestCall, NextQuiet, CupMoney, CupTypes
<1>2. \/ chest' = chest /\ Await(r, "idle", held[r])
      \/ /\ canRefund(chest) /\ chest' = AfterRefund(chest, chest.deposited)
         /\ Await(r, "findEntries", held[r])
  BY DEF RefundChest, ChestCall
<1>3. /\ cup.status # "completed"
      /\ held[r].row.status # "completed" => Places(held[r].seen) = Places(entry)
  BY <1>1, RunningFits
<1>4. CASE chest' = chest /\ Await(r, "idle", held[r])
  BY <1>1, <1>3, <1>4, SameFits DEF QuietCalls, Steps, PrizeRun, Unsaved
<1>5. CASE /\ canRefund(chest) /\ chest' = AfterRefund(chest, chest.deposited)
           /\ Await(r, "findEntries", held[r])
  <2>1. chest'.status = "refunded"
    BY <1>1, <1>5 DEF canRefund, AfterRefund, EscrowRow, ChestIs
  <2>2. TableFits("refund", cup, chest, en, w)
    BY <1>1 DEF NextQuiet, FitsNow, Fits
  <2> HIDE DEF en, w
  <2>3. TableFits("refund", cup, chest', en, w)
    BY <1>3, <2>1, <2>2 DEF TableFits, RowFits, ChestFits
  <2> QED
    BY <1>1, <1>3, <1>5, <2>3, PassFits DEF QuietCalls, Steps, PrizeRun, Unsaved, en, w
<1> QED
  BY <1>2, <1>4, <1>5

LEMMA GenerateFits ==
    ASSUME NEW r \in Organizers, NextQuiet(r), GenerateBracket(r)
    PROVE  FitsOn(r)
<1> DEFINE en == entry
           w == Wins(purse)
           j == [NotHeld EXCEPT !.row = cup, !.seen = entry, !.players = {}]
<1>1. /\ cup.status = "registration_closed" /\ at[r] = "idle" /\ Await(r, "seed", j)
      /\ cup' = cup /\ chest' = chest /\ entry' = entry /\ purse' = purse
  BY DEF GenerateBracket, canGenerateBracket, LoadCup, cupTables
<1>2. TableFits("idle", cup, chest, en, w)
  BY <1>1 DEF NextQuiet, FitsNow, Fits
<1>5. j.row = cup /\ j.seen = en
  BY DEF NotHeld
<1> HIDE DEF en, w, j
<1>3. TableFits("seed", cup, chest, en, w)
  BY <1>1, <1>2 DEF TableFits, PrizeRun
<1>4. CallFits("seed", j, cup, chest, en, w)
  BY <1>1, <1>5 DEF CallFits, RunFits, Unsaved, PrizeRun
<1> QED
  BY <1>1, <1>3, <1>4 DEF FitsOn, Fits, en, w

LEMMA SeedFits ==
    ASSUME NEW r \in Organizers, NextQuiet(r), SeedPlayers(r)
    PROVE  FitsOn(r)
<1> DEFINE en == entry
           w == Wins(purse)
<1>1. /\ at[r] = "seed" /\ cup' = cup /\ chest' = chest /\ entry' = entry /\ purse' = purse
  <2>1. UNCHANGED <<cupTables, cupFaults, strays>> /\ at[r] = "seed"
    BY DEF SeedPlayers
  <2> QED
    BY <2>1 DEF cupTables
<1>2. /\ TableFits("seed", cup, chest, en, w) /\ CallFits("seed", held[r], cup, chest, en, w)
      /\ IsCupRow(held[r].row) /\ HeldIs(held[r])
  BY <1>1 DEF NextQuiet, FitsNow, Fits, NextSound, NextPaid, PaidInv, RowPaid, CupTypes
<1>5. /\ cup.status = "registration_closed" /\ held[r].row = cup
      /\ Places(held[r].seen) = Places(entry)
  <2> HIDE DEF en, w
  <2>1. cup.status = "registration_closed" /\ held[r].row = cup
    BY <1>2 DEF CallFits, Unsaved
  <2> QED
    BY <1>2, <2>1 DEF CallFits, en
<1>3. CASE Cardinality(Confirmed) >= MinEntries
  <2>1. PICK seeds \in SetToSeqs(Confirmed) :
          Await(r, "saveBracket",
                [held[r] EXCEPT !.row.bracket = generateBracketStructure(seeds),
                                !.row.status = "bracket_generated"])
    BY <1>3 DEF SeedPlayers
  <2> DEFINE b == generateBracketStructure(seeds)
             j == [held[r] EXCEPT !.row.bracket = b, !.row.status = "bracket_generated"]
  <2>2. j.row.status = "bracket_generated" /\ j.seen = held[r].seen
    <3> HIDE DEF b
    <3> QED
      BY <1>2 DEF HeldIs, IsCupRow
  <2>3. Await(r, "saveBracket", j)
    BY <2>1
  <2> HIDE DEF j, en, w
  <2>4. Untouched(en, w)
    BY <1>2 DEF TableFits, CallFits, RowFits, Early
  <2>5. TableFits("saveBracket", cup, chest, en, w)
    BY <1>2, <2>4 DEF TableFits
  <2>6. CallFits("saveBracket", j, cup, chest, en, w)
    BY <1>5, <2>2, <2>4 DEF CallFits, RunFits, Unsaved, PrizeRun, en
  <2> QED
    BY <1>1, <2>3, <2>5, <2>6 DEF FitsOn, Fits, en, w
<1>4. CASE ~(Cardinality(Confirmed) >= MinEntries)
  <2>1. Await(r, "idle", NotHeld)
    BY <1>4 DEF SeedPlayers
  <2> QED
    BY <1>1, <1>5, <2>1, SameFits DEF QuietCalls, Steps, PrizeRun, Unsaved
<1> QED
  BY <1>3, <1>4

LEMMA CreateMatchesFits ==
    ASSUME NEW r \in Organizers, NextQuiet(r), CreateMatches(r)
    PROVE  FitsOn(r)
<1> DEFINE en == entry
           w == Wins(purse)
           j == [held[r] EXCEPT !.row.status = "in_progress"]
<1>1. /\ at[r] = "createMatches" /\ cup' = cup /\ chest' = chest /\ entry' = entry
      /\ purse' = purse
  BY DEF CreateMatches, cupTables
<1>2. Await(r, "idle", NotHeld) \/ Await(r, "saveRow", j)
  BY DEF CreateMatches
<1>3. /\ TableFits("createMatches", cup, chest, en, w)
      /\ IsCupRow(held[r].row) /\ HeldIs(held[r])
  BY <1>1 DEF NextQuiet, FitsNow, Fits, NextSound, NextPaid, PaidInv, RowPaid, CupTypes
<1>4. j.row.status = "in_progress" /\ j.seen = held[r].seen
  BY <1>3 DEF HeldIs, IsCupRow
<1>7. cup.status # "completed" /\ Places(held[r].seen) = Places(entry)
  BY <1>1, RunningFits DEF Unsaved
<1> HIDE DEF j, en, w
<1>5. CASE Await(r, "idle", NotHeld)
  BY <1>1, <1>5, <1>7, SameFits DEF QuietCalls, Steps, PrizeRun, Unsaved
<1>6. CASE Await(r, "saveRow", j)
  <2>1. TableFits("saveRow", cup, chest, en, w)
    BY <1>3 DEF TableFits, PrizeRun
  <2>2. CallFits("saveRow", j, cup, chest, en, w)
    BY <1>4, <1>7 DEF en, CallFits, RowFits, Early, RunFits, Unsaved, PrizeRun
  <2> QED
    BY <1>1, <1>6, <2>1, <2>2 DEF FitsOn, Fits, en, w
<1> QED
  BY <1>2, <1>5, <1>6

\* A decided final leads to the placements, another report to the row alone.
LEMMA AdvanceFits ==
    ASSUME NEW r \in Organizers, NextQuiet(r), AdvanceRound(r)
    PROVE  FitsOn(r)
<1> DEFINE en == entry
           w == Wins(purse)
           Completes(row) == row.status = "completed"
           Placed(row) == {p \in Entrants_ : Completes(row) /\ finalPlacement(row.bracket, p) > 0}
<1>1. /\ at[r] = "idle" /\ cup' = cup /\ chest' = chest /\ entry' = entry /\ purse' = purse
      /\ cup.status = "in_progress"
  <2>1. UNCHANGED <<cupTables, cupFaults>> /\ at[r] = "idle" /\ cup.status = "in_progress"
    BY DEF AdvanceRound
  <2> QED
    BY <2>1 DEF cupTables
<1>2. PICK results :
        Await(r, IF Completes(Reported(cup, results)) THEN NextPlace(Placed(Reported(cup, results)))
                 ELSE "saveRow",
              [NotHeld EXCEPT !.row = Reported(cup, results), !.seen = entry,
                              !.players = Placed(Reported(cup, results))])
  BY DEF AdvanceRound
<1> DEFINE row == Reported(cup, results)
           ps == Placed(row)
           j == [NotHeld EXCEPT !.row = row, !.seen = entry, !.players = ps]
           k == IF Completes(row) THEN NextPlace(ps) ELSE "saveRow"
<1>3. IsCupRow(cup) /\ TableFits("idle", cup, chest, en, w)
  BY <1>1 DEF NextQuiet, FitsNow, Fits, NextSound, NextPaid, PaidInv, RowPaid
<1>4. row.status = "completed" \/ row.status = "in_progress"
  BY <1>1, <1>3 DEF Reported, IsCupRow
<1> HIDE DEF row
<1>5. Await(r, k, j)
  BY <1>2 DEF row
<1>6. j.row = row /\ j.players = ps /\ j.seen = entry
  <2> HIDE DEF ps
  <2> QED
    BY DEF NotHeld
<1> HIDE DEF j, w
<1>7. CASE Completes(row)
  <2> DEFINE h == NextPlace(ps)
  <2>1. Await(r, h, j)
    BY <1>5, <1>7
  <2>2. \A p \in Entrants_ : finalPlacement(row.bracket, p) \in Nat
    <3>1. Goes
      BY AdvanceGoes DEF NextQuiet, Goes
    <3>2. SoundInv'
      BY <3>1, AdvanceRoundSound DEF NextQuiet
    <3>3. h # "idle"
      BY DEF NextPlace
    <3>4. held'[r] = j
      <4> HIDE DEF h
      <4> QED
        BY <2>1, <3>3 DEF Await, NextQuiet, NextSound, NextPaid, CupTypes
    <3>5. RowSound(strays', Registered(entry'), at'[r], j.row)
      BY <3>2, <3>4 DEF SoundInv
    <3>6. HasBracket(strays', Registered(entry'), row)
      BY <1>6, <1>7, <3>5 DEF RowSound, Bracketed
    <3> QED
      BY <3>6, PlacementType DEF HasBracket
  <2>3. \A p \in Entrants_ : p \notin ps => finalPlacement(row.bracket, p) = 0
    BY <1>7, <2>2
  <2> HIDE DEF ps
  <2>4. chest.status = "locked" => Untouched(en, w)
    BY <1>3 DEF TableFits, PrizeRun
  <2>5. h \in {"place", "readChest"} /\ (h = "readChest" => ps = {})
    BY DEF NextPlace
  <2> HIDE DEF h
  <2>6. TableFits(h, cup, chest, en, w)
    BY <1>1, <1>3, <2>5 DEF TableFits, PrizeRun
  <2>7. chest.status = "locked" => RunFits(h, j, chest, en, w)
    BY <1>6, <2>3, <2>4, <2>5 DEF RunFits, Untouched
  <2>8. CallFits(h, j, cup, chest, en, w)
    BY <1>1, <1>6, <1>7, <2>5, <2>7 DEF CallFits, Unsaved, PrizeRun
  <2> QED
    BY <1>1, <2>1, <2>6, <2>8 DEF FitsOn, Fits, w
<1>8. CASE ~Completes(row)
  <2>1. Await(r, "saveRow", j)
    BY <1>5, <1>8
  <2>2. TableFits("saveRow", cup, chest, en, w)
    BY <1>1, <1>3 DEF TableFits, PrizeRun
  <2>3. RowFits(j.row, chest, en, w)
    BY <1>4, <1>6, <1>8 DEF RowFits, Early
  <2>4. CallFits("saveRow", j, cup, chest, en, w)
    BY <1>6, <2>3 DEF CallFits, RunFits, Unsaved, PrizeRun
  <2> QED
    BY <1>1, <2>1, <2>2, <2>4 DEF FitsOn, Fits, w
<1> QED
  BY <1>7, <1>8

LEMMA PlaceFits ==
    ASSUME NEW r \in Organizers, NextQuiet(r), PlacePlayer(r)
    PROVE  FitsOn(r)
<1> DEFINE en == entry
           en2 == entry'
           w == Wins(purse)
           b == held[r].row.bracket
<1>1. at[r] = "place" /\ cup' = cup /\ chest' = chest /\ purse' = purse
  BY DEF PlacePlayer
<1>2. PICK p \in held[r].players :
        /\ entry' = [entry EXCEPT ![p].place = IF entry[p].status = "none" THEN @
                                                ELSE finalPlacement(b, p)]
        /\ Await(r, NextPlace(held[r].players \ {p}),
                 [held[r] EXCEPT !.players = held[r].players \ {p}])
  BY DEF PlacePlayer
<1> DEFINE left == held[r].players \ {p}
           k == NextPlace(left)
           j == [held[r] EXCEPT !.players = left]
<1>3. EntriesAre(entry) /\ HeldIs(held[r])
      /\ TableFits("place", cup, chest, en, w) /\ CallFits("place", held[r], cup, chest, en, w)
  BY <1>1 DEF NextQuiet, FitsNow, Fits, NextSound, NextPaid, CupTypes
<1>4. /\ \A q \in Entrants_ : en2[q].status = en[q].status
      /\ \A q \in Entrants_ :
           en2[q].place = IF q = p /\ en[p].status # "none" THEN finalPlacement(b, p)
                          ELSE en[q].place
  <2> DEFINE new == IF entry[p].status = "none" THEN entry[p].place ELSE finalPlacement(b, p)
  <2>1. entry' = [entry EXCEPT ![p].place = new]
    BY <1>2
  <2> HIDE DEF new, b
  <2>2. \A q \in Entrants_ : entry[q] = [f \in {"status", "place"} |-> entry[q][f]]
    BY <1>3 DEF EntriesAre
  <2>3. \A q \in Entrants_ : /\ entry'[q].status = entry[q].status
                             /\ entry'[q].place = IF q = p THEN new ELSE entry[q].place
    BY <1>3, <2>1, <2>2 DEF EntriesAre
  <2> QED
    BY <2>3 DEF new
<1>11. Registered(en2) = Registered(en)
  BY <1>4 DEF Registered
<1>5. Await(r, k, j)
  BY <1>2
<1>6. j.row = held[r].row /\ j.players = left /\ j.seen = held[r].seen
  <2> HIDE DEF left
  <2> QED
    BY <1>3 DEF HeldIs
<1>7. k \in {"place", "readChest"} /\ (k = "readChest" => left = {})
  BY DEF NextPlace
<1> HIDE DEF j, en, en2, w, k
<1>12. held[r].row.status = "completed" /\ cup.status = "in_progress"
  BY <1>3 DEF CallFits, PrizeRun
<1>8. TableFits(k, cup, chest, en2, w)
  BY <1>3, <1>7, <1>12 DEF TableFits, RowFits, Early, PrizeRun
<1>9. chest.status = "locked" => RunFits(k, j, chest, en2, w)
  <2> SUFFICES ASSUME chest.status = "locked", NEW q \in Entrants_
               PROVE  /\ w[q] = 0
                      /\ en2[q].place = IF (k = "place" /\ q \in left) \/ q \notin Registered(en)
                                        THEN 0 ELSE finalPlacement(b, q)
    BY <1>6, <1>7, <1>11 DEF RunFits
  <2>1. w[q] = 0 /\ en[q].place = IF q \in held[r].players \/ q \notin Registered(en) THEN 0
                                  ELSE finalPlacement(b, q)
    BY <1>3 DEF CallFits, RunFits
  <2>0. q \in Registered(en) <=> en[q].status # "none"
    BY DEF Registered
  <2> HIDE DEF b
  <2>2. CASE q = p
    BY <1>4, <2>0, <2>1, <2>2
  <2>3. CASE q # p
    <3>1. q \in left <=> q \in held[r].players
      BY <2>3
    <3>2. k = "place" \/ (k = "readChest" /\ q \notin left)
      BY <1>7
    <3>3. en2[q].place = en[q].place
      BY <1>4, <2>3
    <3> HIDE DEF left
    <3> QED
      BY <2>1, <3>1, <3>2, <3>3
  <2> QED
    BY <2>2, <2>3
<1>10. CallFits(k, j, cup, chest, en2, w)
  BY <1>6, <1>7, <1>9, <1>12 DEF CallFits, Unsaved, PrizeRun
<1> QED
  BY <1>1, <1>5, <1>8, <1>10 DEF FitsOn, Fits, en2, w

LEMMA ReadChestFits ==
    ASSUME PodiumFirst, NEW r \in Organizers, NextQuiet(r), ReadChest(r)
    PROVE  FitsOn(r)
<1> DEFINE en == entry
           w == Wins(purse)
           b == held[r].row.bracket
           d == chest.balance - PlatformFee(chest)
           prizes == PrizesAt(en, d)
           j == [held[r] EXCEPT !.prizes = prizes]
<1>1. /\ at[r] = "readChest" /\ cup' = cup /\ chest' = chest /\ purse' = purse
      /\ entry' = entry
  BY DEF ReadChest, cupTables
<1>2. Await(r, "release", j)
  BY DEF ReadChest, PrizesAt, PlacedIn
<1>3. /\ HeldIs(held[r]) /\ chest \in EscrowRow /\ chest.balance \in Nat
      /\ TableFits("readChest", cup, chest, en, w)
      /\ CallFits("readChest", held[r], cup, chest, en, w)
      /\ SoundInv
  BY <1>1 DEF NextQuiet, FitsNow, Fits, NextSound, NextPaid, CupTypes
<1>4. d \in Nat
  BY <1>3, FeeOfPot
<1>5. held[r].row.status = "completed" /\ cup.status = "in_progress"
  BY <1>3 DEF CallFits, PrizeRun
<1>6. PICK n : Started(Registered(entry), b, n)
  BY <1>3, <1>5 DEF SoundInv, RowSound, HasBracket, Bracketed
<1> HIDE DEF prizes
<1>7. j.row = held[r].row /\ j.prizes = prizes
  BY <1>3 DEF HeldIs
<1> HIDE DEF j, en, w, d
<1>8. chest.status = "locked" => Owing(en, b, prizes, d, w) /\ totalDistribution(prizes) <= d
  <2> SUFFICES ASSUME chest.status = "locked"
               PROVE  Owing(en, b, prizes, d, w) /\ totalDistribution(prizes) <= d
    OBVIOUS
  <2>1. AllPlaced(en, b, w)
    BY <1>3 DEF CallFits, RunFits, AllPlaced
  <2> HIDE DEF b
  <2> QED
    BY <1>4, <1>6, <2>1, PrizesOwed DEF prizes
<1>9. chest.status = "locked" => d = Pot(chest)
  BY DEF Pot, d
<1>10. TableFits("release", cup, chest, en, w)
  BY <1>3, <1>5 DEF TableFits, PrizeRun
<1>11. chest.status = "locked" => RunFits("release", j, chest, en, w)
  BY <1>7, <1>8, <1>9 DEF RunFits
<1>12. CallFits("release", j, cup, chest, en, w)
  BY <1>5, <1>7, <1>11 DEF CallFits, Unsaved, PrizeRun
<1> QED
  BY <1>1, <1>2, <1>10, <1>12 DEF FitsOn, Fits, en, w

\* A locked escrow is released: it holds something, and the prizes are no more.
LEMMA ReleaseFits ==
    ASSUME NEW r \in Organizers, NextQuiet(r), ReleaseChest(r)
    PROVE  FitsOn(r)
<1> DEFINE en == entry
           w == Wins(purse)
           row == held[r].row
           prizes == held[r].prizes
           total == totalDistribution(prizes)
           fee == PlatformFee(chest)
           k == IF prizes = <<>> THEN "saveRow" ELSE "credit"
<1>1. at[r] = "release" /\ cup' = cup /\ entry' = entry /\ purse' = purse
  BY DEF ReleaseChest, ChestCall
<1>2. \/ /\ canRelease(chest) /\ chest' = AfterRelease(chest, total, fee)
         /\ Await(r, k, held[r])
      \/ /\ ~(canRelease(chest) /\ total <= chest.balance - fee)
         /\ chest' = chest /\ Await(r, "idle", held[r])
  BY DEF ReleaseChest, ChestCall
<1>3. /\ chest \in EscrowRow /\ chest.balance \in Nat /\ ChestIs(chest)
      /\ TableFits("release", cup, chest, en, w)
      /\ CallFits("release", held[r], cup, chest, en, w)
  BY <1>1 DEF NextQuiet, FitsNow, Fits, CupMoney, CupTypes
<1>4. fee \in Nat
  BY <1>3, FeeOfPot
<1> HIDE DEF en, w, fee
<1>5. row.status = "completed" /\ cup.status = "in_progress"
  BY <1>3 DEF CallFits, PrizeRun
<1>6. chest.status = "locked" => /\ Owing(en, row.bracket, prizes, Pot(chest), w)
                                 /\ total <= Pot(chest) /\ Pot(chest) = chest.balance - fee
                                 /\ chest.fee = 0 /\ chest.balance > 0
                                 /\ chest.balance = chest.deposited
  BY <1>3 DEF CallFits, RunFits, Pot, TableFits, ChestFits, ChestIs, fee
<1> HIDE DEF total
<1>7. CASE /\ canRelease(chest) /\ chest' = AfterRelease(chest, total, fee)
           /\ Await(r, k, held[r])
  <2>1. chest.status = "locked"
    BY <1>7 DEF canRelease
  <2>2. /\ chest'.status = "released" /\ chest'.deposited = chest.deposited
        /\ chest'.fee = chest.fee + fee
    BY <1>3, <1>7 DEF AfterRelease, EscrowRow
  <2>3. Pot(chest') = Pot(chest)
    BY <1>3, <1>4, <1>6, <2>1, <2>2 DEF Pot
  <2>4. Owing(en, row.bracket, prizes, Pot(chest'), w)
    BY <1>6, <2>1, <2>3
  <2>5. TableFits(k, cup, chest', en, w)
    BY <1>5, <2>2 DEF TableFits, ChestFits, RowFits, Early
  <2>6. k = "saveRow" => RowFits(row, chest', en, w)
    BY <1>5, <2>4 DEF RowFits, Early
  <2>7. CallFits(k, held[r], cup, chest', en, w)
    BY <1>5, <2>2, <2>4, <2>6 DEF CallFits, Unsaved, PrizeRun
  <2> HIDE DEF k
  <2> QED
    BY <1>1, <1>7, <2>5, <2>7 DEF FitsOn, Fits, en, w
<1>8. CASE /\ ~(canRelease(chest) /\ total <= chest.balance - fee)
           /\ chest' = chest /\ Await(r, "idle", held[r])
  <2>1. chest.status # "locked"
    BY <1>6, <1>8 DEF canRelease
  <2>2. TableFits("idle", cup, chest, en, w)
    BY <1>3, <1>5, <2>1 DEF TableFits
  <2>3. CallFits("idle", held[r], cup, chest, en, w)
    BY DEF CallFits, RunFits, Unsaved, PrizeRun
  <2> QED
    BY <1>1, <1>8, <2>2, <2>3 DEF FitsOn, Fits, en, w
<1> QED
  BY <1>2, <1>7, <1>8

LEMMA CreditFits ==
    ASSUME NEW r \in Organizers, NextQuiet(r), CreditWinner(r)
    PROVE  FitsOn(r)
<1> DEFINE en == entry
           w == Wins(purse)
           w2 == Wins(purse')
           row == held[r].row
           prizes == held[r].prizes
           prize == Head(prizes)
           left == Tail(prizes)
           d == Pot(chest)
           k == IF left = <<>> THEN "saveRow" ELSE "credit"
           j == [held[r] EXCEPT !.prizes = left]
<1>1. /\ at[r] = "credit" /\ cup' = cup /\ entry' = entry /\ chest' = chest
      /\ purse' = [purse EXCEPT ![prize.player] = After("creditPrize", @, prize.amount)]
      /\ Await(r, k, j)
  BY DEF CreditWinner, NextPrize
<1>2. /\ HeldIs(held[r]) /\ purse \in [Entrants_ -> WalletRow]
      /\ LinkOf("credit", held[r], chest.status, Registered(entry))
      /\ TableFits("credit", cup, chest, en, w) /\ CallFits("credit", held[r], cup, chest, en, w)
  BY <1>1 DEF NextQuiet, FitsNow, Fits, CupMoney, CupTypes, Links
<1>3. /\ prizes \in Seq(Entry(Entrants_)) /\ prizes # <<>> /\ chest.status = "released"
      /\ prize.amount \in Nat /\ j.row = row /\ j.prizes = left
  <2>1. prizes \in Seq(Entry(Entrants_)) /\ prizes # <<>> /\ chest.status = "released"
    BY <1>2 DEF HeldIs, LinkOf
  <2>2. prize.amount \in Nat
    BY <2>1, TailTotal
  <2> HIDE DEF left
  <2>3. j.row = row /\ j.prizes = left
    BY <1>2 DEF HeldIs
  <2> QED
    BY <2>1, <2>2, <2>3
<1> HIDE DEF j
<1>4. \A p \in Entrants_ : w2[p] = IF p = prize.player THEN w[p] + prize.amount ELSE w[p]
  <2>1. \A v \in WalletRow : After("creditPrize", v, prize.amount).winnings
                               = v.winnings + prize.amount
    BY DEF After, WalletRow
  <2>2. \A p \in Entrants_ : purse'[p] = IF p = prize.player
                                         THEN After("creditPrize", purse[p], prize.amount)
                                         ELSE purse[p]
    BY <1>1, <1>2
  <2>3. \A p \in Entrants_ : purse[p] \in WalletRow
    BY <1>2
  <2> HIDE DEF prize
  <2> QED
    BY <2>1, <2>2, <2>3 DEF Wins
<1>5. row.status = "completed" /\ cup.status = "in_progress"
      /\ Owing(en, row.bracket, prizes, d, w)
  BY <1>2 DEF CallFits
<1> HIDE DEF en, w, w2, d, k
<1>6. Owing(en, row.bracket, left, d, w2)
  <2> SUFFICES ASSUME NEW i \in 1 .. 2, NEW p \in Registered(en), finalPlacement(row.bracket, p) = i
               PROVE  OwedOnce(left, p, PrizeOf(d, i), w2[p])
    BY DEF Owing
  <2>1. OwedOnce(prizes, p, PrizeOf(d, i), w[p])
    BY <1>5 DEF Owing
  <2>2. w2[p] = IF p = prize.player THEN w[p] + prize.amount ELSE w[p]
    BY <1>4 DEF Registered
  <2> QED
    BY <1>3, <2>1, <2>2, CreditOwed
<1>7. k \in {"saveRow", "credit"} /\ (k = "saveRow" => left = <<>>)
  BY DEF k
<1> HIDE DEF left
<1>8. TableFits(k, cup, chest, en, w2)
  BY <1>2, <1>3, <1>5 DEF TableFits, RowFits, Early
<1>9. k = "saveRow" => RowFits(row, chest, en, w2)
  BY <1>5, <1>6, <1>7 DEF RowFits, Early, d
<1>10. CallFits(k, j, cup, chest, en, w2)
  BY <1>3, <1>5, <1>6, <1>7, <1>9 DEF CallFits, Unsaved, PrizeRun, d
<1> QED
  BY <1>1, <1>8, <1>10 DEF FitsOn, Fits, en, w2

-----------------------------------------------------------------------------
(* The prizes follow the bracket                                            *)

\* Every call a request makes, but a rejected one.
LEMMA CallFitsOn ==
    ASSUME PodiumFirst, NEW r \in Organizers, NextQuiet(r), CupCall(r), ~RejectCupCall(r)
    PROVE  FitsOn(r)
<1>1. CASE OpenRegistration(r) \/ CloseRegistration(r)
  BY <1>1, WindowFits
<1>2. CASE RegisterPlayer(r) \/ StartTournament(r) \/ CancelTournament(r)
  <2>1. cup.status # "completed"
    BY <1>2 DEF RegisterPlayer, isRegistrationOpen, StartTournament, CancelTournament
  <2> QED
    BY <1>2, <2>1, LoadFits
<1>3. CASE GenerateBracket(r) \/ SeedPlayers(r) \/ SaveBracket(r) \/ LockChest(r)
  BY <1>3, GenerateFits, SeedFits, SaveBracketFits, LockChestFits
<1>4. CASE CreateMatches(r) \/ AdvanceRound(r) \/ PlacePlayer(r) \/ ReadChest(r)
           \/ ReleaseChest(r) \/ CreditWinner(r)
  BY <1>4, CreateMatchesFits, AdvanceFits, PlaceFits, ReadChestFits, ReleaseFits, CreditFits
<1>5. CASE SaveRow(r) \/ SavePool(r) \/ SaveCancellation(r)
  BY <1>5, SaveRowFits, SavePoolFits, SaveCancellationFits
<1>6. CASE DepositEntryFee(r) \/ RefundChest(r)
  BY <1>6, DepositFits, RefundFits
<1>7. CASE PlainCall(r)
  BY <1>4, <1>7, PlainFits
<1> QED
  BY <1>1, <1>2, <1>3, <1>4, <1>5, <1>6, <1>7 DEF CupCall, PlainCall

\* No call starts and settles a request at once.
LEMMA CallRuns ==
    ASSUME NEW r \in Organizers, at \in [Organizers -> Steps], CupCall(r)
    PROVE  at[r] # "idle" \/ at'[r] # "idle"
<1>a. ASSUME NEW k, NEW j, Await(r, k, j)
      PROVE  at'[r] = k
  BY <1>a DEF Await
<1>1. CASE OpenRegistration(r) \/ CloseRegistration(r)
  BY <1>1, <1>a DEF OpenRegistration, CloseRegistration
<1>2. CASE RegisterPlayer(r) \/ GenerateBracket(r) \/ StartTournament(r) \/ CancelTournament(r)
  <2>1. PICK k \in {"findEntry", "seed", "createMatches", "refund"} : \E ps : LoadCup(r, k, ps)
    BY <1>2 DEF RegisterPlayer, GenerateBracket, StartTournament, CancelTournament
  <2>2. \E j : Await(r, k, j)
    BY <2>1 DEF LoadCup
  <2> QED
    BY <1>a, <2>2
<1>3. CASE AdvanceRound(r)
  <2>1. PICK k \in {"place", "readChest", "saveRow"} : \E j : Await(r, k, j)
    BY <1>3 DEF AdvanceRound, NextPlace
  <2> QED
    BY <1>a, <2>1
<1>4. CASE RejectCupCall(r)
  BY <1>4 DEF RejectCupCall
<1>5. CASE SeedPlayers(r) \/ SaveRow(r) \/ SavePool(r) \/ SaveBracket(r) \/ SaveCancellation(r)
           \/ FindEntry(r) \/ CreateMatches(r) \/ ReadChest(r) \/ FindEntries(r) \/ LockFee(r)
  BY <1>5 DEF SeedPlayers, SaveRow, SavePool, SaveBracket, SaveCancellation, FindEntry,
              CreateMatches, ReadChest, FindEntries, LockFee
<1>6. CASE DeductEntryFee(r) \/ RollbackEntry(r) \/ UnlockFee(r) \/ CreditWinner(r)
           \/ DepositEntryFee(r) \/ LockChest(r) \/ RefundChest(r) \/ ReleaseChest(r)
           \/ SaveEntry(r) \/ SaveWithdrawal(r) \/ PlacePlayer(r)
  BY <1>6 DEF DeductEntryFee, RollbackEntry, UnlockFee, CreditWinner, DepositEntryFee, LockChest,
              RefundChest, ReleaseChest, SaveEntry, SaveWithdrawal, PlacePlayer
<1> QED
  BY <1>1, <1>2, <1>3, <1>4, <1>5, <1>6 DEF CupCall

\* The one request that runs: what fitted before its call fits after it.
LEMMA AloneQuiet ==
    ASSUME PodiumFirst, CupInv, NextSound, QuietInv, NEW r \in Organizers, CupCall(r),
           ~RejectCupCall(r), Solo(at', 0), overlaps = 0, Calm'
    PROVE  QuietInv'
<1>1. /\ CupMoney /\ SeenKnown /\ at \in [Organizers -> Steps] /\ DOMAIN held = Organizers
      /\ Solo(at, 0)
  BY DEF CupInv, CupMoney, CupTypes
<1>2. Calm
  BY FaultsKept DEF Calm
<1>3. \A q \in Organizers : q # r => at[q] = "idle"
  <2>1. CASE at[r] # "idle"
    BY <1>1, <2>1 DEF Solo
  <2>2. CASE at[r] = "idle"
    <3>1. at'[r] # "idle"
      BY <1>1, <2>2, CallRuns
    <3>2. \A q \in Organizers : q # r => at'[q] = "idle"
      BY <3>1 DEF Solo
    <3>3. \A q \in Organizers : q # r => at'[q] = at[q]
      BY <1>1, CupCallAwaits
    <3> QED
      BY <3>2, <3>3
  <2> QED
    BY <2>1, <2>2
<1>4. FitsNow(at[r], held[r])
  <2>1. CASE at[r] # "idle"
    BY <1>2, <2>1 DEF QuietInv
  <2>2. CASE at[r] = "idle"
    BY <1>2, <1>3, <2>2, IdleFits DEF QuietInv, FitsNow
  <2> QED
    BY <2>1, <2>2
<1>5. FitsOn(r)
  BY <1>1, <1>4, CallFitsOn DEF NextQuiet
<1>6. PICK k, j : Await(r, k, j) /\ Fits(k, j, cup', chest', entry', Wins(purse'))
  BY <1>5 DEF FitsOn
<1>7. /\ at'[r] = k /\ (k # "idle" => held'[r] = j)
      /\ \A q \in Organizers : q # r => at'[q] = "idle"
  BY <1>1, <1>3, <1>6 DEF Await
<1>8. CASE k = "idle"
  <2>1. FitsNow("idle", NotHeld)'
    BY <1>6, <1>8, IdleFits DEF FitsNow
  <2>2. \A q \in Organizers : at'[q] = "idle"
    BY <1>7, <1>8
  <2> QED
    BY <2>1, <2>2 DEF QuietInv
<1>9. CASE k # "idle"
  <2>1. FitsNow(at[r], held[r])'
    BY <1>6, <1>7, <1>9 DEF FitsNow
  <2> QED
    BY <1>7, <1>9, <2>1 DEF QuietInv
<1> QED
  BY <1>8, <1>9

LEMMA QuietNext ==
    ASSUME PodiumFirst, CupInv, PaidInv, SoundInv, QuietInv, [TournamentNext]_cupVars
    PROVE  QuietInv'
<1>1. NextSound /\ CupMoney
  BY DEF NextPaid, NextSound, CupInv, CupMoney
<1>2. CASE UNCHANGED cupVars
  BY <1>2 DEF cupVars, QuietInv, Calm, FitsNow
<1>3. CASE TournamentNext
  <2> SUFFICES ASSUME Calm'
               PROVE  QuietInv'
    BY DEF QuietInv
  <2>1. /\ TournamentStep /\ overlaps' \in {overlaps, overlaps + 1}
        /\ overlaps \in Nat /\ cupFaults \in Nat
    BY <1>1, <1>3, CupFacts DEF TournamentNext, CupInv
  <2>2. overlaps' = 0 /\ cupFaults' = 0 /\ overlaps = 0
    BY <2>1 DEF Calm
  <2>3. ~CrashCup
    BY <2>1, <2>2 DEF CrashCup
  <2>4. PICK r \in Organizers : CupCall(r)
    BY <2>1, <2>3, CupCalls
  <2>5. ~RejectCupCall(r)
    BY <2>1, <2>2 DEF RejectCupCall
  <2>6. Solo(at', 0)
    BY <2>2, CupNextInv DEF CupInv
  <2> QED
    BY <1>1, <2>2, <2>4, <2>5, <2>6, AloneQuiet
<1> QED
  BY <1>2, <1>3

LEMMA QuietInit == TournamentInit => QuietInv
<1> SUFFICES ASSUME TournamentInit
             PROVE  QuietInv
  OBVIOUS
<1> DEFINE en == entry
           w == Wins(purse)
<1>1. /\ \A r \in Organizers : at[r] = "idle"
      /\ cup = NoCup /\ chest = NewEscrow
  BY DEF TournamentInit
<1>2. Untouched(en, w)
  <2>1. \A p \in Entrants_ : entry[p].place = 0
    BY DEF TournamentInit, NoEntries
  <2>2. \A p \in Entrants_ : purse[p].winnings = 0
    BY DEF TournamentInit, After, NewWallet
  <2> QED
    BY <2>1, <2>2 DEF Untouched, Wins
<1> HIDE DEF en, w
<1>3. TableFits("idle", cup, chest, en, w)
  BY <1>1, <1>2 DEF TableFits, ChestFits, RowFits, NoCup, NewEscrow
<1>4. CallFits("idle", NotHeld, cup, chest, en, w)
  BY DEF CallFits, RunFits, Unsaved, PrizeRun
<1> QED
  BY <1>1, <1>3, <1>4 DEF QuietInv, FitsNow, Fits, en, w

LEMMA QuietMeans ==
    ASSUME CupInv, PaidInv, SoundInv, QuietInv
    PROVE  PrizesFollowBracket
<1>1. CompletedPaid
  BY DEF PaidInv, RowPaid, CompletedPaid, Paying
<1> SUFFICES ASSUME cup.status = "completed", overlaps = 0, cupFaults = 0,
                    NEW i \in 1 .. 2, NEW p \in Starters, finalPlacement(cup.bracket, p) = i
             PROVE  purse[p].winnings = ((chest.deposited - chest.fee)
                                           * Structure[i].percentage) \div 100
  BY <1>1 DEF PrizesFollowBracket
<1>2. Calm
  BY DEF Calm
<1>3. FitsNow("idle", NotHeld)
  <2>1. \A q \in Organizers : at[q] # "idle" => FitsNow(at[q], held[q])
    BY <1>2 DEF QuietInv
  <2>2. \A q \in Organizers : at[q] = "idle"
    BY <2>1 DEF FitsNow, Fits, TableFits
  <2> QED
    BY <1>2, <2>2 DEF QuietInv
<1>4. chest.status = "released"
  BY <1>1 DEF CompletedPaid
<1>5. Owing(entry, cup.bracket, <<>>, chest.deposited - chest.fee, Wins(purse))
  <2>1. RowFits(cup, chest, entry, Wins(purse))
    BY <1>3 DEF FitsNow, Fits, TableFits
  <2> QED
    BY <1>4, <2>1 DEF RowFits, Pot
<1>6. p \in Registered(entry) /\ p \in Entrants_
  <2>1. PICK n : Started(Registered(entry), cup.bracket, n)
    BY DEF SoundInv, RowSound, Bracketed, HasBracket
  <2>2. Starters = Starting(cup.bracket)
    BY DEF Starters, Starting
  <2>3. p \in Registered(entry)
    BY <2>1, <2>2, StartersIn
  <2> QED
    BY <2>3 DEF Registered
<1>7. OwedOnce(<<>>, p, PrizeOf(chest.deposited - chest.fee, i), Wins(purse)[p])
  BY <1>5, <1>6 DEF Owing
<1>8. Wins(purse)[p] = PrizeOf(chest.deposited - chest.fee, i)
  BY <1>7 DEF OwedOnce
<1> QED
  BY <1>6, <1>8 DEF Wins, PrizeOf

\* Both strategies that pay more than the champion are such structures.
LEMMA PodiumStrategies ==
    ASSUME NEW s \in {"top_3_split", "performance_mvp"}, Structure = PrizeStructure[s]
    PROVE  PodiumFirst
<1>1. /\ Len(Structure) = 3 /\ DOMAIN Structure = {1, 2, 3}
      /\ Structure[1].place = 1 /\ ~Structure[1].isMvp
      /\ Structure[2].place = 2 /\ ~Structure[2].isMvp
      /\ Structure[3].place \notin 1 .. 2
  BY DEF PrizeStructure, Place
<1> QED
  BY <1>1 DEF PodiumFirst

\* Where no request began during another and none failed (advanceRound,
\* distributeTournamentPrizes), a completed tournament has paid the champion and
\* the player who lost the final the first and the second prize, each once, for
\* every number of players and every prize structure whose first two entries are
\* the places 1 and 2.
THEOREM PrizesCorrect ==
    ASSUME PodiumFirst
    PROVE  TournamentSpec => []PrizesFollowBracket
<1>1. TournamentInit => CupInv /\ PaidInv /\ SoundInv /\ QuietInv
  BY CupInitInv, PaidInit, SoundInit, QuietInit
<1>2. CupInv /\ PaidInv /\ SoundInv /\ QuietInv /\ [TournamentNext]_cupVars
        => (CupInv /\ PaidInv /\ SoundInv /\ QuietInv)'
  BY CupNextInv, PaidNext, SoundNext, QuietNext
<1>3. CupInv /\ PaidInv /\ SoundInv /\ QuietInv => PrizesFollowBracket
  BY QuietMeans
<1> QED
  BY <1>1, <1>2, <1>3, PTL DEF TournamentSpec
===============================================================================
