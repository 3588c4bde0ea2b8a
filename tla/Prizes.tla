-------------------------------- MODULE Prizes --------------------------------
(***************************************************************************)
(* The pure part of PrizeDistributionService: the prize structures of the   *)
(* strategies, and who gets which prize of a match or of a tournament.      *)
(***************************************************************************)
EXTENDS Integers, SequencesExt, Sums

Nobody == "nobody"

Place(place, percentage) == [place |-> place, percentage |-> percentage,
                             isMvp |-> FALSE]

\* PRIZE_STRATEGY_CONFIG
PrizeStructure ==
    [winner_takes_all |-> <<Place(1, 100)>>,
     top_3_split      |-> <<Place(1, 60), Place(2, 30), Place(3, 10)>>,
     performance_mvp  |-> <<Place(1, 70), Place(2, 20),
                            [Place(0, 10) EXCEPT !.isMvp = TRUE]>>]

\* A set of positions as a sequence, in their order.
InOrder(chosen) ==
    CHOOSE s \in [1 .. Cardinality(chosen) -> chosen] :
        \A a, b \in DOMAIN s : a < b => s[a] < s[b]

\* The prizes of a structure: holders[i] is who holds its i-th place, or Nobody.
Distribution(structure, holders, distributable) ==
    LET given == InOrder({i \in DOMAIN structure : holders[i] # Nobody})
    IN  [k \in DOMAIN given |->
           [player |-> holders[given[k]],
            amount |-> (distributable * structure[given[k]].percentage) \div 100,
            status |-> "pending"]]

\* The recipient of a match prize; rankParticipantsByResult gave the ranking.
matchRecipient(ranking, mvp, entry) ==
    IF entry.isMvp THEN mvp
    ELSE IF entry.place \in DOMAIN ranking THEN ranking[entry.place] ELSE Nobody

\* calculateMatchDistributionsByStrategy; no winners, no prizes.
MatchPrizes(strategy, ranking, mvp, distributable) ==
    IF ranking = <<>> THEN <<>>
    ELSE LET structure == PrizeStructure[strategy]
         IN  Distribution(structure,
                          [i \in DOMAIN structure |->
                             matchRecipient(ranking, mvp, structure[i])],
                          distributable)

\* calculateTournamentDistributionsByStrategy: nobody is the MVP, and a place is
\* found by the finalPlacement of the registrations (unique for 1 and 2, and no
\* place 3 is ever given: see Bracket).  Fixed amounts are not modelled.
TournamentPrizes(structure, placement, distributable) ==
    LET placed(e) == {p \in DOMAIN placement : placement[p] = e.place /\ ~e.isMvp}
    IN  Distribution(structure,
            [i \in DOMAIN structure |->
               IF placed(structure[i]) = {} THEN Nobody
               ELSE CHOOSE p \in placed(structure[i]) : TRUE],
            distributable)

Amounts(prizes) == [k \in DOMAIN prizes |-> prizes[k].amount]

totalDistribution(prizes) == Total(Amounts(prizes))
=============================================================================
