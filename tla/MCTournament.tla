----------------------------- MODULE MCTournament -----------------------------
(* A tournament and, beside it, a distribution of prizes: a behaviour examines *)
(* one of the two, chosen at the start, and leaves the other where it began.   *)
EXTENDS Tournament, PrizeDistribution, TLC

VARIABLE examined

Init ==
    /\ examined \in {"tournament", "prizes"}
    /\ TournamentInit
    /\ PrizeInit
    /\ examined = "tournament" => /\ result.ranking = <<>> /\ result.mvp = Nobody
                                  /\ result.strategy = "top_3_split"
                                  /\ \A b \in Pots : pot.balance <= b

Next ==
    \/ examined = "tournament" /\ TournamentNext /\ UNCHANGED <<examined, prizeVars>>
    \/ examined = "prizes" /\ PrizeNext /\ UNCHANGED <<examined, cupVars>>

Spec == Init /\ [][Next]_<<examined, cupVars, prizeVars>>

\* The rows, the requests and the records have their types.
TypeOK == TournamentTypeOK /\ PrizeTypeOK

Top3Split == PrizeStructure.top_3_split

Symmetry == Permutations(Organizers) \cup Permutations(Entrants_)
=============================================================================
