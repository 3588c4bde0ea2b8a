------------------------------- MODULE Bracket -------------------------------
(***************************************************************************)
(* The bracket of a tournament (the jsonb column of tournament.entity.ts)   *)
(* and the pure functions of TournamentService on it: a bracket is a        *)
(* sequence of rounds, a round a sequence of matches, a match the two       *)
(* players and the winner, each of which may be missing.  The status of a   *)
(* match ("pending", "bye", "completed") is written and never read.         *)
(***************************************************************************)
EXTENDS Integers, Sequences, SequencesExt, FiniteSetsExt

NoPlayer == "nobody"   \* undefined

Pairing(a, b, winner) == [p1 |-> a, p2 |-> b, winner |-> winner]

Entrants(m) == {m.p1, m.p2} \ {NoPlayer}

\* Mutant: only the first place of a pairing can have a bye.
ByeWinnerFirst(a, b) == IF b = NoPlayer THEN a ELSE NoPlayer

\* A player without an opponent wins.
ByeWinner(a, b) == IF a = NoPlayer THEN b ELSE IF b = NoPlayer THEN a ELSE NoPlayer

\* Math.pow(2, n).  Of ^ the proof system knows nothing.
Pow2(n) == LET pow[k \in 0 .. n] == IF k = 0 THEN 1 ELSE 2 * pow[k - 1]
           IN  pow[n]

\* Math.ceil(Math.log2(players))
numRounds(players) == Min({k \in 0 .. players : Pow2(k) >= players})

\* generateBracketStructure: the winners a round has when it is generated, its
\* byes, are the players of the next one.
generateBracketStructure(seeds) ==
    LET n == numRounds(Len(seeds))
        round[r \in 1 .. n] ==
            LET slots == IF r = 1
                         THEN [i \in 1 .. Pow2(n) |-> IF i <= Len(seeds) THEN seeds[i]
                                                  ELSE NoPlayer]
                         ELSE [i \in DOMAIN round[r - 1] |-> round[r - 1][i].winner]
                a(i) == slots[2 * i - 1]
                b(i) == slots[2 * i]
            IN  [i \in 1 .. Len(slots) \div 2 |->
                   Pairing(a(i), b(i), ByeWinner(a(i), b(i)))]
    IN  [r \in 1 .. n |-> round[r]]

\* The pairings a bracket has, as <<round, number>>.
Pairings(b) == UNION {{r} \X DOMAIN b[r] : r \in DOMAIN b}

\* Results, a function from pairings to winners, are written into the bracket.
WithResults(b, results) ==
    [r \in DOMAIN b |-> [i \in DOMAIN b[r] |->
        IF <<r, i>> \in DOMAIN results
        THEN [b[r][i] EXCEPT !.winner = results[<<r, i>>]] ELSE b[r][i]]]

\* The players of a round are the winners of the one before; a match that has
\* got a winner keeps it unless one of its places is empty.
Populate(round, next) ==
    [i \in DOMAIN next |->
       LET a == round[2 * i - 1].winner
           b == round[2 * i].winner
           bye == ByeWinner(a, b)
       IN  Pairing(a, b, IF bye = NoPlayer THEN next[i].winner ELSE bye)]

\* Mutant: one decided match is enough to fill the next round.
CompleteAny(round) == \E m \in Range(round) : m.winner # NoPlayer

Complete(round) == \A m \in Range(round) : m.winner # NoPlayer

\* advanceWinnersToNextRound: rounds in order, each complete one fills its
\* successor, which byes may complete in turn.
advanceWinnersToNextRound(b) ==
    LET after[i \in 0 .. Len(b) - 1] ==
            IF i = 0 THEN b
            ELSE IF Complete(after[i - 1][i])
                 THEN [after[i - 1] EXCEPT ![i + 1] = Populate(after[i - 1][i], @)]
                 ELSE after[i - 1]
    IN  after[Len(b) - 1]

FinalMatch(b) == b[Len(b)][1]

Loser(m) == IF m.p1 = m.winner THEN m.p2 ELSE m.p1

\* The rounds a player lost a match of.
RoundsLost(b, p) ==
    {r \in DOMAIN b : \E m \in Range(b[r]) : m.winner # NoPlayer /\ Loser(m) = p}

\* calculateFinalPlacements, 0 for a player it leaves without a placement.  A
\* loser of round r is placed Pow2(rounds - r + 1): 2 in the final, 4 before it.
\* The loser of the final is placed after its winner.
finalPlacement(b, p) ==
    LET lost == RoundsLost(b, p)
    IN  IF FinalMatch(b).winner = p /\ Len(b) \notin lost THEN 1
        ELSE IF lost = {} THEN 0
        ELSE Pow2(Len(b) - Max(lost) + 1)

-----------------------------------------------------------------------------
(* What a bracket should be.                                                *)

\* Each place of a later round is held by the winner of the match that feeds
\* it, or by nobody yet.
Fed(b) ==
    \A r \in 2 .. Len(b) : \A i \in DOMAIN b[r] :
        /\ b[r][i].p1 \in {NoPlayer, b[r - 1][2 * i - 1].winner}
        /\ b[r][i].p2 \in {NoPlayer, b[r - 1][2 * i].winner}

\* Every player starts in one match.
SeededOnce(b, players) ==
    \A p \in players : Cardinality({i \in DOMAIN b[1] : p \in Entrants(b[1][i])}) = 1

Undefeated(b, players) == {p \in players : RoundsLost(b, p) = {}}
=============================================================================
