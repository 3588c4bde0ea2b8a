------------------------------ MODULE Tournament ------------------------------
(***************************************************************************)
(* TournamentService (tournament.service.ts) on one tournament, with its    *)
(* escrow and the players' wallets.  One step per call the service awaits;  *)
(* the calls to EscrowService and PlayerWalletService are atomic, and       *)
(* distributeTournamentPrizes is reduced to what it does to escrow and      *)
(* wallets (its records are PrizeDistribution.tla).                         *)
(*                                                                          *)
(*   cup           the tournament row: status and bracket (its prizePool is *)
(*                 only displayed; Matchmaking examines that of a match)    *)
(*   entry         per player the registration row: status, finalPlacement  *)
(*   chest         the escrow row of the tournament                         *)
(*   purse         the players' wallet rows                                 *)
(*   at, held      per request: the call it awaits next, what it remembers  *)
(*   cupFaults     rejected calls and process crashes so far                *)
(*   overlaps      how often a request began while another was in progress  *)
(*   strays        history: results reported so far that no match called for *)
(*                                                                          *)
(* Time is left out: the registration window may end whenever.  Every       *)
(* bracketType is generated as single elimination, as in the code.          *)
(***************************************************************************)
EXTENDS EscrowEntity, PlayerWalletEntity, Bracket, Prizes

CONSTANTS Organizers,    \* the requests
          Entrants_,     \* the players
          Fee, MinEntries, MaxEntries,
          Structure,     \* prizeStructure of the tournament
          MinMatchFee,   \* minEntryFee of the token, which createMatch asks for
          MaxAttempts,   \* bound on the fees a player locks
          MaxCupFaults,  \* bound on the faults
          MaxOverlaps,   \* bound on the requests that begin during another
          MaxStrays      \* bound on the stray results

\* createTournament asks for the minEntryFee of the token, which is positive for
\* each of them; percentages and places are whole numbers, and it refuses a prize
\* structure that exceeds 100%.
ASSUME TournamentAssumption ==
    /\ IsFiniteSet(Organizers) /\ IsFiniteSet(Entrants_)
    /\ Fee \in Nat \ {0}
    /\ Structure \in Seq([place : Nat, percentage : Nat, isMvp : BOOLEAN])
    /\ Total([i \in DOMAIN Structure |-> Structure[i].percentage]) <= 100
    /\ MaxCupFaults \in Nat /\ MaxOverlaps \in Nat /\ MaxStrays \in Nat

\* A place of the bracket without a player holds no player; the DTO asks for two
\* participants at least (@Min(2)).
ASSUME BracketAssumption == NoPlayer \notin Entrants_ /\ MinEntries \in Nat /\ MinEntries >= 2

VARIABLES cup, entry, chest, purse, at, held, cupFaults, overlaps, strays

cupTables == <<cup, entry, chest, purse>>
cupVars == <<cup, entry, chest, purse, at, held, cupFaults, overlaps, strays>>

TournamentStatus == {"draft", "registration_open", "registration_closed",
                     "bracket_generated", "in_progress", "completed", "cancelled"}

NoCup == [status |-> "draft", bracket |-> <<>>]

Registrations == [Entrants_ -> [status : {"none", "confirmed", "withdrawn"}, place : Nat]]

NoEntries == [p \in Entrants_ |-> [status |-> "none", place |-> 0]]

\* row, seen: the tournament and its registrations as they were loaded.
NotHeld == [row |-> NoCup, seen |-> NoEntries, players |-> {}, prizes |-> <<>>]

Steps == {"idle", "saveRow", "findEntry", "lockFunds", "deposit", "deduct",
          "saveEntry", "savePool", "rollback", "seed", "saveBracket", "lockChest",
          "createMatches", "place", "readChest", "release", "credit",
          "refund", "findEntries", "unlock", "saveWithdrawn", "saveCancelled"}

TournamentTypeOK ==
    /\ cup.status \in TournamentStatus
    /\ entry \in Registrations
    /\ chest \in EscrowRow
    /\ purse \in [Entrants_ -> WalletRow]
    /\ at \in [Organizers -> Steps]
    /\ \A r \in Organizers : /\ held[r].row.status \in TournamentStatus
                             /\ held[r].seen \in Registrations
                             /\ held[r].players \subseteq Entrants_
    /\ cupFaults \in 0 .. MaxCupFaults /\ overlaps \in 0 .. MaxOverlaps
    /\ strays \in 0 .. MaxStrays

\* createTournament has run.  Everybody can pay one fee.
TournamentInit ==
    /\ cup = NoCup
    /\ entry = NoEntries
    /\ chest = NewEscrow
    /\ purse = [p \in Entrants_ |-> After("deposit", NewWallet, Fee)]
    /\ at = [r \in Organizers |-> "idle"]
    /\ held = [r \in Organizers |-> NotHeld]
    /\ cupFaults = 0
    /\ overlaps = 0
    /\ strays = 0

Confirmed == {p \in Entrants_ : entry[p].status = "confirmed"}

-----------------------------------------------------------------------------
(* Steps shared by the operations.                                          *)

\* The request awaits its next call, or settles ("idle").
Await(r, next, job) ==
    /\ at' = [at EXCEPT ![r] = next]
    /\ held' = [held EXCEPT ![r] = IF next = "idle" THEN NotHeld ELSE job]

\* getTournamentById resolved, with the registrations, and the guard passed.
LoadCup(r, next, players) ==
    /\ at[r] = "idle"
    /\ Await(r, next, [NotHeld EXCEPT !.row = cup, !.seen = entry, !.players = players])
    /\ UNCHANGED <<cupTables, cupFaults, strays>>

\* The registrations of the table that were not among the loaded ones.
Unseen(r) == {p \in Entrants_ : entry[p].status # "none" /\ held[r].seen[p].status = "none"}

\* tournamentRepository.save of the row that was loaded, with its registrations.
\* The relation cascades: a registration that was not loaded is detached, and as
\* its tournamentId may not be null the database refuses the whole save;
\* otherwise the registrations are written back as they were loaded.
SaveCup(r, row, next, refused) ==
    /\ IF Unseen(r) = {}
       THEN cup' = row /\ entry' = held[r].seen /\ Await(r, next, held[r])
       ELSE UNCHANGED <<cup, entry>> /\ Await(r, refused, held[r])
    /\ UNCHANGED <<chest, purse, cupFaults, strays>>

\* Mutant: the guards of the wallet are not asked.
PurseCallUnguarded(r, op, p, done, refused) ==
    /\ purse' = [purse EXCEPT ![p] = After(op, @, Fee)]
    /\ Await(r, done, held[r])
    /\ UNCHANGED <<cup, entry, chest, cupFaults, strays>>

\* The wallet operation op for player p, refused or not by its guard.
PurseCall(r, op, p, done, refused) ==
    /\ \/ /\ Allowed(op, purse[p], Fee)
          /\ purse' = [purse EXCEPT ![p] = After(op, @, Fee)]
          /\ Await(r, done, held[r])
       \/ /\ ~Allowed(op, purse[p], Fee)
          /\ UNCHANGED purse
          /\ Await(r, refused, held[r])
    /\ UNCHANGED <<cup, entry, chest, cupFaults, strays>>

ChestCall(r, guard, after, done, refused) ==
    /\ \/ guard /\ chest' = after /\ Await(r, done, held[r])
       \/ ~guard /\ UNCHANGED chest /\ Await(r, refused, held[r])
    /\ UNCHANGED <<cup, entry, purse, cupFaults, strays>>

The(players) == CHOOSE p \in players : TRUE

-----------------------------------------------------------------------------
(* openRegistration, closeRegistration                                      *)

OpenRegistration(r) ==
    /\ cup.status = "draft"
    /\ at[r] = "idle"
    /\ Await(r, "saveRow", [NotHeld EXCEPT
                              !.row = [cup EXCEPT !.status = "registration_open"],
                              !.seen = entry])
    /\ UNCHANGED <<cupTables, cupFaults, strays>>

CloseRegistration(r) ==
    /\ cup.status = "registration_open"
    /\ at[r] = "idle"
    /\ Await(r, "saveRow", [NotHeld EXCEPT
                              !.row = [cup EXCEPT !.status = "registration_closed"],
                              !.seen = entry])
    /\ UNCHANGED <<cupTables, cupFaults, strays>>

\* The last call of open, close, start and advance.
SaveRow(r) ==
    /\ at[r] = "saveRow"
    /\ SaveCup(r, held[r].row, "idle", "idle")

-----------------------------------------------------------------------------
(* registerPlayer                                                           *)

isRegistrationOpen == /\ cup.status = "registration_open"
                      /\ Cardinality(Confirmed) < MaxEntries

RegisterPlayer(r) ==
    /\ isRegistrationOpen
    /\ \E p \in Entrants_ : /\ purse[p].entryFees < Fee * MaxAttempts
                            /\ LoadCup(r, "findEntry", {p})

FindEntry(r) ==
    LET p == The(held[r].players)
    IN  /\ at[r] = "findEntry"
        /\ Await(r, IF entry[p].status = "none" THEN "lockFunds" ELSE "idle", held[r])
        /\ UNCHANGED <<cupTables, cupFaults, strays>>

LockFee(r) ==
    /\ at[r] = "lockFunds"
    /\ PurseCall(r, "lockFunds", The(held[r].players), "deposit", "idle")

\* Mutant: a refused deposit does not stop the registration.
DepositEntryFeeUnchecked(r) ==
    /\ at[r] = "deposit"
    /\ ChestCall(r, canDeposit(chest), AfterDeposit(chest, Fee), "deduct", "deduct")

DepositEntryFee(r) ==
    /\ at[r] = "deposit"
    /\ ChestCall(r, canDeposit(chest), AfterDeposit(chest, Fee), "deduct", "rollback")

\* Mutant: the deposited fee stays in the wallet.
DeductEntryFeeMissing(r) ==
    /\ at[r] = "deduct"
    /\ Await(r, "saveEntry", held[r])
    /\ UNCHANGED <<cupTables, cupFaults, strays>>

DeductEntryFee(r) ==
    /\ at[r] = "deduct"
    /\ PurseCall(r, "deductEntryFee", The(held[r].players), "saveEntry", "rollback")

\* The index on (tournamentId, walletId) is unique.
SaveEntry(r) ==
    LET p == The(held[r].players)
    IN  /\ at[r] = "saveEntry"
        /\ \/ /\ entry[p].status = "none"
              /\ entry' = [entry EXCEPT ![p].status = "confirmed"]
              /\ Await(r, "savePool", held[r])
           \/ /\ entry[p].status # "none"
              /\ UNCHANGED entry
              /\ Await(r, "rollback", held[r])
        /\ UNCHANGED <<cup, chest, purse, cupFaults, strays>>

\* The row, with the new pool, is written as it was loaded: without the
\* registration just inserted, so that this save is refused.
SavePool(r) ==
    /\ at[r] = "savePool"
    /\ SaveCup(r, held[r].row, "idle", "rollback")

\* The handler of the try block that starts with the deposit.
RollbackEntry(r) ==
    /\ at[r] = "rollback"
    /\ PurseCall(r, "unlockFunds", The(held[r].players), "idle", "idle")

-----------------------------------------------------------------------------
(* generateBracket, startTournament                                         *)

canGenerateBracket == /\ cup.status = "registration_closed"
                      /\ Cardinality(Confirmed) >= MinEntries

GenerateBracket(r) ==
    /\ canGenerateBracket
    /\ LoadCup(r, "seed", {})

\* Nothing sets a skill rating, so the registrations are shuffled.
SeedPlayers(r) ==
    /\ at[r] = "seed"
    /\ IF Cardinality(Confirmed) >= MinEntries
       THEN \E seeds \in SetToSeqs(Confirmed) :
              Await(r, "saveBracket",
                    [held[r] EXCEPT !.row.bracket = generateBracketStructure(seeds),
                                    !.row.status = "bracket_generated"])
       ELSE Await(r, "idle", NotHeld)
    /\ UNCHANGED <<cupTables, cupFaults, strays>>

SaveBracket(r) ==
    /\ at[r] = "saveBracket"
    /\ SaveCup(r, held[r].row, "lockChest", "idle")

LockChest(r) ==
    /\ at[r] = "lockChest"
    /\ ChestCall(r, chest.status = "active", WithStatus(chest, "locked"),
                 "idle", "idle")

StartTournament(r) ==
    /\ cup.status = "bracket_generated"
    /\ LoadCup(r, "createMatches", {})

\* createMatch is asked for matches with entry fee 0, one per full pairing of
\* the first round.  They have no other effect on the tournament.
CreateMatches(r) ==
    LET full == \E m \in Range(held[r].row.bracket[1]) : Cardinality(Entrants(m)) = 2
    IN  /\ at[r] = "createMatches"
        /\ IF full /\ MinMatchFee > 0
           THEN Await(r, "idle", NotHeld)
           ELSE Await(r, "saveRow", [held[r] EXCEPT !.row.status = "in_progress"])
        /\ UNCHANGED <<cupTables, cupFaults, strays>>

-----------------------------------------------------------------------------
(* advanceRound and distributeTournamentPrizes                              *)

\* A player of no registration.
Stranger == "stranger"

Waiting(match) == Cardinality(Entrants(match)) = 2 /\ match.winner = NoPlayer

\* A match waits for the result that one of its two players won it.
Awaited(b, m, winner) ==
    Waiting(b[m[1]][m[2]]) /\ winner \in Entrants(b[m[1]][m[2]])

\* The results that no match waits for, which are written like the others.
Stray(b, results) == {m \in DOMAIN results : ~Awaited(b, m, results[m])}

\* The loaded row after the results: completed, or its winners advanced.
Reported(row, reports) ==
    LET b == WithResults(row.bracket, reports)
    IN  IF FinalMatch(b).winner # NoPlayer
        THEN [row EXCEPT !.bracket = b, !.status = "completed"]
        ELSE [row EXCEPT !.bracket = advanceWinnersToNextRound(b)]

NextPlace(players) == IF players = {} THEN "readChest" ELSE "place"

\* Bound: what may still stray, where nothing overlaps or fails.
StraysLeft == IF overlaps = 0 /\ cupFaults = 0 THEN MaxStrays - strays ELSE 0

\* Any result is taken: for any match, with any winner.
AdvanceRound(r) ==
    /\ cup.status = "in_progress"
    /\ at[r] = "idle"
    /\ \E matches \in SUBSET {m \in Pairings(cup.bracket) :
                               StraysLeft > 0 \/ Waiting(cup.bracket[m[1]][m[2]])} :
       \E results \in [matches -> Entrants_ \cup {Stranger, NoPlayer}] :
         LET row == Reported(cup, results)
             placed == {p \in Entrants_ : row.status = "completed"
                                            /\ finalPlacement(row.bracket, p) > 0}
         IN  /\ Cardinality(Stray(cup.bracket, results)) <= StraysLeft
             /\ strays' = strays + Cardinality(Stray(cup.bracket, results))
             /\ Await(r, IF row.status = "completed" THEN NextPlace(placed) ELSE "saveRow",
                      [NotHeld EXCEPT !.row = row, !.seen = entry, !.players = placed])
    /\ UNCHANGED <<cupTables, cupFaults>>

\* calculateFinalPlacements updates one registration, if there is one, at a time.
PlacePlayer(r) ==
    /\ at[r] = "place"
    /\ \E p \in held[r].players :
         LET left == held[r].players \ {p}
         IN  /\ entry' = [entry EXCEPT ![p].place =
                            IF entry[p].status = "none" THEN @
                            ELSE finalPlacement(held[r].row.bracket, p)]
             /\ Await(r, NextPlace(left), [held[r] EXCEPT !.players = left])
    /\ UNCHANGED <<cup, chest, purse, cupFaults, strays>>

\* The registrations with a placement; the prizes of the balance.
ReadChest(r) ==
    LET placed == {p \in Entrants_ : entry[p].place > 0}
    IN  /\ at[r] = "readChest"
        /\ Await(r, "release", [held[r] EXCEPT !.prizes =
              TournamentPrizes(Structure, [p \in placed |-> entry[p].place],
                               chest.balance - PlatformFee(chest))])
        /\ UNCHANGED <<cupTables, cupFaults, strays>>

\* Mutant: the tournament is completed although the release was refused.
ReleaseChestUnchecked(r) ==
    LET total == totalDistribution(held[r].prizes)
        fee == PlatformFee(chest)
    IN  /\ at[r] = "release"
        /\ ChestCall(r, canRelease(chest) /\ total <= chest.balance - fee,
                     AfterRelease(chest, total, fee),
                     IF held[r].prizes = <<>> THEN "saveRow" ELSE "credit", "saveRow")

ReleaseChest(r) ==
    LET total == totalDistribution(held[r].prizes)
        fee == PlatformFee(chest)
    IN  /\ at[r] = "release"
        /\ ChestCall(r, canRelease(chest) /\ total <= chest.balance - fee,
                     AfterRelease(chest, total, fee),
                     IF held[r].prizes = <<>> THEN "saveRow" ELSE "credit", "idle")

\* The loop goes on with the next prize.
NextPrize(r) ==
    LET left == Tail(held[r].prizes)
    IN  Await(r, IF left = <<>> THEN "saveRow" ELSE "credit",
              [held[r] EXCEPT !.prizes = left])

\* creditPrize, and the registration's finalPlacement once more.
CreditWinner(r) ==
    LET prize == Head(held[r].prizes)
    IN  /\ at[r] = "credit"
        /\ purse' = [purse EXCEPT ![prize.player] = After("creditPrize", @, prize.amount)]
        /\ NextPrize(r)
        /\ UNCHANGED <<cup, entry, chest, cupFaults, strays>>

-----------------------------------------------------------------------------
(* cancelTournament                                                         *)

CancelTournament(r) ==
    /\ cup.status # "completed"
    /\ LoadCup(r, "refund", {})

RefundChest(r) ==
    /\ at[r] = "refund"
    /\ ChestCall(r, canRefund(chest), AfterRefund(chest, chest.deposited),
                 "findEntries", "idle")

NextReturn(players) == IF players = {} THEN "saveCancelled" ELSE "unlock"

FindEntries(r) ==
    /\ at[r] = "findEntries"
    /\ Await(r, NextReturn(Confirmed), [held[r] EXCEPT !.players = Confirmed])
    /\ UNCHANGED <<cupTables, cupFaults, strays>>

\* No try block: the first wallet that refuses ends the cancellation.
UnlockFee(r) ==
    /\ at[r] = "unlock"
    /\ \E p \in held[r].players : PurseCall(r, "unlockFunds", p, "saveWithdrawn", "idle")

SaveWithdrawal(r) ==
    /\ at[r] = "saveWithdrawn"
    /\ \E p \in held[r].players :
         /\ entry' = [entry EXCEPT ![p].status = "withdrawn"]
         /\ Await(r, NextReturn(held[r].players \ {p}),
                  [held[r] EXCEPT !.players = @ \ {p}])
    /\ UNCHANGED <<cup, chest, purse, cupFaults, strays>>

SaveCancellation(r) ==
    /\ at[r] = "saveCancelled"
    /\ SaveCup(r, [held[r].row EXCEPT !.status = "cancelled"], "idle", "idle")

-----------------------------------------------------------------------------
(* Faults                                                                   *)

\* A call rejects without effect: registerPlayer rolls back what it locked,
\* the distribution skips the prize, the others give up.
RejectCupCall(r) ==
    /\ cupFaults < MaxCupFaults /\ cupFaults' = cupFaults + 1
    /\ \/ at[r] \in {"deposit", "deduct", "saveEntry", "savePool"}
          /\ Await(r, "rollback", held[r])
       \/ at[r] = "credit" /\ NextPrize(r)
       \/ at[r] \in Steps \ {"idle", "deposit", "deduct", "saveEntry", "savePool",
                             "credit"}
          /\ Await(r, "idle", NotHeld)
    /\ UNCHANGED <<cupTables, strays>>

CrashCup ==
    /\ cupFaults < MaxCupFaults /\ cupFaults' = cupFaults + 1
    /\ \E r \in Organizers : at[r] # "idle"
    /\ at' = [r \in Organizers |-> "idle"]
    /\ held' = [r \in Organizers |-> NotHeld]
    /\ UNCHANGED <<cupTables, strays>>

TournamentStep ==
    \/ CrashCup
    \/ \E r \in Organizers :
         \/ OpenRegistration(r) \/ CloseRegistration(r) \/ SaveRow(r)
         \/ RegisterPlayer(r) \/ FindEntry(r) \/ LockFee(r) \/ DepositEntryFee(r)
         \/ DeductEntryFee(r) \/ SaveEntry(r) \/ SavePool(r) \/ RollbackEntry(r)
         \/ GenerateBracket(r) \/ SeedPlayers(r) \/ SaveBracket(r) \/ LockChest(r)
         \/ StartTournament(r) \/ CreateMatches(r)
         \/ AdvanceRound(r) \/ PlacePlayer(r) \/ ReadChest(r) \/ ReleaseChest(r)
         \/ CreditWinner(r)
         \/ CancelTournament(r) \/ RefundChest(r) \/ FindEntries(r) \/ UnlockFee(r)
         \/ SaveWithdrawal(r) \/ SaveCancellation(r)
         \/ RejectCupCall(r)

Running(pcs) == Cardinality({r \in Organizers : pcs[r] # "idle"})

\* Bound: requests overlap, or calls fail, or results stray, one of these in a
\* behaviour.
TournamentNext ==
    /\ TournamentStep
    /\ overlaps' = IF Running(at) > 0 /\ Running(at') > Running(at)
                   THEN overlaps + 1 ELSE overlaps
    /\ overlaps' <= MaxOverlaps
    /\ overlaps' > 0 => cupFaults' = 0 /\ strays' = 0
    /\ cupFaults' > 0 => strays' = 0

TournamentSpec == TournamentInit /\ [][TournamentNext]_cupVars

-----------------------------------------------------------------------------
(* Properties                                                               *)

PurseTotal == Total([p \in Entrants_ |-> purse[p].available + purse[p].locked])

\* Wallets, escrow and fees together never hold more than the players brought,
\* but for the fees of registrations between deposit and deduction or broken
\* off there; and every registered player was paid for before (registerPlayer).
EntriesBacked ==
    /\ PurseTotal + chest.balance + chest.fee
         <= Fee * (Cardinality(Entrants_)
                   + Cardinality({r \in Organizers : at[r] = "deduct"}) + cupFaults)
    /\ Fee * Cardinality(Confirmed) <= chest.deposited

Starters == UNION {Entrants(m) : m \in Range(cup.bracket[1])}

\* "Single loss eliminates player": of those who started, the one who is left
\* without a loss, and nobody else, is the champion.
SingleLossEliminates ==
    cup.status = "completed"
        => Undefeated(cup.bracket, Starters) = {FinalMatch(cup.bracket).winner}

\* Whatever order results are reported in, alone or together (advanceRound), and
\* though rows are written back as they were loaded: the bracket of the row stays
\* a bracket as long as each result is one a match waits for, and one without
\* byes eliminates as documented.  Of stray results only the first round is safe.
BracketDecides ==
    cup.bracket # <<>> =>
        /\ SeededOnce(cup.bracket, Starters)
        /\ strays = 0 =>
             /\ Fed(cup.bracket)
             /\ Cardinality(Starters) = Pow2(Len(cup.bracket)) => SingleLossEliminates

\* "COMPLETED: tournament finished, prizes distributed: RELEASED" (advanceRound
\* and distributeTournamentPrizes): the escrow has paid.
CompletedPaid == cup.status = "completed" => chest.status = "released"

\* Where nothing failed or overlapped, the champion and the player who lost the
\* final then have the first and the second prize in their wallets (advanceRound).
PrizesFollowBracket ==
    /\ CompletedPaid
    /\ cup.status = "completed" /\ overlaps = 0 /\ cupFaults = 0 =>
         \A i \in 1 .. 2 : \A p \in Starters :
            finalPlacement(cup.bracket, p) = i
              => purse[p].winnings = ((chest.deposited - chest.fee)
                                        * Structure[i].percentage) \div 100
=============================================================================
