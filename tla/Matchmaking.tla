---------------------------- MODULE Matchmaking ----------------------------
(***************************************************************************)
(* MatchmakingService (matchmaking.service.ts) on one match: joinMatch and  *)
(* cancelMatch, composed with the match's escrow and the players' wallets.  *)
(* One step per call the service awaits.  The calls to EscrowService and    *)
(* PlayerWalletService are atomic here (what they do inside is Escrow.tla   *)
(* and PlayerWallet.tla): this module is about the order in which one       *)
(* operation makes them, what is left when one of them fails, and what two  *)
(* operations do to each other.                                             *)
(*                                                                          *)
(* startMatch needs a READY match and submitResult one IN_PROGRESS.  READY  *)
(* is written by the last save of joinMatch only, which the database        *)
(* refuses (SaveMatch below), so both always throw at their guard and       *)
(* change nothing: they have no action, and MatchMatchesEscrow says why.    *)
(*                                                                          *)
(*   match         the row of the match: its status and prize pool          *)
(*   participants  per player, the status of its participant row, or "none" *)
(*   escrow        the escrow row of the match                              *)
(*   wallets       the players' wallet rows                                 *)
(*   pc, job       per request: the call it awaits next, what it remembers  *)
(*   faults        rejected calls and process crashes so far                *)
(*   met           history: the running joins that held a fee while another *)
(*                 join of the same player did; meetings counts them all    *)
(***************************************************************************)
EXTENDS EscrowEntity, PlayerWalletEntity, FiniteSetsExt, SequencesExt, Sums

CONSTANTS Requests, Players,
          EntryFee, MinPlayers, MaxPlayers,
          Funds,        \* what each player deposited beforehand
          MaxLocks,     \* bound on the fees a player locks, by joinMatch calls
          MaxFaults     \* bound on the faults

ASSUME MatchmakingAssumption ==
    /\ IsFiniteSet(Requests) /\ IsFiniteSet(Players)
    /\ EntryFee \in Nat \ {0}
    /\ MinPlayers \in Nat /\ MaxPlayers \in Nat
    /\ Funds \in Nat
    /\ MaxLocks \in Nat
    /\ MaxFaults \in Nat

VARIABLES match, participants, escrow, wallets, pc, job, faults, met, meetings

tables == <<match, participants, escrow, wallets>>
vars == <<match, participants, escrow, wallets, pc, job, faults, met, meetings>>

MatchStatus == {"created", "waiting", "ready", "cancelled"}

MatchRow == [status : MatchStatus, pool : Nat]

ParticipantStatus == {"none", "joined", "withdrawn"}

PC == {"idle", "findParticipant", "lockFunds", "deposit", "deduct",
       "saveParticipant", "saveJoined", "rollback",
       "refund", "findRefunds", "unlock", "saveWithdrawn", "saveCancelled"}

\* row, seen: the match and its participants as loaded; player: whose call
\* this is; players: those cancelMatch has still to refund.
Job == [row : MatchRow, seen : [Players -> ParticipantStatus],
        players : SUBSET Players, player : SUBSET Players]

NoRow == [status |-> "created", pool |-> 0]
NoParticipants == [p \in Players |-> "none"]
NoJob == [row |-> NoRow, seen |-> NoParticipants, players |-> {}, player |-> {}]

TypeOK ==
    /\ match \in MatchRow
    /\ participants \in [Players -> ParticipantStatus]
    /\ escrow \in EscrowRow
    /\ wallets \in [Players -> WalletRow]
    /\ pc \in [Requests -> PC]
    /\ job \in [Requests -> Job]
    /\ faults \in 0..MaxFaults
    /\ met \subseteq Requests
    /\ meetings \in Nat

\* createMatch has run: the escrow exists and the match has no participants.
Init ==
    /\ match = NoRow
    /\ participants = NoParticipants
    /\ escrow = NewEscrow
    /\ wallets = [p \in Players |-> After("deposit", NewWallet, Funds)]
    /\ pc = [r \in Requests |-> "idle"]
    /\ job = [r \in Requests |-> NoJob]
    /\ faults = 0
    /\ met = {}
    /\ meetings = 0

Present(rows) == {p \in Players : rows[p] # "none"}

Joined == Present(participants)

Player(r) == CHOOSE p \in job[r].player : TRUE

-----------------------------------------------------------------------------
(* Steps shared by the operations.                                          *)

\* getMatchById resolved, with the participants, and the guard passed.
Start(r, next, player) ==
    /\ pc[r] = "idle"
    /\ pc' = [pc EXCEPT ![r] = next]
    /\ job' = [job EXCEPT ![r] = [row |-> match, seen |-> participants,
                                  players |-> {}, player |-> player]]
    /\ UNCHANGED <<tables, faults>>

\* The request awaits its next call, or settles ("idle").
Goto(r, next, j) ==
    /\ pc' = [pc EXCEPT ![r] = next]
    /\ job' = [job EXCEPT ![r] = IF next = "idle" THEN NoJob ELSE j]

\* Mutant: the guards of the wallet operations are gone.
WalletCallUnchecked(r, op, p, done, refused) ==
    /\ wallets' = [wallets EXCEPT ![p] = After(op, @, EntryFee)]
    /\ Goto(r, done, job[r])
    /\ UNCHANGED <<match, participants, escrow, faults>>

\* A call to the wallet of player p: its guard decides where the request goes.
WalletCall(r, op, p, done, refused) ==
    /\ \/ /\ Allowed(op, wallets[p], EntryFee)
          /\ wallets' = [wallets EXCEPT ![p] = After(op, @, EntryFee)]
          /\ Goto(r, done, job[r])
       \/ /\ ~Allowed(op, wallets[p], EntryFee)
          /\ Goto(r, refused, job[r])
          /\ UNCHANGED wallets
    /\ UNCHANGED <<match, participants, escrow, faults>>

\* A call to the escrow that is refused unless its guard holds.
EscrowCall(r, guard, e, done, refused) ==
    /\ \/ guard /\ escrow' = e /\ Goto(r, done, job[r])
       \/ ~guard /\ UNCHANGED escrow /\ Goto(r, refused, job[r])
    /\ UNCHANGED <<match, participants, wallets, faults>>

\* matchRepository.save of the loaded match, with its participants.  The
\* relation cascades: a participant of the match that is not among the loaded
\* ones is detached, and as its matchId may not be null the database refuses
\* the whole save; otherwise the loaded statuses are written back too.
SaveMatch(r, row, next, refused) ==
    /\ IF Joined \subseteq Present(job[r].seen)
       THEN /\ match' = row
            /\ participants' = job[r].seen
            /\ Goto(r, next, job[r])
       ELSE /\ Goto(r, refused, job[r])
            /\ UNCHANGED <<match, participants>>
    /\ UNCHANGED <<escrow, wallets, faults>>

-----------------------------------------------------------------------------
(* joinMatch                                                                *)

isJoinable == /\ match.status \in {"created", "waiting"}
              /\ Cardinality(Joined) < MaxPlayers

JoinLoad(r) ==
    /\ isJoinable
    /\ \E p \in Players : /\ wallets[p].entryFees < EntryFee * MaxLocks
                          /\ Start(r, "findParticipant", {p})

FindParticipant(r) ==
    /\ pc[r] = "findParticipant"
    /\ Goto(r, IF Player(r) \in Joined THEN "idle" ELSE "lockFunds", job[r])
    /\ UNCHANGED <<tables, faults>>

LockFunds(r) ==
    /\ pc[r] = "lockFunds"
    /\ WalletCall(r, "lockFunds", Player(r), "deposit", "idle")

\* Mutant: a refused deposit does not stop the join.
DepositFeeUnchecked(r) ==
    /\ pc[r] = "deposit"
    /\ EscrowCall(r, canDeposit(escrow), AfterDeposit(escrow, EntryFee),
                  "deduct", "deduct")

DepositFee(r) ==
    /\ pc[r] = "deposit"
    /\ EscrowCall(r, canDeposit(escrow), AfterDeposit(escrow, EntryFee),
                  "deduct", "rollback")

\* Mutant: the deposited fee stays in the wallet.
DeductFeeMissing(r) ==
    /\ pc[r] = "deduct"
    /\ Goto(r, "saveParticipant", job[r])
    /\ UNCHANGED <<tables, faults>>

DeductFee(r) ==
    /\ pc[r] = "deduct"
    /\ WalletCall(r, "deductEntryFee", Player(r), "saveParticipant", "rollback")

\* The index on (matchId, walletId) is unique.
SaveParticipant(r) ==
    /\ pc[r] = "saveParticipant"
    /\ \/ /\ Player(r) \notin Joined
          /\ participants' = [participants EXCEPT ![Player(r)] = "joined"]
          /\ Goto(r, "saveJoined", job[r])
       \/ /\ Player(r) \in Joined
          /\ Goto(r, "rollback", job[r])
          /\ UNCHANGED participants
    /\ UNCHANGED <<match, escrow, wallets, faults>>

\* isReady counts the participants that were loaded before this one joined.
SaveJoined(r) ==
    LET j == job[r]
    IN  /\ pc[r] = "saveJoined"
        /\ SaveMatch(r, [status |-> IF Cardinality(Present(j.seen)) >= MinPlayers
                                    THEN "ready" ELSE "waiting",
                         pool |-> j.row.pool + EntryFee], "idle", "rollback")

\* The handler of the try block that starts with the deposit.
Rollback(r) ==
    /\ pc[r] = "rollback"
    /\ WalletCall(r, "unlockFunds", Player(r), "idle", "idle")

-----------------------------------------------------------------------------
(* cancelMatch                                                              *)

CancelLoad(r) ==
    /\ match.status # "cancelled"
    /\ Start(r, "refund", {})

\* refundEscrow without walletIds returns every deposit.
Refund(r) ==
    /\ pc[r] = "refund"
    /\ EscrowCall(r, canRefund(escrow), AfterRefund(escrow, escrow.deposited),
                  "findRefunds", "idle")

NextUnlock(players) == IF players = {} THEN "saveCancelled" ELSE "unlock"

FindRefunds(r) ==
    LET found == {p \in Players : participants[p] = "joined"}
    IN  /\ pc[r] = "findRefunds"
        /\ Goto(r, NextUnlock(found), [job[r] EXCEPT !.players = found])
        /\ UNCHANGED <<tables, faults>>

\* No try block: the first wallet that refuses ends the cancellation.
Unlock(r) ==
    /\ pc[r] = "unlock"
    /\ \E p \in job[r].players :
         \/ /\ Allowed("unlockFunds", wallets[p], EntryFee)
            /\ wallets' = [wallets EXCEPT ![p] = After("unlockFunds", @, EntryFee)]
            /\ Goto(r, "saveWithdrawn", [job[r] EXCEPT !.player = {p}])
         \/ /\ ~Allowed("unlockFunds", wallets[p], EntryFee)
            /\ Goto(r, "idle", NoJob)
            /\ UNCHANGED wallets
    /\ UNCHANGED <<match, participants, escrow, faults>>

SaveWithdrawn(r) ==
    LET left == job[r].players \ job[r].player
    IN  /\ pc[r] = "saveWithdrawn"
        /\ participants' = [participants EXCEPT ![Player(r)] = "withdrawn"]
        /\ Goto(r, NextUnlock(left), [job[r] EXCEPT !.players = left])
        /\ UNCHANGED <<match, escrow, wallets, faults>>

SaveCancelled(r) ==
    /\ pc[r] = "saveCancelled"
    /\ SaveMatch(r, [job[r].row EXCEPT !.status = "cancelled"], "idle", "idle")

-----------------------------------------------------------------------------
(* Faults                                                                   *)

\* A call rejects without effect.  joinMatch rolls back what it locked,
\* cancelMatch gives up.
Reject(r) ==
    /\ faults < MaxFaults
    /\ faults' = faults + 1
    /\ \/ /\ pc[r] \in {"deposit", "deduct", "saveParticipant", "saveJoined"}
          /\ Goto(r, "rollback", job[r])
       \/ /\ pc[r] \in PC \ {"idle", "deposit", "deduct", "saveParticipant",
                             "saveJoined"}
          /\ Goto(r, "idle", NoJob)
    /\ UNCHANGED tables

Crash ==
    /\ faults < MaxFaults
    /\ \E r \in Requests : pc[r] # "idle"
    /\ faults' = faults + 1
    /\ pc' = [r \in Requests |-> "idle"]
    /\ job' = [r \in Requests |-> NoJob]
    /\ UNCHANGED tables

-----------------------------------------------------------------------------

JoinMatch(r) == \/ JoinLoad(r) \/ FindParticipant(r) \/ LockFunds(r)
                \/ DepositFee(r) \/ DeductFee(r) \/ SaveParticipant(r)
                \/ SaveJoined(r) \/ Rollback(r)

CancelMatch(r) == \/ CancelLoad(r) \/ Refund(r) \/ FindRefunds(r) \/ Unlock(r)
                  \/ SaveWithdrawn(r) \/ SaveCancelled(r)

Step ==
    \/ Crash
    \/ \E r \in Requests : JoinMatch(r) \/ CancelMatch(r) \/ Reject(r)

\* A join whose lockFunds succeeded and that has not ended.
Holding == {"deposit", "deduct", "saveParticipant", "saveJoined", "rollback"}

\* The joins that hold a fee while another join of their player does.
Meeting(pcs, jobs) ==
    {r \in Requests :
       /\ pcs[r] \in Holding
       /\ \E q \in Requests \ {r} :
            pcs[q] \in Holding /\ jobs[q].player = jobs[r].player}

\* What the history variables become.
Meet ==
    LET now == Meeting(pc', job')
    IN  /\ met' = {r \in met : pc'[r] # "idle"} \cup now
        /\ meetings' = meetings + Cardinality(now \ met)

Next == Step /\ Meet

Spec == Init /\ [][Next]_vars

-----------------------------------------------------------------------------
(* Properties                                                               *)

Quiescent == \A r \in Requests : pc[r] = "idle"

InWallets == Total([p \in Players |-> wallets[p].available + wallets[p].locked])

\* No money appears, though wallets and pot are changed by different calls.
\* Whatever overlaps and fails, the players paid the fees of all participants.
\* Pot and wallets together hold no more than the players brought, but for fees
\* in both: while a joinMatch has yet to deduct what it deposited, and for good
\* when that deduction fails (the handler, written for a failed deposit, unlocks
\* it) or the process stops before it.  The handler runs at the end of every
\* join, and when two joins of a player overlap it releases the fee of the other
\* one: each join that met another may leave its fee in both, and none besides.
NoMoneyCreated ==
    /\ InWallets + EntryFee * Cardinality(Joined) <= Funds * Cardinality(Players)
    /\ InWallets + escrow.balance + escrow.fee
          <= Funds * Cardinality(Players)
             + EntryFee * (Cardinality({r \in Requests : pc[r] = "deduct"})
                           + faults * Cardinality(Requests) + meetings)

\* The match never says more than its escrow: "Entry fee must be paid before
\* JOINED status", so the fee of each participant went into the pot, and a
\* cancelled match has a refunded escrow.  Until it is cancelled its row stays
\* as createMatch wrote it, whatever joins are made and in whatever order the
\* saves and cancellations run, so that startMatch and submitResult refuse it.
MatchMatchesEscrow ==
    /\ EntryFee * Cardinality(Joined) <= escrow.deposited
    /\ IF match.status = "cancelled" THEN escrow.status = "refunded"
                                     ELSE match = NoRow

\* "Cancelled: all entry fees refunded": between requests, what the pot gave
\* back is in the wallets again.
RefundsReachWallets ==
    Quiescent /\ escrow.status = "refunded"
        => InWallets = Funds * Cardinality(Players)

\* "Calculated as: entryFee x currentPlayers": between requests the displayed
\* pool is the fees of the players that joined (prizePool of joinMatch).
BooksAgree ==
    Quiescent => match.pool = EntryFee * Cardinality({p \in Players : participants[p] = "joined"})
=============================================================================
