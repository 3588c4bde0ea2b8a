-------------------------- MODULE PrizeDistribution --------------------------
(***************************************************************************)
(* PrizeDistributionService (prize-distribution.service.ts): the            *)
(* distribution of the prizes of a match (of a tournament the same, but for *)
(* the recipients): read the balance, record the distribution, release the  *)
(* escrow, credit the wallets one by one, record the outcome.               *)
(*                                                                          *)
(*   pot          the escrow row of the source                              *)
(*   result       the ranking and the MVP of the source                     *)
(*   credited     what creditPrize added to each player's wallet            *)
(*   prizeWon     per player, the column of the participant or registration *)
(*   records      the rows of esports_prize_distributions, oldest first     *)
(*   payout       the running call: its step and its copy of the record     *)
(*   payFaults    rejected calls and crashes so far                         *)
(***************************************************************************)
EXTENDS EscrowEntity, Prizes, FiniteSetsExt

CONSTANTS Contestants,
          Pots,            \* balances of the locked escrow
          MaxDistributions,\* bound on the calls (a tournament's can be repeated)
          MaxPayFaults     \* bound on the faults

\* An escrow that is locked was paid into.
ASSUME PrizesAssumption ==
    /\ IsFiniteSet(Contestants) /\ Pots \subseteq Nat \ {0}
    /\ MaxDistributions \in Nat /\ MaxPayFaults \in Nat

VARIABLES pot, result, credited, prizeWon, records, payout, payFaults

prizeVars == <<pot, result, credited, prizeWon, records, payout, payFaults>>

PrizeStatus == {"processing", "completed", "partial", "failed"}

EntryStatus == {"pending", "completed", "failed"}

\* One entry of the jsonb column distributions.
Prizes == [player : Contestants, amount : Nat, status : EntryStatus]

\* A row of esports_prize_distributions.
IsRecord(d) == /\ d.total \in Nat /\ d.distributed \in Nat
               /\ d.status \in PrizeStatus
               /\ \A i \in DOMAIN d.prizes : d.prizes[i] \in Prizes

Idle == [step |-> "idle", at |-> 0, paid |-> 0,
         record |-> [total |-> 0, distributed |-> 0, prizes |-> <<>>,
                     status |-> "processing"]]

PrizeTypeOK ==
    /\ pot \in EscrowRow
    /\ result.ranking \in Seq(Contestants)
    /\ result.mvp \in Contestants \cup {Nobody}
    /\ credited \in [Contestants -> Nat] /\ prizeWon \in [Contestants -> Nat]
    /\ \A i \in DOMAIN records : IsRecord(records[i])
    /\ IsRecord(payout.record) /\ payout.paid \in Nat
    /\ payout.step \in {"idle", "create", "release", "credit", "update", "save",
                        "fail"}
    /\ payFaults \in 0 .. MaxPayFaults

\* The source is decided and its escrow locked.  Rankings are those that scores
\* or a list of winners produce: all the participants, or none.
PrizeInit ==
    /\ \E b \in Pots : pot = [AfterDeposit(NewEscrow, b) EXCEPT !.status = "locked"]
    /\ result \in [strategy : DOMAIN PrizeStructure,
                   ranking : SetToSeqs(Contestants) \cup {<<>>},
                   mvp : Contestants \cup {Nobody}]
    /\ credited = [p \in Contestants |-> 0]
    /\ prizeWon = [p \in Contestants |-> 0]
    /\ records = <<>>
    /\ payout = Idle
    /\ payFaults = 0

-----------------------------------------------------------------------------

ThisRecord == Len(records)

\* Mutant: the prizes are shares of the pot with the fee.
DistributableGross == pot.balance

Distributable == pot.balance - PlatformFee(pot)

\* getEscrowBalance, and the prizes computed from it.
ReadEscrow ==
    /\ payout.step = "idle" /\ Len(records) < MaxDistributions
    /\ payout' = [Idle EXCEPT
         !.step = "create",
         !.record = [total |-> pot.balance, distributed |-> 0,
                     prizes |-> MatchPrizes(result.strategy, result.ranking,
                                            result.mvp, Distributable),
                     status |-> "processing"]]
    /\ UNCHANGED <<pot, result, credited, prizeWon, records, payFaults>>

CreateRecord ==
    /\ payout.step = "create"
    /\ records' = Append(records, payout.record)
    /\ payout' = [payout EXCEPT !.step = "release"]
    /\ UNCHANGED <<pot, result, credited, prizeWon, payFaults>>

\* The loop over the distributions goes on after the i-th.
Onward(i) == IF i < Len(payout.record.prizes)
             THEN [payout EXCEPT !.step = "credit", !.at = i + 1]
             ELSE [payout EXCEPT !.step = "save", !.at = i]

\* Mutant: a refused release is taken for a release.
ReleasePotUnchecked ==
    /\ payout.step = "release" /\ payout' = Onward(0)
    /\ pot' = [pot EXCEPT !.status = "released"]
    /\ UNCHANGED <<result, credited, prizeWon, records, payFaults>>

\* releaseEscrow; a refusal ends in the handler that records FAILED.
ReleasePot ==
    LET fee == PlatformFee(pot)
        total == totalDistribution(payout.record.prizes)
    IN  /\ payout.step = "release"
        /\ \/ /\ canRelease(pot) /\ total <= pot.balance - fee
              /\ pot' = AfterRelease(pot, total, fee)
              /\ payout' = Onward(0)
           \/ /\ ~(canRelease(pot) /\ total <= pot.balance - fee)
              /\ payout' = [payout EXCEPT !.step = "fail"]
              /\ UNCHANGED pot
        /\ UNCHANGED <<result, credited, prizeWon, records, payFaults>>

\* The entry is looked up by the player: the first one with that name.
EntryOf(prizes, p) == Min({i \in DOMAIN prizes : prizes[i].player = p})

Marked(status) ==
    LET prizes == payout.record.prizes
    IN  [payout EXCEPT
           !.record.prizes[EntryOf(prizes, prizes[payout.at].player)].status = status]

CreditPrize ==
    LET prize == payout.record.prizes[payout.at]
    IN  /\ payout.step = "credit"
        /\ credited' = [credited EXCEPT ![prize.player] = @ + prize.amount]
        /\ payout' = [Marked("completed") EXCEPT !.step = "update"]
        /\ UNCHANGED <<pot, result, prizeWon, records, payFaults>>

\* The prize overwrites the column, then counts as distributed.
UpdatePrizeWon ==
    LET prize == payout.record.prizes[payout.at]
    IN  /\ payout.step = "update"
        /\ prizeWon' = [prizeWon EXCEPT ![prize.player] = prize.amount]
        /\ payout' = [Onward(payout.at) EXCEPT !.paid = @ + prize.amount]
        /\ UNCHANGED <<pot, result, credited, records, payFaults>>

\* Mutant: "fully distributed" when one entry is.
isFullyDistributedAny(d) ==
    \E i \in DOMAIN d.prizes : d.prizes[i].status = "completed"

isFullyDistributed(d) ==
    \A i \in DOMAIN d.prizes : d.prizes[i].status = "completed"

SaveRecord(record) ==
    /\ records' = [records EXCEPT ![ThisRecord] = record]
    /\ payout' = Idle
    /\ UNCHANGED <<pot, result, credited, prizeWon, payFaults>>

SaveOutcome ==
    /\ payout.step = "save"
    /\ SaveRecord([payout.record EXCEPT
                     !.distributed = payout.paid,
                     !.status = IF isFullyDistributed(payout.record)
                                THEN "completed" ELSE "partial"])

SaveFailed ==
    /\ payout.step = "fail"
    /\ SaveRecord([payout.record EXCEPT !.distributed = payout.paid,
                                        !.status = "failed"])

\* A call rejects.  A rejected credit or update marks the entry as failed and
\* the loop goes on; after the release, or in it, the handler records FAILED.
RejectPayout ==
    /\ payFaults < MaxPayFaults /\ payFaults' = payFaults + 1
    /\ \/ payout.step \in {"credit", "update"}
          /\ payout' = [Onward(payout.at) EXCEPT
                          !.record = Marked("failed").record]
       \/ payout.step \in {"release", "save"}
          /\ payout' = [payout EXCEPT !.step = "fail"]
       \/ payout.step \in {"create", "fail"} /\ payout' = Idle
    /\ UNCHANGED <<pot, result, credited, prizeWon, records>>

CrashPayout ==
    /\ payFaults < MaxPayFaults /\ payFaults' = payFaults + 1
    /\ payout.step # "idle" /\ payout' = Idle
    /\ UNCHANGED <<pot, result, credited, prizeWon, records>>

PrizeNext ==
    \/ ReadEscrow \/ CreateRecord \/ ReleasePot \/ CreditPrize \/ UpdatePrizeWon
    \/ SaveOutcome \/ SaveFailed \/ RejectPayout \/ CrashPayout

PrizeSpec == PrizeInit /\ [][PrizeNext]_prizeVars

-----------------------------------------------------------------------------
(* Properties                                                               *)

\* However often the distribution is repeated, what reaches the wallets is what
\* the escrow released, and each record claims no more than was credited.
CreditedOnce ==
    /\ Total(credited) <= pot.released
    /\ \A i \in DOMAIN records : records[i].distributed <= Total(credited)

\* "COMPLETED: all prizes distributed": every entry of a completed record is in
\* the wallet and in the prizeWon column of its player.
CompletedMeansPaid ==
    \A i \in DOMAIN records : records[i].status = "completed" =>
        /\ records[i].distributed = totalDistribution(records[i].prizes)
        /\ \A j \in DOMAIN records[i].prizes :
             LET prize == records[i].prizes[j]
             IN  /\ credited[prize.player] >= prize.amount
                 /\ prizeWon[prize.player] = prize.amount

\* "PARTIAL: some distributions succeeded, others failed": without a failure a
\* first distribution of the pot is completed, provided nobody has two prizes.
PartialOnlyAfterFailure ==
    payFaults = 0 /\ records # <<>>
        /\ IsInjective([i \in DOMAIN records[1].prizes |-> records[1].prizes[i].player])
        => records[1].status \in {"processing", "completed"}

\* The record of a distribution tells what distributeMatchPrizes did.
PrizeRecordsTruthful ==
    CreditedOnce /\ CompletedMeansPaid /\ PartialOnlyAfterFailure
=============================================================================
