--------------------------- MODULE MCPlayerWallet ---------------------------
(* Two instances of PlayerWallet for TLC, of which a behaviour takes one:   *)
(* requests one at a time over several days and without faults, or requests *)
(* that overlap and fail at one instant.                                    *)
EXTENDS PlayerWallet, TLC

CONSTANTS r1, r2,
          MaxConcurrentFunds, MaxConcurrentFees  \* bounds of the second instance

VARIABLE serial

Symmetry == Permutations(Requests)

OneAtATime ==
    /\ \A q, r \in Requests : pc'[q] # "idle" /\ pc'[r] # "idle" => q = r
    /\ faults' = 0

\* A request that begins is within the bounds of the second instance.
BeginsSmall(r) ==
    /\ job'[r].amount <= 1
    /\ job'[r].op \in {"deposit", "creditPrize"} =>
         logged["deposit"] + logged["creditPrize"] < MaxConcurrentFunds
    /\ job'[r].op = "lockFunds" => logged["lockFunds"] < MaxConcurrentFees

AtOneInstant ==
    /\ clock' = 0
    /\ \A r \in Requests : pc[r] = "idle" /\ pc'[r] # "idle" => BeginsSmall(r)

MCInit == Init /\ serial \in BOOLEAN

MCNext ==
    /\ Next
    /\ UNCHANGED serial
    /\ IF serial THEN OneAtATime ELSE AtOneInstant

MCSpec == MCInit /\ [][MCNext]_<<vars, serial>>

\* With one request at a time, the balances are exactly what came in minus
\* what was signed away and what entry fees took: deposit, lockFunds,
\* unlockFunds, creditPrize, deductEntryFee and withdraw lose nothing.
WalletConserved == serial /\ Quiescent => Conserved

\* "Rate Limiting: daily withdrawal limits": with one request at a time, what
\* is signed away on the checks of one day stays within the limit, and two
\* withdrawals that completed are a cooldown apart (checkWithdrawalLimits).
WithdrawalLimits ==
    /\ [](serial => WithinDailyLimit)
    /\ [][serial => CooldownKept]_vars
=============================================================================
