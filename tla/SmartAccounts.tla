----------------------------- MODULE SmartAccounts -----------------------------
(***************************************************************************)
(* SmartAccountsService (smart-accounts.service.ts) and                     *)
(* SmartAccountsConsumer (smart-accounts.consumer.ts) with the row          *)
(* SmartAccount (smart-account.entity.ts): the daily limit of one account,  *)
(* counted in Redis.  One step per awaited call.  A session key             *)
(* (session-key.entity.ts) can be asked for and is never stored.            *)
(*                                                                          *)
(*   smartAccount   status of the account's row, its rules, whether they    *)
(*                  are cached                                              *)
(*   spentToday     the counter of the day                                  *)
(*   authorized, credited   the amounts announced as authorized that this   *)
(*                  counter was increased by, and what negative amounts     *)
(*                  took off it                                             *)
(*   smartJob       per caller: the call it awaits next, and what it read   *)
(*   smartFaults, smartOverlaps, smartOps   as in Lending                   *)
(***************************************************************************)
EXTENDS Integers, FiniteSets

CONSTANTS SmartCallers,     \* concurrent requests
          SpendAmounts,     \* nothing validates them: they may be negative
          MaxAmount,        \* the greatest
          DailyLimit,
          MaxSmartFaults, MaxSmartOps

ASSUME SmartAssumption ==
    /\ IsFiniteSet(SmartCallers) /\ SmartCallers # {}
    /\ DailyLimit \in Nat /\ MaxAmount \in Nat
    /\ \A a \in SpendAmounts : a \in Int /\ a <= MaxAmount
    /\ MaxSmartFaults \in Nat

VARIABLES smartAccount, spentToday, authorized, credited, smartJob, smartFaults,
          smartOverlaps, smartOps

smartVars == <<smartAccount, spentToday, authorized, credited, smartJob, smartFaults,
               smartOverlaps, smartOps>>

\* "frozen" and "disabled" are never assigned.
SmartAccountStatus == {"none", "active"}

\* limited: the rules name a maxDailySpend; the other rule is the set of allowed
\* programs, here whether the program asked for is one.
SmartAccount == [status : SmartAccountStatus, limited : BOOLEAN, cached : BOOLEAN]

SmartIdle == [next |-> "idle", amount |-> 0, today |-> TRUE, records |-> FALSE]

SmartTypeOK ==
    /\ smartAccount \in SmartAccount
    /\ spentToday \in Int /\ authorized \in Nat /\ credited \in Nat
    /\ \A c \in SmartCallers :
         smartJob[c].next \in {"idle", "cacheNew", "rules", "fillRules", "readSpent",
                               "record", "expire", "saveKey"}
    /\ smartFaults \in 0 .. MaxSmartFaults /\ smartOverlaps \in BOOLEAN

SmartInit ==
    /\ smartAccount = [status |-> "none", limited |-> FALSE, cached |-> FALSE]
    /\ spentToday = 0 /\ authorized = 0 /\ credited = 0
    /\ smartJob = [c \in SmartCallers |-> SmartIdle]
    /\ smartFaults = 0 /\ smartOverlaps = FALSE /\ smartOps = 0

-----------------------------------------------------------------------------

spending == <<spentToday, authorized, credited>>

smartData == <<smartAccount, spending>>

SmartBegin(c, job) ==
    /\ smartJob[c].next = "idle"
    /\ smartJob' = [smartJob EXCEPT ![c] = job]
    /\ smartOverlaps' = (smartOverlaps \/ \E d \in SmartCallers : smartJob[d].next # "idle")
    /\ smartOps' = smartOps + 1
    /\ UNCHANGED smartFaults

SmartGoto(c, next) ==
    smartJob' = [smartJob EXCEPT ![c] = IF next = "idle" THEN SmartIdle
                                        ELSE [@ EXCEPT !.next = next]]

\* The awaited call is done, or rejected, which ends the request.
SmartStep(c, step, done) ==
    /\ smartJob[c].next = step
    /\ \/ done /\ UNCHANGED smartFaults
       \/ smartFaults' = smartFaults + 1 /\ SmartGoto(c, "idle") /\ UNCHANGED smartData
    /\ UNCHANGED <<smartOverlaps, smartOps>>

-----------------------------------------------------------------------------
(* Accounts and their rules                                                 *)

CreateSmartAccount(c) ==
    /\ smartAccount.status = "none"
    /\ \E limited \in BOOLEAN :
         smartAccount' = [status |-> "active", limited |-> limited, cached |-> FALSE]
    /\ SmartBegin(c, [SmartIdle EXCEPT !.next = "cacheNew"])
    /\ UNCHANGED spending

\* For an hour.
Cached == smartAccount' = [smartAccount EXCEPT !.cached = TRUE] /\ UNCHANGED spending

CacheRules(c) == SmartStep(c, "cacheNew", Cached /\ SmartGoto(c, "idle"))

RulesLapse ==
    /\ smartAccount' = [smartAccount EXCEPT !.cached = FALSE]
    /\ UNCHANGED <<spending, smartJob, smartFaults, smartOverlaps, smartOps>>

\* The new row names the account by its address, in a column that the relation to
\* the account makes a uuid: the database refuses it, and no key is ever found.
CreateSessionKey(c) ==
    /\ smartAccount.status = "active"
    /\ SmartBegin(c, [SmartIdle EXCEPT !.next = "saveKey"])
    /\ UNCHANGED smartData

SaveSessionKey(c) ==
    SmartStep(c, "saveKey", SmartGoto(c, "idle") /\ UNCHANGED smartData)

-----------------------------------------------------------------------------
(* The daily limit                                                          *)

\* validateTransaction, alone or for handleAuthorizationRequest, which records
\* what is valid.
ValidateTransaction(c) ==
    /\ \E amount \in SpendAmounts, records \in BOOLEAN :
         SmartBegin(c, [SmartIdle EXCEPT !.next = "rules", !.amount = amount,
                                         !.records = records])
    /\ UNCHANGED smartData

\* Rules never change, so cached ones are those of the row.
GetRules(c) ==
    SmartStep(c, "rules",
              /\ SmartGoto(c, CASE smartAccount.cached -> "readSpent"
                                [] ~smartAccount.cached /\ smartAccount.status = "active"
                                     -> "fillRules"
                                [] ~smartAccount.cached /\ smartAccount.status = "none"
                                     -> "idle")
              /\ UNCHANGED smartData)

FillRules(c) == SmartStep(c, "fillRules", Cached /\ SmartGoto(c, "readSpent"))

\* Mutant: the amount itself is not added before the comparison.
WithinLimitLate(amount) == smartAccount.limited => spentToday <= DailyLimit

WithinLimit(amount) == smartAccount.limited => spentToday + amount <= DailyLimit

\* The answer of validateTransaction: the limit, then whether the program is
\* allowed.
ReadSpent(c) ==
    SmartStep(c, "readSpent",
              /\ \E allowed \in BOOLEAN :
                   SmartGoto(c, IF WithinLimit(smartJob[c].amount) /\ allowed
                                     /\ smartJob[c].records
                                THEN "record" ELSE "idle")
              /\ UNCHANGED smartData)

\* incrby on the counter of the day it is by now.
RecordTransaction(c) ==
    LET amount == smartJob[c].amount
    IN  SmartStep(c, "record",
                  /\ spentToday' = spentToday + amount
                  /\ credited' = IF amount < 0 THEN credited - amount ELSE credited
                  /\ smartJob' = [smartJob EXCEPT ![c].next = "expire", ![c].today = TRUE]
                  /\ UNCHANGED <<smartAccount, authorized>>)

\* expire, then the event.
ExpireSpent(c) ==
    LET job == smartJob[c]
    IN  SmartStep(c, "expire",
                  /\ authorized' = IF job.today /\ job.amount > 0
                                   THEN authorized + job.amount ELSE authorized
                  /\ SmartGoto(c, "idle")
                  /\ UNCHANGED <<smartAccount, spentToday, credited>>)

\* Another day has another counter.
NextDay ==
    /\ spentToday' = 0 /\ authorized' = 0 /\ credited' = 0
    /\ smartJob' = [c \in SmartCallers |-> [smartJob[c] EXCEPT !.today = FALSE]]
    /\ UNCHANGED <<smartAccount, smartFaults, smartOverlaps, smartOps>>

SmartSteps ==
    \/ NextDay \/ RulesLapse
    \/ \E c \in SmartCallers :
         \/ CreateSmartAccount(c) \/ CacheRules(c) \/ CreateSessionKey(c) \/ SaveSessionKey(c)
         \/ ValidateTransaction(c) \/ GetRules(c) \/ FillRules(c) \/ ReadSpent(c)
         \/ RecordTransaction(c) \/ ExpireSpent(c)

\* Within the bounds of a run.
SmartNext == SmartSteps /\ smartOps' <= MaxSmartOps /\ smartFaults' <= MaxSmartFaults

-----------------------------------------------------------------------------

\* The counter where a check that passes leaves it, or the first amount of a day.
HighestCheck == IF DailyLimit < MaxAmount THEN MaxAmount ELSE DailyLimit

\* Whatever overlaps and fails: no more is announced as authorized on a day than its
\* counter holds, but for what negative amounts took off it; and the counter of an
\* account with a limit exceeds what one check allows by no more than the other
\* callers may spend at once, each of which checks before the others record.  While
\* requests do not overlap it does not exceed it.
LimitsHold ==
    /\ authorized <= spentToday + credited
    /\ smartAccount.limited =>
         spentToday <= HighestCheck + (IF smartOverlaps
                                       THEN (Cardinality(SmartCallers) - 1) * MaxAmount
                                       ELSE 0)
=============================================================================
