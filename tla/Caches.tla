---------------------------------- MODULE Caches ----------------------------------
(***************************************************************************)
(* The two layers of caching above the accounts and the tokens: responses   *)
(* (CacheInterceptor) over queries (QueryCacheService, which the decorator   *)
(* QueryCache calls), both in Redis (CacheService), above one row of         *)
(* AccountsService and the lists of AccountsService and TokensService.      *)
(* Nothing invalidates an entry: update and remove leave it to its time to   *)
(* live.  CacheService swallows every error: a failed get is a miss, a       *)
(* failed set stores nothing.                                                *)
(*                                                                          *)
(*   now              time, in units of which the times to live are given   *)
(*   version, present the row: its version, and whether it is there         *)
(*   superseded       history: per version, when it ceased to be current    *)
(*   queryEntry, responseEntry   the entries of the row                     *)
(*   listEntry        the entry of findAll, whose key "query:findAll:[]"    *)
(*                    names neither table: a list of tokens is answered to  *)
(*                    who asks for accounts, and the other way round        *)
(*   cacheJob         per caller: the call it awaits, and what it read      *)
(*   tooStale         history: an answer was older than the entries allow   *)
(*   redisFaults, cacheOps       failed calls and requests, bounded         *)
(***************************************************************************)
EXTENDS Naturals

CONSTANTS Readers, QueryTtl, ResponseTtl, MaxTime, MaxVersions, MaxRedisFaults, MaxCacheOps

ASSUME CachesAssumption ==
    QueryTtl \in Nat /\ ResponseTtl \in Nat /\ MaxTime \in Nat /\ MaxVersions \in Nat

VARIABLES now, version, present, superseded, queryEntry, responseEntry, listEntry, cacheJob,
          tooStale, redisFaults, cacheOps

rowState == <<version, present, superseded>>
entries == <<queryEntry, responseEntry, listEntry>>

cacheVars == <<now, rowState, entries, cacheJob, tooStale, cacheOps, redisFaults>>

Tables == {"accounts", "tokens"}

\* slack: the time that passed between the calls that filled the entry, beyond
\* the times to live.
Entry == [version : 0 .. MaxVersions, expires : Nat, slack : Nat]

NoEntry == [version |-> 0, expires |-> 0, slack |-> 0]

\* found: the list has the row; one of tokens has not.
ListEntry == [found : BOOLEAN, version : 0 .. MaxVersions, expires : Nat, slack : Nat]

NoList == [found |-> FALSE, version |-> 0, expires |-> 0, slack |-> 0]

\* at: when the version was read, from the row or from an entry of that slack.
CacheIdle == [next |-> "idle", version |-> 0, found |-> TRUE, slack |-> 0, at |-> 0,
              read |-> FALSE, table |-> "accounts"]

CachesTypeOK ==
    /\ now \in 0 .. MaxTime /\ version \in 0 .. MaxVersions /\ present \in BOOLEAN
    /\ queryEntry \in Entry /\ responseEntry \in Entry
    /\ listEntry \in ListEntry
    /\ \A c \in Readers :
         cacheJob[c].next \in {"idle", "responseGet", "queryGet", "query", "querySet",
                               "responseSet", "listGet", "listQuery", "listSet"}

CachesInit ==
    /\ now = 0 /\ version = 0 /\ present = TRUE
    /\ superseded = [v \in 0 .. MaxVersions |-> MaxTime + 1]
    /\ queryEntry = NoEntry /\ responseEntry = NoEntry /\ listEntry = NoList
    /\ cacheJob = [c \in Readers |-> CacheIdle]
    /\ tooStale = FALSE
    /\ redisFaults = 0 /\ cacheOps = 0

-----------------------------------------------------------------------------

Stored(entry) == now < entry.expires

CacheBegin(c, job) ==
    /\ cacheJob[c].next = "idle" /\ cacheOps < MaxCacheOps
    /\ cacheOps' = cacheOps + 1
    /\ cacheJob' = [cacheJob EXCEPT ![c] = job]

CacheGoto(c, job) == cacheJob' = [cacheJob EXCEPT ![c] = job]

CacheThen(c, next) == [cacheJob[c] EXCEPT !.next = next]

\* CacheService catches what Redis throws.
RedisFails == redisFaults < MaxRedisFaults /\ redisFaults' = redisFaults + 1

\* get of an entry: nothing is stored, or the call fails.
Miss(entry) == \/ ~Stored(entry) /\ UNCHANGED redisFaults
               \/ Stored(entry) /\ RedisFails

\* set of an entry
Fills(old, new, entry) == \/ new = entry /\ UNCHANGED redisFaults
                          \/ new = old /\ RedisFails

\* history: version v is answered, from data that entries may hold for ttl.
CacheAnswer(v, ttl, slack) ==
    tooStale' = (tooStale \/ (superseded[v] < now /\ now - superseded[v] > ttl + slack))

\* GET accounts/:id
GetById(c) ==
    /\ CacheBegin(c, [CacheIdle EXCEPT !.next = "responseGet", !.read = TRUE])
    /\ UNCHANGED <<now, rowState, entries, tooStale, redisFaults>>

\* PUT accounts/:id: the row is updated, and findOne gives the answer.
Update(c) ==
    /\ present /\ version < MaxVersions
    /\ version' = version + 1
    /\ superseded' = [superseded EXCEPT ![version] = now]
    /\ CacheBegin(c, [CacheIdle EXCEPT !.next = "queryGet"])
    /\ UNCHANGED <<now, present, entries, tooStale, redisFaults>>

\* DELETE accounts/:id
RemoveRow ==
    /\ present /\ present' = FALSE
    /\ superseded' = [superseded EXCEPT ![version] = now]
    /\ UNCHANGED <<now, version, entries, cacheJob, tooStale, cacheOps, redisFaults>>

\* A hit is answered; a miss goes to the handler.
ResponseGet(c) ==
    /\ cacheJob[c].next = "responseGet"
    /\ \/ /\ Stored(responseEntry)
          /\ CacheAnswer(responseEntry.version, QueryTtl + ResponseTtl, responseEntry.slack)
          /\ CacheGoto(c, CacheIdle) /\ UNCHANGED redisFaults
       \/ /\ Miss(responseEntry)
          /\ CacheGoto(c, CacheThen(c, "queryGet")) /\ UNCHANGED tooStale
    /\ UNCHANGED <<now, rowState, entries, cacheOps>>

\* The response goes out before the interceptor stores it; that of an update is
\* not stored.
Respond(c, job) ==
    CacheGoto(c, IF job.read THEN [job EXCEPT !.next = "responseSet"] ELSE CacheIdle)

\* executeWithCache.  The query may be refused, and nothing is stored.
QueryGet(c) ==
    /\ cacheJob[c].next = "queryGet"
    /\ \/ /\ Stored(queryEntry)
          /\ CacheAnswer(queryEntry.version, QueryTtl, queryEntry.slack)
          /\ Respond(c, [cacheJob[c] EXCEPT !.version = queryEntry.version, !.at = now,
                                            !.slack = queryEntry.slack])
          /\ UNCHANGED redisFaults
       \/ /\ Miss(queryEntry)
          /\ CacheGoto(c, CacheThen(c, "query")) /\ UNCHANGED tooStale
    /\ UNCHANGED <<now, rowState, entries, cacheOps>>

Query(c) ==
    /\ cacheJob[c].next = "query"
    /\ \/ CacheGoto(c, [CacheThen(c, "querySet") EXCEPT
                           !.version = version, !.found = present, !.at = now])
       \/ CacheGoto(c, CacheIdle)
    /\ UNCHANGED <<now, rowState, entries, tooStale, cacheOps, redisFaults>>

\* A row that is not there is stored as null, which the next get takes for a miss.
Filled(job, ttl) ==
    IF job.found THEN [version |-> job.version, expires |-> now + ttl,
                       slack |-> job.slack + now - job.at]
    ELSE NoEntry

\* Mutant: the time to live of the decorator is not handed on, and the entry stays.
QuerySetForever(c) ==
    LET j == cacheJob[c]
    IN  /\ j.next = "querySet"
        /\ Fills(queryEntry, queryEntry', Filled(j, MaxTime + 1))
        /\ IF j.found THEN CacheAnswer(j.version, QueryTtl, now - j.at)
           ELSE UNCHANGED tooStale
        /\ Respond(c, j)
        /\ UNCHANGED <<now, rowState, responseEntry, listEntry, cacheOps>>

QuerySet(c) ==
    LET j == cacheJob[c]
    IN  /\ j.next = "querySet"
        /\ Fills(queryEntry, queryEntry', Filled(j, QueryTtl))
        /\ IF j.found THEN CacheAnswer(j.version, QueryTtl, now - j.at)
           ELSE UNCHANGED tooStale
        /\ Respond(c, j)
        /\ UNCHANGED <<now, rowState, responseEntry, listEntry, cacheOps>>

\* Mutant: the response is kept without a time to live.
ResponseSetForever(c) ==
    LET j == cacheJob[c]
    IN  /\ j.next = "responseSet"
        /\ Fills(responseEntry, responseEntry', Filled(j, MaxTime + 1))
        /\ \/ CacheGoto(c, CacheIdle)
           \/ cacheJob' = [d \in Readers |-> CacheIdle]
        /\ UNCHANGED <<now, rowState, queryEntry, listEntry, tooStale, cacheOps>>

\* After the set, setHeader throws, since the headers are out; nobody awaits the
\* callback, and the unhandled rejection may stop the process.
ResponseSet(c) ==
    LET j == cacheJob[c]
    IN  /\ j.next = "responseSet"
        /\ Fills(responseEntry, responseEntry', Filled(j, ResponseTtl))
        /\ \/ CacheGoto(c, CacheIdle)
           \/ cacheJob' = [d \in Readers |-> CacheIdle]
        /\ UNCHANGED <<now, rowState, queryEntry, listEntry, tooStale, cacheOps>>

-----------------------------------------------------------------------------
(* findAll of both services, below the response layer                       *)

FindAll(c, table) ==
    /\ CacheBegin(c, [CacheIdle EXCEPT !.next = "listGet", !.table = table])
    /\ UNCHANGED <<now, rowState, entries, tooStale, redisFaults>>

\* Whichever service stored the list.
ListGet(c) ==
    /\ cacheJob[c].next = "listGet"
    /\ \/ /\ Stored(listEntry)
          /\ IF listEntry.found
             THEN CacheAnswer(listEntry.version, QueryTtl, listEntry.slack)
             ELSE UNCHANGED tooStale
          /\ CacheGoto(c, CacheIdle) /\ UNCHANGED redisFaults
       \/ /\ Miss(listEntry)
          /\ CacheGoto(c, CacheThen(c, "listQuery")) /\ UNCHANGED tooStale
    /\ UNCHANGED <<now, rowState, entries, cacheOps>>

ListQuery(c) ==
    /\ cacheJob[c].next = "listQuery"
    /\ \/ CacheGoto(c, [CacheThen(c, "listSet") EXCEPT
                           !.version = version, !.at = now,
                           !.found = present /\ cacheJob[c].table = "accounts"])
       \/ CacheGoto(c, CacheIdle)
    /\ UNCHANGED <<now, rowState, entries, tooStale, cacheOps, redisFaults>>

ListSet(c) ==
    LET j == cacheJob[c]
    IN  /\ j.next = "listSet"
        /\ Fills(listEntry, listEntry',
                 [found |-> j.found, version |-> j.version, expires |-> now + QueryTtl,
                  slack |-> now - j.at])
        /\ IF j.found THEN CacheAnswer(j.version, QueryTtl, now - j.at)
           ELSE UNCHANGED tooStale
        /\ CacheGoto(c, CacheIdle)
        /\ UNCHANGED <<now, rowState, queryEntry, responseEntry, cacheOps>>

\* Redis drops what has expired.
CacheTimePasses ==
    /\ now < MaxTime /\ now' = now + 1
    /\ queryEntry' = IF queryEntry.expires > now + 1 THEN queryEntry ELSE NoEntry
    /\ responseEntry' = IF responseEntry.expires > now + 1 THEN responseEntry ELSE NoEntry
    /\ listEntry' = IF listEntry.expires > now + 1 THEN listEntry ELSE NoList
    /\ UNCHANGED <<rowState, cacheJob, tooStale, cacheOps, redisFaults>>

CachesNext ==
    \/ CacheTimePasses \/ RemoveRow
    \/ \E c \in Readers :
         \/ GetById(c) \/ Update(c) \/ ResponseGet(c) \/ QueryGet(c) \/ Query(c)
         \/ QuerySet(c) \/ ResponseSet(c)
         \/ \E table \in Tables : FindAll(c, table)
         \/ ListGet(c) \/ ListQuery(c) \/ ListSet(c)

-----------------------------------------------------------------------------
(* Properties                                                               *)

\* Without invalidation, what is read of a row, also right after updating it and also
\* in a list, was current within the times to live of the layers it passed, plus the
\* time their fills took, whatever fills and updates race, whichever service stored
\* the list and whatever Redis fails (executeWithCache, intercept).
StalenessBounded == ~tooStale
=============================================================================
