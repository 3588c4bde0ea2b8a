------------------------------ MODULE PipelineProofs ------------------------------
(***************************************************************************)
(* Theorems about the transactions sent to the chain, the rows that record  *)
(* them and the announcements of both (Transactions.tla), and about the     *)
(* pipeline that carries their events (EventPipeline.tla), for all callers, *)
(* signatures, events, flushes and bounds.                                  *)
(***************************************************************************)
EXTENDS MCPipeline, LedgerProofs, SequenceTheorems

-----------------------------------------------------------------------------
(* Transactions                                                             *)

SendSpec == TransactionsInit /\ [][TransactionsStep]_sendVars

SendJob == [next : Calls, signature : All, status : TransactionStatus_,
            previous : TransactionStatus_, sending : BOOLEAN, client : BOOLEAN]

Announcement == [signature : All, type : EventTypes]

SendTypes ==
    /\ chain \in [All -> Outcomes]
    /\ rows \in [All -> TransactionRow \cup {NoTransaction}]
    /\ given \in [All -> {"never", "now", "once"}]
    /\ attempts \in [All -> TransactionRow \cup {NoTransaction}]
    /\ job \in [Callers -> SendJob]
    /\ announced \in Seq(Announcement)
    /\ sendFaults \in Nat /\ entwined \in BOOLEAN

\* A row whose status no client chose tells what the cluster reported.
RowsTrue(ro, gi, ch) == \A s \in All : gi[s] # "now" => Says(ro[s].status, ch[s])

\* A request with a status that it writes or announces.
Telling == {"create", "created", "confirmed", "updateLoad", "updateWrite", "reload",
            "updated", "outcome"}

\* So does the service's request; a sender has not sent before it sends.
JobTrue(j, ch) ==
    /\ j.next \in Telling /\ ~j.client => Says(j.status, ch[j.signature])
    /\ j.next \in {"accounts", "build", "send"} => j.sending /\ ch[j.signature] = "unknown"
    /\ j.next \in {"await", "confirmed"} => j.sending
    /\ j.next = "outcome" => ~j.client
    /\ j.sending => j.signature \in Signatures /\ j.status = "confirmed" /\ ~j.client
                 /\ j.next \notin {"idle", "load", "getStatus", "updateLoad",
                                    "updateWrite", "reload", "updated", "outcome"}

\* Two senders send two transactions.
Apart(jobs) ==
    \A c, d \in Callers :
       c # d /\ jobs[c].sending /\ jobs[d].sending => jobs[c].signature # jobs[d].signature

\* Where in the events a the transaction s is announced as confirmed.
Told(a, s) == {i \in DOMAIN a : a[i] = [signature |-> s, type |-> "confirmed"]}

\* Only what the cluster confirmed is announced as confirmed.
AnnouncedTrue(a, ch) == \A s \in All : Told(a, s) # {} => ch[s] \in Landed

\* The cluster has decided, and status st tells how.
Final(st, ch) == \/ st = "confirmed" /\ ch \in Landed
                 \/ st = "failed" /\ ch = "failed"

\* A transaction that is sent, as long as requests follow one another.
RowAlone(s, ch, ro, at, a, gi) ==
    /\ ch[s] = "unknown" => ro[s] = NoTransaction /\ gi[s] = "never"
    /\ at[s] # NoTransaction => ch[s] \in {"unknown", "failed"}
    /\ gi[s] = "never" /\ ro[s] # NoTransaction => Final(ro[s].status, ch[s])
    /\ gi[s] = "never" => Unique(Told(a, s))

\* The request in progress, as long as requests follow one another: what it is
\* about to record is not on record yet, and what it updates is a row of others
\* or one that a client touched.
JobAlone(j, ch, ro, at, a, gi) ==
    /\ j.sending => at[j.signature] = NoTransaction
    /\ j.sending /\ j.next \in {"await", "create"} => ro[j.signature] = NoTransaction
    /\ j.sending /\ j.next # "saveFailed" => Told(a, j.signature) = {}
    /\ j.sending /\ j.next = "await" => ch[j.signature] # "unknown"
    /\ j.next = "saveFailed" => j.sending /\ ch[j.signature] \in {"unknown", "failed"}
    /\ j.next = "getStatus" => /\ ro[j.signature] # NoTransaction
                               /\ ro[j.signature].status = j.previous
    /\ j.next \in {"updateLoad", "updateWrite"} =>
         j.signature \in Foreign \/ gi[j.signature] # "never" \/ j.client
    /\ j.next = "updateWrite" => ro[j.signature] # NoTransaction
    /\ j.next \in {"reload", "updated", "outcome"} =>
         j.signature \in Foreign \/ gi[j.signature] # "never"
    /\ j.next = "create" /\ ~j.sending /\ j.signature \in Signatures =>
         (j.client /\ ch[j.signature] # "unknown") \/ Final(j.status, ch[j.signature])

OneByOne(jobs, ch, ro, at, a, gi) ==
    /\ \A c, d \in Callers : jobs[c].next # "idle" /\ jobs[d].next # "idle" => c = d
    /\ \A s \in Signatures : RowAlone(s, ch, ro, at, a, gi)
    /\ \A c \in Callers : JobAlone(jobs[c], ch, ro, at, a, gi)

SendInv ==
    /\ SendTypes /\ RowsTrue(rows, given, chain) /\ AnnouncedTrue(announced, chain)
    /\ \A c \in Callers : JobTrue(job[c], chain)
    /\ Apart(job)
    /\ sendFaults = 0 /\ ~entwined =>
         OneByOne(job, chain, rows, attempts, announced, given)

LEMMA ToldAppend ==
    ASSUME NEW a \in Seq(Announcement), NEW m \in Announcement, NEW s
    PROVE  /\ m.signature # s \/ m.type # "confirmed" => Told(Append(a, m), s) = Told(a, s)
           /\ Told(a, s) = {} => Unique(Told(Append(a, m), s))
<1> DEFINE b == Append(a, m)
<1>1. /\ Len(a) \in Nat /\ DOMAIN a = 1 .. Len(a) /\ DOMAIN b = 1 .. Len(a) + 1
      /\ \A i \in 1 .. Len(a) : b[i] = a[i]
      /\ b[Len(a) + 1] = m
  BY AppendProperties, LenProperties
<1> HIDE DEF b
<1>2. ASSUME m.signature # s \/ m.type # "confirmed"
      PROVE  Told(b, s) = Told(a, s)
  <2>1. m # [signature |-> s, type |-> "confirmed"]
    BY <1>2
  <2> QED
    BY <1>1, <2>1 DEF Told
<1>3. ASSUME Told(a, s) = {}
      PROVE  Unique(Told(b, s))
  <2>1. \A i \in Told(b, s) : i = Len(a) + 1
    BY <1>1, <1>3 DEF Told
  <2> QED
    BY <2>1 DEF Unique
<1> QED
  BY <1>2, <1>3 DEF b

\* A caller at rest has no sending and no duties.
LEMMA AtRest ==
    /\ NoJob \in SendJob /\ NoJob.next = "idle" /\ ~NoJob.sending /\ ~NoJob.client
    /\ NoJob.status = "pending"
    /\ \A ch : JobTrue(NoJob, ch)
    /\ \A j, ch, ro, at, a, gi :
         j.next = "idle" /\ JobTrue(j, ch) => JobAlone(j, ch, ro, at, a, gi)
<1>1. (CHOOSE s \in All : TRUE) \in All
  BY TransactionsAssumption
<1>2. NoJob \in SendJob
  BY <1>1 DEF NoJob, SendJob, Calls, TransactionStatus_
<1>3. /\ NoJob.next = "idle" /\ ~NoJob.sending /\ ~NoJob.client
      /\ NoJob.status = "pending"
  BY DEF NoJob
<1>4. \A ch : JobTrue(NoJob, ch)
  BY <1>3 DEF JobTrue, Telling
<1>5. ASSUME NEW j, NEW ch, NEW ro, NEW at, NEW a, NEW gi, j.next = "idle", JobTrue(j, ch)
      PROVE  JobAlone(j, ch, ro, at, a, gi)
  BY <1>5 DEF JobTrue, JobAlone
<1> QED
  BY <1>2, <1>3, <1>4, <1>5

\* k is j a call further, or at rest.
Moved(j, k, next) ==
    \/ next = "idle" /\ k = NoJob
    \/ /\ next # "idle" /\ k.next = next
       /\ k.signature = j.signature /\ k.status = j.status
       /\ k.previous = j.previous /\ k.sending = j.sending /\ k.client = j.client

LEMMA ProceedMoves ==
    ASSUME SendTypes, NEW c \in Callers, NEW next \in Calls, Proceed(c, next)
    PROVE  \E k \in SendJob : job' = [job EXCEPT ![c] = k] /\ Moved(job[c], k, next)
<1>1. job[c] \in SendJob
  BY DEF SendTypes
<1>2. CASE next = "idle"
  <2>1. job' = [job EXCEPT ![c] = NoJob]
    BY <1>2 DEF Proceed
  <2> QED
    BY <1>2, <2>1, AtRest DEF Moved
<1>3. CASE next # "idle"
  <2> DEFINE k == [job[c] EXCEPT !.next = next]
  <2>1. k \in SendJob
    BY <1>1 DEF SendJob
  <2>2. Moved(job[c], k, next)
    BY <1>1, <1>3 DEF Moved, SendJob
  <2>3. job' = [job EXCEPT ![c] = k]
    BY <1>3 DEF Proceed
  <2> HIDE DEF k
  <2> QED
    BY <2>1, <2>2, <2>3
<1> QED
  BY <1>2, <1>3

LEMMA CaughtMoves ==
    ASSUME SendTypes, NEW c \in Callers, Caught(c)
    PROVE  \E k \in SendJob : /\ job' = [job EXCEPT ![c] = k]
                              /\ \/ job[c].sending /\ Moved(job[c], k, "saveFailed")
                                 \/ ~job[c].sending /\ Moved(job[c], k, "idle")
<1>1. CASE job[c].sending
  <2>1. Proceed(c, "saveFailed") /\ "saveFailed" \in Calls
    BY <1>1 DEF Caught, Calls
  <2> QED
    BY <1>1, <2>1, ProceedMoves
<1>2. CASE ~job[c].sending
  <2>1. Proceed(c, "idle") /\ "idle" \in Calls
    BY <1>2 DEF Caught, Calls
  <2> QED
    BY <1>2, <2>1, ProceedMoves
<1> QED
  BY <1>1, <1>2

\* One caller c goes on to k while the chain stands still: what is to be shown.
LEMMA SendStep ==
    ASSUME SendInv, NEW c \in Callers, NEW k \in SendJob, job' = [job EXCEPT ![c] = k],
           chain' = chain,
           rows' \in [All -> TransactionRow \cup {NoTransaction}],
           attempts' \in [All -> TransactionRow \cup {NoTransaction}],
           announced' \in Seq(Announcement),
           given' \in [All -> {"never", "now", "once"}],
           sendFaults' \in {sendFaults, sendFaults + 1},
           job[c].next = "idle" =>
             entwined' = (entwined \/ \E d \in Callers : job[d].next # "idle"),
           job[c].next # "idle" => entwined' = entwined,
           RowsTrue(rows', given', chain), AnnouncedTrue(announced', chain),
           JobTrue(k, chain),
           k.sending => \/ job[c].sending /\ k.signature = job[c].signature
                        \/ \A d \in Callers : job[d].next # "idle" =>
                                                job[d].signature # k.signature,
           sendFaults' = 0 /\ ~entwined' =>
             /\ JobAlone(k, chain, rows', attempts', announced', given')
             /\ \A s \in Signatures : RowAlone(s, chain, rows', attempts', announced', given')
    PROVE  SendInv'
<1>1. /\ job \in [Callers -> SendJob]
      /\ \A d \in Callers : job'[d] = IF d = c THEN k ELSE job[d]
      /\ \A d \in Callers : JobTrue(job[d], chain)
  BY DEF SendInv, SendTypes
<1>2. entwined' \in BOOLEAN
  BY DEF SendInv, SendTypes
<1>3. SendTypes'
  BY <1>1, <1>2 DEF SendInv, SendTypes
<1>4. \A d \in Callers : JobTrue(job'[d], chain)
  BY <1>1
<1>5. Apart(job')
  <2> SUFFICES ASSUME NEW d \in Callers, NEW e \in Callers, d # e, job'[d].sending,
                      job'[e].sending
               PROVE  job'[d].signature # job'[e].signature
    BY DEF Apart
  <2>1. \A x \in Callers : job[x].sending => job[x].next # "idle"
    BY <1>1 DEF JobTrue
  <2>2. Apart(job)
    BY DEF SendInv
  <2>3. \A x \in Callers : x # c /\ k.sending /\ job[x].sending =>
                             job[x].signature # k.signature
    BY <2>1, <2>2 DEF Apart
  <2> QED
    BY <1>1, <2>2, <2>3 DEF Apart
<1>6. ASSUME sendFaults' = 0, ~entwined'
      PROVE  OneByOne(job', chain, rows', attempts', announced', given')
  <2>1. sendFaults = 0 /\ ~entwined
    BY <1>6 DEF SendInv, SendTypes
  <2>2. \A d \in Callers : d # c => job[d].next = "idle"
    <3>1. \A x, d \in Callers : job[x].next # "idle" /\ job[d].next # "idle" => x = d
      BY <2>1 DEF SendInv, OneByOne
    <3> QED
      BY <1>6, <3>1
  <2>3. \A d \in Callers : JobAlone(job'[d], chain, rows', attempts', announced', given')
    BY <1>1, <1>6, <2>2, AtRest
  <2> QED
    BY <1>1, <1>6, <2>2, <2>3 DEF OneByOne
<1> QED
  BY <1>3, <1>4, <1>5, <1>6 DEF SendInv

\* What a request in progress can count on.
Knows(c) ==
    /\ job[c] \in SendJob /\ JobTrue(job[c], chain) /\ sendFaults \in Nat
    /\ RowsTrue(rows, given, chain) /\ AnnouncedTrue(announced, chain)
    /\ sendFaults = 0 /\ ~entwined =>
         /\ JobAlone(job[c], chain, rows, attempts, announced, given)
         /\ \A s \in Signatures : RowAlone(s, chain, rows, attempts, announced, given)

LEMMA KnowsOf ==
    ASSUME SendInv, NEW c \in Callers
    PROVE  Knows(c)
BY DEF SendInv, SendTypes, OneByOne, Knows

\* A call that leaves chain, rows and events alone.
LEMMA PlainMove ==
    ASSUME SendInv, NEW c \in Callers, NEW k \in SendJob, job' = [job EXCEPT ![c] = k],
           job[c].next # "idle", chain' = chain, rows' = rows, given' = given,
           attempts' = attempts, announced' = announced, entwined' = entwined,
           sendFaults' \in {sendFaults, sendFaults + 1},
           k = NoJob \/ (k.signature = job[c].signature /\ (k.sending => job[c].sending)),
           JobTrue(k, chain),
           sendFaults' = 0 /\ ~entwined /\ Knows(c) =>
             JobAlone(k, chain, rows, attempts, announced, given)
    PROVE  SendInv'
<1>1. Knows(c)
  BY KnowsOf
<1>2. sendFaults' = 0 => sendFaults = 0
  BY <1>1 DEF Knows
<1>3. k.sending => job[c].sending /\ k.signature = job[c].signature
  BY AtRest
<1>4. /\ rows' \in [All -> TransactionRow \cup {NoTransaction}]
      /\ attempts' \in [All -> TransactionRow \cup {NoTransaction}]
      /\ announced' \in Seq(Announcement) /\ entwined' = entwined /\ chain' = chain
      /\ given' \in [All -> {"never", "now", "once"}] /\ given' = given
      /\ rows' = rows /\ attempts' = attempts /\ announced' = announced
  BY DEF SendInv, SendTypes
<1>5. sendFaults' = 0 /\ ~entwined' =>
        /\ JobAlone(k, chain, rows', attempts', announced', given')
        /\ \A s \in Signatures : RowAlone(s, chain, rows', attempts', announced', given')
  BY <1>1, <1>2, <1>4 DEF Knows
<1> QED
  BY <1>1, <1>3, <1>4, <1>5, SendStep DEF Knows

\* A rejected call that is a fault.
LEMMA FaultMove ==
    ASSUME SendInv, NEW c \in Callers, job[c].next # "idle", Caught(c), Fault,
           UNCHANGED <<chain, rows, given, attempts, announced, entwined>>
    PROVE  SendInv'
<1>1. Knows(c) /\ SendTypes
  BY KnowsOf DEF SendInv
<1>2. PICK k \in SendJob : /\ job' = [job EXCEPT ![c] = k]
                           /\ \/ job[c].sending /\ Moved(job[c], k, "saveFailed")
                              \/ ~job[c].sending /\ Moved(job[c], k, "idle")
  BY <1>1, CaughtMoves
<1>3. JobTrue(k, chain)
  BY <1>1, <1>2, AtRest DEF Moved, JobTrue, Telling, Knows
<1>4. sendFaults' = sendFaults + 1 /\ sendFaults' # 0
  BY <1>1 DEF Fault, Knows
<1>5. /\ k = NoJob \/ (k.signature = job[c].signature /\ (k.sending => job[c].sending))
      /\ chain' = chain /\ rows' = rows /\ given' = given /\ attempts' = attempts
      /\ announced' = announced /\ entwined' = entwined
      /\ sendFaults' \in {sendFaults, sendFaults + 1}
  BY <1>2, <1>4 DEF Moved
<1> QED
  BY <1>2, <1>3, <1>4, <1>5, PlainMove

LEMMA TokenAccountsInv ==
    ASSUME SendInv, NEW c \in Callers, TokenAccounts(c)
    PROVE  SendInv'
<1>1. Knows(c) /\ SendTypes /\ job[c].next = "accounts"
  BY KnowsOf DEF TokenAccounts, SendInv
<1>2. CASE Proceed(c, "send") /\ UNCHANGED sendFaults
  <2>1. PICK k \in SendJob : job' = [job EXCEPT ![c] = k] /\ Moved(job[c], k, "send")
    BY <1>1, <1>2, ProceedMoves DEF Calls
  <2>2. JobTrue(k, chain)
    BY <1>1, <2>1 DEF Moved, JobTrue, Telling, Knows
  <2>3. sendFaults' = 0 /\ ~entwined /\ Knows(c) =>
          JobAlone(k, chain, rows, attempts, announced, given)
    BY <1>1, <1>2, <2>1 DEF Moved, JobAlone, Knows
  <2> QED
    BY <1>1, <1>2, <2>1, <2>2, <2>3, PlainMove DEF TokenAccounts, Moved
<1>3. CASE Caught(c) /\ Fault
  BY <1>1, <1>3, FaultMove DEF TokenAccounts
<1> QED
  BY <1>2, <1>3 DEF TokenAccounts

LEMMA BuildBatchInv ==
    ASSUME SendInv, NEW c \in Callers, BuildBatch(c)
    PROVE  SendInv'
<1>1. Knows(c) /\ SendTypes /\ job[c].next = "build" /\ job[c].sending
  BY KnowsOf DEF BuildBatch, SendInv, Knows, JobTrue
<1>2. PICK next \in {"send", "saveFailed"}, k \in SendJob :
         job' = [job EXCEPT ![c] = k] /\ Moved(job[c], k, next)
  BY <1>1, ProceedMoves, CaughtMoves DEF BuildBatch, Calls
<1>3. /\ JobTrue(k, chain) /\ k.signature = job[c].signature
      /\ k.sending = job[c].sending
  BY <1>1, <1>2 DEF Moved, JobTrue, Telling, Knows
<1>4. sendFaults' = 0 /\ ~entwined /\ Knows(c) =>
        JobAlone(k, chain, rows, attempts, announced, given)
  BY <1>1, <1>2 DEF Moved, JobAlone, JobTrue, Telling, Knows, BuildBatch
<1> QED
  BY <1>1, <1>2, <1>3, <1>4, PlainMove DEF BuildBatch

LEMMA AwaitConfirmationInv ==
    ASSUME SendInv, NEW c \in Callers, AwaitConfirmation(c)
    PROVE  SendInv'
<1>1. Knows(c) /\ SendTypes /\ job[c].next = "await" /\ job[c].sending
  BY KnowsOf DEF AwaitConfirmation, SendInv, Knows, JobTrue
<1>2. CASE chain[job[c].signature] \in Landed /\ Proceed(c, "create")
           /\ UNCHANGED sendFaults
  <2>1. PICK k \in SendJob : job' = [job EXCEPT ![c] = k] /\ Moved(job[c], k, "create")
    BY <1>1, <1>2, ProceedMoves DEF Calls
  <2>2. JobTrue(k, chain)
    <3>1. /\ k.next = "create" /\ k.signature = job[c].signature /\ ~k.client
          /\ k.status = "confirmed" /\ k.sending /\ k.signature \in Signatures
      BY <1>1, <2>1 DEF Moved, Knows, JobTrue
    <3>2. Says(k.status, chain[k.signature])
      BY <1>2, <3>1 DEF Says
    <3> QED
      BY <3>1, <3>2 DEF JobTrue
  <2>3. sendFaults' = 0 /\ ~entwined /\ Knows(c) =>
          JobAlone(k, chain, rows, attempts, announced, given)
    BY <1>1, <1>2, <2>1 DEF Moved, JobAlone, Knows
  <2> QED
    BY <1>1, <1>2, <2>1, <2>2, <2>3, PlainMove DEF AwaitConfirmation, Moved
<1>3. CASE chain[job[c].signature] = "failed" /\ Caught(c) /\ UNCHANGED sendFaults
  <2>1. PICK k \in SendJob : job' = [job EXCEPT ![c] = k] /\ Moved(job[c], k, "saveFailed")
    BY <1>1, <1>3, CaughtMoves
  <2>2. JobTrue(k, chain)
    BY <1>1, <1>3, <2>1 DEF Moved, JobTrue, Telling, Knows
  <2>3. sendFaults' = 0 /\ ~entwined /\ Knows(c) =>
          JobAlone(k, chain, rows, attempts, announced, given)
    BY <1>1, <1>3, <2>1 DEF Moved, JobAlone, Knows
  <2> QED
    BY <1>1, <1>3, <2>1, <2>2, <2>3, PlainMove DEF AwaitConfirmation, Moved
<1>4. CASE Caught(c) /\ Fault
  BY <1>1, <1>4, FaultMove DEF AwaitConfirmation
<1> QED
  BY <1>2, <1>3, <1>4 DEF AwaitConfirmation

LEMMA CreateRowInv ==
    ASSUME SendInv, NEW c \in Callers, CreateRow(c)
    PROVE  SendInv'
<1> DEFINE s == job[c].signature
           row == [status |-> job[c].status]
           by == GivenBy(c, s)
<1>1. Knows(c) /\ SendTypes /\ job[c].next = "create"
  BY KnowsOf DEF CreateRow, SendInv
<1>2. CASE /\ rows[s] = NoTransaction \/ job[c].client
           /\ rows' = [rows EXCEPT ![s] = row] /\ given' = [given EXCEPT ![s] = by]
           /\ Proceed(c, "created") /\ UNCHANGED sendFaults
  <2>1. PICK k \in SendJob : job' = [job EXCEPT ![c] = k] /\ Moved(job[c], k, "created")
    BY <1>1, <1>2, ProceedMoves DEF Calls
  <2>2. JobTrue(k, chain)
    BY <1>1, <2>1 DEF Moved, JobTrue, Telling, Knows
  <2>3. s \in All /\ row \in TransactionRow /\ row.status = job[c].status
    BY <1>1 DEF Knows, SendJob, TransactionRow
  <2>4. /\ by \in {"never", "now", "once"} /\ (job[c].client => by = "now")
        /\ ~job[c].client => by # "now" /\ (by = "never" => given[s] = "never")
    BY DEF GivenBy
  <2> HIDE DEF row, by
  <2>5. /\ rows' \in [All -> TransactionRow \cup {NoTransaction}]
        /\ \A t \in All : rows'[t] = IF t = s THEN row ELSE rows[t]
        /\ given' \in [All -> {"never", "now", "once"}]
        /\ \A t \in All : given'[t] = IF t = s THEN by ELSE given[t]
    BY <1>1, <1>2, <2>3, <2>4 DEF SendTypes
  <2>6. RowsTrue(rows', given', chain)
    <3>1. ~job[c].client => Says(row.status, chain[s])
      BY <1>1, <2>3 DEF Knows, JobTrue, Telling
    <3> QED
      BY <1>1, <2>4, <2>5, <3>1 DEF RowsTrue, Knows
  <2>7. /\ attempts' \in [All -> TransactionRow \cup {NoTransaction}]
        /\ announced' \in Seq(Announcement) /\ chain' = chain /\ entwined' = entwined
        /\ attempts' = attempts /\ announced' = announced
    BY <1>1 DEF SendTypes, CreateRow
  <2>8. ASSUME sendFaults' = 0, ~entwined'
        PROVE  /\ JobAlone(k, chain, rows', attempts', announced', given')
               /\ \A t \in Signatures : RowAlone(t, chain, rows', attempts', announced', given')
    <3>1. /\ JobAlone(job[c], chain, rows, attempts, announced, given)
          /\ \A t \in Signatures : RowAlone(t, chain, rows, attempts, announced, given)
      BY <1>1, <1>2, <2>7, <2>8 DEF Knows
    <3>2. JobAlone(k, chain, rows', attempts', announced', given')
      BY <1>1, <2>1, <2>7, <3>1 DEF Moved, JobAlone
    <3>3. s \in Signatures => /\ chain[s] # "unknown"
                              /\ ~job[c].client => Final(row.status, chain[s])
      <4>1. CASE job[c].sending
        <5>1. job[c].status = "confirmed" /\ Says(job[c].status, chain[s])
          BY <1>1, <4>1 DEF Knows, JobTrue, Telling
        <5> QED
          BY <2>3, <5>1 DEF Says, Final, Landed
      <4>2. CASE ~job[c].sending
        BY <1>1, <2>3, <3>1, <4>2 DEF JobAlone, Final, Landed
      <4> QED
        BY <4>1, <4>2
    <3>4. ASSUME NEW t \in Signatures
          PROVE  RowAlone(t, chain, rows', attempts', announced', given')
      <4>1. t \in All /\ RowAlone(t, chain, rows, attempts, announced, given)
        BY <3>1 DEF All
      <4>2. CASE t # s
        <5>1. rows'[t] = rows[t] /\ given'[t] = given[t]
          BY <2>5, <4>1, <4>2
        <5> QED
          BY <2>7, <4>1, <5>1 DEF RowAlone
      <4>3. CASE t = s
        <5>1. rows'[t] = row /\ given'[t] = by
          BY <2>5, <4>1, <4>3
        <5> QED
          BY <2>4, <2>7, <3>3, <4>1, <4>3, <5>1 DEF RowAlone
      <4> QED
        BY <4>2, <4>3
    <3> QED
      BY <3>2, <3>4
  <2>9. k.sending => job[c].sending /\ k.signature = job[c].signature
    BY <2>1 DEF Moved
  <2>10. AnnouncedTrue(announced', chain)
    BY <1>1, <2>7 DEF Knows
  <2> QED
    BY <1>1, <1>2, <2>1, <2>2, <2>5, <2>6, <2>7, <2>8, <2>9, <2>10, SendStep
<1>3. CASE rows[s] # NoTransaction /\ Caught(c) /\ UNCHANGED <<rows, given, sendFaults>>
  <2>1. PICK k \in SendJob : /\ job' = [job EXCEPT ![c] = k]
                             /\ \/ job[c].sending /\ Moved(job[c], k, "saveFailed")
                                \/ ~job[c].sending /\ Moved(job[c], k, "idle")
    BY <1>1, <1>3, CaughtMoves
  <2>2. JobTrue(k, chain)
    BY <1>1, <2>1, AtRest DEF Moved, JobTrue, Telling, Knows
  <2>3. sendFaults' = 0 /\ ~entwined /\ Knows(c) =>
          JobAlone(k, chain, rows, attempts, announced, given)
    BY <1>1, <1>3, <2>1, <2>2, AtRest DEF Moved, JobAlone, Knows
  <2>4. /\ k = NoJob \/ (k.signature = job[c].signature /\ (k.sending => job[c].sending))
        /\ job[c].next # "idle" /\ chain' = chain /\ rows' = rows /\ given' = given
        /\ attempts' = attempts /\ announced' = announced /\ entwined' = entwined
        /\ sendFaults' \in {sendFaults, sendFaults + 1}
    BY <1>1, <1>3, <2>1 DEF Moved, CreateRow
  <2> QED
    BY <2>1, <2>2, <2>3, <2>4, PlainMove
<1>4. CASE Caught(c) /\ Fault /\ UNCHANGED <<rows, given>>
  BY <1>1, <1>4, FaultMove DEF CreateRow
<1> QED
  BY <1>2, <1>3, <1>4 DEF CreateRow

\* An event is published, and the caller goes on.
LEMMA PublishMove ==
    ASSUME SendInv, NEW c \in Callers, NEW step \in Calls \ {"idle", "saveFailed"},
           NEW type \in EventTypes, NEW next \in Calls, Publish(c, step, type, next),
           \* What comes next fits the caller.
           next \notin {"create", "updateLoad", "updateWrite", "accounts", "build",
                        "send", "await", "saveFailed", "load", "getStatus"},
           next \in Telling => step \in Telling,
           next = "confirmed" => job[c].sending,
           next = "outcome" => ~job[c].client /\ step = "updated",
           next \in {"reload", "updated"} => step = "updated",
           next # "idle" => type # "confirmed",
           type = "confirmed" => chain[job[c].signature] \in Landed,
           type = "confirmed" /\ sendFaults = 0 /\ ~entwined /\ Knows(c)
             /\ job[c].signature \in Signatures /\ given[job[c].signature] = "never" =>
               Told(announced, job[c].signature) = {}
    PROVE  SendInv'
<1> DEFINE m == [signature |-> job[c].signature, type |-> type]
<1>1. Knows(c) /\ SendTypes /\ job[c].next = step /\ step # "idle"
  BY KnowsOf DEF Publish, SendInv
<1>2. m \in Announcement /\ m.signature = job[c].signature /\ m.type = type
  BY <1>1 DEF Knows, SendJob, Announcement
<1>3. announced' = Append(announced, m)
  BY DEF Publish
<1> HIDE DEF m
<1>4. /\ announced \in Seq(Announcement) /\ announced' \in Seq(Announcement)
      /\ rows' = rows /\ attempts' = attempts /\ chain' = chain /\ entwined' = entwined
      /\ rows' \in [All -> TransactionRow \cup {NoTransaction}]
      /\ attempts' \in [All -> TransactionRow \cup {NoTransaction}]
  BY <1>1, <1>2, <1>3, AppendProperties DEF SendTypes, Publish
<1>0. given' = given /\ given' \in [All -> {"never", "now", "once"}]
  BY <1>1 DEF SendTypes, Publish
<1>5. PICK k \in SendJob :
         /\ job' = [job EXCEPT ![c] = k]
         /\ \/ Moved(job[c], k, next) /\ sendFaults' = sendFaults
            \/ /\ \/ job[c].sending /\ Moved(job[c], k, "saveFailed")
                  \/ ~job[c].sending /\ Moved(job[c], k, "idle")
               /\ sendFaults' = sendFaults + 1
  <2>1. CASE Proceed(c, next) /\ UNCHANGED sendFaults
    BY <1>1, <2>1, ProceedMoves
  <2>2. CASE Caught(c) /\ Fault
    BY <1>1, <2>2, CaughtMoves DEF Fault
  <2> QED
    BY <2>1, <2>2 DEF Publish
<1>6. JobTrue(k, chain)
  <2>1. CASE k = NoJob
    BY <2>1, AtRest
  <2>2. CASE k # NoJob
    BY <1>1, <1>5, <2>2 DEF Moved, JobTrue, Telling, Knows
  <2> QED
    BY <2>1, <2>2
<1>9. AnnouncedTrue(announced', chain)
  <2> SUFFICES ASSUME NEW s \in All, Told(announced', s) # {}
               PROVE  chain[s] \in Landed
    BY DEF AnnouncedTrue
  <2>1. CASE job[c].signature # s \/ type # "confirmed"
    <3>1. Told(announced', s) = Told(announced, s)
      BY <1>2, <1>3, <1>4, <2>1, ToldAppend
    <3> QED
      BY <1>1, <3>1 DEF Knows, AnnouncedTrue
  <2> QED
    BY <2>1
<1>7. k.sending => job[c].sending /\ k.signature = job[c].signature
  BY <1>5, AtRest DEF Moved
<1>8. ASSUME sendFaults' = 0, ~entwined'
      PROVE  /\ JobAlone(k, chain, rows', attempts', announced', given')
             /\ \A s \in Signatures : RowAlone(s, chain, rows', attempts', announced', given')
  <2>1. /\ sendFaults = 0 /\ ~entwined /\ Moved(job[c], k, next)
        /\ JobAlone(job[c], chain, rows, attempts, announced, given)
        /\ \A s \in Signatures : RowAlone(s, chain, rows, attempts, announced, given)
    BY <1>1, <1>4, <1>5, <1>8 DEF Knows
  <2>2. ASSUME NEW s \in Signatures
        PROVE  RowAlone(s, chain, rows', attempts', announced', given')
    <3>1. CASE job[c].signature # s \/ type # "confirmed"
      <4>1. Told(announced', s) = Told(announced, s)
        BY <1>2, <1>3, <1>4, <3>1, ToldAppend
      <4> QED
        BY <1>0, <1>4, <2>1, <4>1 DEF RowAlone
    <3>2. CASE job[c].signature = s /\ type = "confirmed"
      <4>1. given[s] = "never" => Unique(Told(announced', s))
        BY <1>1, <1>2, <1>3, <1>4, <2>1, <3>2, ToldAppend
      <4> QED
        BY <1>0, <1>4, <2>1, <4>1 DEF RowAlone
    <3> QED
      BY <3>1, <3>2
  <2>3. CASE k.next = "idle"
    BY <1>6, <2>2, <2>3, AtRest
  <2>4. CASE k.next # "idle"
    <3>1. /\ next # "idle" /\ k.next = next /\ k.signature = job[c].signature
          /\ k.sending = job[c].sending
      BY <2>1, <2>4, AtRest DEF Moved
    <3>2. Told(announced', job[c].signature) = Told(announced, job[c].signature)
      BY <1>1, <1>2, <1>3, <1>4, <2>1, <3>1, ToldAppend
    <3>3. job[c].sending /\ job[c].next # "saveFailed" =>
            Told(announced, job[c].signature) = {}
      BY <2>1 DEF JobAlone
    <3> QED
      BY <1>0, <1>1, <1>4, <2>1, <2>2, <3>1, <3>2, <3>3 DEF JobAlone
  <2> QED
    BY <2>3, <2>4
<1> QED
  BY <1>0, <1>1, <1>4, <1>5, <1>6, <1>7, <1>8, <1>9, SendStep DEF Knows

LEMMA PublishingInv ==
    ASSUME SendInv, NEW c \in Callers,
           \/ PublishCreated(c) \/ PublishConfirmed(c) \/ PublishFailedCreated(c)
           \/ PublishFailed(c) \/ PublishUpdated(c) \/ PublishOutcome(c)
    PROVE  SendInv'
<1>1. Knows(c) /\ SendTypes
  BY KnowsOf DEF SendInv
<1>2. CASE PublishCreated(c)
  <2>1. PICK next \in {"confirmed", "idle"} :
           Publish(c, "created", "created", next) /\ (next = "confirmed" <=> job[c].sending)
    BY <1>2 DEF PublishCreated
  <2> QED
    BY <2>1, PublishMove DEF Calls, EventTypes, Telling
<1>3. CASE PublishConfirmed(c)
  <2>1. Publish(c, "confirmed", "confirmed", "idle") /\ job[c].next = "confirmed"
    BY <1>3 DEF PublishConfirmed, Publish
  <2>2. job[c].sending /\ chain[job[c].signature] \in Landed
    BY <1>1, <2>1 DEF Knows, JobTrue, Telling, Says
  <2>3. sendFaults = 0 /\ ~entwined => Told(announced, job[c].signature) = {}
    BY <1>1, <2>1, <2>2 DEF JobAlone, Knows
  <2> QED
    BY <2>1, <2>2, <2>3, PublishMove DEF Calls, EventTypes, Telling
<1>4. CASE PublishFailedCreated(c)
  BY <1>4, PublishMove DEF Calls, EventTypes, PublishFailedCreated, Telling
<1>5. CASE PublishFailed(c)
  BY <1>5, PublishMove DEF Calls, EventTypes, PublishFailed, Telling
<1>6. CASE PublishUpdated(c)
  <2>1. PICK next \in {"idle", "outcome"} :
           Publish(c, "updated", "status_updated", next) /\ (next = "idle" <=> job[c].client)
    BY <1>6 DEF PublishUpdated, AfterUpdate
  <2> QED
    BY <2>1, PublishMove DEF Calls, EventTypes, Telling
<1>7. CASE PublishOutcome(c)
  <2>1. CASE job[c].status # "pending" /\ Publish(c, "outcome", job[c].status, "idle")
    <3>1. job[c].next = "outcome" /\ job[c].status \in {"confirmed", "failed"}
      BY <1>1, <2>1 DEF Publish, Knows, SendJob, TransactionStatus_
    <3>2. job[c].status = "confirmed" => chain[job[c].signature] \in Landed
      BY <1>1, <3>1 DEF Knows, JobTrue, Telling, Says
    <3>3. sendFaults = 0 /\ ~entwined =>
            job[c].signature \notin Signatures \/ given[job[c].signature] # "never"
      BY <1>1, <3>1, TransactionsAssumption DEF JobAlone, Knows
    <3> QED
      BY <2>1, <3>1, <3>2, <3>3, PublishMove DEF Calls, EventTypes, Telling
  <2>2. CASE /\ job[c].next = "outcome" /\ job[c].status = "pending"
             /\ Proceed(c, "idle")
             /\ UNCHANGED <<chain, rows, given, attempts, announced, entwined, sendFaults>>
    <3>1. job' = [job EXCEPT ![c] = NoJob]
      BY <2>2 DEF Proceed
    <3> QED
      BY <2>2, <3>1, PlainMove, AtRest
  <2> QED
    BY <1>7, <2>1, <2>2 DEF PublishOutcome
<1> QED
  BY <1>2, <1>3, <1>4, <1>5, <1>6, <1>7

LEMMA SaveFailedInv ==
    ASSUME SendInv, NEW c \in Callers, SaveFailed(c)
    PROVE  SendInv'
<1> DEFINE s == job[c].signature
           row == [status |-> "failed"]
           k == [job[c] EXCEPT !.next = "failedCreated", !.sending = FALSE]
<1>1. Knows(c) /\ SendTypes /\ job[c].next = "saveFailed" /\ job[c] \in SendJob
  BY KnowsOf DEF SaveFailed, SendInv, Knows
<1>2. CASE /\ attempts' = [attempts EXCEPT ![s] = row]
           /\ job' = [job EXCEPT ![c] = k] /\ UNCHANGED sendFaults
  <2>1. k \in SendJob /\ k.next = "failedCreated" /\ ~k.sending
    BY <1>1 DEF SendJob, Calls
  <2>2. s \in All /\ row \in TransactionRow
    BY <1>1 DEF SendJob, TransactionRow, TransactionStatus_
  <2> HIDE DEF k, row
  <2>3. /\ attempts' \in [All -> TransactionRow \cup {NoTransaction}]
        /\ \A t \in All : attempts'[t] = IF t = s THEN row ELSE attempts[t]
    BY <1>1, <1>2, <2>2 DEF SendTypes
  <2>4. /\ rows' \in [All -> TransactionRow \cup {NoTransaction}] /\ rows' = rows
        /\ announced' \in Seq(Announcement) /\ announced' = announced
        /\ given' \in [All -> {"never", "now", "once"}] /\ given' = given
        /\ chain' = chain /\ entwined' = entwined
    BY <1>1 DEF SendTypes, SaveFailed
  <2>5. JobTrue(k, chain)
    BY <2>1 DEF JobTrue, Telling
  <2>6. ASSUME sendFaults' = 0, ~entwined'
        PROVE  /\ JobAlone(k, chain, rows', attempts', announced', given')
               /\ \A t \in Signatures : RowAlone(t, chain, rows', attempts', announced', given')
    <3>1. /\ JobAlone(job[c], chain, rows, attempts, announced, given)
          /\ \A t \in Signatures : RowAlone(t, chain, rows, attempts, announced, given)
      BY <1>1, <1>2, <2>4, <2>6 DEF Knows
    <3>2. chain[s] \in {"unknown", "failed"}
      BY <1>1, <3>1 DEF JobAlone
    <3>3. ASSUME NEW t \in Signatures
          PROVE  RowAlone(t, chain, rows', attempts', announced', given')
      <4>1. t \in All
        BY DEF All
      <4> QED
        BY <2>3, <2>4, <3>1, <3>2, <4>1 DEF RowAlone
    <3> QED
      BY <2>1, <3>3 DEF JobAlone
  <2> QED
    BY <1>1, <1>2, <2>1, <2>3, <2>4, <2>5, <2>6, SendStep DEF Knows
<1>3. CASE Proceed(c, "idle") /\ Fault /\ UNCHANGED attempts
  <2>1. job' = [job EXCEPT ![c] = NoJob]
    BY <1>3 DEF Proceed
  <2>2. sendFaults' = sendFaults + 1
    BY <1>3 DEF Fault
  <2> QED
    BY <1>1, <1>3, <2>1, <2>2, PlainMove, AtRest DEF SaveFailed
<1> QED
  BY <1>2, <1>3 DEF SaveFailed

\* A request begins while c is at rest; row and events stay.
LEMMA BeginStep ==
    ASSUME SendInv, NEW c \in Callers, NEW k \in SendJob, job' = [job EXCEPT ![c] = k],
           job[c].next = "idle",
           entwined' = (entwined \/ \E d \in Callers : ~Idle_(d)),
           chain' = chain, rows' = rows, given' = given, attempts' = attempts,
           announced' = announced, sendFaults' = sendFaults,
           JobTrue(k, chain),
           k.sending => \A d \in Callers : job[d].next # "idle" =>
                                             job[d].signature # k.signature,
           sendFaults = 0 /\ ~entwined /\ Knows(c) =>
             JobAlone(k, chain, rows, attempts, announced, given)
    PROVE  SendInv'
<1>1. Knows(c) /\ SendTypes
  BY KnowsOf DEF SendInv
<1>2. entwined' = (entwined \/ \E d \in Callers : job[d].next # "idle")
  BY DEF Idle_
<1>3. ~entwined' => ~entwined
  BY <1>2
<1>4. sendFaults' = 0 /\ ~entwined' =>
        /\ JobAlone(k, chain, rows', attempts', announced', given')
        /\ \A s \in Signatures : RowAlone(s, chain, rows', attempts', announced', given')
  BY <1>1, <1>3 DEF Knows
<1>5. /\ rows' \in [All -> TransactionRow \cup {NoTransaction}]
      /\ attempts' \in [All -> TransactionRow \cup {NoTransaction}]
      /\ announced' \in Seq(Announcement) /\ RowsTrue(rows', given', chain)
      /\ given' \in [All -> {"never", "now", "once"}] /\ AnnouncedTrue(announced', chain)
      /\ sendFaults' \in {sendFaults, sendFaults + 1}
  BY <1>1 DEF SendTypes, Knows
<1> QED
  BY <1>2, <1>4, <1>5, SendStep

LEMMA SendOperationInv ==
    ASSUME SendInv, NEW c \in Callers, NEW first \in {"accounts", "build", "send"}, Send(c, first)
    PROVE  SendInv'
<1>1. Knows(c) /\ SendTypes
  BY KnowsOf DEF SendInv
<1>2. PICK s \in Signatures, next \in {first, "saveFailed"} :
        /\ chain[s] = "unknown" /\ attempts[s] = NoTransaction
        /\ \A d \in Callers : ~Idle_(d) => job[d].signature # s
        /\ Idle_(c)
        /\ job' = [job EXCEPT ![c] = [NoJob EXCEPT !.signature = s,
                     !.next = next, !.sending = TRUE, !.status = "confirmed"]]
  BY DEF Send
<1> DEFINE k == [NoJob EXCEPT !.signature = s,
                     !.next = next, !.sending = TRUE, !.status = "confirmed"]
<1>3. k \in SendJob
  BY AtRest DEF SendJob, All, Calls, TransactionStatus_
<1>4. /\ k.signature = s /\ k.next = next /\ k.sending = TRUE /\ k.status = "confirmed"
      /\ k.client = FALSE
  BY AtRest DEF SendJob
<1>5. job' = [job EXCEPT ![c] = k]
  BY <1>2
<1> HIDE DEF k
<1>6. JobTrue(k, chain)
  BY <1>2, <1>4 DEF JobTrue, Telling
<1>7. sendFaults = 0 /\ ~entwined /\ Knows(c) =>
        JobAlone(k, chain, rows, attempts, announced, given)
  <2>1. sendFaults = 0 /\ ~entwined /\ Knows(c) => Told(announced, s) = {}
    BY <1>2 DEF Knows, AnnouncedTrue, Landed, All
  <2> QED
    BY <1>2, <1>4, <2>1 DEF JobAlone
<1>8. /\ job[c].next = "idle"
      /\ \A d \in Callers : job[d].next # "idle" => job[d].signature # k.signature
  BY <1>2, <1>4 DEF Idle_
<1>9. /\ entwined' = (entwined \/ \E d \in Callers : ~Idle_(d))
      /\ chain' = chain /\ rows' = rows /\ given' = given /\ attempts' = attempts
      /\ announced' = announced /\ sendFaults' = sendFaults
  BY DEF Send
<1> QED
  BY <1>3, <1>5, <1>6, <1>7, <1>8, <1>9, BeginStep

\* A request that does not send starts at its first call.
Starts(s, status, next, client) ==
    [NoJob EXCEPT !.signature = s, !.status = status, !.next = next, !.client = client]

LEMMA StartsAsJob ==
    ASSUME NEW s \in All, NEW status \in TransactionStatus_,
           NEW next \in {"create", "load", "updateLoad"}, NEW client \in BOOLEAN
    PROVE  LET k == Starts(s, status, next, client)
           IN  /\ k \in SendJob /\ k.signature = s /\ k.status = status
               /\ k.next = next /\ k.client = client /\ ~k.sending
BY AtRest DEF Starts, SendJob, Calls

LEMMA StartMove ==
    ASSUME SendInv, NEW c \in Callers, NEW s \in All, NEW status \in TransactionStatus_,
           NEW next \in {"create", "load", "updateLoad"}, NEW client \in BOOLEAN,
           Idle_(c), job' = [job EXCEPT ![c] = Starts(s, status, next, client)],
           entwined' = (entwined \/ \E d \in Callers : ~Idle_(d)),
           UNCHANGED <<chain, rows, given, attempts, announced, sendFaults>>,
           next = "updateLoad" => client,
           next = "create" /\ client => s \in Foreign \/ chain[s] # "unknown",
           next = "create" /\ ~client => Final(status, chain[s])
    PROVE  SendInv'
<1> DEFINE k == Starts(s, status, next, client)
<1>1. /\ k \in SendJob /\ k.signature = s /\ k.status = status
      /\ k.next = next /\ k.client = client /\ ~k.sending
  BY StartsAsJob
<1>2. job' = [job EXCEPT ![c] = k]
  OBVIOUS
<1> HIDE DEF k
<1>3. JobTrue(k, chain)
  <2>1. Final(status, chain[s]) => Says(status, chain[s])
    BY DEF Says, Final, Landed, Erred
  <2>2. k.next \in Telling /\ ~k.client => Final(status, chain[s])
    BY <1>1 DEF Telling
  <2>3. k.next \in Telling /\ ~k.client => Says(k.status, chain[k.signature])
    BY <1>1, <2>1, <2>2
  <2> QED
    BY <1>1, <2>3 DEF JobTrue
<1>4. JobAlone(k, chain, rows, attempts, announced, given)
  <2>1. s \in Foreign => s \notin Signatures
    BY TransactionsAssumption
  <2> QED
    BY <1>1, <2>1 DEF JobAlone
<1> QED
  BY <1>1, <1>2, <1>3, <1>4, BeginStep DEF Idle_

LEMMA BeginningInv ==
    ASSUME SendInv, NEW c \in Callers,
           \/ Create(c) \/ Update(c) \/ UpdateTransactionStatus(c)
           \/ GetTransactionHistory(c)
    PROVE  SendInv'
<1>0. NoJob \in SendJob /\ NoJob.status = "pending" /\ NoJob.client = FALSE
  BY AtRest DEF SendJob
<1>1. CASE Create(c) \/ Update(c)
  <2>1. PICK s \in All, next \in {"create", "updateLoad"} :
           /\ ClientBegins(c, s, next)
           /\ next = "create" => s \in Foreign \/ chain[s] # "unknown"
    BY <1>1 DEF Create, Update
  <2>2. PICK status \in TransactionStatus_ :
           job' = [job EXCEPT ![c] = [NoJob EXCEPT !.signature = s, !.status = status,
                                                   !.next = next, !.client = TRUE]]
    BY <2>1 DEF ClientBegins
  <2>3. job' = [job EXCEPT ![c] = Starts(s, status, next, TRUE)]
    BY <2>2 DEF Starts
  <2> QED
    BY <2>1, <2>3, StartMove DEF ClientBegins
<1>2. CASE UpdateTransactionStatus(c)
  <2>1. PICK s \in All : Begin(c, s, "load")
    BY <1>2 DEF UpdateTransactionStatus
  <2>2. [NoJob EXCEPT !.signature = s, !.next = "load"] = Starts(s, "pending", "load", FALSE)
    BY <1>0 DEF SendJob, Starts
  <2>3. job' = [job EXCEPT ![c] = Starts(s, "pending", "load", FALSE)]
    BY <2>1, <2>2 DEF Begin
  <2> QED
    BY <1>2, <2>1, <2>3, StartMove
    DEF UpdateTransactionStatus, Begin, TransactionStatus_
<1>3. CASE GetTransactionHistory(c)
  <2>1. PICK s \in All :
           /\ chain[s] \in Landed \cup {"failed"}
           /\ job' = [job EXCEPT ![c] = [NoJob EXCEPT !.signature = s,
                !.status = newStatus(s),
                !.next = IF rows[s] = NoTransaction THEN "create" ELSE "load"]]
    BY <1>3 DEF GetTransactionHistory
  <2>2. PICK next \in {"create", "load"} :
           next = IF rows[s] = NoTransaction THEN "create" ELSE "load"
    OBVIOUS
  <2>3. Final(newStatus(s), chain[s]) /\ newStatus(s) \in TransactionStatus_
    BY <2>1 DEF newStatus, Final, Landed, Erred, TransactionStatus_
  <2>4. PICK status \in TransactionStatus_ : status = newStatus(s)
    BY <2>3
  <2>5. [NoJob EXCEPT !.signature = s, !.status = status, !.next = next]
          = Starts(s, status, next, FALSE)
    BY <1>0 DEF SendJob, Starts
  <2>6. job' = [job EXCEPT ![c] = Starts(s, status, next, FALSE)]
    BY <2>1, <2>2, <2>4, <2>5
  <2> QED
    BY <1>3, <2>3, <2>4, <2>6, StartMove DEF GetTransactionHistory
<1> QED
  BY <1>1, <1>2, <1>3

LEMMA LoadRowInv ==
    ASSUME SendInv, NEW c \in Callers, LoadRow(c)
    PROVE  SendInv'
<1> DEFINE s == job[c].signature
           k == [job[c] EXCEPT !.next = "getStatus", !.previous = rows[s].status]
<1>1. Knows(c) /\ SendTypes /\ job[c].next = "load" /\ job[c] \in SendJob
  BY KnowsOf DEF LoadRow, SendInv, Knows
<1>2. CASE Proceed(c, "idle")
  <2>1. job' = [job EXCEPT ![c] = NoJob]
    BY <1>2 DEF Proceed
  <2> QED
    BY <1>1, <2>1, PlainMove, AtRest DEF LoadRow
<1>3. CASE job' = [job EXCEPT ![c] = k] /\ rows[s] # NoTransaction
  <2>1. rows[s].status \in TransactionStatus_
    BY <1>1, <1>3 DEF SendTypes, SendJob, TransactionRow
  <2>2. /\ k \in SendJob /\ k.next = "getStatus" /\ k.previous = rows[s].status
        /\ k.signature = s /\ k.sending = job[c].sending
    BY <1>1, <2>1 DEF SendJob, Calls
  <2>3. ~job[c].sending
    BY <1>1 DEF Knows, JobTrue
  <2> HIDE DEF k
  <2>4. JobTrue(k, chain)
    BY <2>2, <2>3 DEF JobTrue, Telling
  <2>5. JobAlone(k, chain, rows, attempts, announced, given)
    BY <1>3, <2>2, <2>3 DEF JobAlone
  <2> QED
    BY <1>1, <1>3, <2>2, <2>4, <2>5, PlainMove DEF LoadRow
<1> QED
  BY <1>2, <1>3 DEF LoadRow

LEMMA GetSignatureStatusInv ==
    ASSUME SendInv, NEW c \in Callers, GetSignatureStatus(c)
    PROVE  SendInv'
<1> DEFINE s == job[c].signature
           k == [job[c] EXCEPT !.next = "updateLoad", !.status = newStatus(s)]
<1>1. Knows(c) /\ SendTypes /\ job[c].next = "getStatus" /\ job[c] \in SendJob
  BY KnowsOf DEF GetSignatureStatus, SendInv, Knows
<1>2. CASE Proceed(c, "idle")
  <2>1. job' = [job EXCEPT ![c] = NoJob]
    BY <1>2 DEF Proceed
  <2> QED
    BY <1>1, <2>1, PlainMove, AtRest DEF GetSignatureStatus
<1>3. CASE /\ job' = [job EXCEPT ![c] = k] /\ newStatus(s) # job[c].previous
  <2>1. s \in All /\ newStatus(s) \in TransactionStatus_ /\ Says(newStatus(s), chain[s])
    BY <1>1 DEF SendJob, newStatus, TransactionStatus_, Says
  <2>2. /\ k \in SendJob /\ k.next = "updateLoad" /\ k.status = newStatus(s)
        /\ k.signature = s /\ k.sending = job[c].sending
    BY <1>1, <2>1 DEF SendJob, Calls
  <2>3. ~job[c].sending
    BY <1>1 DEF Knows, JobTrue
  <2> HIDE DEF k
  <2>4. JobTrue(k, chain)
    BY <2>1, <2>2, <2>3 DEF JobTrue, Telling
  <2>5. ASSUME sendFaults = 0, ~entwined
        PROVE  JobAlone(k, chain, rows, attempts, announced, given)
    <3>1. /\ JobAlone(job[c], chain, rows, attempts, announced, given)
          /\ \A t \in Signatures : RowAlone(t, chain, rows, attempts, announced, given)
      BY <1>1, <2>5 DEF Knows
    <3>2. rows[s] # NoTransaction /\ rows[s].status = job[c].previous
      BY <1>1, <3>1 DEF JobAlone
    <3>3. s \in Signatures /\ given[s] = "never" => newStatus(s) = rows[s].status
      BY <3>1, <3>2 DEF RowAlone, Final, newStatus, Landed, Erred
    <3>4. s \in Foreign \/ given[s] # "never"
      BY <1>3, <2>1, <3>2, <3>3 DEF All
    <3> QED
      BY <2>2, <2>3, <3>4 DEF JobAlone
  <2> QED
    BY <1>1, <1>3, <2>2, <2>4, <2>5, PlainMove DEF GetSignatureStatus
<1> QED
  BY <1>2, <1>3 DEF GetSignatureStatus

LEMMA UpdateLoadInv ==
    ASSUME SendInv, NEW c \in Callers, UpdateLoad(c)
    PROVE  SendInv'
<1> DEFINE s == job[c].signature
           k == [job[c] EXCEPT !.next = "updateWrite", !.previous = rows[s].status]
<1>1. Knows(c) /\ SendTypes /\ job[c].next = "updateLoad" /\ job[c] \in SendJob
  BY KnowsOf DEF UpdateLoad, SendInv, Knows
<1>2. CASE Proceed(c, "idle")
  <2>1. job' = [job EXCEPT ![c] = NoJob]
    BY <1>2 DEF Proceed
  <2> QED
    BY <1>1, <2>1, PlainMove, AtRest DEF UpdateLoad
<1>3. CASE job' = [job EXCEPT ![c] = k] /\ rows[s] # NoTransaction
  <2>1. rows[s].status \in TransactionStatus_
    BY <1>1, <1>3 DEF SendTypes, SendJob, TransactionRow
  <2>2. /\ k \in SendJob /\ k.next = "updateWrite" /\ k.status = job[c].status
        /\ k.signature = s /\ k.sending = job[c].sending /\ k.client = job[c].client
    BY <1>1, <2>1 DEF SendJob, Calls
  <2> HIDE DEF k
  <2>3. JobTrue(k, chain)
    BY <1>1, <2>2 DEF JobTrue, Telling, Knows
  <2>4. sendFaults' = 0 /\ ~entwined /\ Knows(c) =>
          JobAlone(k, chain, rows, attempts, announced, given)
    BY <1>1, <1>3, <2>2 DEF JobAlone, JobTrue, Knows, UpdateLoad
  <2> QED
    BY <1>1, <1>3, <2>2, <2>3, <2>4, PlainMove DEF UpdateLoad
<1> QED
  BY <1>2, <1>3 DEF UpdateLoad

LEMMA UpdateWriteInv ==
    ASSUME SendInv, NEW c \in Callers, UpdateWrite(c)
    PROVE  SendInv'
<1> DEFINE s == job[c].signature
<1>1. Knows(c) /\ SendTypes /\ job[c].next = "updateWrite" /\ s \in All
  BY KnowsOf DEF UpdateWrite, SendInv, Knows, SendJob
<1>2. PICK k \in SendJob : job' = [job EXCEPT ![c] = k] /\ Moved(job[c], k, "reload")
  BY <1>1, ProceedMoves DEF UpdateWrite, Calls
<1>3. JobTrue(k, chain)
  BY <1>1, <1>2 DEF Moved, JobTrue, Telling, Knows
<1>4. /\ rows' \in [All -> TransactionRow \cup {NoTransaction}]
      /\ given' \in [All -> {"never", "now", "once"}]
      /\ \A t \in All : t # s \/ rows[s] = NoTransaction => /\ rows'[t] = rows[t]
                                                            /\ given'[t] = given[t]
      /\ rows[s] # NoTransaction => /\ rows'[s].status = job[c].status
                                    /\ given'[s] = GivenBy(c, s)
  <2>1. CASE rows[s] = NoTransaction
    BY <1>1, <2>1 DEF UpdateWrite, SendTypes
  <2>2. CASE rows[s] # NoTransaction
    <3> DEFINE row == [rows[s] EXCEPT !.status = job[c].status]
               by == GivenBy(c, s)
    <3>1. rows[s] \in TransactionRow /\ job[c].status \in TransactionStatus_
      BY <1>1, <2>2 DEF SendTypes, Knows, SendJob
    <3>2. row \in TransactionRow /\ row.status = job[c].status
      BY <3>1 DEF TransactionRow
    <3>3. rows' = [rows EXCEPT ![s] = row] /\ given' = [given EXCEPT ![s] = by]
      BY <2>2 DEF UpdateWrite
    <3>4. by \in {"never", "now", "once"}
      BY DEF GivenBy
    <3> HIDE DEF row, by
    <3>5. given' \in [All -> {"never", "now", "once"}] /\ given'[s] = by
      BY <1>1, <3>3, <3>4 DEF SendTypes
    <3>6. rows' \in [All -> TransactionRow \cup {NoTransaction}] /\ rows'[s] = row
      BY <1>1, <3>2, <3>3 DEF SendTypes
    <3>7. \A t \in All : t # s => rows'[t] = rows[t] /\ given'[t] = given[t]
      BY <1>1, <3>3 DEF SendTypes
    <3> QED
      BY <2>2, <3>2, <3>5, <3>6, <3>7 DEF by
  <2> QED
    BY <2>1, <2>2
<1>9. (job[c].client <=> GivenBy(c, s) = "now")
      /\ (GivenBy(c, s) = "never" => given[s] = "never" /\ ~job[c].client)
  BY DEF GivenBy
<1>5. RowsTrue(rows', given', chain)
  <2>1. ~job[c].client => Says(job[c].status, chain[s])
    BY <1>1 DEF JobTrue, Telling, Knows
  <2>2. RowsTrue(rows, given, chain)
    BY <1>1 DEF Knows
  <2> SUFFICES ASSUME NEW t \in All, given'[t] # "now"
               PROVE  Says(rows'[t].status, chain[t])
    BY DEF RowsTrue
  <2>3. CASE t # s \/ rows[s] = NoTransaction
    <3>1. rows'[t] = rows[t] /\ given'[t] = given[t]
      BY <1>4, <2>3
    <3> QED
      BY <2>2, <3>1 DEF RowsTrue
  <2>4. CASE t = s /\ rows[s] # NoTransaction
    BY <1>4, <1>9, <2>1, <2>4
  <2> QED
    BY <2>3, <2>4
<1>6. /\ attempts' \in [All -> TransactionRow \cup {NoTransaction}] /\ attempts' = attempts
      /\ announced' \in Seq(Announcement) /\ announced' = announced
      /\ chain' = chain /\ entwined' = entwined /\ sendFaults' = sendFaults
      /\ AnnouncedTrue(announced', chain)
  BY <1>1 DEF SendTypes, UpdateWrite, Knows
<1>7. ASSUME sendFaults' = 0, ~entwined'
      PROVE  /\ JobAlone(k, chain, rows', attempts', announced', given')
             /\ \A t \in Signatures : RowAlone(t, chain, rows', attempts', announced', given')
  <2>1. /\ JobAlone(job[c], chain, rows, attempts, announced, given)
        /\ \A t \in Signatures : RowAlone(t, chain, rows, attempts, announced, given)
    BY <1>1, <1>6, <1>7 DEF Knows
  <2>2. s \in Foreign \/ given[s] # "never" \/ job[c].client
    BY <1>1, <2>1 DEF JobAlone
  <2>3. ASSUME NEW t \in Signatures
        PROVE  RowAlone(t, chain, rows', attempts', announced', given')
    <3>1. t \in All /\ (s \in Foreign => t # s)
      BY TransactionsAssumption DEF All
    <3>2. CASE t # s \/ rows[s] = NoTransaction
      <4>1. rows'[t] = rows[t] /\ given'[t] = given[t]
        BY <1>4, <3>1, <3>2
      <4> QED
        BY <1>6, <2>1, <4>1 DEF RowAlone
    <3>3. CASE t = s /\ rows[s] # NoTransaction
      <4>1. given'[t] # "never"
        BY <1>4, <1>9, <2>2, <3>1, <3>3
      <4>2. chain[t] # "unknown"
        BY <2>1, <3>3 DEF RowAlone
      <4> QED
        BY <1>6, <2>1, <4>1, <4>2 DEF RowAlone
    <3> QED
      BY <3>2, <3>3
  <2>4. JobAlone(k, chain, rows', attempts', announced', given')
    <3>1. ~job[c].sending
      BY <1>1 DEF JobTrue, Knows
    <3> QED
      BY <1>1, <1>2, <1>4, <1>6, <1>9, <2>1, <2>2 DEF Moved, JobAlone
  <2> QED
    BY <2>3, <2>4
<1>8. k.sending => job[c].sending /\ k.signature = job[c].signature
  BY <1>2 DEF Moved
<1> QED
  BY <1>1, <1>2, <1>3, <1>4, <1>5, <1>6, <1>7, <1>8, SendStep DEF Knows

LEMMA ReloadInv ==
    ASSUME SendInv, NEW c \in Callers, Reload(c)
    PROVE  SendInv'
<1>1. Knows(c) /\ SendTypes /\ job[c].next = "reload"
  BY KnowsOf DEF Reload, SendInv
<1>2. PICK next \in {"idle", "updated", "outcome"} :
         Proceed(c, next) /\ (next = "outcome" => ~job[c].client)
  BY DEF Reload, AfterUpdate
<1>3. PICK k \in SendJob : job' = [job EXCEPT ![c] = k] /\ Moved(job[c], k, next)
  BY <1>1, <1>2, ProceedMoves DEF Calls
<1>4. JobTrue(k, chain) /\ (sendFaults' = 0 /\ ~entwined /\ Knows(c) =>
                              JobAlone(k, chain, rows, attempts, announced, given))
  <2>1. CASE k = NoJob
    BY <2>1, AtRest
  <2>2. CASE k # NoJob
    <3>1. next # "idle" /\ k.next = next /\ k.signature = job[c].signature
          /\ k.sending = job[c].sending /\ k.client = job[c].client /\ k.status = job[c].status
      BY <1>3, <2>2 DEF Moved
    <3>2. ~job[c].sending
      BY <1>1 DEF Knows, JobTrue
    <3>3. JobTrue(k, chain)
      BY <1>1, <1>2, <3>1, <3>2 DEF JobTrue, Telling, Knows
    <3>4. sendFaults' = 0 /\ ~entwined /\ Knows(c) =>
            JobAlone(k, chain, rows, attempts, announced, given)
      BY <1>1, <1>2, <3>1, <3>2 DEF JobAlone, Knows, Reload
    <3> QED
      BY <3>3, <3>4
  <2> QED
    BY <2>1, <2>2
<1>5. k = NoJob \/ (k.signature = job[c].signature /\ (k.sending => job[c].sending))
  BY <1>3 DEF Moved
<1> QED
  BY <1>1, <1>3, <1>4, <1>5, PlainMove DEF Reload

LEMMA RemoveRowInv ==
    ASSUME SendInv, NEW c \in Callers, RemoveRow(c)
    PROVE  SendInv'
<1>1. SendTypes /\ job[c].next = "idle"
  BY DEF RemoveRow, SendInv, Idle_
<1>2. PICK s \in All : rows' = [rows EXCEPT ![s] = NoTransaction] /\ rows[s] # NoTransaction
  BY DEF RemoveRow
<1>3. /\ rows' \in [All -> TransactionRow \cup {NoTransaction}]
      /\ \A t \in All : rows'[t] = IF t = s THEN NoTransaction ELSE rows[t]
  BY <1>1, <1>2 DEF SendTypes, All
<1>5. /\ chain' = chain /\ attempts' = attempts /\ job' = job /\ announced' = announced
      /\ sendFaults' = sendFaults /\ given' = given
      /\ entwined' = (entwined \/ \E d \in Callers : job[d].next # "idle")
  BY DEF RemoveRow, Idle_
<1>4. RowsTrue(rows', given', chain)
  BY <1>3, <1>5 DEF RowsTrue, SendInv, NoTransaction, Says
<1>6. ASSUME sendFaults' = 0, ~entwined'
      PROVE  OneByOne(job', chain, rows', attempts', announced', given')
  <2>1. sendFaults = 0 /\ ~entwined /\ \A d \in Callers : job[d].next = "idle"
    BY <1>5, <1>6
  <2>2. \A t \in Signatures : RowAlone(t, chain, rows', attempts', announced', given')
    <3>1. \A t \in Signatures : t \in All
      BY DEF All
    <3> QED
      BY <1>3, <1>5, <2>1, <3>1 DEF SendInv, OneByOne, RowAlone
  <2>3. \A d \in Callers : JobAlone(job[d], chain, rows', attempts', announced', given')
    BY <2>1, AtRest DEF SendInv
  <2> QED
    BY <1>5, <2>1, <2>2, <2>3 DEF OneByOne
<1>7. SendTypes'
  BY <1>1, <1>3, <1>5 DEF SendTypes
<1> QED
  BY <1>4, <1>5, <1>6, <1>7 DEF SendInv

LEMMA SendRawInv ==
    ASSUME SendInv, NEW c \in Callers, SendRaw(c)
    PROVE  SendInv'
<1> DEFINE s == job[c].signature
<1>1. /\ Knows(c) /\ SendTypes /\ job[c].next = "send" /\ job[c].sending
      /\ s \in Signatures /\ s \in All /\ chain[s] = "unknown"
  BY KnowsOf DEF SendRaw, SendInv, Knows, JobTrue, All
<1>2. CASE Caught(c) /\ UNCHANGED chain
  <2>1. PICK k \in SendJob : job' = [job EXCEPT ![c] = k] /\ Moved(job[c], k, "saveFailed")
    BY <1>1, <1>2, CaughtMoves
  <2>2. JobTrue(k, chain)
    BY <1>1, <2>1 DEF Moved, JobTrue, Telling, Knows
  <2>3. sendFaults' = 0 /\ ~entwined /\ Knows(c) =>
          JobAlone(k, chain, rows, attempts, announced, given)
    BY <1>1, <2>1 DEF Moved, JobAlone, Knows, SendRaw
  <2>4. k = NoJob \/ (k.signature = job[c].signature /\ (k.sending => job[c].sending))
    BY <2>1 DEF Moved
  <2> QED
    BY <1>1, <1>2, <2>1, <2>2, <2>3, <2>4, PlainMove DEF SendRaw
<1>3. CASE Proceed(c, "await") /\ chain' = [chain EXCEPT ![s] = "processed"]
  <2>1. PICK k \in SendJob : job' = [job EXCEPT ![c] = k] /\ Moved(job[c], k, "await")
    BY <1>1, <1>3, ProceedMoves DEF Calls
  <2>2. /\ k.next = "await" /\ k.signature = s /\ k.sending /\ k.status = "confirmed"
        /\ ~k.client
        /\ \A d \in Callers : job'[d] = IF d = c THEN k ELSE job[d]
        /\ job' \in [Callers -> SendJob]
    BY <1>1, <2>1 DEF Moved, SendTypes, Knows, JobTrue
  <2>3. /\ chain' \in [All -> Outcomes]
        /\ \A t \in All : chain'[t] = IF t = s THEN "processed" ELSE chain[t]
    BY <1>1, <1>3 DEF SendTypes, Outcomes
  <2>4. /\ rows' = rows /\ attempts' = attempts /\ announced' = announced
        /\ entwined' = entwined /\ sendFaults' = sendFaults /\ given' = given
    BY DEF SendRaw
  <2>5. RowsTrue(rows', given', chain') /\ AnnouncedTrue(announced', chain')
    <3>1. \A st : Says(st, "unknown") => Says(st, "processed")
      BY DEF Says, Landed, Erred
    <3>2. RowsTrue(rows', given', chain')
      BY <1>1, <2>3, <2>4, <3>1 DEF SendInv, RowsTrue
    <3>3. AnnouncedTrue(announced', chain')
      BY <1>1, <2>3, <2>4 DEF SendInv, AnnouncedTrue, Landed
    <3> QED
      BY <3>2, <3>3
  <2>6. \A d \in Callers : JobTrue(job'[d], chain')
    <3> SUFFICES ASSUME NEW d \in Callers
                 PROVE  JobTrue(job'[d], chain')
      OBVIOUS
    <3>1. JobTrue(job[d], chain) /\ job[d] \in SendJob
      BY DEF SendInv, SendTypes
    <3>2. CASE d = c
      BY <1>1, <2>2, <3>2 DEF JobTrue, Telling
    <3>3. CASE d # c
      <4>1. job[d].sending => job[d].signature # s
        BY <1>1, <3>3 DEF SendInv, Apart
      <4>2. job'[d] = job[d] /\ job[d].signature \in All
        BY <2>2, <3>1, <3>3 DEF SendJob
      <4>3. job[d].signature = s \/ chain'[job[d].signature] = chain[job[d].signature]
        BY <2>3, <4>2
      <4>4. Says(job[d].status, chain[job[d].signature]) =>
              Says(job[d].status, chain'[job[d].signature])
        BY <1>1, <2>3, <4>2, <4>3 DEF Says, Landed, Erred
      <4> QED
        BY <1>1, <3>1, <4>1, <4>2, <4>3, <4>4 DEF JobTrue, Telling
    <3> QED
      BY <3>2, <3>3
  <2>7. Apart(job')
    BY <1>1, <2>2 DEF SendInv, Apart
  <2>8. ASSUME sendFaults' = 0, ~entwined'
        PROVE  OneByOne(job', chain', rows', attempts', announced', given')
    <3>1. /\ JobAlone(job[c], chain, rows, attempts, announced, given)
          /\ \A t \in Signatures : RowAlone(t, chain, rows, attempts, announced, given)
          /\ \A d, e \in Callers : job[d].next # "idle" /\ job[e].next # "idle" => d = e
          /\ \A d \in Callers : JobTrue(job[d], chain)
      BY <2>4, <2>8 DEF SendInv, OneByOne
    <3>2. \A d \in Callers : d # c => job'[d].next = "idle"
      BY <1>1, <2>2, <3>1
    <3>3. attempts[s] = NoTransaction /\ rows[s] = NoTransaction /\ Told(announced, s) = {}
      BY <1>1, <3>1 DEF JobAlone, RowAlone
    <3>7. given[s] = "never"
      BY <1>1, <3>1 DEF RowAlone
    <3>4. JobAlone(k, chain', rows', attempts', announced', given')
      BY <1>1, <2>2, <2>3, <2>4, <3>3 DEF JobAlone
    <3>5. \A d \in Callers : JobAlone(job'[d], chain', rows', attempts', announced', given')
      BY <2>2, <2>6, <3>2, <3>4, AtRest
    <3>6. ASSUME NEW t \in Signatures
          PROVE  RowAlone(t, chain', rows', attempts', announced', given')
      <4>1. t \in All
        BY DEF All
      <4> QED
        BY <2>3, <2>4, <3>1, <3>3, <4>1 DEF RowAlone
    <3> QED
      BY <2>2, <3>2, <3>5, <3>6 DEF OneByOne
  <2>9. SendTypes'
    BY <1>1, <2>2, <2>3, <2>4 DEF SendTypes
  <2> QED
    BY <2>5, <2>6, <2>7, <2>8, <2>9 DEF SendInv
<1> QED
  BY <1>2, <1>3 DEF SendRaw

LEMMA ClusterInv ==
    ASSUME SendInv, Cluster
    PROVE  SendInv'
<1>1. PICK s \in All, outcome \in Outcomes :
         /\ chain' = [chain EXCEPT ![s] = outcome] /\ outcome # "unknown"
         /\ \/ s \in Foreign /\ chain[s] = "unknown"
            \/ chain[s] \in {"processed", "rejected"}
         /\ chain[s] = "rejected" => outcome \in {"revised", "failed"}
  BY DEF Cluster, Outcomes, Landed, Erred
<1>2. /\ rows' = rows /\ attempts' = attempts /\ announced' = announced /\ job' = job
      /\ entwined' = entwined /\ sendFaults' = sendFaults /\ given' = given
  BY DEF Cluster
<1>3. /\ chain' \in [All -> Outcomes]
      /\ \A t \in All : chain'[t] = IF t = s THEN outcome ELSE chain[t]
      /\ SendTypes
  BY <1>1 DEF SendInv, SendTypes
<1>4. SendTypes'
  BY <1>2, <1>3 DEF SendTypes
<1>9. \A t \in All : \A st : Says(st, chain[t]) => Says(st, chain'[t])
  BY <1>1, <1>3 DEF Says, Landed, Erred
<1>10. \A t \in All : /\ chain[t] \in Landed => chain'[t] \in Landed
                      /\ \A st : Final(st, chain[t]) => Final(st, chain'[t])
                      /\ chain[t] # "unknown" => chain'[t] # "unknown"
                      /\ chain[t] = "failed" => chain'[t] = "failed"
                      /\ t \in Signatures /\ chain[t] = "unknown" => chain'[t] = "unknown"
                      /\ t \in Signatures /\ chain[t] # "unknown" => chain'[t] # "unknown"
  BY <1>1, <1>3, TransactionsAssumption DEF Final, Landed
<1>5. RowsTrue(rows', given', chain') /\ AnnouncedTrue(announced', chain')
  BY <1>2, <1>9, <1>10 DEF SendInv, RowsTrue, AnnouncedTrue
<1>7. ASSUME NEW d \in Callers
      PROVE  JobTrue(job'[d], chain')
  <2>1. JobTrue(job[d], chain) /\ job[d].signature \in All
    BY <1>3 DEF SendInv, SendTypes, SendJob
  <2>2. job'[d] = job[d]
    BY <1>2
  <2> QED
    BY <1>9, <1>10, <2>1, <2>2 DEF JobTrue
<1>8. ASSUME sendFaults' = 0, ~entwined'
      PROVE  OneByOne(job', chain', rows', attempts', announced', given')
  <2>1. OneByOne(job, chain, rows, attempts, announced, given)
    BY <1>2, <1>8 DEF SendInv
  <2>2. ASSUME NEW t \in Signatures
        PROVE  RowAlone(t, chain', rows', attempts', announced', given')
    <3>1. t \in All /\ RowAlone(t, chain, rows, attempts, announced, given)
      BY <2>1 DEF All, OneByOne
    <3>2. chain[t] \in {"unknown", "failed"} => chain'[t] \in {"unknown", "failed"}
      BY <1>10, <3>1
    <3> QED
      BY <1>2, <1>10, <3>1, <3>2 DEF RowAlone
  <2>3. ASSUME NEW d \in Callers
        PROVE  JobAlone(job'[d], chain', rows', attempts', announced', given')
    <3>1. /\ JobAlone(job[d], chain, rows, attempts, announced, given)
          /\ JobTrue(job[d], chain) /\ job[d].signature \in All /\ job'[d] = job[d]
      BY <1>2, <1>3, <2>1 DEF SendInv, SendTypes, SendJob, OneByOne
    <3>2. job[d].sending => job[d].signature \in Signatures
      BY <3>1 DEF JobTrue
    <3>3. /\ chain[job[d].signature] \in {"unknown", "failed"} /\ job[d].sending =>
               chain'[job[d].signature] \in {"unknown", "failed"}
          /\ chain[job[d].signature] # "unknown" => chain'[job[d].signature] # "unknown"
          /\ Final(job[d].status, chain[job[d].signature]) =>
               Final(job[d].status, chain'[job[d].signature])
      BY <1>10, <3>1, <3>2
    <3> QED
      BY <1>2, <3>1, <3>3 DEF JobAlone
  <2> QED
    BY <1>2, <2>1, <2>2, <2>3 DEF OneByOne
<1> QED
  BY <1>2, <1>4, <1>5, <1>7, <1>8 DEF SendInv

LEMMA SendInitInv == TransactionsInit => SendInv
<1> SUFFICES ASSUME TransactionsInit
             PROVE  SendInv
  OBVIOUS
<1>1. /\ chain = [s \in All |-> "unknown"]
      /\ rows = [s \in All |-> NoTransaction] /\ given = [s \in All |-> "never"]
      /\ attempts = [s \in All |-> NoTransaction]
      /\ job = [c \in Callers |-> NoJob]
      /\ announced = <<>>
      /\ sendFaults = 0 /\ entwined = FALSE
  BY DEF TransactionsInit
<1>2. SendTypes
  <2>1. announced \in Seq(Announcement)
    BY <1>1, EmptySeq
  <2>2. job \in [Callers -> SendJob]
    BY <1>1, AtRest
  <2> QED
    BY <1>1, <2>1, <2>2 DEF SendTypes, Outcomes
<1>3. RowsTrue(rows, given, chain) /\ AnnouncedTrue(announced, chain)
  <2>1. \A s : Told(announced, s) = {}
    BY <1>1 DEF Told
  <2> QED
    BY <1>1, <2>1 DEF RowsTrue, AnnouncedTrue, NoTransaction, Says
<1>4. /\ \A c \in Callers : JobTrue(job[c], chain)
      /\ \A c \in Callers : JobAlone(job[c], chain, rows, attempts, announced, given)
      /\ \A c \in Callers : job[c].next = "idle" /\ ~job[c].sending
  BY <1>1, AtRest
<1>5. Apart(job)
  BY <1>4 DEF Apart
<1>6. OneByOne(job, chain, rows, attempts, announced, given)
  <2>1. \A s : Told(announced, s) = {}
    BY <1>1 DEF Told
  <2> QED
    BY <1>1, <1>4, <2>1 DEF OneByOne, RowAlone, Unique, All
<1> QED
  BY <1>2, <1>3, <1>4, <1>5, <1>6 DEF SendInv

LEMMA SendNextInv == SendInv /\ [TransactionsStep]_sendVars => SendInv'
<1> SUFFICES ASSUME SendInv, [TransactionsStep]_sendVars
             PROVE  SendInv'
  OBVIOUS
<1>1. CASE Cluster
  BY <1>1, ClusterInv
<1>2. ASSUME NEW c \in Callers, \/ SendTransfer(c) \/ SendTokenTransfer(c)
                                \/ SendProgramInvocation(c)
                                \/ CreateMultiInstructionTransaction(c)
                                \/ CreateBatchedTransaction(c)
      PROVE  SendInv'
  <2>1. PICK first \in {"accounts", "build", "send"} : Send(c, first)
    BY <1>2 DEF SendTransfer, SendTokenTransfer, SendProgramInvocation,
                CreateMultiInstructionTransaction, CreateBatchedTransaction
  <2> QED
    BY <2>1, SendOperationInv
<1>3. ASSUME NEW c \in Callers, \/ TokenAccounts(c) \/ BuildBatch(c) \/ SendRaw(c)
                                \/ AwaitConfirmation(c) \/ CreateRow(c) \/ SaveFailed(c)
      PROVE  SendInv'
  BY <1>3, TokenAccountsInv, BuildBatchInv, SendRawInv, AwaitConfirmationInv, CreateRowInv,
     SaveFailedInv
<1>4. ASSUME NEW c \in Callers, \/ PublishCreated(c) \/ PublishConfirmed(c)
                                \/ PublishFailedCreated(c) \/ PublishFailed(c)
                                \/ PublishUpdated(c) \/ PublishOutcome(c)
      PROVE  SendInv'
  BY <1>4, PublishingInv
<1>5. ASSUME NEW c \in Callers, \/ Create(c) \/ Update(c) \/ UpdateTransactionStatus(c)
                                \/ GetTransactionHistory(c)
      PROVE  SendInv'
  BY <1>5, BeginningInv
<1>6. ASSUME NEW c \in Callers, \/ LoadRow(c) \/ GetSignatureStatus(c) \/ UpdateLoad(c)
                                \/ UpdateWrite(c) \/ Reload(c) \/ RemoveRow(c)
      PROVE  SendInv'
  BY <1>6, LoadRowInv, GetSignatureStatusInv, UpdateLoadInv, UpdateWriteInv, ReloadInv, RemoveRowInv
<1>7. CASE UNCHANGED sendVars
  <2>1. /\ chain' = chain /\ rows' = rows /\ attempts' = attempts /\ job' = job
        /\ announced' = announced /\ sendFaults' = sendFaults /\ entwined' = entwined
        /\ given' = given
    BY <1>7 DEF sendVars
  <2> QED
    BY <2>1 DEF SendInv, SendTypes
<1> QED
  BY <1>1, <1>2, <1>3, <1>4, <1>5, <1>6, <1>7 DEF TransactionsStep

LEMMA RecordsFromInv ==
    ASSUME SendInv
    PROVE  RecordsMatchChain
<1>1. ASSUME NEW s \in All
      PROVE  /\ given[s] # "now" => Says(rows[s].status, chain[s])
             /\ Announcements(s, "confirmed") > 0 => chain[s] \in Landed
  <2>1. Told(announced, s) = {} => Announcements(s, "confirmed") = 0
    BY FS_EmptySet DEF Told, Announcements
  <2>2. Told(announced, s) # {} => chain[s] \in Landed
    BY DEF SendInv, AnnouncedTrue
  <2> QED
    BY <2>1, <2>2 DEF SendInv, RowsTrue
<1>2. ASSUME sendFaults = 0, ~entwined, NEW s \in Signatures
      PROVE  /\ attempts[s] # NoTransaction => chain[s] \in {"unknown", "failed"}
             /\ given[s] = "never" => Announcements(s, "confirmed") <= 1
  <2>1. RowAlone(s, chain, rows, attempts, announced, given)
    BY <1>2 DEF SendInv, OneByOne
  <2>2. given[s] = "never" => Unique(Told(announced, s))
    BY <2>1 DEF RowAlone
  <2>3. given[s] = "never" => Cardinality(Told(announced, s)) <= 1
    BY <2>2, UniqueIsFinite, AtMostOne
  <2> QED
    BY <2>1, <2>3 DEF RowAlone, Announcements, Told
<1> QED
  BY <1>1, <1>2 DEF RecordsMatchChain

\* The rows and the events of transactions match the chain (RecordsMatchChain),
\* for any number of requests, transactions and faults: the sends, the status
\* updates, the history and the removals of TransactionsService, however they
\* overlap, as far as the property speaks of each case.
THEOREM RecordsCorrect == SendSpec => []RecordsMatchChain
<1> QED
  BY SendInitInv, SendNextInv, RecordsFromInv, PTL DEF SendSpec
-----------------------------------------------------------------------------
(* The event pipeline                                                       *)

PipelineSpec == PipelineInit /\ [][PipelineNext]_pipeVars

TopicMessage == [event : Nat, retry : Nat]

Flush == [batch : Seq(Nat), sent : Nat, by : {"request", "timer"}]

PipeTypes ==
    /\ published \in Nat /\ eventBuffer \in Seq(Nat)
    /\ flushes \in [Flushers -> Flush]
    /\ \A f \in Flushers : flushes[f] # NoFlush => flushes[f].sent < Len(flushes[f].batch)
    /\ topic \in Seq(TopicMessage) /\ processed \in Seq(Nat)
    /\ committed \in Nat /\ position \in Nat
    /\ committed < position /\ position <= Len(topic) + 1
    /\ doing \in {"fetch", "handle", "retry", "deadLetter"}
    /\ doing # "fetch" => position <= Len(topic)
    /\ overlapped \in BOOLEAN

\* The event e is in the messages m.
Among(e, m) == \E i \in 1 .. Len(m) : m[i].event = e

\* What a flush has sent is on the topic.
SentArrived ==
    \A f \in Flushers : \A i \in 1 .. Len(flushes[f].batch) :
       i <= flushes[f].sent => Among(flushes[f].batch[i], topic)

\* The event e is in the buffer b, among the messages m or in the flushes fs.
Kept(e, b, m, fs) ==
    \/ \E i \in 1 .. Len(b) : b[i] = e
    \/ Among(e, m)
    \/ \E f \in Flushers : \E i \in 1 .. Len(fs[f].batch) : fs[f].batch[i] = e

NothingLost ==
    "crash" \notin troubles /\ "timer" \notin troubles =>
      \A e \in Nat : 1 <= e /\ e <= published => Kept(e, eventBuffer, topic, flushes)

\* The message i has been dealt with.
Settled(i, m, p, dead) ==
    \/ (\E n \in 1 .. Len(p) : p[n] = m[i].event) \/ m[i].event \in dead
    \/ \E j \in 1 .. Len(m) : i < j /\ m[j] = Retried(m[i])

BehindOffset ==
    /\ "retry" \notin troubles => position = committed + 1
    /\ "retry" \notin troubles /\ "deadLetter" \notin troubles =>
         \A i \in 1 .. committed : Settled(i, topic, processed, deadLetters)

\* The topic m, then the rest of the flush fl, then the buffer b: the events
\* up to pub, each once and in order.
Line(fl, m, b, pub) ==
    /\ \A k \in 1 .. Len(fl.batch) : k > fl.sent => fl.batch[k] = Len(m) + k - fl.sent
    /\ \A k \in 1 .. Len(b) : b[k] = Len(m) + (Len(fl.batch) - fl.sent) + k
    /\ pub = Len(m) + (Len(fl.batch) - fl.sent) + Len(b)

OneLine(fs, m, b, pub) ==
    /\ \A f, g \in Flushers : fs[f] # NoFlush /\ fs[g] # NoFlush => f = g
    /\ \A f \in Flushers : fs[f] # NoFlush => Line(fs[f], m, b, pub)
    /\ (\A f \in Flushers : fs[f] = NoFlush) => Line(NoFlush, m, b, pub)

InLine ==
    troubles = {} /\ ~overlapped =>
      /\ OneLine(flushes, topic, eventBuffer, published)
      /\ \A i \in 1 .. Len(topic) : topic[i].event = i
      /\ doing \in {"fetch", "handle"} /\ position = Len(processed) + 1
      /\ \A i \in 1 .. Len(processed) : processed[i] = i

PipeInv == PipeTypes /\ SentArrived /\ NothingLost /\ BehindOffset /\ InLine

LEMMA AppendTopic ==
    ASSUME NEW m \in Seq(TopicMessage), NEW x \in TopicMessage
    PROVE  /\ Append(m, x) \in Seq(TopicMessage) /\ Len(Append(m, x)) = Len(m) + 1
           /\ \A i \in 1 .. Len(m) : Append(m, x)[i] = m[i]
           /\ Append(m, x)[Len(m) + 1] = x
           /\ \A e : Among(e, m) => Among(e, Append(m, x))
           /\ Among(x.event, Append(m, x))
           /\ \A p, dead : \A i \in 1 .. Len(m) :
                 Settled(i, m, p, dead) => Settled(i, Append(m, x), p, dead)
<1> DEFINE b == Append(m, x)
<1>1. /\ b \in Seq(TopicMessage) /\ Len(b) = Len(m) + 1 /\ Len(m) \in Nat
      /\ \A i \in 1 .. Len(m) : b[i] = m[i]
      /\ b[Len(m) + 1] = x
  BY AppendProperties, LenProperties
<1> HIDE DEF b
<1>2. \A e : Among(e, m) => Among(e, b)
  BY <1>1 DEF Among
<1>3. Among(x.event, b)
  <2>1. Len(m) + 1 \in 1 .. Len(b)
    BY <1>1
  <2> QED
    BY <1>1, <2>1 DEF Among
<1>4. \A p, dead : \A i \in 1 .. Len(m) : Settled(i, m, p, dead) => Settled(i, b, p, dead)
  BY <1>1 DEF Settled
<1> QED
  BY <1>1, <1>2, <1>3, <1>4 DEF b

LEMMA AppendProcessed ==
    ASSUME NEW p \in Seq(Nat), NEW e \in Nat
    PROVE  /\ Append(p, e) \in Seq(Nat) /\ Len(Append(p, e)) = Len(p) + 1 /\ Len(p) \in Nat
           /\ \A i \in 1 .. Len(p) : Append(p, e)[i] = p[i]
           /\ Append(p, e)[Len(p) + 1] = e
BY AppendProperties, LenProperties

\* A flush starts: one more caller is flushing, the buffer is its batch.
LEMMA FlushStarts ==
    ASSUME PipeTypes, NEW b \in Seq(Nat), b # <<>>,
           NEW by \in {"request", "timer"}, FlushEvents(b, by)
    PROVE  \E f \in Flushers : \E fl \in Flush :
              /\ flushes[f] = NoFlush /\ fl # NoFlush
              /\ fl.batch = b /\ fl.sent = 0 /\ 0 < Len(b)
              /\ flushes' \in [Flushers -> Flush]
              /\ \A g \in Flushers : flushes'[g] = IF g = f THEN fl ELSE flushes[g]
<1>1. PICK f \in Flushers \ Flushing :
        flushes' = [flushes EXCEPT ![f] = [batch |-> b, sent |-> 0, by |-> by]]
  BY DEF FlushEvents
<1> DEFINE fl == [batch |-> b, sent |-> 0, by |-> by]
<1>2. fl \in Flush /\ fl # NoFlush /\ fl.batch = b /\ fl.sent = 0
  BY DEF Flush, NoFlush
<1>3. 0 < Len(b)
  BY EmptySeq, LenProperties
<1>4. flushes' = [flushes EXCEPT ![f] = fl]
  BY <1>1
<1> HIDE DEF fl
<1>5. /\ flushes' \in [Flushers -> Flush]
      /\ \A g \in Flushers : flushes'[g] = IF g = f THEN fl ELSE flushes[g]
  BY <1>2, <1>4 DEF PipeTypes
<1> QED
  BY <1>1, <1>2, <1>3, <1>5 DEF Flushing

\* The buffer becomes b, and stays or is flushed.
LEMMA BufferStep ==
    ASSUME PipeInv, NEW b \in Seq(Nat), published' \in Nat,
           UNCHANGED <<topic, consumer, faultVars>>,
           \/ (\E by \in {"request", "timer"} : FlushEvents(b, by)) /\ b # <<>>
           \/ eventBuffer' = b /\ flushes' = flushes /\ overlapped' = overlapped,
           \A i \in 1 .. Len(eventBuffer) : \E j \in 1 .. Len(b) : b[j] = eventBuffer[i],
           \A e \in Nat : e <= published' => \/ e <= published
                                             \/ \E j \in 1 .. Len(b) : b[j] = e,
           \A fl \in Flush : Line(fl, topic, eventBuffer, published) =>
                               Line(fl, topic, b, published')
    PROVE  PipeInv'
<1>1. /\ topic' = topic /\ position' = position /\ doing' = doing
      /\ committed' = committed /\ processed' = processed /\ deadLetters' = deadLetters
      /\ troubles' = troubles
  BY DEF consumer, faultVars
<1>2. BehindOffset'
  BY <1>1 DEF PipeInv, BehindOffset
<1>3. NoFlush \in Flush /\ Len(NoFlush.batch) = 0 /\ NoFlush.sent = 0 /\ Len(topic) \in Nat
  BY EmptySeq, LenProperties DEF NoFlush, Flush, PipeInv, PipeTypes
<1>4. CASE eventBuffer' = b /\ flushes' = flushes /\ overlapped' = overlapped
  <2>1. PipeTypes'
    BY <1>1, <1>4 DEF PipeInv, PipeTypes
  <2>2. SentArrived'
    BY <1>1, <1>4 DEF PipeInv, SentArrived
  <2>3. ASSUME NEW e \in Nat, e <= published',
               Kept(e, eventBuffer, topic, flushes) \/ ~(e <= published)
        PROVE  Kept(e, eventBuffer', topic', flushes')
    BY <1>1, <1>4, <2>3 DEF Kept
  <2>4. NothingLost'
    BY <1>1, <2>3 DEF PipeInv, NothingLost
  <2>5. InLine'
    <3> SUFFICES ASSUME troubles' = {}, ~overlapped'
                 PROVE  OneLine(flushes', topic, b, published')
      BY <1>1, <1>4 DEF InLine, PipeInv
    <3>1. OneLine(flushes, topic, eventBuffer, published)
      BY <1>1, <1>4 DEF InLine, PipeInv
    <3>2. \A f \in Flushers : flushes[f] \in Flush
      BY DEF PipeInv, PipeTypes
    <3> QED
      BY <1>3, <1>4, <3>1, <3>2 DEF OneLine
  <2> QED
    BY <1>2, <2>1, <2>2, <2>4, <2>5 DEF PipeInv
<1>5. CASE (\E by \in {"request", "timer"} : FlushEvents(b, by)) /\ b # <<>>
  <2>1. PICK f \in Flushers, fl \in Flush :
              /\ flushes[f] = NoFlush /\ fl # NoFlush
              /\ fl.batch = b /\ fl.sent = 0 /\ 0 < Len(b)
              /\ flushes' \in [Flushers -> Flush]
              /\ \A g \in Flushers : flushes'[g] = IF g = f THEN fl ELSE flushes[g]
    BY <1>5, FlushStarts DEF PipeInv
  <2>2. eventBuffer' = <<>> /\ overlapped' = (overlapped \/ Flushing # {})
    BY <1>5 DEF FlushEvents
  <2>3. overlapped' \in BOOLEAN /\ eventBuffer' \in Seq(Nat) /\ Len(eventBuffer') = 0
    BY <2>2, EmptySeq DEF PipeInv, PipeTypes
  <2>4. PipeTypes'
    <3>1. \A g \in Flushers : flushes'[g] # NoFlush =>
                                flushes'[g].sent < Len(flushes'[g].batch)
      BY <2>1 DEF PipeInv, PipeTypes
    <3> QED
      BY <1>1, <2>1, <2>3, <3>1 DEF PipeInv, PipeTypes
  <2>5. SentArrived'
    <3> SUFFICES ASSUME NEW g \in Flushers, NEW i \in 1 .. Len(flushes'[g].batch),
                        i <= flushes'[g].sent
                 PROVE  Among(flushes'[g].batch[i], topic')
      BY DEF SentArrived
    <3>1. CASE g = f
      BY <2>1, <3>1
    <3>2. CASE g # f
      <4>1. flushes'[g] = flushes[g]
        BY <2>1, <3>2
      <4>2. Among(flushes[g].batch[i], topic)
        BY <4>1 DEF PipeInv, SentArrived
      <4> QED
        BY <1>1, <4>1, <4>2
    <3> QED
      BY <3>1, <3>2
  <2>6. ASSUME NEW e \in Nat, e <= published',
               Kept(e, eventBuffer, topic, flushes) \/ ~(e <= published)
        PROVE  Kept(e, eventBuffer', topic', flushes')
    <3>1. CASE \E j \in 1 .. Len(b) : b[j] = e
      BY <2>1, <3>1 DEF Kept
    <3>2. CASE Among(e, topic)
      BY <1>1, <3>2 DEF Kept
    <3>3. ASSUME NEW g \in Flushers, NEW i \in 1 .. Len(flushes[g].batch),
                 flushes[g].batch[i] = e
          PROVE  Kept(e, eventBuffer', topic', flushes')
      <4>1. g # f
        BY <1>3, <2>1, <3>3
      <4>2. flushes'[g] = flushes[g]
        BY <2>1, <4>1
      <4>3. \E h \in Flushers : \E n \in 1 .. Len(flushes'[h].batch) :
                                   flushes'[h].batch[n] = e
        BY <3>3, <4>2
      <4> QED
        BY <4>3 DEF Kept
    <3> QED
      BY <2>6, <3>1, <3>2, <3>3 DEF Kept
  <2>7. NothingLost'
    BY <1>1, <2>6 DEF PipeInv, NothingLost
  <2>8. InLine'
    <3> SUFFICES ASSUME troubles' = {}, ~overlapped'
                 PROVE  OneLine(flushes', topic, eventBuffer', published')
      BY <1>1, <2>2 DEF InLine, PipeInv
    <3>1. /\ \A g \in Flushers : flushes[g] = NoFlush
          /\ Line(NoFlush, topic, eventBuffer, published)
      BY <1>1, <2>2 DEF InLine, PipeInv, Flushing, OneLine
    <3>2. Line(NoFlush, topic, b, published')
      BY <1>3, <3>1
    <3>3. Line(fl, topic, eventBuffer', published')
      <4>1. Len(b) \in Nat
        BY LenProperties
      <4> QED
        BY <1>3, <2>1, <2>3, <3>2, <4>1 DEF Line
    <3>4. \A g \in Flushers : flushes'[g] # NoFlush <=> g = f
      BY <2>1, <3>1
    <3>5. flushes'[f] = fl
      BY <2>1
    <3>6. \A g \in Flushers : flushes'[g] # NoFlush =>
                                 Line(flushes'[g], topic, eventBuffer', published')
      BY <3>3, <3>4, <3>5
    <3> QED
      BY <3>4, <3>6 DEF OneLine
  <2> QED
    BY <1>2, <2>4, <2>5, <2>7, <2>8 DEF PipeInv
<1> QED
  BY <1>4, <1>5

LEMMA PublishEventInv == PipeInv /\ PublishEvent => PipeInv'
<1> SUFFICES ASSUME PipeInv, PublishEvent
             PROVE  PipeInv'
  OBVIOUS
<1> DEFINE b == Buffered(published + 1)
<1>1. /\ eventBuffer \in Seq(Nat) /\ published \in Nat /\ published' = published + 1
      /\ Len(topic) \in Nat /\ Len(eventBuffer) \in Nat
  BY LenProperties DEF PipeInv, PipeTypes, PublishEvent
<1>2. /\ b \in Seq(Nat) /\ Len(b) = Len(eventBuffer) + 1
      /\ \A i \in 1 .. Len(eventBuffer) : b[i] = eventBuffer[i]
      /\ b[Len(eventBuffer) + 1] = published + 1
  BY <1>1, AppendProcessed DEF Buffered
<1>3. \/ FlushEvents(b, "request")
      \/ eventBuffer' = b /\ flushes' = flushes /\ overlapped' = overlapped
  BY DEF PublishEvent
<1>4. UNCHANGED <<topic, consumer, faultVars>>
  BY DEF PublishEvent
<1> HIDE DEF b
<1>5. b # <<>>
  BY <1>1, <1>2, EmptySeq
<1>6. \A i \in 1 .. Len(eventBuffer) : \E j \in 1 .. Len(b) : b[j] = eventBuffer[i]
  BY <1>1, <1>2
<1>7. \A e \in Nat : e <= published' => e <= published \/ \E j \in 1 .. Len(b) : b[j] = e
  BY <1>1, <1>2
<1>8. ASSUME NEW fl \in Flush, Line(fl, topic, eventBuffer, published)
      PROVE  Line(fl, topic, b, published')
  <2> DEFINE rest == Len(fl.batch) - fl.sent
  <2>1. rest \in Int
    BY LenProperties DEF Flush
  <2> HIDE DEF rest
  <2>2. /\ \A k \in 1 .. Len(eventBuffer) : eventBuffer[k] = Len(topic) + rest + k
        /\ published = Len(topic) + rest + Len(eventBuffer)
    BY <1>8 DEF Line, rest
  <2>3. /\ \A k \in 1 .. Len(b) : b[k] = Len(topic) + rest + k
        /\ published' = Len(topic) + rest + Len(b)
    <3>1. published' = Len(topic) + rest + Len(b)
      BY <1>1, <1>2, <2>1, <2>2
    <3>2. ASSUME NEW k \in 1 .. Len(b), k # Len(eventBuffer) + 1
          PROVE  k \in 1 .. Len(eventBuffer)
      BY <1>1, <1>2, <3>2
    <3>3. b[Len(eventBuffer) + 1] = Len(topic) + rest + (Len(eventBuffer) + 1)
      BY <1>1, <1>2, <2>1, <2>2
    <3> QED
      BY <1>2, <2>2, <3>1, <3>2, <3>3
  <2> QED
    BY <1>8, <2>3 DEF Line, rest
<1> QED
  BY <1>1, <1>2, <1>3, <1>4, <1>5, <1>6, <1>7, <1>8, BufferStep

LEMMA TimerFlushInv == PipeInv /\ TimerFlush => PipeInv'
<1> SUFFICES ASSUME PipeInv, TimerFlush
             PROVE  PipeInv'
  OBVIOUS
<1>1. /\ eventBuffer \in Seq(Nat) /\ published \in Nat /\ published' = published
      /\ \E by \in {"request", "timer"} : FlushEvents(eventBuffer, by)
      /\ eventBuffer # <<>>
      /\ UNCHANGED <<topic, consumer, faultVars>>
  BY DEF PipeInv, PipeTypes, TimerFlush
<1>2. /\ \A i \in 1 .. Len(eventBuffer) :
            \E j \in 1 .. Len(eventBuffer) : eventBuffer[j] = eventBuffer[i]
      /\ \A e \in Nat : e <= published' => e <= published
      /\ \A fl \in Flush : Line(fl, topic, eventBuffer, published) =>
                             Line(fl, topic, eventBuffer, published')
  BY <1>1
<1> QED
  BY <1>1, <1>2, BufferStep

LEMMA Shift ==
    ASSUME NEW t \in Int, NEW k \in Int, NEW n \in Int
    PROVE  /\ (t + 1) + (k - (n + 1)) = t + (k - n) /\ (t + 1) + k - (n + 1) = t + k - n
           /\ t + (n + 1) - n = t + 1 /\ n + 1 > n
OBVIOUS

LEMMA ShiftOn ==
    ASSUME NEW t \in Int, NEW l \in Int, l = t + 1, NEW k \in Int, NEW n \in Int
    PROVE  l + (k - (n + 1)) = t + (k - n) /\ l + k - (n + 1) = t + k - n
OBVIOUS

\* The i-th place behind n others.
LEMMA Behind ==
    ASSUME NEW n \in Nat, NEW k \in Nat, NEW i \in 1 .. k
    PROVE  n + i \in 1 .. n + k /\ ~(n + i <= n) /\ (n + i) - n = i
OBVIOUS

LEMMA EmitInv ==
    ASSUME PipeInv, NEW f \in Flushers, Emit(f)
    PROVE  PipeInv'
<1> DEFINE fl == flushes[f]
           x == Message(NextToSend(f), 0)
           m == Append(topic, x)
           next == Sent(fl)
<1>1. /\ fl \in Flush /\ fl # NoFlush /\ fl.sent < Len(fl.batch)
      /\ topic \in Seq(TopicMessage) /\ Len(topic) \in Nat
      /\ fl.sent \in Nat /\ Len(fl.batch) \in Nat /\ fl.sent + 1 \in 1 .. Len(fl.batch)
  BY LenProperties DEF Emit, Flushing, PipeInv, PipeTypes, Flush
<1>2. x \in TopicMessage /\ x.event = fl.batch[fl.sent + 1]
  BY <1>1 DEF Message, NextToSend, TopicMessage, Flush
<1>3. topic' = m /\ flushes' = [flushes EXCEPT ![f] = next]
  BY DEF Emit
<1>4. /\ published' = published /\ eventBuffer' = eventBuffer /\ overlapped' = overlapped
      /\ position' = position /\ doing' = doing /\ troubles' = troubles
      /\ committed' = committed /\ processed' = processed /\ deadLetters' = deadLetters
  BY DEF Emit, consumer, faultVars
<1>5. /\ NoFlush \in Flush /\ Len(NoFlush.batch) = 0 /\ NoFlush.sent = 0
  BY EmptySeq DEF NoFlush, Flush
<1>6. /\ next \in Flush
      /\ \/ next = NoFlush /\ fl.sent + 1 = Len(fl.batch)
         \/ /\ next.batch = fl.batch /\ next.sent = fl.sent + 1
            /\ fl.sent + 1 < Len(fl.batch)
  <2>1. CASE fl.sent + 1 = Len(fl.batch)
    BY <1>5, <2>1 DEF Sent
  <2>2. CASE fl.sent + 1 # Len(fl.batch)
    <3>1. next = [fl EXCEPT !.sent = fl.sent + 1]
      BY <2>2 DEF Sent
    <3>2. fl.sent + 1 \in Nat /\ fl.sent + 1 < Len(fl.batch)
      BY <1>1, <2>2
    <3> HIDE DEF next
    <3>3. /\ next \in Flush /\ next.batch = fl.batch /\ next.sent = fl.sent + 1
      BY <1>1, <3>1, <3>2 DEF Flush
    <3> QED
      BY <3>2, <3>3
  <2> QED
    BY <2>1, <2>2
<1> HIDE DEF x, next
<1>7. /\ m \in Seq(TopicMessage) /\ Len(m) = Len(topic) + 1
      /\ \A i \in 1 .. Len(topic) : m[i] = topic[i]
      /\ m[Len(topic) + 1] = x
      /\ \A e : Among(e, topic) => Among(e, m)
      /\ Among(x.event, m)
      /\ \A p, dead : \A i \in 1 .. Len(topic) :
            Settled(i, topic, p, dead) => Settled(i, m, p, dead)
  BY <1>1, <1>2, AppendTopic
<1> HIDE DEF m
<1>8. /\ flushes' \in [Flushers -> Flush]
      /\ \A g \in Flushers : flushes'[g] = IF g = f THEN next ELSE flushes[g]
  BY <1>3, <1>6 DEF PipeInv, PipeTypes
<1>9. PipeTypes'
  <2>1. \A g \in Flushers : flushes'[g] # NoFlush =>
                              flushes'[g].sent < Len(flushes'[g].batch)
    BY <1>6, <1>8 DEF PipeInv, PipeTypes
  <2>2. position <= Len(m) + 1 /\ (doing # "fetch" => position <= Len(m))
    BY <1>1, <1>7 DEF PipeInv, PipeTypes
  <2> QED
    BY <1>3, <1>4, <1>7, <1>8, <2>1, <2>2 DEF PipeInv, PipeTypes
<1>10. SentArrived'
  <2> SUFFICES ASSUME NEW g \in Flushers, NEW i \in 1 .. Len(flushes'[g].batch),
                      i <= flushes'[g].sent
               PROVE  Among(flushes'[g].batch[i], m)
    BY <1>3 DEF SentArrived
  <2>1. CASE g # f
    BY <1>7, <1>8, <2>1 DEF PipeInv, SentArrived
  <2>2. CASE g = f
    <3>1. next.batch = fl.batch /\ next.sent = fl.sent + 1 /\ flushes'[g] = next
      BY <1>5, <1>6, <1>8, <2>2
    <3>2. CASE i = fl.sent + 1
      BY <1>2, <1>7, <3>1, <3>2
    <3>3. CASE i # fl.sent + 1
      <4>1. i <= fl.sent /\ i \in 1 .. Len(fl.batch)
        BY <1>1, <3>1, <3>3
      <4> QED
        BY <1>7, <3>1, <4>1 DEF PipeInv, SentArrived
    <3> QED
      BY <3>2, <3>3
  <2> QED
    BY <2>1, <2>2
<1>11. ASSUME NEW e \in Nat, Kept(e, eventBuffer, topic, flushes)
       PROVE  Kept(e, eventBuffer', topic', flushes')
  <2>1. CASE \E i \in 1 .. Len(eventBuffer) : eventBuffer[i] = e
    BY <1>4, <2>1 DEF Kept
  <2>2. CASE Among(e, topic)
    BY <1>3, <1>7, <2>2 DEF Kept
  <2>3. ASSUME NEW g \in Flushers, NEW i \in 1 .. Len(flushes[g].batch),
               flushes[g].batch[i] = e
        PROVE  Kept(e, eventBuffer', topic', flushes')
    <3>1. CASE flushes'[g].batch = flushes[g].batch
      BY <2>3, <3>1 DEF Kept
    <3>2. CASE flushes'[g].batch # flushes[g].batch
      <4>1. g = f /\ next = NoFlush /\ fl.sent + 1 = Len(fl.batch)
        BY <1>6, <1>8, <3>2
      <4>2. CASE i = fl.sent + 1
        BY <1>2, <1>3, <1>7, <2>3, <4>1, <4>2 DEF Kept
      <4>3. CASE i # fl.sent + 1
        <5>1. i <= fl.sent
          BY <1>1, <2>3, <4>1, <4>3
        <5> QED
          BY <1>3, <1>7, <2>3, <4>1, <5>1 DEF Kept, PipeInv, SentArrived
      <4> QED
        BY <4>2, <4>3
    <3> QED
      BY <3>1, <3>2
  <2> QED
    BY <1>11, <2>1, <2>2, <2>3 DEF Kept
<1>12. NothingLost'
  BY <1>4, <1>11 DEF PipeInv, NothingLost
<1>13. BehindOffset'
  <2>1. \A i \in 1 .. committed : i \in 1 .. Len(topic)
    BY <1>1 DEF PipeInv, PipeTypes
  <2> QED
    BY <1>3, <1>4, <1>7, <2>1 DEF PipeInv, BehindOffset
<1>14. InLine'
  <2> SUFFICES ASSUME troubles' = {}, ~overlapped'
               PROVE  /\ OneLine(flushes', m, eventBuffer, published)
                      /\ \A i \in 1 .. Len(m) : m[i].event = i
    BY <1>3, <1>4 DEF InLine, PipeInv
  <2>1. /\ OneLine(flushes, topic, eventBuffer, published)
        /\ \A i \in 1 .. Len(topic) : topic[i].event = i
    BY <1>4 DEF InLine, PipeInv
  <2>2. /\ Line(fl, topic, eventBuffer, published)
        /\ \A g \in Flushers : g # f => flushes[g] = NoFlush
    BY <1>1, <2>1 DEF OneLine
  <2>3. fl.batch[fl.sent + 1] = Len(topic) + 1
    <3>1. fl.sent + 1 > fl.sent /\ Len(topic) + (fl.sent + 1) - fl.sent = Len(topic) + 1
      BY <1>1, Shift
    <3>2. fl.batch[fl.sent + 1] = Len(topic) + (fl.sent + 1) - fl.sent
      BY <1>1, <2>2, <3>1 DEF Line
    <3> QED
      BY <3>1, <3>2
  <2>4. \A i \in 1 .. Len(m) : m[i].event = i
    <3>1. \A i \in 1 .. Len(m) : i # Len(topic) + 1 => i \in 1 .. Len(topic)
      BY <1>1, <1>7
    <3> QED
      BY <1>2, <1>7, <2>1, <2>3, <3>1
  <2>5. Line(next, m, eventBuffer, published)
    <3>1. CASE next = NoFlush
      <4>1. Len(fl.batch) - fl.sent = 1
        BY <1>1, <1>5, <1>6, <3>1
      <4>2. /\ \A k \in 1 .. Len(eventBuffer) : eventBuffer[k] = Len(topic) + 1 + k
            /\ published = Len(topic) + 1 + Len(eventBuffer)
        BY <2>2, <4>1 DEF Line
      <4>3. /\ \A k \in 1 .. Len(eventBuffer) : eventBuffer[k] = Len(m) + (0 - 0) + k
            /\ published = Len(m) + (0 - 0) + Len(eventBuffer)
        BY <1>1, <1>7, <4>2
      <4> QED
        BY <1>5, <3>1, <4>3 DEF Line
    <3>2. CASE next # NoFlush
      <4>1. next.batch = fl.batch /\ next.sent = fl.sent + 1
        BY <1>6, <3>2
      <4>2. Len(m) + (Len(fl.batch) - (fl.sent + 1)) = Len(topic) + (Len(fl.batch) - fl.sent)
        <5>1. /\ Len(m) = Len(topic) + 1 /\ Len(topic) \in Int
              /\ Len(fl.batch) \in Int /\ fl.sent \in Int
          BY <1>1, <1>7
        <5> HIDE DEF fl
        <5> QED
          BY <5>1, ShiftOn
      <4>3. ASSUME NEW k \in 1 .. Len(fl.batch), k > fl.sent + 1
            PROVE  fl.batch[k] = Len(m) + k - (fl.sent + 1)
        <5>1. k > fl.sent /\ k \in Int
          BY <1>1, <4>3
        <5>2. Len(m) + k - (fl.sent + 1) = Len(topic) + k - fl.sent
          <6>1. /\ Len(m) = Len(topic) + 1 /\ Len(topic) \in Int
                /\ fl.sent \in Int
            BY <1>1, <1>7
          <6> HIDE DEF fl
          <6> QED
            BY <5>1, <6>1, ShiftOn
        <5> QED
          BY <2>2, <5>1, <5>2 DEF Line
      <4> QED
        BY <2>2, <4>1, <4>2, <4>3 DEF Line
    <3> QED
      BY <3>1, <3>2
  <2>6. OneLine(flushes', m, eventBuffer, published)
    <3>1. \A g \in Flushers : g # f => flushes'[g] = NoFlush
      BY <1>8, <2>2
    <3> QED
      BY <1>8, <2>5, <3>1 DEF OneLine
  <2> QED
    BY <2>4, <2>6
<1> QED
  BY <1>9, <1>10, <1>12, <1>13, <1>14 DEF PipeInv

LEMMA EmitFailsInv ==
    ASSUME PipeInv, NEW f \in Flushers, EmitFails(f)
    PROVE  PipeInv'
<1> DEFINE fl == flushes[f]
           x == Message(NextToSend(f), 0)
           m == Append(topic, x)
           b == fl.batch \o eventBuffer
<1>1. /\ fl \in Flush /\ fl # NoFlush /\ fl.sent < Len(fl.batch)
      /\ topic \in Seq(TopicMessage) /\ Len(topic) \in Nat
      /\ fl.sent \in Nat /\ Len(fl.batch) \in Nat /\ fl.sent + 1 \in 1 .. Len(fl.batch)
      /\ eventBuffer \in Seq(Nat) /\ fl.batch \in Seq(Nat) /\ Len(eventBuffer) \in Nat
  BY LenProperties DEF EmitFails, Flushing, PipeInv, PipeTypes, Flush
<1>2. x \in TopicMessage
  BY <1>1 DEF Message, NextToSend, TopicMessage, Flush
<1>3. /\ b \in Seq(Nat) /\ Len(b) = Len(fl.batch) + Len(eventBuffer)
      /\ \A i \in 1 .. Len(fl.batch) : b[i] = fl.batch[i]
      /\ \A i \in 1 .. Len(eventBuffer) : b[Len(fl.batch) + i] = eventBuffer[i]
  <2>1. /\ b \in Seq(Nat) /\ Len(b) = Len(fl.batch) + Len(eventBuffer)
        /\ \A i \in 1 .. Len(fl.batch) + Len(eventBuffer) :
              b[i] = IF i <= Len(fl.batch) THEN fl.batch[i]
                     ELSE eventBuffer[i - Len(fl.batch)]
    BY <1>1, ConcatProperties
  <2> HIDE DEF b
  <2>2. ASSUME NEW i \in 1 .. Len(eventBuffer)
        PROVE  b[Len(fl.batch) + i] = eventBuffer[i]
    <3>1. /\ Len(fl.batch) + i \in 1 .. Len(fl.batch) + Len(eventBuffer)
          /\ ~(Len(fl.batch) + i <= Len(fl.batch))
          /\ (Len(fl.batch) + i) - Len(fl.batch) = i
      <4>1. Len(fl.batch) \in Nat /\ Len(eventBuffer) \in Nat
        BY <1>1
      <4> HIDE DEF fl
      <4> QED
        BY <4>1, Behind
    <3> QED
      BY <2>1, <3>1
  <2>3. ASSUME NEW i \in 1 .. Len(fl.batch)
        PROVE  b[i] = fl.batch[i]
    <3>1. i \in 1 .. Len(fl.batch) + Len(eventBuffer) /\ i <= Len(fl.batch)
      BY <1>1
    <3> QED
      BY <2>1, <3>1
  <2> QED
    BY <2>1, <2>2, <2>3
<1>4. /\ topic' \in {topic, m} /\ flushes' = [flushes EXCEPT ![f] = NoFlush]
      /\ eventBuffer' = b /\ troubles' = troubles \cup {"emit"}
  BY DEF EmitFails, MaybeStored, Requeue, Trouble
<1>5. /\ published' = published /\ overlapped' = overlapped
      /\ position' = position /\ doing' = doing
      /\ committed' = committed /\ processed' = processed /\ deadLetters' = deadLetters
  BY DEF EmitFails, consumer
<1>6. /\ NoFlush \in Flush /\ Len(NoFlush.batch) = 0 /\ NoFlush.sent = 0
  BY EmptySeq DEF NoFlush, Flush
<1> HIDE DEF x, b
<1>7. /\ topic' \in Seq(TopicMessage) /\ Len(topic) <= Len(topic') /\ Len(topic') \in Nat
      /\ \A i \in 1 .. Len(topic) : topic'[i] = topic[i]
      /\ \A e : Among(e, topic) => Among(e, topic')
      /\ \A p, dead : \A i \in 1 .. Len(topic) :
            Settled(i, topic, p, dead) => Settled(i, topic', p, dead)
  <2>1. CASE topic' = topic
    BY <1>1, <2>1
  <2>2. CASE topic' = m
    <3>1. /\ m \in Seq(TopicMessage) /\ Len(m) = Len(topic) + 1
          /\ \A i \in 1 .. Len(topic) : m[i] = topic[i]
          /\ \A e : Among(e, topic) => Among(e, m)
          /\ \A p, dead : \A i \in 1 .. Len(topic) :
                Settled(i, topic, p, dead) => Settled(i, m, p, dead)
      BY <1>1, <1>2, AppendTopic
    <3> HIDE DEF m
    <3> QED
      BY <1>1, <2>2, <3>1
  <2> QED
    BY <1>4, <2>1, <2>2
<1> HIDE DEF m
<1>8. /\ flushes' \in [Flushers -> Flush]
      /\ \A g \in Flushers : flushes'[g] = IF g = f THEN NoFlush ELSE flushes[g]
  BY <1>4, <1>6 DEF PipeInv, PipeTypes
<1>9. PipeTypes'
  <2>1. \A g \in Flushers : flushes'[g] # NoFlush =>
                              flushes'[g].sent < Len(flushes'[g].batch)
    BY <1>8 DEF PipeInv, PipeTypes
  <2>2. position <= Len(topic') + 1 /\ (doing # "fetch" => position <= Len(topic'))
    BY <1>1, <1>7 DEF PipeInv, PipeTypes
  <2> QED
    BY <1>3, <1>4, <1>5, <1>7, <1>8, <2>1, <2>2 DEF PipeInv, PipeTypes
<1>10. SentArrived'
  BY <1>6, <1>7, <1>8 DEF PipeInv, SentArrived
<1>11. ASSUME NEW e \in Nat, Kept(e, eventBuffer, topic, flushes)
       PROVE  Kept(e, eventBuffer', topic', flushes')
  <2>1. ASSUME NEW i \in 1 .. Len(eventBuffer), eventBuffer[i] = e
        PROVE  Kept(e, eventBuffer', topic', flushes')
    <3>1. Len(fl.batch) + i \in 1 .. Len(b)
      BY <1>1, <1>3
    <3> QED
      BY <1>3, <1>4, <2>1, <3>1 DEF Kept
  <2>2. CASE Among(e, topic)
    BY <1>7, <2>2 DEF Kept
  <2>3. ASSUME NEW g \in Flushers, NEW i \in 1 .. Len(flushes[g].batch),
               flushes[g].batch[i] = e
        PROVE  Kept(e, eventBuffer', topic', flushes')
    <3>1. CASE g # f
      <4>1. flushes'[g] = flushes[g]
        BY <1>8, <3>1
      <4> QED
        BY <2>3, <4>1 DEF Kept
    <3>2. CASE g = f
      <4>1. i \in 1 .. Len(fl.batch) /\ fl.batch[i] = e
        BY <2>3, <3>2
      <4>2. b[i] = e
        BY <1>3, <4>1
      <4>3. /\ Len(b) = Len(fl.batch) + Len(eventBuffer)
            /\ Len(fl.batch) \in Nat /\ Len(eventBuffer) \in Nat
        BY <1>1, <1>3
      <4>4. i \in 1 .. Len(b)
        BY <4>1, <4>3
      <4> QED
        BY <1>4, <4>2, <4>4 DEF Kept
    <3> QED
      BY <3>1, <3>2
  <2> QED
    BY <1>11, <2>1, <2>2, <2>3 DEF Kept
<1>12. NothingLost'
  BY <1>4, <1>5, <1>11 DEF PipeInv, NothingLost
<1>13. BehindOffset'
  <2>1. \A i \in 1 .. committed : i \in 1 .. Len(topic)
    BY <1>1 DEF PipeInv, PipeTypes
  <2> QED
    BY <1>4, <1>5, <1>7, <2>1 DEF PipeInv, BehindOffset
<1>14. InLine'
  BY <1>4 DEF InLine
<1> QED
  BY <1>9, <1>10, <1>12, <1>13, <1>14 DEF PipeInv

\* The consumer goes on; the publisher does not.
LEMMA ConsumerStep ==
    ASSUME PipeInv, UNCHANGED producer,
           topic' \in Seq(TopicMessage), Len(topic) <= Len(topic'),
           \A e : Among(e, topic) => Among(e, topic'),
           \A t \in troubles : t \in troubles',
           processed' \in Seq(Nat), committed' \in Nat, position' \in Nat,
           committed' < position', position' <= Len(topic') + 1,
           doing' \in {"fetch", "handle", "retry", "deadLetter"},
           doing' # "fetch" => position' <= Len(topic'),
           BehindOffset',
           troubles' = {} /\ ~overlapped /\ InLine =>
             /\ topic' = topic /\ doing' \in {"fetch", "handle"}
             /\ position' = Len(processed') + 1
             /\ \A i \in 1 .. Len(processed') : processed'[i] = i
    PROVE  PipeInv'
<1>1. /\ published' = published /\ eventBuffer' = eventBuffer /\ flushes' = flushes
      /\ overlapped' = overlapped
  BY DEF producer
<1>2. PipeTypes'
  BY <1>1 DEF PipeInv, PipeTypes
<1>3. SentArrived'
  BY <1>1 DEF PipeInv, SentArrived
<1>4. NothingLost'
  BY <1>1 DEF PipeInv, NothingLost, Kept
<1>5. InLine'
  <2> SUFFICES ASSUME troubles' = {}, ~overlapped'
               PROVE  /\ OneLine(flushes', topic', eventBuffer', published')
                      /\ \A i \in 1 .. Len(topic') : topic'[i].event = i
                      /\ doing' \in {"fetch", "handle"} /\ position' = Len(processed') + 1
                      /\ \A i \in 1 .. Len(processed') : processed'[i] = i
    BY DEF InLine
  <2>1. troubles = {} /\ ~overlapped /\ InLine
    BY <1>1 DEF PipeInv
  <2> QED
    BY <1>1, <2>1 DEF InLine
<1> QED
  BY <1>2, <1>3, <1>4, <1>5 DEF PipeInv

\* The message of the consumer is dealt with and its offset committed.
LEMMA Commits ==
    ASSUME PipeInv, doing # "fetch", CommitOffsets,
           Len(topic') \in Nat, Len(topic) <= Len(topic'),
           "retry" \in troubles' <=> "retry" \in troubles,
           "deadLetter" \in troubles => "deadLetter" \in troubles',
           \A i \in 1 .. Len(topic) : Settled(i, topic, processed, deadLetters) =>
                                        Settled(i, topic', processed', deadLetters'),
           "deadLetter" \notin troubles' =>
             Settled(position, topic', processed', deadLetters')
    PROVE  /\ BehindOffset' /\ committed' \in Nat /\ position' \in Nat
           /\ committed' < position' /\ position' <= Len(topic') + 1
           /\ position' = position + 1 /\ doing' = "fetch"
<1>1. /\ committed' = position /\ position' = position + 1 /\ doing' = "fetch"
      /\ position \in Nat /\ position <= Len(topic) /\ committed \in Nat
      /\ committed < position
  BY DEF CommitOffsets, PipeInv, PipeTypes
<1>2. Len(topic) \in Nat
  BY LenProperties DEF PipeInv, PipeTypes
<1>3. ASSUME "retry" \notin troubles', "deadLetter" \notin troubles', NEW i \in 1 .. position
      PROVE  Settled(i, topic', processed', deadLetters')
  <2>1. /\ position = committed + 1
        /\ \A n \in 1 .. committed : Settled(n, topic, processed, deadLetters)
    BY <1>3 DEF PipeInv, BehindOffset
  <2>2. CASE i = position
    BY <1>3, <2>2
  <2>3. CASE i # position
    <3>1. i \in 1 .. committed /\ i \in 1 .. Len(topic)
      BY <1>1, <1>2, <2>1, <2>3
    <3> QED
      BY <2>1, <3>1
  <2> QED
    BY <2>2, <2>3
<1>4. BehindOffset'
  BY <1>1, <1>3 DEF BehindOffset
<1> QED
  BY <1>1, <1>2, <1>4

LEMMA FetchInv == PipeInv /\ Fetch => PipeInv'
<1> SUFFICES ASSUME PipeInv, Fetch
             PROVE  PipeInv'
  OBVIOUS
<1>1. /\ topic' = topic /\ position' = position /\ committed' = committed
      /\ processed' = processed /\ deadLetters' = deadLetters /\ troubles' = troubles
      /\ doing' = "handle" /\ position <= Len(topic) /\ UNCHANGED producer
  BY DEF Fetch, faultVars
<1>2. BehindOffset'
  BY <1>1 DEF BehindOffset, PipeInv
<1>3. Len(topic) \in Nat
  BY LenProperties DEF PipeInv, PipeTypes
<1> QED
  BY <1>1, <1>2, <1>3, ConsumerStep DEF PipeInv, PipeTypes, InLine

LEMMA CurrentMessage ==
    ASSUME PipeInv, doing # "fetch"
    PROVE  /\ position \in 1 .. Len(topic) /\ Len(topic) \in Nat /\ position \in Nat
           /\ Current \in TopicMessage /\ Current = topic[position]
           /\ topic \in Seq(TopicMessage)
<1>1. /\ topic \in Seq(TopicMessage) /\ Len(topic) \in Nat /\ position \in Nat
      /\ committed \in Nat /\ committed < position /\ position <= Len(topic)
  BY LenProperties DEF PipeInv, PipeTypes
<1>2. position \in 1 .. Len(topic)
  BY <1>1
<1> QED
  BY <1>1, <1>2 DEF Current

LEMMA HandleEventInv == PipeInv /\ HandleEvent => PipeInv'
<1> SUFFICES ASSUME PipeInv, HandleEvent
             PROVE  PipeInv'
  OBVIOUS
<1> DEFINE e == Current.event
           p == Append(processed, e)
<1>1. /\ position \in 1 .. Len(topic) /\ Len(topic) \in Nat /\ position \in Nat
      /\ Current \in TopicMessage /\ Current = topic[position]
      /\ topic \in Seq(TopicMessage) /\ doing # "fetch"
  BY CurrentMessage DEF HandleEvent
<1>2. /\ topic' = topic /\ deadLetters' = deadLetters /\ troubles' = troubles
      /\ processed' = p /\ CommitOffsets /\ UNCHANGED producer
  BY DEF HandleEvent, faultVars
<1>3. e \in Nat /\ processed \in Seq(Nat) /\ Len(processed) \in Nat
  BY <1>1, LenProperties DEF TopicMessage, PipeInv, PipeTypes
<1>4. /\ p \in Seq(Nat) /\ Len(p) = Len(processed) + 1
      /\ \A i \in 1 .. Len(processed) : p[i] = processed[i]
      /\ p[Len(processed) + 1] = e
  BY <1>3, AppendProcessed
<1> HIDE DEF p
<1>5. Settled(position, topic, p, deadLetters)
  <2>1. Len(processed) + 1 \in 1 .. Len(p)
    BY <1>3, <1>4
  <2> QED
    BY <1>1, <1>4, <2>1 DEF Settled
<1>6. ASSUME NEW i \in 1 .. Len(topic), Settled(i, topic, processed, deadLetters)
      PROVE  Settled(i, topic, p, deadLetters)
  <2>1. \A n \in 1 .. Len(processed) : n \in 1 .. Len(p)
    BY <1>3, <1>4
  <2> QED
    BY <1>4, <1>6, <2>1 DEF Settled
<1>7. /\ BehindOffset' /\ committed' \in Nat /\ position' \in Nat
      /\ committed' < position' /\ position' <= Len(topic') + 1
      /\ position' = position + 1 /\ doing' = "fetch"
  BY <1>1, <1>2, <1>5, <1>6, Commits
<1>8. ASSUME troubles' = {}, ~overlapped, InLine
      PROVE  /\ position' = Len(p) + 1
             /\ \A i \in 1 .. Len(p) : p[i] = i
  <2>1. /\ position = Len(processed) + 1
        /\ \A i \in 1 .. Len(topic) : topic[i].event = i
        /\ \A i \in 1 .. Len(processed) : processed[i] = i
    BY <1>2, <1>8 DEF InLine
  <2>2. e = Len(processed) + 1
    BY <1>1, <2>1
  <2>3. \A i \in 1 .. Len(p) : i # Len(processed) + 1 => i \in 1 .. Len(processed)
    BY <1>3, <1>4
  <2> QED
    BY <1>4, <1>7, <2>1, <2>2, <2>3
<1>9. Len(topic) <= Len(topic') /\ topic' \in Seq(TopicMessage)
  BY <1>1, <1>2
<1> QED
  BY <1>2, <1>4, <1>7, <1>8, <1>9, ConsumerStep

LEMMA RetryMessageInv == PipeInv /\ RetryMessage => PipeInv'
<1> SUFFICES ASSUME PipeInv, RetryMessage
             PROVE  PipeInv'
  OBVIOUS
<1> DEFINE x == Retried(Current)
           m == Append(topic, x)
<1>1. /\ position \in 1 .. Len(topic) /\ Len(topic) \in Nat /\ position \in Nat
      /\ Current \in TopicMessage /\ Current = topic[position]
      /\ topic \in Seq(TopicMessage) /\ doing # "fetch"
  BY CurrentMessage DEF RetryMessage
<1>2. /\ topic' = m /\ deadLetters' = deadLetters /\ troubles' = troubles
      /\ processed' = processed /\ CommitOffsets /\ UNCHANGED producer
  BY DEF RetryMessage, faultVars
<1>3. x \in TopicMessage /\ processed \in Seq(Nat)
  BY <1>1 DEF TopicMessage, Retried, Message, PipeInv, PipeTypes
<1> HIDE DEF x
<1>4. /\ m \in Seq(TopicMessage) /\ Len(m) = Len(topic) + 1
      /\ \A i \in 1 .. Len(topic) : m[i] = topic[i]
      /\ m[Len(topic) + 1] = x
      /\ \A e : Among(e, topic) => Among(e, m)
      /\ \A p, dead : \A i \in 1 .. Len(topic) :
            Settled(i, topic, p, dead) => Settled(i, m, p, dead)
  BY <1>1, <1>3, AppendTopic
<1> HIDE DEF m
<1>5. Settled(position, m, processed, deadLetters)
  <2>1. Len(topic) + 1 \in 1 .. Len(m) /\ position < Len(topic) + 1
    BY <1>1, <1>4
  <2>2. m[Len(topic) + 1] = Retried(m[position])
    BY <1>1, <1>4 DEF x
  <2> QED
    BY <2>1, <2>2 DEF Settled
<1>6. Len(m) \in Nat /\ Len(topic) <= Len(m)
  BY <1>1, <1>4
<1>7. /\ BehindOffset' /\ committed' \in Nat /\ position' \in Nat
      /\ committed' < position' /\ position' <= Len(topic') + 1
      /\ position' = position + 1 /\ doing' = "fetch"
  BY <1>1, <1>2, <1>4, <1>5, <1>6, Commits
<1>8. ~(troubles' = {} /\ ~overlapped /\ InLine)
  BY <1>2 DEF InLine, RetryMessage
<1> QED
  BY <1>2, <1>3, <1>4, <1>6, <1>7, <1>8, ConsumerStep

LEMMA DeadLetterInv == PipeInv /\ (SendToDeadLetterQueue \/ DeadLetterFails) => PipeInv'
<1> SUFFICES ASSUME PipeInv, SendToDeadLetterQueue \/ DeadLetterFails
             PROVE  PipeInv'
  OBVIOUS
<1>1. /\ position \in 1 .. Len(topic) /\ Len(topic) \in Nat /\ position \in Nat
      /\ Current = topic[position] /\ topic \in Seq(TopicMessage) /\ doing # "fetch"
      /\ doing = "deadLetter"
  BY CurrentMessage DEF SendToDeadLetterQueue, DeadLetterFails
<1>2. /\ topic' = topic /\ processed' = processed /\ CommitOffsets /\ UNCHANGED producer
      /\ \/ deadLetters' = deadLetters \cup {Current.event} /\ troubles' = troubles
         \/ deadLetters' = deadLetters /\ troubles' = troubles \cup {"deadLetter"}
  BY DEF SendToDeadLetterQueue, DeadLetterFails, faultVars, Trouble
<1>3. "deadLetter" \notin troubles' => Settled(position, topic', processed', deadLetters')
  BY <1>1, <1>2 DEF Settled
<1>4. \A i \in 1 .. Len(topic) : Settled(i, topic, processed, deadLetters) =>
                                   Settled(i, topic', processed', deadLetters')
  BY <1>2 DEF Settled
<1>5. /\ BehindOffset' /\ committed' \in Nat /\ position' \in Nat
      /\ committed' < position' /\ position' <= Len(topic') + 1
      /\ position' = position + 1 /\ doing' = "fetch"
  <2>1. /\ Len(topic') \in Nat /\ Len(topic) <= Len(topic')
        /\ "retry" \in troubles' <=> "retry" \in troubles
        /\ "deadLetter" \in troubles => "deadLetter" \in troubles'
    BY <1>1, <1>2
  <2> QED
    BY <1>1, <1>2, <1>3, <1>4, <2>1, Commits
<1>6. ~(troubles' = {} /\ ~overlapped /\ InLine)
  BY <1>1, <1>2 DEF InLine
<1>7. /\ topic' \in Seq(TopicMessage) /\ Len(topic) <= Len(topic')
      /\ \A t \in troubles : t \in troubles'
      /\ processed' \in Seq(Nat)
  BY <1>1, <1>2 DEF PipeInv, PipeTypes
<1> QED
  BY <1>2, <1>5, <1>6, <1>7, ConsumerStep

LEMMA HandlerFailsInv == PipeInv /\ (HandlerFails \/ RetryFails) => PipeInv'
<1> SUFFICES ASSUME PipeInv, HandlerFails \/ RetryFails
             PROVE  PipeInv'
  OBVIOUS
<1>1. /\ position \in 1 .. Len(topic) /\ Len(topic) \in Nat /\ position \in Nat
      /\ topic \in Seq(TopicMessage) /\ doing # "fetch"
  BY CurrentMessage DEF HandlerFails, RetryFails
<1>2. /\ topic' = topic /\ committed' = committed /\ processed' = processed
      /\ deadLetters' = deadLetters /\ UNCHANGED producer
      /\ \/ /\ doing' = AfterFailure /\ position' = position
            /\ troubles' = troubles \cup {"handle"}
         \/ /\ doing' = "fetch" /\ position' = position + 1
            /\ troubles' = troubles \cup {"retry"}
  BY DEF HandlerFails, RetryFails, Trouble
<1>3. AfterFailure \in {"retry", "deadLetter"}
  BY DEF AfterFailure
<1>4. BehindOffset'
  BY <1>2 DEF BehindOffset, PipeInv
<1>5. /\ position' \in Nat /\ committed' \in Nat /\ committed' < position'
      /\ position' <= Len(topic') + 1 /\ (doing' # "fetch" => position' <= Len(topic'))
      /\ doing' \in {"fetch", "handle", "retry", "deadLetter"}
      /\ processed' \in Seq(Nat) /\ topic' \in Seq(TopicMessage) /\ Len(topic) <= Len(topic')
  BY <1>1, <1>2, <1>3 DEF PipeInv, PipeTypes
<1>6. troubles' # {} /\ \A t \in troubles : t \in troubles'
  BY <1>2
<1> QED
  BY <1>2, <1>4, <1>5, <1>6, ConsumerStep

LEMMA CrashPipelineInv == PipeInv /\ CrashPipeline => PipeInv'
<1> SUFFICES ASSUME PipeInv, CrashPipeline
             PROVE  PipeInv'
  OBVIOUS
<1>1. /\ eventBuffer' = <<>> /\ flushes' = [f \in Flushers |-> NoFlush]
      /\ position' = committed + 1 /\ doing' = "fetch"
      /\ published' = published /\ overlapped' = overlapped /\ topic' = topic
      /\ committed' = committed /\ processed' = processed /\ deadLetters' = deadLetters
      /\ troubles' = troubles \cup {"crash"}
  BY DEF CrashPipeline, Stops, Trouble
<1>2. NoFlush \in Flush /\ Len(NoFlush.batch) = 0 /\ Len(topic) \in Nat
  BY EmptySeq, LenProperties DEF NoFlush, Flush, PipeInv, PipeTypes
<1>3. eventBuffer' \in Seq(Nat) /\ \A f \in Flushers : flushes'[f] = NoFlush
  BY <1>1, EmptySeq
<1>4. flushes' \in [Flushers -> Flush]
  BY <1>1, <1>2
<1>5. PipeTypes'
  BY <1>1, <1>2, <1>3, <1>4 DEF PipeInv, PipeTypes
<1>6. SentArrived'
  BY <1>2, <1>3 DEF SentArrived
<1>7. NothingLost' /\ InLine'
  BY <1>1 DEF NothingLost, InLine
<1>8. BehindOffset'
  BY <1>1 DEF BehindOffset, PipeInv, PipeTypes
<1> QED
  BY <1>5, <1>6, <1>7, <1>8 DEF PipeInv

\* What an emission puts on the topic, or nothing.
LEMMA StoredMaybe ==
    ASSUME PipeInv, NEW f \in Flushers, f \in Flushing, MaybeStored(f)
    PROVE  /\ topic' \in Seq(TopicMessage) /\ Len(topic') \in Nat /\ Len(topic) \in Nat
           /\ Len(topic) <= Len(topic')
           /\ \A p, dead : \A i \in 1 .. Len(topic) :
                 Settled(i, topic, p, dead) => Settled(i, topic', p, dead)
<1> DEFINE fl == flushes[f]
           x == Message(NextToSend(f), 0)
<1>1. /\ fl \in Flush /\ fl.sent < Len(fl.batch) /\ fl.sent \in Nat /\ Len(fl.batch) \in Nat
      /\ topic \in Seq(TopicMessage) /\ Len(topic) \in Nat /\ fl.batch \in Seq(Nat)
  BY LenProperties DEF Flushing, PipeInv, PipeTypes, Flush
<1>2. fl.sent + 1 \in 1 .. Len(fl.batch)
  BY <1>1
<1>3. x \in TopicMessage
  <2>1. fl.batch[fl.sent + 1] \in Nat
    <3> HIDE DEF fl
    <3> QED
      BY <1>1, <1>2, ElementOfSeq
  <2> QED
    BY <2>1 DEF Message, NextToSend, TopicMessage
<1>4. topic' \in {topic, Append(topic, x)}
  BY DEF MaybeStored
<1> HIDE DEF x
<1>5. CASE topic' = topic
  BY <1>1, <1>5
<1>6. CASE topic' = Append(topic, x)
  BY <1>1, <1>3, <1>6, AppendTopic
<1> QED
  BY <1>4, <1>5, <1>6

LEMMA TimerEmitFailsInv ==
    ASSUME PipeInv, NEW f \in Flushers, TimerEmitFails(f)
    PROVE  PipeInv'
<1>1. /\ eventBuffer' = <<>> /\ flushes' = [g \in Flushers |-> NoFlush]
      /\ position' = committed + 1 /\ doing' = "fetch"
      /\ published' = published /\ overlapped' = overlapped
      /\ committed' = committed /\ processed' = processed /\ deadLetters' = deadLetters
      /\ troubles' = troubles \cup {"timer"}
  BY DEF TimerEmitFails, Stops, Trouble
<1>2. /\ topic' \in Seq(TopicMessage) /\ Len(topic') \in Nat /\ Len(topic) \in Nat
      /\ Len(topic) <= Len(topic')
      /\ \A p, dead : \A i \in 1 .. Len(topic) :
            Settled(i, topic, p, dead) => Settled(i, topic', p, dead)
  BY StoredMaybe DEF TimerEmitFails
<1>3. NoFlush \in Flush /\ Len(NoFlush.batch) = 0
  BY EmptySeq DEF NoFlush, Flush
<1>4. eventBuffer' \in Seq(Nat) /\ \A g \in Flushers : flushes'[g] = NoFlush
  BY <1>1, EmptySeq
<1>5. flushes' \in [Flushers -> Flush]
  BY <1>1, <1>3
<1>6. PipeTypes'
  BY <1>1, <1>2, <1>4, <1>5 DEF PipeInv, PipeTypes
<1>7. SentArrived'
  BY <1>3, <1>4 DEF SentArrived
<1>8. NothingLost' /\ InLine'
  BY <1>1 DEF NothingLost, InLine
<1>9. BehindOffset'
  <2>1. \A i \in 1 .. committed : i \in 1 .. Len(topic)
    BY <1>2 DEF PipeInv, PipeTypes
  <2> QED
    BY <1>1, <1>2, <2>1 DEF PipeInv, BehindOffset
<1> QED
  BY <1>6, <1>7, <1>8, <1>9 DEF PipeInv

LEMMA PipelineInitInv == PipelineInit => PipeInv
<1> SUFFICES ASSUME PipelineInit
             PROVE  PipeInv
  OBVIOUS
<1>1. /\ published = 0 /\ eventBuffer = <<>> /\ topic = <<>>
      /\ flushes = [f \in Flushers |-> NoFlush]
      /\ position = 1 /\ doing = "fetch" /\ committed = 0
      /\ processed = <<>> /\ troubles = {} /\ overlapped = FALSE
  BY DEF PipelineInit
<1>2. /\ NoFlush \in Flush /\ Len(NoFlush.batch) = 0 /\ NoFlush.sent = 0
      /\ eventBuffer \in Seq(Nat) /\ topic \in Seq(TopicMessage) /\ processed \in Seq(Nat)
      /\ Len(eventBuffer) = 0 /\ Len(topic) = 0 /\ Len(processed) = 0
  BY <1>1, EmptySeq DEF NoFlush, Flush
<1>3. flushes \in [Flushers -> Flush] /\ \A f \in Flushers : flushes[f] = NoFlush
  BY <1>1, <1>2
<1>4. PipeTypes
  <2>1. /\ position \in Nat /\ committed \in Nat /\ published \in Nat
        /\ committed < position /\ position <= Len(topic) + 1
        /\ doing \in {"fetch", "handle", "retry", "deadLetter"} /\ doing = "fetch"
        /\ overlapped \in BOOLEAN
    <3>1. position = 1 /\ committed = 0 /\ published = 0 /\ Len(topic) + 1 = 1
      BY <1>1, <1>2
    <3>2. /\ doing \in {"fetch", "handle", "retry", "deadLetter"} /\ doing = "fetch"
          /\ overlapped \in BOOLEAN
      BY <1>1
    <3> QED
      BY <3>1, <3>2
  <2>2. \A f \in Flushers : flushes[f] # NoFlush => flushes[f].sent < Len(flushes[f].batch)
    BY <1>3
  <2> HIDE DEF NoFlush
  <2> QED
    BY <1>2, <1>3, <2>1, <2>2 DEF PipeTypes
<1>5. SentArrived /\ NothingLost /\ BehindOffset
  BY <1>1, <1>2, <1>3 DEF SentArrived, NothingLost, BehindOffset
<1>6. InLine
  <2>1. Line(NoFlush, topic, eventBuffer, published)
    BY <1>1, <1>2 DEF Line
  <2> QED
    BY <1>1, <1>2, <1>3, <2>1 DEF InLine, OneLine
<1> QED
  BY <1>4, <1>5, <1>6 DEF PipeInv

LEMMA PipelineNextInv == PipeInv /\ [PipelineNext]_pipeVars => PipeInv'
<1> SUFFICES ASSUME PipeInv, [PipelineNext]_pipeVars
             PROVE  PipeInv'
  OBVIOUS
<1>1. CASE PublishEvent \/ TimerFlush
  BY <1>1, PublishEventInv, TimerFlushInv
<1>2. CASE \E f \in Flushers : Emit(f) \/ EmitFails(f) \/ TimerEmitFails(f)
  BY <1>2, EmitInv, EmitFailsInv, TimerEmitFailsInv
<1>3. CASE Fetch \/ HandleEvent \/ RetryMessage \/ SendToDeadLetterQueue \/ DeadLetterFails
  BY <1>3, FetchInv, HandleEventInv, RetryMessageInv, DeadLetterInv
<1>4. CASE HandlerFails \/ RetryFails \/ CrashPipeline
  BY <1>4, HandlerFailsInv, CrashPipelineInv
<1>5. CASE UNCHANGED pipeVars
  <2>1. /\ published' = published /\ eventBuffer' = eventBuffer /\ flushes' = flushes
        /\ overlapped' = overlapped /\ topic' = topic /\ position' = position
        /\ doing' = doing /\ committed' = committed /\ processed' = processed
        /\ deadLetters' = deadLetters /\ troubles' = troubles
    BY <1>5 DEF pipeVars, producer, consumer, faultVars
  <2> QED
    BY <2>1 DEF PipeInv, PipeTypes, SentArrived, NothingLost, Kept, BehindOffset, InLine
<1> QED
  BY <1>1, <1>2, <1>3, <1>4, <1>5 DEF PipelineNext

LEMMA VanishesFromInv ==
    ASSUME PipeInv
    PROVE  NoEventVanishes
<1>1. /\ published \in Nat /\ eventBuffer \in Seq(Nat) /\ topic \in Seq(TopicMessage)
      /\ processed \in Seq(Nat) /\ committed \in Nat /\ Len(topic) \in Nat
      /\ \A f \in Flushers : flushes[f].batch \in Seq(Nat)
      /\ committed <= Len(topic)
  BY LenProperties DEF PipeInv, PipeTypes, Flush
<1>2. ASSUME troubles \cap {"crash", "timer"} = {}, NEW e \in 1 .. published
      PROVE  \/ e \in Range(eventBuffer) \cup OnTopic
             \/ \E f \in Flushers : e \in Range(flushes[f].batch)
  <2>1. Kept(e, eventBuffer, topic, flushes)
    BY <1>1, <1>2 DEF PipeInv, NothingLost
  <2>2. CASE \E i \in 1 .. Len(eventBuffer) : eventBuffer[i] = e
    <3>1. DOMAIN eventBuffer = 1 .. Len(eventBuffer)
      BY <1>1, LenProperties
    <3> QED
      BY <2>2, <3>1 DEF Range
  <2>3. CASE Among(e, topic)
    <3>1. DOMAIN topic = 1 .. Len(topic)
      BY <1>1, LenProperties
    <3> QED
      BY <2>3, <3>1 DEF Among, OnTopic
  <2>4. ASSUME NEW f \in Flushers, NEW i \in 1 .. Len(flushes[f].batch),
               flushes[f].batch[i] = e
        PROVE  e \in Range(flushes[f].batch)
    <3>1. DOMAIN flushes[f].batch = 1 .. Len(flushes[f].batch)
      BY <1>1, LenProperties
    <3> QED
      BY <2>4, <3>1 DEF Range
  <2> QED
    BY <2>1, <2>2, <2>3, <2>4 DEF Kept
<1>3. ASSUME troubles \cap {"retry", "deadLetter"} = {}, NEW i \in 1 .. committed
      PROVE  \/ topic[i].event \in Range(processed) \cup deadLetters
             \/ \E j \in i + 1 .. Len(topic) : topic[j] = Retried(topic[i])
  <2>1. Settled(i, topic, processed, deadLetters)
    BY <1>3 DEF PipeInv, BehindOffset
  <2>2. CASE \E n \in 1 .. Len(processed) : processed[n] = topic[i].event
    <3>1. DOMAIN processed = 1 .. Len(processed)
      BY <1>1, LenProperties
    <3> QED
      BY <2>2, <3>1 DEF Range
  <2>3. ASSUME NEW j \in 1 .. Len(topic), i < j, topic[j] = Retried(topic[i])
        PROVE  \E n \in i + 1 .. Len(topic) : topic[n] = Retried(topic[i])
    <3>1. j \in i + 1 .. Len(topic)
      BY <1>1, <2>3
    <3> QED
      BY <2>3, <3>1
  <2> QED
    BY <2>1, <2>2, <2>3 DEF Settled
<1> QED
  BY <1>2, <1>3 DEF NoEventVanishes

LEMMA OrderFromInv ==
    ASSUME PipeInv
    PROVE  HandledInOrder
<1>1. processed \in Seq(Nat) /\ DOMAIN processed = 1 .. Len(processed)
  BY LenProperties DEF PipeInv, PipeTypes
<1> QED
  BY <1>1 DEF HandledInOrder, PipeInv, InLine

\* No event vanishes on its way (NoEventVanishes), for any number of events and
\* of flushes at a time, any size of the buffer and any number of retries:
\* publishEvent, flushEvents with its re-queue, and the consumer's commits.
THEOREM EventsKept == PipelineSpec => []NoEventVanishes
<1> QED
  BY PipelineInitInv, PipelineNextInv, VanishesFromInv, PTL DEF PipelineSpec

\* Where nothing fails and flushes do not overlap, each event is handled once
\* and in the order published (HandledInOrder): buffer, batch and topic are one
\* line that the consumer walks along.
THEOREM EventsInOrder == PipelineSpec => []HandledInOrder
<1> QED
  BY PipelineInitInv, PipelineNextInv, OrderFromInv, PTL DEF PipelineSpec

-----------------------------------------------------------------------------
(* Types of the pipeline and of the transactions                            *)

EventMessage == [event : Events, retry : 0 .. MAX_RETRIES]

TroubleKinds == {"emit", "timer", "handle", "retry", "deadLetter", "crash"}

PipeContents ==
    /\ published \in 0 .. MaxEvents
    /\ eventBuffer \in Seq(Events)
    /\ \A f \in Flushers : flushes[f].batch \in Seq(Events)
    /\ topic \in Seq(EventMessage)
    /\ doing = "retry" => topic[position].retry < MAX_RETRIES
    /\ processed \in Seq(Events) /\ deadLetters \subseteq Events
    /\ troubles \subseteq TroubleKinds /\ troubleCount \in 0 .. MaxTroubles

\* An event that was not sent yet waits in one place: in the buffer b or in the
\* batch of one of the flushes fs.
WaitsOnce(b, fs, pub) ==
    /\ \A i \in 1 .. Len(b) : b[i] <= pub
    /\ \A i, j \in 1 .. Len(b) : b[i] = b[j] => i = j
    /\ \A f \in Flushers : \A i \in 1 .. Len(fs[f].batch) :
         /\ fs[f].batch[i] <= pub
         /\ \A j \in 1 .. Len(fs[f].batch) : fs[f].batch[i] = fs[f].batch[j] => i = j
         /\ \A j \in 1 .. Len(b) : fs[f].batch[i] # b[j]
         /\ \A g \in Flushers : f # g =>
              \A j \in 1 .. Len(fs[g].batch) : fs[f].batch[i] # fs[g].batch[j]

LEMMA AppendWaits ==
    ASSUME NEW b \in Seq(Nat), NEW fs \in [Flushers -> Flush], NEW pub \in Nat,
           WaitsOnce(b, fs, pub)
    PROVE  WaitsOnce(Append(b, pub + 1), fs, pub + 1)
<1> DEFINE c == Append(b, pub + 1)
<1>1. /\ Len(b) \in Nat /\ Len(c) = Len(b) + 1
      /\ \A i \in 1 .. Len(b) : c[i] = b[i] /\ b[i] \in Nat
      /\ c[Len(b) + 1] = pub + 1
  BY AppendProperties, LenProperties
<1>2. \A f \in Flushers : \A i \in 1 .. Len(fs[f].batch) : fs[f].batch[i] \in Nat
  BY DEF Flush
<1> HIDE DEF c
<1>3. \A i \in 1 .. Len(c) : i = Len(b) + 1 \/ i \in 1 .. Len(b)
  BY <1>1
<1>4. \A i \in 1 .. Len(b) : c[i] <= pub
  BY <1>1 DEF WaitsOnce
<1>8. \A i \in 1 .. Len(c) : c[i] <= pub + 1
  BY <1>1, <1>3, <1>4
<1>9. ASSUME NEW i \in 1 .. Len(c), NEW j \in 1 .. Len(c), c[i] = c[j]
      PROVE  i = j
  <2>1. CASE i \in 1 .. Len(b) /\ j \in 1 .. Len(b)
    <3>1. b[i] = b[j]
      BY <1>1, <1>9, <2>1
    <3> QED
      BY <2>1, <3>1 DEF WaitsOnce
  <2>2. CASE i \notin 1 .. Len(b) \/ j \notin 1 .. Len(b)
    <3>1. \A k \in 1 .. Len(b) : c[k] # pub + 1
      BY <1>1, <1>4
    <3> QED
      BY <1>1, <1>3, <1>9, <2>2, <3>1
  <2> QED
    BY <2>1, <2>2
<1>5. /\ \A i \in 1 .. Len(c) : c[i] <= pub + 1
      /\ \A i, j \in 1 .. Len(c) : c[i] = c[j] => i = j
  BY <1>8, <1>9
<1>6. ASSUME NEW f \in Flushers, NEW i \in 1 .. Len(fs[f].batch)
      PROVE  /\ fs[f].batch[i] <= pub + 1
             /\ \A j \in 1 .. Len(c) : fs[f].batch[i] # c[j]
  <2>1. fs[f].batch[i] <= pub /\ fs[f].batch[i] \in Nat
    BY <1>2 DEF WaitsOnce
  <2>2. \A j \in 1 .. Len(b) : fs[f].batch[i] # b[j]
    BY DEF WaitsOnce
  <2>3. fs[f].batch[i] # pub + 1 /\ fs[f].batch[i] <= pub + 1
    BY <2>1
  <2>4. ASSUME NEW j \in 1 .. Len(c)
        PROVE  fs[f].batch[i] # c[j]
    <3>1. CASE j = Len(b) + 1
      BY <1>1, <2>3, <3>1
    <3>2. CASE j \in 1 .. Len(b)
      BY <1>1, <2>2, <3>2
    <3> QED
      BY <1>3, <3>1, <3>2
  <2> QED
    BY <2>3, <2>4
<1>7. WaitsOnce(c, fs, pub + 1)
  BY <1>5, <1>6 DEF WaitsOnce
<1> QED
  BY <1>7 DEF c

LEMMA FlushWaits ==
    ASSUME NEW b, NEW c, NEW fs, NEW gs, NEW pub, WaitsOnce(b, fs, pub), NEW f \in Flushers,
           Len(c) = 0, Len(fs[f].batch) = 0, gs[f].batch = b,
           \A g \in Flushers : g # f => gs[g] = fs[g]
    PROVE  WaitsOnce(c, gs, pub)
<1>1. \A i \in 1 .. Len(c) : FALSE
  OBVIOUS
<1>2. ASSUME NEW g \in Flushers, NEW i \in 1 .. Len(gs[g].batch)
      PROVE  /\ gs[g].batch[i] <= pub
             /\ \A j \in 1 .. Len(gs[g].batch) : gs[g].batch[i] = gs[g].batch[j] => i = j
             /\ \A h \in Flushers : g # h =>
                  \A j \in 1 .. Len(gs[h].batch) : gs[g].batch[i] # gs[h].batch[j]
  <2>1. CASE g = f
    BY <2>1 DEF WaitsOnce
  <2>2. CASE g # f
    <3>1. gs[g] = fs[g] /\ i \in 1 .. Len(fs[g].batch)
      BY <2>2
    <3>2. \A j \in 1 .. Len(b) : fs[g].batch[i] # b[j]
      BY <3>1 DEF WaitsOnce
    <3>3. ASSUME NEW h \in Flushers, g # h, NEW j \in 1 .. Len(gs[h].batch)
          PROVE  fs[g].batch[i] # gs[h].batch[j]
      <4>1. CASE h = f
        BY <3>2, <3>3, <4>1
      <4>2. CASE h # f
        <5>1. gs[h] = fs[h] /\ j \in 1 .. Len(fs[h].batch)
          BY <3>3, <4>2
        <5> QED
          BY <3>1, <3>3, <5>1 DEF WaitsOnce
      <4> QED
        BY <4>1, <4>2
    <3> QED
      BY <3>1, <3>3 DEF WaitsOnce
  <2> QED
    BY <2>1, <2>2
<1> QED
  BY <1>1, <1>2 DEF WaitsOnce

LEMMA RequeueWaits ==
    ASSUME NEW b \in Seq(Nat), NEW fs \in [Flushers -> Flush], NEW gs, NEW pub,
           WaitsOnce(b, fs, pub), NEW f \in Flushers,
           Len(gs[f].batch) = 0, \A g \in Flushers : g # f => gs[g] = fs[g]
    PROVE  WaitsOnce(fs[f].batch \o b, gs, pub)
<1> DEFINE a == fs[f].batch
           c == a \o b
<1>1. a \in Seq(Nat)
  BY DEF Flush
<1>2. /\ Len(a) \in Nat /\ Len(b) \in Nat /\ Len(c) = Len(a) + Len(b)
      /\ \A i \in 1 .. Len(a) + Len(b) : c[i] = IF i <= Len(a) THEN a[i] ELSE b[i - Len(a)]
  BY <1>1, ConcatProperties, LenProperties
<1>3. /\ \A i \in 1 .. Len(a) : a[i] <= pub
      /\ \A i, j \in 1 .. Len(a) : a[i] = a[j] => i = j
      /\ \A i \in 1 .. Len(a) : \A j \in 1 .. Len(b) : a[i] # b[j]
      /\ \A i \in 1 .. Len(b) : b[i] <= pub
      /\ \A i, j \in 1 .. Len(b) : b[i] = b[j] => i = j
  BY DEF WaitsOnce
<1>4. ASSUME NEW g \in Flushers, g # f, NEW i \in 1 .. Len(fs[g].batch)
      PROVE  /\ \A j \in 1 .. Len(a) : fs[g].batch[i] # a[j]
             /\ \A j \in 1 .. Len(b) : fs[g].batch[i] # b[j]
  BY <1>4 DEF WaitsOnce
<1> HIDE DEF a, c
<1>5. \A i \in 1 .. Len(c) : \/ i \in 1 .. Len(a) /\ c[i] = a[i]
                             \/ /\ i - Len(a) \in 1 .. Len(b) /\ ~(i <= Len(a))
                                /\ c[i] = b[i - Len(a)]
  <2> TAKE i \in 1 .. Len(c)
  <2>1. CASE i <= Len(a)
    BY <1>2, <2>1
  <2>2. CASE ~(i <= Len(a))
    BY <1>2, <2>2
  <2> QED
    BY <2>1, <2>2
<1>6. \A i \in 1 .. Len(c) : c[i] <= pub
  BY <1>3, <1>5
<1>7. ASSUME NEW i \in 1 .. Len(c), NEW j \in 1 .. Len(c), c[i] = c[j]
      PROVE  i = j
  <2>1. i \in Int /\ j \in Int /\ Len(a) \in Int
    BY <1>2
  <2>2. CASE i \in 1 .. Len(a) /\ c[i] = a[i]
    <3>1. CASE j \in 1 .. Len(a) /\ c[j] = a[j]
      BY <1>3, <1>7, <2>2, <3>1
    <3>2. CASE j - Len(a) \in 1 .. Len(b) /\ c[j] = b[j - Len(a)]
      <4>1. a[i] = b[j - Len(a)]
        BY <1>7, <2>2, <3>2
      <4> QED
        BY <1>3, <2>2, <3>2, <4>1
    <3> QED
      BY <1>5, <3>1, <3>2
  <2>3. CASE i - Len(a) \in 1 .. Len(b) /\ c[i] = b[i - Len(a)]
    <3>1. CASE j \in 1 .. Len(a) /\ c[j] = a[j]
      <4>1. a[j] = b[i - Len(a)]
        BY <1>7, <2>3, <3>1
      <4> QED
        BY <1>3, <2>3, <3>1, <4>1
    <3>2. CASE j - Len(a) \in 1 .. Len(b) /\ c[j] = b[j - Len(a)]
      <4>1. b[i - Len(a)] = b[j - Len(a)]
        BY <1>7, <2>3, <3>2
      <4>2. i - Len(a) = j - Len(a)
        BY <1>3, <2>3, <3>2, <4>1
      <4> QED
        BY <2>1, <4>2
    <3> QED
      BY <1>5, <3>1, <3>2
  <2> QED
    BY <1>5, <2>2, <2>3
<1>8. ASSUME NEW g \in Flushers, NEW i \in 1 .. Len(gs[g].batch)
      PROVE  /\ gs[g].batch[i] <= pub
             /\ \A j \in 1 .. Len(gs[g].batch) : gs[g].batch[i] = gs[g].batch[j] => i = j
             /\ \A j \in 1 .. Len(c) : gs[g].batch[i] # c[j]
             /\ \A h \in Flushers : g # h =>
                  \A j \in 1 .. Len(gs[h].batch) : gs[g].batch[i] # gs[h].batch[j]
  <2>1. g # f /\ gs[g] = fs[g]
    <3>1. g # f
      BY <1>8
    <3> QED
      BY <3>1
  <2>4. i \in 1 .. Len(fs[g].batch)
    BY <2>1
  <2>5. /\ \A j \in 1 .. Len(a) : fs[g].batch[i] # a[j]
        /\ \A j \in 1 .. Len(b) : fs[g].batch[i] # b[j]
    BY <1>4, <2>1, <2>4
  <2>2. \A j \in 1 .. Len(c) : fs[g].batch[i] # c[j]
    BY <1>5, <2>5
  <2>3. ASSUME NEW h \in Flushers, g # h, NEW j \in 1 .. Len(gs[h].batch)
        PROVE  gs[g].batch[i] # gs[h].batch[j]
    <3>1. h # f /\ gs[h] = fs[h]
      <4>1. h # f
        BY <2>3
      <4> QED
        BY <4>1
    <3>2. j \in 1 .. Len(fs[h].batch)
      BY <2>3, <3>1
    <3>3. fs[g].batch[i] # fs[h].batch[j]
      BY <2>3, <2>4, <3>2 DEF WaitsOnce
    <3> QED
      BY <2>1, <3>1, <3>3
  <2> QED
    BY <2>1, <2>2, <2>3 DEF WaitsOnce
<1>9. WaitsOnce(c, gs, pub)
  BY <1>6, <1>7, <1>8 DEF WaitsOnce
<1> QED
  BY <1>9 DEF a, c

LEMMA LessWaits ==
    ASSUME NEW b, NEW fs, NEW gs, NEW pub, WaitsOnce(b, fs, pub),
           \A g \in Flushers : gs[g].batch = fs[g].batch \/ Len(gs[g].batch) = 0
    PROVE  WaitsOnce(b, gs, pub)
<1>1. ASSUME NEW g \in Flushers, NEW i \in 1 .. Len(gs[g].batch)
      PROVE  gs[g].batch = fs[g].batch /\ i \in 1 .. Len(fs[g].batch)
  <2>1. Len(gs[g].batch) # 0
    BY <1>1
  <2> QED
    BY <1>1, <2>1
<1>2. ASSUME NEW g \in Flushers, NEW i \in 1 .. Len(gs[g].batch),
             NEW h \in Flushers, g # h, NEW j \in 1 .. Len(gs[h].batch)
      PROVE  gs[g].batch[i] # gs[h].batch[j]
  <2>1. /\ gs[g].batch = fs[g].batch /\ i \in 1 .. Len(fs[g].batch)
        /\ gs[h].batch = fs[h].batch /\ j \in 1 .. Len(fs[h].batch)
    BY <1>1, <1>2
  <2> QED
    BY <1>2, <2>1 DEF WaitsOnce
<1>3. ASSUME NEW g \in Flushers, NEW i \in 1 .. Len(gs[g].batch)
      PROVE  /\ gs[g].batch[i] <= pub
             /\ \A j \in 1 .. Len(gs[g].batch) : gs[g].batch[i] = gs[g].batch[j] => i = j
             /\ \A j \in 1 .. Len(b) : gs[g].batch[i] # b[j]
  <2>1. gs[g].batch = fs[g].batch /\ i \in 1 .. Len(fs[g].batch)
    BY <1>1, <1>3
  <2> QED
    BY <2>1 DEF WaitsOnce
<1> QED
  BY <1>2, <1>3 DEF WaitsOnce

\* So the buffer holds no more events than there are.
LEMMA BufferBounded ==
    ASSUME NEW b \in Seq(Nat), NEW fs, NEW pub \in Nat, WaitsOnce(b, fs, pub),
           \A i \in 1 .. Len(b) : b[i] >= 1
    PROVE  Len(b) <= pub
<1>1. Len(b) \in Nat /\ DOMAIN b = 1 .. Len(b) /\ \A i \in 1 .. Len(b) : b[i] \in Nat
  BY LenProperties
<1>2. b \in [1 .. Len(b) -> 1 .. pub]
  <2>1. \A i \in 1 .. Len(b) : b[i] \in 1 .. pub
    BY <1>1 DEF WaitsOnce
  <2>2. b \in [1 .. Len(b) -> Nat]
    BY LenProperties
  <2> QED
    BY <2>1, <2>2
<1>3. b \in Injection(1 .. Len(b), 1 .. pub)
  BY <1>2 DEF WaitsOnce, Injection, IsInjective
<1>4. Cardinality(1 .. Len(b)) <= Cardinality(1 .. pub)
  BY <1>3, FS_Injection, FS_Interval
<1>5. ASSUME NEW n \in Nat
      PROVE  Cardinality(1 .. n) = n
  <2>1. 1 \in Int /\ n \in Int
    OBVIOUS
  <2>2. Cardinality(1 .. n) = IF 1 > n THEN 0 ELSE n - 1 + 1
    BY <2>1, FS_Interval
  <2> QED
    BY <2>2
<1>6. Cardinality(1 .. Len(b)) = Len(b) /\ Cardinality(1 .. pub) = pub
  BY <1>1, <1>5
<1> QED
  BY <1>4, <1>6

Waits == WaitsOnce(eventBuffer, flushes, published)

LEMMA EventsAreNumbers ==
    /\ \A e \in Events : e \in Nat /\ 1 <= e /\ e <= MaxEvents
    /\ \A b \in Seq(Events) : b \in Seq(Nat) /\ \A i \in 1 .. Len(b) : b[i] \in Events
<1>1. \A e \in Events : e \in Nat /\ 1 <= e /\ e <= MaxEvents
  BY PipelineAssumption DEF Events
<1>2. ASSUME NEW b \in Seq(Events)
      PROVE  b \in Seq(Nat) /\ \A i \in 1 .. Len(b) : b[i] \in Events
  <2>1. Len(b) \in Nat /\ b \in [1 .. Len(b) -> Events]
    BY LenProperties
  <2>2. \A i \in 1 .. Len(b) : b[i] \in Events /\ b[i] \in Nat
    BY <1>1, <2>1
  <2>3. b \in [1 .. Len(b) -> Nat]
    BY <2>1, <2>2
  <2>4. b \in Seq(Nat)
    BY <2>1, <2>3, SeqDef
  <2> QED
    BY <2>2, <2>4
<1> QED
  BY <1>1, <1>2

\* The buffer becomes b, and stays or is flushed.
LEMMA BufferContents ==
    ASSUME PipeInv, PipeContents, NEW b \in Seq(Events), published' \in 0 .. MaxEvents,
           WaitsOnce(b, flushes, published'),
           UNCHANGED <<topic, consumer, faultVars>>,
           \/ (\E by \in {"request", "timer"} : FlushEvents(b, by)) /\ b # <<>>
           \/ eventBuffer' = b /\ flushes' = flushes
    PROVE  PipeContents' /\ Waits'
<1>1. /\ topic' = topic /\ position' = position /\ doing' = doing /\ processed' = processed
      /\ deadLetters' = deadLetters /\ troubles' = troubles /\ troubleCount' = troubleCount
  BY DEF consumer, faultVars
<1>2. ASSUME eventBuffer' \in Seq(Events),
             \A f \in Flushers : flushes'[f].batch \in Seq(Events)
      PROVE  PipeContents'
  BY <1>1, <1>2 DEF PipeContents
<1>3. CASE eventBuffer' = b /\ flushes' = flushes
  <2>1. PipeContents'
    BY <1>2, <1>3 DEF PipeContents
  <2> QED
    BY <1>3, <2>1 DEF Waits
<1>4. CASE (\E by \in {"request", "timer"} : FlushEvents(b, by)) /\ b # <<>>
  <2>1. b \in Seq(Nat) /\ PipeTypes
    BY EventsAreNumbers DEF PipeInv
  <2>2. PICK f \in Flushers : \E fl \in Flush :
              /\ flushes[f] = NoFlush /\ fl # NoFlush
              /\ fl.batch = b /\ fl.sent = 0 /\ 0 < Len(b)
              /\ flushes' \in [Flushers -> Flush]
              /\ \A g \in Flushers : flushes'[g] = IF g = f THEN fl ELSE flushes[g]
    BY <1>4, <2>1, FlushStarts
  <2>3. /\ flushes[f] = NoFlush /\ flushes'[f].batch = b
        /\ \A g \in Flushers : g # f => flushes'[g] = flushes[g]
    BY <2>2
  <2>4. eventBuffer' = <<>> /\ Len(eventBuffer') = 0 /\ eventBuffer' \in Seq(Events)
    BY <1>4, EmptySeq DEF FlushEvents
  <2>5. \A g \in Flushers : flushes'[g].batch \in Seq(Events)
    BY <2>3 DEF PipeContents
  <2>6. Len(flushes[f].batch) = 0
    BY <2>3, EmptySeq DEF NoFlush
  <2>7. Waits'
    BY <2>3, <2>4, <2>6, FlushWaits DEF Waits
  <2> QED
    BY <1>2, <2>4, <2>5, <2>7
<1> QED
  BY <1>3, <1>4

LEMMA PublishContents ==
    PipeInv /\ PipeContents /\ Waits /\ (PublishEvent \/ TimerFlush) => PipeContents' /\ Waits'
<1> SUFFICES ASSUME PipeInv, PipeContents, Waits, PublishEvent \/ TimerFlush
             PROVE  PipeContents' /\ Waits'
  OBVIOUS
<1>1. /\ eventBuffer \in Seq(Events) /\ published \in 0 .. MaxEvents
      /\ flushes \in [Flushers -> Flush] /\ published \in Nat
  BY DEF PipeContents, PipeInv, PipeTypes
<1>2. eventBuffer \in Seq(Nat)
  BY <1>1, EventsAreNumbers
<1>3. CASE PublishEvent
  <2> DEFINE b == Buffered(published + 1)
  <2>1. published' = published + 1 /\ published < MaxEvents
    BY <1>3 DEF PublishEvent
  <2>2. published + 1 \in Events /\ published' \in 0 .. MaxEvents
    BY <1>1, <2>1, PipelineAssumption DEF Events
  <2>3. b = Append(eventBuffer, published + 1)
    BY DEF Buffered
  <2>4. b \in Seq(Events) /\ Len(b) = Len(eventBuffer) + 1 /\ Len(eventBuffer) \in Nat
    BY <1>1, <2>2, <2>3, AppendProperties, LenProperties
  <2>5. WaitsOnce(b, flushes, published')
    BY <1>1, <1>2, <2>1, <2>3, AppendWaits DEF Waits
  <2>6. \/ FlushEvents(b, "request")
        \/ eventBuffer' = b /\ flushes' = flushes
    BY <1>3 DEF PublishEvent
  <2>7. UNCHANGED <<topic, consumer, faultVars>>
    BY <1>3 DEF PublishEvent
  <2> HIDE DEF b
  <2>8. b # <<>>
    BY <2>4, EmptySeq
  <2> QED
    BY <2>2, <2>4, <2>5, <2>6, <2>7, <2>8, BufferContents
<1>4. CASE TimerFlush
  <2>1. /\ published' = published /\ eventBuffer # <<>>
        /\ \E by \in {"request", "timer"} : FlushEvents(eventBuffer, by)
        /\ UNCHANGED <<topic, consumer, faultVars>>
    BY <1>4 DEF TimerFlush
  <2>2. WaitsOnce(eventBuffer, flushes, published') /\ published' \in 0 .. MaxEvents
    BY <1>1, <2>1 DEF Waits
  <2> QED
    BY <1>1, <2>1, <2>2, BufferContents
<1> QED
  BY <1>3, <1>4

\* What a flush sends is an event; what is put on the topic is a message.
LEMMA SendsEvent ==
    ASSUME PipeInv, PipeContents, NEW f \in Flushers, f \in Flushing
    PROVE  /\ Message(NextToSend(f), 0) \in EventMessage
           /\ flushes[f].batch \in Seq(Events) /\ flushes[f] \in Flush
<1>1. /\ flushes[f] \in Flush /\ flushes[f].batch \in Seq(Events)
      /\ flushes[f].sent < Len(flushes[f].batch) /\ flushes[f].sent \in Nat
  BY DEF PipeInv, PipeTypes, PipeContents, Flushing, Flush
<1>2. Len(flushes[f].batch) \in Nat
  BY <1>1, LenProperties
<1>3. flushes[f].sent + 1 \in 1 .. Len(flushes[f].batch)
  BY <1>1, <1>2
<1>4. NextToSend(f) \in Events
  BY <1>1, <1>3, EventsAreNumbers DEF NextToSend
<1>5. 0 \in 0 .. MAX_RETRIES
  BY PipelineAssumption
<1> QED
  BY <1>1, <1>4, <1>5 DEF Message, EventMessage

LEMMA TopicContents ==
    ASSUME PipeInv, PipeContents, NEW x \in EventMessage
    PROVE  /\ Append(topic, x) \in Seq(EventMessage)
           /\ \A i \in 1 .. Len(topic) : Append(topic, x)[i] = topic[i]
           /\ doing = "retry" => Append(topic, x)[position].retry < MAX_RETRIES
<1>1. topic \in Seq(EventMessage)
  BY DEF PipeContents
<1>2. /\ Append(topic, x) \in Seq(EventMessage)
      /\ \A i \in 1 .. Len(topic) : Append(topic, x)[i] = topic[i]
  BY <1>1, AppendProperties
<1>3. doing = "retry" => position \in 1 .. Len(topic)
  BY CurrentMessage
<1> QED
  BY <1>2, <1>3 DEF PipeContents

LEMMA NothingSentYet ==
    /\ NoFlush.batch \in Seq(Events) /\ Len(NoFlush.batch) = 0
BY EmptySeq DEF NoFlush

LEMMA EmitContents ==
    ASSUME PipeInv, PipeContents, Waits, NEW f \in Flushers, Emit(f)
    PROVE  PipeContents' /\ Waits'
<1> DEFINE x == Message(NextToSend(f), 0)
<1>1. x \in EventMessage /\ flushes[f].batch \in Seq(Events) /\ flushes[f] \in Flush
  BY SendsEvent DEF Emit
<1>2. /\ topic' = Append(topic, x) /\ flushes' = [flushes EXCEPT ![f] = Sent(flushes[f])]
      /\ published' = published /\ eventBuffer' = eventBuffer /\ position' = position
      /\ doing' = doing /\ processed' = processed /\ deadLetters' = deadLetters
      /\ troubles' = troubles /\ troubleCount' = troubleCount
  BY DEF Emit, consumer, faultVars
<1>3. Sent(flushes[f]).batch = flushes[f].batch \/ Sent(flushes[f]) = NoFlush
  BY <1>1 DEF Sent, Flush
<1>4. \A g \in Flushers : flushes'[g] = IF g = f THEN Sent(flushes[f]) ELSE flushes[g]
  BY <1>2 DEF PipeInv, PipeTypes
<1>5. \A g \in Flushers : /\ flushes'[g].batch = flushes[g].batch \/ Len(flushes'[g].batch) = 0
                          /\ flushes'[g].batch \in Seq(Events)
  BY <1>3, <1>4, NothingSentYet DEF PipeContents
<1>6. Waits'
  BY <1>2, <1>5, LessWaits DEF Waits
<1> HIDE DEF x
<1>7. topic' \in Seq(EventMessage) /\ (doing' = "retry" => topic'[position'].retry < MAX_RETRIES)
  BY <1>1, <1>2, TopicContents
<1>8. PipeContents'
  BY <1>2, <1>5, <1>7 DEF PipeContents
<1> QED
  BY <1>6, <1>8

\* One fault more.
LEMMA TroubleContents ==
    ASSUME PipeContents, NEW kind \in TroubleKinds, Trouble(kind)
    PROVE  troubles' \subseteq TroubleKinds /\ troubleCount' \in 0 .. MaxTroubles
BY PipelineAssumption DEF PipeContents, Trouble

LEMMA EmitFailsContents ==
    ASSUME PipeInv, PipeContents, Waits, NEW f \in Flushers, EmitFails(f)
    PROVE  PipeContents' /\ Waits'
<1> DEFINE x == Message(NextToSend(f), 0)
           b == flushes[f].batch \o eventBuffer
<1>1. x \in EventMessage /\ flushes[f].batch \in Seq(Events) /\ flushes[f] \in Flush
  BY SendsEvent DEF EmitFails
<1>2. /\ topic' = topic \/ topic' = Append(topic, x)
      /\ flushes' = [flushes EXCEPT ![f] = NoFlush] /\ eventBuffer' = b
      /\ published' = published /\ position' = position
      /\ doing' = doing /\ processed' = processed /\ deadLetters' = deadLetters
  BY DEF EmitFails, MaybeStored, consumer, Requeue
<1>3. /\ eventBuffer \in Seq(Events) /\ eventBuffer \in Seq(Nat)
      /\ flushes \in [Flushers -> Flush]
  BY EventsAreNumbers DEF PipeContents, PipeInv, PipeTypes
<1>4. b \in Seq(Events)
  BY <1>1, <1>3, ConcatProperties
<1>5. \A g \in Flushers : flushes'[g] = IF g = f THEN NoFlush ELSE flushes[g]
  BY <1>2, <1>3
<1>6. /\ Len(flushes'[f].batch) = 0 /\ \A g \in Flushers : g # f => flushes'[g] = flushes[g]
      /\ \A g \in Flushers : flushes'[g].batch \in Seq(Events)
  BY <1>5, NothingSentYet DEF PipeContents
<1>7. Waits'
  BY <1>2, <1>3, <1>6, RequeueWaits DEF Waits
<1> HIDE DEF x, b
<1>8. topic' \in Seq(EventMessage) /\ (doing' = "retry" => topic'[position'].retry < MAX_RETRIES)
  BY <1>1, <1>2, TopicContents DEF PipeContents
<1>9. troubles' \subseteq TroubleKinds /\ troubleCount' \in 0 .. MaxTroubles
  BY TroubleContents DEF EmitFails, TroubleKinds
<1>10. PipeContents'
  BY <1>2, <1>4, <1>6, <1>8, <1>9 DEF PipeContents
<1> QED
  BY <1>7, <1>10

\* The message of the consumer.
LEMMA CurrentContents ==
    ASSUME PipeInv, PipeContents, doing # "fetch"
    PROVE  /\ Current \in EventMessage /\ Current.event \in Events
           /\ Current = topic[position]
           /\ doing = "retry" => Current.retry < MAX_RETRIES
<1>1. topic \in Seq(EventMessage) /\ position \in 1 .. Len(topic) /\ Current = topic[position]
  BY CurrentMessage DEF PipeContents
<1>2. Current \in EventMessage
  BY <1>1, ElementOfSeq
<1> QED
  BY <1>1, <1>2 DEF EventMessage, PipeContents

LEMMA ConsumerContents ==
    PipeInv /\ PipeContents /\ Waits
      /\ (Fetch \/ HandleEvent \/ RetryMessage \/ SendToDeadLetterQueue
           \/ HandlerFails \/ RetryFails \/ DeadLetterFails)
      => PipeContents' /\ Waits'
<1> SUFFICES ASSUME PipeInv, PipeContents, Waits,
                    Fetch \/ HandleEvent \/ RetryMessage \/ SendToDeadLetterQueue
                      \/ HandlerFails \/ RetryFails \/ DeadLetterFails
             PROVE  PipeContents' /\ Waits'
  OBVIOUS
<1>1. published' = published /\ eventBuffer' = eventBuffer /\ flushes' = flushes
  BY DEF Fetch, HandleEvent, RetryMessage, SendToDeadLetterQueue, HandlerFails,
         RetryFails, DeadLetterFails, producer
<1>2. Waits'
  BY <1>1 DEF Waits
<1>3. ASSUME topic' \in Seq(EventMessage),
             doing' = "retry" => topic'[position'].retry < MAX_RETRIES,
             processed' \in Seq(Events), deadLetters' \subseteq Events,
             troubles' \subseteq TroubleKinds, troubleCount' \in 0 .. MaxTroubles
      PROVE  PipeContents'
  BY <1>1, <1>3 DEF PipeContents
<1>4. CASE Fetch
  <2>1. /\ topic' = topic /\ doing' = "handle" /\ processed' = processed
        /\ deadLetters' = deadLetters /\ troubles' = troubles /\ troubleCount' = troubleCount
    BY <1>4 DEF Fetch, faultVars
  <2> QED
    BY <1>2, <1>3, <2>1 DEF PipeContents
<1>5. CASE HandleEvent
  <2>1. /\ topic' = topic /\ doing' = "fetch" /\ processed' = Append(processed, Current.event)
        /\ deadLetters' = deadLetters /\ troubles' = troubles /\ troubleCount' = troubleCount
        /\ doing # "fetch"
    BY <1>5 DEF HandleEvent, CommitOffsets, faultVars
  <2>2. processed' \in Seq(Events)
    BY <2>1, CurrentContents, AppendProperties DEF PipeContents
  <2> QED
    BY <1>2, <1>3, <2>1, <2>2 DEF PipeContents
<1>6. CASE RetryMessage
  <2>1. /\ topic' = Append(topic, Retried(Current)) /\ doing' = "fetch"
        /\ processed' = processed /\ deadLetters' = deadLetters
        /\ troubles' = troubles /\ troubleCount' = troubleCount /\ doing = "retry"
    BY <1>6 DEF RetryMessage, CommitOffsets, faultVars
  <2>2. Retried(Current) \in EventMessage
    <3>1. Current \in EventMessage /\ Current.retry < MAX_RETRIES
      BY <2>1, CurrentContents
    <3> QED
      BY <3>1, PipelineAssumption DEF Retried, Message, EventMessage
  <2>3. topic' \in Seq(EventMessage)
    BY <2>1, <2>2, TopicContents
  <2> QED
    BY <1>2, <1>3, <2>1, <2>3 DEF PipeContents
<1>7. CASE SendToDeadLetterQueue \/ DeadLetterFails
  <2>1. /\ topic' = topic /\ doing' = "fetch" /\ processed' = processed /\ doing # "fetch"
        /\ deadLetters' \subseteq deadLetters \cup {Current.event}
        /\ \/ troubles' = troubles /\ troubleCount' = troubleCount
           \/ Trouble("deadLetter")
    BY <1>7 DEF SendToDeadLetterQueue, DeadLetterFails, CommitOffsets, faultVars
  <2>2. deadLetters' \subseteq Events
    BY <2>1, CurrentContents DEF PipeContents
  <2>3. troubles' \subseteq TroubleKinds /\ troubleCount' \in 0 .. MaxTroubles
    BY <2>1, TroubleContents DEF TroubleKinds, PipeContents
  <2> QED
    BY <1>2, <1>3, <2>1, <2>2, <2>3 DEF PipeContents
<1>8. CASE HandlerFails
  <2>1. /\ topic' = topic /\ doing' = AfterFailure /\ position' = position
        /\ processed' = processed /\ deadLetters' = deadLetters /\ doing # "fetch"
        /\ Trouble("handle")
    BY <1>8 DEF HandlerFails
  <2>2. doing' = "retry" => Current.retry < MAX_RETRIES
    BY <2>1 DEF AfterFailure
  <2>3. doing' = "retry" => topic'[position'].retry < MAX_RETRIES
    BY <2>1, <2>2, CurrentContents
  <2>4. troubles' \subseteq TroubleKinds /\ troubleCount' \in 0 .. MaxTroubles
    BY <2>1, TroubleContents DEF TroubleKinds
  <2> QED
    BY <1>2, <1>3, <2>1, <2>3, <2>4 DEF PipeContents
<1>9. CASE RetryFails
  <2>1. /\ topic' = topic /\ doing' = "fetch" /\ processed' = processed
        /\ deadLetters' = deadLetters /\ Trouble("retry")
    BY <1>9 DEF RetryFails
  <2>2. troubles' \subseteq TroubleKinds /\ troubleCount' \in 0 .. MaxTroubles
    BY <2>1, TroubleContents DEF TroubleKinds
  <2> QED
    BY <1>2, <1>3, <2>1, <2>2 DEF PipeContents
<1> QED
  BY <1>4, <1>5, <1>6, <1>7, <1>8, <1>9

LEMMA CrashContents ==
    PipeInv /\ PipeContents /\ CrashPipeline => PipeContents' /\ Waits'
<1> SUFFICES ASSUME PipeInv, PipeContents, CrashPipeline
             PROVE  PipeContents' /\ Waits'
  OBVIOUS
<1>1. /\ eventBuffer' = <<>> /\ flushes' = [f \in Flushers |-> NoFlush]
      /\ doing' = "fetch" /\ published' = published /\ topic' = topic
      /\ processed' = processed /\ deadLetters' = deadLetters /\ Trouble("crash")
  BY DEF CrashPipeline, Stops
<1>2. /\ eventBuffer' \in Seq(Events) /\ Len(eventBuffer') = 0
      /\ \A f \in Flushers : /\ flushes'[f].batch \in Seq(Events)
                             /\ Len(flushes'[f].batch) = 0
  BY <1>1, EmptySeq, NothingSentYet
<1>3. troubles' \subseteq TroubleKinds /\ troubleCount' \in 0 .. MaxTroubles
  BY <1>1, TroubleContents DEF TroubleKinds
<1>4. PipeContents'
  BY <1>1, <1>2, <1>3 DEF PipeContents
<1>5. Waits'
  BY <1>2 DEF Waits, WaitsOnce
<1> QED
  BY <1>4, <1>5

LEMMA TimerEmitFailsContents ==
    ASSUME PipeInv, PipeContents, NEW f \in Flushers, TimerEmitFails(f)
    PROVE  PipeContents' /\ Waits'
<1> DEFINE x == Message(NextToSend(f), 0)
<1>1. /\ eventBuffer' = <<>> /\ flushes' = [g \in Flushers |-> NoFlush]
      /\ doing' = "fetch" /\ published' = published
      /\ processed' = processed /\ deadLetters' = deadLetters /\ Trouble("timer")
      /\ topic' = topic \/ topic' = Append(topic, x)
  BY DEF TimerEmitFails, Stops, MaybeStored
<1>2. /\ eventBuffer' \in Seq(Events) /\ Len(eventBuffer') = 0
      /\ \A g \in Flushers : /\ flushes'[g].batch \in Seq(Events)
                             /\ Len(flushes'[g].batch) = 0
  BY <1>1, EmptySeq, NothingSentYet
<1>3. troubles' \subseteq TroubleKinds /\ troubleCount' \in 0 .. MaxTroubles
  BY <1>1, TroubleContents DEF TroubleKinds
<1>4. x \in EventMessage
  BY SendsEvent DEF TimerEmitFails
<1> HIDE DEF x
<1>5. topic' \in Seq(EventMessage)
  BY <1>1, <1>4, TopicContents DEF PipeContents
<1>6. PipeContents'
  BY <1>1, <1>2, <1>3, <1>5 DEF PipeContents
<1>7. Waits'
  BY <1>2 DEF Waits, WaitsOnce
<1> QED
  BY <1>6, <1>7

LEMMA PipelineInitContents == PipelineInit => PipeContents /\ Waits
<1> SUFFICES ASSUME PipelineInit
             PROVE  PipeContents /\ Waits
  OBVIOUS
<1>1. /\ published = 0 /\ eventBuffer = <<>> /\ topic = <<>>
      /\ flushes = [f \in Flushers |-> NoFlush] /\ doing = "fetch"
      /\ processed = <<>> /\ deadLetters = {} /\ troubles = {} /\ troubleCount = 0
  BY DEF PipelineInit
<1>2. /\ eventBuffer \in Seq(Events) /\ Len(eventBuffer) = 0
      /\ \A f \in Flushers : /\ flushes[f].batch \in Seq(Events)
                             /\ Len(flushes[f].batch) = 0
  BY <1>1, EmptySeq, NothingSentYet
<1>3. topic \in Seq(EventMessage) /\ processed \in Seq(Events)
  BY <1>1, EmptySeq
<1>4. published \in 0 .. MaxEvents /\ troubleCount \in 0 .. MaxTroubles
  BY <1>1, PipelineAssumption
<1>5. PipeContents
  BY <1>1, <1>2, <1>3, <1>4 DEF PipeContents
<1>6. Waits
  BY <1>2 DEF Waits, WaitsOnce
<1> QED
  BY <1>5, <1>6

LEMMA PipelineNextContents ==
    PipeInv /\ PipeContents /\ Waits /\ [PipelineNext]_pipeVars => PipeContents' /\ Waits'
<1> SUFFICES ASSUME PipeInv, PipeContents, Waits, [PipelineNext]_pipeVars
             PROVE  PipeContents' /\ Waits'
  OBVIOUS
<1>1. CASE PublishEvent \/ TimerFlush
  BY <1>1, PublishContents
<1>2. CASE \E f \in Flushers : Emit(f) \/ EmitFails(f) \/ TimerEmitFails(f)
  BY <1>2, EmitContents, EmitFailsContents, TimerEmitFailsContents
<1>3. CASE Fetch \/ HandleEvent \/ RetryMessage \/ SendToDeadLetterQueue
             \/ HandlerFails \/ RetryFails \/ DeadLetterFails
  BY <1>3, ConsumerContents
<1>4. CASE CrashPipeline
  BY <1>4, CrashContents
<1>5. CASE UNCHANGED pipeVars
  <2>1. /\ published' = published /\ eventBuffer' = eventBuffer /\ flushes' = flushes
        /\ topic' = topic /\ position' = position /\ doing' = doing
        /\ processed' = processed /\ deadLetters' = deadLetters
        /\ troubles' = troubles /\ troubleCount' = troubleCount
    BY <1>5 DEF pipeVars, producer, consumer, faultVars
  <2> QED
    BY <2>1 DEF PipeContents, Waits
<1> QED
  BY <1>1, <1>2, <1>3, <1>4, <1>5 DEF PipelineNext

LEMMA PipelineTypesFromInv == PipeInv /\ PipeContents /\ Waits => PipelineTypeOK
<1> SUFFICES ASSUME PipeInv, PipeContents, Waits
             PROVE  PipelineTypeOK
  OBVIOUS
<1>1. /\ published \in Nat /\ eventBuffer \in Seq(Events) /\ eventBuffer \in Seq(Nat)
      /\ \A i \in 1 .. Len(eventBuffer) : 1 <= eventBuffer[i]
  BY EventsAreNumbers DEF PipeInv, PipeTypes, PipeContents
<1>2. Len(eventBuffer) <= published
  BY <1>1, BufferBounded DEF Waits
<1>3. ASSUME NEW f \in Flushers
      PROVE  /\ flushes[f].batch \in Seq(Events)
             /\ flushes[f].sent \in 0 .. Len(flushes[f].batch)
             /\ flushes[f].by \in {"request", "timer"}
  <2>1. /\ flushes[f] \in Flush /\ flushes[f].batch \in Seq(Events)
        /\ flushes[f] # NoFlush => flushes[f].sent < Len(flushes[f].batch)
    BY DEF PipeInv, PipeTypes, PipeContents
  <2>2. /\ flushes[f].sent \in Nat /\ Len(flushes[f].batch) \in Nat
        /\ flushes[f].by \in {"request", "timer"}
    BY <2>1, LenProperties DEF Flush
  <2>3. CASE flushes[f] = NoFlush
    <3>1. flushes[f].sent = 0
      BY <2>3 DEF NoFlush
    <3> QED
      BY <2>1, <2>2, <3>1
  <2> QED
    BY <2>1, <2>2, <2>3
<1>4. /\ committed \in 0 .. Len(topic) /\ position \in 1 .. Len(topic) + 1
      /\ committed < position
      /\ doing \in {"fetch", "handle", "retry", "deadLetter"} /\ overlapped \in BOOLEAN
  <2>1. /\ committed \in Nat /\ position \in Nat /\ Len(topic) \in Nat
        /\ committed < position /\ position <= Len(topic) + 1
    BY LenProperties DEF PipeInv, PipeTypes
  <2> QED
    BY <2>1 DEF PipeInv, PipeTypes
<1> QED
  BY <1>1, <1>2, <1>3, <1>4
  DEF PipelineTypeOK, PipeContents, EventMessage, TroubleKinds

\* The pipeline's state keeps its types; in particular no more events wait in
\* the buffer than were published, although batches whose emission failed are put
\* back into it while other flushes run: an event that was not sent yet waits in
\* one place only.
THEOREM PipelineTypes == PipelineSpec => []PipelineTypeOK
<1> QED
  BY PipelineInitInv, PipelineNextInv, PipelineInitContents, PipelineNextContents,
     PipelineTypesFromInv, PTL DEF PipelineSpec

\* No step of the transactions counts a fault beyond the bound.
LEMMA FaultsCounted ==
    ASSUME sendFaults \in 0 .. MaxSendFaults, [TransactionsStep]_sendVars
    PROVE  sendFaults' \in 0 .. MaxSendFaults
<1>1. ASSUME sendFaults' = sendFaults \/ Fault
      PROVE  sendFaults' \in 0 .. MaxSendFaults
  BY <1>1, TransactionsAssumption DEF Fault
<1>2. CASE Cluster
  BY <1>1, <1>2 DEF Cluster
<1>3. ASSUME NEW c \in Callers, \/ SendTransfer(c) \/ SendTokenTransfer(c)
                                \/ SendProgramInvocation(c)
                                \/ CreateMultiInstructionTransaction(c)
                                \/ CreateBatchedTransaction(c)
      PROVE  sendFaults' = sendFaults
  BY <1>3 DEF SendTransfer, SendTokenTransfer, SendProgramInvocation,
              CreateMultiInstructionTransaction, CreateBatchedTransaction, Send
<1>4. ASSUME NEW c \in Callers, TokenAccounts(c) \/ BuildBatch(c) \/ SendRaw(c)
      PROVE  sendFaults' = sendFaults \/ Fault
  BY <1>4 DEF TokenAccounts, BuildBatch, SendRaw
<1>5. ASSUME NEW c \in Callers, AwaitConfirmation(c) \/ CreateRow(c) \/ SaveFailed(c)
      PROVE  sendFaults' = sendFaults \/ Fault
  BY <1>5 DEF AwaitConfirmation, CreateRow, SaveFailed
<1>6. ASSUME NEW c \in Callers, \/ PublishCreated(c) \/ PublishConfirmed(c)
                                \/ PublishFailedCreated(c) \/ PublishFailed(c)
                                \/ PublishUpdated(c) \/ PublishOutcome(c)
      PROVE  sendFaults' = sendFaults \/ Fault
  BY <1>6 DEF PublishCreated, PublishConfirmed, PublishFailedCreated, PublishFailed,
              PublishUpdated, PublishOutcome, Publish
<1>7. ASSUME NEW c \in Callers,
             \/ Create(c) \/ Update(c) \/ UpdateTransactionStatus(c)
             \/ GetTransactionHistory(c) \/ LoadRow(c)
      PROVE  sendFaults' = sendFaults
  BY <1>7 DEF Create, Update, ClientBegins, UpdateTransactionStatus,
              GetTransactionHistory, LoadRow
<1>8. ASSUME NEW c \in Callers, \/ GetSignatureStatus(c) \/ UpdateLoad(c)
                                \/ UpdateWrite(c) \/ Reload(c) \/ RemoveRow(c)
      PROVE  sendFaults' = sendFaults
  BY <1>8 DEF GetSignatureStatus, UpdateLoad, UpdateWrite, Reload, RemoveRow
<1>9. CASE UNCHANGED sendVars
  BY <1>1, <1>9 DEF sendVars
<1> QED
  BY <1>1, <1>2, <1>3, <1>4, <1>5, <1>6, <1>7, <1>8, <1>9 DEF TransactionsStep

LEMMA SendTypesFromInv ==
    SendInv /\ sendFaults \in 0 .. MaxSendFaults => TransactionsTypeOK
<1> SUFFICES ASSUME SendInv, sendFaults \in 0 .. MaxSendFaults
             PROVE  TransactionsTypeOK
  OBVIOUS
<1>1. SendTypes
  BY DEF SendInv
<1>2. ASSUME NEW c \in Callers
      PROVE  job[c].next \in Calls /\ job[c].status \in TransactionStatus_
  BY <1>1 DEF SendTypes, SendJob
<1>3. ASSUME NEW i \in DOMAIN announced
      PROVE  announced[i].type \in EventTypes
  <2>1. announced[i] \in Announcement
    BY <1>1, <1>3, LenProperties DEF SendTypes
  <2> QED
    BY <2>1 DEF Announcement
<1> QED
  BY <1>1, <1>2, <1>3 DEF TransactionsTypeOK, SendTypes

\* The chain, the rows, the requests and the announcements keep their types.
THEOREM TransactionsTypes == SendSpec => []TransactionsTypeOK
<1>1. TransactionsInit => sendFaults \in 0 .. MaxSendFaults
  BY TransactionsAssumption DEF TransactionsInit
<1>2. /\ sendFaults \in 0 .. MaxSendFaults /\ [TransactionsStep]_sendVars
         => (sendFaults \in 0 .. MaxSendFaults)'
  BY FaultsCounted
<1> QED
  BY <1>1, <1>2, SendInitInv, SendNextInv, SendTypesFromInv, PTL DEF SendSpec

\* The types of the events on their way and of the transactions they tell of, in
\* the behaviours of the model that examines either.
THEOREM EventsAndRowsTyped == Spec => []TypeOK
<1>1. Init => PipelineInit /\ TransactionsInit
  BY DEF Init
<1>2. [Next]_vars => [PipelineNext]_pipeVars /\ [TransactionsStep]_sendVars
  BY DEF Next, vars, ExaminePipeline, TransactionsNext
<1>3. Spec => PipelineSpec /\ SendSpec
  BY <1>1, <1>2, PTL DEF Spec, PipelineSpec, SendSpec
<1> QED
  BY <1>3, PipelineTypes, TransactionsTypes, PTL DEF TypeOK

================================================================================
