---------------------------------- MODULE Events ----------------------------------
(***************************************************************************)
(* EventsService (events/events.service.ts), EventSubscriptionService       *)
(* (event-subscription.service.ts) and EventsGateway                        *)
(* (gateway/events.gateway.ts) for one client, one event type, one account  *)
(* and the transactions the cluster reports.  Three records tell who is     *)
(* told what: rows of event_subscriptions, which no index keeps apart; the  *)
(* rooms of the sockets, which alone decide delivery; and the listeners at  *)
(* the cluster, of which a map remembers one per account.                   *)
(*                                                                          *)
(*   subscriptions    per id: the row                                       *)
(*   sockets          per socket of the client: state, room, listed events  *)
(*   eventJob         per caller: the call it awaits, and what it read      *)
(*   accountEntry     the map's entry for the account, 0 for none           *)
(*   listeners        the listeners at the cluster; lastListener, the ids   *)
(*   stored, emitted  events stored and emitted, per transaction            *)
(*   wanted           history: the last request about the account was a     *)
(*                    subscription                                          *)
(*   subOverlapped    history: requests about the rows overlapped           *)
(*   listenTroubled   history: requests about the account overlapped, or a  *)
(*                    removal was rejected                                  *)
(*   direct           history: a row was changed over HTTP                  *)
(*   eventFaults, eventOps   bounded                                        *)
(***************************************************************************)
EXTENDS Naturals, FiniteSets

CONSTANTS EventCallers, Sockets, SubscriptionIds, Reported, \* reported transactions
          MaxListeners, MaxEventFaults, MaxEventOps

ASSUME EventsAssumption == IsFiniteSet(Sockets) /\ MaxEventFaults \in Nat

VARIABLES subscriptions, sockets, eventJob, accountEntry, listeners, lastListener, stored,
          emitted, wanted, subOverlapped, listenTroubled, direct, eventFaults, eventOps

rowVars == <<subscriptions, sockets, subOverlapped, direct>>

listenVars == <<accountEntry, listeners, lastListener, wanted, listenTroubled>>

logVars == <<stored, emitted>>

eventVars == <<rowVars, listenVars, logVars, eventJob, eventFaults, eventOps>>

SubscriptionType == {"websocket", "webhook"}

SubscriptionStatus == {"active", "inactive"}

EventSubscription == [exists : BOOLEAN, type : SubscriptionType, status : SubscriptionStatus]

NoSubscription == [exists |-> FALSE, type |-> "websocket", status |-> "inactive"]

\* An entry of connectedClients, and the room "event:<type>"; listed counts the
\* type in the entry's subscriptions.
Socket == [state : {"new", "connected", "gone"}, joined : BOOLEAN, listed : Nat]

EventType == {"program_log", "transaction_confirmed"}

EventIdle == [next |-> "idle", socket |-> {}, row |-> {}, type |-> "websocket", tx |-> {},
              failed |-> FALSE]

\* The requests about the rows, and those about the account.
RowSteps == {"findExisting", "saveActive", "join", "findAny", "saveInactive", "leave"}

EventsTypeOK ==
    /\ subscriptions \in [SubscriptionIds -> EventSubscription]
    /\ sockets \in [Sockets -> Socket]
    /\ \A c \in EventCallers :
         eventJob[c].next \in RowSteps \cup {"idle", "removed", "saveLog", "emitLog",
                                             "saveConfirmed", "emitConfirmed"}
    /\ accountEntry \in 0 .. lastListener /\ listeners \subseteq 1 .. lastListener
    /\ stored \in [Reported -> SUBSET EventType] /\ emitted \in [Reported -> SUBSET EventType]
    /\ {wanted, subOverlapped, listenTroubled, direct} \subseteq BOOLEAN
    /\ eventFaults \in 0 .. MaxEventFaults

EventsInit ==
    /\ subscriptions = [i \in SubscriptionIds |-> NoSubscription]
    /\ sockets = [s \in Sockets |-> [state |-> "new", joined |-> FALSE, listed |-> 0]]
    /\ eventJob = [c \in EventCallers |-> EventIdle]
    /\ accountEntry = 0 /\ listeners = {} /\ lastListener = 0
    /\ stored = [t \in Reported |-> {}] /\ emitted = [t \in Reported |-> {}]
    /\ wanted = FALSE /\ subOverlapped = FALSE /\ listenTroubled = FALSE /\ direct = FALSE
    /\ eventFaults = 0 /\ eventOps = 0

-----------------------------------------------------------------------------

EventBegin(c, job) ==
    /\ eventJob[c].next = "idle" /\ eventOps < MaxEventOps
    /\ eventJob' = [eventJob EXCEPT ![c] = job]
    /\ eventOps' = eventOps + 1
    /\ UNCHANGED eventFaults

EventGoto(c, job) ==
    /\ eventJob' = [eventJob EXCEPT ![c] = job]
    /\ UNCHANGED <<eventFaults, eventOps>>

NextCall(c, next) == [eventJob[c] EXCEPT !.next = next]

\* An awaited call is rejected, without effect, and the request ends.
EventReject(c) ==
    /\ eventJob[c].next \in {"findExisting", "saveActive", "findAny", "saveInactive",
                             "removed", "saveLog", "saveConfirmed"}
    /\ eventFaults < MaxEventFaults /\ eventFaults' = eventFaults + 1
    /\ listenTroubled' = (listenTroubled \/ eventJob[c].next = "removed")
    /\ eventJob' = [eventJob EXCEPT ![c] = EventIdle]
    /\ UNCHANGED <<rowVars, accountEntry, listeners, lastListener, wanted, logVars, eventOps>>

RowsBusy == \E d \in EventCallers : eventJob[d].next \in RowSteps

-----------------------------------------------------------------------------
(* The gateway and the subscription rows                                    *)

HandleConnection(s) ==
    /\ sockets[s].state = "new"
    /\ sockets' = [sockets EXCEPT ![s].state = "connected"]
    /\ UNCHANGED <<subscriptions, subOverlapped, direct, listenVars, logVars, eventJob,
                   eventFaults, eventOps>>

\* The entry goes, and the socket leaves its rooms; the rows stay.
HandleDisconnect(s) ==
    /\ sockets[s].state = "connected"
    /\ sockets' = [sockets EXCEPT ![s] = [state |-> "gone", joined |-> FALSE, listed |-> 0]]
    /\ UNCHANGED <<subscriptions, subOverlapped, direct, listenVars, logVars, eventJob,
                   eventFaults, eventOps>>

BeginOnRows(c, job) ==
    /\ EventBegin(c, job)
    /\ subOverlapped' = (subOverlapped \/ RowsBusy)
    /\ UNCHANGED <<subscriptions, sockets, listenVars, logVars>>

HandleSubscribe(c, s) ==
    /\ sockets[s].state = "connected"
    /\ BeginOnRows(c, [EventIdle EXCEPT !.next = "findExisting", !.socket = {s}])
    /\ UNCHANGED direct

\* POST events/subscriptions
PostSubscription(c, type) ==
    /\ BeginOnRows(c, [EventIdle EXCEPT !.next = "findExisting", !.type = type])
    /\ direct' = TRUE

\* Mutant: the row found is not used, and each subscription makes its own.
FindExistingNever(c) ==
    /\ eventJob[c].next = "findExisting"
    /\ EventGoto(c, NextCall(c, "saveActive"))
    /\ UNCHANGED <<rowVars, listenVars, logVars>>

\* Some row of the client, the event type and this subscription type, if any.
FindExisting(c) ==
    LET j == eventJob[c]
        found == {i \in SubscriptionIds : subscriptions[i].exists
                                            /\ subscriptions[i].type = j.type}
    IN  /\ j.next = "findExisting"
        /\ \/ found = {} /\ EventGoto(c, NextCall(c, "saveActive"))
           \/ \E i \in found : EventGoto(c, [NextCall(c, "saveActive") EXCEPT !.row = {i}])
        /\ UNCHANGED <<rowVars, listenVars, logVars>>

\* The save of a row deleted meanwhile inserts it again.
SaveActive(c) ==
    LET j == eventJob[c]
        free == {i \in SubscriptionIds : ~subscriptions[i].exists}
    IN  /\ j.next = "saveActive"
        /\ \E i \in IF j.row = {} THEN free ELSE j.row :
             subscriptions' = [subscriptions EXCEPT ![i] =
                                 [exists |-> TRUE, type |-> j.type, status |-> "active"]]
        /\ EventGoto(c, IF j.socket = {} THEN EventIdle ELSE NextCall(c, "join"))
        /\ UNCHANGED <<sockets, subOverlapped, direct, listenVars, logVars>>

\* A socket that is gone joins no room, and its entry is no longer looked up.
Join(c) ==
    /\ eventJob[c].next = "join"
    /\ \E s \in eventJob[c].socket :
         sockets' = IF sockets[s].state = "connected"
                    THEN [sockets EXCEPT ![s].joined = TRUE, ![s].listed = @ + 1]
                    ELSE sockets
    /\ EventGoto(c, EventIdle)
    /\ UNCHANGED <<subscriptions, subOverlapped, direct, listenVars, logVars>>

HandleUnsubscribe(c, s) ==
    /\ sockets[s].state = "connected"
    /\ BeginOnRows(c, [EventIdle EXCEPT !.next = "findAny", !.socket = {s}])
    /\ UNCHANGED direct

\* updateSubscriptionByClientAndType takes any row of the client and the event
\* type, whatever its subscription type; without one the socket stays in the room.
FindAny(c) ==
    LET found == {i \in SubscriptionIds : subscriptions[i].exists}
    IN  /\ eventJob[c].next = "findAny"
        /\ \/ found = {} /\ EventGoto(c, EventIdle)
           \/ \E i \in found :
                EventGoto(c, [NextCall(c, "saveInactive") EXCEPT !.row = {i},
                                                               !.type = subscriptions[i].type])
        /\ UNCHANGED <<rowVars, listenVars, logVars>>

SaveInactive(c) ==
    LET j == eventJob[c]
    IN  /\ j.next = "saveInactive"
        /\ \E i \in j.row :
             subscriptions' = [subscriptions EXCEPT ![i] =
                                 [exists |-> TRUE, type |-> j.type, status |-> "inactive"]]
        /\ EventGoto(c, NextCall(c, "leave"))
        /\ UNCHANGED <<sockets, subOverlapped, direct, listenVars, logVars>>

Leave(c) ==
    /\ eventJob[c].next = "leave"
    /\ \E s \in eventJob[c].socket :
         sockets' = [sockets EXCEPT ![s].joined = FALSE,
                                    ![s].listed = IF @ > 0 THEN @ - 1 ELSE 0]
    /\ EventGoto(c, EventIdle)
    /\ UNCHANGED <<subscriptions, subOverlapped, direct, listenVars, logVars>>

\* updateSubscription (its status), deleteSubscription
PutSubscription(i, status) ==
    /\ subscriptions[i].exists /\ eventOps < MaxEventOps
    /\ subscriptions' = [subscriptions EXCEPT ![i].status = status]
    /\ direct' = TRUE /\ eventOps' = eventOps + 1
    /\ UNCHANGED <<sockets, subOverlapped, listenVars, logVars, eventJob, eventFaults>>

DeleteSubscription(i) ==
    /\ subscriptions[i].exists /\ eventOps < MaxEventOps
    /\ subscriptions' = [subscriptions EXCEPT ![i] = NoSubscription]
    /\ direct' = TRUE /\ eventOps' = eventOps + 1
    /\ UNCHANGED <<sockets, subOverlapped, listenVars, logVars, eventJob, eventFaults>>

-----------------------------------------------------------------------------
(* Listeners on an account; a program's accounts have entries of their own, *)
(* which nothing removes.                                                   *)

Removing == \E d \in EventCallers : eventJob[d].next = "removed"

\* An account with an entry counts as subscribed; nothing is awaited.
SubscribeToAccount ==
    /\ \/ accountEntry # 0 /\ UNCHANGED <<accountEntry, listeners, lastListener>>
       \/ /\ accountEntry = 0 /\ lastListener < MaxListeners
          /\ lastListener' = lastListener + 1
          /\ accountEntry' = lastListener' /\ listeners' = listeners \cup {lastListener'}
    /\ wanted' = TRUE /\ listenTroubled' = (listenTroubled \/ Removing)
    /\ UNCHANGED <<rowVars, logVars, eventJob, eventFaults, eventOps>>

\* removeAccountChangeListener drops the listener at once and is awaited; the
\* entry is deleted after it.
UnsubscribeFromAccount(c) ==
    /\ accountEntry # 0
    /\ EventBegin(c, [EventIdle EXCEPT !.next = "removed"])
    /\ listeners' = listeners \ {accountEntry}
    /\ wanted' = FALSE /\ listenTroubled' = (listenTroubled \/ Removing)
    /\ UNCHANGED <<accountEntry, lastListener, rowVars, logVars>>

\* The entry is deleted, be it of this listener or of a later one.
DeleteEntry(c) ==
    /\ eventJob[c].next = "removed"
    /\ accountEntry' = 0
    /\ EventGoto(c, EventIdle)
    /\ UNCHANGED <<listeners, lastListener, wanted, listenTroubled, rowVars, logVars>>

-----------------------------------------------------------------------------
(* handleProgramLogs: createEvent for the log and, if the transaction did   *)
(* not fail, for its confirmation; each is saved and then emitted.          *)

HandleProgramLogs(c, t, failed) ==
    /\ stored[t] = {} /\ \A d \in EventCallers : t \notin eventJob[d].tx
    /\ EventBegin(c, [EventIdle EXCEPT !.next = "saveLog", !.tx = {t}, !.failed = failed])
    /\ UNCHANGED <<rowVars, listenVars, logVars>>

CreateEvent(c, save, type, emit) ==
    /\ eventJob[c].next = save
    /\ \E t \in eventJob[c].tx : stored' = [stored EXCEPT ![t] = @ \cup {type}]
    /\ EventGoto(c, NextCall(c, emit))
    /\ UNCHANGED <<emitted, rowVars, listenVars>>

EmitEvent(c, emit, type, job) ==
    /\ eventJob[c].next = emit
    /\ \E t \in eventJob[c].tx : emitted' = [emitted EXCEPT ![t] = @ \cup {type}]
    /\ EventGoto(c, job)
    /\ UNCHANGED <<stored, rowVars, listenVars>>

LogStep(c) ==
    \/ CreateEvent(c, "saveLog", "program_log", "emitLog")
    \/ EmitEvent(c, "emitLog", "program_log",
                 IF eventJob[c].failed THEN EventIdle ELSE NextCall(c, "saveConfirmed"))
    \/ CreateEvent(c, "saveConfirmed", "transaction_confirmed", "emitConfirmed")
    \/ EmitEvent(c, "emitConfirmed", "transaction_confirmed", EventIdle)

RowStep(c) ==
    \/ \E s \in Sockets : HandleSubscribe(c, s) \/ HandleUnsubscribe(c, s)
    \/ \E type \in SubscriptionType : PostSubscription(c, type)
    \/ FindExisting(c) \/ SaveActive(c) \/ Join(c)
    \/ FindAny(c) \/ SaveInactive(c) \/ Leave(c)

EventsNext ==
    \/ \E s \in Sockets : HandleConnection(s) \/ HandleDisconnect(s)
    \/ \E i \in SubscriptionIds : \/ DeleteSubscription(i)
                                  \/ \E status \in SubscriptionStatus : PutSubscription(i, status)
    \/ SubscribeToAccount
    \/ \E c \in EventCallers :
         \/ RowStep(c) \/ LogStep(c) \/ EventReject(c)
         \/ UnsubscribeFromAccount(c) \/ DeleteEntry(c)
         \/ \E t \in Reported, failed \in BOOLEAN : HandleProgramLogs(c, t, failed)

-----------------------------------------------------------------------------
(* Properties                                                               *)

WebsocketRows == {i \in SubscriptionIds : subscriptions[i].exists
                                            /\ subscriptions[i].type = "websocket"}

\* The room decides what a client hears and the row what it is told it hears.
\* A socket in a room is connected and lists the event; the client has one row as
\* long as requests about it did not overlap; and with one socket and no change
\* over HTTP, between requests, the socket is in the room exactly if the row is
\* active (handleSubscribe, handleUnsubscribe).
RoomsMatchRows ==
    /\ \A s \in Sockets : sockets[s].joined => sockets[s].state = "connected" /\ sockets[s].listed > 0
    /\ ~subOverlapped =>
         /\ Cardinality(WebsocketRows) <= 1
         /\ ~direct /\ ~RowsBusy /\ Cardinality({s \in Sockets : sockets[s].state # "new"}) <= 1
              => \A s \in Sockets : sockets[s].state = "connected" =>
                   (sockets[s].joined <=> \E i \in WebsocketRows : subscriptions[i].status = "active")

\* As long as no request about the account came while a removal was awaited and
\* no removal was rejected, the account has one listener if the last request was
\* a subscription and none otherwise (subscribeToAccount, unsubscribeFromAccount):
\* each change is recorded once.
OneListener ==
    ~listenTroubled => /\ Cardinality(listeners) <= 1
                       /\ wanted <=> listeners # {}

\* Nobody hears of an event that was not stored, and a stored confirmation comes
\* with its log (createEvent, handleProgramLogs).
StoredBeforeEmitted ==
    \A t \in Reported :
      /\ emitted[t] \subseteq stored[t]
      /\ "transaction_confirmed" \in stored[t] => "program_log" \in emitted[t]

\* Rows, rooms, listeners and stored events tell the same, as far as requests
\* keep apart.
SubscribersTracked == RoomsMatchRows /\ OneListener /\ StoredBeforeEmitted
=============================================================================
