----------------------------- MODULE EventPipeline -----------------------------
(***************************************************************************)
(* The way of a transaction event: MessagePublisherService                  *)
(* (message-publisher.service.ts) buffers it and flushes the buffer to the  *)
(* topic 'transactions', TransactionEventConsumer                           *)
(* (transaction-event.consumer.ts) handles it, with retries and a dead      *)
(* letter topic.  One step per awaited emission or handler.                 *)
(*                                                                          *)
(*   published      how many events there are; an event is its number       *)
(*   eventBuffer    the buffer in memory                                    *)
(*   flushes        per running flush, its batch, how much of it is sent,   *)
(*                  and who awaits it: a request, or nobody (the timer)     *)
(*   topic          the partition, messages with their retry-count header   *)
(*   position, doing, committed   the consumer: message, step, offset       *)
(*   processed, deadLetters       events handled, events given up           *)
(*   troubles       the kinds of fault that happened, troubleCount how many *)
(*   overlapped     two flushes ran at a time                               *)
(*                                                                          *)
(* All events have the key of one transaction, so one partition carries     *)
(* them; the consumer, as it is written, takes them one at a time and       *)
(* commits by hand.  main.ts connects no microservice, so that in the       *)
(* program as it is nothing takes them: the steps of the consumer need not  *)
(* happen, and no property says that they do.                               *)
(***************************************************************************)
EXTENDS Integers, Sequences, SequencesExt, FiniteSets

CONSTANTS MaxEvents,       \* bound on the events
          MaxBufferSize,   \* maxBufferSize
          MAX_RETRIES,
          Flushers,        \* the flushes that may run at a time
          MaxTroubles      \* bound on the faults

ASSUME PipelineAssumption == MaxEvents \in Nat /\ MAX_RETRIES \in Nat /\ MaxTroubles \in Nat

VARIABLES published, eventBuffer, flushes, topic, position, doing, committed,
          processed, deadLetters, troubles, troubleCount, overlapped

producer == <<published, eventBuffer, flushes, overlapped>>
consumer == <<position, doing, committed, processed, deadLetters>>
faultVars == <<troubles, troubleCount>>
pipeVars == <<producer, topic, consumer, faultVars>>

Events == 1 .. MaxEvents

Message(e, retry) == [event |-> e, retry |-> retry]

NoFlush == [batch |-> <<>>, sent |-> 0, by |-> "request"]

PipelineTypeOK ==
    /\ published \in 0 .. MaxEvents
    /\ eventBuffer \in Seq(Events) /\ Len(eventBuffer) <= published
    /\ \A f \in Flushers : /\ flushes[f].batch \in Seq(Events)
                           /\ flushes[f].sent \in 0 .. Len(flushes[f].batch)
                           /\ flushes[f].by \in {"request", "timer"}
    /\ topic \in Seq([event : Events, retry : 0 .. MAX_RETRIES])
    /\ committed \in 0 .. Len(topic) /\ position \in 1 .. Len(topic) + 1
    /\ committed < position
    /\ doing \in {"fetch", "handle", "retry", "deadLetter"}
    /\ processed \in Seq(Events) /\ deadLetters \subseteq Events
    /\ troubles \subseteq {"emit", "timer", "handle", "retry", "deadLetter",
                          "crash"}
    /\ troubleCount \in 0 .. MaxTroubles /\ overlapped \in BOOLEAN

PipelineInit ==
    /\ published = 0 /\ eventBuffer = <<>> /\ topic = <<>>
    /\ flushes = [f \in Flushers |-> NoFlush]
    /\ position = 1 /\ doing = "fetch" /\ committed = 0
    /\ processed = <<>> /\ deadLetters = {}
    /\ troubles = {} /\ troubleCount = 0 /\ overlapped = FALSE

-----------------------------------------------------------------------------
(* The publisher                                                            *)

Flushing == {f \in Flushers : flushes[f] # NoFlush}

\* The whole buffer moves into the batch of one flush.
FlushEvents(batch, by) ==
    /\ \E f \in Flushers \ Flushing :
         flushes' = [flushes EXCEPT ![f] = [batch |-> batch, sent |-> 0, by |-> by]]
    /\ eventBuffer' = <<>>
    /\ overlapped' = (overlapped \/ Flushing # {})

\* Mutant: a new event is put before the waiting ones.
BufferedFirst(e) == <<e>> \o eventBuffer

Buffered(e) == Append(eventBuffer, e)

\* publishEvent: a full buffer is flushed at once, and the request awaits it.
PublishEvent ==
    LET buffer == Buffered(published + 1)
    IN  /\ published < MaxEvents
        /\ published' = published + 1
        /\ \/ Len(buffer) >= MaxBufferSize /\ FlushEvents(buffer, "request")
           \/ /\ Len(buffer) < MaxBufferSize
              /\ eventBuffer' = buffer
              /\ UNCHANGED <<flushes, overlapped>>
        /\ UNCHANGED <<topic, consumer, faultVars>>

\* The interval timer calls flushEvents and awaits nothing; forceFlush does.
TimerFlush ==
    /\ eventBuffer # <<>>
    /\ \E by \in {"timer", "request"} : FlushEvents(eventBuffer, by)
    /\ UNCHANGED <<published, topic, consumer, faultVars>>

NextToSend(f) == flushes[f].batch[flushes[f].sent + 1]

Sent(flush) == IF flush.sent + 1 = Len(flush.batch) THEN NoFlush
               ELSE [flush EXCEPT !.sent = @ + 1]

Emit(f) ==
    /\ f \in Flushing
    /\ topic' = Append(topic, Message(NextToSend(f), 0))
    /\ flushes' = [flushes EXCEPT ![f] = Sent(@)]
    /\ UNCHANGED <<published, eventBuffer, overlapped, consumer, faultVars>>

Trouble(kind) ==
    /\ troubleCount < MaxTroubles
    /\ troubleCount' = troubleCount + 1
    /\ troubles' = troubles \cup {kind}

\* Mutant: a batch that failed is not put back.
RequeueForgotten(batch) == eventBuffer

\* The whole batch goes back to the front of the buffer.
Requeue(batch) == batch \o eventBuffer

\* The broker may have stored a message whose emission rejects.
MaybeStored(f) == topic' \in {topic, Append(topic, Message(NextToSend(f), 0))}

\* The emission rejects: the request that awaits the flush gets the error.
EmitFails(f) ==
    /\ f \in Flushing /\ flushes[f].by = "request" /\ Trouble("emit")
    /\ MaybeStored(f)
    /\ eventBuffer' = Requeue(flushes[f].batch)
    /\ flushes' = [flushes EXCEPT ![f] = NoFlush]
    /\ UNCHANGED <<published, overlapped, consumer>>

\* The process stops: the buffer and the batches are gone, the consumer starts
\* again behind the committed offset.
Stops ==
    /\ eventBuffer' = <<>>
    /\ flushes' = [f \in Flushers |-> NoFlush]
    /\ position' = committed + 1 /\ doing' = "fetch"
    /\ UNCHANGED <<published, overlapped, committed, processed, deadLetters>>

\* Nothing handles the rejection of the timer's flush, which ends the process:
\* what was just put back into the buffer is lost with it.
TimerEmitFails(f) ==
    /\ f \in Flushing /\ flushes[f].by = "timer" /\ Trouble("timer")
    /\ MaybeStored(f)
    /\ Stops

-----------------------------------------------------------------------------
(* The consumer                                                             *)

Current == topic[position]

Fetch ==
    /\ doing = "fetch" /\ position <= Len(topic)
    /\ doing' = "handle"
    /\ UNCHANGED <<producer, topic, position, committed, processed, deadLetters,
                   faultVars>>

CommitOffsets ==
    /\ committed' = position
    /\ position' = position + 1
    /\ doing' = "fetch"

\* One of the handlers of the four event types resolved.
HandleEvent ==
    /\ doing = "handle"
    /\ processed' = Append(processed, Current.event)
    /\ CommitOffsets
    /\ UNCHANGED <<producer, topic, deadLetters, faultVars>>

\* Mutant: the last attempt is retried once more instead of given up.
AfterFailureOneMore == IF Current.retry <= MAX_RETRIES THEN "retry" ELSE "deadLetter"

AfterFailure == IF Current.retry < MAX_RETRIES THEN "retry" ELSE "deadLetter"

HandlerFails ==
    /\ doing = "handle" /\ Trouble("handle")
    /\ doing' = AfterFailure
    /\ UNCHANGED <<producer, topic, position, committed, processed, deadLetters>>

Retried(m) == Message(m.event, m.retry + 1)

\* retryMessage: to the end of the same topic, with the retry count.
RetryMessage ==
    /\ doing = "retry"
    /\ topic' = Append(topic, Retried(Current))
    /\ CommitOffsets
    /\ UNCHANGED <<producer, processed, deadLetters, faultVars>>

\* The emission is outside of any try block: nothing is committed, and the
\* consumer goes on with the next message.
RetryFails ==
    /\ doing = "retry" /\ Trouble("retry")
    /\ position' = position + 1 /\ doing' = "fetch"
    /\ UNCHANGED <<producer, topic, committed, processed, deadLetters>>

SendToDeadLetterQueue ==
    /\ doing = "deadLetter"
    /\ deadLetters' = deadLetters \cup {Current.event}
    /\ CommitOffsets
    /\ UNCHANGED <<producer, topic, processed, faultVars>>

\* Logged only; the offset is committed.
DeadLetterFails ==
    /\ doing = "deadLetter" /\ Trouble("deadLetter")
    /\ CommitOffsets
    /\ UNCHANGED <<producer, topic, processed, deadLetters>>

-----------------------------------------------------------------------------

CrashPipeline == Trouble("crash") /\ Stops /\ UNCHANGED topic

PipelineNext ==
    \/ PublishEvent \/ TimerFlush
    \/ \E f \in Flushers : Emit(f) \/ EmitFails(f) \/ TimerEmitFails(f)
    \/ Fetch \/ HandleEvent \/ RetryMessage \/ SendToDeadLetterQueue
    \/ HandlerFails \/ RetryFails \/ DeadLetterFails
    \/ CrashPipeline

-----------------------------------------------------------------------------
(* Properties                                                               *)

OnTopic == {topic[i].event : i \in DOMAIN topic}

\* "Re-queue events to buffer", "Commit only after successful processing",
\* "Commit after DLQ on max retries": short of a crash and of a rejected flush of
\* the timer, which ends the process, a published event is in the buffer, in a
\* flush or on the topic, whatever flushes overlap and are rejected to the
\* requests that await them; and a message behind the committed offset was
\* processed, given up, or is on the topic again with one retry more, unless the
\* emission that was to ensure it failed itself.
NoEventVanishes ==
    /\ troubles \cap {"crash", "timer"} = {} =>
         \A e \in 1 .. published :
            \/ e \in Range(eventBuffer) \cup OnTopic
            \/ \E f \in Flushers : e \in Range(flushes[f].batch)
    /\ troubles \cap {"retry", "deadLetter"} = {} =>
         \A i \in 1 .. committed :
            \/ topic[i].event \in Range(processed) \cup deadLetters
            \/ \E j \in i + 1 .. Len(topic) : topic[j] = Retried(topic[i])

\* Where nothing failed and no flush began during another, the events of a
\* transaction are handled in the order of its history, each once.
HandledInOrder ==
    troubles = {} /\ ~overlapped => \A i \in DOMAIN processed : processed[i] = i
=============================================================================
