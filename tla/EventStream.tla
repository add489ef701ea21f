---------------------------- MODULE EventStream -----------------------------
(***************************************************************************)
(* The in-memory event stream of events/memory.go.                         *)
(*                                                                         *)
(* Publish stores the event and starts a goroutine that looks at the       *)
(* subscribers and starts a sender for one subscriber of every group.      *)
(* Consume with an offset starts a goroutine that sends the stored events  *)
(* one after the other.  So one event may have two senders to one          *)
(* subscriber, which share the subscriber's retryMap.  A sender to a       *)
(* subscriber that acknowledges by hand offers the event at every tick of  *)
(* AckWait until the event is no longer in the retryMap, or its count is   *)
(* over the limit.  The write at line 203 takes no lock; the Go runtime    *)
(* may stop the process when it meets another access of the map, otherwise *)
(* it is atomic, which is what is modelled.                                *)
(***************************************************************************)
EXTENDS Integers, Sequences, FiniteSets, SequencesExt

CONSTANTS Events,          \* published events
          Consumers,       \* subscriber objects, one per Consume
          ByHand,          \* the consumers that asked for AutoAck = false
          Replaying,       \* the consumers that passed an Offset
          Groups,          \* consumer groups
          EventTopics,     \* topics
          RetryLimit       \* ConsumeOptions.GetRetryLimit(), -1 for no limit

ASSUME EventStreamAssumption == 
  /\ RetryLimit \in Nat \cup {-1}
  /\ ByHand \subseteq Consumers
  /\ Replaying \subseteq Consumers

VARIABLES evPub,           \* event -> how far Publish and handleEvent are
          evSubs,          \* mem.subs
          evCons,          \* consumer -> its options
          evLook,          \* consumer -> stored events lookup has yet to send
          evRetry,         \* consumer -> event -> retryMap, Absent if no entry
          evSend,          \* sender -> its place in sendEvent and its count
          evGot,           \* consumer -> event -> times received
          evAcked          \* the pairs <<consumer, event>> that were acked

evVars == <<evPub, evSubs, evCons, evLook, evRetry, evSend, evGot, evAcked>>

Absent == -1
Unlimited == -1

(* A sender is a goroutine that runs sendEvent: started by handleEvent, or *)
(* by lookupPreviousEvents.                                                *)
Senders == {"handle", "lookup"} \X Events \X Consumers
EventOf(x) == x[2]
ConsumerOf(x) == x[3]

Options == [group : Groups, topic : EventTopics]

SendStates == {"none", "start", "tick", "offer", "record", "discard",
               "done", "discarded"}

(* Deliveries are counted up to one more than a limited sender makes.      *)
MaxGot == RetryLimit + 2

(* The type invariant of the event stream.                                 *)
EventStreamTypeOK ==
  /\ evPub \in [Events -> [pc : {"none", "stored", "handled"}, topic : EventTopics,
                           before : SUBSET Consumers]]
  /\ Range(evSubs) \subseteq Consumers
  /\ evCons \in [Consumers -> Options]
  /\ evLook \in [Consumers -> [pc : {"none", "read", "send"}, todo : SUBSET Events]]
  /\ evRetry \in [Consumers -> [Events -> Absent .. RetryLimit + 1]]
  /\ evSend \in [Senders -> [pc : SendStates, count : 0 .. RetryLimit + 1]]
  /\ evGot \in [Consumers -> [Events -> 0 .. MaxGot]]
  /\ evAcked \subseteq Consumers \X Events

EventStreamInit ==
  /\ evPub = [e \in Events |-> [pc |-> "none", before |-> {},
                                topic |-> CHOOSE t \in EventTopics : TRUE]]
  /\ evSubs = <<>>
  /\ evCons = [c \in Consumers |-> CHOOSE o \in Options : TRUE]
  /\ evLook = [c \in Consumers |-> [pc |-> "none", todo |-> {}]]
  /\ evRetry = [c \in Consumers |-> [e \in Events |-> Absent]]
  /\ evSend = [x \in Senders |-> [pc |-> "none", count |-> 0]]
  /\ evGot = [c \in Consumers |-> [e \in Events |-> 0]]
  /\ evAcked = {}

(* Publish writes the event to the store and returns; handleEvent runs     *)
(* later.  `before' remembers who had subscribed by then.                  *)
Publish(e, t) ==
  /\ evPub[e].pc = "none"
  /\ evPub' = [evPub EXCEPT ![e] = [pc |-> "stored", topic |-> t, before |-> Range(evSubs)]]
  /\ UNCHANGED <<evSubs, evCons, evLook, evRetry, evSend, evGot, evAcked>>

(* Consume registers the subscriber; with an offset it also starts         *)
(* lookupPreviousEvents.                                                   *)
Consume(c, o) ==
  /\ ~ Contains(evSubs, c)
  /\ evCons' = [evCons EXCEPT ![c] = o]
  /\ evSubs' = Append(evSubs, c)
  /\ evLook' = [evLook EXCEPT ![c].pc = IF c \in Replaying THEN "read" ELSE "none"]
  /\ UNCHANGED <<evPub, evRetry, evSend, evGot, evAcked>>

(* handleEvent: of the subscribers of the topic, the last one of a group.  *)
InterestedIn(e) == SelectSeq(evSubs, LAMBDA c : evCons[c].topic = evPub[e].topic)

(* Mutant: one subscriber of the topic is enough.                          *)
FilteredSubsOne(e) ==
  LET subs == InterestedIn(e)
  IN  IF subs = <<>> THEN {} ELSE {Last(subs)}

FilteredSubs(e) ==
  LET subs == InterestedIn(e)
  IN  {subs[i] : i \in {j \in 1..Len(subs) :
         \A k \in j+1 .. Len(subs) : evCons[subs[k]].group # evCons[subs[j]].group}}

HandleEvent(e) ==
  /\ evPub[e].pc = "stored"
  /\ evPub' = [evPub EXCEPT ![e].pc = "handled"]
  /\ evSend' = [x \in Senders |->
       IF x[1] = "handle" /\ EventOf(x) = e /\ ConsumerOf(x) \in FilteredSubs(e)
       THEN [evSend[x] EXCEPT !.pc = "start"] ELSE evSend[x]]
  /\ UNCHANGED <<evSubs, evCons, evLook, evRetry, evGot, evAcked>>

(* lookupPreviousEvents: reads the stored events of the topic, drops those *)
(* older than the offset, and sends the others one by one.                 *)
LookupRead(c) ==
  /\ evLook[c].pc = "read"
  /\ \E todo \in SUBSET {e \in Events : /\ evPub[e].pc # "none"
                                        /\ evPub[e].topic = evCons[c].topic} :
       evLook' = [evLook EXCEPT ![c] = [pc |-> "send", todo |-> todo]]
  /\ UNCHANGED <<evPub, evSubs, evCons, evRetry, evSend, evGot, evAcked>>

Finished(x) == evSend[x].pc \in {"done", "discarded"}

LookupSend(c, e) ==
  /\ evLook[c].pc = "send"
  /\ e \in evLook[c].todo
  /\ \A d \in Events : LET x == <<"lookup", d, c>>
                       IN  evSend[x].pc = "none" \/ Finished(x)
  /\ evLook' = [evLook EXCEPT ![c].todo = @ \ {e}]
  /\ evSend' = [evSend EXCEPT ![<<"lookup", e, c>>].pc = "start"]
  /\ UNCHANGED <<evPub, evSubs, evCons, evRetry, evGot, evAcked>>

(* sendEvent.                                                              *)
SendStart(x) ==
  LET c == ConsumerOf(x)
  IN  /\ evSend[x].pc = "start"
      /\ evSend' = [evSend EXCEPT ![x].pc = IF c \in ByHand THEN "tick" ELSE "offer"]
      /\ evRetry' = IF c \in ByHand THEN [evRetry EXCEPT ![c][EventOf(x)] = 0]
                    ELSE evRetry
      /\ UNCHANGED <<evPub, evSubs, evCons, evLook, evGot, evAcked>>

(* Mutant: the limit itself is already too many.                           *)
ExhaustedEarly(count) == RetryLimit > Unlimited /\ count >= RetryLimit

Exhausted(count) == RetryLimit > Unlimited /\ count > RetryLimit

(* A tick of AckWait.                                                      *)
SendTick(x) ==
  LET c == ConsumerOf(x)
      count == evRetry[c][EventOf(x)]
  IN  /\ evSend[x].pc = "tick"
      /\ evSend' = [evSend EXCEPT ![x] =
           IF count = Absent THEN [@ EXCEPT !.pc = "done"]
           ELSE IF Exhausted(count) THEN [@ EXCEPT !.pc = "discard"]
           ELSE [pc |-> "offer", count |-> count]]
      /\ UNCHANGED <<evPub, evSubs, evCons, evLook, evRetry, evGot, evAcked>>

SendDiscard(x) ==
  /\ evSend[x].pc = "discard"
  /\ evSend' = [evSend EXCEPT ![x].pc = "discarded"]
  /\ evRetry' = [evRetry EXCEPT ![ConsumerOf(x)][EventOf(x)] = Absent]
  /\ UNCHANGED <<evPub, evSubs, evCons, evLook, evGot, evAcked>>

(* The consumer takes the event from the channel, which has no places.     *)
Receive(x) ==
  LET c == ConsumerOf(x)
  IN  /\ evSend[x].pc = "offer"
      /\ evSend' = [evSend EXCEPT ![x].pc = IF c \in ByHand THEN "record" ELSE "done"]
      /\ evGot' = [evGot EXCEPT ![c][EventOf(x)] = IF @ = MaxGot THEN @ ELSE @ + 1]
      /\ UNCHANGED <<evPub, evSubs, evCons, evLook, evRetry, evAcked>>

(* The sender records the delivery.  (A count without a limit says nothing *)
(* and stays 0.)                                                           *)
SendRecord(x) ==
  LET c == ConsumerOf(x)
  IN  /\ evSend[x].pc = "record"
      /\ evRetry' = [evRetry EXCEPT ![c][EventOf(x)] =
                       IF RetryLimit = Unlimited THEN 0 ELSE evSend[x].count + 1]
      /\ evSend' = [evSend EXCEPT ![x].pc = "tick"]
      /\ UNCHANGED <<evPub, evSubs, evCons, evLook, evGot, evAcked>>

(* The consumer acknowledges an event that it received.                    *)
Ack(c, e) ==
  /\ c \in ByHand
  /\ evGot[c][e] > 0
  /\ evRetry' = [evRetry EXCEPT ![c][e] = Absent]
  /\ evAcked' = evAcked \cup {<<c, e>>}
  /\ UNCHANGED <<evPub, evSubs, evCons, evLook, evSend, evGot>>

SendStep(x) == SendStart(x) \/ SendTick(x) \/ SendDiscard(x) \/ SendRecord(x)

Lookup(c) == LookupRead(c) \/ \E e \in Events : LookupSend(c, e)

EventStreamNext ==
  \/ \E e \in Events : HandleEvent(e) \/ \E t \in EventTopics : Publish(e, t)
  \/ \E c \in Consumers : \/ \E o \in Options : Consume(c, o)
                          \/ Lookup(c)
                          \/ \E e \in Events : Ack(c, e)
  \/ \E x \in Senders : SendStep(x) \/ Receive(x)

(* Goroutines run, tickers tick, consumers keep reading their channel.     *)
EventStreamFairness ==
  /\ \A e \in Events : WF_evVars(HandleEvent(e))
  /\ \A c \in Consumers : WF_evVars(Lookup(c))
  /\ \A x \in Senders : WF_evVars(SendStep(x)) /\ WF_evVars(Receive(x))

-----------------------------------------------------------------------------
(* An event is given up only when it was acknowledged or was delivered     *)
(* once and retried RetryLimit times, although two senders may share the   *)
(* count and an acknowledgement may come between a delivery and the write  *)
(* of its count.                                                           *)
NeverGivenUpEarly ==
  \A x \in Senders :
    (Finished(x) /\ ConsumerOf(x) \in ByHand) =>
      \/ <<ConsumerOf(x), EventOf(x)>> \in evAcked
      \/ RetryLimit # Unlimited /\ evGot[ConsumerOf(x)][EventOf(x)] > RetryLimit

(* An event reaches every group that had a subscriber of its topic when it *)
(* was published, whatever other groups, senders and subscribers do.       *)
EventReachesGroup ==
  \A e \in Events, c \in Consumers :
    (c \in evPub[e].before /\ evCons[c].topic = evPub[e].topic) ~>
      \E d \in Consumers : /\ evCons[d].group = evCons[c].group
                           /\ evGot[d][e] > 0

=============================================================================
