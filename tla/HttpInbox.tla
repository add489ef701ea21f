----------------------------- MODULE HttpInbox ------------------------------
(***************************************************************************)
(* Publishing through the http broker, broker/http.go: the inbox of        *)
(* messages that could not be sent yet.                                    *)
(*                                                                         *)
(* Publish saves its message in the inbox, looks up who subscribed, and    *)
(* leaves a goroutine behind that takes a batch from the inbox, perhaps    *)
(* other messages than its own, and posts each message to every group: to  *)
(* all nodes of the broadcast group, to one node of a queue group.  A      *)
(* message that a group did not take is saved again; the inbox keeps the   *)
(* oldest messages when it is full.  Who is registered, and whether a post *)
(* arrives, are chosen freely: other processes decide.                     *)
(***************************************************************************)
EXTENDS Naturals, Sequences, SequencesExt, FiniteSets

CONSTANTS Messages,        \* messages of one topic, each published once
          Queues,          \* queue groups, the versions of the broker service
          Broadcast,       \* broadcastVersion
          Nodes,           \* nodes with subscribers
          InboxMax,        \* 64
          BatchMax         \* 8

ASSUME HttpInboxAssumption == /\ Broadcast \notin Queues
                              /\ InboxMax \in Nat \ {0}
                              /\ BatchMax \in Nat \ {0}

VARIABLES hbInbox,         \* httpBroker.inbox of the topic
          hbPub,           \* message -> its Publish and the goroutine of it
          hbFate           \* message -> what ended its stay in the broker

hbVars == <<hbInbox, hbPub, hbFate>>

Versions == Queues \cup {Broadcast}

(* The services that the registry returned: the nodes of each version that *)
(* are tagged with the topic.                                              *)
Services == [Versions -> SUBSET Nodes]

PubStates == {"none", "saved", "found", "sending", "done", "failed"}

(* The type invariant of publishing.                                       *)
HttpInboxTypeOK ==
  /\ Len(hbInbox) <= InboxMax
  /\ Range(hbInbox) \subseteq Messages
  /\ \A m \in Messages :
       /\ hbPub[m].pc \in PubStates
       /\ hbPub[m].services \in Services
       /\ Range(hbPub[m].batch) \subseteq Messages
       /\ Len(hbPub[m].batch) <= BatchMax
       /\ hbPub[m].todo \subseteq Versions
  /\ hbFate \in [Messages -> SUBSET {"taken", "cut", "nobody"}]

NoServices == [v \in Versions |-> {}]

HttpInboxInit ==
  /\ hbInbox = <<>>
  /\ hbPub = [m \in Messages |-> [pc |-> "none", services |-> NoServices,
                                  batch |-> <<>>, todo |-> {}]]
  /\ hbFate = [m \in Messages |-> {}]

(* Mutant: the inbox grows without limit.                                  *)
SavedUncut(m) == Append(hbInbox, m)

(* saveMessage: append, and cut what is over the limit.                    *)
Saved(m) == LET c == Append(hbInbox, m)
            IN  IF Len(c) > InboxMax THEN SubSeq(c, 1, InboxMax) ELSE c

CutBy(m) == IF Len(hbInbox) = InboxMax THEN {m} ELSE {}

(* getMessage: at most BatchMax of the oldest messages, and what remains.  *)
Batch == IF Len(hbInbox) >= BatchMax THEN SubSeq(hbInbox, 1, BatchMax) ELSE hbInbox
Rest == IF Len(hbInbox) >= BatchMax
        THEN SubSeq(hbInbox, BatchMax + 1, Len(hbInbox)) ELSE <<>>

Fates(ms, fate) == [m \in Messages |-> IF m \in ms THEN hbFate[m] \cup {fate}
                                       ELSE hbFate[m]]

(* Publish: save, then ask the registry; an error ends it.                 *)
HttpPublish(m) ==
  /\ hbPub[m].pc = "none"
  /\ hbPub' = [hbPub EXCEPT ![m].pc = "saved"]
  /\ hbInbox' = Saved(m)
  /\ hbFate' = Fates(CutBy(m), "cut")

HttpGetService(m) ==
  /\ hbPub[m].pc = "saved"
  /\ \/ hbPub' = [hbPub EXCEPT ![m].pc = "failed"]
     \/ \E s \in Services :
          hbPub' = [hbPub EXCEPT ![m].pc = "found", ![m].services = s]
  /\ UNCHANGED <<hbInbox, hbFate>>

(* The goroutine takes a batch.                                            *)
HttpTakeBatch(m) ==
  /\ hbPub[m].pc = "found"
  /\ hbPub' = [hbPub EXCEPT ![m].pc = "sending", ![m].batch = Batch, ![m].todo = Versions]
  /\ hbInbox' = Rest
  /\ UNCHANGED hbFate

(* It posts the first message of the batch to one version: `posted' are    *)
(* the nodes that took it.  A version without nodes is passed over.        *)
Posts(v, nodes) == IF v = Broadcast THEN SUBSET nodes
                   ELSE {{}} \cup {{n} : n \in nodes}

(* Mutant: a message that nobody took is forgotten.                        *)
HttpPostForgets(p, v) ==
  LET m == Head(hbPub[p].batch)
      nodes == hbPub[p].services[v]
  IN  \E posted \in Posts(v, nodes) :
        /\ hbPub' = [hbPub EXCEPT ![p].todo = @ \ {v}]
        /\ hbFate' = IF posted # {} THEN Fates({m}, "taken") ELSE hbFate
        /\ UNCHANGED hbInbox

HttpPost(p, v) ==
  LET m == Head(hbPub[p].batch)
      nodes == hbPub[p].services[v]
  IN  \E posted \in Posts(v, nodes) :
        /\ hbPub' = [hbPub EXCEPT ![p].todo = @ \ {v}]
        /\ \/ /\ nodes = {}
              /\ UNCHANGED <<hbInbox, hbFate>>
           \/ /\ posted # {}
              /\ hbFate' = Fates({m}, "taken")
              /\ UNCHANGED hbInbox
           \/ /\ nodes # {} /\ posted = {}
              /\ hbInbox' = Saved(m)
              /\ hbFate' = Fates(CutBy(m), "cut")

HttpSend(p, v) ==
  /\ hbPub[p].pc = "sending"
  /\ hbPub[p].batch # <<>>
  /\ v \in hbPub[p].todo
  /\ HttpPost(p, v)

(* The next message; a message that no version had nodes for is dropped.   *)
HttpNextMessage(p) ==
  /\ hbPub[p].pc = "sending"
  /\ hbPub[p].batch # <<>>
  /\ hbPub[p].todo = {}
  /\ hbPub' = [hbPub EXCEPT ![p].batch = Tail(@), ![p].todo = Versions]
  /\ hbFate' = IF hbPub[p].services = NoServices
               THEN Fates({Head(hbPub[p].batch)}, "nobody") ELSE hbFate
  /\ UNCHANGED hbInbox

HttpBatchDone(p) ==
  /\ hbPub[p].pc = "sending"
  /\ hbPub[p].batch = <<>>
  /\ hbPub' = [hbPub EXCEPT ![p].pc = "done", ![p].services = NoServices, ![p].todo = {}]
  /\ UNCHANGED <<hbInbox, hbFate>>

HttpInboxNext ==
  \E m \in Messages : \/ HttpPublish(m) \/ HttpGetService(m) \/ HttpTakeBatch(m)
                      \/ \E v \in Versions : HttpSend(m, v)
                      \/ HttpNextMessage(m) \/ HttpBatchDone(m)

-----------------------------------------------------------------------------
(* A published message is never forgotten while goroutines take batches    *)
(* with each other's messages and save again what failed: it waits in the  *)
(* inbox, or a goroutine has it, or some node took it, or it was cut from  *)
(* a full inbox, or nobody had subscribed when its turn came.  And the     *)
(* inbox keeps its bound, whoever saves what failed.                       *)
NoMessageForgotten ==
  /\ \A m \in Messages :
       hbPub[m].pc # "none" =>
         \/ Contains(hbInbox, m)
         \/ \E p \in Messages : Contains(hbPub[p].batch, m)
         \/ hbFate[m] # {}
  /\ Len(hbInbox) <= InboxMax

=============================================================================
