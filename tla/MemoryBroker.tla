---------------------------- MODULE MemoryBroker ----------------------------
(***************************************************************************)
(* The in-memory broker of broker/memory.go.                               *)
(*                                                                         *)
(* Publish takes the list of a topic under the read lock, releases the     *)
(* lock and calls the handlers one by one on the publisher's goroutine.    *)
(* Subscribe looks at `connected' under the read lock and appends under    *)
(* the write lock later.  Unsubscribe only puts a value in the             *)
(* subscriber's channel of one place; a goroutine of the subscriber        *)
(* receives it and removes the subscriber under the write lock.            *)
(***************************************************************************)
EXTENDS Naturals, Sequences, SequencesExt

CONSTANTS Topics,          \* topics
          MemSubs,         \* memorySubscriber objects, one per Subscribe
          Publishers,      \* goroutines that publish
          MaxPublish       \* bound: Publish calls of a publisher

VARIABLES memConnected,    \* memoryBroker.connected
          memList,         \* memoryBroker.Subscribers: topic -> sequence
          memSub,          \* each subscriber: its goroutines, topic, channel
          memPub           \* each publisher: the handlers it has yet to call

memVars == <<memConnected, memList, memSub, memPub>>

MemSubStates == {"none", "checked", "waiting", "exiting", "removed"}

(* The type invariant of the memory broker.                                *)
MemBrokerTypeOK ==
  /\ memConnected \in BOOLEAN
  /\ memList \in [Topics -> Seq(MemSubs)]
  /\ memSub \in [MemSubs -> [pc : MemSubStates, topic : Topics, exit : 0..1]]
  /\ memPub \in [Publishers -> [todo : Seq(MemSubs), left : 0..MaxPublish]]

MemBrokerInit ==
  /\ memConnected = FALSE
  /\ memList = [t \in Topics |-> <<>>]
  /\ memSub = [s \in MemSubs |-> [pc |-> "none", exit |-> 0,
                                  topic |-> CHOOSE t \in Topics : TRUE]]
  /\ memPub = [p \in Publishers |-> [todo |-> <<>>, left |-> MaxPublish]]

(* Connect and Disconnect, under the write lock.                           *)
MemConnect ==
  /\ ~ memConnected
  /\ memConnected' = TRUE
  /\ UNCHANGED <<memList, memSub, memPub>>

MemDisconnect ==
  /\ memConnected
  /\ memConnected' = FALSE
  /\ UNCHANGED <<memList, memSub, memPub>>

(* Subscribe: the check under the read lock (an unconnected broker is an   *)
(* error and changes nothing), then the append and the start of the        *)
(* goroutine that waits for Unsubscribe.                                   *)
MemSubscribeCheck(s, t) ==
  /\ memConnected
  /\ memSub[s].pc = "none"
  /\ memSub' = [memSub EXCEPT ![s].pc = "checked", ![s].topic = t]
  /\ UNCHANGED <<memConnected, memList, memPub>>

MemSubscribeAppend(s) ==
  /\ memSub[s].pc = "checked"
  /\ memList' = [memList EXCEPT ![memSub[s].topic] = Append(@, s)]
  /\ memSub' = [memSub EXCEPT ![s].pc = "waiting"]
  /\ UNCHANGED <<memConnected, memPub>>

(* Unsubscribe: a send on a channel of one place, which blocks when an     *)
(* earlier value is still there.                                           *)
MemUnsubscribe(s) ==
  /\ memSub[s].pc \in {"waiting", "exiting", "removed"}
  /\ memSub[s].exit = 0
  /\ memSub' = [memSub EXCEPT ![s].exit = 1]
  /\ UNCHANGED <<memConnected, memList, memPub>>

(* The subscriber's goroutine: receives, then rewrites the list of the     *)
(* topic without this subscriber.                                          *)
MemExitReceived(s) ==
  /\ memSub[s].pc = "waiting"
  /\ memSub[s].exit = 1
  /\ memSub' = [memSub EXCEPT ![s].pc = "exiting", ![s].exit = 0]
  /\ UNCHANGED <<memConnected, memList, memPub>>

(* Mutant: the goroutine leaves the list alone when the broker is not      *)
(* connected.                                                              *)
MemRemoveConnected(s) ==
  /\ memSub[s].pc = "exiting"
  /\ memList' = IF memConnected
                THEN [memList EXCEPT ![memSub[s].topic] =
                        SelectSeq(@, LAMBDA sb : sb # s)]
                ELSE memList
  /\ memSub' = [memSub EXCEPT ![s].pc = "removed"]
  /\ UNCHANGED <<memConnected, memPub>>

MemRemove(s) ==
  /\ memSub[s].pc = "exiting"
  /\ memList' = [memList EXCEPT ![memSub[s].topic] =
                   SelectSeq(@, LAMBDA sb : sb # s)]
  /\ memSub' = [memSub EXCEPT ![s].pc = "removed"]
  /\ UNCHANGED <<memConnected, memPub>>

(* Publish: the snapshot of the list (an unconnected broker is an error, a *)
(* topic nobody subscribed is nothing to do), then one handler at a time.  *)
(* A handler that fails ends the Publish unless there is an ErrorHandler.  *)
MemPublish(p, t) ==
  /\ memPub[p].todo = <<>>
  /\ memPub[p].left > 0
  /\ memConnected
  /\ memPub' = [memPub EXCEPT ![p] = [todo |-> memList[t], left |-> @.left - 1]]
  /\ UNCHANGED <<memConnected, memList, memSub>>

MemHandle(p, fails, errorHandler) ==
  /\ memPub[p].todo # <<>>
  /\ memPub' = [memPub EXCEPT ![p].todo =
                  IF fails /\ ~ errorHandler THEN <<>> ELSE Tail(@)]
  /\ UNCHANGED <<memConnected, memList, memSub>>

MemHandles(p) == \E fails, errorHandler \in BOOLEAN :
                   MemHandle(p, fails, errorHandler)

MemBrokerNext ==
  \/ MemConnect
  \/ MemDisconnect
  \/ \E s \in MemSubs : \/ \E t \in Topics : MemSubscribeCheck(s, t)
                        \/ MemSubscribeAppend(s)
                        \/ MemUnsubscribe(s)
                        \/ MemExitReceived(s)
                        \/ MemRemove(s)
  \/ \E p \in Publishers : \/ \E t \in Topics : MemPublish(p, t)
                           \/ MemHandles(p)

(* Goroutines run; handlers return.                                        *)
MemBrokerFairness ==
  /\ \A s \in MemSubs : /\ WF_memVars(MemExitReceived(s))
                        /\ WF_memVars(MemRemove(s))
  /\ \A p \in Publishers : WF_memVars(MemHandles(p))

-----------------------------------------------------------------------------
(* Unsubscribe returns before the subscriber is gone, and publishers go on *)
(* with the list they read.  Still, after an Unsubscribe there is a time   *)
(* after which no Publish calls the handler again, whatever is published,  *)
(* subscribed, connected or disconnected meanwhile.                        *)
UnsubscribedForGood ==
  \A s \in MemSubs :
    memSub[s].exit = 1 ~>
      [] /\ ~ Contains(memList[memSub[s].topic], s)
         /\ \A p \in Publishers : ~ Contains(memPub[p].todo, s)

=============================================================================
