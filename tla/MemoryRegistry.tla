--------------------------- MODULE MemoryRegistry ---------------------------
(***************************************************************************)
(* The in-memory service registry, registry/memory.go.                     *)
(*                                                                         *)
(* A service has versions and a version has nodes.  Register and           *)
(* Deregister change the records under the registry's lock and start a     *)
(* goroutine (sendEvent) that takes a snapshot of the watchers and offers  *)
(* the event to each of them for a moment: two events can overtake each    *)
(* other and a slow watcher misses them.  A node whose TTL has passed is   *)
(* pruned in silence.                                                      *)
(*                                                                         *)
(* A service is passed by pointer: the *Service that a server registers is *)
(* the one its events carry.  Such objects are numbered, and objs[o] is    *)
(* the current content of o.Nodes.                                         *)
(***************************************************************************)
EXTENDS Naturals, FiniteSets

CONSTANTS Servers,    \* servers; each advertises one node, itself
          Services,   \* service names
          Versions,   \* version strings
          ServiceOf,  \* ServiceOf[p], VersionOf[p]: what server p advertises
          VersionOf,
          Watchers,   \* watcher objects
          MaxOps,     \* bound: calls of Register and Deregister
          Nil

ASSUME RegistryAssumption ==
          /\ ServiceOf \in [Servers -> Services]
          /\ VersionOf \in [Servers -> Versions]
          /\ MaxOps \in Nat
          /\ Nil \notin Servers

VARIABLES records,   \* records[s][v]: the nodes of a record, Nil if there is none
          expired,   \* nodes with time.Since(LastSeen) > TTL
          watchers,  \* per watcher: "none" (not in m.watchers), "open", "stopped"
          wants,     \* the service name each watcher filters by
          events,    \* the sendEvent goroutines
          objs,      \* contents of the service objects made so far
          ops        \* how many calls were made

regVars == <<records, expired, watchers, wants, events, objs, ops>>

-----------------------------------------------------------------------------
RegInit ==
  /\ records = [s \in Services |-> [v \in Versions |-> Nil]]
  /\ expired = {}
  /\ watchers = [w \in Watchers |-> "none"]
  /\ wants = [w \in Watchers |-> Nil]
  /\ events = {}
  /\ objs = [o \in {} |-> {}]
  /\ ops = 0

(* The versions of a service that have a record, and all its nodes.        *)
Recorded(view) == {v \in Versions : view[v] # Nil}
NodesIn(view) == UNION {view[v] : v \in Recorded(view)}
Known(s) == Recorded(records[s]) # {}

(* A fresh *Service with the given nodes.                                  *)
NewObj == Cardinality(DOMAIN objs) + 1
Alloc(nodes) == [o \in 1..NewObj |-> IF o = NewObj THEN nodes ELSE objs[o]]

(* go m.sendEvent(&Result{action, service})                                *)
Send(action, s, v, o) ==
  events' = events \cup {[id |-> ops, action |-> action, service |-> s, version |-> v,
                          obj |-> o, to |-> Nil]}

(* The records of one service after Register: a new record, or the missing *)
(* nodes added to the one there is.                                        *)
Registered(view, v, nodes) ==
  [view EXCEPT ![v] = IF @ = Nil THEN nodes ELSE @ \cup nodes]

(* Whether Register announces anything: a new record or an added node.     *)
Announces(view, v, nodes) == view[v] = Nil \/ ~(nodes \subseteq view[v])

(* ... and after Deregister: a record without nodes is removed.            *)
Deregistered(view, v, nodes) ==
  IF view[v] = Nil THEN view
  ELSE [view EXCEPT ![v] = IF @ \subseteq nodes THEN Nil ELSE @ \ nodes]

(* Register of object o with content nodes.  The nodes that get a new      *)
(* LastSeen: those of a new record, the added ones, or, if none was added, *)
(* all of them - an announcing Register does not refresh the others.       *)
Register(s, v, o, nodes) ==
  /\ ops < MaxOps
  /\ ops' = ops + 1
  /\ records' = [records EXCEPT ![s] = Registered(@, v, nodes)]
  /\ IF Announces(records[s], v, nodes)
     THEN /\ Send("update", s, v, o)
          /\ expired' = expired \ (IF records[s][v] = Nil THEN nodes
                                   ELSE nodes \ records[s][v])
     ELSE /\ expired' = expired \ nodes
          /\ UNCHANGED events
  /\ UNCHANGED <<watchers, wants>>

(* Deregister of object o: the event is sent whenever the service is known.*)
Deregister(s, v, o, nodes) ==
  /\ ops < MaxOps
  /\ ops' = ops + 1
  /\ records' = [records EXCEPT ![s] = Deregistered(@, v, nodes)]
  /\ expired' = expired \ (IF records[s][v] = Nil THEN {} ELSE nodes)
  /\ IF Known(s) THEN Send("delete", s, v, o) ELSE UNCHANGED events
  /\ UNCHANGED <<watchers, wants>>

(* The TTL of a registered node passes.                                    *)
Expire(p) ==
  /\ \E s \in Services : p \in NodesIn(records[s])
  /\ p \notin expired
  /\ expired' = expired \cup {p}
  /\ UNCHANGED <<records, watchers, wants, events, objs, ops>>

(* ttlPrune removes the expired nodes, leaves empty records behind and     *)
(* sends no event.                                                         *)
Prune ==
  /\ expired # {}
  /\ records' = [s \in Services |-> [v \in Versions |->
                   IF records[s][v] = Nil THEN Nil ELSE records[s][v] \ expired]]
  /\ expired' = {}
  /\ UNCHANGED <<watchers, wants, events, objs, ops>>

(* Watch(WatchService(s)).                                                 *)
Watch(w, s) ==
  /\ watchers' = [watchers EXCEPT ![w] = "open"]
  /\ wants' = [wants EXCEPT ![w] = s]
  /\ UNCHANGED <<records, expired, objs, ops>>

(* memWatcher.Stop; the registry still holds the watcher.                  *)
StopWatcher(w) ==
  /\ watchers' = [watchers EXCEPT ![w] = IF @ = "open" THEN "stopped" ELSE @]
  /\ UNCHANGED <<records, expired, wants, events, objs, ops>>

(* sendEvent: the snapshot of the watchers.                                *)
Snapshot(e) ==
  /\ e.to = Nil
  /\ LET ws == {w \in Watchers : watchers[w] # "none"} IN
     events' = (events \ {e}) \cup (IF ws = {} THEN {} ELSE {[e EXCEPT !.to = ws]})
  /\ UNCHANGED <<records, expired, watchers, wants, objs, ops>>

(* sendEvent is finished with watcher w.                                   *)
Offered(e, w) ==
  events' = (events \ {e}) \cup (IF e.to = {w} THEN {} ELSE {[e EXCEPT !.to = @ \ {w}]})

(* sendEvent: a stopped watcher is removed from the registry.              *)
Forget(e, w) ==
  /\ e.to # Nil /\ w \in e.to /\ watchers[w] = "stopped"
  /\ watchers' = [watchers EXCEPT ![w] = "none"]
  /\ wants' = [wants EXCEPT ![w] = Nil]
  /\ Offered(e, w)
  /\ UNCHANGED <<records, expired, objs, ops>>

(* sendEvent: nobody received within sendEventTime.  (Also a watcher that  *)
(* was stopped after the check of its exit channel.)                       *)
Drop(e, w) ==
  /\ e.to # Nil /\ w \in e.to
  /\ Offered(e, w)
  /\ UNCHANGED <<records, expired, watchers, wants, objs, ops>>

(* sendEvent meets the watcher's Next; what the receiver does with it, or  *)
(* that the filter of Next drops it, is up to the receiver.                *)
Deliver(e, w) ==
  /\ e.to # Nil /\ w \in e.to /\ watchers[w] = "open"
  /\ Offered(e, w)
  /\ UNCHANGED <<records, expired, watchers, wants, objs, ops>>
=============================================================================
