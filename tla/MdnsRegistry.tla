---------------------------- MODULE MdnsRegistry ----------------------------
(***************************************************************************)
(* The multicast DNS registry: registry/mdns_registry.go on util/mdns.     *)
(*                                                                         *)
(* Every node that is registered has an mdns server of its own, and every  *)
(* service one more, the wildcard `MdStar', which answers list queries.  A *)
(* server that starts announces itself; one that is shut down multicasts   *)
(* its records with time to live 0, closes its sockets and waits for its   *)
(* announcements to end.  A query asks every server on the network and     *)
(* collects what comes back until its time is up; a listener passes what   *)
(* it hears to the watchers.  Datagrams are lost, doubled and reordered.   *)
(***************************************************************************)
EXTENDS Naturals, Sequences, SequencesExt, FiniteSets

CONSTANTS MdServices, MdNodes, MdStar,   \* "*", the wildcard's id
          MdQueries, MdWatchers,
          MdStarters,                    \* goroutines that Watch may start
          MdRoom,                        \* 32, room in a watcher's channel
          MdMaxOps                       \* bound on Register and Deregister

ASSUME MdnsAssumption == MdStar \notin MdNodes /\ MdRoom \in Nat \ {0} /\ MdMaxOps \in Nat

MdIds == MdNodes \cup {MdStar}

VARIABLES mdEntries,     \* service -> set of entry ids; domain: the keys of the map
          mdServer,      \* <<service, id>> -> "down", "up", "leaving"
          mdProbe,       \* <<service, node>> -> what its announcements say
          mdOp,          \* the Deregister that holds the lock, or {}
          mdQuery,       \* query -> its state
          mdWatch,       \* watcher -> "new", "on", "stopped"
          mdQueue,       \* watcher -> entries it has to look at
          mdListener,    \* m.listener is set
          mdStarter,     \* pc of the listener goroutines
          mdOps,
          mdEarly        \* history: services deregistered when they were not there

mdVars == <<mdEntries, mdServer, mdProbe, mdOp, mdQuery, mdWatch, mdQueue, mdListener,
            mdStarter, mdOps, mdEarly>>

mdNet == <<mdWatch, mdListener, mdStarter>>

MdnsInit ==
  /\ mdEntries = <<>> /\ mdEarly = {} /\ mdOps = 0 /\ mdOp = {}
  /\ mdServer = [x \in MdServices \X MdIds |-> "down"]
  /\ mdProbe = [x \in MdServices \X MdNodes |-> "none"]
  /\ mdQuery = [q \in MdQueries |-> [pc |-> "new", name |-> {}, wire |-> {}, seen |-> <<>>,
                                     sent |-> {}, result |-> <<>>, known |-> {}]]
  /\ mdWatch = [w \in MdWatchers |-> "new"] /\ mdQueue = [w \in MdWatchers |-> <<>>]
  /\ mdListener = FALSE /\ mdStarter = [g \in MdStarters |-> "idle"]

MdEntriesOf(s) == IF s \in DOMAIN mdEntries THEN mdEntries[s] ELSE {}

-----------------------------------------------------------------------------
(* The network.  A multicast reaches each query that runs, or not, and the *)
(* listener, or not, which offers it to every watcher's channel.           *)
MdListening == \E g \in MdStarters : mdStarter[g] = "listening"

MdMulticast(s, n, ttl) ==
  /\ \E Q \in SUBSET {q \in MdQueries : mdQuery[q].pc = "asking"} :
       mdQuery' = [q \in MdQueries |->
         IF q \in Q THEN [mdQuery[q] EXCEPT !.wire = @ \cup {<<s, n, ttl, "unasked">>}]
                    ELSE mdQuery[q]]
  /\ \E heard \in IF MdListening THEN BOOLEAN ELSE {FALSE} :
       mdQueue' = [w \in MdWatchers |->
         IF heard /\ mdWatch[w] = "on" /\ Len(mdQueue[w]) < MdRoom
         THEN Append(mdQueue[w], <<s, n, ttl>>) ELSE mdQueue[w]]

(* probe: three questions, then the announcements, whose records are read  *)
(* once, when the questions are done.                                      *)
MdProbeReads(s, n) ==
  /\ mdProbe[<<s, n>>] = "asks"
  /\ mdProbe' = [mdProbe EXCEPT ![<<s, n>>] = IF mdServer[<<s, n>>] = "up" THEN "says up"
                                                                        ELSE "says gone"]
  /\ UNCHANGED <<mdEntries, mdServer, mdOp, mdQuery, mdQueue, mdNet, mdOps, mdEarly>>

(* SendMulticast; the announcements end after the third or at shutdown.    *)
MdAnnounce(s, n) ==
  /\ mdProbe[<<s, n>>] \in {"says up", "says gone"}
  /\ IF mdServer[<<s, n>>] = "down" THEN UNCHANGED <<mdQuery, mdQueue>>
     ELSE MdMulticast(s, n, IF mdProbe[<<s, n>>] = "says up" THEN 120 ELSE 0)
  /\ mdProbe' = [mdProbe EXCEPT ![<<s, n>>] = "none"]
  /\ UNCHANGED <<mdEntries, mdServer, mdOp, mdNet, mdOps, mdEarly>>

-----------------------------------------------------------------------------
(* Register: a wildcard for a service that has no key in the map, a server *)
(* for every node that has no entry; the nodes in `bad' cannot be encoded, *)
(* parsed or served.  Entries there already are left as they are.          *)
MdRegister(s, N, bad) ==
  LET old == MdEntriesOf(s)
      base == IF s \in DOMAIN mdEntries THEN old ELSE {MdStar}
      new == (N \ old) \ bad
  IN  /\ mdOp = {} /\ mdOps < MdMaxOps
      /\ mdOps' = mdOps + 1
      /\ mdEntries' = [t \in DOMAIN mdEntries \cup {s} |->
                         IF t = s THEN base \cup new ELSE mdEntries[t]]
      /\ mdServer' = [x \in DOMAIN mdServer |->
                        IF x[1] = s /\ x[2] \in new \cup (base \ old) THEN "up" ELSE mdServer[x]]
      /\ mdProbe' = [x \in DOMAIN mdProbe |->
                       IF x[1] = s /\ x[2] \in new THEN "asks" ELSE mdProbe[x]]
      /\ mdQuery' = [q \in MdQueries |->
                       [mdQuery[q] EXCEPT !.known = @ \cup {<<s, n>> : n \in base \cup new}]]
      /\ UNCHANGED <<mdOp, mdQueue, mdNet, mdEarly>>

(* Deregister takes the lock, shuts down the server of each of the nodes   *)
(* that has an entry, one after the other, and then keeps the rest.        *)
MdDeregister(s, N) ==
  /\ mdOp = {} /\ mdOps < MdMaxOps
  /\ mdOps' = mdOps + 1
  /\ mdOp' = {[name |-> s, nodes |-> N, left |-> N \cap MdEntriesOf(s), now |-> {}]}
  /\ mdEarly' = IF s \in DOMAIN mdEntries THEN mdEarly ELSE mdEarly \cup {s}
  /\ UNCHANGED <<mdEntries, mdServer, mdProbe, mdQuery, mdQueue, mdNet>>

(* Shutdown: shutdown is set and the time to live becomes 0; unregister.   *)
MdShutdown(op, n) ==
  /\ mdOp = {op} /\ op.now = {} /\ n \in op.left
  /\ mdOp' = {[op EXCEPT !.left = @ \ {n}, !.now = {n}]}
  /\ mdServer' = [mdServer EXCEPT ![<<op.name, n>>] = "leaving"]
  /\ MdMulticast(op.name, n, 0)
  /\ UNCHANGED <<mdEntries, mdProbe, mdNet, mdOps, mdEarly>>

MdCloseSockets(op, n) ==
  /\ mdOp = {op} /\ op.now = {n} /\ mdServer[<<op.name, n>>] = "leaving"
  /\ mdServer' = [mdServer EXCEPT ![<<op.name, n>>] = "down"]
  /\ UNCHANGED <<mdEntries, mdProbe, mdOp, mdQuery, mdQueue, mdNet, mdOps, mdEarly>>

MdProbeWaited(op, n) ==
  /\ mdOp = {op} /\ op.now = {n} /\ mdServer[<<op.name, n>>] = "down"
  /\ mdProbe[<<op.name, n>>] = "none"
  /\ mdOp' = {[op EXCEPT !.now = {}]}
  /\ UNCHANGED <<mdEntries, mdServer, mdProbe, mdQuery, mdQueue, mdNet, mdOps, mdEarly>>

(* Mutant: the wildcard's entry goes, its server stays.                    *)
MdDeregisteredStays(op) ==
  LET rest == MdEntriesOf(op.name) \ op.nodes
  IN  /\ mdOp = {op} /\ op.left = {} /\ op.now = {}
      /\ mdOp' = {}
      /\ mdEntries' = [t \in (DOMAIN mdEntries \cup {op.name}) \
                              (IF rest = {MdStar} THEN {op.name} ELSE {}) |->
                         IF t = op.name THEN rest ELSE mdEntries[t]]
      /\ UNCHANGED <<mdServer, mdProbe, mdQuery, mdQueue, mdNet, mdOps, mdEarly>>

(* The wildcard goes with the last node.  Where there was no entry, a key  *)
(* without entries stays.                                                  *)
MdDeregistered(op) ==
  LET rest == MdEntriesOf(op.name) \ op.nodes
      last == rest = {MdStar}
  IN  /\ mdOp = {op} /\ op.left = {} /\ op.now = {}
      /\ mdOp' = {}
      /\ mdEntries' = [t \in (DOMAIN mdEntries \cup {op.name}) \ (IF last THEN {op.name} ELSE {})
                         |-> IF t = op.name THEN rest ELSE mdEntries[t]]
      /\ mdServer' = IF last THEN [mdServer EXCEPT ![<<op.name, MdStar>>] = "down"] ELSE mdServer
      /\ UNCHANGED <<mdProbe, mdQuery, mdQueue, mdNet, mdOps, mdEarly>>

-----------------------------------------------------------------------------
(* GetService(s), and ListServices, which asks for `MdStar': one question  *)
(* to everyone.                                                            *)
MdAsk(q, name) ==
  /\ mdQuery[q].pc = "new"
  /\ mdQuery' = [mdQuery EXCEPT ![q].pc = "asking", ![q].name = {name},
                   ![q].known = UNION {{<<s, n>> : n \in mdEntries[s]} : s \in DOMAIN mdEntries}]
  /\ UNCHANGED <<mdEntries, mdServer, mdProbe, mdOp, mdQueue, mdNet, mdOps, mdEarly>>

(* Records: does the zone of this server answer the question?              *)
MdRecords(s, n, name) ==
  IF n = MdStar THEN name = MdStar ELSE name = s

(* handleQuery of a server whose sockets are open: the answer has the      *)
(* question in it and the time to live the zone has now.                   *)
MdAnswer(q, s, n) ==
  LET ttl == IF n # MdStar /\ mdServer[<<s, n>>] = "leaving" THEN 0 ELSE 120
  IN  /\ mdQuery[q].pc = "asking" /\ mdServer[<<s, n>>] # "down"
      /\ \E name \in mdQuery[q].name : MdRecords(s, n, name)
      /\ mdQuery' = [mdQuery EXCEPT ![q].wire = @ \cup {<<s, n, ttl, "asked">>}]
      /\ UNCHANGED <<mdEntries, mdServer, mdProbe, mdOp, mdQueue, mdNet, mdOps, mdEarly>>

(* query: messageToEntry fills the entry of the instance, if it is not     *)
(* complete yet; what was not asked for goes no further; an entry is       *)
(* passed on once, and dropped if its time to live is 0.  A datagram stays *)
(* on the wire: it may come twice.                                         *)
MdReceive(q, m) ==
  LET Q == mdQuery[q]
      x == <<m[1], m[2]>>
      ttl == IF x \in DOMAIN Q.seen THEN Q.seen[x] ELSE m[3]
      fresh == m[4] = "asked" /\ x \notin Q.sent
  IN  /\ Q.pc = "asking" /\ m \in Q.wire
      /\ mdQuery' = [mdQuery EXCEPT ![q] =
           [Q EXCEPT !.seen = [y \in DOMAIN @ \cup {x} |-> IF y = x THEN ttl ELSE @[y]],
                     !.sent = IF fresh THEN @ \cup {x} ELSE @,
                     !.result = IF fresh /\ ttl > 0 THEN Append(@, x) ELSE @]]
      /\ UNCHANGED <<mdEntries, mdServer, mdProbe, mdOp, mdQueue, mdNet, mdOps, mdEarly>>

(* The time is up.                                                         *)
MdAsked(q) ==
  /\ mdQuery[q].pc = "asking"
  /\ mdQuery' = [mdQuery EXCEPT ![q].pc = "done", ![q].wire = {}]
  /\ UNCHANGED <<mdEntries, mdServer, mdProbe, mdOp, mdQueue, mdNet, mdOps, mdEarly>>

-----------------------------------------------------------------------------
mdRest == <<mdEntries, mdServer, mdProbe, mdOp, mdQuery, mdOps, mdEarly>>

(* Watch saves the watcher and, if there is no listener, starts one.       *)
MdWatch(w) ==
  /\ mdWatch[w] = "new"
  /\ mdWatch' = [mdWatch EXCEPT ![w] = "on"]
  /\ \/ mdListener /\ UNCHANGED mdStarter
     \/ ~mdListener /\ \E g \in MdStarters : /\ mdStarter[g] = "idle"
                                             /\ mdStarter' = [mdStarter EXCEPT ![g] = "starts"]
  /\ UNCHANGED <<mdRest, mdQueue, mdListener>>

(* The goroutine of Watch, under the lock: nobody watches, somebody else   *)
(* listens already, or it listens.                                         *)
MdStart(g) ==
  LET none == \A w \in MdWatchers : mdWatch[w] # "on"
  IN  /\ mdStarter[g] = "starts"
      /\ mdStarter' = [mdStarter EXCEPT ![g] = IF none \/ mdListener THEN "idle" ELSE "listening"]
      /\ mdListener' = ~none
      /\ UNCHANGED <<mdRest, mdWatch, mdQueue>>

(* mdns.Listen returns, for its sockets failed; the goroutine starts over. *)
MdListenEnds(g) ==
  /\ mdStarter[g] = "listening"
  /\ mdStarter' = [mdStarter EXCEPT ![g] = "starts"]
  /\ mdListener' = FALSE
  /\ UNCHANGED <<mdRest, mdWatch, mdQueue>>

(* Next of the watcher, and its Stop.                                      *)
MdNext(w) ==
  /\ mdWatch[w] = "on" /\ mdQueue[w] # <<>>
  /\ mdQueue' = [mdQueue EXCEPT ![w] = Tail(@)]
  /\ UNCHANGED <<mdRest, mdNet>>

MdStop(w) ==
  /\ mdWatch[w] = "on"
  /\ mdWatch' = [mdWatch EXCEPT ![w] = "stopped"]
  /\ mdQueue' = [mdQueue EXCEPT ![w] = <<>>]
  /\ UNCHANGED <<mdRest, mdListener, mdStarter>>

MdnsRegistrar ==
  \/ \E s \in MdServices, N \in SUBSET MdNodes \ {{}} :
       MdDeregister(s, N) \/ \E bad \in SUBSET N : MdRegister(s, N, bad)
  \/ \E op \in mdOp : \/ MdDeregistered(op)
                      \/ \E n \in MdNodes : \/ MdShutdown(op, n) \/ MdCloseSockets(op, n)
                                            \/ MdProbeWaited(op, n)
  \/ \E s \in MdServices, n \in MdNodes : MdProbeReads(s, n) \/ MdAnnounce(s, n)

MdnsAsking ==
  \E q \in MdQueries : \/ MdAsked(q)
                       \/ \E name \in MdServices \cup {MdStar} : MdAsk(q, name)
                       \/ \E m \in mdQuery[q].wire : MdReceive(q, m)
                       \/ \E s \in MdServices, n \in MdIds : MdAnswer(q, s, n)

MdnsWatching ==
  \/ \E w \in MdWatchers : MdWatch(w) \/ MdNext(w) \/ MdStop(w)
  \/ \E g \in MdStarters : MdStart(g) \/ MdListenEnds(g)

(* Queries and watchers share nothing but the servers they hear.           *)
MdnsQueriesNext == MdnsRegistrar \/ MdnsAsking

MdnsWatchersNext == MdnsRegistrar \/ MdnsWatching

-----------------------------------------------------------------------------
(* What a query finds had an entry in the registry at some time since it   *)
(* was asked, is what was asked for, and is found once, whatever the       *)
(* network does to the datagrams.                                          *)
FoundWasRegistered ==
  \A q \in MdQueries :
    LET found == ToSet(mdQuery[q].result)
    IN  /\ found \subseteq mdQuery[q].known
        /\ Cardinality(found) = Len(mdQuery[q].result)
        /\ \A x \in found, name \in mdQuery[q].name : MdRecords(x[1], x[2], name)

(* A service is listed as long as it has an entry: outside a Deregister    *)
(* the wildcard's server runs exactly when the map has the service, if no  *)
(* service was ever deregistered that was not there.                       *)
ListedWithNodes ==
  mdOp = {} => \A s \in MdServices \ mdEarly :
                 mdServer[<<s, MdStar>>] = "up" <=> s \in DOMAIN mdEntries

(* Where there is a watcher there is a listener, or a goroutine about to   *)
(* be one; and m.listener is set only while somebody listens.              *)
WatchersAreFed ==
  /\ (\E w \in MdWatchers : mdWatch[w] = "on") =>
        \E g \in MdStarters : mdStarter[g] \in {"starts", "listening"}
  /\ mdListener => MdListening

(* The registry and the network agree.                                     *)
DiscoverySound == FoundWasRegistered /\ ListedWithNodes /\ WatchersAreFed

=============================================================================
