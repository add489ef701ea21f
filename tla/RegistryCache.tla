---------------------------- MODULE RegistryCache ----------------------------
(***************************************************************************)
(* The registry cache (registry/cache/cache.go) between the selector and a *)
(* registry, composed with the memory registry and with the servers that   *)
(* register themselves in it (server/rpc_server.go).                       *)
(*                                                                         *)
(* A getter serves from the cache while its entry is younger than the TTL; *)
(* else it makes sure that the service is watched (run, one goroutine per  *)
(* service) and refills the entry from the registry through a              *)
(* singleflight.  The watching goroutine applies registry events to the    *)
(* entry.  Locks are taken for each piece, never across: an event can come *)
(* between reading the registry and storing what was read.                 *)
(***************************************************************************)
EXTENDS MemoryRegistry

CONSTANTS Getters,   \* goroutines that call GetService
          MaxFails,  \* bound: how often the registry fails a call
          CanStop    \* whether Stop may be called

(* Nil is none of the values it stands in for.                             *)
ASSUME CacheAssumption ==
          /\ \A nodes \in SUBSET Servers : nodes # Nil
          /\ Nil \notin [obj : Nat, nodes : SUBSET Servers]
          /\ Nil \notin [Versions -> [obj : Nat, nodes : SUBSET Servers] \cup {Nil}]

Runners == Watchers  \* a run goroutine owns one watcher at a time

VARIABLES rsvc,      \* rsvc[p]: the service object server p has cached, or Nil
          gone,      \* servers that deregistered and did not register again
          cache,     \* cache[s]: Nil or an entry per version
          fresh,     \* the services whose ttl has not passed
          watched, running, status, stopped,
          run,       \* run[r]: where a run goroutine is, its service, its event
          get,       \* get[g]: where a getter is
          flight,    \* flight[s]: the getters waiting in the singleflight
          fails      \* how often the registry failed

serverVars == <<rsvc, gone>>
cacheVars == <<cache, fresh, watched, running, status, stopped>>
vars == <<regVars, serverVars, cacheVars, run, get, flight, fails>>

(* A view: per version the nodes, or Nil.                                  *)
Empty == [v \in Versions |-> Nil]

(* An entry of the cache is a copy or the very object an event carried.    *)
Copied(nodes) == [obj |-> 0, nodes |-> nodes]
Shared(o) == [obj |-> o, nodes |-> {}]
EntryNodes(e) == IF e.obj = 0 THEN e.nodes ELSE objs[e.obj]

ViewOf(c) ==
  IF c = Nil THEN Empty
  ELSE [v \in Versions |-> IF c[v] = Nil THEN Nil ELSE EntryNodes(c[v])]

CopyOf(view) ==
  [v \in Versions |-> IF view[v] = Nil THEN Nil ELSE Copied(view[v])]

Idle == [pc |-> "idle", service |-> Nil, old |-> Empty, new |-> Empty, err |-> FALSE,
         res |-> Empty]
NoRun == [pc |-> "none", service |-> Nil, event |-> Nil]

Init ==
  /\ RegInit
  /\ rsvc = [p \in Servers |-> Nil]
  /\ gone = Servers
  /\ cache = [s \in Services |-> Nil]
  /\ fresh = {} /\ watched = {} /\ running = {} /\ status = "nil" /\ stopped = FALSE
  /\ run = [r \in Runners |-> NoRun]
  /\ get = [g \in Getters |-> Idle]
  /\ flight = [s \in Services |-> {}]
  /\ fails = 0

-----------------------------------------------------------------------------
(* Mutant: the server caches a service that it never made.                 *)
ServerRegisterUnmade(p) ==
  LET o == IF rsvc[p] = Nil THEN NewObj ELSE rsvc[p] IN
  /\ Register(ServiceOf[p], VersionOf[p], o, {p})
  /\ rsvc' = [rsvc EXCEPT ![p] = o]
  /\ gone' = gone \ {p}
  /\ UNCHANGED <<objs, cacheVars, run, get, flight, fails>>

(* The servers (external to the cache): Register uses the cached service   *)
(* object or makes one with its own node; Deregister makes a new object    *)
(* and forgets the cached one.                                             *)
ServerRegister(p) ==
  LET o == IF rsvc[p] = Nil THEN NewObj ELSE rsvc[p]
      nodes == IF rsvc[p] = Nil THEN {p} ELSE objs[o]
  IN /\ Register(ServiceOf[p], VersionOf[p], o, nodes)
     /\ objs' = IF rsvc[p] = Nil THEN Alloc({p}) ELSE objs
     /\ rsvc' = [rsvc EXCEPT ![p] = o]
     /\ gone' = gone \ {p}
     /\ UNCHANGED <<cacheVars, run, get, flight, fails>>

ServerDeregister(p) ==
  /\ rsvc[p] # Nil
  /\ Deregister(ServiceOf[p], VersionOf[p], NewObj, {p})
  /\ objs' = Alloc({p})
  /\ rsvc' = [rsvc EXCEPT ![p] = Nil]
  /\ gone' = gone \cup {p}
  /\ UNCHANGED <<cacheVars, run, get, flight, fails>>

(* A server dies without a word; its node stays until its TTL passes.      *)
NodeExpires(p) ==
  Expire(p) /\ UNCHANGED <<serverVars, cacheVars, run, get, flight, fails>>

PruneNodes == Prune /\ UNCHANGED <<serverVars, cacheVars, run, get, flight, fails>>

EventStep(e) ==
  /\ \/ Snapshot(e)
     \/ \E w \in Watchers : Forget(e, w) \/ Drop(e, w)
  /\ UNCHANGED <<serverVars, cacheVars, run, get, flight, fails>>

-----------------------------------------------------------------------------
(* GetService and get.                                                     *)

(* The read-locked part: a valid entry is copied and returned; otherwise   *)
(* what there is is copied for later.                                      *)
GetRead(g, s) ==
  LET view == ViewOf(cache[s]) IN
  /\ get[g].pc = "idle"
  /\ get' = [get EXCEPT ![g] =
       IF Recorded(view) # {} /\ s \in fresh
       THEN [Idle EXCEPT !.res = view]
       ELSE [Idle EXCEPT !.pc = IF s \in watched THEN "fetch" ELSE "mark",
                         !.service = s, !.old = view]]
  /\ UNCHANGED <<regVars, serverVars, cacheVars, run, flight, fails>>

(* Mutant: the service is marked but nobody is started to watch it.        *)
GetMarkOnly(g) ==
  /\ get[g].pc = "mark"
  /\ watched' = watched \cup {get[g].service}
  /\ get' = [get EXCEPT ![g].pc = "fetch"]
  /\ UNCHANGED <<regVars, serverVars, cache, fresh, running, status, stopped, run, flight, fails>>

(* Under the lock: the service is watched from now on, by a new run        *)
(* goroutine unless one says that it is running.  (It says so only when it *)
(* starts.)                                                                *)
GetMark(g) ==
  LET s == get[g].service IN
  /\ get[g].pc = "mark"
  /\ watched' = watched \cup {s}
  /\ \/ /\ s \notin running
        /\ \E r \in Runners :
             /\ run[r].pc = "none"
             /\ run' = [run EXCEPT ![r] = [NoRun EXCEPT !.pc = "start", !.service = s]]
     \/ s \in running /\ UNCHANGED run
  /\ get' = [get EXCEPT ![g].pc = "fetch"]
  /\ UNCHANGED <<regVars, serverVars, cache, fresh, running, status, stopped, flight, fails>>

(* c.sg.Do: join the call in flight for this service or start one.         *)
GetJoin(g) ==
  LET s == get[g].service IN
  /\ get[g].pc = "fetch"
  /\ get' = [get EXCEPT ![g].pc = "flight"]
  /\ flight' = [flight EXCEPT ![s] = @ \cup {g}]
  /\ UNCHANGED <<regVars, serverVars, cacheVars, run, fails>>

(* Registry.GetService returns, to everyone in the flight: what is         *)
(* recorded, ErrNotFound, or (external) a failure of the registry.         *)
FlightReturns(s) ==
  /\ flight[s] # {}
  /\ \E failing \in BOOLEAN :
       /\ failing => fails < MaxFails
       /\ fails' = IF failing THEN fails + 1 ELSE fails
       /\ get' = [g \in Getters |->
            IF g \in flight[s]
            THEN [get[g] EXCEPT !.pc = "fetched", !.new = records[s],
                                !.err = failing \/ ~Known(s)]
            ELSE get[g]]
  /\ flight' = [flight EXCEPT ![s] = {}]
  /\ UNCHANGED <<regVars, serverVars, cacheVars, run>>

(* The registry failed: note it and serve what the cache had, if anything. *)
GetStale(g) ==
  /\ get[g].pc = "fetched" /\ get[g].err
  /\ status' = IF Recorded(get[g].old) # {} THEN "err" ELSE status
  /\ get' = [get EXCEPT ![g] = [Idle EXCEPT !.res = get[g].old]]
  /\ UNCHANGED <<regVars, serverVars, cache, fresh, watched, running, stopped, run, flight, fails>>

(* The registry answered: reset the status ...                             *)
GetClears(g) ==
  /\ get[g].pc = "fetched" /\ ~get[g].err
  /\ status' = "nil"
  /\ get' = [get EXCEPT ![g].pc = "store"]
  /\ UNCHANGED <<regVars, serverVars, cache, fresh, watched, running, stopped, run, flight, fails>>

(* ... and, under the lock again, store a copy and return.                 *)
GetStores(g) ==
  LET s == get[g].service IN
  /\ get[g].pc = "store"
  /\ cache' = [cache EXCEPT ![s] = CopyOf(get[g].new)]
  /\ fresh' = fresh \cup {s}
  /\ get' = [get EXCEPT ![g] = [Idle EXCEPT !.res = get[g].new]]
  /\ UNCHANGED <<regVars, serverVars, watched, running, status, stopped, run, flight, fails>>

(* Mutant: isValid does not look at the ttl.                               *)
TTLIgnored(s) == FALSE /\ UNCHANGED vars

(* The ttl of an entry passes.                                             *)
TTLPasses(s) ==
  /\ s \in fresh
  /\ fresh' = fresh \ {s}
  /\ UNCHANGED <<regVars, serverVars, cache, watched, running, status, stopped, run, get,
                 flight, fails>>

-----------------------------------------------------------------------------
(* update, as a function: the entries of a service after an event.  The    *)
(* event names version v and the nodes; o is its object.  The result says  *)
(* what happens to the entry: keep it as it is ("none"), store it and      *)
(* renew its ttl ("set"), or delete it ("del").                            *)

(* Mutant: the old nodes are not carried over into the updated service.    *)
MergedForgets(old, nodes) == nodes

(* "append old nodes to new service".                                      *)
Merged(old, nodes) == nodes \cup old

Updated(c, action, v, o, nodes) ==
  LET old == IF c[v] = Nil THEN {} ELSE EntryNodes(c[v])
      left == old \ nodes
      versions == {x \in Versions : c[x] # Nil}
  IN CASE nodes = {} ->
            [do |-> IF action = "delete" THEN "del" ELSE "none", entry |-> c, content |-> nodes]
       [] nodes # {} /\ action = "update" ->
            [do |-> "set", entry |-> [c EXCEPT ![v] = Shared(o)],
             content |-> IF c[v] = Nil THEN nodes ELSE Merged(old, nodes)]
       [] nodes # {} /\ action = "delete" /\ c[v] = Nil ->
            [do |-> "none", entry |-> c, content |-> nodes]
       [] nodes # {} /\ action = "delete" /\ c[v] # Nil /\ left # {} ->
            [do |-> "set",
             entry |-> IF c[v].obj = 0 THEN [c EXCEPT ![v] = Copied(left)] ELSE c,
             content |-> nodes]
       [] nodes # {} /\ action = "delete" /\ c[v] # Nil /\ left = {} /\ versions = {v} ->
            [do |-> "del", entry |-> c, content |-> nodes]
       [] OTHER ->
            [do |-> "set", entry |-> [c EXCEPT ![v] = Nil], content |-> nodes]

(* The service objects after that event: an update writes the merged nodes *)
(* into the object of the event, which is the server's own; a delete that  *)
(* leaves nodes writes them into the entry's object, if that is shared.    *)
ObjsAfter(c, action, v, o, nodes, u) ==
  IF u.do = "set" /\ action = "update" THEN [objs EXCEPT ![o] = u.content]
  ELSE IF u.do = "set" /\ action = "delete" /\ c[v].obj # 0 /\ objs[c[v].obj] \ nodes # {}
       THEN [objs EXCEPT ![c[v].obj] = @ \ nodes]
       ELSE objs

(* Mutant: update renews the ttl of what it deletes.                       *)
UpdateRenews(r) ==
  LET e == run[r].event
      s == e.service
      nodes == objs[e.obj]
      u == Updated(cache[s], e.action, e.version, e.obj, nodes)
  IN /\ run[r].pc = "update"
     /\ run' = [run EXCEPT ![r].pc = "next", ![r].event = Nil]
     /\ IF s \in watched /\ cache[s] # Nil
        THEN /\ cache' = [cache EXCEPT ![s] = IF u.do = "del" THEN Nil ELSE u.entry]
             /\ fresh' = fresh \cup {s}
             /\ objs' = ObjsAfter(cache[s], e.action, e.version, e.obj, nodes, u)
        ELSE UNCHANGED <<cache, fresh, objs>>
     /\ UNCHANGED <<records, expired, watchers, wants, events, ops, serverVars, watched, running,
                    status, stopped, get, flight, fails>>

(* del keeps the entry while the registry is in an error state.            *)
Deletes == status = "nil"

(* update(res) under the cache's lock: only services that are watched and  *)
(* cached.                                                                 *)
Update(r) ==
  LET e == run[r].event
      s == e.service
      nodes == objs[e.obj]
      u == Updated(cache[s], e.action, e.version, e.obj, nodes)
  IN /\ run[r].pc = "update"
     /\ run' = [run EXCEPT ![r].pc = "next", ![r].event = Nil]
     /\ IF s \in watched /\ cache[s] # Nil /\ (u.do = "set" \/ (u.do = "del" /\ Deletes))
        THEN /\ cache' = [cache EXCEPT ![s] = IF u.do = "set" THEN u.entry ELSE Nil]
             /\ fresh' = IF u.do = "set" THEN fresh \cup {s} ELSE fresh \ {s}
             /\ objs' = ObjsAfter(cache[s], e.action, e.version, e.obj, nodes, u)
        ELSE UNCHANGED <<cache, fresh, objs>>
     /\ UNCHANGED <<records, expired, watchers, wants, events, ops, serverVars, watched, running,
                    status, stopped, get, flight, fails>>

-----------------------------------------------------------------------------
(* run and watch.                                                          *)

(* run says that it runs.                                                  *)
RunStart(r) ==
  /\ run[r].pc = "start"
  /\ running' = running \cup {run[r].service}
  /\ run' = [run EXCEPT ![r].pc = "loop"]
  /\ UNCHANGED <<regVars, serverVars, cache, fresh, watched, status, stopped, get, flight, fails>>

(* The deferred reset of run: it forgets that ANY service is watched.      *)
RunExit(r) ==
  /\ run[r].pc = "loop" /\ stopped
  /\ watched' = {}
  /\ running' = running \ {run[r].service}
  /\ run' = [run EXCEPT ![r] = NoRun]
  /\ UNCHANGED <<regVars, serverVars, cache, fresh, status, stopped, get, flight, fails>>

(* Registry.Watch: from here on events reach this goroutine.               *)
RunWatch(r) ==
  /\ run[r].pc = "loop" /\ ~stopped
  /\ watchers[r] = "none"
  /\ Watch(r, run[r].service)
  /\ run' = [run EXCEPT ![r].pc = "next"]
  /\ UNCHANGED <<events, serverVars, cacheVars, get, flight, fails>>

(* External: Watch, or Next of an open watcher, fails; run notes it, backs *)
(* off and will watch again.  The failed watcher is stopped.               *)
RunFails(r) ==
  /\ fails < MaxFails
  /\ run[r].pc \in {"loop", "next"} /\ ~stopped
  /\ fails' = fails + 1
  /\ status' = "err"
  /\ run' = [run EXCEPT ![r].pc = "loop"]
  /\ watchers' = [watchers EXCEPT ![r] = "none"]
  /\ wants' = [wants EXCEPT ![r] = Nil]
  /\ events' = {[e EXCEPT !.to = IF @ = Nil THEN Nil ELSE @ \ {r}] :
                  e \in {x \in events : x.to # {r}}}
  /\ UNCHANGED <<records, expired, objs, ops, serverVars, cache, fresh, watched, running, stopped,
                 get, flight>>

(* Next returns an event of this service; others it skips.                 *)
RunNext(r, e) ==
  /\ run[r].pc = "next"
  /\ Deliver(e, r)
  /\ run' = IF e.service = wants[r]
            THEN [run EXCEPT ![r].pc = "event", ![r].event = e]
            ELSE run
  /\ UNCHANGED <<serverVars, cacheVars, get, flight, fails>>

(* An event came, so the registry works: the error status is reset.        *)
RunClears(r) ==
  /\ run[r].pc = "event"
  /\ status' = "nil"
  /\ run' = [run EXCEPT ![r].pc = "update"]
  /\ UNCHANGED <<regVars, serverVars, cache, fresh, watched, running, stopped, get, flight, fails>>

(* After Stop the helper of watch stops the watcher, Next returns an error *)
(* and run finds that it has to quit.                                      *)
RunQuits(r) ==
  /\ run[r].pc = "next" /\ stopped
  /\ StopWatcher(r)
  /\ run' = [run EXCEPT ![r].pc = "loop"]
  /\ UNCHANGED <<serverVars, cacheVars, get, flight, fails>>

Stop ==
  /\ CanStop /\ ~stopped
  /\ stopped' = TRUE
  /\ UNCHANGED <<regVars, serverVars, cache, fresh, watched, running, status, run, get, flight, fails>>

-----------------------------------------------------------------------------
GetStep(g) ==
  \/ \E s \in Services : GetRead(g, s)
  \/ GetMark(g) \/ GetJoin(g) \/ GetStale(g) \/ GetClears(g) \/ GetStores(g)

RunStep(r) ==
  \/ RunStart(r) \/ RunExit(r) \/ RunWatch(r) \/ RunClears(r) \/ Update(r) \/ RunQuits(r)
  \/ \E e \in events : RunNext(r, e)

Next ==
  \/ \E p \in Servers : ServerRegister(p) \/ ServerDeregister(p) \/ NodeExpires(p)
  \/ PruneNodes
  \/ \E e \in events : EventStep(e)
  \/ \E g \in Getters : GetStep(g)
  \/ \E s \in Services : FlightReturns(s) \/ TTLPasses(s)
  \/ \E r \in Runners : RunStep(r) \/ RunFails(r)
  \/ Stop

(* Goroutines run, the ttl of an entry passes and getters keep asking for  *)
(* every service (Asking).  Servers need not do anything.                  *)
StepFairness ==
  /\ \A s \in Services : WF_vars(FlightReturns(s)) /\ WF_vars(TTLPasses(s))
  /\ \A g \in Getters : WF_vars(GetMark(g) \/ GetJoin(g) \/ GetStale(g) \/ GetClears(g) \/ GetStores(g))
  /\ \A r \in Runners : WF_vars(RunStart(r)) /\ WF_vars(RunClears(r)) /\ WF_vars(Update(r))
  /\ WF_vars(\E e \in events : EventStep(e) \/ \E r \in Runners : RunNext(r, e))
  /\ WF_vars(PruneNodes)

Asking(g) == \A s \in Services : SF_vars(GetRead(g, s))

Spec == Init /\ [][Next]_vars
FairSpec == Spec /\ StepFairness /\ \A g \in Getters : Asking(g)

-----------------------------------------------------------------------------
Views == [Versions -> {Nil} \cup SUBSET Servers]

(* Type correctness; every service object that an event, a server or the   *)
(* cache refers to exists.                                                 *)
TypeOK ==
  /\ records \in [Services -> Views]
  /\ expired \subseteq Servers
  /\ watchers \in [Watchers -> {"none", "open", "stopped"}]
  /\ ops \in 0..MaxOps
  /\ \A e \in events : e.obj \in DOMAIN objs /\ (e.to = Nil \/ e.to \subseteq Watchers)
  /\ \A o \in DOMAIN objs : objs[o] \subseteq Servers
  /\ \A p \in Servers : rsvc[p] = Nil \/ rsvc[p] \in DOMAIN objs
  /\ \A s \in Services : cache[s] # Nil => ViewOf(cache[s]) \in Views
  /\ fresh \subseteq Services /\ watched \subseteq Services /\ running \subseteq Services
  /\ status \in {"nil", "err"} /\ stopped \in BOOLEAN
  /\ \A g \in Getters : get[g].res \in Views /\ get[g].old \in Views
  /\ \A r \in Runners : run[r].pc \in {"none", "start", "loop", "next", "event", "update"}

RunsOf(s) == {r \in Runners : run[r].pc # "none" /\ run[r].service = s}

(* Until Stop, a watched service has a goroutine that watches it: get      *)
(* starts one only for a service that is not watched, so it would never be *)
(* replaced.                                                               *)
WatchedIsRun == ~stopped => \A s \in Services : (s \in watched) <=> (RunsOf(s) # {})

(* The cache's view of a service after an event that it applies, when it   *)
(* agreed with the registry before.                                        *)
ViewAfter(s, action, v, nodes) ==
  LET c == CopyOf(records[s])
      u == Updated(c, action, v, 0, nodes)
  IN IF u.do = "del" THEN Empty
     ELSE IF u.do = "none" THEN records[s]
     ELSE [x \in Versions |->
             IF action = "update" /\ x = v THEN u.content
             ELSE IF u.entry[x] = Nil THEN Nil ELSE u.entry[x].nodes]

(* update mirrors the registry: whenever the cache agrees with the         *)
(* registry, applying the event of the next Register or Deregister of any  *)
(* server makes it agree with the registry after that call - whichever     *)
(* versions, nodes and empty (pruned) records there are.                   *)
UpdateMirrorsRegistry ==
  \A p \in Servers :
    LET s == ServiceOf[p]
        v == VersionOf[p]
    IN /\ Announces(records[s], v, {p}) /\ Known(s) =>
            ViewAfter(s, "update", v, {p}) = Registered(records[s], v, {p})
       /\ Known(s) => ViewAfter(s, "delete", v, {p}) = Deregistered(records[s], v, {p})

(* An entry that is served without asking the registry has something in it *)
(* and is watched: otherwise nothing would correct it before its ttl.      *)
FreshIsWatched ==
  ~stopped => \A s \in fresh : cache[s] # Nil /\ Recorded(ViewOf(cache[s])) # {} /\ s \in watched

(* A node that left the registry for good, while its service stays, is not *)
(* served for ever, however many events were lost or came late: the ttl    *)
(* ends what no event corrected.                                           *)
GoneNodeForgotten(g) ==
  \A p \in Servers :
    <>[](~stopped /\ Known(ServiceOf[p]) /\ p \notin NodesIn(records[ServiceOf[p]]))
      => <>[](p \notin NodesIn(get[g].res))

(* ... and a node that came for good is found.                             *)
NewIsFound(g) ==
  \A p \in Servers :
    <>[](~stopped /\ p \in NodesIn(records[ServiceOf[p]])) => []<>(p \in NodesIn(get[g].res))

(* What a getter of a selector that runs is given follows the registry in  *)
(* the end, whatever events are lost or late and whatever calls fail.      *)
Converges(g) == GoneNodeForgotten(g) /\ NewIsFound(g)

(* What the code does not keep.                                            *)
(* memory_test.go: "after all the service nodes have been deregistered we  *)
(* should not get any results": a node that its server deregistered is in  *)
(* the registry again only when that server registers it again.            *)
NoResurrection == \A s \in Services : NodesIn(records[s]) \cap gone = {}
=============================================================================
