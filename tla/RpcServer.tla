------------------------------ MODULE RpcServer ------------------------------
(***************************************************************************)
(* The life of a server (server/rpc_server.go): Start, Stop, Init and      *)
(* Subscribe called by users, the registrar and the accept loop that each  *)
(* Start leaves running, and the connections (ServeConn) that run next to  *)
(* them.                                                                   *)
(*                                                                         *)
(* Stop hands a channel to the registrar over s.exit and waits on it.  The *)
(* registrar answers after it has deregistered, waited for the requests    *)
(* and closed the listener; it disconnects the broker and restores the     *)
(* address after the answer, when Stop may already have returned.          *)
(*                                                                         *)
(* The registry, the broker and the transport are reduced to what the      *)
(* server sees of them: the address registered for the node, whether the   *)
(* broker is connected, the subscriptions it holds, the open ports.        *)
(***************************************************************************)
EXTENDS Naturals, FiniteSets

CONSTANTS Users,      \* goroutines that call Start, Stop, Init, Subscribe
          Starts,     \* registrars: one for each Start that succeeds
          Conns,      \* connections
          Ports,      \* what the transport can bind
          Conf,       \* the configured address, with port 0
          Subs,       \* subscribers
          Nil,
          ValidHost,  \* whether the address to advertise is an IP address
          UseWg,      \* whether the option Wait was given
          Failing,    \* connections that may end with an error
          MaxFails,   \* bound: errors of the registry, the broker, the check
          MaxReqs,    \* bound: requests
          MaxInits,   \* bound: calls of Init
          MaxExpiries \* bound: registrations lost to their ttl

ASSUME RpcServerAssumption ==
  /\ Users \cap Starts = {} /\ Nil \notin Users \cup Ports \cup {Conf}
  /\ Failing \subseteq Conns /\ UseWg \in BOOLEAN /\ ValidHost \in BOOLEAN
  /\ MaxFails \in Nat /\ MaxReqs \in Nat /\ MaxInits \in Nat /\ MaxExpiries \in Nat

Threads == Users \cup Starts
Addrs == Ports \cup {Conf}
Attempts == 3

VARIABLES started, registered, address, advertise,
          rsvc,      \* the address in the cached service, or Nil
          known,     \* the keys of s.subscribers
          subs,      \* those of them that hold a broker subscription
          registry,  \* the address registered for the node, or Nil
          broker,    \* whether the broker is connected
          live,      \* live[b]: broker subscriptions made for b and not undone
          stray,     \* history: stray[b], those of them that the server let go
          open,      \* bound ports
          th,        \* th[t]: where a thread is, and its local variables
          listen,    \* listen[i]: the accept loop of a Start
          conn,      \* conn[c]: where ServeConn is
          running,   \* connections with a request being served
          draining,  \* history: draining[i], the requests in progress at the exit
                     \* signal of i and not finished since
          fails, reqs, inits, expiries,
          kept       \* history: the last Deregister of a shutdown failed

optVars == <<address, advertise>>
subVars == <<known, subs, live, stray>>
connVars == <<conn, running, draining, reqs>>
extVars == <<registry, broker, open>>
srvVars == <<started, registered, rsvc>>
bounds == <<fails, inits, expiries>>
vars == <<srvVars, optVars, subVars, extVars, th, listen, connVars, bounds, kept>>

Local == [pc |-> "idle", addr |-> Nil, reg |-> Nil, port |-> Nil, was |-> FALSE,
          tries |-> 0, ch |-> Nil]

Init ==
  /\ started = FALSE /\ registered = FALSE /\ rsvc = Nil
  /\ address = Conf /\ advertise = Nil
  /\ known = {} /\ subs = {}
  /\ live = [b \in Subs |-> 0] /\ stray = [b \in Subs |-> 0]
  /\ registry = Nil /\ broker = FALSE /\ open = {}
  /\ th = [t \in Threads |-> Local]
  /\ listen = [i \in Starts |-> "off"]
  /\ conn = [c \in Conns |-> "new"] /\ running = {}
  /\ draining = [i \in Starts |-> {}]
  /\ fails = 0 /\ reqs = 0 /\ inits = 0 /\ expiries = 0 /\ kept = FALSE

At(t, pc) == th[t].pc = pc
Goto(t, pc) == th' = [th EXCEPT ![t].pc = pc]
Fail == fails < MaxFails /\ fails' = fails + 1

(* getAddr: the advertised address if there is one, else the address.      *)
GetAddr == IF advertise # Nil THEN advertise ELSE address

-----------------------------------------------------------------------------
(* Register and Deregister, run by a user (in Start) or by a registrar.    *)

(* Where the caller of Register goes on.                                   *)
Returns(t) == IF t \in Users THEN "spawn" ELSE "select"
Finished(t) == [th EXCEPT ![t] = [@ EXCEPT !.pc = Returns(t), !.reg = Nil, !.was = FALSE,
                                           !.tries = 0]]

(* mutant: a cached service counts as registered *)
RegisterBeginCached(t) ==
  /\ At(t, "register")
  /\ th' = IF rsvc # Nil THEN Finished(t)
           ELSE [th EXCEPT ![t].pc = "fresh", ![t].reg = GetAddr]
  /\ UNCHANGED <<srvVars, optVars, subVars, extVars, listen, connVars, bounds, kept>>

(* Options, then the cached service, if any, is what will be registered.   *)
RegisterBegin(t) ==
  /\ At(t, "register")
  /\ th' = [th EXCEPT ![t].pc = IF rsvc # Nil THEN "cached" ELSE "fresh",
                      ![t].reg = IF rsvc # Nil THEN rsvc ELSE GetAddr]
  /\ UNCHANGED <<srvVars, optVars, subVars, extVars, listen, connVars, bounds, kept>>

RegisterRemembers(t) ==
  /\ At(t, "fresh")
  /\ th' = [th EXCEPT ![t].pc = "attempt", ![t].was = registered]
  /\ UNCHANGED <<srvVars, optVars, subVars, extVars, listen, connVars, bounds, kept>>

(* newRegFuc: up to three attempts, with a pause after each that fails.    *)
TryRegister(t) ==
  /\ th[t].pc \in {"cached", "attempt"}
  /\ registry' = th[t].reg
  /\ IF At(t, "cached") \/ th[t].was THEN th' = Finished(t) ELSE Goto(t, "commit")
  /\ UNCHANGED <<srvVars, optVars, subVars, broker, open, listen, connVars, bounds, kept>>

TryRegisterFails(t) ==
  /\ th[t].pc \in {"cached", "attempt"}
  /\ Fail
  /\ th' = IF th[t].tries + 1 < Attempts
           THEN [th EXCEPT ![t].tries = @ + 1] ELSE Finished(t)
  /\ UNCHANGED <<srvVars, optVars, subVars, extVars, listen, connVars, inits, expiries, kept>>

(* The first registration, under the lock: remember it, then subscribe; a  *)
(* failing subscription ends the loop over the map, which has no order.    *)
ReSubscribe(done) ==
  /\ subs' = subs \cup done
  /\ live' = [b \in Subs |-> live[b] + IF b \in done THEN 1 ELSE 0]

(* mutant: only a registration whose subscriptions were made is remembered *)
RegisterCommitLate(t) ==
  /\ At(t, "commit")
  /\ advertise' = th[t].reg
  /\ \E done \in SUBSET known :
       /\ ReSubscribe(done)
       /\ IF done = known
          THEN registered' = TRUE /\ rsvc' = th[t].reg /\ UNCHANGED fails
          ELSE Fail /\ UNCHANGED <<registered, rsvc>>
  /\ th' = Finished(t)
  /\ UNCHANGED <<started, address, known, stray, extVars, listen, connVars, inits, expiries,
                 kept>>

RegisterCommit(t) ==
  /\ At(t, "commit")
  /\ registered' = TRUE
  /\ rsvc' = IF ValidHost THEN th[t].reg ELSE rsvc
  /\ advertise' = th[t].reg
  /\ \E done \in SUBSET known :
       /\ ReSubscribe(done)
       /\ IF done = known THEN UNCHANGED fails ELSE Fail
  /\ th' = Finished(t)
  /\ UNCHANGED <<started, address, known, stray, extVars, listen, connVars, inits, expiries,
                 kept>>

(* The server forgets subscriptions that the broker still holds.           *)
LetGo(bs) == stray' = [b \in Subs |-> stray[b] + IF b \in bs THEN 1 ELSE 0]

(* Where the caller of Deregister goes on: the shutdown or the tick.       *)
DeregReturns(t) == IF th[t].ch # Nil THEN "wait" ELSE "register"

Deregister(t) ==
  /\ At(t, "dereg")
  /\ registry' = Nil
  /\ Goto(t, "forget")
  /\ UNCHANGED <<srvVars, optVars, subVars, broker, open, listen, connVars, bounds, kept>>

DeregisterFails(t) ==
  /\ At(t, "dereg")
  /\ Fail
  /\ kept' = (kept \/ th[t].ch # Nil)
  /\ Goto(t, DeregReturns(t))
  /\ UNCHANGED <<srvVars, optVars, subVars, extVars, listen, connVars, inits, expiries>>

(* mutant: the subscriptions stay at the broker *)
DeregisterCommitKeeps(t) ==
  /\ At(t, "forget")
  /\ rsvc' = Nil /\ registered' = FALSE /\ subs' = {}
  /\ Goto(t, DeregReturns(t))
  /\ UNCHANGED <<started, optVars, known, live, stray, extVars, listen, connVars,
                 bounds, kept>>

(* Under the lock: forget the service, undo the subscriptions.  An error   *)
(* of Unsubscribe is logged and the subscription forgotten all the same.   *)
DeregisterCommit(t) ==
  /\ At(t, "forget")
  /\ rsvc' = Nil
  /\ registered' = FALSE
  /\ \E refused \in SUBSET subs :
       /\ IF registered
          THEN /\ live' = [b \in Subs |-> live[b] - IF b \in subs \ refused THEN 1 ELSE 0]
               /\ LetGo(refused)
               /\ subs' = {}
          ELSE refused = {} /\ UNCHANGED <<live, stray, subs>>
       /\ IF refused = {} THEN UNCHANGED fails ELSE Fail
  /\ Goto(t, DeregReturns(t))
  /\ UNCHANGED <<started, optVars, known, extVars, listen, connVars, inits, expiries,
                 kept>>

-----------------------------------------------------------------------------
(* Start.                                                                  *)

(* Listen on the address of the options: port 0 takes a free port.         *)
Bindable == IF address = Conf THEN Ports \ open ELSE {address} \ open

(* mutant: Start does not ask whether the server runs *)
StartListenAgain(u) ==
  /\ At(u, "idle")
  /\ \E i \in Starts : At(i, "idle")
  /\ \E p \in Ports \ open :
       /\ open' = open \cup {p}
       /\ th' = [th EXCEPT ![u].pc = "swap", ![u].addr = address, ![u].port = p]
  /\ UNCHANGED <<srvVars, optVars, subVars, registry, broker, listen, connVars, bounds, kept>>

StartListen(u) ==
  /\ At(u, "idle") /\ ~started
  /\ \E i \in Starts : At(i, "idle")
  /\ \E p \in Bindable :
       /\ open' = open \cup {p}
       /\ th' = [th EXCEPT ![u].pc = "swap", ![u].addr = address, ![u].port = p]
  /\ UNCHANGED <<srvVars, optVars, subVars, registry, broker, listen, connVars, bounds, kept>>

StartSwap(u) ==
  /\ At(u, "swap")
  /\ address' = th[u].port
  /\ Goto(u, "connect")
  /\ UNCHANGED <<srvVars, advertise, subVars, extVars, listen, connVars, bounds, kept>>

StartConnect(u) ==
  /\ At(u, "connect")
  /\ broker' = TRUE
  /\ Goto(u, "check")
  /\ UNCHANGED <<srvVars, optVars, subVars, registry, open, listen, connVars, bounds, kept>>

(* Start returns the error; the listener stays open, the address swapped.  *)
StartConnectFails(u) ==
  /\ At(u, "connect")
  /\ Fail
  /\ th' = [th EXCEPT ![u] = Local]
  /\ UNCHANGED <<srvVars, optVars, subVars, extVars, listen, connVars, inits, expiries, kept>>

StartCheck(u) ==
  /\ At(u, "check")
  /\ \/ Goto(u, "register") /\ UNCHANGED fails
     \/ Fail /\ Goto(u, "spawn")
  /\ UNCHANGED <<srvVars, optVars, subVars, extVars, listen, connVars, inits, expiries, kept>>

StartSpawn(u) ==
  /\ At(u, "spawn")
  /\ \E i \in Starts :
       /\ At(i, "idle")
       /\ th' = [th EXCEPT ![i] = [Local EXCEPT !.pc = "select", !.addr = th[u].addr,
                                                !.port = th[u].port],
                           ![u] = [Local EXCEPT !.pc = "set"]]
       /\ listen' = [listen EXCEPT ![i] = "accepting"]
  /\ UNCHANGED <<srvVars, optVars, subVars, extVars, connVars, bounds, kept>>

StartDone(u) ==
  /\ At(u, "set")
  /\ started' = TRUE
  /\ Goto(u, "idle")
  /\ UNCHANGED <<registered, rsvc, optVars, subVars, extVars, listen, connVars, bounds, kept>>

-----------------------------------------------------------------------------
(* Stop.  The channel is handed over at once when a registrar waits in its *)
(* select; else Stop blocks in the send.                                   *)

(* The registrar leaves its loop with u's channel: the ticker is stopped   *)
(* and the channel of the accept loop closed; a registered server          *)
(* deregisters first.                                                      *)
Leave(i, u) ==
  [th EXCEPT ![i].ch = u, ![i].pc = IF registered THEN "dereg" ELSE "wait",
             ![u].pc = "await"]

StopSend(u) ==
  /\ At(u, "idle") /\ started
  /\ IF \E i \in Starts : At(i, "select")
     THEN \E i \in Starts :
            /\ At(i, "select")
            /\ th' = Leave(i, u)
            /\ draining' = [draining EXCEPT ![i] = running]
     ELSE Goto(u, "send") /\ UNCHANGED draining
  /\ UNCHANGED <<srvVars, optVars, subVars, extVars, listen, conn, running, reqs,
                 bounds, kept>>

RegistrarExit(i) ==
  /\ At(i, "select")
  /\ \E u \in Users : At(u, "send") /\ th' = Leave(i, u)
  /\ draining' = [draining EXCEPT ![i] = running]
  /\ UNCHANGED <<srvVars, optVars, subVars, extVars, listen, conn, running, reqs,
                 bounds, kept>>

StopReturn(u) ==
  /\ At(u, "answered")
  /\ started' = FALSE
  /\ Goto(u, "idle")
  /\ UNCHANGED <<registered, rsvc, optVars, subVars, extVars, listen, connVars, bounds, kept>>

-----------------------------------------------------------------------------
(* The registrar's tick: check, and register again.  A check that fails    *)
(* deregisters a registered server, and then registers it all the same.    *)
Tick(i) ==
  /\ At(i, "select")
  /\ \/ Goto(i, "register") /\ UNCHANGED fails
     \/ Fail /\ Goto(i, IF registered THEN "dereg" ELSE "select")
  /\ UNCHANGED <<srvVars, optVars, subVars, extVars, listen, connVars, inits, expiries, kept>>

(* mutant: nobody is waited for *)
RegistrarHurries(i) ==
  /\ At(i, "wait")
  /\ Goto(i, "close")
  /\ UNCHANGED <<srvVars, optVars, subVars, extVars, listen, connVars, bounds, kept>>

(* Wait for the requests counted in the wait group, if there is one.       *)
RegistrarWait(i) ==
  /\ At(i, "wait")
  /\ UseWg => running = {}
  /\ Goto(i, "close")
  /\ UNCHANGED <<srvVars, optVars, subVars, extVars, listen, connVars, bounds, kept>>

(* mutant: the answer is never sent *)
RegistrarSilent(i) ==
  /\ At(i, "close")
  /\ open' = open \ {th[i].port}
  /\ Goto(i, "disconnect")
  /\ UNCHANGED <<srvVars, optVars, subVars, registry, broker, listen, connVars, bounds, kept>>

(* Close the listener and answer Stop.                                     *)
RegistrarClose(i) ==
  /\ At(i, "close")
  /\ open' = open \ {th[i].port}
  /\ th' = [th EXCEPT ![i].pc = "disconnect", ![th[i].ch].pc = "answered"]
  /\ UNCHANGED <<srvVars, optVars, subVars, registry, broker, listen, connVars, bounds, kept>>

RegistrarDisconnect(i) ==
  /\ At(i, "disconnect")
  /\ broker' = FALSE
  /\ Goto(i, "restore")
  /\ UNCHANGED <<srvVars, optVars, subVars, registry, open, listen, connVars, bounds, kept>>

RegistrarRestore(i) ==
  /\ At(i, "restore")
  /\ address' = th[i].addr
  /\ th' = [th EXCEPT ![i] = [Local EXCEPT !.pc = "off", !.ch = th[i].ch]]
  /\ UNCHANGED <<srvVars, advertise, subVars, extVars, listen, connVars, bounds, kept>>

Accepts(i) == th[i].pc \notin {"idle", "disconnect", "restore", "off"}

(* The accept loop: Accept fails once the listener is closed; the loop     *)
(* then ends because the registrar has closed its exit channel.            *)
ListenReturns(i) ==
  /\ listen[i] = "accepting"
  /\ ~Accepts(i) /\ th[i].ch # Nil
  /\ listen' = [listen EXCEPT ![i] = "done"]
  /\ UNCHANGED <<srvVars, optVars, subVars, extVars, th, connVars, bounds, kept>>


-----------------------------------------------------------------------------
(* Connections.                                                            *)
ConnOpen(c) ==
  /\ conn[c] = "new"
  /\ \E i \in Starts : listen[i] = "accepting" /\ Accepts(i)
  /\ conn' = [conn EXCEPT ![c] = "serving"]
  /\ UNCHANGED <<srvVars, optVars, subVars, extVars, th, listen, running, draining, reqs,
                 bounds, kept>>

(* A request counts in the connection's and in the server's wait group.    *)
ConnRequest(c) ==
  /\ conn[c] = "serving" /\ c \notin running /\ reqs < MaxReqs
  /\ running' = running \cup {c}
  /\ reqs' = reqs + 1
  /\ UNCHANGED <<srvVars, optVars, subVars, extVars, th, listen, conn, draining, bounds, kept>>

RequestDone(c) ==
  /\ c \in running
  /\ running' = running \ {c}
  /\ draining' = [i \in Starts |-> draining[i] \ {c}]
  /\ UNCHANGED <<srvVars, optVars, subVars, extVars, th, listen, conn, reqs, bounds, kept>>

(* "Connection: close": ServeConn waits for its own requests.              *)
ConnClose(c) ==
  /\ conn[c] = "serving"
  /\ conn' = [conn EXCEPT ![c] = "closing"]
  /\ UNCHANGED <<srvVars, optVars, subVars, extVars, th, listen, running, draining, reqs,
                 bounds, kept>>

ConnClosed(c) ==
  /\ conn[c] = "closing" /\ c \notin running
  /\ conn' = [conn EXCEPT ![c] = "done"]
  /\ UNCHANGED <<srvVars, optVars, subVars, extVars, th, listen, running, draining, reqs,
                 bounds, kept>>

(* Recv fails, with EOF when the client hangs up: ServeConn does not wait, *)
(* and its select takes a channel that a Stop is offering on s.exit, on    *)
(* which nobody will answer.                                               *)
ConnError(c) ==
  /\ c \in Failing /\ conn[c] = "serving"
  /\ conn' = [conn EXCEPT ![c] = "done"]
  /\ IF \E u \in Users : At(u, "send")
     THEN \E u \in Users : At(u, "send") /\ Goto(u, "lost")
     ELSE UNCHANGED th
  /\ UNCHANGED <<srvVars, optVars, subVars, extVars, listen, running, draining, reqs,
                 bounds, kept>>

-----------------------------------------------------------------------------
(* Init forgets the cached service.  (The router that it makes anew is in  *)
(* RpcRouter.)                                                             *)
InitOptions(u) ==
  /\ At(u, "idle") /\ inits < MaxInits
  /\ inits' = inits + 1
  /\ rsvc' = Nil
  /\ UNCHANGED <<started, registered, optVars, known, subs, live, stray, extVars, th, listen,
                 connVars, fails, expiries, kept>>

(* Subscribe puts b in the map with no subscription: when b had one        *)
(* already it is forgotten, and b is subscribed again at the next first    *)
(* registration.                                                           *)
Subscribe(u, b) ==
  /\ At(u, "idle")
  /\ known' = known \cup {b}
  /\ LetGo(subs \cap {b})
  /\ subs' = subs \ {b}
  /\ UNCHANGED <<srvVars, optVars, live, extVars, th, listen, connVars,
                 bounds, kept>>

(* The registration's ttl passes (external).                               *)
Expire ==
  /\ registry # Nil /\ expiries < MaxExpiries
  /\ registry' = Nil
  /\ expiries' = expiries + 1
  /\ UNCHANGED <<srvVars, optVars, subVars, broker, open, th, listen, connVars, fails,
                 inits, kept>>

-----------------------------------------------------------------------------
Registration(t) ==
  \/ RegisterBegin(t) \/ RegisterRemembers(t) \/ TryRegister(t) \/ TryRegisterFails(t)
  \/ RegisterCommit(t) \/ Deregister(t) \/ DeregisterFails(t) \/ DeregisterCommit(t)

Starting(u) ==
  \/ StartSwap(u) \/ StartConnect(u) \/ StartConnectFails(u) \/ StartCheck(u)
  \/ StartSpawn(u) \/ StartDone(u)

Shutdown(i) ==
  \/ RegistrarWait(i) \/ RegistrarClose(i) \/ RegistrarDisconnect(i) \/ RegistrarRestore(i)

Serving(c) ==
  ConnOpen(c) \/ ConnRequest(c) \/ RequestDone(c) \/ ConnClose(c) \/ ConnClosed(c)
  \/ ConnError(c)

Next ==
  \/ \E t \in Threads : Registration(t)
  \/ \E u \in Users : StartListen(u) \/ Starting(u) \/ StopSend(u) \/ StopReturn(u)
  \/ \E u \in Users : InitOptions(u) \/ \E b \in Subs : Subscribe(u, b)
  \/ \E i \in Starts : Tick(i) \/ RegistrarExit(i) \/ Shutdown(i) \/ ListenReturns(i)
  \/ \E c \in Conns : Serving(c)
  \/ Expire

Spec == Init /\ [][Next]_vars

(* Goroutines that can run do run; the ticker keeps firing; a registrar    *)
(* that comes back to its select again and again does not take its tick    *)
(* for ever while a Stop is waiting (Go's select chooses at random);       *)
(* handlers return.                                                        *)
FairSpec ==
  /\ Spec
  /\ \A t \in Threads : WF_vars(Registration(t))
  /\ \A u \in Users : WF_vars(Starting(u)) /\ WF_vars(StopReturn(u))
  /\ \A i \in Starts : /\ WF_vars(Tick(i)) /\ SF_vars(RegistrarExit(i))
                       /\ WF_vars(Shutdown(i)) /\ WF_vars(ListenReturns(i))
  /\ \A c \in Conns : WF_vars(RequestDone(c))

-----------------------------------------------------------------------------
PCs == {"idle", "register", "cached", "fresh", "attempt", "commit", "dereg", "forget",
        "swap", "connect", "check", "spawn", "set", "send", "await", "lost", "answered",
        "select", "wait", "close", "disconnect", "restore", "off"}

(* Type correctness; every Listen, attempt and answer stays in its range.  *)
TypeOK ==
  /\ started \in BOOLEAN /\ registered \in BOOLEAN /\ broker \in BOOLEAN
  /\ address \in Addrs /\ {advertise, rsvc, registry} \subseteq Addrs \cup {Nil}
  /\ subs \subseteq known /\ known \subseteq Subs
  /\ live \in [Subs -> Nat]
  /\ stray \in [Subs -> Nat]
  /\ open \subseteq Ports
  /\ th \in [Threads -> [pc : PCs, addr : Addrs \cup {Nil}, reg : Addrs \cup {Nil},
                         port : Ports \cup {Nil}, was : BOOLEAN,
                         tries : 0..Attempts, ch : Users \cup {Nil}]]
  /\ listen \in [Starts -> {"off", "accepting", "done"}]
  /\ conn \in [Conns -> {"new", "serving", "closing", "done"}]
  /\ running \subseteq Conns /\ draining \in [Starts -> SUBSET running]

(* No thread is inside Register or Deregister.                             *)
AtRest ==
  \A t \in Threads :
    th[t].pc \notin {"register", "cached", "fresh", "attempt", "commit", "dereg", "forget"}

Registrars == {i \in Starts : th[i].pc \notin {"idle", "off"}}
Looping == {i \in Registrars : th[i].ch = Nil}

(* Stop leaves no trace in the registry: once a server is stopped its node *)
(* is not registered, unless the registry refused the Deregister of the    *)
(* shutdown.  Rests on the registered flag being set for every             *)
(* registration that was made, also when subscribing failed afterwards.    *)
StoppedIsGone ==
  (~started /\ \A u \in Users : At(u, "idle")) => (registry = Nil \/ kept)

(* A server that runs, and is neither starting nor stopping, has exactly   *)
(* one registrar in its loop: a Start on a running server starts no        *)
(* second one, and no earlier one is left behind by a restart.             *)
OneRegistrar ==
  (started /\ \A u \in Users : th[u].pc \in {"idle", "send"}) => Cardinality(Looping) = 1

(* The broker holds exactly the subscriptions that the server remembers    *)
(* and those it let go, because Unsubscribe failed or because a subscriber *)
(* was given to Subscribe again: no registration, tick or restart          *)
(* subscribes twice what is subscribed.  And a server that is not          *)
(* registered, and is not about to be, remembers none: Deregister undoes   *)
(* what Register subscribed.                                               *)
SubscriptionsMatch ==
  /\ \A b \in Subs : live[b] = stray[b] + IF b \in subs THEN 1 ELSE 0
  /\ AtRest /\ ~registered => subs = {}

(* With the option Wait, every request that was in progress when the exit  *)
(* signal arrived is finished before the listener is closed and Stop is    *)
(* answered.                                                               *)
DrainedBeforeClose ==
  \A i \in Starts :
    (UseWg /\ th[i].pc \in {"close", "disconnect", "restore"}) => draining[i] = {}

(* A Stop that was called returns, unless a failing connection took its    *)
(* channel before the registrar did.                                       *)
StopReturns ==
  \A u \in Users : th[u].pc \in {"send", "await", "answered"} ~> (At(u, "idle") \/ At(u, "lost"))

(* The registrar keeps the service registered: a running server whose      *)
(* registration is lost is registered again, or is stopped.                *)
KeptRegistered == started ~> (registry # Nil \/ ~started)

(* What the code does not keep.                                            *)

(* server.go, "Stop the server": whatever the connections do, a Stop that  *)
(* was called returns.                                                     *)
StopAlwaysReturns ==
  \A u \in Users : th[u].pc \in {"send", "await", "lost", "answered"} ~> At(u, "idle")

=============================================================================
