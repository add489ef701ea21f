---------------------------- MODULE LocalRuntime ----------------------------
(***************************************************************************)
(* The local runtime: runtime/default.go, runtime/service.go and           *)
(* runtime/local/process/os/os.go.                                         *)
(*                                                                         *)
(* The runtime keeps a table of services, here the entry of one name and   *)
(* version; RtObjects are the service objects that successive Creates put  *)
(* there.  A service forks a process and leaves a goroutine behind that    *)
(* waits for it; the run loop starts again, at every tick, what is not     *)
(* running.  Two locks matter: the runtime's (Create, Delete and Stop hold *)
(* it while they fork or wait for a killed process, a tick holds it for    *)
(* reading) and the service's.  Update holds neither between its steps.    *)
(* A loop may be of an earlier Start: run reads r.closed again each time.  *)
(***************************************************************************)
EXTENDS Naturals, FiniteSets

CONSTANTS RtObjects,     \* service objects, all of the same key
          RtUpdates,     \* concurrent calls of Update, those of events included
          RtLoops,       \* run loops, one for each effective Start
          RtMaxForks,    \* bound on the processes
          RtMaxRetries   \* service.maxRetries

ASSUME RuntimeAssumption == /\ RtMaxForks \in Nat \ {0}
                            /\ RtMaxRetries \in Nat
                            /\ IsFiniteSet(RtLoops)

VARIABLES rtEntry,       \* namespaces[ns][key]: at most one service object
          rtService,     \* object -> its fields
          rtProcs,       \* pid -> owner and state of the process
          rtWaits,       \* goroutines in service.Wait: object, pid and pc
          rtHolder,      \* who holds the runtime's write lock
          rtLoop,        \* loop -> its pc and the channel it selects on
          rtClosed,      \* the closed channels are those up to this one
          rtUpdate,      \* update -> its pc and service
          rtRaced        \* history: objects an Update or a late tick may start

rtVars == <<rtEntry, rtService, rtProcs, rtWaits, rtHolder, rtLoop, rtClosed,
            rtUpdate, rtRaced>>

RtPids == 1..RtMaxForks
RtRunning == Cardinality({l \in RtLoops : rtLoop[l].pc # "new"}) > rtClosed
RtStarts == Cardinality({l \in RtLoops : rtLoop[l].pc # "new"})
RtNotStopped == RtRunning \/ rtClosed = 0
RtAlive(o) == {p \in RtPids : rtProcs[p].owner = {o} /\ rtProcs[p].state = "alive"}
RtForked == {p \in RtPids : rtProcs[p].owner # {}}

RtFresh == [running |-> FALSE, retries |-> 0, closed |-> FALSE, pid |-> 0,
            lock |-> "free", made |-> FALSE]

RuntimeInit ==
  /\ rtEntry = {}
  /\ rtService = [o \in RtObjects |-> RtFresh]
  /\ rtProcs = [p \in RtPids |-> [owner |-> {}, state |-> "none"]]
  /\ rtWaits = {}
  /\ rtHolder = "free"
  /\ rtLoop = [l \in RtLoops |-> [pc |-> "new", gen |-> 0]]
  /\ rtClosed = 0
  /\ rtUpdate = [u \in RtUpdates |-> [pc |-> "idle", object |-> {}]]
  /\ rtRaced = {}

-----------------------------------------------------------------------------
(* The service.                                                            *)

RtShouldStart(o) == /\ ~rtService[o].running
                    /\ rtService[o].retries <= RtMaxRetries

(* Start, under the service's lock: the next pid, and a goroutine waiting  *)
(* for it.  A Fork that fails leaves the service reset but not running.    *)
RtStartService(o) ==
  /\ rtService[o].lock = "free"
  /\ \/ /\ ~RtShouldStart(o)
        /\ UNCHANGED <<rtService, rtProcs, rtWaits>>
     \/ /\ RtShouldStart(o) /\ RtForked # RtPids
        /\ LET p == Cardinality(RtForked) + 1
           IN  /\ rtProcs' = [rtProcs EXCEPT ![p] = [owner |-> {o}, state |-> "alive"]]
               /\ rtService' = [rtService EXCEPT
                    ![o] = [@ EXCEPT !.running = TRUE, !.retries = 0, !.closed = FALSE,
                                     !.pid = p, !.made = TRUE]]
               /\ rtWaits' = rtWaits \cup {[object |-> o, start |-> p, pid |-> 0]}
     \/ /\ RtShouldStart(o)
        /\ rtService' = [rtService EXCEPT ![o] = [@ EXCEPT !.retries = 0, !.closed = FALSE,
                                                           !.made = TRUE]]
        /\ UNCHANGED <<rtProcs, rtWaits>>

(* Stop, first half: close the channel, forget the retries and kill; the   *)
(* lock stays with the caller until the process is gone.                   *)
RtStopService(o, who) ==
  /\ rtService[o].lock = "free"
  /\ rtService' = [rtService EXCEPT
       ![o] = IF @.closed THEN @
              ELSE [running |-> FALSE, retries |-> 0, closed |-> TRUE, pid |-> @.pid,
                    lock |-> IF @.pid = 0 THEN "free" ELSE who, made |-> TRUE]]
  /\ UNCHANGED <<rtProcs, rtWaits>>

(* Stop, second half: the process, if it was there, has exited.            *)
RtStopped(o, who) ==
  /\ rtService[o].lock = who
  /\ rtProcs[rtService[o].pid].state # "alive"
  /\ rtService' = [rtService EXCEPT ![o].lock = "free"]

(* A process exits by itself, or because it was killed.                    *)
RtExit(p) ==
  /\ rtProcs[p].state = "alive"
  /\ rtProcs' = [rtProcs EXCEPT ![p].state = "exited"]
  /\ UNCHANGED <<rtEntry, rtService, rtWaits, rtHolder, rtLoop, rtClosed, rtUpdate, rtRaced>>

(* Wait: read the pid under the lock, wait for that process, and under the *)
(* lock again take the service for ended unless it has another process.    *)
RtWaitRead(w) ==
  /\ w.pid = 0
  /\ rtService[w.object].lock = "free"
  /\ rtWaits' = (rtWaits \ {w}) \cup {[w EXCEPT !.pid = rtService[w.object].pid]}
  /\ UNCHANGED <<rtEntry, rtService, rtProcs, rtHolder, rtLoop, rtClosed, rtUpdate, rtRaced>>

(* Mutant: the pid of the service is not looked at again.                  *)
RtIsSwitched(w) == FALSE

(* The service has been given another process meanwhile.                   *)
RtSwitched(w) == rtService[w.object].pid # w.pid

RtWaitDone(w) ==
  /\ w.pid # 0
  /\ rtProcs[w.pid].state # "alive"
  /\ rtService[w.object].lock = "free"
  /\ rtWaits' = rtWaits \ {w}
  /\ \/ RtSwitched(w) /\ UNCHANGED rtService
     \/ /\ ~RtSwitched(w)
        /\ \E failures \in {0, 1} :
             LET n == rtService[w.object].retries + failures
             IN  rtService' = [rtService EXCEPT
                   ![w.object] = [@ EXCEPT !.running = FALSE, !.retries = n]]
  /\ UNCHANGED <<rtEntry, rtProcs, rtHolder, rtLoop, rtClosed, rtUpdate, rtRaced>>

-----------------------------------------------------------------------------
(* The runtime.                                                            *)

RtReading == \E l \in RtLoops : rtLoop[l].pc = "tick"
RtUnlocked == rtHolder = "free" /\ ~RtReading
RtUpdating(o) == \E u \in RtUpdates : rtUpdate[u].object = {o}

(* Create: the source was checked out; a key that is taken is an error and *)
(* a service that does not start is not saved.                             *)
RtCreate(o) ==
  /\ RtUnlocked /\ rtEntry = {} /\ ~rtService[o].made
  /\ RtStartService(o)
  /\ rtEntry' = IF rtService'[o].running THEN {o} ELSE {}
  /\ rtRaced' = IF RtNotStopped THEN rtRaced ELSE rtRaced \cup {o}
  /\ UNCHANGED <<rtHolder, rtLoop, rtClosed, rtUpdate>>

(* Mutant: a service that does not count as running is only forgotten      *)
(* and one that does is not stopped either.                                *)
RtDeleteForgets(o) ==
  /\ RtUnlocked /\ rtEntry = {o}
  /\ rtService[o].lock = "free"
  /\ rtEntry' = {}
  /\ UNCHANGED <<rtService, rtProcs, rtWaits, rtHolder, rtLoop, rtClosed, rtUpdate, rtRaced>>

(* Delete: a service that is not running leaves the table at once, another *)
(* is stopped first.                                                       *)
RtDelete(o) ==
  /\ RtUnlocked /\ rtEntry = {o}
  /\ rtService[o].lock = "free"
  /\ rtRaced' = IF RtUpdating(o) THEN rtRaced \cup {o} ELSE rtRaced
  /\ \/ /\ ~rtService[o].running
        /\ rtEntry' = {}
        /\ UNCHANGED <<rtService, rtProcs, rtWaits, rtHolder>>
     \/ /\ rtService[o].running
        /\ RtStopService(o, "delete")
        /\ rtHolder' = "delete"
        /\ UNCHANGED rtEntry
  /\ UNCHANGED <<rtLoop, rtClosed, rtUpdate>>

(* A kill that finds no process makes Delete return the error and keep the *)
(* entry.                                                                  *)
RtDeleted(o) ==
  /\ rtHolder = "delete" /\ rtEntry = {o}
  /\ RtStopped(o, "delete")
  /\ rtHolder' = "free"
  /\ \/ rtEntry' = {}
     \/ UNCHANGED rtEntry
  /\ UNCHANGED <<rtProcs, rtWaits, rtLoop, rtClosed, rtUpdate, rtRaced>>

(* Start: a new channel and a new loop; nothing if already running.        *)
RtStart(l) ==
  /\ RtUnlocked /\ ~RtRunning
  /\ rtLoop[l].pc = "new"
  /\ rtLoop' = [rtLoop EXCEPT ![l] = [pc |-> "select", gen |-> RtStarts + 1]]
  /\ UNCHANGED <<rtEntry, rtService, rtProcs, rtWaits, rtHolder, rtClosed, rtUpdate, rtRaced>>

(* Stop: close the channel and stop the services.  A tick may still be     *)
(* chosen by a loop that has not seen the close.                           *)
RtStop ==
  /\ RtUnlocked /\ RtRunning
  /\ rtClosed' = RtStarts
  /\ \/ rtEntry = {} /\ UNCHANGED <<rtService, rtHolder, rtProcs, rtWaits>>
     \/ \E o \in rtEntry : /\ RtStopService(o, "stop")
                           /\ rtHolder' = IF rtService'[o].lock = "stop" THEN "stop" ELSE "free"
  /\ rtRaced' = rtRaced \cup {o \in rtEntry : RtUpdating(o)}
  /\ UNCHANGED <<rtEntry, rtLoop, rtUpdate>>

RtStopDone(o) ==
  /\ rtHolder = "stop" /\ rtEntry = {o}
  /\ RtStopped(o, "stop")
  /\ rtHolder' = "free"
  /\ UNCHANGED <<rtEntry, rtProcs, rtWaits, rtLoop, rtClosed, rtUpdate, rtRaced>>

(* The loop: a tick takes the lock for reading, starts what should start   *)
(* and selects again on the channel that r.closed is by then.              *)
RtTick(l) ==
  /\ rtLoop[l].pc = "select" /\ rtHolder = "free"
  /\ rtLoop' = [rtLoop EXCEPT ![l].pc = "tick"]
  /\ UNCHANGED <<rtEntry, rtService, rtProcs, rtWaits, rtHolder, rtClosed, rtUpdate, rtRaced>>

RtTicked(l) ==
  /\ rtLoop[l].pc = "tick"
  /\ \/ rtEntry = {} /\ UNCHANGED <<rtService, rtProcs, rtWaits>>
     \/ \E o \in rtEntry : RtStartService(o)
  /\ rtLoop' = [rtLoop EXCEPT ![l] = [pc |-> "select", gen |-> RtStarts]]
  /\ rtRaced' = IF RtNotStopped THEN rtRaced ELSE rtRaced \cup rtEntry
  /\ UNCHANGED <<rtEntry, rtHolder, rtClosed, rtUpdate>>

RtLoopEnds(l) ==
  /\ rtLoop[l].pc = "select" /\ rtLoop[l].gen <= rtClosed
  /\ rtLoop' = [rtLoop EXCEPT ![l].pc = "ended"]
  /\ UNCHANGED <<rtEntry, rtService, rtProcs, rtWaits, rtHolder, rtClosed, rtUpdate, rtRaced>>

(* Update, called by a user or by the loop for an event: find the service  *)
(* under the lock, then Stop and Start it without.                         *)
RtUpdateFinds(u) ==
  /\ rtUpdate[u].pc = "idle" /\ RtUnlocked /\ rtEntry # {}
  /\ rtUpdate' = [rtUpdate EXCEPT ![u] = [pc |-> "found", object |-> rtEntry]]
  /\ rtRaced' = IF RtNotStopped THEN rtRaced ELSE rtRaced \cup rtEntry
  /\ UNCHANGED <<rtEntry, rtService, rtProcs, rtWaits, rtHolder, rtLoop, rtClosed>>

RtUpdateStops(u, o) ==
  /\ rtUpdate[u] = [pc |-> "found", object |-> {o}]
  /\ RtStopService(o, "update")
  /\ rtUpdate' = [rtUpdate EXCEPT ![u].pc = IF rtService'[o].lock = "update" THEN "killed"
                                           ELSE "stopped"]
  /\ UNCHANGED <<rtEntry, rtHolder, rtLoop, rtClosed, rtRaced>>

RtUpdateStopped(u, o) ==
  /\ rtUpdate[u] = [pc |-> "killed", object |-> {o}]
  /\ RtStopped(o, "update")
  /\ rtUpdate' = [rtUpdate EXCEPT ![u].pc = "stopped"]
  /\ UNCHANGED <<rtEntry, rtProcs, rtWaits, rtHolder, rtLoop, rtClosed, rtRaced>>

RtUpdateStarts(u, o) ==
  /\ rtUpdate[u] = [pc |-> "stopped", object |-> {o}]
  /\ RtStartService(o)
  /\ rtUpdate' = [rtUpdate EXCEPT ![u] = [pc |-> "idle", object |-> {}]]
  /\ UNCHANGED <<rtEntry, rtHolder, rtLoop, rtClosed, rtRaced>>

RuntimeNext ==
  \/ \E o \in RtObjects : \/ RtCreate(o) \/ RtDelete(o) \/ RtDeleted(o) \/ RtStopDone(o)
                          \/ \E u \in RtUpdates : \/ RtUpdateStops(u, o)
                                                  \/ RtUpdateStopped(u, o)
                                                  \/ RtUpdateStarts(u, o)
  \/ \E u \in RtUpdates : RtUpdateFinds(u)
  \/ \E l \in RtLoops : RtStart(l) \/ RtTick(l) \/ RtTicked(l) \/ RtLoopEnds(l)
  \/ RtStop
  \/ \E p \in RtPids : RtExit(p)
  \/ \E w \in rtWaits : RtWaitRead(w) \/ RtWaitDone(w)

-----------------------------------------------------------------------------
(* Processes are accounted for.  A service never has two processes at a    *)
(* time, however ticks, updates and the goroutines waiting for its earlier *)
(* processes interleave; and a process outlives neither the Delete of its  *)
(* service nor the Stop of the runtime, unless an Update overlapped that   *)
(* call or a loop took a tick after the Stop.                              *)
ProcessesAccounted ==
  \A o \in RtObjects :
    /\ Cardinality(RtAlive(o)) <= 1
    /\ RtAlive(o) # {} => \/ o \in rtRaced
                          \/ o \in rtEntry /\ RtNotStopped
                          \/ rtService[o].lock # "free"

=============================================================================
