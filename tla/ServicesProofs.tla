--------------------------- MODULE ServicesProofs ---------------------------
(***************************************************************************)
(* Proofs about the parts of a service: the runtimes with the streams of   *)
(* their logs, the options and the run of a service, the config, the       *)
(* handlers of the api gateway, the router and the codecs of a server, and *)
(* the etcd and mdns registries.                                           *)
(*                                                                         *)
(* LocalRuntime: a process belongs to the object that started it.  The     *)
(* invariant says which objects may have one (those in the table of a      *)
(* runtime that was not stopped, those a Delete or Stop is at, and those   *)
(* that an overlapping Update or loop may start), and that one object has  *)
(* one process at most.                                                    *)
(*                                                                         *)
(* KubernetesRuntime: the order of the requests.  A Create that is at its  *)
(* second request has made the deployment, and a Delete at its second has  *)
(* removed the service; what an Update has found stays while no Delete     *)
(* runs beside it.                                                         *)
(*                                                                         *)
(* LogStreams: the last line that arrived from a source is the one before  *)
(* the line that the source is at.                                         *)
(*                                                                         *)
(* ServiceOptions: between a flag and the end of Before the parts do not   *)
(* agree; what holds then is that an option that was collected and not yet *)
(* applied is the service's, and that a registry is never collected        *)
(* without the selector that has it.                                       *)
(*                                                                         *)
(* Config: the last word of a source is its set, waits in the queue, or    *)
(* was missed; versions never go back on their way to the watcher.         *)
(*                                                                         *)
(* ApiHandlers: a pooled buffer has one user or is free, and a body that   *)
(* was copied is the request's own.                                        *)
(*                                                                         *)
(* RpcRouter: an object is in its free list once or held by one call, and  *)
(* a call's ids are its own.  A call makes one object of a list at most,   *)
(* so the finite number of calls bounds both lists.                        *)
(*                                                                         *)
(* RpcCodec: what is on the wire for each codec, and what the other end    *)
(* makes of it.                                                            *)
(*                                                                         *)
(* EtcdRegistry: a lease that the process knows of is the key's, with the  *)
(* value it remembers, unless a Put is in doubt; and the last event of a   *)
(* node that the watcher has not got tells its key.                        *)
(*                                                                         *)
(* MdnsRegistry: a server that is not down has an entry, and a query that  *)
(* runs knows of every entry that it asks for.                             *)
(***************************************************************************)
EXTENDS LogStreams, ServiceOptions, Config, ApiHandlers, RpcCodec,
        EtcdRegistry, MdnsRegistry, SequenceTheorems, FiniteSetTheorems, TLAPS

(* A service object, and the types of what the services keep.              *)
RtRecord == [running : BOOLEAN, retries : Nat, closed : BOOLEAN, pid : Nat,
             lock : {"free", "delete", "stop", "update"}, made : BOOLEAN]
RtProcess == [owner : SUBSET RtObjects, state : {"none", "alive", "exited"}]
RtWait == [object : RtObjects, start : Nat, pid : Nat]
RtServiceTypes ==
  /\ rtService \in [RtObjects -> RtRecord]
  /\ rtProcs \in [RtPids -> RtProcess]
  /\ \A w \in rtWaits : w \in RtWait

(* And of what the runtime keeps.                                          *)
RtTypes ==
  /\ rtEntry = {} \/ \E o \in RtObjects : rtEntry = {o}
  /\ rtLoop \in [RtLoops -> [pc : {"new", "select", "tick", "ended"}, gen : Nat]]
  /\ rtClosed \in Nat
  /\ rtUpdate \in [RtUpdates -> [pc : {"idle", "found", "killed", "stopped"},
                                 object : SUBSET RtObjects]]

(* An object has at most the process that it knows, and while its lock is  *)
(* free it takes that process for running and not for closed.              *)
RtKnown(o) ==
  \A p \in RtAlive(o) : /\ p = rtService[o].pid /\ rtService[o].made = TRUE
                        /\ rtService[o].lock = "free" =>
                             rtService[o].running = TRUE /\ rtService[o].closed = FALSE
RtServices == RtServiceTypes /\ \A o \in RtObjects : RtKnown(o)

(* An object that is in the table of a runtime that was not stopped.       *)
RtKept(o) == o \in rtEntry /\ RtNotStopped

(* Where the object of a process is.                                       *)
RtPlaced(o) == RtAlive(o) # {} /\ rtService[o].lock = "free" => o \in rtRaced \/ RtKept(o)

(* Where the object of an Update is, which is about to start it.           *)
RtOverlap(o) ==
  RtUpdating(o) => o \in rtRaced \/ (RtKept(o) /\ rtHolder # "delete")

(* The inductive invariant.                                                *)
RtInv ==
  /\ RtTypes /\ RtServices
  /\ \A o \in RtObjects : RtPlaced(o) /\ RtOverlap(o)

(* Nothing runs at first.                                                  *)
LEMMA RtInitially == RuntimeInit => RtInv
<1> SUFFICES ASSUME RuntimeInit PROVE RtInv
  OBVIOUS
<1>1. RtFresh \in RtRecord
  BY DEF RtFresh, RtRecord
<1>2. RtTypes
  BY DEF RuntimeInit, RtTypes
<1>3. RtServiceTypes
  BY <1>1 DEF RuntimeInit, RtServiceTypes, RtProcess
<1>4. \A o \in RtObjects : RtAlive(o) = {} /\ ~RtUpdating(o)
  BY DEF RuntimeInit, RtAlive, RtUpdating
<1> QED
  BY <1>2, <1>3, <1>4 DEF RtInv, RtServices, RtKnown, RtPlaced, RtOverlap

(* The number of the next process.                                         *)
LEMMA RtNextPid == Cardinality(RtForked) + 1 \in Nat
<1>1. IsFiniteSet(RtPids)
  BY FS_Interval, RuntimeAssumption DEF RtPids
<1>2. IsFiniteSet(RtForked)
  BY <1>1, FS_Subset DEF RtForked
<1> QED
  BY <1>2, FS_CardinalityType

(* The loops that were started are finitely many.                          *)
LEMMA RtStartsType == RtStarts \in Nat
<1>1. IsFiniteSet({l \in RtLoops : rtLoop[l].pc # "new"})
  BY FS_Subset, RuntimeAssumption
<1> QED
  BY <1>1, FS_CardinalityType DEF RtStarts

(* A step of one object leaves the others alone, and their processes can   *)
(* only end.                                                               *)
RtMoved(o) ==
  \A x \in RtObjects \ {o} : rtService'[x] = rtService[x] /\ RtAlive(x)' \subseteq RtAlive(x)

(* A step that gives one object another record and no process.             *)
LEMMA RtOneService ==
  ASSUME RtServices, NEW o \in RtObjects, NEW r \in RtRecord, UNCHANGED rtProcs,
         rtService' = [rtService EXCEPT ![o] = r], \A w \in rtWaits' : w \in RtWait,
         RtAlive(o) # {} => /\ r.pid = rtService[o].pid /\ r.made = TRUE
                            /\ r.lock = "free" => r.running = TRUE /\ r.closed = FALSE
  PROVE  RtServices' /\ RtMoved(o) /\ rtService'[o] = r /\ \A x : RtAlive(x)' = RtAlive(x)
<1>1. \A x : RtAlive(x)' = RtAlive(x)
  BY DEF RtAlive
<1>2. /\ rtService'[o] = r /\ \A x \in RtObjects \ {o} : rtService'[x] = rtService[x]
      /\ rtService' \in [RtObjects -> RtRecord]
  BY DEF RtServices, RtServiceTypes
<1>3. RtServiceTypes'
  BY <1>2 DEF RtServices, RtServiceTypes
<1>4. ASSUME NEW x \in RtObjects PROVE RtKnown(x)'
  <2>1. CASE x = o
    BY <1>1, <1>2, <2>1 DEF RtServices, RtKnown
  <2>2. CASE x # o
    BY <1>1, <1>2, <2>2 DEF RtServices, RtKnown
  <2> QED
    BY <2>1, <2>2
<1> QED
  BY <1>1, <1>2, <1>3, <1>4 DEF RtServices, RtMoved

(* An object without a process starts one, the only one it has.            *)
LEMMA RtForks ==
  ASSUME RtServices, NEW o \in RtObjects, RtAlive(o) = {}, NEW p \in Nat,
         NEW r \in RtRecord, r.running = TRUE, r.closed = FALSE, r.pid = p, r.made = TRUE,
         rtProcs' = [rtProcs EXCEPT ![p] = [owner |-> {o}, state |-> "alive"]],
         rtService' = [rtService EXCEPT ![o] = r],
         \A w \in rtWaits' : w \in RtWait
  PROVE  RtServices' /\ RtMoved(o) /\ rtService'[o] = r
<1>1. /\ rtService'[o] = r /\ \A x \in RtObjects \ {o} : rtService'[x] = rtService[x]
      /\ rtService' \in [RtObjects -> RtRecord]
  BY DEF RtServices, RtServiceTypes
<1>2. PICK q : q = [owner |-> {o}, state |-> "alive"]
  OBVIOUS
<1>3. q \in RtProcess /\ q.owner = {o} /\ q.state = "alive"
  BY <1>2 DEF RtProcess
<1>4. rtProcs \in [RtPids -> RtProcess] /\ rtProcs' = [rtProcs EXCEPT ![p] = q]
  BY <1>2 DEF RtServices, RtServiceTypes
<1>5. rtProcs' \in [RtPids -> RtProcess]
  BY <1>3, <1>4
<1>6. \A k \in RtPids : rtProcs'[k] = IF k = p THEN q ELSE rtProcs[k]
  BY <1>4
<1>7. RtAlive(o)' \subseteq {p}
  BY <1>6 DEF RtAlive
<1>8. \A x \in RtObjects \ {o} : RtAlive(x)' \subseteq RtAlive(x)
  BY <1>3, <1>6 DEF RtAlive
<1>9. ASSUME NEW x \in RtObjects PROVE RtKnown(x)'
  <2>1. CASE x = o
    BY <1>1, <1>7, <2>1 DEF RtKnown
  <2>2. CASE x # o
    BY <1>1, <1>8, <2>2 DEF RtServices, RtKnown
  <2> QED
    BY <2>1, <2>2
<1> QED
  BY <1>1, <1>5, <1>8, <1>9 DEF RtServices, RtServiceTypes, RtMoved

(* Start of a service.                                                     *)
LEMMA RtStartGives ==
  ASSUME RtServices, NEW o \in RtObjects, RtStartService(o)
  PROVE  RtServices' /\ RtMoved(o) /\ rtService[o].lock = "free"
<1>1. PICK s \in RtRecord : s = rtService[o]
  BY DEF RtServices, RtServiceTypes
<1>2. s.lock = "free"
  BY <1>1 DEF RtStartService
<1>3. CASE UNCHANGED <<rtService, rtProcs, rtWaits>>
  BY <1>1, <1>2, <1>3 DEF RtServices, RtServiceTypes, RtKnown, RtAlive, RtMoved
<1>4. PICK p \in Nat : p = Cardinality(RtForked) + 1
  BY RtNextPid
<1>5. RtShouldStart(o) => RtAlive(o) = {}
  BY <1>1, <1>2 DEF RtShouldStart, RtServices, RtKnown
<1>6. CASE /\ RtShouldStart(o)
           /\ rtProcs' = [rtProcs EXCEPT ![p] = [owner |-> {o}, state |-> "alive"]]
           /\ rtService' = [rtService EXCEPT
                ![o] = [@ EXCEPT !.running = TRUE, !.retries = 0, !.closed = FALSE,
                                 !.pid = p, !.made = TRUE]]
           /\ rtWaits' = rtWaits \cup {[object |-> o, start |-> p, pid |-> 0]}
  <2>1. PICK r : r = [s EXCEPT !.running = TRUE, !.retries = 0, !.closed = FALSE,
                               !.pid = p, !.made = TRUE]
    OBVIOUS
  <2>2. /\ r \in RtRecord /\ r.running = TRUE /\ r.closed = FALSE /\ r.pid = p
        /\ r.made = TRUE
    BY <2>1 DEF RtRecord
  <2>3. rtService' = [rtService EXCEPT ![o] = r]
    BY <1>1, <1>6, <2>1
  <2>4. \A w \in rtWaits' : w \in RtWait
    BY <1>6 DEF RtServices, RtServiceTypes, RtWait
  <2> QED
    BY <1>1, <1>2, <1>5, <1>6, <2>2, <2>3, <2>4, RtForks
<1>7. CASE /\ RtShouldStart(o)
           /\ rtService' = [rtService EXCEPT ![o] = [@ EXCEPT !.retries = 0, !.closed = FALSE,
                                                             !.made = TRUE]]
           /\ UNCHANGED <<rtProcs, rtWaits>>
  <2>1. PICK r : r = [s EXCEPT !.retries = 0, !.closed = FALSE, !.made = TRUE]
    OBVIOUS
  <2>2. r \in RtRecord
    BY <2>1 DEF RtRecord
  <2>3. rtService' = [rtService EXCEPT ![o] = r]
    BY <1>1, <1>7, <2>1
  <2>4. \A w \in rtWaits' : w \in RtWait
    BY <1>7 DEF RtServices, RtServiceTypes
  <2> QED
    BY <1>1, <1>2, <1>5, <1>7, <2>2, <2>3, <2>4, RtOneService
<1> QED
  BY <1>3, <1>4, <1>6, <1>7 DEF RtStartService

(* Stop of a service, first half: its process is killed under the lock.    *)
LEMMA RtStopGives ==
  ASSUME RtServices, NEW o \in RtObjects, NEW who \in {"delete", "stop", "update"},
         RtStopService(o, who)
  PROVE  /\ RtServices' /\ RtMoved(o) /\ \A x : RtAlive(x)' = RtAlive(x)
         /\ RtAlive(o) # {} => rtService'[o].lock = who
<1>1. PICK s \in RtRecord : s = rtService[o]
  BY DEF RtServices, RtServiceTypes
<1>2. /\ s.lock = "free" /\ UNCHANGED <<rtProcs, rtWaits>>
      /\ \A w \in rtWaits' : w \in RtWait
  BY <1>1 DEF RtStopService, RtServices, RtServiceTypes
<1>3. RtAlive(o) # {} => s.closed = FALSE /\ s.pid # 0 /\ s.made = TRUE
  BY <1>1, <1>2 DEF RtServices, RtKnown, RtAlive, RtPids
<1>4. PICK r : r = IF s.closed THEN s
                   ELSE [running |-> FALSE, retries |-> 0, closed |-> TRUE, pid |-> s.pid,
                         lock |-> IF s.pid = 0 THEN "free" ELSE who, made |-> TRUE]
  OBVIOUS
<1>5. rtService' = [rtService EXCEPT ![o] = r]
  BY <1>1, <1>4 DEF RtStopService
<1>6. r \in RtRecord /\ (RtAlive(o) # {} => r.pid = s.pid /\ r.made = TRUE /\ r.lock = who)
  BY <1>3, <1>4 DEF RtRecord
<1> QED
  BY <1>1, <1>2, <1>5, <1>6, RtOneService

(* Second half: the process is gone.                                       *)
LEMMA RtStoppedGives ==
  ASSUME RtServices, NEW o \in RtObjects, NEW who \in {"delete", "stop", "update"},
         RtStopped(o, who), UNCHANGED <<rtProcs, rtWaits>>
  PROVE  RtServices' /\ RtMoved(o) /\ RtAlive(o)' = {}
<1>1. PICK s \in RtRecord : s = rtService[o]
  BY DEF RtServices, RtServiceTypes
<1>2. RtAlive(o) = {}
  BY DEF RtStopped, RtServices, RtKnown, RtAlive
<1>3. PICK r : r = [s EXCEPT !.lock = "free"]
  OBVIOUS
<1>4. r \in RtRecord /\ rtService' = [rtService EXCEPT ![o] = r]
  BY <1>1, <1>3 DEF RtStopped, RtRecord
<1>5. \A w \in rtWaits' : w \in RtWait
  BY DEF RtServices, RtServiceTypes
<1> QED
  BY <1>2, <1>4, <1>5, RtOneService

(* The runtime's part of the invariant, for a step of one object (or of    *)
(* none) that forgets no race and takes no entry away without noting it.   *)
LEMMA RtRest ==
  ASSUME RtInv, NEW o, RtMoved(o), rtRaced \subseteq rtRaced',
         \A x \in RtObjects : RtUpdating(x)' => RtUpdating(x),
         \A x \in RtObjects : RtKept(x) => x \in rtRaced' \/ RtKept(x)',
         \A x \in RtObjects : RtUpdating(x) /\ RtKept(x) /\ rtHolder # "delete"
                                => x \in rtRaced' \/ (RtKept(x)' /\ rtHolder' # "delete")
  PROVE  /\ \A x \in RtObjects \ {o} : RtPlaced(x)'
         /\ \A x \in RtObjects : RtOverlap(x)'
<1>1. ASSUME NEW x \in RtObjects \ {o} PROVE RtPlaced(x)'
  <2>1. rtService'[x] = rtService[x] /\ RtAlive(x)' \subseteq RtAlive(x)
    BY DEF RtMoved
  <2>2. RtPlaced(x)
    BY DEF RtInv
  <2> QED
    BY <2>1, <2>2 DEF RtPlaced
<1>2. ASSUME NEW x \in RtObjects PROVE RtOverlap(x)'
  BY DEF RtInv, RtOverlap
<1> QED
  BY <1>1, <1>2

(* Whether the runtime was stopped depends on the loops that were started. *)
LEMMA RtSameStops ==
  ASSUME UNCHANGED rtClosed,
         {l \in RtLoops : rtLoop'[l].pc # "new"} = {l \in RtLoops : rtLoop[l].pc # "new"}
  PROVE  RtNotStopped' <=> RtNotStopped
  BY DEF RtNotStopped, RtRunning

(* A loop that goes on has been started before.                            *)
LEMMA RtLoopOn ==
  ASSUME RtTypes, NEW l \in RtLoops, rtLoop[l].pc # "new", NEW r,
         r \in [pc : {"select", "tick", "ended"}, gen : Nat],
         rtLoop' = [rtLoop EXCEPT ![l] = r], UNCHANGED rtClosed
  PROVE  /\ rtLoop' \in [RtLoops -> [pc : {"new", "select", "tick", "ended"}, gen : Nat]]
         /\ RtNotStopped' <=> RtNotStopped
<1>1. rtLoop \in [RtLoops -> [pc : {"new", "select", "tick", "ended"}, gen : Nat]]
  BY DEF RtTypes
<1>2. r \in [pc : {"new", "select", "tick", "ended"}, gen : Nat] /\ r.pc # "new"
  OBVIOUS
<1>3. rtLoop' \in [RtLoops -> [pc : {"new", "select", "tick", "ended"}, gen : Nat]]
  BY <1>1, <1>2
<1>4. \A k \in RtLoops : rtLoop'[k].pc # "new" <=> rtLoop[k].pc # "new"
  BY <1>1, <1>2
<1>5. {k \in RtLoops : rtLoop'[k].pc # "new"} = {k \in RtLoops : rtLoop[k].pc # "new"}
  BY <1>4
<1> QED
  BY <1>3, <1>5, RtSameStops

(* A step that leaves the services alone.                                  *)
LEMMA RtSameServices ==
  ASSUME RtServices, UNCHANGED <<rtService, rtProcs, rtWaits>>
  PROVE  RtServices' /\ \A o : RtMoved(o) /\ RtAlive(o)' = RtAlive(o)
<1>1. \A o : RtAlive(o)' = RtAlive(o)
  BY DEF RtAlive
<1> QED
  BY <1>1 DEF RtServices, RtServiceTypes, RtKnown, RtMoved

(* Create.                                                                 *)
LEMMA RtCreateKeeps ==
  ASSUME RtInv, NEW o \in RtObjects, RtCreate(o)
  PROVE  RtInv'
<1>1. /\ rtEntry = {} /\ RtStartService(o) /\ rtService[o].made = FALSE
      /\ rtEntry' = IF rtService'[o].running THEN {o} ELSE {}
      /\ rtRaced' = IF RtNotStopped THEN rtRaced ELSE rtRaced \cup {o}
      /\ UNCHANGED <<rtHolder, rtLoop, rtClosed, rtUpdate>>
  BY DEF RtCreate, RtInv, RtServices, RtServiceTypes, RtRecord
<1>2. RtServices' /\ RtMoved(o) /\ RtTypes'
  BY <1>1, RtStartGives DEF RtInv, RtTypes
<1>3. RtNotStopped' <=> RtNotStopped
  BY <1>1, RtSameStops
<1>4. \A x \in RtObjects : ~RtKept(x) /\ (RtUpdating(x)' => RtUpdating(x))
  BY <1>1 DEF RtKept, RtUpdating
<1>5. /\ \A x \in RtObjects \ {o} : RtPlaced(x)'
      /\ \A x \in RtObjects : RtOverlap(x)'
  BY <1>1, <1>2, <1>4, RtRest
<1>6. RtPlaced(o)'
  <2>1. ASSUME RtAlive(o)' # {}, rtService'[o].lock = "free" PROVE o \in rtEntry'
    <3>1. rtService'[o].running = TRUE
      BY <1>2, <2>1 DEF RtServices, RtKnown
    <3> QED
      BY <1>1, <3>1
  <2>2. RtNotStopped' \/ o \in rtRaced'
    BY <1>1, <1>3
  <2> QED
    BY <2>1, <2>2 DEF RtPlaced, RtKept
<1> QED
  BY <1>2, <1>5, <1>6 DEF RtInv

(* Delete of a service that is not running, which is then gone, or the     *)
(* first half of Delete of one that is.                                    *)
LEMMA RtDeleteKeeps ==
  ASSUME RtInv, NEW o \in RtObjects, RtDelete(o)
  PROVE  RtInv'
<1>1. /\ rtEntry = {o} /\ rtService[o].lock = "free"
      /\ rtRaced' = IF RtUpdating(o) THEN rtRaced \cup {o} ELSE rtRaced
      /\ UNCHANGED <<rtLoop, rtClosed, rtUpdate>>
  BY DEF RtDelete
<1>2. RtNotStopped' <=> RtNotStopped
  BY <1>1, RtSameStops
<1>3. \A x \in RtObjects : /\ RtUpdating(x)' => RtUpdating(x)
                           /\ RtUpdating(x) /\ RtKept(x) => x \in rtRaced'
                           /\ RtKept(x) => x = o
  BY <1>1 DEF RtKept, RtUpdating
<1>4. rtRaced \subseteq rtRaced'
  BY <1>1
<1>5. CASE ~rtService[o].running /\ rtEntry' = {} /\ UNCHANGED <<rtService, rtProcs, rtWaits, rtHolder>>
  <2>1. RtServices' /\ RtMoved(o) /\ RtTypes' /\ RtAlive(o)' = RtAlive(o)
    BY <1>1, <1>5, RtSameServices DEF RtInv, RtTypes
  <2>2. RtAlive(o) = {}
    BY <1>1, <1>5 DEF RtInv, RtServices, RtKnown
  <2>3. ASSUME NEW x \in RtObjects PROVE RtPlaced(x)' /\ RtOverlap(x)'
    <3>1. RtOverlap(x)'
      BY <1>3, <1>4 DEF RtInv, RtOverlap
    <3>2. CASE x = o
      BY <2>1, <2>2, <3>1, <3>2 DEF RtPlaced
    <3>3. CASE x # o
      <4>1. ~RtKept(x) /\ RtPlaced(x)
        BY <1>3, <3>3 DEF RtInv
      <4> QED
        BY <1>4, <1>5, <2>1, <3>1, <3>3, <4>1 DEF RtPlaced, RtMoved
    <3> QED
      BY <3>2, <3>3
  <2> QED
    BY <2>1, <2>3 DEF RtInv
<1>6. CASE RtStopService(o, "delete") /\ rtEntry' = rtEntry
  <2>1. /\ RtServices' /\ RtMoved(o) /\ RtAlive(o)' = RtAlive(o)
        /\ RtAlive(o) # {} => rtService'[o].lock = "delete"
    BY <1>6, RtStopGives DEF RtInv
  <2>2. RtTypes'
    BY <1>1, <1>6 DEF RtInv, RtTypes
  <2>3. \A x \in RtObjects : RtKept(x) => RtKept(x)'
    BY <1>2, <1>6 DEF RtKept
  <2>4. /\ \A x \in RtObjects \ {o} : RtPlaced(x)'
        /\ \A x \in RtObjects : RtOverlap(x)'
    BY <1>3, <1>4, <2>1, <2>3, RtRest
  <2>5. RtPlaced(o)'
    BY <2>1 DEF RtPlaced
  <2> QED
    BY <2>1, <2>2, <2>4, <2>5 DEF RtInv
<1> QED
  BY <1>5, <1>6 DEF RtDelete

(* Second half, with or without the entry.                                 *)
LEMMA RtDeletedKeeps ==
  ASSUME RtInv, NEW o \in RtObjects, RtDeleted(o)
  PROVE  RtInv'
<1>1. /\ rtHolder = "delete" /\ rtEntry = {o} /\ RtStopped(o, "delete")
      /\ rtEntry' = {} \/ rtEntry' = rtEntry
      /\ UNCHANGED <<rtProcs, rtWaits, rtLoop, rtClosed, rtUpdate, rtRaced>>
  BY DEF RtDeleted
<1>2. RtServices' /\ RtMoved(o) /\ RtAlive(o)' = {}
  BY <1>1, RtStoppedGives DEF RtInv
<1>3. RtTypes'
  BY <1>1 DEF RtInv, RtTypes
<1>4. ASSUME NEW x \in RtObjects PROVE RtOverlap(x)'
  <2>1. RtUpdating(x)' => RtUpdating(x)
    BY <1>1 DEF RtUpdating
  <2> QED
    BY <1>1, <2>1 DEF RtInv, RtOverlap
<1>5. ASSUME NEW x \in RtObjects PROVE RtPlaced(x)'
  <2>1. CASE x = o
    BY <1>2, <2>1 DEF RtPlaced
  <2>2. CASE x # o
    <3>1. ~RtKept(x) /\ RtPlaced(x)
      BY <1>1, <2>2 DEF RtInv, RtKept
    <3> QED
      BY <1>1, <1>2, <2>2, <3>1 DEF RtPlaced, RtMoved
  <2> QED
    BY <2>1, <2>2
<1> QED
  BY <1>2, <1>3, <1>4, <1>5 DEF RtInv

(* Start of the runtime.                                                   *)
LEMMA RtStartKeeps ==
  ASSUME RtInv, NEW l \in RtLoops, RtStart(l)
  PROVE  RtInv'
<1>1. /\ ~RtRunning /\ rtLoop' = [rtLoop EXCEPT ![l] = [pc |-> "select", gen |-> RtStarts + 1]]
      /\ UNCHANGED <<rtEntry, rtService, rtProcs, rtWaits, rtHolder, rtClosed, rtUpdate, rtRaced>>
  BY DEF RtStart
<1>2. PICK n \in Nat : n = RtStarts + 1
  BY RtStartsType
<1>3. RtTypes'
  BY <1>1, <1>2 DEF RtInv, RtTypes
<1>4. RtServices' /\ \A o : RtMoved(o) /\ RtAlive(o)' = RtAlive(o)
  BY <1>1, RtSameServices DEF RtInv
<1>5. RtNotStopped => RtNotStopped'
  BY <1>1 DEF RtNotStopped
<1>6. \A x \in RtObjects : (RtKept(x) => RtKept(x)') /\ (RtUpdating(x)' => RtUpdating(x))
  BY <1>1, <1>5 DEF RtKept, RtUpdating
<1>7. \A x \in RtObjects : RtPlaced(x)' /\ RtOverlap(x)'
  BY <1>1, <1>4, <1>6 DEF RtInv, RtPlaced, RtOverlap
<1> QED
  BY <1>3, <1>4, <1>7 DEF RtInv

(* Stop of the runtime: the service of the table is being killed, or has   *)
(* no process, or an Update may start it.                                  *)
LEMMA RtStopKeeps ==
  ASSUME RtInv, RtStop
  PROVE  RtInv'
<1>1. /\ RtStarts > rtClosed /\ rtClosed' = RtStarts
      /\ rtRaced' = rtRaced \cup {o \in rtEntry : RtUpdating(o)}
      /\ UNCHANGED <<rtEntry, rtLoop, rtUpdate>>
  BY DEF RtStop, RtRunning, RtStarts
<1>2. RtTypes'
  BY <1>1, RtStartsType DEF RtInv, RtTypes
<1>3. ASSUME NEW x \in RtObjects PROVE RtOverlap(x)'
  <2>1. RtUpdating(x)' => RtUpdating(x)
    BY <1>1 DEF RtUpdating
  <2>2. RtUpdating(x) => x \in rtRaced'
    BY <1>1 DEF RtInv, RtOverlap, RtKept
  <2> QED
    BY <2>1, <2>2 DEF RtOverlap
<1>4. CASE rtEntry = {} /\ UNCHANGED <<rtService, rtProcs, rtWaits>>
  <2>1. RtServices' /\ \A o : RtMoved(o) /\ RtAlive(o)' = RtAlive(o)
    BY <1>4, RtSameServices DEF RtInv
  <2>2. \A x \in RtObjects : RtPlaced(x)'
    BY <1>1, <1>4, <2>1 DEF RtInv, RtPlaced, RtKept
  <2> QED
    BY <1>2, <1>3, <2>1, <2>2 DEF RtInv
<1>5. ASSUME NEW o \in rtEntry, RtStopService(o, "stop") PROVE RtInv'
  <2>1. o \in RtObjects /\ rtEntry = {o}
    BY DEF RtInv, RtTypes
  <2>2. /\ RtServices' /\ RtMoved(o) /\ RtAlive(o)' = RtAlive(o)
        /\ RtAlive(o) # {} => rtService'[o].lock = "stop"
    BY <1>5, <2>1, RtStopGives DEF RtInv
  <2>3. ASSUME NEW x \in RtObjects PROVE RtPlaced(x)'
    <3>1. CASE x = o
      BY <2>2, <3>1 DEF RtPlaced
    <3>2. CASE x # o
      <4>1. ~RtKept(x) /\ RtPlaced(x)
        BY <2>1, <3>2 DEF RtInv, RtKept
      <4> QED
        BY <1>1, <2>2, <3>2, <4>1 DEF RtPlaced, RtMoved
    <3> QED
      BY <3>1, <3>2
  <2> QED
    BY <1>2, <1>3, <2>2, <2>3 DEF RtInv
<1> QED
  BY <1>4, <1>5 DEF RtStop

(* And its end.                                                            *)
LEMMA RtStopDoneKeeps ==
  ASSUME RtInv, NEW o \in RtObjects, RtStopDone(o)
  PROVE  RtInv'
<1>1. /\ rtHolder = "stop" /\ rtHolder' = "free" /\ RtStopped(o, "stop")
      /\ UNCHANGED <<rtEntry, rtProcs, rtWaits, rtLoop, rtClosed, rtUpdate, rtRaced>>
  BY DEF RtStopDone
<1>2. RtServices' /\ RtMoved(o) /\ RtAlive(o)' = {}
  BY <1>1, RtStoppedGives DEF RtInv
<1>3. RtTypes'
  BY <1>1 DEF RtInv, RtTypes
<1>4. RtNotStopped' <=> RtNotStopped
  BY <1>1, RtSameStops
<1>5. \A x \in RtObjects : (RtKept(x) => RtKept(x)') /\ (RtUpdating(x)' => RtUpdating(x))
  BY <1>1, <1>4 DEF RtKept, RtUpdating
<1>6. /\ \A x \in RtObjects \ {o} : RtPlaced(x)'
      /\ \A x \in RtObjects : RtOverlap(x)'
  BY <1>1, <1>2, <1>5, RtRest
<1>7. RtPlaced(o)'
  BY <1>2 DEF RtPlaced
<1> QED
  BY <1>2, <1>3, <1>6, <1>7 DEF RtInv

(* A tick that is taken, and the end of a loop.                            *)
LEMMA RtLoopKeeps ==
  ASSUME RtInv, NEW l \in RtLoops, RtTick(l) \/ RtLoopEnds(l)
  PROVE  RtInv'
<1>1. PICK s : s = rtLoop[l]
  OBVIOUS
<1>2. /\ s.pc = "select" /\ s \in [pc : {"new", "select", "tick", "ended"}, gen : Nat]
      /\ UNCHANGED <<rtEntry, rtService, rtProcs, rtWaits, rtHolder, rtClosed, rtUpdate, rtRaced>>
  BY <1>1 DEF RtTick, RtLoopEnds, RtInv, RtTypes
<1>3. PICK r : rtLoop' = [rtLoop EXCEPT ![l] = r] /\ r \in [pc : {"select", "tick", "ended"}, gen : Nat]
  <2>1. CASE RtTick(l)
    <3>1. [s EXCEPT !.pc = "tick"] \in [pc : {"select", "tick", "ended"}, gen : Nat]
      BY <1>2
    <3> QED
      BY <1>1, <2>1, <3>1 DEF RtTick
  <2>2. CASE RtLoopEnds(l)
    <3>1. [s EXCEPT !.pc = "ended"] \in [pc : {"select", "tick", "ended"}, gen : Nat]
      BY <1>2
    <3> QED
      BY <1>1, <2>2, <3>1 DEF RtLoopEnds
  <2> QED
    BY <2>1, <2>2
<1>4. /\ rtLoop' \in [RtLoops -> [pc : {"new", "select", "tick", "ended"}, gen : Nat]]
      /\ RtNotStopped' <=> RtNotStopped
  BY <1>1, <1>2, <1>3, RtLoopOn DEF RtInv
<1>5. RtTypes'
  BY <1>2, <1>4 DEF RtInv, RtTypes
<1>6. RtServices' /\ \A o : RtMoved(o) /\ RtAlive(o)' = RtAlive(o)
  BY <1>2, RtSameServices DEF RtInv
<1>7. \A x \in RtObjects : (RtKept(x) => RtKept(x)') /\ (RtUpdating(x)' => RtUpdating(x))
  BY <1>2, <1>4 DEF RtKept, RtUpdating
<1>8. \A x \in RtObjects : RtPlaced(x)' /\ RtOverlap(x)'
  BY <1>2, <1>6, <1>7 DEF RtInv, RtPlaced, RtOverlap
<1> QED
  BY <1>5, <1>6, <1>8 DEF RtInv

(* A tick that starts the service.                                         *)
LEMMA RtTickedKeeps ==
  ASSUME RtInv, NEW l \in RtLoops, RtTicked(l)
  PROVE  RtInv'
<1>1. /\ rtLoop[l].pc = "tick" /\ UNCHANGED <<rtEntry, rtHolder, rtClosed, rtUpdate>>
      /\ rtLoop' = [rtLoop EXCEPT ![l] = [pc |-> "select", gen |-> RtStarts]]
      /\ rtRaced' = IF RtNotStopped THEN rtRaced ELSE rtRaced \cup rtEntry
  BY DEF RtTicked
<1>2. /\ rtLoop' \in [RtLoops -> [pc : {"new", "select", "tick", "ended"}, gen : Nat]]
      /\ RtNotStopped' <=> RtNotStopped
  <2>1. PICK r : r = [pc |-> "select", gen |-> RtStarts]
    OBVIOUS
  <2>2. r \in [pc : {"select", "tick", "ended"}, gen : Nat]
    BY <2>1, RtStartsType
  <2> QED
    BY <1>1, <2>1, <2>2, RtLoopOn DEF RtInv
<1>3. RtTypes'
  BY <1>1, <1>2 DEF RtInv, RtTypes
<1>4. /\ rtRaced \subseteq rtRaced'
      /\ \A x \in RtObjects : (RtKept(x) => RtKept(x)') /\ (RtUpdating(x)' => RtUpdating(x))
  BY <1>1, <1>2 DEF RtKept, RtUpdating
<1>5. CASE rtEntry = {} /\ UNCHANGED <<rtService, rtProcs, rtWaits>>
  <2>1. RtServices' /\ \A o : RtMoved(o) /\ RtAlive(o)' = RtAlive(o)
    BY <1>5, RtSameServices DEF RtInv
  <2>2. \A x \in RtObjects : RtPlaced(x)'
    BY <1>4, <1>5, <2>1 DEF RtInv, RtPlaced
  <2>3. \A x \in RtObjects : RtOverlap(x)'
    BY <1>1, <1>4 DEF RtInv, RtOverlap
  <2> QED
    BY <1>3, <2>1, <2>2, <2>3 DEF RtInv
<1>6. ASSUME NEW o \in rtEntry, RtStartService(o) PROVE RtInv'
  <2>1. o \in RtObjects
    BY DEF RtInv, RtTypes
  <2>2. RtServices' /\ RtMoved(o)
    BY <1>6, <2>1, RtStartGives DEF RtInv
  <2>3. /\ \A x \in RtObjects \ {o} : RtPlaced(x)'
        /\ \A x \in RtObjects : RtOverlap(x)'
    BY <1>1, <1>4, <2>2, RtRest
  <2>4. RtPlaced(o)'
    BY <1>1, <1>2, <1>6 DEF RtPlaced, RtKept
  <2> QED
    BY <1>3, <2>2, <2>3, <2>4 DEF RtInv
<1> QED
  BY <1>5, <1>6 DEF RtTicked

(* Update finds the service.                                               *)
LEMMA RtUpdateFindsKeeps ==
  ASSUME RtInv, NEW u \in RtUpdates, RtUpdateFinds(u)
  PROVE  RtInv'
<1>1. /\ rtHolder = "free" /\ rtUpdate' = [rtUpdate EXCEPT ![u] = [pc |-> "found", object |-> rtEntry]]
      /\ rtRaced' = IF RtNotStopped THEN rtRaced ELSE rtRaced \cup rtEntry
      /\ UNCHANGED <<rtEntry, rtService, rtProcs, rtWaits, rtHolder, rtLoop, rtClosed>>
  BY DEF RtUpdateFinds, RtUnlocked
<1>2. rtEntry \in SUBSET RtObjects
  BY DEF RtInv, RtTypes
<1>3. RtTypes'
  BY <1>1, <1>2 DEF RtInv, RtTypes
<1>4. RtServices' /\ \A o : RtMoved(o) /\ RtAlive(o)' = RtAlive(o)
  BY <1>1, RtSameServices DEF RtInv
<1>5. RtNotStopped' <=> RtNotStopped
  BY <1>1, RtSameStops
<1>6. \A x \in RtObjects : RtKept(x) => RtKept(x)'
  BY <1>1, <1>5 DEF RtKept
<1>7. \A x \in RtObjects : RtPlaced(x)'
  BY <1>1, <1>4, <1>6 DEF RtInv, RtPlaced
<1>8. ASSUME NEW x \in RtObjects PROVE RtOverlap(x)'
  <2>1. RtUpdating(x)' => RtUpdating(x) \/ rtEntry = {x}
    BY <1>1 DEF RtUpdating, RtInv, RtTypes
  <2>2. rtEntry = {x} => x \in rtRaced' \/ RtKept(x)'
    BY <1>1, <1>5 DEF RtKept
  <2> QED
    BY <1>1, <1>6, <2>1, <2>2 DEF RtInv, RtOverlap
<1> QED
  BY <1>3, <1>4, <1>7, <1>8 DEF RtInv

(* An Update that goes on with its object.                                 *)
LEMMA RtUpdateOn ==
  ASSUME RtInv, NEW u \in RtUpdates, NEW r, rtUpdate' = [rtUpdate EXCEPT ![u] = r],
         r \in [pc : {"idle", "found", "killed", "stopped"}, object : SUBSET RtObjects],
         r.object \in {rtUpdate[u].object, {}},
         UNCHANGED <<rtEntry, rtHolder, rtLoop, rtClosed, rtRaced>>
  PROVE  /\ RtTypes'
         /\ \A x \in RtObjects : (RtKept(x) => RtKept(x)') /\ (RtUpdating(x)' => RtUpdating(x))
<1>1. RtTypes'
  BY DEF RtInv, RtTypes
<1>2. RtNotStopped' <=> RtNotStopped
  BY RtSameStops
<1>3. ASSUME NEW x \in RtObjects, RtUpdating(x)' PROVE RtUpdating(x)
  <2>1. PICK v \in RtUpdates : rtUpdate'[v].object = {x}
    BY <1>3 DEF RtUpdating
  <2>2. rtUpdate[v].object = {x}
    BY <2>1 DEF RtInv, RtTypes
  <2> QED
    BY <2>2 DEF RtUpdating
<1> QED
  BY <1>1, <1>2, <1>3 DEF RtKept

(* Update stops the service, waits and starts it.                          *)
LEMMA RtUpdateKeeps ==
  ASSUME RtInv, NEW u \in RtUpdates, NEW o \in RtObjects,
         RtUpdateStops(u, o) \/ RtUpdateStopped(u, o) \/ RtUpdateStarts(u, o)
  PROVE  RtInv'
<1>1. PICK s \in [pc : {"idle", "found", "killed", "stopped"}, object : SUBSET RtObjects] :
        s = rtUpdate[u]
  BY DEF RtInv, RtTypes
<1>2. s.object = {o} /\ UNCHANGED <<rtEntry, rtHolder, rtLoop, rtClosed, rtRaced>>
  BY <1>1 DEF RtUpdateStops, RtUpdateStopped, RtUpdateStarts
<1>3. PICK r \in [pc : {"idle", "found", "killed", "stopped"}, object : SUBSET RtObjects] :
        rtUpdate' = [rtUpdate EXCEPT ![u] = r] /\ r.object \in {s.object, {}}
  <2>1. CASE RtUpdateStops(u, o)
    <3>1. PICK pc \in {"killed", "stopped"} : rtUpdate' = [rtUpdate EXCEPT ![u].pc = pc]
      BY <2>1 DEF RtUpdateStops
    <3>2. PICK r : r = [s EXCEPT !.pc = pc]
      OBVIOUS
    <3>3. /\ r \in [pc : {"idle", "found", "killed", "stopped"}, object : SUBSET RtObjects]
          /\ r.object = s.object /\ rtUpdate' = [rtUpdate EXCEPT ![u] = r]
      BY <1>1, <3>1, <3>2
    <3> QED
      BY <3>3
  <2>2. CASE RtUpdateStopped(u, o)
    <3>1. PICK r : r = [s EXCEPT !.pc = "stopped"]
      OBVIOUS
    <3>2. /\ r \in [pc : {"idle", "found", "killed", "stopped"}, object : SUBSET RtObjects]
          /\ r.object = s.object /\ rtUpdate' = [rtUpdate EXCEPT ![u] = r]
      BY <1>1, <2>2, <3>1 DEF RtUpdateStopped
    <3> QED
      BY <3>2
  <2>3. CASE RtUpdateStarts(u, o)
    <3>1. PICK r : r = [pc |-> "idle", object |-> {}]
      OBVIOUS
    <3>2. /\ r \in [pc : {"idle", "found", "killed", "stopped"}, object : SUBSET RtObjects]
          /\ r.object = {} /\ rtUpdate' = [rtUpdate EXCEPT ![u] = r]
      BY <2>3, <3>1 DEF RtUpdateStarts
    <3> QED
      BY <3>2
  <2> QED
    BY <2>1, <2>2, <2>3
<1>4. /\ RtTypes'
      /\ \A x \in RtObjects : (RtKept(x) => RtKept(x)') /\ (RtUpdating(x)' => RtUpdating(x))
  BY <1>1, <1>2, <1>3, RtUpdateOn
<1>5. o \in rtRaced \/ RtKept(o)
  <2>1. RtUpdating(o)
    BY <1>1, <1>2 DEF RtUpdating
  <2> QED
    BY <2>1 DEF RtInv, RtOverlap
<1>6. RtServices' /\ RtMoved(o)
  BY RtStopGives, RtStoppedGives, RtStartGives
     DEF RtInv, RtUpdateStops, RtUpdateStopped, RtUpdateStarts
<1>7. /\ \A x \in RtObjects \ {o} : RtPlaced(x)'
      /\ \A x \in RtObjects : RtOverlap(x)'
  BY <1>2, <1>4, <1>6, RtRest
<1>8. RtPlaced(o)'
  BY <1>2, <1>4, <1>5 DEF RtPlaced
<1> QED
  BY <1>4, <1>6, <1>7, <1>8 DEF RtInv

(* A process exits.                                                        *)
LEMMA RtExitKeeps ==
  ASSUME RtInv, NEW p \in RtPids, RtExit(p)
  PROVE  RtInv'
<1>1. UNCHANGED <<rtEntry, rtService, rtWaits, rtHolder, rtLoop, rtClosed, rtUpdate, rtRaced>>
  BY DEF RtExit
<1>2. PICK q : q = [rtProcs[p] EXCEPT !.state = "exited"]
  OBVIOUS
<1>3. q \in RtProcess /\ q.state = "exited" /\ rtProcs' = [rtProcs EXCEPT ![p] = q]
  BY <1>2 DEF RtExit, RtInv, RtServices, RtServiceTypes, RtProcess
<1>4. /\ rtProcs' \in [RtPids -> RtProcess] /\ rtProcs'[p] = q
      /\ \A k \in RtPids \ {p} : rtProcs'[k] = rtProcs[k]
  BY <1>3 DEF RtInv, RtServices, RtServiceTypes
<1>5. \A x : RtAlive(x)' \subseteq RtAlive(x)
  BY <1>3, <1>4 DEF RtAlive
<1>6. RtServices'
  BY <1>1, <1>4, <1>5 DEF RtInv, RtServices, RtServiceTypes, RtKnown
<1>7. RtTypes'
  BY <1>1 DEF RtInv, RtTypes
<1>8. RtNotStopped' <=> RtNotStopped
  BY <1>1, RtSameStops
<1>9. \A x \in RtObjects : (RtKept(x) => RtKept(x)') /\ (RtUpdating(x)' => RtUpdating(x))
  BY <1>1, <1>8 DEF RtKept, RtUpdating
<1>10. \A x \in RtObjects : RtPlaced(x)' /\ RtOverlap(x)'
  BY <1>1, <1>5, <1>9 DEF RtInv, RtPlaced, RtOverlap
<1> QED
  BY <1>6, <1>7, <1>10 DEF RtInv

(* A goroutine waits for a process, and finds it gone: then the object     *)
(* has none, or one that is not its business.                              *)
LEMMA RtWaitKeeps ==
  ASSUME RtInv, NEW w \in rtWaits, RtWaitRead(w) \/ RtWaitDone(w)
  PROVE  RtInv'
<1> DEFINE o == w.object
<1>1. w \in RtWait /\ o \in RtObjects
  BY DEF RtInv, RtServices, RtServiceTypes, RtWait
<1>2. UNCHANGED <<rtEntry, rtProcs, rtHolder, rtLoop, rtClosed, rtUpdate, rtRaced>>
  BY DEF RtWaitRead, RtWaitDone
<1>3. PICK s \in RtRecord : s = rtService[o]
  BY <1>1 DEF RtInv, RtServices, RtServiceTypes
<1>4. RtServices' /\ RtMoved(o) /\ RtAlive(o)' = RtAlive(o)
      /\ (RtAlive(o) # {} => rtService'[o].lock = s.lock)
  <2>1. CASE RtWaitRead(w)
    <3>1. [w EXCEPT !.pid = s.pid] \in RtWait
      BY <1>1, <1>3 DEF RtWait, RtRecord
    <3>2. \A v \in rtWaits' : v \in RtWait
      BY <1>3, <2>1, <3>1 DEF RtWaitRead, RtInv, RtServices, RtServiceTypes
    <3>3. rtService' = rtService
      BY <2>1 DEF RtWaitRead
    <3>4. \A x : RtAlive(x)' = RtAlive(x)
      BY <1>2 DEF RtAlive
    <3> QED
      BY <1>2, <1>3, <3>2, <3>3, <3>4 DEF RtInv, RtServices, RtServiceTypes, RtKnown, RtMoved
  <2>2. CASE RtWaitDone(w)
    <3>1. \A v \in rtWaits' : v \in RtWait
      BY <2>2 DEF RtWaitDone, RtInv, RtServices, RtServiceTypes
    <3>2. CASE rtService' = rtService
      <4>1. \A x : RtAlive(x)' = RtAlive(x)
        BY <1>2 DEF RtAlive
      <4> QED
        BY <1>2, <1>3, <3>1, <3>2, <4>1 DEF RtInv, RtServices, RtServiceTypes, RtKnown, RtMoved
    <3>3. ASSUME s.pid = w.pid, NEW n \in Nat,
                 rtService' = [rtService EXCEPT ![o] = [@ EXCEPT !.running = FALSE, !.retries = n]]
          PROVE  RtServices' /\ RtMoved(o) /\ RtAlive(o)' = {} /\ RtAlive(o) = {}
      <4>1. RtAlive(o) = {}
        BY <1>1, <1>3, <2>2, <3>3 DEF RtWaitDone, RtAlive, RtInv, RtServices, RtKnown
      <4>2. PICK r : r = [s EXCEPT !.running = FALSE, !.retries = n]
        OBVIOUS
      <4>3. r \in RtRecord
        BY <4>2 DEF RtRecord
      <4>4. rtService' = [rtService EXCEPT ![o] = r]
        BY <1>3, <3>3, <4>2
      <4> HIDE DEF o
      <4> QED
        BY <1>1, <1>2, <3>1, <4>1, <4>3, <4>4, RtOneService DEF RtInv
    <3>4. \/ rtService' = rtService
          \/ /\ s.pid = w.pid
             /\ \E n \in Nat :
                  rtService' = [rtService EXCEPT ![o] = [@ EXCEPT !.running = FALSE, !.retries = n]]
      <4>1. \A f \in {0, 1} : s.retries + f \in Nat
        BY DEF RtRecord
      <4> QED
        BY <1>3, <2>2, <4>1 DEF RtWaitDone, RtSwitched
    <3> QED
      BY <3>2, <3>3, <3>4
  <2> QED
    BY <2>1, <2>2
<1>5. RtTypes'
  BY <1>2 DEF RtInv, RtTypes
<1>6. RtNotStopped' <=> RtNotStopped
  BY <1>2, RtSameStops
<1>7. \A x \in RtObjects : (RtKept(x) => RtKept(x)') /\ (RtUpdating(x)' => RtUpdating(x))
  BY <1>2, <1>6 DEF RtKept, RtUpdating
<1>8. /\ \A x \in RtObjects \ {o} : RtPlaced(x)'
      /\ \A x \in RtObjects : RtOverlap(x)'
  <2> HIDE DEF o
  <2> QED
    BY <1>1, <1>2, <1>4, <1>7, RtRest
<1>9. RtPlaced(o)'
  BY <1>1, <1>2, <1>3, <1>4, <1>7 DEF RtInv, RtPlaced
<1> QED
  BY <1>4, <1>5, <1>8, <1>9 DEF RtInv

(* The invariant gives the property.                                       *)
LEMMA RtAccounts == RtInv => ProcessesAccounted
<1> SUFFICES ASSUME RtInv, NEW o \in RtObjects
             PROVE  /\ Cardinality(RtAlive(o)) <= 1
                    /\ RtAlive(o) # {} => \/ o \in rtRaced
                                          \/ o \in rtEntry /\ RtNotStopped
                                          \/ rtService[o].lock # "free"
  BY DEF ProcessesAccounted
<1>1. RtAlive(o) = {} \/ RtAlive(o) = {rtService[o].pid}
  BY DEF RtInv, RtServices, RtKnown
<1>2. Cardinality(RtAlive(o)) <= 1
  <2>1. CASE RtAlive(o) = {}
    BY <2>1, FS_EmptySet
  <2>2. CASE RtAlive(o) = {rtService[o].pid}
    <3>1. Cardinality({rtService[o].pid}) = 1
      BY FS_Singleton
    <3> QED
      BY <2>2, <3>1
  <2> QED
    BY <1>1, <2>1, <2>2
<1>3. RtPlaced(o)
  BY DEF RtInv
<1> QED
  BY <1>2, <1>3 DEF RtPlaced, RtKept

(* ProcessesAccounted always holds.                                        *)
THEOREM RuntimeAccounts == RuntimeInit /\ [][RuntimeNext]_rtVars => []ProcessesAccounted
<1>1. RtInv /\ [RuntimeNext]_rtVars => RtInv'
  <2> SUFFICES ASSUME RtInv, [RuntimeNext]_rtVars PROVE RtInv'
    OBVIOUS
  <2>1. CASE RuntimeNext
    BY <2>1, RtCreateKeeps, RtDeleteKeeps, RtDeletedKeeps, RtStopDoneKeeps, RtUpdateKeeps,
       RtUpdateFindsKeeps, RtStartKeeps, RtLoopKeeps, RtTickedKeeps, RtStopKeeps, RtExitKeeps,
       RtWaitKeeps
       DEF RuntimeNext
  <2>2. CASE UNCHANGED rtVars
    <3>1. UNCHANGED <<rtEntry, rtService, rtProcs, rtWaits, rtHolder, rtLoop, rtClosed,
                      rtUpdate, rtRaced>>
      BY <2>2 DEF rtVars
    <3>2. RtServices' /\ \A o : RtMoved(o) /\ RtAlive(o)' = RtAlive(o)
      BY <3>1, RtSameServices DEF RtInv
    <3>3. RtTypes'
      BY <3>1 DEF RtInv, RtTypes
    <3>4. RtNotStopped' <=> RtNotStopped
      BY <3>1, RtSameStops
    <3>5. \A x \in RtObjects : (RtKept(x) => RtKept(x)') /\ (RtUpdating(x)' => RtUpdating(x))
      BY <3>1, <3>4 DEF RtKept, RtUpdating
    <3>6. \A x \in RtObjects : RtPlaced(x)' /\ RtOverlap(x)'
      BY <3>1, <3>2, <3>5 DEF RtInv, RtPlaced, RtOverlap
    <3> QED
      BY <3>2, <3>3, <3>6 DEF RtInv
  <2> QED
    BY <2>1, <2>2
<1> QED
  BY <1>1, RtInitially, RtAccounts, PTL

-----------------------------------------------------------------------------
(* The kubernetes runtime.  The Create or Delete that holds the lock, and  *)
(* the request that it is at.                                              *)
KbDeleting == {"delete service", "delete deployment"}
KbCreating == {"namespace", "deployment", "service"}
KbOps == [obj : KbObjects, pc : KbCreating \cup KbDeleting]

(* Objects of the cluster: a Create that is at its second request has made *)
(* the deployment, and a Delete at its second one has removed the service. *)
KbObjectsMade ==
  /\ kbServices \subseteq DOMAIN kbDeployments
  /\ DOMAIN kbDeployments \subseteq KbObjects
  /\ \A op \in kbOp :
       /\ op \in KbOps
       /\ op.pc = "service" => op.obj \in DOMAIN kbDeployments
       /\ op.pc = "delete deployment" => op.obj \notin kbServices

(* An Update, the request that it is at and what it has found.             *)
KbUpdates == [pc : {"services", "deployments", "patch", "patch service"}, name : KbNames,
              version : KbVersions, space : KbSpaces, found : SUBSET KbObjects,
              route : SUBSET KbObjects, last : SUBSET KbObjects]

(* What Update found is still there unless a Delete ran beside it.         *)
KbFound ==
  /\ kbOverlap \in BOOLEAN /\ kbUpdate \subseteq KbUpdates
  /\ kbPanic => kbOverlap
  /\ ~kbOverlap =>
       \A u \in kbUpdate :
         /\ \A op \in kbOp : op.pc \notin KbDeleting
         /\ u.pc = "deployments" =>
              u.found \subseteq {x \in DOMAIN kbDeployments : KbMatches(x, u.name, u.version)}

(* The goroutines of run, those that are ending among them.                *)
KbLoopsCounted ==
  /\ kbLoops \in Nat /\ kbEnding \in Nat /\ kbRunning \in BOOLEAN
  /\ LoopsFollowRunning

(* The inductive invariant.                                                *)
KbInv == KbObjectsMade /\ KbFound /\ KbLoopsCounted

(* The cluster is empty at first.                                          *)
LEMMA KbStarts == KubernetesInit => KbInv
<1> SUFFICES ASSUME KubernetesInit  PROVE  KbInv  OBVIOUS
<1>1. KbObjectsMade
  <2>1. kbServices = {} /\ kbOp = {} /\ DOMAIN kbDeployments = {}  BY DEF KubernetesInit
  <2> QED  BY <2>1 DEF KbObjectsMade
<1>2. KbFound  BY DEF KubernetesInit, KbFound
<1>3. KbLoopsCounted  BY DEF KubernetesInit, KbLoopsCounted, LoopsFollowRunning
<1> QED  BY <1>1, <1>3, <1>2 DEF KbInv

(* What a request does to the objects: it takes a deployment away only if  *)
(* it is the second one of a Delete, and adds a service only if it is the  *)
(* second one of a Create.                                                 *)
LEMMA KbRequestMoves ==
  ASSUME NEW op \in kbOp, KbObjectsMade, KbRequest(op)
  PROVE  /\ kbServices' \subseteq DOMAIN kbDeployments' /\ DOMAIN kbDeployments' \subseteq KbObjects
         /\ op.pc # "delete deployment" => DOMAIN kbDeployments \subseteq DOMAIN kbDeployments'
         /\ KbAfter(op.pc) = "service" => op.obj \in DOMAIN kbDeployments'
         /\ KbAfter(op.pc) = "delete deployment" => op.obj \notin kbServices'
         /\ KbAfter(op.pc) \in {"done", "deployment", "service", "delete deployment"}
         /\ KbAfter(op.pc) \in KbDeleting => op.pc \in KbDeleting
<1> op.obj \in KbObjects /\ op.pc \in KbCreating \cup KbDeleting  BY DEF KbObjectsMade, KbOps
<1>1. CASE op.pc = "namespace" /\ KbPostNamespace(op.obj[1])
  BY <1>1 DEF KbPostNamespace, KbObjectsMade, KbAfter, KbDeleting
<1>2. CASE op.pc = "deployment" /\ KbPostDeployment(op.obj)
  BY <1>2 DEF KbPostDeployment, KbObjectsMade, KbAfter, KbDeleting
<1>3. CASE op.pc = "service" /\ KbPostService(op.obj)
  BY <1>3 DEF KbPostService, KbObjectsMade, KbAfter, KbDeleting
<1>4. CASE op.pc = "delete service" /\ KbDeleteService(op.obj)
  BY <1>4 DEF KbDeleteService, KbObjectsMade, KbAfter, KbDeleting
<1>5. CASE op.pc = "delete deployment" /\ KbDeleteDeployment(op.obj)
  BY <1>5 DEF KbDeleteDeployment, KbObjectsMade, KbAfter, KbDeleting
<1> QED  BY <1>1, <1>2, <1>3, <1>4, <1>5 DEF KbRequest

(* A request that is carried out, or not, keeps what Update found.         *)
LEMMA KbRequestFound ==
  ASSUME NEW op \in kbOp, KbObjectsMade, KbFound, KbRequest(op) \/ UNCHANGED kbCluster,
         UNCHANGED <<kbUpdate, kbPanic, kbOverlap>>,
         \A o \in kbOp' : o.pc \in KbDeleting => op.pc \in KbDeleting
  PROVE  KbFound'
<1>1. op.pc # "delete deployment" => DOMAIN kbDeployments \subseteq DOMAIN kbDeployments'
  <2>1. CASE KbRequest(op)  BY <2>1, KbRequestMoves
  <2>2. CASE UNCHANGED kbCluster  BY <2>2 DEF kbCluster
  <2> QED  BY <2>1, <2>2
<1>2. ASSUME ~kbOverlap, NEW u \in kbUpdate
      PROVE  /\ \A o \in kbOp' : o.pc \notin KbDeleting
             /\ u.pc = "deployments" =>
                  u.found \subseteq {x \in DOMAIN kbDeployments' : KbMatches(x, u.name, u.version)}
  <2>1. op.pc \notin KbDeleting  BY <1>2 DEF KbFound
  <2> QED  BY <2>1, <1>1, <1>2 DEF KbFound, KbDeleting
<1> QED  BY <1>2 DEF KbFound

(* Create and Delete.                                                      *)
LEMMA KbOpsKeep ==
  ASSUME KbInv,
         \/ \E x \in KbObjects : KbCreate(x) \/ KbDelete(x)
         \/ \E op \in kbOp : KbRequested(op) \/ KbFailed(op)
  PROVE  KbInv'
<1> USE DEF KbInv
<1>1. ASSUME NEW x \in KbObjects, KbCreate(x)  PROVE  KbInv'
  <2>1. PICK pc : pc \in {"deployment", "namespace"} /\ kbOp' = {[obj |-> x, pc |-> pc]}
    BY <1>1 DEF KbCreate
  <2>2. UNCHANGED <<kbDeployments, kbServices, kbUpdate, kbPanic, kbOverlap>>
    BY <1>1 DEF KbCreate, kbCluster
  <2>3. PICK op : op = [obj |-> x, pc |-> pc]  OBVIOUS
  <2>4. op \in KbOps /\ op.pc \in {"deployment", "namespace"}
    BY <2>1, <2>3 DEF KbOps, KbCreating
  <2>5. kbOp' = {op}  BY <2>1, <2>3
  <2>6. KbObjectsMade'  BY <2>2, <2>4, <2>5 DEF KbObjectsMade
  <2>7. KbFound'  BY <2>2, <2>4, <2>5 DEF KbFound, KbDeleting
  <2>8. KbLoopsCounted'
    BY <1>1 DEF KbCreate, KbLoopsCounted, LoopsFollowRunning, kbLife
  <2> QED  BY <2>6, <2>7, <2>8
<1>2. ASSUME NEW x \in KbObjects, KbDelete(x)  PROVE  KbInv'
  <2>1. PICK pc : pc = CHOOSE q \in {"delete service", "delete deployment"} : KbAfter(q) # "done"
    OBVIOUS
  <2>2. pc = "delete service"
    <3>1. KbAfter("delete service") # "done"  BY DEF KbAfter
    <3>2. KbAfter("delete deployment") = "done"  BY DEF KbAfter
    <3>3. \E q \in {"delete service", "delete deployment"} : KbAfter(q) # "done"  BY <3>1
    <3>4. pc \in {"delete service", "delete deployment"} /\ KbAfter(pc) # "done"
      BY <2>1, <3>3, Zenon
    <3> QED  BY <3>2, <3>4
  <2>3. kbOp' = {[obj |-> x, pc |-> "delete service"]}  BY <1>2, <2>1, <2>2 DEF KbDelete
  <2>4. KbObjectsMade'
    <3>1. PICK op : op = [obj |-> x, pc |-> "delete service"]  OBVIOUS
    <3>2. op \in KbOps /\ op.pc = "delete service"  BY <3>1 DEF KbOps, KbDeleting
    <3>3. kbOp' = {op} /\ UNCHANGED <<kbDeployments, kbServices>>
      BY <1>2, <2>3, <3>1 DEF KbDelete, kbCluster
    <3> QED  BY <3>2, <3>3 DEF KbObjectsMade
  <2>5. KbFound'  BY <1>2, <2>3 DEF KbDelete, KbFound, kbCluster
  <2>6. KbLoopsCounted'  BY <1>2 DEF KbDelete, KbLoopsCounted, LoopsFollowRunning, kbLife
  <2> QED  BY <2>4, <2>5, <2>6
<1>3. ASSUME NEW op \in kbOp, KbRequested(op)  PROVE  KbInv'
  <2>1. KbRequest(op)  BY <1>3 DEF KbRequested
  <2>2. kbOp' \subseteq {[op EXCEPT !.pc = KbAfter(op.pc)]} /\ (KbAfter(op.pc) = "done" => kbOp' = {})
    BY <1>3 DEF KbRequested
  <2>3. \A o \in kbOp' : o.pc = KbAfter(op.pc) /\ o.obj = op.obj /\ o.pc # "done"
    <3>1. PICK n : n = KbAfter(op.pc)  OBVIOUS
    <3>2. op \in KbOps  BY DEF KbObjectsMade
    <3>3. [op EXCEPT !.pc = n].pc = n /\ [op EXCEPT !.pc = n].obj = op.obj  BY <3>2 DEF KbOps
    <3> QED  BY <2>2, <3>1, <3>3
  <2>4. KbObjectsMade'
    <3>1. \A o \in kbOp' : o \in KbOps
      <4>1. PICK n : n = KbAfter(op.pc)  OBVIOUS
      <4>2. op \in KbOps  BY DEF KbObjectsMade
      <4>3. n # "done" => n \in KbCreating \cup KbDeleting
        BY <4>1, <2>1, KbRequestMoves DEF KbCreating, KbDeleting
      <4>4. n # "done" => [op EXCEPT !.pc = n] \in KbOps  BY <4>2, <4>3 DEF KbOps
      <4> QED  BY <2>2, <4>1, <4>4
    <3> QED  BY <2>1, <2>3, <3>1, KbRequestMoves DEF KbObjectsMade
  <2>5. KbFound'
    <3>1. UNCHANGED <<kbUpdate, kbPanic, kbOverlap>>  BY <1>3 DEF KbRequested
    <3>2. \A o \in kbOp' : o.pc \in KbDeleting => op.pc \in KbDeleting
      BY <2>1, <2>3, KbRequestMoves
    <3> QED  BY <2>1, <3>1, <3>2, KbRequestFound
  <2>6. KbLoopsCounted'  BY <1>3 DEF KbRequested, KbLoopsCounted, LoopsFollowRunning, kbLife
  <2> QED  BY <2>4, <2>5, <2>6
<1>4. ASSUME NEW op \in kbOp, KbFailed(op)  PROVE  KbInv'
  <2>1. kbServices' \subseteq DOMAIN kbDeployments' /\ DOMAIN kbDeployments' \subseteq KbObjects
    BY <1>4, KbRequestMoves DEF KbFailed, kbCluster, KbObjectsMade
  <2>2. kbOp' = {} /\ UNCHANGED <<kbUpdate, kbPanic, kbOverlap>>  BY <1>4 DEF KbFailed
  <2>3. KbObjectsMade'  BY <2>1, <2>2 DEF KbObjectsMade
  <2>4. KbFound'  BY <1>4, <2>2, KbRequestFound DEF KbFailed
  <2>5. KbLoopsCounted'  BY <1>4 DEF KbFailed, KbLoopsCounted, LoopsFollowRunning, kbLife
  <2> QED  BY <2>3, <2>4, <2>5
<1> QED  BY <1>1, <1>2, <1>3, <1>4

(* A patch changes no set of objects.                                      *)
LEMMA KbPatchKeeps ==
  ASSUME KbObjectsMade, NEW x, KbPatch(x), kbOp' = kbOp
  PROVE  KbObjectsMade' /\ DOMAIN kbDeployments' = DOMAIN kbDeployments
  BY DEF KbObjectsMade, KbPatch

(* Update, with the three requests that it makes.                          *)
LEMMA KbUpdatesKeep ==
  ASSUME KbInv,
         \/ \E name \in KbNames, v \in KbVersions, s \in KbSpaces : KbUpdate(name, v, s)
         \/ \E u \in kbUpdate : KbGetServices(u) \/ KbGetFails(u) \/ KbGetDeployments(u)
         \/ \E u \in kbUpdate : KbPatches(u) \/ KbPatchesService(u)
  PROVE  KbInv'
<1> USE DEF KbInv
<1>1. ASSUME NEW name \in KbNames, NEW v \in KbVersions, NEW s \in KbSpaces, KbUpdate(name, v, s)
      PROVE  KbInv'
  <2>1. PICK u : u = [pc |-> "services", name |-> name, version |-> v, space |-> s,
                      found |-> {}, route |-> {}, last |-> {}]
    OBVIOUS
  <2>2. u \in KbUpdates /\ u.pc # "deployments"  BY <2>1 DEF KbUpdates
  <2>3. kbUpdate' = {u} /\ kbOverlap' = (kbOp # {}) /\ ~kbPanic /\ UNCHANGED <<kbOp, kbPanic>>
    BY <1>1, <2>1 DEF KbUpdate
  <2>4. KbObjectsMade'  BY <1>1 DEF KbUpdate, KbObjectsMade, kbCluster
  <2>5. KbFound'  BY <2>2, <2>3 DEF KbFound
  <2>6. KbLoopsCounted'  BY <1>1 DEF KbUpdate, KbLoopsCounted, LoopsFollowRunning, kbLife
  <2> QED  BY <2>4, <2>5, <2>6
<1>2. ASSUME NEW u \in kbUpdate, KbGetServices(u)  PROVE  KbInv'
  <2>1. PICK f : f = {x \in kbServices : KbMatches(x, u.name, u.version)}  OBVIOUS
  <2>10. PICK r \in IF f = {} THEN {{}} ELSE {{x} : x \in f} :
           kbUpdate' = {[u EXCEPT !.pc = "deployments", !.found = f, !.route = r]}
    BY <1>2, <2>1, Zenon DEF KbGetServices
  <2>11. r \in SUBSET f  OBVIOUS
  <2>3. PICK w : w = [u EXCEPT !.pc = "deployments", !.found = f, !.route = r]  OBVIOUS
  <2>2. kbUpdate' = {w}  BY <2>10, <2>3
  <2>4. u \in KbUpdates /\ f \subseteq KbObjects  BY <2>1 DEF KbFound, KbObjectsMade
  <2>5. w \in KbUpdates /\ w.found = f /\ w.name = u.name /\ w.version = u.version
    BY <2>3, <2>4, <2>11 DEF KbUpdates
  <2>6. UNCHANGED <<kbDeployments, kbOp, kbPanic, kbOverlap>>  BY <1>2 DEF KbGetServices, kbCluster
  <2>7. KbObjectsMade'  BY <1>2 DEF KbGetServices, KbObjectsMade, kbCluster
  <2>8. KbFound'
    <3>1. f \subseteq {x \in DOMAIN kbDeployments' : KbMatches(x, w.name, w.version)}
      BY <2>1, <2>5, <2>6 DEF KbObjectsMade
    <3> QED  BY <2>2, <2>3, <2>5, <2>6, <3>1 DEF KbFound
  <2>9. KbLoopsCounted'  BY <1>2 DEF KbGetServices, KbLoopsCounted, LoopsFollowRunning, kbLife
  <2> QED  BY <2>7, <2>8, <2>9
<1>3. ASSUME NEW u \in kbUpdate, KbGetDeployments(u)  PROVE  KbInv'
  <2>1. PICK listed : listed = {x \in DOMAIN kbDeployments : KbMatches(x, u.name, u.version)}
    OBVIOUS
  <2>2. KbObjectsMade'  BY <1>3 DEF KbGetDeployments, KbObjectsMade, kbCluster
  <2>3. KbLoopsCounted'  BY <1>3 DEF KbGetDeployments, KbLoopsCounted, LoopsFollowRunning, kbLife
  <2>4. u.pc = "deployments" /\ UNCHANGED <<kbDeployments, kbOp, kbOverlap>>
    BY <1>3 DEF KbGetDeployments, kbCluster
  <2>5. ~kbOverlap => u.found \subseteq listed  BY <2>1, <2>4 DEF KbFound
  <2>6. \/ /\ UNCHANGED kbPanic
           /\ \A w \in kbUpdate' : \E last \in SUBSET listed :
                w = [u EXCEPT !.pc = "patch", !.last = last]
        \/ kbUpdate' = {} /\ ~(u.found \subseteq listed)
    BY <1>3, <2>1 DEF KbGetDeployments
  <2>7. CASE /\ UNCHANGED kbPanic
             /\ \A w \in kbUpdate' : \E last \in SUBSET listed :
                  w = [u EXCEPT !.pc = "patch", !.last = last]
    <3>1. \A w \in kbUpdate' : w \in KbUpdates /\ w.pc # "deployments"
      <4> SUFFICES ASSUME NEW w \in kbUpdate'  PROVE  w \in KbUpdates /\ w.pc # "deployments"
        OBVIOUS
      <4>1. PICK last \in SUBSET listed : w = [u EXCEPT !.pc = "patch", !.last = last]  BY <2>7
      <4>2. u \in KbUpdates /\ last \in SUBSET KbObjects  BY <2>1 DEF KbFound, KbObjectsMade
      <4> QED  BY <4>1, <4>2 DEF KbUpdates
    <3> QED  BY <2>2, <2>3, <2>4, <2>7, <3>1 DEF KbFound
  <2>8. CASE kbUpdate' = {} /\ ~(u.found \subseteq listed)
    <3>1. kbOverlap  BY <2>5, <2>8 DEF KbFound
    <3> QED  BY <2>2, <2>3, <2>4, <2>8, <3>1 DEF KbFound
  <2> QED  BY <2>6, <2>7, <2>8
<1>4. ASSUME NEW u \in kbUpdate, KbPatches(u)  PROVE  KbInv'
  <2>1. u.pc = "patch" /\ UNCHANGED <<kbOp, kbPanic, kbOverlap>>  BY <1>4 DEF KbPatches
  <2>2. \A w \in kbUpdate' : w \in KbUpdates /\ w.pc # "deployments"
    <3>1. u \in KbUpdates  BY DEF KbFound
    <3>2. kbUpdate' \subseteq {[u EXCEPT !.pc = "patch service"]}  BY <1>4 DEF KbPatches
    <3> QED  BY <3>1, <3>2 DEF KbUpdates
  <2>3. KbObjectsMade'
    <3>1. CASE UNCHANGED kbCluster  BY <3>1, <2>1 DEF KbObjectsMade, kbCluster
    <3>2. CASE \E x : KbPatch(x)  BY <3>2, <2>1, KbPatchKeeps
    <3> QED  BY <1>4, <3>1, <3>2 DEF KbPatches
  <2>4. KbFound'  BY <2>1, <2>2 DEF KbFound
  <2>5. KbLoopsCounted'  BY <1>4 DEF KbPatches, KbLoopsCounted, LoopsFollowRunning, kbLife
  <2> QED  BY <2>3, <2>4, <2>5
<1>5. ASSUME NEW u \in kbUpdate, KbPatchesService(u) \/ KbGetFails(u)  PROVE  KbInv'
  <2>1. UNCHANGED <<kbCluster, kbOp, kbLife, kbPanic, kbOverlap>>
    BY <1>5 DEF KbPatchesService, KbGetFails
  <2>2. \A w \in kbUpdate' : w \in KbUpdates /\ w.pc # "deployments"
    <3>1. u \in KbUpdates  BY DEF KbFound
    <3>2. \A y \in u.found : /\ [u EXCEPT !.pc = "patch", !.found = @ \ {y}] \in KbUpdates
                            /\ [u EXCEPT !.pc = "patch", !.found = @ \ {y}].pc = "patch"
      BY <3>1 DEF KbUpdates
    <3>3. kbUpdate' \subseteq {[u EXCEPT !.pc = "patch", !.found = @ \ {y}] : y \in u.found}
      BY <1>5 DEF KbPatchesService, KbGetFails
    <3> QED  BY <3>2, <3>3
  <2>3. KbObjectsMade'  BY <2>1 DEF KbObjectsMade, kbCluster
  <2>4. KbFound'  BY <2>1, <2>2 DEF KbFound, kbCluster
  <2>5. KbLoopsCounted'  BY <2>1 DEF KbLoopsCounted, LoopsFollowRunning, kbLife
  <2> QED  BY <2>3, <2>4, <2>5
<1> QED  BY <1>1, <1>2, <1>3, <1>4, <1>5

(* Start, Stop and the loop.                                               *)
LEMMA KbLoopsKeep ==
  ASSUME KbInv,
         \/ KbStart \/ KbStop \/ KbRunEnds \/ KbRunMisses
         \/ \E name \in KbNames : KbEvent(name)
  PROVE  KbInv'
<1> USE DEF KbInv
<1>1. ASSUME KbStart \/ KbStop \/ KbRunEnds \/ KbRunMisses  PROVE  KbInv'
  <2>1. UNCHANGED <<kbDeployments, kbServices, kbOp, kbUpdate, kbPanic, kbOverlap>>
    BY <1>1 DEF KbStart, KbStop, KbRunEnds, KbRunMisses, kbCluster
  <2>2. KbObjectsMade' /\ KbFound'  BY <2>1 DEF KbObjectsMade, KbFound
  <2>3. KbLoopsCounted'
    <3>1. CASE KbStart
      BY <3>1 DEF KbStart, KbLoopsCounted, LoopsFollowRunning
    <3>2. CASE KbStop
      BY <3>2 DEF KbStop, KbLoopsCounted, LoopsFollowRunning
    <3>3. CASE KbRunEnds \/ KbRunMisses
      BY <3>3 DEF KbRunEnds, KbRunMisses, KbLoopsCounted, LoopsFollowRunning
    <3> QED  BY <1>1, <3>1, <3>3, <3>2
  <2> QED  BY <2>2, <2>3
<1>2. ASSUME NEW name \in KbNames, KbEvent(name)  PROVE  KbInv'
  <2>1. UNCHANGED <<kbOp, kbUpdate, kbPanic, kbOverlap, kbLoops, kbEnding, kbRunning>>
    BY <1>2 DEF KbEvent, kbLife
  <2>2. PICK x : KbPatch(x)  BY <1>2 DEF KbEvent
  <2>3. KbObjectsMade' /\ DOMAIN kbDeployments' = DOMAIN kbDeployments
    BY <2>1, <2>2, KbPatchKeeps
  <2>4. KbFound'  BY <2>1, <2>3 DEF KbFound
  <2>5. KbLoopsCounted'  BY <2>1 DEF KbLoopsCounted, LoopsFollowRunning
  <2> QED  BY <2>3, <2>4, <2>5
<1> QED  BY <1>1, <1>2

(* The kubernetes runtime is sound: for every set of names, versions and   *)
(* namespaces and whatever request fails, a service routes to a deployment *)
(* that exists, Update dereferences a missing one only beside a Delete,    *)
(* and a running runtime has a loop that goes on.                          *)
THEOREM KubernetesObjects == KubernetesInit /\ [][KubernetesNext]_kbVars => []KubernetesSound
<1>1. ASSUME KbInv, [KubernetesNext]_kbVars  PROVE  KbInv'
  <2>1. CASE UNCHANGED kbVars
    BY <1>1, <2>1 DEF kbVars, KbInv, KbObjectsMade, KbFound, KbLoopsCounted, LoopsFollowRunning
  <2>2. CASE KubernetesNext
    BY <1>1, <2>2, KbOpsKeep, KbUpdatesKeep, KbLoopsKeep DEF KubernetesNext
  <2> QED  BY <1>1, <2>1, <2>2
<1>2. KbInv => KubernetesSound
  BY DEF KbInv, KbObjectsMade, KbFound, KbLoopsCounted, KubernetesSound, ServiceHasDeployment
<1> QED  BY <1>1, <1>2, KbStarts, PTL

-----------------------------------------------------------------------------
(* The log streams.  Sources of lines that are numbered.                   *)
LgNumbered == LgPods \cup {LgOne}

(* The types of the variables.                                             *)
LgTypes ==
  /\ lgStop \in BOOLEAN /\ lgClosed \in BOOLEAN /\ lgTwice \in BOOLEAN /\ lgOverlap \in BOOLEAN
  /\ lgAt \in [LgSources -> {"off", "start", "idle", "ready", "send", "exit", "panic"}]
  /\ lgNext \in [LgSources -> Nat]
  /\ lgCaller \in [LgStoppers -> {"idle", "checked", "done"}]
  /\ lgOut \in Seq({lgOut[i] : i \in DOMAIN lgOut})

(* Nothing has happened to a stream that was not opened.                   *)
LgFresh ==
  lgKind = "none" =>
    /\ lgOut = <<>> /\ ~lgStop /\ ~lgClosed /\ ~lgTwice
    /\ \A p \in LgSources : lgAt[p] = "off"
    /\ \A s \in LgStoppers : lgCaller[s] = "idle"

(* The line that p is at follows the last one that arrived of p (while p   *)
(* sends a line it has counted it already).                                *)
LgIsLast(p, i) == lgOut[i][1] = p /\ \A k \in DOMAIN lgOut : i < k => lgOut[k][1] # p
LgArrived(p) ==
  /\ lgAt[p] \in {"off", "start"} => \A i \in DOMAIN lgOut : lgOut[i][1] # p
  /\ \A i \in DOMAIN lgOut : lgOut[i][1] = p => lgOut[i][2] \in Int
  /\ \A i \in DOMAIN lgOut :
       LgIsLast(p, i) =>
         /\ lgAt[p] \in {"idle", "ready"} => LgFollows(p, lgOut[i][2], lgNext[p])
         /\ lgAt[p] = "send" => LgFollows(p, lgOut[i][2], lgNext[p] - 1)

(* Who closed what: only Stop of a watcher looks at the channel and closes *)
(* it in two steps.                                                        *)
LgClosing ==
  /\ lgClosed => lgStop /\ lgKind # "watch"
  /\ \A p \in LgSources : lgAt[p] = "panic" => lgStop /\ lgKind # "watch"
  /\ lgKind = "watch" => \A p \in LgPods : lgAt[p] = "off"
  /\ lgTwice => lgKind = "watch" /\ lgOverlap
  /\ lgKind = "watch" /\ ~lgOverlap =>
       \A s \in LgStoppers : lgCaller[s] = "checked" =>
         ~lgStop /\ \A r \in LgStoppers : lgCaller[r] = "checked" => r = s

(* The inductive invariant.                                                *)
LgLinesOrdered == \A p \in LgNumbered : LgArrived(p) /\ LgInOrder(p)
LgInv == LgTypes /\ LgFresh /\ LgLinesOrdered /\ LgClosing

(* No stream is open at first.                                             *)
LEMMA LgStarts == LogStreamsInit => LgInv
<1> SUFFICES ASSUME LogStreamsInit  PROVE  LgInv  OBVIOUS
<1>1. lgOut = <<>> /\ DOMAIN lgOut = {}  BY DEF LogStreamsInit
<1>2. LgTypes
  <2>1. lgOut \in Seq({lgOut[i] : i \in DOMAIN lgOut})  BY <1>1
  <2>2. lgNext \in [LgSources -> Nat]  BY DEF LogStreamsInit
  <2> QED  BY <2>1, <2>2 DEF LogStreamsInit, LgTypes
<1>3. LgFresh  BY DEF LogStreamsInit, LgFresh
<1>4. LgLinesOrdered  BY <1>1 DEF LgLinesOrdered, LgArrived, LgInOrder
<1>5. LgClosing  BY DEF LogStreamsInit, LgClosing
<1> QED  BY <1>2, <1>3, <1>4, <1>5 DEF LgInv

(* How a goroutine moves that sends nothing.                               *)
LgMoved(p) ==
  \/ lgAt[p] \in {"idle", "ready", "start"} /\ lgAt'[p] \in {"idle", "ready"}
     /\ lgNext'[p] = lgNext[p]
  \/ lgAt[p] \in {"idle", "ready"} /\ lgAt'[p] = "send" /\ lgNext'[p] = lgNext[p] + 1
  \/ /\ lgAt[p] = "idle" /\ lgAt'[p] = "idle" /\ lgNext'[p] = lgNext[p] + 1
     /\ p = LgOne /\ lgNext[p] \in lgBad'
  \/ lgAt'[p] \in {"exit", "panic"}

(* What follows still does, and so does the line after one that did not    *)
(* decode.                                                                 *)
LEMMA LgFollowsOn ==
  ASSUME lgBad \subseteq lgBad', NEW p, NEW m \in Int, NEW n \in Int, LgFollows(p, m, n)
  PROVE  /\ LgFollows(p, m, n)'
         /\ p = LgOne /\ n \in lgBad' => LgFollows(p, m, n + 1)'
  BY DEF LgFollows

(* A source that stays where it is, or moves so, keeps its lines while     *)
(* none arrives.                                                           *)
LEMMA LgOthersKeep ==
  ASSUME LgTypes, LgLinesOrdered, UNCHANGED lgOut, lgBad \subseteq lgBad', NEW p \in LgNumbered,
         (lgAt'[p] = lgAt[p] /\ lgNext'[p] = lgNext[p]) \/ LgMoved(p)
  PROVE  (LgArrived(p) /\ LgInOrder(p))'
<1>1. LgArrived(p) /\ LgInOrder(p)  BY DEF LgLinesOrdered
<1>0. \A i \in DOMAIN lgOut : lgOut[i][1] = p => lgOut[i][2] \in Int  BY <1>1 DEF LgArrived
<1>2. LgInOrder(p)'
  <2> SUFFICES ASSUME NEW i \in DOMAIN lgOut, NEW j \in DOMAIN lgOut, i < j,
                      lgOut[i][1] = p, lgOut[j][1] = p,
                      \A k \in DOMAIN lgOut : i < k /\ k < j => lgOut[k][1] # p
               PROVE  LgFollows(p, lgOut[i][2], lgOut[j][2])'
    BY DEF LgInOrder
  <2>1. LgFollows(p, lgOut[i][2], lgOut[j][2])  BY <1>1 DEF LgInOrder
  <2>2. PICK m, n : m = lgOut[i][2] /\ n = lgOut[j][2]  OBVIOUS
  <2>3. LgFollows(p, m, n)'  BY <1>0, <2>1, <2>2, LgFollowsOn
  <2> QED  BY <2>2, <2>3
<1>3. \A i \in DOMAIN lgOut : LgIsLast(p, i)' <=> LgIsLast(p, i)  BY DEF LgIsLast
<1>4. LgArrived(p)'
  <2>1. PICK a, b : a = lgAt[p] /\ b = lgAt'[p]  OBVIOUS
  <2>2. PICK m, n : m = lgNext[p] /\ n = lgNext'[p] /\ m \in Nat
    BY DEF LgTypes, LgNumbered, LgSources
  <2>3. a \in {"off", "start"} => \A i \in DOMAIN lgOut : lgOut[i][1] # p
    BY <1>1, <2>1 DEF LgArrived
  <2>4. \A i \in DOMAIN lgOut :
          LgIsLast(p, i) =>
            /\ a \in {"idle", "ready"} => LgFollows(p, lgOut[i][2], m)
            /\ a = "send" => LgFollows(p, lgOut[i][2], m - 1)
    BY <1>1, <2>1, <2>2 DEF LgArrived
  <2>5. b \in {"off", "start"} => \A i \in DOMAIN lgOut : lgOut[i][1] # p
    BY <2>1, <2>3 DEF LgMoved
  <2>6. \A i \in DOMAIN lgOut :
          LgIsLast(p, i) =>
            /\ b \in {"idle", "ready"} => LgFollows(p, lgOut[i][2], n)'
            /\ b = "send" => LgFollows(p, lgOut[i][2], n - 1)'
    <3> SUFFICES ASSUME NEW i \in DOMAIN lgOut, LgIsLast(p, i)
                 PROVE  /\ b \in {"idle", "ready"} => LgFollows(p, lgOut[i][2], n)'
                        /\ b = "send" => LgFollows(p, lgOut[i][2], n - 1)'
      OBVIOUS
    <3>1. lgOut[i][1] = p  BY DEF LgIsLast
    <3>2. PICK v : v = lgOut[i][2] /\ v \in Int  BY <1>0, <3>1
    <3>3. a # "start"  BY <2>3, <3>1
    <3>4. /\ a \in {"idle", "ready"} => LgFollows(p, v, m)
          /\ a = "send" => LgFollows(p, v, m - 1)
      BY <2>4, <3>2
    <3>5. /\ a \in {"idle", "ready"} => LgFollows(p, v, m)'
          /\ a = "send" => LgFollows(p, v, m - 1)'
          /\ a = "idle" /\ p = LgOne /\ m \in lgBad' => LgFollows(p, v, m + 1)'
      BY <2>2, <3>2, <3>4, LgFollowsOn
    <3>6. /\ b \in {"idle", "ready"} => LgFollows(p, v, n)'
          /\ b = "send" => LgFollows(p, v, n - 1)'
      <4>1. n = m + 1 => n - 1 = m  BY <2>2
      <4> QED  BY <2>1, <2>2, <3>3, <3>5, <4>1 DEF LgMoved
    <3> QED  BY <3>2, <3>6
  <2> QED  BY <1>0, <1>3, <2>1, <2>2, <2>5, <2>6 DEF LgArrived
<1> QED  BY <1>2, <1>4

(* A source that moves without a line, and the others with it.             *)
LEMMA LgLinesKeep ==
  ASSUME LgTypes, LgLinesOrdered, UNCHANGED lgOut, lgBad \subseteq lgBad',
         \A p \in LgNumbered : (lgAt'[p] = lgAt[p] /\ lgNext'[p] = lgNext[p]) \/ LgMoved(p)
  PROVE  LgLinesOrdered'
<1> SUFFICES ASSUME NEW p \in LgNumbered  PROVE  (LgArrived(p) /\ LgInOrder(p))'
  BY DEF LgLinesOrdered
<1> QED  BY LgOthersKeep

(* A line that arrives.                                                    *)
LEMMA LgLineArrives ==
  ASSUME LgTypes, LgLinesOrdered, NEW q \in LgSources, NEW line, lgOut' = Append(lgOut, <<q, line>>),
         q \in LgNumbered => lgAt[q] = "send" /\ line = lgNext[q] - 1 /\ lgAt'[q] = "idle",
         UNCHANGED <<lgNext, lgBad>>, \A p \in LgNumbered \ {q} : lgAt'[p] = lgAt[p]
  PROVE  LgLinesOrdered' /\ lgOut' \in Seq({lgOut'[i] : i \in DOMAIN lgOut'})
<1>1. PICK S : /\ S = {lgOut[i] : i \in DOMAIN lgOut} \cup {<<q, line>>}
               /\ lgOut \in Seq(S) /\ <<q, line>> \in S
  <2>1. PICK R, S : R = {lgOut[i] : i \in DOMAIN lgOut} /\ S = R \cup {<<q, line>>}  OBVIOUS
  <2>2. lgOut \in Seq(R) /\ R \subseteq S  BY <2>1 DEF LgTypes
  <2>3. lgOut \in Seq(S)  BY <2>2, SeqMonotonic
  <2> QED  BY <2>1, <2>3
<1>2. PICK n \in Nat : n = Len(lgOut) /\ DOMAIN lgOut = 1..n  BY DEF LgTypes
<1>3. /\ DOMAIN lgOut' = 1..(n + 1)
      /\ \A i \in 1..n : lgOut'[i] = lgOut[i]
      /\ lgOut'[n + 1] = <<q, line>>
  BY <1>1, <1>2, AppendProperties
<1>4. lgOut' \in Seq({lgOut'[i] : i \in DOMAIN lgOut'})
  <2>1. PICK T : T = {lgOut'[i] : i \in DOMAIN lgOut'}  OBVIOUS
  <2>2. S \subseteq T  BY <1>1, <1>2, <1>3, <2>1
  <2>3. lgOut' \in Seq(S)  BY <1>1, AppendProperties
  <2>4. lgOut' \in Seq(T)  BY <2>2, <2>3, SeqMonotonic
  <2> QED  BY <2>1, <2>4
<1>5. ASSUME NEW p \in LgNumbered  PROVE  (LgArrived(p) /\ LgInOrder(p))'
  <2>1. LgArrived(p) /\ LgInOrder(p)  BY DEF LgLinesOrdered
  <2>0. \A m, k : LgFollows(p, m, k)' <=> LgFollows(p, m, k)  BY DEF LgFollows
  <2>2. CASE p # q
    <3>1. lgOut'[n + 1][1] # p  BY <1>3, <2>2
    <3>2. lgAt'[p] = lgAt[p] /\ lgNext'[p] = lgNext[p]  BY <1>5, <2>2
    <3>3. \A i \in DOMAIN lgOut' : LgIsLast(p, i)' => i \in DOMAIN lgOut /\ LgIsLast(p, i)
      BY <1>2, <1>3, <3>1 DEF LgIsLast
    <3>4. LgArrived(p)'
      <4>1. lgAt'[p] \in {"off", "start"} => \A i \in DOMAIN lgOut' : lgOut'[i][1] # p
        BY <1>2, <1>3, <2>1, <3>1, <3>2 DEF LgArrived
      <4>2. \A i \in DOMAIN lgOut' : LgIsLast(p, i)' =>
              /\ lgAt'[p] \in {"idle", "ready"} => LgFollows(p, lgOut'[i][2], lgNext'[p])
              /\ lgAt'[p] = "send" => LgFollows(p, lgOut'[i][2], lgNext'[p] - 1)
        BY <1>2, <1>3, <2>1, <3>2, <3>3 DEF LgArrived
      <4>3. \A i \in DOMAIN lgOut' : lgOut'[i][1] = p => lgOut'[i][2] \in Int
        BY <1>2, <1>3, <2>1, <3>1 DEF LgArrived
      <4> QED  BY <2>0, <4>1, <4>2, <4>3 DEF LgArrived
    <3>5. LgInOrder(p)'
      <4> SUFFICES ASSUME NEW i \in DOMAIN lgOut', NEW j \in DOMAIN lgOut', i < j,
                          lgOut'[i][1] = p, lgOut'[j][1] = p,
                          \A k \in DOMAIN lgOut' : i < k /\ k < j => lgOut'[k][1] # p
                   PROVE  LgFollows(p, lgOut'[i][2], lgOut'[j][2])
        BY <2>0 DEF LgInOrder
      <4> QED  BY <1>2, <1>3, <2>1, <3>1 DEF LgInOrder
    <3> QED  BY <3>4, <3>5
  <2>3. CASE p = q
    <3>1. lgAt[p] = "send" /\ line = lgNext[p] - 1 /\ lgAt'[p] = "idle" /\ lgNext'[p] = lgNext[p]
      BY <1>5, <2>3
    <3>2. lgNext[p] \in Nat  BY DEF LgTypes, LgNumbered, LgSources
    <3>3. lgOut'[n + 1][1] = p /\ lgOut'[n + 1][2] = lgNext[p] - 1  BY <1>3, <2>3, <3>1
    <3>4. \A i \in DOMAIN lgOut' : LgIsLast(p, i)' => i = n + 1
      BY <1>2, <1>3, <3>3 DEF LgIsLast
    <3>5. LgArrived(p)'
      <4>1. LgFollows(p, lgNext[p] - 1, lgNext[p])  BY <3>2 DEF LgFollows
      <4>2. \A i \in DOMAIN lgOut' : LgIsLast(p, i)' => LgFollows(p, lgOut'[i][2], lgNext'[p])
        BY <3>1, <3>3, <3>4, <4>1
      <4>3. \A i \in DOMAIN lgOut' : lgOut'[i][1] = p => lgOut'[i][2] \in Int
        BY <1>2, <1>3, <2>1, <3>2, <3>3 DEF LgArrived
      <4> QED  BY <2>0, <3>1, <4>2, <4>3 DEF LgArrived
    <3>6. LgInOrder(p)'
      <4> SUFFICES ASSUME NEW i \in DOMAIN lgOut', NEW j \in DOMAIN lgOut', i < j,
                          lgOut'[i][1] = p, lgOut'[j][1] = p,
                          \A k \in DOMAIN lgOut' : i < k /\ k < j => lgOut'[k][1] # p
                   PROVE  LgFollows(p, lgOut'[i][2], lgOut'[j][2])
        BY <2>0 DEF LgInOrder
      <4>1. CASE j = n + 1
        <5>1. i \in 1..n  BY <1>2, <1>3, <4>1
        <5>2. \A k \in 1..n : i < k => lgOut[k][1] # p  BY <1>2, <1>3, <4>1
        <5>3. LgIsLast(p, i)  BY <1>2, <1>3, <5>1, <5>2 DEF LgIsLast
        <5>4. LgFollows(p, lgOut[i][2], lgNext[p] - 1)
          BY <1>2, <2>1, <3>1, <5>1, <5>3 DEF LgArrived
        <5> QED  BY <1>3, <3>3, <4>1, <5>1, <5>4
      <4>2. CASE j # n + 1
        <5>1. j \in 1..n /\ i \in 1..n  BY <1>2, <1>3, <4>2
        <5>2. \A k \in 1..n : i < k /\ k < j => lgOut[k][1] # p  BY <1>2, <1>3
        <5> QED  BY <1>2, <1>3, <2>1, <5>1, <5>2 DEF LgInOrder
      <4> QED  BY <4>1, <4>2
    <3> QED  BY <3>5, <3>6
  <2> QED  BY <2>2, <2>3
<1> QED  BY <1>4, <1>5 DEF LgLinesOrdered

(* Such a move keeps the invariant, also if it stops a stream that is no   *)
(* watcher.                                                                *)
LEMMA LgMoves ==
  ASSUME LgInv, NEW p \in LgSources, NEW at \in {"idle", "ready", "send", "exit", "panic"},
         LgGo(p, at), lgAt[p] # "off",
         at = "panic" => lgStop /\ lgKind # "watch",
         UNCHANGED <<lgKind, lgOut, lgCaller, lgOverlap>>, lgBad \subseteq lgBad',
         lgNext' \in [LgSources -> Nat], \A q \in LgSources \ {p} : lgNext'[q] = lgNext[q],
         p \in LgNumbered => LgMoved(p),
         UNCHANGED <<lgStop, lgClosed, lgTwice>> \/ (LgStops /\ lgKind # "watch")
  PROVE  LgInv'
<1>1. LgTypes /\ LgFresh /\ LgLinesOrdered /\ LgClosing  BY DEF LgInv
<1>2. \A q \in LgSources \ {p} : lgAt'[q] = lgAt[q]  BY <1>1 DEF LgGo, LgTypes
<1>3. lgAt'[p] = at  BY <1>1 DEF LgGo, LgTypes
<1>4. lgStop' \in BOOLEAN /\ lgClosed' \in BOOLEAN /\ lgTwice' \in BOOLEAN
  BY <1>1 DEF LgTypes, LgStops
<1>5. LgTypes'
  <2>1. lgAt' \in [LgSources -> {"off", "start", "idle", "ready", "send", "exit", "panic"}]
    BY <1>1 DEF LgTypes, LgGo
  <2> QED  BY <1>1, <1>4, <2>1 DEF LgTypes
<1>6. LgFresh'  BY <1>1 DEF LgFresh
<1>7. LgLinesOrdered'
  <2>1. \A q \in LgNumbered : (lgAt'[q] = lgAt[q] /\ lgNext'[q] = lgNext[q]) \/ LgMoved(q)
    BY <1>2 DEF LgNumbered, LgSources
  <2> QED  BY <1>1, <2>1, LgLinesKeep
<1>8. LgClosing'
  <2>1. lgKind = "watch" => UNCHANGED <<lgStop, lgClosed, lgTwice>>  OBVIOUS
  <2>2. (lgStop => lgStop') /\ (lgClosed' => lgStop' /\ lgKind # "watch") /\ (lgTwice' => lgTwice)
    BY <1>1 DEF LgClosing, LgStops
  <2>3. \A q \in LgSources : lgAt'[q] = "panic" => lgStop' /\ lgKind' # "watch"
    BY <1>1, <1>2, <1>3, <2>2 DEF LgClosing
  <2>4. lgKind' = "watch" => \A q \in LgPods : lgAt'[q] = "off"
    BY <1>1, <1>2 DEF LgClosing, LgSources
  <2>5. lgTwice' => lgKind' = "watch" /\ lgOverlap'  BY <1>1, <2>2 DEF LgClosing
  <2>6. lgKind' = "watch" /\ ~lgOverlap' =>
          \A s \in LgStoppers : lgCaller'[s] = "checked" =>
            ~lgStop' /\ \A r \in LgStoppers : lgCaller'[r] = "checked" => r = s
    BY <1>1, <2>1 DEF LgClosing
  <2> QED  BY <2>2, <2>3, <2>4, <2>5, <2>6 DEF LgClosing
<1> QED  BY <1>5, <1>6, <1>7, <1>8 DEF LgInv

(* A stream is opened.                                                     *)
LEMMA LgOpens ==
  ASSUME LgInv, lgKind = "none", lgKind' \in {"tail", "watch", "pods", "failed"},
         lgAt' \in [LgSources -> {"off", "start", "idle"}], lgNext' \in [LgSources -> Nat],
         lgKind' = "watch" => \A p \in LgPods : lgAt'[p] = "off",
         LgQuiet, UNCHANGED lgOut
  PROVE  LgInv'
<1>1. LgTypes /\ LgFresh /\ LgClosing  BY DEF LgInv
<1>2. LgTypes'
  <2>1. lgAt' \in [LgSources -> {"off", "start", "idle", "ready", "send", "exit", "panic"}]  OBVIOUS
  <2> QED  BY <1>1, <2>1 DEF LgTypes, LgQuiet
<1>3. lgOut' = <<>> /\ DOMAIN lgOut' = {}  BY <1>1 DEF LgFresh
<1>4. LgLinesOrdered'  BY <1>3 DEF LgLinesOrdered, LgArrived, LgInOrder
<1>5. LgFresh'  BY DEF LgFresh
<1>6. ~lgStop' /\ ~lgClosed' /\ ~lgTwice' /\ (\A s \in LgStoppers : lgCaller'[s] = "idle")
  BY <1>1 DEF LgFresh, LgQuiet
<1>7. LgClosing'  BY <1>6 DEF LgClosing
<1> QED  BY <1>2, <1>4, <1>5, <1>7 DEF LgInv

(* The four ways to open one.                                              *)
LEMMA LgOpenKeeps ==
  ASSUME LgInv,
         \/ \E from \in 1..LgLines : LgTail(from)
         \/ \E matching \in SUBSET LgPods, count \in 0..1 : LgPodLogs(matching, count)
         \/ LgWatch \/ LgOpenFails
  PROVE  LgInv'
<1>1. LgTypes /\ LgFresh  BY DEF LgInv
<1>2. LgOne \in LgSources /\ LgOne \notin LgPods  BY LogStreamsAssumption DEF LgSources
<1>3. lgKind = "none" => lgAt \in [LgSources -> {"off", "start", "idle"}]
  BY <1>1 DEF LgTypes, LgFresh
<1>4. ASSUME NEW from \in 1..LgLines, LgTail(from)  PROVE  LgInv'
  <2>1. from \in Nat  BY LogStreamsAssumption
  <2>2. lgAt' \in [LgSources -> {"off", "start", "idle"}]  BY <1>3, <1>4 DEF LgTail, LgGo
  <2>3. lgNext' \in [LgSources -> Nat]  BY <1>1, <1>4, <2>1 DEF LgTypes, LgTail
  <2> QED  BY <1>4, <2>2, <2>3, LgOpens DEF LgTail
<1>5. ASSUME NEW matching \in SUBSET LgPods, NEW count \in 0..1, LgPodLogs(matching, count)
      PROVE  LgInv'
  <2>1. lgAt' \in [LgSources -> {"off", "start", "idle"}]  BY <1>5 DEF LgPodLogs
  <2>2. count \in Nat  OBVIOUS
  <2>3. lgNext' \in [LgSources -> Nat]
    <3>1. lgNext' = [lgNext EXCEPT ![LgReader] = count]  BY <1>5 DEF LgPodLogs
    <3> QED  BY <1>1, <2>2, <3>1 DEF LgTypes
  <2> QED  BY <1>5, <2>1, <2>3, LgOpens DEF LgPodLogs
<1>6. ASSUME LgWatch  PROVE  LgInv'
  <2>1. lgAt' \in [LgSources -> {"off", "start", "idle"}]  BY <1>3, <1>6 DEF LgWatch, LgGo
  <2>2. \A p \in LgPods : lgAt'[p] = "off"
    <3>1. \A p \in LgPods : p \in LgSources /\ p # LgOne  BY <1>2 DEF LgSources
    <3> QED  BY <1>1, <1>6, <3>1 DEF LgWatch, LgGo, LgFresh, LgTypes
  <2>3. lgNext' \in [LgSources -> Nat]  BY <1>1, <1>6 DEF LgTypes, LgWatch
  <2> QED  BY <1>6, <2>1, <2>2, <2>3, LgOpens DEF LgWatch
<1>7. ASSUME LgOpenFails  PROVE  LgInv'
  <2>1. lgNext' \in [LgSources -> Nat] /\ lgAt' \in [LgSources -> {"off", "start", "idle"}]
    BY <1>1, <1>3, <1>7 DEF LgTypes, LgOpenFails
  <2> QED  BY <1>7, <2>1, LgOpens DEF LgOpenFails
<1> QED  BY <1>4, <1>5, <1>6, <1>7

(* Stop, of a stream with a lock and of a watcher.                         *)
LEMMA LgStopKeeps ==
  ASSUME LgInv, NEW s \in LgStoppers, LgStop(s) \/ LgCheckStop(s) \/ LgCloseStop(s)
  PROVE  LgInv'
<1>1. LgTypes /\ LgFresh /\ LgLinesOrdered /\ LgClosing  BY DEF LgInv
<1>2. UNCHANGED <<lgKind, lgAt, lgNext, lgOut, lgBad>> /\ lgKind # "none"
  BY DEF LgStop, LgCheckStop, LgCloseStop
<1>3. LgLinesOrdered'
  BY <1>1, <1>2, LgLinesKeep
<1>4. LgFresh'  BY <1>2 DEF LgFresh
<1>5. \A r \in LgStoppers \ {s} : lgCaller'[r] = lgCaller[r]
  BY <1>1 DEF LgStop, LgCheckStop, LgCloseStop, LgTypes
<1>6. ASSUME LgStop(s)  PROVE  LgTypes' /\ LgClosing'
  <2>1. lgCaller' \in [LgStoppers -> {"idle", "checked", "done"}]  BY <1>1, <1>6 DEF LgStop, LgTypes
  <2>2. lgStop' = TRUE /\ lgClosed' = TRUE /\ UNCHANGED <<lgTwice, lgOverlap>> /\ lgKind # "watch"
    BY <1>6 DEF LgStop, LgStops
  <2>3. LgTypes'  BY <1>1, <1>2, <2>1, <2>2 DEF LgTypes
  <2>4. LgClosing'  BY <1>1, <1>2, <2>2 DEF LgClosing
  <2> QED  BY <2>3, <2>4
<1>7. ASSUME LgCheckStop(s)  PROVE  LgTypes' /\ LgClosing'
  <2>1. lgCaller' \in [LgStoppers -> {"idle", "checked", "done"}]
    BY <1>1, <1>7 DEF LgCheckStop, LgTypes
  <2>2. UNCHANGED <<lgStop, lgClosed, lgTwice>> /\ lgOverlap' \in BOOLEAN
    BY <1>7 DEF LgCheckStop
  <2>3. LgTypes'  BY <1>1, <1>2, <2>1, <2>2 DEF LgTypes
  <2>4. (lgOverlap => lgOverlap') /\ (~lgOverlap' => \A r \in LgStoppers : lgCaller[r] # "checked")
    BY <1>7 DEF LgCheckStop
  <2>5. lgStop => lgCaller'[s] = "done"  BY <1>1, <1>7 DEF LgCheckStop, LgTypes
  <2>6. ~lgOverlap' => \A r \in LgStoppers : lgCaller'[r] = "checked" => r = s /\ ~lgStop'
    BY <1>5, <2>2, <2>4, <2>5 DEF LgTypes
  <2>7. LgClosing'  BY <1>1, <1>2, <2>2, <2>4, <2>6 DEF LgClosing
  <2> QED  BY <2>3, <2>7
<1>8. ASSUME LgCloseStop(s)  PROVE  LgTypes' /\ LgClosing'
  <2>1. lgCaller' \in [LgStoppers -> {"idle", "checked", "done"}] /\ lgCaller'[s] = "done"
    BY <1>1, <1>8 DEF LgCloseStop, LgTypes
  <2>2. /\ UNCHANGED <<lgClosed, lgOverlap>> /\ lgStop' = TRUE /\ lgKind = "watch"
        /\ lgTwice' = (lgTwice \/ lgStop) /\ lgCaller[s] = "checked"
    BY <1>8 DEF LgCloseStop
  <2>3. LgTypes'  BY <1>1, <1>2, <2>1, <2>2 DEF LgTypes
  <2>4. lgTwice' => lgOverlap  BY <1>1, <2>2 DEF LgClosing
  <2>5. ~lgOverlap => \A r \in LgStoppers : lgCaller'[r] # "checked"
    BY <1>1, <1>5, <2>1, <2>2 DEF LgClosing
  <2>6. LgClosing'  BY <1>1, <1>2, <2>2, <2>4, <2>5 DEF LgClosing
  <2> QED  BY <2>3, <2>6
<1>9. LgTypes' /\ LgClosing'  BY <1>6, <1>7, <1>8
<1> QED  BY <1>3, <1>4, <1>9 DEF LgInv

(* The goroutines.  Each of them moves alone.                              *)
LEMMA LgSourcesMove ==
  ASSUME LgInv, NEW p \in LgSources,
         \/ LgPodStarts(p) \/ LgPodFails(p) \/ LgPodLooks(p) \/ LgTake(p) \/ LgSkip(p)
         \/ LgNoLine(p) \/ LgStopped(p) \/ LgPanics(p)
  PROVE  LgInv'
<1>1. LgTypes /\ LgFresh /\ LgLinesOrdered /\ LgClosing  BY DEF LgInv
<1>2. \A at \in {"idle", "ready", "send", "exit", "panic"} : LgGo(p, at) => lgAt'[p] = at
  BY <1>1 DEF LgGo, LgTypes
<1>3. lgNext \in [LgSources -> Nat]  BY <1>1 DEF LgTypes
<1>4. lgKind = "watch" => p \notin LgPods \/ lgAt[p] = "off"  BY <1>1 DEF LgClosing
<1>5. ASSUME LgPodStarts(p) \/ LgPodLooks(p)  PROVE  LgInv'
  <2>1. PICK at \in {"idle", "ready", "exit"} : LgGo(p, at)
    BY <1>5 DEF LgPodStarts, LgPodLooks
  <2>2. lgAt[p] \in {"start", "idle"} /\ LgQuiet /\ UNCHANGED <<lgKind, lgNext, lgOut>>
    BY <1>5 DEF LgPodStarts, LgPodLooks
  <2>3. LgMoved(p)  BY <1>2, <2>1, <2>2 DEF LgMoved
  <2> QED  BY <1>3, <2>1, <2>2, <2>3, LgMoves DEF LgQuiet
<1>6. ASSUME LgPodFails(p)  PROVE  LgInv'
  <2>1. /\ LgGo(p, "exit") /\ lgAt[p] = "start" /\ LgStops
        /\ UNCHANGED <<lgKind, lgNext, lgOut, lgBad, lgCaller, lgOverlap>> /\ lgKind # "watch"
    BY <1>4, <1>6 DEF LgPodFails
  <2>2. LgMoved(p)  BY <1>2, <2>1 DEF LgMoved
  <2> QED  BY <1>3, <2>1, <2>2, LgMoves
<1>7. ASSUME LgTake(p)  PROVE  LgInv'
  <2>1. /\ LgGo(p, "send") /\ lgAt[p] \in {"idle", "ready"} /\ LgQuiet
        /\ UNCHANGED <<lgKind, lgOut>> /\ lgNext' = [lgNext EXCEPT ![p] = @ + 1]
    BY <1>7 DEF LgTake
  <2>2. lgNext' \in [LgSources -> Nat] /\ lgNext'[p] = lgNext[p] + 1
    BY <1>3, <2>1
  <2>3. \A q \in LgSources \ {p} : lgNext'[q] = lgNext[q]  BY <1>3, <2>1
  <2>4. LgMoved(p)  BY <1>2, <2>1, <2>2 DEF LgMoved
  <2> QED  BY <2>1, <2>2, <2>3, <2>4, LgMoves DEF LgQuiet
<1>8. ASSUME LgNoLine(p)  PROVE  LgInv'
  <2>1. PICK at \in {"idle", "exit"} :
          /\ LgGo(p, at) /\ lgAt[p] \in {"idle", "ready"}
          /\ UNCHANGED <<lgStop, lgClosed, lgTwice>> \/ (LgStops /\ lgKind # "watch")
    BY <1>8 DEF LgNoLine
  <2>2. UNCHANGED <<lgKind, lgNext, lgOut, lgBad, lgCaller, lgOverlap>>  BY <1>8 DEF LgNoLine
  <2>3. LgMoved(p)  BY <1>2, <2>1, <2>2 DEF LgMoved
  <2> QED  BY <1>3, <2>1, <2>2, <2>3, LgMoves
<1>9. ASSUME LgStopped(p)  PROVE  LgInv'
  <2>1. LgGo(p, "exit") /\ lgAt[p] # "off" /\ LgQuiet /\ UNCHANGED <<lgKind, lgNext, lgOut>>
    BY <1>9 DEF LgStopped
  <2>2. LgMoved(p)  BY <1>2, <2>1 DEF LgMoved
  <2> QED  BY <1>3, <2>1, <2>2, LgMoves DEF LgQuiet
<1>10. ASSUME LgPanics(p)  PROVE  LgInv'
  <2>1. /\ LgGo(p, "panic") /\ lgAt[p] # "off" /\ LgQuiet /\ UNCHANGED <<lgKind, lgNext, lgOut>>
        /\ lgClosed
    BY <1>10 DEF LgPanics, LgHas
  <2>2. LgMoved(p)  BY <1>2, <2>1 DEF LgMoved
  <2>3. lgStop /\ lgKind # "watch"  BY <1>1, <2>1 DEF LgClosing
  <2> QED  BY <1>3, <2>1, <2>2, <2>3, LgMoves DEF LgQuiet
<1>11. ASSUME LgSkip(p)  PROVE  LgInv'
  <2>1. /\ lgAt[p] = "idle" /\ p = LgOne /\ lgNext[p] \in lgBad' /\ lgBad \subseteq lgBad'
        /\ UNCHANGED <<lgKind, lgAt, lgOut, lgCaller, lgOverlap, lgStop, lgClosed, lgTwice>>
        /\ lgNext' = [lgNext EXCEPT ![p] = @ + 1]
    BY <1>11 DEF LgSkip
  <2>2. lgNext' \in [LgSources -> Nat] /\ lgNext'[p] = lgNext[p] + 1
    BY <1>3, <2>1
  <2>3. \A q \in LgSources \ {p} : lgNext'[q] = lgNext[q]  BY <1>3, <2>1
  <2>4. LgMoved(p)  BY <2>1, <2>2 DEF LgMoved
  <2>5. LgGo(p, "idle")
    <3>1. lgAt = [lgAt EXCEPT ![p] = "idle"]  BY <1>1, <2>1 DEF LgTypes
    <3> QED  BY <2>1, <3>1 DEF LgGo
  <2> QED  BY <2>1, <2>2, <2>3, <2>4, <2>5, LgMoves
<1> QED  BY <1>5, <1>6, <1>7, <1>8, <1>9, <1>10, <1>11

(* The reader of old records sends no numbered lines.                      *)
LEMMA LgReaderMoves ==
  ASSUME LgInv, LgRead \/ LgReadEnds
  PROVE  LgInv'
<1>1. LgTypes  BY DEF LgInv
<1>2. LgReader \in LgSources /\ LgReader \notin LgNumbered
  BY LogStreamsAssumption DEF LgSources, LgNumbered, LgReader, LgOne
<1>3. PICK at \in {"send", "exit"} : LgGo(LgReader, at)  BY DEF LgRead, LgReadEnds
<1>4. lgAt[LgReader] # "off" /\ LgQuiet /\ UNCHANGED <<lgKind, lgNext, lgOut>>
  BY DEF LgRead, LgReadEnds
<1> QED  BY <1>1, <1>2, <1>3, <1>4, LgMoves DEF LgQuiet, LgTypes

(* A send that meets its receiver.                                         *)
LEMMA LgSendKeeps ==
  ASSUME LgInv, NEW p \in LgSources, LgSend(p)
  PROVE  LgInv'
<1>1. LgTypes /\ LgFresh /\ LgLinesOrdered /\ LgClosing  BY DEF LgInv
<1>2. PICK at \in {"send", "idle"} :
        LgGo(p, at) /\ at = IF p = LgReader THEN "send" ELSE "idle"
  BY DEF LgSend
<1>3. /\ lgAt'[p] = at /\ \A q \in LgSources \ {p} : lgAt'[q] = lgAt[q]
      /\ lgAt' \in [LgSources -> {"off", "start", "idle", "ready", "send", "exit", "panic"}]
  BY <1>1, <1>2 DEF LgGo, LgTypes
<1>4. lgAt[p] = "send" /\ LgQuiet /\ UNCHANGED <<lgKind, lgNext>>  BY DEF LgSend, LgHas
<1>5. PICK line : /\ lgOut' = Append(lgOut, <<p, line>>)
                  /\ p # LgReader => line = lgNext[p] - 1
  BY DEF LgSend
<1>6. LgReader \notin LgNumbered
  BY LogStreamsAssumption DEF LgNumbered, LgReader, LgOne
<1>7. LgLinesOrdered' /\ lgOut' \in Seq({lgOut'[i] : i \in DOMAIN lgOut'})
  <2>1. p \in LgNumbered => lgAt[p] = "send" /\ line = lgNext[p] - 1 /\ lgAt'[p] = "idle"
    BY <1>2, <1>3, <1>4, <1>5, <1>6
  <2>2. \A q \in LgNumbered \ {p} : lgAt'[q] = lgAt[q]  BY <1>3 DEF LgNumbered, LgSources
  <2> QED  BY <1>1, <1>4, <1>5, <2>1, <2>2, LgLineArrives DEF LgQuiet
<1>8. LgTypes'  BY <1>1, <1>3, <1>4, <1>7 DEF LgTypes, LgQuiet
<1>9. LgFresh'  BY <1>1, <1>4 DEF LgFresh
<1>10. LgClosing'
  <2>1. \A q \in LgSources : lgAt'[q] = "panic" => lgStop' /\ lgKind' # "watch"
    BY <1>1, <1>2, <1>3, <1>4 DEF LgClosing, LgQuiet
  <2>2. lgKind' = "watch" => \A q \in LgPods : lgAt'[q] = "off"
    BY <1>1, <1>3, <1>4 DEF LgClosing, LgSources
  <2> QED  BY <1>1, <1>4, <2>1, <2>2 DEF LgClosing, LgQuiet
<1> QED  BY <1>7, <1>8, <1>9, <1>10 DEF LgInv

(* The streams of logs and events are sound: for any number of pods, lines *)
(* and callers of Stop, the lines of a source arrive in order without      *)
(* repetition and without a gap but for what a watcher cannot decode,      *)
(* channels are closed once, and no goroutine panics in a stream that was  *)
(* not stopped.                                                            *)
THEOREM LogStreamsSound == LogStreamsInit /\ [][LogStreamsNext]_lgVars => []LogsSound
<1>1. ASSUME LgInv, [LogStreamsNext]_lgVars  PROVE  LgInv'
  <2>1. CASE UNCHANGED lgVars
    <3>1. LgTypes' /\ LgFresh'  BY <1>1, <2>1 DEF lgVars, LgInv, LgTypes, LgFresh
    <3>2. LgLinesOrdered'  BY <1>1, <2>1, LgLinesKeep DEF lgVars, LgInv
    <3>3. LgClosing'  BY <1>1, <2>1 DEF lgVars, LgInv, LgClosing
    <3> QED  BY <3>1, <3>2, <3>3 DEF LgInv
  <2>2. CASE LogStreamsNext
    BY <1>1, <2>2, LgOpenKeeps, LgStopKeeps, LgSourcesMove, LgReaderMoves, LgSendKeeps
       DEF LogStreamsNext
  <2> QED  BY <1>1, <2>1, <2>2
<1>2. LgInv => LogsSound
  BY DEF LgInv, LgLinesOrdered, LgClosing, LgNumbered, LogsSound
<1> QED  BY <1>1, <1>2, LgStarts, PTL

(* The runtimes account for what they started, side by side: whatever the  *)
(* local runtime, the kubernetes runtime and the log streams do.           *)
THEOREM RuntimesAccount ==
  /\ RuntimeInit /\ [][RuntimeNext]_rtVars
  /\ KubernetesInit /\ [][KubernetesNext]_kbVars
  /\ LogStreamsInit /\ [][LogStreamsNext]_lgVars
  => []RuntimesSound
<1>1. ProcessesAccounted /\ KubernetesSound /\ LogsSound => RuntimesSound  BY DEF RuntimesSound
<1> QED  BY <1>1, RuntimeAccounts, KubernetesObjects, LogStreamsSound, PTL

-----------------------------------------------------------------------------
(* The web service.  Once ex is closed a registration is a late one, and   *)
(* Run deregisters after the close.  What it then deregisters is what the  *)
(* options have, if that is registered: registering makes s.srv anew, and  *)
(* Init never goes back to a registry or an id it has left.                *)
WbClosing == {"closing", "deregistered", "stopping", "done"}
WbInv ==
  /\ wbHandle \in [WebPatterns -> {"none", "unseen", "added", "mux", "done", "panic"}]
  /\ wbOpts \in [reg : Nat, id : Nat] /\ wbSrv \in Nat /\ wbSrv <= wbOpts.id
  /\ wbRegistered \subseteq [reg : Nat, id : Nat]
  /\ \A e \in wbRegistered : e.reg <= wbOpts.reg /\ e.id <= wbSrv
  /\ wbPc \in WbClosing => wbEx = TRUE
  /\ wbPc \in WbClosing \ {"closing"} => wbOpts \notin wbRegistered \/ wbLate = TRUE
  /\ wbPc = "done" => wbListener = "closed"
  /\ wbPc \in {"new", "started", "done", "failed"} => wbProfile = FALSE
  /\ \A h \in WebPatterns : wbHandle[h] \in {"added", "mux", "done"} => h \in wbEndpoints

(* The micro service: its profiler runs only while Run does.               *)
SvInv ==
  /\ svPc = "done" => svServer = FALSE
  /\ svPc \in {"new", "done", "failed"} => svProfile = FALSE

(* The invariant holds of services that were not started.                  *)
LEMMA WebInitially == WebServiceInit => WbInv /\ SvInv
  BY DEF WebServiceInit, WbInv, WbClosing, SvInv

(* Every step of the web service keeps it.                                 *)
LEMMA WebStep ==
  ASSUME WbInv,
         \/ WebStart \/ WebProfile \/ WebRunRegisters
         \/ WebTick \/ WebLoopRegisters \/ WebLoopEnds
         \/ WebShutdown \/ WebDeregister \/ WebStop \/ WebStopped
         \/ WebInitOptions \/ WebInitSrv
         \/ \E h \in WebPatterns : WebHandle(h)
  PROVE  WbInv'
<1>1. CASE WebStart
  BY <1>1 DEF WebStart, WebReturn, WebGenSrv, WbInv, WbClosing
<1>2. CASE WebProfile \/ WebRunRegisters
  BY <1>2 DEF WebProfile, WebRunRegisters, WebRegister, WebReturn, WebGenSrv, WbInv, WbClosing
<1>3. CASE WebTick \/ WebLoopEnds
  <2>1. wbLate = TRUE \/ (WebTick /\ wbEx = TRUE) => wbLate' = TRUE
    BY <1>3, Zenon DEF WebTick, WebLoopEnds
  <2>2. UNCHANGED <<wbPc, wbEx, wbRegistered, wbListener, wbOpts, wbSrv, wbProfile, wbHandle,
                    wbEndpoints>>
    BY <1>3 DEF WebTick, WebLoopEnds
  <2> QED  BY <2>1, <2>2 DEF WbInv, WbClosing
<1>4. CASE WebLoopRegisters
  <2>1. wbLate = TRUE \/ wbEx = TRUE => wbLate' = TRUE
    BY <1>4, Zenon DEF WebLoopRegisters
  <2>2. UNCHANGED <<wbPc, wbEx, wbListener, wbOpts, wbProfile, wbHandle, wbEndpoints>>
    BY <1>4 DEF WebLoopRegisters, WebRegister, WebGenSrv
  <2>3. wbSrv' = wbOpts.id /\ wbRegistered' \in {wbRegistered, wbRegistered \cup {wbOpts}}
    BY <1>4 DEF WebLoopRegisters, WebRegister, WebGenSrv
  <2> QED  BY <2>1, <2>2, <2>3 DEF WbInv, WbClosing
<1>5. CASE WebShutdown \/ WebDeregister
  BY <1>5 DEF WebShutdown, WebDeregister, WebReturn, WbInv, WbClosing
<1>6. CASE WebStop \/ WebStopped
  BY <1>6 DEF WebStop, WebStopped, WebReturn, WbInv, WbClosing
<1>8. CASE WebInitOptions \/ WebInitSrv
  BY <1>8 DEF WebInitOptions, WebInitSrv, WebGenSrv, WbInv, WbClosing
<1>7. ASSUME NEW h \in WebPatterns, WebHandle(h) PROVE WbInv'
  <2>1. UNCHANGED <<wbPc, wbEx, wbRegistered, wbLate, wbListener, wbOpts, wbSrv, wbProfile>>
    BY <1>7 DEF WebHandle
  <2>2. wbHandle' \in [WebPatterns -> {"none", "unseen", "added", "mux", "done", "panic"}]
    BY <1>7 DEF WebHandle, WbInv
  <2>3. \A g \in WebPatterns : wbHandle'[g] \in {"added", "mux", "done"} => g \in wbEndpoints'
    BY <1>7 DEF WebHandle, WbInv
  <2> QED
    BY <2>1, <2>2, <2>3 DEF WbInv
<1> QED
  BY <1>1, <1>2, <1>3, <1>4, <1>5, <1>6, <1>7, <1>8

(* So does every step of the micro service.                                *)
LEMMA SvStep ==
  ASSUME SvInv, SvRun \/ SvStart \/ SvStop
  PROVE  SvInv'
  BY DEF SvInv, SvRun, SvStart, SvStop, SvReturn

(* RunCleansUp always holds.                                               *)
THEOREM RunCleans == WebServiceInit /\ [][WebServiceNext]_webVars => []RunCleansUp
<1>1. WbInv /\ SvInv /\ [WebServiceNext]_webVars => (WbInv /\ SvInv)'
  <2> SUFFICES ASSUME WbInv, SvInv, [WebServiceNext]_webVars PROVE WbInv' /\ SvInv'
    OBVIOUS
  <2>1. UNCHANGED wbVars => WbInv'
    BY DEF wbVars, WbInv
  <2>2. UNCHANGED svVars => SvInv'
    BY DEF svVars, SvInv
  <2> QED
    BY <2>1, <2>2, WebStep, SvStep DEF WebServiceNext, webVars
<1>2. WbInv /\ SvInv => RunCleansUp
  BY DEF WbInv, SvInv, WbClosing, RunCleansUp
<1> QED
  BY <1>1, <1>2, WebInitially, PTL

-----------------------------------------------------------------------------
(* The parts of a service.  The objects that fill its slots,               *)
SoRegistries == {"r0", "r1", "rf"}
SoBrokers == {"b0", "b1", "bf"}
SoTransports == {"t0", "t1", "tf"}
SoClients == {"c0", "c1", "cf"}
SoServers == {"v0", "v1", "vf"}
SoSelectors == {"s0", "s1", "sf"}

(* the options of the service and of its parts,                            *)
SoServiceOptions == [registry : SoRegistries, broker : SoBrokers, transport : SoTransports,
                     client : SoClients, server : SoServers]
SoClientOptions == [registry : SoRegistries, broker : SoBrokers, transport : SoTransports,
                    selector : SoSelectors, pool : SoTransports]
SoServerOptions == [registry : SoRegistries, broker : SoBrokers, transport : SoTransports,
                    ttl : {"default", "code", "flag", "flag default"}]
SoPendings == [registry : SoRegistries \cup {SoNone}, broker : SoBrokers \cup {SoNone},
               transport : SoTransports \cup {SoNone}, selector : SoSelectors \cup {SoNone}]

(* and the types of the variables.                                         *)
SoTypes ==
  /\ soSvc \in SoServiceOptions
  /\ soClient \in [SoClients -> SoClientOptions]
  /\ soServer \in [SoServers -> SoServerOptions]
  /\ soSelector \in [SoSelectors -> SoRegistries]
  /\ soBroker \in [SoBrokers -> SoRegistries]
  /\ soDefault \in SoSelectors
  /\ soPending \in [{"client", "server"} -> SoPendings]

(* An option that Before has collected and not yet applied.                *)
SoPend(p, slot) == IF soPc \in {"table", "ready"} THEN SoNone ELSE soPending[p][slot]

(* A part has the service's registry, broker or transport, or is about to  *)
(* be told of it, or is loose.                                             *)
SoHas(p, slot, has) ==
  IF SoPend(p, slot) = SoNone THEN <<p, slot>> \notin soLoose => has = soSvc[slot]
  ELSE SoPend(p, slot) = soSvc[slot]
SoClientHas(slot) == SoHas("client", slot, soClient[soSvc.client][slot])
SoServerHas(slot) == SoHas("server", slot, soServer[soSvc.server][slot])

(* The broker and the selector have the service's registry.  A registry is *)
(* never collected for the client without the selector that has it.        *)
SoBrokerHas == <<"broker", "registry">> \notin soLoose => soBroker[soSvc.broker] = soSvc.registry
SoSelectorHas ==
  IF SoPend("client", "selector") = SoNone
  THEN /\ SoPend("client", "registry") = SoNone
       /\ <<"selector", "registry">> \notin soLoose =>
            soSelector[soClient[soSvc.client].selector] = soSvc.registry
  ELSE soSelector[SoPend("client", "selector")] = soSvc.registry

(* What holds of the parts until a flag ends the program.                  *)
SoAgree ==
  /\ SoClientHas("registry") /\ SoClientHas("broker") /\ SoClientHas("transport")
  /\ SoServerHas("registry") /\ SoServerHas("broker") /\ SoServerHas("transport")
  /\ SoBrokerHas /\ SoSelectorHas

(* The inductive invariant.                                                *)
SoInv ==
  /\ SoTypes
  /\ \A c \in SoClients : soClient[c].pool = soClient[c].transport
  /\ soPc = "options" => soPending = [p \in {"client", "server"} |-> SoNoPending]
  /\ soPc # "failed" => SoAgree

(* No option was given.                                                    *)
LEMMA SoStarts == ServiceOptionsInit => SoInv
<1> SUFFICES ASSUME ServiceOptionsInit  PROVE  SoInv  OBVIOUS
<1>1. /\ soSvc \in SoServiceOptions /\ soSvc.registry = "r0" /\ soSvc.broker = "b0"
      /\ soSvc.transport = "t0" /\ soSvc.client = "c0" /\ soSvc.server = "v0"
  BY DEF ServiceOptionsInit, SoServiceOptions, SoRegistries, SoBrokers, SoTransports, SoClients, SoServers
<1>2. SoNewClient \in SoClientOptions /\ SoNewServer \in SoServerOptions /\ SoNoPending \in SoPendings
  BY DEF SoNewClient, SoNewServer, SoNoPending, SoClientOptions, SoServerOptions, SoPendings,
         SoRegistries, SoBrokers, SoTransports, SoSelectors, SoNone
<1>3. SoTypes
  <2>1. soClient \in [SoClients -> SoClientOptions] /\ soServer \in [SoServers -> SoServerOptions]
    BY <1>2 DEF ServiceOptionsInit, SoClients, SoServers
  <2>2. soSelector \in [SoSelectors -> SoRegistries] /\ soBroker \in [SoBrokers -> SoRegistries]
    BY DEF ServiceOptionsInit, SoSelectors, SoBrokers, SoRegistries
  <2>3. soDefault \in SoSelectors /\ soPending \in [{"client", "server"} -> SoPendings]
    BY <1>2 DEF ServiceOptionsInit, SoSelectors
  <2> QED  BY <1>1, <2>1, <2>2, <2>3 DEF SoTypes
<1>4. \A p \in {"client", "server"} : soPending[p] = SoNoPending  BY DEF ServiceOptionsInit
<1>5. /\ \A p \in {"client", "server"} : SoPend(p, "registry") = SoNone /\ SoPend(p, "broker") = SoNone
      /\ \A p \in {"client", "server"} : SoPend(p, "transport") = SoNone /\ SoPend(p, "selector") = SoNone
  BY <1>4 DEF SoPend, SoNoPending
<1>6. \A c \in SoClients : soClient[c] = SoNewClient  BY DEF ServiceOptionsInit, SoClients
<1>7. \A v \in SoServers : soServer[v] = SoNewServer  BY DEF ServiceOptionsInit, SoServers
<1>8. SoClientHas("registry") /\ SoClientHas("broker") /\ SoClientHas("transport")
  BY <1>1, <1>5, <1>6 DEF SoClientHas, SoHas, SoNewClient, SoClients
<1>9. SoServerHas("registry") /\ SoServerHas("broker") /\ SoServerHas("transport")
  BY <1>1, <1>5, <1>7 DEF SoServerHas, SoHas, SoNewServer, SoServers
<1>10. SoBrokerHas /\ SoSelectorHas
  BY <1>1, <1>5, <1>6 DEF SoBrokerHas, SoSelectorHas, ServiceOptionsInit, SoNewClient, SoClients
<1>11. \A c \in SoClients : soClient[c].pool = soClient[c].transport  BY <1>6 DEF SoNewClient
<1>12. soPending = [p \in {"client", "server"} |-> SoNoPending]  BY DEF ServiceOptionsInit
<1> QED  BY <1>3, <1>8, <1>9, <1>10, <1>11, <1>12 DEF SoInv, SoAgree

(* Init of a server sets what the options name.                            *)
LEMMA SoServerInits ==
  ASSUME SoTypes, NEW v \in SoServers, NEW pend \in SoPendings
  PROVE  LET after == SoServerInit(v, pend)
         IN  /\ after \in [SoServers -> SoServerOptions]
             /\ after[v].registry = SoSet(pend, "registry", soServer[v].registry)
             /\ after[v].broker = SoSet(pend, "broker", soServer[v].broker)
             /\ after[v].transport = SoSet(pend, "transport", soServer[v].transport)
<1>1. PICK r : r = soServer[v]  OBVIOUS
<1>2. r \in SoServerOptions  BY <1>1 DEF SoTypes
<1>3. PICK x, y, z : /\ x = SoSet(pend, "registry", r.registry)
                     /\ y = SoSet(pend, "broker", r.broker)
                     /\ z = SoSet(pend, "transport", r.transport)
  OBVIOUS
<1>4. x \in SoRegistries /\ y \in SoBrokers /\ z \in SoTransports
  BY <1>2, <1>3 DEF SoSet, SoPendings, SoServerOptions
<1>5. PICK n : n = [r EXCEPT !.registry = x, !.broker = y, !.transport = z]  OBVIOUS
<1>6. n \in SoServerOptions /\ n.registry = x /\ n.broker = y /\ n.transport = z
  BY <1>2, <1>4, <1>5 DEF SoServerOptions
<1>7. SoServerInit(v, pend) = [soServer EXCEPT ![v] = n]
  BY <1>1, <1>3, <1>5 DEF SoServerInit
<1>8. PICK after : after = SoServerInit(v, pend)  OBVIOUS
<1>9. after \in [SoServers -> SoServerOptions] /\ after[v] = n
  BY <1>6, <1>7, <1>8 DEF SoTypes
<1> QED  BY <1>1, <1>3, <1>6, <1>8, <1>9

(* Init of a client too, and its pool has its transport.                   *)
LEMMA SoClientInits ==
  ASSUME SoTypes, NEW c \in SoClients, NEW pend \in SoPendings,
         \A d \in SoClients : soClient[d].pool = soClient[d].transport
  PROVE  LET after == SoClientInit(c, pend)
         IN  /\ after \in [SoClients -> SoClientOptions]
             /\ after[c].registry = SoSet(pend, "registry", soClient[c].registry)
             /\ after[c].broker = SoSet(pend, "broker", soClient[c].broker)
             /\ after[c].transport = SoSet(pend, "transport", soClient[c].transport)
             /\ after[c].selector = SoSet(pend, "selector", soClient[c].selector)
             /\ \A d \in SoClients : after[d].pool = after[d].transport
<1>1. PICK r : r = soClient[c]  OBVIOUS
<1>2. r \in SoClientOptions /\ r.pool = r.transport  BY <1>1 DEF SoTypes
<1>3. PICK x, y, z, s : /\ x = SoSet(pend, "registry", r.registry)
                        /\ y = SoSet(pend, "broker", r.broker)
                        /\ z = SoSet(pend, "transport", r.transport)
                        /\ s = SoSet(pend, "selector", r.selector)
  OBVIOUS
<1>4. x \in SoRegistries /\ y \in SoBrokers /\ z \in SoTransports /\ s \in SoSelectors
  BY <1>2, <1>3 DEF SoSet, SoPendings, SoClientOptions
<1>5. PICK n : n = [r EXCEPT !.registry = x, !.broker = y, !.transport = z, !.pool = z, !.selector = s]
  OBVIOUS
<1>6. n \in SoClientOptions /\ n.registry = x /\ n.broker = y /\ n.transport = z /\ n.selector = s
      /\ n.pool = z
  BY <1>2, <1>4, <1>5 DEF SoClientOptions
<1>7. SoClientInit(c, pend) = [soClient EXCEPT ![c] = n]
  BY <1>1, <1>2, <1>3, <1>5 DEF SoClientInit
<1>8. PICK after : after = SoClientInit(c, pend)  OBVIOUS
<1>9. /\ after \in [SoClients -> SoClientOptions] /\ after[c] = n
      /\ \A d \in SoClients \ {c} : after[d] = soClient[d]
  BY <1>6, <1>7, <1>8 DEF SoTypes
<1>10. \A d \in SoClients : after[d].pool = after[d].transport  BY <1>6, <1>9
<1> QED  BY <1>1, <1>3, <1>6, <1>8, <1>9, <1>10

(* While options are given no option of a flag waits: the parts have what  *)
(* the service has, but for the loose ones.                                *)
SoBound ==
  /\ <<"client", "registry">> \notin soLoose => soClient[soSvc.client].registry = soSvc.registry
  /\ <<"client", "broker">> \notin soLoose => soClient[soSvc.client].broker = soSvc.broker
  /\ <<"client", "transport">> \notin soLoose => soClient[soSvc.client].transport = soSvc.transport
  /\ <<"server", "registry">> \notin soLoose => soServer[soSvc.server].registry = soSvc.registry
  /\ <<"server", "broker">> \notin soLoose => soServer[soSvc.server].broker = soSvc.broker
  /\ <<"server", "transport">> \notin soLoose => soServer[soSvc.server].transport = soSvc.transport
  /\ SoBrokerHas
  /\ <<"selector", "registry">> \notin soLoose =>
       soSelector[soClient[soSvc.client].selector] = soSvc.registry

(* No option waits.                                                        *)
SoNonePends ==
  \A p \in {"client", "server"} : /\ SoPend(p, "registry") = SoNone /\ SoPend(p, "broker") = SoNone
                                 /\ SoPend(p, "transport") = SoNone /\ SoPend(p, "selector") = SoNone

(* Then that is what the invariant says of the parts.                      *)
LEMMA SoBoundAgree ==
  ASSUME SoNonePends
  PROVE  SoAgree <=> SoBound
  BY DEF SoNonePends, SoAgree, SoBound, SoClientHas, SoServerHas, SoHas, SoSelectorHas

(* No option waits where options are given.                                *)
LEMMA SoNoneWait ==
  ASSUME soPc = "options" => soPending = [p \in {"client", "server"} |-> SoNoPending],
         soPc \in {"options", "table", "ready"}
  PROVE  SoNonePends
<1>1. soPc = "options" => \A p \in {"client", "server"} : soPending[p] = SoNoPending  OBVIOUS
<1> QED  BY <1>1 DEF SoNonePends, SoPend, SoNoPending

(* An option that keeps the parts bound keeps the invariant.               *)
LEMMA SoGiveKeeps ==
  ASSUME SoInv, SoGive, UNCHANGED soCmd, SoTypes',
         \A c \in SoClients : soClient'[c].pool = soClient'[c].transport,
         SoBound => SoBound'
  PROVE  SoInv'
<1>1. soPc' = soPc /\ soPending' = soPending /\ soPc \in {"options", "ready"}  BY DEF SoGive, soCmd
<1>2. SoNonePends  BY <1>1, SoNoneWait DEF SoInv
<1>3. SoNonePends'  BY <1>1, <1>2 DEF SoNonePends, SoPend
<1>4. SoBound  BY <1>1, <1>2, SoBoundAgree DEF SoInv
<1>5. SoAgree' <=> SoBound'
  BY <1>3 DEF SoNonePends, SoAgree, SoBound, SoClientHas, SoServerHas, SoHas, SoSelectorHas
<1> QED  BY <1>1, <1>4, <1>5 DEF SoInv

(* Registry, Broker and Transport.                                         *)
LEMMA SoOptionKeeps ==
  ASSUME SoInv, NEW slot \in SoSlots, SoOption(slot, SoMade[slot])
  PROVE  SoInv'
<1>1. SoTypes /\ \A c \in SoClients : soClient[c].pool = soClient[c].transport  BY DEF SoInv
<1>2. SoGive /\ UNCHANGED <<soDefault, soCmd>>  BY DEF SoOption
<1>3. PICK c, v : c = soSvc.client /\ v = soSvc.server  OBVIOUS
<1>4. c \in SoClients /\ v \in SoServers /\ soSvc.broker \in SoBrokers
  BY <1>1, <1>3 DEF SoTypes, SoServiceOptions
<1>5. PICK x, pend : x = SoMade[slot] /\ pend = SoOne(slot, x)  OBVIOUS
<1>6. /\ soSvc' = [soSvc EXCEPT ![slot] = x]
      /\ soClient' = SoClientInit(c, pend) /\ soServer' = SoServerInit(v, pend)
      /\ soSelector' = SoSelectorTold(c, pend)
      /\ soBroker' = IF slot = "registry" THEN [soBroker EXCEPT ![soSvc.broker] = x] ELSE soBroker
  BY <1>3, <1>5 DEF SoOption
<1>7. /\ slot = "registry" => x = "r1"
      /\ slot = "broker" => x = "b1"
      /\ slot = "transport" => x = "t1"
  BY <1>5 DEF SoMade
<1>8. /\ pend \in SoPendings /\ pend.selector = SoNone
      /\ pend.registry = IF slot = "registry" THEN "r1" ELSE SoNone
      /\ pend.broker = IF slot = "broker" THEN "b1" ELSE SoNone
      /\ pend.transport = IF slot = "transport" THEN "t1" ELSE SoNone
  BY <1>5, <1>7
     DEF SoOne, SoNoPending, SoPendings, SoSlots, SoNone, SoRegistries, SoBrokers, SoTransports
<1>9. /\ soSvc' \in SoServiceOptions /\ soSvc'.client = c /\ soSvc'.server = v
      /\ soSvc'.registry = IF slot = "registry" THEN "r1" ELSE soSvc.registry
      /\ soSvc'.broker = IF slot = "broker" THEN "b1" ELSE soSvc.broker
      /\ soSvc'.transport = IF slot = "transport" THEN "t1" ELSE soSvc.transport
  BY <1>1, <1>3, <1>6, <1>7
     DEF SoTypes, SoServiceOptions, SoSlots, SoRegistries, SoBrokers, SoTransports
<1>10. /\ soClient' \in [SoClients -> SoClientOptions]
       /\ soClient'[c].registry = SoSet(pend, "registry", soClient[c].registry)
       /\ soClient'[c].broker = SoSet(pend, "broker", soClient[c].broker)
       /\ soClient'[c].transport = SoSet(pend, "transport", soClient[c].transport)
       /\ soClient'[c].selector = SoSet(pend, "selector", soClient[c].selector)
       /\ \A d \in SoClients : soClient'[d].pool = soClient'[d].transport
  BY <1>1, <1>4, <1>6, <1>8, SoClientInits
<1>11. /\ soServer' \in [SoServers -> SoServerOptions]
       /\ soServer'[v].registry = SoSet(pend, "registry", soServer[v].registry)
       /\ soServer'[v].broker = SoSet(pend, "broker", soServer[v].broker)
       /\ soServer'[v].transport = SoSet(pend, "transport", soServer[v].transport)
  BY <1>1, <1>4, <1>6, <1>8, SoServerInits
<1>12. soClient[c].selector \in SoSelectors  BY <1>1, <1>4 DEF SoTypes, SoClientOptions
<1>13. /\ soSelector' \in [SoSelectors -> SoRegistries]
       /\ IF slot = "registry" THEN soSelector'[soClient[c].selector] = "r1" ELSE soSelector' = soSelector
  BY <1>1, <1>6, <1>8, <1>12 DEF SoSelectorTold, SoTypes, SoRegistries, SoNone
<1>14. /\ soBroker' \in [SoBrokers -> SoRegistries]
       /\ slot = "registry" => soBroker'[soSvc.broker] = "r1"
  BY <1>1, <1>4, <1>6, <1>7 DEF SoTypes, SoRegistries
<1>15. SoTypes'
  BY <1>1, <1>2, <1>9, <1>10, <1>11, <1>13, <1>14 DEF SoTypes, soCmd
<1>16. /\ \A l \in soLoose : l[2] # slot => l \in soLoose'
       /\ slot = "broker" => <<"broker", "registry">> \in soLoose'
  BY DEF SoOption
<1>17. /\ \A p : slot # "registry" /\ <<p, "registry">> \notin soLoose' =>
            <<p, "registry">> \notin soLoose
       /\ \A p : slot # "broker" /\ <<p, "broker">> \notin soLoose' =>
            <<p, "broker">> \notin soLoose
       /\ \A p : slot # "transport" /\ <<p, "transport">> \notin soLoose' =>
            <<p, "transport">> \notin soLoose
  BY <1>16
<1>18. ASSUME SoBound  PROVE  SoBound'
  <2>1. soClient'[c].selector = soClient[c].selector  BY <1>8, <1>10 DEF SoSet
  <2>2. /\ <<"client", "registry">> \notin soLoose' => soClient'[c].registry = soSvc'.registry
        /\ <<"server", "registry">> \notin soLoose' => soServer'[v].registry = soSvc'.registry
    BY <1>3, <1>8, <1>9, <1>10, <1>11, <1>17, <1>18 DEF SoSet, SoBound, SoNone
  <2>3. /\ <<"client", "broker">> \notin soLoose' => soClient'[c].broker = soSvc'.broker
        /\ <<"server", "broker">> \notin soLoose' => soServer'[v].broker = soSvc'.broker
    BY <1>3, <1>8, <1>9, <1>10, <1>11, <1>17, <1>18 DEF SoSet, SoBound, SoNone
  <2>4. /\ <<"client", "transport">> \notin soLoose' => soClient'[c].transport = soSvc'.transport
        /\ <<"server", "transport">> \notin soLoose' => soServer'[v].transport = soSvc'.transport
    BY <1>3, <1>8, <1>9, <1>10, <1>11, <1>17, <1>18 DEF SoSet, SoBound, SoNone
  <2>5. <<"broker", "registry">> \notin soLoose' => soBroker'[soSvc'.broker] = soSvc'.registry
    BY <1>6, <1>9, <1>14, <1>16, <1>17, <1>18 DEF SoBound, SoBrokerHas, SoSlots
  <2>6. <<"selector", "registry">> \notin soLoose' => soSelector'[soClient'[c].selector] = soSvc'.registry
    BY <1>3, <1>9, <1>13, <1>17, <1>18, <2>1 DEF SoBound
  <2> QED  BY <1>9, <2>2, <2>3, <2>4, <2>5, <2>6 DEF SoBound, SoBrokerHas
<1> QED  BY <1>2, <1>10, <1>15, <1>18, SoGiveKeeps

(* Client, Server, Selector, and an option of the server only.             *)
LEMMA SoOthersKeep ==
  ASSUME SoInv,
         \/ \E part \in {"client", "server"} : SoReplace(part, SoMade[part])
         \/ SoSelect(SoMade.selector) \/ SoRegisterTTL
  PROVE  SoInv'
<1>1. SoTypes /\ \A c \in SoClients : soClient[c].pool = soClient[c].transport  BY DEF SoInv
<1>2. PICK c, v : c = soSvc.client /\ v = soSvc.server  OBVIOUS
<1>3. c \in SoClients /\ v \in SoServers  BY <1>1, <1>2 DEF SoTypes, SoServiceOptions
<1>4. ASSUME NEW part \in {"client", "server"}, SoReplace(part, SoMade[part])  PROVE  SoInv'
  <2>1. PICK x : x = SoMade[part]  OBVIOUS
  <2>2. (part = "client" => x = "c1") /\ (part = "server" => x = "v1")  BY <2>1 DEF SoMade
  <2>3. soSvc' = [soSvc EXCEPT ![part] = x]  BY <1>4, <2>1 DEF SoReplace
  <2>4. /\ soSvc' \in SoServiceOptions /\ soSvc'.registry = soSvc.registry
        /\ soSvc'.broker = soSvc.broker /\ soSvc'.transport = soSvc.transport
        /\ part = "client" => soSvc'.server = soSvc.server
        /\ part = "server" => soSvc'.client = soSvc.client
    BY <1>1, <2>2, <2>3 DEF SoTypes, SoServiceOptions, SoClients, SoServers
  <2>5. SoGive /\ UNCHANGED <<soClient, soServer, soSelector, soBroker, soDefault, soCmd>>
    BY <1>4 DEF SoReplace
  <2>6. /\ soLoose \subseteq soLoose'
        /\ \A slot \in SoSlots : <<part, slot>> \in soLoose'
        /\ part = "client" => <<"selector", "registry">> \in soLoose'
    BY <1>4 DEF SoReplace
  <2>7. SoTypes'  BY <1>1, <2>4, <2>5 DEF SoTypes, soCmd
  <2>8. SoBound => SoBound'
    BY <2>4, <2>5, <2>6 DEF SoBound, SoBrokerHas, SoSlots
  <2> QED  BY <1>1, <2>5, <2>7, <2>8, SoGiveKeeps
<1>5. ASSUME SoSelect(SoMade.selector)  PROVE  SoInv'
  <2>1. PICK pend : pend = SoOne("selector", "s1")  OBVIOUS
  <2>2. /\ pend \in SoPendings /\ pend.selector = "s1" /\ pend.registry = SoNone
        /\ pend.broker = SoNone /\ pend.transport = SoNone
    BY <2>1 DEF SoOne, SoNoPending, SoPendings, SoNone, SoSelectors
  <2>3. SoMade.selector = "s1"  BY DEF SoMade
  <2>4. soClient' = SoClientInit(c, pend)  BY <1>2, <1>5, <2>1, <2>3 DEF SoSelect
  <2>5. /\ soClient' \in [SoClients -> SoClientOptions]
        /\ soClient'[c].registry = SoSet(pend, "registry", soClient[c].registry)
        /\ soClient'[c].broker = SoSet(pend, "broker", soClient[c].broker)
        /\ soClient'[c].transport = SoSet(pend, "transport", soClient[c].transport)
        /\ \A d \in SoClients : soClient'[d].pool = soClient'[d].transport
    BY <1>1, <1>3, <2>2, <2>4, SoClientInits
  <2>6. /\ SoGive /\ UNCHANGED <<soSvc, soServer, soSelector, soBroker, soDefault, soCmd>>
        /\ soLoose' = soLoose \cup {<<"selector", "registry">>}
    BY <1>5 DEF SoSelect
  <2>7. SoTypes'  BY <1>1, <2>5, <2>6 DEF SoTypes, soCmd
  <2>8. /\ soClient'[c].registry = soClient[c].registry /\ soClient'[c].broker = soClient[c].broker
        /\ soClient'[c].transport = soClient[c].transport
    BY <2>2, <2>5 DEF SoSet
  <2>9. SoBound => SoBound'  BY <1>2, <2>6, <2>8 DEF SoBound, SoBrokerHas
  <2> QED  BY <2>5, <2>6, <2>7, <2>9, SoGiveKeeps
<1>6. ASSUME SoRegisterTTL  PROVE  SoInv'
  <2>1. soServer' = [soServer EXCEPT ![v].ttl = "code"]  BY <1>2, <1>6 DEF SoRegisterTTL
  <2>2. PICK n : n = [soServer[v] EXCEPT !.ttl = "code"]  OBVIOUS
  <2>3. soServer[v] \in SoServerOptions  BY <1>1, <1>3 DEF SoTypes
  <2>4. /\ n \in SoServerOptions /\ n.registry = soServer[v].registry
        /\ n.broker = soServer[v].broker /\ n.transport = soServer[v].transport
    BY <2>2, <2>3 DEF SoServerOptions
  <2>5. soServer' \in [SoServers -> SoServerOptions] /\ soServer'[v] = n
    BY <1>1, <1>3, <2>1, <2>2, <2>4 DEF SoTypes
  <2>6. SoGive /\ UNCHANGED <<soSvc, soClient, soSelector, soBroker, soDefault, soCmd, soLoose>>
    BY <1>6 DEF SoRegisterTTL
  <2>7. SoTypes'  BY <1>1, <2>5, <2>6 DEF SoTypes, soCmd
  <2>8. SoBound => SoBound'  BY <1>2, <2>4, <2>5, <2>6 DEF SoBound, SoBrokerHas
  <2> QED  BY <1>1, <2>6, <2>7, <2>8, SoGiveKeeps
<1> QED  BY <1>4, <1>5, <1>6

(* Before begins, with a new client or server that is loose.               *)
LEMMA SoBeginKeeps ==
  ASSUME SoInv, NEW flags, SoBegin(flags)
  PROVE  SoInv'
<1>1. SoTypes /\ \A c \in SoClients : soClient[c].pool = soClient[c].transport  BY DEF SoInv
<1>2. /\ soPc = "options" /\ soPc' = "others"
      /\ UNCHANGED <<soClient, soServer, soSelector, soBroker, soDefault, soPending>>
  BY DEF SoBegin, SoStep
<1>3. SoByFlag["client"] = "cf" /\ SoByFlag["server"] = "vf"  BY DEF SoByFlag
<1>4. DOMAIN soSvc = {"registry", "broker", "transport", "client", "server"}
  BY <1>1 DEF SoTypes, SoServiceOptions
<1>5. /\ soSvc'.registry = soSvc.registry /\ soSvc'.broker = soSvc.broker
      /\ soSvc'.transport = soSvc.transport
      /\ soSvc'.client = IF SoSwaps("client", flags) THEN "cf" ELSE soSvc.client
      /\ soSvc'.server = IF SoSwaps("server", flags) THEN "vf" ELSE soSvc.server
  BY <1>3, <1>4 DEF SoBegin
<1>6. soSvc' \in SoServiceOptions
  <2>1. PICK q : q = [registry |-> soSvc'.registry, broker |-> soSvc'.broker,
                      transport |-> soSvc'.transport, client |-> soSvc'.client,
                      server |-> soSvc'.server]
    OBVIOUS
  <2>2. q \in SoServiceOptions
    BY <1>1, <1>5, <2>1 DEF SoTypes, SoServiceOptions, SoClients, SoServers
  <2>3. soSvc' = q  BY <1>4, <2>1 DEF SoBegin
  <2> QED  BY <2>2, <2>3
<1>7. /\ soLoose \subseteq soLoose'
      /\ SoSwaps("client", flags) => /\ \A slot \in SoSlots : <<"client", slot>> \in soLoose'
                                     /\ <<"selector", "registry">> \in soLoose'
      /\ SoSwaps("server", flags) => \A slot \in SoSlots : <<"server", slot>> \in soLoose'
  BY DEF SoBegin
<1>8. SoTypes'  BY <1>1, <1>2, <1>6 DEF SoTypes
<1>9. SoNonePends  BY <1>2, SoNoneWait DEF SoInv
<1>10. SoNonePends'  BY <1>2, <1>9 DEF SoNonePends, SoPend
<1>11. SoBound  BY <1>2, <1>9, SoBoundAgree DEF SoInv
<1>12. SoBound'  BY <1>2, <1>5, <1>7, <1>11 DEF SoBound, SoBrokerHas, SoSlots
<1>13. SoAgree'
  BY <1>10, <1>12 DEF SoNonePends, SoAgree, SoBound, SoClientHas, SoServerHas, SoHas, SoSelectorHas
<1> QED  BY <1>1, <1>2, <1>8, <1>13 DEF SoInv

(* A flag that changes no part.                                            *)
LEMMA SoPassKeeps ==
  ASSUME SoInv, UNCHANGED <<soParts, soPending, soLoose>>,
         \/ soPc \notin {"options", "table", "ready"} /\ soPc' \notin {"options", "table", "ready"}
         \/ soPc = "table" /\ soPc' = "ready",
         soPc # "failed"
  PROVE  SoInv'
<1>1. UNCHANGED <<soSvc, soClient, soServer, soSelector, soBroker, soDefault>>  BY DEF soParts
<1>2. SoTypes'  BY <1>1 DEF SoInv, SoTypes
<1>3. SoAgree  BY DEF SoInv
<1>4. SoAgree'
  BY <1>1, <1>3 DEF SoAgree, SoClientHas, SoServerHas, SoHas, SoPend, SoBrokerHas, SoSelectorHas
<1> QED  BY <1>1, <1>2, <1>4 DEF SoInv

(* What Before has collected, and what it collects with a flag.            *)
LEMMA SoCollects ==
  ASSUME SoTypes, NEW slot \in SoSlots
  PROVE  LET after == SoCollect(slot)
         IN  /\ after \in [{"client", "server"} -> SoPendings]
             /\ \A p \in {"client", "server"} :
                  /\ after[p].registry = IF slot = "registry" THEN "rf" ELSE soPending[p].registry
                  /\ after[p].broker = IF slot = "broker" THEN "bf" ELSE soPending[p].broker
                  /\ after[p].transport = IF slot = "transport" THEN "tf" ELSE soPending[p].transport
                  /\ after[p].selector = soPending[p].selector
<1>1. PICK x : x = SoByFlag[slot]  OBVIOUS
<1>2. /\ slot = "registry" => x = "rf"
      /\ slot = "broker" => x = "bf"
      /\ slot = "transport" => x = "tf"
  BY <1>1 DEF SoByFlag
<1>3. PICK after : after = [p \in {"client", "server"} |-> [soPending[p] EXCEPT ![slot] = x]]
  OBVIOUS
<1>4. after = SoCollect(slot)  BY <1>1, <1>3 DEF SoCollect
<1>5. ASSUME NEW p \in {"client", "server"}
      PROVE  /\ after[p] \in SoPendings
             /\ after[p].registry = IF slot = "registry" THEN "rf" ELSE soPending[p].registry
             /\ after[p].broker = IF slot = "broker" THEN "bf" ELSE soPending[p].broker
             /\ after[p].transport = IF slot = "transport" THEN "tf" ELSE soPending[p].transport
             /\ after[p].selector = soPending[p].selector
  <2>1. PICK r : r = soPending[p]  OBVIOUS
  <2>2. r \in SoPendings  BY <2>1 DEF SoTypes
  <2>3. after[p] = [r EXCEPT ![slot] = x]  BY <1>3, <2>1
  <2> QED  BY <1>2, <2>1, <2>2, <2>3 DEF SoPendings, SoSlots, SoRegistries, SoBrokers, SoTransports
<1>6. after \in [{"client", "server"} -> SoPendings]  BY <1>3, <1>5
<1> QED  BY <1>4, <1>5, <1>6

(* --registry.                                                             *)
LEMMA SoFlagRegistryKeeps ==
  ASSUME SoInv, SoFlagRegistry
  PROVE  SoInv'
<1>1. SoTypes /\ SoAgree /\ \A c \in SoClients : soClient[c].pool = soClient[c].transport
  BY DEF SoInv, SoFlagRegistry, SoStep
<1>2. /\ soPc = "registry" /\ soPc' = "profile"
      /\ UNCHANGED <<soClient, soServer, soDefault, soLoose>>
  BY DEF SoFlagRegistry, SoStep
<1>3. SoByFlag.registry = "rf" /\ "rf" \in SoRegistries  BY DEF SoByFlag, SoRegistries
<1>4. soSvc' = [soSvc EXCEPT !.registry = "rf"]  BY <1>3 DEF SoFlagRegistry
<1>5. /\ soSvc' \in SoServiceOptions /\ soSvc'.registry = "rf" /\ soSvc'.broker = soSvc.broker
      /\ soSvc'.transport = soSvc.transport /\ soSvc'.client = soSvc.client
      /\ soSvc'.server = soSvc.server
  BY <1>1, <1>3, <1>4 DEF SoTypes, SoServiceOptions
<1>6. soSelector' \in [SoSelectors -> SoRegistries] /\ soSelector'[soDefault] = "rf"
  BY <1>1, <1>3 DEF SoTypes, SoFlagRegistry
<1>7. soBroker' \in [SoBrokers -> SoRegistries] /\ soBroker'[soSvc.broker] = "rf"
  BY <1>1, <1>3 DEF SoTypes, SoFlagRegistry, SoServiceOptions
<1>8. PICK col : /\ col = SoCollect("registry")
                 /\ col \in [{"client", "server"} -> SoPendings]
                 /\ \A p \in {"client", "server"} :
                      /\ col[p].registry = "rf" /\ col[p].broker = soPending[p].broker
                      /\ col[p].transport = soPending[p].transport
  <2>1. "registry" \in SoSlots  BY DEF SoSlots
  <2> QED  BY <1>1, <2>1, SoCollects
<1>9. soPending' = [col EXCEPT !["client"].selector = soDefault]  BY <1>8 DEF SoFlagRegistry
<1>10. PICK n : n = [col["client"] EXCEPT !.selector = soDefault]  OBVIOUS
<1>11. /\ n \in SoPendings /\ n.selector = soDefault /\ n.registry = col["client"].registry
       /\ n.broker = col["client"].broker /\ n.transport = col["client"].transport
  BY <1>1, <1>8, <1>10 DEF SoTypes, SoPendings
<1>12. /\ soPending' \in [{"client", "server"} -> SoPendings]
       /\ soPending'["client"] = n /\ soPending'["server"] = col["server"]
  BY <1>8, <1>9, <1>10, <1>11
<1>13. SoTypes'  BY <1>1, <1>2, <1>5, <1>6, <1>7, <1>12 DEF SoTypes
<1>14. SoNone # "rf" /\ SoNone \notin SoSelectors /\ soDefault \in SoSelectors
  BY <1>1 DEF SoNone, SoSelectors, SoTypes
<1>15. \A p \in {"client", "server"} :
         /\ SoPend(p, "registry")' = "rf" /\ SoPend(p, "broker")' = SoPend(p, "broker")
         /\ SoPend(p, "transport")' = SoPend(p, "transport")
  BY <1>2, <1>8, <1>11, <1>12 DEF SoPend
<1>16. SoPend("client", "selector")' = soDefault  BY <1>2, <1>11, <1>12 DEF SoPend
<1>17. SoAgree'
  <2>1. SoClientHas("registry")' /\ SoServerHas("registry")'
    BY <1>5, <1>14, <1>15 DEF SoClientHas, SoServerHas, SoHas
  <2>2. SoClientHas("broker")' /\ SoServerHas("broker")'
    BY <1>1, <1>2, <1>5, <1>15 DEF SoAgree, SoClientHas, SoServerHas, SoHas
  <2>3. SoClientHas("transport")' /\ SoServerHas("transport")'
    BY <1>1, <1>2, <1>5, <1>15 DEF SoAgree, SoClientHas, SoServerHas, SoHas
  <2>4. SoBrokerHas'  BY <1>5, <1>7 DEF SoBrokerHas
  <2>5. SoSelectorHas'  BY <1>2, <1>5, <1>6, <1>14, <1>16 DEF SoSelectorHas
  <2> QED  BY <2>1, <2>2, <2>3, <2>4, <2>5 DEF SoAgree
<1> QED  BY <1>1, <1>2, <1>13, <1>17 DEF SoInv

(* --broker and --transport.                                               *)
LEMMA SoFlagSlotKeeps ==
  ASSUME SoInv, SoFlagBroker \/ SoFlagTransport
  PROVE  SoInv'
<1>1. SoTypes /\ SoAgree /\ \A c \in SoClients : soClient[c].pool = soClient[c].transport
  BY DEF SoInv, SoFlagBroker, SoFlagTransport, SoStep
<1>2. PICK slot \in {"broker", "transport"} :
        /\ soPc = slot /\ soPc' \in {"selector", "apply"}
        /\ soSvc' = [soSvc EXCEPT ![slot] = SoByFlag[slot]]
        /\ soPending' = SoCollect(slot)
        /\ UNCHANGED <<soClient, soServer, soSelector, soBroker, soDefault>>
        /\ soLoose \subseteq soLoose'
        /\ slot = "broker" => <<"broker", "registry">> \in soLoose'
  <2>1. CASE SoFlagBroker
    <3> WITNESS "broker" \in {"broker", "transport"}
    <3> QED  BY <2>1 DEF SoFlagBroker, SoStep
  <2>2. CASE SoFlagTransport
    <3> WITNESS "transport" \in {"broker", "transport"}
    <3> QED  BY <2>2 DEF SoFlagTransport, SoStep
  <2> QED  BY <2>1, <2>2
<1>3. /\ soSvc' \in SoServiceOptions /\ soSvc'.registry = soSvc.registry
      /\ soSvc'.client = soSvc.client /\ soSvc'.server = soSvc.server
      /\ soSvc'.broker = IF slot = "broker" THEN "bf" ELSE soSvc.broker
      /\ soSvc'.transport = IF slot = "transport" THEN "tf" ELSE soSvc.transport
  <2>1. PICK x : x = SoByFlag[slot]  OBVIOUS
  <2>2. (slot = "broker" => x = "bf") /\ (slot = "transport" => x = "tf")  BY <2>1 DEF SoByFlag
  <2>3. soSvc' = [soSvc EXCEPT ![slot] = x]  BY <1>2, <2>1
  <2> QED  BY <1>1, <2>2, <2>3 DEF SoTypes, SoServiceOptions, SoBrokers, SoTransports
<1>4. /\ soPending' \in [{"client", "server"} -> SoPendings]
      /\ \A p \in {"client", "server"} :
           /\ soPending'[p].registry = soPending[p].registry
           /\ soPending'[p].broker = IF slot = "broker" THEN "bf" ELSE soPending[p].broker
           /\ soPending'[p].transport = IF slot = "transport" THEN "tf" ELSE soPending[p].transport
           /\ soPending'[p].selector = soPending[p].selector
  <2>1. slot \in SoSlots /\ slot # "registry"  BY DEF SoSlots
  <2> QED  BY <1>1, <1>2, <2>1, SoCollects
<1>5. SoTypes'  BY <1>1, <1>2, <1>3, <1>4 DEF SoTypes
<1>6. SoNone # "bf" /\ SoNone # "tf"  BY DEF SoNone
<1>7. \A p \in {"client", "server"} :
        /\ SoPend(p, "registry")' = SoPend(p, "registry")
        /\ SoPend(p, "broker")' = IF slot = "broker" THEN "bf" ELSE SoPend(p, "broker")
        /\ SoPend(p, "transport")' = IF slot = "transport" THEN "tf" ELSE SoPend(p, "transport")
        /\ SoPend(p, "selector")' = SoPend(p, "selector")
  BY <1>2, <1>4 DEF SoPend
<1>8. SoAgree'
  <2>1. SoClientHas("registry")' /\ SoServerHas("registry")'
    BY <1>1, <1>2, <1>3, <1>7 DEF SoAgree, SoClientHas, SoServerHas, SoHas
  <2>2. SoClientHas("broker")' /\ SoServerHas("broker")'
    BY <1>1, <1>2, <1>3, <1>6, <1>7 DEF SoAgree, SoClientHas, SoServerHas, SoHas
  <2>3. SoClientHas("transport")' /\ SoServerHas("transport")'
    BY <1>1, <1>2, <1>3, <1>6, <1>7 DEF SoAgree, SoClientHas, SoServerHas, SoHas
  <2>4. SoBrokerHas'  BY <1>1, <1>2, <1>3 DEF SoAgree, SoBrokerHas
  <2>5. SoSelectorHas'  BY <1>1, <1>2, <1>3, <1>7 DEF SoAgree, SoSelectorHas
  <2> QED  BY <2>1, <2>2, <2>3, <2>4, <2>5 DEF SoAgree
<1>9. soPc' # "options"  BY <1>2
<1> QED  BY <1>1, <1>2, <1>5, <1>8, <1>9 DEF SoInv

(* --selector.                                                             *)
LEMMA SoFlagSelectorKeeps ==
  ASSUME SoInv, SoFlagSelector
  PROVE  SoInv'
<1>1. SoTypes /\ SoAgree /\ \A c \in SoClients : soClient[c].pool = soClient[c].transport
  BY DEF SoInv, SoFlagSelector, SoStep
<1>2. /\ soPc = "selector" /\ soPc' = "transport" /\ soDefault' = "sf"
      /\ UNCHANGED <<soSvc, soClient, soServer, soBroker, soLoose>>
      /\ soSelector' = [soSelector EXCEPT !["sf"] = soSvc.registry]
      /\ soPending' = [soPending EXCEPT !["client"].selector = "sf"]
  BY DEF SoFlagSelector, SoStep, SoByFlag
<1>3. "sf" \in SoSelectors /\ SoNone # "sf"  BY DEF SoSelectors, SoNone
<1>4. soSelector' \in [SoSelectors -> SoRegistries] /\ soSelector'["sf"] = soSvc.registry
  BY <1>1, <1>2, <1>3 DEF SoTypes, SoServiceOptions
<1>5. PICK n : n = [soPending["client"] EXCEPT !.selector = "sf"]  OBVIOUS
<1>6. /\ n \in SoPendings /\ n.selector = "sf" /\ n.registry = soPending["client"].registry
      /\ n.broker = soPending["client"].broker /\ n.transport = soPending["client"].transport
  BY <1>1, <1>3, <1>5 DEF SoTypes, SoPendings
<1>7. /\ soPending' \in [{"client", "server"} -> SoPendings]
      /\ soPending'["client"] = n /\ soPending'["server"] = soPending["server"]
  BY <1>1, <1>2, <1>5, <1>6 DEF SoTypes
<1>8. SoTypes'  BY <1>1, <1>2, <1>3, <1>4, <1>7 DEF SoTypes
<1>9. /\ \A p \in {"client", "server"} :
           /\ SoPend(p, "registry")' = SoPend(p, "registry") /\ SoPend(p, "broker")' = SoPend(p, "broker")
           /\ SoPend(p, "transport")' = SoPend(p, "transport")
      /\ SoPend("client", "selector")' = "sf"
  BY <1>2, <1>6, <1>7 DEF SoPend
<1>10. SoAgree'
  <2>1. SoClientHas("registry")' /\ SoClientHas("broker")' /\ SoClientHas("transport")'
    BY <1>1, <1>2, <1>9 DEF SoAgree, SoClientHas, SoHas
  <2>2. SoServerHas("registry")' /\ SoServerHas("broker")' /\ SoServerHas("transport")'
    BY <1>1, <1>2, <1>9 DEF SoAgree, SoServerHas, SoHas
  <2>3. SoBrokerHas'  BY <1>1, <1>2 DEF SoAgree, SoBrokerHas
  <2>4. SoSelectorHas'  BY <1>2, <1>3, <1>4, <1>9 DEF SoSelectorHas
  <2> QED  BY <2>1, <2>2, <2>3, <2>4 DEF SoAgree
<1> QED  BY <1>1, <1>2, <1>8, <1>10 DEF SoInv

(* The collected options are applied.                                      *)
LEMMA SoApplyKeeps ==
  ASSUME SoInv, SoApply
  PROVE  SoInv'
<1>1. SoTypes /\ SoAgree /\ \A c \in SoClients : soClient[c].pool = soClient[c].transport
  BY DEF SoInv, SoApply, SoStep
<1>2. PICK c, v, pc, ps : /\ c = soSvc.client /\ v = soSvc.server
                          /\ pc = soPending["client"] /\ ps = soPending["server"]
  OBVIOUS
<1>3. /\ c \in SoClients /\ v \in SoServers /\ pc \in SoPendings /\ ps \in SoPendings
      /\ soClient[c].selector \in SoSelectors
  BY <1>1, <1>2 DEF SoTypes, SoServiceOptions, SoClientOptions
<1>4. /\ soPc = "apply" /\ soPc' = "table" /\ UNCHANGED <<soSvc, soBroker, soDefault, soPending>>
      /\ soClient' = SoClientInit(c, pc) /\ soSelector' = SoSelectorTold(c, pc)
  BY <1>2 DEF SoApply, SoStep
<1>5. /\ soClient' \in [SoClients -> SoClientOptions]
      /\ soClient'[c].registry = SoSet(pc, "registry", soClient[c].registry)
      /\ soClient'[c].broker = SoSet(pc, "broker", soClient[c].broker)
      /\ soClient'[c].transport = SoSet(pc, "transport", soClient[c].transport)
      /\ soClient'[c].selector = SoSet(pc, "selector", soClient[c].selector)
      /\ \A d \in SoClients : soClient'[d].pool = soClient'[d].transport
  BY <1>1, <1>3, <1>4, SoClientInits
<1>6. PICK after : after = SoServerInit(v, ps)  OBVIOUS
<1>7. /\ after \in [SoServers -> SoServerOptions]
      /\ after[v].registry = SoSet(ps, "registry", soServer[v].registry)
      /\ after[v].broker = SoSet(ps, "broker", soServer[v].broker)
      /\ after[v].transport = SoSet(ps, "transport", soServer[v].transport)
  BY <1>1, <1>3, <1>6, SoServerInits
<1>8. PICK t \in {"flag", "flag default"} : soServer' = [after EXCEPT ![v].ttl = t]
  BY <1>2, <1>6 DEF SoApply
<1>9. PICK n : n = [after[v] EXCEPT !.ttl = t]  OBVIOUS
<1>10. /\ n \in SoServerOptions /\ n.registry = after[v].registry /\ n.broker = after[v].broker
       /\ n.transport = after[v].transport
  BY <1>3, <1>7, <1>9 DEF SoServerOptions
<1>11. soServer' \in [SoServers -> SoServerOptions] /\ soServer'[v] = n
  BY <1>3, <1>7, <1>8, <1>9, <1>10
<1>12. /\ soSelector' \in [SoSelectors -> SoRegistries]
       /\ pc.registry = SoNone => soSelector' = soSelector
       /\ pc.registry # SoNone =>
            \A s \in SoSelectors : soSelector'[s] \in {soSelector[s], pc.registry}
  BY <1>1, <1>3, <1>4 DEF SoSelectorTold, SoTypes, SoPendings
<1>13. SoTypes'  BY <1>1, <1>4, <1>5, <1>11, <1>12 DEF SoTypes
<1>14. /\ \A slot : <<"client", slot>> \notin soLoose' =>
              <<"client", slot>> \notin soLoose \/ pc[slot] # SoNone
       /\ \A slot : <<"server", slot>> \notin soLoose' =>
              <<"server", slot>> \notin soLoose \/ ps[slot] # SoNone
       /\ <<"broker", "registry">> \notin soLoose' => <<"broker", "registry">> \notin soLoose
       /\ <<"selector", "registry">> \notin soLoose' =>
            <<"selector", "registry">> \notin soLoose \/ pc.selector # SoNone
  BY <1>2 DEF SoApply
<1>15. /\ \A slot : SoPend("client", slot) = pc[slot] /\ SoPend("server", slot) = ps[slot]
  BY <1>2, <1>4 DEF SoPend
<1>16. SoBound'
  <2>1. /\ <<"client", "registry">> \notin soLoose' => soClient'[c].registry = soSvc.registry
        /\ <<"client", "broker">> \notin soLoose' => soClient'[c].broker = soSvc.broker
        /\ <<"client", "transport">> \notin soLoose' => soClient'[c].transport = soSvc.transport
    BY <1>1, <1>2, <1>5, <1>14, <1>15 DEF SoAgree, SoClientHas, SoHas, SoSet
  <2>2. /\ <<"server", "registry">> \notin soLoose' => soServer'[v].registry = soSvc.registry
        /\ <<"server", "broker">> \notin soLoose' => soServer'[v].broker = soSvc.broker
        /\ <<"server", "transport">> \notin soLoose' => soServer'[v].transport = soSvc.transport
    BY <1>1, <1>2, <1>7, <1>10, <1>11, <1>14, <1>15 DEF SoAgree, SoServerHas, SoHas, SoSet
  <2>3. SoBrokerHas'  BY <1>1, <1>4, <1>14 DEF SoAgree, SoBrokerHas
  <2>4. <<"selector", "registry">> \notin soLoose' => soSelector'[soClient'[c].selector] = soSvc.registry
    <3>1. CASE pc.selector = SoNone
      <4>1. pc.registry = SoNone  BY <1>1, <1>15, <3>1 DEF SoAgree, SoSelectorHas
      <4>2. soClient'[c].selector = soClient[c].selector  BY <1>5, <3>1 DEF SoSet
      <4> QED  BY <1>1, <1>2, <1>12, <1>14, <1>15, <3>1, <4>1, <4>2 DEF SoAgree, SoSelectorHas
    <3>2. CASE pc.selector # SoNone
      <4>1. soClient'[c].selector = pc.selector /\ pc.selector \in SoSelectors
        BY <1>3, <1>5, <3>2 DEF SoSet, SoPendings
      <4>2. soSelector[pc.selector] = soSvc.registry
        BY <1>1, <1>15, <3>2 DEF SoAgree, SoSelectorHas
      <4>3. pc.registry # SoNone => pc.registry = soSvc.registry
        BY <1>1, <1>15 DEF SoAgree, SoClientHas, SoHas
      <4> QED  BY <1>12, <4>1, <4>2, <4>3
    <3> QED  BY <3>1, <3>2
  <2> QED  BY <1>2, <1>4, <2>1, <2>2, <2>3, <2>4 DEF SoBound
<1>17. SoNonePends'  BY <1>4 DEF SoNonePends, SoPend
<1>18. SoAgree'
  BY <1>16, <1>17 DEF SoNonePends, SoAgree, SoBound, SoClientHas, SoServerHas, SoHas, SoSelectorHas
<1> QED  BY <1>4, <1>5, <1>13, <1>18 DEF SoInv

(* The invariant gives the property.                                       *)
LEMMA SoInvAgrees == SoInv => PartsAgree
<1> SUFFICES ASSUME SoInv, soPc \in {"options", "ready"}  PROVE  PartsAgree  BY DEF PartsAgree
<1>1. SoNonePends  BY SoNoneWait DEF SoInv
<1>2. SoBound  BY <1>1, SoBoundAgree DEF SoInv
<1>3. soClient[soSvc.client].pool = soClient[soSvc.client].transport
  BY DEF SoInv, SoTypes, SoServiceOptions
<1> QED  BY <1>2, <1>3 DEF PartsAgree, SoBound, SoBrokerHas, SoSlots

(* A service is put together from parts that agree, whatever options and   *)
(* flags were given, however many and in whatever order.                   *)
THEOREM OptionsAgree == ServiceOptionsInit /\ [][ServiceOptionsNext]_soVars => []PartsAgree
<1>1. ASSUME SoInv, [ServiceOptionsNext]_soVars  PROVE  SoInv'
  <2>1. CASE UNCHANGED soVars
    <3>1. UNCHANGED <<soPc, soSvc, soClient, soServer, soSelector, soBroker, soDefault, soPending, soLoose>>
      BY <2>1 DEF soVars, soParts, soCmd
    <3>2. SoTypes'  BY <1>1, <3>1 DEF SoInv, SoTypes
    <3>3. SoAgree => SoAgree'
      BY <3>1 DEF SoAgree, SoClientHas, SoServerHas, SoHas, SoPend, SoBrokerHas, SoSelectorHas
    <3> QED  BY <1>1, <3>1, <3>2, <3>3 DEF SoInv
  <2>2. CASE ServiceOptionsNext
    <3>1. ASSUME \/ SoOthers
                 \/ SoUnknown("registry", "registry", soSvc.registry)
                 \/ SoUnknown("broker", "broker", soSvc.broker)
                 \/ SoUnknown("selector", "selector", soDefault)
                 \/ SoUnknown("transport", "transport", soSvc.transport)
                 \/ SoPass("registry", "registry", "profile", soSvc.registry)
                 \/ SoProfile \/ SoNoDuration
                 \/ SoPass("broker", "broker", "selector", soSvc.broker)
                 \/ SoPass("selector", "selector", "transport", soDefault)
                 \/ SoPass("transport", "transport", "apply", soSvc.transport)
                 \/ SoReady
          PROVE  SoInv'
      <4>1. UNCHANGED <<soParts, soPending, soLoose>>
        BY <3>1 DEF SoOthers, SoUnknown, SoPass, SoProfile, SoNoDuration, SoReady
      <4>2. /\ soPc # "failed"
            /\ \/ /\ soPc \notin {"options", "table", "ready"}
                  /\ soPc' \notin {"options", "table", "ready"}
               \/ soPc = "table" /\ soPc' = "ready"
        BY <3>1 DEF SoOthers, SoUnknown, SoPass, SoProfile, SoNoDuration, SoReady, SoStep
      <4> QED  BY <1>1, <4>1, <4>2, SoPassKeeps
    <3> QED
      BY <1>1, <2>2, <3>1, SoOptionKeeps, SoOthersKeep, SoBeginKeeps, SoFlagRegistryKeeps,
         SoFlagSlotKeeps, SoFlagSelectorKeeps, SoApplyKeeps DEF ServiceOptionsNext
  <2> QED  BY <1>1, <2>1, <2>2
<1> QED  BY <1>1, SoInvAgrees, SoStarts, PTL

(* A service is assembled from parts that agree and cleans up when its Run *)
(* ends, whatever options, flags and handlers it was given.                *)
THEOREM ServicePartsAgree ==
  /\ WebServiceInit /\ [][WebServiceNext]_webVars
  /\ ServiceOptionsInit /\ [][ServiceOptionsNext]_soVars
  => []ServicePartsSound
<1>1. RunCleansUp /\ PartsAgree => ServicePartsSound  BY DEF ServicePartsSound
<1> QED  BY <1>1, RunCleans, OptionsAgree, PTL

-----------------------------------------------------------------------------
(* What a source may have.                                                 *)
CfValues == CfData \cup {CfStart}

(* What change sets may merge to, and a value with a version.              *)
CfMerged == {CfMerge(s) : s \in UNION {[D -> CfValues] : D \in SUBSET Nat}} \cup {CfNone}
CfVersioned == [value : CfMerged, version : Nat]

(* The types of the variables.                                             *)
CfTypes ==
  /\ cfSource \in [CfSources -> CfValues]
  /\ cfQueue \in [CfSources -> Seq(CfValues)]
  /\ cfGoroutine \in [CfSources -> {"none", "started", "watching"}]
  /\ cfSets \in Seq(CfValues)
  /\ cfVals \in SUBSET CfMerged /\ cfSnap \in CfVersioned /\ cfVersion \in Nat
  /\ cfActor \in [CfActors -> [pc : {"idle", "committed", "sending"}, value : CfMerged,
                               version : Nat]]
  /\ cfChan \in Seq(CfVersioned)
  /\ cfWatcher \in [on : BOOLEAN, version : Nat, value : CfMerged]
  /\ cfGot \in Seq(CfVersioned)
  /\ cfUser \in [pc : {"idle", "load", "sync", "snapshot", "set", "failed"}, value : CfMerged,
                 version : Nat]
  /\ cfConfig \in CfVersioned

(* Only a loaded source is watched, and only a watched one has updates     *)
(* waiting.                                                                *)
CfStarted ==
  /\ DOMAIN cfSets \subseteq CfSources
  /\ \A i \in CfSources : /\ cfQueue[i] # <<>> => cfGoroutine[i] = "watching"
                          /\ cfGoroutine[i] # "none" => i \in DOMAIN cfSets

(* The last word of a source that missed no update is its set, or waits.   *)
CfLast(i) == IF cfQueue[i] = <<>> THEN cfSets[i] ELSE cfQueue[i][Len(cfQueue[i])]
CfFollow == \A i \in DOMAIN cfSets : i \notin cfMissed => CfLast(i) = cfSource[i]

(* The snapshot is the merge of the sources whenever no change is on its   *)
(* way to it and all of them decode.                                       *)
CfSnapped ==
  (/\ cfUser.pc # "load" /\ DOMAIN cfSets # {} /\ cfMissed = {}
   /\ CfDecodes([i \in DOMAIN cfSets |-> cfSource[i]])
   /\ \A i \in CfSources : cfQueue[i] = <<>>)
  => cfSnap.value = CfMerge([i \in DOMAIN cfSets |-> cfSource[i]])

(* Who wrote the values.                                                   *)
CfWriters ==
  /\ cfBy \in {"nobody", "watch", "reload", "sync"}
  /\ cfBy \in {"watch", "sync"} => cfVals = {cfSnap.value}

(* No version is newer than the loader's.                                  *)
CfVersions ==
  /\ cfSnap.version <= cfVersion /\ cfConfig.version <= cfVersion
  /\ cfUser.version <= cfVersion
  /\ \A n \in 1 .. Len(cfChan) : cfChan[n].version <= cfVersion

(* What the watcher got is in order, and none of it newer than the watcher.*)
CfOrder ==
  /\ ~cfWatcher.on => cfGot = <<>>
  /\ \A n \in 1 .. Len(cfGot) : cfGot[n].version <= cfWatcher.version
  /\ \A n \in 1 .. Len(cfGot) - 1 : cfGot[n].version < cfGot[n + 1].version

(* The inductive invariant.                                                *)
CfInv == CfTypes /\ CfStarted /\ CfFollow /\ CfSnapped /\ CfWriters /\ CfVersions /\ CfOrder

(* Initially nothing is loaded.                                            *)
LEMMA CfInitially == ConfigInit => CfInv
<1> SUFFICES ASSUME ConfigInit PROVE CfInv
  OBVIOUS
<1>1. CfStart \in CfValues /\ CfNone \in CfMerged
  BY DEF CfValues, CfMerged
<1>2. \A S : <<>> \in Seq(S) /\ Len(<<>>) = 0 /\ DOMAIN <<>> = {}
  OBVIOUS
<1>3. CfFirst \in CfVersioned /\ CfFirst.version = 0
  BY <1>1 DEF CfFirst, CfVersioned
<1>4. CfTypes
  BY <1>1, <1>2, <1>3 DEF ConfigInit, CfTypes, CfIdle
<1>5. CfStarted /\ CfFollow /\ CfSnapped
  BY <1>2 DEF ConfigInit, CfStarted, CfFollow, CfSnapped
<1>6. CfWriters
  BY <1>2 DEF ConfigInit, CfWriters
<1>7. CfVersions
  BY <1>2, <1>3 DEF ConfigInit, CfVersions, CfIdle
<1>8. CfOrder
  BY <1>2 DEF ConfigInit, CfOrder
<1> QED
  BY <1>4, <1>5, <1>6, <1>7, <1>8 DEF CfInv

(* What a merge gives is a value.                                          *)
LEMMA CfMergeType ==
  ASSUME NEW D \in SUBSET Nat, NEW s \in [D -> CfValues]
  PROVE  CfMerge(s) \in CfMerged
<1>1. s \in UNION {[E -> CfValues] : E \in SUBSET Nat}
  OBVIOUS
<1> QED
  BY <1>1 DEF CfMerged

(* The sets of a loader merge to one.                                      *)
LEMMA CfMergeSets ==
  ASSUME NEW s \in Seq(CfValues)
  PROVE  CfMerge(s) \in CfMerged /\ DOMAIN s \in SUBSET Nat
<1>1. s \in [1 .. Len(s) -> CfValues] /\ 1 .. Len(s) \in SUBSET Nat
  BY LenProperties
<1> QED
  BY <1>1, CfMergeType

(* The last element of a tail.                                             *)
LEMMA CfLastOfTail ==
  ASSUME NEW S, NEW q \in Seq(S), q # <<>>
  PROVE  /\ Tail(q) \in Seq(S) /\ Head(q) \in S
         /\ Tail(q) = <<>> => q[Len(q)] = Head(q)
         /\ Tail(q) # <<>> => Tail(q)[Len(Tail(q))] = q[Len(q)]
<1>1. PICK n \in Nat : n = Len(q)
  BY LenProperties
<1>2. n # 0 /\ Head(q) = q[1] /\ Head(q) \in S /\ Tail(q) \in Seq(S) /\ Len(Tail(q)) = n - 1
  BY <1>1, HeadTailProperties, EmptySeq
<1>3. \A i \in 1 .. n - 1 : Tail(q)[i] = q[i + 1]
  BY <1>1, <1>2, HeadTailProperties
<1>4. Tail(q) = <<>> => n = 1
  BY <1>1, <1>2, EmptySeq
<1>5. Tail(q) # <<>> => n - 1 \in 1 .. n - 1
  BY <1>1, <1>2, EmptySeq
<1> QED
  BY <1>1, <1>2, <1>3, <1>4, <1>5

(* A commit keeps the types of what it writes.                             *)
LEMMA CfCommitTypes ==
  ASSUME CfTypes, NEW sets, NEW vals, NEW by, CfCommit(sets, vals, by),
         CfMerge(sets) \in CfMerged, vals \in SUBSET CfMerged
  PROVE  /\ cfVals' \in SUBSET CfMerged /\ cfSnap' \in CfVersioned /\ cfVersion' \in Nat
         /\ cfSnap'.value = CfMerge(sets) /\ cfSnap'.version = cfVersion + 1
         /\ cfVersion' = cfVersion + 1 /\ cfVals' = vals /\ cfBy' = by
<1>1. cfVersion + 1 \in Nat
  BY DEF CfTypes
<1> QED
  BY <1>1 DEF CfCommit, CfVersioned

(* A change that was waiting: whose it is and what it does to the sets.    *)
LEMMA CfChange ==
  ASSUME CfTypes, CfStarted, NEW i \in CfSources, CfNextChange(i)
  PROVE  /\ cfQueue[i] # <<>> /\ cfQueue[i] \in Seq(CfValues) /\ i \in DOMAIN cfSets
         /\ Head(cfQueue[i]) \in CfValues /\ Tail(cfQueue[i]) \in Seq(CfValues)
         /\ cfSets' = [cfSets EXCEPT ![i] = Head(cfQueue[i])]
         /\ cfSets' \in Seq(CfValues) /\ DOMAIN cfSets' = DOMAIN cfSets
         /\ cfQueue' = [cfQueue EXCEPT ![i] = Tail(cfQueue[i])]
         /\ CfMerge(cfSets') \in CfMerged
<1>1. cfQueue[i] # <<>> /\ cfQueue[i] \in Seq(CfValues) /\ i \in DOMAIN cfSets
  BY DEF CfTypes, CfStarted, CfNextChange
<1>2. Head(cfQueue[i]) \in CfValues /\ Tail(cfQueue[i]) \in Seq(CfValues)
  BY <1>1, CfLastOfTail
<1>3. /\ cfSets' = [cfSets EXCEPT ![i] = Head(cfQueue[i])] /\ cfSets \in Seq(CfValues)
      /\ cfQueue' = [cfQueue EXCEPT ![i] = Tail(cfQueue[i])]
  BY DEF CfNextChange, CfTypes
<1>4. i \in 1 .. Len(cfSets) /\ DOMAIN cfSets' = DOMAIN cfSets
  BY <1>1, <1>3, LenProperties
<1>5. cfSets' \in Seq(CfValues)
  BY <1>2, <1>3, <1>4, ExceptSeq
<1> QED
  BY <1>1, <1>2, <1>3, <1>4, <1>5, CfMergeSets

(* One that does not decode, or does not help the others to.               *)
LEMMA CfFailedChange ==
  ASSUME CfTypes, CfStarted, NEW i \in CfSources, CfChangeFails(i)
  PROVE  /\ cfQueue[i] # <<>> /\ cfQueue[i] \in Seq(CfValues) /\ i \in DOMAIN cfSets
         /\ cfSets' = [cfSets EXCEPT ![i] = Head(cfQueue[i])]
         /\ cfSets' \in Seq(CfValues) /\ DOMAIN cfSets' = DOMAIN cfSets
         /\ cfQueue' = [cfQueue EXCEPT ![i] = <<>>]
<1>1. cfQueue[i] # <<>> /\ cfQueue[i] \in Seq(CfValues) /\ i \in DOMAIN cfSets
  BY DEF CfTypes, CfStarted, CfChangeFails
<1>2. Head(cfQueue[i]) \in CfValues
  BY <1>1, CfLastOfTail
<1>3. /\ cfSets' = [cfSets EXCEPT ![i] = Head(cfQueue[i])] /\ cfSets \in Seq(CfValues)
      /\ cfQueue' = [cfQueue EXCEPT ![i] = <<>>]
  BY DEF CfChangeFails, CfTypes
<1>4. i \in 1 .. Len(cfSets) /\ DOMAIN cfSets' = DOMAIN cfSets
  BY <1>1, <1>3, LenProperties
<1>5. cfSets' \in Seq(CfValues)
  BY <1>2, <1>3, <1>4, ExceptSeq
<1> QED
  BY <1>1, <1>3, <1>4, <1>5

(* A source that is loaded.                                                *)
LEMMA CfAppended ==
  ASSUME CfTypes, CfStarted, CfLoad
  PROVE  LET i == Len(cfSets) + 1
         IN  /\ cfSets' \in Seq(CfValues) /\ i \in CfSources /\ cfGoroutine[i] = "none"
             /\ cfQueue[i] = <<>> /\ cfUser.pc = "idle" /\ cfSets'[i] = cfSource[i]
             /\ DOMAIN cfSets' = DOMAIN cfSets \cup {i} /\ i \notin DOMAIN cfSets
             /\ \A j \in DOMAIN cfSets : cfSets'[j] = cfSets[j]
             /\ cfUser' = [cfUser EXCEPT !.pc = "load"] /\ cfMissed' = cfMissed \ {i}
             /\ cfGoroutine' = [cfGoroutine EXCEPT ![i] = "started"]
<1>1. PICK n \in Nat : n = Len(cfSets) /\ DOMAIN cfSets = 1 .. n
  BY LenProperties DEF CfTypes
<1>2. /\ n + 1 \in CfSources /\ cfUser.pc = "idle" /\ cfSets' = Append(cfSets, cfSource[n + 1])
      /\ cfUser' = [cfUser EXCEPT !.pc = "load"] /\ cfMissed' = cfMissed \ {n + 1}
      /\ cfGoroutine' = [cfGoroutine EXCEPT ![n + 1] = "started"]
  BY <1>1 DEF CfLoad
<1>3. cfSets \in Seq(CfValues) /\ cfSource[n + 1] \in CfValues
  BY <1>2 DEF CfTypes
<1>4. /\ cfSets' \in Seq(CfValues) /\ Len(cfSets') = n + 1
      /\ cfSets'[n + 1] = cfSource[n + 1] /\ \A j \in 1 .. n : cfSets'[j] = cfSets[j]
  BY <1>1, <1>2, <1>3, AppendProperties
<1>5. DOMAIN cfSets' = 1 .. n + 1
  BY <1>4, LenProperties
<1>6. n + 1 \notin DOMAIN cfSets /\ DOMAIN cfSets' = DOMAIN cfSets \cup {n + 1}
  BY <1>1, <1>5
<1>7. cfGoroutine[n + 1] = "none" /\ cfQueue[n + 1] = <<>>
  BY <1>2, <1>6 DEF CfStarted
<1> QED
  BY <1>1, <1>2, <1>4, <1>6, <1>7

(* The sources of the loaded sets, read by Sync.                           *)
LEMMA CfReadSources ==
  ASSUME CfTypes, CfStarted
  PROVE  CfMerge([i \in CfLoaded |-> cfSource[i]]) \in CfMerged
<1>1. DOMAIN cfSets \in SUBSET Nat
  BY CfMergeSets DEF CfTypes
<1>2. [i \in DOMAIN cfSets |-> cfSource[i]] \in [DOMAIN cfSets -> CfValues]
  BY DEF CfTypes, CfStarted
<1> QED
  BY <1>1, <1>2, CfMergeType DEF CfLoaded

(* Every action keeps the types.                                           *)
LEMMA CfTypesStep ==
  ASSUME CfTypes, CfStarted, ConfigNext
  PROVE  CfTypes'
<1>1. CfNone \in CfMerged
  BY DEF CfMerged
<1>a. CfUserActor \in CfActors /\ CfSources \subseteq CfActors
  BY DEF CfActors
<1>2. ASSUME NEW i \in CfSources, NEW d \in CfData, CfUpdate(i, d) PROVE CfTypes'
  <2>1. d \in CfValues /\ Append(cfQueue[i], d) \in Seq(CfValues)
    BY AppendProperties DEF CfValues, CfTypes
  <2> QED
    BY <1>2, <2>1 DEF CfUpdate, CfTypes, cfLoaderVars, cfWatchVars, cfUserVars
<1>3. ASSUME NEW i \in CfSources, CfWatchSource(i) PROVE CfTypes'
  BY <1>3 DEF CfWatchSource, CfTypes, cfSourceVars, cfLoaderVars, cfWatchVars, cfUserVars
<1>4. ASSUME NEW i \in CfSources, CfNextChange(i) PROVE CfTypes'
  <2>1. CfCommit(cfSets', {CfMerge(cfSets')}, "watch")
    BY <1>4 DEF CfNextChange
  <2>2. cfVals' \in SUBSET CfMerged /\ cfSnap' \in CfVersioned /\ cfVersion' \in Nat
    BY <1>4, <2>1, CfChange, CfCommitTypes
  <2>3. cfQueue' \in [CfSources -> Seq(CfValues)] /\ cfSets' \in Seq(CfValues)
    <3>1. /\ cfQueue' = [cfQueue EXCEPT ![i] = Tail(cfQueue[i])]
          /\ Tail(cfQueue[i]) \in Seq(CfValues) /\ cfSets' \in Seq(CfValues)
      BY <1>4, CfChange
    <3>2. cfQueue \in [CfSources -> Seq(CfValues)]
      BY DEF CfTypes
    <3> QED
      BY <3>1, <3>2
  <2>4. cfActor' \in [CfActors -> [pc : {"idle", "committed", "sending"}, value : CfMerged,
                                   version : Nat]]
    BY <1>4, <1>a DEF CfNextChange, CfTypes
  <2> QED
    BY <1>4, <2>2, <2>3, <2>4 DEF CfNextChange, CfTypes, cfSourceVars, cfWatchVars, cfUserVars
<1>5. ASSUME NEW a \in CfActors, CfCapture(a) PROVE CfTypes'
  <2>1. cfVals # {} => (CHOOSE v \in cfVals : TRUE) \in CfMerged
    BY DEF CfTypes
  <2>2. cfSnap.version \in Nat
    BY DEF CfTypes, CfVersioned
  <2>3. cfActor' \in [CfActors -> [pc : {"idle", "committed", "sending"}, value : CfMerged,
                                   version : Nat]]
    BY <1>1, <1>5, <2>1, <2>2 DEF CfCapture, CfTypes, CfIdle
  <2> QED
    BY <1>5, <2>3 DEF CfCapture, CfTypes, cfSourceVars, cfLoaderVars, cfWatchVars, cfUserVars
<1>6. ASSUME NEW a \in CfActors, CfSend(a) PROVE CfTypes'
  <2>1. cfSnap.version \in Nat /\ cfActor[a].value \in CfMerged
    BY DEF CfTypes, CfVersioned
  <2>2. [value |-> cfActor[a].value, version |-> cfSnap.version] \in CfVersioned
    BY <2>1 DEF CfVersioned
  <2>3. cfChan' \in Seq(CfVersioned)
    BY <1>6, <2>2 DEF CfSend, CfTypes
  <2>4. cfActor' \in [CfActors -> [pc : {"idle", "committed", "sending"}, value : CfMerged,
                                   version : Nat]]
    BY <1>1, <1>6 DEF CfSend, CfTypes, CfIdle
  <2> QED
    BY <1>6, <2>3, <2>4 DEF CfSend, CfTypes, cfSourceVars, cfLoaderVars, cfUserVars
<1>7. CASE CfNext
  <2>1. cfChan # <<>> /\ Head(cfChan) \in CfVersioned
    BY <1>7, HeadTailProperties DEF CfNext, CfTypes
  <2>2. Head(cfChan).version \in Nat /\ Head(cfChan).value \in CfMerged
    BY <2>1 DEF CfVersioned
  <2>3. cfWatcher' \in [on : BOOLEAN, version : Nat, value : CfMerged]
    BY <1>7, <2>2 DEF CfNext, CfTypes
  <2>4. cfGot' \in Seq(CfVersioned) /\ cfConfig' \in CfVersioned /\ cfChan' = <<>>
    BY <1>7, <2>1, AppendProperties DEF CfNext, CfTypes
  <2> QED
    BY <1>7, <2>3, <2>4 DEF CfNext, CfTypes, cfSourceVars, cfLoaderVars
<1>8. CASE CfWatch
  <2>1. cfVals # {} => (CHOOSE v \in cfVals : TRUE) \in CfMerged
    BY DEF CfTypes
  <2>2. cfSnap.version \in Nat
    BY DEF CfTypes, CfVersioned
  <2> QED
    BY <1>8, <2>1, <2>2 DEF CfWatch, CfTypes, cfSourceVars, cfLoaderVars, cfUserVars
<1>9. CASE CfClose
  <2>1. \A S : <<>> \in Seq(S)
    OBVIOUS
  <2>2. CfFirst \in CfVersioned
    BY <1>1 DEF CfFirst, CfVersioned
  <2> QED
    BY <1>1, <1>9, <2>1, <2>2 DEF CfClose, CfTypes, CfIdle, cfSourceVars
<1>16. ASSUME NEW i \in CfSources, CfChangeFails(i) PROVE CfTypes'
  <2>1. /\ cfSets' \in Seq(CfValues) /\ cfQueue' \in [CfSources -> Seq(CfValues)]
        /\ cfGoroutine' \in [CfSources -> {"none", "started", "watching"}]
    <3>1. cfSets' \in Seq(CfValues) /\ cfQueue' = [cfQueue EXCEPT ![i] = <<>>] /\ <<>> \in Seq(CfValues)
      BY <1>16, CfFailedChange
    <3>2. cfQueue \in [CfSources -> Seq(CfValues)]
      BY DEF CfTypes
    <3>3. cfGoroutine' \in [CfSources -> {"none", "started", "watching"}]
      BY <1>16 DEF CfTypes, CfChangeFails
    <3> QED
      BY <3>1, <3>2, <3>3
  <2> QED
    BY <1>16, <2>1 DEF CfChangeFails, CfTypes, cfWatchVars, cfUserVars
<1>17. CASE CfReloadFails \/ CfSyncFails
  BY <1>17 DEF CfReloadFails, CfSyncFails, CfGiveUp, CfTypes, cfSourceVars, cfLoaderVars, cfWatchVars
<1>10. CASE CfLoad
  <2>1. cfSets' \in Seq(CfValues) /\ cfGoroutine' \in [CfSources -> {"none", "started", "watching"}]
        /\ cfUser' = [cfUser EXCEPT !.pc = "load"]
    BY <1>10, CfAppended DEF CfTypes
  <2> QED
    BY <1>10, <2>1 DEF CfLoad, CfTypes, cfWatchVars
<1>11. CASE CfReload
  <2>1. CfCommit(cfSets, cfVals, "reload")
    BY <1>11 DEF CfReload
  <2>2. cfVals' \in SUBSET CfMerged /\ cfSnap' \in CfVersioned /\ cfVersion' \in Nat
    BY <2>1, CfMergeSets, CfCommitTypes DEF CfTypes
  <2> QED
    BY <1>11, <1>a, <2>2 DEF CfReload, CfTypes, cfSourceVars, cfWatchVars
<1>12. CASE CfSyncStart
  BY <1>12 DEF CfSyncStart, CfTypes, cfSourceVars, cfLoaderVars, cfWatchVars
<1>13. CASE CfSync
  <2> DEFINE read == [i \in CfLoaded |-> cfSource[i]]
  <2>1. CfCommit(read, {CfMerge(read)}, "sync")
    BY <1>13 DEF CfSync
  <2>2. cfVals' \in SUBSET CfMerged /\ cfSnap' \in CfVersioned /\ cfVersion' \in Nat
    BY <2>1, CfReadSources, CfCommitTypes
  <2> QED
    BY <1>13, <1>a, <2>2 DEF CfSync, CfTypes, cfSourceVars, cfWatchVars
<1>14. CASE CfSnapshot
  BY <1>14 DEF CfSnapshot, CfTypes, CfVersioned, cfSourceVars, cfLoaderVars, cfWatchVars
<1>15. CASE CfSet
  BY <1>15, <1>1 DEF CfSet, CfTypes, CfVersioned, CfIdle, cfSourceVars, cfLoaderVars, cfWatchVars
<1> QED
  BY <1>2, <1>3, <1>4, <1>5, <1>6, <1>7, <1>8, <1>9, <1>10, <1>11, <1>12, <1>13, <1>14, <1>15,
     <1>16, <1>17 DEF ConfigNext

(* What the loader and the sources are to each other.                      *)
CfLoader == CfStarted /\ CfFollow /\ CfSnapped /\ CfWriters

(* Neither the senders, the watcher nor the user outside Load and Sync     *)
(* touch it.                                                               *)
CfBystander ==
  \/ \E a \in CfActors : CfCapture(a) \/ CfSend(a)
  \/ CfNext \/ CfWatch \/ CfSyncStart \/ CfSyncFails \/ CfSnapshot \/ CfSet

(* Such a step leaves the loader's state alone, *)
LEMMA CfBystanders ==
  ASSUME CfTypes, CfBystander
  PROVE  /\ UNCHANGED <<cfSource, cfQueue, cfGoroutine, cfMissed, cfLoaderVars>>
         /\ cfUser'.pc = "load" <=> cfUser.pc = "load"
<1>1. ASSUME NEW a \in CfActors, CfCapture(a) \/ CfSend(a)
      PROVE  /\ UNCHANGED <<cfSource, cfQueue, cfGoroutine, cfMissed, cfLoaderVars>>
             /\ cfUser' = cfUser
  BY <1>1 DEF CfCapture, CfSend, cfSourceVars, cfUserVars
<1>2. CASE CfNext \/ CfWatch
  BY <1>2 DEF CfNext, CfWatch, cfSourceVars, cfUserVars
<1>3. CASE CfSyncStart
  BY <1>3 DEF CfSyncStart, cfSourceVars, CfTypes
<1>4. CASE CfSnapshot
  BY <1>4 DEF CfSnapshot, cfSourceVars
<1>5. CASE CfSet
  BY <1>5 DEF CfSet, cfSourceVars, CfIdle
<1>6. CASE CfSyncFails
  BY <1>6 DEF CfSyncFails, CfGiveUp, cfSourceVars, CfTypes
<1> QED
  BY <1>1, <1>2, <1>3, <1>4, <1>5, <1>6 DEF CfBystander

(* and so keeps what is said of it. *)
LEMMA CfBystandersKeep ==
  ASSUME CfTypes, CfLoader, CfBystander
  PROVE  CfLoader'
<1>1. /\ cfSource' = cfSource /\ cfQueue' = cfQueue /\ cfGoroutine' = cfGoroutine
      /\ cfMissed' = cfMissed /\ cfSets' = cfSets /\ cfVals' = cfVals /\ cfSnap' = cfSnap
      /\ cfBy' = cfBy /\ (cfUser'.pc = "load" <=> cfUser.pc = "load")
  BY CfBystanders DEF cfLoaderVars
<1>2. CfStarted' /\ CfFollow'
  BY <1>1 DEF CfLoader, CfStarted, CfFollow, CfLast
<1>3. CfSnapped'
  BY <1>1 DEF CfLoader, CfSnapped
<1>4. CfWriters'
  BY <1>1 DEF CfLoader, CfWriters
<1> QED
  BY <1>2, <1>3, <1>4 DEF CfLoader

(* When nothing waits and nothing was missed the sets are the sources.     *)
LEMMA CfSetsAreSources ==
  ASSUME NEW sets \in Seq(CfValues), NEW source, \A i \in DOMAIN sets : sets[i] = source[i]
  PROVE  sets = [i \in DOMAIN sets |-> source[i]]
  BY LenProperties

(* An update is queued or missed.                                          *)
LEMMA CfUpdateKeeps ==
  ASSUME CfTypes, CfLoader, NEW i \in CfSources, NEW d \in CfData, CfUpdate(i, d)
  PROVE  CfLoader'
<1>1. /\ cfGoroutine' = cfGoroutine /\ cfSets' = cfSets /\ cfVals' = cfVals
      /\ cfSnap' = cfSnap /\ cfBy' = cfBy /\ cfUser' = cfUser
  BY DEF CfUpdate, cfLoaderVars, cfUserVars
<1>2. cfSource'[i] = d /\ \A j \in CfSources \ {i} : cfSource'[j] = cfSource[j]
  BY DEF CfUpdate, CfTypes
<1>3. CfWriters'
  BY <1>1 DEF CfLoader, CfWriters
<1>4. DOMAIN cfSets \subseteq CfSources
  BY DEF CfLoader, CfStarted
<1>5. CASE cfGoroutine[i] = "watching" /\ Len(cfQueue[i]) < CfBuffer
  <2>1. PICK q : q = cfQueue[i]
    OBVIOUS
  <2>2. q \in Seq(CfValues) /\ d \in CfValues
    BY <2>1 DEF CfTypes, CfValues
  <2>3. PICK r : r = Append(q, d)
    OBVIOUS
  <2>4. r # <<>> /\ r[Len(r)] = d
    <3>1. PICK n \in Nat : n = Len(q)
      BY <2>2, LenProperties
    <3>2. Len(r) = n + 1 /\ r[n + 1] = d
      BY <2>2, <2>3, <3>1, AppendProperties
    <3>3. r # <<>>
      BY <3>1, <3>2, EmptySeq
    <3> QED
      BY <3>2, <3>3
  <2>5. cfQueue' = [cfQueue EXCEPT ![i] = r] /\ cfMissed' = cfMissed \ {i}
    BY <1>5, <2>1, <2>3 DEF CfUpdate
  <2>6. cfQueue'[i] = r /\ \A j \in CfSources \ {i} : cfQueue'[j] = cfQueue[j]
    BY <2>5 DEF CfTypes
  <2>7. CfStarted'
    BY <1>1, <1>5, <2>6 DEF CfLoader, CfStarted
  <2>8. ASSUME NEW j \in DOMAIN cfSets', j \notin cfMissed' PROVE CfLast(j)' = cfSource'[j]
    <3>1. CASE j = i
      BY <1>2, <2>4, <2>6, <3>1 DEF CfLast
    <3>2. CASE j # i
      <4>1. j \in CfSources \ {i} /\ j \in DOMAIN cfSets /\ j \notin cfMissed
        BY <1>1, <1>4, <2>5, <2>8, <3>2
      <4>2. CfLast(j) = cfSource[j]
        BY <4>1 DEF CfLoader, CfFollow
      <4> QED
        BY <1>1, <1>2, <2>6, <4>1, <4>2 DEF CfLast
    <3> QED
      BY <3>1, <3>2
  <2>9. CfFollow'
    BY <2>8 DEF CfFollow
  <2>10. CfSnapped'
    BY <2>4, <2>6 DEF CfSnapped
  <2> QED
    BY <1>3, <2>7, <2>9, <2>10 DEF CfLoader
<1>6. CASE ~(cfGoroutine[i] = "watching" /\ Len(cfQueue[i]) < CfBuffer)
  <2>1. cfQueue' = cfQueue /\ cfMissed' = cfMissed \cup {i}
    BY <1>6 DEF CfUpdate
  <2>2. CfStarted'
    BY <1>1, <2>1 DEF CfLoader, CfStarted
  <2>3. ASSUME NEW j \in DOMAIN cfSets', j \notin cfMissed' PROVE CfLast(j)' = cfSource'[j]
    <3>1. j \in CfSources \ {i} /\ j \in DOMAIN cfSets /\ j \notin cfMissed
      BY <1>1, <1>4, <2>1, <2>3
    <3>2. CfLast(j) = cfSource[j]
      BY <3>1 DEF CfLoader, CfFollow
    <3> QED
      BY <1>1, <1>2, <2>1, <3>1, <3>2 DEF CfLast
  <2>4. CfFollow'
    BY <2>3 DEF CfFollow
  <2>5. CfSnapped'
    BY <2>1 DEF CfSnapped
  <2> QED
    BY <1>3, <2>2, <2>4, <2>5 DEF CfLoader
<1> QED
  BY <1>5, <1>6

(* So a loader that commits its sets has the merge of the sources when     *)
(* nothing waits and nothing was missed.                                   *)
LEMMA CfCommitted ==
  ASSUME CfTypes', CfStarted', CfFollow', cfSnap'.value = CfMerge(cfSets')
  PROVE  CfSnapped'
<1> SUFFICES ASSUME cfMissed' = {}, \A i \in CfSources : cfQueue'[i] = <<>>
             PROVE  cfSnap'.value = CfMerge([i \in DOMAIN cfSets' |-> cfSource'[i]])
  BY DEF CfSnapped
<1>1. \A i \in DOMAIN cfSets' : cfSets'[i] = cfSource'[i]
  BY DEF CfFollow, CfLast, CfStarted
<1>2. cfSets' \in Seq(CfValues)
  BY DEF CfTypes
<1>3. cfSets' = [i \in DOMAIN cfSets' |-> cfSource'[i]]
  BY <1>1, <1>2, CfSetsAreSources
<1> QED
  BY <1>3

(* A change that is taken from the queue.                                  *)
LEMMA CfNextChangeKeeps ==
  ASSUME CfTypes, CfTypes', CfLoader, NEW i \in CfSources, CfNextChange(i)
  PROVE  CfLoader'
<1>1. /\ cfGoroutine' = cfGoroutine /\ cfSource' = cfSource /\ cfMissed' = cfMissed
      /\ cfUser' = cfUser /\ CfCommit(cfSets', {CfMerge(cfSets')}, "watch")
  BY DEF CfNextChange, cfSourceVars, cfUserVars
<1>2. CfStarted
  BY DEF CfLoader
<1>3. PICK q : q = cfQueue[i]
  OBVIOUS
<1>4. /\ q # <<>> /\ q \in Seq(CfValues) /\ i \in DOMAIN cfSets
      /\ cfSets' = [cfSets EXCEPT ![i] = Head(q)]
      /\ DOMAIN cfSets' = DOMAIN cfSets
      /\ cfQueue' = [cfQueue EXCEPT ![i] = Tail(q)]
      /\ CfMerge(cfSets') \in CfMerged
  BY <1>2, <1>3, CfChange
<1>5. /\ cfSets'[i] = Head(q) /\ cfQueue'[i] = Tail(q)
      /\ \A j \in CfSources \ {i} : cfQueue'[j] = cfQueue[j]
      /\ \A j \in DOMAIN cfSets \ {i} : cfSets'[j] = cfSets[j]
  BY <1>4 DEF CfTypes
<1>6. CfStarted'
  <2>1. cfGoroutine[i] = "watching"
    BY <1>2, <1>3, <1>4 DEF CfStarted
  <2> QED
    BY <1>1, <1>2, <1>4, <1>5, <2>1 DEF CfStarted
<1>7. ASSUME NEW j \in DOMAIN cfSets', j \notin cfMissed' PROVE CfLast(j)' = cfSource'[j]
  <2>1. j \in DOMAIN cfSets /\ j \notin cfMissed /\ j \in CfSources
    BY <1>1, <1>2, <1>4, <1>7 DEF CfStarted
  <2>2. CfLast(j) = cfSource[j]
    BY <2>1 DEF CfLoader, CfFollow
  <2>3. CASE j = i
    <3>1. q[Len(q)] = cfSource[i]
      BY <1>3, <1>4, <2>2, <2>3 DEF CfLast
    <3>2. /\ Tail(q) = <<>> => q[Len(q)] = Head(q)
          /\ Tail(q) # <<>> => Tail(q)[Len(Tail(q))] = q[Len(q)]
      BY <1>4, CfLastOfTail
    <3>3. CfLast(i)' = IF Tail(q) = <<>> THEN Head(q) ELSE Tail(q)[Len(Tail(q))]
      BY <1>5 DEF CfLast
    <3> QED
      BY <1>1, <2>3, <3>1, <3>2, <3>3
  <2>4. CASE j # i
    BY <1>1, <1>5, <2>1, <2>2, <2>4 DEF CfLast
  <2> QED
    BY <2>3, <2>4
<1>8. CfFollow'
  BY <1>7 DEF CfFollow
<1>9. cfSnap'.value = CfMerge(cfSets') /\ cfVals' = {CfMerge(cfSets')} /\ cfBy' = "watch"
  <2>1. PICK s : s = cfSets'
    OBVIOUS
  <2>2. CfCommit(s, {CfMerge(s)}, "watch") /\ CfMerge(s) \in CfMerged
    BY <1>1, <1>4, <2>1
  <2> QED
    BY <2>1, <2>2, CfCommitTypes
<1>10. CfSnapped'
  BY <1>6, <1>8, <1>9, CfCommitted
<1>11. CfWriters'
  BY <1>9 DEF CfWriters
<1> QED
  BY <1>6, <1>8, <1>10, <1>11 DEF CfLoader

(* A loader whose sets do not all decode owes no snapshot.                 *)
LEMMA CfUndecoded ==
  ASSUME CfTypes', CfStarted', CfFollow', ~CfDecodes(cfSets')
  PROVE  CfSnapped'
<1> SUFFICES ASSUME cfMissed' = {}, \A i \in CfSources : cfQueue'[i] = <<>>,
                    CfDecodes([i \in DOMAIN cfSets' |-> cfSource'[i]])
             PROVE  FALSE
  BY DEF CfSnapped
<1>1. \A i \in DOMAIN cfSets' : cfSets'[i] = cfSource'[i]
  BY DEF CfFollow, CfLast, CfStarted
<1> QED
  BY <1>1 DEF CfDecodes

(* A change that is taken from the queue and does not merge.               *)
LEMMA CfChangeFailsKeeps ==
  ASSUME CfTypes, CfTypes', CfLoader, NEW i \in CfSources, CfChangeFails(i)
  PROVE  CfLoader'
<1>1. /\ cfGoroutine' = [cfGoroutine EXCEPT ![i] = "started"] /\ cfSource' = cfSource
      /\ ~CfDecodes(cfSets') /\ cfVals' = cfVals /\ cfSnap' = cfSnap /\ cfBy' = cfBy
      /\ cfMissed' = IF Tail(cfQueue[i]) = <<>> THEN cfMissed ELSE cfMissed \cup {i}
  BY DEF CfChangeFails
<1>2. CfStarted
  BY DEF CfLoader
<1>3. PICK q : q = cfQueue[i]
  OBVIOUS
<1>4. /\ q # <<>> /\ q \in Seq(CfValues) /\ i \in DOMAIN cfSets
      /\ cfSets' = [cfSets EXCEPT ![i] = Head(q)] /\ DOMAIN cfSets' = DOMAIN cfSets
      /\ cfQueue' = [cfQueue EXCEPT ![i] = <<>>]
  BY <1>2, <1>3, CfFailedChange
<1>5. /\ cfSets'[i] = Head(q) /\ cfQueue'[i] = <<>>
      /\ \A j \in CfSources \ {i} : cfQueue'[j] = cfQueue[j] /\ cfGoroutine'[j] = cfGoroutine[j]
      /\ \A j \in DOMAIN cfSets \ {i} : cfSets'[j] = cfSets[j]
  BY <1>1, <1>4 DEF CfTypes
<1>6. CfStarted'
  BY <1>1, <1>2, <1>4, <1>5 DEF CfStarted, CfTypes
<1>7. ASSUME NEW j \in DOMAIN cfSets', j \notin cfMissed' PROVE CfLast(j)' = cfSource'[j]
  <2>1. j \in DOMAIN cfSets /\ j \notin cfMissed /\ j \in CfSources
    BY <1>1, <1>2, <1>4, <1>7 DEF CfStarted
  <2>2. CfLast(j) = cfSource[j]
    BY <2>1 DEF CfLoader, CfFollow
  <2>3. CASE j = i
    <3>1. q[Len(q)] = cfSource[i] /\ Tail(q) = <<>>
      BY <1>1, <1>3, <1>4, <1>7, <2>2, <2>3 DEF CfLast
    <3>2. q[Len(q)] = Head(q)
      BY <1>4, <3>1, CfLastOfTail
    <3> QED
      BY <1>1, <1>5, <2>3, <3>1, <3>2 DEF CfLast
  <2>4. CASE j # i
    BY <1>1, <1>5, <2>1, <2>2, <2>4 DEF CfLast
  <2> QED
    BY <2>3, <2>4
<1>8. CfFollow'
  BY <1>7 DEF CfFollow
<1>9. CfSnapped'
  BY <1>1, <1>6, <1>8, CfUndecoded
<1>10. CfWriters'
  BY <1>1 DEF CfLoader, CfWriters
<1> QED
  BY <1>6, <1>8, <1>9, <1>10 DEF CfLoader

(* The other steps of the loader.                                          *)
LEMMA CfLoaderStep ==
  ASSUME CfTypes, CfTypes', CfLoader, ConfigNext
  PROVE  CfLoader'
<1>1. CfStarted
  BY DEF CfLoader
<1>2. ASSUME NEW i \in CfSources, CfWatchSource(i) PROVE CfLoader'
  <2>1. /\ cfSource' = cfSource /\ cfQueue' = cfQueue
        /\ cfGoroutine[i] = "started" /\ cfGoroutine' = [cfGoroutine EXCEPT ![i] = "watching"]
        /\ cfMissed' = cfMissed /\ cfSets' = cfSets /\ cfVals' = cfVals /\ cfSnap' = cfSnap
        /\ cfBy' = cfBy /\ cfUser' = cfUser
    BY <1>2 DEF CfWatchSource, cfSourceVars, cfLoaderVars, cfUserVars
  <2>2. CfStarted'
    BY <2>1, <1>1 DEF CfStarted, CfTypes
  <2>3. CfFollow'
    BY <2>1 DEF CfLoader, CfFollow, CfLast
  <2>4. CfSnapped' /\ CfWriters'
    BY <2>1 DEF CfLoader, CfSnapped, CfWriters
  <2> QED
    BY <2>2, <2>3, <2>4 DEF CfLoader
<1>3. CASE CfLoad
  <2>1. PICK n : n = Len(cfSets) + 1
    OBVIOUS
  <2>2. /\ n \in CfSources /\ cfGoroutine[n] = "none"
        /\ cfQueue[n] = <<>> /\ cfSets'[n] = cfSource[n]
        /\ DOMAIN cfSets' = DOMAIN cfSets \cup {n} /\ n \notin DOMAIN cfSets
        /\ \A j \in DOMAIN cfSets : cfSets'[j] = cfSets[j]
        /\ cfUser' = [cfUser EXCEPT !.pc = "load"] /\ cfMissed' = cfMissed \ {n}
        /\ cfGoroutine' = [cfGoroutine EXCEPT ![n] = "started"]
    BY <1>1, <1>3, <2>1, CfAppended
  <2>3. /\ cfSource' = cfSource /\ cfQueue' = cfQueue /\ cfVals' = cfVals
        /\ cfSnap' = cfSnap /\ cfBy' = cfBy
    BY <1>3 DEF CfLoad
  <2>4. cfUser'.pc = "load"
    BY <2>2 DEF CfTypes
  <2>5. CfStarted'
    BY <1>1, <2>2, <2>3 DEF CfStarted, CfTypes
  <2>6. CfFollow'
    BY <2>2, <2>3 DEF CfLoader, CfFollow, CfLast
  <2>7. CfSnapped' /\ CfWriters'
    BY <2>3, <2>4 DEF CfLoader, CfSnapped, CfWriters
  <2> QED
    BY <2>5, <2>6, <2>7 DEF CfLoader
<1>4. CASE CfReload
  <2>1. /\ cfSource' = cfSource /\ cfQueue' = cfQueue /\ cfGoroutine' = cfGoroutine
        /\ cfMissed' = cfMissed /\ cfSets' = cfSets /\ CfCommit(cfSets, cfVals, "reload")
    BY <1>4 DEF CfReload, cfSourceVars
  <2>2. CfStarted' /\ CfFollow'
    BY <2>1 DEF CfLoader, CfStarted, CfFollow, CfLast
  <2>3. cfSnap'.value = CfMerge(cfSets') /\ cfBy' = "reload"
    BY <2>1, CfMergeSets, CfCommitTypes DEF CfTypes
  <2>4. CfSnapped'
    BY <2>2, <2>3, CfCommitted
  <2>5. CfWriters'
    BY <2>3 DEF CfWriters
  <2> QED
    BY <2>2, <2>4, <2>5 DEF CfLoader
<1>5. CASE CfSync
  <2>1. PICK read : read = [i \in CfLoaded |-> cfSource[i]]
    OBVIOUS
  <2>2. /\ cfSource' = cfSource /\ cfQueue' = cfQueue /\ cfGoroutine' = cfGoroutine
        /\ cfMissed' = cfMissed /\ cfSets' = cfSets
        /\ CfCommit(read, {CfMerge(read)}, "sync")
    BY <1>5, <2>1 DEF CfSync, cfSourceVars
  <2>3. CfStarted' /\ CfFollow'
    BY <2>2 DEF CfLoader, CfStarted, CfFollow, CfLast
  <2>4. CfMerge(read) \in CfMerged
    BY <1>1, <2>1, CfReadSources
  <2>5. cfSnap'.value = CfMerge(read) /\ cfVals' = {CfMerge(read)} /\ cfBy' = "sync"
    BY <2>2, <2>4, CfCommitTypes
  <2>6. read = [i \in DOMAIN cfSets' |-> cfSource'[i]]
    BY <2>1, <2>2 DEF CfLoaded
  <2>7. CfSnapped'
    BY <2>5, <2>6 DEF CfSnapped
  <2>8. CfWriters'
    BY <2>5 DEF CfWriters
  <2> QED
    BY <2>3, <2>7, <2>8 DEF CfLoader
<1>6. CASE CfReloadFails
  <2>1. /\ cfSource' = cfSource /\ cfQueue' = cfQueue /\ cfGoroutine' = cfGoroutine
        /\ cfMissed' = cfMissed /\ cfSets' = cfSets /\ cfVals' = cfVals /\ cfSnap' = cfSnap
        /\ cfBy' = cfBy /\ ~CfDecodes(cfSets)
    BY <1>6 DEF CfReloadFails, cfSourceVars, cfLoaderVars
  <2>2. CfStarted' /\ CfFollow'
    BY <2>1 DEF CfLoader, CfStarted, CfFollow, CfLast
  <2>3. CfSnapped'
    BY <2>1, <2>2, CfUndecoded
  <2>4. CfWriters'
    BY <2>1 DEF CfLoader, CfWriters
  <2> QED
    BY <2>2, <2>3, <2>4 DEF CfLoader
<1>7. CASE CfClose
  <2>1. /\ cfQueue' = [i \in CfSources |-> <<>>] /\ cfGoroutine' = [i \in CfSources |-> "none"]
        /\ cfSets' = <<>> /\ DOMAIN cfSets' = {} /\ cfBy' = "nobody"
    BY <1>7 DEF CfClose
  <2> QED
    BY <2>1 DEF CfLoader, CfStarted, CfFollow, CfSnapped, CfWriters
<1> QED
  BY <1>2, <1>3, <1>4, <1>5, <1>6, <1>7, CfUpdateKeeps, CfNextChangeKeeps, CfChangeFailsKeeps,
     CfBystandersKeep DEF ConfigNext, CfBystander

(* The versions in a sequence of updates.                                  *)
LEMMA CfVersionsIn ==
  ASSUME NEW s \in Seq(CfVersioned)
  PROVE  Len(s) \in Nat /\ \A n \in 1 .. Len(s) : s[n].version \in Nat
<1>1. \A n \in 1 .. Len(s) : s[n] \in CfVersioned
  BY ElementOfSeq
<1>2. \A u \in CfVersioned : u.version \in Nat
  BY DEF CfVersioned
<1> QED
  BY <1>1, <1>2, LenProperties

(* Versions: the loader's grows, and what is on its way to the config is   *)
(* no newer.                                                               *)
LEMMA CfVersionsStep ==
  ASSUME CfTypes, CfTypes', CfStarted, CfVersions, ConfigNext
  PROVE  CfVersions'
<1>1. /\ cfVersion \in Nat /\ cfSnap.version \in Nat /\ cfConfig.version \in Nat
      /\ cfUser.version \in Nat /\ Len(cfChan) \in Nat
      /\ \A n \in 1 .. Len(cfChan) : cfChan[n].version \in Nat
  <2>1. cfVersion \in Nat /\ cfSnap.version \in Nat /\ cfConfig.version \in Nat
        /\ cfUser.version \in Nat /\ cfChan \in Seq(CfVersioned)
    BY DEF CfTypes, CfVersioned
  <2> QED
    BY <2>1, CfVersionsIn
<1>2. ASSUME cfVersion' = cfVersion + 1, cfSnap'.version = cfVersion + 1,
             cfChan' = cfChan, cfConfig' = cfConfig, cfUser'.version = cfUser.version
      PROVE  CfVersions'
  <2>1. cfUser'.version <= cfVersion' /\ cfConfig'.version <= cfVersion'
        /\ cfSnap'.version <= cfVersion'
    BY <1>1, <1>2 DEF CfVersions
  <2>2. \A n \in 1 .. Len(cfChan') : cfChan'[n].version <= cfVersion'
    BY <1>1, <1>2 DEF CfVersions
  <2> QED
    BY <2>1, <2>2 DEF CfVersions
<1>3. ASSUME cfVersion' = cfVersion, cfSnap' = cfSnap,
             cfChan' = cfChan, cfConfig' = cfConfig, cfUser'.version = cfUser.version
      PROVE  CfVersions'
  BY <1>3 DEF CfVersions
<1>4. ASSUME NEW i \in CfSources, CfNextChange(i) PROVE CfVersions'
  <2>1. PICK s : s = cfSets'
    OBVIOUS
  <2>2. CfCommit(s, {CfMerge(s)}, "watch") /\ CfMerge(s) \in CfMerged
    BY <1>4, <2>1, CfChange DEF CfNextChange
  <2>3. cfVersion' = cfVersion + 1 /\ cfSnap'.version = cfVersion + 1
    BY <2>2, CfCommitTypes
  <2>4. cfChan' = cfChan /\ cfConfig' = cfConfig /\ cfUser' = cfUser
    BY <1>4 DEF CfNextChange, cfWatchVars, cfUserVars
  <2> QED
    BY <1>2, <2>3, <2>4
<1>5. CASE CfReload
  <2>1. CfCommit(cfSets, cfVals, "reload")
    BY <1>5 DEF CfReload
  <2>2. cfVersion' = cfVersion + 1 /\ cfSnap'.version = cfVersion + 1
    BY <2>1, CfMergeSets, CfCommitTypes DEF CfTypes
  <2>3. cfChan' = cfChan /\ cfConfig' = cfConfig /\ cfUser'.version = cfUser.version
    BY <1>5 DEF CfReload, cfWatchVars, CfTypes
  <2> QED
    BY <1>2, <2>2, <2>3
<1>6. CASE CfSync
  <2>1. PICK read : read = [i \in CfLoaded |-> cfSource[i]]
    OBVIOUS
  <2>2. CfCommit(read, {CfMerge(read)}, "sync") /\ CfMerge(read) \in CfMerged
    BY <1>6, <2>1, CfReadSources DEF CfSync
  <2>3. cfVersion' = cfVersion + 1 /\ cfSnap'.version = cfVersion + 1
    BY <2>2, CfCommitTypes
  <2>4. cfChan' = cfChan /\ cfConfig' = cfConfig /\ cfUser'.version = cfUser.version
    BY <1>6 DEF CfSync, cfWatchVars, CfTypes
  <2> QED
    BY <1>2, <2>3, <2>4
<1>7. ASSUME NEW i \in CfSources, CfWatchSource(i) \/ (\E d \in CfData : CfUpdate(i, d))
      PROVE  CfVersions'
  BY <1>3, <1>7 DEF CfUpdate, CfWatchSource, cfLoaderVars, cfWatchVars, cfUserVars
<1>8. ASSUME NEW a \in CfActors, CfCapture(a) PROVE CfVersions'
  BY <1>3, <1>8 DEF CfCapture, cfLoaderVars, cfWatchVars, cfUserVars
<1>9. ASSUME NEW a \in CfActors, CfSend(a) PROVE CfVersions'
  <2>1. PICK u : u = [value |-> cfActor[a].value, version |-> cfSnap.version]
    OBVIOUS
  <2>2. u.version = cfSnap.version
    BY <2>1
  <2>3. cfChan' = cfChan \/ cfChan' = <<u>>
    BY <1>9, <2>1 DEF CfSend
  <2>4. /\ cfVersion' = cfVersion /\ cfSnap' = cfSnap /\ cfConfig' = cfConfig
        /\ cfUser' = cfUser
    BY <1>9 DEF CfSend, cfLoaderVars, cfUserVars
  <2>5. \A n \in 1 .. Len(<<u>>) : <<u>>[n].version <= cfVersion
    BY <2>2 DEF CfVersions
  <2>6. \A n \in 1 .. Len(cfChan') : cfChan'[n].version <= cfVersion'
    BY <2>3, <2>4, <2>5 DEF CfVersions
  <2> QED
    BY <2>4, <2>6 DEF CfVersions
<1>10. CASE CfNext
  <2>1. PICK u : u = Head(cfChan)
    OBVIOUS
  <2>2. cfChan # <<>> /\ cfChan' = <<>> /\ cfConfig' \in {cfConfig, u}
        /\ cfVersion' = cfVersion /\ cfSnap' = cfSnap /\ cfUser' = cfUser
    BY <1>10, <2>1 DEF CfNext, cfLoaderVars
  <2>3. 1 \in 1 .. Len(cfChan) /\ u = cfChan[1]
    BY <2>1, <2>2, EmptySeq, LenProperties DEF CfTypes
  <2>4. u.version <= cfVersion
    BY <2>3 DEF CfVersions
  <2>5. Len(cfChan') = 0
    BY <2>2
  <2> QED
    BY <2>2, <2>4, <2>5 DEF CfVersions
<1>11. CASE CfWatch
  BY <1>3, <1>11 DEF CfWatch, cfLoaderVars, cfWatchVars, cfUserVars
<1>16. CASE CfClose
  <2>1. /\ cfChan' = <<>> /\ Len(<<>>) = 0 /\ cfVersion' = 0 /\ cfSnap'.version = 0
        /\ cfUser'.version = 0 /\ cfConfig'.version = 0
    BY <1>16 DEF CfClose, CfFirst, CfIdle
  <2> QED
    BY <2>1 DEF CfVersions
<1>17. ASSUME NEW i \in CfSources, CfChangeFails(i) PROVE CfVersions'
  BY <1>3, <1>17 DEF CfChangeFails, cfWatchVars, cfUserVars
<1>18. CASE CfReloadFails \/ CfSyncFails
  <2>1. cfUser'.version = cfUser.version
    BY <1>18 DEF CfReloadFails, CfSyncFails, CfGiveUp, CfTypes
  <2> QED
    BY <1>3, <1>18, <2>1 DEF CfReloadFails, CfSyncFails, cfLoaderVars, cfWatchVars
<1>12. CASE CfLoad
  <2>1. cfUser'.version = cfUser.version
    BY <1>12 DEF CfLoad, CfTypes
  <2> QED
    BY <1>3, <1>12, <2>1 DEF CfLoad, cfWatchVars
<1>13. CASE CfSyncStart
  <2>1. cfUser'.version = cfUser.version
    BY <1>13 DEF CfSyncStart, CfTypes
  <2> QED
    BY <1>3, <1>13, <2>1 DEF CfSyncStart, cfLoaderVars, cfWatchVars
<1>14. CASE CfSnapshot
  <2>1. cfUser'.version = cfSnap.version
    BY <1>14 DEF CfSnapshot
  <2> QED
    BY <1>14, <2>1 DEF CfSnapshot, CfVersions, cfLoaderVars, cfWatchVars
<1>15. CASE CfSet
  <2>1. cfUser'.version = 0 /\ cfConfig'.version = cfUser.version
    BY <1>15 DEF CfSet, CfIdle
  <2> QED
    BY <1>1, <1>15, <2>1 DEF CfSet, CfVersions, cfLoaderVars, cfWatchVars
<1> QED
  BY <1>4, <1>5, <1>6, <1>7, <1>8, <1>9, <1>10, <1>11, <1>12, <1>13, <1>14, <1>15,
     <1>16, <1>17, <1>18 DEF ConfigNext

(* What the watcher got stays in order.                                    *)
LEMMA CfOrderStep ==
  ASSUME CfTypes, CfOrder, ConfigNext
  PROVE  CfOrder'
<1>1. CASE CfNext
  <2>1. PICK u : u = Head(cfChan)
    OBVIOUS
  <2>2. u \in CfVersioned
    BY <1>1, <2>1, HeadTailProperties DEF CfNext, CfTypes
  <2>3. PICK n \in Nat, v \in Nat : n = Len(cfGot) /\ v = u.version
    BY <2>2, LenProperties DEF CfTypes, CfVersioned
  <2>4. PICK w \in Nat : w = cfWatcher.version
    BY DEF CfTypes
  <2>5. /\ \A k \in 1 .. n : cfGot[k].version <= w /\ cfGot[k].version \in Nat
        /\ \A k \in 1 .. n - 1 : cfGot[k].version < cfGot[k + 1].version
    <3>1. \A k \in 1 .. n : cfGot[k].version \in Nat
      BY <2>3, CfVersionsIn DEF CfTypes
    <3> QED
      BY <2>3, <2>4, <3>1 DEF CfOrder
  <2>6. CASE v > w
    <3>1. cfWatcher'.version = v /\ cfWatcher'.on = TRUE
      BY <1>1, <2>1, <2>3, <2>4, <2>6 DEF CfNext, CfIsNewer
    <3>2. CASE cfGot' = cfGot
      BY <2>3, <2>4, <2>5, <2>6, <3>1, <3>2 DEF CfOrder
    <3>3. CASE cfGot' = Append(cfGot, u)
      <4>1. /\ Len(cfGot') = n + 1 /\ cfGot'[n + 1] = u
            /\ \A k \in 1 .. n : cfGot'[k] = cfGot[k]
        BY <2>2, <2>3, <3>3, AppendProperties DEF CfTypes
      <4>2. \A k \in 1 .. n + 1 : cfGot'[k].version <= v
        BY <2>3, <2>4, <2>5, <2>6, <4>1
      <4>3. ASSUME NEW k \in 1 .. n PROVE cfGot'[k].version < cfGot'[k + 1].version
        <5>1. CASE k = n
          BY <2>3, <2>4, <2>5, <2>6, <4>1, <5>1
        <5>2. CASE k # n
          <6>1. k \in 1 .. n - 1 /\ k + 1 \in 1 .. n
            BY <5>2, <4>3
          <6> QED
            BY <2>5, <4>1, <6>1
        <5> QED
          BY <5>1, <5>2
      <4>4. n + 1 - 1 = n
        OBVIOUS
      <4> QED
        BY <3>1, <4>1, <4>2, <4>3, <4>4 DEF CfOrder
    <3> QED
      BY <1>1, <2>1, <3>2, <3>3 DEF CfNext
  <2>7. CASE ~(v > w)
    BY <1>1, <2>1, <2>3, <2>4, <2>7 DEF CfNext, CfIsNewer, CfOrder
  <2> QED
    BY <2>6, <2>7
<1>2. CASE CfWatch \/ CfClose
  <2>1. cfGot' = <<>>
    BY <1>2 DEF CfWatch, CfClose, CfOrder
  <2>2. Len(cfGot') = 0
    BY <2>1
  <2>3. \A n \in 1 .. 0 : FALSE
    OBVIOUS
  <2>4. \A n \in 1 .. 0 - 1 : FALSE
    OBVIOUS
  <2> QED
    BY <2>1, <2>2, <2>3, <2>4 DEF CfOrder
<1>3. CASE UNCHANGED <<cfWatcher, cfGot>>
  BY <1>3 DEF CfOrder
<1>4. CfNext \/ CfWatch \/ CfClose \/ UNCHANGED <<cfWatcher, cfGot>>
  BY DEF ConfigNext, CfUpdate, CfWatchSource, CfNextChange, CfChangeFails, CfCapture, CfSend,
         CfLoad, CfReload, CfReloadFails, CfSyncFails, CfSyncStart, CfSync, CfSnapshot, CfSet, cfWatchVars
<1> QED
  BY <1>1, <1>2, <1>3, <1>4

(* The invariant gives the property.                                       *)
LEMMA CfFollows == CfInv => ConfigFollowsSources
<1> SUFFICES ASSUME CfInv PROVE ConfigFollowsSources
  OBVIOUS
<1>1. ASSUME CfQuiet, NEW i \in CfLoaded \ cfMissed PROVE cfSets[i] = cfSource[i]
  <2>1. i \in CfSources /\ cfQueue[i] = <<>> /\ CfLast(i) = cfSource[i]
    BY <1>1 DEF CfInv, CfStarted, CfFollow, CfLoaded, CfQuiet
  <2> QED
    BY <2>1 DEF CfLast
<1>2. ASSUME CfQuiet, cfMissed = {}, CfLoaded # {}, CfDecodes([i \in CfLoaded |-> cfSource[i]])
      PROVE  cfSnap.value = CfMerge([i \in CfLoaded |-> cfSource[i]])
  BY <1>2 DEF CfInv, CfSnapped, CfLoaded, CfQuiet
<1>5. cfBy \in {"watch", "sync"} => cfVals = {cfSnap.value}
  BY DEF CfInv, CfWriters
<1>3. \A n \in 1 .. (Len(cfGot) - 1) : cfGot[n].version < cfGot[n + 1].version
  BY DEF CfInv, CfOrder
<1>4. cfConfig.version <= cfVersion
  BY DEF CfInv, CfVersions
<1> QED
  BY <1>1, <1>2, <1>3, <1>4, <1>5 DEF ConfigFollowsSources

(* ConfigFollowsSources always holds.                                      *)
THEOREM ConfigFollows == ConfigInit /\ [][ConfigNext]_cfVars => []ConfigFollowsSources
<1>1. CfInv /\ [ConfigNext]_cfVars => CfInv'
  <2> SUFFICES ASSUME CfInv, [ConfigNext]_cfVars PROVE CfInv'
    OBVIOUS
  <2>1. CASE ConfigNext
    <3>1. CfTypes'
      BY <2>1, CfTypesStep DEF CfInv
    <3>2. CfLoader'
      BY <2>1, <3>1, CfLoaderStep DEF CfInv, CfLoader
    <3>3. CfVersions' /\ CfOrder'
      BY <2>1, <3>1, CfVersionsStep, CfOrderStep DEF CfInv
    <3> QED
      BY <3>1, <3>2, <3>3 DEF CfInv, CfLoader
  <2>2. CASE UNCHANGED cfVars
    <3>1. CfTypes' /\ CfStarted' /\ CfFollow'
      BY <2>2 DEF CfInv, CfTypes, CfStarted, CfFollow, CfLast, cfVars
    <3>2. CfSnapped' /\ CfWriters'
      BY <2>2 DEF CfInv, CfSnapped, CfWriters, cfVars
    <3>3. CfVersions' /\ CfOrder'
      BY <2>2 DEF CfInv, CfVersions, CfOrder, cfVars
    <3> QED
      BY <3>1, <3>2, <3>3 DEF CfInv
  <2> QED
    BY <2>1, <2>2
<1> QED
  BY <1>1, CfInitially, CfFollows, PTL

-----------------------------------------------------------------------------
(* What a handler knows of its request.                                    *)
ApRecords ==
  [kind : ApKinds, json : BOOLEAN,
   pc : {"new", "arrived", "routed", "reading", "read", "calling", "called", "upgrade", "open",
         "first", "serving", "over"},
   buf : SUBSET ApBuffers, copy : SUBSET ApRequests, alias : SUBSET ApBuffers,
   sent : SUBSET ApRequests, answers : Nat, conn : BOOLEAN,
   stream : {"none", "open", "broken", "closed"}, writer : {"none", "on", "off"},
   peer : {"there", "closed", "lost"}, cancelled : BOOLEAN]

(* The types of the variables.                                             *)
ApTypes ==
  /\ apReq \in [ApRequests -> ApRecords]
  /\ apFree \in SUBSET ApBuffers
  /\ apBuf \in [ApBuffers -> SUBSET ApRequests]

(* A buffer is in the pool or has one user.                                *)
ApPool ==
  /\ \A r \in ApRequests : apReq[r].buf \cap apFree = {}
  /\ \A r, s \in ApRequests : r # s => apReq[r].buf \cap apReq[s].buf = {}

(* The bodies that are copied from the buffer.                             *)
ApCopied(q) == q.json = TRUE \/ q.kind \in {"event", "api"}

(* Whose body a request holds or has sent.                                 *)
ApBodies(r, q, buf) ==
  /\ q.pc = "read" => \A b \in q.buf : buf[b] \subseteq {r}
  /\ q.copy \subseteq {r}
  /\ q.pc = "new" => q.alias = {} /\ q.sent = {}
  /\ ApCopied(q) => q.alias = {} /\ q.sent \subseteq {r}

(* Where a handler is, and what it has answered, opened and closed.        *)
ApPhases(q) ==
  /\ q.buf # {} => q.pc \in {"reading", "read"}
  /\ q.pc \in {"open", "first", "serving"} => q.answers = 1 /\ q.conn = TRUE
  /\ q.pc \notin {"open", "first", "serving", "over"} => q.answers = 0
  /\ q.pc \notin {"open", "first", "serving"} => q.conn = FALSE
  /\ q.pc = "over" => q.answers = 1 \/ (q.answers = 0 /\ q.kind = "stream")
  /\ q.pc = "upgrade" => q.kind = "stream"
  /\ q.stream # "none" \/ q.writer # "none" => q.answers = 1
  /\ q.writer # "none" => q.pc \in {"serving", "over"}
  /\ q.writer = "off" => q.stream = "closed"

(* The inductive invariant.                                                *)
ApInv ==
  /\ ApTypes /\ ApPool
  /\ \A r \in ApRequests : ApBodies(r, apReq[r], apBuf) /\ ApPhases(apReq[r])

(* No request has come yet.                                                *)
LEMMA ApInitially == ApiHandlersInit => ApInv
<1> SUFFICES ASSUME ApiHandlersInit PROVE ApInv
  OBVIOUS
<1> DEFINE q == [kind |-> "rpc", json |-> TRUE, pc |-> "new", buf |-> {}, copy |-> {},
                 alias |-> {}, sent |-> {}, answers |-> 0, conn |-> FALSE, stream |-> "none",
                 writer |-> "none", peer |-> "there", cancelled |-> FALSE]
<1>1. /\ apReq = [r \in ApRequests |-> q] /\ apFree = ApBuffers
      /\ apBuf = [b \in ApBuffers |-> {}]
  BY DEF ApiHandlersInit
<1>2. q \in ApRecords /\ ApPhases(q) /\ q.buf = {} /\ \A r \in ApRequests : ApBodies(r, q, apBuf)
  BY DEF ApRecords, ApPhases, ApBodies, ApKinds
<1> HIDE DEF q
<1>3. ApTypes /\ ApPool
  BY <1>1, <1>2 DEF ApTypes, ApPool
<1> QED
  BY <1>1, <1>2, <1>3 DEF ApInv

(* A step of one handler that moves buffers between itself and the pool    *)
(* only, and reads into its own, keeps the invariant when it keeps what    *)
(* the invariant says of that request.                                     *)
LEMMA ApPoolStep ==
  ASSUME ApInv, NEW r \in ApRequests, NEW f \in ApRecords, ApSet(r, f),
         apFree' \subseteq apFree \cup apReq[r].buf, f.buf \subseteq apFree \cup apReq[r].buf,
         f.buf \cap apFree' = {},
         apBuf' \in [ApBuffers -> SUBSET ApRequests],
         \A b \in ApBuffers \ apReq[r].buf : apBuf'[b] = apBuf[b],
         ApBodies(r, f, apBuf'), ApPhases(f)
  PROVE  ApInv'
<1>1. /\ apReq \in [ApRequests -> ApRecords] /\ apReq' = [apReq EXCEPT ![r] = f]
  BY DEF ApInv, ApTypes, ApSet
<1>2. /\ apReq' \in [ApRequests -> ApRecords] /\ apReq'[r] = f
      /\ \A s \in ApRequests \ {r} : apReq'[s] = apReq[s]
  BY <1>1
<1>3. \A s \in ApRequests : apReq[s].buf \subseteq ApBuffers
  BY <1>1 DEF ApRecords
<1>4. ApTypes'
  BY <1>2, <1>3 DEF ApInv, ApTypes
<1>5. ApPool'
  <2>1. ASSUME NEW s \in ApRequests PROVE apReq'[s].buf \cap apFree' = {}
    <3>1. CASE s = r
      BY <1>2, <3>1
    <3>2. CASE s # r
      BY <1>2, <3>2 DEF ApInv, ApPool
    <3> QED
      BY <3>1, <3>2
  <2>2. ASSUME NEW s \in ApRequests, NEW q \in ApRequests, s # q
        PROVE  apReq'[s].buf \cap apReq'[q].buf = {}
    <3>1. ASSUME NEW x \in ApRequests \ {r} PROVE f.buf \cap apReq[x].buf = {}
      BY DEF ApInv, ApPool
    <3>2. CASE s = r
      BY <1>2, <2>2, <3>1, <3>2
    <3>3. CASE q = r
      BY <1>2, <2>2, <3>1, <3>3
    <3>4. CASE s # r /\ q # r
      BY <1>2, <2>2, <3>4 DEF ApInv, ApPool
    <3> QED
      BY <3>2, <3>3, <3>4
  <2> QED
    BY <2>1, <2>2 DEF ApPool
<1>6. ASSUME NEW s \in ApRequests PROVE ApBodies(s, apReq[s], apBuf)' /\ ApPhases(apReq[s])'
  <2>1. CASE s = r
    BY <1>2, <2>1 DEF ApBodies
  <2>2. CASE s # r
    <3>1. \A b \in apReq[s].buf : apBuf'[b] = apBuf[b]
      BY <1>3, <2>2 DEF ApInv, ApPool
    <3> QED
      BY <1>2, <2>2, <3>1 DEF ApInv, ApBodies
  <2> QED
    BY <2>1, <2>2
<1> QED
  BY <1>4, <1>5, <1>6 DEF ApInv

(* So does one that touches no buffer.                                     *)
LEMMA ApOneRequest ==
  ASSUME ApInv, NEW r \in ApRequests, NEW f \in ApRecords,
         ApSet(r, f), UNCHANGED <<apFree, apBuf>>,
         f.buf = apReq[r].buf, ApBodies(r, f, apBuf), ApPhases(f)
  PROVE  ApInv'
<1>1. ApBodies(r, f, apBuf')
  BY DEF ApBodies
<1>2. f.buf \cap apFree' = {} /\ apBuf' \in [ApBuffers -> SUBSET ApRequests]
  BY DEF ApInv, ApPool, ApTypes
<1> QED
  BY <1>1, <1>2, ApPoolStep

(* A request and what the invariant says of it.                            *)
LEMMA ApRequest ==
  ASSUME ApInv, NEW r \in ApRequests
  PROVE  apReq[r] \in ApRecords /\ ApBodies(r, apReq[r], apBuf) /\ ApPhases(apReq[r])
  BY DEF ApInv, ApTypes

(* A request comes and is routed or refused.                               *)
LEMMA ApArriveStep ==
  ASSUME ApInv, NEW r \in ApRequests, ApArrive(r) PROVE ApInv'
<1>1. PICK kind \in ApKinds, json \in BOOLEAN :
        ApSet(r, [apReq[r] EXCEPT !.pc = "arrived", !.kind = kind, !.json = json])
  BY DEF ApArrive
<1> DEFINE q == apReq[r]
           f == [q EXCEPT !.pc = "arrived", !.kind = kind, !.json = json]
<1>2. q \in ApRecords /\ ApBodies(r, q, apBuf) /\ ApPhases(q) /\ q.pc = "new"
  BY ApRequest DEF ApArrive
<1> HIDE DEF q
<1>3. f \in ApRecords /\ f.buf = q.buf
  BY <1>2 DEF ApRecords
<1>4. ApBodies(r, f, apBuf) /\ ApPhases(f)
  BY <1>2 DEF ApBodies, ApPhases, ApCopied, ApRecords
<1> QED
  BY <1>1, <1>3, <1>4, ApOneRequest DEF q, ApArrive

(* Router.Route finds a service or none.                                   *)
LEMMA ApRouteStep ==
  ASSUME ApInv, NEW r \in ApRequests, ApRoute(r) PROVE ApInv'
<1> DEFINE q == apReq[r]
           f == [q EXCEPT !.pc = "over", !.answers = 1]
           g == [q EXCEPT !.pc = "routed"]
           h == [q EXCEPT !.pc = "called"]
<1>1. q \in ApRecords /\ ApBodies(r, q, apBuf) /\ ApPhases(q) /\ q.pc = "arrived"
  BY ApRequest DEF ApRoute
<1>2. ApSet(r, f) \/ ApSet(r, g) \/ ApSet(r, h)
  <2>1. q.answers + 1 = 1
    BY <1>1 DEF ApPhases
  <2> QED
    BY <2>1 DEF ApRoute, ApRefuse
<1>3. UNCHANGED <<apFree, apBuf>>
  BY DEF ApRoute
<1> HIDE DEF q
<1>4. f \in ApRecords /\ f.buf = q.buf /\ ApBodies(r, f, apBuf) /\ ApPhases(f)
  <2>1. f \in ApRecords /\ f.buf = q.buf
    BY <1>1 DEF ApRecords
  <2>2. ApBodies(r, f, apBuf)
    BY <1>1 DEF ApBodies, ApCopied, ApRecords
  <2>3. ApPhases(f)
    BY <1>1 DEF ApPhases, ApRecords
  <2> QED
    BY <2>1, <2>2, <2>3
<1>5. g \in ApRecords /\ g.buf = q.buf /\ ApBodies(r, g, apBuf) /\ ApPhases(g)
  BY <1>1 DEF ApBodies, ApPhases, ApCopied, ApRecords
<1>6. h \in ApRecords /\ h.buf = q.buf /\ ApBodies(r, h, apBuf) /\ ApPhases(h)
  BY <1>1 DEF ApBodies, ApPhases, ApCopied, ApRecords
<1> HIDE DEF f, g, h
<1> QED
  BY <1>2, <1>3, <1>4, <1>5, <1>6, ApOneRequest DEF q

(* A buffer of the pool becomes that of the request,                       *)
LEMMA ApGetBufferStep ==
  ASSUME ApInv, NEW r \in ApRequests, ApGetBuffer(r) PROVE ApInv'
<1>1. PICK b \in apFree : /\ apFree' = apFree \ {b}
                          /\ ApSet(r, [apReq[r] EXCEPT !.pc = "reading", !.buf = {b}])
  BY DEF ApGetBuffer
<1> DEFINE q == apReq[r]
           f == [q EXCEPT !.pc = "reading", !.buf = {b}]
<1>2. /\ q \in ApRecords /\ ApBodies(r, q, apBuf) /\ ApPhases(q) /\ q.pc = "routed"
      /\ b \in ApBuffers /\ apBuf' = apBuf /\ apBuf \in [ApBuffers -> SUBSET ApRequests]
  BY ApRequest DEF ApGetBuffer, ApInv, ApTypes
<1> HIDE DEF q
<1>3. f \in ApRecords /\ f.buf = {b}
  BY <1>2 DEF ApRecords
<1>4. ApBodies(r, f, apBuf')
  BY <1>2 DEF ApBodies, ApCopied, ApRecords
<1>5. ApPhases(f)
  BY <1>2 DEF ApPhases, ApRecords
<1> HIDE DEF f
<1> QED
  BY <1>1, <1>2, <1>3, <1>4, <1>5, ApPoolStep DEF q, f

(* takes the body,                                                         *)
LEMMA ApReadStep ==
  ASSUME ApInv, NEW r \in ApRequests, ApRead(r) PROVE ApInv'
<1> DEFINE q == apReq[r]
           f == [q EXCEPT !.pc = "read"]
<1>1. /\ q \in ApRecords /\ ApBodies(r, q, apBuf) /\ ApPhases(q) /\ q.pc = "reading"
      /\ ApSet(r, f) /\ apFree' = apFree /\ q.buf \cap apFree = {}
      /\ apBuf' = [b \in ApBuffers |-> IF b \in q.buf THEN {r} ELSE apBuf[b]]
      /\ apBuf \in [ApBuffers -> SUBSET ApRequests]
  BY ApRequest DEF ApRead, ApInv, ApTypes, ApPool
<1> HIDE DEF q
<1>2. f \in ApRecords /\ f.buf = q.buf /\ q.buf \subseteq ApBuffers
  BY <1>1 DEF ApRecords
<1>3. /\ apBuf' \in [ApBuffers -> SUBSET ApRequests]
      /\ \A b \in ApBuffers \ q.buf : apBuf'[b] = apBuf[b]
      /\ \A b \in q.buf : apBuf'[b] \subseteq {r}
  BY <1>1, <1>2
<1>4. ApBodies(r, f, apBuf')
  BY <1>1, <1>2, <1>3 DEF ApBodies, ApCopied, ApRecords
<1>5. ApPhases(f)
  BY <1>1 DEF ApPhases, ApRecords
<1> HIDE DEF f
<1> QED
  BY <1>1, <1>2, <1>3, <1>4, <1>5, ApPoolStep DEF q

(* and goes back, without it                                               *)
LEMMA ApReadFailsStep ==
  ASSUME ApInv, NEW r \in ApRequests, ApReadFails(r) PROVE ApInv'
<1> DEFINE q == apReq[r]
           f == [q EXCEPT !.pc = "over", !.buf = {}, !.answers = IF q.kind = "stream" THEN 0 ELSE 1]
<1>1. /\ q \in ApRecords /\ ApBodies(r, q, apBuf) /\ ApPhases(q) /\ q.pc = "reading"
      /\ apFree' = apFree \cup q.buf
      /\ apBuf' = apBuf /\ apBuf \in [ApBuffers -> SUBSET ApRequests]
  BY ApRequest DEF ApReadFails, ApInv, ApTypes
<1>2. ApSet(r, f)
  <2>1. q.answers = 0 /\ q.answers + 1 = 1
    BY <1>1 DEF ApPhases
  <2>2. apReq' = [apReq EXCEPT ![r] = [q EXCEPT !.pc = "over", !.buf = {},
                    !.answers = IF q.kind = "stream" THEN q.answers ELSE q.answers + 1]]
    BY DEF ApReadFails
  <2> QED
    BY <2>1, <2>2 DEF ApSet
<1> HIDE DEF q
<1>3. f \in ApRecords /\ f.buf = {}
  BY <1>1 DEF ApRecords
<1>4. ApBodies(r, f, apBuf')
  BY <1>1 DEF ApBodies, ApCopied, ApRecords
<1>5. ApPhases(f)
  BY <1>1 DEF ApPhases, ApRecords
<1> HIDE DEF f
<1> QED
  BY <1>1, <1>2, <1>3, <1>4, <1>5, ApPoolStep DEF q

(* or with a copy of it, or with a reference to the buffer left behind.    *)
LEMMA ApPutBufferStep ==
  ASSUME ApInv, NEW r \in ApRequests, ApPutBuffer(r) PROVE ApInv'
<1> DEFINE q == apReq[r]
           body == UNION {apBuf[x] : x \in q.buf}
<1>1. /\ q \in ApRecords /\ ApBodies(r, q, apBuf) /\ ApPhases(q) /\ q.pc = "read"
      /\ apFree' = apFree \cup q.buf
      /\ apBuf' = apBuf /\ apBuf \in [ApBuffers -> SUBSET ApRequests]
  BY ApRequest DEF ApPutBuffer, ApInv, ApTypes
<1>2. PICK pc \in {"upgrade", "calling"}, copy \in {{}, body}, alias \in {{}, q.buf} :
        /\ ApSet(r, [q EXCEPT !.pc = pc, !.buf = {}, !.copy = copy, !.alias = alias])
        /\ ApCopied(q) => alias = {}
        /\ pc = "upgrade" => q.kind = "stream"
  <2>1. ApKeeps(r) => ~ApCopied(q)
    BY DEF ApKeeps, ApCopied
  <2>2. ApSet(r, [q EXCEPT !.pc = IF q.kind = "stream" THEN "upgrade" ELSE "calling",
                           !.buf = {}, !.copy = IF ApKeeps(r) THEN {} ELSE body,
                           !.alias = IF ApKeeps(r) THEN q.buf ELSE {}])
    BY DEF ApPutBuffer
  <2> QED
    BY <2>1, <2>2
<1>3. body \subseteq {r}
  BY <1>1 DEF ApBodies
<1> DEFINE f == [q EXCEPT !.pc = pc, !.buf = {}, !.copy = copy, !.alias = alias]
<1> HIDE DEF q, body
<1>4. f \in ApRecords /\ f.buf = {}
  BY <1>1, <1>2, <1>3 DEF ApRecords
<1>5. ApBodies(r, f, apBuf')
  BY <1>1, <1>2, <1>3 DEF ApBodies, ApCopied, ApRecords
<1>6. ApPhases(f)
  BY <1>1, <1>2 DEF ApPhases, ApRecords
<1> HIDE DEF f
<1> QED
  BY <1>1, <1>2, <1>4, <1>5, <1>6, ApPoolStep DEF q, f

(* What a request sends is its own body, if the body was copied.           *)
LEMMA ApPayloadOwn ==
  ASSUME ApInv, NEW r \in ApRequests
  PROVE  /\ ApPayload(r) \in SUBSET ApRequests
         /\ ApCopied(apReq[r]) => ApPayload(r) \subseteq {r}
<1>1. /\ apReq[r] \in ApRecords /\ ApBodies(r, apReq[r], apBuf)
      /\ apBuf \in [ApBuffers -> SUBSET ApRequests]
  BY ApRequest DEF ApInv, ApTypes
<1>2. apReq[r].copy \subseteq ApRequests /\ apReq[r].alias \subseteq ApBuffers
  BY <1>1 DEF ApRecords
<1> QED
  BY <1>1, <1>2 DEF ApPayload, ApBodies

(* The call and its answer.                                                *)
LEMMA ApCallStep ==
  ASSUME ApInv, NEW r \in ApRequests, ApCall(r) \/ ApReply(r) PROVE ApInv'
<1>1. PICK sent \in SUBSET ApRequests : sent = ApPayload(r) /\ (ApCopied(apReq[r]) => sent \subseteq {r})
  BY ApPayloadOwn
<1> DEFINE q == apReq[r]
           f == [q EXCEPT !.pc = "called", !.sent = sent]
           g == [q EXCEPT !.pc = "over", !.answers = 1]
<1>2. /\ q \in ApRecords /\ ApBodies(r, q, apBuf) /\ ApPhases(q) /\ q.pc \in {"calling", "called"}
      /\ UNCHANGED <<apFree, apBuf>>
  BY ApRequest DEF ApCall, ApReply
<1>3. ApSet(r, f) \/ ApSet(r, g)
  <2>1. q.answers + 1 = 1
    BY <1>2 DEF ApPhases
  <2> QED
    BY <1>1, <2>1 DEF ApCall, ApReply
<1>4. ApCopied(q) => sent \subseteq {r}
  BY <1>1
<1> HIDE DEF q
<1>5. f \in ApRecords /\ f.buf = q.buf
  BY <1>2 DEF ApRecords
<1>6. ApBodies(r, f, apBuf) /\ ApPhases(f)
  BY <1>2, <1>4 DEF ApBodies, ApPhases, ApCopied, ApRecords
<1>7. g \in ApRecords /\ g.buf = q.buf
  BY <1>2 DEF ApRecords
<1>8. ApBodies(r, g, apBuf)
  BY <1>2 DEF ApBodies, ApCopied, ApRecords
<1>9. ApPhases(g)
  BY <1>2 DEF ApPhases, ApRecords
<1> HIDE DEF f, g
<1> QED
  BY <1>2, <1>3, <1>5, <1>6, <1>7, <1>8, <1>9, ApOneRequest DEF q

(* serveWebsocket: the upgrade,                                            *)
LEMMA ApUpgradeStep ==
  ASSUME ApInv, NEW r \in ApRequests, ApUpgrade(r) PROVE ApInv'
<1> DEFINE q == apReq[r]
           f == [q EXCEPT !.pc = "open", !.conn = TRUE, !.answers = 1]
           g == [q EXCEPT !.pc = "over"]
<1>1. /\ q \in ApRecords /\ ApBodies(r, q, apBuf) /\ ApPhases(q) /\ q.pc = "upgrade"
      /\ UNCHANGED <<apFree, apBuf>>
  BY ApRequest DEF ApUpgrade
<1>2. ApSet(r, f) \/ (ApSet(r, g) /\ q.peer # "there")
  <2>1. q.answers + 1 = 1
    BY <1>1 DEF ApPhases
  <2> QED
    BY <2>1 DEF ApUpgrade
<1> HIDE DEF q
<1>3. f \in ApRecords /\ f.buf = q.buf
  BY <1>1 DEF ApRecords
<1>4. ApBodies(r, f, apBuf) /\ ApPhases(f)
  BY <1>1 DEF ApBodies, ApPhases, ApCopied, ApRecords
<1>5. g \in ApRecords /\ g.buf = q.buf
  BY <1>1 DEF ApRecords
<1>6. ApBodies(r, g, apBuf)
  BY <1>1 DEF ApBodies, ApCopied, ApRecords
<1>7. q.peer # "there" => ApPhases(g)
  BY <1>1 DEF ApPhases, ApRecords
<1> HIDE DEF f, g
<1> QED
  BY <1>1, <1>2, <1>3, <1>4, <1>5, <1>6, <1>7, ApOneRequest DEF q

(* the end of a session, early or not,                                     *)
LEMMA ApSessionEnds ==
  ASSUME ApInv, NEW r \in ApRequests, apReq[r].pc \in {"open", "first", "serving"},
         ApSet(r, [apReq[r] EXCEPT !.pc = "over", !.conn = FALSE, !.cancelled = TRUE]),
         UNCHANGED <<apFree, apBuf>>
  PROVE  ApInv'
<1> DEFINE q == apReq[r]
           f == [q EXCEPT !.pc = "over", !.conn = FALSE, !.cancelled = TRUE]
<1>1. q \in ApRecords /\ ApBodies(r, q, apBuf) /\ ApPhases(q) /\ q.pc \in {"open", "first", "serving"}
  BY ApRequest
<1> HIDE DEF q
<1>2. f \in ApRecords /\ f.buf = q.buf
  BY <1>1 DEF ApRecords
<1>3. ApBodies(r, f, apBuf)
  BY <1>1 DEF ApBodies, ApCopied, ApRecords
<1>4. ApPhases(f)
  BY <1>1 DEF ApPhases, ApRecords
<1> HIDE DEF f
<1> QED
  BY <1>2, <1>3, <1>4, ApOneRequest DEF q, f

(* the stream and the first message,                                       *)
LEMMA ApSessionStep ==
  ASSUME ApInv, NEW r \in ApRequests, ApOpenStream(r) \/ ApFirstMessage(r) \/ ApServed(r)
  PROVE  ApInv'
<1>1. PICK sent \in SUBSET ApRequests : sent = ApPayload(r) /\ (ApCopied(apReq[r]) => sent \subseteq {r})
  BY ApPayloadOwn
<1> DEFINE q == apReq[r]
           f == [q EXCEPT !.pc = "first", !.stream = "open"]
           g == [q EXCEPT !.pc = "serving", !.writer = "on", !.sent = sent]
<1>2. /\ q \in ApRecords /\ ApBodies(r, q, apBuf) /\ ApPhases(q)
      /\ UNCHANGED <<apFree, apBuf>>
      /\ ApCopied(q) => sent \subseteq {r}
  BY <1>1, ApRequest DEF ApOpenStream, ApFirstMessage, ApServed
<1>3. \/ /\ q.pc \in {"open", "first", "serving"}
         /\ ApSet(r, [q EXCEPT !.pc = "over", !.conn = FALSE, !.cancelled = TRUE])
      \/ q.pc = "open" /\ ApSet(r, f)
      \/ q.pc = "first" /\ ApSet(r, g)
  BY <1>1 DEF ApOpenStream, ApFirstMessage, ApServed
<1>4. CASE /\ q.pc \in {"open", "first", "serving"}
           /\ ApSet(r, [q EXCEPT !.pc = "over", !.conn = FALSE, !.cancelled = TRUE])
  BY <1>2, <1>4, ApSessionEnds
<1> HIDE DEF q
<1>5. CASE q.pc = "open" /\ ApSet(r, f)
  <2>1. f \in ApRecords /\ f.buf = q.buf
    BY <1>2 DEF ApRecords
  <2>2. ApBodies(r, f, apBuf)
    BY <1>2, <1>5 DEF ApBodies, ApCopied, ApRecords
  <2>3. ApPhases(f)
    BY <1>2, <1>5 DEF ApPhases, ApRecords
  <2> HIDE DEF f
  <2> QED
    BY <1>2, <1>5, <2>1, <2>2, <2>3, ApOneRequest DEF q
<1>6. CASE q.pc = "first" /\ ApSet(r, g)
  <2>1. g \in ApRecords /\ g.buf = q.buf
    BY <1>2 DEF ApRecords
  <2>2. ApBodies(r, g, apBuf)
    BY <1>2, <1>6 DEF ApBodies, ApCopied, ApRecords
  <2>3. ApPhases(g)
    BY <1>2, <1>6 DEF ApPhases, ApRecords
  <2> HIDE DEF g
  <2> QED
    BY <1>2, <1>6, <2>1, <2>2, <2>3, ApOneRequest DEF q
<1> QED
  BY <1>3, <1>4, <1>5, <1>6

(* the end of writeLoop, and what the peer and the backend do.             *)
LEMMA ApAroundStep ==
  ASSUME ApInv, NEW r \in ApRequests, ApWriterEnds(r) \/ ApLeaves(r) \/ ApBreaks(r)
  PROVE  ApInv'
<1> DEFINE q == apReq[r]
           f == [q EXCEPT !.writer = "off", !.stream = "closed"]
           g == [q EXCEPT !.stream = "broken"]
<1>1. /\ q \in ApRecords /\ ApBodies(r, q, apBuf) /\ ApPhases(q)
      /\ UNCHANGED <<apFree, apBuf>>
  BY ApRequest DEF ApWriterEnds, ApLeaves, ApBreaks
<1>2. PICK how \in {"closed", "lost"} :
        \/ q.writer = "on" /\ ApSet(r, f)
        \/ q.peer = "there" /\ ApSet(r, [q EXCEPT !.peer = how])
        \/ q.stream = "open" /\ ApSet(r, g)
  BY DEF ApWriterEnds, ApLeaves, ApBreaks
<1> DEFINE h == [q EXCEPT !.peer = how]
<1> HIDE DEF q
<1>3. CASE q.writer = "on" /\ ApSet(r, f)
  <2>1. f \in ApRecords /\ f.buf = q.buf
    BY <1>1 DEF ApRecords
  <2>2. ApBodies(r, f, apBuf)
    BY <1>1 DEF ApBodies, ApCopied, ApRecords
  <2>3. ApPhases(f)
    BY <1>1, <1>3 DEF ApPhases, ApRecords
  <2> HIDE DEF f
  <2> QED
    BY <1>1, <1>3, <2>1, <2>2, <2>3, ApOneRequest DEF q
<1>4. CASE q.peer = "there" /\ ApSet(r, h)
  <2>1. h \in ApRecords /\ h.buf = q.buf
    BY <1>1, <1>2 DEF ApRecords
  <2>2. ApBodies(r, h, apBuf)
    BY <1>1 DEF ApBodies, ApCopied, ApRecords
  <2>3. ApPhases(h)
    BY <1>1, <1>2 DEF ApPhases, ApRecords
  <2> HIDE DEF h
  <2> QED
    BY <1>1, <1>4, <2>1, <2>2, <2>3, ApOneRequest DEF q
<1>5. CASE q.stream = "open" /\ ApSet(r, g)
  <2>1. g \in ApRecords /\ g.buf = q.buf
    BY <1>1 DEF ApRecords
  <2>2. ApBodies(r, g, apBuf)
    BY <1>1 DEF ApBodies, ApCopied, ApRecords
  <2>3. ApPhases(g)
    BY <1>1, <1>5 DEF ApPhases, ApRecords
  <2> HIDE DEF g
  <2> QED
    BY <1>1, <1>5, <2>1, <2>2, <2>3, ApOneRequest DEF q
<1> QED
  BY <1>2, <1>3, <1>4, <1>5

(* Every step of a handler keeps the invariant.                            *)
LEMMA ApStep ==
  ASSUME ApInv, [ApiHandlersNext]_apVars PROVE ApInv'
<1>1. CASE UNCHANGED apVars
  BY <1>1 DEF apVars, ApInv, ApTypes, ApPool
<1>2. ASSUME NEW r \in ApRequests,
             \/ ApArrive(r) \/ ApRoute(r) \/ ApGetBuffer(r) \/ ApRead(r) \/ ApReadFails(r)
             \/ ApPutBuffer(r) \/ ApCall(r) \/ ApReply(r)
             \/ ApUpgrade(r) \/ ApOpenStream(r) \/ ApFirstMessage(r)
             \/ ApWriterEnds(r) \/ ApServed(r) \/ ApLeaves(r) \/ ApBreaks(r)
      PROVE  ApInv'
  BY <1>2, ApArriveStep, ApRouteStep, ApGetBufferStep, ApReadStep, ApReadFailsStep,
     ApPutBufferStep, ApCallStep, ApUpgradeStep, ApSessionStep, ApAroundStep
<1> QED
  BY <1>1, <1>2 DEF ApiHandlersNext

(* The handlers of the gateway keep requests apart: for any number of      *)
(* requests and buffers, a call carries the body of its own request        *)
(* whenever the body was copied out of the pooled buffer, whatever other   *)
(* handlers read into it since; and a request that is over was answered at *)
(* most once, gave its buffer back and closed its connection, and its      *)
(* stream once writeLoop has ended.                                        *)
THEOREM ApiRequestsApart ==
  ApiHandlersInit /\ [][ApiHandlersNext]_apVars => []RequestsApart
<1>1. ApInv => RequestsApart
  <2> SUFFICES ASSUME ApInv, NEW r \in ApRequests
               PROVE  /\ apReq[r].json \/ apReq[r].kind \in {"event", "api"} =>
                           apReq[r].sent \subseteq {r}
                      /\ LET q == apReq[r]
                         IN  /\ q.answers <= 1
                             /\ q.pc = "over" =>
                                  q.answers = 1 \/ (q.kind = "stream" /\ q.stream = "none")
                             /\ q.pc = "over" => ~q.conn /\ q.buf = {}
                             /\ q.pc = "over" /\ q.writer = "off" => q.stream = "closed"
    BY DEF RequestsApart, OwnBody, OverIsOver
  <2>1. apReq[r] \in ApRecords /\ ApBodies(r, apReq[r], apBuf) /\ ApPhases(apReq[r])
    BY ApRequest
  <2>2. apReq[r].json \/ apReq[r].kind \in {"event", "api"} => ApCopied(apReq[r])
    <3>1. apReq[r].json \in BOOLEAN
      BY <2>1 DEF ApRecords
    <3> QED
      BY <3>1 DEF ApCopied
  <2>3. ApCopied(apReq[r]) => apReq[r].sent \subseteq {r}
    BY <2>1 DEF ApBodies
  <2>4. apReq[r].answers \in {0, 1}
    BY <2>1 DEF ApPhases
  <2> QED
    BY <2>1, <2>2, <2>3, <2>4 DEF ApPhases
<1> QED
  BY <1>1, ApInitially, ApStep, PTL

-----------------------------------------------------------------------------
(* The objects of one list: those in the list f and those that the calls   *)
(* hold (0 for none) are different from each other, and were made.         *)
RrApart(f, made, held) ==
  /\ made \in Nat /\ f \in Seq(Nat) /\ held \in [RrCalls -> Nat]
  /\ \A i \in 1 .. Len(f) : f[i] \in 1 .. made
  /\ \A c \in RrCalls : held[c] <= made
  /\ \A i, j \in 1 .. Len(f) : f[i] = f[j] => i = j
  /\ \A c \in RrCalls : held[c] # 0 => \A i \in 1 .. Len(f) : f[i] # held[c]
  /\ \A c, d \in RrCalls : held[c] # 0 /\ held[c] = held[d] => c = d

(* Taking an object, and losing it or holding it.                          *)
LEMMA RrTakeApart ==
  ASSUME NEW f, NEW made, NEW held, RrApart(f, made, held), NEW c \in RrCalls, held[c] = 0,
         NEW o, o = IF f = <<>> THEN made + 1 ELSE Head(f),
         NEW g, g = IF f = <<>> THEN f ELSE Tail(f),
         NEW n, n = IF f = <<>> THEN made + 1 ELSE made
  PROVE  /\ RrApart(g, n, held) /\ RrApart(g, n, [held EXCEPT ![c] = o])
         /\ o \in 1 .. n /\ \A d \in RrCalls : held[d] # o
<1>1. CASE f = <<>>
  <2>1. /\ made \in Nat /\ held \in [RrCalls -> Nat] /\ g = <<>> /\ n = made + 1 /\ o = n
        /\ n \in Nat /\ g \in Seq(Nat) /\ Len(g) = 0
    BY <1>1 DEF RrApart
  <2>2. \A d \in RrCalls : held[d] \in Nat /\ held[d] <= made
    BY DEF RrApart
  <2>3. RrApart(g, n, held)
    BY <2>1, <2>2 DEF RrApart
  <2>4. PICK h : h = [held EXCEPT ![c] = o]
    OBVIOUS
  <2>5. h \in [RrCalls -> Nat] /\ h[c] = n /\ \A d \in RrCalls : d # c => h[d] = held[d]
    BY <2>1, <2>4
  <2>6. \A d \in RrCalls : h[d] <= n
    BY <2>1, <2>2, <2>5
  <2>7. \A d, e \in RrCalls : h[d] # 0 /\ h[d] = h[e] => d = e
    BY <2>1, <2>2, <2>5 DEF RrApart
  <2>8. RrApart(g, n, h)
    BY <2>1, <2>5, <2>6, <2>7 DEF RrApart
  <2>9. o \in 1 .. n /\ \A d \in RrCalls : held[d] # o
    BY <2>1, <2>2
  <2> QED
    BY <2>3, <2>4, <2>8, <2>9
<1>2. CASE f # <<>>
  <2>1. /\ made \in Nat /\ f \in Seq(Nat) /\ held \in [RrCalls -> Nat]
        /\ g = Tail(f) /\ n = made /\ o = Head(f) /\ Len(f) \in Nat
    BY <1>2 DEF RrApart
  <2>2. /\ o = f[1] /\ 1 \in 1 .. Len(f) /\ g \in Seq(Nat) /\ Len(g) = Len(f) - 1
        /\ \A i \in 1 .. Len(g) : g[i] = f[i + 1] /\ i + 1 \in 1 .. Len(f)
    BY <1>2, <2>1
  <2>3. o \in 1 .. n /\ \A d \in RrCalls : held[d] # o
    <3>1. o \in 1 .. made
      BY <2>2 DEF RrApart
    <3>2. \A d \in RrCalls : held[d] # 0 => f[1] # held[d]
      BY <2>2 DEF RrApart
    <3> QED
      BY <2>1, <2>2, <3>1, <3>2
  <2>4. /\ \A i \in 1 .. Len(g) : g[i] \in 1 .. n /\ g[i] # o
        /\ \A i, j \in 1 .. Len(g) : g[i] = g[j] => i = j
    <3>1. \A i, j \in 1 .. Len(f) : f[i] = f[j] => i = j
      BY DEF RrApart
    <3>2. \A i \in 1 .. Len(f) : f[i] \in 1 .. n
      BY <2>1 DEF RrApart
    <3>3. \A i \in 1 .. Len(g) : i + 1 # 1
      OBVIOUS
    <3>4. \A i, j \in 1 .. Len(g) : i + 1 = j + 1 => i = j
      OBVIOUS
    <3> QED
      BY <2>2, <3>1, <3>2, <3>3, <3>4
  <2>5. \A d \in RrCalls : held[d] # 0 => \A i \in 1 .. Len(g) : g[i] # held[d]
    BY <2>2 DEF RrApart
  <2>6. RrApart(g, n, held)
    BY <2>1, <2>2, <2>4, <2>5 DEF RrApart
  <2>7. PICK h : h = [held EXCEPT ![c] = o]
    OBVIOUS
  <2>8. h \in [RrCalls -> Nat] /\ h[c] = o /\ \A d \in RrCalls : d # c => h[d] = held[d]
    BY <2>1, <2>3, <2>7
  <2>9. \A d \in RrCalls : h[d] <= n
    <3>1. \A d \in RrCalls : held[d] <= n
      BY <2>1 DEF RrApart
    <3>2. h[c] <= n
      BY <2>1, <2>3, <2>8
    <3> QED
      BY <2>8, <3>1, <3>2
  <2>10. ASSUME NEW d \in RrCalls, h[d] # 0, NEW i \in 1 .. Len(g)
         PROVE  g[i] # h[d]
    <3>1. CASE d = c
      BY <2>4, <2>8, <3>1
    <3>2. CASE d # c
      BY <2>5, <2>8, <2>10, <3>2
    <3> QED
      BY <3>1, <3>2
  <2>11. \A d, e \in RrCalls : h[d] # 0 /\ h[d] = h[e] => d = e
    <3>1. \A d, e \in RrCalls : held[d] # 0 /\ held[d] = held[e] => d = e
      BY DEF RrApart
    <3> QED
      BY <2>3, <2>8, <3>1
  <2>12. RrApart(g, n, h)
    BY <2>1, <2>2, <2>4, <2>8, <2>9, <2>10, <2>11 DEF RrApart
  <2> QED
    BY <2>3, <2>6, <2>7, <2>12
<1> QED
  BY <1>1, <1>2

(* Giving it back.                                                         *)
LEMMA RrGiveApart ==
  ASSUME NEW f, NEW made, NEW held, RrApart(f, made, held), NEW c \in RrCalls, held[c] # 0,
         NEW o, o = held[c]
  PROVE  RrApart(<<o>> \o f, made, [held EXCEPT ![c] = 0])
<1>1. /\ made \in Nat /\ f \in Seq(Nat) /\ held \in [RrCalls -> Nat] /\ o \in Nat
      /\ Len(f) \in Nat /\ o \in 1 .. made
  BY DEF RrApart
<1>2. PICK g : g = <<o>> \o f
  OBVIOUS
<1>3. /\ g \in Seq(Nat) /\ Len(g) = Len(f) + 1 /\ g[1] = o
      /\ \A i \in 1 .. Len(g) : i # 1 => g[i] = f[i - 1] /\ i - 1 \in 1 .. Len(f)
  BY <1>1, <1>2
<1>4. PICK h : h = [held EXCEPT ![c] = 0]
  OBVIOUS
<1>5. h \in [RrCalls -> Nat] /\ h[c] = 0 /\ \A d \in RrCalls : d # c => h[d] = held[d]
  BY <1>1, <1>4
<1>6. \A i \in 1 .. Len(f) : f[i] # o /\ f[i] \in 1 .. made
  BY DEF RrApart
<1>7. \A i \in 1 .. Len(g) : g[i] \in 1 .. made
  BY <1>1, <1>3, <1>6
<1>8. \A i, j \in 1 .. Len(g) : g[i] = g[j] => i = j
  <2>1. \A i, j \in 1 .. Len(f) : f[i] = f[j] => i = j
    BY DEF RrApart
  <2>2. SUFFICES ASSUME NEW i \in 1 .. Len(g), NEW j \in 1 .. Len(g), g[i] = g[j]
                 PROVE  i = j
    OBVIOUS
  <2>3. CASE i = 1
    BY <1>3, <1>6, <2>2, <2>3
  <2>4. CASE j = 1
    BY <1>3, <1>6, <2>2, <2>4
  <2>5. CASE i # 1 /\ j # 1
    <3>1. i - 1 \in 1 .. Len(f) /\ j - 1 \in 1 .. Len(f) /\ f[i - 1] = f[j - 1]
      BY <1>3, <2>2, <2>5
    <3>2. i - 1 = j - 1
      BY <2>1, <3>1
    <3> QED
      BY <1>1, <1>3, <3>2
  <2> QED
    BY <2>3, <2>4, <2>5
<1>9. \A d \in RrCalls : h[d] # 0 => \A i \in 1 .. Len(g) : g[i] # h[d]
  <2>1. \A d \in RrCalls : held[d] # 0 => \A i \in 1 .. Len(f) : f[i] # held[d]
    BY DEF RrApart
  <2>2. \A d \in RrCalls : d # c => held[d] # o
    BY DEF RrApart
  <2> QED
    BY <1>3, <1>5, <2>1, <2>2
<1>10. \A d \in RrCalls : h[d] <= made
  BY <1>1, <1>5 DEF RrApart
<1>11. \A d, e \in RrCalls : h[d] # 0 /\ h[d] = h[e] => d = e
  BY <1>5 DEF RrApart
<1>12. RrApart(g, made, h)
  BY <1>1, <1>3, <1>5, <1>7, <1>8, <1>9, <1>10, <1>11 DEF RrApart
<1> QED
  BY <1>2, <1>4, <1>12

(* What the calls keep.                                                    *)
RrCallRecords ==
  [pc : {"new", "read", "handling", "sending", "sent", "done", "failed"}, req : Nat, resp : Nat]
RrCallTypes ==
  /\ rrFree \in [RrLists -> Seq(Nat)] /\ rrMade \in [RrLists -> Nat]
  /\ rrId \in [RrLists -> [RrObjects -> SUBSET RrCalls]]
  /\ rrCall \in [RrCalls -> RrCallRecords]
  /\ rrAnswer \in [RrCalls -> SUBSET RrCalls]

(* What a call holds where it is, and that the ids in there are its own.   *)
RrPlace(c, r, ids) ==
  /\ r.pc \in {"read", "handling", "sending", "sent"} => r.req # 0 /\ ids["request"][r.req] = {c}
  /\ r.pc \in {"new", "done", "failed"} => r.req = 0
  /\ r.pc = "sending" => r.resp # 0 /\ ids["response"][r.resp] = {c}
  /\ r.pc # "sending" => r.resp = 0

(* A call makes one object of a list at most: those that may have.         *)
RrCame == {c \in RrCalls : rrCall[c].pc # "new"}
RrAnswered == {c \in RrCalls : rrCall[c].pc \in {"sending", "sent", "done"}}

(* The inductive invariant of the calls.                                   *)
RrCallsInv ==
  /\ RrCallTypes
  /\ \A l \in RrLists : RrApart(rrFree[l], rrMade[l], RrHeld(l))
  /\ \A c \in RrCalls : RrPlace(c, rrCall[c], rrId) /\ rrAnswer[c] \subseteq {c}
  /\ rrMade["request"] <= Cardinality(RrCame) /\ rrMade["response"] <= Cardinality(RrAnswered)

(* Counting calls.                                                         *)
LEMMA RrCount ==
  ASSUME NEW S \in SUBSET RrCalls, NEW c \in RrCalls
  PROVE  /\ Cardinality(S) \in Nat /\ Cardinality(RrCalls) \in Nat
         /\ Cardinality(S) <= Cardinality(RrCalls)
         /\ c \notin S => Cardinality(S \cup {c}) = Cardinality(S) + 1
<1>1. IsFiniteSet(RrCalls)
  BY RouterAssumption
<1>2. IsFiniteSet(S) /\ Cardinality(S) <= Cardinality(RrCalls)
  BY <1>1, FS_Subset
<1>3. Cardinality(S) \in Nat /\ Cardinality(RrCalls) \in Nat
  BY <1>1, <1>2, FS_CardinalityType
<1>4. c \notin S => Cardinality(S \cup {c}) = Cardinality(S) + 1
  BY <1>2, FS_AddElement
<1> QED
  BY <1>2, <1>3, <1>4

(* A step of one call.                                                     *)
LEMMA RrCallMoves ==
  ASSUME RrCallTypes, NEW c \in RrCalls, NEW r \in RrCallRecords,
         rrCall' = [rrCall EXCEPT ![c] = r]
  PROVE  /\ rrCall' \in [RrCalls -> RrCallRecords] /\ rrCall'[c] = r
         /\ \A d \in RrCalls : d # c => rrCall'[d] = rrCall[d]
         /\ RrHeld("request")' = [RrHeld("request") EXCEPT ![c] = r.req]
         /\ RrHeld("response")' = [RrHeld("response") EXCEPT ![c] = r.resp]
         /\ r.pc # "new" => RrCame' = RrCame \cup {c}
         /\ r.pc \in {"sending", "sent", "done"} => RrAnswered' = RrAnswered \cup {c}
         /\ rrCall[c].pc \notin {"sending", "sent", "done"}
              /\ r.pc \notin {"sending", "sent", "done"} => RrAnswered' = RrAnswered
<1>1. rrCall \in [RrCalls -> RrCallRecords]
  BY DEF RrCallTypes
<1>2. /\ rrCall' \in [RrCalls -> RrCallRecords] /\ rrCall'[c] = r
      /\ \A d \in RrCalls : d # c => rrCall'[d] = rrCall[d]
  BY <1>1
<1>3. RrHeld("request")' = [RrHeld("request") EXCEPT ![c] = r.req]
  BY <1>2 DEF RrHeld
<1>4. RrHeld("response")' = [RrHeld("response") EXCEPT ![c] = r.resp]
  BY <1>2 DEF RrHeld
<1>5. r.pc # "new" => RrCame' = RrCame \cup {c}
  BY <1>2 DEF RrCame
<1>6. r.pc \in {"sending", "sent", "done"} => RrAnswered' = RrAnswered \cup {c}
  BY <1>2 DEF RrAnswered
<1>7. rrCall[c].pc \notin {"sending", "sent", "done"}
        /\ r.pc \notin {"sending", "sent", "done"} => RrAnswered' = RrAnswered
  BY <1>2 DEF RrAnswered
<1> QED
  BY <1>2, <1>3, <1>4, <1>5, <1>6, <1>7

(* No call has come yet.                                                   *)
LEMMA RrCallsStart == RouterInit => RrCallsInv
<1> SUFFICES ASSUME RouterInit PROVE RrCallsInv
  OBVIOUS
<1>1. RrCallTypes
  BY DEF RouterInit, RrCallTypes, RrCallRecords, RrLists
<1>2. \A l \in RrLists : rrFree[l] = <<>> /\ rrMade[l] = 0
  BY DEF RouterInit
<1>3. \A l \in RrLists : \A c \in RrCalls : RrHeld(l)[c] = 0
  BY DEF RouterInit, RrHeld
<1>4. \A l \in RrLists : RrHeld(l) \in [RrCalls -> Nat]
  BY DEF RouterInit, RrHeld
<1>5. ASSUME NEW l \in RrLists PROVE RrApart(rrFree[l], rrMade[l], RrHeld(l))
  <2>1. <<>> \in Seq(Nat) /\ Len(<<>>) = 0
    OBVIOUS
  <2>2. rrFree[l] \in Seq(Nat) /\ Len(rrFree[l]) = 0 /\ rrMade[l] = 0
    BY <1>2, <2>1
  <2>3. \A i \in 1 .. Len(rrFree[l]) : FALSE
    BY <2>2
  <2> QED
    BY <1>3, <1>4, <2>2, <2>3 DEF RrApart
<1>6. \A c \in RrCalls : RrPlace(c, rrCall[c], rrId) /\ rrAnswer[c] \subseteq {c}
  BY DEF RouterInit, RrPlace
<1>7. 0 <= Cardinality(RrCame) /\ 0 <= Cardinality(RrAnswered)
  <2>1. IsFiniteSet(RrCame) /\ IsFiniteSet(RrAnswered)
    BY RouterAssumption, FS_Subset DEF RrCame, RrAnswered
  <2>2. Cardinality(RrCame) \in Nat /\ Cardinality(RrAnswered) \in Nat
    BY <2>1, FS_CardinalityType
  <2> QED
    BY <2>2
<1>8. "request" \in RrLists /\ "response" \in RrLists
  BY DEF RrLists
<1> QED
  BY <1>1, <1>2, <1>5, <1>6, <1>7, <1>8 DEF RrCallsInv

(* What one step adds to the calls that are counted.                       *)
LEMMA RrCounts ==
  ASSUME RrCallTypes, NEW c \in RrCalls, NEW r \in RrCallRecords, r.pc # "new",
         rrCall' = [rrCall EXCEPT ![c] = r],
         rrCall[c].pc \in {"sending", "sent", "done"} => r.pc \in {"sending", "sent", "done"}
  PROVE  /\ Cardinality(RrCame) \in Nat /\ Cardinality(RrCame') \in Nat
         /\ Cardinality(RrAnswered) \in Nat /\ Cardinality(RrAnswered') \in Nat
         /\ Cardinality(RrCalls) \in Nat
         /\ Cardinality(RrCame') <= Cardinality(RrCalls)
         /\ Cardinality(RrAnswered') <= Cardinality(RrCalls)
         /\ Cardinality(RrCame) <= Cardinality(RrCame')
         /\ Cardinality(RrAnswered) <= Cardinality(RrAnswered')
         /\ rrCall[c].pc = "new" => Cardinality(RrCame') = Cardinality(RrCame) + 1
         /\ rrCall[c].pc = "handling" /\ r.pc = "sending" =>
              Cardinality(RrAnswered') = Cardinality(RrAnswered) + 1
<1> DEFINE came == RrCame
           answered == RrAnswered
           came2 == RrCame'
           answered2 == RrAnswered'
<1>1. /\ came \in SUBSET RrCalls /\ answered \in SUBSET RrCalls
      /\ came2 \in SUBSET RrCalls /\ answered2 \in SUBSET RrCalls
  BY DEF RrCame, RrAnswered
<1>2. came2 = came \cup {c} /\ (answered2 = answered \cup {c} \/ answered2 = answered)
  BY RrCallMoves
<1>3. /\ rrCall[c].pc = "new" => c \notin came
      /\ rrCall[c].pc = "handling" => c \notin answered
      /\ r.pc = "sending" => answered2 = answered \cup {c}
  BY RrCallMoves DEF RrCame, RrAnswered
<1> HIDE DEF came, came2, answered, answered2
<1>4. /\ Cardinality(came) \in Nat /\ Cardinality(answered) \in Nat
      /\ Cardinality(came2) \in Nat /\ Cardinality(answered2) \in Nat
      /\ Cardinality(RrCalls) \in Nat
      /\ Cardinality(came2) <= Cardinality(RrCalls)
      /\ Cardinality(answered2) <= Cardinality(RrCalls)
  BY <1>1, RrCount
<1>5. /\ c \notin came => Cardinality(came2) = Cardinality(came) + 1
      /\ c \notin answered /\ answered2 = answered \cup {c} =>
           Cardinality(answered2) = Cardinality(answered) + 1
  BY <1>1, <1>2, RrCount
<1>6. /\ c \in came => came2 = came
      /\ c \in answered => answered2 = answered
  BY <1>2
<1>7. Cardinality(came) <= Cardinality(came2)
  BY <1>4, <1>5, <1>6
<1>8. Cardinality(answered) <= Cardinality(answered2)
  BY <1>2, <1>4, <1>5, <1>6
<1>9. /\ rrCall[c].pc = "new" => Cardinality(came2) = Cardinality(came) + 1
      /\ rrCall[c].pc = "handling" /\ r.pc = "sending" =>
           Cardinality(answered2) = Cardinality(answered) + 1
  BY <1>3, <1>5
<1> QED
  BY <1>4, <1>7, <1>8, <1>9 DEF came, came2, answered, answered2

(* A step keeps the invariant if it keeps the lists apart and gives the    *)
(* call what its place asks for, and writes no id of another call.         *)
LEMMA RrCallKeeps ==
  ASSUME RrCallsInv, NEW c \in RrCalls, NEW r \in RrCallRecords, RrCallTypes',
         rrCall' = [rrCall EXCEPT ![c] = r],
         RrApart(rrFree'["request"], rrMade'["request"], RrHeld("request")'),
         RrApart(rrFree'["response"], rrMade'["response"], RrHeld("response")'),
         RrPlace(c, r, rrId'),
         \A d \in RrCalls : d # c =>
           /\ rrCall[d].req # 0 =>
                rrId'["request"][rrCall[d].req] = rrId["request"][rrCall[d].req]
           /\ rrCall[d].resp # 0 =>
                rrId'["response"][rrCall[d].resp] = rrId["response"][rrCall[d].resp],
         \A d \in RrCalls : rrAnswer'[d] \subseteq {d},
         rrMade'["request"] <= Cardinality(RrCame'),
         rrMade'["response"] <= Cardinality(RrAnswered')
  PROVE  RrCallsInv'
<1>1. RrCallTypes
  BY DEF RrCallsInv
<1>2. rrCall'[c] = r /\ \A d \in RrCalls : d # c => rrCall'[d] = rrCall[d]
  BY <1>1, RrCallMoves
<1>3. \A l \in RrLists : RrApart(rrFree[l], rrMade[l], RrHeld(l))'
  BY DEF RrLists
<1>4. ASSUME NEW d \in RrCalls PROVE RrPlace(d, rrCall'[d], rrId')
  <2>1. CASE d = c
    BY <1>2, <2>1
  <2>2. CASE d # c
    <3>1. RrPlace(d, rrCall[d], rrId)
      BY DEF RrCallsInv
    <3> QED
      BY <1>2, <2>2, <3>1 DEF RrPlace
  <2> QED
    BY <2>1, <2>2
<1> QED
  BY <1>3, <1>4 DEF RrCallsInv

(* readHeader.                                                             *)
LEMMA RrReadHeaderKeeps ==
  ASSUME RrCallsInv, NEW c \in RrCalls, RrReadHeader(c)
  PROVE  RrCallsInv'
<1> DEFINE l == "request"
           o == RrObject(l)
<1>1. /\ RrCallTypes /\ RrApart(rrFree[l], rrMade[l], RrHeld(l)) /\ l \in RrLists
      /\ RrApart(rrFree["response"], rrMade["response"], RrHeld("response"))
      /\ rrMade[l] <= Cardinality(RrCame) /\ rrMade["response"] <= Cardinality(RrAnswered)
      /\ \A d \in RrCalls : rrAnswer[d] \subseteq {d}
  BY DEF RrCallsInv, RrLists
<1>2. rrCall[c] \in RrCallRecords /\ rrCall[c].pc = "new"
  BY <1>1 DEF RrReadHeader, RrCallTypes
<1>3. rrCall[c].req = 0 /\ rrCall[c].resp = 0 /\ RrHeld(l)[c] = 0
  BY <1>2 DEF RrCallsInv, RrPlace, RrHeld
<1>4. PICK f, made, held : f = rrFree[l] /\ made = rrMade[l] /\ held = RrHeld(l)
  OBVIOUS
<1>5. PICK g, n, x : /\ g = (IF f = <<>> THEN f ELSE Tail(f))
                     /\ n = (IF f = <<>> THEN made + 1 ELSE made)
                     /\ x = (IF f = <<>> THEN made + 1 ELSE Head(f))
  OBVIOUS
<1>6. /\ RrApart(g, n, held) /\ RrApart(g, n, [held EXCEPT ![c] = x])
      /\ x \in 1 .. n /\ \A d \in RrCalls : held[d] # x
  <2>1. RrApart(f, made, held) /\ held[c] = 0
    BY <1>1, <1>3, <1>4
  <2> QED
    BY <1>5, <2>1, RrTakeApart
<1>7. /\ rrFree' = [rrFree EXCEPT ![l] = g] /\ rrMade' = [rrMade EXCEPT ![l] = n] /\ o = x
  BY <1>1, <1>4, <1>5 DEF RrReadHeader, RrTake, RrObject, RrCallTypes
<1>8. /\ rrFree'[l] = g /\ rrFree'["response"] = rrFree["response"]
      /\ rrMade'[l] = n /\ rrMade'["response"] = rrMade["response"]
      /\ rrFree' \in [RrLists -> Seq(Nat)] /\ rrMade' \in [RrLists -> Nat]
      /\ n \in Nat
  BY <1>1, <1>6, <1>7 DEF RrCallTypes, RrApart, RrLists
<1>9. n <= rrMade[l] + 1 /\ rrMade[l] \in Nat
  BY <1>1, <1>4, <1>5 DEF RrCallTypes
<1>10. CASE rrCall' = [rrCall EXCEPT ![c].pc = "failed"] /\ UNCHANGED rrId
  <2>1. PICK r \in RrCallRecords : r.pc = "failed" /\ r.req = 0 /\ r.resp = 0
                                  /\ rrCall' = [rrCall EXCEPT ![c] = r]
    BY <1>2, <1>3, <1>10 DEF RrCallRecords
  <2>2. /\ rrCall' \in [RrCalls -> RrCallRecords]
        /\ RrHeld(l)' = [RrHeld(l) EXCEPT ![c] = 0]
        /\ RrHeld("response")' = [RrHeld("response") EXCEPT ![c] = 0]
    BY <1>1, <2>1, RrCallMoves
  <2>3. RrHeld(l)' = held /\ RrHeld("response")' = RrHeld("response")
    BY <1>3, <1>4, <2>2 DEF RrHeld
  <2>4. RrPlace(c, r, rrId')
    BY <2>1 DEF RrPlace
  <2>5. RrCallTypes'
    BY <1>1, <1>8, <1>10, <2>2 DEF RrCallTypes, RrReadHeader
  <2>6. rrMade'[l] <= Cardinality(RrCame') /\ rrMade'["response"] <= Cardinality(RrAnswered')
    <3>1. /\ Cardinality(RrCame) \in Nat /\ Cardinality(RrCame') = Cardinality(RrCame) + 1
          /\ Cardinality(RrAnswered) <= Cardinality(RrAnswered')
          /\ Cardinality(RrAnswered) \in Nat /\ Cardinality(RrAnswered') \in Nat
      BY <1>1, <1>2, <2>1, RrCounts
    <3>2. rrMade["response"] \in Nat
      BY <1>1 DEF RrCallTypes, RrLists
    <3> QED
      BY <1>1, <1>8, <1>9, <3>1, <3>2
  <2>7. \A d \in RrCalls : rrAnswer'[d] \subseteq {d}
    BY <1>1 DEF RrReadHeader
  <2>8. RrApart(rrFree'[l], rrMade'[l], RrHeld(l)')
    BY <1>6, <1>8, <2>3
  <2>9. RrApart(rrFree'["response"], rrMade'["response"], RrHeld("response")')
    BY <1>1, <1>8, <2>3
  <2> QED
    BY <1>10, <2>1, <2>4, <2>5, <2>6, <2>7, <2>8, <2>9, RrCallKeeps
<1>11. CASE /\ rrCall' = [rrCall EXCEPT ![c].pc = "read", ![c].req = o]
            /\ rrId' = [rrId EXCEPT ![l][o] = {c}]
  <2>1. PICK r \in RrCallRecords : r.pc = "read" /\ r.req = x /\ r.resp = 0
                                  /\ rrCall' = [rrCall EXCEPT ![c] = r]
    <3>1. PICK r : r = [rrCall[c] EXCEPT !.pc = "read", !.req = x]
      OBVIOUS
    <3>2. x \in Nat
      BY <1>6, <1>8
    <3>3. r \in RrCallRecords /\ r.pc = "read" /\ r.req = x /\ r.resp = 0
      BY <1>2, <1>3, <3>1, <3>2 DEF RrCallRecords
    <3>4. rrCall' = [rrCall EXCEPT ![c] = r]
      BY <1>1, <1>7, <1>11, <3>1 DEF RrCallTypes
    <3> QED
      BY <3>3, <3>4
  <2>2. /\ rrCall' \in [RrCalls -> RrCallRecords]
        /\ RrHeld(l)' = [RrHeld(l) EXCEPT ![c] = x]
        /\ RrHeld("response")' = [RrHeld("response") EXCEPT ![c] = 0]
    BY <1>1, <2>1, RrCallMoves
  <2>3. RrHeld(l)' = [held EXCEPT ![c] = x] /\ RrHeld("response")' = RrHeld("response")
    BY <1>3, <1>4, <2>2 DEF RrHeld
  <2>4. /\ Cardinality(RrCame) \in Nat /\ Cardinality(RrCame') = Cardinality(RrCame) + 1
        /\ Cardinality(RrAnswered) <= Cardinality(RrAnswered')
        /\ Cardinality(RrAnswered) \in Nat /\ Cardinality(RrAnswered') \in Nat
        /\ Cardinality(RrCalls) \in Nat /\ Cardinality(RrCame') <= Cardinality(RrCalls)
    BY <1>1, <1>2, <2>1, RrCounts
  <2>5. rrMade'[l] <= Cardinality(RrCame') /\ rrMade'["response"] <= Cardinality(RrAnswered')
    <3>1. rrMade["response"] \in Nat
      BY <1>1 DEF RrCallTypes, RrLists
    <3> QED
      BY <1>1, <1>8, <1>9, <2>4, <3>1
  <2>6. x \in RrObjects
    BY <1>6, <1>8, <2>4, <2>5 DEF RrObjects
  <2>7. PICK ids : ids = [rrId[l] EXCEPT ![x] = {c}]
    OBVIOUS
  <2>8. /\ rrId' = [rrId EXCEPT ![l] = ids] /\ ids \in [RrObjects -> SUBSET RrCalls]
        /\ ids[x] = {c} /\ \A y \in RrObjects : y # x => ids[y] = rrId[l][y]
    BY <1>1, <1>7, <1>11, <2>6, <2>7 DEF RrCallTypes
  <2>9. /\ rrId' \in [RrLists -> [RrObjects -> SUBSET RrCalls]]
        /\ rrId'[l] = ids /\ rrId'["response"] = rrId["response"]
    BY <1>1, <2>8 DEF RrCallTypes, RrLists
  <2>10. RrPlace(c, r, rrId')
    BY <1>6, <2>1, <2>8, <2>9 DEF RrPlace
  <2>11. RrCallTypes'
    BY <1>1, <1>8, <2>2, <2>9 DEF RrCallTypes, RrReadHeader
  <2>12. \A d \in RrCalls : rrAnswer'[d] \subseteq {d}
    BY <1>1 DEF RrReadHeader
  <2>13. RrApart(rrFree'[l], rrMade'[l], RrHeld(l)')
    BY <1>6, <1>8, <2>3
  <2>14. RrApart(rrFree'["response"], rrMade'["response"], RrHeld("response")')
    BY <1>1, <1>8, <2>3
  <2>15. ASSUME NEW d \in RrCalls, rrCall[d].req # 0
         PROVE  rrId'[l][rrCall[d].req] = rrId[l][rrCall[d].req]
    <3>1. PICK y : y = held[d]
      OBVIOUS
    <3>2. y = rrCall[d].req /\ y # x /\ y # 0
      BY <1>4, <1>6, <2>15, <3>1 DEF RrHeld
    <3>3. y \in Nat /\ y <= n
      BY <1>6, <3>1 DEF RrApart
    <3>4. n <= Cardinality(RrCalls)
      BY <1>8, <2>4, <2>5
    <3>5. y \in RrObjects
      BY <1>8, <2>4, <3>2, <3>3, <3>4 DEF RrObjects
    <3> QED
      BY <2>8, <2>9, <3>2, <3>5
  <2> QED
    BY <2>1, <2>5, <2>9, <2>10, <2>11, <2>12, <2>13, <2>14, <2>15, RrCallKeeps
<1> QED
  BY <1>10, <1>11 DEF RrReadHeader

(* The end of a call, which gives its request back.                        *)
LEMMA RrEndKeeps ==
  ASSUME RrCallsInv, NEW c \in RrCalls, RrReject(c) \/ RrCallDone(c)
  PROVE  RrCallsInv'
<1> DEFINE l == "request"
<1>1. /\ RrCallTypes /\ RrApart(rrFree[l], rrMade[l], RrHeld(l)) /\ l \in RrLists
      /\ RrApart(rrFree["response"], rrMade["response"], RrHeld("response"))
      /\ rrMade[l] <= Cardinality(RrCame) /\ rrMade["response"] <= Cardinality(RrAnswered)
      /\ \A d \in RrCalls : rrAnswer[d] \subseteq {d}
      /\ rrMade[l] \in Nat /\ rrMade["response"] \in Nat
  BY DEF RrCallsInv, RrLists, RrCallTypes
<1>2. rrCall[c] \in RrCallRecords /\ rrCall[c].pc \in {"read", "handling", "sent"}
  BY <1>1 DEF RrReject, RrCallDone, RrCallTypes
<1>3. PICK r : r = [pc |-> IF rrCall[c].pc = "sent" THEN "done" ELSE "failed",
                    req |-> 0, resp |-> 0]
  OBVIOUS
<1>4. /\ r \in RrCallRecords /\ r.req = 0 /\ r.resp = 0 /\ r.pc \in {"done", "failed"}
      /\ rrCall[c].pc = "sent" => r.pc = "done"
  BY <1>3 DEF RrCallRecords
<1>5. rrCall' = [rrCall EXCEPT ![c] = r]
  <2>1. CASE RrReject(c)
    BY <1>3, <2>1 DEF RrReject
  <2>2. CASE RrCallDone(c)
    BY <1>1, <1>3, <2>2 DEF RrCallDone, RrCallTypes
  <2> QED
    BY <2>1, <2>2
<1>6. PICK f, made, held, o : /\ f = rrFree[l] /\ made = rrMade[l] /\ held = RrHeld(l)
                              /\ o = rrCall[c].req
  OBVIOUS
<1>7. held[c] = o /\ o # 0 /\ rrCall[c].resp = 0
  BY <1>2, <1>6 DEF RrCallsInv, RrPlace, RrHeld
<1>8. PICK g : g = <<o>> \o f
  OBVIOUS
<1>9. RrApart(g, made, [held EXCEPT ![c] = 0])
  BY <1>1, <1>6, <1>7, <1>8, RrGiveApart
<1>10. /\ rrFree' = [rrFree EXCEPT ![l] = g] /\ UNCHANGED <<rrMade, rrId, rrAnswer>>
  BY <1>1, <1>6, <1>8 DEF RrReject, RrCallDone, RrGive, RrCallTypes
<1>11. /\ rrFree'[l] = g /\ rrFree'["response"] = rrFree["response"]
       /\ rrFree' \in [RrLists -> Seq(Nat)]
  BY <1>1, <1>9, <1>10 DEF RrCallTypes, RrApart, RrLists
<1>12. /\ rrCall' \in [RrCalls -> RrCallRecords]
       /\ RrHeld(l)' = [held EXCEPT ![c] = 0]
       /\ RrHeld("response")' = [RrHeld("response") EXCEPT ![c] = 0]
  <2>1. /\ rrCall' \in [RrCalls -> RrCallRecords]
        /\ RrHeld("request")' = [RrHeld("request") EXCEPT ![c] = r.req]
        /\ RrHeld("response")' = [RrHeld("response") EXCEPT ![c] = r.resp]
    <3>1. RrCallTypes /\ r \in RrCallRecords
      BY <1>1, <1>4
    <3> QED
      BY <1>5, <3>1, RrCallMoves
  <2>2. r.req = 0 /\ r.resp = 0 /\ held = RrHeld("request")
    BY <1>4, <1>6
  <2> QED
    BY <2>1, <2>2
<1>13. RrHeld("response")' = RrHeld("response")
  <2>1. PICK h : h = RrHeld("response")
    OBVIOUS
  <2>2. h \in [RrCalls -> Nat]
    BY <1>1, <2>1 DEF RrApart
  <2>3. h[c] = rrCall[c].resp
    BY <2>1 DEF RrHeld
  <2>4. [h EXCEPT ![c] = 0] = h
    BY <1>7, <2>2, <2>3
  <2> QED
    BY <1>12, <2>1, <2>4
<1>14. RrPlace(c, r, rrId')
  BY <1>4 DEF RrPlace
<1>15. RrCallTypes'
  BY <1>1, <1>10, <1>11, <1>12 DEF RrCallTypes
<1>16. rrMade'[l] <= Cardinality(RrCame') /\ rrMade'["response"] <= Cardinality(RrAnswered')
  <2>1. /\ Cardinality(RrCame) \in Nat /\ Cardinality(RrCame') \in Nat
        /\ Cardinality(RrAnswered) \in Nat /\ Cardinality(RrAnswered') \in Nat
        /\ Cardinality(RrCame) <= Cardinality(RrCame')
        /\ Cardinality(RrAnswered) <= Cardinality(RrAnswered')
    BY <1>1, <1>2, <1>4, <1>5, RrCounts
  <2> QED
    BY <1>1, <1>10, <2>1
<1>17. /\ RrApart(rrFree'[l], rrMade'[l], RrHeld(l)')
       /\ RrApart(rrFree'["response"], rrMade'["response"], RrHeld("response")')
  BY <1>1, <1>6, <1>9, <1>10, <1>11, <1>12, <1>13
<1> QED
  BY <1>1, <1>4, <1>5, <1>10, <1>14, <1>15, <1>16, <1>17, RrCallKeeps

(* The handler starts.                                                     *)
LEMMA RrInvokeKeeps ==
  ASSUME RrCallsInv, NEW c \in RrCalls, RrInvoke(c)
  PROVE  RrCallsInv'
<1>1. /\ RrCallTypes /\ RrApart(rrFree["request"], rrMade["request"], RrHeld("request"))
      /\ RrApart(rrFree["response"], rrMade["response"], RrHeld("response"))
      /\ rrMade["request"] <= Cardinality(RrCame)
      /\ rrMade["response"] <= Cardinality(RrAnswered)
      /\ \A d \in RrCalls : rrAnswer[d] \subseteq {d}
      /\ rrMade["request"] \in Nat /\ rrMade["response"] \in Nat
  BY DEF RrCallsInv, RrLists, RrCallTypes
<1>2. /\ rrCall[c] \in RrCallRecords /\ rrCall[c].pc = "read" /\ RrPlace(c, rrCall[c], rrId)
      /\ UNCHANGED <<rrFree, rrMade, rrId, rrAnswer>>
  BY <1>1 DEF RrInvoke, RrCallTypes, RrCallsInv
<1>3. PICK r : r = [rrCall[c] EXCEPT !.pc = "handling"]
  OBVIOUS
<1>4. /\ r \in RrCallRecords /\ r.pc = "handling" /\ r.req = rrCall[c].req
      /\ r.resp = rrCall[c].resp /\ rrCall' = [rrCall EXCEPT ![c] = r]
  BY <1>1, <1>2, <1>3 DEF RrCallRecords, RrInvoke, RrCallTypes
<1>5. /\ rrCall' \in [RrCalls -> RrCallRecords]
      /\ RrHeld("request")' = [RrHeld("request") EXCEPT ![c] = rrCall[c].req]
      /\ RrHeld("response")' = [RrHeld("response") EXCEPT ![c] = rrCall[c].resp]
  BY <1>1, <1>4, RrCallMoves
<1>6. RrHeld("request")' = RrHeld("request") /\ RrHeld("response")' = RrHeld("response")
  BY <1>5 DEF RrHeld
<1>7. RrPlace(c, r, rrId')
  BY <1>2, <1>4 DEF RrPlace
<1>8. RrCallTypes'
  BY <1>1, <1>2, <1>5 DEF RrCallTypes
<1>9. /\ rrMade'["request"] <= Cardinality(RrCame')
      /\ rrMade'["response"] <= Cardinality(RrAnswered')
  <2>1. /\ Cardinality(RrCame) \in Nat /\ Cardinality(RrCame') \in Nat
        /\ Cardinality(RrAnswered) \in Nat /\ Cardinality(RrAnswered') \in Nat
        /\ Cardinality(RrCame) <= Cardinality(RrCame')
        /\ Cardinality(RrAnswered) <= Cardinality(RrAnswered')
    BY <1>1, <1>2, <1>4, RrCounts
  <2> QED
    BY <1>1, <1>2, <2>1
<1>10. /\ RrApart(rrFree'["request"], rrMade'["request"], RrHeld("request")')
       /\ RrApart(rrFree'["response"], rrMade'["response"], RrHeld("response")')
  BY <1>1, <1>2, <1>6
<1> QED
  BY <1>1, <1>2, <1>4, <1>7, <1>8, <1>9, <1>10, RrCallKeeps

(* sendResponse takes a response and gives it the id of the request.       *)
LEMMA RrRespondKeeps ==
  ASSUME RrCallsInv, NEW c \in RrCalls, RrRespond(c)
  PROVE  RrCallsInv'
<1> DEFINE l == "response"
           o == RrObject(l)
<1>1. /\ RrCallTypes /\ RrApart(rrFree[l], rrMade[l], RrHeld(l)) /\ l \in RrLists
      /\ RrApart(rrFree["request"], rrMade["request"], RrHeld("request"))
      /\ rrMade["request"] <= Cardinality(RrCame) /\ rrMade[l] <= Cardinality(RrAnswered)
      /\ \A d \in RrCalls : rrAnswer[d] \subseteq {d}
      /\ rrMade[l] \in Nat /\ rrMade["request"] \in Nat
  BY DEF RrCallsInv, RrLists, RrCallTypes
<1>2. /\ rrCall[c] \in RrCallRecords /\ rrCall[c].pc = "handling" /\ UNCHANGED rrAnswer
      /\ RrPlace(c, rrCall[c], rrId)
  BY <1>1 DEF RrRespond, RrCallTypes, RrCallsInv
<1>3. /\ rrCall[c].req # 0 /\ rrId["request"][rrCall[c].req] = {c} /\ rrCall[c].resp = 0
      /\ RrHeld(l)[c] = 0
  BY <1>2 DEF RrPlace, RrHeld
<1>4. PICK f, made, held : f = rrFree[l] /\ made = rrMade[l] /\ held = RrHeld(l)
  OBVIOUS
<1>5. PICK g, n, x : /\ g = (IF f = <<>> THEN f ELSE Tail(f))
                     /\ n = (IF f = <<>> THEN made + 1 ELSE made)
                     /\ x = (IF f = <<>> THEN made + 1 ELSE Head(f))
  OBVIOUS
<1>6. /\ RrApart(g, n, [held EXCEPT ![c] = x])
      /\ x \in 1 .. n /\ \A d \in RrCalls : held[d] # x
  <2>1. RrApart(f, made, held) /\ held[c] = 0
    BY <1>1, <1>3, <1>4
  <2> QED
    BY <1>5, <2>1, RrTakeApart
<1>7. /\ rrFree' = [rrFree EXCEPT ![l] = g] /\ rrMade' = [rrMade EXCEPT ![l] = n] /\ o = x
  BY <1>1, <1>4, <1>5 DEF RrRespond, RrTake, RrObject, RrCallTypes
<1>8. /\ rrFree'[l] = g /\ rrFree'["request"] = rrFree["request"]
      /\ rrMade'[l] = n /\ rrMade'["request"] = rrMade["request"]
      /\ rrFree' \in [RrLists -> Seq(Nat)] /\ rrMade' \in [RrLists -> Nat]
      /\ n \in Nat
  BY <1>1, <1>6, <1>7 DEF RrCallTypes, RrApart, RrLists
<1>9. n <= rrMade[l] + 1
  BY <1>1, <1>4, <1>5
<1>10. PICK r \in RrCallRecords : /\ r.pc = "sending" /\ r.req = rrCall[c].req /\ r.resp = x
                                  /\ rrCall' = [rrCall EXCEPT ![c] = r]
  <2>1. PICK r : r = [rrCall[c] EXCEPT !.pc = "sending", !.resp = x]
    OBVIOUS
  <2>2. x \in Nat
    BY <1>6, <1>8
  <2>3. r \in RrCallRecords /\ r.pc = "sending" /\ r.req = rrCall[c].req /\ r.resp = x
    BY <1>2, <2>1, <2>2 DEF RrCallRecords
  <2>4. rrCall' = [rrCall EXCEPT ![c] = r]
    BY <1>1, <1>7, <2>1 DEF RrCallTypes, RrRespond
  <2> QED
    BY <2>3, <2>4
<1>11. /\ rrCall' \in [RrCalls -> RrCallRecords]
       /\ RrHeld(l)' = [held EXCEPT ![c] = x]
       /\ RrHeld("request")' = [RrHeld("request") EXCEPT ![c] = rrCall[c].req]
  BY <1>1, <1>4, <1>10, RrCallMoves
<1>12. RrHeld("request")' = RrHeld("request")
  BY <1>11 DEF RrHeld
<1>13. /\ Cardinality(RrAnswered) \in Nat
       /\ Cardinality(RrAnswered') = Cardinality(RrAnswered) + 1
       /\ Cardinality(RrCame) <= Cardinality(RrCame')
       /\ Cardinality(RrCame) \in Nat /\ Cardinality(RrCame') \in Nat
       /\ Cardinality(RrCalls) \in Nat /\ Cardinality(RrAnswered') <= Cardinality(RrCalls)
  BY <1>1, <1>2, <1>10, RrCounts
<1>14. rrMade'["request"] <= Cardinality(RrCame') /\ rrMade'[l] <= Cardinality(RrAnswered')
  BY <1>1, <1>8, <1>9, <1>13
<1>15. x \in RrObjects
  BY <1>6, <1>8, <1>13, <1>14 DEF RrObjects
<1>16. PICK ids : ids = [rrId[l] EXCEPT ![x] = {c}]
  OBVIOUS
<1>17. /\ rrId' = [rrId EXCEPT ![l] = ids] /\ ids \in [RrObjects -> SUBSET RrCalls]
       /\ ids[x] = {c} /\ \A y \in RrObjects : y # x => ids[y] = rrId[l][y]
  <2>1. rrId' = [rrId EXCEPT ![l][o] = rrId["request"][rrCall[c].req]]
    BY DEF RrRespond
  <2>2. rrId' = [rrId EXCEPT ![l] = ids]
    BY <1>1, <1>3, <1>7, <1>16, <2>1 DEF RrCallTypes
  <2>3. rrId[l] \in [RrObjects -> SUBSET RrCalls]
    BY <1>1 DEF RrCallTypes
  <2> QED
    BY <1>15, <1>16, <2>2, <2>3
<1>18. /\ rrId' \in [RrLists -> [RrObjects -> SUBSET RrCalls]]
       /\ rrId'[l] = ids /\ rrId'["request"] = rrId["request"]
  BY <1>1, <1>17 DEF RrCallTypes, RrLists
<1>19. RrPlace(c, r, rrId')
  BY <1>3, <1>6, <1>10, <1>17, <1>18 DEF RrPlace
<1>20. RrCallTypes'
  BY <1>1, <1>2, <1>8, <1>11, <1>18 DEF RrCallTypes
<1>21. ASSUME NEW d \in RrCalls, rrCall[d].resp # 0
       PROVE  rrId'[l][rrCall[d].resp] = rrId[l][rrCall[d].resp]
  <2>1. PICK y : y = held[d]
    OBVIOUS
  <2>2. y = rrCall[d].resp /\ y # x /\ y # 0
    BY <1>4, <1>6, <1>21, <2>1 DEF RrHeld
  <2>3. y \in Nat /\ y <= made /\ made \in Nat
    BY <1>1, <1>4, <2>1 DEF RrApart
  <2>4. made <= Cardinality(RrCalls)
    BY <1>1, <1>4, <1>13
  <2>5. y \in RrObjects
    BY <1>13, <2>2, <2>3, <2>4 DEF RrObjects
  <2> QED
    BY <1>17, <1>18, <2>2, <2>5
<1>22. /\ RrApart(rrFree'[l], rrMade'[l], RrHeld(l)')
       /\ RrApart(rrFree'["request"], rrMade'["request"], RrHeld("request")')
  BY <1>1, <1>6, <1>8, <1>11, <1>12
<1>23. \A d \in RrCalls : rrAnswer'[d] \subseteq {d}
  BY <1>1, <1>2
<1> QED
  BY <1>10, <1>14, <1>18, <1>19, <1>20, <1>21, <1>22, <1>23, RrCallKeeps

(* The write gives the response back.                                      *)
LEMMA RrWriteKeeps ==
  ASSUME RrCallsInv, NEW c \in RrCalls, RrWrite(c)
  PROVE  RrCallsInv'
<1> DEFINE l == "response"
<1>1. /\ RrCallTypes /\ RrApart(rrFree[l], rrMade[l], RrHeld(l)) /\ l \in RrLists
      /\ RrApart(rrFree["request"], rrMade["request"], RrHeld("request"))
      /\ rrMade["request"] <= Cardinality(RrCame) /\ rrMade[l] <= Cardinality(RrAnswered)
      /\ \A d \in RrCalls : rrAnswer[d] \subseteq {d}
      /\ rrMade[l] \in Nat /\ rrMade["request"] \in Nat
  BY DEF RrCallsInv, RrLists, RrCallTypes
<1>2. /\ rrCall[c] \in RrCallRecords /\ rrCall[c].pc = "sending"
      /\ RrPlace(c, rrCall[c], rrId) /\ UNCHANGED <<rrMade, rrId>>
  BY <1>1 DEF RrWrite, RrCallTypes, RrCallsInv
<1>3. PICK r : r = [rrCall[c] EXCEPT !.pc = "sent", !.resp = 0]
  OBVIOUS
<1>4. r \in RrCallRecords /\ r.req = rrCall[c].req /\ r.resp = 0 /\ r.pc = "sent"
  BY <1>2, <1>3 DEF RrCallRecords
<1>5. rrCall' = [rrCall EXCEPT ![c] = r]
  BY <1>1, <1>3 DEF RrWrite, RrCallTypes
<1>6. PICK f, made, held, o : /\ f = rrFree[l] /\ made = rrMade[l] /\ held = RrHeld(l)
                              /\ o = rrCall[c].resp
  OBVIOUS
<1>7. held[c] = o /\ o # 0 /\ rrId[l][o] = {c}
  BY <1>2, <1>6 DEF RrPlace, RrHeld
<1>8. PICK g : g = <<o>> \o f
  OBVIOUS
<1>9. RrApart(g, made, [held EXCEPT ![c] = 0])
  BY <1>1, <1>6, <1>7, <1>8, RrGiveApart
<1>10. rrFree' = [rrFree EXCEPT ![l] = g] /\ rrAnswer' = [rrAnswer EXCEPT ![c] = {c}]
  BY <1>1, <1>6, <1>7, <1>8 DEF RrWrite, RrGive, RrCallTypes
<1>11. /\ rrFree'[l] = g /\ rrFree'["request"] = rrFree["request"]
       /\ rrFree' \in [RrLists -> Seq(Nat)] /\ rrAnswer' \in [RrCalls -> SUBSET RrCalls]
       /\ \A d \in RrCalls : rrAnswer'[d] \subseteq {d}
  BY <1>1, <1>9, <1>10 DEF RrCallTypes, RrApart, RrLists
<1>12. /\ rrCall' \in [RrCalls -> RrCallRecords]
       /\ RrHeld(l)' = [held EXCEPT ![c] = 0]
       /\ RrHeld("request")' = [RrHeld("request") EXCEPT ![c] = rrCall[c].req]
  BY <1>1, <1>4, <1>5, <1>6, RrCallMoves
<1>13. RrHeld("request")' = RrHeld("request")
  BY <1>12 DEF RrHeld
<1>14. RrPlace(c, r, rrId')
  BY <1>2, <1>4 DEF RrPlace
<1>15. RrCallTypes'
  BY <1>1, <1>2, <1>11, <1>12 DEF RrCallTypes
<1>16. rrMade'["request"] <= Cardinality(RrCame') /\ rrMade'[l] <= Cardinality(RrAnswered')
  <2>1. /\ Cardinality(RrCame) \in Nat /\ Cardinality(RrCame') \in Nat
        /\ Cardinality(RrAnswered) \in Nat /\ Cardinality(RrAnswered') \in Nat
        /\ Cardinality(RrCame) <= Cardinality(RrCame')
        /\ Cardinality(RrAnswered) <= Cardinality(RrAnswered')
    BY <1>1, <1>2, <1>4, <1>5, RrCounts
  <2> QED
    BY <1>1, <1>2, <2>1
<1>17. /\ RrApart(rrFree'[l], rrMade'[l], RrHeld(l)')
       /\ RrApart(rrFree'["request"], rrMade'["request"], RrHeld("request")')
  BY <1>1, <1>2, <1>6, <1>9, <1>11, <1>12, <1>13
<1> QED
  BY <1>2, <1>4, <1>5, <1>11, <1>14, <1>15, <1>16, <1>17, RrCallKeeps

(* The methods and the handlers that were accepted can be used.            *)
RrAccepted ==
  /\ \A mt \in rrHandled : mt \in RrMethods /\ RrPrepared(mt)
  /\ \A mt \in rrSigs : mt \in RrMethods /\ RrValidSubscriber(mt)

(* Every step of the calls keeps their invariant.                          *)
LEMMA RrCallsStep ==
  ASSUME RrCallsInv, RrAccepted, RouterCallsNext
  PROVE  RrCallsInv' /\ RrAccepted' /\ UNCHANGED <<rrSubs, rrSigs, rrMsg>>
<1>1. CASE RrHandle
  <2>1. UNCHANGED <<rrFree, rrMade, rrId, rrCall, rrAnswer, rrSubs, rrSigs, rrMsg>>
    BY <1>1 DEF RrHandle
  <2>2. RrCallsInv'
    BY <2>1 DEF RrCallsInv, RrCallTypes, RrHeld, RrCame, RrAnswered
  <2>3. RrAccepted'
    BY <1>1, <2>1 DEF RrHandle, RrAccepted
  <2> QED
    BY <2>1, <2>2, <2>3
<1>2. ASSUME NEW c \in RrCalls,
             \/ RrReadHeader(c) \/ RrReject(c) \/ RrInvoke(c)
             \/ RrCallDone(c) \/ RrRespond(c) \/ RrWrite(c)
      PROVE  RrCallsInv' /\ RrAccepted' /\ UNCHANGED <<rrSubs, rrSigs, rrMsg>>
  <2>1. UNCHANGED <<rrHandled, rrSubs, rrSigs, rrMsg>>
    BY <1>2 DEF RrReadHeader, RrReject, RrInvoke, RrCallDone, RrRespond, RrWrite
  <2>2. RrCallsInv'
    BY <1>2, RrReadHeaderKeeps, RrEndKeeps, RrInvokeKeeps, RrRespondKeeps, RrWriteKeeps
  <2> QED
    BY <2>1, <2>2 DEF RrAccepted
<1> QED
  BY <1>1, <1>2 DEF RouterCallsNext

(* The handlers of the first n subscribers, and what messages keep.        *)
RrAll(subs, n) == {<<subs[i], k>> : i \in 1 .. n, k \in 0 .. (RrHandlers - 1)}
RrPairs == RrSubscribers \X {0, 1}
RrMsgRecords == [pc : {"new", "running", "done", "error"}, todo : Seq(RrPairs),
                 ran : SUBSET RrPairs, errs : SUBSET RrPairs]

(* A message that runs has run, or has still to run, the handlers of the   *)
(* subscribers that it found.                                              *)
RrProgress(r, subs) ==
  /\ r.pc = "new" => r.ran = {}
  /\ r.pc = "running" => \E n \in 0 .. Len(subs) : r.ran \cup Range(r.todo) = RrAll(subs, n)
  /\ r.pc = "done" => \E n \in 0 .. Len(subs) : r.ran = RrAll(subs, n)

(* The inductive invariant of the messages.                                *)
RrMessagesInv ==
  /\ rrSubs \in Seq(RrSubscribers)
  /\ rrMsg \in [RrMessages -> RrMsgRecords]
  /\ \A m \in RrMessages : RrProgress(rrMsg[m], rrSubs)

(* No message was published yet.                                           *)
LEMMA RrMessagesStart == RouterInit => RrMessagesInv /\ RrAccepted
<1> SUFFICES ASSUME RouterInit PROVE RrMessagesInv /\ RrAccepted
  OBVIOUS
<1>1. <<>> \in Seq(RrSubscribers) /\ <<>> \in Seq(RrPairs)
  OBVIOUS
<1>2. PICK r : r = [pc |-> "new", todo |-> <<>>, ran |-> {}, errs |-> {}]
  OBVIOUS
<1>3. r \in RrMsgRecords /\ RrProgress(r, rrSubs)
  BY <1>1, <1>2 DEF RrMsgRecords, RrProgress
<1>4. rrMsg = [m \in RrMessages |-> r] /\ rrSubs = <<>> /\ rrHandled = {} /\ rrSigs = {}
  BY <1>2 DEF RouterInit
<1> QED
  BY <1>1, <1>3, <1>4 DEF RrMessagesInv, RrAccepted

(* Another subscriber does not change the first ones.                      *)
LEMMA RrSubscribeKeeps ==
  ASSUME RrMessagesInv, RrAccepted, NEW s \in RrSubscribers, RrSubscribe(s)
  PROVE  RrMessagesInv' /\ RrAccepted'
<1>1. /\ rrSubs \in Seq(RrSubscribers) /\ rrSubs' = Append(rrSubs, s)
      /\ UNCHANGED <<rrMsg, rrHandled>>
  BY DEF RrMessagesInv, RrSubscribe, rrCallVars
<1>2. /\ rrSubs' \in Seq(RrSubscribers) /\ Len(rrSubs') = Len(rrSubs) + 1 /\ Len(rrSubs) \in Nat
      /\ \A i \in 1 .. Len(rrSubs) : rrSubs'[i] = rrSubs[i]
  BY <1>1
<1>3. ASSUME NEW n \in 0 .. Len(rrSubs)
      PROVE  n \in 0 .. Len(rrSubs') /\ RrAll(rrSubs', n) = RrAll(rrSubs, n)
  <2>1. n \in 0 .. Len(rrSubs') /\ 1 .. n \subseteq 1 .. Len(rrSubs)
    BY <1>2
  <2>2. \A i \in 1 .. n : rrSubs'[i] = rrSubs[i]
    BY <1>2, <2>1
  <2> QED
    BY <2>1, <2>2 DEF RrAll
<1>4. ASSUME NEW m \in RrMessages PROVE RrProgress(rrMsg'[m], rrSubs')
  <2>1. RrProgress(rrMsg[m], rrSubs) /\ rrMsg'[m] = rrMsg[m]
    BY <1>1 DEF RrMessagesInv
  <2> QED
    BY <1>3, <2>1 DEF RrProgress
<1>5. RrAccepted'
  BY <1>1 DEF RrAccepted, RrSubscribe
<1> QED
  BY <1>1, <1>2, <1>4, <1>5 DEF RrMessagesInv

(* A step of one message.                                                  *)
LEMMA RrMessageMoves ==
  ASSUME RrMessagesInv, NEW m \in RrMessages, NEW r \in RrMsgRecords,
         rrMsg' = [rrMsg EXCEPT ![m] = r], UNCHANGED rrSubs, RrProgress(r, rrSubs)
  PROVE  RrMessagesInv'
<1>1. /\ rrMsg' \in [RrMessages -> RrMsgRecords] /\ rrMsg'[m] = r
      /\ \A x \in RrMessages : x # m => rrMsg'[x] = rrMsg[x]
  BY DEF RrMessagesInv
<1>2. \A x \in RrMessages : RrProgress(rrMsg'[x], rrSubs')
  BY <1>1 DEF RrMessagesInv
<1> QED
  BY <1>1, <1>2 DEF RrMessagesInv

(* ProcessMessage.                                                         *)
LEMMA RrProcessKeeps ==
  ASSUME RrMessagesInv, NEW m \in RrMessages, RrProcess(m)
  PROVE  RrMessagesInv'
<1>1. /\ rrSubs \in Seq(RrSubscribers) /\ UNCHANGED rrSubs /\ rrMsg[m] \in RrMsgRecords
      /\ RrProgress(rrMsg[m], rrSubs) /\ rrMsg[m].pc = "new" /\ Len(rrSubs) \in Nat
      /\ \A i \in 1 .. Len(rrSubs) : rrSubs[i] \in RrSubscribers
  BY DEF RrMessagesInv, RrProcess
<1>2. PICK todo : todo = [i \in 1 .. (2 * Len(rrSubs)) |-> <<rrSubs[((i - 1) \div 2) + 1], i % 2>>]
  OBVIOUS
<1>3. PICK r : r = [rrMsg[m] EXCEPT !.pc = "running", !.todo = todo]
  OBVIOUS
<1>4. rrMsg' = [rrMsg EXCEPT ![m] = r]
  BY <1>2, <1>3 DEF RrProcess, RrHandlers, RrMessagesInv
<1>5. \A i \in 1 .. (2 * Len(rrSubs)) :
        ((i - 1) \div 2) + 1 \in 1 .. Len(rrSubs) /\ i % 2 \in {0, 1}
  BY <1>1
<1>6. todo \in Seq(RrPairs)
  <2>1. \A i \in 1 .. (2 * Len(rrSubs)) : <<rrSubs[((i - 1) \div 2) + 1], i % 2>> \in RrPairs
    BY <1>1, <1>5 DEF RrPairs
  <2>2. 2 * Len(rrSubs) \in Nat
    BY <1>1
  <2> QED
    BY <1>2, <2>1, <2>2
<1>7. Range(todo) = RrAll(rrSubs, Len(rrSubs))
  <2>1. ASSUME NEW e \in Range(todo) PROVE e \in RrAll(rrSubs, Len(rrSubs))
    <3>1. PICK i \in 1 .. (2 * Len(rrSubs)) : e = <<rrSubs[((i - 1) \div 2) + 1], i % 2>>
      BY <1>2, <2>1 DEF Range
    <3>2. i % 2 \in 0 .. 1 /\ ((i - 1) \div 2) + 1 \in 1 .. Len(rrSubs)
      BY <1>5
    <3> QED
      BY <3>1, <3>2 DEF RrAll, RrHandlers
  <2>2. ASSUME NEW i \in 1 .. Len(rrSubs), NEW k \in 0 .. 1
        PROVE  <<rrSubs[i], k>> \in Range(todo)
    <3>1. PICK j \in 1 .. (2 * Len(rrSubs)) : ((j - 1) \div 2) + 1 = i /\ j % 2 = k
      <4>1. CASE k = 0
        <5>1. /\ 2 * i \in 1 .. (2 * Len(rrSubs)) /\ ((2 * i - 1) \div 2) + 1 = i
              /\ (2 * i) % 2 = 0
          BY <1>1
        <5> QED
          BY <4>1, <5>1
      <4>2. CASE k = 1
        <5>1. /\ 2 * i - 1 \in 1 .. (2 * Len(rrSubs)) /\ ((2 * i - 1 - 1) \div 2) + 1 = i
              /\ (2 * i - 1) % 2 = 1
          BY <1>1
        <5> QED
          BY <4>2, <5>1
      <4> QED
        BY <4>1, <4>2
    <3>2. todo[j] = <<rrSubs[i], k>> /\ j \in DOMAIN todo
      BY <1>2, <3>1
    <3> QED
      BY <3>2 DEF Range
  <2>3. ASSUME NEW e \in RrAll(rrSubs, Len(rrSubs)) PROVE e \in Range(todo)
    <3>1. PICK i \in 1 .. Len(rrSubs), k \in 0 .. 1 : e = <<rrSubs[i], k>>
      BY <2>3 DEF RrAll, RrHandlers
    <3> QED
      BY <2>2, <3>1
  <2> QED
    BY <2>1, <2>3
<1>8. r \in RrMsgRecords /\ r.pc = "running" /\ r.todo = todo /\ r.ran = {}
  BY <1>1, <1>3, <1>6 DEF RrMsgRecords, RrProgress
<1>9. RrProgress(r, rrSubs)
  BY <1>1, <1>7, <1>8 DEF RrProgress
<1> QED
  BY <1>1, <1>4, <1>8, <1>9, RrMessageMoves

(* A handler runs, or ends the message.                                    *)
LEMMA RrHandlerKeeps ==
  ASSUME RrMessagesInv, NEW m \in RrMessages, RrHandler(m)
  PROVE  RrMessagesInv'
<1>1. /\ UNCHANGED rrSubs /\ rrMsg[m] \in RrMsgRecords /\ RrProgress(rrMsg[m], rrSubs)
      /\ rrMsg[m].pc = "running" /\ rrMsg[m].todo # <<>>
  BY DEF RrMessagesInv, RrHandler
<1>2. PICK todo, ran : todo = rrMsg[m].todo /\ ran = rrMsg[m].ran
  OBVIOUS
<1>3. todo \in Seq(RrPairs) /\ ran \in SUBSET RrPairs /\ todo # <<>>
  BY <1>1, <1>2 DEF RrMsgRecords
<1>4. /\ Head(todo) \in RrPairs /\ Tail(todo) \in Seq(RrPairs)
      /\ Range(todo) = {Head(todo)} \cup Range(Tail(todo))
  <2>1. Head(todo) \in RrPairs /\ Tail(todo) \in Seq(RrPairs)
    BY <1>3
  <2>2. Head(todo) = todo[1] /\ 1 \in DOMAIN todo /\ DOMAIN todo = 1 .. Len(todo) /\ Len(todo) \in Nat
    BY <1>3
  <2>3. \A i \in DOMAIN Tail(todo) : Tail(todo)[i] = todo[i + 1] /\ i + 1 \in DOMAIN todo
    BY <1>3
  <2>4. \A i \in DOMAIN todo : i # 1 => Tail(todo)[i - 1] = todo[i] /\ i - 1 \in DOMAIN Tail(todo)
    BY <1>3
  <2>5. ASSUME NEW e \in Range(todo) PROVE e \in {Head(todo)} \cup Range(Tail(todo))
    <3>1. PICK i \in DOMAIN todo : e = todo[i]
      BY <2>5 DEF Range
    <3>2. CASE i = 1
      BY <2>2, <3>1, <3>2
    <3>3. CASE i # 1
      BY <2>4, <3>1, <3>3 DEF Range
    <3> QED
      BY <3>2, <3>3
  <2>6. Head(todo) \in Range(todo)
    BY <2>2 DEF Range
  <2>7. Range(Tail(todo)) \subseteq Range(todo)
    BY <2>3 DEF Range
  <2> QED
    BY <2>1, <2>5, <2>6, <2>7
<1>5. ASSUME NEW failed \in BOOLEAN, NEW h, h = Head(todo),
             rrMsg' = [rrMsg EXCEPT ![m].todo = Tail(@), ![m].ran = @ \cup {h},
                                    ![m].errs = IF failed THEN @ \cup {h} ELSE @]
      PROVE  RrMessagesInv'
  <2>1. PICK errs \in SUBSET RrPairs :
          errs = IF failed THEN rrMsg[m].errs \cup {h} ELSE rrMsg[m].errs
    BY <1>1, <1>4, <1>5 DEF RrMsgRecords
  <2>2. PICK r : r = [rrMsg[m] EXCEPT !.todo = Tail(todo), !.ran = ran \cup {h}, !.errs = errs]
    OBVIOUS
  <2>3. /\ r \in RrMsgRecords /\ r.pc = "running" /\ r.todo = Tail(todo)
        /\ r.ran = ran \cup {h}
    BY <1>1, <1>3, <1>4, <1>5, <2>1, <2>2 DEF RrMsgRecords
  <2>4. rrMsg' = [rrMsg EXCEPT ![m] = r]
    BY <1>2, <1>5, <2>1, <2>2 DEF RrMessagesInv
  <2>5. r.ran \cup Range(r.todo) = ran \cup Range(todo)
    BY <1>4, <1>5, <2>3
  <2>6. RrProgress(r, rrSubs)
    BY <1>1, <1>2, <2>3, <2>5 DEF RrProgress
  <2> QED
    BY <1>1, <2>3, <2>4, <2>6, RrMessageMoves
<1>6. CASE rrMsg' = [rrMsg EXCEPT ![m].pc = "error"]
  <2>1. PICK r : r = [rrMsg[m] EXCEPT !.pc = "error"]
    OBVIOUS
  <2>2. r \in RrMsgRecords /\ r.pc = "error" /\ rrMsg' = [rrMsg EXCEPT ![m] = r]
    BY <1>1, <1>6, <2>1 DEF RrMsgRecords, RrMessagesInv
  <2>3. RrProgress(r, rrSubs)
    BY <2>2 DEF RrProgress
  <2> QED
    BY <1>1, <2>2, <2>3, RrMessageMoves
<1> QED
  BY <1>2, <1>5, <1>6 DEF RrHandler

(* The last handler has run.                                               *)
LEMMA RrProcessedKeeps ==
  ASSUME RrMessagesInv, NEW m \in RrMessages, RrProcessed(m)
  PROVE  RrMessagesInv'
<1>1. /\ UNCHANGED rrSubs /\ rrMsg[m] \in RrMsgRecords /\ RrProgress(rrMsg[m], rrSubs)
      /\ rrMsg[m].pc = "running" /\ rrMsg[m].todo = <<>>
  BY DEF RrMessagesInv, RrProcessed
<1>2. PICK pc \in {"error", "done"} : pc = IF rrMsg[m].errs # {} THEN "error" ELSE "done"
  OBVIOUS
<1>3. PICK r : r = [rrMsg[m] EXCEPT !.pc = pc]
  OBVIOUS
<1>4. /\ r \in RrMsgRecords /\ r.pc = pc /\ r.ran = rrMsg[m].ran
      /\ rrMsg' = [rrMsg EXCEPT ![m] = r]
  BY <1>1, <1>2, <1>3 DEF RrMsgRecords, RrMessagesInv, RrProcessed
<1>5. rrMsg[m].ran \cup Range(rrMsg[m].todo) = rrMsg[m].ran
  <2>1. Range(<<>>) = {}
    BY DEF Range
  <2> QED
    BY <1>1, <2>1
<1>6. RrProgress(r, rrSubs)
  BY <1>1, <1>2, <1>4, <1>5 DEF RrProgress
<1> QED
  BY <1>1, <1>4, <1>6, RrMessageMoves

(* A list without repetition is as long as the set of its elements.        *)
LEMMA RrNoRepetition ==
  ASSUME NEW f \in Seq(Nat), \A i, j \in 1 .. Len(f) : f[i] = f[j] => i = j
  PROVE  Cardinality(Range(f)) = Len(f)
<1>1. DOMAIN f = 1 .. Len(f) /\ Len(f) \in Nat
  OBVIOUS
<1>2. f \in [1 .. Len(f) -> Range(f)] /\ \A x \in Range(f) : \E i \in 1 .. Len(f) : f[i] = x
  BY <1>1 DEF Range
<1>3. f \in Bijection(1 .. Len(f), Range(f))
  BY <1>1, <1>2 DEF Bijection, Injection, Surjection, IsInjective
<1>4. ExistsBijection(1 .. Len(f), Range(f))
  BY <1>3 DEF ExistsBijection
<1> QED
  BY <1>1, <1>4, FS_CountingElements

(* The invariants give the property.                                       *)
LEMMA RrInvAnswers == RrCallsInv /\ RrMessagesInv /\ RrAccepted => RouterAnswersOwn
<1> SUFFICES ASSUME RrCallsInv, RrMessagesInv, RrAccepted PROVE RouterAnswersOwn
  OBVIOUS
<1>1. ASSUME NEW l \in RrLists
      PROVE  /\ \A c, d \in RrCalls :
                  RrHeld(l)[c] # 0 => /\ c # d => RrHeld(l)[c] # RrHeld(l)[d]
                                      /\ ~Contains(rrFree[l], RrHeld(l)[c])
             /\ Cardinality(Range(rrFree[l])) = Len(rrFree[l])
  <2>1. PICK f, made, held : f = rrFree[l] /\ made = rrMade[l] /\ held = RrHeld(l)
    OBVIOUS
  <2>2. RrApart(f, made, held)
    BY <2>1 DEF RrCallsInv
  <2>3. f \in Seq(Nat) /\ \A i, j \in 1 .. Len(f) : f[i] = f[j] => i = j
    BY <2>2 DEF RrApart
  <2>4. Cardinality(Range(f)) = Len(f)
    BY <2>3, RrNoRepetition
  <2>5. \A c, d \in RrCalls : held[c] # 0 /\ c # d => held[c] # held[d]
    BY <2>2 DEF RrApart
  <2>6. \A c \in RrCalls : held[c] # 0 => ~Contains(f, held[c])
    BY <2>2 DEF RrApart, Contains
  <2> QED
    BY <2>1, <2>4, <2>5, <2>6
<1>2. \A c \in RrCalls : rrAnswer[c] \subseteq {c}
  BY DEF RrCallsInv
<1>3. ASSUME NEW m \in RrMessages, rrMsg[m].pc = "done"
      PROVE  \E n \in 0 .. Len(rrSubs) :
               rrMsg[m].ran = {<<rrSubs[i], k>> : i \in 1 .. n, k \in 0 .. (RrHandlers - 1)}
  <2>1. PICK r : r = rrMsg[m]
    OBVIOUS
  <2>2. RrProgress(r, rrSubs) /\ r.pc = "done"
    BY <1>3, <2>1 DEF RrMessagesInv
  <2>3. PICK n \in 0 .. Len(rrSubs) : r.ran = RrAll(rrSubs, n)
    BY <2>2 DEF RrProgress
  <2>4. r.ran = {<<rrSubs[i], k>> : i \in 1 .. n, k \in 0 .. (RrHandlers - 1)}
    BY <2>3 DEF RrAll
  <2> QED
    BY <2>1, <2>3, <2>4
<1>4. ASSUME NEW mt \in rrHandled
      PROVE  /\ RrAdvertised(mt)
             /\ (mt.streams => mt.last = "interface") =>
                  (RrAdvertisedStream(mt) <=> mt.ins = 3)
  <2>1. mt \in RrMethods /\ RrPrepared(mt)
    BY <1>4 DEF RrAccepted
  <2> QED
    BY <2>1 DEF RrPrepared, RrAdvertised, RrAdvertisedStream, RrMethods
<1>5. ASSUME NEW mt \in rrSigs PROVE RrHasRequestType(mt)
  BY <1>5 DEF RrAccepted, RrValidSubscriber, RrHasRequestType
<1> QED
  BY <1>1, <1>2, <1>3, <1>4, <1>5 DEF RouterAnswersOwn

(* The router answers each call with its own answer: for any number of     *)
(* calls, messages and subscribers, objects of the free lists are never    *)
(* shared and an answer carries the id of its request; a message that was  *)
(* processed without error has run every handler that it found.            *)
THEOREM RouterAnswers ==
  RouterInit /\ [][RouterCallsNext \/ RouterMessagesNext]_rrVars => []RouterAnswersOwn
<1> DEFINE Inv == RrCallsInv /\ RrMessagesInv /\ RrAccepted
<1>1. RouterInit => Inv
  BY RrCallsStart, RrMessagesStart
<1>2. Inv /\ [RouterCallsNext \/ RouterMessagesNext]_rrVars => Inv'
  <2> SUFFICES ASSUME Inv, [RouterCallsNext \/ RouterMessagesNext]_rrVars PROVE Inv'
    OBVIOUS
  <2>1. CASE UNCHANGED rrVars
    <3>1. RrCallsInv'
      BY <2>1 DEF rrVars, RrCallsInv, RrCallTypes, RrHeld, RrCame, RrAnswered
    <3>2. RrMessagesInv' /\ RrAccepted'
      BY <2>1 DEF rrVars, RrMessagesInv, RrAccepted
    <3> QED
      BY <3>1, <3>2
  <2>2. CASE RouterCallsNext
    <3>1. RrCallsInv' /\ RrAccepted' /\ UNCHANGED <<rrSubs, rrSigs, rrMsg>>
      BY <2>2, RrCallsStep
    <3>2. RrMessagesInv'
      BY <3>1 DEF RrMessagesInv
    <3> QED
      BY <3>1, <3>2
  <2>3. CASE RouterMessagesNext
    <3>1. UNCHANGED rrCallVars
      BY <2>3 DEF RouterMessagesNext, RrSubscribe, RrProcess, RrHandler, RrProcessed
    <3>2. RrCallsInv'
      BY <3>1 DEF rrCallVars, RrCallsInv, RrCallTypes, RrHeld, RrCame, RrAnswered
    <3>3. ASSUME NEW m \in RrMessages, RrProcess(m) \/ RrHandler(m) \/ RrProcessed(m)
          PROVE  RrMessagesInv' /\ RrAccepted'
      <4>1. UNCHANGED <<rrHandled, rrSigs>>
        BY <3>3 DEF RrProcess, RrHandler, RrProcessed, rrCallVars
      <4>2. RrMessagesInv'
        BY <3>3, RrProcessKeeps, RrHandlerKeeps, RrProcessedKeeps
      <4> QED
        BY <4>1, <4>2 DEF RrAccepted
    <3> QED
      BY <2>3, <3>2, <3>3, RrSubscribeKeeps DEF RouterMessagesNext
  <2> QED
    BY <2>1, <2>2, <2>3
<1>3. Inv => RouterAnswersOwn
  BY RrInvAnswers
<1> QED
  BY <1>1, <1>2, <1>3, PTL

-----------------------------------------------------------------------------
(* The inputs of an exchange, and the codecs.                              *)
CxInputs == [type : CxContentTypes, legacy : BOOLEAN, body : CxBodies,
             reply : CxBodies, fails : BOOLEAN]
CxFields == {"id", "target", "method", "endpoint", "error"}
CxEnveloped == {"jsonrpc", "protorpc"}
CxPlain == {"json", "proto", "bytes"}

(* Both ends choose the same codec, except for octet-stream to an old node.*)
LEMMA CxChoice ==
  ASSUME NEW in \in CxInputs, CxClientCodec(in) # "none"
  PROVE  /\ CxClientCodec(in) \in CxEnveloped \cup CxPlain \cup {"grpc"}
         /\ CxSentType(in) # "none"
         /\ \/ CxNewCodec(CxSentType(in)) = CxClientCodec(in)
            \/ in.legacy /\ in.type = "octet-stream"
         /\ CxClientCodec(in) = "grpc" => in.type \in {"grpc", "grpc+json"} /\ CxSentType(in) = in.type
<1>1. in.type \in CxContentTypes /\ in.legacy \in BOOLEAN
  BY DEF CxInputs
<1>2. CASE ~in.legacy
  BY <1>1, <1>2 DEF CxContentTypes, CxClientCodec, CxSentType, CxNewCodec, CxLegacyCodec, CxOldType,
                    CxEnveloped, CxPlain
<1>3. CASE in.legacy
  BY <1>1, <1>3 DEF CxContentTypes, CxClientCodec, CxSentType, CxNewCodec, CxLegacyCodec, CxOldType,
                    CxEnveloped, CxPlain
<1> QED
  BY <1>1, <1>2, <1>3

(* The headers of a message.                                               *)
LEMMA CxBlankFields == DOMAIN CxBlank = CxFields /\ DOMAIN CxOwn = CxFields
  BY DEF CxBlank, CxOwn, CxFields

(* getHeaders completes a message from the headers,                        *)
LEMMA CxHeadersGot ==
  ASSUME NEW m, NEW h, DOMAIN m = CxFields
  PROVE  /\ DOMAIN CxGetHeaders(m, h) = CxFields
         /\ \A f \in CxFields : CxGetHeaders(m, h)[f] = IF m[f] # NoText THEN m[f] ELSE h[f]
  BY DEF CxGetHeaders

(* and setHeaders writes what the message has over them.                   *)
LEMMA CxHeadersSet ==
  ASSUME NEW m, NEW h, DOMAIN h = CxFields
  PROVE  /\ DOMAIN CxSetHeaders(h, m) = CxFields
         /\ \A f \in CxFields : CxSetHeaders(h, m)[f] = IF m[f] # NoText THEN m[f] ELSE h[f]
  BY DEF CxSetHeaders

(* The bytes of a request.                                                 *)
CxRequestBytes(in) ==
  IF in.body = "frame" THEN [env |-> CxNoEnvelope, data |-> "frame"]
  ELSE IF in.body = "bad" THEN CxNothing
  ELSE [env |-> IF CxClientCodec(in) \in CxEnveloped
                THEN CxEnvelope(CxOwn.method, CxOwn.id, NoText) ELSE CxNoEnvelope,
        data |-> "value"]

(* A request on the wire.                                                  *)
CxRequestSent(in, w) ==
  /\ w.type = CxSentType(in) /\ w.header = CxOwn /\ w.body = CxRequestBytes(in)
  /\ in.body = "bad" => CxClientCodec(in) = "grpc"

(* What the client's codec writes is that request, or nothing is sent.     *)
LEMMA CxWritten ==
  ASSUME NEW in \in CxInputs, CxClientCodec(in) # "none", NEW e,
         e = IF in.body = "frame" THEN CxEncoded(CxNoEnvelope, "frame")
             ELSE CxWrite(CxClientCodec(in), in.type, CxOwn, "request", in.body),
         e.ok = TRUE
  PROVE  e.bytes = CxRequestBytes(in) /\ (in.body = "bad" => CxClientCodec(in) = "grpc")
<1>1. in.body \in CxBodies /\ CxClientCodec(in) \in CxEnveloped \cup CxPlain \cup {"grpc"}
  BY CxChoice DEF CxInputs
<1>2. CASE in.body = "frame"
  BY <1>2 DEF CxRequestBytes, CxEncoded
<1>3. CASE in.body # "frame" /\ CxClientCodec(in) = "jsonrpc"
  BY <1>1, <1>3 DEF CxBodies, CxWrite, CxWriteJsonRpc, CxEncoded, CxRefused, CxRequestBytes, CxEnveloped
<1>4. CASE in.body # "frame" /\ CxClientCodec(in) = "protorpc"
  <2>1. in.body = "value"
    BY <1>1, <1>4 DEF CxBodies, CxWrite, CxWriteProtoRpc, CxRefused
  <2>2. CxSeq(CxOwn.id) = CxOwn.id
    BY DEF CxSeq, CxOwn, NoText
  <2> QED
    BY <1>4, <2>1, <2>2 DEF CxWrite, CxWriteProtoRpc, CxEncoded, CxRequestBytes, CxEnveloped
<1>5. CASE in.body # "frame" /\ CxClientCodec(in) = "grpc"
  BY <1>1, <1>5 DEF CxBodies, CxWrite, CxWriteGrpc, CxEncoded, CxRefused, CxSilent, CxRequestBytes,
                    CxEnveloped
<1>6. CASE in.body # "frame" /\ CxClientCodec(in) \in CxPlain
  BY <1>1, <1>6 DEF CxBodies, CxWrite, CxWritePlain, CxEncoded, CxRefused, CxSilent, CxRequestBytes,
                    CxEnveloped, CxPlain
<1> QED
  BY <1>1, <1>2, <1>3, <1>4, <1>5, <1>6 DEF CxEnveloped

(* What the handler is called with.                                        *)
LEMMA CxServerReads ==
  ASSUME NEW in \in CxInputs, NEW w, CxRequestSent(in, w), NEW k, k = CxClientCodec(in),
         k # "none", NEW read, NEW body,
         read = CxReadHeader(k, CxGetHeaders(CxBlank, w.header), w, "request"),
         body = IF w.body = CxNothing THEN "zero" ELSE CxReadBody(k, w.body),
         ~CxUnreadable(k, w), body # "fail"
  PROVE  /\ read.id = CxOwn.id /\ read.target = CxOwn.target /\ read.endpoint = CxOwn.endpoint
         /\ body = IF in.body = "bad" THEN "zero" ELSE in.body
<1>1. in.body \in CxBodies /\ k \in CxEnveloped \cup CxPlain \cup {"grpc"}
  BY CxChoice DEF CxInputs
<1>2. PICK m : m = CxGetHeaders(CxBlank, w.header)
  OBVIOUS
<1>3. /\ m = [f \in CxFields |-> CxOwn[f]]
      /\ m.id = CxOwn.id /\ m.target = CxOwn.target /\ m.endpoint = CxOwn.endpoint
  <2>1. \A f \in CxFields : CxBlank[f] = NoText
    BY DEF CxBlank, CxFields
  <2>2. m = [f \in CxFields |-> CxOwn[f]]
    BY <1>2, <2>1, CxBlankFields DEF CxGetHeaders, CxRequestSent
  <2> QED
    BY <2>2 DEF CxFields
<1>4. PICK b : b = w.body
  OBVIOUS
<1>5. b = CxRequestBytes(in)
  BY <1>4 DEF CxRequestSent
<1>6. body = IF in.body = "bad" THEN "zero" ELSE in.body
  <2>1. CASE in.body = "bad"
    BY <1>4, <1>5, <2>1 DEF CxRequestBytes
  <2>2. CASE in.body # "bad"
    <3>1. b.data = in.body /\ b.data \notin {"none", "nil", "fail"} /\ b # CxNothing
      BY <1>1, <1>5, <2>2 DEF CxRequestBytes, CxBodies, CxNothing
    <3>2. body = CxReadBody(k, b)
      BY <1>4, <3>1
    <3> QED
      BY <2>2, <3>1, <3>2 DEF CxReadBody
  <2> QED
    BY <2>1, <2>2
<1>7. CASE k \in CxEnveloped
  <2>1. b.env.has = TRUE
    BY <1>4, <1>7 DEF CxUnreadable, CxEnveloped
  <2>2. in.body = "value"
    BY <1>1, <1>5, <2>1 DEF CxRequestBytes, CxBodies, CxNothing, CxNoEnvelope, CxEnvelope
  <2>3. b.env.id = CxOwn.id
    BY <1>5, <1>7, <2>2 DEF CxRequestBytes, CxEnvelope
  <2>4. CASE k = "jsonrpc"
    <3>1. read = CxReadJsonRpc(m, b.env, "request")
      BY <1>2, <1>4, <2>4 DEF CxReadHeader
    <3> QED
      BY <1>3, <1>6, <2>3, <3>1 DEF CxReadJsonRpc, CxFields
  <2>5. CASE k = "protorpc"
    <3>1. read = CxReadProtoRpc(m, b.env, "request")
      BY <1>2, <1>4, <2>5 DEF CxReadHeader
    <3> QED
      BY <1>3, <1>6, <2>3, <3>1 DEF CxReadProtoRpc, CxFields
  <2> QED
    BY <1>7, <2>4, <2>5 DEF CxEnveloped
<1>8. CASE k = "grpc"
  <2>1. read = CxReadGrpc(m, w)
    BY <1>2, <1>8 DEF CxReadHeader
  <2> QED
    BY <1>3, <1>6, <2>1 DEF CxReadGrpc, CxFields, CxRequestSent
<1>9. CASE k \in CxPlain
  <2>1. read = m
    BY <1>2, <1>9 DEF CxReadHeader, CxPlain
  <2> QED
    BY <1>3, <1>6, <2>1
<1> QED
  BY <1>1, <1>7, <1>8, <1>9

(* What the client makes of an answer w.                                   *)
CxResult(k, w) ==
  LET read == CxGetHeaders(CxReadHeader(k, CxBlank, w, "response"), w.header)
      body == CxReadBody(k, w.body)
  IN  IF w = CxNoWire THEN CxFails("timeout", NoText)
      ELSE IF CxUnreadable(k, w) THEN CxFails("EOF", CxGetHeaders(CxBlank, w.header).id)
      ELSE IF read.error # NoText THEN CxFails(read.error, read.id)
      ELSE IF body = "fail" THEN CxFails("EOF", read.id)
      ELSE [kind |-> "ok", text |-> body, id |-> read.id]

(* A readable answer, and the error and id that the client finds in it.    *)
CxAnswerHas(k, w, error, id) ==
  /\ w.type # "none" /\ w.header.error = error /\ w.header.id = id
  /\ k \in CxEnveloped => /\ w.body.env.has = TRUE /\ w.body.env.error = error
                          /\ w.body.env.id \in {id, NoText, "0"}

(* The client finds them.                                                  *)
LEMMA CxReadBack ==
  ASSUME NEW k \in CxEnveloped \cup CxPlain \cup {"grpc"}, NEW w, NEW error, NEW id,
         CxAnswerHas(k, w, error, id), NEW read,
         read = CxGetHeaders(CxReadHeader(k, CxBlank, w, "response"), w.header)
  PROVE  /\ w # CxNoWire /\ ~CxUnreadable(k, w) /\ read.error = error
         /\ k \in CxEnveloped /\ w.body.env.id = id => read.id = id
         /\ k \notin CxEnveloped => read.id = id
<1>1. w # CxNoWire /\ ~CxUnreadable(k, w)
  BY DEF CxAnswerHas, CxNoWire, CxWire, CxUnreadable, CxEnveloped
<1>2. PICK h, env : h = w.header /\ env = w.body.env
  OBVIOUS
<1>3. h.error = error /\ h.id = id
  BY <1>2 DEF CxAnswerHas
<1>4. /\ DOMAIN CxBlank = CxFields /\ CxBlank.error = NoText /\ CxBlank.id = NoText
      /\ "error" \in CxFields /\ "id" \in CxFields
  BY CxBlankFields DEF CxBlank, CxFields
<1>5. PICK m : m = CxReadHeader(k, CxBlank, w, "response")
  OBVIOUS
<1>6. /\ DOMAIN m = CxFields
      /\ k \in CxEnveloped => m.error = error /\ m.id = env.id
      /\ k \notin CxEnveloped => m.error = NoText /\ m.id = NoText
  <2>1. CASE k = "jsonrpc"
    <3>1. m = CxReadJsonRpc(CxBlank, env, "response") /\ env.error = error
      BY <1>2, <1>5, <2>1 DEF CxReadHeader, CxAnswerHas, CxEnveloped
    <3> QED
      BY <1>4, <2>1, <3>1 DEF CxReadJsonRpc, CxEnveloped
  <2>2. CASE k = "protorpc"
    <3>1. m = CxReadProtoRpc(CxBlank, env, "response") /\ env.error = error
      BY <1>2, <1>5, <2>2 DEF CxReadHeader, CxAnswerHas, CxEnveloped
    <3> QED
      BY <1>4, <2>2, <3>1 DEF CxReadProtoRpc, CxEnveloped
  <2>3. CASE k = "grpc"
    <3>1. m = CxReadGrpc(CxBlank, w)
      BY <1>5, <2>3 DEF CxReadHeader
    <3> QED
      BY <1>4, <2>3, <3>1 DEF CxReadGrpc, CxEnveloped
  <2>4. CASE k \in CxPlain
    BY <1>4, <1>5, <2>4 DEF CxReadHeader, CxPlain, CxEnveloped
  <2> QED
    BY <2>1, <2>2, <2>3, <2>4 DEF CxEnveloped
<1>7. \A f \in CxFields : read[f] = IF m[f] # NoText THEN m[f] ELSE h[f]
  BY <1>2, <1>5, <1>6, CxHeadersGot
<1>8. /\ read.error = IF m.error # NoText THEN m.error ELSE h.error
      /\ read.id = IF m.id # NoText THEN m.id ELSE h.id
  BY <1>4, <1>7
<1> QED
  BY <1>1, <1>2, <1>3, <1>6, <1>8

(* An error that the server writes is the error that the client returns;   *)
(* with octet-stream it is not written.                                    *)
LEMMA CxErrorArrives ==
  ASSUME cxIn \in CxInputs, CxRequestSent(cxIn, cxReq), NEW k, k = CxClientCodec(cxIn),
         k # "none", NEW text \in {"read", "fail", "encode"}, NEW w, w = CxErrorWire(k, text)
  PROVE  /\ k = "bytes" => w = CxNoWire
         /\ k # "bytes" => CxAnswerHas(k, w, text, CxOwn.id)
<1>1. /\ k \in CxEnveloped \cup CxPlain \cup {"grpc"} /\ CxSentType(cxIn) # "none"
      /\ cxReq.type = CxSentType(cxIn) /\ cxReq.header = CxOwn
  BY CxChoice DEF CxRequestSent
<1>2. PICK m : m = [CxBlank EXCEPT !.error = text]
  OBVIOUS
<1>3. m.error = text /\ m.id = NoText /\ text # NoText
  BY <1>2 DEF CxBlank, NoText
<1>4. PICK hdr : hdr = CxSetHeaders(CxOwn, m)
  OBVIOUS
<1>5. hdr.error = text /\ hdr.id = CxOwn.id
  <2>1. "error" \in CxFields /\ "id" \in CxFields
    BY DEF CxFields
  <2>2. \A f \in CxFields : hdr[f] = IF m[f] # NoText THEN m[f] ELSE CxOwn[f]
    BY <1>4, CxBlankFields, CxHeadersSet
  <2> QED
    BY <1>3, <2>1, <2>2
<1>6. PICK e : e = CxWrite(k, cxReq.type, m, "error", "nil")
  OBVIOUS
<1>7. /\ e.ok = TRUE => w = CxWire(cxReq.type, hdr, FALSE, e.bytes)
      /\ e.ok = FALSE => w = CxNoWire
  BY <1>1, <1>2, <1>4, <1>6 DEF CxErrorWire, CxServerSent
<1>8. /\ k = "bytes" => e.ok = FALSE
      /\ k # "bytes" => e.ok = TRUE
      /\ k \in CxEnveloped => /\ e.bytes.env.has = TRUE /\ e.bytes.env.error = text
                              /\ e.bytes.env.id \in {NoText, "0"}
  <2>1. CASE k = "jsonrpc"
    BY <1>3, <1>6, <2>1 DEF CxWrite, CxWriteJsonRpc, CxEncoded, CxEnvelope
  <2>2. CASE k = "protorpc"
    BY <1>3, <1>6, <2>2 DEF CxWrite, CxWriteProtoRpc, CxEncoded, CxEnvelope, CxSeq
  <2>3. CASE k = "grpc"
    BY <1>6, <2>3 DEF CxWrite, CxWriteGrpc, CxSilent, CxEnveloped
  <2>4. CASE k \in CxPlain
    BY <1>6, <2>4 DEF CxWrite, CxWritePlain, CxSilent, CxRefused, CxPlain, CxEnveloped
  <2> QED
    BY <1>1, <2>1, <2>2, <2>3, <2>4 DEF CxEnveloped
<1>9. CASE k = "bytes"
  BY <1>7, <1>8, <1>9
<1>10. CASE k # "bytes"
  <2>1. w = CxWire(cxReq.type, hdr, FALSE, e.bytes)
    BY <1>7, <1>8, <1>10
  <2>2. w.type # "none" /\ w.header = hdr /\ w.body = e.bytes
    BY <1>1, <2>1 DEF CxWire
  <2> QED
    BY <1>5, <1>8, <1>10, <2>2 DEF CxAnswerHas
<1> QED
  BY <1>9, <1>10

(* What the client returns for a readable answer,                          *)
LEMMA CxResultRead ==
  ASSUME NEW k \in CxEnveloped \cup CxPlain \cup {"grpc"}, NEW w, NEW error, NEW id,
         CxAnswerHas(k, w, error, id), k \in CxEnveloped /\ error = NoText => w.body.env.id = id,
         NEW body, body = CxReadBody(k, w.body), NEW out, out = CxResult(k, w)
  PROVE  /\ error # NoText => out.kind = "error" /\ out.text = error
         /\ error = NoText /\ body = "fail" => out.kind = "error" /\ out.text = "EOF"
         /\ error = NoText /\ body # "fail" =>
              out.kind = "ok" /\ out.text = body /\ out.id = id
<1>1. PICK read : read = CxGetHeaders(CxReadHeader(k, CxBlank, w, "response"), w.header)
  OBVIOUS
<1>2. /\ w # CxNoWire /\ ~CxUnreadable(k, w) /\ read.error = error
      /\ error = NoText => read.id = id
  BY <1>1, CxReadBack
<1>3. out = IF error # NoText THEN CxFails(error, read.id)
            ELSE IF body = "fail" THEN CxFails("EOF", read.id)
            ELSE [kind |-> "ok", text |-> body, id |-> read.id]
  BY <1>1, <1>2 DEF CxResult
<1> QED
  BY <1>2, <1>3 DEF CxFails

(* and for one without the envelope that its codec asks for.               *)
LEMMA CxResultUnread ==
  ASSUME NEW k \in CxEnveloped, NEW w, w.type # "none", w.body.env = CxNoEnvelope,
         NEW out, out = CxResult(k, w)
  PROVE  out.kind = "error" /\ out.text = "EOF"
<1>1. w # CxNoWire
  BY DEF CxNoWire, CxWire
<1>2. CxUnreadable(k, w)
  BY DEF CxUnreadable, CxEnveloped, CxNoEnvelope, CxEnvelope
<1> QED
  BY <1>1, <1>2 DEF CxResult, CxFails

(* A reply that the server writes is what the client returns, or an error. *)
LEMMA CxReplyArrives ==
  ASSUME cxIn \in CxInputs, CxRequestSent(cxIn, cxReq), NEW k, k = CxClientCodec(cxIn),
         k # "none", NEW m, m = [CxBlank EXCEPT !.id = CxOwn.id], NEW w,
         w = CxServerSent(k, m, "response", CxBlank, cxIn.reply), w # CxNoWire,
         NEW out, out = CxResult(k, w)
  PROVE  /\ out.kind = "ok" => /\ out.id = CxOwn.id
                               /\ out.text = cxIn.reply \/ (cxIn.reply = "bad" /\ k = "protorpc")
         /\ out.text # "timeout"
<1>1. /\ k \in CxEnveloped \cup CxPlain \cup {"grpc"} /\ CxSentType(cxIn) # "none"
      /\ cxReq.type = CxSentType(cxIn) /\ cxIn.reply \in CxBodies
      /\ k = "grpc" => cxReq.type \in {"grpc", "grpc+json"}
  BY CxChoice DEF CxRequestSent, CxInputs
<1>2. m.error = NoText /\ m.id = CxOwn.id /\ CxOwn.id # NoText /\ CxSeq(m.id) = CxOwn.id
  BY DEF CxBlank, NoText, CxOwn, CxSeq
<1>3. PICK hdr : hdr = CxSetHeaders(CxBlank, m)
  OBVIOUS
<1>4. hdr.error = NoText /\ hdr.id = CxOwn.id /\ DOMAIN hdr = CxFields
  <2>1. "error" \in CxFields /\ "id" \in CxFields /\ CxBlank.error = NoText
    BY DEF CxFields, CxBlank
  <2>2. /\ \A f \in CxFields : hdr[f] = IF m[f] # NoText THEN m[f] ELSE CxBlank[f]
        /\ DOMAIN hdr = CxFields
    BY <1>3, CxBlankFields, CxHeadersSet
  <2> QED
    BY <1>2, <2>1, <2>2
<1>5. PICK b : b = cxIn.reply
  OBVIOUS
<1>6. PICK e, e0 : /\ e = IF b = "frame" THEN CxEncoded(CxNoEnvelope, "frame")
                          ELSE CxWrite(k, cxReq.type, m, "response", b)
                  /\ e0 = CxWrite(k, cxReq.type, m, "response", "nil")
  OBVIOUS
<1>7. w = IF e.ok THEN CxWire(cxReq.type, hdr, FALSE, e.bytes)
          ELSE IF e0.ok THEN CxWire(cxReq.type, [hdr EXCEPT !.error = "encode"], FALSE, CxNothing)
          ELSE CxNoWire
  BY <1>3, <1>5, <1>6 DEF CxServerSent
<1>8. CASE e.ok = TRUE
  <2>1. w.type # "none" /\ w.header = hdr /\ w.body = e.bytes
    BY <1>1, <1>7, <1>8 DEF CxWire
  <2>2. CASE b = "frame"
    <3>1. e.bytes.env = CxNoEnvelope /\ e.bytes.data = "frame"
      BY <1>6, <2>2 DEF CxEncoded
    <3>2. CASE k \in CxEnveloped
      BY <2>1, <3>1, <3>2, CxResultUnread
    <3>3. CASE k \notin CxEnveloped
      <4>1. CxAnswerHas(k, w, NoText, CxOwn.id)
        BY <1>4, <2>1, <3>3 DEF CxAnswerHas
      <4>2. CxReadBody(k, w.body) \in {"frame", "fail"}
        BY <2>1, <3>1 DEF CxReadBody
      <4> QED
        BY <1>1, <1>5, <2>2, <3>3, <4>1, <4>2, CxResultRead
    <3> QED
      BY <3>2, <3>3
  <2>3. CASE b = "value"
    <3>1. /\ e.bytes.data = "value"
          /\ k \in CxEnveloped => /\ e.bytes.env.has = TRUE /\ e.bytes.env.error = NoText
                                  /\ e.bytes.env.id = CxOwn.id
      <4>1. CASE k = "jsonrpc"
        BY <1>2, <1>6, <2>3, <4>1 DEF CxWrite, CxWriteJsonRpc, CxEncoded, CxEnvelope
      <4>2. CASE k = "protorpc"
        BY <1>2, <1>6, <2>3, <4>2 DEF CxWrite, CxWriteProtoRpc, CxEncoded, CxEnvelope
      <4>3. CASE k = "grpc"
        BY <1>6, <2>3, <4>3 DEF CxWrite, CxWriteGrpc, CxEncoded, CxEnveloped
      <4>4. CASE k \in CxPlain
        BY <1>6, <2>3, <4>4 DEF CxWrite, CxWritePlain, CxEncoded, CxPlain, CxEnveloped
      <4> QED
        BY <1>1, <4>1, <4>2, <4>3, <4>4 DEF CxEnveloped
    <3>2. CxAnswerHas(k, w, NoText, CxOwn.id) /\ (k \in CxEnveloped => w.body.env.id = CxOwn.id)
      BY <1>4, <2>1, <3>1 DEF CxAnswerHas
    <3>3. CxReadBody(k, w.body) = "value"
      BY <2>1, <3>1 DEF CxReadBody
    <3> QED
      BY <1>1, <1>5, <2>3, <3>2, <3>3, CxResultRead
  <2>4. CASE b = "bad"
    <3>1. k \in {"protorpc", "grpc"}
      BY <1>1, <1>6, <1>8, <2>4
         DEF CxWrite, CxWriteJsonRpc, CxWritePlain, CxRefused, CxPlain, CxEnveloped
    <3>2. CASE k = "protorpc"
      <4>1. /\ e.bytes.data = "nil" /\ e.bytes.env.has = TRUE /\ e.bytes.env.error = NoText
            /\ e.bytes.env.id = CxOwn.id
        BY <1>2, <1>6, <2>4, <3>2 DEF CxWrite, CxWriteProtoRpc, CxEncoded, CxEnvelope
      <4>2. CxAnswerHas(k, w, NoText, CxOwn.id) /\ w.body.env.id = CxOwn.id
        BY <1>4, <2>1, <4>1 DEF CxAnswerHas
      <4>3. CxReadBody(k, w.body) = "zero"
        BY <2>1, <3>2, <4>1 DEF CxReadBody
      <4> QED
        BY <1>1, <1>5, <2>4, <3>2, <4>2, <4>3, CxResultRead
    <3>3. CASE k = "grpc"
      <4>1. e.bytes = CxNothing
        BY <1>1, <1>6, <1>8, <2>4, <3>3 DEF CxWrite, CxWriteGrpc, CxSilent, CxRefused
      <4>2. CxAnswerHas(k, w, NoText, CxOwn.id)
        BY <1>4, <2>1, <3>3 DEF CxAnswerHas, CxEnveloped
      <4>3. CxReadBody(k, w.body) = "fail"
        BY <2>1, <3>3, <4>1 DEF CxReadBody, CxNothing
      <4>4. k \notin CxEnveloped
        BY <3>3 DEF CxEnveloped
      <4> QED
        BY <1>1, <4>2, <4>3, <4>4, CxResultRead
    <3> QED
      BY <3>1, <3>2, <3>3
  <2> QED
    BY <1>1, <1>5, <2>2, <2>3, <2>4 DEF CxBodies
<1>9. CASE e.ok # TRUE
  <2>1. /\ w.type # "none" /\ w.header.error = "encode" /\ w.header.id = CxOwn.id
        /\ w.body = CxNothing
    <3>1. PICK h : h = [hdr EXCEPT !.error = "encode"]
      OBVIOUS
    <3>2. w = CxWire(cxReq.type, h, FALSE, CxNothing)
      BY <1>7, <1>9, <3>1
    <3>3. h.error = "encode" /\ h.id = CxOwn.id
      BY <1>4, <3>1 DEF CxFields
    <3> QED
      BY <1>1, <3>2, <3>3 DEF CxWire
  <2>2. CASE k \in CxEnveloped
    BY <2>1, <2>2, CxResultUnread DEF CxNothing
  <2>3. CASE k \notin CxEnveloped
    <3>1. CxAnswerHas(k, w, "encode", CxOwn.id) /\ "encode" # NoText
      BY <2>1, <2>3 DEF CxAnswerHas, NoText
    <3> QED
      BY <1>1, <3>1, CxResultRead
  <2> QED
    BY <2>2, <2>3
<1> QED
  BY <1>8, <1>9

(* What the property asks of the result of a call that was sent.           *)
CxOutcome(out) ==
  LET codec == CxServerCodec(cxReq)
  IN  /\ out.kind = "ok" =>
           /\ cxSeen # CxUnseen /\ ~cxIn.fails /\ out.id = CxOwn.id
           /\ out.text = cxIn.reply \/ (cxIn.reply = "bad" /\ codec = "protorpc")
      /\ cxSeen # CxUnseen /\ cxIn.fails /\ codec # "bytes" => out.text = "fail"
      /\ out.text = "timeout" => codec = "bytes"

(* What the handler saw.                                                   *)
CxHandled ==
  /\ cxSeen # CxUnseen
  /\ \A f \in {"id", "target", "endpoint"} : cxSeen.msg[f] = CxOwn[f]
  /\ cxSeen.body = IF cxIn.body = "bad" THEN "zero" ELSE cxIn.body
  /\ cxIn.body = "bad" => CxServerCodec(cxReq) = "grpc"

(* The inductive invariant.                                                *)
CxOnWire == {"sent", "handled", "refused", "answered"}
CxInv ==
  /\ cxPc # "new" => cxIn \in CxInputs
  /\ cxPc \in {"new", "writing", "sent", "refused"} => cxSeen = CxUnseen
  /\ cxPc \in {"new", "writing"} => cxReq = CxNoWire
  /\ cxPc \in {"writing"} \cup CxOnWire => CxClientCodec(cxIn) # "none"
  /\ cxPc \in CxOnWire => CxRequestSent(cxIn, cxReq)
  /\ cxPc = "handled" /\ CxSameCodec => CxHandled
  /\ cxPc = "answered" /\ CxSameCodec => CxOutcome(CxResult(CxClientCodec(cxIn), cxResp))
  /\ cxPc = "done" /\ cxReq # CxNoWire /\ CxSameCodec => CxOutcome(cxOut)

(* The request on the wire names its service.                              *)
LEMMA CxServerChoice ==
  ASSUME CxRequestSent(cxIn, cxReq)
  PROVE  CxServerCodec(cxReq) = CxNewCodec(CxSentType(cxIn))
<1>1. PICK h : h = cxReq.header
  OBVIOUS
<1>2. h = CxOwn /\ cxReq.type = CxSentType(cxIn)
  BY <1>1 DEF CxRequestSent
<1>3. CxOwn.target # NoText
  BY DEF CxOwn, NoText
<1> QED
  BY <1>1, <1>2, <1>3 DEF CxServerCodec

(* The steps of a call: the client writes the request,                     *)
LEMMA CxClientWriteKeeps == ASSUME CxInv, CxClientWrite PROVE CxInv'
<1>1. /\ cxPc = "writing" /\ cxIn \in CxInputs /\ CxClientCodec(cxIn) # "none"
      /\ cxSeen = CxUnseen /\ cxReq = CxNoWire /\ UNCHANGED <<cxIn, cxSeen, cxResp>>
  BY DEF CxClientWrite, CxInv
<1>2. PICK e : e = IF cxIn.body = "frame" THEN CxEncoded(CxNoEnvelope, "frame")
                   ELSE CxWrite(CxClientCodec(cxIn), cxIn.type, CxOwn, "request", cxIn.body)
  OBVIOUS
<1>3. CASE ~e.ok
  <2>1. cxPc' = "done" /\ cxReq' = CxNoWire
    BY <1>1, <1>2, <1>3 DEF CxClientWrite
  <2> QED
    BY <1>1, <2>1 DEF CxInv, CxOnWire
<1>4. CASE e.ok
  <2>1. PICK path : cxReq' = CxWire(CxSentType(cxIn), CxOwn, path, e.bytes) /\ cxPc' = "sent"
    BY <1>2, <1>4 DEF CxClientWrite
  <2>2. e.ok = TRUE
    BY <1>1, <1>2, <1>4 DEF CxEncoded, CxWrite, CxWriteJsonRpc, CxWriteProtoRpc, CxWriteGrpc,
                            CxWritePlain, CxRefused, CxSilent
  <2>3. e.bytes = CxRequestBytes(cxIn) /\ (cxIn.body = "bad" => CxClientCodec(cxIn) = "grpc")
    BY <1>1, <1>2, <2>2, CxWritten
  <2>4. CxRequestSent(cxIn', cxReq')
    BY <1>1, <2>1, <2>3 DEF CxRequestSent, CxWire
  <2> QED
    BY <1>1, <2>1, <2>4 DEF CxInv, CxOnWire
<1> QED
  BY <1>3, <1>4

(* the server reads it,                                                    *)
LEMMA CxServerReadKeeps == ASSUME CxInv, CxServerRead PROVE CxInv'
<1>1. /\ cxPc = "sent" /\ cxIn \in CxInputs /\ CxClientCodec(cxIn) # "none"
      /\ cxSeen = CxUnseen /\ CxRequestSent(cxIn, cxReq) /\ UNCHANGED <<cxIn, cxReq, cxResp, cxOut>>
  BY DEF CxServerRead, CxInv, CxOnWire
<1>2. PICK k, body, read :
        /\ k = CxServerCodec(cxReq)
        /\ body = IF cxReq.body = CxNothing THEN "zero" ELSE CxReadBody(k, cxReq.body)
        /\ read = CxReadHeader(k, CxGetHeaders(CxBlank, cxReq.header), cxReq, "request")
  OBVIOUS
<1>3. CASE CxUnreadable(k, cxReq) \/ body = "fail"
  <2>1. cxPc' = "refused" /\ cxSeen' = CxUnseen
    BY <1>1, <1>2, <1>3 DEF CxServerRead
  <2> QED
    BY <1>1, <2>1 DEF CxInv, CxOnWire
<1>4. CASE ~(CxUnreadable(k, cxReq) \/ body = "fail")
  <2>1. cxPc' = "handled" /\ cxSeen' = [msg |-> read, body |-> body]
    BY <1>1, <1>2, <1>4 DEF CxServerRead
  <2>2. ASSUME CxSameCodec' PROVE CxHandled'
    <3>1. k = CxClientCodec(cxIn) /\ CxServerCodec(cxReq') = k
      BY <1>1, <1>2, <2>2 DEF CxSameCodec
    <3>2. /\ read.id = CxOwn.id /\ read.target = CxOwn.target /\ read.endpoint = CxOwn.endpoint
          /\ body = IF cxIn.body = "bad" THEN "zero" ELSE cxIn.body
      BY <1>1, <1>2, <1>4, <3>1, CxServerReads
    <3>3. cxSeen'.msg = read /\ cxSeen'.body = body
      BY <2>1
    <3>4. body # "none"
      BY <1>1, <3>2 DEF CxInputs, CxBodies
    <3>5. cxSeen' # CxUnseen
      BY <3>3, <3>4 DEF CxUnseen
    <3>6. cxIn.body = "bad" => k = "grpc"
      BY <1>1, <3>1 DEF CxRequestSent
    <3> QED
      BY <1>1, <3>1, <3>2, <3>3, <3>5, <3>6 DEF CxHandled
  <2> QED
    BY <1>1, <2>1, <2>2 DEF CxInv, CxOnWire
<1> QED
  BY <1>3, <1>4

(* and answers,                                                            *)
LEMMA CxServerAnswerKeeps == ASSUME CxInv, CxServerAnswer PROVE CxInv'
<1>1. /\ cxPc \in {"handled", "refused"} /\ cxIn \in CxInputs /\ CxClientCodec(cxIn) # "none"
      /\ CxRequestSent(cxIn, cxReq) /\ UNCHANGED <<cxIn, cxReq, cxSeen, cxOut>> /\ cxPc' = "answered"
  BY DEF CxServerAnswer, CxInv, CxOnWire
<1>2. ASSUME CxSameCodec'
      PROVE  CxOutcome(CxResult(CxClientCodec(cxIn), cxResp))'
  <2>1. PICK k : k = CxClientCodec(cxIn)
    OBVIOUS
  <2>2. CxServerCodec(cxReq) = k /\ CxSameCodec /\ k \in CxEnveloped \cup CxPlain \cup {"grpc"}
    BY <1>1, <1>2, <2>1, CxChoice DEF CxSameCodec
  <2>3. PICK w, out : w = cxResp' /\ out = CxResult(k, w)
    OBVIOUS
  <2>4. cxPc = "handled" => CxHandled
    BY <2>2 DEF CxInv
  <2>5. ASSUME NEW text \in {"read", "fail", "encode"}, w = CxErrorWire(k, text)
        PROVE  /\ k = "bytes" => out.kind = "error" /\ out.text = "timeout"
               /\ k # "bytes" => out.kind = "error" /\ out.text = text
    <3>1. CASE k = "bytes"
      <4>1. w = CxNoWire
        BY <1>1, <2>1, <2>5, <3>1, CxErrorArrives
      <4> QED
        BY <2>3, <3>1, <4>1 DEF CxResult, CxFails
    <3>2. CASE k # "bytes"
      <4>1. CxAnswerHas(k, w, text, CxOwn.id) /\ text # NoText
        BY <1>1, <2>1, <2>5, <3>2, CxErrorArrives DEF NoText
      <4> QED
        BY <2>2, <2>3, <3>2, <4>1, CxResultRead
    <3> QED
      BY <3>1, <3>2
  <2>6. PICK reply, m : /\ m = [CxBlank EXCEPT !.id = cxSeen.msg.id]
                        /\ reply = CxServerSent(k, m, "response", CxBlank, cxIn.reply)
    OBVIOUS
  <2>7. w = IF cxPc = "refused" THEN CxErrorWire(k, "read")
            ELSE IF cxIn.fails THEN CxErrorWire(k, "fail")
            ELSE IF reply # CxNoWire THEN reply ELSE CxErrorWire(k, "encode")
    BY <2>2, <2>3, <2>6 DEF CxServerAnswer
  <2>8. CxOutcome(out)
    <3>1. CASE cxPc = "refused"
      <4>1. w = CxErrorWire(k, "read") /\ cxSeen = CxUnseen
        BY <2>7, <3>1 DEF CxInv
      <4>2. out.kind = "error" /\ (k # "bytes" => out.text = "read")
        BY <2>5, <4>1
      <4> QED
        BY <2>2, <4>1, <4>2 DEF CxOutcome
    <3>2. CASE cxPc = "handled" /\ cxIn.fails
      <4>1. w = CxErrorWire(k, "fail")
        BY <2>7, <3>2
      <4>2. out.kind = "error" /\ (k # "bytes" => out.text = "fail")
        BY <2>5, <4>1
      <4> QED
        BY <2>2, <4>2 DEF CxOutcome
    <3>3. CASE cxPc = "handled" /\ ~cxIn.fails /\ reply = CxNoWire
      <4>1. w = CxErrorWire(k, "encode")
        BY <2>7, <3>3
      <4>2. out.kind = "error" /\ (k # "bytes" => out.text = "encode")
        BY <2>5, <4>1
      <4> QED
        BY <2>2, <3>3, <4>2 DEF CxOutcome
    <3>4. CASE cxPc = "handled" /\ ~cxIn.fails /\ reply # CxNoWire
      <4>1. w = reply /\ CxHandled
        BY <2>4, <2>7, <3>4
      <4>2. cxSeen.msg.id = CxOwn.id /\ cxSeen # CxUnseen
        BY <4>1 DEF CxHandled
      <4>3. m = [CxBlank EXCEPT !.id = CxOwn.id]
        BY <2>6, <4>2
      <4>4. /\ out.kind = "ok" => /\ out.id = CxOwn.id
                                  /\ out.text = cxIn.reply \/ (cxIn.reply = "bad" /\ k = "protorpc")
            /\ out.text # "timeout"
        BY <1>1, <2>1, <2>3, <2>6, <3>4, <4>1, <4>3, CxReplyArrives
      <4> QED
        BY <2>2, <3>4, <4>2, <4>4 DEF CxOutcome
    <3> QED
      BY <1>1, <3>1, <3>2, <3>3, <3>4
  <2>9. CxResult(CxClientCodec(cxIn), cxResp)' = out
    BY <1>1, <2>1, <2>3 DEF CxResult
  <2> QED
    BY <1>1, <2>8, <2>9 DEF CxOutcome
<1> QED
  BY <1>1, <1>2 DEF CxInv, CxOnWire

(* and the client reads the answer.                                        *)
LEMMA CxClientReadKeeps == ASSUME CxInv, CxClientRead PROVE CxInv'
<1>1. /\ cxPc = "answered" /\ cxPc' = "done" /\ cxIn \in CxInputs
      /\ UNCHANGED <<cxIn, cxReq, cxSeen, cxResp>>
  BY DEF CxClientRead, CxInv, CxOnWire
<1>2. cxOut' = CxResult(CxClientCodec(cxIn), cxResp)
  BY DEF CxClientRead, CxResult
<1>3. CxSameCodec => CxOutcome(cxOut')
  BY <1>1, <1>2 DEF CxInv
<1>4. CxSameCodec' => CxOutcome(cxOut)'
  BY <1>1, <1>3 DEF CxSameCodec, CxOutcome
<1> QED
  BY <1>1, <1>4 DEF CxInv, CxOnWire

(* The two ends of a call understand each other.                           *)
THEOREM CodecsAgree == CodecInit /\ [][CodecNext]_cxVars => []ExchangeIsFaithful
<1>1. CodecInit => CxInv
  BY DEF CodecInit, CxInv, CxOnWire
<1>2. CxInv /\ [CodecNext]_cxVars => CxInv'
  <2> SUFFICES ASSUME CxInv, [CodecNext]_cxVars PROVE CxInv'
    OBVIOUS
  <2>1. CASE UNCHANGED cxVars
    <3>1. UNCHANGED <<cxPc, cxIn, cxReq, cxSeen, cxResp, cxOut>>
      BY <2>1 DEF cxVars
    <3>2. CxSameCodec' <=> CxSameCodec
      BY <3>1 DEF CxSameCodec
    <3>3. CxHandled' <=> CxHandled
      BY <3>1 DEF CxHandled
    <3>4. /\ CxOutcome(CxResult(CxClientCodec(cxIn), cxResp))'
               <=> CxOutcome(CxResult(CxClientCodec(cxIn), cxResp))
          /\ CxOutcome(cxOut)' <=> CxOutcome(cxOut)
      BY <3>1 DEF CxOutcome, CxResult
    <3> QED
      BY <3>1, <3>2, <3>3, <3>4 DEF CxInv
  <2>2. ASSUME NEW in \in CxInputs, CxStart(in) PROVE CxInv'
    <3>1. /\ cxPc = "new" /\ cxIn' = in /\ cxSeen' = CxUnseen /\ cxReq' = CxNoWire
          /\ \/ cxPc' = "done"
             \/ cxPc' = "writing" /\ CxClientCodec(in) # "none"
      BY <2>2 DEF CxStart, CxInv
    <3> QED
      BY <3>1 DEF CxInv, CxOnWire
  <2> QED
    BY <2>1, <2>2, CxClientWriteKeeps, CxServerReadKeeps, CxServerAnswerKeeps, CxClientReadKeeps
       DEF CodecNext, CxInputs
<1>3. CxInv => ExchangeIsFaithful
  <2> SUFFICES ASSUME CxInv PROVE ExchangeIsFaithful
    OBVIOUS
  <2>1. cxPc = "sent" => (CxSameCodec \/ (cxIn.legacy /\ cxIn.type = "octet-stream"))
    BY CxChoice, CxServerChoice DEF CxInv, CxOnWire, CxSameCodec
  <2>2. cxPc = "handled" /\ CxSameCodec => CxHandled
    BY DEF CxInv
  <2>3. cxPc = "done" /\ cxReq # CxNoWire /\ CxSameCodec => CxOutcome(cxOut)
    BY DEF CxInv
  <2> QED
    BY <2>1, <2>2, <2>3 DEF ExchangeIsFaithful, CxHandled, CxOutcome
<1> QED
  BY <1>1, <1>2, <1>3, PTL

(* A call is answered with its own answer, whatever the router and the     *)
(* codecs do: the id, the reply or the error that a caller gets are those  *)
(* of its request.                                                         *)
THEOREM CallsAreAnswered ==
  /\ RouterInit /\ [][RouterCallsNext \/ RouterMessagesNext]_rrVars
  /\ CodecInit /\ [][CodecNext]_cxVars
  => []CallsAnswered
<1>1. RouterAnswersOwn /\ ExchangeIsFaithful => CallsAnswered  BY DEF CallsAnswered
<1> QED  BY <1>1, RouterAnswers, CodecsAgree, PTL

-----------------------------------------------------------------------------
(* An event, what it tells of the keys kv, and what the events e that the  *)
(* watcher has not got make of its view.                                   *)
EtEvent == [kind : {"put", "delete"}, node : EtNodes, val : SUBSET EtValues,
            prev : SUBSET EtValues]
EtTells(ev, kv) ==
  /\ ev.kind = "put" => ev.node \in DOMAIN kv /\ ev.val = {kv[ev.node].val}
  /\ ev.kind = "delete" => ev.node \notin DOMAIN kv /\ ev.prev # {}
EtLast(e, i) == \A j \in (i + 1) .. Len(e) : e[j].node # e[i].node
EtMirrors(kv, e, view) ==
  /\ e \in Seq(EtEvent) /\ DOMAIN view \subseteq EtNodes
  /\ view = [m \in DOMAIN view |-> view[m]]
  /\ \A i \in 1 .. Len(e) : EtLast(e, i) => EtTells(e[i], kv)
  /\ \A n \in EtNodes : (\A i \in 1 .. Len(e) : e[i].node # n) =>
                          /\ n \in DOMAIN view <=> n \in DOMAIN kv
                          /\ n \in DOMAIN kv => view[n] = kv[n].val
EtSame(kv, kv2, n) ==
  (n \in DOMAIN kv <=> n \in DOMAIN kv2) /\ (n \in DOMAIN kv => kv2[n] = kv[n])

(* Events follow that tell every change of the keys.                       *)
LEMMA EtFollows ==
  ASSUME NEW kv, NEW e, NEW view, EtMirrors(kv, e, view), NEW kv2, NEW a \in Seq(EtEvent),
         \A i \in 1 .. Len(a) : EtTells(a[i], kv2),
         \A n \in EtNodes : (\A i \in 1 .. Len(a) : a[i].node # n) => EtSame(kv, kv2, n)
  PROVE  EtMirrors(kv2, e \o a, view)
<1>1. PICK s : s = e \o a
  OBVIOUS
<1>2. e \in Seq(EtEvent) /\ Len(e) \in Nat /\ Len(a) \in Nat
  BY DEF EtMirrors
<1>3. /\ s \in Seq(EtEvent) /\ Len(s) = Len(e) + Len(a)
      /\ \A i \in 1 .. Len(e) : s[i] = e[i]
      /\ \A i \in 1 .. Len(a) : s[Len(e) + i] = a[i]
  BY <1>1, <1>2
<1>4. \A i \in 1 .. Len(e) : i \in 1 .. Len(s)
  BY <1>2, <1>3
<1>5. \A i \in 1 .. Len(a) : Len(e) + i \in 1 .. Len(s)
  BY <1>2, <1>3
<1>6. ASSUME NEW i \in 1 .. Len(s), EtLast(s, i)
      PROVE  EtTells(s[i], kv2)
  <2>1. CASE i > Len(e)
    <3>1. i - Len(e) \in 1 .. Len(a) /\ Len(e) + (i - Len(e)) = i
      BY <1>2, <1>3, <2>1
    <3> QED
      BY <1>3, <3>1
  <2>2. CASE i <= Len(e)
    <3>1. i \in 1 .. Len(e) /\ s[i] = e[i] /\ e[i] \in EtEvent
      BY <1>2, <1>3, <2>2
    <3>2. EtLast(e, i)
      <4> SUFFICES ASSUME NEW j \in (i + 1) .. Len(e) PROVE e[j].node # e[i].node
        BY DEF EtLast
      <4>1. j \in (i + 1) .. Len(s) /\ j \in 1 .. Len(e)
        BY <1>2, <1>3, <3>1
      <4> QED
        BY <1>3, <1>6, <3>1, <4>1 DEF EtLast
    <3>3. \A k \in 1 .. Len(a) : a[k].node # e[i].node
      <4> SUFFICES ASSUME NEW k \in 1 .. Len(a) PROVE a[k].node # e[i].node
        OBVIOUS
      <4>1. Len(e) + k \in (i + 1) .. Len(s) /\ s[Len(e) + k] = a[k]
        BY <1>2, <1>3, <3>1
      <4> QED
        BY <1>6, <3>1, <4>1 DEF EtLast
    <3>4. EtTells(e[i], kv) /\ e[i].node \in EtNodes
      BY <3>1, <3>2 DEF EtMirrors, EtEvent
    <3>5. EtSame(kv, kv2, e[i].node)
      BY <3>3, <3>4
    <3> QED
      BY <3>1, <3>4, <3>5 DEF EtTells, EtSame
  <2> QED
    BY <1>2, <1>3, <2>1, <2>2
<1>7. ASSUME NEW n \in EtNodes, \A i \in 1 .. Len(s) : s[i].node # n
      PROVE  /\ n \in DOMAIN view <=> n \in DOMAIN kv2
             /\ n \in DOMAIN kv2 => view[n] = kv2[n].val
  <2>1. \A i \in 1 .. Len(e) : e[i].node # n
    BY <1>3, <1>4, <1>7
  <2>2. \A i \in 1 .. Len(a) : a[i].node # n
    BY <1>3, <1>5, <1>7
  <2>3. EtSame(kv, kv2, n)
    BY <2>2
  <2> QED
    BY <2>1, <2>3 DEF EtMirrors, EtSame
<1>8. DOMAIN view \subseteq EtNodes /\ view = [m \in DOMAIN view |-> view[m]]
  BY DEF EtMirrors
<1>9. EtMirrors(kv2, s, view)
  BY <1>3, <1>6, <1>7, <1>8 DEF EtMirrors
<1> QED
  BY <1>1, <1>9

(* What an event makes of the view.                                        *)
EtApplied(view, ev) ==
  LET of == IF ev.kind = "delete" THEN ev.prev ELSE ev.val
  IN  IF ev.kind = "delete" /\ of # {} THEN EtWithout(view, ev.node)
      ELSE IF of = {} THEN view ELSE EtWith(view, ev.node, CHOOSE v \in of : TRUE)
(* The watcher takes the first event.                                      *)
LEMMA EtTakes ==
  ASSUME NEW kv, NEW e, NEW view, EtMirrors(kv, e, view), e # <<>>, NEW ev, ev = e[1],
         NEW w, w = EtApplied(view, ev)
  PROVE  EtMirrors(kv, SubSeq(e, 2, Len(e)), w)
<1>1. PICK s : s = SubSeq(e, 2, Len(e))
  OBVIOUS
<1>2. e \in Seq(EtEvent) /\ Len(e) \in Nat /\ Len(e) >= 1 /\ ev \in EtEvent
  BY DEF EtMirrors
<1>3. /\ s \in Seq(EtEvent) /\ Len(s) = Len(e) - 1
      /\ \A i \in 1 .. Len(s) : s[i] = e[i + 1]
  <2>1. s = Tail(e)
    BY <1>1, <1>2, TailIsSubSeq
  <2> QED
    BY <1>2, <2>1, HeadTailProperties
<1>4. /\ ev.kind \in {"put", "delete"} /\ ev.node \in EtNodes
  BY <1>2 DEF EtEvent
<1>5. ASSUME NEW i \in 1 .. Len(s), EtLast(s, i) PROVE EtTells(s[i], kv)
  <2>1. i + 1 \in 1 .. Len(e) /\ s[i] = e[i + 1]
    BY <1>2, <1>3
  <2>2. EtLast(e, i + 1)
    <3> SUFFICES ASSUME NEW j \in ((i + 1) + 1) .. Len(e) PROVE e[j].node # e[i + 1].node
      BY DEF EtLast
    <3>1. j - 1 \in (i + 1) .. Len(s) /\ j - 1 \in 1 .. Len(s) /\ (j - 1) + 1 = j
      BY <1>2, <1>3
    <3>2. s[j - 1] = e[j]
      BY <1>3, <3>1
    <3> QED
      BY <1>5, <2>1, <3>1, <3>2 DEF EtLast
  <2> QED
    BY <2>1, <2>2 DEF EtMirrors
<1> DEFINE Others == /\ w = [m \in DOMAIN w |-> w[m]] /\ DOMAIN w \subseteq EtNodes
                     /\ \A n \in EtNodes : n # ev.node => (n \in DOMAIN w <=> n \in DOMAIN view)
                     /\ \A n \in DOMAIN w : n # ev.node => w[n] = view[n]
<1>6. Others
  <2>1. view = [m \in DOMAIN view |-> view[m]] /\ DOMAIN view \subseteq EtNodes
    BY DEF EtMirrors
  <2>2. w = view => Others
    BY <2>1
  <2>3. ASSUME w = EtWithout(view, ev.node)
        PROVE  Others
    <3>1. w = [m \in DOMAIN view \ {ev.node} |-> view[m]]
      BY <2>3 DEF EtWithout
    <3>2. DOMAIN w = DOMAIN view \ {ev.node} /\ \A m \in DOMAIN w : w[m] = view[m]
      BY <3>1
    <3>3. w = [m \in DOMAIN w |-> w[m]]
      BY <3>1, <3>2
    <3> QED
      BY <2>1, <3>2, <3>3
  <2>4. ASSUME NEW v, w = EtWith(view, ev.node, v)
        PROVE  Others
    BY <1>4, <2>1, <2>4 DEF EtWith
  <2>5. PICK u : u = CHOOSE v \in (IF ev.kind = "delete" THEN ev.prev ELSE ev.val) : TRUE
    OBVIOUS
  <2>6. w = view \/ w = EtWithout(view, ev.node) \/ w = EtWith(view, ev.node, u)
    BY <2>5 DEF EtApplied
  <2> HIDE DEF Others
  <2> QED
    BY <2>2, <2>3, <2>4, <2>6
<1>7. EtTells(ev, kv) => /\ ev.node \in DOMAIN w <=> ev.node \in DOMAIN kv
                         /\ ev.node \in DOMAIN kv => w[ev.node] = kv[ev.node].val
  <2>1. CASE ev.kind = "put" /\ EtTells(ev, kv)
    <3>1. ev.node \in DOMAIN kv /\ ev.val = {kv[ev.node].val}
      BY <2>1 DEF EtTells
    <3>2. w = EtWith(view, ev.node, kv[ev.node].val)
      BY <2>1, <3>1 DEF EtApplied
    <3> QED
      BY <3>1, <3>2 DEF EtWith
  <2>2. CASE ev.kind = "delete" /\ EtTells(ev, kv)
    <3>1. ev.node \notin DOMAIN kv /\ ev.prev # {}
      BY <2>2 DEF EtTells
    <3>2. w = EtWithout(view, ev.node)
      BY <2>2, <3>1 DEF EtApplied
    <3> QED
      BY <3>1, <3>2 DEF EtWithout
  <2> QED
    BY <1>4, <2>1, <2>2
<1>8. ASSUME NEW n \in EtNodes, \A i \in 1 .. Len(s) : s[i].node # n
      PROVE  /\ n \in DOMAIN w <=> n \in DOMAIN kv
             /\ n \in DOMAIN kv => w[n] = kv[n].val
  <2>1. \A j \in 2 .. Len(e) : e[j].node # n
    <3> SUFFICES ASSUME NEW j \in 2 .. Len(e) PROVE e[j].node # n
      OBVIOUS
    <3>1. j - 1 \in 1 .. Len(s) /\ (j - 1) + 1 = j
      BY <1>2, <1>3
    <3> QED
      BY <1>3, <1>8, <3>1
  <2>2. CASE n = ev.node
    <3>1. EtLast(e, 1) /\ 1 \in 1 .. Len(e)
      BY <1>2, <2>1, <2>2 DEF EtLast
    <3>2. EtTells(ev, kv)
      BY <3>1 DEF EtMirrors
    <3> QED
      BY <1>7, <2>2, <3>2
  <2>3. CASE n # ev.node
    <3>1. \A i \in 1 .. Len(e) : e[i].node # n
      BY <1>2, <2>1, <2>3
    <3>2. /\ n \in DOMAIN view <=> n \in DOMAIN kv
          /\ n \in DOMAIN kv => view[n] = kv[n].val
      BY <3>1 DEF EtMirrors
    <3> QED
      BY <1>6, <2>3, <3>2
  <2> QED
    BY <2>2, <2>3
<1>9. EtMirrors(kv, s, w)
  BY <1>3, <1>5, <1>6, <1>8 DEF EtMirrors
<1> QED
  BY <1>1, <1>9

(* A watcher that has got every event knows the keys.                      *)
LEMMA EtMirrored ==
  ASSUME NEW kv, NEW view, EtMirrors(kv, <<>>, view), DOMAIN kv \subseteq EtNodes
  PROVE  view = [n \in DOMAIN kv |-> kv[n].val]
<1>1. \A n \in EtNodes : /\ n \in DOMAIN view <=> n \in DOMAIN kv
                         /\ n \in DOMAIN kv => view[n] = kv[n].val
  BY DEF EtMirrors
<1>2. DOMAIN view = DOMAIN kv /\ view = [m \in DOMAIN view |-> view[m]]
  BY <1>1 DEF EtMirrors
<1> QED
  BY <1>1, <1>2

(* The types.                                                              *)
EtCallRecords == [node : EtNodes, val : EtValues, ttl : BOOLEAN, notFound : BOOLEAN,
                  lost : BOOLEAN, lease : Nat, pc : {"get", "renew", "check", "put"}]
EtDeleteRecords == [node : EtNodes, pc : {"delete"}, lease : {0}, lost : BOOLEAN]
EtTypes ==
  /\ IsFiniteSet(DOMAIN etKv) /\ DOMAIN etKv \subseteq EtNodes
  /\ \A n \in DOMAIN etKv : etKv[n] \in [val : EtValues, lease : Nat]
  /\ etGranted \in Nat /\ etLive \subseteq 1 .. etGranted
  /\ etSure \in [EtNodes -> SUBSET EtValues]
  /\ etOp = {} \/ \E op \in EtCallRecords \cup EtDeleteRecords : etOp = {op}

(* What the process remembers of a node: a lease it knows of is the one    *)
(* that the key has, with the node remembered, unless the node is in       *)
(* doubt.                                                                  *)
EtRemembers ==
  /\ DOMAIN etHash = DOMAIN etLeases
  /\ \A n \in DOMAIN etLeases : etLeases[n] \in 0 .. etGranted
  /\ \A n \in DOMAIN etKv : etKv[n].lease \in etLive \cup {0}
  /\ \A n \in EtNodes \ etDoubt : n \in DOMAIN etLeases /\ etLeases[n] \in etLive =>
       n \in DOMAIN etKv /\ etKv[n].val.node = etHash[n] /\ etKv[n].lease = etLeases[n]

(* What a call knows where it is.                                          *)
EtKnows(op) ==
  /\ op.pc \in {"get", "delete"} => op.node \notin DOMAIN etLeases
  /\ op.pc = "renew" /\ op.node \in DOMAIN etLeases => op.lease = etLeases[op.node]
  /\ op.pc = "check" /\ op.node \in DOMAIN etLeases =>
       op.lease = etLeases[op.node] /\ (op.notFound = FALSE /\ op.lost = FALSE => op.lease \in etLive)

(* What a Get may show has a lease that was granted, if it has one.        *)
EtPastKnown == etPast \in [EtNodes -> SUBSET EtSeen(0 .. etGranted)]

(* The inductive invariant, with what is known of the past.                *)
EtInv ==
  /\ EtTypes /\ EtRemembers /\ RegisteredIsThere
  /\ \A op \in etOp : EtKnows(op) /\ etSure[op.node] = {}
  /\ EtBatch = 1 => EtMirrors(etKv, etEvents, etView)

(* Nothing is registered yet.                                              *)
LEMMA EtStarts == EtcdInit => EtInv /\ EtPastKnown
<1> SUFFICES ASSUME EtcdInit PROVE EtInv /\ EtPastKnown
  OBVIOUS
<1>1. DOMAIN etLeases = {} /\ DOMAIN etHash = {}
  BY DEF EtcdInit
<1>5. EtLeft \in Nat /\ etGranted = EtLeft /\ etLive = 1 .. EtLeft
  BY EtcdAssumption DEF EtcdInit
<1>6. PICK left \in [EtNodes -> EtSeen(0 .. EtLeft)] :
        LET keys == {n \in EtNodes : left[n].val # {}}
            ValueOf(n) == CHOOSE v \in left[n].val : TRUE
        IN  /\ IsFiniteSet(keys)
            /\ etPast = [n \in EtNodes |-> {left[n]}]
            /\ etKv = [n \in keys |-> [val |-> ValueOf(n), lease |-> left[n].lease]]
            /\ etView = [n \in keys |-> ValueOf(n)]
  BY DEF EtcdInit
<1> DEFINE keys == {n \in EtNodes : left[n].val # {}}
<1>7. /\ IsFiniteSet(DOMAIN etKv) /\ DOMAIN etKv = keys /\ DOMAIN etView = keys
      /\ \A n \in keys : /\ etKv[n] = [val |-> CHOOSE v \in left[n].val : TRUE,
                                       lease |-> left[n].lease]
                         /\ etView[n] = CHOOSE v \in left[n].val : TRUE
  BY <1>6
<1>8. \A n \in keys : /\ etKv[n].val \in EtValues /\ etKv[n].lease \in 0 .. EtLeft
                      /\ etView[n] = etKv[n].val
  <2> SUFFICES ASSUME NEW n \in keys
               PROVE  /\ etKv[n].val \in EtValues /\ etKv[n].lease \in 0 .. EtLeft
                      /\ etView[n] = etKv[n].val
    OBVIOUS
  <2>1. left[n] \in EtSeen(0 .. EtLeft) /\ left[n].val # {}
    OBVIOUS
  <2>2. left[n].lease \in 0 .. EtLeft /\ \E v \in EtValues : left[n].val = {v}
    BY <2>1 DEF EtSeen
  <2>3. PICK u : u = CHOOSE v \in left[n].val : TRUE
    OBVIOUS
  <2>4. u \in EtValues
    BY <2>2, <2>3
  <2>5. etKv[n] = [val |-> u, lease |-> left[n].lease] /\ etView[n] = u
    BY <1>7, <2>3
  <2> QED
    BY <2>2, <2>4, <2>5
<1>9. EtPastKnown
  BY <1>5, <1>6 DEF EtPastKnown
<1>2. EtTypes
  <2>1. etOp = {} /\ etSure = [n \in EtNodes |-> {}]
    BY DEF EtcdInit
  <2>2. \A n \in DOMAIN etKv : etKv[n] \in [val : EtValues, lease : Nat]
    <3> SUFFICES ASSUME NEW n \in keys PROVE etKv[n] \in [val : EtValues, lease : Nat]
      BY <1>7
    <3>1. etKv[n].val \in EtValues /\ etKv[n].lease \in Nat
      BY <1>5, <1>8
    <3>2. PICK u, l : etKv[n] = [val |-> u, lease |-> l]
      BY <1>7
    <3>3. u \in EtValues /\ l \in Nat
      BY <3>1, <3>2
    <3> QED
      BY <3>2, <3>3
  <2> QED
    BY <1>5, <1>7, <2>1, <2>2 DEF EtTypes
<1>3. EtRemembers /\ RegisteredIsThere
  <2>1. \A n \in DOMAIN etKv : etKv[n].lease \in etLive \cup {0}
    BY <1>5, <1>7, <1>8
  <2> QED
    BY <1>1, <2>1 DEF EtcdInit, EtRemembers, RegisteredIsThere
<1>4. EtMirrors(etKv, etEvents, etView)
  <2>1. etEvents \in Seq(EtEvent) /\ Len(etEvents) = 0
    BY DEF EtcdInit
  <2>2. etView = [m \in DOMAIN etView |-> etView[m]]
    BY <1>6
  <2> QED
    BY <1>7, <1>8, <2>1, <2>2 DEF EtMirrors
<1> QED
  BY <1>2, <1>3, <1>4, <1>9 DEF EtcdInit, EtInv

(* Only a Put adds to the past, with a lease that is there.                *)
LEMMA EtPastKeeps ==
  ASSUME EtTypes, EtPastKnown, EtcdNext
  PROVE  EtPastKnown'
<1>1. etGranted \in Nat /\ etLive \subseteq 1 .. etGranted
  BY DEF EtTypes
<1>2. etGranted' = etGranted \/ etGranted' = etGranted + 1
  BY DEF EtcdNext, EtDeregister, EtRegister, EtGet, EtRenew, EtCheck, EtPut, EtDelete, EtFails,
         EtcdExpires, EtNext
<1>3. EtSeen(0 .. etGranted) \subseteq EtSeen(0 .. etGranted')
  BY <1>1, <1>2 DEF EtSeen
<1>4. CASE etPast' = etPast
  BY <1>3, <1>4 DEF EtPastKnown
<1>5. CASE \E op \in etOp : op.pc = "put" /\ op.lease \in etLive
                            /\ EtcdPut(op.node, op.val, op.lease)
  <2>1. PICK op \in etOp : op.pc = "put" /\ op.lease \in etLive
                            /\ EtcdPut(op.node, op.val, op.lease)
    BY <1>5
  <2>2. op \in EtCallRecords
    BY <2>1 DEF EtTypes, EtDeleteRecords
  <2>3. PICK n, v, l : n = op.node /\ v = op.val /\ l = op.lease
    OBVIOUS
  <2>4. n \in EtNodes /\ v \in EtValues /\ l \in 0 .. etGranted
    BY <1>1, <2>1, <2>2, <2>3 DEF EtCallRecords
  <2>5. etPast' = [etPast EXCEPT ![n] = @ \cup {[val |-> {v}, lease |-> l]}]
    BY <2>1, <2>3 DEF EtcdPut
  <2>6. [val |-> {v}, lease |-> l] \in EtSeen(0 .. etGranted)
    BY <2>4 DEF EtSeen
  <2> QED
    BY <1>3, <2>4, <2>5, <2>6 DEF EtPastKnown
<1> QED
  BY <1>4, <1>5 DEF EtcdNext, EtDeregister, EtRegister, EtGet, EtRenew, EtCheck, EtPut, EtDelete,
     EtFails, EtcdExpires, EtNext, EtcdDelete, etStore

(* Register begins.                                                        *)
LEMMA EtRegisterKeeps ==
  ASSUME EtInv, NEW n \in EtNodes, NEW v \in EtValues, NEW t \in BOOLEAN, EtRegister(n, v, t)
  PROVE  EtInv'
<1>1. /\ EtTypes /\ EtRemembers /\ RegisteredIsThere /\ etOp = {}
      /\ EtBatch = 1 => EtMirrors(etKv, etEvents, etView)
      /\ UNCHANGED <<etKv, etEvents, etLive, etGranted, etLeases, etHash, etView, etDoubt>>
  BY DEF EtInv, EtRegister, etStore, etMem
<1>2. PICK op : op = [node |-> n, val |-> v, ttl |-> t, notFound |-> FALSE, lost |-> FALSE,
                      lease |-> IF n \in DOMAIN etLeases THEN etLeases[n] ELSE 0,
                      pc |-> IF n \in DOMAIN etLeases THEN "renew" ELSE "get"]
  OBVIOUS
<1>3. /\ op.node = n /\ op.pc \in {"renew", "get"}
      /\ n \in DOMAIN etLeases => op.pc = "renew" /\ op.lease = etLeases[n]
      /\ n \notin DOMAIN etLeases => op.pc = "get"
  BY <1>2
<1>4. op \in EtCallRecords
  <2>1. (IF n \in DOMAIN etLeases THEN etLeases[n] ELSE 0) \in Nat
    BY <1>1 DEF EtRemembers, EtTypes
  <2> QED
    BY <1>2, <2>1 DEF EtCallRecords
<1>5. etOp' = {op} /\ etSure' = [etSure EXCEPT ![n] = {}]
  BY <1>2 DEF EtRegister
<1>6. etSure' \in [EtNodes -> SUBSET EtValues] /\ etSure'[n] = {}
      /\ \A m \in EtNodes : etSure'[m] \subseteq etSure[m]
  BY <1>1, <1>5 DEF EtTypes
<1>7. EtTypes'
  BY <1>1, <1>4, <1>5, <1>6 DEF EtTypes
<1>8. EtRemembers' /\ RegisteredIsThere'
  <2>1. \A m \in EtNodes : etSure'[m] = {} \/ etSure'[m] = etSure[m]
    BY <1>1, <1>5 DEF EtTypes
  <2>2. EtRemembers'
    BY <1>1 DEF EtRemembers
  <2> QED
    BY <1>1, <2>1, <2>2 DEF RegisteredIsThere
<1>9. \A o \in etOp' : EtKnows(o)' /\ etSure'[o.node] = {}
  BY <1>1, <1>3, <1>5, <1>6 DEF EtKnows
<1>10. EtBatch = 1 => EtMirrors(etKv', etEvents', etView')
  BY <1>1
<1> QED
  BY <1>7, <1>8, <1>9, <1>10 DEF EtInv

(* registerNode asks etcd for the key.  What is taken over is what the key *)
(* is, or the node is in doubt.                                            *)
LEMMA EtGetKeeps ==
  ASSUME EtInv, EtPastKnown, NEW op \in etOp, NEW seen \in etPast[op.node] \cup {EtNoKey},
         EtGet(op, seen)
  PROVE  EtInv'
<1>1. /\ EtTypes /\ EtRemembers /\ RegisteredIsThere /\ EtKnows(op) /\ etSure[op.node] = {}
      /\ EtBatch = 1 => EtMirrors(etKv, etEvents, etView)
      /\ etOp = {op} /\ op.pc = "get"
      /\ UNCHANGED <<etKv, etEvents, etLive, etGranted, etSure, etView>>
  BY DEF EtInv, EtGet, etStore
<1>2. op \in EtCallRecords
  BY <1>1 DEF EtTypes, EtDeleteRecords
<1>3. PICK n, l : n = op.node /\ l = seen.lease
  OBVIOUS
<1>4. n \in EtNodes /\ n \notin DOMAIN etLeases /\ etSure[n] = {}
  BY <1>1, <1>2, <1>3 DEF EtCallRecords, EtKnows
<1>5. l \in 0 .. etGranted /\ l \in Nat
  <2>1. etGranted \in Nat
    BY <1>1 DEF EtTypes
  <2>2. seen \in EtSeen(0 .. etGranted) \/ seen = EtNoKey
    BY <1>3, <1>4 DEF EtPastKnown
  <2> QED
    BY <1>3, <2>1, <2>2 DEF EtSeen, EtNoKey
<1>6. PICK pc, r : /\ pc = IF l > 0 THEN "renew" ELSE "check"
                   /\ r = [op EXCEPT !.pc = pc, !.lease = l]
  OBVIOUS
<1>7. etOp' = {r} /\ pc \in {"renew", "check"}
  BY <1>3, <1>6 DEF EtGet
<1>8. r \in EtCallRecords /\ r.node = n /\ r.pc = pc /\ r.lease = l
  BY <1>2, <1>3, <1>5, <1>6, <1>7 DEF EtCallRecords
<1>9. EtTypes' /\ (EtBatch = 1 => EtMirrors(etKv', etEvents', etView'))
  BY <1>1, <1>7, <1>8 DEF EtTypes
<1>10. CASE UNCHANGED <<etMem, etDoubt>>
  <2>1. UNCHANGED <<etLeases, etHash, etDoubt>>
    BY <1>10 DEF etMem
  <2>2. EtRemembers' /\ RegisteredIsThere'
    BY <1>1, <2>1 DEF EtRemembers, RegisteredIsThere
  <2>3. \A o \in etOp' : EtKnows(o)' /\ etSure'[o.node] = {}
    BY <1>1, <1>4, <1>7, <1>8, <2>1 DEF EtKnows
  <2> QED
    BY <1>9, <2>2, <2>3 DEF EtInv
<1>11. CASE /\ seen.lease > 0
            /\ \E v \in seen.val :
                 /\ etLeases' = EtWith(etLeases, n, seen.lease)
                 /\ etHash' = EtWith(etHash, n, v.node)
                 /\ etDoubt' = IF n \in DOMAIN etKv /\ etKv[n] = [val |-> v, lease |-> seen.lease]
                               THEN etDoubt \ {n} ELSE etDoubt \cup {n}
  <2>1. PICK v : /\ etLeases' = EtWith(etLeases, n, l)
                 /\ etHash' = EtWith(etHash, n, v.node)
                 /\ etDoubt' = IF n \in DOMAIN etKv /\ etKv[n] = [val |-> v, lease |-> l]
                               THEN etDoubt \ {n} ELSE etDoubt \cup {n}
    BY <1>3, <1>11
  <2>2. pc = "renew"
    BY <1>3, <1>6, <1>11
  <2>3. /\ DOMAIN etLeases' = DOMAIN etLeases \cup {n} /\ etLeases'[n] = l
        /\ \A m \in DOMAIN etLeases : etLeases'[m] = etLeases[m]
    BY <1>4, <2>1 DEF EtWith
  <2>4. /\ DOMAIN etHash' = DOMAIN etLeases \cup {n} /\ etHash'[n] = v.node
        /\ \A m \in DOMAIN etLeases : etHash'[m] = etHash[m]
    BY <1>1, <1>4, <2>1 DEF EtWith, EtRemembers
  <2>5. /\ n \notin etDoubt' => n \in DOMAIN etKv /\ etKv[n].val = v /\ etKv[n].lease = l
        /\ \A m : m # n => (m \in etDoubt' <=> m \in etDoubt)
    BY <2>1
  <2>6. EtRemembers'
    <3>1. ASSUME NEW m \in EtNodes \ etDoubt', m \in DOMAIN etLeases', etLeases'[m] \in etLive
          PROVE  /\ m \in DOMAIN etKv' /\ etKv'[m].val.node = etHash'[m]
                 /\ etKv'[m].lease = etLeases'[m]
      <4>1. CASE m = n
        BY <1>1, <2>3, <2>4, <2>5, <3>1, <4>1
      <4>2. CASE m # n
        BY <1>1, <2>3, <2>4, <2>5, <3>1, <4>2 DEF EtRemembers
      <4> QED
        BY <4>1, <4>2
    <3>2. \A m \in DOMAIN etLeases' : etLeases'[m] \in 0 .. etGranted
      BY <1>1, <1>5, <2>3 DEF EtRemembers
    <3> QED
      BY <1>1, <2>3, <2>4, <3>1, <3>2 DEF EtRemembers
  <2>7. RegisteredIsThere'
    BY <1>1, <1>4, <2>5 DEF RegisteredIsThere
  <2>8. \A o \in etOp' : EtKnows(o)' /\ etSure'[o.node] = {}
    BY <1>1, <1>4, <1>7, <1>8, <2>2, <2>3 DEF EtKnows
  <2> QED
    BY <1>9, <2>6, <2>7, <2>8 DEF EtInv
<1> QED
  BY <1>3, <1>10, <1>11 DEF EtGet

(* KeepAliveOnce: a lease that was found is there.                         *)
LEMMA EtRenewKeeps ==
  ASSUME EtInv, NEW op \in etOp, EtRenew(op)
  PROVE  EtInv'
<1>1. /\ EtTypes /\ EtRemembers /\ RegisteredIsThere /\ EtKnows(op) /\ etSure[op.node] = {}
      /\ EtBatch = 1 => EtMirrors(etKv, etEvents, etView)
      /\ etOp = {op} /\ op.pc = "renew"
      /\ UNCHANGED <<etKv, etEvents, etLive, etGranted, etSure, etView, etDoubt, etLeases, etHash>>
  BY DEF EtInv, EtRenew, etStore, etMem
<1>2. op \in EtCallRecords
  BY <1>1 DEF EtTypes, EtDeleteRecords
<1>3. PICK b, r : b = (op.lease \notin etLive) /\ r = [op EXCEPT !.pc = "check", !.notFound = b]
  OBVIOUS
<1>4. etOp' = {r} /\ b \in BOOLEAN
  BY <1>3 DEF EtRenew
<1>5. /\ r \in EtCallRecords /\ r.node = op.node /\ r.pc = "check" /\ r.lease = op.lease
      /\ r.notFound = b
  BY <1>2, <1>3, <1>4 DEF EtCallRecords
<1>6. EtTypes'
  BY <1>1, <1>4, <1>5 DEF EtTypes
<1>7. EtRemembers'
  BY <1>1 DEF EtRemembers
<1>8. \A o \in etOp' : EtKnows(o)' /\ etSure'[o.node] = {}
  BY <1>1, <1>3, <1>4, <1>5 DEF EtKnows
<1>9. RegisteredIsThere' /\ (EtBatch = 1 => EtMirrors(etKv', etEvents', etView'))
  BY <1>1 DEF RegisteredIsThere
<1> QED
  BY <1>6, <1>7, <1>8, <1>9 DEF EtInv

(* A Register that skips the write: its lease is live and its own, so the  *)
(* key has the value.  Otherwise a new lease, which nobody knows.          *)
LEMMA EtCheckKeeps ==
  ASSUME EtInv, NEW op \in etOp, EtCheck(op)
  PROVE  EtInv'
<1>1. /\ EtTypes /\ EtRemembers /\ RegisteredIsThere /\ EtKnows(op) /\ etSure[op.node] = {}
      /\ EtBatch = 1 => EtMirrors(etKv, etEvents, etView)
      /\ etOp = {op} /\ op.pc = "check"
      /\ UNCHANGED <<etKv, etEvents, etView, etDoubt, etLeases, etHash>>
  BY DEF EtInv, EtCheck, etStore, etMem
<1>2. op \in EtCallRecords
  BY <1>1 DEF EtTypes, EtDeleteRecords
<1>3. PICK n, v : n = op.node /\ v = op.val
  OBVIOUS
<1>4. n \in EtNodes /\ v \in EtValues /\ op.lost \in BOOLEAN /\ op.notFound \in BOOLEAN
  BY <1>2, <1>3 DEF EtCallRecords
<1>5. EtBatch = 1 => EtMirrors(etKv', etEvents', etView')
  BY <1>1
<1>6. CASE EtUnchanged(op) /\ etOp' = {} /\ UNCHANGED <<etLive, etGranted>>
           /\ etSure' = [etSure EXCEPT ![n] = IF op.lost THEN {} ELSE {w \in EtValues : w.node = v.node}]
  <2>1. n \in DOMAIN etHash /\ etHash[n] = v.node /\ op.notFound = FALSE
    BY <1>3, <1>4, <1>6 DEF EtUnchanged
  <2>2. n \notin etDoubt /\ op.lost = FALSE =>
          n \in DOMAIN etKv /\ etKv[n].val \in EtValues /\ etKv[n].val.node = v.node
    BY <1>1, <1>3, <1>4, <2>1 DEF EtKnows, EtRemembers, EtTypes
  <2>3. /\ etSure' \in [EtNodes -> SUBSET EtValues] 
        /\ etSure'[n] = IF op.lost THEN {} ELSE {w \in EtValues : w.node = v.node}
        /\ \A m \in EtNodes : m # n => etSure'[m] = etSure[m]
    BY <1>1, <1>4, <1>6 DEF EtTypes
  <2>4. EtTypes'
    BY <1>1, <1>6, <2>3 DEF EtTypes
  <2>5. EtRemembers'
    BY <1>1, <1>6 DEF EtRemembers
  <2>6. RegisteredIsThere'
    <3> SUFFICES ASSUME NEW m \in EtNodes \ etDoubt', etSure'[m] # {}
                 PROVE  m \in DOMAIN etKv' /\ etKv'[m].val \in etSure'[m]
      BY DEF RegisteredIsThere
    <3>1. CASE m = n
      <4>1. op.lost = FALSE /\ etSure'[n] = {w \in EtValues : w.node = v.node}
        BY <1>4, <2>3, <3>1
      <4> QED
        BY <1>1, <2>2, <3>1, <4>1
    <3>2. CASE m # n
      BY <1>1, <2>3, <3>2 DEF RegisteredIsThere
    <3> QED
      BY <3>1, <3>2
  <2> QED
    BY <1>5, <1>6, <2>4, <2>5, <2>6 DEF EtInv
<1>7. CASE UNCHANGED etSure /\ etOp' = {} /\ UNCHANGED <<etLive, etGranted>>
  <2>1. EtTypes' /\ EtRemembers' /\ RegisteredIsThere'
    BY <1>1, <1>7 DEF EtTypes, EtRemembers, RegisteredIsThere
  <2> QED
    BY <1>5, <1>7, <2>1 DEF EtInv
<1>8. CASE /\ UNCHANGED etSure /\ etGranted' = etGranted + 1
           /\ etLive' = etLive \cup {etGranted + 1}
           /\ etOp' = {[op EXCEPT !.pc = "put", !.lease = etGranted + 1]}
  <2>1. PICK g, r : g = etGranted + 1 /\ r = [op EXCEPT !.pc = "put", !.lease = g]
    OBVIOUS
  <2>2. g \in Nat /\ etGranted' = g /\ etLive' = etLive \cup {g} /\ etOp' = {r}
    BY <1>1, <1>8, <2>1 DEF EtTypes
  <2>3. r \in EtCallRecords /\ r.node = n /\ r.pc = "put"
    BY <1>2, <1>3, <2>1, <2>2 DEF EtCallRecords
  <2>4. EtTypes'
    <3>1. etLive' \subseteq 1 .. etGranted'
      BY <1>1, <2>1, <2>2 DEF EtTypes
    <3> QED
      BY <1>1, <1>8, <2>2, <2>3, <3>1 DEF EtTypes
  <2>5. EtRemembers'
    <3>1. \A m \in DOMAIN etLeases : etLeases[m] \in 0 .. g /\ etLeases[m] # g
      BY <1>1, <2>1 DEF EtRemembers, EtTypes
    <3> QED
      BY <1>1, <2>2, <3>1 DEF EtRemembers
  <2>6. \A o \in etOp' : EtKnows(o)' /\ etSure'[o.node] = {}
    BY <1>1, <1>3, <1>8, <2>2, <2>3 DEF EtKnows
  <2>7. RegisteredIsThere'
    BY <1>1, <1>8 DEF RegisteredIsThere
  <2> QED
    BY <1>5, <2>4, <2>5, <2>6, <2>7 DEF EtInv
<1> QED
  BY <1>3, <1>6, <1>7, <1>8 DEF EtCheck

(* What a Put does to the keys, and that the watcher will know of it.      *)
LEMMA EtcdStores ==
  ASSUME EtTypes, NEW n \in EtNodes, NEW v \in EtValues, NEW l \in etLive, EtcdPut(n, v, l)
  PROVE  /\ IsFiniteSet(DOMAIN etKv') /\ DOMAIN etKv' = DOMAIN etKv \cup {n}
         /\ \A m \in DOMAIN etKv' : etKv'[m] \in [val : EtValues, lease : Nat]
         /\ etKv'[n].val = v /\ etKv'[n].lease = l
         /\ \A m \in DOMAIN etKv : m # n => etKv'[m] = etKv[m]
         /\ EtMirrors(etKv, etEvents, etView) => EtMirrors(etKv', etEvents', etView)
<1>1. PICK x : x = [val |-> v, lease |-> l]
  OBVIOUS
<1>2. l \in Nat /\ x \in [val : EtValues, lease : Nat] /\ x.val = v /\ x.lease = l
  <2>1. etLive \subseteq 1 .. etGranted /\ etGranted \in Nat
    BY DEF EtTypes
  <2>2. l \in 1 .. etGranted
    BY <2>1
  <2>3. l \in Nat
    BY <2>1, <2>2
  <2> QED
    BY <1>1, <2>3
<1>3. etKv' = EtWith(etKv, n, x)
  BY <1>1 DEF EtcdPut
<1>4. /\ DOMAIN etKv' = DOMAIN etKv \cup {n} /\ etKv'[n] = x
      /\ \A m \in DOMAIN etKv : m # n => etKv'[m] = etKv[m]
  BY <1>3 DEF EtWith
<1>5. IsFiniteSet(DOMAIN etKv')
  BY <1>4, FS_AddElement DEF EtTypes
<1>6. \A m \in DOMAIN etKv' : etKv'[m] \in [val : EtValues, lease : Nat]
  BY <1>2, <1>4 DEF EtTypes
<1>7. ASSUME EtMirrors(etKv, etEvents, etView) PROVE EtMirrors(etKv', etEvents', etView)
  <2>1. PICK ev : ev = [kind |-> "put", node |-> n, val |-> {v}, prev |-> {}]
    OBVIOUS
  <2>2. ev \in EtEvent /\ ev.kind = "put" /\ ev.node = n /\ ev.val = {v}
    BY <2>1 DEF EtEvent
  <2>3. etEvents \in Seq(EtEvent)
    BY <1>7 DEF EtMirrors
  <2>4. PICK a : a = <<ev>>
    OBVIOUS
  <2>5. a \in Seq(EtEvent) /\ Len(a) = 1 /\ a[1] = ev
    BY <2>2, <2>4
  <2>6. etEvents' = etEvents \o a
    <3>1. etEvents' = Append(etEvents, ev)
      BY <2>1 DEF EtcdPut
    <3> QED
      BY <2>2, <2>3, <2>4, <3>1, AppendIsConcat
  <2>7. EtTells(ev, etKv')
    BY <1>2, <1>4, <2>2 DEF EtTells
  <2>8. \A i \in 1 .. Len(a) : a[i] = ev
    BY <2>5
  <2>9. ASSUME NEW m \in EtNodes, \A i \in 1 .. Len(a) : a[i].node # m
        PROVE  EtSame(etKv, etKv', m)
    <3>1. m # n
      BY <2>2, <2>5, <2>9
    <3> QED
      BY <1>4, <3>1 DEF EtSame
  <2>10. \A i \in 1 .. Len(a) : EtTells(a[i], etKv')
    BY <2>7, <2>8
  <2>11. EtMirrors(etKv', etEvents \o a, etView)
    BY <1>7, <2>5, <2>9, <2>10, EtFollows
  <2> QED
    BY <2>6, <2>11
<1> QED
  BY <1>2, <1>4, <1>5, <1>6, <1>7

(* As many different elements of a finite set as it has are all of them.   *)
LEMMA EtAllOf ==
  ASSUME NEW S, IsFiniteSet(S), NEW order \in [1 .. Cardinality(S) -> S],
         \A i, j \in 1 .. Cardinality(S) : i # j => order[i] # order[j]
  PROVE  /\ Cardinality(S) \in Nat
         /\ \A x \in S : \E i \in 1 .. Cardinality(S) : order[i] = x
<1>1. PICK c : c = Cardinality(S)
  OBVIOUS
<1>2. c \in Nat
  BY <1>1, FS_CardinalityType
<1>3. Cardinality(1 .. c) = c
  BY <1>2, FS_Interval
<1>4. order \in Injection(1 .. c, S)
  BY <1>1 DEF Injection, IsInjective
<1>5. order \in Surjection(1 .. c, S)
  BY <1>1, <1>3, <1>4, FS_Injection
<1> QED
  BY <1>1, <1>2, <1>5 DEF Surjection

(* And what a Delete does.                                                 *)
LEMMA EtcdRemoves ==
  ASSUME EtTypes, NEW N, EtcdDelete(N)
  PROVE  /\ IsFiniteSet(DOMAIN etKv') /\ DOMAIN etKv' = DOMAIN etKv \ N
         /\ \A m \in DOMAIN etKv' : etKv'[m] = etKv[m]
         /\ EtMirrors(etKv, etEvents, etView) => EtMirrors(etKv', etEvents', etView)
<1>1. /\ DOMAIN etKv' = DOMAIN etKv \ N
      /\ \A m \in DOMAIN etKv' : etKv'[m] = etKv[m]
  BY DEF EtcdDelete
<1>2. PICK S : S = N \cap DOMAIN etKv
  OBVIOUS
<1>3. IsFiniteSet(DOMAIN etKv') /\ IsFiniteSet(S)
  BY <1>1, <1>2, FS_Subset DEF EtTypes
<1>4. ASSUME EtMirrors(etKv, etEvents, etView) PROVE EtMirrors(etKv', etEvents', etView)
  <2>1. PICK order \in [1 .. Cardinality(S) -> S] :
          /\ \A i, j \in DOMAIN order : i # j => order[i] # order[j]
          /\ etEvents' = etEvents \o [i \in DOMAIN order |->
               [kind |-> "delete", node |-> order[i], val |-> {}, prev |-> {etKv[order[i]].val}]]
    BY <1>2 DEF EtcdDelete
  <2>2. PICK c : c = Cardinality(S)
    OBVIOUS
  <2>3. order \in [1 .. c -> S] /\ DOMAIN order = 1 .. c
    BY <2>1, <2>2
  <2>4. c \in Nat /\ \A x \in S : \E i \in 1 .. c : order[i] = x
    <3>1. \A i, j \in 1 .. Cardinality(S) : i # j => order[i] # order[j]
      BY <2>1, <2>2, <2>3
    <3>2. /\ Cardinality(S) \in Nat
          /\ \A x \in S : \E i \in 1 .. Cardinality(S) : order[i] = x
      BY <1>3, <3>1, EtAllOf
    <3> QED
      BY <2>2, <3>2
  <2>5. PICK a : a = [i \in 1 .. c |-> [kind |-> "delete", node |-> order[i], val |-> {},
                                        prev |-> {etKv[order[i]].val}]]
    OBVIOUS
  <2>6. ASSUME NEW i \in 1 .. c
        PROVE  a[i] \in EtEvent /\ a[i].kind = "delete" /\ a[i].node = order[i] /\ a[i].prev # {}
    <3>1. order[i] \in S /\ order[i] \in EtNodes /\ order[i] \in DOMAIN etKv
      BY <1>2, <2>3 DEF EtTypes
    <3>2. etKv[order[i]].val \in EtValues
      BY <3>1 DEF EtTypes
    <3>3. a[i] = [kind |-> "delete", node |-> order[i], val |-> {}, prev |-> {etKv[order[i]].val}]
      BY <2>5
    <3> QED
      BY <3>1, <3>2, <3>3 DEF EtEvent
  <2>7. a \in Seq(EtEvent) /\ Len(a) = c
    BY <2>4, <2>5, <2>6
  <2>8. \A i \in 1 .. Len(a) : EtTells(a[i], etKv')
    BY <1>1, <1>2, <2>3, <2>6, <2>7 DEF EtTells
  <2>9. ASSUME NEW m \in EtNodes, \A i \in 1 .. Len(a) : a[i].node # m
        PROVE  EtSame(etKv, etKv', m)
    <3>1. m \notin S
      BY <2>4, <2>6, <2>7, <2>9
    <3> QED
      BY <1>1, <1>2, <3>1 DEF EtSame
  <2>10. EtMirrors(etKv', etEvents \o a, etView)
    BY <1>4, <2>7, <2>8, <2>9, EtFollows
  <2> QED
    BY <2>1, <2>3, <2>5, <2>10
<1> QED
  BY <1>1, <1>3, <1>4

(* Put, which ends a Register.                                             *)
LEMMA EtPutKeeps ==
  ASSUME EtInv, NEW op \in etOp, EtPut(op)
  PROVE  EtInv'
<1>1. /\ EtTypes /\ EtRemembers /\ RegisteredIsThere
      /\ EtBatch = 1 => EtMirrors(etKv, etEvents, etView)
      /\ etOp = {op} /\ op.pc = "put" /\ op.lease \in etLive /\ etOp' = {}
      /\ UNCHANGED <<etLive, etGranted, etView>>
  BY DEF EtInv, EtPut
<1>2. op \in EtCallRecords
  BY <1>1 DEF EtTypes, EtDeleteRecords
<1>3. PICK n, v, l : n = op.node /\ v = op.val /\ l = op.lease
  OBVIOUS
<1>4. n \in EtNodes /\ v \in EtValues /\ l \in etLive /\ EtcdPut(n, v, l)
  BY <1>1, <1>2, <1>3 DEF EtCallRecords, EtPut
<1>5. /\ IsFiniteSet(DOMAIN etKv') /\ DOMAIN etKv' = DOMAIN etKv \cup {n}
      /\ \A m \in DOMAIN etKv' : etKv'[m] \in [val : EtValues, lease : Nat]
      /\ etKv'[n].val = v /\ etKv'[n].lease = l
      /\ \A m \in DOMAIN etKv : m # n => etKv'[m] = etKv[m]
      /\ EtMirrors(etKv, etEvents, etView) => EtMirrors(etKv', etEvents', etView)
  BY <1>1, <1>4, EtcdStores
<1>6. /\ etHash' = EtWith(etHash, n, v.node) /\ etLeases' = EtWith(etLeases, n, l)
      /\ etSure' = [etSure EXCEPT ![n] = {v}] /\ etDoubt' = etDoubt \ {n}
  BY <1>3 DEF EtPut
<1>7. /\ DOMAIN etLeases' = DOMAIN etLeases \cup {n} /\ etLeases'[n] = l
      /\ \A m \in DOMAIN etLeases : m # n => etLeases'[m] = etLeases[m]
  BY <1>6 DEF EtWith
<1>8. /\ DOMAIN etHash' = DOMAIN etLeases \cup {n} /\ etHash'[n] = v.node
      /\ \A m \in DOMAIN etLeases : m # n => etHash'[m] = etHash[m]
  BY <1>1, <1>6 DEF EtWith, EtRemembers
<1>9. /\ etSure' \in [EtNodes -> SUBSET EtValues] /\ etSure'[n] = {v}
      /\ \A m \in EtNodes : m # n => etSure'[m] = etSure[m]
  BY <1>1, <1>4, <1>6 DEF EtTypes
<1>10. EtTypes'
  <2>1. DOMAIN etKv' \subseteq EtNodes
    BY <1>1, <1>4, <1>5 DEF EtTypes
  <2> QED
    BY <1>1, <1>5, <1>9, <2>1 DEF EtTypes
<1>11. EtRemembers'
  <2>1. l \in 0 .. etGranted
    <3>1. etLive \subseteq 1 .. etGranted /\ etGranted \in Nat
      BY <1>1 DEF EtTypes
    <3>2. l \in 1 .. etGranted
      BY <1>4, <3>1
    <3> QED
      BY <3>1, <3>2
  <2>2. \A m \in DOMAIN etKv' : etKv'[m].lease \in etLive \cup {0}
    BY <1>1, <1>4, <1>5 DEF EtRemembers
  <2>3. \A m \in DOMAIN etLeases' : etLeases'[m] \in 0 .. etGranted
    BY <1>1, <1>7, <2>1 DEF EtRemembers
  <2>4. ASSUME NEW m \in EtNodes \ etDoubt', m \in DOMAIN etLeases', etLeases'[m] \in etLive
        PROVE  m \in DOMAIN etKv' /\ etKv'[m].val.node = etHash'[m] /\ etKv'[m].lease = etLeases'[m]
    <3>1. CASE m = n
      BY <1>5, <1>7, <1>8, <3>1
    <3>2. CASE m # n
      <4>1. m \in EtNodes \ etDoubt /\ m \in DOMAIN etLeases /\ etLeases[m] \in etLive
        BY <1>6, <1>7, <2>4, <3>2
      <4>2. m \in DOMAIN etKv /\ etKv[m].val.node = etHash[m] /\ etKv[m].lease = etLeases[m]
        BY <1>1, <4>1 DEF EtRemembers
      <4> QED
        BY <1>5, <1>7, <1>8, <3>2, <4>1, <4>2
    <3> QED
      BY <3>1, <3>2
  <2> QED
    BY <1>1, <1>7, <1>8, <2>2, <2>3, <2>4 DEF EtRemembers
<1>12. RegisteredIsThere'
  <2> SUFFICES ASSUME NEW m \in EtNodes \ etDoubt', etSure'[m] # {}
               PROVE  m \in DOMAIN etKv' /\ etKv'[m].val \in etSure'[m]
    BY DEF RegisteredIsThere
  <2>1. CASE m = n
    BY <1>5, <1>9, <2>1
  <2>2. CASE m # n
    <3>1. m \in EtNodes \ etDoubt /\ etSure[m] = etSure'[m]
      BY <1>6, <1>9, <2>2
    <3>2. m \in DOMAIN etKv /\ etKv[m].val \in etSure[m]
      BY <1>1, <3>1 DEF RegisteredIsThere
    <3> QED
      BY <1>5, <2>2, <3>1, <3>2
  <2> QED
    BY <2>1, <2>2
<1>13. EtBatch = 1 => EtMirrors(etKv', etEvents', etView')
  BY <1>1, <1>5
<1> QED
  BY <1>1, <1>10, <1>11, <1>12, <1>13 DEF EtInv

(* Deregister forgets the node.                                            *)
LEMMA EtDeregisterKeeps ==
  ASSUME EtInv, NEW n \in EtNodes, EtDeregister(n)
  PROVE  EtInv'
<1>1. /\ EtTypes /\ EtRemembers /\ RegisteredIsThere
      /\ EtBatch = 1 => EtMirrors(etKv, etEvents, etView)
      /\ UNCHANGED <<etKv, etEvents, etLive, etGranted, etView, etDoubt>>
  BY DEF EtInv, EtDeregister, etStore
<1>2. PICK op : op = [node |-> n, pc |-> "delete", lease |-> 0, lost |-> FALSE]
  OBVIOUS
<1>3. op \in EtDeleteRecords /\ op.node = n /\ op.pc = "delete"
  BY <1>2 DEF EtDeleteRecords
<1>4. /\ etOp' = {op} /\ etSure' = [etSure EXCEPT ![n] = {}]
      /\ etHash' = EtWithout(etHash, n) /\ etLeases' = EtWithout(etLeases, n)
  BY <1>2 DEF EtDeregister
<1>5. /\ etSure' \in [EtNodes -> SUBSET EtValues] /\ etSure'[n] = {}
      /\ \A m \in EtNodes : etSure'[m] \subseteq etSure[m]
  BY <1>1, <1>4 DEF EtTypes
<1>6. /\ DOMAIN etLeases' = DOMAIN etLeases \ {n} /\ DOMAIN etHash' = DOMAIN etHash \ {n}
      /\ \A m \in DOMAIN etLeases' : etLeases'[m] = etLeases[m]
      /\ \A m \in DOMAIN etHash' : etHash'[m] = etHash[m]
  BY <1>4 DEF EtWithout
<1>7. EtTypes'
  BY <1>1, <1>3, <1>4, <1>5 DEF EtTypes
<1>8. EtRemembers' /\ RegisteredIsThere'
  <2>1. \A m \in EtNodes : etSure'[m] = {} \/ etSure'[m] = etSure[m]
    BY <1>1, <1>4 DEF EtTypes
  <2>2. EtRemembers'
    BY <1>1, <1>6 DEF EtRemembers
  <2> QED
    BY <1>1, <2>1, <2>2 DEF RegisteredIsThere
<1>9. \A o \in etOp' : EtKnows(o)' /\ etSure'[o.node] = {}
  BY <1>3, <1>4, <1>5, <1>6 DEF EtKnows
<1>10. EtBatch = 1 => EtMirrors(etKv', etEvents', etView')
  BY <1>1
<1> QED
  BY <1>7, <1>8, <1>9, <1>10 DEF EtInv

(* The key of a node that was forgotten is removed.                        *)
LEMMA EtRemoved ==
  ASSUME EtInv, NEW op \in etOp, op.pc = "delete", EtcdDelete({op.node}), etOp' = {},
         UNCHANGED <<etLive, etGranted, etMem, etSure, etView, etDoubt>>
  PROVE  EtInv'
<1>1. /\ EtTypes /\ EtRemembers /\ RegisteredIsThere
      /\ EtBatch = 1 => EtMirrors(etKv, etEvents, etView)
      /\ EtKnows(op) /\ etSure[op.node] = {}
      /\ UNCHANGED <<etLive, etGranted, etLeases, etHash, etSure, etView, etDoubt>>
  BY DEF EtInv, etMem
<1>2. /\ IsFiniteSet(DOMAIN etKv') /\ DOMAIN etKv' = DOMAIN etKv \ {op.node}
      /\ \A m \in DOMAIN etKv' : etKv'[m] = etKv[m]
      /\ EtMirrors(etKv, etEvents, etView) => EtMirrors(etKv', etEvents', etView)
  BY <1>1, EtcdRemoves
<1>3. PICK n : n = op.node
  OBVIOUS
<1>4. n \notin DOMAIN etLeases /\ etSure[n] = {} /\ DOMAIN etKv' = DOMAIN etKv \ {n}
  BY <1>1, <1>2, <1>3 DEF EtKnows
<1>5. EtTypes'
  BY <1>1, <1>2 DEF EtTypes
<1>6. EtRemembers'
  BY <1>1, <1>2, <1>4 DEF EtRemembers
<1>7. RegisteredIsThere'
  BY <1>1, <1>2, <1>4 DEF RegisteredIsThere
<1>8. EtBatch = 1 => EtMirrors(etKv', etEvents', etView')
  BY <1>1, <1>2
<1> QED
  BY <1>5, <1>6, <1>7, <1>8 DEF EtInv

(* A call fails: without effect, or after a Put, which is then in doubt,   *)
(* or after a Delete.                                                      *)
LEMMA EtFailsKeeps ==
  ASSUME EtInv, NEW op \in etOp, EtFails(op)
  PROVE  EtInv'
<1>1. /\ EtTypes /\ EtRemembers /\ RegisteredIsThere /\ etSure[op.node] = {}
      /\ EtBatch = 1 => EtMirrors(etKv, etEvents, etView)
      /\ etOp' = {} /\ UNCHANGED <<etLive, etGranted, etLeases, etHash, etSure, etView>>
  BY DEF EtInv, EtFails, etMem
<1>2. CASE UNCHANGED <<etStore, etDoubt>>
  <2>1. UNCHANGED <<etKv, etEvents, etDoubt>>
    BY <1>2 DEF etStore
  <2>2. EtTypes' /\ EtRemembers' /\ RegisteredIsThere'
    BY <1>1, <2>1 DEF EtTypes, EtRemembers, RegisteredIsThere
  <2>3. EtBatch = 1 => EtMirrors(etKv', etEvents', etView')
    BY <1>1, <2>1
  <2> QED
    BY <1>1, <2>2, <2>3 DEF EtInv
<1>3. CASE /\ op.pc = "put" /\ op.lease \in etLive
           /\ EtcdPut(op.node, op.val, op.lease) /\ etDoubt' = etDoubt \cup {op.node}
  <2>1. op \in EtCallRecords
    BY <1>1, <1>3 DEF EtTypes, EtDeleteRecords
  <2>2. PICK n, v, l : n = op.node /\ v = op.val /\ l = op.lease
    OBVIOUS
  <2>3. /\ n \in EtNodes /\ v \in EtValues /\ l \in etLive /\ EtcdPut(n, v, l)
        /\ etDoubt' = etDoubt \cup {n}
    BY <1>3, <2>1, <2>2 DEF EtCallRecords
  <2>4. /\ IsFiniteSet(DOMAIN etKv') /\ DOMAIN etKv' = DOMAIN etKv \cup {n}
        /\ \A m \in DOMAIN etKv' : etKv'[m] \in [val : EtValues, lease : Nat]
        /\ etKv'[n].val = v /\ etKv'[n].lease = l
        /\ \A m \in DOMAIN etKv : m # n => etKv'[m] = etKv[m]
        /\ EtMirrors(etKv, etEvents, etView) => EtMirrors(etKv', etEvents', etView)
    BY <1>1, <2>3, EtcdStores
  <2>5. EtTypes'
    <3>1. DOMAIN etKv' \subseteq EtNodes
      BY <1>1, <2>3, <2>4 DEF EtTypes
    <3> QED
      BY <1>1, <2>4, <3>1 DEF EtTypes
  <2>6. EtRemembers'
    <3>1. \A m \in DOMAIN etKv' : etKv'[m].lease \in etLive \cup {0}
      BY <1>1, <2>3, <2>4 DEF EtRemembers
    <3> QED
      BY <1>1, <2>3, <2>4, <3>1 DEF EtRemembers
  <2>7. RegisteredIsThere'
    BY <1>1, <2>3, <2>4 DEF RegisteredIsThere
  <2>8. EtBatch = 1 => EtMirrors(etKv', etEvents', etView')
    BY <1>1, <2>4
  <2> QED
    BY <1>1, <2>5, <2>6, <2>7, <2>8 DEF EtInv
<1>4. CASE op.pc = "delete" /\ EtcdDelete({op.node}) /\ UNCHANGED etDoubt
  BY <1>1, <1>4, EtRemoved DEF etMem
<1> QED
  BY <1>2, <1>3, <1>4 DEF EtFails

(* A lease expires, and the calls that renewed it have lost it.            *)
LEMMA EtExpiresKeeps ==
  ASSUME EtInv, NEW l \in etLive, EtcdExpires(l)
  PROVE  EtInv'
<1>1. /\ EtTypes /\ EtRemembers /\ RegisteredIsThere
      /\ EtBatch = 1 => EtMirrors(etKv, etEvents, etView)
      /\ UNCHANGED <<etGranted, etLeases, etHash, etView, etDoubt>>
  BY DEF EtInv, EtcdExpires, etMem
<1>2. PICK keys : keys = {n \in DOMAIN etKv : etKv[n].lease = l}
  OBVIOUS
<1>3. /\ etLive' = etLive \ {l} /\ EtcdDelete(keys)
      /\ etSure' = [n \in EtNodes |-> IF n \in keys THEN {} ELSE etSure[n]]
      /\ etOp' = {[op EXCEPT !.lost = @ \/ (op.lease = l /\ op.pc \in {"check", "put"})] : op \in etOp}
  BY <1>2 DEF EtcdExpires
<1>4. /\ IsFiniteSet(DOMAIN etKv') /\ DOMAIN etKv' = DOMAIN etKv \ keys
      /\ \A m \in DOMAIN etKv' : etKv'[m] = etKv[m]
      /\ EtMirrors(etKv, etEvents, etView) => EtMirrors(etKv', etEvents', etView)
  BY <1>1, <1>3, EtcdRemoves
<1>5. /\ etSure' \in [EtNodes -> SUBSET EtValues]
      /\ \A n \in EtNodes : /\ n \in keys => etSure'[n] = {}
                            /\ n \notin keys => etSure'[n] = etSure[n]
  BY <1>1, <1>3 DEF EtTypes
<1>6. ASSUME NEW op \in EtCallRecords \cup EtDeleteRecords, etOp = {op}
      PROVE  /\ \E o \in EtCallRecords \cup EtDeleteRecords : etOp' = {o}
             /\ \A o \in etOp' : EtKnows(o)' /\ etSure'[o.node] = {}
  <2>1. PICK b, r : /\ b = (op.lost \/ (op.lease = l /\ op.pc \in {"check", "put"}))
                    /\ r = [op EXCEPT !.lost = b]
    OBVIOUS
  <2>2. etOp' = {r} /\ b \in BOOLEAN
    BY <1>3, <1>6, <2>1
  <2>3. CASE op \in EtCallRecords
    <3>1. /\ r \in EtCallRecords /\ r.node = op.node /\ r.pc = op.pc /\ r.lease = op.lease
          /\ r.notFound = op.notFound /\ r.lost = b /\ op.lost \in BOOLEAN /\ op.node \in EtNodes
      BY <2>1, <2>2, <2>3 DEF EtCallRecords
    <3>2. EtKnows(op) /\ etSure[op.node] = {}
      BY <1>6 DEF EtInv
    <3>3. r.lost = FALSE => op.lost = FALSE /\ ~(op.lease = l /\ op.pc = "check")
      BY <2>1, <3>1
    <3>4. EtKnows(r)'
      BY <1>1, <1>3, <3>1, <3>2, <3>3 DEF EtKnows
    <3>5. etSure'[r.node] = {}
      <4>1. PICK n : n = op.node
        OBVIOUS
      <4>2. n \in EtNodes /\ etSure[n] = {} /\ r.node = n
        BY <3>1, <3>2, <4>1
      <4>3. etSure'[n] = {}
        BY <1>5, <4>2
      <4> QED
        BY <4>2, <4>3
    <3> QED
      BY <2>2, <3>1, <3>4, <3>5
  <2>4. CASE op \in EtDeleteRecords
    <3>1. /\ r \in EtDeleteRecords /\ r.node = op.node /\ r.pc = "delete" /\ op.pc = "delete"
          /\ op.node \in EtNodes
      BY <2>1, <2>2, <2>4 DEF EtDeleteRecords
    <3>2. EtKnows(op) /\ etSure[op.node] = {}
      BY <1>6 DEF EtInv
    <3>3. EtKnows(r)'
      BY <1>1, <3>1, <3>2 DEF EtKnows
    <3>4. etSure'[r.node] = {}
      <4>1. PICK n : n = op.node
        OBVIOUS
      <4>2. n \in EtNodes /\ etSure[n] = {} /\ r.node = n
        BY <3>1, <3>2, <4>1
      <4>3. etSure'[n] = {}
        BY <1>5, <4>2
      <4> QED
        BY <4>2, <4>3
    <3> QED
      BY <2>2, <3>1, <3>3, <3>4
  <2> QED
    BY <2>3, <2>4
<1>7. /\ etOp' = {} \/ \E o \in EtCallRecords \cup EtDeleteRecords : etOp' = {o}
      /\ \A o \in etOp' : EtKnows(o)' /\ etSure'[o.node] = {}
  <2>1. CASE etOp = {}
    BY <1>3, <2>1
  <2>2. CASE \E op \in EtCallRecords \cup EtDeleteRecords : etOp = {op}
    BY <1>6, <2>2
  <2> QED
    BY <1>1, <2>1, <2>2 DEF EtTypes
<1>8. EtTypes'
  BY <1>1, <1>3, <1>4, <1>5, <1>7 DEF EtTypes
<1>9. EtRemembers'
  <2>1. \A n \in DOMAIN etKv' : etKv'[n].lease \in etLive' \cup {0}
    BY <1>1, <1>2, <1>3, <1>4 DEF EtRemembers
  <2>2. ASSUME NEW n \in EtNodes \ etDoubt, n \in DOMAIN etLeases, etLeases[n] \in etLive'
        PROVE  n \in DOMAIN etKv' /\ etKv'[n].val.node = etHash[n] /\ etKv'[n].lease = etLeases[n]
    <3>1. etLeases[n] \in etLive /\ etLeases[n] # l
      BY <1>3, <2>2
    <3>2. n \in DOMAIN etKv /\ etKv[n].val.node = etHash[n] /\ etKv[n].lease = etLeases[n]
      BY <1>1, <2>2, <3>1 DEF EtRemembers
    <3> QED
      BY <1>2, <1>4, <3>1, <3>2
  <2> QED
    BY <1>1, <2>1, <2>2 DEF EtRemembers
<1>10. RegisteredIsThere'
  <2> SUFFICES ASSUME NEW m \in EtNodes \ etDoubt', etSure'[m] # {}
               PROVE  m \in DOMAIN etKv' /\ etKv'[m].val \in etSure'[m]
    BY DEF RegisteredIsThere
  <2>1. m \notin keys /\ etSure[m] = etSure'[m]
    BY <1>5
  <2>2. m \in DOMAIN etKv /\ etKv[m].val \in etSure[m]
    BY <1>1, <2>1 DEF RegisteredIsThere
  <2> QED
    BY <1>4, <2>1, <2>2
<1>11. EtBatch = 1 => EtMirrors(etKv', etEvents', etView')
  BY <1>1, <1>4
<1> QED
  BY <1>7, <1>8, <1>9, <1>10, <1>11 DEF EtInv

(* The watcher's Next.                                                     *)
LEMMA EtNextKeeps ==
  ASSUME EtInv, NEW k \in 1 .. EtBatch, EtNext(k)
  PROVE  EtInv'
<1>1. /\ EtTypes /\ EtRemembers /\ RegisteredIsThere
      /\ EtBatch = 1 => EtMirrors(etKv, etEvents, etView)
      /\ \A op \in etOp : EtKnows(op) /\ etSure[op.node] = {}
      /\ UNCHANGED <<etKv, etLive, etGranted, etLeases, etHash, etOp, etSure, etDoubt>>
  BY DEF EtInv, EtNext, etMem
<1>2. EtTypes' /\ EtRemembers' /\ RegisteredIsThere'
  BY <1>1 DEF EtTypes, EtRemembers, RegisteredIsThere
<1>3. \A op \in etOp' : EtKnows(op)' /\ etSure'[op.node] = {}
  BY <1>1 DEF EtKnows
<1>4. ASSUME EtBatch = 1 PROVE EtMirrors(etKv', etEvents', etView')
  <2>1. k = 1 /\ EtMirrors(etKv, etEvents, etView) /\ k <= Len(etEvents)
    BY <1>1, <1>4 DEF EtNext
  <2>2. etEvents \in Seq(EtEvent) /\ etEvents # <<>>
    <3>1. etEvents \in Seq(EtEvent)
      BY <2>1 DEF EtMirrors
    <3>2. Len(etEvents) # 0
      BY <2>1, <3>1
    <3> QED
      BY <3>1, <3>2
  <2>3. PICK ev, w : ev = etEvents[1] /\ w = etView'
    OBVIOUS
  <2>4. w = EtApplied(etView, ev)
    BY <2>3 DEF EtNext, EtApplied
  <2>5. EtMirrors(etKv, SubSeq(etEvents, 2, Len(etEvents)), w)
    BY <2>1, <2>2, <2>3, <2>4, EtTakes
  <2>6. etEvents' = SubSeq(etEvents, 2, Len(etEvents))
    BY <2>1 DEF EtNext
  <2> QED
    BY <1>1, <2>3, <2>5, <2>6
<1> QED
  BY <1>2, <1>3, <1>4 DEF EtInv

(* The etcd registry agrees with etcd: for any nodes, values and leases,   *)
(* whatever fails and however old the answer of a Get, a Register that     *)
(* returned stands until its lease expires - the value it wrote, or, where *)
(* registerNode skips the write, a value with the same node - unless what  *)
(* the process remembers of the key is not so; and a watcher that gets its *)
(* events one by one ends with the keys of etcd.                           *)
THEOREM EtcdStands == EtcdInit /\ [][EtcdNext]_etVars => []EtcdAgrees
<1>1. EtInv /\ EtPastKnown /\ [EtcdNext]_etVars => (EtInv /\ EtPastKnown)'
  <2> SUFFICES ASSUME EtInv, EtPastKnown, [EtcdNext]_etVars PROVE EtInv' /\ EtPastKnown'
    OBVIOUS
  <2>1. CASE UNCHANGED etVars
    <3>1. EtTypes' /\ EtRemembers' /\ RegisteredIsThere'
      BY <2>1 DEF etVars, EtInv, EtTypes, EtRemembers, RegisteredIsThere
    <3>2. \A op \in etOp' : EtKnows(op)' /\ etSure'[op.node] = {}
      BY <2>1 DEF etVars, EtInv, EtKnows
    <3>3. EtBatch = 1 => EtMirrors(etKv', etEvents', etView')
      BY <2>1 DEF etVars, EtInv
    <3>4. EtPastKnown'
      BY <2>1 DEF etVars, EtPastKnown
    <3> QED
      BY <3>1, <3>2, <3>3, <3>4 DEF EtInv
  <2>2. CASE EtcdNext
    <3>1. ASSUME NEW op \in etOp, EtDelete(op) PROVE EtInv'
      BY <3>1, EtRemoved DEF EtDelete
    <3>2. EtPastKnown'
      BY <2>2, EtPastKeeps DEF EtInv
    <3> QED
      BY <2>2, <3>1, <3>2, EtRegisterKeeps, EtDeregisterKeeps, EtGetKeeps, EtRenewKeeps, EtCheckKeeps,
         EtPutKeeps, EtFailsKeeps, EtExpiresKeeps, EtNextKeeps DEF EtcdNext
  <2> QED
    BY <2>1, <2>2
<1>2. EtInv => EtcdAgrees
  <2> SUFFICES ASSUME EtInv PROVE EtcdAgrees
    OBVIOUS
  <2>1. RegisteredIsThere
    BY DEF EtInv
  <2>2. ASSUME EtBatch = 1, etEvents = <<>> PROVE etView = [n \in DOMAIN etKv |-> etKv[n].val]
    <3>1. EtMirrors(etKv, <<>>, etView) /\ DOMAIN etKv \subseteq EtNodes
      BY <2>2 DEF EtInv, EtTypes
    <3> QED
      BY <3>1, EtMirrored
  <2> QED
    BY <2>1, <2>2 DEF EtcdAgrees, WatcherMirrorsEtcd
<1> QED
  BY <1>1, <1>2, EtStarts, PTL

-----------------------------------------------------------------------------
(* The types.                                                              *)
MdPairs == MdServices \X MdIds
MdMessages == MdServices \X MdIds \X {0, 120} \X {"asked", "unasked"}
MdSeen == UNION {[D -> {0, 120}] : D \in SUBSET MdPairs}
MdQueryRecords == [pc : {"new", "asking", "done"}, name : SUBSET (MdServices \cup {MdStar}),
                   wire : SUBSET MdMessages, seen : MdSeen, sent : SUBSET MdPairs,
                   result : Seq(MdPairs), known : SUBSET MdPairs]
MdOpRecords == [name : MdServices, nodes : SUBSET MdNodes, left : SUBSET MdNodes,
                now : SUBSET MdNodes]
MdEntry(e, s, n) == s \in DOMAIN e /\ n \in e[s]
MdTypes ==
  /\ DOMAIN mdEntries \subseteq MdServices
  /\ \A s \in DOMAIN mdEntries : mdEntries[s] \subseteq MdIds
  /\ mdServer \in [MdPairs -> {"down", "up", "leaving"}]
  /\ mdOp = {} \/ \E op \in MdOpRecords : mdOp = {op}

(* A server that is not down has an entry, and the wildcard's is up while  *)
(* its service has one.                                                    *)
MdServed ==
  /\ \A s \in MdServices, n \in MdIds : mdServer[<<s, n>>] # "down" => MdEntry(mdEntries, s, n)
  /\ \A s \in MdServices \ mdEarly : mdServer[<<s, MdStar>>] = "up" <=> s \in DOMAIN mdEntries

(* A Deregister has the servers down that it has passed.                   *)
MdShutting(op) ==
  /\ op.name \in DOMAIN mdEntries \cup mdEarly
  /\ \A n \in op.left : MdEntry(mdEntries, op.name, n)
  /\ \A n \in op.nodes : MdEntry(mdEntries, op.name, n) =>
       n \in op.left \/ n \in op.now \/ mdServer[<<op.name, n>>] = "down"

(* What a query Q holds, beside the entries e.                             *)
MdAsksFor(Q, s, n) == <<s, n>> \in Q.known /\ \A name \in Q.name : MdRecords(s, n, name)
MdQuerySound(Q, e) ==
  /\ Q \in MdQueryRecords
  /\ Q.pc = "new" => Q.wire = {} /\ Q.result = <<>>
  /\ Q.pc = "asking" => \A s \in MdServices, n \in MdIds : MdEntry(e, s, n) => <<s, n>> \in Q.known
  /\ Q.pc # "new" => \E x : Q.name = {x}
  /\ \A m \in Q.wire : m[4] = "asked" => MdAsksFor(Q, m[1], m[2])
  /\ \A i \in 1 .. Len(Q.result) : /\ Q.result[i] \in Q.sent
                                   /\ MdAsksFor(Q, Q.result[i][1], Q.result[i][2])
  /\ \A i, j \in 1 .. Len(Q.result) : Q.result[i] = Q.result[j] => i = j

(* The inductive invariant.                                                *)
MdHeard ==
  /\ mdWatch \in [MdWatchers -> {"new", "on", "stopped"}] /\ mdListener \in BOOLEAN
  /\ mdStarter \in [MdStarters -> {"idle", "starts", "listening"}]
  /\ WatchersAreFed
MdQueriesInv ==
  /\ mdQuery = [q \in MdQueries |-> mdQuery[q]]
  /\ \A q \in MdQueries : MdQuerySound(mdQuery[q], mdEntries)
MdInv == /\ MdTypes /\ MdServed /\ \A op \in mdOp : MdShutting(op)
         /\ MdQueriesInv /\ MdHeard

(* Nothing is registered yet.                                              *)
LEMMA MdStarts == MdnsInit => MdInv
<1> SUFFICES ASSUME MdnsInit PROVE MdInv
  OBVIOUS
<1>1. DOMAIN mdEntries = {}
  BY DEF MdnsInit
<1>2. mdServer \in [MdPairs -> {"down", "up", "leaving"}] /\ \A x \in MdPairs : mdServer[x] = "down"
  BY DEF MdnsInit, MdPairs
<1>3. MdTypes
  BY <1>1, <1>2 DEF MdnsInit, MdTypes
<1>4. MdServed
  BY <1>1, <1>2 DEF MdServed, MdPairs, MdIds
<1>5. MdQueriesInv
  <2>1. PICK Q : Q = [pc |-> "new", name |-> {}, wire |-> {}, seen |-> <<>>,
                      sent |-> {}, result |-> <<>>, known |-> {}]
    OBVIOUS
  <2>2. <<>> \in MdSeen
    <3>1. <<>> \in [{} -> {0, 120}] /\ {} \in SUBSET MdPairs
      OBVIOUS
    <3> QED
      BY <3>1 DEF MdSeen
  <2>3. Q \in MdQueryRecords /\ Q.pc = "new" /\ Q.wire = {} /\ Q.result = <<>> /\ Len(Q.result) = 0
    BY <2>1, <2>2 DEF MdQueryRecords
  <2>4. MdQuerySound(Q, mdEntries)
    BY <2>3 DEF MdQuerySound
  <2>5. mdQuery = [q \in MdQueries |-> Q]
    BY <2>1 DEF MdnsInit
  <2>6. \A q \in MdQueries : mdQuery[q] = Q
    BY <2>5
  <2>7. mdQuery = [q \in MdQueries |-> mdQuery[q]]
    BY <2>5, <2>6
  <2> QED
    BY <2>4, <2>6, <2>7 DEF MdQueriesInv
<1>6. MdHeard
  BY DEF MdnsInit, MdHeard, WatchersAreFed
<1> QED
  BY <1>3, <1>4, <1>5, <1>6 DEF MdnsInit, MdInv

(* The listeners: where Watch finds one it is there, and a goroutine ends  *)
(* only beside one or where nobody watches.                                *)
LEMMA MdWatchingKeeps ==
  ASSUME MdHeard, MdnsWatching
  PROVE  MdHeard' /\ UNCHANGED mdRest
<1>1. ASSUME NEW w \in MdWatchers, MdWatch(w) PROVE MdHeard' /\ UNCHANGED mdRest
  <2>1. UNCHANGED mdRest /\ mdListener' = mdListener /\ mdWatch' = [mdWatch EXCEPT ![w] = "on"]
    BY <1>1 DEF MdWatch
  <2>2. mdWatch' \in [MdWatchers -> {"new", "on", "stopped"}]
    BY <2>1 DEF MdHeard
  <2>3. CASE mdListener /\ UNCHANGED mdStarter
    BY <2>1, <2>2, <2>3 DEF MdHeard, WatchersAreFed, MdListening
  <2>4. ASSUME NEW g \in MdStarters, ~mdListener, mdStarter[g] = "idle",
               mdStarter' = [mdStarter EXCEPT ![g] = "starts"]
        PROVE  MdHeard'
    <3>1. mdStarter'[g] = "starts" /\ mdStarter' \in [MdStarters -> {"idle", "starts", "listening"}]
      BY <2>4 DEF MdHeard
    <3> QED
      BY <2>1, <2>2, <2>4, <3>1 DEF MdHeard, WatchersAreFed
  <2> QED
    BY <1>1, <2>1, <2>3, <2>4 DEF MdWatch
<1>2. ASSUME NEW w \in MdWatchers, MdNext(w) PROVE MdHeard' /\ UNCHANGED mdRest
  BY <1>2 DEF MdNext, MdHeard, WatchersAreFed, MdListening, mdNet
<1>3. ASSUME NEW w \in MdWatchers, MdStop(w) PROVE MdHeard' /\ UNCHANGED mdRest
  <2>1. /\ UNCHANGED mdRest /\ mdListener' = mdListener /\ mdStarter' = mdStarter
        /\ mdWatch[w] = "on" /\ mdWatch' = [mdWatch EXCEPT ![w] = "stopped"]
    BY <1>3 DEF MdStop
  <2>2. mdWatch' \in [MdWatchers -> {"new", "on", "stopped"}]
    BY <2>1 DEF MdHeard
  <2> QED
    BY <2>1, <2>2 DEF MdHeard, WatchersAreFed, MdListening
<1>4. ASSUME NEW g \in MdStarters, MdStart(g) PROVE MdHeard' /\ UNCHANGED mdRest
  <2>1. PICK none : none = (\A w \in MdWatchers : mdWatch[w] # "on")
    OBVIOUS
  <2>2. /\ UNCHANGED mdRest /\ mdWatch' = mdWatch /\ mdListener' = ~none
        /\ mdStarter[g] = "starts"
        /\ mdStarter' = [mdStarter EXCEPT ![g] = IF none \/ mdListener THEN "idle" ELSE "listening"]
    BY <1>4, <2>1 DEF MdStart
  <2>3. /\ mdStarter' \in [MdStarters -> {"idle", "starts", "listening"}]
        /\ \A h \in MdStarters : h # g => mdStarter'[h] = mdStarter[h]
        /\ mdStarter'[g] = IF none \/ mdListener THEN "idle" ELSE "listening"
    BY <2>2 DEF MdHeard
  <2>4. CASE none
    BY <2>1, <2>2, <2>3, <2>4 DEF MdHeard, WatchersAreFed
  <2>5. CASE ~none /\ mdListener
    <3>1. PICK h \in MdStarters : mdStarter[h] = "listening"
      BY <2>5 DEF MdHeard, WatchersAreFed, MdListening
    <3>2. mdStarter'[h] = "listening"
      BY <2>2, <2>3, <3>1
    <3> QED
      BY <2>2, <2>3, <2>5, <3>2 DEF MdHeard, WatchersAreFed, MdListening
  <2>6. CASE ~none /\ ~mdListener
    <3>1. mdStarter'[g] = "listening"
      BY <2>3, <2>6
    <3> QED
      BY <2>2, <2>3, <2>6, <3>1 DEF MdHeard, WatchersAreFed, MdListening
  <2> QED
    BY <2>2, <2>4, <2>5, <2>6
<1>5. ASSUME NEW g \in MdStarters, MdListenEnds(g) PROVE MdHeard' /\ UNCHANGED mdRest
  <2>1. /\ UNCHANGED mdRest /\ mdWatch' = mdWatch /\ mdListener' = FALSE
        /\ mdStarter' = [mdStarter EXCEPT ![g] = "starts"]
    BY <1>5 DEF MdListenEnds
  <2>2. mdStarter'[g] = "starts" /\ mdStarter' \in [MdStarters -> {"idle", "starts", "listening"}]
    BY <2>1 DEF MdHeard
  <2> QED
    BY <2>1, <2>2 DEF MdHeard, WatchersAreFed
<1> QED
  BY <1>1, <1>2, <1>3, <1>4, <1>5 DEF MdnsWatching

(* Entries that go, and datagrams that were not asked for, change nothing  *)
(* for a query.                                                            *)
LEMMA MdFewer ==
  ASSUME NEW Q, NEW e, NEW f, MdQuerySound(Q, e),
         \A s \in MdServices, n \in MdIds : MdEntry(f, s, n) => MdEntry(e, s, n)
  PROVE  MdQuerySound(Q, f)
BY DEF MdQuerySound

(* A multicast.                                                            *)
LEMMA MdMulticastKeeps ==
  ASSUME MdQueriesInv, NEW s \in MdServices, NEW n \in MdIds, NEW ttl \in {0, 120},
         MdMulticast(s, n, ttl), UNCHANGED mdEntries
  PROVE  MdQueriesInv'
<1>1. PICK m : m = <<s, n, ttl, "unasked">>
  OBVIOUS
<1>2. m \in MdMessages /\ m[4] # "asked"
  BY <1>1 DEF MdMessages
<1>3. PICK A \in SUBSET {q \in MdQueries : mdQuery[q].pc = "asking"} :
        mdQuery' = [q \in MdQueries |->
          IF q \in A THEN [mdQuery[q] EXCEPT !.wire = @ \cup {m}] ELSE mdQuery[q]]
  <2>1. PICK A \in SUBSET {q \in MdQueries : mdQuery[q].pc = "asking"} :
          mdQuery' = [q \in MdQueries |->
            IF q \in A THEN [mdQuery[q] EXCEPT !.wire = @ \cup {<<s, n, ttl, "unasked">>}]
                       ELSE mdQuery[q]]
    BY Zenon DEF MdMulticast
  <2>2. mdQuery' = [q \in MdQueries |->
          IF q \in A THEN [mdQuery[q] EXCEPT !.wire = @ \cup {m}] ELSE mdQuery[q]]
    BY <1>1, <2>1
  <2> QED
    BY <2>1, <2>2
<1>4. ASSUME NEW q \in MdQueries PROVE MdQuerySound(mdQuery'[q], mdEntries)
  <2>1. PICK Q, R : Q = mdQuery[q] /\ R = mdQuery'[q]
    OBVIOUS
  <2>2. MdQuerySound(Q, mdEntries)
    BY <2>1 DEF MdQueriesInv
  <2>3. CASE R = Q
    BY <2>1, <2>2, <2>3
  <2>4. CASE R = [Q EXCEPT !.wire = @ \cup {m}] /\ Q.pc = "asking"
    <3>1. PICK w : w = Q.wire \cup {m}
      OBVIOUS
    <3>2. Q \in MdQueryRecords /\ w \in SUBSET MdMessages
      BY <1>2, <2>2, <3>1 DEF MdQuerySound, MdQueryRecords
    <3>3. R = [Q EXCEPT !.wire = w]
      BY <2>4, <3>1
    <3>4. /\ R \in MdQueryRecords /\ R.wire = w /\ R.pc = Q.pc /\ R.name = Q.name
          /\ R.sent = Q.sent /\ R.result = Q.result /\ R.known = Q.known
      BY <3>2, <3>3 DEF MdQueryRecords
    <3>5. \A x \in R.wire : x[4] = "asked" => MdAsksFor(R, x[1], x[2])
      BY <1>2, <2>2, <3>1, <3>4 DEF MdQuerySound, MdAsksFor
    <3>6. MdQuerySound(R, mdEntries)
      BY <2>2, <2>4, <3>4, <3>5 DEF MdQuerySound, MdAsksFor
    <3> QED
      BY <2>1, <3>6
  <2>5. R = Q \/ (R = [Q EXCEPT !.wire = @ \cup {m}] /\ Q.pc = "asking")
    BY <1>3, <2>1
  <2> QED
    BY <2>3, <2>4, <2>5
<1>5. mdQuery' = [q \in MdQueries |-> mdQuery'[q]]
  BY <1>3
<1> QED
  BY <1>4, <1>5 DEF MdQueriesInv

(* The registry's part of the invariant.                                   *)
MdRegistryInv == MdTypes /\ MdServed /\ \A op \in mdOp : MdShutting(op)

(* Register adds entries, with servers that are up.                        *)
LEMMA MdRegisterKeeps ==
  ASSUME MdRegistryInv, MdQueriesInv, NEW s \in MdServices, NEW N \in SUBSET MdNodes,
         NEW bad \in SUBSET N, MdRegister(s, N, bad)
  PROVE  MdRegistryInv' /\ MdQueriesInv' /\ UNCHANGED mdNet
<1>1. /\ MdTypes /\ MdServed /\ mdOp = {} /\ mdOp' = {} /\ UNCHANGED <<mdNet, mdEarly>>
  BY DEF MdRegistryInv, MdRegister
<1>2. PICK old, base, new : /\ old = MdEntriesOf(s)
                            /\ base = IF s \in DOMAIN mdEntries THEN old ELSE {MdStar}
                            /\ new = (N \ old) \ bad
  OBVIOUS
<1>3. /\ mdEntries' = [t \in DOMAIN mdEntries \cup {s} |->
                         IF t = s THEN base \cup new ELSE mdEntries[t]]
      /\ mdServer' = [x \in DOMAIN mdServer |->
                        IF x[1] = s /\ x[2] \in new \cup (base \ old) THEN "up" ELSE mdServer[x]]
      /\ mdQuery' = [q \in MdQueries |->
                       [mdQuery[q] EXCEPT !.known = @ \cup {<<s, n>> : n \in base \cup new}]]
  BY <1>2 DEF MdRegister
<1>4. /\ new \subseteq MdIds /\ new \subseteq MdNodes /\ base \subseteq MdIds
      /\ s \in DOMAIN mdEntries => base = mdEntries[s] /\ old = mdEntries[s]
      /\ s \notin DOMAIN mdEntries => base = {MdStar} /\ old = {}
      /\ MdStar \notin new /\ MdStar \in MdIds
  BY <1>1, <1>2, MdnsAssumption DEF MdTypes, MdIds, MdEntriesOf
<1>5. /\ DOMAIN mdEntries' = DOMAIN mdEntries \cup {s} /\ mdEntries'[s] = base \cup new
      /\ \A t \in DOMAIN mdEntries : t # s => mdEntries'[t] = mdEntries[t]
  BY <1>3
<1>6. /\ mdServer' \in [MdPairs -> {"down", "up", "leaving"}]
      /\ \A n \in MdIds : mdServer'[<<s, n>>] =
           IF n \in new \cup (base \ old) THEN "up" ELSE mdServer[<<s, n>>]
      /\ \A t \in MdServices, n \in MdIds : t # s => mdServer'[<<t, n>>] = mdServer[<<t, n>>]
  <2>1. mdServer' = [x \in MdPairs |->
                       IF x[1] = s /\ x[2] \in new \cup (base \ old) THEN "up" ELSE mdServer[x]]
    BY <1>1, <1>3 DEF MdTypes
  <2> QED
    BY <1>1, <2>1 DEF MdTypes, MdPairs
<1>7. MdTypes'
  <2>1. DOMAIN mdEntries' \subseteq MdServices
    BY <1>1, <1>5 DEF MdTypes
  <2>2. \A t \in DOMAIN mdEntries' : mdEntries'[t] \subseteq MdIds
    BY <1>1, <1>4, <1>5 DEF MdTypes
  <2> QED
    BY <1>1, <1>6, <2>1, <2>2 DEF MdTypes
<1>8. MdServed'
  <2>1. ASSUME NEW t \in MdServices, NEW n \in MdIds, mdServer'[<<t, n>>] # "down"
        PROVE  MdEntry(mdEntries', t, n)
    <3>1. CASE t # s
      BY <1>1, <1>5, <1>6, <2>1, <3>1 DEF MdServed, MdEntry
    <3>2. CASE t = s /\ n \in new \cup (base \ old)
      BY <1>5, <3>2 DEF MdEntry
    <3>3. CASE t = s /\ n \notin new \cup (base \ old)
      <4>1. MdEntry(mdEntries, s, n)
        BY <1>1, <1>6, <2>1, <3>3 DEF MdServed
      <4> QED
        BY <1>4, <1>5, <3>3, <4>1 DEF MdEntry
    <3> QED
      BY <3>1, <3>2, <3>3
  <2>2. ASSUME NEW t \in MdServices \ mdEarly
        PROVE  mdServer'[<<t, MdStar>>] = "up" <=> t \in DOMAIN mdEntries'
    <3>1. CASE t # s
      BY <1>1, <1>4, <1>5, <1>6, <3>1 DEF MdServed
    <3>2. CASE t = s /\ s \in DOMAIN mdEntries
      BY <1>1, <1>4, <1>5, <1>6, <3>2 DEF MdServed
    <3>3. CASE t = s /\ s \notin DOMAIN mdEntries
      BY <1>4, <1>5, <1>6, <3>3
    <3> QED
      BY <3>1, <3>2, <3>3
  <2> QED
    BY <1>1, <2>1, <2>2 DEF MdServed
<1>9. MdQueriesInv'
  <2>1. PICK K : K = {<<s, n>> : n \in base \cup new}
    OBVIOUS
  <2>2. K \subseteq MdPairs /\ \A n \in base \cup new : <<s, n>> \in K
    BY <1>4, <2>1 DEF MdPairs
  <2>3. mdQuery' = [q \in MdQueries |-> [mdQuery[q] EXCEPT !.known = @ \cup K]]
    BY <1>3, <2>1
  <2>4. ASSUME NEW q \in MdQueries PROVE MdQuerySound(mdQuery'[q], mdEntries')
    <3>1. PICK Q, R, k : Q = mdQuery[q] /\ R = mdQuery'[q] /\ k = Q.known \cup K
      OBVIOUS
    <3>2. MdQuerySound(Q, mdEntries)
      BY <3>1 DEF MdQueriesInv
    <3>3. R = [Q EXCEPT !.known = k] /\ k \in SUBSET MdPairs /\ Q \in MdQueryRecords
      BY <2>2, <2>3, <3>1, <3>2 DEF MdQuerySound, MdQueryRecords
    <3>4. /\ R \in MdQueryRecords /\ R.wire = Q.wire /\ R.pc = Q.pc /\ R.name = Q.name
          /\ R.sent = Q.sent /\ R.result = Q.result /\ R.known = k
      BY <3>3 DEF MdQueryRecords
    <3>5. \A t \in MdServices, n \in MdIds : MdAsksFor(Q, t, n) => MdAsksFor(R, t, n)
      BY <3>1, <3>4 DEF MdAsksFor
    <3>6. ASSUME Q.pc = "asking", NEW t \in MdServices, NEW n \in MdIds, MdEntry(mdEntries', t, n)
          PROVE  <<t, n>> \in k
      <4>1. CASE MdEntry(mdEntries, t, n)
        BY <3>1, <3>2, <3>6, <4>1 DEF MdQuerySound
      <4>2. CASE t = s /\ n \in base \cup new
        BY <2>2, <3>1, <4>2
      <4>3. MdEntry(mdEntries, t, n) \/ (t = s /\ n \in base \cup new)
        BY <1>5, <3>6 DEF MdEntry
      <4> QED
        BY <4>1, <4>2, <4>3
    <3>7. \A x \in Q.wire : x[4] = "asked" => MdAsksFor(R, x[1], x[2])
      <4>1. \A x \in Q.wire : x[1] \in MdServices /\ x[2] \in MdIds
        BY <3>3 DEF MdQueryRecords, MdMessages
      <4> QED
        BY <3>2, <3>5, <4>1 DEF MdQuerySound
    <3>8. \A i \in 1 .. Len(Q.result) : MdAsksFor(R, Q.result[i][1], Q.result[i][2])
      <4>1. \A i \in 1 .. Len(Q.result) : Q.result[i] \in MdPairs
        BY <3>3 DEF MdQueryRecords
      <4>2. \A i \in 1 .. Len(Q.result) : Q.result[i][1] \in MdServices /\ Q.result[i][2] \in MdIds
        BY <4>1 DEF MdPairs
      <4> QED
        BY <3>2, <3>5, <4>2 DEF MdQuerySound
    <3>9. MdQuerySound(R, mdEntries')
      BY <3>2, <3>4, <3>6, <3>7, <3>8 DEF MdQuerySound
    <3> QED
      BY <3>1, <3>9
  <2>5. mdQuery' = [q \in MdQueries |-> mdQuery'[q]]
    BY <2>3
  <2> QED
    BY <2>4, <2>5 DEF MdQueriesInv
<1> QED
  BY <1>1, <1>7, <1>8, <1>9 DEF MdRegistryInv

(* Deregister, server by server.                                           *)
LEMMA MdDeregisterKeeps ==
  ASSUME MdRegistryInv, NEW s \in MdServices, NEW N \in SUBSET MdNodes, MdDeregister(s, N)
  PROVE  MdRegistryInv' /\ UNCHANGED <<mdNet, mdQuery, mdEntries>>
<1>1. /\ MdTypes /\ MdServed /\ UNCHANGED <<mdNet, mdEntries, mdServer, mdQuery>>
      /\ mdEarly' = IF s \in DOMAIN mdEntries THEN mdEarly ELSE mdEarly \cup {s}
  BY DEF MdRegistryInv, MdDeregister
<1>2. PICK op : op = [name |-> s, nodes |-> N, left |-> N \cap MdEntriesOf(s), now |-> {}]
  OBVIOUS
<1>3. mdOp' = {op}
  BY <1>2 DEF MdDeregister
<1>4. /\ op \in MdOpRecords /\ op.name = s /\ op.nodes = N /\ op.left = N \cap MdEntriesOf(s)
      /\ op.now = {}
  BY <1>2 DEF MdOpRecords
<1>5. MdTypes'
  BY <1>1, <1>3, <1>4 DEF MdTypes
<1>6. MdServed'
  BY <1>1 DEF MdServed
<1>7. MdShutting(op)'
  BY <1>1, <1>4 DEF MdShutting, MdEntry, MdEntriesOf
<1> QED
  BY <1>1, <1>3, <1>5, <1>6, <1>7 DEF MdRegistryInv

(* Shutdown of one server.                                                 *)
LEMMA MdShutdownKeeps ==
  ASSUME MdRegistryInv, NEW op \in mdOp, NEW n \in MdNodes, MdShutdown(op, n)
  PROVE  MdRegistryInv' /\ UNCHANGED <<mdNet, mdEntries>>
<1>1. /\ MdTypes /\ MdServed /\ MdShutting(op) /\ UNCHANGED <<mdNet, mdEntries, mdEarly>>
      /\ mdOp = {op} /\ op.now = {} /\ n \in op.left
      /\ mdServer' = [mdServer EXCEPT ![<<op.name, n>>] = "leaving"]
  BY DEF MdRegistryInv, MdShutdown
<1>2. op \in MdOpRecords
  BY <1>1 DEF MdTypes
<1>3. PICK s, left, r : s = op.name /\ left = op.left \ {n}
                        /\ r = [op EXCEPT !.left = left, !.now = {n}]
  OBVIOUS
<1>4. mdOp' = {r}
  BY <1>3 DEF MdShutdown
<1>5. /\ s \in MdServices /\ n \in MdIds /\ n # MdStar /\ MdStar \in MdIds
      /\ left \in SUBSET MdNodes
  BY <1>2, <1>3, MdnsAssumption DEF MdOpRecords, MdIds
<1>6. r \in MdOpRecords /\ r.name = s /\ r.nodes = op.nodes /\ r.left = left /\ r.now = {n}
  BY <1>2, <1>3, <1>5 DEF MdOpRecords
<1>7. /\ mdServer' \in [MdPairs -> {"down", "up", "leaving"}]
      /\ \A t \in MdServices, m \in MdIds :
           <<t, m>> # <<s, n>> => mdServer'[<<t, m>>] = mdServer[<<t, m>>]
  BY <1>1, <1>3, <1>5 DEF MdTypes, MdPairs
<1>8. MdTypes'
  BY <1>1, <1>4, <1>6, <1>7 DEF MdTypes
<1>9. MdEntry(mdEntries, s, n)
  BY <1>1, <1>3 DEF MdShutting
<1>10. MdServed'
  <2>1. ASSUME NEW t \in MdServices, NEW m \in MdIds, mdServer'[<<t, m>>] # "down"
        PROVE  MdEntry(mdEntries, t, m)
    <3>1. CASE t = s /\ m = n
      BY <1>9, <3>1
    <3>2. CASE <<t, m>> # <<s, n>>
      BY <1>1, <1>7, <2>1, <3>2 DEF MdServed
    <3> QED
      BY <3>1, <3>2
  <2>2. \A t \in MdServices : mdServer'[<<t, MdStar>>] = mdServer[<<t, MdStar>>]
    BY <1>5, <1>7
  <2> QED
    BY <1>1, <2>1, <2>2 DEF MdServed
<1>11. MdShutting(r)'
  <2>1. s \in DOMAIN mdEntries \cup mdEarly /\ \A m \in left : MdEntry(mdEntries, s, m)
    BY <1>1, <1>3 DEF MdShutting
  <2>2. ASSUME NEW m \in op.nodes, MdEntry(mdEntries, s, m)
        PROVE  m \in left \/ m \in {n} \/ mdServer'[<<s, m>>] = "down"
    <3>1. m \in MdIds
      BY <1>2 DEF MdOpRecords, MdIds
    <3>2. m \in op.left \/ mdServer[<<s, m>>] = "down"
      BY <1>1, <1>3, <2>2 DEF MdShutting
    <3> QED
      BY <1>3, <1>5, <1>7, <3>1, <3>2
  <2> QED
    BY <1>1, <1>6, <2>1, <2>2 DEF MdShutting
<1> QED
  BY <1>1, <1>4, <1>8, <1>10, <1>11 DEF MdRegistryInv

(* Its sockets are closed, and its announcements have ended.               *)
LEMMA MdClosedKeeps ==
  ASSUME MdRegistryInv, NEW op \in mdOp, NEW n \in MdNodes,
         MdCloseSockets(op, n) \/ MdProbeWaited(op, n)
  PROVE  MdRegistryInv' /\ UNCHANGED <<mdNet, mdEntries, mdQuery>>
<1>1. /\ MdTypes /\ MdServed /\ MdShutting(op) /\ UNCHANGED <<mdNet, mdEntries, mdEarly, mdQuery>>
      /\ mdOp = {op} /\ op.now = {n}
  BY DEF MdRegistryInv, MdCloseSockets, MdProbeWaited
<1>2. op \in MdOpRecords
  BY <1>1 DEF MdTypes
<1>3. PICK s : s = op.name
  OBVIOUS
<1>4. s \in MdServices /\ n \in MdIds /\ n # MdStar /\ MdStar \in MdIds
  BY <1>2, <1>3, MdnsAssumption DEF MdOpRecords, MdIds
<1>5. CASE MdCloseSockets(op, n)
  <2>1. mdOp' = mdOp /\ mdServer' = [mdServer EXCEPT ![<<s, n>>] = "down"]
    BY <1>3, <1>5 DEF MdCloseSockets
  <2>2. /\ mdServer' \in [MdPairs -> {"down", "up", "leaving"}] /\ mdServer'[<<s, n>>] = "down"
        /\ \A t \in MdServices, m \in MdIds :
             <<t, m>> # <<s, n>> => mdServer'[<<t, m>>] = mdServer[<<t, m>>]
    BY <1>1, <1>4, <2>1 DEF MdTypes, MdPairs
  <2>3. MdTypes'
    BY <1>1, <2>1, <2>2 DEF MdTypes
  <2>4. MdServed'
    <3>1. \A t \in MdServices : mdServer'[<<t, MdStar>>] = mdServer[<<t, MdStar>>]
      BY <1>4, <2>2
    <3>2. \A t \in MdServices, m \in MdIds : mdServer'[<<t, m>>] # "down" => mdServer[<<t, m>>] # "down"
      BY <2>2
    <3> QED
      BY <1>1, <3>1, <3>2 DEF MdServed
  <2>5. \A m \in op.nodes : m \in MdIds
    BY <1>2 DEF MdOpRecords, MdIds
  <2>6. \A m \in op.nodes : mdServer[<<s, m>>] = "down" => mdServer'[<<s, m>>] = "down"
    BY <1>4, <2>2, <2>5
  <2>7. MdShutting(op)'
    BY <1>1, <1>3, <2>6 DEF MdShutting
  <2> QED
    BY <1>1, <2>1, <2>3, <2>4, <2>7 DEF MdRegistryInv
<1>6. CASE MdProbeWaited(op, n)
  <2>1. PICK r : r = [op EXCEPT !.now = {}]
    OBVIOUS
  <2>2. mdOp' = {r} /\ mdServer' = mdServer /\ mdServer[<<s, n>>] = "down"
    BY <1>3, <1>6, <2>1 DEF MdProbeWaited
  <2>3. r \in MdOpRecords /\ r.name = s /\ r.nodes = op.nodes /\ r.left = op.left /\ r.now = {}
    BY <1>2, <1>3, <2>1 DEF MdOpRecords
  <2>4. MdTypes'
    BY <1>1, <2>2, <2>3 DEF MdTypes
  <2>5. MdServed'
    BY <1>1, <2>2 DEF MdServed
  <2>6. MdShutting(r)'
    BY <1>1, <1>3, <2>2, <2>3 DEF MdShutting
  <2> QED
    BY <1>1, <2>2, <2>4, <2>5, <2>6 DEF MdRegistryInv
<1> QED
  BY <1>5, <1>6

(* The rest is kept, and the wildcard goes with the last node.             *)
LEMMA MdDeregisteredKeeps ==
  ASSUME MdRegistryInv, NEW op \in mdOp, MdDeregistered(op)
  PROVE  /\ MdRegistryInv' /\ UNCHANGED <<mdNet, mdQuery>>
         /\ \A s \in MdServices, n \in MdIds : MdEntry(mdEntries', s, n) => MdEntry(mdEntries, s, n)
<1>1. /\ MdTypes /\ MdServed /\ MdShutting(op) /\ UNCHANGED <<mdNet, mdEarly, mdQuery>>
      /\ mdOp = {op} /\ op.now = {} /\ op.left = {} /\ mdOp' = {}
  BY DEF MdRegistryInv, MdDeregistered
<1>2. op \in MdOpRecords
  BY <1>1 DEF MdTypes
<1>3. PICK s, rest, last : s = op.name /\ rest = MdEntriesOf(op.name) \ op.nodes
                           /\ last = (rest = {MdStar})
  OBVIOUS
<1>4. /\ mdEntries' = [t \in (DOMAIN mdEntries \cup {s}) \ (IF last THEN {s} ELSE {})
                         |-> IF t = s THEN rest ELSE mdEntries[t]]
      /\ mdServer' = IF last THEN [mdServer EXCEPT ![<<s, MdStar>>] = "down"] ELSE mdServer
  BY <1>3 DEF MdDeregistered
<1>5. /\ s \in MdServices /\ MdStar \in MdIds /\ MdStar \notin op.nodes /\ op.nodes \subseteq MdIds
      /\ s \in DOMAIN mdEntries \cup mdEarly
  BY <1>1, <1>2, <1>3, MdnsAssumption DEF MdOpRecords, MdIds, MdShutting
<1>6. /\ \A n \in rest : MdEntry(mdEntries, s, n)
      /\ \A n : MdEntry(mdEntries, s, n) /\ n \notin op.nodes => n \in rest
      /\ rest \subseteq MdIds
  BY <1>1, <1>3 DEF MdEntriesOf, MdEntry, MdTypes
<1>7. \A n \in op.nodes : mdServer[<<s, n>>] = "down"
  <2>1. \A n \in op.nodes : MdEntry(mdEntries, s, n) => mdServer[<<s, n>>] = "down"
    BY <1>1, <1>3 DEF MdShutting
  <2>2. \A n \in op.nodes : ~MdEntry(mdEntries, s, n) => mdServer[<<s, n>>] = "down"
    BY <1>1, <1>5 DEF MdServed
  <2> QED
    BY <2>1, <2>2
<1>8. CASE last
  <2>1. /\ mdEntries' = [t \in DOMAIN mdEntries \ {s} |-> mdEntries[t]]
        /\ mdServer' = [mdServer EXCEPT ![<<s, MdStar>>] = "down"]
    BY <1>4, <1>8
  <2>2. /\ DOMAIN mdEntries' = DOMAIN mdEntries \ {s}
        /\ \A t \in DOMAIN mdEntries' : mdEntries'[t] = mdEntries[t]
    BY <2>1
  <2>3. /\ mdServer' \in [MdPairs -> {"down", "up", "leaving"}] /\ mdServer'[<<s, MdStar>>] = "down"
        /\ \A t \in MdServices, m \in MdIds :
             <<t, m>> # <<s, MdStar>> => mdServer'[<<t, m>>] = mdServer[<<t, m>>]
    BY <1>1, <1>5, <2>1 DEF MdTypes, MdPairs
  <2>4. MdTypes'
    BY <1>1, <2>2, <2>3 DEF MdTypes
  <2>5. \A n \in MdIds : mdServer'[<<s, n>>] = "down"
    <3> SUFFICES ASSUME NEW n \in MdIds PROVE mdServer'[<<s, n>>] = "down"
      OBVIOUS
    <3>1. CASE n = MdStar
      BY <2>3, <3>1
    <3>2. CASE n # MdStar
      <4>1. mdServer'[<<s, n>>] = mdServer[<<s, n>>]
        BY <1>5, <2>3, <3>2
      <4>2. n \notin rest
        BY <1>3, <1>8, <3>2
      <4>3. CASE n \in op.nodes
        BY <1>7, <4>1, <4>3
      <4>4. CASE n \notin op.nodes
        <5>1. ~MdEntry(mdEntries, s, n)
          BY <1>6, <4>2, <4>4
        <5> QED
          BY <1>1, <1>5, <4>1, <5>1 DEF MdServed
      <4> QED
        BY <4>3, <4>4
    <3> QED
      BY <3>1, <3>2
  <2>6. MdServed'
    <3>1. ASSUME NEW t \in MdServices, NEW n \in MdIds, mdServer'[<<t, n>>] # "down"
          PROVE  MdEntry(mdEntries', t, n)
      <4>1. t # s
        BY <2>5, <3>1
      <4>2. mdServer[<<t, n>>] # "down"
        BY <2>3, <3>1, <4>1
      <4>3. MdEntry(mdEntries, t, n)
        BY <1>1, <4>2 DEF MdServed
      <4> QED
        BY <2>2, <4>1, <4>3 DEF MdEntry
    <3>2. ASSUME NEW t \in MdServices \ mdEarly
          PROVE  mdServer'[<<t, MdStar>>] = "up" <=> t \in DOMAIN mdEntries'
      <4>1. CASE t = s
        BY <2>2, <2>3, <4>1
      <4>2. CASE t # s
        <5>1. mdServer'[<<t, MdStar>>] = mdServer[<<t, MdStar>>]
          BY <1>5, <2>3, <4>2
        <5> QED
          BY <1>1, <2>2, <4>2, <5>1 DEF MdServed
      <4> QED
        BY <4>1, <4>2
    <3> QED
      BY <1>1, <3>1, <3>2 DEF MdServed
  <2>7. \A t \in MdServices, n \in MdIds : MdEntry(mdEntries', t, n) => MdEntry(mdEntries, t, n)
    BY <2>2 DEF MdEntry
  <2> QED
    BY <1>1, <2>4, <2>6, <2>7 DEF MdRegistryInv
<1>9. CASE ~last
  <2>1. /\ mdEntries' = [t \in DOMAIN mdEntries \cup {s} |-> IF t = s THEN rest ELSE mdEntries[t]]
        /\ mdServer' = mdServer
    BY <1>4, <1>9
  <2>2. /\ DOMAIN mdEntries' = DOMAIN mdEntries \cup {s} /\ mdEntries'[s] = rest
        /\ \A t \in DOMAIN mdEntries : t # s => mdEntries'[t] = mdEntries[t]
    BY <2>1
  <2>3. MdTypes'
    <3>1. DOMAIN mdEntries' \subseteq MdServices
      BY <1>1, <1>5, <2>2 DEF MdTypes
    <3>2. \A t \in DOMAIN mdEntries' : mdEntries'[t] \subseteq MdIds
      BY <1>1, <1>6, <2>2 DEF MdTypes
    <3> QED
      BY <1>1, <2>1, <3>1, <3>2 DEF MdTypes
  <2>4. MdServed'
    <3>1. ASSUME NEW t \in MdServices, NEW n \in MdIds, mdServer[<<t, n>>] # "down"
          PROVE  MdEntry(mdEntries', t, n)
      <4>1. MdEntry(mdEntries, t, n)
        BY <1>1, <3>1 DEF MdServed
      <4>2. CASE t = s
        BY <1>6, <1>7, <2>2, <3>1, <4>1, <4>2 DEF MdEntry
      <4>3. CASE t # s
        BY <2>2, <4>1, <4>3 DEF MdEntry
      <4> QED
        BY <4>2, <4>3
    <3>2. ASSUME NEW t \in MdServices \ mdEarly PROVE t \in DOMAIN mdEntries' <=> t \in DOMAIN mdEntries
      BY <1>5, <2>2
    <3> QED
      BY <1>1, <2>1, <3>1, <3>2 DEF MdServed
  <2>5. \A t \in MdServices, n \in MdIds : MdEntry(mdEntries', t, n) => MdEntry(mdEntries, t, n)
    BY <1>6, <2>2 DEF MdEntry
  <2> QED
    BY <1>1, <2>3, <2>4, <2>5 DEF MdRegistryInv
<1> QED
  BY <1>3, <1>8, <1>9

(* A step of one query.                                                    *)
LEMMA MdQueryMoves ==
  ASSUME MdQueriesInv, NEW q \in MdQueries, NEW R, mdQuery' = [mdQuery EXCEPT ![q] = R],
         MdQuerySound(R, mdEntries), UNCHANGED mdEntries
  PROVE  MdQueriesInv'
<1>1. PICK f : f = mdQuery
  OBVIOUS
<1>2. f = [p \in MdQueries |-> f[p]] /\ DOMAIN f = MdQueries
  BY <1>1 DEF MdQueriesInv
<1>3. mdQuery' = [p \in MdQueries |-> IF p = q THEN R ELSE f[p]]
  BY <1>1, <1>2
<1>4. mdQuery' = [p \in MdQueries |-> mdQuery'[p]]
  BY <1>3
<1>5. \A p \in MdQueries : MdQuerySound(mdQuery'[p], mdEntries)
  BY <1>1, <1>3 DEF MdQueriesInv
<1> QED
  BY <1>4, <1>5 DEF MdQueriesInv

(* A query is asked.                                                       *)
LEMMA MdAskKeeps ==
  ASSUME MdTypes, MdQueriesInv, NEW q \in MdQueries, NEW name \in MdServices \cup {MdStar},
         MdAsk(q, name)
  PROVE  MdQueriesInv'
<1>1. PICK Q, K : /\ Q = mdQuery[q]
                  /\ K = UNION {{<<s, n>> : n \in mdEntries[s]} : s \in DOMAIN mdEntries}
  OBVIOUS
<1>2. MdQuerySound(Q, mdEntries) /\ Q.pc = "new"
  BY <1>1 DEF MdQueriesInv, MdAsk
<1>3. \A s \in DOMAIN mdEntries : \A n \in mdEntries[s] : <<s, n>> \in K
  BY <1>1
<1>4. K \in SUBSET MdPairs
  <2> SUFFICES ASSUME NEW x \in K PROVE x \in MdPairs
    OBVIOUS
  <2>1. PICK s \in DOMAIN mdEntries : x \in {<<s, n>> : n \in mdEntries[s]}
    BY <1>1
  <2>2. PICK n \in mdEntries[s] : x = <<s, n>>
    BY <2>1
  <2> QED
    BY <2>2 DEF MdTypes, MdPairs
<1>5. PICK R : R = [Q EXCEPT !.pc = "asking", !.name = {name}, !.known = K]
  OBVIOUS
<1>6. mdQuery' = [mdQuery EXCEPT ![q] = R] /\ UNCHANGED mdEntries
  BY <1>1, <1>5 DEF MdAsk
<1>7. Q \in MdQueryRecords /\ Q.wire = {} /\ Q.result = <<>>
  BY <1>2 DEF MdQuerySound
<1>8. /\ R \in MdQueryRecords /\ R.pc = "asking" /\ R.name = {name} /\ R.known = K
      /\ R.wire = {} /\ R.result = <<>> /\ Len(R.result) = 0
  BY <1>4, <1>5, <1>7 DEF MdQueryRecords
<1>9. MdQuerySound(R, mdEntries)
  BY <1>3, <1>8 DEF MdQuerySound, MdEntry
<1> QED
  BY <1>6, <1>9, MdQueryMoves

(* A server answers: it has an entry, which the query knows of.            *)
LEMMA MdAnswerKeeps ==
  ASSUME MdServed, MdQueriesInv, NEW q \in MdQueries, NEW s \in MdServices, NEW n \in MdIds,
         MdAnswer(q, s, n)
  PROVE  MdQueriesInv'
<1>1. PICK Q, ttl : /\ Q = mdQuery[q]
                    /\ ttl = IF n # MdStar /\ mdServer[<<s, n>>] = "leaving" THEN 0 ELSE 120
  OBVIOUS
<1>2. MdQuerySound(Q, mdEntries) /\ Q.pc = "asking" /\ mdServer[<<s, n>>] # "down"
  BY <1>1 DEF MdQueriesInv, MdAnswer
<1>3. PICK m, w : m = <<s, n, ttl, "asked">> /\ w = Q.wire \cup {m}
  OBVIOUS
<1>4. m \in MdMessages /\ m[1] = s /\ m[2] = n
  BY <1>1, <1>3 DEF MdMessages
<1>5. PICK R : R = [Q EXCEPT !.wire = w]
  OBVIOUS
<1>6. mdQuery' = [mdQuery EXCEPT ![q] = R] /\ UNCHANGED mdEntries
  BY <1>1, <1>3, <1>5 DEF MdAnswer
<1>7. Q \in MdQueryRecords /\ w \in SUBSET MdMessages
  BY <1>2, <1>3, <1>4 DEF MdQuerySound, MdQueryRecords
<1>8. /\ R \in MdQueryRecords /\ R.wire = w /\ R.pc = Q.pc /\ R.name = Q.name
      /\ R.sent = Q.sent /\ R.result = Q.result /\ R.known = Q.known
  BY <1>5, <1>7 DEF MdQueryRecords
<1>9. MdAsksFor(R, s, n)
  <2>1. <<s, n>> \in Q.known
    BY <1>2 DEF MdServed, MdQuerySound
  <2>2. PICK name \in Q.name : MdRecords(s, n, name)
    BY <1>1 DEF MdAnswer
  <2>3. \A x \in Q.name : x = name
    BY <1>2, <2>2 DEF MdQuerySound
  <2> QED
    BY <1>8, <2>1, <2>2, <2>3 DEF MdAsksFor
<1>10. \A x \in R.wire : x[4] = "asked" => MdAsksFor(R, x[1], x[2])
  BY <1>2, <1>3, <1>4, <1>8, <1>9 DEF MdQuerySound, MdAsksFor
<1>11. MdQuerySound(R, mdEntries)
  BY <1>2, <1>8, <1>10 DEF MdQuerySound, MdAsksFor
<1> QED
  BY <1>6, <1>11, MdQueryMoves

(* A datagram is received: what is passed on was asked for and is new.     *)
LEMMA MdReceiveKeeps ==
  ASSUME MdQueriesInv, NEW q \in MdQueries, NEW m \in mdQuery[q].wire, MdReceive(q, m)
  PROVE  MdQueriesInv'
<1>1. PICK Q, x : Q = mdQuery[q] /\ x = <<m[1], m[2]>>
  OBVIOUS
<1>2. MdQuerySound(Q, mdEntries) /\ m \in Q.wire /\ Q.pc = "asking" /\ Q \in MdQueryRecords
  BY <1>1 DEF MdQueriesInv, MdQuerySound, MdReceive
<1>3. m \in MdMessages
  BY <1>2 DEF MdQueryRecords
<1>4. m[1] \in MdServices /\ m[2] \in MdIds /\ m[3] \in {0, 120}
  BY <1>3 DEF MdMessages
<1>5. x \in MdPairs /\ x[1] = m[1] /\ x[2] = m[2]
  BY <1>1, <1>4 DEF MdPairs
<1>6. PICK ttl, fresh : /\ ttl = IF x \in DOMAIN Q.seen THEN Q.seen[x] ELSE m[3]
                        /\ fresh = (m[4] = "asked" /\ x \notin Q.sent)
  OBVIOUS
<1>7. PICK seen, sent, result :
        /\ seen = [y \in DOMAIN Q.seen \cup {x} |-> IF y = x THEN ttl ELSE Q.seen[y]]
        /\ sent = IF fresh THEN Q.sent \cup {x} ELSE Q.sent
        /\ result = IF fresh /\ ttl > 0 THEN Append(Q.result, x) ELSE Q.result
  OBVIOUS
<1>8. PICK R : R = [Q EXCEPT !.seen = seen, !.sent = sent, !.result = result]
  OBVIOUS
<1>9. mdQuery' = [mdQuery EXCEPT ![q] = R] /\ UNCHANGED mdEntries
  <2>1. R = [Q EXCEPT !.seen = [y \in DOMAIN @ \cup {x} |-> IF y = x THEN ttl ELSE @[y]],
                      !.sent = IF fresh THEN @ \cup {x} ELSE @,
                      !.result = IF fresh /\ ttl > 0 THEN Append(@, x) ELSE @]
    BY <1>7, <1>8
  <2> QED
    BY <1>1, <1>6, <2>1 DEF MdReceive
<1>10. seen \in MdSeen
  <2>1. PICK D \in SUBSET MdPairs : Q.seen \in [D -> {0, 120}]
    BY <1>2 DEF MdQueryRecords, MdSeen
  <2>2. ttl \in {0, 120}
    BY <1>4, <1>6, <2>1
  <2>3. PICK D2 : D2 = D \cup {x}
    OBVIOUS
  <2>4. D2 \in SUBSET MdPairs /\ seen \in [D2 -> {0, 120}]
    BY <1>5, <1>7, <2>1, <2>2, <2>3
  <2> QED
    BY <2>4 DEF MdSeen
<1>11. /\ Q.result \in Seq(MdPairs) /\ sent \in SUBSET MdPairs /\ Q.sent \subseteq sent
       /\ Q.sent \in SUBSET MdPairs
  BY <1>2, <1>5, <1>7 DEF MdQueryRecords
<1>12. result \in Seq(MdPairs)
  BY <1>5, <1>7, <1>11, AppendProperties
<1>13. /\ R \in MdQueryRecords /\ R.wire = Q.wire /\ R.pc = Q.pc /\ R.name = Q.name
       /\ R.sent = sent /\ R.result = result /\ R.known = Q.known
  BY <1>2, <1>8, <1>10, <1>11, <1>12 DEF MdQueryRecords
<1>14. \A t, n : MdAsksFor(R, t, n) <=> MdAsksFor(Q, t, n)
  BY <1>13 DEF MdAsksFor
<1>15. /\ \A i \in 1 .. Len(result) : result[i] \in sent /\ MdAsksFor(Q, result[i][1], result[i][2])
       /\ \A i, j \in 1 .. Len(result) : result[i] = result[j] => i = j
  <2>1. PICK r : r = Q.result
    OBVIOUS
  <2>2. /\ r \in Seq(MdPairs) /\ Len(r) \in Nat
        /\ \A i \in 1 .. Len(r) : r[i] \in Q.sent /\ MdAsksFor(Q, r[i][1], r[i][2])
        /\ \A i, j \in 1 .. Len(r) : r[i] = r[j] => i = j
    BY <1>2, <1>11, <2>1 DEF MdQuerySound
  <2>3. CASE result = r
    BY <1>11, <2>2, <2>3
  <2>4. CASE fresh /\ result = Append(r, x)
    <3>1. /\ Len(result) = Len(r) + 1 /\ result[Len(r) + 1] = x
          /\ \A i \in 1 .. Len(r) : result[i] = r[i]
      BY <1>5, <2>2, <2>4, AppendProperties
    <3>2. x \in sent /\ x \notin Q.sent /\ MdAsksFor(Q, x[1], x[2])
      <4>1. m[4] = "asked" /\ x \notin Q.sent
        BY <1>6, <2>4
      <4>2. MdAsksFor(Q, m[1], m[2])
        BY <1>2, <4>1 DEF MdQuerySound
      <4> QED
        BY <1>5, <1>7, <2>4, <4>1, <4>2
    <3>3. \A i \in 1 .. Len(result) : i \in 1 .. Len(r) \/ i = Len(r) + 1
      BY <2>2, <3>1
    <3>4. \A i \in 1 .. Len(r) : result[i] # x
      BY <2>2, <3>1, <3>2
    <3>5. \A i, j \in 1 .. Len(result) : result[i] = result[j] => i = j
      <4> SUFFICES ASSUME NEW i \in 1 .. Len(result), NEW j \in 1 .. Len(result),
                          result[i] = result[j]
                   PROVE  i = j
        OBVIOUS
      <4>1. CASE i \in 1 .. Len(r) /\ j \in 1 .. Len(r)
        BY <2>2, <3>1, <4>1
      <4>2. CASE i = Len(r) + 1 \/ j = Len(r) + 1
        BY <3>1, <3>3, <3>4, <4>2
      <4> QED
        BY <3>3, <4>1, <4>2
    <3>6. \A i \in 1 .. Len(result) : result[i] \in sent /\ MdAsksFor(Q, result[i][1], result[i][2])
      BY <1>11, <2>2, <3>1, <3>2, <3>3
    <3> QED
      BY <3>5, <3>6
  <2> QED
    BY <1>7, <2>1, <2>3, <2>4
<1>16. MdQuerySound(R, mdEntries)
  BY <1>2, <1>13, <1>14, <1>15 DEF MdQuerySound
<1> QED
  BY <1>9, <1>16, MdQueryMoves

(* The time of a query is up.                                              *)
LEMMA MdAskedKeeps ==
  ASSUME MdQueriesInv, NEW q \in MdQueries, MdAsked(q)
  PROVE  MdQueriesInv'
<1>1. PICK Q, R : Q = mdQuery[q] /\ R = [Q EXCEPT !.pc = "done", !.wire = {}]
  OBVIOUS
<1>2. MdQuerySound(Q, mdEntries) /\ Q.pc = "asking" /\ Q \in MdQueryRecords
  BY <1>1 DEF MdQueriesInv, MdQuerySound, MdAsked
<1>3. mdQuery' = [mdQuery EXCEPT ![q] = R] /\ UNCHANGED mdEntries
  BY <1>1 DEF MdAsked
<1>4. /\ R \in MdQueryRecords /\ R.wire = {} /\ R.pc = "done" /\ R.name = Q.name
      /\ R.sent = Q.sent /\ R.result = Q.result /\ R.known = Q.known
  BY <1>1, <1>2 DEF MdQueryRecords
<1>5. MdQuerySound(R, mdEntries)
  BY <1>2, <1>4 DEF MdQuerySound, MdAsksFor
<1> QED
  BY <1>3, <1>5, MdQueryMoves

(* Queries change nothing but themselves.                                  *)
LEMMA MdAskingKeeps ==
  ASSUME MdInv, MdnsAsking
  PROVE  MdInv'
<1>1. /\ MdTypes /\ MdServed /\ MdQueriesInv
      /\ UNCHANGED <<mdEntries, mdServer, mdOp, mdEarly, mdWatch, mdListener, mdStarter>>
  BY DEF MdInv, MdnsAsking, MdAsk, MdAsked, MdReceive, MdAnswer, mdNet
<1>2. MdQueriesInv'
  BY <1>1, MdAskKeeps, MdAskedKeeps, MdAnswerKeeps, MdReceiveKeeps DEF MdnsAsking
<1>3. MdTypes' /\ MdServed' /\ \A op \in mdOp' : MdShutting(op)'
  BY <1>1 DEF MdInv, MdTypes, MdServed, MdShutting
<1>4. MdHeard'
  BY <1>1 DEF MdInv, MdHeard, WatchersAreFed, MdListening
<1> QED
  BY <1>2, <1>3, <1>4 DEF MdInv

(* The steps of the registry and of its announcements.                     *)
LEMMA MdRegistrarKeeps ==
  ASSUME MdInv, MdnsRegistrar
  PROVE  MdInv'
<1>1. MdRegistryInv /\ MdQueriesInv /\ MdHeard /\ MdTypes
  BY DEF MdInv, MdRegistryInv
<1>2. ASSUME NEW s \in MdServices, NEW n \in MdNodes, MdProbeReads(s, n) \/ MdAnnounce(s, n)
      PROVE  MdRegistryInv' /\ MdQueriesInv' /\ UNCHANGED mdNet
  <2>1. UNCHANGED <<mdEntries, mdServer, mdOp, mdEarly, mdNet>>
    BY <1>2 DEF MdProbeReads, MdAnnounce
  <2>2. MdRegistryInv'
    BY <1>1, <2>1 DEF MdRegistryInv, MdTypes, MdServed, MdShutting
  <2>3. CASE UNCHANGED mdQuery
    BY <1>1, <2>1, <2>2, <2>3 DEF MdQueriesInv
  <2>4. CASE mdQuery' # mdQuery
    <3>1. PICK ttl \in {0, 120} : MdMulticast(s, n, ttl)
      BY <1>2, <2>4 DEF MdProbeReads, MdAnnounce
    <3>2. n \in MdIds
      BY DEF MdIds
    <3> QED
      BY <1>1, <2>1, <2>2, <3>1, <3>2, MdMulticastKeeps
  <2> QED
    BY <2>3, <2>4
<1>3. ASSUME NEW s \in MdServices, NEW N \in SUBSET MdNodes, MdDeregister(s, N)
      PROVE  MdRegistryInv' /\ MdQueriesInv' /\ UNCHANGED mdNet
  BY <1>1, <1>3, MdDeregisterKeeps DEF MdQueriesInv
<1>4. ASSUME NEW op \in mdOp, NEW n \in MdNodes, MdShutdown(op, n)
      PROVE  MdRegistryInv' /\ MdQueriesInv' /\ UNCHANGED mdNet
  <2>1. MdRegistryInv' /\ UNCHANGED <<mdNet, mdEntries>>
    BY <1>1, <1>4, MdShutdownKeeps
  <2>2. op.name \in MdServices /\ n \in MdIds
    BY <1>1 DEF MdTypes, MdOpRecords, MdIds
  <2>3. PICK s, ttl : s = op.name /\ ttl = 0
    OBVIOUS
  <2>4. s \in MdServices /\ ttl \in {0, 120} /\ MdMulticast(s, n, ttl)
    BY <1>4, <2>2, <2>3 DEF MdShutdown
  <2>5. MdQueriesInv'
    BY <1>1, <2>1, <2>2, <2>4, MdMulticastKeeps
  <2> QED
    BY <2>1, <2>5
<1>5. ASSUME NEW op \in mdOp, NEW n \in MdNodes, MdCloseSockets(op, n) \/ MdProbeWaited(op, n)
      PROVE  MdRegistryInv' /\ MdQueriesInv' /\ UNCHANGED mdNet
  BY <1>1, <1>5, MdClosedKeeps DEF MdQueriesInv
<1>6. ASSUME NEW op \in mdOp, MdDeregistered(op)
      PROVE  MdRegistryInv' /\ MdQueriesInv' /\ UNCHANGED mdNet
  <2>1. /\ MdRegistryInv' /\ UNCHANGED <<mdNet, mdQuery>>
        /\ \A s \in MdServices, n \in MdIds : MdEntry(mdEntries', s, n) => MdEntry(mdEntries, s, n)
    BY <1>1, <1>6, MdDeregisteredKeeps
  <2>2. ASSUME NEW q \in MdQueries PROVE MdQuerySound(mdQuery[q], mdEntries')
    <3>1. PICK Q, f : Q = mdQuery[q] /\ f = mdEntries'
      OBVIOUS
    <3>2. MdQuerySound(Q, mdEntries)
      BY <1>1, <3>1 DEF MdQueriesInv
    <3>3. MdQuerySound(Q, f)
      BY <2>1, <3>1, <3>2, MdFewer
    <3> QED
      BY <3>1, <3>3
  <2> QED
    BY <1>1, <2>1, <2>2 DEF MdQueriesInv
<1>7. MdRegistryInv' /\ MdQueriesInv' /\ UNCHANGED mdNet
  BY <1>1, <1>2, <1>3, <1>4, <1>5, <1>6, MdRegisterKeeps DEF MdnsRegistrar
<1>8. MdHeard'
  BY <1>1, <1>7 DEF MdHeard, WatchersAreFed, MdListening, mdNet
<1> QED
  BY <1>7, <1>8 DEF MdInv, MdRegistryInv

(* The invariant gives the property.                                       *)
LEMMA MdInvSound == MdInv => DiscoverySound
<1> SUFFICES ASSUME MdInv PROVE DiscoverySound
  OBVIOUS
<1>1. FoundWasRegistered
  <2> SUFFICES ASSUME NEW q \in MdQueries
               PROVE  /\ ToSet(mdQuery[q].result) \subseteq mdQuery[q].known
                      /\ Cardinality(ToSet(mdQuery[q].result)) = Len(mdQuery[q].result)
                      /\ \A x \in ToSet(mdQuery[q].result), name \in mdQuery[q].name :
                           MdRecords(x[1], x[2], name)
    BY DEF FoundWasRegistered
  <2>1. PICK Q, r : Q = mdQuery[q] /\ r = Q.result
    OBVIOUS
  <2>2. MdQuerySound(Q, mdEntries)
    BY <2>1 DEF MdInv, MdQueriesInv
  <2>3. r \in Seq(MdPairs) /\ Len(r) \in Nat /\ DOMAIN r = 1 .. Len(r)
    BY <2>1, <2>2 DEF MdQuerySound, MdQueryRecords
  <2>4. \A i \in 1 .. Len(r) : r[i] \in MdPairs /\ MdAsksFor(Q, r[i][1], r[i][2])
    BY <2>1, <2>2, <2>3 DEF MdQuerySound
  <2>5. \A x \in ToSet(r) : \E i \in 1 .. Len(r) : x = r[i]
    BY <2>3 DEF ToSet
  <2>6. \A x \in ToSet(r) : x \in MdPairs /\ MdAsksFor(Q, x[1], x[2])
    BY <2>4, <2>5
  <2>7. \A x \in ToSet(r) : x \in Q.known /\ \A name \in Q.name : MdRecords(x[1], x[2], name)
    <3>1. \A x \in MdPairs : x = <<x[1], x[2]>>
      BY DEF MdPairs
    <3> QED
      BY <2>6, <3>1 DEF MdAsksFor
  <2>8. Cardinality(ToSet(r)) = Len(r)
    <3>1. \A i, j \in 1 .. Len(r) : r[i] = r[j] => i = j
      BY <2>1, <2>2 DEF MdQuerySound
    <3>2. r \in [1 .. Len(r) -> ToSet(r)]
      BY <2>3 DEF ToSet
    <3>3. r \in Bijection(1 .. Len(r), ToSet(r))
      BY <2>5, <3>1, <3>2 DEF Bijection, Injection, Surjection, IsInjective
    <3>4. ExistsBijection(1 .. Len(r), ToSet(r))
      BY <3>3 DEF ExistsBijection
    <3> QED
      BY <2>3, <3>4, FS_CountingElements
  <2> QED
    BY <2>1, <2>7, <2>8
<1>2. ListedWithNodes
  BY DEF MdInv, MdServed, ListedWithNodes
<1>3. WatchersAreFed
  BY DEF MdInv, MdHeard
<1> QED
  BY <1>1, <1>2, <1>3 DEF DiscoverySound

(* Discovery by mdns is sound, for any services, nodes, queries and        *)
(* watchers and whatever the network loses, doubles or delays: a query     *)
(* finds only what was registered since it was asked, once; a service is   *)
(* listed while it has nodes; and where somebody watches, somebody listens *)
(* or is about to.                                                         *)
THEOREM MdnsDiscovers ==
  MdnsInit /\ [][MdnsQueriesNext \/ MdnsWatchersNext]_mdVars => []DiscoverySound
<1>1. MdInv /\ [MdnsQueriesNext \/ MdnsWatchersNext]_mdVars => MdInv'
  <2> SUFFICES ASSUME MdInv, [MdnsQueriesNext \/ MdnsWatchersNext]_mdVars PROVE MdInv'
    OBVIOUS
  <2>1. CASE UNCHANGED mdVars
    <3>1. MdTypes' /\ MdServed' /\ \A op \in mdOp' : MdShutting(op)'
      BY <2>1 DEF mdVars, MdInv, MdTypes, MdServed, MdShutting
    <3>2. MdQueriesInv' /\ MdHeard'
      BY <2>1 DEF mdVars, MdInv, MdQueriesInv, MdHeard, WatchersAreFed, MdListening
    <3> QED
      BY <3>1, <3>2 DEF MdInv
  <2>2. CASE MdnsRegistrar
    BY <2>2, MdRegistrarKeeps
  <2>3. CASE MdnsAsking
    BY <2>3, MdAskingKeeps
  <2>4. CASE MdnsWatching
    <3>1. MdHeard' /\ UNCHANGED mdRest
      BY <2>4, MdWatchingKeeps DEF MdInv
    <3>2. UNCHANGED <<mdEntries, mdServer, mdOp, mdQuery, mdEarly>>
      BY <3>1 DEF mdRest
    <3>3. MdTypes' /\ MdServed' /\ MdQueriesInv' /\ \A op \in mdOp' : MdShutting(op)'
      BY <3>2 DEF MdInv, MdTypes, MdServed, MdShutting, MdQueriesInv
    <3> QED
      BY <3>1, <3>3 DEF MdInv
  <2> QED
    BY <2>1, <2>2, <2>3, <2>4 DEF MdnsQueriesNext, MdnsWatchersNext
<1> QED
  BY <1>1, MdStarts, MdInvSound, PTL

=============================================================================
