----------------------------- MODULE LogStreams -----------------------------
(***************************************************************************)
(* The log and event streams of the runtimes: goroutines that read lines   *)
(* and send them on an unbuffered channel until the stream is stopped.     *)
(*   "tail"   Logs of runtime/default.go: one goroutine follows a file     *)
(*   "pods"   Logs of the kubernetes runtime: one goroutine per pod, and   *)
(*            one that sends what the pods logged before                   *)
(*   "watch"  bodyWatcher of util/kubernetes/client/watch.go               *)
(* Stop closes the channel stop and, but for the watcher, the stream too:  *)
(* a goroutine that is about to send then panics.  A line is the goroutine *)
(* it comes from and its number.                                           *)
(*                                                                         *)
(* With the runtimes whose services they log.                              *)
(***************************************************************************)
EXTENDS LocalRuntime, KubernetesRuntime, Sequences, SequencesExt

CONSTANTS LgPods,        \* pods of the service
          LgLines,       \* lines that each source has
          LgStoppers     \* callers of Stop

LgReader == "reader"     \* the goroutine of Logs that reads old records
LgOne == "one"           \* the goroutine of a tail or a watcher
LgSources == LgPods \cup {LgReader, LgOne}

ASSUME LogStreamsAssumption == LgLines \in Nat /\ LgReader \notin LgPods /\ LgOne \notin LgPods

VARIABLES lgKind,        \* none, tail, pods, watch, failed
          lgStop,        \* stop is closed
          lgClosed,      \* the stream is closed
          lgAt,          \* goroutine -> off, idle, ready, send, exit, panic
          lgNext,        \* goroutine -> its next line
          lgOld,         \* records that the reader has to send
          lgCaller,      \* caller of Stop -> idle, checked, done
          lgOut,         \* history: lines received
          lgBad,         \* history: lines of a watcher that did not decode
          lgTwice,       \* history: a channel was closed twice
          lgOverlap      \* history: two calls of Stop overlapped
lgVars == <<lgKind, lgStop, lgClosed, lgAt, lgNext, lgOld, lgCaller, lgOut, lgBad, lgTwice,
           lgOverlap>>

LogStreamsInit ==
  /\ lgKind = "none" /\ lgStop = FALSE /\ lgClosed = FALSE
  /\ lgAt = [p \in LgSources |-> "off"] /\ lgNext = [p \in LgSources |-> 1] /\ lgOld = <<>>
  /\ lgCaller = [s \in LgStoppers |-> "idle"] /\ lgOut = <<>> /\ lgBad = {}
  /\ lgTwice = FALSE /\ lgOverlap = FALSE

LgGo(p, at) == lgAt' = [lgAt EXCEPT ![p] = at]
LgQuiet == UNCHANGED <<lgStop, lgClosed, lgCaller, lgBad, lgTwice, lgOverlap>>

-----------------------------------------------------------------------------
(* Logs of the runtime: the tail starts a number of bytes before the end,  *)
(* which is at any line.                                                   *)
LgTail(from) ==
  /\ lgKind = "none" /\ lgKind' = "tail" /\ LgGo(LgOne, "idle")
  /\ lgNext' = [lgNext EXCEPT ![LgOne] = from]
  /\ LgQuiet /\ UNCHANGED <<lgOld, lgOut>>

(* newWatcher.                                                             *)
LgWatch ==
  /\ lgKind = "none" /\ lgKind' = "watch" /\ LgGo(LgOne, "idle")
  /\ LgQuiet /\ UNCHANGED <<lgNext, lgOld, lgOut>>

(* Stream of klog: a goroutine for every matching pod.  Logs with a Count  *)
(* starts the reader.                                                      *)
LgPodLogs(matching, count) ==
  /\ lgKind = "none" /\ lgKind' = "pods"
  /\ lgAt' = [p \in LgSources |-> IF p \in matching \/ (p = LgReader /\ count > 0) THEN "start"
                                  ELSE "off"]
  /\ lgNext' = [lgNext EXCEPT ![LgReader] = count]
  /\ LgQuiet /\ UNCHANGED <<lgOld, lgOut>>

(* The file or the pods are not there, or the request fails.               *)
LgOpenFails ==
  /\ lgKind = "none" /\ lgKind' = "failed"
  /\ LgQuiet /\ UNCHANGED <<lgAt, lgNext, lgOld, lgOut>>

-----------------------------------------------------------------------------
(* Stop.                                                                   *)

(* Mutant: both channels are closed without a look at stop.                *)
LgStopsAgain == /\ lgStop' = TRUE /\ lgClosed' = TRUE
                /\ lgTwice' = (lgTwice \/ lgStop)

(* Stop of a logStream and of a kubeStream, under its lock: only the first *)
(* one closes.                                                             *)
LgStops == /\ lgStop' = TRUE /\ lgClosed' = TRUE /\ UNCHANGED lgTwice

LgStop(s) ==
  /\ lgKind \in {"tail", "pods"} /\ lgCaller[s] = "idle"
  /\ lgCaller' = [lgCaller EXCEPT ![s] = "done"]
  /\ LgStops /\ UNCHANGED <<lgKind, lgAt, lgNext, lgOld, lgOut, lgBad, lgOverlap>>

(* Stop of the watcher looks at stop and closes it, without a lock.        *)
LgCheckStop(s) ==
  /\ lgKind = "watch" /\ lgCaller[s] = "idle"
  /\ lgCaller' = [lgCaller EXCEPT ![s] = IF lgStop THEN "done" ELSE "checked"]
  /\ lgOverlap' = (lgOverlap \/ \E r \in LgStoppers : lgCaller[r] = "checked")
  /\ UNCHANGED <<lgKind, lgStop, lgClosed, lgAt, lgNext, lgOld, lgOut, lgBad, lgTwice>>

LgCloseStop(s) ==
  /\ lgKind = "watch" /\ lgCaller[s] = "checked"
  /\ lgCaller' = [lgCaller EXCEPT ![s] = "done"]
  /\ lgStop' = TRUE /\ lgTwice' = (lgTwice \/ lgStop)
  /\ UNCHANGED <<lgKind, lgClosed, lgAt, lgNext, lgOld, lgOut, lgBad, lgOverlap>>

-----------------------------------------------------------------------------
(* The goroutines.                                                         *)

(* podLogStream: the request for the log, whose failure stops the stream   *)
(* for all pods.                                                           *)
LgPodStarts(p) ==
  /\ p \in LgPods /\ lgAt[p] = "start" /\ LgGo(p, "idle")
  /\ LgQuiet /\ UNCHANGED <<lgKind, lgNext, lgOld, lgOut>>

LgPodFails(p) ==
  /\ p \in LgPods /\ lgAt[p] = "start" /\ LgGo(p, "exit")
  /\ LgStops /\ UNCHANGED <<lgKind, lgNext, lgOld, lgCaller, lgOut, lgBad, lgOverlap>>

(* A pod looks at stop before it scans; Stop may come between.             *)
LgPodLooks(p) ==
  /\ p \in LgPods /\ lgAt[p] = "idle"
  /\ LgGo(p, IF lgStop THEN "exit" ELSE "ready")
  /\ LgQuiet /\ UNCHANGED <<lgKind, lgNext, lgOld, lgOut>>

(* A line is there: tail chooses between line and stop if both are ready.  *)
LgTake(p) ==
  /\ lgAt[p] = (IF p = LgOne THEN "idle" ELSE "ready") /\ lgNext[p] <= LgLines
  /\ p # LgReader
  /\ LgGo(p, "send") /\ lgNext' = [lgNext EXCEPT ![p] = @ + 1]
  /\ LgQuiet /\ UNCHANGED <<lgKind, lgOld, lgOut>>

(* A watcher reads a line that is no event, and goes on to the next.       *)
LgSkip(p) ==
  /\ p = LgOne /\ lgKind = "watch" /\ lgAt[p] = "idle" /\ lgNext[p] <= LgLines
  /\ lgBad' = lgBad \cup {lgNext[p]} /\ lgNext' = [lgNext EXCEPT ![p] = @ + 1]
  /\ UNCHANGED <<lgKind, lgStop, lgClosed, lgAt, lgOld, lgCaller, lgOut, lgTwice, lgOverlap>>

(* No line: a pod sleeps, the tail of a file that is not followed ends and *)
(* stops the stream, the body of a watcher ends.                           *)
LgNoLine(p) ==
  /\ lgNext[p] > LgLines
  /\ \/ p \in LgPods /\ lgAt[p] = "ready" /\ LgGo(p, "idle") /\ UNCHANGED <<lgStop, lgClosed, lgTwice>>
     \/ p = LgOne /\ lgKind = "tail" /\ lgAt[p] = "idle" /\ LgGo(p, "exit") /\ LgStops
     \/ p = LgOne /\ lgKind = "watch" /\ lgAt[p] = "idle" /\ LgGo(p, "exit")
        /\ UNCHANGED <<lgStop, lgClosed, lgTwice>>
  /\ UNCHANGED <<lgKind, lgNext, lgOld, lgCaller, lgOut, lgBad, lgOverlap>>

(* Stop ends a tail that waits for a line, and a watcher that waits for a  *)
(* receiver too.                                                           *)
LgStopped(p) ==
  /\ p = LgOne /\ lgStop
  /\ lgAt[p] = "idle" \/ (lgKind = "watch" /\ lgAt[p] = "send")
  /\ LgGo(p, "exit")
  /\ LgQuiet /\ UNCHANGED <<lgKind, lgNext, lgOld, lgOut>>

(* Read of klog: the last lines of every pod, one pod after the other, or  *)
(* an error and nothing.                                                   *)
LgRead ==
  /\ lgAt[LgReader] = "start" /\ LgGo(LgReader, "send")
  /\ \E order \in SetToSeqs({p \in LgPods : lgAt[p] # "off"}) :
       LET count == IF lgNext[LgReader] < LgLines THEN lgNext[LgReader] ELSE LgLines
       IN  lgOld' = FlattenSeq([i \in DOMAIN order |->
                      [k \in 1..count |-> <<order[i], LgLines - count + k>>]])
  /\ LgQuiet /\ UNCHANGED <<lgKind, lgNext, lgOut>>

LgReadEnds ==
  /\ \/ lgAt[LgReader] = "start"
     \/ lgAt[LgReader] = "send" /\ lgOld = <<>>
  /\ LgGo(LgReader, "exit")
  /\ LgQuiet /\ UNCHANGED <<lgKind, lgNext, lgOld, lgOut>>

(* A send meets the receiver, or panics on a closed stream.                *)
LgHas(p) == lgAt[p] = "send" /\ (p = LgReader => lgOld # <<>>)
LgSend(p) ==
  /\ LgHas(p) /\ ~lgClosed
  /\ lgOut' = Append(lgOut, IF p = LgReader THEN <<LgReader, Head(lgOld)>> ELSE <<p, lgNext[p] - 1>>)
  /\ LgGo(p, IF p = LgReader THEN "send" ELSE "idle")
  /\ lgOld' = IF p = LgReader THEN Tail(lgOld) ELSE lgOld
  /\ LgQuiet /\ UNCHANGED <<lgKind, lgNext>>

LgPanics(p) ==
  /\ LgHas(p) /\ lgClosed /\ LgGo(p, "panic")
  /\ LgQuiet /\ UNCHANGED <<lgKind, lgNext, lgOld, lgOut>>

LogStreamsNext ==
  \/ \E from \in 1..LgLines : LgTail(from)
  \/ \E matching \in SUBSET LgPods, count \in 0..1 : LgPodLogs(matching, count)
  \/ LgWatch \/ LgOpenFails \/ LgRead \/ LgReadEnds
  \/ \E s \in LgStoppers : LgStop(s) \/ LgCheckStop(s) \/ LgCloseStop(s)
  \/ \E p \in LgSources : \/ LgPodStarts(p) \/ LgPodFails(p) \/ LgPodLooks(p) \/ LgTake(p)
                          \/ LgSkip(p) \/ LgNoLine(p) \/ LgStopped(p) \/ LgSend(p) \/ LgPanics(p)

-----------------------------------------------------------------------------
(* Line n of p comes after line m of it, and between them is nothing but   *)
(* what a watcher could not decode.                                        *)
LgFollows(p, m, n) == m < n /\ \A k \in (m + 1)..(n - 1) : p = LgOne /\ k \in lgBad

(* The lines of p arrived in order: of two that arrived with none of p     *)
(* between them, the second follows the first.                             *)
LgInOrder(p) ==
  \A i, j \in DOMAIN lgOut :
    /\ i < j /\ lgOut[i][1] = p /\ lgOut[j][1] = p
    /\ \A k \in DOMAIN lgOut : i < k /\ k < j => lgOut[k][1] # p
    => LgFollows(p, lgOut[i][2], lgOut[j][2])

(* A log stream is sound.  The lines of one source arrive in order and     *)
(* none twice, from the first one that arrives, and none is lost but a     *)
(* line of a watcher that does not decode, which it skips.  However many   *)
(* callers, a tail that ends and a pod that fails stop a stream, its       *)
(* channels are closed once; only two overlapping Stops of a watcher close *)
(* one twice.  No goroutine panics unless the stream was stopped; that of  *)
(* a watcher never does.                                                   *)
LogsSound ==
  /\ \A p \in LgPods \cup {LgOne} : LgInOrder(p)
  /\ lgTwice => lgKind = "watch" /\ lgOverlap
  /\ \A p \in LgSources : lgAt[p] = "panic" => lgStop /\ lgKind # "watch"

(* Runtimes account for what they started: the processes of the local      *)
(* runtime, the objects and loops of the kubernetes one, and the streams   *)
(* of their logs.                                                          *)
RuntimesSound == ProcessesAccounted /\ KubernetesSound /\ LogsSound

=============================================================================
