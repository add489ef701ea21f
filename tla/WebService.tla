----------------------------- MODULE WebService -----------------------------
(***************************************************************************)
(* Services as the user runs them: the web service (web/service.go) and    *)
(* the micro service around the rpc server (service.go).                   *)
(*                                                                         *)
(* Run starts, registers, leaves a loop behind that registers again at     *)
(* every tick, and waits for a signal or the end of its context; then it   *)
(* closes the loop's channel, deregisters and stops.  Start and Stop do    *)
(* the same in two calls.  The loop may take one more tick after the       *)
(* close, since a select with two ready channels takes either.  Handle may *)
(* be called meanwhile, and finds s.srv replaced by start and register;    *)
(* so may Init, which changes the options first, hence where and as what   *)
(* the service registers, and s.srv later.                                 *)
(***************************************************************************)
EXTENDS Naturals, FiniteSets

CONSTANTS WebPatterns,   \* patterns that are handled, each by one Handle
          WebRoot        \* the pattern "/" among them

VARIABLES wbPc,          \* the caller of Run
          wbLoop,        \* the goroutine of run
          wbLock,        \* service.RWMutex, held for writing by
          wbRunning, wbListener, wbEx,
          wbOpts,        \* the registry and the node id of the options; Init
                         \* replaces either by a new one, the next number
          wbSrv,         \* the node id of s.srv
          wbInit,        \* Init: "none", "opts", "flags", "done"
          wbProfile,     \* the profiler of Run is running
          wbRegistered,  \* the registries and node ids that it is registered with
          wbLate,        \* history: the loop chose a tick after the close
          wbEndpoints,   \* s.srv.Endpoints
          wbMux,         \* patterns of the mux; static: it serves files at "/"
          wbHandle,      \* pattern -> pc of its Handle
          wbStatic,
          svPc,          \* the caller of the micro service's Run
          svServer,      \* the server is running (RpcServer models it)
          svProfile      \* the profiler is running

wbVars == <<wbPc, wbLoop, wbLock, wbRunning, wbListener, wbEx, wbRegistered, wbLate,
            wbEndpoints, wbMux, wbHandle, wbStatic, wbOpts, wbSrv, wbInit, wbProfile>>
svVars == <<svPc, svServer, svProfile>>
webVars == <<wbVars, svVars>>

WebServiceInit ==
  /\ wbPc = "new" /\ wbLoop = "none" /\ wbLock = "free"
  /\ wbRunning = FALSE /\ wbListener = "none" /\ wbEx = FALSE
  /\ wbRegistered = {} /\ wbLate = FALSE
  /\ wbOpts = [reg |-> 0, id |-> 0] /\ wbSrv = 0 /\ wbInit = "none" /\ wbProfile = FALSE
  /\ wbEndpoints = {} /\ wbMux = {} /\ wbStatic = TRUE
  /\ wbHandle = [h \in WebPatterns |-> "none"]
  /\ svPc = "new" /\ svServer = FALSE /\ svProfile = FALSE

(* Mutant: the service made anew starts without endpoints.                 *)
WebGenSrvEmpty == wbEndpoints' = {} /\ wbSrv' = wbOpts.id

(* genSrv, then Endpoints taken over from the service it replaces.         *)
WebGenSrv == wbEndpoints' = wbEndpoints /\ wbSrv' = wbOpts.id

(* Run and Start return; the deferred call stops the profiler of Run.      *)
WebReturn(how) == wbPc' = how /\ wbProfile' = FALSE

(* start: hooks or the listener may fail.  AfterStart hooks run when the   *)
(* listener is served already, and their error leaves it so.  Files are    *)
(* served at "/" unless Handle has turned that off.                        *)
WebStart ==
  /\ wbPc = "new" /\ wbLock = "free"
  /\ \/ /\ WebReturn("failed")
        /\ UNCHANGED <<wbListener, wbRunning, wbMux, wbEndpoints, wbSrv>>
     \/ /\ WebGenSrv
        /\ wbListener' = "open"
        /\ wbMux' = IF wbStatic THEN wbMux \cup {"static"} ELSE wbMux
        /\ \/ wbPc' = "started" /\ wbRunning' = TRUE /\ UNCHANGED wbProfile
           \/ WebReturn("failed") /\ UNCHANGED wbRunning
  /\ UNCHANGED <<wbLoop, wbLock, wbEx, wbRegistered, wbLate, wbHandle, wbStatic, wbOpts, wbInit>>

(* Run starts the profiler, when there is one; Start does not.             *)
WebProfile ==
  /\ wbPc = "started"
  /\ \/ wbPc' = "profiled" /\ wbProfile' \in BOOLEAN
     \/ WebReturn("failed")
  /\ UNCHANGED <<wbLoop, wbLock, wbRunning, wbListener, wbEx, wbRegistered, wbLate, wbEndpoints,
                 wbMux, wbHandle, wbStatic, wbOpts, wbSrv, wbInit>>

(* register, under the lock: the check or each of three tries may fail.    *)
WebRegister(ok) ==
  /\ WebGenSrv
  /\ wbRegistered' = IF ok THEN wbRegistered \cup {wbOpts} ELSE wbRegistered
  /\ UNCHANGED <<wbOpts, wbInit>>

(* Start and Run leave the loop behind; without an interval it ends.       *)
WebRunRegisters ==
  /\ wbPc = "profiled" /\ wbLock = "free"
  /\ \/ /\ WebRegister(TRUE)
        /\ wbPc' = "waiting" /\ wbLoop' \in {"select", "ended"}
        /\ UNCHANGED wbProfile
     \/ WebRegister(FALSE) /\ WebReturn("failed") /\ UNCHANGED wbLoop
  /\ UNCHANGED <<wbLock, wbRunning, wbListener, wbEx, wbLate, wbMux, wbHandle, wbStatic>>

(* run: the tick and the close are chosen between freely.                  *)
WebTick ==
  /\ wbLoop = "select"
  /\ wbLoop' = "tick"
  /\ wbLate' = (wbLate \/ wbEx)
  /\ UNCHANGED <<wbPc, wbLock, wbRunning, wbListener, wbEx, wbRegistered, wbEndpoints,
                 wbMux, wbHandle, wbStatic, wbOpts, wbSrv, wbInit, wbProfile>>

WebLoopRegisters ==
  /\ wbLoop = "tick" /\ wbLock = "free"
  /\ \E ok \in BOOLEAN : WebRegister(ok)
  /\ wbLoop' = "select"
  /\ wbLate' = (wbLate \/ wbEx)
  /\ UNCHANGED <<wbPc, wbLock, wbRunning, wbListener, wbEx, wbMux, wbHandle, wbStatic, wbProfile>>

WebLoopEnds ==
  /\ wbLoop = "select" /\ wbEx
  /\ wbLoop' = "ended"
  /\ UNCHANGED <<wbPc, wbLock, wbRunning, wbListener, wbEx, wbRegistered, wbLate,
                 wbEndpoints, wbMux, wbHandle, wbStatic, wbOpts, wbSrv, wbInit, wbProfile>>

(* A signal, the context's end or a call of Stop: close ex.                *)
WebShutdown ==
  /\ wbPc = "waiting"
  /\ wbPc' = "closing" /\ wbEx' = TRUE
  /\ UNCHANGED <<wbLoop, wbLock, wbRunning, wbListener, wbRegistered, wbLate, wbEndpoints,
                 wbMux, wbHandle, wbStatic, wbOpts, wbSrv, wbInit, wbProfile>>

(* deregister: s.srv, at the registry that the options have now.  An error *)
(* ends Run with the listener still open.                                  *)
WebDeregister ==
  /\ wbPc = "closing" /\ wbLock = "free"
  /\ \/ /\ wbPc' = "deregistered" /\ wbRegistered' = wbRegistered \ {[wbOpts EXCEPT !.id = wbSrv]}
        /\ UNCHANGED wbProfile
     \/ WebReturn("failed") /\ UNCHANGED wbRegistered
  /\ UNCHANGED <<wbLoop, wbLock, wbRunning, wbListener, wbEx, wbLate, wbEndpoints, wbMux,
                 wbHandle, wbStatic, wbOpts, wbSrv, wbInit>>

(* stop: a BeforeStop hook may fail; else hand a channel to the goroutine  *)
(* that start left behind and wait, with the lock, until it has closed the *)
(* listener.  An AfterStop hook that fails waits all the same.             *)
(* The early return for a service that does not run is never taken: Run    *)
(* stops only what it started.                                             *)
WebStop ==
  /\ wbPc = "deregistered" /\ wbLock = "free"
  /\ \/ WebReturn("failed") /\ UNCHANGED <<wbRunning, wbLock>>
     \/ /\ wbRunning
        /\ wbRunning' = FALSE /\ wbLock' = "stop" /\ wbPc' = "stopping"
        /\ UNCHANGED wbProfile
  /\ UNCHANGED <<wbLoop, wbListener, wbEx, wbRegistered, wbLate, wbEndpoints, wbMux,
                 wbHandle, wbStatic, wbOpts, wbSrv, wbInit>>

WebStopped ==
  /\ wbPc = "stopping"
  /\ wbListener' = "closed" /\ wbLock' = "free"
  /\ \E how \in {"done", "failed"} : WebReturn(how)
  /\ UNCHANGED <<wbLoop, wbRunning, wbEx, wbRegistered, wbLate, wbEndpoints, wbMux,
                 wbHandle, wbStatic, wbOpts, wbSrv, wbInit>>

(* Init, which may be called at any time, once here: its options under the *)
(* lock, then those of the flags in the action that the micro service      *)
(* runs, then s.srv from them.                                             *)
WebInitOptions ==
  /\ wbInit \in {"none", "opts"} /\ wbLock = "free"
  /\ wbInit' = IF wbInit = "none" THEN "opts" ELSE "flags"
  /\ wbOpts' \in {wbOpts, [wbOpts EXCEPT !.reg = @ + 1], [wbOpts EXCEPT !.id = @ + 1]}
  /\ UNCHANGED <<wbPc, wbLoop, wbLock, wbRunning, wbListener, wbEx, wbRegistered, wbLate,
                 wbEndpoints, wbMux, wbHandle, wbStatic, wbSrv, wbProfile>>

WebInitSrv ==
  /\ wbInit = "flags" /\ wbLock = "free"
  /\ WebGenSrv
  /\ wbInit' = "done"
  /\ UNCHANGED <<wbPc, wbLoop, wbLock, wbRunning, wbListener, wbEx, wbRegistered, wbLate,
                 wbMux, wbHandle, wbStatic, wbOpts, wbProfile>>

(* Handle: look whether the endpoint is there, add it, turn off static     *)
(* files for "/", register with the mux, which panics when start has put   *)
(* the files there before.                                                 *)
WebHandle(h) ==
  /\ wbLock = "free"
  /\ \/ /\ wbHandle[h] = "none"
        /\ wbHandle' = [wbHandle EXCEPT ![h] = IF h \in wbEndpoints THEN "added" ELSE "unseen"]
        /\ UNCHANGED <<wbEndpoints, wbStatic, wbMux>>
     \/ /\ wbHandle[h] = "unseen"
        /\ wbEndpoints' = wbEndpoints \cup {h}
        /\ wbHandle' = [wbHandle EXCEPT ![h] = "added"]
        /\ UNCHANGED <<wbStatic, wbMux>>
     \/ /\ wbHandle[h] = "added"
        /\ wbStatic' = (wbStatic /\ h # WebRoot)
        /\ wbHandle' = [wbHandle EXCEPT ![h] = "mux"]
        /\ UNCHANGED <<wbEndpoints, wbMux>>
     \/ /\ wbHandle[h] = "mux"
        /\ IF h = WebRoot /\ "static" \in wbMux
           THEN wbHandle' = [wbHandle EXCEPT ![h] = "panic"] /\ UNCHANGED wbMux
           ELSE /\ wbHandle' = [wbHandle EXCEPT ![h] = "done"]
                /\ wbMux' = wbMux \cup {h}
        /\ UNCHANGED <<wbEndpoints, wbStatic>>
  /\ UNCHANGED <<wbPc, wbLoop, wbLock, wbRunning, wbListener, wbEx, wbRegistered, wbLate, wbOpts,
                 wbSrv, wbInit, wbProfile>>

-----------------------------------------------------------------------------
(* The micro service.                                                      *)

SvRun ==
  /\ svPc = "new"
  /\ \E profile \in BOOLEAN :
       \/ svPc' = "starting" /\ svProfile' = profile
       \/ svPc' = "failed" /\ profile /\ UNCHANGED svProfile
  /\ UNCHANGED svServer

(* The deferred call stops the profiler however Run ends.                  *)
SvReturn(how) == svPc' = how /\ svProfile' = FALSE

(* Start: a BeforeStart hook or the server fails, or an AfterStart hook    *)
(* fails, which leaves the server running.                                 *)
SvStart ==
  /\ svPc = "starting"
  /\ \/ SvReturn("failed") /\ UNCHANGED svServer
     \/ svServer' = TRUE /\ SvReturn("failed")
     \/ svServer' = TRUE /\ svPc' = "waiting" /\ UNCHANGED svProfile

(* Stop: the errors of hooks do not end it, that of the server does.       *)
SvStop ==
  /\ svPc = "waiting"
  /\ \/ svServer' = FALSE /\ SvReturn("done")
     \/ svServer' = FALSE /\ SvReturn("failed")
     \/ UNCHANGED svServer /\ SvReturn("failed")

WebServiceNext ==
  \/ /\ \/ WebStart \/ WebProfile \/ WebRunRegisters \/ WebTick \/ WebLoopRegisters \/ WebLoopEnds
        \/ WebShutdown \/ WebDeregister \/ WebStop \/ WebStopped
        \/ WebInitOptions \/ WebInitSrv
        \/ \E h \in WebPatterns : WebHandle(h)
     /\ UNCHANGED svVars
  \/ /\ SvRun \/ SvStart \/ SvStop
     /\ UNCHANGED wbVars

-----------------------------------------------------------------------------
(* Run cleans up.  When Run of the web service has returned without error  *)
(* its listener is closed, and it is registered as its options have it     *)
(* only if the loop registered it after ex was closed: what else is left   *)
(* behind is what Init moved it away from.  Run of the micro service has   *)
(* stopped the server; both have stopped the profiler however they         *)
(* returned.  Meanwhile no handler that was added is lost from the         *)
(* registered endpoints, whenever start, the loop or Init replaced the     *)
(* service under it.                                                       *)
RunCleansUp ==
  /\ wbPc = "done" => /\ wbListener # "open"
                      /\ wbOpts \in wbRegistered => wbLate
  /\ wbPc \in {"done", "failed"} => ~wbProfile
  /\ \A h \in WebPatterns : wbHandle[h] \in {"added", "mux", "done"} => h \in wbEndpoints
  /\ svPc = "done" => ~svServer
  /\ svPc \in {"done", "failed"} => ~svProfile

=============================================================================
