----------------------------- MODULE ApiHandlers ----------------------------
(***************************************************************************)
(* The handlers of the api gateway: api/handler/rpc, event, api, http and  *)
(* web.  Each request is served by a goroutine of its own; what they share *)
(* is a pool of buffers to read bodies with.  A websocket request of the   *)
(* rpc handler becomes a session of two loops around one client stream.    *)
(*                                                                         *)
(* The data of a request is the request itself: what matters is whose body *)
(* a call carries.  A payload is a copy, or a slice of a pooled buffer     *)
(* that reads as whatever the buffer holds when it is used.                *)
(***************************************************************************)
EXTENDS Naturals, FiniteSets

CONSTANTS ApRequests, ApBuffers

VARIABLES apReq,         \* request -> its handler's state
          apFree,        \* buffers in the pool
          apBuf          \* buffer -> request whose body it holds

apVars == <<apReq, apFree, apBuf>>

ApKinds == {"rpc", "event", "api", "proxy", "stream"}

ApiHandlersInit ==
  /\ apReq = [r \in ApRequests |->
                [kind |-> "rpc", json |-> TRUE, pc |-> "new", buf |-> {}, copy |-> {},
                 alias |-> {}, sent |-> {}, answers |-> 0, conn |-> FALSE, stream |-> "none",
                 writer |-> "none", peer |-> "there", cancelled |-> FALSE]]
  /\ apFree = ApBuffers
  /\ apBuf = [b \in ApBuffers |-> {}]

ApSet(r, f) == apReq' = [apReq EXCEPT ![r] = f]

(* Write an error to the client: writeError, http.Error.                   *)
ApRefuse(r) ==
  ApSet(r, [apReq[r] EXCEPT !.pc = "over", !.answers = @ + 1])

(* A request comes for one of the handlers.  A body that is not json goes  *)
(* to the rpc handler under another content type.                          *)
ApArrive(r) ==
  /\ apReq[r].pc = "new"
  /\ \E kind \in ApKinds, json \in BOOLEAN :
       ApSet(r, [apReq[r] EXCEPT !.pc = "arrived", !.kind = kind, !.json = json])
  /\ UNCHANGED <<apFree, apBuf>>

(* Router.Route: none found, a service without a node, or go on.  The http *)
(* and web handlers hand the request to a reverse proxy, or copy bytes     *)
(* both ways until one side ends.  The event handler asks no router.       *)
ApRoute(r) ==
  /\ apReq[r].pc = "arrived"
  /\ \/ apReq[r].kind # "event" /\ ApRefuse(r)
     \/ apReq[r].kind # "proxy" /\ ApSet(r, [apReq[r] EXCEPT !.pc = "routed"])
     \/ apReq[r].kind = "proxy" /\ ApSet(r, [apReq[r] EXCEPT !.pc = "called"])
  /\ UNCHANGED <<apFree, apBuf>>

(* requestPayload, requestToProto, ServeHTTP of event: a buffer from the   *)
(* pool, or a new one when the pool is empty.                              *)
ApGetBuffer(r) ==
  /\ apReq[r].pc = "routed"
  /\ \E b \in apFree :
       /\ apFree' = apFree \ {b}
       /\ ApSet(r, [apReq[r] EXCEPT !.pc = "reading", !.buf = {b}])
  /\ UNCHANGED apBuf

(* ReadFrom the body.                                                      *)
ApRead(r) ==
  /\ apReq[r].pc = "reading"
  /\ apBuf' = [b \in ApBuffers |-> IF b \in apReq[r].buf THEN {r} ELSE apBuf[b]]
  /\ ApSet(r, [apReq[r] EXCEPT !.pc = "read"])
  /\ UNCHANGED apFree

(* The body is too long, or the client is gone: the deferred Put.  The     *)
(* handlers answer with an error, but for a websocket, whose error is only *)
(* logged.                                                                 *)
ApReadFails(r) ==
  /\ apReq[r].pc = "reading"
  /\ apFree' = apFree \cup apReq[r].buf
  /\ apReq' = [apReq EXCEPT ![r].pc = "over", ![r].buf = {},
                            ![r].answers = IF apReq[r].kind = "stream" THEN @ ELSE @ + 1]
  /\ UNCHANGED apBuf

(* Mutant: every body is passed on as the buffer's bytes.                  *)
ApKeepsAlias(r) == TRUE

(* event and api take the buffer's String, a copy; rpc returns the merged  *)
(* json, new bytes.  A body that is not json it returns as it is, the      *)
(* bytes of the buffer: the merge has failed twice.                        *)
ApKeeps(r) == apReq[r].kind \in {"rpc", "stream"} /\ ~apReq[r].json

(* The buffer goes back to the pool when the function returns.             *)
ApPutBuffer(r) ==
  LET b == apReq[r].buf
  IN  /\ apReq[r].pc = "read"
      /\ apFree' = apFree \cup b
      /\ ApSet(r, [apReq[r] EXCEPT
                     !.pc = IF apReq[r].kind = "stream" THEN "upgrade" ELSE "calling",
                     !.buf = {},
                     !.copy = IF ApKeeps(r) THEN {} ELSE UNION {apBuf[x] : x \in b},
                     !.alias = IF ApKeeps(r) THEN b ELSE {}])
      /\ UNCHANGED apBuf

ApPayload(r) == apReq[r].copy \cup UNION {apBuf[b] : b \in apReq[r].alias}

(* Call or Publish with the payload, and the answer, or the error, of it.  *)
ApCall(r) ==
  /\ apReq[r].pc = "calling"
  /\ ApSet(r, [apReq[r] EXCEPT !.pc = "called", !.sent = ApPayload(r)])
  /\ UNCHANGED <<apFree, apBuf>>

ApReply(r) ==
  /\ apReq[r].pc = "called"
  /\ ApSet(r, [apReq[r] EXCEPT !.pc = "over", !.answers = @ + 1])
  /\ UNCHANGED <<apFree, apBuf>>

-----------------------------------------------------------------------------
(* serveWebsocket: the upgrade, the client stream, the first message.  An  *)
(* error in between closes the connection, but not the stream: only        *)
(* writeLoop closes that.                                                  *)
ApUpgrade(r) ==
  /\ apReq[r].pc = "upgrade"
  /\ ApSet(r, IF apReq[r].peer = "there"
              THEN [apReq[r] EXCEPT !.pc = "open", !.conn = TRUE, !.answers = @ + 1]
              ELSE [apReq[r] EXCEPT !.pc = "over"])
  /\ UNCHANGED <<apFree, apBuf>>

ApOpenStream(r) ==
  /\ apReq[r].pc = "open"
  /\ \/ ApSet(r, [apReq[r] EXCEPT !.pc = "over", !.conn = FALSE, !.cancelled = TRUE])
     \/ ApSet(r, [apReq[r] EXCEPT !.pc = "first", !.stream = "open"])
  /\ UNCHANGED <<apFree, apBuf>>

ApFirstMessage(r) ==
  /\ apReq[r].pc = "first"
  /\ \/ ApSet(r, [apReq[r] EXCEPT !.pc = "over", !.conn = FALSE, !.cancelled = TRUE])
     \/ ApSet(r, [apReq[r] EXCEPT !.pc = "serving", !.writer = "on", !.sent = ApPayload(r)])
  /\ UNCHANGED <<apFree, apBuf>>

(* Mutant: writeLoop leaves the stream open.                               *)
ApWriterEndsOpen(r) ==
  /\ apReq[r].writer = "on"
  /\ apReq[r].cancelled \/ apReq[r].peer = "closed" \/ apReq[r].stream = "broken"
  /\ ApSet(r, [apReq[r] EXCEPT !.writer = "off"])
  /\ UNCHANGED <<apFree, apBuf>>

(* writeLoop ends and closes the stream: its context is done, the peer     *)
(* closed the websocket, or Send failed.  A peer that is lost without a    *)
(* word does not end it: the loop goes round until the context is done.    *)
ApWriterEnds(r) ==
  /\ apReq[r].writer = "on"
  /\ apReq[r].cancelled \/ apReq[r].peer = "closed" \/ apReq[r].stream = "broken"
  /\ ApSet(r, [apReq[r] EXCEPT !.writer = "off", !.stream = "closed"])
  /\ UNCHANGED <<apFree, apBuf>>

(* The other loop ends when the stream has, or when it cannot write what   *)
(* the backend sent; then cancel and the connection's Close.               *)
ApServed(r) ==
  /\ apReq[r].pc = "serving"
  /\ apReq[r].stream # "open" \/ apReq[r].peer # "there"
  /\ ApSet(r, [apReq[r] EXCEPT !.pc = "over", !.conn = FALSE, !.cancelled = TRUE])
  /\ UNCHANGED <<apFree, apBuf>>

(* The peer closes the websocket or is lost; the backend breaks the stream.*)
ApLeaves(r) ==
  /\ apReq[r].kind = "stream" /\ apReq[r].peer = "there"
  /\ \E how \in {"closed", "lost"} : ApSet(r, [apReq[r] EXCEPT !.peer = how])
  /\ UNCHANGED <<apFree, apBuf>>

ApBreaks(r) ==
  /\ apReq[r].stream = "open"
  /\ ApSet(r, [apReq[r] EXCEPT !.stream = "broken"])
  /\ UNCHANGED <<apFree, apBuf>>

ApiHandlersNext ==
  \E r \in ApRequests :
    \/ ApArrive(r) \/ ApRoute(r) \/ ApGetBuffer(r) \/ ApRead(r) \/ ApReadFails(r) \/ ApPutBuffer(r)
    \/ ApCall(r) \/ ApReply(r)
    \/ ApUpgrade(r) \/ ApOpenStream(r) \/ ApFirstMessage(r)
    \/ ApWriterEnds(r) \/ ApServed(r) \/ ApLeaves(r) \/ ApBreaks(r)

-----------------------------------------------------------------------------
(* A call carries the body of its own request, whoever uses the pool       *)
(* beside it: this is so for the bodies that are copied.                   *)
OwnBody ==
  \A r \in ApRequests : apReq[r].json \/ apReq[r].kind \in {"event", "api"} =>
                          apReq[r].sent \subseteq {r}

(* A request that is over was answered once, unless it was for a websocket *)
(* that did not come to be: its payload could not be read, or it not be    *)
(* opened.  Its buffer is back in the pool; and a session that is over has *)
(* closed its connection, and its stream too when its writeLoop has ended. *)
OverIsOver ==
  \A r \in ApRequests :
    LET q == apReq[r]
    IN  /\ q.answers <= 1
        /\ q.pc = "over" => q.answers = 1 \/ (q.kind = "stream" /\ q.stream = "none")
        /\ q.pc = "over" => ~q.conn /\ q.buf = {}
        /\ q.pc = "over" /\ q.writer = "off" => q.stream = "closed"

(* Requests keep to themselves.                                            *)
RequestsApart == OwnBody /\ OverIsOver

=============================================================================
