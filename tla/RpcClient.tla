----------------------------- MODULE RpcClient -----------------------------
(***************************************************************************)
(* rpcClient.Call, call and Init (client/rpc_client.go) with the stream of *)
(* a unary call (client/rpc_stream.go), on top of the connection pool.     *)
(*                                                                         *)
(* Call takes the client's read lock for its whole duration, starts an     *)
(* attempt in a goroutine and waits for its outcome or for the deadline of *)
(* the context; a timed-out attempt is retried.  An attempt (call) gets a  *)
(* connection, starts a second goroutine that sends the request and        *)
(* receives the answer, and waits for it or for the connection timeout.    *)
(* Whoever stops waiting leaves the others running: an attempt may go on   *)
(* after its Call returned and the second goroutine after its attempt.     *)
(* Init takes the write lock and replaces the pool.                        *)
(*                                                                         *)
(* The server and the transport are external: a request is answered, in    *)
(* order on its connection, with a result or an error, and reading or      *)
(* writing may fail at any time.                                           *)
(***************************************************************************)
EXTENDS ConnPool, FiniteSets

CONSTANTS Callers,         \* goroutines that call Call once each
          Retries,         \* callOpts.Retries
          MaxInits,        \* bound: how often Init replaces the pool
          ClosingCallers   \* callers that may set the ConnClose option

(* An attempt is a caller and the loop index of Call; it is the user of    *)
(* the pool.  The pool objects are numbered in the order Init makes them.  *)
ASSUME RpcClientAssumption ==
          /\ Retries \in Nat
          /\ MaxInits \in Nat
          /\ Users = Callers \X (0..Retries)
          /\ Pools = 0..MaxInits
          /\ ClosingCallers \subseteq Callers
          /\ Nil \notin Users

VARIABLES rpool,    \* r.pool
          init,     \* Init: "idle", "lock" (waits for the lock), "swap"
          reading,  \* the callers that hold r.mu.RLock
          cpc,      \* Call: "idle", "wait" (in its select), "done"
          try,      \* Call's loop index i
          result,   \* what Call returned
          resp,     \* the caller's response: the attempt whose answer is in it
          apc,      \* where an attempt is
          ret,      \* what call is about to return
          ch,       \* what the attempt sent on Call's channel
          conn,     \* c, the connection of the attempt
          gpc,      \* where the attempt's second goroutine is
          gch,      \* what it sent on call's channel
          serr,     \* stream.err
          sclosed,  \* stream.closed is closed
          got,      \* the answer read but not yet decoded
          sent,     \* sent[c]: requests on c that the server has not answered
          inbox     \* inbox[c]: answers on c that nobody has read

lockVars == <<rpool, init, reading>>
callVars == <<cpc, try, result>>
goVars   == <<gpc, gch, got>>
wireVars == <<sent, inbox>>
clientVars == <<lockVars, callVars, resp, apc, ret, ch, conn, goVars, serr, sclosed, wireVars>>
vars == <<poolVars, clientVars>>

Attempts == Users
Errors == {"timeout", "internal"}      \* code 408, any other
Outcomes == Errors \cup {"ok"}

-----------------------------------------------------------------------------
(* newRPCClient: an empty pool, nobody calls.                              *)
Init ==
  /\ PoolInit
  /\ rpool = 0 /\ init = "idle" /\ reading = {}
  /\ cpc = [k \in Callers |-> "idle"]
  /\ try = [k \in Callers |-> 0]
  /\ result = [k \in Callers |-> "none"]
  /\ resp = [k \in Callers |-> Nil]
  /\ apc = [t \in Attempts |-> "none"]
  /\ ret = [t \in Attempts |-> "none"]
  /\ ch = [t \in Attempts |-> "none"]
  /\ conn = [t \in Attempts |-> Nil]
  /\ gpc = [t \in Attempts |-> "none"]
  /\ gch = [t \in Attempts |-> "none"]
  /\ serr = [t \in Attempts |-> "nil"]
  /\ sclosed = [t \in Attempts |-> FALSE]
  /\ got = [t \in Attempts |-> Nil]
  /\ sent = [c \in Conns |-> <<>>]
  /\ inbox = [c \in Conns |-> <<>>]

(* Go's RWMutex lets no reader in while a writer holds it or waits for it. *)
CanRLock == init = "idle"

-----------------------------------------------------------------------------
(* Call.                                                                   *)

(* Mutant: a return path that keeps the read lock.                         *)
ReturnKeepsLock(k, res) ==
  /\ cpc' = [cpc EXCEPT ![k] = "done"]
  /\ result' = [result EXCEPT ![k] = res]
  /\ UNCHANGED reading

(* Every return of Call runs the deferred RUnlock.                         *)
Return(k, res) ==
  /\ cpc' = [cpc EXCEPT ![k] = "done"]
  /\ result' = [result EXCEPT ![k] = res]
  /\ reading' = reading \ {k}

(* go func(i int) { ch <- call(i) }(i)                                     *)
Spawn(k, i) == apc' = [apc EXCEPT ![<<k, i>>] = "start"]

(* Call takes the read lock, selects and starts attempt 0; or the selector *)
(* fails or the context is done already, and it returns at once.           *)
CallStart(k) ==
  /\ cpc[k] = "idle" /\ CanRLock
  /\ \/ /\ cpc' = [cpc EXCEPT ![k] = "wait"]
        /\ reading' = reading \cup {k}
        /\ Spawn(k, 0)
        /\ UNCHANGED result
     \/ /\ \E res \in {"noselect", "timeout"} : Return(k, res)
        /\ UNCHANGED apc
  /\ UNCHANGED <<poolVars, rpool, init, try, resp, ret, ch, conn, goVars,
                 serr, sclosed, wireVars>>

(* Mutant: Call only waits for its attempt.                                *)
CallWaitsForever(k) == FALSE /\ UNCHANGED vars

(* case <-ctx.Done(): the deadline passes, the caller's or the one made of *)
(* RequestTimeout, and Call gives up; its attempt keeps running.           *)
CallTimesOut(k) ==
  /\ cpc[k] = "wait"
  /\ Return(k, "timeout")
  /\ UNCHANGED <<poolVars, rpool, init, try, resp, apc, ret, ch, conn, goVars,
                 serr, sclosed, wireVars>>

(* RetryOnError, the default policy: code 408 only.                        *)
RetryOnError(err) == err = "timeout"

(* Mutant: one attempt too many.                                           *)
CallReceivesOneMore(k) ==
  LET err == ch[<<k, try[k]>>] IN
  /\ cpc[k] = "wait" /\ try[k] <= Retries /\ err # "none"
  /\ \/ /\ err = "ok" \/ ~RetryOnError(err)
        /\ Return(k, err)
        /\ UNCHANGED <<try, apc>>
     \/ /\ err # "ok" /\ RetryOnError(err)
        /\ try' = [try EXCEPT ![k] = @ + 1]
        /\ Spawn(k, try[k] + 1)
        /\ UNCHANGED <<cpc, result, reading>>
  /\ UNCHANGED <<poolVars, rpool, init, resp, ret, ch, conn, goVars, serr,
                 sclosed, wireVars>>

(* case err := <-ch: success, an error that is final, or another attempt.  *)
CallReceives(k) ==
  LET err == ch[<<k, try[k]>>] IN
  /\ cpc[k] = "wait" /\ err # "none"
  /\ \/ /\ err = "ok" \/ ~RetryOnError(err) \/ try[k] = Retries
        /\ Return(k, err)
        /\ UNCHANGED <<try, apc>>
     \/ /\ err # "ok" /\ RetryOnError(err) /\ try[k] < Retries
        /\ try' = [try EXCEPT ![k] = @ + 1]
        /\ Spawn(k, try[k] + 1)
        /\ UNCHANGED <<cpc, result, reading>>
  /\ UNCHANGED <<poolVars, rpool, init, resp, ret, ch, conn, goVars, serr,
                 sclosed, wireVars>>

-----------------------------------------------------------------------------
(* call, run by Call's goroutine number i: t = <<k, i>>.                   *)

(* call returned err without a stream; Call's goroutine passes it on.      *)
Fails(t, err) ==
  /\ apc' = [apc EXCEPT ![t] = "done"]
  /\ ch' = [ch EXCEPT ![t] = err]

(* Backoff and next(), either of which may fail.                           *)
AttemptStart(t) ==
  /\ apc[t] = "start"
  /\ \/ apc' = [apc EXCEPT ![t] = "options"] /\ UNCHANGED ch
     \/ Fails(t, "internal")
  /\ UNCHANGED <<poolVars, lockVars, callVars, resp, ret, conn, goVars, serr, sclosed, wireVars>>

(* r.Options() takes the read lock again, although Call holds it, and so   *)
(* waits behind an Init that waits for Call; then the codec, which may be  *)
(* unknown.                                                                *)
AttemptOptions(t) ==
  /\ apc[t] = "options" /\ CanRLock
  /\ \/ apc' = [apc EXCEPT ![t] = "get"] /\ UNCHANGED ch
     \/ Fails(t, "internal")
  /\ UNCHANGED <<poolVars, lockVars, callVars, resp, ret, conn, goVars, serr, sclosed, wireVars>>

(* pool.Get gave t a connection: start the goroutine and wait.             *)
Begin(t) ==
  /\ apc' = [apc EXCEPT ![t] = "select"]
  /\ conn' = [conn EXCEPT ![t] = holds'[t]]
  /\ gpc' = [gpc EXCEPT ![t] = "send"]
  /\ UNCHANGED ch

(* r.pool.Get(address): r.pool is whatever pool the client has by now.     *)
AttemptGet(t) ==
  /\ apc[t] = "get"
  /\ \E a \in Addrs :
       \/ GetPooled(t, rpool, a) /\ Begin(t)
       \/ GetCloseFails(t, rpool, a) /\ Fails(t, "internal") /\ UNCHANGED <<conn, gpc>>
       \/ GetEmpty(t, rpool, a) /\ apc' = [apc EXCEPT ![t] = "dial"] /\ UNCHANGED <<ch, conn, gpc>>
  /\ UNCHANGED <<lockVars, callVars, resp, ret, gch, got, serr, sclosed, wireVars>>

AttemptDial(t) ==
  /\ apc[t] = "dial"
  /\ \/ DialOk(t) /\ Begin(t)
     \/ DialFails(t) /\ Fails(t, "internal") /\ UNCHANGED <<conn, gpc>>
  /\ UNCHANGED <<lockVars, callVars, resp, ret, gch, got, serr, sclosed, wireVars>>

(* case err := <-ch.                                                       *)
AttemptReceives(t) ==
  /\ apc[t] = "select" /\ gch[t] # "none"
  /\ ret' = [ret EXCEPT ![t] = gch[t]]
  /\ apc' = [apc EXCEPT ![t] = "close"]
  /\ UNCHANGED <<poolVars, lockVars, callVars, resp, ch, conn, goVars, serr, sclosed, wireVars>>

(* Mutant: no connection timeout.                                          *)
AttemptNeverTimesOut(t) == FALSE /\ UNCHANGED vars

(* case <-time.After(cTimeout).                                            *)
AttemptTimesOut(t) ==
  /\ apc[t] = "select"
  /\ ret' = [ret EXCEPT ![t] = "timeout"]
  /\ apc' = [apc EXCEPT ![t] = "seterr"]
  /\ UNCHANGED <<poolVars, lockVars, callVars, resp, ch, conn, goVars, serr, sclosed, wireVars>>

(* The stream's mutex is held while its goroutine writes the request.      *)
StreamUnlocked(t) == gpc[t] # "writing"

(* Mutant: the timeout is returned but not recorded in the stream.         *)
AttemptForgetsError(t) ==
  /\ apc[t] = "seterr" /\ StreamUnlocked(t)
  /\ apc' = [apc EXCEPT ![t] = "close"]
  /\ UNCHANGED <<poolVars, lockVars, callVars, resp, ret, ch, conn, goVars, serr, sclosed, wireVars>>

(* stream.Lock(); stream.err = grr: what makes the deferred Close throw    *)
(* the connection away.                                                    *)
AttemptSetsError(t) ==
  /\ apc[t] = "seterr" /\ StreamUnlocked(t)
  /\ serr' = [serr EXCEPT ![t] = "timeout"]
  /\ apc' = [apc EXCEPT ![t] = "close"]
  /\ UNCHANGED <<poolVars, lockVars, callVars, resp, ret, ch, conn, goVars, sclosed, wireVars>>

(* The deferred stream.Close: mark the stream closed ...                   *)
StreamClose(t) ==
  /\ apc[t] = "close" /\ StreamUnlocked(t)
  /\ sclosed' = [sclosed EXCEPT ![t] = TRUE]
  /\ apc' = [apc EXCEPT ![t] = "release"]
  /\ UNCHANGED <<poolVars, lockVars, callVars, resp, ret, ch, conn, goVars, serr, wireVars>>

(* ... and release the connection to the pool the client has by now, with  *)
(* the stream's error or the one ConnClose makes; then call returns.       *)
StreamRelease(t) ==
  /\ apc[t] = "release"
  /\ \E close \in {FALSE} \cup {TRUE : k \in {t[1]} \cap ClosingCallers} :
       Release(t, rpool, serr[t] # "nil" \/ close)
  /\ Fails(t, ret[t])
  /\ ret' = [ret EXCEPT ![t] = "none"]
  /\ UNCHANGED <<lockVars, callVars, resp, conn, goVars, serr, sclosed, wireVars>>

-----------------------------------------------------------------------------
(* The goroutine that sends the request and receives the answer.           *)

(* It ends, sending err; an error of the stream is recorded in it.         *)
Ends(t, err) ==
  /\ gpc' = [gpc EXCEPT ![t] = "done"]
  /\ gch' = [gch EXCEPT ![t] = err]

(* stream.Send: errShutdown if the stream is closed, else write under the  *)
(* stream's mutex.                                                         *)
StreamSend(t) ==
  /\ gpc[t] = "send"
  /\ IF sclosed[t]
     THEN Ends(t, "internal") /\ serr' = [serr EXCEPT ![t] = "internal"]
     ELSE gpc' = [gpc EXCEPT ![t] = "writing"] /\ UNCHANGED <<gch, serr>>
  /\ UNCHANGED <<poolVars, lockVars, callVars, resp, apc, ret, ch, conn, got, sclosed, wireVars>>

(* codec.Write: the request leaves; or the write fails; or encoding panics *)
(* before anything is sent, which is recovered and leaves stream.err nil.  *)
StreamWrite(t) ==
  /\ gpc[t] = "writing"
  /\ \/ /\ status[conn[t]] = "open"
        /\ sent' = [sent EXCEPT ![conn[t]] = Append(@, t)]
        /\ gpc' = [gpc EXCEPT ![t] = "recv"]
        /\ UNCHANGED <<gch, serr>>
     \/ /\ Ends(t, "internal")
        /\ serr' = [serr EXCEPT ![t] = "internal"]
        /\ UNCHANGED sent
     \/ /\ Ends(t, "internal")
        /\ UNCHANGED <<serr, sent>>
  /\ UNCHANGED <<poolVars, lockVars, callVars, resp, apc, ret, ch, conn, got, sclosed, inbox>>

(* stream.Recv, before it reads: errShutdown if the stream is closed.      *)
StreamRecv(t) ==
  /\ gpc[t] = "recv"
  /\ IF sclosed[t]
     THEN Ends(t, "internal") /\ serr' = [serr EXCEPT ![t] = "internal"]
     ELSE gpc' = [gpc EXCEPT ![t] = "read"] /\ UNCHANGED <<gch, serr>>
  /\ UNCHANGED <<poolVars, lockVars, callVars, resp, apc, ret, ch, conn, got, sclosed, wireVars>>

(* Mutant: a failed read is passed on but not recorded in the stream.      *)
StreamReadForgets(t) ==
  LET c == conn[t] IN
  /\ gpc[t] = "read"
  /\ \/ /\ status[c] = "open" /\ inbox[c] # <<>>
        /\ inbox' = [inbox EXCEPT ![c] = Tail(@)]
        /\ got' = [got EXCEPT ![t] = Head(inbox[c]).to]
        /\ gpc' = [gpc EXCEPT ![t] = "body"]
        /\ UNCHANGED gch
     \/ Ends(t, "internal") /\ UNCHANGED <<inbox, got>>
  /\ UNCHANGED <<poolVars, lockVars, callVars, resp, apc, ret, ch, conn, serr, sclosed, sent>>

(* Mutant: the error of a failed read is swallowed.                        *)
StreamReadSwallows(t) ==
  /\ gpc[t] = "read"
  /\ Ends(t, "ok")
  /\ UNCHANGED <<poolVars, lockVars, callVars, resp, apc, ret, ch, conn, got, serr, sclosed, wireVars>>

(* codec.ReadHeader, without the stream's mutex: take the next message of  *)
(* the connection, whichever request it answers, or fail.  An answer that  *)
(* is an error becomes the stream's error.                                 *)
StreamRead(t) ==
  LET c == conn[t] IN
  /\ gpc[t] = "read"
  /\ \/ /\ status[c] = "open" /\ inbox[c] # <<>>
        /\ inbox' = [inbox EXCEPT ![c] = Tail(@)]
        /\ LET m == Head(inbox[c]) IN
           IF m.kind = "ok"
           THEN /\ got' = [got EXCEPT ![t] = m.to]
                /\ gpc' = [gpc EXCEPT ![t] = "body"]
                /\ UNCHANGED <<gch, serr>>
           ELSE /\ Ends(t, m.kind)
                /\ serr' = [serr EXCEPT ![t] = m.kind]
                /\ UNCHANGED got
     \/ /\ Ends(t, "internal")
        /\ serr' = [serr EXCEPT ![t] = "internal"]
        /\ UNCHANGED <<inbox, got>>
  /\ UNCHANGED <<poolVars, lockVars, callVars, resp, apc, ret, ch, conn, sclosed, sent>>

(* codec.ReadBody decodes into the caller's response, and Recv returns     *)
(* stream.err, which the attempt may have set to a timeout meanwhile; or   *)
(* decoding fails; or it panics, which leaves stream.err as it is.         *)
StreamBody(t) ==
  /\ gpc[t] = "body"
  /\ \/ /\ resp' = [resp EXCEPT ![t[1]] = got[t]]
        /\ Ends(t, IF serr[t] = "nil" THEN "ok" ELSE serr[t])
        /\ UNCHANGED serr
     \/ /\ Ends(t, "internal")
        /\ serr' = [serr EXCEPT ![t] = "internal"]
        /\ UNCHANGED resp
     \/ Ends(t, "internal") /\ UNCHANGED <<serr, resp>>
  /\ got' = [got EXCEPT ![t] = Nil]
  /\ UNCHANGED <<poolVars, lockVars, callVars, apc, ret, ch, conn, sclosed, wireVars>>

-----------------------------------------------------------------------------
(* External: the server answers the oldest request of a connection.        *)
ServerAnswers(c) ==
  /\ sent[c] # <<>>
  /\ \E kind \in Outcomes :
       inbox' = [inbox EXCEPT ![c] = Append(@, [to |-> Head(sent[c]), kind |-> kind])]
  /\ sent' = [sent EXCEPT ![c] = Tail(@)]
  /\ UNCHANGED <<poolVars, lockVars, callVars, resp, apc, ret, ch, conn, goVars, serr, sclosed>>

-----------------------------------------------------------------------------
(* Init with options that change the pool.                                 *)

(* r.mu.Lock() keeps new readers out from the moment it waits.             *)
InitLock ==
  /\ init = "idle" /\ rpool < MaxInits
  /\ init' = "lock"
  /\ UNCHANGED <<poolVars, rpool, reading, callVars, resp, apc, ret, ch, conn, goVars, serr,
                 sclosed, wireVars>>

(* Mutant: the pool is replaced and not closed.                            *)
InitForgetsPool ==
  /\ init = "lock" /\ reading = {}
  /\ init' = "swap"
  /\ UNCHANGED <<poolVars, rpool, reading, callVars, resp, apc, ret, ch, conn, goVars, serr,
                 sclosed, wireVars>>

(* The last reader has left: close the pool; if that fails Init returns    *)
(* and the closed pool stays.                                              *)
InitClose ==
  /\ init = "lock" /\ reading = {}
  /\ Close(rpool)
  /\ init' \in {"swap", "idle"}
  /\ UNCHANGED <<rpool, reading, callVars, resp, apc, ret, ch, conn, goVars, serr, sclosed, wireVars>>

(* r.pool = pool.NewPool(...), and the deferred Unlock.                    *)
InitSwap ==
  /\ init = "swap"
  /\ rpool' = rpool + 1
  /\ init' = "idle"
  /\ UNCHANGED <<poolVars, reading, callVars, resp, apc, ret, ch, conn, goVars, serr, sclosed, wireVars>>

ConnAges(c) == Age(c) /\ UNCHANGED clientVars

CallStep(k) == CallStart(k) \/ CallTimesOut(k) \/ CallReceives(k)

AttemptStep(t) ==
  \/ AttemptStart(t) \/ AttemptOptions(t) \/ AttemptGet(t) \/ AttemptDial(t)
  \/ AttemptReceives(t) \/ AttemptTimesOut(t) \/ AttemptSetsError(t)
  \/ StreamClose(t) \/ StreamRelease(t)

GoStep(t) ==
  \/ StreamSend(t) \/ StreamWrite(t) \/ StreamRecv(t) \/ StreamRead(t) \/ StreamBody(t)

Next ==
  \/ \E k \in Callers : CallStep(k)
  \/ \E t \in Attempts : AttemptStep(t) \/ GoStep(t)
  \/ \E c \in Conns : ServerAnswers(c) \/ ConnAges(c)
  \/ InitLock \/ InitClose \/ InitSwap

(* Timers fire and goroutines run.  A read is not assumed to end while its *)
(* connection is open: only the closing of the connection ends it; and a   *)
(* write is not assumed to end at all, for by default the transport sets   *)
(* no deadline.                                                            *)
Fairness ==
  /\ \A k \in Callers : WF_vars(CallTimesOut(k) \/ CallReceives(k))
  /\ \A t \in Attempts :
       /\ WF_vars(AttemptStep(t))
       /\ WF_vars(StreamSend(t) \/ StreamRecv(t) \/ StreamBody(t))
       /\ WF_vars(StreamRead(t) /\ status[conn[t]] = "closed")
  /\ WF_vars(InitClose) /\ WF_vars(InitSwap)

Spec == Init /\ [][Next]_vars

FairSpec == Spec /\ Fairness

-----------------------------------------------------------------------------
(* Type correctness; the index of Call's loop stays within the retries.    *)
TypeOK ==
  /\ PoolTypeOK
  /\ rpool \in Pools
  /\ init \in {"idle", "lock", "swap"}
  /\ reading \subseteq Callers
  /\ cpc \in [Callers -> {"idle", "wait", "done"}]
  /\ try \in [Callers -> 0..Retries]
  /\ result \in [Callers -> Outcomes \cup {"none", "noselect"}]
  /\ resp \in [Callers -> Attempts \cup {Nil}]
  /\ apc \in [Attempts -> {"none", "start", "options", "get", "dial", "select", "seterr",
                           "close", "release", "done"}]
  /\ ret \in [Attempts -> Outcomes \cup {"none"}]
  /\ ch \in [Attempts -> Outcomes \cup {"none"}]
  /\ conn \in [Attempts -> Conns \cup {Nil}]
  /\ gpc \in [Attempts -> {"none", "send", "writing", "recv", "read", "body", "done"}]
  /\ gch \in [Attempts -> Outcomes \cup {"none"}]
  /\ serr \in [Attempts -> Errors \cup {"nil"}]
  /\ sclosed \in [Attempts -> BOOLEAN]
  /\ got \in [Attempts -> Attempts \cup {Nil}]
  /\ sent \in [Conns -> Seq(Attempts)]
  /\ inbox \in [Conns -> Seq([to : Attempts, kind : Outcomes])]

(* An answer never reaches the response of another call.  The client does  *)
(* not compare the id of an answer with the request's, so this rests on a  *)
(* connection having one request at a time and on every connection that    *)
(* may still carry an answer being thrown away.  And Call returns nil only *)
(* when the response holds such an answer.                                 *)
OwnAnswer ==
  \A k \in Callers : /\ resp[k] # Nil => resp[k][1] = k
                     /\ result[k] = "ok" => resp[k] # Nil

(* A connection idle in a pool carries nothing: no request without its     *)
(* answer, no answer unread, no goroutine that still means to use it.      *)
IdleIsQuiet ==
  \A c \in Conns : Pooled(c) =>
    /\ sent[c] = <<>> /\ inbox[c] = <<>>
    /\ \A t \in Attempts : conn[t] = c => gpc[t] = "done"

(* t outlived its Call, which gave it up at the deadline, and is over.     *)
Outlived(t) ==
  /\ apc[t] = "done" /\ t[2] = try[t[1]]
  /\ cpc[t[1]] = "done" /\ result[t[1]] = "timeout"

(* A connection that is open is in use, or idle in the pool that the       *)
(* client has, where Get or the next Init will close it.  There is one way *)
(* to lose one: an attempt that outlived its Call, and so does not keep    *)
(* Init out, gives its connection to the pool that Init has closed and is  *)
(* about to replace.                                                       *)
NoLostConn ==
  \A c \in Conns : status[c] = "open" =>
    \/ \E u \in Users : holds[u] = c
    \/ PooledIn(rpool, c)
    \/ \E t \in Attempts : conn[t] = c /\ Outlived(t)

(* Every Call returns, although it may wait behind an Init that waits for  *)
(* it: the deadline of its context breaks the cycle.  Nor is Init starved: *)
(* the calls in progress end and none starts.                              *)
CallReturns ==
  /\ \A k \in Callers : (cpc[k] = "wait") ~> (cpc[k] = "done")
  /\ (init = "lock") ~> (init = "idle")

(* Every attempt gives its connection back, whether or not anybody waits   *)
(* for it any more, unless the write of its request never ends: that one   *)
(* holds the stream's mutex, which the attempt needs to note its timeout.  *)
ConnGivenBack ==
  \A t \in Attempts : (at[t] = "held") ~> (at[t] = "idle" \/ [](gpc[t] = "writing"))
=============================================================================
