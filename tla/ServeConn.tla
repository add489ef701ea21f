------------------------------ MODULE ServeConn ------------------------------
(***************************************************************************)
(* One connection of the server (rpcServer.ServeConn in                    *)
(* server/rpc_server.go), with the pseudo sockets that multiplex requests  *)
(* and streams over it (util/socket) and the codec that writes to them     *)
(* (server/rpc_codec.go).                                                  *)
(*                                                                         *)
(* The loop of ServeConn receives messages and hands each to the socket of *)
(* its id.  A new id gets a new socket and two goroutines: the handler,    *)
(* which reads from and sends to the socket, and the outbound one, which   *)
(* moves what was sent to the connection.  Each of the two releases the    *)
(* socket, by its id, when it ends.                                        *)
(*                                                                         *)
(* A response is numbered by its handler.  Its body is a slice of the      *)
(* codec's write buffer, which the next Write reuses: it is overwritten    *)
(* while the response is still queued, unless the buffer had to grow.      *)
(***************************************************************************)
EXTENDS Naturals, Sequences, FiniteSets

CONSTANTS Ids,        \* Micro-Stream or Micro-Id of messages
          StreamIds,  \* those that are streams
          Socks,      \* pseudo sockets
          Cap,        \* capacity of a socket's channels (128)
          MaxMsgs,    \* bound: messages received
          MaxSends,   \* bound: responses per handler
          MayGrow,    \* whether a response may outgrow the write buffer
          Nil

ASSUME ServeConnAssumption ==
  /\ StreamIds \subseteq Ids
  /\ IsFiniteSet(Socks) /\ Nil \notin Ids \cup Socks
  /\ {"recv", "leave", "closed", "ack", "refuse"} \cap Socks = {}
  /\ Cap \in Nat \ {0} /\ MaxMsgs \in Nat /\ MaxSends \in Nat \ {0} /\ MayGrow \in BOOLEAN

VARIABLES main,       \* ServeConn: "recv", "leave", "closed", "ack" or "refuse" while it
                      \* answers itself, or the socket it accepts for
          gerr, closeConn,
          wg,         \* the connection's wait group
          up,         \* the connection can be read and written
          broke,      \* history: it was not the server that closed it
          grpc,       \* the protocol of the connection is grpc
          pool,       \* pool[x]: the socket of an id, or Nil
          id, closed, recv, send,  \* of a socket: its id, closed, its two channels
          h,          \* the handler: "none", "read", "run", "write" (in Send), "done"
          o, hand,    \* the outbound goroutine: "none", "run", "done"; its message
          sends,      \* how many responses of the handler were queued
          owed,       \* history: those of them that were queued on an open socket
          grown,      \* how often the codec's write buffer was reallocated
          written,    \* written[s]: what reached the connection for a socket
          msgs

sockVars == <<id, closed, recv, send>>
linkVars == <<up, broke, grpc>>
respVars == <<sends, grown, owed, written>>
vars == <<main, gerr, closeConn, wg, linkVars, pool, sockVars, h, o, hand, respVars, msgs>>

Init ==
  /\ main = "recv" /\ gerr = FALSE /\ closeConn = FALSE /\ wg = 0
  /\ up = TRUE /\ broke = FALSE /\ grpc \in BOOLEAN
  /\ pool = [x \in Ids |-> Nil]
  /\ id = [s \in Socks |-> Nil]
  /\ closed = [s \in Socks |-> FALSE]
  /\ recv = [s \in Socks |-> 0]
  /\ send = [s \in Socks |-> <<>>]
  /\ h = [s \in Socks |-> "none"]
  /\ o = [s \in Socks |-> "none"]
  /\ hand = [s \in Socks |-> <<>>]
  /\ sends = [s \in Socks |-> 0]
  /\ owed = [s \in Socks |-> 0]
  /\ grown = [s \in Socks |-> 0]
  /\ written = [s \in Socks |-> <<>>]
  /\ msgs = 0

-----------------------------------------------------------------------------
(* The loop.                                                               *)

(* sock.Recv returns a message; the header Connection may ask to close the *)
(* connection after it.                                                    *)
Received ==
  /\ main = "recv" /\ ~closeConn /\ up /\ msgs < MaxMsgs
  /\ msgs' = msgs + 1
  /\ closeConn' \in BOOLEAN

(* Recv fails: give up the connection.                                     *)
MainRecvFails ==
  /\ main = "recv" /\ ~closeConn /\ ~up
  /\ gerr' = TRUE
  /\ main' = "leave"
  /\ UNCHANGED <<closeConn, wg, linkVars, pool, sockVars, h, o, hand, respVars, msgs>>

MainCloses ==
  /\ main = "recv" /\ closeConn
  /\ main' = "leave"
  /\ UNCHANGED <<gerr, closeConn, wg, linkVars, pool, sockVars, h, o, hand, respVars, msgs>>

(* The connection breaks.                                                  *)
Breaks == up' = FALSE /\ broke' = TRUE /\ UNCHANGED grpc

(* An event is handled here ...                                            *)
MainEvent ==
  /\ Received
  /\ main' = "ack"
  /\ UNCHANGED <<gerr, wg, linkVars, pool, sockVars, h, o, hand, respVars>>

(* ... and acknowledged on the connection, which ends the loop when it     *)
(* fails.  A new id with an unknown content type is answered with an error *)
(* likewise, but the loop goes on.                                         *)
MainAnswers ==
  /\ main \in {"ack", "refuse"}
  /\ \/ /\ up
        /\ main' = "recv"
        /\ UNCHANGED <<gerr, linkVars>>
     \/ /\ main' = IF main = "ack" THEN "leave" ELSE "recv"
        /\ gerr' = TRUE
        /\ IF up THEN Breaks ELSE UNCHANGED linkVars
  /\ UNCHANGED <<closeConn, wg, pool, sockVars, h, o, hand, respVars, msgs>>

(* The end of a stream that nobody knows (any more) is dropped: the socket *)
(* that Get made for it is released again.                                 *)
MainUnknownEOS(x) ==
  /\ x \in StreamIds
  /\ Received
  /\ pool[x] = Nil
  /\ UNCHANGED <<main, gerr, wg, linkVars, pool, sockVars, h, o, hand, respVars>>

(* A message of a known id is passed to its socket.                        *)
MainKnown(x) ==
  /\ Received
  /\ pool[x] # Nil
  /\ main' = pool[x]
  /\ wg' = wg + 1
  /\ UNCHANGED <<gerr, linkVars, pool, sockVars, h, o, hand, respVars>>

(* pool.Release(s): close s, and forget whatever socket has its id.        *)
Release(s) ==
  /\ closed' = [closed EXCEPT ![s] = TRUE]
  /\ pool' = [pool EXCEPT ![id[s]] = Nil]

(* psock.Accept blocks while the channel is full, and fails on a socket    *)
(* that is closed; when both can happen either may.                        *)
MainAccept(s) ==
  /\ main = s
  /\ \/ /\ recv[s] < Cap
        /\ recv' = [recv EXCEPT ![s] = @ + 1]
        /\ UNCHANGED <<closed, pool>>
     \/ closed[s] /\ Release(s) /\ UNCHANGED recv
  /\ wg' = wg - 1
  /\ main' = "recv"
  /\ UNCHANGED <<gerr, closeConn, linkVars, id, send, h, o, hand, respVars, msgs>>

(* A message of a new id: a new socket that holds it, and two goroutines.  *)
NewSock == CHOOSE s \in Socks : id[s] = Nil

MainNew(x) ==
  /\ Received
  /\ pool[x] = Nil
  /\ \E s \in Socks : id[s] = Nil
  /\ pool' = [pool EXCEPT ![x] = NewSock]
  /\ id' = [id EXCEPT ![NewSock] = x]
  /\ recv' = [recv EXCEPT ![NewSock] = 1]
  /\ h' = [h EXCEPT ![NewSock] = "read"]
  /\ o' = [o EXCEPT ![NewSock] = "run"]
  /\ wg' = wg + 2
  /\ UNCHANGED <<main, gerr, linkVars, closed, send, hand, respVars>>

(* A new id with an unknown content type: the error goes straight to the   *)
(* connection and the socket is released again.                            *)
MainNoCodec(x) ==
  /\ Received
  /\ pool[x] = Nil
  /\ main' = "refuse"
  /\ UNCHANGED <<gerr, wg, linkVars, pool, sockVars, h, o, hand, respVars>>

(* mutant: the connection is closed under the requests in progress *)
MainLeaveNow ==
  /\ main = "leave"
  /\ closed' = [s \in Socks |-> closed[s] \/ \E x \in Ids : pool[x] = s]
  /\ pool' = [x \in Ids |-> Nil]
  /\ up' = FALSE
  /\ main' = "closed"
  /\ UNCHANGED <<broke, grpc, gerr, closeConn, wg, id, recv, send, h, o, hand, respVars,
                 msgs>>

(* The deferred part: without an error wait for the goroutines, then close *)
(* the sockets of the pool and the connection.                             *)
MainLeave ==
  /\ main = "leave"
  /\ gerr \/ wg = 0
  /\ closed' = [s \in Socks |-> closed[s] \/ \E x \in Ids : pool[x] = s]
  /\ pool' = [x \in Ids |-> Nil]
  /\ up' = FALSE
  /\ main' = "closed"
  /\ UNCHANGED <<broke, grpc, gerr, closeConn, wg, id, recv, send, h, o, hand, respVars,
                 msgs>>

-----------------------------------------------------------------------------
(* The outbound goroutine.                                                 *)

(* psock.Process takes the next message, also from a closed socket ...     *)
OutTakes(s) ==
  /\ o[s] = "run" /\ hand[s] = <<>> /\ send[s] # <<>>
  /\ hand' = [hand EXCEPT ![s] = <<Head(send[s])>>]
  /\ send' = [send EXCEPT ![s] = Tail(@)]
  /\ UNCHANGED <<main, gerr, closeConn, wg, linkVars, pool, id, closed, recv, h, o, respVars, msgs>>

(* ... which goes to the connection.                                       *)
OutWrites(s) ==
  /\ hand[s] # <<>> /\ up
  /\ written' = [written EXCEPT ![s] = @ \o hand[s]]
  /\ hand' = [hand EXCEPT ![s] = <<>>]
  /\ UNCHANGED <<main, gerr, closeConn, wg, linkVars, pool, sockVars, h, o, sends, grown, owed,
                 msgs>>

(* deferer, and for grpc the end of the connection.                        *)
OutLeaves(s) ==
  /\ o' = [o EXCEPT ![s] = "done"]
  /\ hand' = [hand EXCEPT ![s] = <<>>]
  /\ Release(s)
  /\ wg' = wg - 1
  /\ up' = (up /\ ~grpc)
  /\ UNCHANGED <<broke, grpc, main, gerr, closeConn, id, recv, send, h, respVars, msgs>>

OutFails(s) == hand[s] # <<>> /\ ~up /\ OutLeaves(s)

(* mutant: a closed socket is not drained *)
OutEndsEarly(s) == o[s] = "run" /\ hand[s] = <<>> /\ closed[s] /\ OutLeaves(s)

(* The socket is closed and drained.                                       *)
OutEnds(s) ==
  o[s] = "run" /\ hand[s] = <<>> /\ closed[s] /\ send[s] = <<>> /\ OutLeaves(s)

-----------------------------------------------------------------------------
(* The handler.                                                            *)

(* What a handler may do again and again: only that of a stream receives   *)
(* more than its request and sends more than one response.                 *)
Streaming(s) == id[s] \in StreamIds
Room(s) == sends[s] < IF Streaming(s) THEN MaxSends ELSE 1

(* The request is read from the socket; for grpc the codec already holds   *)
(* it, and it stays queued for the first Recv of a stream.                 *)
HandlerReads(s) ==
  /\ h[s] = "read" \/ (h[s] = "run" /\ Streaming(s))
  /\ recv[s] > 0
  /\ recv' = IF grpc /\ h[s] = "read" THEN recv ELSE [recv EXCEPT ![s] = @ - 1]
  /\ h' = [h EXCEPT ![s] = "run"]
  /\ UNCHANGED <<main, gerr, closeConn, wg, linkVars, pool, id, closed, send, o, hand, respVars,
                 msgs>>

(* What a Write of response n does to those that share its buffer.         *)
Overwritten(ms, n, gen) ==
  [i \in 1..Len(ms) |-> IF ms[i].buf = gen THEN [ms[i] EXCEPT !.body = n] ELSE ms[i]]

(* rpcCodec.Write resets the buffer and encodes the next response into it. *)
HandlerWrites(s) ==
  LET n == sends[s] + 1 IN
  /\ h[s] = "run" /\ Room(s)
  /\ h' = [h EXCEPT ![s] = "write"]
  /\ \E gen \in {grown[s]} \cup IF MayGrow /\ grown[s] < MaxSends THEN {grown[s] + 1} ELSE {} :
       /\ grown' = [grown EXCEPT ![s] = gen]
       /\ send' = [send EXCEPT ![s] = Overwritten(@, n, gen)]
       /\ hand' = [hand EXCEPT ![s] = Overwritten(@, n, gen)]
  /\ UNCHANGED <<main, gerr, closeConn, wg, linkVars, pool, id, closed, recv, o, sends, owed,
                 written, msgs>>

(* psock.Send queues it when there is room, or refuses it when the socket  *)
(* is closed; when both can happen either may, and a closed socket queues  *)
(* also what nobody will take.                                             *)
HandlerSends(s) ==
  LET n == sends[s] + 1 IN
  /\ h[s] = "write"
  /\ h' = [h EXCEPT ![s] = "run"]
  /\ \/ /\ Len(send[s]) < Cap
        /\ send' = [send EXCEPT ![s] = Append(@, [n |-> n, body |-> n, buf |-> grown[s]])]
        /\ sends' = [sends EXCEPT ![s] = n]
        /\ owed' = [owed EXCEPT ![s] = IF closed[s] THEN @ ELSE n]
     \/ closed[s] /\ UNCHANGED <<send, sends, owed>>
  /\ UNCHANGED <<main, gerr, closeConn, wg, linkVars, pool, id, closed, recv, o, hand, grown,
                 written, msgs>>

(* rpcStream.Close, called by the handler of a stream, closes the socket   *)
(* under the outbound goroutine; the handler may go on and send.  (The     *)
(* buffers that rpcCodec.Close puts back for other codecs to take are not  *)
(* followed.)                                                              *)
HandlerCloses(s) ==
  /\ h[s] = "run" /\ Streaming(s) /\ ~closed[s]
  /\ closed' = [closed EXCEPT ![s] = TRUE]
  /\ UNCHANGED <<main, gerr, closeConn, wg, linkVars, pool, id, recv, send, h, o, hand, respVars,
                 msgs>>

(* mutant: the wait group is not told *)
HandlerEndsUncounted(s) ==
  /\ h[s] = "run"
  /\ h' = [h EXCEPT ![s] = "done"]
  /\ Release(s)
  /\ UNCHANGED <<main, gerr, closeConn, wg, linkVars, id, recv, send, o, hand, respVars,
                 msgs>>

(* serveReq returns (or panics), and deferer; a handler that waits for its *)
(* request gets an error only from a closed socket.                        *)
HandlerEnds(s) ==
  /\ h[s] = "run" \/ (h[s] = "read" /\ closed[s])
  /\ h' = [h EXCEPT ![s] = "done"]
  /\ Release(s)
  /\ wg' = wg - 1
  /\ UNCHANGED <<main, gerr, closeConn, linkVars, id, recv, send, o, hand, respVars, msgs>>

(* External: the connection breaks.                                        *)
Break ==
  /\ up
  /\ Breaks
  /\ UNCHANGED <<main, gerr, closeConn, wg, pool, sockVars, h, o, hand, respVars, msgs>>

-----------------------------------------------------------------------------
Main ==
  \/ MainRecvFails \/ MainCloses \/ MainLeave \/ \E s \in Socks : MainAccept(s)

Outbound(s) == OutTakes(s) \/ OutFails(s) \/ OutEnds(s)

Next ==
  \/ Main \/ MainEvent \/ MainAnswers \/ Break
  \/ \E x \in Ids : MainKnown(x) \/ MainUnknownEOS(x) \/ MainNew(x) \/ MainNoCodec(x)
  \/ \E s \in Socks : \/ Outbound(s) \/ OutWrites(s)
                     \/ HandlerReads(s) \/ HandlerWrites(s) \/ HandlerSends(s)
                     \/ HandlerCloses(s) \/ HandlerEnds(s)

Spec == Init /\ [][Next]_vars

(* Goroutines that can run do, and handlers return however often they      *)
(* write.  A write on the connection need not return: by default the       *)
(* transport sets it no deadline.                                          *)
FairSpec ==
  /\ Spec
  /\ WF_vars(Main)
  /\ \A s \in Socks : /\ WF_vars(Outbound(s)) /\ WF_vars(HandlerReads(s))
                      /\ WF_vars(HandlerSends(s)) /\ SF_vars(HandlerEnds(s))

-----------------------------------------------------------------------------
Message == [n : 1..MaxSends, body : 1..MaxSends, buf : 0..MaxSends]

(* Type correctness; the wait group counts the goroutines that run, and    *)
(* the message being accepted, so it is never negative.                    *)
TypeOK ==
  /\ main \in {"recv", "leave", "closed", "ack", "refuse"} \cup Socks
  /\ {gerr, closeConn, up, broke, grpc} \subseteq BOOLEAN
  /\ pool \in [Ids -> Socks \cup {Nil}]
  /\ id \in [Socks -> Ids \cup {Nil}]
  /\ closed \in [Socks -> BOOLEAN]
  /\ recv \in [Socks -> 0..Cap]
  /\ \A s \in Socks : Len(send[s]) <= Cap
  /\ h \in [Socks -> {"none", "read", "run", "write", "done"}]
  /\ o \in [Socks -> {"none", "run", "done"}]
  /\ \A s \in Socks : send[s] \in Seq(Message) /\ hand[s] \in Seq(Message)
  /\ wg = Cardinality({s \in Socks : h[s] \in {"read", "run", "write"}})
          + Cardinality({s \in Socks : o[s] = "run"})
          + IF main \in Socks THEN 1 ELSE 0

(* A response is not lost while the connection works: the outbound         *)
(* goroutine ends only when it has taken all that was queued on the open   *)
(* socket, although the handler closes the socket under it, at its end or  *)
(* before.  What a stream sends after its own Close may stay in the        *)
(* channel for ever.                                                       *)
NoLostResponse ==
  up /\ ~gerr =>
    \A s \in Socks : o[s] = "done" => \A i \in 1..Len(send[s]) : send[s][i].n > owed[s]

(* A connection that is closed because the client asked for it, and that   *)
(* never broke, has carried the responses of every handler in order,       *)
(* without a gap, and all that were queued before the handler ended or     *)
(* closed its stream.                                                      *)
ClosedAnswered ==
  (main = "closed" /\ ~gerr /\ ~broke /\ ~grpc) =>
    \A s \in Socks :
      /\ owed[s] <= Len(written[s])
      /\ \A i \in 1..Len(written[s]) : written[s][i].n = i

(* Every write on the connection returns, with or without an error.        *)
WritesReturn ==
  []<>(main \notin {"ack", "refuse"}) /\ \A s \in Socks : []<>(hand[s] = <<>>)

(* ServeConn returns once it was told to close the connection, or the      *)
(* connection broke: only a write on the connection can hold it.           *)
ServeConnReturns == WritesReturn => ((closeConn \/ ~up) ~> (main = "closed"))

(* What the code does not keep.                                            *)

(* rpc_stream_test.go, "Check if sequence is correct": what arrives for    *)
(* the n-th Send is what was sent n-th.                                    *)
BodiesIntact ==
  \A s \in Socks : \A i \in 1..Len(written[s]) : written[s][i].body = written[s][i].n

=============================================================================
