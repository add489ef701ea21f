---------------------------- MODULE HttpTransport ---------------------------
(***************************************************************************)
(* A connection of the http transport: transport/http_client.go and        *)
(* transport/http_socket.go, HTTP/1, as http_transport.go and              *)
(* http_listener.go make them.                                             *)
(*                                                                         *)
(* The client keeps the requests it has sent, to read their responses by:  *)
(* a list, and a channel that each Send moves the head of the list to when *)
(* there is room.  One lock guards the list, and Recv holds it while it    *)
(* waits for a response, so that Send and Close of another goroutine wait  *)
(* for the peer with it; a deadline, if the transport has a timeout, or    *)
(* the end of the connection ends the wait.                                *)
(***************************************************************************)
EXTENDS Naturals, Sequences, FiniteSets

CONSTANTS HtSends,       \* calls of Send, each with its message
          HtRecvs,       \* calls of Recv
          HtRoom,        \* 100, room in the channel
          HtTimeout      \* the transport has a timeout

ASSUME HttpTransportAssumption == HtRoom \in Nat \ {0} /\ HtTimeout \in BOOLEAN

VARIABLES htSend,        \* Send -> pc
          htRecv,        \* Recv -> pc, and what it returned
          htClose,       \* pc of Close
          htLock,        \* who holds the client's lock
          htList, htChan,
          htChanClosed, htClosed,
          htOpen,        \* the connection is open
          htOut,         \* requests on the wire
          htIn,          \* responses on the wire
          htSock,        \* server: its first request, its socket closed
          htPanic,       \* a send on the closed channel
          htOrder        \* history: requests in the order they were listed

htVars == <<htSend, htRecv, htClose, htLock, htList, htChan, htChanClosed, htClosed,
            htOpen, htOut, htIn, htSock, htPanic, htOrder>>

HttpTransportInit ==
  /\ htSend = [s \in HtSends |-> "new"]
  /\ htRecv = [r \in HtRecvs |-> [pc |-> "new", req |-> {}, got |-> {}]]
  /\ htClose = "new" /\ htLock = {}
  /\ htList = <<>> /\ htChan = <<>> /\ htChanClosed = FALSE /\ htClosed = FALSE
  /\ htOpen = FALSE
  /\ htOut = <<>> /\ htIn = <<>>
  /\ htSock = [first |-> <<>>, open |-> FALSE, accepted |-> FALSE, pending |-> <<>>]
  /\ htPanic = FALSE /\ htOrder = <<>>

htClientVars == <<htList, htChan, htChanClosed, htClosed, htLock, htOrder>>

(* Dial: newConn, through a proxy or not.                                  *)
HtDial ==
  /\ ~htOpen /\ ~htClosed
  /\ htOpen' = TRUE
  /\ UNCHANGED <<htSend, htRecv, htClose, htClientVars, htOut, htIn, htSock, htPanic>>

(* Send: list the request, offer the first of the list to the channel.     *)
HtList(s) ==
  /\ htOpen \/ htClosed
  /\ htSend[s] = "new" /\ htLock = {}
  /\ \/ /\ htClosed
        /\ htSend' = [htSend EXCEPT ![s] = "eof"]
        /\ UNCHANGED <<htList, htChan, htOrder, htPanic>>
     \/ /\ ~htClosed
        /\ htSend' = [htSend EXCEPT ![s] = "listed"]
        /\ htOrder' = Append(htOrder, s)
        /\ htPanic' = (htPanic \/ htChanClosed)
        /\ LET all == Append(htList, s)
           IN  IF Len(htChan) < HtRoom
               THEN htChan' = Append(htChan, Head(all)) /\ htList' = Tail(all)
               ELSE htList' = all /\ UNCHANGED htChan
  /\ UNCHANGED <<htRecv, htClose, htLock, htChanClosed, htClosed, htOpen, htOut, htIn, htSock>>

(* The write, without the lock; it may fail.                               *)
HtWrite(s) ==
  /\ htSend[s] = "listed"
  /\ \/ /\ htOpen
        /\ htSend' = [htSend EXCEPT ![s] = "sent"]
        /\ htOut' = Append(htOut, s)
     \/ /\ htSend' = [htSend EXCEPT ![s] = "failed"]
        /\ UNCHANGED htOut
  /\ UNCHANGED <<htRecv, htClose, htClientVars, htOpen, htIn, htSock, htPanic>>

(* Recv: the request that comes next, from the channel or, once that is    *)
(* closed, from the list.  A Recv that took one after the close is told by *)
(* `closed' not to read.                                                   *)
HtTake(r) ==
  /\ htRecv[r].pc = "new" /\ (htOpen \/ htClosed)
  /\ \/ /\ htChan # <<>>
        /\ htRecv' = [htRecv EXCEPT ![r].pc = "waiting", ![r].req = {Head(htChan)}]
        /\ htChan' = Tail(htChan)
        /\ UNCHANGED htList
     \/ /\ htChan = <<>> /\ htChanClosed /\ htLock = {}
        /\ IF htList = <<>> THEN /\ htRecv' = [htRecv EXCEPT ![r].pc = "eof"]
                                 /\ UNCHANGED htList
           ELSE /\ htRecv' = [htRecv EXCEPT ![r].pc = "waiting", ![r].req = {Head(htList)}]
                /\ htList' = Tail(htList)
        /\ UNCHANGED htChan
  /\ UNCHANGED <<htSend, htClose, htLock, htChanClosed, htClosed, htOpen, htOut, htIn, htSock,
                 htPanic, htOrder>>

HtRecvLocks(r) ==
  /\ htRecv[r].pc = "waiting" /\ htLock = {}
  /\ IF htClosed THEN /\ htRecv' = [htRecv EXCEPT ![r].pc = "eof"]
                      /\ UNCHANGED htLock
     ELSE /\ htRecv' = [htRecv EXCEPT ![r].pc = "reading"]
          /\ htLock' = {r}
  /\ UNCHANGED <<htSend, htClose, htList, htChan, htChanClosed, htClosed, htOpen, htOut, htIn,
                 htSock, htPanic, htOrder>>

(* Mutant: a read that fails returns without giving the lock back.         *)
HtReadKeeps(r) ==
  /\ htRecv[r].pc = "reading"
  /\ \/ /\ htIn # <<>>
        /\ htRecv' = [htRecv EXCEPT ![r].pc = "done", ![r].got = {Head(htIn)}]
        /\ htIn' = Tail(htIn) /\ htLock' = {}
     \/ /\ htIn = <<>> /\ (HtTimeout \/ ~htOpen \/ (htSock.accepted /\ ~htSock.open))
        /\ htRecv' = [htRecv EXCEPT ![r].pc = "failed"]
        /\ UNCHANGED <<htIn, htLock>>
  /\ UNCHANGED <<htSend, htClose, htList, htChan, htChanClosed, htClosed, htOpen, htOut,
                 htSock, htPanic, htOrder>>

(* The next response, or an error: the connection ended or the deadline    *)
(* passed.  The lock is given back.                                        *)
HtRead(r) ==
  /\ htRecv[r].pc = "reading"
  /\ htLock' = {}
  /\ \/ /\ htIn # <<>>
        /\ htRecv' = [htRecv EXCEPT ![r].pc = "done", ![r].got = {Head(htIn)}]
        /\ htIn' = Tail(htIn)
     \/ /\ htIn = <<>> /\ (HtTimeout \/ ~htOpen \/ (htSock.accepted /\ ~htSock.open))
        /\ htRecv' = [htRecv EXCEPT ![r].pc = "failed"]
        /\ UNCHANGED htIn
  /\ UNCHANGED <<htSend, htClose, htList, htChan, htChanClosed, htClosed, htOpen, htOut,
                 htSock, htPanic, htOrder>>

(* Close: the first call waits for the lock (a later one closes only the   *)
(* connection, again).                                                     *)
HtCloseCall ==
  /\ htClose = "new" /\ htOpen
  /\ htClose' = "lock"
  /\ UNCHANGED <<htSend, htRecv, htClientVars, htOpen, htOut, htIn, htSock, htPanic>>

(* Mutant: the channel is closed before Send can know.                     *)
HtClosesFirst ==
  /\ htClose = "lock"
  /\ htChanClosed' = TRUE /\ htClose' = "marked"
  /\ UNCHANGED <<htClosed, htSend, htRecv, htLock, htList, htChan, htOpen, htOut, htIn,
                 htSock, htPanic, htOrder>>

(* It marks the client closed under the lock, then closes the channel,     *)
(* and then the connection.                                                *)
HtMarkClosed ==
  /\ htClose = "lock" /\ htLock = {}
  /\ htClosed' = TRUE /\ htClose' = "marked"
  /\ UNCHANGED <<htSend, htRecv, htLock, htList, htChan, htChanClosed, htOpen, htOut, htIn,
                 htSock, htPanic, htOrder>>

HtCloseChan ==
  /\ htClose = "marked"
  /\ htChanClosed' = TRUE /\ htClose' = "shut"
  /\ UNCHANGED <<htSend, htRecv, htLock, htList, htChan, htClosed, htOpen, htOut, htIn, htSock,
                 htPanic, htOrder>>

HtCloseConn ==
  /\ htClose = "shut"
  /\ htOpen' = FALSE /\ htClose' = "done"
  /\ UNCHANGED <<htSend, htRecv, htClientVars, htOut, htIn, htSock, htPanic>>

-----------------------------------------------------------------------------
(* The server's socket.  newHandler reads the first request and keeps it   *)
(* for the first Recv of the socket; later ones are read from the wire.    *)
HtAccept ==
  /\ ~htSock.accepted /\ htOut # <<>>
  /\ htSock' = [htSock EXCEPT !.accepted = TRUE, !.open = TRUE, !.first = <<Head(htOut)>>]
  /\ htOut' = Tail(htOut)
  /\ UNCHANGED <<htSend, htRecv, htClose, htClientVars, htOpen, htIn, htPanic>>

HtSockRecv ==
  /\ htSock.open
  /\ \/ /\ htSock.first # <<>>
        /\ htSock' = [htSock EXCEPT !.first = <<>>, !.pending = @ \o htSock.first]
        /\ UNCHANGED htOut
     \/ /\ htSock.first = <<>> /\ htOut # <<>>
        /\ htSock' = [htSock EXCEPT !.pending = Append(@, Head(htOut))]
        /\ htOut' = Tail(htOut)
  /\ UNCHANGED <<htSend, htRecv, htClose, htClientVars, htOpen, htIn, htPanic>>

HtSockSend ==
  /\ htSock.open /\ htSock.pending # <<>>
  /\ htIn' = IF htOpen THEN Append(htIn, Head(htSock.pending)) ELSE htIn
  /\ htSock' = [htSock EXCEPT !.pending = Tail(@)]
  /\ UNCHANGED <<htSend, htRecv, htClose, htClientVars, htOpen, htOut, htPanic>>

(* The handler returns, and the connection is closed with it.              *)
HtSockClose ==
  /\ htSock.open
  /\ htSock' = [htSock EXCEPT !.open = FALSE]
  /\ UNCHANGED <<htSend, htRecv, htClose, htClientVars, htOpen, htOut, htIn, htPanic>>

HttpTransportNext ==
  \/ HtDial \/ HtCloseCall \/ HtMarkClosed \/ HtCloseChan \/ HtCloseConn
  \/ \E s \in HtSends : HtList(s) \/ HtWrite(s)
  \/ \E r \in HtRecvs : HtTake(r) \/ HtRecvLocks(r) \/ HtRead(r)
  \/ HtAccept \/ HtSockRecv \/ HtSockSend \/ HtSockClose

(* Goroutines run on; nothing is assumed of the peer.                      *)
HttpTransportFairness ==
  /\ SF_htVars(HtMarkClosed) /\ WF_htVars(HtCloseChan) /\ WF_htVars(HtCloseConn)
  /\ \A r \in HtRecvs : WF_htVars(HtRead(r))

-----------------------------------------------------------------------------
(* A connection keeps its requests.  Recvs take them in the order they     *)
(* were listed: the channel and the list together are those after the      *)
(* first k, which Recvs took.  Send never sends on the channel that Close  *)
(* has closed, and no Recv reads from the buffer that Close resets; a Recv *)
(* that returns a response returns one the server sent to a request of     *)
(* this client, each once.                                                 *)
RequestsKeptInOrder ==
  /\ ~htPanic
  /\ htClosed => \A r \in HtRecvs : htRecv[r].pc # "reading"
  /\ \E k \in 0 .. Len(htOrder) :
       /\ htChan \o htList = SubSeq(htOrder, k + 1, Len(htOrder))
       /\ UNION {htRecv[r].req : r \in HtRecvs} = {htOrder[i] : i \in 1 .. k}
  /\ \A r, q \in HtRecvs : r # q /\ htRecv[r].got # {} => htRecv[r].got # htRecv[q].got

(* Close returns, even when another goroutine waits for a response that    *)
(* never comes: with a timeout, for Recv gives the lock back when that has *)
(* passed.                                                                 *)
HttpCloseReturns == htClose = "lock" ~> htClose = "done"

=============================================================================
