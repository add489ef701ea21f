-------------------------- MODULE MemoryTransport ---------------------------
(***************************************************************************)
(* The in-memory transport of transport/memory.go.                         *)
(*                                                                         *)
(* Dial holds the transport's read lock while it waits for the listener to *)
(* accept; Listen takes the write lock; Go's RWMutex lets no new reader in *)
(* while a writer waits.  A closed listener stays in the map.  A           *)
(* connection is a pair of io.Pipes, so a Send lasts until the peer        *)
(* receives, and one `exit' channel that both ends close.  Send and Recv   *)
(* look at the exit channels only when they begin.  Close looks at the     *)
(* channel and then closes it, without a lock: when both ends do so at     *)
(* once the second close panics.                                           *)
(***************************************************************************)
EXTENDS Naturals, FiniteSets

CONSTANTS Addrs,           \* addresses after they are resolved
          Listens,         \* calls of Listen
          Dials,           \* calls of Dial, and the connections they make
          Talking          \* bound: the connections on which messages are sent

ASSUME MemTransportAssumption == Addrs # {} /\ Talking \subseteq Dials

VARIABLES mtListener,      \* memoryTransport.listeners: address -> its state
          mtListen,        \* Listen call -> its place and address
          mtDial,          \* Dial call -> its place and address
          mtSock,          \* the connection of each Dial
          mtPanic          \* a channel was closed twice

mtVars == <<mtListener, mtListen, mtDial, mtSock, mtPanic>>

Ends == {"client", "server"}
Peer(e) == CHOOSE f \in Ends : f # e

(* A connection: the exit channel, the ends that are in Send, in Recv and  *)
(* in Close.  `late' counts the messages an end sent after the close.      *)
Sockets == [exit : BOOLEAN, sending : SUBSET Ends, receiving : SUBSET Ends,
            closing : SUBSET Ends, late : [Ends -> 0..2]]

(* The type invariant of the memory transport.                             *)
MemTransportTypeOK ==
  /\ mtListener \in [Addrs -> [st : {"none", "open", "closed"},
                              loop : {"none", "running", "ended"}]]
  /\ mtListen \in [Listens -> [pc : {"none", "lock", "done", "refused"}, addr : Addrs]]
  /\ mtDial \in [Dials -> [pc : {"none", "lock", "connect", "done", "failed"},
                           addr : Addrs]]
  /\ mtSock \in [Dials -> Sockets]
  /\ mtPanic \in BOOLEAN

MemTransportInit ==
  /\ mtListener = [a \in Addrs |-> [st |-> "none", loop |-> "none"]]
  /\ mtListen = [l \in Listens |-> [pc |-> "none", addr |-> CHOOSE a \in Addrs : TRUE]]
  /\ mtDial = [d \in Dials |-> [pc |-> "none", addr |-> CHOOSE a \in Addrs : TRUE]]
  /\ mtSock = [d \in Dials |-> [exit |-> FALSE, sending |-> {}, receiving |-> {},
                                closing |-> {}, late |-> [e \in Ends |-> 0]]]
  /\ mtPanic = FALSE

(* The lock: readers are the Dials that wait to be accepted, writers the   *)
(* Listens that wait.                                                      *)
NoReader == \A d \in Dials : mtDial[d].pc # "connect"
NoWriter == \A l \in Listens : mtListen[l].pc # "lock"

ListenCall(l, a) ==
  /\ mtListen[l].pc = "none"
  /\ mtListen' = [mtListen EXCEPT ![l] = [pc |-> "lock", addr |-> a]]
  /\ UNCHANGED <<mtListener, mtDial, mtSock, mtPanic>>

Listen(l) ==
  LET a == mtListen[l].addr
  IN  /\ mtListen[l].pc = "lock"
      /\ NoReader
      /\ IF mtListener[a].st = "none"
         THEN /\ mtListener' = [mtListener EXCEPT ![a].st = "open"]
              /\ mtListen' = [mtListen EXCEPT ![l].pc = "done"]
         ELSE /\ mtListen' = [mtListen EXCEPT ![l].pc = "refused"]
              /\ UNCHANGED mtListener
      /\ UNCHANGED <<mtDial, mtSock, mtPanic>>

(* The owner of the listener runs the accept loop, and may close the       *)
(* listener, with the listener's own lock.                                 *)
Accept(a) ==
  /\ mtListener[a].st # "none"
  /\ mtListener[a].loop = "none"
  /\ mtListener' = [mtListener EXCEPT ![a].loop = "running"]
  /\ UNCHANGED <<mtListen, mtDial, mtSock, mtPanic>>

AcceptEnds(a) ==
  /\ mtListener[a] = [st |-> "closed", loop |-> "running"]
  /\ mtListener' = [mtListener EXCEPT ![a].loop = "ended"]
  /\ UNCHANGED <<mtListen, mtDial, mtSock, mtPanic>>

ListenerClose(a) ==
  /\ mtListener[a].st = "open"
  /\ mtListener' = [mtListener EXCEPT ![a].st = "closed"]
  /\ UNCHANGED <<mtListen, mtDial, mtSock, mtPanic>>

(* Dial: the read lock and the look-up, then the select of the pseudo      *)
(* connect: the accept loop takes the socket, or the listener is closed.   *)
(* A loop that has not yet seen its listener closed may still take it.     *)
DialCall(d, a) ==
  /\ mtDial[d].pc = "none"
  /\ mtDial' = [mtDial EXCEPT ![d] = [pc |-> "lock", addr |-> a]]
  /\ UNCHANGED <<mtListener, mtListen, mtSock, mtPanic>>

DialLookup(d) ==
  /\ mtDial[d].pc = "lock"
  /\ NoWriter
  /\ mtDial' = [mtDial EXCEPT ![d].pc =
                  IF mtListener[mtDial[d].addr].st = "none" THEN "failed" ELSE "connect"]
  /\ UNCHANGED <<mtListener, mtListen, mtSock, mtPanic>>

DialConnect(d) ==
  /\ mtDial[d].pc = "connect"
  /\ mtListener[mtDial[d].addr].loop = "running"
  /\ mtDial' = [mtDial EXCEPT ![d].pc = "done"]
  /\ UNCHANGED <<mtListener, mtListen, mtSock, mtPanic>>

(* Mutant: Dial does not look at the listener's exit channel.              *)
DialRefusedNever(d) ==
  /\ FALSE
  /\ UNCHANGED mtVars

DialRefused(d) ==
  /\ mtDial[d].pc = "connect"
  /\ mtListener[mtDial[d].addr].st = "closed"
  /\ mtDial' = [mtDial EXCEPT ![d].pc = "failed"]
  /\ UNCHANGED <<mtListener, mtListen, mtSock, mtPanic>>

(* Send and Recv of an end: with the exit channel of the connection or of  *)
(* the listener closed they return EOF, otherwise they enter the pipe and  *)
(* stay there until the other end does too.                                *)
Closed(d) == mtSock[d].exit \/ mtListener[mtDial[d].addr].st = "closed"

(* Mutant: the listener's exit channel is not looked at.                   *)
SelectsOwnExit(d) == mtSock[d].exit

SelectsExit(d) == Closed(d)

Send(d, e) ==
  /\ mtDial[d].pc = "done"
  /\ e \notin mtSock[d].sending
  /\ ~ SelectsExit(d)
  /\ mtSock' = [mtSock EXCEPT ![d].sending = @ \cup {e}]
  /\ UNCHANGED <<mtListener, mtListen, mtDial, mtPanic>>

Recv(d, e) ==
  /\ mtDial[d].pc = "done"
  /\ e \notin mtSock[d].receiving
  /\ ~ SelectsExit(d)
  /\ mtSock' = [mtSock EXCEPT ![d].receiving = @ \cup {e}]
  /\ UNCHANGED <<mtListener, mtListen, mtDial, mtPanic>>

Transfer(d, e) ==
  /\ e \in mtSock[d].sending
  /\ Peer(e) \in mtSock[d].receiving
  /\ mtSock' = [mtSock EXCEPT ![d].sending = @ \ {e},
                              ![d].receiving = @ \ {Peer(e)},
                              ![d].late[e] = IF Closed(d) /\ @ < 2 THEN @ + 1 ELSE @]
  /\ UNCHANGED <<mtListener, mtListen, mtDial, mtPanic>>

(* Close of an end: finds the channel open, then closes it.                *)
CloseCheck(d, e) ==
  /\ mtDial[d].pc = "done"
  /\ ~ mtSock[d].exit
  /\ e \notin mtSock[d].closing
  /\ mtSock' = [mtSock EXCEPT ![d].closing = @ \cup {e}]
  /\ UNCHANGED <<mtListener, mtListen, mtDial, mtPanic>>

CloseExit(d, e) ==
  /\ e \in mtSock[d].closing
  /\ mtSock' = [mtSock EXCEPT ![d].closing = @ \ {e}, ![d].exit = TRUE]
  /\ mtPanic' = mtSock[d].exit
  /\ UNCHANGED <<mtListener, mtListen, mtDial>>

(* A panic ends the process.                                               *)
MemTransportNext ==
  /\ ~ mtPanic
  /\ \/ \E l \in Listens : Listen(l) \/ \E a \in Addrs : ListenCall(l, a)
     \/ \E a \in Addrs : Accept(a) \/ AcceptEnds(a) \/ ListenerClose(a)
     \/ \E d \in Dials : \/ \E a \in Addrs : DialCall(d, a)
                       \/ DialLookup(d) \/ DialConnect(d) \/ DialRefused(d)
     \/ \E d \in Talking, e \in Ends :
          Send(d, e) \/ Recv(d, e) \/ Transfer(d, e) \/ CloseCheck(d, e) \/ CloseExit(d, e)

(* The lock is handed over and an accept loop goes on; nobody need start   *)
(* one: rpcServer.Start leaves the listener open when it fails to connect  *)
(* to the broker.                                                          *)
MemTransportFairness ==
  /\ \A l \in Listens : WF_mtVars(Listen(l) /\ ~ mtPanic)
  /\ \A a \in Addrs : WF_mtVars(AcceptEnds(a) /\ ~ mtPanic)
  /\ \A d \in Dials :
       WF_mtVars((DialLookup(d) \/ DialConnect(d) \/ DialRefused(d)) /\ ~ mtPanic)

(* The specification of the transport, without fairness.                   *)
MemTransportSpec == MemTransportInit /\ [][MemTransportNext]_mtVars

-----------------------------------------------------------------------------
(* Every listener is in the end accepted on, or closed.                    *)
ListenersServed ==
  \A a \in Addrs : []<>(mtListener[a].st # "open" \/ mtListener[a].loop # "none")

(* Dial waits for the listener while it holds the lock that Listen and     *)
(* other Dials need.  Only a listener that is left open and never accepted *)
(* on can block them: otherwise every Dial and every Listen returns, also  *)
(* when the listener is closed or its loop ends meanwhile.                 *)
DialAndListenReturn == ListenersServed =>
  /\ \A d \in Dials : mtDial[d].pc \in {"lock", "connect"} ~>
                        (mtDial[d].pc \in {"done", "failed"} \/ mtPanic)
  /\ \A l \in Listens : mtListen[l].pc = "lock" ~>
                          (mtListen[l].pc \in {"done", "refused"} \/ mtPanic)

(* After a connection or its listener is closed at most one more message   *)
(* passes in each direction: the one that was already in the pipe.         *)
QuietAfterClose == \A d \in Dials, e \in Ends : mtSock[d].late[e] <= 1

=============================================================================
