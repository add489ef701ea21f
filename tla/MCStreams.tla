----------------------------- MODULE MCStreams ------------------------------
(***************************************************************************)
(* Connections and streams between two ends: the http transport, the       *)
(* streams and publishers of the client, and the log's ring buffer.  They  *)
(* share nothing, so TLC explores them side by side: `part' says which of  *)
(* them a behaviour is about, and the others stay in their initial state.  *)
(***************************************************************************)
EXTENDS HttpTransport, ClientStream, RingBuffer

VARIABLE part

StreamsInit ==
  /\ part \in {"http transport", "client stream", "log"}
  /\ HttpTransportInit /\ ClientStreamInit /\ RingInit

StreamsNext ==
  \/ /\ part = "http transport" /\ HttpTransportNext
     /\ UNCHANGED <<part, csVars, rbVars>>
  \/ /\ part = "client stream" /\ ClientStreamNext
     /\ UNCHANGED <<part, htVars, rbVars>>
  \/ /\ part = "log" /\ RingNext
     /\ UNCHANGED <<part, htVars, csVars>>

StreamsSpec ==
  /\ StreamsInit
  /\ [][StreamsNext]_<<part, htVars, csVars, rbVars>>
  /\ HttpTransportFairness /\ ClientStreamFairness /\ RingFairness

-----------------------------------------------------------------------------
(* What waits is let go: Close of an http connection gets the lock that a  *)
(* Recv holds, and Stream of the client returns though nobody answers.     *)
BlockedCallsReturn == HttpCloseReturns /\ StreamReturns

=============================================================================
