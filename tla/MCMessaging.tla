---------------------------- MODULE MCMessaging -----------------------------
(***************************************************************************)
(* The components that carry messages: the memory broker, the http broker  *)
(* and its inbox, the event stream and the memory transport.  They share   *)
(* nothing, so TLC explores them side by side: `part' says which of them a *)
(* behaviour is about, and the others stay in their initial state.         *)
(***************************************************************************)
EXTENDS MemoryBroker, HttpBroker, HttpInbox, EventStream, MemoryTransport

VARIABLE part

MessagingParts == {"memory broker", "http broker", "http inbox", "event stream",
                   "memory transport"}

MessagingInit ==
  /\ part \in MessagingParts
  /\ MemBrokerInit
  /\ HttpBrokerInit
  /\ HttpInboxInit
  /\ EventStreamInit
  /\ MemTransportInit

MessagingNext ==
  \/ /\ part = "memory broker" /\ MemBrokerNext
     /\ UNCHANGED <<part, hsVars, hbVars, evVars, mtVars>>
  \/ /\ part = "http broker" /\ HttpBrokerNext
     /\ UNCHANGED <<part, memVars, hbVars, evVars, mtVars>>
  \/ /\ part = "http inbox" /\ HttpInboxNext
     /\ UNCHANGED <<part, memVars, hsVars, evVars, mtVars>>
  \/ /\ part = "event stream" /\ EventStreamNext
     /\ UNCHANGED <<part, memVars, hsVars, hbVars, mtVars>>
  \/ /\ part = "memory transport" /\ MemTransportNext
     /\ UNCHANGED <<part, memVars, hsVars, hbVars, evVars>>

MessagingSpec ==
  /\ MessagingInit
  /\ [][MessagingNext]_<<part, memVars, hsVars, hbVars, evVars, mtVars>>
  /\ MemBrokerFairness /\ HttpBrokerFairness /\ EventStreamFairness
  /\ MemTransportFairness

=============================================================================
