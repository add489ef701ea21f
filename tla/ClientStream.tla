---------------------------- MODULE ClientStream ----------------------------
(***************************************************************************)
(* rpcClient.Stream and stream (client/rpc_client.go), the rpcStream they  *)
(* make (client/rpc_stream.go, client/rpc_codec.go), and Publish.          *)
(*                                                                         *)
(* Stream holds the read lock of the client until it returns; each try is  *)
(* a goroutine of its own, which asks for the read lock again (Options)    *)
(* and so waits behind an Init that waits for Stream.  Only the caller's   *)
(* context breaks that circle.  A stream has its own connection, which     *)
(* must be closed by whoever has the stream last.                          *)
(***************************************************************************)
EXTENDS Naturals, FiniteSets

CONSTANTS CsStreams,     \* calls of Stream
          CsDeadline,    \* those whose context ends by itself
          CsRetries,
          CsPublishers   \* calls of Publish

ASSUME ClientStreamAssumption == CsDeadline \subseteq CsStreams /\ CsRetries \in Nat

VARIABLES csCall,        \* call -> state of Stream and of its last try
          csInit,        \* Init: "idle", "waits" for the write lock, "done"
          csOpen,        \* <<call, try>>: connections that are open
          csOnce,        \* r.once
          csBroker,      \* the broker is connected
          csPub          \* Publish -> pc

csVars == <<csCall, csInit, csOpen, csOnce, csBroker, csPub>>

csPublish == <<csOnce, csBroker, csPub>>

ClientStreamInit ==
  /\ csCall = [c \in CsStreams |-> [pc |-> "new", try |-> 0, child |-> "none", ended |-> FALSE,
                                    result |-> "none", recv |-> "none"]]
  /\ csInit = "idle" /\ csOpen = {}
  /\ csOnce = FALSE /\ csBroker = FALSE /\ csPub = [p \in CsPublishers |-> "new"]

CsSet(c, f) == csCall' = [csCall EXCEPT ![c] = f]

CsReading == \E c \in CsStreams : csCall[c].pc = "waiting"

-----------------------------------------------------------------------------
(* Stream takes the read lock, not while Init waits, and starts a try; or  *)
(* next fails, or the context has ended, and it returns before any try.    *)
CsStart(c) ==
  /\ csCall[c].pc = "new" /\ csInit # "waits"
  /\ \/ CsSet(c, [csCall[c] EXCEPT !.pc = "waiting", !.child = "options"])
     \/ CsSet(c, [csCall[c] EXCEPT !.pc = "returned", !.result = "error"])
  /\ UNCHANGED <<csInit, csOpen, csPublish>>

(* The context of the caller ends: its deadline, or the caller cancels.    *)
CsContextEnds(c) ==
  /\ csCall[c].pc # "new" /\ ~csCall[c].ended
  /\ CsSet(c, [csCall[c] EXCEPT !.ended = TRUE])
  /\ UNCHANGED <<csInit, csOpen, csPublish>>

(* stream: Options needs the read lock for a moment.                       *)
CsOptions(c) ==
  /\ csCall[c].child = "options" /\ csInit # "waits"
  /\ CsSet(c, [csCall[c] EXCEPT !.child = "dial"])
  /\ UNCHANGED <<csInit, csOpen, csPublish>>

(* No node, no codec, no connection; or one.                               *)
CsDial(c) ==
  /\ csCall[c].child = "dial"
  /\ \/ /\ CsSet(c, [csCall[c] EXCEPT !.child = "failed"])
        /\ UNCHANGED csOpen
     \/ /\ csOpen' = csOpen \cup {<<c, csCall[c].try>>}
        /\ CsSet(c, [csCall[c] EXCEPT !.child = "send"])
  /\ UNCHANGED <<csInit, csPublish>>

(* Mutant: the first message fails and the stream is forgotten.            *)
CsFirstForgets(c) ==
  /\ csCall[c].child = "send"
  /\ \/ CsSet(c, [csCall[c] EXCEPT !.child = "ok"]) /\ UNCHANGED csOpen
     \/ CsSet(c, [csCall[c] EXCEPT !.child = "failed"]) /\ UNCHANGED csOpen
  /\ UNCHANGED <<csInit, csPublish>>

(* The first message is sent; or that fails, or the context ends first,    *)
(* and the stream is closed.                                               *)
CsFirst(c) ==
  /\ csCall[c].child = "send"
  /\ \/ CsSet(c, [csCall[c] EXCEPT !.child = "ok"]) /\ UNCHANGED csOpen
     \/ /\ CsSet(c, [csCall[c] EXCEPT !.child = "failed"])
        /\ csOpen' = csOpen \ {<<c, csCall[c].try>>}
  /\ UNCHANGED <<csInit, csPublish>>

(* Mutant: Stream waits for its try and nothing else.                      *)
CsGivesUpNever(c) == FALSE /\ UNCHANGED csVars

(* Stream sees its context end and returns.  The try goes on, and what it  *)
(* makes stays in the channel.                                             *)
CsGivesUp(c) ==
  /\ csCall[c].pc = "waiting" /\ csCall[c].ended
  /\ CsSet(c, [csCall[c] EXCEPT !.pc = "returned", !.result = "error"])
  /\ UNCHANGED <<csInit, csOpen, csPublish>>

(* The try's result: the stream, the error, or another try.                *)
CsResult(c) ==
  /\ csCall[c].pc = "waiting" /\ csCall[c].child \in {"ok", "failed"}
  /\ \/ /\ csCall[c].child = "ok"
        /\ CsSet(c, [csCall[c] EXCEPT !.pc = "returned", !.result = "stream", !.child = "none"])
     \/ /\ csCall[c].child = "failed"
        /\ CsSet(c, [csCall[c] EXCEPT !.pc = "returned", !.result = "error", !.child = "none"])
     \/ /\ csCall[c].child = "failed" /\ csCall[c].try < CsRetries
        /\ CsSet(c, [csCall[c] EXCEPT !.try = @ + 1, !.child = "options"])
  /\ UNCHANGED <<csInit, csOpen, csPublish>>

-----------------------------------------------------------------------------
(* rpcStream.Recv waits without the stream's lock; a message, the server's *)
(* end of stream, or the end of the connection ends the wait.              *)
CsRecv(c) ==
  /\ csCall[c].result = "stream" /\ csCall[c].recv = "none"
  /\ CsSet(c, [csCall[c] EXCEPT
       !.recv = IF <<c, csCall[c].try>> \in csOpen THEN "waiting" ELSE "shutdown"])
  /\ UNCHANGED <<csInit, csOpen, csPublish>>

CsReceived(c) ==
  /\ csCall[c].recv = "waiting"
  /\ CsSet(c, [csCall[c] EXCEPT
       !.recv = IF <<c, csCall[c].try>> \in csOpen THEN "none" ELSE "shutdown"])
  /\ UNCHANGED <<csInit, csOpen, csPublish>>

(* rpcStream.Close, by the caller, once: end of stream and Close of the    *)
(* codec, which closes the connection.                                     *)
CsClose(c) ==
  /\ csCall[c].result = "stream" /\ <<c, csCall[c].try>> \in csOpen
  /\ csOpen' = csOpen \ {<<c, csCall[c].try>>}
  /\ UNCHANGED <<csCall, csInit, csPublish>>

-----------------------------------------------------------------------------
CsInitWaits ==
  /\ csInit = "idle"
  /\ csInit' = "waits"
  /\ UNCHANGED <<csCall, csOpen, csPublish>>

CsInit ==
  /\ csInit = "waits" /\ ~CsReading
  /\ csInit' = "done"
  /\ UNCHANGED <<csCall, csOpen, csPublish>>

(* Publish: the first ones connect the broker, then say so.                *)
CsPublish(p) ==
  /\ csPub[p] = "new"
  /\ csPub' = [csPub EXCEPT ![p] = IF csOnce THEN "publish" ELSE "connect"]
  /\ UNCHANGED <<csCall, csInit, csOpen, csOnce, csBroker>>

CsConnect(p) ==
  /\ csPub[p] = "connect"
  /\ \/ /\ csBroker' = TRUE /\ csPub' = [csPub EXCEPT ![p] = "connected"]
     \/ /\ csPub' = [csPub EXCEPT ![p] = "failed"] /\ UNCHANGED csBroker
  /\ UNCHANGED <<csCall, csInit, csOpen, csOnce>>

CsConnected(p) ==
  /\ csPub[p] = "connected"
  /\ csOnce' = TRUE /\ csPub' = [csPub EXCEPT ![p] = "publish"]
  /\ UNCHANGED <<csCall, csInit, csOpen, csBroker>>

CsPublished(p) ==
  /\ csPub[p] = "publish"
  /\ csPub' = [csPub EXCEPT ![p] = "done"]
  /\ UNCHANGED <<csCall, csInit, csOpen, csOnce, csBroker>>

ClientStreamNext ==
  \/ \E c \in CsStreams :
       \/ CsStart(c) \/ CsContextEnds(c) \/ CsOptions(c) \/ CsDial(c) \/ CsFirst(c)
       \/ CsGivesUp(c) \/ CsResult(c) \/ CsRecv(c) \/ CsReceived(c) \/ CsClose(c)
  \/ CsInitWaits \/ CsInit
  \/ \E p \in CsPublishers : CsPublish(p) \/ CsConnect(p) \/ CsConnected(p) \/ CsPublished(p)

(* Goroutines run on, and a deadline passes.  Nobody has to cancel, to     *)
(* close a stream or to call Init.                                         *)
ClientStreamFairness ==
  /\ \A c \in CsStreams : /\ SF_csVars(CsOptions(c))
                          /\ WF_csVars(CsDial(c)) /\ WF_csVars(CsFirst(c))
                          /\ WF_csVars(CsGivesUp(c)) /\ WF_csVars(CsResult(c))
  /\ \A c \in CsDeadline : WF_csVars(CsContextEnds(c))
  /\ WF_csVars(CsInit)

-----------------------------------------------------------------------------
(* A connection that is open belongs to somebody: to a try that is under   *)
(* way, to a Stream that is about to take it or to the caller it was       *)
(* returned to.  The one exception is a try that succeeded after Stream    *)
(* had given it up, for its context had ended.  And the broker is          *)
(* connected before a message is handed to it, whoever connected it.       *)
ConnectionHasOwner ==
  /\ \A x \in csOpen :
       LET call == csCall[x[1]]
       IN  x[2] = call.try /\ \/ call.child \in {"send", "ok"} /\ call.pc = "waiting"
                              \/ call.result = "stream"
                              \/ call.child \in {"send", "ok"} /\ call.ended
  /\ \A p \in CsPublishers : csPub[p] = "publish" => csBroker

(* Stream returns when its context has a deadline, even when it waits for  *)
(* a try that waits behind an Init that waits for Stream.                  *)
StreamReturns == \A c \in CsDeadline : csCall[c].pc = "waiting" ~> csCall[c].pc = "returned"

=============================================================================
