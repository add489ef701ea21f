------------------------------ MODULE RpcRouter -----------------------------
(***************************************************************************)
(* The router of the rpc server: server/rpc_router.go, with what           *)
(* server/subscriber.go and server/extractor.go tell of handlers.          *)
(*                                                                         *)
(* Handle and Subscribe look at the signature of a method and take or      *)
(* refuse it.  ServeRequest takes a request object from a free list,       *)
(* decodes into it, finds the method, calls it, and answers with the id    *)
(* that the object holds by then, through a response object of a second    *)
(* list.  ProcessMessage gives a message to every handler of every         *)
(* subscriber of its topic.  Calls run concurrently.                       *)
(***************************************************************************)
EXTENDS Naturals, Sequences, SequencesExt, FiniteSets

CONSTANTS RrCalls,       \* calls of ServeRequest, each with its own id
          RrMessages,    \* calls of ProcessMessage for one topic
          RrSubscribers  \* subscribers of that topic, RrHandlers handlers each

ASSUME RouterAssumption == IsFiniteSet(RrCalls)

RrHandlers == 2
RrObjects == 1..Cardinality(RrCalls)
RrLists == {"request", "response"}

VARIABLES rrHandled,     \* the methods of the service in serviceMap
          rrFree,        \* list -> freeReq or freeResp, the first one first
          rrMade,        \* list -> objects made so far
          rrId,          \* list, object -> the id in its message
          rrCall,        \* call -> pc, its request and response objects
          rrAnswer,      \* call -> the id that was written for it
          rrSubs,        \* subscribers[topic]
          rrSigs,        \* the signatures of their handlers
          rrMsg          \* message -> pc, subscribers and handlers left, errors

rrVars == <<rrHandled, rrFree, rrMade, rrId, rrCall, rrAnswer, rrSubs, rrSigs, rrMsg>>
rrCallVars == <<rrHandled, rrFree, rrMade, rrId, rrCall, rrAnswer>>

RouterInit ==
  /\ rrHandled = {}
  /\ rrFree = [l \in RrLists |-> <<>>]
  /\ rrMade = [l \in RrLists |-> 0]
  /\ rrId = [l \in RrLists |-> [o \in RrObjects |-> {}]]
  /\ rrCall = [c \in RrCalls |-> [pc |-> "new", req |-> 0, resp |-> 0]]
  /\ rrAnswer = [c \in RrCalls |-> {}]
  /\ rrSubs = <<>> /\ rrSigs = {}
  /\ rrMsg = [m \in RrMessages |-> [pc |-> "new", todo |-> <<>>, ran |-> {}, errs |-> {}]]

-----------------------------------------------------------------------------
(* Signatures.  A method is described by the number of its parameters with *)
(* the receiver, and by what its last parameters and its results are.      *)

RrMethods == [ins : 2..4, last : {"interface", "pointer", "value"}, streams : BOOLEAN,
              exported : BOOLEAN, types : BOOLEAN, outs : 0..2, error : BOOLEAN]

RrReturnsError(mt) == mt.outs = 1 /\ mt.error

(* prepareMethod: three parameters make a stream, four a call.             *)
RrPrepared(mt) ==
  /\ mt.exported
  /\ \/ mt.ins = 3 /\ mt.streams
     \/ mt.ins = 4 /\ mt.types /\ mt.last = "pointer"
  /\ RrReturnsError(mt)

(* extractEndpoint: what the registry is told of the method.               *)
RrAdvertised(mt) == mt.exported /\ mt.ins \in {3, 4}
RrAdvertisedStream(mt) == mt.last = "interface"

(* newSubscriber finds the request type of a handler by the number of its  *)
(* parameters, here those of a function; validateSubscriber accepts it.    *)
RrHasRequestType(mt) == mt.ins - 1 \in {1, 2}

RrValidSubscriber(mt) == mt.ins - 1 = 2 /\ mt.types /\ RrReturnsError(mt)

-----------------------------------------------------------------------------
(* Requests.                                                               *)

(* Handle: a name once, with at least one method that can be called.       *)
RrHandle ==
  /\ rrHandled = {}
  /\ \E mt \in RrMethods : RrPrepared(mt) /\ rrHandled' = {mt}
  /\ UNCHANGED <<rrFree, rrMade, rrId, rrCall, rrAnswer, rrSubs, rrSigs, rrMsg>>

(* getRequest and getResponse: the first free object, or a new one.        *)
RrObject(l) == IF rrFree[l] = <<>> THEN rrMade[l] + 1 ELSE Head(rrFree[l])
RrTake(l) ==
  /\ rrFree' = [rrFree EXCEPT ![l] = IF @ = <<>> THEN @ ELSE Tail(@)]
  /\ rrMade' = [rrMade EXCEPT ![l] = IF rrFree[l] = <<>> THEN @ + 1 ELSE @]

(* freeRequest and freeResponse.                                           *)
RrGive(l, o) == rrFree' = [rrFree EXCEPT ![l] = <<o>> \o @]

(* readHeader: a header that cannot be read loses the object.              *)
RrReadHeader(c) ==
  /\ rrCall[c].pc = "new"
  /\ RrTake("request")
  /\ LET o == RrObject("request")
     IN  \/ /\ rrCall' = [rrCall EXCEPT ![c].pc = "failed"]
            /\ UNCHANGED rrId
         \/ /\ rrCall' = [rrCall EXCEPT ![c].pc = "read", ![c].req = o]
            /\ rrId' = [rrId EXCEPT !["request"][o] = {c}]
  /\ UNCHANGED <<rrHandled, rrAnswer, rrSubs, rrSigs, rrMsg>>

(* readRequest: an ill-formed endpoint, an unknown service or method, or   *)
(* a body that does not decode, frees the object and is an error.          *)
RrReject(c) ==
  /\ rrCall[c].pc = "read"
  /\ RrGive("request", rrCall[c].req)
  /\ rrCall' = [rrCall EXCEPT ![c] = [pc |-> "failed", req |-> 0, resp |-> 0]]
  /\ UNCHANGED <<rrHandled, rrMade, rrId, rrAnswer, rrSubs, rrSigs, rrMsg>>

(* call: the method, within its wrappers, is running.                      *)
RrInvoke(c) ==
  /\ rrCall[c].pc = "read" /\ rrHandled # {}
  /\ rrCall' = [rrCall EXCEPT ![c].pc = "handling"]
  /\ UNCHANGED <<rrHandled, rrFree, rrMade, rrId, rrAnswer, rrSubs, rrSigs, rrMsg>>

(* It returned an error, or was a stream: the deferred call frees.         *)
RrCallDone(c) ==
  /\ rrCall[c].pc \in {"handling", "sent"}
  /\ RrGive("request", rrCall[c].req)
  /\ rrCall' = [rrCall EXCEPT ![c] = [pc |-> IF @.pc = "sent" THEN "done" ELSE "failed",
                                      req |-> 0, resp |-> 0]]
  /\ UNCHANGED <<rrHandled, rrMade, rrId, rrAnswer, rrSubs, rrSigs, rrMsg>>

(* Mutant: the request is given back before its answer is written.         *)
RrRespondFreed(c) ==
  /\ rrCall[c].pc = "handling"
  /\ LET o == RrObject("response")
     IN  /\ rrId' = [rrId EXCEPT !["response"][o] = rrId["request"][rrCall[c].req]]
         /\ rrCall' = [rrCall EXCEPT ![c].pc = "sending", ![c].resp = o]
  /\ rrMade' = [rrMade EXCEPT !["response"] = IF rrFree["response"] = <<>> THEN @ + 1 ELSE @]
  /\ rrFree' = [l \in RrLists |-> IF l = "request" THEN <<rrCall[c].req>> \o rrFree[l]
                                  ELSE IF rrFree[l] = <<>> THEN <<>> ELSE Tail(rrFree[l])]
  /\ UNCHANGED <<rrHandled, rrAnswer, rrSubs, rrSigs, rrMsg>>

(* sendResponse: a response object with the id of the request.             *)
RrRespond(c) ==
  /\ rrCall[c].pc = "handling"
  /\ RrTake("response")
  /\ LET o == RrObject("response")
     IN  /\ rrId' = [rrId EXCEPT !["response"][o] = rrId["request"][rrCall[c].req]]
         /\ rrCall' = [rrCall EXCEPT ![c].pc = "sending", ![c].resp = o]
  /\ UNCHANGED <<rrHandled, rrAnswer, rrSubs, rrSigs, rrMsg>>

(* The write, under the lock of this call only.                            *)
RrWrite(c) ==
  /\ rrCall[c].pc = "sending"
  /\ rrAnswer' = [rrAnswer EXCEPT ![c] = rrId["response"][rrCall[c].resp]]
  /\ RrGive("response", rrCall[c].resp)
  /\ rrCall' = [rrCall EXCEPT ![c].pc = "sent", ![c].resp = 0]
  /\ UNCHANGED <<rrHandled, rrMade, rrId, rrSubs, rrSigs, rrMsg>>

-----------------------------------------------------------------------------
(* Messages.                                                               *)

(* Subscribe: a subscriber whose handlers are valid is appended.           *)
RrSubscribe(s) ==
  /\ ~Contains(rrSubs, s)
  /\ rrSubs' = Append(rrSubs, s)
  /\ \E mt \in RrMethods : RrValidSubscriber(mt) /\ rrSigs' = rrSigs \cup {mt}
  /\ UNCHANGED <<rrCallVars, rrMsg>>

(* ProcessMessage: the subscribers of this moment, each handler in turn.   *)
RrProcess(m) ==
  /\ rrMsg[m].pc = "new"
  /\ rrMsg' = [rrMsg EXCEPT ![m].pc = "running",
                            ![m].todo = [i \in 1..(RrHandlers * Len(rrSubs)) |->
                               <<rrSubs[((i - 1) \div RrHandlers) + 1], i % RrHandlers>>]]
  /\ UNCHANGED <<rrCallVars, rrSubs, rrSigs>>

(* The body is decoded for the handler and the handler returns: its error  *)
(* is kept and the next one runs.  A body that does not decode ends the    *)
(* message, and so does a panic, which is an error to the caller.          *)
RrHandler(m) ==
  /\ rrMsg[m].pc = "running" /\ rrMsg[m].todo # <<>>
  /\ LET h == Head(rrMsg[m].todo)
     IN  \/ \E failed \in BOOLEAN :
              rrMsg' = [rrMsg EXCEPT ![m].todo = Tail(@), ![m].ran = @ \cup {h},
                                     ![m].errs = IF failed THEN @ \cup {h} ELSE @]
         \/ rrMsg' = [rrMsg EXCEPT ![m].pc = "error"]
  /\ UNCHANGED <<rrCallVars, rrSubs, rrSigs>>

RrProcessed(m) ==
  /\ rrMsg[m].pc = "running" /\ rrMsg[m].todo = <<>>
  /\ rrMsg' = [rrMsg EXCEPT ![m].pc = IF rrMsg[m].errs # {} THEN "error" ELSE "done"]
  /\ UNCHANGED <<rrCallVars, rrSubs, rrSigs>>

RouterCallsNext ==
  \/ RrHandle
  \/ \E c \in RrCalls : \/ RrReadHeader(c) \/ RrReject(c) \/ RrInvoke(c)
                        \/ RrCallDone(c) \/ RrRespond(c) \/ RrWrite(c)

RouterMessagesNext ==
  \/ \E s \in RrSubscribers : RrSubscribe(s)
  \/ \E m \in RrMessages : RrProcess(m) \/ RrHandler(m) \/ RrProcessed(m)

-----------------------------------------------------------------------------
RrHeld(l) == IF l = "request" THEN [c \in RrCalls |-> rrCall[c].req]
             ELSE [c \in RrCalls |-> rrCall[c].resp]

(* Objects of the free lists are never shared: no two calls hold the same  *)
(* one, none is held and free, and none is free twice; so every answer     *)
(* carries the id of the request it answers, however the calls overlap.    *)
(* A message that was processed without error has run every handler of the *)
(* subscribers it found.  And what was accepted can be used: the registry  *)
(* knows the methods that the router calls, as streams exactly if they are *)
(* (when streams are interfaces), and ProcessMessage has a request type to *)
(* decode into for every handler.                                          *)
RouterAnswersOwn ==
  /\ \A l \in RrLists :
       /\ \A c, d \in RrCalls :
            RrHeld(l)[c] # 0 => /\ c # d => RrHeld(l)[c] # RrHeld(l)[d]
                                /\ ~Contains(rrFree[l], RrHeld(l)[c])
       /\ Cardinality(Range(rrFree[l])) = Len(rrFree[l])
  /\ \A c \in RrCalls : rrAnswer[c] \subseteq {c}
  /\ \A m \in RrMessages :
       rrMsg[m].pc = "done" =>
         \E n \in 0..Len(rrSubs) :
           rrMsg[m].ran = {<<rrSubs[i], k>> : i \in 1..n, k \in 0..(RrHandlers - 1)}
  /\ \A mt \in rrHandled :
       /\ RrAdvertised(mt)
       /\ (mt.streams => mt.last = "interface") =>
            (RrAdvertisedStream(mt) <=> mt.ins = 3)
  /\ \A mt \in rrSigs : RrHasRequestType(mt)

=============================================================================
