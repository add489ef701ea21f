--------------------------- MODULE StreamsProofs ----------------------------
(***************************************************************************)
(* Proofs about the stream of the rpc client, about the ring buffer behind *)
(* the memory log, and about a connection of the http transport.           *)
(*                                                                         *)
(* ClientStream: a connection that Stream dialled is open only while       *)
(* somebody will close it. The invariant follows the one try that may hold *)
(* a connection and the call that waits for it or has left it behind.      *)
(*                                                                         *)
(* RingBuffer: a stream of the log implements LogFeed, the feed without    *)
(* the buffer, the lock and the channels, for any number of readers, any   *)
(* buffer size and any backlog. The steps that need work are Put's send,   *)
(* which must be the reader's next entry, and Get, whose entries must be   *)
(* the latest ones: the buffer holds a run of consecutive numbers up to    *)
(* the last entry written, and what is on its way to an open stream, but   *)
(* for the backlog, is as long as the entries written since it was opened, *)
(* less the one that Put has in hand.                                      *)
(*                                                                         *)
(* HttpTransport: a client keeps its requests in order, for any Sends and  *)
(* Recvs and any room in the channel. Channel and list together are one    *)
(* queue although Send moves entries from one to the other (MoveHead) and  *)
(* Recv takes from either (SuffixHead). That no response is returned twice *)
(* follows a request along four queues, from Send over the wire to the     *)
(* server's socket and back: it is in one of them, once, or it was         *)
(* returned (HtWire).                                                      *)
(***************************************************************************)
EXTENDS HttpTransport, ClientStream, RingBuffer, SequenceTheorems, TLAPS

(* A call of Stream, the try it waits for or has left behind, and a Recv.  *)
CsCalls == [pc : {"new", "waiting", "returned"}, try : Nat,
            child : {"none", "options", "dial", "send", "ok", "failed"}, ended : BOOLEAN,
            result : {"none", "error", "stream"}, recv : {"none", "waiting", "shutdown"}]

(* The types of the variables; the broker flags only occur as conditions.  *)
CsTypeOK ==
  /\ csCall \in [CsStreams -> CsCalls]
  /\ csOpen \subseteq CsStreams \X Nat
  /\ csPub \in [CsPublishers -> {"new", "connect", "connected", "publish", "failed", "done"}]

(* A try outlives its Stream only when the context has ended; a stream was *)
(* returned by the last try, which is over.                                *)
CsPhases(c) ==
  LET call == csCall[c]
  IN  /\ call.pc = "new" => call.child = "none"
      /\ call.pc # "returned" => call.result = "none"
      /\ call.result = "stream" => call.child = "none"
      /\ call.pc = "returned" /\ call.child # "none" => call.ended

(* Only the last try of a call has a connection, from Dial until it fails, *)
(* or the stream it became is closed.                                      *)
CsHolds(c) ==
  \A n \in Nat : <<c, n>> \in csOpen =>
    /\ n = csCall[c].try
    /\ csCall[c].child \in {"send", "ok"} \/ csCall[c].result = "stream"

(* Who says that the broker is connected is right.                         *)
CsBrokerSound ==
  /\ csOnce = TRUE => csBroker = TRUE
  /\ \A p \in CsPublishers : csPub[p] \in {"connected", "publish"} => csBroker = TRUE

(* The inductive invariant. ConnectionHasOwner alone is not inductive:     *)
(* that the try is the last one and that it holds its connection only from *)
(* Dial to its end come from the phases of the call.                       *)
ClientStreamInv ==
  /\ CsTypeOK
  /\ \A c \in CsStreams : CsPhases(c) /\ CsHolds(c)
  /\ CsBrokerSound

(* No call has begun, no connection is open and no broker connected.       *)
LEMMA ClientStreamInitially == ClientStreamInit => ClientStreamInv
  BY DEF ClientStreamInit, ClientStreamInv, CsTypeOK, CsCalls, CsPhases, CsHolds, CsBrokerSound

(* A step that changes one call and its connection only, and keeps what    *)
(* the invariant says of that call, keeps the invariant.                   *)
LEMMA CsOneCall ==
  ASSUME ClientStreamInv, NEW c \in CsStreams, NEW f \in CsCalls,
         CsSet(c, f), UNCHANGED csPublish,
         csOpen' \subseteq CsStreams \X Nat,
         \A x \in CsStreams \X Nat : x[1] # c => (x \in csOpen' <=> x \in csOpen),
         CsPhases(c)', CsHolds(c)'
  PROVE  ClientStreamInv'
<1> USE DEF ClientStreamInv, CsTypeOK
<1>1. csCall' \in [CsStreams -> CsCalls] /\ \A d \in CsStreams \ {c} : csCall'[d] = csCall[d]
  BY DEF CsSet
<1>2. \A d \in CsStreams : CsPhases(d)'
  BY <1>1 DEF CsPhases
<1>3. ASSUME NEW d \in CsStreams \ {c} PROVE CsHolds(d)'
  BY <1>1 DEF CsHolds
<1>4. CsBrokerSound'
  BY DEF CsBrokerSound, csPublish
<1> QED
  BY <1>1, <1>2, <1>3, <1>4 DEF csPublish

(* Every step of a Stream call, its tries, Recv, Close, and of Publish     *)
(* keeps the invariant.                                                    *)
LEMMA ClientStreamStep ==
  ClientStreamInv /\ [ClientStreamNext]_csVars => ClientStreamInv'
<1> SUFFICES ASSUME ClientStreamInv, [ClientStreamNext]_csVars PROVE ClientStreamInv'
  OBVIOUS
<1> USE DEF ClientStreamInv, CsTypeOK
<1>1. ASSUME NEW c \in CsStreams,
             \/ CsStart(c) \/ CsContextEnds(c) \/ CsOptions(c) \/ CsDial(c) \/ CsFirst(c)
             \/ CsGivesUp(c) \/ CsResult(c) \/ CsRecv(c) \/ CsReceived(c) \/ CsClose(c)
      PROVE  ClientStreamInv'
  <2> DEFINE call == csCall[c]
  <2>0. call \in CsCalls /\ csCall \in [CsStreams -> CsCalls] /\ CsPhases(c) /\ CsHolds(c)
    BY <1>1
  <2>1. CASE CsStart(c)
    <3>0. call.pc = "new" /\ UNCHANGED <<csInit, csOpen, csPublish>>
      BY <2>1 DEF CsStart
    <3>1. CASE CsSet(c, [call EXCEPT !.pc = "waiting", !.child = "options"])
      <4>1. [call EXCEPT !.pc = "waiting", !.child = "options"] \in CsCalls
        BY <2>0 DEF CsCalls
      <4>2. CsPhases(c)' /\ CsHolds(c)'
        BY <2>0, <3>0, <3>1 DEF CsSet, CsCalls, CsPhases, CsHolds
      <4> QED
        BY <3>0, <3>1, <4>1, <4>2, CsOneCall
    <3>2. CASE CsSet(c, [call EXCEPT !.pc = "returned", !.result = "error"])
      <4>1. [call EXCEPT !.pc = "returned", !.result = "error"] \in CsCalls
        BY <2>0 DEF CsCalls
      <4>2. CsPhases(c)' /\ CsHolds(c)'
        BY <2>0, <3>0, <3>2 DEF CsSet, CsCalls, CsPhases, CsHolds
      <4> QED
        BY <3>0, <3>2, <4>1, <4>2, CsOneCall
    <3> QED
      BY <2>1, <3>1, <3>2 DEF CsStart
  <2>2. CASE CsContextEnds(c)
    <3>1. [call EXCEPT !.ended = TRUE] \in CsCalls
      BY <2>0 DEF CsCalls
    <3>2. CsPhases(c)' /\ CsHolds(c)'
      BY <2>0, <2>2 DEF CsContextEnds, CsSet, CsCalls, CsPhases, CsHolds
    <3> QED
      BY <2>2, <3>1, <3>2, CsOneCall DEF CsContextEnds
  <2>3. CASE CsOptions(c)
    <3>1. [call EXCEPT !.child = "dial"] \in CsCalls
      BY <2>0 DEF CsCalls
    <3>2. CsPhases(c)' /\ CsHolds(c)'
      BY <2>0, <2>3 DEF CsOptions, CsSet, CsCalls, CsPhases, CsHolds
    <3> QED
      BY <2>3, <3>1, <3>2, CsOneCall DEF CsOptions
  <2>4. CASE CsGivesUp(c)
    <3>1. [call EXCEPT !.pc = "returned", !.result = "error"] \in CsCalls
      BY <2>0 DEF CsCalls
    <3>2. CsPhases(c)' /\ CsHolds(c)'
      BY <2>0, <2>4 DEF CsGivesUp, CsSet, CsCalls, CsPhases, CsHolds
    <3> QED
      BY <2>4, <3>1, <3>2, CsOneCall DEF CsGivesUp
  <2>5. CASE CsRecv(c)
    <3>1. [call EXCEPT !.recv = IF <<c, call.try>> \in csOpen THEN "waiting" ELSE "shutdown"] \in CsCalls
      BY <2>0 DEF CsCalls
    <3>2. CsPhases(c)' /\ CsHolds(c)'
      BY <2>0, <2>5 DEF CsRecv, CsSet, CsCalls, CsPhases, CsHolds
    <3> QED
      BY <2>5, <3>1, <3>2, CsOneCall DEF CsRecv
  <2>6. CASE CsReceived(c)
    <3>1. [call EXCEPT !.recv = IF <<c, call.try>> \in csOpen THEN "none" ELSE "shutdown"] \in CsCalls
      BY <2>0 DEF CsCalls
    <3>2. CsPhases(c)' /\ CsHolds(c)'
      BY <2>0, <2>6 DEF CsReceived, CsSet, CsCalls, CsPhases, CsHolds
    <3> QED
      BY <2>6, <3>1, <3>2, CsOneCall DEF CsReceived
  <2>7. CASE CsDial(c)
    <3>1. /\ [call EXCEPT !.child = "failed"] \in CsCalls
          /\ [call EXCEPT !.child = "send"] \in CsCalls
      BY <2>0 DEF CsCalls
    <3>2. CsPhases(c)' /\ CsHolds(c)'
      BY <2>0, <2>7 DEF CsDial, CsSet, CsCalls, CsPhases, CsHolds
    <3>3. <<c, call.try>> \in CsStreams \X Nat
      BY <2>0 DEF CsCalls
    <3> QED
      BY <2>7, <3>1, <3>2, <3>3, CsOneCall DEF CsDial
  <2>8. CASE CsFirst(c)
    <3>1. /\ [call EXCEPT !.child = "failed"] \in CsCalls
          /\ [call EXCEPT !.child = "ok"] \in CsCalls
      BY <2>0 DEF CsCalls
    <3>2. CsPhases(c)' /\ CsHolds(c)'
      BY <2>0, <2>8 DEF CsFirst, CsSet, CsCalls, CsPhases, CsHolds
    <3> QED
      BY <2>8, <3>1, <3>2, CsOneCall DEF CsFirst
  <2>9. CASE CsResult(c)
    <3>1. /\ [call EXCEPT !.pc = "returned", !.result = "stream", !.child = "none"] \in CsCalls
          /\ [call EXCEPT !.pc = "returned", !.result = "error", !.child = "none"] \in CsCalls
      BY <2>0 DEF CsCalls
    <3>2. [call EXCEPT !.try = @ + 1, !.child = "options"] \in CsCalls
      <4>1. call.try + 1 \in Nat
        BY <2>0 DEF CsCalls
      <4> QED
        BY <2>0, <4>1 DEF CsCalls
    <3>3. \/ csCall'[c] = [call EXCEPT !.pc = "returned", !.result = "stream", !.child = "none"]
             /\ call.child = "ok"
          \/ csCall'[c] = [call EXCEPT !.pc = "returned", !.result = "error", !.child = "none"]
             /\ call.child = "failed"
          \/ csCall'[c] = [call EXCEPT !.try = @ + 1, !.child = "options"]
             /\ call.child = "failed"
      BY <2>0, <2>9 DEF CsResult, CsSet
    <3>4. csOpen' = csOpen /\ call.pc = "waiting"
      BY <2>9 DEF CsResult
    <3>5. CsPhases(c)'
      BY <2>0, <3>3, <3>4 DEF CsCalls, CsPhases
    <3>6. call.result = "none"
      BY <2>0, <3>4 DEF CsPhases
    <3>7. CsHolds(c)'
      <4>1. call.child \in {"ok", "failed"} /\ csOpen' = csOpen
        BY <3>3, <3>4
      <4>2. \A n \in Nat : <<c, n>> \in csOpen => n = call.try /\ call.child = "ok"
        BY <2>0, <3>6, <4>1 DEF CsHolds
      <4>3. call.child = "ok" => csCall'[c].try = call.try /\ csCall'[c].result = "stream"
        BY <2>0, <3>3 DEF CsCalls
      <4> QED BY <4>1, <4>2, <4>3 DEF CsHolds
    <3> QED
      BY <2>9, <3>1, <3>2, <3>5, <3>7, CsOneCall DEF CsResult
  <2>10. CASE CsClose(c)
    <3>1. \A d \in CsStreams : CsPhases(d)' /\ CsHolds(d)'
      BY <2>10 DEF CsClose, CsPhases, CsHolds
    <3>2. CsBrokerSound'
      BY <2>10 DEF CsClose, CsBrokerSound, csPublish
    <3> QED
      BY <2>10, <3>1, <3>2 DEF CsClose, csPublish
  <2> QED
    BY <1>1, <2>1, <2>2, <2>3, <2>4, <2>5, <2>6, <2>7, <2>8, <2>9, <2>10
<1>2. CASE CsInitWaits \/ CsInit \/ UNCHANGED csVars
  BY <1>2 DEF CsInitWaits, CsInit, csVars, csPublish, CsPhases, CsHolds, CsBrokerSound
<1>3. ASSUME NEW p \in CsPublishers,
             CsPublish(p) \/ CsConnect(p) \/ CsConnected(p) \/ CsPublished(p)
      PROVE  ClientStreamInv'
  <2>1. UNCHANGED <<csCall, csOpen>>
    BY <1>3 DEF CsPublish, CsConnect, CsConnected, CsPublished
  <2>2. CsTypeOK' /\ \A c \in CsStreams : CsPhases(c)' /\ CsHolds(c)'
    BY <1>3, <2>1 DEF CsPublish, CsConnect, CsConnected, CsPublished, CsPhases, CsHolds
  <2>3. CsBrokerSound'
    BY <1>3 DEF CsPublish, CsConnect, CsConnected, CsPublished, CsBrokerSound
  <2> QED
    BY <2>2, <2>3
<1> QED
  BY <1>1, <1>2, <1>3 DEF ClientStreamNext

(* In a state of the invariant every open connection has somebody who      *)
(* closes it, and who publishes has a connected broker.                    *)
LEMMA ClientStreamOwners == ClientStreamInv => ConnectionHasOwner
<1> SUFFICES ASSUME ClientStreamInv PROVE ConnectionHasOwner
  OBVIOUS
<1>1. ASSUME NEW x \in csOpen
      PROVE  LET call == csCall[x[1]]
             IN  x[2] = call.try /\ \/ call.child \in {"send", "ok"} /\ call.pc = "waiting"
                                    \/ call.result = "stream"
                                    \/ call.child \in {"send", "ok"} /\ call.ended
  <2>1. PICK c \in CsStreams, n \in Nat : x = <<c, n>>
    BY DEF ClientStreamInv, CsTypeOK
  <2>2. x[1] = c /\ x[2] = n /\ <<c, n>> \in csOpen /\ csCall[c] \in CsCalls
    BY <2>1 DEF ClientStreamInv, CsTypeOK
  <2>3. n = csCall[c].try /\ (csCall[c].child \in {"send", "ok"} \/ csCall[c].result = "stream")
    BY <2>2 DEF ClientStreamInv, CsHolds
  <2>4. csCall[c].child \in {"send", "ok"} => csCall[c].pc = "waiting" \/ csCall[c].ended
    BY <2>2 DEF ClientStreamInv, CsPhases, CsCalls
  <2> QED
    BY <2>2, <2>3, <2>4
<1>2. \A p \in CsPublishers : csPub[p] = "publish" => csBroker
  BY DEF ClientStreamInv, CsBrokerSound
<1> QED
  BY <1>1, <1>2 DEF ConnectionHasOwner

(* rpcClient.stream and the goroutine of Stream never lose a connection:   *)
(* in every reachable state a connection that is open belongs to the last  *)
(* try of its call, which is at work for a call that waits, or became the  *)
(* stream that the caller holds, or was left behind by a context that      *)
(* ended. And Publish reaches the broker only when it is connected.        *)
THEOREM ClientStreamConnections ==
  ClientStreamInit /\ [][ClientStreamNext]_csVars => []ConnectionHasOwner
  BY ClientStreamInitially, ClientStreamStep, ClientStreamOwners, PTL

-----------------------------------------------------------------------------

(* Moving the head of the second sequence to the end of the first.         *)
LEMMA MoveHead ==
  ASSUME NEW S, NEW a \in Seq(S), NEW b \in Seq(S), b # <<>>
  PROVE  Append(a, Head(b)) \o Tail(b) = a \o b
<1> DEFINE t == <<Head(b)>>
<1>1. Head(b) \in S /\ Tail(b) \in Seq(S) /\ Len(b) \in Nat \ {0}
  BY EmptySeq, HeadTailProperties
<1>2. t \in Seq(S) /\ Append(a, Head(b)) = a \o t
  BY <1>1, AppendIsConcat
<1>3. b = t \o Tail(b)
  <2>1. SubSeq(b, 1, Len(b)) = <<b[1]>> \o SubSeq(b, 2, Len(b))
    BY <1>1, SubSeqRecursiveFirst
  <2>2. Head(b) = b[1]
    BY <1>1
  <2> QED
    BY <2>1, <2>2, TailIsSubSeq, SubSeqFull
<1>4. (a \o t) \o Tail(b) = a \o (t \o Tail(b))
  BY <1>1, <1>2, ConcatAssociative
<1> QED
  BY <1>2, <1>3, <1>4

(* Appending to the second sequence of a concatenation.                    *)
LEMMA ConcatAppend ==
  ASSUME NEW S, NEW a \in Seq(S), NEW b \in Seq(S), NEW x \in S
  PROVE  a \o Append(b, x) = Append(a \o b, x)
<1>1. <<x>> \in Seq(S) /\ a \o b \in Seq(S)
  BY ConcatProperties
<1>2. Append(b, x) = b \o <<x>> /\ Append(a \o b, x) = (a \o b) \o <<x>>
  BY <1>1, AppendIsConcat
<1> QED
  BY <1>1, <1>2, ConcatAssociative

(* What is after the first k elements, when one is appended.               *)
LEMMA AfterAppend ==
  ASSUME NEW S, NEW p \in Seq(S), NEW x \in S, NEW k \in 0 .. Len(p)
  PROVE  SubSeq(Append(p, x), k + 1, Len(Append(p, x))) = Append(SubSeq(p, k + 1, Len(p)), x)
<1> DEFINE u == SubSeq(Append(p, x), k + 1, Len(p) + 1)
           v == Append(SubSeq(p, k + 1, Len(p)), x)
<1>0. Len(p) \in Nat /\ \A i \in 1 .. Len(p) : p[i] \in S
  BY LenProperties
<1>1. /\ Append(p, x) \in Seq(S) /\ Len(Append(p, x)) = Len(p) + 1
      /\ \A i \in 1 .. Len(p) : Append(p, x)[i] = p[i] /\ Append(p, x)[Len(p) + 1] = x
  BY AppendProperties
<1>2. /\ SubSeq(p, k + 1, Len(p)) \in Seq(S) /\ Len(SubSeq(p, k + 1, Len(p))) = Len(p) - k
      /\ \A i \in 1 .. Len(p) - k : SubSeq(p, k + 1, Len(p))[i] = p[k + i]
  BY <1>0, SubSeqProperties
<1>3. /\ v \in Seq(S) /\ Len(v) = Len(p) - k + 1 /\ v[Len(p) - k + 1] = x
      /\ \A i \in 1 .. Len(p) - k : v[i] = p[k + i]
  BY <1>2, AppendProperties
<1>4. \A i \in k + 1 .. Len(p) + 1 : Append(p, x)[i] \in S
  BY <1>0, <1>1
<1>5. /\ u \in Seq(S) /\ Len(u) = Len(p) - k + 1
      /\ \A i \in 1 .. Len(p) - k + 1 : u[i] = Append(p, x)[k + i]
  BY <1>0, <1>4, SubSeqProperties
<1>6. ASSUME NEW i \in 1 .. Len(p) - k + 1 PROVE u[i] = v[i]
  <2> HIDE DEF u, v
  <2>1. u[i] = Append(p, x)[k + i]
    BY <1>5
  <2>2. CASE i = Len(p) - k + 1
    <3>1. k + i = Len(p) + 1
      BY <1>0, <2>2
    <3>2. Append(p, x)[Len(p) + 1] = x
      BY <1>0
    <3> QED
      BY <1>3, <2>1, <2>2, <3>1, <3>2
  <2>3. CASE i # Len(p) - k + 1
    <3>1. i \in 1 .. Len(p) - k /\ k + i \in 1 .. Len(p)
      BY <1>0, <2>3
    <3> QED
      BY <1>1, <1>3, <2>1, <3>1
  <2> QED
    BY <2>2, <2>3
<1> HIDE DEF u, v
<1>7. u = v
  BY <1>3, <1>5, <1>6, SeqEqual
<1> QED
  BY <1>1, <1>7 DEF u, v

(* What is after the first sequence of a concatenation.                    *)
LEMMA AfterFirst ==
  ASSUME NEW S, NEW a \in Seq(S), NEW b \in Seq(S)
  PROVE  SubSeq(a \o b, Len(a) + 1, Len(a \o b)) = b
<1> DEFINE u == SubSeq(a \o b, Len(a) + 1, Len(a) + Len(b))
<1>0. Len(a) \in Nat /\ Len(b) \in Nat /\ \A i \in 1 .. Len(b) : b[i] \in S
  BY LenProperties
<1>1. /\ a \o b \in Seq(S) /\ Len(a \o b) = Len(a) + Len(b)
      /\ \A i \in 1 .. Len(a) + Len(b) :
           (a \o b)[i] = IF i <= Len(a) THEN a[i] ELSE b[i - Len(a)]
  BY ConcatProperties
<1>2. \A i \in Len(a) + 1 .. Len(a) + Len(b) : (a \o b)[i] \in S
  BY <1>0, <1>1
<1>3. /\ u \in Seq(S) /\ Len(u) = Len(b)
      /\ \A i \in 1 .. Len(b) : u[i] = (a \o b)[Len(a) + i]
  BY <1>0, <1>2, SubSeqProperties
<1>4. \A i \in 1 .. Len(b) : u[i] = b[i]
  BY <1>0, <1>1, <1>3
<1> HIDE DEF u
<1>5. u = b
  BY <1>3, <1>4, SeqEqual
<1> QED
  BY <1>1, <1>5 DEF u

(* What is on its way to a reader is the same when a record of the backlog *)
(* moves on,                                                               *)
LEMMA BacklogMoves ==
  ASSUME NEW g \in Seq(Nat), NEW p \in Seq(Nat), NEW l \in Seq(Nat), l # <<>>
  PROVE  g \o Append(p, Head(l)) \o Tail(l) = g \o p \o l
<1>1. g \o p \in Seq(Nat) /\ Head(l) \in Nat
  BY ConcatProperties, HeadTailProperties
<1>2. g \o Append(p, Head(l)) = Append(g \o p, Head(l))
  <2>1. PICK x \in Nat : x = Head(l)
    BY <1>1
  <2>2. g \o Append(p, x) = Append(g \o p, x)
    BY ConcatAppend, SMTT(40)
  <2> QED BY <2>1, <2>2
<1>3. Append(g \o p, Head(l)) \o Tail(l) = g \o p \o l
  BY <1>1, MoveHead
<1> QED
  BY <1>2, <1>3

(* or, when there is none left, an entry does.                             *)
LEMMA EntryMoves ==
  ASSUME NEW g \in Seq(Nat), NEW p \in Seq(Nat), NEW e \in Seq(Nat), e # <<>>
  PROVE  g \o Append(p, Head(e)) \o <<>> \o Tail(e) = g \o p \o <<>> \o e
<1>1. g \o p \in Seq(Nat) /\ Head(e) \in Nat
  BY ConcatProperties, HeadTailProperties
<1>2. g \o Append(p, Head(e)) = Append(g \o p, Head(e)) /\ Append(g \o p, Head(e)) \in Seq(Nat)
  <2>1. PICK x \in Nat : x = Head(e)
    BY <1>1
  <2>2. g \o Append(p, x) = Append(g \o p, x)
    BY ConcatAppend, SMTT(40)
  <2> QED BY <1>1, <2>1, <2>2, AppendProperties
<1>3. Append(g \o p, Head(e)) \o Tail(e) = g \o p \o e
  BY <1>1, MoveHead
<1>4. g \o p \o <<>> = g \o p /\ g \o Append(p, Head(e)) \o <<>> = g \o Append(p, Head(e))
  BY <1>1, <1>2, ConcatEmptySeq
<1> QED
  BY <1>2, <1>3, <1>4

(* An entry that is sent comes last.                                       *)
LEMMA EntryIsLast ==
  ASSUME NEW g \in Seq(Nat), NEW p \in Seq(Nat), NEW l \in Seq(Nat), NEW e \in Seq(Nat),
         NEW x \in Nat
  PROVE  g \o p \o l \o Append(e, x) = Append(g \o p \o l \o e, x)
<1>1. g \o p \in Seq(Nat) /\ g \o p \o l \in Seq(Nat)
  BY ConcatProperties
<1> QED
  BY <1>1, ConcatAppend

(* What is after the first k elements has the rest of the length.          *)
LEMMA AfterLength ==
  ASSUME NEW p \in Seq(Nat), NEW k \in 0 .. Len(p)
  PROVE  Len(SubSeq(p, k + 1, Len(p))) = Len(p) - k
<1>1. Len(p) \in Nat /\ \A i \in k + 1 .. Len(p) : p[i] \in Nat
  BY LenProperties
<1> QED
  BY <1>1, SubSeqProperties

(* A stream: where its goroutine is, the last entry before it was opened,  *)
(* the entries sent to it and not taken, the backlog and what is left of   *)
(* it, and the records that nobody read yet.                               *)
RbStreamRecords ==
  [pc : {"none", "opened", "streaming"}, start : Nat, entries : Seq(Nat), closed : BOOLEAN,
   stop : BOOLEAN, last : Seq(Nat), kept : Seq(Nat), records : Seq(Nat)]

(* The types of the variables.                                             *)
RbTypes ==
  /\ rbCount \in Nat /\ rbVals \in Seq(Nat) /\ rbTodo \subseteq RbReaders
  /\ rbStream \in [RbReaders -> RbStreamRecords]
  /\ rbGot \in [RbReaders -> Seq(Nat)]

(* The buffer holds the latest entries.                                    *)
RbLatest ==
  /\ Len(rbVals) <= rbCount
  /\ \A i \in 1 .. Len(rbVals) : rbVals[i] = rbCount - Len(rbVals) + i

(* A stream holds nothing before it is opened, and no records before Get.  *)
RbEmpty(r) ==
  LET s == rbStream[r]
  IN  /\ s.pc = "none" => s.entries = <<>> /\ s.closed = FALSE
      /\ s.pc # "streaming" => /\ rbGot[r] = <<>> /\ s.records = <<>>
                               /\ s.last = <<>> /\ s.kept = <<>>

(* How many entries the reader of an open stream has got or will get.      *)
RbOwed(r) ==
  LET s == rbStream[r]
  IN  /\ Len(s.kept) <= Len(RbPipe(r))
      /\ s.pc # "none" /\ s.closed = FALSE =>
           s.start + (Len(RbPipe(r)) - Len(s.kept)) = rbCount - (IF r \in rbTodo THEN 1 ELSE 0)

(* Put offers an entry under the lock only, and only to streams that are   *)
(* open.                                                                   *)
RbSending ==
  /\ rbLock = FALSE => rbTodo = {}
  /\ \A r \in rbTodo : rbStream[r].pc # "none" /\ rbStream[r].closed = FALSE

(* The inductive invariant under which every step of the ring buffer is a  *)
(* step of the feed.                                                       *)
RingInv ==
  /\ RbTypes /\ RbLatest /\ RbSending
  /\ \A r \in RbReaders : RbEmpty(r) /\ RbOwed(r)

(* The entries that a reader got or will get after its backlog.            *)
RbNew(r) == SubSeq(RbPipe(r), Len(rbStream[r].kept) + 1, Len(RbPipe(r)))

(* What a reader got and what is on its way to it are one sequence of      *)
(* entries.                                                                *)
LEMMA RbPipeSeq ==
  ASSUME RbTypes, NEW r \in RbReaders
  PROVE  RbPipe(r) \in Seq(Nat) /\ Len(RbPipe(r)) \in Nat
<1>1. /\ rbGot[r] \in Seq(Nat) /\ rbStream[r].records \in Seq(Nat)
      /\ rbStream[r].last \in Seq(Nat) /\ rbStream[r].entries \in Seq(Nat)
  BY DEF RbTypes, RbStreamRecords
<1> QED
  BY <1>1, ConcatProperties, LenProperties DEF RbPipe

(* An empty buffer without streams is an empty feed.                       *)
LEMMA RingInitially == RingInit => RingInv /\ Feed!FeedInit
<1> SUFFICES ASSUME RingInit PROVE RingInv /\ Feed!FeedInit
  OBVIOUS
<1>1. RbTypes
  BY DEF RingInit, RbTypes, RbStreamRecords
<1>2. \A r \in RbReaders : RbPipe(r) = <<>>
  BY DEF RingInit, RbPipe
<1>3. RingInv
  BY <1>1, <1>2 DEF RingInit, RingInv, RbLatest, RbSending, RbEmpty, RbOwed
<1>4. \A r \in RbReaders : RbNew(r) = <<>>
  BY <1>2 DEF RingInit, RbNew
<1>5. Feed!FeedInit
  BY <1>4 DEF RingInit, RbFeed, RbNew, Feed!FeedInit
<1> QED
  BY <1>3, <1>5

(* The suffix of the latest entries that Put keeps and Get reads.          *)
LEMMA SuffixProperties ==
  ASSUME NEW v \in Seq(Nat), NEW n \in Nat \ {0}
  PROVE  /\ RbSuffix(v, n) \in Seq(Nat)
         /\ Len(RbSuffix(v, n)) = (IF n >= Len(v) THEN Len(v) ELSE n)
         /\ \A i \in 1 .. Len(RbSuffix(v, n)) :
              RbSuffix(v, n)[i] = v[Len(v) - Len(RbSuffix(v, n)) + i]
<1>0. Len(v) \in Nat /\ \A i \in 1 .. Len(v) : v[i] \in Nat
  BY LenProperties
<1>1. CASE n >= Len(v)
  <2>1. RbSuffix(v, n) = v
    BY <1>1 DEF RbSuffix
  <2> QED
    BY <1>0, <1>1, <2>1
<1>2. CASE ~(n >= Len(v))
  <2>1. RbSuffix(v, n) = SubSeq(v, Len(v) - n + 1, Len(v))
    BY <1>2 DEF RbSuffix
  <2>2. \A i \in Len(v) - n + 1 .. Len(v) : v[i] \in Nat
    BY <1>0, <1>2
  <2>3. /\ RbSuffix(v, n) \in Seq(Nat) /\ Len(RbSuffix(v, n)) = n
        /\ \A i \in 1 .. n : RbSuffix(v, n)[i] = v[Len(v) - n + i]
    BY <1>0, <1>2, <2>1, <2>2, SubSeqProperties
  <2> QED
    BY <1>2, <2>3
<1> QED
  BY <1>1, <1>2

(* Put that stores an entry is the write of the feed.                      *)
LEMMA RbPutStep ==
  ASSUME RingInv, RbPut PROVE RingInv' /\ Feed!FeedWrite
<1>1. /\ UNCHANGED <<rbStream, rbGot>> /\ rbTodo = {} /\ rbTodo' = RbStreams
      /\ rbCount' = rbCount + 1 /\ rbLock' = TRUE /\ rbCount \in Nat /\ rbVals \in Seq(Nat)
      /\ rbVals' = RbSuffix(Append(rbVals, rbCount + 1), RbSize)
  BY DEF RingInv, RbTypes, RbPut, RbSending
<1>2. \A r \in RbReaders : RbPipe(r)' = RbPipe(r)
  BY <1>1 DEF RbPipe
<1>3. RbFeed' = RbFeed
  BY <1>1, <1>2 DEF RbFeed
<1> DEFINE v == Append(rbVals, rbCount + 1)
<1>4. /\ v \in Seq(Nat) /\ Len(v) = Len(rbVals) + 1 /\ Len(rbVals) \in Nat
      /\ \A i \in 1 .. Len(v) : v[i] = rbCount + 1 - Len(v) + i
  <2>1. /\ v \in Seq(Nat) /\ Len(v) = Len(rbVals) + 1 /\ Len(rbVals) \in Nat
        /\ v[Len(rbVals) + 1] = rbCount + 1 /\ \A i \in 1 .. Len(rbVals) : v[i] = rbVals[i]
    BY <1>1
  <2>2. \A i \in 1 .. Len(rbVals) : rbVals[i] = rbCount - Len(rbVals) + i
    BY DEF RingInv, RbLatest
  <2>3. \A i \in 1 .. Len(v) : v[i] = rbCount + 1 - Len(v) + i
    BY <1>1, <2>1, <2>2
  <2> QED
    BY <2>1, <2>3
<1> HIDE DEF v
<1>5. RbLatest' /\ rbVals' \in Seq(Nat)
  <2>1. rbVals' = RbSuffix(v, RbSize)
    BY <1>1 DEF v
  <2>2. /\ rbVals' \in Seq(Nat) /\ Len(rbVals') <= Len(v) /\ Len(rbVals') \in Nat
        /\ \A i \in 1 .. Len(rbVals') : rbVals'[i] = v[Len(v) - Len(rbVals') + i]
    <3>1. /\ RbSuffix(v, RbSize) \in Seq(Nat)
          /\ Len(RbSuffix(v, RbSize)) = (IF RbSize >= Len(v) THEN Len(v) ELSE RbSize)
          /\ \A i \in 1 .. Len(RbSuffix(v, RbSize)) :
               RbSuffix(v, RbSize)[i] = v[Len(v) - Len(RbSuffix(v, RbSize)) + i]
      BY <1>4, SuffixProperties, RingAssumption
    <3>2. Len(RbSuffix(v, RbSize)) <= Len(v) /\ Len(RbSuffix(v, RbSize)) \in Nat
      BY <1>4, <3>1, RingAssumption
    <3> QED
      BY <2>1, <3>1, <3>2
  <2>3. Len(rbVals') <= rbCount'
    BY <1>1, <1>4, <2>2 DEF RingInv, RbLatest
  <2>4. ASSUME NEW i \in 1 .. Len(rbVals') PROVE rbVals'[i] = rbCount' - Len(rbVals') + i
    <3> DEFINE j == Len(v) - Len(rbVals') + i
    <3>1. j \in 1 .. Len(v)
      BY <1>4, <2>2
    <3>2. rbVals'[i] = v[j] /\ v[j] = rbCount + 1 - Len(v) + j
      BY <1>4, <2>2, <3>1
    <3>3. rbCount + 1 - Len(v) + j = rbCount' - Len(rbVals') + i
      BY <1>1, <1>4, <2>2
    <3> QED
      BY <3>2, <3>3
  <2> QED
    BY <2>2, <2>3, <2>4 DEF RbLatest
<1>6. RbTypes' /\ RbSending'
  BY <1>1, <1>5 DEF RingInv, RbTypes, RbSending, RbStreams, RbStreamRecords
<1>7. ASSUME NEW r \in RbReaders PROVE RbEmpty(r)' /\ RbOwed(r)'
  <2>1. RbEmpty(r)'
    BY <1>1 DEF RingInv, RbEmpty
  <2>2. r \in rbTodo' <=> rbStream[r].pc # "none" /\ rbStream[r].closed = FALSE
    BY <1>1 DEF RbStreams, RingInv, RbTypes, RbStreamRecords
  <2>3. /\ rbStream[r].start \in Nat /\ Len(rbStream[r].kept) \in Nat /\ Len(RbPipe(r)) \in Nat
    BY RbPipeSeq DEF RingInv, RbTypes, RbStreamRecords
  <2>4. RbOwed(r)'
    <3>1. PICK start \in Nat, kept \in Nat, pipe \in Nat :
            start = rbStream[r].start /\ kept = Len(rbStream[r].kept) /\ pipe = Len(RbPipe(r))
      BY <2>3
    <3>2. /\ kept <= pipe
          /\ rbStream[r].pc # "none" /\ rbStream[r].closed = FALSE => start + (pipe - kept) = rbCount
      <4>1. RbOwed(r) /\ r \notin rbTodo /\ rbCount \in Nat
        BY <1>1 DEF RingInv
      <4>2. /\ Len(rbStream[r].kept) <= Len(RbPipe(r))
            /\ rbStream[r].pc # "none" /\ rbStream[r].closed = FALSE =>
                 rbStream[r].start + (Len(RbPipe(r)) - Len(rbStream[r].kept)) = rbCount - 0
        BY <4>1 DEF RbOwed
      <4> QED
        BY <3>1, <4>1, <4>2
    <3>3. rbCount = rbCount' - 1
      BY <1>1 DEF RingInv, RbTypes
    <3>4. /\ rbStream'[r] = rbStream[r] /\ RbPipe(r)' = RbPipe(r)
      BY <1>1, <1>2
    <3>5. /\ Len(rbStream'[r].kept) <= Len(RbPipe(r)')
          /\ rbStream'[r].pc # "none" /\ rbStream'[r].closed = FALSE =>
               rbStream'[r].start + (Len(RbPipe(r)') - Len(rbStream'[r].kept))
                 = rbCount' - (IF r \in rbTodo' THEN 1 ELSE 0)
      BY <2>2, <3>1, <3>2, <3>3, <3>4
    <3> QED
      BY <3>5 DEF RbOwed
  <2> QED
    BY <2>1, <2>4
<1> QED
  BY <1>1, <1>3, <1>5, <1>6, <1>7 DEF RingInv, Feed!FeedWrite

(* The end of Put changes nothing in the feed.                             *)
LEMMA RbIdleStep ==
  ASSUME RingInv, RbPutReturns \/ UNCHANGED rbVars
  PROVE  RingInv' /\ UNCHANGED <<rbCount, RbFeed>>
<1>1. /\ UNCHANGED <<rbCount, rbVals, rbTodo, rbStream, rbGot>>
      /\ rbLock' = rbLock \/ rbTodo = {}
  BY DEF RbPutReturns, rbVars
<1>2. \A r \in RbReaders : RbPipe(r)' = RbPipe(r)
  BY <1>1 DEF RbPipe
<1>3. RbFeed' = RbFeed
  BY <1>1, <1>2 DEF RbFeed
<1>4. RbTypes' /\ RbLatest' /\ RbSending'
  BY <1>1 DEF RingInv, RbTypes, RbLatest, RbSending
<1>5. ASSUME NEW r \in RbReaders PROVE RbEmpty(r)' /\ RbOwed(r)'
  BY <1>1, <1>2 DEF RingInv, RbEmpty, RbOwed
<1> QED
  BY <1>1, <1>3, <1>4, <1>5 DEF RingInv

(* A step of one stream: what the invariant says of the others stays.      *)
LEMMA OneStream ==
  ASSUME RingInv, NEW r \in RbReaders, UNCHANGED <<rbCount, rbVals, rbLock>>,
         \A q \in RbReaders \ {r} : rbStream'[q] = rbStream[q] /\ rbGot'[q] = rbGot[q],
         rbTodo' = rbTodo \/ rbTodo' = rbTodo \ {r},
         rbStream' \in [RbReaders -> RbStreamRecords], rbGot' \in [RbReaders -> Seq(Nat)],
         r \in rbTodo' => rbStream'[r].pc # "none" /\ rbStream'[r].closed = FALSE,
         RbEmpty(r)', RbOwed(r)'
  PROVE  RingInv'
<1>1. ASSUME NEW q \in RbReaders \ {r} PROVE RbEmpty(q)' /\ RbOwed(q)'
  <2>1. RbPipe(q)' = RbPipe(q) /\ (q \in rbTodo' <=> q \in rbTodo)
    BY DEF RbPipe
  <2> QED
    BY <2>1 DEF RingInv, RbEmpty, RbOwed
<1>2. RbTypes' /\ RbLatest'
  BY DEF RingInv, RbTypes, RbLatest
<1>3. RbSending'
  BY DEF RingInv, RbTypes, RbSending
<1> QED
  BY <1>1, <1>2, <1>3 DEF RingInv

(* The record of a reader in the feed.                                     *)
FeedRecord(open, over, start, old, new) ==
  [open |-> open, over |-> over, start |-> start, old |-> old, new |-> new]

(* The stream of a reader exists. An operator of its own, since the        *)
(* provers take a condition as a field of a record only when it is opaque. *)
RbOpened(r) == rbStream[r].pc # "none"

(* What RbFeed says of one reader.                                         *)
RbFeedOf(r) == FeedRecord(RbOpened(r), rbStream[r].closed, rbStream[r].start,
                          rbStream[r].kept, RbNew(r))

(* The fields of a record of the feed,                                     *)
LEMMA FeedRecordFields ==
  ASSUME NEW a, NEW b, NEW c, NEW d, NEW e
  PROVE  /\ FeedRecord(a, b, c, d, e).open = a /\ FeedRecord(a, b, c, d, e).over = b
         /\ FeedRecord(a, b, c, d, e).start = c /\ FeedRecord(a, b, c, d, e).old = d
         /\ FeedRecord(a, b, c, d, e).new = e
  BY DEF FeedRecord

(* and its edits: open,                                                    *)
LEMMA EditOpen ==
  ASSUME NEW a, NEW b, NEW c, NEW d, NEW e, NEW x
  PROVE  [FeedRecord(a, b, c, d, e) EXCEPT !.open = x] = FeedRecord(x, b, c, d, e)
  BY DEF FeedRecord

(* start,                                                                  *)
LEMMA EditStart ==
  ASSUME NEW a, NEW b, NEW c, NEW d, NEW e, NEW x
  PROVE  [FeedRecord(a, b, c, d, e) EXCEPT !.start = x] = FeedRecord(a, b, x, d, e)
  BY DEF FeedRecord

(* over,                                                                   *)
LEMMA EditOver ==
  ASSUME NEW a, NEW b, NEW c, NEW d, NEW e, NEW x
  PROVE  [FeedRecord(a, b, c, d, e) EXCEPT !.over = x] = FeedRecord(a, x, c, d, e)
  BY DEF FeedRecord

(* the backlog,                                                            *)
LEMMA EditOld ==
  ASSUME NEW a, NEW b, NEW c, NEW d, NEW e, NEW x
  PROVE  [FeedRecord(a, b, c, d, e) EXCEPT !.old = x] = FeedRecord(a, b, c, x, e)
  BY DEF FeedRecord

(* the entries.                                                            *)
LEMMA EditNew ==
  ASSUME NEW a, NEW b, NEW c, NEW d, NEW e, NEW x
  PROVE  [FeedRecord(a, b, c, d, e) EXCEPT !.new = x] = FeedRecord(a, b, c, d, x)
  BY DEF FeedRecord

(* A step of one stream changes its own record of the feed only.           *)
LEMMA OneFeed ==
  ASSUME NEW r \in RbReaders,
         \A q \in RbReaders \ {r} : rbStream'[q] = rbStream[q] /\ rbGot'[q] = rbGot[q]
  PROVE  /\ RbFeed' = [RbFeed EXCEPT ![r] = RbFeedOf(r)'] /\ RbFeed[r] = RbFeedOf(r)
         /\ RbFeedOf(r)' = RbFeedOf(r) => RbFeed' = RbFeed
<1>1. RbFeed = [q \in RbReaders |-> RbFeedOf(q)]
  BY DEF RbFeed, RbFeedOf, RbOpened, RbNew, FeedRecord
<1>2. RbFeed' = [q \in RbReaders |-> RbFeedOf(q)']
  BY DEF RbFeed, RbFeedOf, RbOpened, RbNew, FeedRecord
<1>3. \A q \in RbReaders \ {r} : RbFeedOf(q)' = RbFeedOf(q)
  BY DEF RbFeedOf, RbOpened, RbNew, RbPipe
<1> QED
  BY <1>1, <1>2, <1>3

(* Put that sends its entry to a stream is the delivery of the next entry. *)
LEMMA RbOfferStep ==
  ASSUME RingInv, NEW r \in RbReaders, RbOffer(r) PROVE RingInv' /\ Feed!FeedDeliver(r)
<1> DEFINE s == rbStream[r]
           e == Append(s.entries, rbCount)
<1>1. /\ UNCHANGED <<rbCount, rbVals, rbLock, rbGot>> /\ r \in rbTodo /\ rbTodo' = rbTodo \ {r}
      /\ rbStream' = [rbStream EXCEPT ![r].entries = e]
  BY DEF RbOffer
<1>2. /\ s \in RbStreamRecords /\ rbGot[r] \in Seq(Nat) /\ rbCount \in Nat
      /\ s.pc # "none" /\ s.closed = FALSE
  BY <1>1 DEF RingInv, RbTypes, RbSending
<1>3. /\ s.records \in Seq(Nat) /\ s.last \in Seq(Nat) /\ s.entries \in Seq(Nat) /\ e \in Seq(Nat)
      /\ s.kept \in Seq(Nat) /\ Len(s.kept) \in Nat /\ s.start \in Nat
  BY <1>2 DEF RbStreamRecords
<1>4. /\ rbStream' \in [RbReaders -> RbStreamRecords]
      /\ \A q \in RbReaders \ {r} : rbStream'[q] = rbStream[q] /\ rbGot'[q] = rbGot[q]
      /\ rbStream'[r] = [s EXCEPT !.entries = e]
  <2>1. rbStream \in [RbReaders -> RbStreamRecords]
    BY DEF RingInv, RbTypes
  <2>2. [s EXCEPT !.entries = e] \in RbStreamRecords
    BY <1>2, <1>3 DEF RbStreamRecords
  <2> HIDE DEF e
  <2> QED BY <1>1, <2>1, <2>2
<1>5. /\ rbStream'[r].pc = s.pc /\ rbStream'[r].start = s.start /\ rbStream'[r].entries = e
      /\ rbStream'[r].closed = s.closed /\ rbStream'[r].last = s.last
      /\ rbStream'[r].kept = s.kept /\ rbStream'[r].records = s.records
  BY <1>2, <1>4 DEF RbStreamRecords
<1>6. RbPipe(r)' = Append(RbPipe(r), rbCount)
  <2>1. PICK g \in Seq(Nat), p \in Seq(Nat), l \in Seq(Nat), t \in Seq(Nat), x \in Nat :
          g = rbGot[r] /\ p = s.records /\ l = s.last /\ t = s.entries /\ x = rbCount
    BY <1>2, <1>3, Zenon
  <2>2. RbPipe(r) = g \o p \o l \o t /\ RbPipe(r)' = g \o p \o l \o Append(t, x)
    BY <1>1, <1>5, <2>1 DEF RbPipe
  <2>3. g \o p \o l \o Append(t, x) = Append(g \o p \o l \o t, x)
    BY EntryIsLast, SMTT(40)
  <2> QED
    BY <2>1, <2>2, <2>3, Zenon
<1>7. RbPipe(r) \in Seq(Nat) /\ Len(RbPipe(r)) \in Nat /\ RbOwed(r) /\ RbEmpty(r)
  BY RbPipeSeq DEF RingInv
<1>8. Len(RbPipe(r)') = Len(RbPipe(r)) + 1
  BY <1>2, <1>6, <1>7
<1>9. s.start + (Len(RbPipe(r)) - Len(s.kept)) = rbCount - 1 /\ Len(s.kept) \in 0 .. Len(RbPipe(r))
  BY <1>1, <1>2, <1>3, <1>7 DEF RbOwed
<1> HIDE DEF s
<1>10. RbOwed(r)'
  <2>1. r \notin rbTodo'
    BY <1>1
  <2>2. PICK st \in Nat, k \in Nat, p \in Nat :
          st = s.start /\ k = Len(s.kept) /\ p = Len(RbPipe(r))
    BY <1>3, <1>7, Zenon
  <2>3. st + (p - k) = rbCount - 1 /\ k \in 0 .. p
    BY <1>9, <2>2, Zenon
  <2>4. k <= p + 1 /\ st + ((p + 1) - k) = rbCount - 0
    BY <1>2, <2>3
  <2>5. Len(s.kept) <= Len(RbPipe(r)') /\ s.start + (Len(RbPipe(r)') - Len(s.kept)) = rbCount - 0
    BY <1>8, <2>2, <2>4, Zenon
  <2> QED
    BY <1>1, <1>2, <1>5, <2>1, <2>5 DEF RbOwed
<1>11. RbEmpty(r)'
  BY <1>1, <1>2, <1>5, <1>7 DEF RbEmpty, s
<1>12. RingInv'
  BY <1>1, <1>4, <1>10, <1>11, OneStream DEF RingInv, RbTypes
<1>13. RbNew(r)' = Append(RbNew(r), rbCount) /\ Len(RbNew(r)) = Len(RbPipe(r)) - Len(s.kept)
  <2> DEFINE p == RbPipe(r)
  <2>1. RbNew(r)' = Append(RbNew(r), rbCount)
    <3>1. RbNew(r)' = SubSeq(Append(p, rbCount), Len(s.kept) + 1, Len(Append(p, rbCount)))
      BY <1>5, <1>6 DEF RbNew
    <3>2. RbNew(r) = SubSeq(p, Len(s.kept) + 1, Len(p))
      BY DEF RbNew, s
    <3> HIDE DEF p
    <3>3. p \in Seq(Nat) /\ Len(s.kept) \in 0 .. Len(p)
      BY <1>7, <1>9 DEF p
    <3> QED
      BY <1>2, <3>1, <3>2, <3>3, AfterAppend
  <2>2. Len(RbNew(r)) = Len(RbPipe(r)) - Len(s.kept)
    <3>1. RbNew(r) = SubSeq(p, Len(s.kept) + 1, Len(p))
      BY DEF RbNew, s
    <3> HIDE DEF p
    <3>2. p \in Seq(Nat) /\ Len(p) \in Nat /\ Len(s.kept) \in 0 .. Len(p)
      BY <1>7, <1>9 DEF p
    <3>3. Len(RbNew(r)) = Len(p) - Len(s.kept)
      BY <3>1, <3>2, AfterLength
    <3> QED
      BY <3>3 DEF p
  <2> QED
    BY <2>1, <2>2
<1>14. RbFeedOf(r) = FeedRecord(RbOpened(r), s.closed, s.start, s.kept, RbNew(r))
  BY DEF RbFeedOf, s
<1>15. RbFeedOf(r)' = FeedRecord(RbOpened(r), s.closed, s.start, s.kept, Append(RbNew(r), rbCount))
  <2>1. RbOpened(r)' = RbOpened(r)
    BY <1>5 DEF RbOpened, s
  <2> QED
    BY <1>5, <1>13, <2>1 DEF RbFeedOf
<1>16. RbFeed' = [RbFeed EXCEPT ![r] = RbFeedOf(r)'] /\ RbFeed[r] = RbFeedOf(r)
  BY <1>4, OneFeed
<1>17. /\ RbFeed[r].open = RbOpened(r) /\ RbFeed[r].over = s.closed
       /\ RbFeed[r].start = s.start /\ RbFeed[r].new = RbNew(r)
  BY <1>14, <1>16, FeedRecordFields
<1>18. s.start + Len(RbNew(r)) + 1 = rbCount
  <2>1. PICK st \in Nat, k \in Nat, p \in Nat :
          st = s.start /\ k = Len(s.kept) /\ p = Len(RbPipe(r))
    BY <1>3, <1>7, Zenon
  <2>2. st + (p - k) = rbCount - 1 /\ k \in 0 .. p
    BY <1>9, <2>1, Zenon
  <2>3. st + (p - k) + 1 = rbCount
    BY <1>2, <2>2
  <2> QED
    BY <1>13, <2>1, <2>3, Zenon
<1>19. RbFeedOf(r)' = [RbFeed[r] EXCEPT !.new = Append(RbNew(r), rbCount)]
  <2> DEFINE x == Append(RbNew(r), rbCount)
  <2> HIDE DEF x
  <2>1. [FeedRecord(RbOpened(r), s.closed, s.start, s.kept, RbNew(r)) EXCEPT !.new = x]
          = FeedRecord(RbOpened(r), s.closed, s.start, s.kept, x)
    BY EditNew
  <2> QED
    BY <1>14, <1>15, <1>16, <2>1, Zenon DEF x
<1>20. RbFeed' = [RbFeed EXCEPT ![r].new = Append(@, RbFeed[r].start + Len(RbFeed[r].new) + 1)]
  BY <1>16, <1>17, <1>18, <1>19
<1>21. RbFeed[r].start + Len(RbFeed[r].new) + 1 <= rbCount
  BY <1>2, <1>17, <1>18
<1>22. RbFeed[r].open /\ ~RbFeed[r].over
  BY <1>2, <1>17 DEF RbOpened, s
<1> QED
  BY <1>1, <1>12, <1>20, <1>21, <1>22 DEF Feed!FeedDeliver

(* Put that finds a stream stopped ends the feed of that reader.           *)
LEMMA RbDropStep ==
  ASSUME RingInv, NEW r \in RbReaders, RbDrop(r) PROVE RingInv' /\ Feed!FeedClose(r)
<1> DEFINE s == rbStream[r]
<1>1. /\ UNCHANGED <<rbCount, rbVals, rbLock, rbGot>> /\ r \in rbTodo /\ rbTodo' = rbTodo \ {r}
      /\ rbStream' = [rbStream EXCEPT ![r].closed = TRUE]
  BY DEF RbDrop
<1>2. s \in RbStreamRecords /\ s.pc # "none"
  BY <1>1 DEF RingInv, RbTypes, RbSending
<1>3. /\ rbStream' \in [RbReaders -> RbStreamRecords]
      /\ \A q \in RbReaders \ {r} : rbStream'[q] = rbStream[q] /\ rbGot'[q] = rbGot[q]
      /\ rbStream'[r] = [s EXCEPT !.closed = TRUE]
  BY <1>1 DEF RingInv, RbTypes, RbStreamRecords
<1>4. /\ rbStream'[r].pc = s.pc /\ rbStream'[r].start = s.start
      /\ rbStream'[r].entries = s.entries
      /\ rbStream'[r].closed = TRUE /\ rbStream'[r].last = s.last
      /\ rbStream'[r].kept = s.kept /\ rbStream'[r].records = s.records
  BY <1>2, <1>3 DEF RbStreamRecords
<1>5. RbPipe(r)' = RbPipe(r) /\ RbNew(r)' = RbNew(r)
  BY <1>1, <1>4 DEF RbPipe, RbNew
<1>6. RbEmpty(r)' /\ RbOwed(r)'
  BY <1>1, <1>2, <1>4, <1>5 DEF RingInv, RbEmpty, RbOwed
<1>7. RingInv'
  BY <1>1, <1>3, <1>6, OneStream DEF RingInv, RbTypes
<1>8. RbFeedOf(r) = FeedRecord(RbOpened(r), s.closed, s.start, s.kept, RbNew(r))
  BY DEF RbFeedOf
<1>9. RbFeedOf(r)' = FeedRecord(RbOpened(r), TRUE, s.start, s.kept, RbNew(r))
  <2>1. RbOpened(r)' = RbOpened(r)
    BY <1>4 DEF RbOpened
  <2> QED
    BY <1>4, <1>5, <2>1 DEF RbFeedOf
<1>10. RbFeed' = [RbFeed EXCEPT ![r] = RbFeedOf(r)'] /\ RbFeed[r] = RbFeedOf(r)
  BY <1>3, OneFeed
<1> HIDE DEF s
<1>11. RbFeed[r].open = RbOpened(r) /\ RbFeedOf(r)' = [RbFeed[r] EXCEPT !.over = TRUE]
  <2>0. PICK x : x = TRUE
    OBVIOUS
  <2>1. [FeedRecord(RbOpened(r), s.closed, s.start, s.kept, RbNew(r)) EXCEPT !.over = x]
          = FeedRecord(RbOpened(r), x, s.start, s.kept, RbNew(r))
    BY EditOver
  <2>2. FeedRecord(RbOpened(r), s.closed, s.start, s.kept, RbNew(r)).open = RbOpened(r)
    BY FeedRecordFields
  <2> QED
    BY <1>8, <1>9, <1>10, <2>0, <2>1, <2>2, Zenon
<1>12. RbFeed' = [RbFeed EXCEPT ![r].over = TRUE]
  BY <1>10, <1>11
<1>13. RbOpened(r)
  BY <1>2 DEF RbOpened, s
<1> QED
  BY <1>1, <1>7, <1>11, <1>12, <1>13 DEF Feed!FeedClose

(* Stream makes a channel: the reader is open from the last entry on.      *)
LEMMA RbOpenStep ==
  ASSUME RingInv, NEW r \in RbReaders, RbOpen(r) PROVE RingInv' /\ Feed!FeedOpen(r)
<1> DEFINE s == rbStream[r]
<1>1. /\ UNCHANGED <<rbCount, rbVals, rbLock, rbTodo, rbGot>> /\ s.pc = "none" /\ rbTodo = {}
      /\ rbStream' = [rbStream EXCEPT ![r].pc = "opened", ![r].start = rbCount]
  BY DEF RbOpen, RingInv, RbSending
<1>2. /\ s \in RbStreamRecords /\ rbTodo = {} /\ rbCount \in Nat
      /\ s.entries = <<>> /\ s.closed = FALSE /\ rbGot[r] = <<>> /\ s.records = <<>>
      /\ s.last = <<>> /\ s.kept = <<>>
  BY <1>1 DEF RingInv, RbTypes, RbSending, RbEmpty
<1>3. /\ rbStream' \in [RbReaders -> RbStreamRecords]
      /\ \A q \in RbReaders \ {r} : rbStream'[q] = rbStream[q] /\ rbGot'[q] = rbGot[q]
      /\ rbStream'[r] = [s EXCEPT !.pc = "opened", !.start = rbCount]
  BY <1>1, <1>2 DEF RingInv, RbTypes, RbStreamRecords
<1>4. /\ rbStream'[r].pc = "opened" /\ rbStream'[r].start = rbCount
      /\ rbStream'[r].entries = s.entries
      /\ rbStream'[r].closed = s.closed /\ rbStream'[r].last = s.last
      /\ rbStream'[r].kept = s.kept /\ rbStream'[r].records = s.records
  BY <1>2, <1>3 DEF RbStreamRecords
<1>5. RbPipe(r)' = RbPipe(r) /\ RbNew(r)' = RbNew(r) /\ RbPipe(r) = <<>>
  <2>1. RbPipe(r)' = RbPipe(r) /\ RbNew(r)' = RbNew(r)
    BY <1>1, <1>4 DEF RbPipe, RbNew
  <2>2. RbPipe(r) = <<>> \o <<>> \o <<>> \o <<>>
    BY <1>2 DEF RbPipe
  <2> QED
    BY <2>1, <2>2
<1>6. RbEmpty(r)' /\ RbOwed(r)'
  <2>1. RbEmpty(r)'
    BY <1>1, <1>2, <1>4 DEF RbEmpty
  <2>2. Len(rbStream'[r].kept) = 0 /\ Len(RbPipe(r)') = 0 /\ r \notin rbTodo'
    BY <1>1, <1>2, <1>4, <1>5
  <2> QED
    BY <1>1, <1>2, <1>4, <2>1, <2>2 DEF RbOwed
<1>7. RingInv'
  BY <1>1, <1>2, <1>3, <1>6, OneStream DEF RingInv, RbTypes
<1>8. RbFeedOf(r) = FeedRecord(RbOpened(r), s.closed, s.start, s.kept, RbNew(r))
  BY DEF RbFeedOf
<1>9. RbFeedOf(r)' = FeedRecord(TRUE, s.closed, rbCount, s.kept, RbNew(r))
  <2>1. RbOpened(r)' = TRUE
    BY <1>4 DEF RbOpened
  <2> QED
    BY <1>4, <1>5, <2>1 DEF RbFeedOf
<1>10. RbFeed' = [RbFeed EXCEPT ![r] = RbFeedOf(r)'] /\ RbFeed[r] = RbFeedOf(r)
  BY <1>3, OneFeed
<1> HIDE DEF s
<1>11. RbFeed[r].open = RbOpened(r)
       /\ RbFeedOf(r)' = [RbFeed[r] EXCEPT !.open = TRUE, !.start = rbCount]
  <2>0. PICK x : x = TRUE
    OBVIOUS
  <2>1. [FeedRecord(RbOpened(r), s.closed, s.start, s.kept, RbNew(r))
           EXCEPT !.open = x, !.start = rbCount]
          = FeedRecord(x, s.closed, rbCount, s.kept, RbNew(r))
    <3>1. [FeedRecord(RbOpened(r), s.closed, s.start, s.kept, RbNew(r)) EXCEPT !.open = x]
            = FeedRecord(x, s.closed, s.start, s.kept, RbNew(r))
      BY EditOpen
    <3>2. [FeedRecord(x, s.closed, s.start, s.kept, RbNew(r)) EXCEPT !.start = rbCount]
            = FeedRecord(x, s.closed, rbCount, s.kept, RbNew(r))
      BY EditStart
    <3> QED
      BY <3>1, <3>2
  <2>2. FeedRecord(RbOpened(r), s.closed, s.start, s.kept, RbNew(r)).open = RbOpened(r)
    BY FeedRecordFields
  <2> QED
    BY <1>8, <1>9, <1>10, <2>0, <2>1, <2>2, Zenon
<1>12. RbFeed' = [RbFeed EXCEPT ![r].open = TRUE, ![r].start = rbCount]
  BY <1>10, <1>11
<1>13. ~RbOpened(r)
  BY <1>1 DEF RbOpened, s
<1> QED
  BY <1>1, <1>7, <1>11, <1>12, <1>13 DEF Feed!FeedOpen

(* The n latest entries, when n of them are read.                          *)
LEMMA LatestEntries ==
  ASSUME RingInv
  PROVE  \/ RbSuffix(rbVals, RbBacklog) = <<>>
         \/ \E n \in 1 .. RbBacklog :
              /\ n <= rbCount
              /\ RbSuffix(rbVals, RbBacklog) = [i \in 1..n |-> rbCount - n + i]
<1> DEFINE v == RbSuffix(rbVals, RbBacklog)
           n == Len(v)
<1>1. /\ rbVals \in Seq(Nat) /\ rbCount \in Nat /\ Len(rbVals) \in Nat /\ RbBacklog \in Nat \ {0}
      /\ Len(rbVals) <= rbCount
      /\ \A i \in 1 .. Len(rbVals) : rbVals[i] = rbCount - Len(rbVals) + i
  BY RingAssumption DEF RingInv, RbTypes, RbLatest
<1>2. /\ v \in Seq(Nat) /\ n = (IF RbBacklog >= Len(rbVals) THEN Len(rbVals) ELSE RbBacklog)
      /\ \A i \in 1 .. n : v[i] = rbVals[Len(rbVals) - n + i]
  BY <1>1, SuffixProperties
<1> HIDE DEF v
<1>3. n \in Nat /\ n <= RbBacklog /\ n <= Len(rbVals) /\ n <= rbCount
  BY <1>1, <1>2
<1>4. ASSUME NEW i \in 1 .. n PROVE v[i] = rbCount - n + i
  <2> DEFINE j == Len(rbVals) - n + i
  <2> HIDE DEF n
  <2>1. j \in 1 .. Len(rbVals)
    BY <1>1, <1>3
  <2>2. v[i] = rbVals[j] /\ rbVals[j] = rbCount - Len(rbVals) + j
    BY <1>1, <1>2, <2>1
  <2>3. rbCount - Len(rbVals) + j = rbCount - n + i
    BY <1>1, <1>3
  <2> QED
    BY <2>2, <2>3
<1>5. v = [i \in 1 .. n |-> rbCount - n + i]
  <2>1. v = [i \in 1 .. n |-> v[i]]
    BY <1>2, LenProperties
  <2> QED
    BY <1>4, <2>1
<1>6. CASE n = 0
  BY <1>2, <1>6, EmptySeq DEF v
<1>7. CASE n # 0
  <2> HIDE DEF n
  <2>1. n \in 1 .. RbBacklog
    BY <1>1, <1>3, <1>7
  <2>2. \E m \in 1 .. RbBacklog : m <= rbCount /\ v = [i \in 1..m |-> rbCount - m + i]
    BY <1>3, <1>5, <2>1
  <2> QED
    BY <2>2 DEF v
<1> QED
  BY <1>6, <1>7

(* Get reads the backlog: the latest entries are replayed, if there are    *)
(* any.                                                                    *)
LEMMA RbGetStep ==
  ASSUME RingInv, NEW r \in RbReaders, RbGet(r)
  PROVE  /\ RingInv'
         /\ \/ UNCHANGED <<rbCount, RbFeed>>
            \/ \E n \in 1 .. RbBacklog : Feed!FeedReplay(r, n)
<1> DEFINE s == rbStream[r]
           v == RbSuffix(rbVals, RbBacklog)
<1> HIDE DEF v
<1>1. /\ UNCHANGED <<rbCount, rbVals, rbLock, rbTodo, rbGot>> /\ s.pc = "opened" /\ rbTodo = {}
      /\ rbStream' = [rbStream EXCEPT ![r].pc = "streaming", ![r].last = v, ![r].kept = v]
  BY DEF RbGet, RingInv, RbSending, v
<1>2. /\ s \in RbStreamRecords /\ rbTodo = {} /\ rbCount \in Nat
      /\ rbGot[r] = <<>> /\ s.records = <<>> /\ s.last = <<>> /\ s.kept = <<>>
      /\ s.entries \in Seq(Nat) /\ s.start \in Nat
  BY <1>1 DEF RingInv, RbTypes, RbSending, RbEmpty, RbStreamRecords
<1>3. v \in Seq(Nat) /\ Len(v) \in Nat
  BY SuffixProperties, RingAssumption, LenProperties DEF RingInv, RbTypes, v
<1>4. /\ rbStream' \in [RbReaders -> RbStreamRecords]
      /\ \A q \in RbReaders \ {r} : rbStream'[q] = rbStream[q] /\ rbGot'[q] = rbGot[q]
      /\ rbStream'[r] = [s EXCEPT !.pc = "streaming", !.last = v, !.kept = v]
  BY <1>1, <1>2, <1>3 DEF RingInv, RbTypes, RbStreamRecords
<1>5. /\ rbStream'[r].pc = "streaming" /\ rbStream'[r].start = s.start
      /\ rbStream'[r].entries = s.entries
      /\ rbStream'[r].closed = s.closed /\ rbStream'[r].last = v
      /\ rbStream'[r].kept = v /\ rbStream'[r].records = <<>> /\ rbGot'[r] = <<>>
  BY <1>1, <1>2, <1>4 DEF RbStreamRecords
<1>6. RbPipe(r) = s.entries
  <2>1. RbPipe(r) = <<>> \o <<>> \o <<>> \o s.entries
    BY <1>2 DEF RbPipe
  <2> HIDE DEF s
  <2> QED
    BY <1>2, <2>1, ConcatEmptySeq
<1>7. RbPipe(r)' = v \o s.entries
  <2>1. RbPipe(r)' = <<>> \o <<>> \o v \o s.entries
    BY <1>5 DEF RbPipe
  <2> QED
    BY <1>3, <2>1, ConcatEmptySeq
<1>8. RbNew(r) = s.entries
  <2>1. RbNew(r) = SubSeq(s.entries, 1, Len(s.entries))
    BY <1>2, <1>6 DEF RbNew
  <2> QED
    BY <1>2, <2>1, SubSeqFull
<1>9. RbNew(r)' = s.entries
  <2>1. RbNew(r)' = SubSeq(v \o s.entries, Len(v) + 1, Len(v \o s.entries))
    BY <1>5, <1>7 DEF RbNew
  <2> HIDE DEF s
  <2> QED
    BY <1>2, <1>3, <2>1, AfterFirst
<1>10. RbEmpty(r)'
  BY <1>5 DEF RbEmpty
<1>11. RbOwed(r)'
  <2>1. Len(RbPipe(r)') = Len(v) + Len(s.entries) /\ Len(s.entries) \in Nat
    BY <1>2, <1>3, <1>7, ConcatProperties, LenProperties
  <2>2. s.closed = FALSE => s.start + (Len(s.entries) - 0) = rbCount - 0
    <3>1. s.pc # "none" /\ r \notin rbTodo /\ Len(s.kept) = 0 /\ RbOwed(r)
      BY <1>1, <1>2 DEF RingInv
    <3> QED
      BY <1>6, <3>1 DEF RbOwed
  <2> HIDE DEF s
  <2>3. /\ Len(v) <= Len(RbPipe(r)')
        /\ s.closed = FALSE => s.start + (Len(RbPipe(r)') - Len(v)) = rbCount - 0
    BY <1>2, <1>3, <2>1, <2>2
  <2>4. r \notin rbTodo'
    BY <1>1, <1>2
  <2> QED
    BY <1>1, <1>5, <2>3, <2>4 DEF RbOwed
<1>12. RingInv'
  BY <1>1, <1>2, <1>4, <1>10, <1>11, OneStream DEF RingInv, RbTypes
<1>13. RbFeedOf(r) = FeedRecord(RbOpened(r), s.closed, s.start, <<>>, s.entries)
  BY <1>2, <1>8 DEF RbFeedOf
<1>14. RbFeedOf(r)' = FeedRecord(RbOpened(r), s.closed, s.start, v, s.entries)
  <2>1. RbOpened(r)' = RbOpened(r)
    BY <1>1, <1>5 DEF RbOpened
  <2> QED
    BY <1>5, <1>9, <2>1 DEF RbFeedOf
<1>15. /\ RbFeed' = [RbFeed EXCEPT ![r] = RbFeedOf(r)'] /\ RbFeed[r] = RbFeedOf(r)
       /\ RbFeedOf(r)' = RbFeedOf(r) => RbFeed' = RbFeed
  BY <1>4, OneFeed
<1>16. CASE v = <<>>
  BY <1>1, <1>12, <1>13, <1>14, <1>15, <1>16
<1>17. CASE v # <<>>
  <2> HIDE DEF s
  <2>1. PICK n \in 1 .. RbBacklog : n <= rbCount /\ v = [i \in 1..n |-> rbCount - n + i]
    BY <1>17, LatestEntries DEF v
  <2>2. /\ RbFeed[r].open = RbOpened(r) /\ RbFeed[r].old = <<>>
        /\ RbFeedOf(r)' = [RbFeed[r] EXCEPT !.old = v]
    BY <1>13, <1>14, <1>15, FeedRecordFields, EditOld
  <2>3. RbFeed' = [RbFeed EXCEPT ![r].old = v]
    BY <1>15, <2>2
  <2>4. Feed!FeedReplay(r, n)
    BY <1>1, <2>1, <2>2, <2>3 DEF Feed!FeedReplay, RbOpened, s
  <2> QED
    BY <1>12, <2>1, <2>4
<1> QED
  BY <1>16, <1>17

(* A step of one stream that moves its records on, or marks it stopped.    *)
LEMMA PipeMovesOn ==
  ASSUME RingInv, NEW r \in RbReaders, UNCHANGED <<rbCount, rbVals, rbLock, rbTodo>>,
         \A q \in RbReaders \ {r} : rbStream'[q] = rbStream[q] /\ rbGot'[q] = rbGot[q],
         rbStream' \in [RbReaders -> RbStreamRecords], rbGot' \in [RbReaders -> Seq(Nat)],
         rbStream[r].pc = "streaming",
         rbStream'[r].pc = rbStream[r].pc, rbStream'[r].closed = rbStream[r].closed,
         rbStream'[r].start = rbStream[r].start, rbStream'[r].kept = rbStream[r].kept,
         RbPipe(r)' = RbPipe(r)
  PROVE  RingInv' /\ UNCHANGED <<rbCount, RbFeed>>
<1>1. RbEmpty(r)'
  BY DEF RbEmpty
<1>2. RbOwed(r)'
  BY DEF RingInv, RbOwed
<1>3. r \in rbTodo' => rbStream'[r].pc # "none" /\ rbStream'[r].closed = FALSE
  BY DEF RingInv, RbSending
<1>4. RingInv'
  BY <1>1, <1>2, <1>3, OneStream
<1>5. RbNew(r)' = RbNew(r)
  BY DEF RbNew
<1>6. RbFeedOf(r)' = RbFeedOf(r)
  BY <1>5 DEF RbFeedOf, RbOpened
<1> QED
  BY <1>4, <1>6, OneFeed

(* The goroutine of the log moves a record of the backlog, or an entry, to *)
(* the reader: the feed knows no difference.                               *)
LEMMA RbForwardStep ==
  ASSUME RingInv, NEW r \in RbReaders, RbForward(r)
  PROVE  RingInv' /\ UNCHANGED <<rbCount, RbFeed>>
<1> DEFINE s == rbStream[r]
           g == rbGot[r]
<1>1. /\ UNCHANGED <<rbCount, rbVals, rbLock, rbTodo, rbGot>> /\ s.pc = "streaming"
      /\ s.last \o s.entries # <<>>
      /\ rbStream' = [rbStream EXCEPT ![r] =
           IF s.last # <<>> THEN [s EXCEPT !.records = Append(@, Head(s.last)), !.last = Tail(@)]
           ELSE [s EXCEPT !.records = Append(@, Head(s.entries)), !.entries = Tail(@)]]
  BY DEF RbForward
<1>2. /\ s \in RbStreamRecords /\ g \in Seq(Nat) /\ s.records \in Seq(Nat)
      /\ s.last \in Seq(Nat) /\ s.entries \in Seq(Nat)
      /\ rbStream \in [RbReaders -> RbStreamRecords] /\ rbGot \in [RbReaders -> Seq(Nat)]
  BY DEF RingInv, RbTypes, RbStreamRecords
<1>3. RbPipe(r) = g \o s.records \o s.last \o s.entries
  BY DEF RbPipe
<1>4. CASE s.last # <<>>
  <2> DEFINE p == Append(s.records, Head(s.last))
             l == Tail(s.last)
  <2>1. p \in Seq(Nat) /\ l \in Seq(Nat)
    BY <1>2, <1>4, HeadTailProperties, AppendProperties
  <2>2. rbStream' = [rbStream EXCEPT ![r] = [s EXCEPT !.records = p, !.last = l]]
    BY <1>1, <1>4
  <2> HIDE DEF p, l
  <2>3. /\ rbStream' \in [RbReaders -> RbStreamRecords]
        /\ \A q \in RbReaders \ {r} : rbStream'[q] = rbStream[q]
        /\ rbStream'[r].pc = s.pc /\ rbStream'[r].start = s.start
        /\ rbStream'[r].entries = s.entries
        /\ rbStream'[r].closed = s.closed /\ rbStream'[r].last = l
        /\ rbStream'[r].kept = s.kept /\ rbStream'[r].records = p
    BY <1>2, <2>1, <2>2 DEF RbStreamRecords
  <2>4. PICK a \in Seq(Nat), b \in Seq(Nat), c \in Seq(Nat), d \in Seq(Nat) :
          a = g /\ b = s.records /\ c = s.last /\ d = s.entries
    BY <1>2, Zenon
  <2>5. /\ RbPipe(r) = a \o b \o c \o d
        /\ RbPipe(r)' = a \o Append(b, Head(c)) \o Tail(c) \o d
    BY <1>1, <1>3, <2>3, <2>4 DEF RbPipe, p, l
  <2>6. RbPipe(r)' = RbPipe(r)
    <3>1. c # <<>>
      BY <1>4, <2>4
    <3>2. a \o Append(b, Head(c)) \o Tail(c) = a \o b \o c
      BY <3>1, BacklogMoves
    <3> QED
      BY <2>5, <3>2, Zenon
  <2> QED
    BY <1>1, <1>2, <2>3, <2>6, PipeMovesOn
<1>5. CASE s.last = <<>>
  <2> DEFINE p == Append(s.records, Head(s.entries))
             l == Tail(s.entries)
  <2>0. s.entries # <<>>
    BY <1>1, <1>2, <1>5, ConcatEmptySeq
  <2>1. p \in Seq(Nat) /\ l \in Seq(Nat)
    BY <1>2, <2>0, HeadTailProperties, AppendProperties
  <2>2. rbStream' = [rbStream EXCEPT ![r] = [s EXCEPT !.records = p, !.entries = l]]
    BY <1>1, <1>5
  <2> HIDE DEF p, l
  <2>3. /\ rbStream' \in [RbReaders -> RbStreamRecords]
        /\ \A q \in RbReaders \ {r} : rbStream'[q] = rbStream[q]
        /\ rbStream'[r].pc = s.pc /\ rbStream'[r].start = s.start
        /\ rbStream'[r].entries = l
        /\ rbStream'[r].closed = s.closed /\ rbStream'[r].last = s.last
        /\ rbStream'[r].kept = s.kept /\ rbStream'[r].records = p
    BY <1>2, <2>1, <2>2 DEF RbStreamRecords
  <2>4. PICK a \in Seq(Nat), b \in Seq(Nat), d \in Seq(Nat) :
          a = g /\ b = s.records /\ d = s.entries
    BY <1>2, Zenon
  <2>5. /\ RbPipe(r) = a \o b \o <<>> \o d
        /\ RbPipe(r)' = a \o Append(b, Head(d)) \o <<>> \o Tail(d)
    BY <1>1, <1>3, <1>5, <2>3, <2>4 DEF RbPipe, p, l
  <2>6. RbPipe(r)' = RbPipe(r)
    <3>1. d # <<>>
      BY <2>0, <2>4
    <3>2. a \o Append(b, Head(d)) \o <<>> \o Tail(d) = a \o b \o <<>> \o d
      BY <3>1, EntryMoves
    <3> QED
      BY <2>5, <3>2, Zenon
  <2> QED
    BY <1>1, <1>2, <2>3, <2>6, PipeMovesOn
<1> QED
  BY <1>4, <1>5

(* Nor when the reader takes the record.                                   *)
LEMMA RbReadStep ==
  ASSUME RingInv, NEW r \in RbReaders, RbRead(r)
  PROVE  RingInv' /\ UNCHANGED <<rbCount, RbFeed>>
<1> DEFINE s == rbStream[r]
           g == rbGot[r]
           h == Append(g, Head(s.records))
           t == Tail(s.records)
<1>1. /\ UNCHANGED <<rbCount, rbVals, rbLock, rbTodo>> /\ s.records # <<>>
      /\ rbGot' = [rbGot EXCEPT ![r] = h] /\ rbStream' = [rbStream EXCEPT ![r].records = t]
  BY DEF RbRead
<1>2. /\ s \in RbStreamRecords /\ g \in Seq(Nat) /\ s.records \in Seq(Nat)
      /\ rbStream \in [RbReaders -> RbStreamRecords] /\ rbGot \in [RbReaders -> Seq(Nat)]
  BY DEF RingInv, RbTypes, RbStreamRecords
<1>3. s.pc = "streaming"
  BY <1>1 DEF RingInv, RbEmpty
<1>4. h \in Seq(Nat) /\ t \in Seq(Nat) /\ h \o t = g \o s.records
  <2> HIDE DEF s, g
  <2> QED
    BY <1>1, <1>2, HeadTailProperties, AppendProperties, MoveHead
<1> HIDE DEF h, t
<1>5. /\ rbStream' \in [RbReaders -> RbStreamRecords] /\ rbGot' \in [RbReaders -> Seq(Nat)]
      /\ \A q \in RbReaders \ {r} : rbStream'[q] = rbStream[q] /\ rbGot'[q] = rbGot[q]
      /\ rbStream'[r].pc = s.pc /\ rbStream'[r].start = s.start
      /\ rbStream'[r].entries = s.entries
      /\ rbStream'[r].closed = s.closed /\ rbStream'[r].last = s.last
      /\ rbStream'[r].kept = s.kept /\ rbStream'[r].records = t /\ rbGot'[r] = h
  BY <1>1, <1>2, <1>4 DEF RbStreamRecords
<1>6. RbPipe(r)' = RbPipe(r)
  BY <1>4, <1>5 DEF RbPipe
<1> QED
  BY <1>1, <1>3, <1>5, <1>6, PipeMovesOn

(* Nor when it calls Stop, which Put notices at its next entry only.       *)
LEMMA RbStopStep ==
  ASSUME RingInv, NEW r \in RbReaders, RbStop(r)
  PROVE  RingInv' /\ UNCHANGED <<rbCount, RbFeed>>
<1> DEFINE s == rbStream[r]
<1>1. /\ UNCHANGED <<rbCount, rbVals, rbLock, rbTodo, rbGot>> /\ s.pc = "streaming"
      /\ rbStream' = [rbStream EXCEPT ![r].stop = TRUE]
  BY DEF RbStop
<1>2. rbStream \in [RbReaders -> RbStreamRecords] /\ rbGot \in [RbReaders -> Seq(Nat)]
  BY DEF RingInv, RbTypes
<1>3. /\ rbStream' \in [RbReaders -> RbStreamRecords] /\ rbGot' \in [RbReaders -> Seq(Nat)]
      /\ \A q \in RbReaders \ {r} : rbStream'[q] = rbStream[q] /\ rbGot'[q] = rbGot[q]
      /\ rbStream'[r].pc = s.pc /\ rbStream'[r].start = s.start
      /\ rbStream'[r].entries = s.entries
      /\ rbStream'[r].closed = s.closed /\ rbStream'[r].last = s.last
      /\ rbStream'[r].kept = s.kept /\ rbStream'[r].records = s.records
      /\ rbGot'[r] = rbGot[r]
  BY <1>1, <1>2 DEF RbStreamRecords
<1>4. RbPipe(r)' = RbPipe(r)
  BY <1>3 DEF RbPipe
<1> QED
  BY <1>1, <1>3, <1>4, PipeMovesOn

(* Every step of the ring buffer keeps the invariant and is a step of the  *)
(* feed or none.                                                           *)
LEMMA RingStep == RingInv /\ [RingNext]_rbVars => RingInv' /\ [Feed!FeedNext]_(Feed!feedVars)
<1> SUFFICES ASSUME RingInv, [RingNext]_rbVars
             PROVE  RingInv' /\ (Feed!FeedNext \/ UNCHANGED <<rbCount, RbFeed>>)
  BY DEF Feed!feedVars
<1>1. CASE RbPut
  BY <1>1, RbPutStep DEF Feed!FeedNext
<1>2. CASE RbPutReturns \/ UNCHANGED rbVars
  BY <1>2, RbIdleStep
<1>3. ASSUME NEW r \in RbReaders, RbOffer(r) \/ RbDrop(r) \/ RbOpen(r)
      PROVE  RingInv' /\ Feed!FeedNext
  BY <1>3, RbOfferStep, RbDropStep, RbOpenStep DEF Feed!FeedNext
<1>4. ASSUME NEW r \in RbReaders, RbGet(r)
      PROVE  RingInv' /\ (Feed!FeedNext \/ UNCHANGED <<rbCount, RbFeed>>)
  BY <1>4, RbGetStep DEF Feed!FeedNext
<1>5. ASSUME NEW r \in RbReaders, RbForward(r) \/ RbRead(r) \/ RbStop(r)
      PROVE  RingInv' /\ UNCHANGED <<rbCount, RbFeed>>
  BY <1>5, RbForwardStep, RbReadStep, RbStopStep
<1> QED
  BY <1>1, <1>2, <1>3, <1>4, <1>5 DEF RingNext

(* ring.Buffer with the memory log on top of it implements LogFeed: a      *)
(* reader gets at most a backlog of the latest entries, and after it every *)
(* entry written since its stream was opened, each once, in order and      *)
(* without a gap, until the stream is over; for any number of readers, any *)
(* size and any backlog.                                                   *)
THEOREM RingStreamIsFeed == RingInit /\ [][RingNext]_rbVars => StreamIsFeed
<1>1. RingInit => RingInv /\ Feed!FeedInit
  BY RingInitially
<1>2. RingInv /\ [RingNext]_rbVars => RingInv' /\ [Feed!FeedNext]_(Feed!feedVars)
  BY RingStep
<1> QED
  BY <1>1, <1>2, PTL DEF StreamIsFeed, Feed!FeedSpec

-----------------------------------------------------------------------------

(* What is in a queue,                                                     *)
Items(q) == {q[i] : i \in 1 .. Len(q)}

(* and that nothing is in it twice.                                        *)
Once(q) == \A i, j \in 1 .. Len(q) : q[i] = q[j] => i = j

(* Where a Send is,                                                        *)
HtSendPcs == {"new", "eof", "listed", "sent", "failed"}

(* where a Recv is,                                                        *)
HtRecvPcs == {"new", "waiting", "reading", "done", "failed", "eof"}

(* a Recv with the request it took and the response it returned,           *)
HtReceive == [pc : HtRecvPcs, req : SUBSET HtSends, got : SUBSET HtSends]

(* and the server's socket.                                                *)
HtSocket == [first : Seq(HtSends), open : BOOLEAN, accepted : BOOLEAN, pending : Seq(HtSends)]

(* The types of the variables.                                             *)
HtTypes ==
  /\ htSend \in [HtSends -> HtSendPcs]
  /\ htRecv \in [HtRecvs -> HtReceive]
  /\ htList \in Seq(HtSends) /\ htChan \in Seq(HtSends) /\ htOrder \in Seq(HtSends)
  /\ htOut \in Seq(HtSends) /\ htIn \in Seq(HtSends)
  /\ htSock \in HtSocket

(* Close marks the client before it closes the channel.                    *)
HtClosing ==
  /\ htPanic = FALSE
  /\ htChanClosed = TRUE => htClosed = TRUE
  /\ htClose = "marked" => htClosed = TRUE

(* Recvs took the first k requests, and a Recv that has not begun none.    *)
HtTaken ==
  /\ \A r \in HtRecvs : htRecv[r].pc = "new" => htRecv[r].req = {}
  /\ \E k \in 0 .. Len(htOrder) :
       /\ htChan \o htList = SubSeq(htOrder, k + 1, Len(htOrder))
       /\ UNION {htRecv[r].req : r \in HtRecvs} = {htOrder[i] : i \in 1 .. k}

(* The requests that were written to the wire.                             *)
HtSent == {s \in HtSends : htSend[s] = "sent"}

(* Four queues without a common element, that hold elements of W, and what *)
(* each Recv took out of them for itself.                                  *)
HtApart(I, P, F, O, W, G) ==
  /\ I \cap P = {} /\ I \cap F = {} /\ I \cap O = {}
  /\ P \cap F = {} /\ P \cap O = {} /\ F \cap O = {}
  /\ I \cup P \cup F \cup O \subseteq W
  /\ \A r \in HtRecvs : G[r] \subseteq W \ (I \cup P \cup F \cup O)
  /\ \A r, q \in HtRecvs : r # q => G[r] \cap G[q] = {}

(* The responses that were returned.                                       *)
HtGot == [r \in HtRecvs |-> htRecv[r].got]

(* A request is at one place of the way to the server and back, once.      *)
HtWire ==
  /\ Once(htIn) /\ Once(htSock.pending) /\ Once(htOut)
  /\ htSock.first = <<>> \/ \E x \in HtSends : htSock.first = <<x>>
  /\ HtApart(Items(htIn), Items(htSock.pending), Items(htSock.first), Items(htOut),
             HtSent, HtGot)

(* The inductive invariant.                                                *)
HtInv == HtTypes /\ HtClosing /\ HtTaken /\ HtWire

-----------------------------------------------------------------------------

(* Taking the first element of a queue without duplicates.                 *)
LEMMA TakeOnce ==
  ASSUME NEW S, NEW q \in Seq(S), q # <<>>, Once(q)
  PROVE  /\ Head(q) \in S /\ Tail(q) \in Seq(S) /\ Once(Tail(q))
         /\ Head(q) \in Items(q) /\ Items(Tail(q)) = Items(q) \ {Head(q)}
<1>1. /\ Len(q) \in Nat \ {0} /\ Head(q) \in S /\ Head(q) = q[1] /\ Tail(q) \in Seq(S)
      /\ Len(Tail(q)) = Len(q) - 1
      /\ \A i \in 1 .. Len(q) - 1 : Tail(q)[i] = q[i + 1]
  BY EmptySeq, HeadTailProperties
<1>2. PICK n \in Nat, t \in Seq(S), x \in S : /\ n = Len(q) - 1 /\ n + 1 = Len(q)
                                              /\ t = Tail(q) /\ x = Head(q)
  <2>1. Len(q) - 1 \in Nat /\ (Len(q) - 1) + 1 = Len(q)
    BY <1>1
  <2> QED BY <1>1, <2>1
<1>3. /\ x = q[1] /\ Len(t) = n /\ \A i \in 1 .. n : t[i] = q[i + 1]
  <2>1. x = q[1] /\ Len(t) = n
    BY <1>1, <1>2
  <2>2. \A i \in 1 .. n : Tail(q)[i] = q[i + 1]
    BY <1>1, <1>2
  <2> QED BY <1>2, <2>1, <2>2
<1>4. \A i, j \in 1 .. n + 1 : q[i] = q[j] => i = j
  BY <1>2 DEF Once
<1>5. Once(t)
  <2> SUFFICES ASSUME NEW i \in 1 .. n, NEW j \in 1 .. n, t[i] = t[j] PROVE i = j
    BY <1>3 DEF Once
  <2>1. i + 1 \in 1 .. n + 1 /\ j + 1 \in 1 .. n + 1
    OBVIOUS
  <2>2. i + 1 = j + 1
    <3>1. q[i + 1] = q[j + 1]
      BY <1>3
    <3> QED BY <1>4, <2>1, <3>1, Zenon
  <2> QED BY <2>2
<1>6. Items(t) = {q[i + 1] : i \in 1 .. n}
  BY <1>3 DEF Items
<1>7. Items(q) = {q[i] : i \in 1 .. n + 1}
  BY <1>2 DEF Items
<1>8. ASSUME NEW y PROVE y \in Items(t) <=> y \in Items(q) /\ y # x
  <2>1. ASSUME y \in Items(t) PROVE y \in Items(q) /\ y # x
    <3>1. PICK i \in 1 .. n : y = q[i + 1]
      BY <2>1, <1>6
    <3>2. i + 1 \in 1 .. n + 1 /\ 1 \in 1 .. n + 1 /\ i + 1 # 1
      OBVIOUS
    <3> QED BY <3>1, <3>2, <1>3, <1>4, <1>7
  <2>2. ASSUME y \in Items(q), y # x PROVE y \in Items(t)
    <3>1. PICK i \in 1 .. n + 1 : y = q[i]
      BY <2>2, <1>7
    <3>2. i # 1
      BY <3>1, <2>2, <1>3
    <3>3. PICK j \in 1 .. n : i = j + 1
      <4>1. i - 1 \in 1 .. n /\ i = (i - 1) + 1
        BY <3>2
      <4> QED BY <4>1
    <3> QED BY <3>1, <3>3, <1>6
  <2> QED BY <2>1, <2>2
<1>9. x \in Items(q)
  <2>1. 1 \in 1 .. n + 1
    OBVIOUS
  <2> QED BY <2>1, <1>3, <1>7
<1> QED BY <1>1, <1>2, <1>5, <1>8, <1>9

(* Appending a new element to one.                                         *)
LEMMA AppendOnce ==
  ASSUME NEW S, NEW q \in Seq(S), Once(q), NEW x \in S, x \notin Items(q)
  PROVE  /\ Append(q, x) \in Seq(S) /\ Once(Append(q, x))
         /\ Items(Append(q, x)) = Items(q) \cup {x}
<1>1. /\ Append(q, x) \in Seq(S) /\ Len(Append(q, x)) = Len(q) + 1
      /\ \A i \in 1 .. Len(q) : Append(q, x)[i] = q[i]
      /\ Append(q, x)[Len(q) + 1] = x
  BY AppendProperties
<1>2. PICK n \in Nat, a \in Seq(S) : n = Len(q) /\ a = Append(q, x)
  BY <1>1, LenProperties
<1>3. Len(a) = n + 1 /\ (\A i \in 1 .. n : a[i] = q[i]) /\ a[n + 1] = x
  BY <1>1, <1>2
<1>4. \A i \in 1 .. n : q[i] # x
  BY <1>2 DEF Items
<1>5. Once(a)
  <2>1. \A i, j \in 1 .. n : q[i] = q[j] => i = j
    BY <1>2 DEF Once
  <2>2. \A i \in 1 .. n + 1 : i \in 1 .. n \/ i = n + 1
    OBVIOUS
  <2> QED BY <1>3, <1>4, <2>1, <2>2 DEF Once
<1>6. Items(a) = Items(q) \cup {x}
  <2>1. 1 .. n + 1 = (1 .. n) \cup {n + 1}
    OBVIOUS
  <2>2. Items(a) = {a[i] : i \in (1 .. n) \cup {n + 1}}
    BY <1>3, <2>1 DEF Items
  <2>3. Items(q) = {q[i] : i \in 1 .. n}
    BY <1>2 DEF Items
  <2> QED BY <1>3, <2>2, <2>3
<1> QED BY <1>1, <1>2, <1>5, <1>6

(* A queue of no and of one element.                                       *)
LEMMA OneItem ==
  /\ Items(<<>>) = {}
  /\ \A x : Items(<<x>>) = {x}
  BY DEF Items

(* The empty queue has no duplicates.                                      *)
LEMMA NoneOnce == Once(<<>>)
  BY DEF Once

(* Taking the head of a concatenation from its first part.                 *)
LEMMA SuffixHead ==
  ASSUME NEW S, NEW p \in Seq(S), NEW k \in 0 .. Len(p), NEW q \in Seq(S), q # <<>>,
         NEW b \in Seq(S), q \o b = SubSeq(p, k + 1, Len(p))
  PROVE  /\ k + 1 \in 0 .. Len(p) /\ Head(q) = p[k + 1]
         /\ Tail(q) \o b = SubSeq(p, k + 1 + 1, Len(p))
<1> DEFINE h == Head(q)
           c == Tail(q) \o b
<1>1. /\ Len(q) \in Nat \ {0} /\ h \in S /\ Tail(q) \in Seq(S) /\ <<h>> \in Seq(S)
  BY EmptySeq, HeadTailProperties
<1>2. q = <<h>> \o Tail(q)
  <2>1. SubSeq(q, 1, Len(q)) = <<q[1]>> \o SubSeq(q, 2, Len(q))
    BY <1>1, SubSeqRecursiveFirst
  <2>2. h = q[1]
    BY <1>1
  <2> QED BY <2>1, <2>2, TailIsSubSeq, SubSeqFull
<1>3. c \in Seq(S) /\ q \o b = <<h>> \o c
  <2>1. (<<h>> \o Tail(q)) \o b = <<h>> \o (Tail(q) \o b)
    BY <1>1, ConcatAssociative
  <2>2. c \in Seq(S)
    BY <1>1, ConcatProperties
  <2> QED BY <1>2, <2>1, <2>2
<1>4. PICK e : e = q \o b
  OBVIOUS
<1>5. /\ e \in Seq(S) /\ e # <<>> /\ e[1] = h /\ Len(e) \in Nat \ {0}
      /\ Tail(e) = c /\ Head(e) = e[1]
  <2>1. e = <<h>> \o c /\ c \in Seq(S) /\ <<h>> \in Seq(S) /\ Len(<<h>>) = 1 /\ <<h>>[1] = h
    BY <1>1, <1>3, <1>4
  <2> HIDE DEF h, c
  <2>2. PICK d : d = <<h>>
    OBVIOUS
  <2>3. e = d \o c /\ d \in Seq(S) /\ Len(d) = 1 /\ d[1] = h
    BY <2>1, <2>2
  <2>4. /\ e \in Seq(S) /\ Len(e) = 1 + Len(c) /\ e[1] = d[1]
    <3>1. /\ e \in Seq(S) /\ Len(e) = 1 + Len(c)
          /\ \A i \in 1 .. 1 + Len(c) : e[i] = IF i <= 1 THEN d[i] ELSE c[i - 1]
      BY <2>1, <2>3, ConcatProperties
    <3>2. Len(c) \in Nat
      BY <2>1, LenProperties
    <3> QED BY <3>1, <3>2
  <2>5. Len(e) \in Nat \ {0} /\ e # <<>>
    <3>1. Len(c) \in Nat
      BY <2>1, LenProperties
    <3>2. Len(e) \in Nat \ {0}
      BY <3>1, <2>4
    <3> QED BY <3>2, <2>4, EmptySeq
  <2>6. SubSeq(e, 1 + 1, Len(e)) = c
    BY <2>1, <2>3, AfterFirst
  <2>7. Tail(e) = SubSeq(e, 2, Len(e))
    BY <2>4, <2>5, TailIsSubSeq
  <2>8. 1 + 1 = 2
    OBVIOUS
  <2>9. Head(e) = e[1]
    BY <2>4, <2>5
  <2> QED BY <2>3, <2>4, <2>5, <2>6, <2>7, <2>8, <2>9
<1> HIDE DEF c, h
<1>6. PICK n \in Nat : n = Len(p)
  BY LenProperties
<1>7. k + 1 \in 1 .. n /\ n \in k + 1 .. n
  <2>1. CASE k < n
    BY <2>1, <1>6
  <2>2. CASE k = n
    <3>1. SubSeq(p, k + 1, n) = <<>>
      BY <2>2, <1>6, EmptySeq, SubSeqProperties
    <3> QED BY <3>1, <1>4, <1>5, <1>6
  <2> QED BY <2>1, <2>2, <1>6
<1>8. /\ Head(e) = p[k + 1]
      /\ Tail(e) = SubSeq(p, k + 1 + 1, n)
  <2>1. e = SubSeq(p, k + 1, n)
    BY <1>4, <1>6
  <2>2. PICK m \in 1 .. Len(p) : m = k + 1 /\ n \in m .. Len(p)
    BY <1>6, <1>7
  <2>3. Head(SubSeq(p, m, n)) = p[m] /\ Tail(SubSeq(p, m, n)) = SubSeq(p, m + 1, n)
    BY <2>2, HeadTailOfSubSeq
  <2> QED BY <2>1, <2>2, <2>3
<1>9. /\ h = p[k + 1] /\ c = SubSeq(p, k + 1 + 1, Len(p))
  BY <1>5, <1>6, <1>8
<1>10. k + 1 \in 0 .. Len(p)
  BY <1>6, <1>7
<1> QED BY <1>9, <1>10 DEF c, h

(* A step that neither lists nor takes a request.                          *)
LEMMA HtTakenSame ==
  ASSUME HtTaken, htChan' = htChan, htList' = htList, htOrder' = htOrder,
         \A r \in HtRecvs : htRecv'[r].req = htRecv[r].req
                            /\ (htRecv'[r].pc = "new" => htRecv[r].pc = "new")
  PROVE  HtTaken'
<1>1. {htRecv'[r].req : r \in HtRecvs} = {htRecv[r].req : r \in HtRecvs}
  OBVIOUS
<1>2. UNION {htRecv'[r].req : r \in HtRecvs} = UNION {htRecv[r].req : r \in HtRecvs}
  BY <1>1
<1>3. PICK k \in 0 .. Len(htOrder) :
         /\ htChan \o htList = SubSeq(htOrder, k + 1, Len(htOrder))
         /\ UNION {htRecv[r].req : r \in HtRecvs} = {htOrder[i] : i \in 1 .. k}
  BY DEF HtTaken
<1>4. /\ k \in 0 .. Len(htOrder')
      /\ htChan' \o htList' = SubSeq(htOrder', k + 1, Len(htOrder'))
      /\ UNION {htRecv'[r].req : r \in HtRecvs} = {htOrder'[i] : i \in 1 .. k}
  BY <1>2, <1>3
<1>5. \A r \in HtRecvs : htRecv'[r].pc = "new" => htRecv'[r].req = {}
  BY DEF HtTaken
<1> QED BY <1>4, <1>5 DEF HtTaken

(* A step that does not touch the wire.                                    *)
LEMMA HtWireSame ==
  ASSUME HtWire, htIn' = htIn, htOut' = htOut, htSock' = htSock, HtSent' = HtSent,
         \A r \in HtRecvs : htRecv'[r].got = htRecv[r].got
  PROVE  HtWire'
<1>1. HtGot' = HtGot
  BY DEF HtGot
<1> QED BY <1>1 DEF HtWire

(* A connection before Dial satisfies the invariant.                       *)
LEMMA HtInitially ==
  ASSUME HttpTransportInit
  PROVE  HtInv
<1>0. <<>> \in Seq(HtSends)
  BY EmptySeq
<1>1. \A r \in HtRecvs : /\ htRecv[r] \in HtReceive /\ htRecv[r].req = {} /\ htRecv[r].got = {}
  BY DEF HttpTransportInit, HtReceive, HtRecvPcs
<1>2. htSock \in HtSocket /\ htSock.first = <<>> /\ htSock.pending = <<>>
  BY <1>0 DEF HttpTransportInit, HtSocket
<1>3. HtTypes
  <2>1. htRecv = [r \in HtRecvs |-> htRecv[r]]
    BY DEF HttpTransportInit
  <2>2. htRecv \in [HtRecvs -> HtReceive]
    BY <1>1, <2>1
  <2> QED BY <1>0, <1>2, <2>2 DEF HttpTransportInit, HtTypes, HtSendPcs
<1>4. HtClosing
  BY DEF HttpTransportInit, HtClosing
<1>5. HtTaken
  <2>1. htChan \o htList = <<>> /\ htOrder = <<>> /\ Len(htOrder) = 0
    BY <1>0, ConcatEmptySeq DEF HttpTransportInit
  <2>2. SubSeq(htOrder, 0 + 1, Len(htOrder)) = <<>>
    BY <2>1, SubSeqEmpty
  <2>3. UNION {htRecv[r].req : r \in HtRecvs} = {}
    BY <1>1
  <2>4. {htOrder[i] : i \in 1 .. 0} = {}
    OBVIOUS
  <2>5. 0 \in 0 .. Len(htOrder)
    BY <2>1
  <2> QED BY <1>1, <2>1, <2>2, <2>3, <2>4, <2>5 DEF HtTaken
<1>6. HtWire
  <2>1. htIn = <<>> /\ htOut = <<>>
    BY DEF HttpTransportInit
  <2>2. \A r \in HtRecvs : HtGot[r] = {}
    BY <1>1 DEF HtGot
  <2> QED BY <1>2, <2>1, <2>2, OneItem, NoneOnce DEF HtWire, HtApart
<1> QED BY <1>3, <1>4, <1>5, <1>6 DEF HtInv

(* Dial and Close.                                                         *)
LEMMA HtConnectionStep ==
  ASSUME HtInv, HtDial \/ HtCloseCall \/ HtMarkClosed \/ HtCloseChan \/ HtCloseConn
  PROVE  HtInv'
<1>1. UNCHANGED <<htSend, htRecv, htList, htChan, htOrder, htOut, htIn, htSock, htPanic>>
  BY DEF HtDial, HtCloseCall, HtMarkClosed, HtCloseChan, HtCloseConn, htClientVars
<1>2. HtClosing'
  BY DEF HtInv, HtClosing, HtDial, HtCloseCall, HtMarkClosed, HtCloseChan, HtCloseConn,
         htClientVars
<1>3. HtTypes'
  BY <1>1 DEF HtInv, HtTypes
<1>4. HtTaken'
  BY <1>1, HtTakenSame DEF HtInv
<1>5. HtWire'
  <2>1. HtSent' = HtSent
    BY <1>1 DEF HtSent
  <2> QED BY <1>1, <2>1, HtWireSame DEF HtInv
<1> QED BY <1>2, <1>3, <1>4, <1>5 DEF HtInv

(* Send puts its request at the end of channel and list.                   *)
LEMMA HtListStep ==
  ASSUME HtInv, NEW s \in HtSends, HtList(s)
  PROVE  HtInv'
<1>0. /\ HtTypes /\ HtClosing /\ HtTaken /\ HtWire /\ htSend[s] = "new"
      /\ UNCHANGED <<htRecv, htClose, htChanClosed, htClosed, htOut, htIn, htSock>>
  BY DEF HtInv, HtList
<1>1. /\ htSend' \in [HtSends -> HtSendPcs] /\ HtSent' = HtSent
  <2>1. PICK x \in {"eof", "listed"} : htSend' = [htSend EXCEPT ![s] = x]
    BY DEF HtList
  <2> QED BY <1>0, <2>1 DEF HtTypes, HtSendPcs, HtSent
<1>2. HtWire'
  BY <1>0, <1>1, HtWireSame
<1>3. CASE UNCHANGED <<htList, htChan, htOrder, htPanic>>
  <2>1. HtTaken'
    BY <1>0, <1>3, HtTakenSame
  <2>2. HtTypes' /\ HtClosing'
    BY <1>0, <1>1, <1>3 DEF HtTypes, HtClosing
  <2> QED BY <1>2, <2>1, <2>2 DEF HtInv
<1>4. CASE /\ ~htClosed
           /\ htOrder' = Append(htOrder, s)
           /\ htPanic' = (htPanic \/ htChanClosed)
           /\ LET all == Append(htList, s)
              IN  IF Len(htChan) < HtRoom
                  THEN htChan' = Append(htChan, Head(all)) /\ htList' = Tail(all)
                  ELSE htList' = all /\ UNCHANGED htChan
  <2>0. /\ htChan \in Seq(HtSends) /\ htList \in Seq(HtSends) /\ htOrder \in Seq(HtSends)
    BY <1>0 DEF HtTypes
  <2>1. PICK all : all = Append(htList, s)
    OBVIOUS
  <2>2. all \in Seq(HtSends) /\ all # <<>>
    BY <2>0, <2>1, AppendProperties
  <2>3. \/ htChan' = Append(htChan, Head(all)) /\ htList' = Tail(all)
        \/ htList' = all /\ htChan' = htChan
    BY <1>4, <2>1
  <2>4. htChan' \in Seq(HtSends) /\ htList' \in Seq(HtSends) /\ htChan' \o htList' = htChan \o all
    <3>1. CASE htChan' = Append(htChan, Head(all)) /\ htList' = Tail(all)
      <4>1. Head(all) \in HtSends /\ Tail(all) \in Seq(HtSends)
        BY <2>2, HeadTailProperties
      <4>2. Append(htChan, Head(all)) \in Seq(HtSends)
        BY <2>0, <4>1, AppendProperties
      <4>3. Append(htChan, Head(all)) \o Tail(all) = htChan \o all
        BY <2>0, <2>2, MoveHead
      <4> QED BY <3>1, <4>1, <4>2, <4>3
    <3>2. CASE htList' = all /\ htChan' = htChan
      BY <3>2, <2>0, <2>2
    <3> QED BY <2>3, <3>1, <3>2
  <2>5. htChan \o all = Append(htChan \o htList, s)
    BY <2>0, <2>1, ConcatAppend
  <2>6. PICK k \in 0 .. Len(htOrder) :
           /\ htChan \o htList = SubSeq(htOrder, k + 1, Len(htOrder))
           /\ UNION {htRecv[r].req : r \in HtRecvs} = {htOrder[i] : i \in 1 .. k}
    BY <1>0 DEF HtTaken
  <2>7. PICK p : p = htOrder
    OBVIOUS
  <2>8. /\ p \in Seq(HtSends) /\ k \in 0 .. Len(p) /\ htOrder' = Append(p, s)
        /\ Len(p) \in Nat
    BY <1>4, <2>0, <2>6, <2>7, LenProperties
  <2>9. htChan' \o htList' = SubSeq(htOrder', k + 1, Len(htOrder'))
    <3>1. SubSeq(Append(p, s), k + 1, Len(Append(p, s))) = Append(SubSeq(p, k + 1, Len(p)), s)
      BY <2>8, AfterAppend
    <3> QED BY <2>4, <2>5, <2>6, <2>7, <2>8, <3>1
  <2>10. /\ htOrder' \in Seq(HtSends) /\ Len(htOrder') = Len(p) + 1
         /\ \A i \in 1 .. Len(p) : htOrder'[i] = p[i]
    BY <2>8, AppendProperties
  <2>11. k \in 0 .. Len(htOrder') /\ \A i \in 1 .. k : htOrder'[i] = htOrder[i]
    BY <2>7, <2>8, <2>10
  <2>12. {htOrder'[i] : i \in 1 .. k} = {htOrder[i] : i \in 1 .. k}
    BY <2>11
  <2>13. HtTaken'
    <3>1. \A r \in HtRecvs : htRecv'[r].pc = "new" => htRecv'[r].req = {}
      BY <1>0 DEF HtTaken
    <3>2. UNION {htRecv'[r].req : r \in HtRecvs} = {htOrder'[i] : i \in 1 .. k}
      BY <1>0, <2>6, <2>12
    <3> QED BY <2>9, <2>11, <3>1, <3>2 DEF HtTaken
  <2>14. HtTypes'
    BY <1>0, <1>1, <2>4, <2>10 DEF HtTypes
  <2>15. HtClosing'
    BY <1>0, <1>4 DEF HtClosing
  <2> QED BY <1>2, <2>13, <2>14, <2>15 DEF HtInv
<1> QED BY <1>3, <1>4 DEF HtList

(* Send writes its request, once.                                          *)
LEMMA HtWriteStep ==
  ASSUME HtInv, NEW s \in HtSends, HtWrite(s)
  PROVE  HtInv'
<1>0. /\ HtTypes /\ HtClosing /\ HtTaken /\ HtWire /\ htSend[s] = "listed"
      /\ UNCHANGED <<htRecv, htClose, htChanClosed, htClosed, htIn, htSock, htPanic,
                     htList, htChan, htOrder>>
  BY DEF HtInv, HtWrite, htClientVars
<1>1. HtTaken' /\ HtClosing'
  BY <1>0, HtTakenSame DEF HtClosing
<1>2. CASE htSend' = [htSend EXCEPT ![s] = "failed"] /\ htOut' = htOut
  <2>1. htSend' \in [HtSends -> HtSendPcs] /\ HtSent' = HtSent
    BY <1>0, <1>2 DEF HtTypes, HtSendPcs, HtSent
  <2>2. HtWire'
    BY <1>0, <1>2, <2>1, HtWireSame
  <2>3. HtTypes'
    BY <1>0, <1>2, <2>1 DEF HtTypes
  <2> QED BY <1>1, <2>2, <2>3 DEF HtInv
<1>3. CASE htSend' = [htSend EXCEPT ![s] = "sent"] /\ htOut' = Append(htOut, s)
  <2>1. htSend' \in [HtSends -> HtSendPcs] /\ HtSent' = HtSent \cup {s} /\ s \notin HtSent
    BY <1>0, <1>3 DEF HtTypes, HtSendPcs, HtSent
  <2>2. PICK I, P, F, O : /\ I = Items(htIn) /\ P = Items(htSock.pending)
                          /\ F = Items(htSock.first) /\ O = Items(htOut)
    OBVIOUS
  <2>3. HtApart(I, P, F, O, HtSent, HtGot)
    BY <1>0, <2>2 DEF HtWire
  <2>4. htOut \in Seq(HtSends) /\ Once(htOut) /\ s \notin Items(htOut)
    BY <1>0, <2>1, <2>2, <2>3 DEF HtTypes, HtWire, HtApart
  <2>5. htOut' \in Seq(HtSends) /\ Once(htOut') /\ Items(htOut') = O \cup {s}
    BY <1>3, <2>2, <2>4, AppendOnce
  <2>6. HtGot' = HtGot
    BY <1>0 DEF HtGot
  <2>7. PICK W : W = HtSent
    OBVIOUS
  <2>8. HtApart(I, P, F, O \cup {s}, W \cup {s}, HtGot)
    BY <2>1, <2>3, <2>7 DEF HtApart
  <2>9. HtWire'
    BY <1>0, <2>1, <2>2, <2>5, <2>6, <2>7, <2>8 DEF HtWire
  <2>10. HtTypes'
    BY <1>0, <2>1, <2>5 DEF HtTypes
  <2> QED BY <1>1, <2>9, <2>10 DEF HtInv
<1> QED BY <1>2, <1>3 DEF HtWrite

(* A Recv changes: its place, its request or its answer.                   *)
LEMMA HtOneRecv ==
  ASSUME NEW R \in [HtRecvs -> HtReceive], NEW r \in HtRecvs, NEW a \in HtReceive,
         NEW Q, Q = [R EXCEPT ![r] = a]
  PROVE  /\ Q \in [HtRecvs -> HtReceive] /\ Q[r] = a
         /\ \A q \in HtRecvs : q # r => Q[q] = R[q]
  OBVIOUS

(* A Recv that goes on without a request or an answer.                     *)
LEMMA HtRecvMoves ==
  ASSUME HtInv, NEW r \in HtRecvs, NEW x \in HtRecvPcs \ {"new"},
         htRecv' = [htRecv EXCEPT ![r].pc = x],
         UNCHANGED <<htSend, htClose, htList, htChan, htChanClosed, htClosed, htOut, htIn, htSock,
                     htPanic, htOrder>>
  PROVE  HtInv'
<1>1. PICK b \in HtReceive : b = htRecv[r]
  BY DEF HtInv, HtTypes
<1>2. PICK a : a = [b EXCEPT !.pc = x]
  OBVIOUS
<1>3. a \in HtReceive /\ a.pc = x /\ a.req = b.req /\ a.got = b.got
  BY <1>2 DEF HtReceive
<1>4. htRecv' = [htRecv EXCEPT ![r] = a]
  BY <1>1, <1>2
<1>5. /\ htRecv' \in [HtRecvs -> HtReceive] /\ htRecv'[r] = a
      /\ \A q \in HtRecvs : q # r => htRecv'[q] = htRecv[q]
  <2>1. htRecv \in [HtRecvs -> HtReceive]
    BY DEF HtInv, HtTypes
  <2> QED BY <1>3, <1>4, <2>1
<1>6. HtTaken'
  <2>1. \A q \in HtRecvs : htRecv'[q].req = htRecv[q].req
                           /\ (htRecv'[q].pc = "new" => htRecv[q].pc = "new")
    BY <1>1, <1>3, <1>5
  <2> QED BY <2>1, HtTakenSame DEF HtInv
<1>7. HtWire'
  <2>1. HtSent' = HtSent /\ \A q \in HtRecvs : htRecv'[q].got = htRecv[q].got
    BY <1>1, <1>3, <1>5 DEF HtSent
  <2> QED BY <2>1, HtWireSame DEF HtInv
<1>8. HtTypes' /\ HtClosing'
  BY <1>5 DEF HtInv, HtTypes, HtClosing
<1> QED BY <1>6, <1>7, <1>8 DEF HtInv

(* A Recv takes the first request there is.                                *)
LEMMA HtTakeStep ==
  ASSUME HtInv, NEW r \in HtRecvs, HtTake(r)
  PROVE  HtInv'
<1>0. /\ HtTypes /\ HtClosing /\ HtTaken /\ HtWire /\ htRecv[r].pc = "new"
      /\ UNCHANGED <<htSend, htClose, htChanClosed, htClosed, htOut, htIn, htSock, htPanic,
                     htOrder>>
  BY DEF HtInv, HtTake
<1>1. CASE htRecv' = [htRecv EXCEPT ![r].pc = "eof"] /\ UNCHANGED <<htList, htChan>>
  <2>1. "eof" \in HtRecvPcs \ {"new"}
    BY DEF HtRecvPcs
  <2> QED BY <1>0, <1>1, <2>1, HtRecvMoves
<1>2. ASSUME NEW q \in Seq(HtSends), q # <<>>,
             htRecv' = [htRecv EXCEPT ![r].pc = "waiting", ![r].req = {Head(q)}],
             \/ q = htChan /\ htChan' = Tail(q) /\ htList' = htList
             \/ htChan = <<>> /\ q = htList /\ htList' = Tail(q) /\ htChan' = htChan
      PROVE  HtInv'
  <2>0. /\ htChan \in Seq(HtSends) /\ htList \in Seq(HtSends) /\ htOrder \in Seq(HtSends)
        /\ <<>> \in Seq(HtSends)
    BY <1>0, EmptySeq DEF HtTypes
  <2>1. Head(q) \in HtSends /\ Tail(q) \in Seq(HtSends)
    BY <1>2, HeadTailProperties
  <2>2. PICK y \in HtSends : y = Head(q)
    BY <2>1
  <2>3. PICK b \in HtReceive : b = htRecv[r]
    BY <1>0 DEF HtTypes
  <2>4. PICK a : a = [b EXCEPT !.pc = "waiting", !.req = {y}]
    OBVIOUS
  <2>5. a \in HtReceive /\ a.pc = "waiting" /\ a.req = {y} /\ a.got = b.got
    BY <2>4 DEF HtReceive, HtRecvPcs
  <2>6. htRecv' = [htRecv EXCEPT ![r] = a]
    BY <1>2, <2>2, <2>3, <2>4
  <2>7. /\ htRecv' \in [HtRecvs -> HtReceive] /\ htRecv'[r] = a
        /\ \A p \in HtRecvs : p # r => htRecv'[p] = htRecv[p]
    BY <1>0, <2>5, <2>6, HtOneRecv DEF HtTypes
  <2>8. PICK k \in 0 .. Len(htOrder) :
           /\ htChan \o htList = SubSeq(htOrder, k + 1, Len(htOrder))
           /\ UNION {htRecv[p].req : p \in HtRecvs} = {htOrder[i] : i \in 1 .. k}
    BY <1>0 DEF HtTaken
  <2>9. PICK rest \in Seq(HtSends) :
           htChan \o htList = q \o rest /\ htChan' \o htList' = Tail(q) \o rest
    <3>1. CASE q = htChan /\ htChan' = Tail(q) /\ htList' = htList
      BY <3>1, <2>0
    <3>2. CASE htChan = <<>> /\ q = htList /\ htList' = Tail(q) /\ htChan' = htChan
      <4>1. q \o <<>> = q /\ Tail(q) \o <<>> = Tail(q) /\ <<>> \o q = q
            /\ <<>> \o Tail(q) = Tail(q)
        BY <2>1, ConcatEmptySeq
      <4> QED BY <3>2, <4>1, <2>0
    <3> QED BY <1>2, <3>1, <3>2
  <2>10. /\ k + 1 \in 0 .. Len(htOrder) /\ Head(q) = htOrder[k + 1]
         /\ Tail(q) \o rest = SubSeq(htOrder, k + 1 + 1, Len(htOrder))
    <3>1. q \o rest = SubSeq(htOrder, k + 1, Len(htOrder))
      BY <2>8, <2>9
    <3>2. PICK p : p = htOrder
      OBVIOUS
    <3>3. /\ p \in Seq(HtSends) /\ k \in 0 .. Len(p) /\ q \in Seq(HtSends) /\ q # <<>>
          /\ rest \in Seq(HtSends) /\ q \o rest = SubSeq(p, k + 1, Len(p))
      BY <1>2, <2>0, <2>8, <2>9, <3>1, <3>2
    <3>4. /\ k + 1 \in 0 .. Len(p) /\ Head(q) = p[k + 1]
          /\ Tail(q) \o rest = SubSeq(p, k + 1 + 1, Len(p))
      BY <3>3, SuffixHead
    <3> QED BY <3>2, <3>4
  <2>11. UNION {htRecv'[p].req : p \in HtRecvs}
           = (UNION {htRecv[p].req : p \in HtRecvs}) \cup {y}
    <3>1. htRecv[r].req = {} /\ htRecv'[r].req = {y}
      BY <1>0, <2>5, <2>7 DEF HtTaken
    <3>2. \A p \in HtRecvs : p # r => htRecv'[p].req = htRecv[p].req
      BY <2>7
    <3>3. \A z : (\E p \in HtRecvs : z \in htRecv'[p].req)
                   <=> (\E p \in HtRecvs : z \in htRecv[p].req) \/ z = y
      BY <3>1, <3>2
    <3> QED BY <3>3
  <2>12. {htOrder[i] : i \in 1 .. k + 1} = {htOrder[i] : i \in 1 .. k} \cup {y}
    <3>1. 1 .. k + 1 = (1 .. k) \cup {k + 1}
      OBVIOUS
    <3>2. y = htOrder[k + 1]
      BY <2>2, <2>10
    <3> QED BY <3>1, <3>2
  <2>13. HtTaken'
    <3>1. \A p \in HtRecvs : htRecv'[p].pc = "new" => htRecv'[p].req = {}
      BY <1>0, <2>5, <2>7 DEF HtTaken
    <3>2. PICK n : n = k + 1
      OBVIOUS
    <3>3. /\ n \in 0 .. Len(htOrder')
          /\ htChan' \o htList' = SubSeq(htOrder', n + 1, Len(htOrder'))
          /\ UNION {htRecv'[p].req : p \in HtRecvs} = {htOrder'[i] : i \in 1 .. n}
      <4>1. n \in 0 .. Len(htOrder')
        BY <1>0, <2>10, <3>2
      <4>2. htChan' \o htList' = SubSeq(htOrder', n + 1, Len(htOrder'))
        BY <1>0, <2>9, <2>10, <3>2
      <4>3. UNION {htRecv'[p].req : p \in HtRecvs} = {htOrder[i] : i \in 1 .. k + 1}
        BY <2>8, <2>11, <2>12
      <4> QED BY <1>0, <4>1, <4>2, <4>3, <3>2
    <3> QED BY <3>1, <3>3 DEF HtTaken
  <2>14. HtWire'
    <3>1. HtSent' = HtSent /\ \A p \in HtRecvs : htRecv'[p].got = htRecv[p].got
      BY <1>0, <2>3, <2>5, <2>7 DEF HtSent
    <3> QED BY <1>0, <3>1, HtWireSame
  <2>15. htChan' \in Seq(HtSends) /\ htList' \in Seq(HtSends)
    BY <1>2, <2>0, <2>1
  <2>16. HtTypes' /\ HtClosing'
    BY <1>0, <2>7, <2>15 DEF HtTypes, HtClosing
  <2> QED BY <2>13, <2>14, <2>16 DEF HtInv
<1>3. htChan \in Seq(HtSends) /\ htList \in Seq(HtSends)
  BY <1>0 DEF HtTypes
<1>4. CASE /\ htChan # <<>>
           /\ htRecv' = [htRecv EXCEPT ![r].pc = "waiting", ![r].req = {Head(htChan)}]
           /\ htChan' = Tail(htChan)
           /\ UNCHANGED htList
  BY <1>2, <1>3, <1>4
<1>5. CASE /\ htChan = <<>> /\ htList # <<>>
           /\ htRecv' = [htRecv EXCEPT ![r].pc = "waiting", ![r].req = {Head(htList)}]
           /\ htList' = Tail(htList)
           /\ UNCHANGED htChan
  BY <1>2, <1>3, <1>5
<1> QED BY <1>1, <1>4, <1>5 DEF HtTake

(* A Recv takes the lock, or finds the client closed.                      *)
LEMMA HtRecvLocksStep ==
  ASSUME HtInv, NEW r \in HtRecvs, HtRecvLocks(r)
  PROVE  HtInv'
<1>1. PICK x \in {"eof", "reading"} : htRecv' = [htRecv EXCEPT ![r].pc = x]
  BY DEF HtRecvLocks
<1>2. x \in HtRecvPcs \ {"new"}
  BY DEF HtRecvPcs
<1>3. UNCHANGED <<htSend, htClose, htList, htChan, htChanClosed, htClosed, htOut, htIn, htSock,
                  htPanic, htOrder>>
  BY DEF HtRecvLocks
<1> QED BY <1>1, <1>2, <1>3, HtRecvMoves

(* A Recv reads the next response, which nobody else has read.             *)
LEMMA HtReadStep ==
  ASSUME HtInv, NEW r \in HtRecvs, HtRead(r)
  PROVE  HtInv'
<1>0. /\ HtTypes /\ HtClosing /\ HtTaken /\ HtWire /\ htRecv[r].pc = "reading"
      /\ UNCHANGED <<htSend, htClose, htList, htChan, htChanClosed, htClosed, htOut, htSock,
                     htPanic, htOrder>>
  BY DEF HtInv, HtRead
<1>1. CASE htRecv' = [htRecv EXCEPT ![r].pc = "failed"] /\ htIn' = htIn
  <2>1. "failed" \in HtRecvPcs \ {"new"}
    BY DEF HtRecvPcs
  <2> QED BY <1>0, <1>1, <2>1, HtRecvMoves
<1>2. CASE /\ htIn # <<>>
           /\ htRecv' = [htRecv EXCEPT ![r].pc = "done", ![r].got = {Head(htIn)}]
           /\ htIn' = Tail(htIn)
  <2>1. htIn \in Seq(HtSends) /\ Once(htIn)
    BY <1>0 DEF HtTypes, HtWire
  <2>2. PICK y \in HtSends : y = Head(htIn)
    BY <1>2, <2>1, TakeOnce
  <2>3. /\ htIn' \in Seq(HtSends) /\ Once(htIn')
        /\ y \in Items(htIn) /\ Items(htIn') = Items(htIn) \ {y}
    BY <1>2, <2>1, <2>2, TakeOnce
  <2>4. PICK b \in HtReceive : b = htRecv[r]
    BY <1>0 DEF HtTypes
  <2>5. PICK a : a = [b EXCEPT !.pc = "done", !.got = {y}]
    OBVIOUS
  <2>6. a \in HtReceive /\ a.pc = "done" /\ a.req = b.req /\ a.got = {y}
    BY <2>5 DEF HtReceive, HtRecvPcs
  <2>7. htRecv' = [htRecv EXCEPT ![r] = a]
    BY <1>2, <2>2, <2>4, <2>5
  <2>8. /\ htRecv' \in [HtRecvs -> HtReceive] /\ htRecv'[r] = a
        /\ \A p \in HtRecvs : p # r => htRecv'[p] = htRecv[p]
    BY <1>0, <2>6, <2>7, HtOneRecv DEF HtTypes
  <2>9. HtTaken'
    <3>1. \A p \in HtRecvs : htRecv'[p].req = htRecv[p].req
                             /\ (htRecv'[p].pc = "new" => htRecv[p].pc = "new")
      BY <2>4, <2>6, <2>8
    <3> QED BY <1>0, <3>1, HtTakenSame
  <2>10. HtWire'
    <3>1. PICK I, P, F, O, W, G : /\ I = Items(htIn) /\ P = Items(htSock.pending)
                                  /\ F = Items(htSock.first) /\ O = Items(htOut)
                                  /\ W = HtSent /\ G = HtGot
      OBVIOUS
    <3>2. PICK H : H = HtGot'
      OBVIOUS
    <3>3. H[r] = {y} /\ \A p \in HtRecvs : p # r => H[p] = G[p]
      BY <2>6, <2>8, <3>1, <3>2 DEF HtGot
    <3>4. HtApart(I, P, F, O, W, G) /\ y \in I
      BY <1>0, <2>3, <3>1 DEF HtWire
    <3>5. HtApart(I \ {y}, P, F, O, W, H)
      BY <3>3, <3>4 DEF HtApart
    <3>6. HtSent' = W
      BY <1>0, <3>1 DEF HtSent
    <3> QED BY <1>0, <2>3, <3>1, <3>2, <3>5, <3>6 DEF HtWire
  <2>11. HtTypes' /\ HtClosing'
    BY <1>0, <2>3, <2>8 DEF HtTypes, HtClosing
  <2> QED BY <2>9, <2>10, <2>11 DEF HtInv
<1> QED BY <1>1, <1>2 DEF HtRead

(* The server's socket takes requests from the wire,                       *)
LEMMA HtAcceptStep ==
  ASSUME HtInv, HtAccept
  PROVE  HtInv'
<1>0. /\ HtTypes /\ HtClosing /\ HtTaken /\ HtWire /\ htOut # <<>> /\ htOut' = Tail(htOut)
      /\ UNCHANGED <<htSend, htRecv, htClose, htList, htChan, htChanClosed, htClosed, htIn,
                     htPanic, htOrder>>
  BY DEF HtInv, HtAccept, htClientVars
<1>1. htOut \in Seq(HtSends) /\ Once(htOut)
  BY <1>0 DEF HtTypes, HtWire
<1>2. PICK y \in HtSends : y = Head(htOut)
  BY <1>0, <1>1, TakeOnce
<1>3. /\ htOut' \in Seq(HtSends) /\ Once(htOut')
      /\ y \in Items(htOut) /\ Items(htOut') = Items(htOut) \ {y}
  BY <1>0, <1>1, <1>2, TakeOnce
<1>4. PICK b \in HtSocket : b = htSock
  BY <1>0 DEF HtTypes
<1>5. PICK d : d = <<y>>
  OBVIOUS
<1>6. d \in Seq(HtSends) /\ Items(d) = {y}
  BY <1>5, OneItem
<1>7. htSock' = [b EXCEPT !.accepted = TRUE, !.open = TRUE, !.first = d]
  BY <1>2, <1>4, <1>5 DEF HtAccept
<1>8. htSock' \in HtSocket /\ htSock'.first = d /\ htSock'.pending = b.pending
  BY <1>6, <1>7 DEF HtSocket
<1>9. HtWire'
  <2>1. PICK I, P, F, O, W, G : /\ I = Items(htIn) /\ P = Items(htSock.pending)
                                /\ F = Items(htSock.first) /\ O = Items(htOut)
                                /\ W = HtSent /\ G = HtGot
    OBVIOUS
  <2>2. HtApart(I, P, F, O, W, G) /\ y \in O
    BY <1>0, <1>3, <2>1 DEF HtWire
  <2>3. HtApart(I, P, {y}, O \ {y}, W, G)
    BY <2>2 DEF HtApart
  <2>4. /\ Items(htIn') = I /\ Items(htSock'.pending) = P /\ Items(htSock'.first) = {y}
        /\ Items(htOut') = O \ {y} /\ HtSent' = W /\ HtGot' = G
    BY <1>0, <1>3, <1>4, <1>6, <1>8, <2>1 DEF HtSent, HtGot
  <2>5. Once(htIn') /\ Once(htSock'.pending)
    BY <1>0, <1>4, <1>8 DEF HtWire
  <2> QED BY <1>3, <1>5, <1>8, <2>3, <2>4, <2>5 DEF HtWire
<1>10. HtTaken'
  BY <1>0, HtTakenSame
<1>11. HtTypes' /\ HtClosing'
  BY <1>0, <1>3, <1>8 DEF HtTypes, HtClosing
<1> QED BY <1>9, <1>10, <1>11 DEF HtInv

(* hands them to the handler in order,                                     *)
LEMMA HtSockRecvStep ==
  ASSUME HtInv, HtSockRecv
  PROVE  HtInv'
<1>0. /\ HtTypes /\ HtClosing /\ HtTaken /\ HtWire
      /\ UNCHANGED <<htSend, htRecv, htClose, htList, htChan, htChanClosed, htClosed, htIn,
                     htPanic, htOrder>>
  BY DEF HtInv, HtSockRecv, htClientVars
<1>1. PICK b \in HtSocket : b = htSock
  BY <1>0 DEF HtTypes
<1>2. PICK first, pending : first = b.first /\ pending = b.pending
  OBVIOUS
<1>3. /\ pending \in Seq(HtSends) /\ Once(pending) /\ htOut \in Seq(HtSends) /\ Once(htOut)
      /\ first = <<>> \/ \E x \in HtSends : first = <<x>>
  BY <1>0, <1>1, <1>2 DEF HtTypes, HtSocket, HtWire
<1>4. PICK I, P, F, O, W, G : /\ I = Items(htIn) /\ P = Items(pending)
                              /\ F = Items(first) /\ O = Items(htOut)
                              /\ W = HtSent /\ G = HtGot
  OBVIOUS
<1>5. HtApart(I, P, F, O, W, G)
  BY <1>0, <1>1, <1>2, <1>4 DEF HtWire
<1>6. Items(htIn') = I /\ HtSent' = W /\ HtGot' = G /\ Once(htIn')
  BY <1>0, <1>4 DEF HtSent, HtGot, HtWire
<1>7. ASSUME NEW next \in Seq(HtSends), Once(next),
             htSock' \in HtSocket, htSock'.first = <<>>, htSock'.pending = next,
             htOut' \in Seq(HtSends), Once(htOut'),
             HtApart(I, Items(next), {}, Items(htOut'), W, G)
      PROVE  HtInv'
  <2>1. HtWire'
    BY <1>6, <1>7, OneItem DEF HtWire
  <2>2. HtTaken'
    BY <1>0, HtTakenSame
  <2>3. HtTypes' /\ HtClosing'
    BY <1>0, <1>7 DEF HtTypes, HtClosing
  <2> QED BY <2>1, <2>2, <2>3 DEF HtInv
<1>8. CASE /\ first # <<>>
           /\ htSock' = [b EXCEPT !.first = <<>>, !.pending = pending \o first]
           /\ htOut' = htOut
  <2>1. PICK x \in HtSends : first = <<x>>
    BY <1>3, <1>8
  <2>2. F = {x} /\ x \notin Items(pending)
    BY <1>4, <1>5, <2>1, OneItem DEF HtApart
  <2>3. PICK next : next = Append(pending, x)
    OBVIOUS
  <2>4. next \in Seq(HtSends) /\ Once(next) /\ Items(next) = P \cup {x}
    BY <1>3, <1>4, <2>2, <2>3, AppendOnce
  <2>5. next = pending \o first
    BY <1>3, <2>1, <2>3, AppendIsConcat
  <2>6. htSock' = [b EXCEPT !.first = <<>>, !.pending = next]
    BY <1>8, <2>5
  <2>7. PICK e \in Seq(HtSends) : e = <<>>
    BY EmptySeq
  <2>8. htSock' \in HtSocket /\ htSock'.first = e /\ htSock'.pending = next
    BY <2>4, <2>6, <2>7 DEF HtSocket
  <2>9. HtApart(I, P \cup {x}, {}, O, W, G)
    BY <1>5, <2>2 DEF HtApart
  <2>10. htOut' \in Seq(HtSends) /\ Once(htOut') /\ Items(htOut') = O
    BY <1>3, <1>4, <1>8
  <2> QED BY <1>7, <2>4, <2>7, <2>8, <2>9, <2>10
<1>9. CASE /\ first = <<>> /\ htOut # <<>>
           /\ htSock' = [b EXCEPT !.pending = Append(pending, Head(htOut))]
           /\ htOut' = Tail(htOut)
  <2>1. PICK x \in HtSends : x = Head(htOut)
    BY <1>3, <1>9, TakeOnce
  <2>2. /\ htOut' \in Seq(HtSends) /\ Once(htOut') /\ x \in O /\ Items(htOut') = O \ {x}
    BY <1>3, <1>4, <1>9, <2>1, TakeOnce
  <2>3. x \notin Items(pending) /\ F = {}
    BY <1>4, <1>5, <1>9, <2>2, OneItem DEF HtApart
  <2>4. PICK next : next = Append(pending, x)
    OBVIOUS
  <2>5. next \in Seq(HtSends) /\ Once(next) /\ Items(next) = P \cup {x}
    BY <1>3, <1>4, <2>3, <2>4, AppendOnce
  <2>6. htSock' = [b EXCEPT !.pending = next]
    BY <1>9, <2>1, <2>4
  <2>7. htSock' \in HtSocket /\ htSock'.first = first /\ htSock'.pending = next
    BY <1>2, <2>5, <2>6 DEF HtSocket
  <2>8. HtApart(I, P \cup {x}, {}, O \ {x}, W, G)
    BY <1>5, <2>2, <2>3 DEF HtApart
  <2> QED BY <1>7, <1>9, <2>2, <2>5, <2>7, <2>8
<1>10. \/ /\ first # <<>>
          /\ htSock' = [b EXCEPT !.first = <<>>, !.pending = pending \o first]
          /\ htOut' = htOut
       \/ /\ first = <<>> /\ htOut # <<>>
          /\ htSock' = [b EXCEPT !.pending = Append(pending, Head(htOut))]
          /\ htOut' = Tail(htOut)
  BY <1>1, <1>2 DEF HtSockRecv
<1> QED BY <1>8, <1>9, <1>10

(* and sends the answers.                                                  *)
LEMMA HtSockSendStep ==
  ASSUME HtInv, HtSockSend
  PROVE  HtInv'
<1>0. /\ HtTypes /\ HtClosing /\ HtTaken /\ HtWire
      /\ UNCHANGED <<htSend, htRecv, htClose, htList, htChan, htChanClosed, htClosed, htOut,
                     htPanic, htOrder>>
  BY DEF HtInv, HtSockSend, htClientVars
<1>1. PICK b \in HtSocket : b = htSock
  BY <1>0 DEF HtTypes
<1>2. PICK first, pending : first = b.first /\ pending = b.pending
  OBVIOUS
<1>3. /\ pending \in Seq(HtSends) /\ Once(pending) /\ htIn \in Seq(HtSends) /\ Once(htIn)
      /\ first = <<>> \/ \E x \in HtSends : first = <<x>>
  BY <1>0, <1>1, <1>2 DEF HtTypes, HtSocket, HtWire
<1>4. /\ pending # <<>>
      /\ htIn' = Append(htIn, Head(pending)) \/ htIn' = htIn
      /\ htSock' = [b EXCEPT !.pending = Tail(pending)]
  BY <1>1, <1>2 DEF HtSockSend
<1>5. PICK I, P, F, O, W, G : /\ I = Items(htIn) /\ P = Items(pending)
                              /\ F = Items(first) /\ O = Items(htOut)
                              /\ W = HtSent /\ G = HtGot
  OBVIOUS
<1>6. HtApart(I, P, F, O, W, G)
  BY <1>0, <1>1, <1>2, <1>5 DEF HtWire
<1>7. PICK x \in HtSends : x = Head(pending)
  BY <1>3, <1>4, TakeOnce
<1>8. PICK next : next = Tail(pending)
  OBVIOUS
<1>9. next \in Seq(HtSends) /\ Once(next) /\ x \in P /\ Items(next) = P \ {x}
  BY <1>3, <1>4, <1>5, <1>7, <1>8, TakeOnce
<1>10. htSock' = [b EXCEPT !.pending = next]
  BY <1>4, <1>8
<1>11. htSock' \in HtSocket /\ htSock'.first = first /\ htSock'.pending = next
  BY <1>2, <1>9, <1>10 DEF HtSocket
<1>12. /\ htIn' \in Seq(HtSends) /\ Once(htIn')
       /\ Items(htIn') \subseteq I \cup {x} /\ I \subseteq Items(htIn')
  <2>1. CASE htIn' = Append(htIn, Head(pending))
    <3>1. x \notin Items(htIn) /\ htIn' = Append(htIn, x)
      BY <1>5, <1>6, <1>7, <1>9, <2>1 DEF HtApart
    <3>2. htIn' \in Seq(HtSends) /\ Once(htIn') /\ Items(htIn') = I \cup {x}
      BY <1>3, <1>5, <3>1, AppendOnce
    <3> QED BY <3>2
  <2>2. CASE htIn' = htIn
    BY <2>2, <1>3, <1>5
  <2> QED BY <1>4, <2>1, <2>2
<1>13. PICK J : J = Items(htIn')
  OBVIOUS
<1>14. HtApart(J, P \ {x}, F, O, W, G)
  BY <1>6, <1>9, <1>12, <1>13 DEF HtApart
<1>15. HtWire'
  <2>1. /\ Items(htIn') = J /\ Items(htSock'.pending) = P \ {x} /\ Items(htSock'.first) = F
        /\ Items(htOut') = O /\ HtSent' = W /\ HtGot' = G
    BY <1>0, <1>5, <1>9, <1>11, <1>13 DEF HtSent, HtGot
  <2>2. Once(htOut')
    BY <1>0 DEF HtWire
  <2> QED BY <1>3, <1>9, <1>11, <1>12, <1>14, <2>1, <2>2 DEF HtWire
<1>16. HtTaken'
  BY <1>0, HtTakenSame
<1>17. HtTypes' /\ HtClosing'
  BY <1>0, <1>11, <1>12 DEF HtTypes, HtClosing
<1> QED BY <1>15, <1>16, <1>17 DEF HtInv

(* The handler returns.                                                    *)
LEMMA HtSockCloseStep ==
  ASSUME HtInv, HtSockClose
  PROVE  HtInv'
<1>0. /\ HtTypes /\ HtClosing /\ HtTaken /\ HtWire
      /\ htSock' = [htSock EXCEPT !.open = FALSE]
      /\ UNCHANGED <<htSend, htRecv, htClose, htList, htChan, htChanClosed, htClosed, htOut,
                     htIn, htPanic, htOrder>>
  BY DEF HtInv, HtSockClose, htClientVars
<1>1. /\ htSock' \in HtSocket /\ htSock'.first = htSock.first
      /\ htSock'.pending = htSock.pending
  BY <1>0 DEF HtTypes, HtSocket
<1>2. HtSent' = HtSent /\ HtGot' = HtGot
  BY <1>0 DEF HtSent, HtGot
<1>3. HtWire'
  BY <1>0, <1>1, <1>2 DEF HtWire
<1>4. HtTaken'
  BY <1>0, HtTakenSame
<1>5. HtTypes' /\ HtClosing'
  BY <1>0, <1>1 DEF HtTypes, HtClosing
<1> QED BY <1>3, <1>4, <1>5 DEF HtInv

(* Every step keeps the invariant: one case for each operation.            *)
LEMMA HttpTransportStep == HtInv /\ [HttpTransportNext]_htVars => HtInv'
<1> SUFFICES ASSUME HtInv, [HttpTransportNext]_htVars PROVE HtInv'
  OBVIOUS
<1>1. CASE UNCHANGED htVars
  <2>1. HtSent' = HtSent
    BY <1>1 DEF htVars, HtSent
  <2>2. HtWire'
    BY <1>1, <2>1, HtWireSame DEF HtInv, htVars
  <2>3. HtTaken'
    BY <1>1, HtTakenSame DEF HtInv, htVars
  <2>4. HtTypes' /\ HtClosing'
    BY <1>1 DEF HtInv, HtTypes, HtClosing, htVars
  <2> QED BY <2>2, <2>3, <2>4 DEF HtInv
<1>2. CASE HtDial \/ HtCloseCall \/ HtMarkClosed \/ HtCloseChan \/ HtCloseConn
  BY <1>2, HtConnectionStep
<1>3. ASSUME NEW s \in HtSends, HtList(s) \/ HtWrite(s) PROVE HtInv'
  BY <1>3, HtListStep, HtWriteStep
<1>4. ASSUME NEW r \in HtRecvs, HtTake(r) \/ HtRecvLocks(r) \/ HtRead(r) PROVE HtInv'
  BY <1>4, HtTakeStep, HtRecvLocksStep, HtReadStep
<1>5. CASE HtAccept \/ HtSockRecv \/ HtSockSend \/ HtSockClose
  BY <1>5, HtAcceptStep, HtSockRecvStep, HtSockSendStep, HtSockCloseStep
<1> QED BY <1>1, <1>2, <1>3, <1>4, <1>5 DEF HttpTransportNext

(* Who reads has the lock, and the client is not closed.                   *)
HtLocked == \A r \in HtRecvs : htRecv[r].pc = "reading" => htLock = {r} /\ ~htClosed

(* Recv and Close keep it: both need the lock.                             *)
LEMMA HtLockedStep == HtInv /\ HtLocked /\ [HttpTransportNext]_htVars => HtLocked'
<1> SUFFICES ASSUME HtInv, HtLocked, [HttpTransportNext]_htVars PROVE HtLocked'
  OBVIOUS
<1>0. htRecv \in [HtRecvs -> HtReceive]
  BY DEF HtInv, HtTypes
<1>1. CASE UNCHANGED <<htRecv, htLock, htClosed>>
  BY <1>1 DEF HtLocked
<1>2. CASE HtMarkClosed
  <2>1. htLock = {} /\ UNCHANGED <<htRecv, htLock>>
    BY <1>2 DEF HtMarkClosed
  <2> QED BY <2>1 DEF HtLocked
<1>3. ASSUME NEW r \in HtRecvs, HtTake(r) PROVE HtLocked'
  <2>1. UNCHANGED <<htLock, htClosed>> /\ htRecv'[r].pc \in {"waiting", "eof"}
        /\ \A q \in HtRecvs \ {r} : htRecv'[q] = htRecv[q]
    BY <1>0, <1>3 DEF HtTake, HtReceive
  <2> QED BY <2>1 DEF HtLocked
<1>4. ASSUME NEW r \in HtRecvs, HtRecvLocks(r) PROVE HtLocked'
  <2>1. /\ htLock = {} /\ htClosed' = htClosed
        /\ \/ htRecv'[r].pc = "eof"
           \/ htRecv'[r].pc = "reading" /\ htLock' = {r} /\ ~htClosed
        /\ \A q \in HtRecvs \ {r} : htRecv'[q] = htRecv[q]
    BY <1>0, <1>4 DEF HtRecvLocks, HtReceive
  <2> QED BY <2>1 DEF HtLocked
<1>5. ASSUME NEW r \in HtRecvs, HtRead(r) PROVE HtLocked'
  <2>1. /\ htRecv[r].pc = "reading" /\ htRecv'[r].pc \in {"done", "failed"}
        /\ \A q \in HtRecvs \ {r} : htRecv'[q] = htRecv[q]
    BY <1>0, <1>5 DEF HtRead, HtReceive
  <2>2. \A q \in HtRecvs \ {r} : htRecv[q].pc # "reading"
    BY <2>1 DEF HtLocked
  <2> QED BY <2>1, <2>2 DEF HtLocked
<1>6. CASE HtDial \/ HtCloseCall \/ HtCloseChan \/ HtCloseConn
  BY <1>1, <1>6 DEF HtDial, HtCloseCall, HtCloseChan, HtCloseConn, htClientVars
<1>7. ASSUME NEW s \in HtSends, HtList(s) \/ HtWrite(s) PROVE HtLocked'
  BY <1>1, <1>7 DEF HtList, HtWrite, htClientVars
<1>8. CASE HtAccept \/ HtSockRecv \/ HtSockSend \/ HtSockClose
  BY <1>1, <1>8 DEF HtAccept, HtSockRecv, HtSockSend, HtSockClose, htClientVars
<1>9. CASE UNCHANGED htVars
  BY <1>1, <1>9 DEF htVars
<1> QED BY <1>2, <1>3, <1>4, <1>5, <1>6, <1>7, <1>8, <1>9 DEF HttpTransportNext

(* transport/http_client.go: for any Sends, Recvs and room of the channel, *)
(* however Close, the peer and the lock interleave, a Recv takes the first *)
(* request nobody took, from the channel or, after Close, from the list;   *)
(* none is forgotten between the two, no Send meets the closed channel, no *)
(* Recv the buffer that Close reset, and no response is returned twice.    *)
THEOREM HttpTransportKeepsOrder ==
  HttpTransportInit /\ [][HttpTransportNext]_htVars => []RequestsKeptInOrder
<1>1. HttpTransportInit => HtInv /\ HtLocked
  <2>1. HttpTransportInit => HtLocked
    BY DEF HttpTransportInit, HtLocked
  <2> QED BY <2>1, HtInitially
<1>2. HtInv /\ HtLocked => RequestsKeptInOrder
  <2> SUFFICES ASSUME HtInv, HtLocked PROVE RequestsKeptInOrder
    OBVIOUS
  <2>1. ASSUME NEW r \in HtRecvs, NEW q \in HtRecvs, r # q, htRecv[r].got # {}
        PROVE  htRecv[r].got # htRecv[q].got
    <3>1. htRecv[r].got \cap htRecv[q].got = {}
      BY <2>1 DEF HtInv, HtWire, HtApart, HtGot
    <3> QED BY <2>1, <3>1
  <2>2. \E k \in 0 .. Len(htOrder) :
          /\ htChan \o htList = SubSeq(htOrder, k + 1, Len(htOrder))
          /\ UNION {htRecv[r].req : r \in HtRecvs} = {htOrder[i] : i \in 1 .. k}
    BY DEF HtInv, HtTaken
  <2>3. ~htPanic
    BY DEF HtInv, HtClosing
  <2>4. htClosed => \A r \in HtRecvs : htRecv[r].pc # "reading"
    BY DEF HtLocked
  <2> QED BY <2>1, <2>2, <2>3, <2>4 DEF RequestsKeptInOrder
<1> QED BY <1>1, <1>2, HttpTransportStep, HtLockedStep, PTL
=============================================================================
