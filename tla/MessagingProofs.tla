-------------------------- MODULE MessagingProofs ---------------------------
(***************************************************************************)
(* Proofs about messages that nobody may lose, for any number of messages, *)
(* versions, events and consumers and any limit.                           *)
(*                                                                         *)
(* HttpInbox: a message that Publish of the http broker accepted waits in  *)
(* the inbox, or in the batch of some publisher that has not tried it, or  *)
(* its fate is known. That is NoMessageForgotten; what makes it inductive  *)
(* is the exact moment at which a batch has tried its first message,       *)
(* service by service.                                                     *)
(*                                                                         *)
(* EventStream: a consumer that acknowledges by hand is given up only when *)
(* it acknowledged or was sent the event more often than its limit. The    *)
(* retry count alone does not say so: the goroutine that sends reads the   *)
(* count, sends, and writes the count it had read plus one. The invariant  *)
(* keeps both the count in the map and the count in each goroutine's hand  *)
(* behind the deliveries.                                                  *)
(*                                                                         *)
(* MemoryTransport: at most one message passes in each direction after a   *)
(* close. That is not inductive: nothing in it keeps an end that sent late *)
(* from sending again. The invariant adds that such an end is no longer in *)
(* Send, that its connection is closed, and that ends only send on a       *)
(* connection that was made, whose address, and so whose listener, stays   *)
(* the same.                                                               *)
(***************************************************************************)
EXTENDS HttpInbox, EventStream, MemoryTransport, TLAPS

(* The message is in the batch of p, which has not tried to send it.       *)
Untried(p, m) ==
  \E i \in 1 .. Len(hbPub[p].batch) :
    /\ hbPub[p].batch[i] = m
    /\ i = 1 => \A v \in Versions \ hbPub[p].todo : hbPub[p].services[v] = {}

(* The message is somewhere: in the inbox, in a batch, or its fate is      *)
(* known.                                                                  *)
Kept(m) == \/ Contains(hbInbox, m)
           \/ \E p \in Messages : Untried(p, m)
           \/ hbFate[m] # {}

(* The types, and the limit of the inbox.                                  *)
InboxTypes ==
  /\ hbInbox \in Seq(Messages) /\ Len(hbInbox) <= InboxMax
  /\ hbPub \in [Messages -> [pc : PubStates, services : Services, batch : Seq(Messages),
                             todo : SUBSET Versions]]
  /\ hbFate \in [Messages -> SUBSET {"taken", "cut", "nobody"}]

(* The inductive invariant: a batch is in hand only while it is sent, and  *)
(* a message that was published is kept.                                   *)
HttpInboxInv ==
  /\ InboxTypes
  /\ \A m \in Messages : hbPub[m].pc # "sending" => hbPub[m].batch = <<>>
  /\ \A m \in Messages : hbPub[m].pc # "none" => Kept(m)

(* Nothing is published and the inbox is empty.                            *)
LEMMA HttpInboxInitially == HttpInboxInit => HttpInboxInv
<1> SUFFICES ASSUME HttpInboxInit PROVE HttpInboxInv
  OBVIOUS
<1>1. NoServices \in Services
  BY DEF NoServices, Services
<1>2. <<>> \in Seq(Messages) /\ Len(<<>>) = 0
  OBVIOUS
<1>3. InboxTypes
  BY <1>1, <1>2, HttpInboxAssumption DEF HttpInboxInit, InboxTypes, PubStates
<1> QED
  BY <1>3 DEF HttpInboxInit, HttpInboxInv

(* saveMessage loses nothing that was in the inbox, and the message itself *)
(* only to the cut.                                                        *)
LEMMA SavedKeeps ==
  ASSUME hbInbox \in Seq(Messages), Len(hbInbox) <= InboxMax, NEW m \in Messages
  PROVE  /\ Saved(m) \in Seq(Messages) /\ Len(Saved(m)) <= InboxMax
         /\ \A x \in Messages : Contains(hbInbox, x) => Contains(Saved(m), x)
         /\ m \in CutBy(m) \/ Contains(Saved(m), m)
<1> DEFINE c == Append(hbInbox, m)
<1>1. /\ c \in Seq(Messages) /\ Len(c) = Len(hbInbox) + 1 /\ c[Len(hbInbox) + 1] = m
      /\ \A i \in 1 .. Len(hbInbox) : c[i] = hbInbox[i]
  OBVIOUS
<1>2. CASE Len(hbInbox) = InboxMax
  <2>1. Len(c) > InboxMax
    BY <1>1, <1>2, HttpInboxAssumption
  <2>2. Saved(m) = SubSeq(c, 1, InboxMax)
    BY <2>1 DEF Saved
  <2>3. /\ Saved(m) \in Seq(Messages) /\ Len(Saved(m)) = InboxMax
        /\ \A i \in 1 .. InboxMax : Saved(m)[i] = hbInbox[i]
    BY <1>1, <1>2, <2>2, HttpInboxAssumption
  <2> QED
    BY <1>2, <2>3 DEF Contains, CutBy
<1>3. CASE Len(hbInbox) < InboxMax
  <2>1. Saved(m) = c
    BY <1>1, <1>3, HttpInboxAssumption DEF Saved
  <2>2. Len(c) \in Nat /\ Len(c) <= InboxMax /\ Len(hbInbox) \in Nat
    BY <1>1, <1>3, HttpInboxAssumption
  <2>3. \A x \in Messages : Contains(hbInbox, x) => Contains(c, x)
    BY <1>1, <2>2 DEF Contains
  <2>4. Contains(c, m)
    BY <1>1, <2>2 DEF Contains
  <2> QED
    BY <1>1, <2>1, <2>2, <2>3, <2>4
<1> QED
  BY <1>2, <1>3, HttpInboxAssumption

(* getMessage hands every message to the batch or leaves it in the inbox.  *)
LEMMA BatchKeeps ==
  ASSUME hbInbox \in Seq(Messages), Len(hbInbox) <= InboxMax
  PROVE  /\ Batch \in Seq(Messages)
         /\ Rest \in Seq(Messages) /\ Len(Rest) <= InboxMax
         /\ \A x \in Messages : Contains(hbInbox, x) => Contains(Batch, x) \/ Contains(Rest, x)
<1>1. CASE Len(hbInbox) < BatchMax
  <2>1. Batch = hbInbox /\ Rest = <<>>
    BY <1>1, HttpInboxAssumption DEF Batch, Rest
  <2> QED
    BY <2>1, HttpInboxAssumption
<1>2. CASE Len(hbInbox) >= BatchMax
  <2>1. Batch = SubSeq(hbInbox, 1, BatchMax) /\ Rest = SubSeq(hbInbox, BatchMax + 1, Len(hbInbox))
    BY <1>2 DEF Batch, Rest
  <2>2. /\ Batch \in Seq(Messages) /\ Len(Batch) = BatchMax
        /\ \A i \in 1 .. BatchMax : Batch[i] = hbInbox[i]
    BY <1>2, <2>1, HttpInboxAssumption
  <2>3. /\ Rest \in Seq(Messages) /\ Len(Rest) = Len(hbInbox) - BatchMax
        /\ \A i \in 1 .. Len(hbInbox) - BatchMax : Rest[i] = hbInbox[BatchMax + i]
    BY <1>2, <2>1, HttpInboxAssumption
  <2>4. ASSUME NEW x \in Messages, NEW i \in 1 .. Len(hbInbox), hbInbox[i] = x
        PROVE  Contains(Batch, x) \/ Contains(Rest, x)
    <3>1. CASE i <= BatchMax
      BY <2>2, <2>4, <3>1, HttpInboxAssumption DEF Contains
    <3>2. CASE i > BatchMax
      <4>1. i - BatchMax \in 1 .. Len(Rest) /\ Rest[i - BatchMax] = x
        BY <2>3, <2>4, <3>2, HttpInboxAssumption
      <4> QED
        BY <4>1 DEF Contains
    <3> QED
      BY <3>1, <3>2, HttpInboxAssumption
  <2>5. Len(Rest) <= InboxMax
    BY <2>3, HttpInboxAssumption
  <2> QED
    BY <2>2, <2>3, <2>4, <2>5 DEF Contains
<1> QED
  BY <1>1, <1>2, HttpInboxAssumption

(* Fates are added, never taken back.                                      *)
LEMMA FatesAdd ==
  ASSUME InboxTypes, NEW ms, NEW fate \in {"taken", "cut", "nobody"}
  PROVE  /\ Fates(ms, fate) \in [Messages -> SUBSET {"taken", "cut", "nobody"}]
         /\ \A m \in Messages : hbFate[m] # {} => Fates(ms, fate)[m] # {}
         /\ \A m \in Messages : m \in ms => Fates(ms, fate)[m] # {}
  BY DEF Fates, InboxTypes

(* A step that changes one goroutine, and keeps what it had not tried,     *)
(* keeps every message that waits somewhere.                               *)
LEMMA OneGoroutine ==
  ASSUME HttpInboxInv, InboxTypes', NEW p \in Messages,
         \A q \in Messages \ {p} : hbPub'[q] = hbPub[q],
         hbPub'[p].pc # "sending" => hbPub'[p].batch = <<>>,
         hbPub'[p].pc # "none",
         hbPub[p].pc = "none" => Kept(p)',
         \A m \in Messages : Contains(hbInbox, m) \/ Untried(p, m) \/ hbFate[m] # {} => Kept(m)'
  PROVE  HttpInboxInv'
<1>1. ASSUME NEW m \in Messages, hbPub'[m].pc # "none" PROVE Kept(m)'
  <2>1. CASE hbPub[m].pc = "none"
    BY <1>1, <2>1
  <2>2. CASE hbPub[m].pc # "none"
    <3>1. Kept(m)
      BY <2>2 DEF HttpInboxInv
    <3>2. ASSUME NEW q \in Messages \ {p}, Untried(q, m) PROVE Untried(q, m)'
      BY <3>2 DEF Untried
    <3> QED
      BY <3>1, <3>2 DEF Kept
  <2> QED
    BY <2>1, <2>2
<1>2. \A m \in Messages : hbPub'[m].pc # "sending" => hbPub'[m].batch = <<>>
  BY DEF HttpInboxInv
<1> QED
  BY <1>1, <1>2 DEF HttpInboxInv

(* Publish, its batches and its attempts at each version, with and without *)
(* an answer, keep the invariant.                                          *)
LEMMA HttpInboxStep ==
  HttpInboxInv /\ [HttpInboxNext]_hbVars => HttpInboxInv'
<1> SUFFICES ASSUME HttpInboxInv, [HttpInboxNext]_hbVars PROVE HttpInboxInv'
  OBVIOUS
<1> DEFINE Pubs == [pc : PubStates, services : Services, batch : Seq(Messages),
                    todo : SUBSET Versions]
<1>0. InboxTypes
  BY DEF HttpInboxInv
<1>1. CASE UNCHANGED hbVars
  <2>1. ASSUME NEW m \in Messages, Kept(m) PROVE Kept(m)'
    BY <1>1, <2>1 DEF hbVars, Kept, Untried
  <2>2. InboxTypes'
    BY <1>0, <1>1 DEF hbVars, InboxTypes
  <2> QED
    BY <1>1, <2>1, <2>2 DEF hbVars, HttpInboxInv
<1>2. ASSUME NEW p \in Messages, HttpPublish(p) PROVE HttpInboxInv'
  <2>1. hbPub' = [hbPub EXCEPT ![p] = [@ EXCEPT !.pc = "saved"]]
    BY <1>0, <1>2 DEF HttpPublish, InboxTypes
  <2>2. InboxTypes'
    <3>1. hbPub' \in [Messages -> Pubs]
      BY <1>0, <2>1 DEF InboxTypes, PubStates
    <3>2. hbInbox' \in Seq(Messages) /\ Len(hbInbox') <= InboxMax
      BY <1>0, <1>2, SavedKeeps DEF HttpPublish, InboxTypes
    <3>3. hbFate' \in [Messages -> SUBSET {"taken", "cut", "nobody"}]
      BY <1>0, <1>2, FatesAdd DEF HttpPublish
    <3> QED
      BY <3>1, <3>2, <3>3 DEF InboxTypes
  <2>3. /\ hbPub'[p].pc = "saved" /\ hbPub'[p].batch = hbPub[p].batch /\ hbPub[p].pc = "none"
        /\ hbPub'[p].todo = hbPub[p].todo /\ hbPub'[p].services = hbPub[p].services
        /\ \A q \in Messages \ {p} : hbPub'[q] = hbPub[q]
    BY <1>0, <1>2, <2>1 DEF HttpPublish, InboxTypes
  <2>4. Kept(p)'
    BY <1>0, <1>2, SavedKeeps, FatesAdd DEF HttpPublish, InboxTypes, Kept
  <2>5. ASSUME NEW m \in Messages, Contains(hbInbox, m) \/ Untried(p, m) \/ hbFate[m] # {}
        PROVE  Kept(m)'
    <3>1. CASE Contains(hbInbox, m)
      BY <1>0, <1>2, <3>1, SavedKeeps DEF HttpPublish, InboxTypes, Kept
    <3>2. CASE Untried(p, m)
      BY <2>3, <3>2 DEF Untried, Kept
    <3>3. CASE hbFate[m] # {}
      BY <1>0, <1>2, <3>3, FatesAdd DEF HttpPublish, Kept
    <3> QED
      BY <2>5, <3>1, <3>2, <3>3
  <2>6. hbPub[p].batch = <<>>
    BY <2>3 DEF HttpInboxInv
  <2> QED
    BY <2>2, <2>3, <2>4, <2>5, <2>6, OneGoroutine
<1>3. ASSUME NEW p \in Messages, HttpGetService(p) PROVE HttpInboxInv'
  <2>1. hbPub[p].pc = "saved" /\ UNCHANGED <<hbInbox, hbFate>>
    BY <1>3 DEF HttpGetService
  <2>2. hbPub[p].batch = <<>>
    BY <2>1 DEF HttpInboxInv
  <2>3. /\ hbPub' \in [Messages -> Pubs]
        /\ hbPub'[p].pc \in {"found", "failed"} /\ hbPub'[p].batch = <<>>
        /\ \A q \in Messages \ {p} : hbPub'[q] = hbPub[q]
    <3>1. CASE hbPub' = [hbPub EXCEPT ![p].pc = "failed"]
      BY <1>0, <2>2, <3>1 DEF InboxTypes, PubStates
    <3>2. ASSUME NEW s \in Services,
                 hbPub' = [hbPub EXCEPT ![p].pc = "found", ![p].services = s]
          PROVE  /\ hbPub' \in [Messages -> Pubs]
                 /\ hbPub'[p].pc \in {"found", "failed"} /\ hbPub'[p].batch = <<>>
                 /\ \A q \in Messages \ {p} : hbPub'[q] = hbPub[q]
      BY <1>0, <2>2, <3>2 DEF InboxTypes, PubStates
    <3> QED
      BY <1>3, <3>1, <3>2 DEF HttpGetService
  <2>4. InboxTypes'
    BY <1>0, <2>1, <2>3 DEF InboxTypes
  <2>5. ASSUME NEW m \in Messages, Contains(hbInbox, m) \/ Untried(p, m) \/ hbFate[m] # {}
        PROVE  Kept(m)'
    BY <2>1, <2>2, <2>5 DEF Kept, Untried
  <2> QED
    BY <2>1, <2>3, <2>4, <2>5, OneGoroutine
<1>4. ASSUME NEW p \in Messages, HttpTakeBatch(p) PROVE HttpInboxInv'
  <2>1. /\ hbPub' = [hbPub EXCEPT ![p] = [@ EXCEPT !.pc = "sending", !.batch = Batch,
                                                   !.todo = Versions]]
        /\ hbPub[p].pc = "found" /\ hbInbox' = Rest /\ hbFate' = hbFate
    BY <1>0, <1>4 DEF HttpTakeBatch, InboxTypes
  <2>2. InboxTypes'
    BY <1>0, <2>1, BatchKeeps DEF InboxTypes, PubStates
  <2>3. hbPub[p].batch = <<>>
    BY <2>1 DEF HttpInboxInv
  <2>4. /\ hbPub'[p].pc = "sending" /\ hbPub'[p].batch = Batch /\ hbPub'[p].todo = Versions
        /\ \A q \in Messages \ {p} : hbPub'[q] = hbPub[q]
    BY <1>0, <2>1 DEF InboxTypes
  <2>5. ASSUME NEW m \in Messages, Contains(hbInbox, m) \/ Untried(p, m) \/ hbFate[m] # {}
        PROVE  Kept(m)'
    <3>1. CASE Contains(hbInbox, m)
      <4>1. CASE Contains(Rest, m)
        BY <2>1, <4>1 DEF Kept
      <4>2. CASE Contains(Batch, m)
        <5>1. Untried(p, m)'
          BY <2>4, <4>2 DEF Untried, Contains
        <5> QED
          BY <5>1 DEF Kept
      <4> QED
        BY <1>0, <3>1, <4>1, <4>2, BatchKeeps DEF InboxTypes
    <3>2. CASE hbFate[m] # {}
      BY <2>1, <3>2 DEF Kept
    <3> QED
      BY <2>3, <2>5, <3>1, <3>2 DEF Untried
  <2> QED
    BY <2>1, <2>2, <2>4, <2>5, OneGoroutine
<1>5. ASSUME NEW p \in Messages, NEW v \in Versions, HttpSend(p, v) PROVE HttpInboxInv'
  <2> DEFINE nodes == hbPub[p].services[v]
  <2>0. hbPub[p] \in Pubs /\ hbPub[p].batch # <<>> /\ hbPub[p].pc = "sending"
    BY <1>0, <1>5 DEF HttpSend, InboxTypes
  <2>1. PICK h \in Messages : /\ h = Head(hbPub[p].batch) /\ h = hbPub[p].batch[1]
                              /\ Len(hbPub[p].batch) \in Nat \ {0}
    BY <2>0
  <2>2. PICK posted \in Posts(v, nodes) :
          /\ hbPub' = [hbPub EXCEPT ![p].todo = @ \ {v}]
          /\ \/ nodes = {} /\ UNCHANGED <<hbInbox, hbFate>>
             \/ posted # {} /\ hbFate' = Fates({h}, "taken") /\ UNCHANGED hbInbox
             \/ /\ nodes # {} /\ posted = {}
                /\ hbInbox' = Saved(h) /\ hbFate' = Fates(CutBy(h), "cut")
    BY <1>5, <2>1 DEF HttpSend, HttpPost
  <2>3. hbPub[p].todo \ {v} \in SUBSET Versions
    BY <2>0
  <2>4. InboxTypes'
    <3>1. hbPub' \in [Messages -> Pubs]
      BY <1>0, <2>2, <2>3 DEF InboxTypes
    <3>2. hbInbox' \in Seq(Messages) /\ Len(hbInbox') <= InboxMax
      BY <1>0, <2>1, <2>2, SavedKeeps DEF InboxTypes
    <3>3. hbFate' \in [Messages -> SUBSET {"taken", "cut", "nobody"}]
      <4>1. hbFate' \in {hbFate, Fates({h}, "taken"), Fates(CutBy(h), "cut")}
        BY <2>2
      <4> QED
        BY <1>0, <4>1, FatesAdd DEF InboxTypes
    <3> QED
      BY <3>1, <3>2, <3>3 DEF InboxTypes
  <2>5. /\ hbPub'[p].pc = "sending" /\ hbPub'[p].batch = hbPub[p].batch
        /\ hbPub'[p].services = hbPub[p].services /\ hbPub'[p].todo = hbPub[p].todo \ {v}
        /\ \A q \in Messages \ {p} : hbPub'[q] = hbPub[q]
    BY <1>0, <2>0, <2>2 DEF InboxTypes
  <2>6. nodes = {} \/ Kept(h)'
    <3>1. CASE posted # {} /\ hbFate' = Fates({h}, "taken")
      <4>1. hbFate'[h] # {}
        BY <1>0, <2>1, <3>1, FatesAdd
      <4> QED
        BY <4>1 DEF Kept
    <3>2. CASE hbInbox' = Saved(h) /\ hbFate' = Fates(CutBy(h), "cut")
      <4>1. h \in CutBy(h) \/ Contains(Saved(h), h)
        BY <1>0, <2>1, SavedKeeps DEF InboxTypes
      <4>2. h \in CutBy(h) => hbFate'[h] # {}
        BY <1>0, <2>1, <3>2, FatesAdd
      <4> QED
        BY <3>2, <4>1, <4>2 DEF Kept
    <3> QED
      BY <2>2, <3>1, <3>2
  <2>7. ASSUME NEW m \in Messages, Contains(hbInbox, m) \/ Untried(p, m) \/ hbFate[m] # {}
        PROVE  Kept(m)'
    <3>1. CASE Contains(hbInbox, m)
      <4>1. Contains(hbInbox', m)
        BY <1>0, <2>1, <2>2, <3>1, SavedKeeps DEF InboxTypes
      <4> QED
        BY <4>1 DEF Kept
    <3>2. CASE Untried(p, m) /\ nodes = {}
      <4>1. Untried(p, m)'
        BY <2>5, <3>2 DEF Untried
      <4> QED
        BY <4>1 DEF Kept
    <3>3. CASE Untried(p, m) /\ Kept(h)'
      <4>1. m = h \/ Untried(p, m)'
        BY <2>1, <2>5, <3>3 DEF Untried
      <4>2. Untried(p, m)' => Kept(m)'
        BY DEF Kept
      <4> QED
        BY <3>3, <4>1, <4>2
    <3>4. CASE hbFate[m] # {}
      <4>1. hbFate' \in {hbFate, Fates({h}, "taken"), Fates(CutBy(h), "cut")}
        BY <2>2
      <4> QED
        BY <1>0, <3>4, <4>1, FatesAdd DEF Kept
    <3> QED
      BY <2>6, <2>7, <3>1, <3>2, <3>3, <3>4
  <2> QED
    BY <2>0, <2>4, <2>5, <2>7, OneGoroutine
<1>6. ASSUME NEW p \in Messages, HttpNextMessage(p) PROVE HttpInboxInv'
  <2> DEFINE b == hbPub[p].batch
  <2>0. hbPub[p] \in Pubs /\ b # <<>> /\ hbPub[p].pc = "sending" /\ hbPub[p].todo = {}
    BY <1>0, <1>6 DEF HttpNextMessage, InboxTypes
  <2>1. /\ Head(b) \in Messages /\ Head(b) = b[1] /\ Tail(b) \in Seq(Messages)
        /\ Len(b) \in Nat \ {0} /\ Len(Tail(b)) = Len(b) - 1
        /\ \A i \in 1 .. Len(Tail(b)) : Tail(b)[i] = b[i + 1]
    BY <2>0
  <2>2. hbPub' = [hbPub EXCEPT ![p] = [@ EXCEPT !.batch = Tail(b), !.todo = Versions]]
    BY <1>0, <1>6 DEF HttpNextMessage, InboxTypes
  <2>3. hbFate' \in {hbFate, Fates({Head(b)}, "nobody")} /\ hbInbox' = hbInbox
    BY <1>6 DEF HttpNextMessage
  <2>4. InboxTypes'
    <3>1. hbPub' \in [Messages -> Pubs]
      BY <1>0, <2>1, <2>2 DEF InboxTypes
    <3>2. hbFate' \in [Messages -> SUBSET {"taken", "cut", "nobody"}]
      BY <1>0, <2>3, FatesAdd DEF InboxTypes
    <3> QED
      BY <1>0, <2>3, <3>1, <3>2 DEF InboxTypes
  <2>5. /\ hbPub'[p].pc = "sending" /\ hbPub'[p].batch = Tail(b) /\ hbPub'[p].todo = Versions
        /\ \A q \in Messages \ {p} : hbPub'[q] = hbPub[q]
    BY <1>0, <2>0, <2>2 DEF InboxTypes
  <2>6. ASSUME NEW m \in Messages, hbFate[m] # {} PROVE Kept(m)'
    BY <1>0, <2>3, <2>6, FatesAdd DEF Kept
  <2>7. ASSUME NEW m \in Messages, Untried(p, m) PROVE Kept(m)'
    <3>1. PICK i \in 1 .. Len(b) :
            b[i] = m /\ (i = 1 => \A v \in Versions : hbPub[p].services[v] = {})
      BY <2>0, <2>7 DEF Untried
    <3>2. CASE i = 1
      <4>1. hbPub[p].services = NoServices
        BY <2>0, <3>1, <3>2 DEF Services, NoServices
      <4>2. hbFate' = Fates({m}, "nobody")
        BY <1>6, <2>1, <3>1, <3>2, <4>1 DEF HttpNextMessage
      <4> QED
        BY <1>0, <4>2, FatesAdd DEF Kept
    <3>3. CASE i > 1
      <4>1. i - 1 \in 1 .. Len(Tail(b)) /\ Tail(b)[i - 1] = m
        BY <2>1, <3>1, <3>3
      <4>2. Untried(p, m)'
        BY <2>5, <4>1 DEF Untried
      <4> QED
        BY <4>2 DEF Kept
    <3> QED
      BY <3>2, <3>3
  <2> QED
    BY <2>0, <2>3, <2>4, <2>5, <2>6, <2>7, OneGoroutine DEF Kept
<1>7. ASSUME NEW p \in Messages, HttpBatchDone(p) PROVE HttpInboxInv'
  <2>1. /\ hbPub' = [hbPub EXCEPT ![p] = [@ EXCEPT !.pc = "done", !.services = NoServices,
                                                   !.todo = {}]]
        /\ hbPub[p].batch = <<>> /\ hbPub[p].pc = "sending" /\ UNCHANGED <<hbInbox, hbFate>>
    BY <1>0, <1>7 DEF HttpBatchDone, InboxTypes
  <2>2. NoServices \in Services
    BY DEF NoServices, Services
  <2>3. InboxTypes'
    BY <1>0, <2>1, <2>2 DEF InboxTypes, PubStates
  <2>4. /\ hbPub'[p].pc = "done" /\ hbPub'[p].batch = <<>>
        /\ \A q \in Messages \ {p} : hbPub'[q] = hbPub[q]
    BY <1>0, <2>1 DEF InboxTypes
  <2>5. ASSUME NEW m \in Messages, Contains(hbInbox, m) \/ Untried(p, m) \/ hbFate[m] # {}
        PROVE  Kept(m)'
    BY <2>1, <2>5 DEF Kept, Untried
  <2> QED
    BY <2>1, <2>3, <2>4, <2>5, OneGoroutine
<1> QED
  BY <1>1, <1>2, <1>3, <1>4, <1>5, <1>6, <1>7 DEF HttpInboxNext

(* httpBroker.Publish forgets no message: in every reachable state a       *)
(* message that was published waits for another attempt, or was taken by a *)
(* subscriber, cut from a full inbox, or there was nobody to send it to.   *)
(* For any inbox and batch size and any subscribers.                       *)
THEOREM HttpInboxForgetsNothing ==
  HttpInboxInit /\ [][HttpInboxNext]_hbVars => []NoMessageForgotten
<1>1. HttpInboxInv => NoMessageForgotten
  BY DEF HttpInboxInv, NoMessageForgotten, Kept, Untried, Contains, InboxTypes
<1> QED
  BY <1>1, HttpInboxInitially, HttpInboxStep, PTL

-----------------------------------------------------------------------------
(* The types of the counts.                                                *)
EventCounts ==
  /\ evRetry \in [Consumers -> [Events -> Absent .. RetryLimit + 1]]
  /\ evSend \in [Senders -> [pc : SendStates, count : 0 .. RetryLimit + 1]]
  /\ evGot \in [Consumers -> [Events -> 0 .. MaxGot]]

(* A consumer may be without an event for good.                            *)
Settled(c, e) ==
  \/ <<c, e>> \in evAcked
  \/ RetryLimit # Unlimited /\ evGot[c][e] > RetryLimit

(* The count of a pair is not ahead of the deliveries.                     *)
CountBehind(c, e) == evRetry[c][e] <= evGot[c][e]

(* Nor is the count that a sender has read and will write one higher.      *)
SenderBehind(x) ==
  LET got == evGot[ConsumerOf(x)][EventOf(x)]
  IN  /\ evSend[x].count = 0 \/ evSend[x].count <= RetryLimit
      /\ evSend[x].count <= got
      /\ evSend[x].pc = "record" => evSend[x].count < got

(* A sender that ticks finds no entry, or is about to give up, only when   *)
(* that is right.                                                          *)
SenderSettled(x) ==
  LET pair == Settled(ConsumerOf(x), EventOf(x))
      entry == evRetry[ConsumerOf(x)][EventOf(x)] # Absent
      byHand == ConsumerOf(x) \in ByHand
  IN  /\ evSend[x].pc \in {"discard", "discarded"} => pair
      /\ evSend[x].pc = "done" /\ byHand => pair
      /\ evSend[x].pc \in {"tick", "record"} => entry \/ pair
      /\ evSend[x].pc = "offer" /\ byHand => entry \/ pair

(* The inductive invariant.                                                *)
EventStreamInv ==
  /\ EventCounts
  /\ \A c \in Consumers, e \in Events : CountBehind(c, e)
  /\ \A x \in Senders : SenderBehind(x) /\ SenderSettled(x)

(* A sender works for one consumer and one event.                          *)
LEMMA SenderParts == \A x \in Senders : EventOf(x) \in Events /\ ConsumerOf(x) \in Consumers
  BY DEF Senders, EventOf, ConsumerOf

(* Nothing is published, so nothing is counted.                            *)
LEMMA EventStreamInitially == EventStreamInit => EventStreamInv
<1> SUFFICES ASSUME EventStreamInit PROVE EventStreamInv
  OBVIOUS
<1>1. EventCounts
  BY EventStreamAssumption DEF EventStreamInit, EventCounts, Absent, MaxGot, SendStates
<1>2. \A c \in Consumers, e \in Events : CountBehind(c, e)
  BY DEF EventStreamInit, CountBehind, Absent
<1>3. \A x \in Senders : SenderBehind(x) /\ SenderSettled(x)
  BY EventStreamAssumption, SenderParts DEF EventStreamInit, SenderBehind, SenderSettled, MaxGot
<1> QED
  BY <1>1, <1>2, <1>3 DEF EventStreamInv

(* Settled pairs stay settled: deliveries are not taken back.              *)
LEMMA SettledForGood ==
  ASSUME NEW c \in Consumers, NEW e \in Events, Settled(c, e),
         evAcked \subseteq evAcked', evGot[c][e] \in Int, evGot'[c][e] \in Int,
         evGot'[c][e] >= evGot[c][e]
  PROVE  Settled(c, e)'
  BY EventStreamAssumption DEF Settled, Unlimited

(* A step of one sender keeps what the invariant says of the other ones,   *)
(* if it only changes the count to one that is still behind, or to none    *)
(* when the pair is settled.                                               *)
LEMMA OneSender ==
  ASSUME EventStreamInv, EventCounts', NEW x \in Senders,
         \A y \in Senders \ {x} : evSend'[y] = evSend[y],
         evAcked' = evAcked,
         \A c \in Consumers, e \in Events : evGot'[c][e] >= evGot[c][e],
         \A c \in Consumers, e \in Events :
           (c # ConsumerOf(x) \/ e # EventOf(x)) => evRetry'[c][e] = evRetry[c][e],
         LET c == ConsumerOf(x)
             e == EventOf(x)
         IN  /\ evRetry'[c][e] <= evGot'[c][e]
             /\ evRetry'[c][e] \in {evRetry[c][e]} \cup Nat \/ Settled(c, e),
         SenderBehind(x)', SenderSettled(x)'
  PROVE  EventStreamInv'
<1> USE EventStreamAssumption, SenderParts DEF EventStreamInv
<1>1. ASSUME NEW c \in Consumers, NEW e \in Events PROVE CountBehind(c, e)'
  <2>1. CASE c = ConsumerOf(x) /\ e = EventOf(x)
    BY <2>1 DEF CountBehind
  <2>2. CASE c # ConsumerOf(x) \/ e # EventOf(x)
    BY <2>2 DEF CountBehind, EventCounts
  <2> QED
    BY <2>1, <2>2
<1>2. ASSUME NEW y \in Senders \ {x} PROVE SenderBehind(y)'
  BY <1>2 DEF SenderBehind, EventCounts
<1>3. ASSUME NEW y \in Senders \ {x} PROVE SenderSettled(y)'
  <2> DEFINE c == ConsumerOf(y)
             e == EventOf(y)
  <2>0. c \in Consumers /\ e \in Events
    BY <1>3
  <2>1. Settled(c, e) => Settled(c, e)'
    BY <2>0, SettledForGood DEF EventCounts
  <2>2. \/ evRetry[c][e] = Absent \/ evRetry'[c][e] # Absent \/ Settled(c, e)
    BY <2>0 DEF Absent
  <2> QED
    BY <1>3, <2>0, <2>1, <2>2 DEF SenderSettled
<1> QED
  BY <1>1, <1>2, <1>3

(* Publish, lookups, acknowledgements in any order and the goroutines that *)
(* send keep the invariant.                                                *)
LEMMA EventStreamStep ==
  EventStreamInv /\ [EventStreamNext]_evVars => EventStreamInv'
<1> SUFFICES ASSUME EventStreamInv, [EventStreamNext]_evVars PROVE EventStreamInv'
  OBVIOUS
<1> USE EventStreamAssumption
<1>0. EventCounts
  BY DEF EventStreamInv
<1>1. ASSUME UNCHANGED <<evRetry, evGot, evAcked>>,
             \A x \in Senders : evSend'[x] \in {evSend[x], [evSend[x] EXCEPT !.pc = "start"]},
             evSend' \in [Senders -> [pc : SendStates, count : 0 .. RetryLimit + 1]]
      PROVE  EventStreamInv'
  <2>1. ASSUME NEW x \in Senders PROVE SenderBehind(x)' /\ SenderSettled(x)'
    BY <1>0, <1>1 DEF EventCounts, EventStreamInv, SenderBehind, SenderSettled, Settled
  <2> QED
    BY <1>0, <1>1, <2>1 DEF EventCounts, EventStreamInv, CountBehind
<1>2. CASE UNCHANGED evVars
  BY <1>0, <1>1, <1>2 DEF evVars, EventCounts
<1>3. ASSUME NEW e \in Events, NEW t \in EventTopics, Publish(e, t) PROVE EventStreamInv'
  BY <1>0, <1>1, <1>3 DEF Publish, EventCounts
<1>4. ASSUME NEW e \in Events, HandleEvent(e) PROVE EventStreamInv'
  <2>1. \A x \in Senders : [evSend[x] EXCEPT !.pc = "start"]
                             \in [pc : SendStates, count : 0 .. RetryLimit + 1]
    BY <1>0 DEF EventCounts, SendStates
  <2>2. \A x \in Senders : evSend'[x] \in {evSend[x], [evSend[x] EXCEPT !.pc = "start"]}
    BY <1>4 DEF HandleEvent
  <2>3. evSend' = [x \in Senders |-> evSend'[x]]
    BY <1>4 DEF HandleEvent
  <2>4. evSend' \in [Senders -> [pc : SendStates, count : 0 .. RetryLimit + 1]]
    BY <1>0, <2>1, <2>2, <2>3 DEF EventCounts
  <2> QED
    BY <1>1, <1>4, <2>2, <2>4 DEF HandleEvent
<1>5. ASSUME NEW c \in Consumers, NEW o \in Options, Consume(c, o) PROVE EventStreamInv'
  BY <1>0, <1>1, <1>5 DEF Consume, EventCounts
<1>6. ASSUME NEW c \in Consumers, LookupRead(c) PROVE EventStreamInv'
  BY <1>0, <1>1, <1>6 DEF LookupRead, EventCounts
<1>7. ASSUME NEW c \in Consumers, NEW e \in Events, LookupSend(c, e) PROVE EventStreamInv'
  <2>1. <<"lookup", e, c>> \in Senders
    BY DEF Senders
  <2>2. evSend' \in [Senders -> [pc : SendStates, count : 0 .. RetryLimit + 1]]
    BY <1>0, <1>7, <2>1 DEF EventCounts, LookupSend, SendStates
  <2>3. \A x \in Senders : evSend'[x] \in {evSend[x], [evSend[x] EXCEPT !.pc = "start"]}
    BY <1>0, <1>7, <2>1 DEF EventCounts, LookupSend
  <2> QED
    BY <1>1, <1>7, <2>2, <2>3 DEF LookupSend
<1>8. ASSUME NEW c \in Consumers, NEW e \in Events, Ack(c, e) PROVE EventStreamInv'
  <2>1. EventCounts'
    BY <1>0, <1>8 DEF EventCounts, Ack, Absent
  <2>2. \A d \in Consumers, f \in Events : CountBehind(d, f)'
    BY <1>0, <1>8 DEF EventStreamInv, EventCounts, CountBehind, Ack, Absent
  <2>3. ASSUME NEW x \in Senders PROVE SenderBehind(x)' /\ SenderSettled(x)'
    <3> DEFINE d == ConsumerOf(x)
               f == EventOf(x)
    <3>0. d \in Consumers /\ f \in Events /\ UNCHANGED <<evSend, evGot>>
      BY <1>8, SenderParts DEF Ack
    <3>1. Settled(d, f) => Settled(d, f)'
      BY <1>8, <3>0 DEF Ack, Settled
    <3>2. evRetry'[d][f] = evRetry[d][f] \/ Settled(d, f)'
      BY <1>0, <1>8, <3>0 DEF Ack, Settled, EventCounts
    <3>3. SenderBehind(x)'
      BY <3>0 DEF EventStreamInv, SenderBehind
    <3> QED
      BY <3>0, <3>1, <3>2, <3>3 DEF EventStreamInv, SenderSettled
  <2> QED
    BY <2>1, <2>2, <2>3 DEF EventStreamInv
<1>9. ASSUME NEW x \in Senders, SendStep(x) \/ Receive(x) PROVE EventStreamInv'
  <2> DEFINE c == ConsumerOf(x)
             e == EventOf(x)
  <2>0. /\ c \in Consumers /\ e \in Events
        /\ evSend[x] \in [pc : SendStates, count : 0 .. RetryLimit + 1]
        /\ evRetry[c][e] \in Absent .. RetryLimit + 1 /\ evGot[c][e] \in 0 .. MaxGot
        /\ SenderBehind(x) /\ SenderSettled(x) /\ CountBehind(c, e)
    BY <1>0, SenderParts DEF EventCounts, EventStreamInv
  <2>1. CASE SendStart(x)
    <3>1. EventCounts'
      <4>1. evSend' \in [Senders -> [pc : SendStates, count : 0 .. RetryLimit + 1]]
        BY <1>0, <2>1 DEF SendStart, EventCounts, SendStates
      <4>2. 0 \in Absent .. RetryLimit + 1
        BY DEF Absent
      <4>3. evRetry' \in [Consumers -> [Events -> Absent .. RetryLimit + 1]]
        BY <1>0, <2>1, <4>2 DEF SendStart, EventCounts
      <4> QED
        BY <1>0, <2>1, <4>1, <4>3 DEF SendStart, EventCounts
    <3>2. /\ evSend'[x].pc = IF c \in ByHand THEN "tick" ELSE "offer"
          /\ evSend'[x].count = evSend[x].count /\ evSend[x].pc = "start"
          /\ \A y \in Senders \ {x} : evSend'[y] = evSend[y]
      BY <1>0, <2>0, <2>1 DEF SendStart, EventCounts
    <3>3. /\ evRetry'[c][e] = IF c \in ByHand THEN 0 ELSE evRetry[c][e]
          /\ \A d \in Consumers, f \in Events :
               (d # c \/ f # e) => evRetry'[d][f] = evRetry[d][f]
          /\ UNCHANGED <<evGot, evAcked>>
      BY <1>0, <2>0, <2>1 DEF SendStart, EventCounts
    <3>4. SenderBehind(x)'
      BY <2>0, <3>2, <3>3 DEF SenderBehind
    <3>5. SenderSettled(x)'
      BY <2>0, <3>2, <3>3 DEF SenderSettled, Absent
    <3>6. \A d \in Consumers, f \in Events : evGot'[d][f] >= evGot[d][f]
      BY <1>0, <3>3 DEF EventCounts
    <3>7. evRetry'[c][e] <= evGot'[c][e] /\ evRetry'[c][e] \in {evRetry[c][e]} \cup Nat
      BY <2>0, <3>3 DEF CountBehind
    <3> QED
      BY <3>1, <3>2, <3>3, <3>4, <3>5, <3>6, <3>7, OneSender
  <2>2. CASE SendTick(x)
    <3>1. EventCounts'
      BY <1>0, <2>0, <2>2 DEF SendTick, EventCounts, SendStates, Absent
    <3>2. SenderBehind(x)'
      BY <1>0, <2>0, <2>2 DEF SendTick, EventCounts, SenderBehind, Absent, MaxGot, Exhausted,
                              CountBehind, Unlimited
    <3>3. SenderSettled(x)'
      BY <1>0, <2>0, <2>2 DEF SendTick, EventCounts, SenderSettled, Settled, Absent, MaxGot,
                              Exhausted, CountBehind, Unlimited
    <3> QED
      BY <1>0, <2>0, <2>2, <3>1, <3>2, <3>3, OneSender DEF SendTick, EventCounts, CountBehind
  <2>3. CASE SendDiscard(x)
    <3>1. EventCounts'
      BY <1>0, <2>0, <2>3 DEF SendDiscard, EventCounts, SendStates, Absent
    <3>2. /\ evSend[x].pc = "discard" /\ evSend'[x].pc = "discarded"
          /\ evSend'[x].count = evSend[x].count
          /\ \A y \in Senders \ {x} : evSend'[y] = evSend[y]
      BY <1>0, <2>0, <2>3 DEF SendDiscard, EventCounts
    <3>3. /\ evRetry'[c][e] = Absent
          /\ \A d \in Consumers, f \in Events :
               (d # c \/ f # e) => evRetry'[d][f] = evRetry[d][f]
          /\ UNCHANGED <<evGot, evAcked>>
      BY <1>0, <2>0, <2>3 DEF SendDiscard, EventCounts
    <3>4. SenderBehind(x)'
      BY <2>0, <3>2, <3>3 DEF SenderBehind
    <3>5. SenderSettled(x)'
      BY <2>0, <3>2, <3>3 DEF SenderSettled, Settled
    <3>6. \A d \in Consumers, f \in Events : evGot'[d][f] >= evGot[d][f]
      BY <1>0, <3>3 DEF EventCounts
    <3>7. evRetry'[c][e] <= evGot'[c][e] /\ Settled(c, e)
      BY <2>0, <3>2, <3>3 DEF SenderSettled, Absent
    <3> QED
      BY <3>1, <3>2, <3>3, <3>4, <3>5, <3>6, <3>7, OneSender
  <2>4. CASE SendRecord(x)
    <3> DEFINE n == IF RetryLimit = Unlimited THEN 0 ELSE evSend[x].count + 1
    <3>0. /\ evSend[x].pc = "record" /\ evSend[x].count \in Nat
          /\ evSend[x].count = 0 \/ evSend[x].count <= RetryLimit
          /\ evSend[x].count < evGot[c][e]
      BY <2>0, <2>4 DEF SendRecord, SenderBehind
    <3>1. n \in Nat /\ n <= RetryLimit + 1 /\ n <= evGot[c][e]
      <4>1. PICK k \in Nat, g \in Nat : k = evSend[x].count /\ g = evGot[c][e]
        BY <1>0, <2>0, <3>0 DEF EventCounts
      <4>2. k < g /\ (k = 0 \/ k <= RetryLimit) /\ n = IF RetryLimit = Unlimited THEN 0 ELSE k + 1
        BY <3>0, <4>1
      <4>3. RetryLimit \in Int /\ RetryLimit >= -1
        BY EventStreamAssumption DEF Unlimited
      <4>4. CASE RetryLimit = Unlimited
        <5>1. n = 0 BY <4>4
        <5> QED BY <5>1, <4>1, <4>3
      <4>5. CASE RetryLimit # Unlimited
        <5>1. n = k + 1 BY <4>2, <4>5
        <5>2. RetryLimit >= 0 BY <4>3, <4>5 DEF Unlimited
        <5>3. k + 1 \in Nat /\ k + 1 <= RetryLimit + 1 /\ k + 1 <= g
          BY <4>2, <4>3, <5>2
        <5> QED BY <5>1, <5>3, <4>1
      <4> QED BY <4>4, <4>5
    <3>2. EventCounts'
      <4>1. n \in Absent .. RetryLimit + 1
        BY <3>1, EventStreamAssumption DEF Absent
      <4>2. /\ evRetry' = [evRetry EXCEPT ![c][e] = n] /\ evGot' = evGot
            /\ evSend' = [evSend EXCEPT ![x].pc = "tick"]
        BY <2>4 DEF SendRecord
      <4> HIDE DEF n, c, e
      <4>3. evRetry' \in [Consumers -> [Events -> Absent .. RetryLimit + 1]]
        BY <1>0, <2>0, <4>1, <4>2 DEF EventCounts
      <4>4. evSend' \in [Senders -> [pc : SendStates, count : 0 .. RetryLimit + 1]]
        BY <1>0, <4>2 DEF EventCounts, SendStates
      <4> QED BY <1>0, <4>2, <4>3, <4>4 DEF EventCounts
    <3>3. /\ evSend'[x].pc = "tick" /\ evSend'[x].count = evSend[x].count
          /\ \A y \in Senders \ {x} : evSend'[y] = evSend[y]
      BY <1>0, <2>0, <2>4 DEF SendRecord, EventCounts
    <3>4. /\ evRetry'[c][e] = n
          /\ \A d \in Consumers, f \in Events :
               (d # c \/ f # e) => evRetry'[d][f] = evRetry[d][f]
          /\ UNCHANGED <<evGot, evAcked>>
      BY <1>0, <2>0, <2>4 DEF SendRecord, EventCounts
    <3>5. SenderBehind(x)'
      BY <2>0, <3>3, <3>4 DEF SenderBehind
    <3>6. SenderSettled(x)'
      BY <2>0, <3>1, <3>3, <3>4 DEF SenderSettled, Absent
    <3>7. \A d \in Consumers, f \in Events : evGot'[d][f] >= evGot[d][f]
      BY <1>0, <3>4 DEF EventCounts
    <3>8. evRetry'[c][e] <= evGot'[c][e] /\ evRetry'[c][e] \in {evRetry[c][e]} \cup Nat
      BY <3>1, <3>4
    <3> QED
      BY <3>2, <3>3, <3>4, <3>5, <3>6, <3>7, <3>8, OneSender
  <2>5. CASE Receive(x)
    <3> DEFINE n == IF evGot[c][e] = MaxGot THEN MaxGot ELSE evGot[c][e] + 1
    <3>1. n \in 0 .. MaxGot /\ n >= evGot[c][e] /\ n > evSend[x].count
      BY <2>0 DEF MaxGot, SenderBehind
    <3>2. EventCounts'
      BY <1>0, <2>0, <2>5, <3>1 DEF Receive, EventCounts, SendStates
    <3>3. /\ evSend'[x].pc = IF c \in ByHand THEN "record" ELSE "done"
          /\ evSend'[x].count = evSend[x].count /\ evSend[x].pc = "offer"
          /\ \A y \in Senders \ {x} : evSend'[y] = evSend[y]
      BY <1>0, <2>0, <2>5 DEF Receive, EventCounts
    <3>4. /\ evGot'[c][e] = n
          /\ \A d \in Consumers, f \in Events :
               (d # c \/ f # e) => evGot'[d][f] = evGot[d][f]
          /\ UNCHANGED <<evRetry, evAcked>>
      BY <1>0, <2>0, <2>5 DEF Receive, EventCounts
    <3>5. SenderBehind(x)'
      BY <2>0, <3>1, <3>3, <3>4 DEF SenderBehind
    <3>6. Settled(c, e) => Settled(c, e)'
      BY <2>0, <3>1, <3>4, SettledForGood DEF MaxGot
    <3>9. SenderSettled(x)'
      BY <2>0, <3>3, <3>4, <3>6 DEF SenderSettled
    <3>7. \A d \in Consumers, f \in Events : evGot'[d][f] >= evGot[d][f]
      <4>1. \A d \in Consumers, f \in Events : evGot[d][f] \in 0 .. MaxGot
        BY <1>0 DEF EventCounts
      <4> QED
        BY <3>1, <3>4, <4>1 DEF MaxGot
    <3>8. evRetry'[c][e] <= evGot'[c][e] /\ evRetry'[c][e] \in {evRetry[c][e]} \cup Nat
      BY <2>0, <3>1, <3>4 DEF CountBehind, MaxGot, Absent
    <3> QED
      BY <3>2, <3>3, <3>4, <3>5, <3>7, <3>8, <3>9, OneSender
  <2> QED
    BY <1>9, <2>1, <2>2, <2>3, <2>4, <2>5 DEF SendStep
<1> QED
  BY <1>2, <1>3, <1>4, <1>5, <1>6, <1>7, <1>8, <1>9 DEF EventStreamNext, Lookup

(* The memory event stream gives no event up early: in every reachable     *)
(* state a sender that is done with an event for a consumer that           *)
(* acknowledges by hand was told of an Ack, or the event was delivered     *)
(* more often than RetryLimit. For any consumers, events and limits,       *)
(* however the goroutines of one pair interleave.                          *)
THEOREM EventStreamGivesUpLate ==
  EventStreamInit /\ [][EventStreamNext]_evVars => []NeverGivenUpEarly
<1>1. EventStreamInv => NeverGivenUpEarly
  BY DEF EventStreamInv, NeverGivenUpEarly, SenderSettled, Settled, Finished
<1> QED
  BY <1>1, EventStreamInitially, EventStreamStep, PTL

-----------------------------------------------------------------------------
(* An end that sent a message after the close has left Send, and its       *)
(* connection is closed.                                                   *)
Quiet(d, e) ==
  \/ mtSock[d].late[e] = 0
  \/ /\ mtSock[d].late[e] = 1
     /\ Closed(d)
     /\ e \notin mtSock[d].sending

(* Only a connection that was made carries messages.                       *)
OnlyMade(d) == mtDial[d].pc # "done" =>
                 /\ mtSock[d].sending = {}
                 /\ \A e \in Ends : mtSock[d].late[e] = 0

(* The inductive invariant.                                                *)
MemTransportInv ==
  /\ MemTransportTypeOK
  /\ \A d \in Dials : OnlyMade(d)
  /\ \A d \in Dials : \A e \in Ends : Quiet(d, e)

(* The two ends are each other's peers.                                    *)
LEMMA PeerOfEnd == \A e \in Ends : Peer(e) \in Ends /\ Peer(e) # e
<1>1. \A e \in Ends : \E f \in Ends : f # e
  BY DEF Ends
<1>2. QED
  BY <1>1 DEF Peer

(* The transport starts with the invariant: no connection is made.         *)
LEMMA MemTransportInitially == MemTransportInit => MemTransportInv
<1> SUFFICES ASSUME MemTransportInit PROVE MemTransportInv
  OBVIOUS
<1>1. (CHOOSE a \in Addrs : TRUE) \in Addrs
  BY MemTransportAssumption
<1>2. [exit |-> FALSE, sending |-> {}, receiving |-> {}, closing |-> {},
       late |-> [e \in Ends |-> 0]] \in Sockets
  BY DEF Sockets
<1>3. MemTransportTypeOK
  BY <1>1, <1>2 DEF MemTransportInit, MemTransportTypeOK
<1>4. \A d \in Dials : OnlyMade(d) /\ \A e \in Ends : Quiet(d, e)
  BY DEF MemTransportInit, OnlyMade, Quiet
<1> QED
  BY <1>3, <1>4 DEF MemTransportInv

(* A connection that is made keeps its address, and a closed connection    *)
(* or listener stays closed.                                               *)
LEMMA ClosedForGood ==
  ASSUME MemTransportInv, [MemTransportNext]_mtVars, NEW d \in Dials,
         mtDial[d].pc = "done"
  PROVE  mtDial'[d] = mtDial[d] /\ (Closed(d) => Closed(d)')
<1> USE DEF MemTransportInv, MemTransportTypeOK
<1>1. CASE \E l \in Listens, a \in Addrs : ListenCall(l, a)
  BY <1>1 DEF ListenCall, Closed
<1>2. CASE \E l \in Listens : Listen(l)
  BY <1>2 DEF Listen, Closed
<1>3. CASE \E a \in Addrs : Accept(a) \/ AcceptEnds(a) \/ ListenerClose(a)
  BY <1>3 DEF Accept, AcceptEnds, ListenerClose, Closed
<1>4. CASE \E c \in Dials, a \in Addrs : DialCall(c, a)
  BY <1>4 DEF DialCall, Closed
<1>5. CASE \E c \in Dials : DialLookup(c) \/ DialConnect(c) \/ DialRefused(c)
  BY <1>5 DEF DialLookup, DialConnect, DialRefused, Closed
<1>6. ASSUME NEW c \in Talking, NEW e \in Ends, Send(c, e) \/ Recv(c, e) \/ Transfer(c, e)
      PROVE  mtDial'[d] = mtDial[d] /\ (Closed(d) => Closed(d)')
  <2>1. mtSock'[d].exit = mtSock[d].exit
    <3>1. c \in Dials /\ mtSock \in [Dials -> Sockets]
      BY MemTransportAssumption
    <3>2. CASE Send(c, e)
      BY <3>1, <3>2 DEF Send, Sockets
    <3>3. CASE Recv(c, e)
      BY <3>1, <3>3 DEF Recv, Sockets
    <3>4. CASE Transfer(c, e)
      BY <3>1, <3>4 DEF Transfer, Sockets
    <3>5. QED
      BY <1>6, <3>2, <3>3, <3>4
  <2>2. QED
    BY <1>6, <2>1 DEF Send, Recv, Transfer, Closed
<1>7. ASSUME NEW c \in Talking, NEW e \in Ends, CloseCheck(c, e) \/ CloseExit(c, e)
      PROVE  mtDial'[d] = mtDial[d] /\ (Closed(d) => Closed(d)')
  <2>1. mtSock[d].exit => mtSock'[d].exit
    <3>1. c \in Dials /\ mtSock \in [Dials -> Sockets]
      BY MemTransportAssumption
    <3>2. CASE CloseCheck(c, e)
      BY <3>1, <3>2 DEF CloseCheck, Sockets
    <3>3. CASE CloseExit(c, e)
      BY <3>1, <3>3 DEF CloseExit, Sockets
    <3>4. QED
      BY <1>7, <3>2, <3>3
  <2>2. QED
    BY <1>7, <2>1 DEF CloseCheck, CloseExit, Closed
<1>8. CASE UNCHANGED mtVars
  BY <1>8 DEF mtVars, Closed
<1> QED
  BY <1>1, <1>2, <1>3, <1>4, <1>5, <1>6, <1>7, <1>8 DEF MemTransportNext

(* A step that leaves a connection alone keeps what is said of it.         *)
LEMMA SocketAlone ==
  ASSUME MemTransportInv, [MemTransportNext]_mtVars,
         NEW d \in Dials, mtSock'[d] = mtSock[d]
  PROVE  OnlyMade(d)' /\ \A e \in Ends : Quiet(d, e)'
<1>1. CASE mtDial[d].pc = "done"
  BY <1>1, ClosedForGood DEF MemTransportInv, OnlyMade, Quiet
<1>2. CASE mtDial[d].pc # "done"
  BY <1>2 DEF MemTransportInv, OnlyMade, Quiet
<1> QED
  BY <1>1, <1>2

(* Every step keeps the types.                                             *)
LEMMA MemTransportTypes ==
  MemTransportInv /\ [MemTransportNext]_mtVars => MemTransportTypeOK'
<1> SUFFICES ASSUME MemTransportInv, [MemTransportNext]_mtVars
             PROVE  MemTransportTypeOK'
  OBVIOUS
<1> USE DEF MemTransportInv, MemTransportTypeOK
<1>1. ASSUME NEW l \in Listens, NEW a \in Addrs, ListenCall(l, a)
      PROVE  MemTransportTypeOK'
  BY <1>1 DEF ListenCall
<1>2. ASSUME NEW l \in Listens, Listen(l) PROVE MemTransportTypeOK'
  <2>1. mtListener' \in [Addrs -> [st : {"none", "open", "closed"},
                                  loop : {"none", "running", "ended"}]]
    <3>1. mtListener' = mtListener \/
          mtListener' = [mtListener EXCEPT ![mtListen[l].addr].st = "open"]
      BY <1>2 DEF Listen
    <3>2. QED
      BY <3>1
  <2>2. mtListen' \in [Listens -> [pc : {"none", "lock", "done", "refused"},
                                  addr : Addrs]]
    BY <1>2 DEF Listen
  <2>3. QED
    BY <1>2, <2>1, <2>2 DEF Listen
<1>3. ASSUME NEW a \in Addrs, Accept(a) \/ AcceptEnds(a) \/ ListenerClose(a)
      PROVE  MemTransportTypeOK'
  BY <1>3 DEF Accept, AcceptEnds, ListenerClose
<1>4. ASSUME NEW d \in Dials, NEW a \in Addrs, DialCall(d, a)
      PROVE  MemTransportTypeOK'
  BY <1>4 DEF DialCall
<1>5. ASSUME NEW d \in Dials, DialLookup(d) \/ DialConnect(d) \/ DialRefused(d)
      PROVE  MemTransportTypeOK'
  BY <1>5 DEF DialLookup, DialConnect, DialRefused
<1>6. ASSUME NEW d \in Dials, NEW e \in Ends, Send(d, e) \/ Recv(d, e)
      PROVE  MemTransportTypeOK'
  <2>1. /\ [mtSock[d] EXCEPT !.sending = @ \cup {e}] \in Sockets
        /\ [mtSock[d] EXCEPT !.receiving = @ \cup {e}] \in Sockets
    BY DEF Sockets
  <2>2. QED
    BY <1>6, <2>1, ZenonT(40) DEF Send, Recv
<1>7. ASSUME NEW d \in Dials, NEW e \in Ends, Transfer(d, e)
      PROVE  MemTransportTypeOK'
  <2>1. mtSock[d] \in Sockets
    OBVIOUS
  <2>2. (IF Closed(d) /\ mtSock[d].late[e] < 2 THEN mtSock[d].late[e] + 1
         ELSE mtSock[d].late[e]) \in 0..2
    BY <2>1 DEF Sockets
  <2>3. \A n \in 0..2 : [mtSock[d] EXCEPT !.sending = @ \ {e},
                                          !.receiving = @ \ {Peer(e)},
                                          !.late[e] = n] \in Sockets
    BY <2>1 DEF Sockets
  <2>4. QED
    BY <1>7, <2>2, <2>3 DEF Transfer
<1>8. ASSUME NEW d \in Dials, NEW e \in Ends, CloseCheck(d, e) \/ CloseExit(d, e)
      PROVE  MemTransportTypeOK'
  <2>1. /\ [mtSock[d] EXCEPT !.closing = @ \cup {e}] \in Sockets
        /\ [mtSock[d] EXCEPT !.closing = @ \ {e}, !.exit = TRUE] \in Sockets
        /\ mtSock[d].exit \in BOOLEAN
    BY DEF Sockets
  <2>2. CASE CloseCheck(d, e)
    BY <2>1, <2>2 DEF CloseCheck
  <2>3. CASE CloseExit(d, e)
    BY <2>1, <2>3 DEF CloseExit
  <2>4. QED
    BY <1>8, <2>2, <2>3
<1>9. CASE UNCHANGED mtVars
  BY <1>9 DEF mtVars
<1> QED
  BY <1>1, <1>2, <1>3, <1>4, <1>5, <1>6, <1>7, <1>8, <1>9, MemTransportAssumption
     DEF MemTransportNext

(* Every step keeps the invariant.                                         *)
LEMMA MemTransportStep ==
  MemTransportInv /\ [MemTransportNext]_mtVars => MemTransportInv'
<1> SUFFICES ASSUME MemTransportInv, [MemTransportNext]_mtVars
             PROVE  MemTransportInv'
  OBVIOUS
<1>1. MemTransportTypeOK'
  BY MemTransportTypes
<1>2. CASE UNCHANGED mtSock
  BY <1>1, <1>2, SocketAlone DEF MemTransportInv
<1>3. ASSUME NEW c \in Dials, NEW f \in Ends,
             \/ Send(c, f) \/ Recv(c, f) \/ Transfer(c, f)
             \/ CloseCheck(c, f) \/ CloseExit(c, f)
      PROVE  MemTransportInv'
  <2> DEFINE sock == mtSock[c]
  <2>1. sock \in Sockets /\ mtSock'[c] \in Sockets /\ mtDial' = mtDial
    BY <1>1, <1>3 DEF MemTransportInv, MemTransportTypeOK, Send, Recv, Transfer,
                      CloseCheck, CloseExit
  <2>2. \A d \in Dials \ {c} : mtSock'[d] = mtSock[d]
    BY <1>3 DEF MemTransportInv, MemTransportTypeOK, Send, Recv, Transfer,
                CloseCheck, CloseExit
  <2>3. Closed(c) /\ mtDial[c].pc = "done" => Closed(c)'
    BY ClosedForGood
  <2>4. OnlyMade(c) /\ \A e \in Ends : Quiet(c, e)
    BY DEF MemTransportInv
  <2>5. ASSUME Send(c, f)
        PROVE  OnlyMade(c)' /\ \A e \in Ends : Quiet(c, e)'
    <3>1. mtSock'[c].late = sock.late /\ mtDial[c].pc = "done" /\ ~ Closed(c)
      BY <2>1, <2>5 DEF Send, SelectsExit, MemTransportInv, MemTransportTypeOK, Sockets
    <3>2. QED
      BY <2>1, <2>4, <3>1 DEF OnlyMade, Quiet
  <2>6. ASSUME Recv(c, f) \/ CloseCheck(c, f) \/ CloseExit(c, f)
        PROVE  OnlyMade(c)' /\ \A e \in Ends : Quiet(c, e)'
    <3>1. mtSock'[c].late = sock.late /\ mtSock'[c].sending = sock.sending
      BY <2>1, <2>6 DEF Recv, CloseCheck, CloseExit, MemTransportInv,
                        MemTransportTypeOK, Sockets
    <3>2. QED
      BY <2>1, <2>3, <2>4, <3>1 DEF OnlyMade, Quiet
  <2>7. ASSUME Transfer(c, f)
        PROVE  OnlyMade(c)' /\ \A e \in Ends : Quiet(c, e)'
    <3>1. f \in sock.sending /\ mtDial[c].pc = "done" /\ sock.late[f] = 0
      BY <2>4, <2>7 DEF Transfer, OnlyMade, Quiet
    <3>2. mtSock'[c].sending = sock.sending \ {f}
      BY <2>1, <2>7 DEF Transfer, MemTransportInv, MemTransportTypeOK, Sockets
    <3>3. mtSock'[c].late = [sock.late EXCEPT ![f] = IF Closed(c) THEN 1 ELSE 0]
      BY <2>1, <2>7, <3>1 DEF Transfer, MemTransportInv, MemTransportTypeOK, Sockets
    <3>4. sock.late \in [Ends -> 0..2]
      BY <2>1 DEF Sockets
    <3>5. QED
      BY <2>1, <2>3, <2>4, <3>1, <3>2, <3>3, <3>4 DEF OnlyMade, Quiet
  <2>8. OnlyMade(c)' /\ \A e \in Ends : Quiet(c, e)'
    BY <1>3, <2>5, <2>6, <2>7
  <2>9. QED
    BY <1>1, <2>2, <2>8, SocketAlone DEF MemTransportInv
<1>4. QED
  BY <1>2, <1>3, MemTransportAssumption
     DEF MemTransportNext, ListenCall, Listen, Accept, AcceptEnds, ListenerClose,
         DialCall, DialLookup, DialConnect, DialRefused, mtVars

(* The transport is type correct: of transport/memory.go, the map, the     *)
(* calls and the connections only take the values declared for them.       *)
THEOREM MemTransportTypeCorrect == MemTransportSpec => []MemTransportTypeOK
<1>1. MemTransportInv => MemTransportTypeOK
  BY DEF MemTransportInv
<1>2. QED
  BY <1>1, MemTransportInitially, MemTransportStep, PTL DEF MemTransportSpec

(* After a connection or its listener is closed, at most one more message  *)
(* passes in each direction (memorySocket.Send, Recv and Close).           *)
THEOREM MemTransportQuiet == MemTransportSpec => []QuietAfterClose
<1>1. MemTransportInv => QuietAfterClose
  BY DEF MemTransportInv, Quiet, QuietAfterClose
<1>2. QED
  BY <1>1, MemTransportInitially, MemTransportStep, PTL DEF MemTransportSpec

=============================================================================
