-------------------------- MODULE ServeConnProofs --------------------------
(***************************************************************************)
(* Proofs about ServeConn, for any sockets, ids, channel capacity and      *)
(* number of responses.                                                    *)
(*                                                                         *)
(* The invariant has three parts. The wait group counts the goroutines     *)
(* that run, so the loop that waits for it closes the connection when      *)
(* there are none. The responses of a socket that were written, that the   *)
(* outbound goroutine has in hand and that are in its channel are numbered *)
(* from 1 to the number of those sent, whatever overwrites their bodies.   *)
(* And an outbound goroutine that ended while the connection worked left   *)
(* nothing behind but what was queued after the socket was closed.         *)
(***************************************************************************)
EXTENDS ServeConn, FiniteSetTheorems, TLAPS

(* The goroutines that the wait group counts.                              *)
Handlers == {s \in Socks : h[s] \in {"read", "run", "write"}}

(* The goroutines that write.                                              *)
Writers == {s \in Socks : o[s] = "run"}

(* The types of the variables, without the count of the wait group.        *)
Types ==
  /\ main \in {"recv", "leave", "closed", "ack", "refuse"} \cup Socks
  /\ gerr \in BOOLEAN /\ closeConn \in BOOLEAN
  /\ up \in BOOLEAN /\ broke \in BOOLEAN /\ grpc \in BOOLEAN
  /\ pool \in [Ids -> Socks \cup {Nil}]
  /\ id \in [Socks -> Ids \cup {Nil}]
  /\ closed \in [Socks -> BOOLEAN]
  /\ recv \in [Socks -> 0..Cap]
  /\ send \in [Socks -> Seq(Message)]
  /\ h \in [Socks -> {"none", "read", "run", "write", "done"}]
  /\ o \in [Socks -> {"none", "run", "done"}]
  /\ hand \in [Socks -> Seq(Message)]
  /\ sends \in [Socks -> 0..MaxSends]
  /\ owed \in [Socks -> 0..MaxSends]
  /\ grown \in [Socks -> 0..MaxSends]
  /\ written \in [Socks -> Seq(Message)]

(* The wait group counts the goroutines, and the message that the loop     *)
(* hands over.                                                             *)
Counted == wg = Cardinality(Handlers) + Cardinality(Writers)
                + (IF main \in Socks THEN 1 ELSE 0)

(* A socket before its first message, and the pool's sockets are not such. *)
Fresh ==
  /\ \A s \in Socks : id[s] = Nil => h[s] = "none" /\ o[s] = "none" /\ closed[s] = FALSE
  /\ \A x \in Ids : pool[x] # Nil => id[pool[x]] = x

(* The responses written, in hand and queued are numbered from 1 to k.     *)
Numbers(w, c, q, k) ==
  /\ \A i \in 1 .. Len(w) : w[i].n = i
  /\ \A i \in 1 .. Len(c) : c[i].n = Len(w) + i
  /\ \A i \in 1 .. Len(q) : q[i].n = Len(w) + Len(c) + i
  /\ Len(w) + Len(c) + Len(q) = k

(* What was written is in order, and so is what is on its way as long as   *)
(* there is a goroutine to write it.                                       *)
Numbered(s) ==
  /\ \A i \in 1 .. Len(written[s]) : written[s][i].n = i
  /\ hand[s] # <<>> => o[s] = "run"
  /\ o[s] = "none" => h[s] = "none" /\ sends[s] = 0
  /\ o[s] # "done" => Numbers(written[s], hand[s], send[s], sends[s])

(* The connection works, or the server closed it after all its work.       *)
Working == up = TRUE \/ (main = "closed" /\ gerr = FALSE /\ broke = FALSE /\ grpc = FALSE)

(* What was queued on the open socket is written by the goroutine before   *)
(* it ends; what it leaves in the channel came after the socket closed.    *)
Drained(s) ==
  /\ owed[s] <= sends[s]
  /\ o[s] = "done" => closed[s] = TRUE
  /\ Working /\ o[s] = "done" =>
       /\ owed[s] <= Len(written[s])
       /\ \A i \in 1 .. Len(send[s]) : send[s][i].n > owed[s]

(* Who closed the connection, and that a loop that left without an error   *)
(* leaves nobody running.                                                  *)
Link ==
  /\ up = FALSE => main = "closed" \/ broke = TRUE \/ grpc = TRUE
  /\ main = "closed" /\ gerr = FALSE => Handlers = {} /\ Writers = {}

(* The channel has its capacity, and a response that is being written is   *)
(* within the bound.                                                       *)
Fits(s) == Len(send[s]) <= Cap /\ (h[s] = "write" => sends[s] < MaxSends)

(* The inductive invariant.                                                *)
Inv ==
  /\ Types
  /\ \A s \in Socks : Fits(s)
  /\ Counted /\ Fresh /\ Link
  /\ \A s \in Socks : Numbered(s) /\ Drained(s)

(* Taking a response from the channel keeps the numbers,                   *)
LEMMA NumbersTake ==
  ASSUME NEW M, NEW w \in Seq(M), NEW q \in Seq(M), q # <<>>, NEW k \in Nat,
         Numbers(w, <<>>, q, k)
  PROVE  Numbers(w, <<Head(q)>>, Tail(q), k)
<1> DEFINE c == <<Head(q)>>
           t == Tail(q)
<1>1. /\ Len(w) \in Nat /\ Len(q) \in Nat \ {0} /\ Len(t) = Len(q) - 1 /\ Len(c) = 1
      /\ c[1] = q[1] /\ \A i \in 1 .. Len(t) : t[i] = q[i + 1]
  OBVIOUS
<1>2. /\ \A i \in 1 .. Len(w) : w[i].n = i
      /\ \A i \in 1 .. Len(q) : q[i].n = Len(w) + i
      /\ Len(w) + Len(q) = k
  BY <1>1 DEF Numbers
<1>3. \A i \in 1 .. Len(c) : c[i].n = Len(w) + i
  BY <1>1, <1>2
<1>4. \A i \in 1 .. Len(t) : t[i].n = Len(w) + Len(c) + i
  BY <1>1, <1>2
<1>5. Len(w) + Len(c) + Len(t) = k
  BY <1>1, <1>2
<1> HIDE DEF c, t
<1> QED
  BY <1>2, <1>3, <1>4, <1>5 DEF Numbers, c, t

(* so does writing it,                                                     *)
LEMMA NumbersWrite ==
  ASSUME NEW M, NEW w \in Seq(M), NEW c \in Seq(M), NEW q \in Seq(M), NEW k \in Nat,
         Numbers(w, c, q, k)
  PROVE  Numbers(w \o c, <<>>, q, k)
<1> DEFINE t == w \o c
<1>1. /\ Len(w) \in Nat /\ Len(c) \in Nat /\ Len(q) \in Nat /\ Len(t) = Len(w) + Len(c)
      /\ \A i \in 1 .. Len(w) : t[i] = w[i]
      /\ \A i \in 1 .. Len(c) : t[Len(w) + i] = c[i]
  OBVIOUS
<1>2. ASSUME NEW i \in 1 .. Len(t) PROVE t[i].n = i
  <2>1. CASE i <= Len(w)
    BY <1>1, <2>1 DEF Numbers
  <2>2. CASE i > Len(w)
    <3>1. i - Len(w) \in 1 .. Len(c) /\ i = Len(w) + (i - Len(w))
      BY <1>1, <2>2
    <3> QED
      BY <1>1, <3>1 DEF Numbers
  <2> QED
    BY <1>1, <2>1, <2>2
<1>3. \A i \in 1 .. Len(q) : q[i].n = Len(t) + 0 + i
  BY <1>1 DEF Numbers
<1>4. Len(t) + 0 + Len(q) = k
  BY <1>1 DEF Numbers
<1> HIDE DEF t
<1> QED
  BY <1>2, <1>3, <1>4 DEF Numbers, t

(* and sending one more, although it changes the bodies on the way.        *)
LEMMA NumbersSend ==
  ASSUME NEW M, NEW w \in Seq(M), NEW c \in Seq(M), NEW q \in Seq(M), NEW k \in Nat,
         Numbers(w, c, q, k),
         NEW d \in Seq(M), Len(d) = Len(c), \A i \in 1 .. Len(c) : d[i].n = c[i].n,
         NEW t \in Seq(M), Len(t) = Len(q), \A i \in 1 .. Len(q) : t[i].n = q[i].n,
         NEW m \in M, m.n = k + 1
  PROVE  Numbers(w, d, Append(t, m), k + 1)
<1> DEFINE u == Append(t, m)
<1>1. /\ Len(w) \in Nat /\ Len(c) \in Nat /\ Len(q) \in Nat /\ Len(u) = Len(q) + 1
      /\ u[Len(q) + 1] = m /\ \A i \in 1 .. Len(q) : u[i] = t[i]
  OBVIOUS
<1>2. ASSUME NEW i \in 1 .. Len(u) PROVE u[i].n = Len(w) + Len(d) + i
  <2>1. CASE i \in 1 .. Len(q)
    <3>1. q[i].n = Len(w) + Len(c) + i
      BY <2>1 DEF Numbers
    <3> QED
      BY <1>1, <2>1, <3>1
  <2>2. CASE i = Len(q) + 1
    <3>1. Len(w) + Len(c) + Len(q) = k
      BY DEF Numbers
    <3>2. u[i] = m /\ m.n = k + 1
      BY <1>1, <2>2
    <3>3. k + 1 = Len(w) + Len(d) + i
      BY <1>1, <2>2, <3>1
    <3> HIDE DEF u
    <3> QED
      BY <3>2, <3>3
  <2> QED
    BY <1>1, <2>1, <2>2
<1>3. Len(w) + Len(d) + Len(u) = k + 1
  BY <1>1 DEF Numbers
<1>4. /\ \A i \in 1 .. Len(w) : w[i].n = i
      /\ \A i \in 1 .. Len(d) : d[i].n = Len(w) + i
  BY DEF Numbers
<1> HIDE DEF u
<1> QED
  BY <1>2, <1>3, <1>4 DEF Numbers, u

(* The goroutines can be counted.                                          *)
LEMMA FiniteWork == IsFiniteSet(Handlers) /\ IsFiniteSet(Writers)
                    /\ Cardinality(Handlers) \in Nat /\ Cardinality(Writers) \in Nat
  BY ServeConnAssumption, FS_Subset, FS_CardinalityType DEF Handlers, Writers

(* A connection without sockets.                                           *)
LEMMA Initially == Init => Inv
<1> SUFFICES ASSUME Init PROVE Inv
  OBVIOUS
<1>1. Types
  <2>1. <<>> \in Seq(Message) /\ 0 \in 0..Cap /\ 0 \in 0..MaxSends
    BY ServeConnAssumption
  <2>2. gerr \in BOOLEAN /\ closeConn \in BOOLEAN /\ up \in BOOLEAN /\ broke \in BOOLEAN
        /\ grpc \in BOOLEAN
    BY Zenon DEF Init
  <2> QED
    BY <2>1, <2>2 DEF Init, Types
<1>2. \A s \in Socks : Fits(s)
  BY ServeConnAssumption DEF Init, Fits
<1>3. Counted
  <2>1. Handlers = {} /\ Writers = {} /\ main \notin Socks
    BY ServeConnAssumption DEF Init, Handlers, Writers
  <2> QED
    BY <2>1, FS_EmptySet DEF Init, Counted
<1>4. Fresh /\ Link
  BY DEF Init, Fresh, Link
<1>5. \A s \in Socks : Numbered(s) /\ Drained(s)
  BY DEF Init, Numbered, Numbers, Drained
<1> QED
  BY <1>1, <1>2, <1>3, <1>4, <1>5 DEF Inv

(* What the invariant says of the responses.                               *)
LEMMA InvImplies == Inv => TypeOK /\ NoLostResponse /\ ClosedAnswered
<1> SUFFICES ASSUME Inv PROVE TypeOK /\ NoLostResponse /\ ClosedAnswered
  OBVIOUS
<1>1. TypeOK
  BY DEF Inv, Types, Counted, Fits, TypeOK, Handlers, Writers
<1>2. NoLostResponse
  BY DEF Inv, Drained, NoLostResponse, Working
<1>3. ASSUME main = "closed", ~gerr, ~broke, ~grpc, NEW s \in Socks
      PROVE  owed[s] <= Len(written[s]) /\ \A i \in 1..Len(written[s]) : written[s][i].n = i
  <2>1. \A i \in 1 .. Len(written[s]) : written[s][i].n = i
    BY DEF Inv, Numbered
  <2>2. CASE o[s] = "done"
    BY <1>3, <2>1, <2>2 DEF Inv, Types, Drained, Working
  <2>3. CASE o[s] = "none"
    <3>1. owed[s] = 0 /\ Len(written[s]) \in Nat
      BY <2>3 DEF Inv, Types, Numbered, Drained
    <3> QED
      BY <2>1, <3>1
  <2> QED
    BY <1>3, <2>2, <2>3 DEF Inv, Types, Link, Writers
<1> QED
  BY <1>1, <1>2, <1>3 DEF ClosedAnswered

(* The steps that concern no socket.                                       *)
Elsewhere ==
  \/ MainRecvFails \/ MainCloses \/ MainEvent \/ MainAnswers \/ Break
  \/ \E x \in Ids : MainUnknownEOS(x) \/ MainNoCodec(x)

(* Where the loop goes in these steps.                                     *)
Moves ==
  /\ main \in {"recv", "ack", "refuse"}
  /\ main' \in {"recv", "ack", "refuse", "leave"}

(* What these steps leave alone.                                           *)
LEMMA ElsewhereLeaves ==
  ASSUME Inv, Elsewhere \/ UNCHANGED vars
  PROVE  /\ UNCHANGED <<wg, pool, id, closed, recv, send, h, o, hand, sends, grown, owed, written>>
         /\ main' = main \/ Moves
         /\ gerr' = gerr \/ gerr' = TRUE
         /\ up' = up \/ (up' = FALSE /\ broke' = TRUE)
         /\ broke' = broke \/ broke' = TRUE
         /\ grpc' = grpc /\ closeConn' \in BOOLEAN
<1>1. CASE MainRecvFails
  BY <1>1 DEF Inv, Types, Moves, MainRecvFails, sockVars, linkVars, respVars
<1>2. CASE MainCloses
  BY <1>2 DEF Inv, Types, Moves, MainCloses, sockVars, linkVars, respVars
<1>3. CASE MainEvent
  BY <1>3 DEF Inv, Types, Moves, MainEvent, Received, sockVars, linkVars, respVars
<1>4. CASE Break
  BY <1>4 DEF Inv, Types, Break, Breaks, sockVars, linkVars, respVars
<1>5. ASSUME NEW x \in Ids, MainUnknownEOS(x)
      PROVE  /\ UNCHANGED <<main, gerr, wg, up, broke, grpc, pool, id, closed, recv, send, h, o,
                            hand, sends, grown, owed, written>>
             /\ closeConn' \in BOOLEAN
  BY <1>5 DEF MainUnknownEOS, Received, sockVars, linkVars, respVars
<1>6. ASSUME NEW x \in Ids, MainNoCodec(x)
      PROVE  /\ UNCHANGED <<gerr, wg, up, broke, grpc, pool, id, closed, recv, send, h, o, hand,
                            sends, grown, owed, written>>
             /\ closeConn' \in BOOLEAN /\ Moves
  BY <1>6 DEF MainNoCodec, Moves, Received, sockVars, linkVars, respVars
<1>7. CASE MainAnswers
  <2>1. /\ UNCHANGED <<closeConn, wg, pool, id, closed, recv, send, h, o, hand, sends, grown,
                       owed, written>>
        /\ Moves
    BY <1>7 DEF MainAnswers, Moves, sockVars, respVars
  <2>2. /\ gerr' = gerr \/ gerr' = TRUE
        /\ up' = up \/ (up' = FALSE /\ broke' = TRUE)
        /\ broke' = broke \/ broke' = TRUE
        /\ grpc' = grpc
    BY <1>7 DEF MainAnswers, Breaks, linkVars
  <2> QED
    BY <2>1, <2>2 DEF Inv, Types
<1>8. CASE UNCHANGED vars
  BY <1>8 DEF Inv, Types, vars, sockVars, linkVars, respVars
<1> QED
  BY <1>1, <1>2, <1>3, <1>4, <1>5, <1>6, <1>7, <1>8 DEF Elsewhere

(* They keep the invariant.                                                *)
LEMMA ElsewhereInv ==
  ASSUME Inv, Elsewhere \/ UNCHANGED vars PROVE Inv'
<1>1. /\ UNCHANGED <<wg, pool, id, closed, recv, send, h, o, hand, sends, grown, owed, written>>
      /\ main' = main \/ Moves
      /\ gerr' = gerr \/ gerr' = TRUE
      /\ up' = up \/ (up' = FALSE /\ broke' = TRUE)
      /\ broke' = broke \/ broke' = TRUE
      /\ grpc' = grpc /\ closeConn' \in BOOLEAN
  BY ElsewhereLeaves
<1>2. Types'
  BY <1>1 DEF Inv, Types, Moves
<1>3. Counted'
  BY <1>1, ServeConnAssumption DEF Inv, Counted, Moves, Handlers, Writers
<1>4. Fresh'
  BY <1>1 DEF Inv, Fresh
<1>5. Link'
  BY <1>1 DEF Inv, Types, Moves, Link, Handlers, Writers
<1>6. ASSUME NEW s \in Socks PROVE Numbered(s)' /\ Drained(s)'
  <2>1. Working' => Working
    BY <1>1 DEF Inv, Types, Moves, Working
  <2> QED
    BY <1>1, <2>1 DEF Inv, Types, Numbered, Drained
<1> QED
  BY <1>1, <1>2, <1>3, <1>4, <1>5, <1>6 DEF Inv, Fits

(* The loop hands over a message of a known id.                            *)
LEMMA HandOverInv ==
  ASSUME Inv, (\E x \in Ids : MainKnown(x)) \/ (\E s \in Socks : MainAccept(s))
  PROVE  Inv'
<1>0. Cardinality(Handlers) \in Nat /\ Cardinality(Writers) \in Nat
  BY FiniteWork
<1>1. ASSUME NEW x \in Ids, MainKnown(x) PROVE Inv'
  <2>1. /\ UNCHANGED <<gerr, up, broke, grpc, pool, id, closed, recv, send, h, o, hand, sends,
                       grown, owed, written>>
        /\ main = "recv" /\ main' \in Socks /\ wg' = wg + 1 /\ closeConn' \in BOOLEAN
    BY <1>1 DEF Inv, Types, MainKnown, Received, sockVars, linkVars, respVars
  <2>2. Types'
    BY <2>1 DEF Inv, Types
  <2>3. Counted'
    BY <1>0, <2>1, ServeConnAssumption DEF Inv, Counted, Handlers, Writers
  <2>4. Fresh' /\ Link'
    BY <2>1, ServeConnAssumption DEF Inv, Fresh, Link
  <2>5. ASSUME NEW s \in Socks PROVE Numbered(s)' /\ Drained(s)'
    BY <2>1, ServeConnAssumption DEF Inv, Numbered, Drained, Working
  <2> QED
    BY <2>1, <2>2, <2>3, <2>4, <2>5 DEF Inv, Fits
<1>2. ASSUME NEW s \in Socks, MainAccept(s) PROVE Inv'
  <2>1. /\ UNCHANGED <<gerr, closeConn, up, broke, grpc, id, closed, send, h, o, hand, sends,
                       grown, owed, written>>
        /\ main = s /\ main' = "recv" /\ wg' = wg - 1
        /\ recv' \in [Socks -> 0..Cap]
        /\ pool' = pool \/ pool' = [pool EXCEPT ![id[s]] = Nil]
    <3>1. closed[s] => [closed EXCEPT ![s] = TRUE] = closed
      BY DEF Inv, Types
    <3>2. recv[s] < Cap => [recv EXCEPT ![s] = @ + 1] \in [Socks -> 0..Cap]
      BY ServeConnAssumption DEF Inv, Types
    <3> QED
      BY <1>2, <3>1, <3>2 DEF Inv, Types, MainAccept, Release, linkVars, respVars
  <2>2. Types'
    BY <2>1 DEF Inv, Types
  <2>3. Counted'
    BY <1>0, <2>1, ServeConnAssumption DEF Inv, Counted, Handlers, Writers
  <2>4. Fresh' /\ Link'
    BY <2>1, ServeConnAssumption DEF Inv, Types, Fresh, Link
  <2>5. ASSUME NEW r \in Socks PROVE Numbered(r)' /\ Drained(r)'
    BY <2>1, ServeConnAssumption DEF Inv, Numbered, Drained, Working
  <2> QED
    BY <2>1, <2>2, <2>3, <2>4, <2>5 DEF Inv, Fits
<1> QED
  BY <1>1, <1>2

(* A new socket.                                                           *)
LEMMA MainNewInv ==
  ASSUME Inv, NEW x \in Ids, MainNew(x) PROVE Inv'
<1>1. PICK s \in Socks :
        /\ id[s] = Nil
        /\ pool' = [pool EXCEPT ![x] = s] /\ id' = [id EXCEPT ![s] = x]
        /\ recv' = [recv EXCEPT ![s] = 1]
        /\ h' = [h EXCEPT ![s] = "read"] /\ o' = [o EXCEPT ![s] = "run"]
  <2>1. NewSock \in Socks /\ id[NewSock] = Nil
    BY DEF MainNew, NewSock
  <2> QED
    BY <2>1 DEF MainNew
<1>2. /\ UNCHANGED <<main, gerr, up, broke, grpc, closed, send, hand, sends, grown, owed, written>>
      /\ main = "recv" /\ wg' = wg + 2 /\ closeConn' \in BOOLEAN
  BY DEF MainNew, Received, linkVars, respVars
<1>3. h[s] = "none" /\ o[s] = "none" /\ closed[s] = FALSE
  BY <1>1 DEF Inv, Fresh
<1>4. Types'
  <2>1. pool' \in [Ids -> Socks \cup {Nil}] /\ id' \in [Socks -> Ids \cup {Nil}]
    BY <1>1 DEF Inv, Types
  <2>2. /\ h' \in [Socks -> {"none", "read", "run", "write", "done"}]
        /\ o' \in [Socks -> {"none", "run", "done"}]
    BY <1>1 DEF Inv, Types
  <2>3. recv' \in [Socks -> 0..Cap]
    BY <1>1, ServeConnAssumption DEF Inv, Types
  <2> QED
    BY <1>2, <2>1, <2>2, <2>3 DEF Inv, Types
<1>5. Counted'
  <2>1. Handlers' = Handlers \cup {s} /\ Writers' = Writers \cup {s}
    BY <1>1 DEF Inv, Types, Handlers, Writers
  <2>2. s \notin Handlers /\ s \notin Writers
    BY <1>3 DEF Handlers, Writers
  <2>3. /\ Cardinality(Handlers') = Cardinality(Handlers) + 1
        /\ Cardinality(Writers') = Cardinality(Writers) + 1
    BY <2>1, <2>2, FiniteWork, FS_AddElement
  <2> QED
    BY <1>2, <2>3, FiniteWork DEF Inv, Counted
<1>6. Fresh'
  BY <1>1, <1>2, <1>3, ServeConnAssumption DEF Inv, Types, Fresh
<1>7. Link'
  BY <1>2 DEF Inv, Link
<1>8. ASSUME NEW r \in Socks PROVE Numbered(r)' /\ Drained(r)'
  BY <1>1, <1>2, <1>3 DEF Inv, Types, Numbered, Drained, Working
<1>9. \A r \in Socks : Fits(r)'
  BY <1>1, <1>2 DEF Inv, Types, Fits
<1> QED
  BY <1>4, <1>5, <1>6, <1>7, <1>8, <1>9 DEF Inv

(* The end of the loop: without an error nothing runs any more.            *)
LEMMA MainLeaveInv ==
  ASSUME Inv, MainLeave PROVE Inv'
<1>1. /\ UNCHANGED <<gerr, closeConn, wg, broke, grpc, id, recv, send, h, o, hand, sends, grown,
                     owed, written>>
      /\ main = "leave" /\ main' = "closed" /\ up' = FALSE /\ (gerr \/ wg = 0)
      /\ closed' = [s \in Socks |-> closed[s] \/ \E x \in Ids : pool[x] = s]
      /\ pool' = [x \in Ids |-> Nil]
  BY DEF MainLeave, respVars
<1>2. Types'
  <2>1. closed' \in [Socks -> BOOLEAN] /\ pool' \in [Ids -> Socks \cup {Nil}]
    BY <1>1
  <2> QED
    BY <1>1, <2>1 DEF Inv, Types
<1>3. Handlers' = Handlers /\ Writers' = Writers
  BY <1>1 DEF Handlers, Writers
<1>4. Counted'
  BY <1>1, <1>3, ServeConnAssumption DEF Inv, Counted
<1>5. Fresh'
  <2>1. Fresh /\ Nil \notin Ids /\ Nil \notin Socks
    BY ServeConnAssumption DEF Inv
  <2>2. ASSUME NEW s \in Socks, id'[s] = Nil
        PROVE  h'[s] = "none" /\ o'[s] = "none" /\ closed'[s] = FALSE
    <3>1. id[s] = Nil /\ h[s] = "none" /\ o[s] = "none" /\ closed[s] = FALSE
      BY <1>1, <2>1, <2>2 DEF Fresh
    <3>2. \A x \in Ids : pool[x] # s
      BY <2>1, <3>1 DEF Fresh
    <3> QED BY <1>1, <3>1, <3>2
  <2>3. \A x \in Ids : pool'[x] = Nil
    BY <1>1
  <2> QED BY <2>2, <2>3 DEF Fresh
<1>6. gerr = FALSE => Handlers = {} /\ Writers = {}
  <2> SUFFICES ASSUME gerr = FALSE PROVE Handlers = {} /\ Writers = {}
    OBVIOUS
  <2>1. Cardinality(Handlers) = 0 /\ Cardinality(Writers) = 0
    BY <1>1, FiniteWork, ServeConnAssumption DEF Inv, Counted
  <2> QED
    BY <2>1, FiniteWork, FS_EmptySet
<1>7. Link'
  BY <1>1, <1>3, <1>6 DEF Link
<1>8. ASSUME NEW s \in Socks PROVE Numbered(s)' /\ Drained(s)'
  <2>1. Working' => up = TRUE
    BY <1>1 DEF Inv, Types, Link, Working
  <2> QED
    BY <1>1, <2>1 DEF Inv, Types, Numbered, Drained, Working
<1> QED
  BY <1>1, <1>2, <1>4, <1>5, <1>7, <1>8 DEF Inv, Types, Fits

(* A response moves from the channel to the goroutine's hand, and from     *)
(* there to the connection.                                                *)
LEMMA OutTakesInv ==
  ASSUME Inv, NEW s \in Socks, OutTakes(s) PROVE Inv'
<1>1. /\ UNCHANGED <<main, gerr, closeConn, wg, up, broke, grpc, pool, id, closed, recv, h, o,
                     sends, grown, owed, written>>
      /\ o[s] = "run" /\ hand[s] = <<>> /\ send[s] # <<>>
      /\ hand' = [hand EXCEPT ![s] = <<Head(send[s])>>]
      /\ send' = [send EXCEPT ![s] = Tail(@)]
  BY DEF OutTakes, linkVars, respVars
<1>2. /\ send[s] \in Seq(Message) /\ Head(send[s]) \in Message /\ Head(send[s]) = send[s][1]
      /\ Tail(send[s]) \in Seq(Message) /\ Len(Tail(send[s])) = Len(send[s]) - 1
      /\ Len(send[s]) \in Nat \ {0} /\ Len(hand[s]) = 0
      /\ \A i \in 1 .. Len(Tail(send[s])) : Tail(send[s])[i] = send[s][i + 1]
  BY <1>1 DEF Inv, Types
<1>3. /\ <<Head(send[s])>> \in Seq(Message) /\ Len(<<Head(send[s])>>) = 1
      /\ <<Head(send[s])>>[1] = send[s][1]
  BY <1>2
<1>4. Types'
  BY <1>1, <1>2, <1>3 DEF Inv, Types
<1>5. /\ hand'[s] = <<Head(send[s])>> /\ send'[s] = Tail(send[s])
      /\ \A r \in Socks \ {s} : hand'[r] = hand[r] /\ send'[r] = send[r]
  BY <1>1 DEF Inv, Types
<1>6. Numbered(s)'
  <2>1. Numbers(written[s], <<>>, send[s], sends[s]) /\ Numbered(s)
    BY <1>1 DEF Inv, Numbered
  <2>2. Numbers(written[s], <<Head(send[s])>>, Tail(send[s]), sends[s])
    <3>1. written[s] \in Seq(Message) /\ sends[s] \in Nat
      BY DEF Inv, Types
    <3> QED
      BY <1>1, <1>2, <2>1, <3>1, NumbersTake
  <2> QED
    BY <1>1, <1>5, <2>1, <2>2 DEF Numbered
<1>7. \A r \in Socks \ {s} : Numbered(r)'
  BY <1>1, <1>5 DEF Inv, Numbered
<1>8. \A r \in Socks : Drained(r)'
  BY <1>1, <1>5 DEF Inv, Drained, Working
<1>9. Counted' /\ Fresh' /\ Link'
  BY <1>1 DEF Inv, Counted, Fresh, Link, Handlers, Writers
<1>10. \A r \in Socks : Fits(r)'
  BY <1>1, <1>2, <1>5, ServeConnAssumption DEF Inv, Fits
<1> QED
  BY <1>4, <1>6, <1>7, <1>8, <1>9, <1>10 DEF Inv

(* And a write that succeeds.                                              *)
LEMMA OutWritesInv ==
  ASSUME Inv, NEW s \in Socks, OutWrites(s) PROVE Inv'
<1>1. /\ UNCHANGED <<main, gerr, closeConn, wg, up, broke, grpc, pool, id, closed, recv, send, h, o,
                     sends, grown, owed>>
      /\ hand[s] # <<>>
      /\ hand' = [hand EXCEPT ![s] = <<>>]
      /\ written' = [written EXCEPT ![s] = @ \o hand[s]]
  BY DEF OutWrites, sockVars, linkVars, respVars
<1> DEFINE w == written[s] \o hand[s]
<1>2. /\ hand[s] \in Seq(Message) /\ written[s] \in Seq(Message) /\ send[s] \in Seq(Message)
      /\ w \in Seq(Message) /\ Len(w) = Len(written[s]) + Len(hand[s])
      /\ \A i \in 1 .. Len(written[s]) : w[i] = written[s][i]
      /\ \A i \in Len(written[s]) + 1 .. Len(w) : w[i] = hand[s][i - Len(written[s])]
      /\ <<>> \in Seq(Message) /\ Len(<<>>) = 0
  BY DEF Inv, Types
<1>3. Types'
  BY <1>1, <1>2 DEF Inv, Types
<1>4. /\ hand'[s] = <<>> /\ written'[s] = w
      /\ \A r \in Socks \ {s} : hand'[r] = hand[r] /\ written'[r] = written[r]
  BY <1>1 DEF Inv, Types
<1>5. Numbered(s)'
  <2>1. o[s] = "run" /\ Numbers(written[s], hand[s], send[s], sends[s])
    BY <1>1 DEF Inv, Numbered
  <2>2. Numbers(w, <<>>, send[s], sends[s])
    BY <1>2, <2>1, NumbersWrite DEF Inv, Types
  <2> HIDE DEF w
  <2> QED
    BY <1>1, <1>4, <2>1, <2>2 DEF Numbered, Numbers
<1>6. \A r \in Socks \ {s} : Numbered(r)'
  BY <1>1, <1>4 DEF Inv, Numbered
<1>7. \A r \in Socks : Drained(r)'
  <2>1. o[s] = "run"
    BY <1>1 DEF Inv, Numbered
  <2> QED
    BY <1>1, <1>4, <2>1 DEF Inv, Drained, Working
<1>8. Counted' /\ Fresh' /\ Link'
  BY <1>1 DEF Inv, Counted, Fresh, Link, Handlers, Writers
<1> QED
  BY <1>1, <1>3, <1>5, <1>6, <1>7, <1>8 DEF Inv, Fits

(* The outbound goroutine ends: because the connection failed, or with     *)
(* nothing left to write.                                                  *)
LEMMA OutLeavesInv ==
  ASSUME Inv, NEW s \in Socks, OutFails(s) \/ OutEnds(s) PROVE Inv'
<1>1. /\ UNCHANGED <<broke, grpc, main, gerr, closeConn, id, recv, send, h, sends, grown, owed,
                     written>>
      /\ o' = [o EXCEPT ![s] = "done"] /\ hand' = [hand EXCEPT ![s] = <<>>]
      /\ closed' = [closed EXCEPT ![s] = TRUE] /\ pool' = [pool EXCEPT ![id[s]] = Nil]
      /\ wg' = wg - 1
  BY DEF OutFails, OutEnds, OutLeaves, Release, respVars
<1>2. o[s] = "run" /\ Numbered(s) /\ id[s] # Nil
  BY DEF Inv, OutFails, OutEnds, Numbered, Fresh
<1>3. up' \in BOOLEAN /\ (up' = TRUE => up = TRUE) /\ (grpc = FALSE => up' = up)
  <2>1. up \in BOOLEAN /\ grpc \in BOOLEAN /\ up' = (up /\ ~grpc)
    BY DEF Inv, Types, OutFails, OutEnds, OutLeaves
  <2> QED
    BY <2>1, Zenon
<1>4. Types'
  <2>1. /\ hand' \in [Socks -> Seq(Message)] /\ closed' \in [Socks -> BOOLEAN]
        /\ o' \in [Socks -> {"none", "run", "done"}]
    BY <1>1 DEF Inv, Types
  <2>2. pool' \in [Ids -> Socks \cup {Nil}]
    BY <1>1, <1>2 DEF Inv, Types
  <2> QED
    BY <1>1, <1>3, <2>1, <2>2 DEF Inv, Types
<1>5. Counted'
  <2>1. Handlers' = Handlers /\ Writers' = Writers \ {s} /\ s \in Writers
    BY <1>1, <1>2 DEF Inv, Types, Handlers, Writers
  <2>2. Cardinality(Writers') = Cardinality(Writers) - 1
    BY <2>1, FiniteWork, FS_RemoveElement
  <2> QED
    BY <1>1, <2>1, <2>2, FiniteWork DEF Inv, Counted
<1>6. Fresh'
  BY <1>1, <1>2, ServeConnAssumption DEF Inv, Types, Fresh
<1>7. Link'
  <2>1. Handlers' = Handlers /\ Writers' \subseteq Writers
    BY <1>1 DEF Inv, Types, Handlers, Writers
  <2> QED
    BY <1>1, <1>3, <2>1 DEF Inv, Types, Link
<1>8. \A r \in Socks \ {s} : o'[r] = o[r] /\ hand'[r] = hand[r] /\ closed'[r] = closed[r]
  BY <1>1 DEF Inv, Types
<1>9. o'[s] = "done" /\ hand'[s] = <<>>
  BY <1>1 DEF Inv, Types
<1>10. Working' => Working
  BY <1>1, <1>3 DEF Inv, Types, Working
<1>11. \A r \in Socks \ {s} : Numbered(r)' /\ Drained(r)'
  BY <1>1, <1>3, <1>8, <1>10 DEF Inv, Types, Numbered, Drained
<1>12. Numbered(s)'
  BY <1>1, <1>2, <1>9 DEF Numbered
<1>13. Drained(s)'
  <2>1. owed[s] <= sends[s] /\ closed'[s] = TRUE
    BY <1>1 DEF Inv, Types, Drained
  <2>2. ASSUME Working' PROVE send[s] = <<>> /\ Len(written[s]) = sends[s]
    <3>1. up = TRUE
      BY <1>2, <1>10, <2>2 DEF Inv, Link, Working, Writers
    <3>2. hand[s] = <<>> /\ send[s] = <<>>
      BY <3>1 DEF OutFails, OutEnds, Inv, Types
    <3>3. Len(written[s]) \in Nat /\ Len(hand[s]) = 0 /\ Len(send[s]) = 0
      BY <3>2 DEF Inv, Types
    <3>4. Len(written[s]) + Len(hand[s]) + Len(send[s]) = sends[s]
      BY <1>2 DEF Numbered, Numbers
    <3> QED
      BY <3>2, <3>3, <3>4
  <2> QED
    BY <1>1, <2>1, <2>2 DEF Drained
<1> QED
  BY <1>1, <1>4, <1>5, <1>6, <1>7, <1>11, <1>12, <1>13 DEF Inv, Fits

(* The handler takes a message.                                            *)
LEMMA HandlerReadsInv ==
  ASSUME Inv, NEW s \in Socks, HandlerReads(s) PROVE Inv'
<1>1. /\ UNCHANGED <<main, gerr, closeConn, wg, up, broke, grpc, pool, id, closed, send, o, hand,
                     sends, grown, owed, written>>
      /\ h[s] \in {"read", "run"} /\ recv[s] > 0 /\ h' = [h EXCEPT ![s] = "run"]
      /\ recv' \in {recv, [recv EXCEPT ![s] = @ - 1]}
  BY DEF HandlerReads, linkVars, respVars
<1>2. Types'
  <2>1. [recv EXCEPT ![s] = @ - 1] \in [Socks -> 0..Cap]
    BY <1>1, ServeConnAssumption DEF Inv, Types
  <2> QED
    BY <1>1, <2>1 DEF Inv, Types
<1>3. Handlers' = Handlers /\ Writers' = Writers
  BY <1>1 DEF Inv, Types, Handlers, Writers
<1>4. Counted' /\ Fresh' /\ Link'
  BY <1>1, <1>3 DEF Inv, Types, Counted, Fresh, Link
<1>5. ASSUME NEW r \in Socks PROVE Numbered(r)' /\ Drained(r)'
  BY <1>1 DEF Inv, Types, Numbered, Drained, Working
<1>6. \A r \in Socks : Fits(r)'
  BY <1>1 DEF Inv, Types, Fits
<1> QED
  BY <1>1, <1>2, <1>4, <1>5, <1>6 DEF Inv

(* A Write changes the bodies of queued responses, not their numbers.      *)
LEMMA OverwrittenNumbers ==
  ASSUME NEW ms \in Seq(Message), NEW n \in 1 .. MaxSends, NEW gen
  PROVE  /\ Overwritten(ms, n, gen) \in Seq(Message)
         /\ Len(Overwritten(ms, n, gen)) = Len(ms)
         /\ \A i \in 1 .. Len(ms) : Overwritten(ms, n, gen)[i].n = ms[i].n
<1>1. \A i \in 1 .. Len(ms) : ms[i] \in Message /\ [ms[i] EXCEPT !.body = n] \in Message
  <2>1. \A x \in Message : [x EXCEPT !.body = n] \in Message
    BY DEF Message
  <2> QED
    BY <2>1
<1>2. \A i \in 1 .. Len(ms) : [ms[i] EXCEPT !.body = n].n = ms[i].n
  BY <1>1 DEF Message
<1>3. Len(ms) \in Nat
  OBVIOUS
<1> QED
  BY <1>1, <1>2, <1>3 DEF Overwritten

(* The codec encodes a response into its buffer: the bodies change, the    *)
(* numbers do not.                                                         *)
LEMMA HandlerWritesInv ==
  ASSUME Inv, NEW s \in Socks, HandlerWrites(s) PROVE Inv'
<1>1. PICK n \in 1 .. MaxSends, gen \in 0 .. MaxSends :
        /\ grown' = [grown EXCEPT ![s] = gen]
        /\ send' = [send EXCEPT ![s] = Overwritten(@, n, gen)]
        /\ hand' = [hand EXCEPT ![s] = Overwritten(@, n, gen)]
  <2>1. /\ sends[s] + 1 \in 1 .. MaxSends
        /\ \A gen \in {grown[s]} \cup
                       IF MayGrow /\ grown[s] < MaxSends THEN {grown[s] + 1} ELSE {} :
             gen \in 0 .. MaxSends
    BY ServeConnAssumption DEF Inv, Types, HandlerWrites, Room
  <2> QED
    BY <2>1 DEF HandlerWrites
<1>2. /\ UNCHANGED <<main, gerr, closeConn, wg, up, broke, grpc, pool, id, closed, recv, o, sends,
                     owed, written>>
      /\ h[s] = "run" /\ h' = [h EXCEPT ![s] = "write"] /\ sends[s] < MaxSends
  BY ServeConnAssumption DEF HandlerWrites, Room, linkVars, Inv, Types
<1> DEFINE t == Overwritten(send[s], n, gen)
           d == Overwritten(hand[s], n, gen)
<1>4. /\ t \in Seq(Message) /\ Len(t) = Len(send[s])
      /\ \A i \in 1 .. Len(send[s]) : t[i].n = send[s][i].n
  BY OverwrittenNumbers DEF Inv, Types
<1>5. /\ d \in Seq(Message) /\ Len(d) = Len(hand[s])
      /\ \A i \in 1 .. Len(hand[s]) : d[i].n = hand[s][i].n
  BY OverwrittenNumbers DEF Inv, Types
<1>6. /\ send' = [send EXCEPT ![s] = t] /\ hand' = [hand EXCEPT ![s] = d]
  BY <1>1
<1> HIDE DEF t, d
<1>7. /\ send'[s] = t /\ hand'[s] = d
      /\ \A r \in Socks \ {s} : send'[r] = send[r] /\ hand'[r] = hand[r] /\ h'[r] = h[r]
      /\ h'[s] = "write"
  BY <1>2, <1>6 DEF Inv, Types
<1>8. Types'
  <2>1. send' \in [Socks -> Seq(Message)] /\ hand' \in [Socks -> Seq(Message)]
    BY <1>4, <1>5, <1>6 DEF Inv, Types
  <2>2. h' \in [Socks -> {"none", "read", "run", "write", "done"}]
    BY <1>2 DEF Inv, Types
  <2>3. grown' \in [Socks -> 0..MaxSends]
    BY <1>1 DEF Inv, Types
  <2> QED
    BY <1>2, <2>1, <2>2, <2>3 DEF Inv, Types
<1>9. \A r \in Socks : Fits(r)'
  BY <1>2, <1>4, <1>7 DEF Inv, Fits
<1>10. Handlers' = Handlers /\ Writers' = Writers
  BY <1>2, <1>7 DEF Handlers, Writers
<1>11. Counted' /\ Link'
  BY <1>2, <1>10 DEF Inv, Counted, Link
<1>12. Fresh'
  BY <1>2, <1>7 DEF Inv, Fresh
<1>13. Numbered(s)'
  <2>1. Numbered(s) /\ written[s] \in Seq(Message) /\ o[s] # "none"
    BY <1>2 DEF Inv, Types, Numbered
  <2>2. hand[s] = <<>> => d = <<>>
    BY <1>5
  <2>3. ASSUME o[s] # "done" PROVE Numbers(written[s], d, t, sends[s])
    <3>1. Numbers(written[s], hand[s], send[s], sends[s])
      BY <2>1, <2>3 DEF Numbered
    <3> QED
      BY <1>4, <1>5, <3>1 DEF Numbers
  <2> QED
    BY <1>2, <1>7, <2>1, <2>2, <2>3 DEF Numbered
<1>14. Drained(s)'
  BY <1>2, <1>4, <1>7 DEF Inv, Drained, Working
<1>15. \A r \in Socks \ {s} : Numbered(r)' /\ Drained(r)'
  BY <1>2, <1>7 DEF Inv, Numbered, Drained, Working
<1> QED
  BY <1>8, <1>9, <1>11, <1>12, <1>13, <1>14, <1>15 DEF Inv

(* The socket takes the response, whose number is the next one, or refuses *)
(* it.                                                                     *)
LEMMA HandlerSendsInv ==
  ASSUME Inv, NEW s \in Socks, HandlerSends(s) PROVE Inv'
<1>1. /\ UNCHANGED <<main, gerr, closeConn, wg, up, broke, grpc, pool, id, closed, recv, o, hand,
                     grown, written>>
      /\ h[s] = "write" /\ h' = [h EXCEPT ![s] = "run"]
  BY DEF HandlerSends, linkVars
<1>2. /\ sends[s] \in Nat /\ sends[s] + 1 \in 1 .. MaxSends /\ o[s] # "none"
      /\ h'[s] = "run" /\ \A r \in Socks \ {s} : h'[r] = h[r]
  BY <1>1, ServeConnAssumption DEF Inv, Types, Fits, Numbered
<1>3. Handlers' = Handlers /\ Writers' = Writers
  BY <1>1, <1>2 DEF Handlers, Writers
<1>4. Counted' /\ Fresh' /\ Link'
  BY <1>1, <1>2, <1>3 DEF Inv, Counted, Fresh, Link
<1>5. h' \in [Socks -> {"none", "read", "run", "write", "done"}]
  BY <1>1 DEF Inv, Types
<1>6. CASE UNCHANGED <<send, sends, owed>>
  <2>1. Types'
    BY <1>1, <1>5, <1>6 DEF Inv, Types
  <2>2. \A r \in Socks : Fits(r)'
    BY <1>2, <1>6 DEF Inv, Fits
  <2>3. \A r \in Socks : Numbered(r)' /\ Drained(r)'
    BY <1>1, <1>2, <1>6 DEF Inv, Numbered, Drained, Working
  <2> QED
    BY <1>4, <2>1, <2>2, <2>3 DEF Inv
<1> DEFINE n == sends[s] + 1
           m == [n |-> n, body |-> n, buf |-> grown[s]]
<1>7. ASSUME /\ Len(send[s]) < Cap
             /\ send' = [send EXCEPT ![s] = Append(@, m)]
             /\ sends' = [sends EXCEPT ![s] = n]
             /\ owed' = [owed EXCEPT ![s] = IF closed[s] THEN @ ELSE n]
      PROVE  Inv'
  <2>1. m \in Message /\ m.n = n /\ n \in 1 .. MaxSends
    BY <1>2 DEF Message, Inv, Types
  <2> HIDE DEF m
  <2>2. /\ send[s] \in Seq(Message) /\ Append(send[s], m) \in Seq(Message)
        /\ Len(send[s]) \in Nat /\ Len(Append(send[s], m)) = Len(send[s]) + 1
        /\ \A i \in 1 .. Len(send[s]) : Append(send[s], m)[i] = send[s][i]
        /\ Append(send[s], m)[Len(send[s]) + 1] = m
    BY <2>1 DEF Inv, Types
  <2>3. /\ send'[s] = Append(send[s], m) /\ sends'[s] = n
        /\ owed'[s] = IF closed[s] THEN owed[s] ELSE n
        /\ \A r \in Socks \ {s} : /\ send'[r] = send[r] /\ sends'[r] = sends[r]
                                  /\ owed'[r] = owed[r]
    BY <1>7 DEF Inv, Types
  <2>4. Types'
    <3>1. send' \in [Socks -> Seq(Message)]
      BY <1>7, <2>2 DEF Inv, Types
    <3>2. sends' \in [Socks -> 0..MaxSends] /\ owed' \in [Socks -> 0..MaxSends]
      BY <1>7, <2>1, ServeConnAssumption DEF Inv, Types
    <3> QED
      BY <1>1, <1>5, <3>1, <3>2 DEF Inv, Types
  <2>5. \A r \in Socks : Fits(r)'
    <3>1. Len(send'[s]) <= Cap /\ h'[s] # "write"
      BY <1>2, <1>7, <2>2, <2>3, ServeConnAssumption
    <3>2. \A r \in Socks \ {s} : Fits(r)'
      BY <1>2, <2>3 DEF Inv, Fits
    <3> QED
      BY <3>1, <3>2 DEF Fits
  <2>6. Numbered(s)'
    <3>1. Numbered(s) /\ written[s] \in Seq(Message) /\ hand[s] \in Seq(Message)
      BY DEF Inv, Types
    <3>2. ASSUME o[s] # "done" PROVE Numbers(written[s], hand[s], Append(send[s], m), sends[s] + 1)
      <4>1. Numbers(written[s], hand[s], send[s], sends[s])
        BY <3>1, <3>2 DEF Numbered
      <4> QED
        BY <1>2, <2>1, <2>2, <3>1, <4>1, NumbersSend
    <3> QED
      BY <1>1, <1>2, <2>3, <3>1, <3>2 DEF Numbered
  <2>7. Drained(s)'
    <3>1. owed[s] \in Nat /\ owed[s] <= sends[s] /\ Drained(s) /\ closed[s] \in BOOLEAN
      BY DEF Inv, Types, Drained
    <3>2. owed'[s] <= sends'[s]
      BY <1>2, <2>3, <3>1
    <3>3. ASSUME Working', o'[s] = "done"
          PROVE  /\ owed'[s] <= Len(written'[s])
                 /\ \A i \in 1 .. Len(send'[s]) : send'[s][i].n > owed'[s]
      <4>1. Working /\ o[s] = "done"
        BY <1>1, <3>3 DEF Working
      <4>2. /\ closed[s] = TRUE /\ owed[s] <= Len(written[s])
            /\ \A i \in 1 .. Len(send[s]) : send[s][i].n > owed[s]
        BY <3>1, <4>1 DEF Drained
      <4>3. owed'[s] = owed[s] /\ n > owed[s]
        BY <1>2, <2>3, <3>1, <4>2
      <4>4. \A i \in 1 .. Len(send[s]) + 1 : Append(send[s], m)[i].n > owed[s]
        <5> SUFFICES ASSUME NEW i \in 1 .. Len(send[s]) + 1
                     PROVE  Append(send[s], m)[i].n > owed[s]
          OBVIOUS
        <5>1. CASE i \in 1 .. Len(send[s])
          BY <2>2, <4>2, <5>1
        <5>2. CASE i = Len(send[s]) + 1
          BY <2>1, <2>2, <4>3, <5>2
        <5> QED
          BY <2>2, <5>1, <5>2
      <4> QED
        BY <1>1, <2>2, <2>3, <4>2, <4>3, <4>4
    <3> QED
      BY <1>1, <3>1, <3>2, <3>3 DEF Drained
  <2>8. \A r \in Socks \ {s} : Numbered(r)' /\ Drained(r)'
    BY <1>1, <1>2, <2>3 DEF Inv, Numbered, Drained, Working
  <2> QED
    BY <1>4, <2>4, <2>5, <2>6, <2>7, <2>8 DEF Inv
<1> QED
  BY <1>6, <1>7 DEF HandlerSends

(* The handler of a stream closes the socket and goes on.                  *)
LEMMA HandlerClosesInv ==
  ASSUME Inv, NEW s \in Socks, HandlerCloses(s) PROVE Inv'
<1>1. /\ UNCHANGED <<main, gerr, closeConn, wg, up, broke, grpc, pool, id, recv, send, h, o, hand,
                     sends, grown, owed, written>>
      /\ h[s] = "run" /\ closed' = [closed EXCEPT ![s] = TRUE]
  BY DEF HandlerCloses, linkVars, respVars
<1>2. Types'
  BY <1>1 DEF Inv, Types
<1>3. Counted' /\ Link'
  BY <1>1 DEF Inv, Counted, Link, Handlers, Writers
<1>4. Fresh'
  <2>1. id[s] # Nil
    BY <1>1 DEF Inv, Fresh
  <2> QED
    BY <1>1, <2>1 DEF Inv, Types, Fresh
<1>5. \A r \in Socks : Numbered(r)' /\ Drained(r)' /\ Fits(r)'
  BY <1>1 DEF Inv, Types, Numbered, Drained, Working, Fits
<1> QED
  BY <1>2, <1>3, <1>4, <1>5 DEF Inv

(* The handler ends: it closes the socket and leaves the pool.             *)
LEMMA HandlerEndsInv ==
  ASSUME Inv, NEW s \in Socks, HandlerEnds(s) PROVE Inv'
<1>1. /\ UNCHANGED <<main, gerr, closeConn, up, broke, grpc, id, recv, send, o, hand, sends, grown,
                     owed, written>>
      /\ h[s] \in {"read", "run"} /\ h' = [h EXCEPT ![s] = "done"] /\ wg' = wg - 1
      /\ closed' = [closed EXCEPT ![s] = TRUE] /\ pool' = [pool EXCEPT ![id[s]] = Nil]
  BY DEF HandlerEnds, Release, linkVars, respVars
<1>2. Types'
  BY <1>1 DEF Inv, Types
<1>3. Counted'
  <2>1. Handlers' = Handlers \ {s} /\ Writers' = Writers /\ s \in Handlers
    BY <1>1 DEF Inv, Types, Handlers, Writers
  <2>2. Cardinality(Handlers') = Cardinality(Handlers) - 1
    BY <2>1, FiniteWork, FS_RemoveElement
  <2> QED
    BY <1>1, <2>1, <2>2, FiniteWork DEF Inv, Counted
<1>4. Fresh'
  <2>1. id[s] # Nil
    BY <1>1 DEF Inv, Fresh
  <2> QED
    BY <1>1, <2>1, ServeConnAssumption DEF Inv, Types, Fresh
<1>5. ASSUME NEW r \in Socks PROVE Numbered(r)' /\ Drained(r)'
  <2>1. o[s] # "none"
    BY <1>1 DEF Inv, Numbered
  <2> QED
    BY <1>1, <2>1 DEF Inv, Types, Numbered, Drained, Working
<1>6. Link'
  <2>1. Handlers' \subseteq Handlers /\ Writers' = Writers
    BY <1>1 DEF Inv, Types, Handlers, Writers
  <2> QED
    BY <1>1, <2>1 DEF Inv, Link
<1>7. \A r \in Socks : Fits(r)'
  BY <1>1 DEF Inv, Types, Fits
<1> QED
  BY <1>1, <1>2, <1>3, <1>4, <1>5, <1>6, <1>7 DEF Inv

(* Every step of the loop, the handlers and the outbound goroutines keeps  *)
(* the invariant.                                                          *)
LEMMA Step == Inv /\ [Next]_vars => Inv'
<1> SUFFICES ASSUME Inv, [Next]_vars PROVE Inv'
  OBVIOUS
<1>1. CASE Elsewhere \/ UNCHANGED vars
  BY <1>1, ElsewhereInv
<1>2. ASSUME NEW x \in Ids, MainKnown(x) \/ MainNew(x) PROVE Inv'
  BY <1>2, HandOverInv, MainNewInv
<1>3. ASSUME NEW s \in Socks, MainAccept(s) PROVE Inv'
  BY <1>3, HandOverInv
<1>4. CASE MainLeave
  BY <1>4, MainLeaveInv
<1>5. ASSUME NEW s \in Socks, Outbound(s) \/ OutWrites(s) PROVE Inv'
  BY <1>5, OutTakesInv, OutWritesInv, OutLeavesInv DEF Outbound
<1>6. ASSUME NEW s \in Socks, HandlerReads(s) \/ HandlerWrites(s) \/ HandlerSends(s) PROVE Inv'
  BY <1>6, HandlerReadsInv, HandlerWritesInv, HandlerSendsInv
<1>7. ASSUME NEW s \in Socks, HandlerCloses(s) \/ HandlerEnds(s) PROVE Inv'
  BY <1>7, HandlerClosesInv, HandlerEndsInv
<1> QED
  BY <1>1, <1>2, <1>3, <1>4, <1>5, <1>6, <1>7 DEF Next, Main, Elsewhere

(* The invariant holds in every reachable state of ServeConn.              *)
THEOREM ServeConnInvariant == Spec => []Inv
  BY Initially, Step, PTL DEF Spec

(* Every variable has its type; in particular the wait group of the        *)
(* connection is never negative, which sync.WaitGroup answers with a       *)
(* panic.                                                                  *)
THEOREM ServeConnTypeCorrect == Spec => []TypeOK
  BY ServeConnInvariant, InvImplies, PTL

(* While the connection works, an outbound goroutine that is over has      *)
(* written every response that was queued on its open socket: it drains    *)
(* the channel after the handler closed the socket, at its end or, for a   *)
(* stream, under itself.  Only what a stream sends after its Close stays.  *)
THEOREM ServeConnNoLostResponse == Spec => []NoLostResponse
  BY ServeConnInvariant, InvImplies, PTL

(* When the loop of ServeConn closed a connection that never failed, every *)
(* response that was queued on an open socket was written, and the         *)
(* responses written are those sent, once, in order and without a gap.     *)
THEOREM ServeConnClosedAnswered == Spec => []ClosedAnswered
  BY ServeConnInvariant, InvImplies, PTL

=============================================================================
