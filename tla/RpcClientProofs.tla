--------------------------- MODULE RpcClientProofs ---------------------------
(***************************************************************************)
(* Proofs about RpcClient, for any number of callers, retries,             *)
(* connections, addresses, pools and pool sizes: no caller is given the    *)
(* answer of another call, a connection idle in a pool carries nothing,    *)
(* and the client uses the pool as ConnPool assumes its users do, so that  *)
(* what ConnPoolProofs shows of the pool holds under the client.           *)
(*                                                                         *)
(* The client never compares the id of an answer with its request. What    *)
(* keeps the answers apart is an agreement between four parties (Call, the *)
(* attempt, its goroutine and the pool), which ClientInv states: an        *)
(* attempt that stops waiting before its goroutine is through has an error *)
(* in its stream (Left), so Release closes the connection and nobody gets  *)
(* it again; one that ends without an error has read what it asked for, so *)
(* the connection it gives back is silent (Wire, Quiet); and while it      *)
(* holds the connection nobody else writes to or reads from it (Place,     *)
(* with the pool's OneOwner).                                              *)
(***************************************************************************)
EXTENDS RpcClient, ConnPoolProofs

(* Where an attempt has a connection of the pool.                          *)
Holding == {"select", "seterr", "close", "release"}

(* Call starts its attempts in order: none is under way before its turn.   *)
Turns(k) ==
  /\ cpc[k] = "idle" => try[k] = 0
  /\ \A i \in 0..Retries : cpc[k] = "idle" \/ i > try[k] => apc[<<k, i>>] = "none"

(* What an attempt is to the pool, and its goroutine to the attempt.       *)
Place(t) ==
  /\ at[t] = "held" <=> apc[t] \in Holding
  /\ at[t] = "dial" <=> apc[t] = "dial"
  /\ apc[t] \in Holding => gpc[t] # "none" /\ conn[t] = holds[t]
  /\ apc[t] \notin Holding \cup {"done"} => gpc[t] = "none"
  /\ gpc[t] = "none" => conn[t] = Nil
  /\ gpc[t] # "none" => conn[t] \in Conns /\ status[conn[t]] # "none"
  /\ gch[t] # "none" => gpc[t] = "done"
  /\ gpc[t] = "body" => got[t] = t

(* An attempt that ends before its goroutine throws its connection away.   *)
Left(t) ==
  /\ apc[t] \in {"close", "release"} => serr[t] # "nil" \/ gpc[t] = "done"
  /\ gpc[t] \notin {"none", "done"} => apc[t] \in Holding \/ status[conn[t]] = "closed"

(* Nothing is on its way on c.                                             *)
Silent(c) == sent[c] = <<>> /\ inbox[c] = <<>>

(* On its way on c is the request of t or its answer, and nothing else.    *)
Pending(c, t) ==
  \/ sent[c] = <<t>> /\ inbox[c] = <<>>
  \/ sent[c] = <<>> /\ \E kind \in Outcomes : inbox[c] = <<[to |-> t, kind |-> kind]>>

(* What is on the connection of an attempt that still holds it: between    *)
(* the write and the read its own request or answer, else nothing, unless  *)
(* the stream has an error.                                                *)
Wire(t) ==
  apc[t] \in Holding =>
    /\ gpc[t] \in {"send", "writing", "body"} => Silent(conn[t])
    /\ gpc[t] \in {"recv", "read"} => Pending(conn[t], t)
    /\ gpc[t] = "done" /\ serr[t] = "nil" => Silent(conn[t])

(* A success on its way to Call has its answer in the response already.    *)
Answered(t) == "ok" \in {gch[t], ret[t], ch[t]} => resp[t[1]] # Nil

(* What holds of each attempt.                                             *)
AttemptInv(t) == Place(t) /\ Left(t) /\ Wire(t) /\ Answered(t)

(* A connection not dialled yet, or idle in a pool, carries nothing.       *)
Quiet == \A c \in Conns : status[c] = "none" \/ Pooled(c) => Silent(c)

(* Init runs only while there is a pool object left for it (the bound      *)
(* MaxInits).                                                              *)
InitRoom == init # "idle" => rpool < MaxInits

(* The inductive invariant, together with PoolInv of ConnPoolProofs.       *)
ClientInv ==
  /\ TypeOK
  /\ InitRoom
  /\ \A k \in Callers : Turns(k)
  /\ \A t \in Attempts : AttemptInv(t)
  /\ Quiet
  /\ OwnAnswer

-----------------------------------------------------------------------------
(* The client as a user of the pool.                                       *)

(* A new client satisfies it.                                              *)
LEMMA InitClientInv == Init => ClientInv
  <1> SUFFICES ASSUME Init PROVE ClientInv
    OBVIOUS
  <1>0. PoolInv
    BY InitPoolInv DEF Init
  <1>1. TypeOK
    <2>1. PoolTypeOK
      BY <1>0 DEF PoolInv
    <2>2. rpool \in Pools
      BY RpcClientAssumption DEF Init
    <2>3. try \in [Callers -> 0..Retries]
      BY RpcClientAssumption DEF Init
    <2> QED BY <2>1, <2>2, <2>3 DEF Init, TypeOK, Attempts
  <1>2. InitRoom
    BY DEF Init, InitRoom
  <1>3. \A k \in Callers : Turns(k)
    BY RpcClientAssumption DEF Init, Turns, Attempts
  <1>4. \A t \in Attempts : AttemptInv(t)
    <2> TAKE t \in Attempts
    <2>1. /\ apc[t] = "none" /\ gpc[t] = "none" /\ conn[t] = Nil /\ gch[t] = "none"
          /\ ret[t] = "none" /\ ch[t] = "none" /\ serr[t] = "nil" /\ at[t] = "idle"
      BY DEF Init, PoolInit, Attempts
    <2> QED BY <2>1 DEF AttemptInv, Place, Left, Wire, Answered, Holding
  <1>5. Quiet
    BY DEF Init, Quiet, Silent
  <1>6. OwnAnswer
    BY DEF Init, OwnAnswer
  <1> QED BY <1>1, <1>2, <1>3, <1>4, <1>5, <1>6 DEF ClientInv

(* Every step of the client is a step of the pool, or leaves it alone.     *)
LEMMA ClientPoolStep ==
  ASSUME TypeOK, [Next]_vars
  PROVE  [PoolNext]_poolVars
  <1> rpool \in Pools
    BY DEF TypeOK
  <1>1. ASSUME NEW k \in Callers, CallStep(k) PROVE UNCHANGED poolVars
    BY <1>1 DEF CallStep, CallStart, CallTimesOut, CallReceives
  <1>2. ASSUME NEW t \in Attempts, AttemptGet(t) PROVE PoolNext
    <2>1. PICK a \in Addrs : GetPooled(t, rpool, a) \/ GetCloseFails(t, rpool, a)
                               \/ GetEmpty(t, rpool, a)
      BY <1>2 DEF AttemptGet
    <2> QED BY <2>1 DEF PoolNext, Attempts
  <1>3. ASSUME NEW t \in Attempts, AttemptDial(t) PROVE PoolNext
    <2>1. DialOk(t) \/ DialFails(t)
      BY <1>3 DEF AttemptDial
    <2> QED BY <2>1 DEF PoolNext, Attempts
  <1>4. ASSUME NEW t \in Attempts, StreamRelease(t) PROVE PoolNext
    <2>1. PICK close \in BOOLEAN : Release(t, rpool, serr[t] # "nil" \/ close)
      BY <1>4 DEF StreamRelease
    <2>2. PICK failed \in BOOLEAN : failed = (serr[t] # "nil" \/ close)
      OBVIOUS
    <2>3. Release(t, rpool, failed)
      BY <2>1, <2>2
    <2> QED BY <2>3 DEF PoolNext, Attempts
  <1>5. ASSUME NEW t \in Attempts, AttemptStep(t) PROVE PoolNext \/ UNCHANGED poolVars
    <2>1. CASE AttemptGet(t) \/ AttemptDial(t) \/ StreamRelease(t)
      BY <2>1, <1>2, <1>3, <1>4
    <2>2. CASE AttemptStart(t) \/ AttemptOptions(t) \/ AttemptReceives(t)
                 \/ AttemptTimesOut(t) \/ AttemptSetsError(t) \/ StreamClose(t)
      BY <2>2 DEF AttemptStart, AttemptOptions, AttemptReceives, AttemptTimesOut,
                  AttemptSetsError, StreamClose
    <2> QED BY <1>5, <2>1, <2>2 DEF AttemptStep
  <1>6. ASSUME NEW t \in Attempts, GoStep(t) PROVE UNCHANGED poolVars
    BY <1>6 DEF GoStep, StreamSend, StreamWrite, StreamRecv, StreamRead, StreamBody
  <1>7. ASSUME NEW c \in Conns, ServerAnswers(c) \/ ConnAges(c)
        PROVE  PoolNext \/ UNCHANGED poolVars
    BY <1>7 DEF ServerAnswers, ConnAges, PoolNext
  <1>8. ASSUME InitLock \/ InitClose \/ InitSwap
        PROVE  PoolNext \/ UNCHANGED poolVars
    BY <1>8 DEF InitLock, InitClose, InitSwap, PoolNext
  <1>9. ASSUME UNCHANGED vars PROVE UNCHANGED poolVars
    BY <1>9 DEF vars
  <1> QED BY <1>1, <1>5, <1>6, <1>7, <1>8, <1>9 DEF Next

-----------------------------------------------------------------------------
(* What the pool's operations do to the connections.                       *)

(* Cutting a stack puts no connection into a pool.                         *)
LEMMA CutPooled ==
  ASSUME PoolTypeOK, NEW p \in Pools, NEW a \in Addrs,
         NEW n \in 0..Len(conns[p][a]), conns' = Cut(p, a, n)
  PROVE  /\ \A c \in Conns : Pooled(c)' => Pooled(c)
         /\ \A q \in Pools, c \in Conns : PooledIn(q, c)' => PooledIn(q, c)
  <1> DEFINE s == conns[p][a]
  <1>1. s \in Seq(Conns) /\ Len(s) \in Nat
    BY StackConns
  <1>2. /\ Len(SubSeq(s, 1, n)) = n
        /\ \A i \in 1..n : SubSeq(s, 1, n)[i] = s[i]
    BY <1>1, CutSeq
  <1>3. conns'[p][a] = SubSeq(s, 1, n)
    BY DEF Cut, PoolTypeOK
  <1>4. \A q \in Pools, b \in Addrs : q # p \/ b # a => conns'[q][b] = conns[q][b]
    BY DEF Cut, PoolTypeOK
  <1>5. \A q \in Pools, b \in Addrs : \A i \in 1..Len(conns'[q][b]) :
          i \in 1..Len(conns[q][b]) /\ conns'[q][b][i] = conns[q][b][i]
    <2> TAKE q \in Pools, b \in Addrs
    <2>1. CASE q = p /\ b = a
      <3> TAKE i \in 1..Len(conns'[q][b])
      <3>1. conns'[q][b] = SubSeq(s, 1, n)
        BY <2>1, <1>3
      <3>2. i \in 1..n
        BY <3>1, <1>2
      <3>3. SubSeq(s, 1, n)[i] = s[i]
        BY <3>2, <1>2
      <3>4. i \in 1..Len(s)
        BY <3>2, <1>1
      <3> QED BY <3>1, <3>3, <3>4, <2>1
    <2>2. CASE q # p \/ b # a
      BY <2>2, <1>4
    <2> QED BY <2>1, <2>2
  <1>6. ASSUME NEW c \in Conns, Pooled(c)' PROVE Pooled(c)
    <2>1. PICK q \in Pools, b \in Addrs : \E i \in 1..Len(conns'[q][b]) : conns'[q][b][i] = c
      BY <1>6 DEF Pooled
    <2>2. PICK i \in 1..Len(conns'[q][b]) : conns'[q][b][i] = c
      BY <2>1
    <2>3. i \in 1..Len(conns[q][b]) /\ conns[q][b][i] = c
      BY <1>5, <2>2
    <2> QED BY <2>3 DEF Pooled
  <1>7. ASSUME NEW q \in Pools, NEW c \in Conns, PooledIn(q, c)' PROVE PooledIn(q, c)
    <2>1. PICK b \in Addrs : \E i \in 1..Len(conns'[q][b]) : conns'[q][b][i] = c
      BY <1>7 DEF PooledIn
    <2>2. PICK i \in 1..Len(conns'[q][b]) : conns'[q][b][i] = c
      BY <2>1
    <2>3. i \in 1..Len(conns[q][b]) /\ conns[q][b][i] = c
      BY <1>5, <2>2
    <2> QED BY <2>3 DEF PooledIn
  <1> QED BY <1>6, <1>7

(* What a step of the pool that dials nothing does to the states of the    *)
(* connections: some are closed.                                           *)
Closes ==
  \A c \in Conns : /\ status'[c] = status[c] \/ status'[c] = "closed"
                   /\ status'[c] = "none" <=> status[c] = "none"

(* A Get that does not dial only takes connections from the pool, and      *)
(* gives its user one that was idle, or none.                              *)
LEMMA GetTakes ==
  ASSUME PoolInv, PoolInv', NEW u \in Users, NEW p \in Pools, NEW a \in Addrs,
         GetPooled(u, p, a) \/ GetCloseFails(u, p, a) \/ GetEmpty(u, p, a)
  PROVE  /\ Closes
         /\ \A c \in Conns : Pooled(c)' => Pooled(c)
         /\ \A q \in Pools, c \in Conns : PooledIn(q, c)' => PooledIn(q, c)
         /\ GetPooled(u, p, a) =>
              holds'[u] \in Conns /\ Pooled(holds'[u]) /\ status'[holds'[u]] = "open"
  <1> DEFINE s == conns[p][a]
  <1>0. /\ s \in Seq(Conns) /\ Len(s) \in Nat
        /\ \A j \in 1..Len(s) : s[j] \in Conns /\ status[s[j]] = "open"
    BY StackConns DEF PoolInv, UsableOpen
  <1>1. PICK n \in 0..Len(s) : conns' = Cut(p, a, n)
    <2>1. CASE GetPooled(u, p, a)
      <3>1. PICK i \in 1..Len(s) : conns' = Cut(p, a, i - 1)
        BY <2>1 DEF GetPooled
      <3>2. i - 1 \in 0..Len(s)
        BY <1>0
      <3> QED BY <3>1, <3>2
    <2>2. CASE GetCloseFails(u, p, a)
      <3>1. PICK i \in 1..Len(s) : conns' = Cut(p, a, i - 1)
        BY <2>2 DEF GetCloseFails
      <3>2. i - 1 \in 0..Len(s)
        BY <1>0
      <3> QED BY <3>1, <3>2
    <2>3. CASE GetEmpty(u, p, a)
      BY <2>3, <1>0 DEF GetEmpty
    <2> QED BY <2>1, <2>2, <2>3
  <1>2. PICK m \in 1..(Len(s) + 1) : status' = Closing(From(s, m))
    <2>1. CASE GetPooled(u, p, a)
      <3>1. PICK i \in 1..Len(s) : status' = Closing(From(s, i + 1))
        BY <2>1 DEF GetPooled
      <3>2. i + 1 \in 1..(Len(s) + 1)
        BY <1>0
      <3> QED BY <3>1, <3>2
    <2>2. CASE GetCloseFails(u, p, a)
      <3>1. PICK i \in 1..Len(s) : status' = Closing(From(s, i))
        BY <2>2 DEF GetCloseFails
      <3>2. i \in 1..(Len(s) + 1)
        BY <1>0
      <3> QED BY <3>1, <3>2
    <2>3. CASE GetEmpty(u, p, a)
      BY <2>3, <1>0 DEF GetEmpty
    <2> QED BY <2>1, <2>2, <2>3
  <1>3. \A c \in Conns : c \in From(s, m) => status[c] = "open"
    <2> SUFFICES ASSUME NEW c \in Conns, c \in From(s, m) PROVE status[c] = "open"
      OBVIOUS
    <2>1. PICK j \in m..Len(s) : s[j] = c
      BY FromMember
    <2>2. j \in 1..Len(s)
      BY <1>0
    <2> QED BY <2>1, <2>2, <1>0
  <1>4. Closes
    <2> SUFFICES ASSUME NEW c \in Conns
                 PROVE  /\ status'[c] = status[c] \/ status'[c] = "closed"
                        /\ status'[c] = "none" <=> status[c] = "none"
      BY DEF Closes
    <2>1. CASE c \in From(s, m)
      BY <2>1, <1>2, <1>3, ClosingType DEF PoolInv
    <2>2. CASE c \notin From(s, m)
      BY <2>2, <1>2, ClosingType DEF PoolInv
    <2> QED BY <2>1, <2>2
  <1>5. /\ \A c \in Conns : Pooled(c)' => Pooled(c)
        /\ \A q \in Pools, c \in Conns : PooledIn(q, c)' => PooledIn(q, c)
    BY <1>1, CutPooled DEF PoolInv
  <1>6. ASSUME GetPooled(u, p, a)
        PROVE  holds'[u] \in Conns /\ Pooled(holds'[u]) /\ status'[holds'[u]] = "open"
    <2>1. PICK i \in 1..Len(s) : holds' = [holds EXCEPT ![u] = s[i]]
      BY <1>6 DEF GetPooled
    <2>2. holds'[u] = s[i]
      BY <2>1 DEF PoolInv, PoolTypeOK
    <2>3. at'[u] = "held"
      BY <1>6 DEF GetPooled, PoolInv, PoolTypeOK
    <2>4. Pooled(s[i])
      BY DEF Pooled
    <2> QED BY <2>2, <2>3, <2>4 DEF PoolInv, UsableOpen
  <1> QED BY <1>4, <1>5, <1>6

(* A dial opens one connection that no one used before, and pools none.    *)
LEMMA DialOpens ==
  ASSUME PoolInv, NEW u \in Users, DialOk(u)
  PROVE  /\ holds'[u] \in Conns
         /\ status[holds'[u]] = "none" /\ status'[holds'[u]] = "open"
         /\ \A c \in Conns : c # holds'[u] => status'[c] = status[c]
         /\ \A c \in Conns : Pooled(c)' <=> Pooled(c)
  <1>1. PICK c \in Conns :
          /\ status[c] = "none"
          /\ status' = [status EXCEPT ![c] = "open"]
          /\ holds' = [holds EXCEPT ![u] = c]
    BY DEF DialOk
  <1>2. holds'[u] = c
    BY <1>1 DEF PoolInv, PoolTypeOK
  <1>3. status'[c] = "open" /\ \A d \in Conns : d # c => status'[d] = status[d]
    BY <1>1 DEF PoolInv, PoolTypeOK
  <1>4. \A d \in Conns : Pooled(d)' <=> Pooled(d)
    BY DEF DialOk, Pooled
  <1> QED BY <1>1, <1>2, <1>3, <1>4

(* A Release closes the connection, always after an error, or puts it and  *)
(* no other into the pool.                                                 *)
LEMMA ReleaseGives ==
  ASSUME PoolInv, NEW u \in Users, NEW p \in Pools, NEW failed \in BOOLEAN,
         Release(u, p, failed)
  PROVE  /\ Closes
         /\ holds[u] \in Conns
         /\ failed => status'[holds[u]] = "closed"
         /\ \A c \in Conns : Pooled(c)' => Pooled(c) \/ (c = holds[u] /\ ~failed)
         /\ \A q \in Pools, c \in Conns :
              PooledIn(q, c)' => PooledIn(q, c) \/ (q = p /\ c = holds[u])
  <1> DEFINE c == holds[u]
             r == Remote[dialed[c]]
  <1>1. c \in Conns /\ status[c] = "open"
    BY DEF Release, PoolInv, UsableOpen
  <1>2. CASE failed \/ ~Room(p, r)
    <2>1. status' = Closing({c}) /\ conns' = conns
      BY <1>2 DEF Release
    <2>2. status'[c] = "closed" /\ \A d \in Conns : d # c => status'[d] = status[d]
      BY <2>1, <1>1, ClosingType DEF PoolInv
    <2>3. Closes
      BY <2>2, <1>1 DEF Closes
    <2>4. \A d \in Conns : Pooled(d)' => Pooled(d)
      BY <2>1 DEF Pooled
    <2>5. \A q \in Pools, d \in Conns : PooledIn(q, d)' => PooledIn(q, d)
      BY <2>1 DEF PooledIn
    <2> QED BY <1>1, <2>2, <2>3, <2>4, <2>5
  <1>3. CASE ~failed /\ Room(p, r)
    <2>1. status' = status /\ conns' = [conns EXCEPT ![p][r] = Append(@, c)]
      BY <1>3 DEF Release
    <2>2. r \in Addrs
      BY <1>1, ConnPoolAssumption DEF PoolInv, Bookkeeping
    <2>3. Closes
      BY <2>1 DEF Closes
    <2>4. \A q \in Pools, b \in Addrs : q # p \/ b # r => conns'[q][b] = conns[q][b]
      BY <2>1, <2>2 DEF PoolInv, PoolTypeOK
    <2>5. conns'[p][r] = Append(conns[p][r], c) /\ conns[p][r] \in Seq(Conns)
      BY <2>1, <2>2 DEF PoolInv, PoolTypeOK
    <2>6. ASSUME NEW i \in 1..Len(conns'[p][r])
          PROVE  conns'[p][r][i] = c
                   \/ (i \in 1..Len(conns[p][r]) /\ conns'[p][r][i] = conns[p][r][i])
      <3>1. PICK s \in Seq(Conns) : s = conns[p][r]
        BY <2>5
      <3>2. /\ Len(Append(s, c)) = Len(s) + 1
            /\ \A j \in 1..Len(s) : Append(s, c)[j] = s[j]
            /\ Append(s, c)[Len(s) + 1] = c
        BY <1>1, PushSeq
      <3>3. i \in 1..(Len(s) + 1)
        BY <2>5, <3>1, <3>2
      <3>4. i = Len(s) + 1 \/ i \in 1..Len(s)
        BY <3>3
      <3> QED BY <2>5, <3>1, <3>2, <3>4
    <2>7. ASSUME NEW d \in Conns, Pooled(d)'
          PROVE  Pooled(d) \/ d = c
      <3>1. PICK q \in Pools, b \in Addrs : \E i \in 1..Len(conns'[q][b]) : conns'[q][b][i] = d
        BY <2>7 DEF Pooled
      <3>2. CASE q = p /\ b = r
        BY <3>1, <3>2, <2>6, <2>2 DEF Pooled
      <3>3. CASE q # p \/ b # r
        BY <3>1, <3>3, <2>4 DEF Pooled
      <3> QED BY <3>2, <3>3
    <2>8. ASSUME NEW q \in Pools, NEW d \in Conns, PooledIn(q, d)'
          PROVE  PooledIn(q, d) \/ (q = p /\ d = c)
      <3>1. PICK b \in Addrs : \E i \in 1..Len(conns'[q][b]) : conns'[q][b][i] = d
        BY <2>8 DEF PooledIn
      <3>2. CASE q = p /\ b = r
        BY <3>1, <3>2, <2>6, <2>2 DEF PooledIn
      <3>3. CASE q # p \/ b # r
        BY <3>1, <3>3, <2>4 DEF PooledIn
      <3> QED BY <3>2, <3>3
    <2> QED BY <1>1, <1>3, <2>3, <2>7, <2>8
  <1> QED BY <1>2, <1>3

(* Closing a pool closes connections and pools none.                       *)
LEMMA CloseEmpties ==
  ASSUME PoolInv, NEW p \in Pools, Close(p)
  PROVE  /\ Closes /\ \A c \in Conns : Pooled(c)' => Pooled(c)
         /\ \A q \in Pools, c \in Conns : PooledIn(q, c)' => q # p /\ PooledIn(q, c)
  <1>1. \A c \in Conns : c \in Idle(p) => status[c] = "open"
    <2> SUFFICES ASSUME NEW c \in Conns, c \in Idle(p) PROVE status[c] = "open"
      OBVIOUS
    <2>1. PICK a \in Addrs : c \in From(conns[p][a], 1)
      BY DEF Idle
    <2>2. PICK j \in 1..Len(conns[p][a]) : conns[p][a][j] = c
      BY <2>1, FromMember
    <2> QED BY <2>2 DEF PoolInv, UsableOpen
  <1>2. status' = Closing(Idle(p))
    BY DEF Close
  <1>3. Closes
    <2> SUFFICES ASSUME NEW c \in Conns
                 PROVE  /\ status'[c] = status[c] \/ status'[c] = "closed"
                        /\ status'[c] = "none" <=> status[c] = "none"
      BY DEF Closes
    <2>1. CASE c \in Idle(p)
      BY <2>1, <1>1, <1>2, ClosingType DEF PoolInv
    <2>2. CASE c \notin Idle(p)
      BY <2>2, <1>2, ClosingType DEF PoolInv
    <2> QED BY <2>1, <2>2
  <1>4. \A q \in Pools, b \in Addrs : q # p => conns'[q][b] = conns[q][b]
    BY DEF Close, PoolInv, PoolTypeOK
  <1>5. \A b \in Addrs : conns'[p][b] = <<>>
    BY DEF Close, PoolInv, PoolTypeOK
  <1>6. \A b \in Addrs : Len(conns'[p][b]) = 0
    BY <1>5
  <1>7. ASSUME NEW c \in Conns, Pooled(c)' PROVE Pooled(c)
    <2>1. PICK q \in Pools, b \in Addrs : \E i \in 1..Len(conns'[q][b]) : conns'[q][b][i] = c
      BY <1>7 DEF Pooled
    <2>2. q # p
      BY <2>1, <1>6
    <2> QED BY <2>1, <2>2, <1>4 DEF Pooled
  <1>8. ASSUME NEW q \in Pools, NEW c \in Conns, PooledIn(q, c)'
        PROVE  q # p /\ PooledIn(q, c)
    <2>1. PICK b \in Addrs : \E i \in 1..Len(conns'[q][b]) : conns'[q][b][i] = c
      BY <1>8 DEF PooledIn
    <2>2. q # p
      BY <2>1, <1>6
    <2> QED BY <2>1, <2>2, <1>4 DEF PooledIn
  <1> QED BY <1>3, <1>7, <1>8

-----------------------------------------------------------------------------
(* What a step of one attempt leaves alone.                                *)

(* Nothing of the attempt v changes.                                       *)
Untouched(v) ==
  /\ apc'[v] = apc[v] /\ gpc'[v] = gpc[v] /\ conn'[v] = conn[v]
  /\ gch'[v] = gch[v] /\ got'[v] = got[v] /\ serr'[v] = serr[v]
  /\ ret'[v] = ret[v] /\ ch'[v] = ch[v]
  /\ at'[v] = at[v] /\ holds'[v] = holds[v]

(* Connections stay dialled and stay closed, responses stay filled.        *)
Grows ==
  /\ \A c \in Conns : /\ status[c] # "none" => status'[c] # "none"
                      /\ status[c] = "closed" => status'[c] = "closed"
  /\ \A k \in Callers : resp[k] # Nil => resp'[k] # Nil

(* Nothing happens on the wire of c.                                       *)
SameWire(c) == sent'[c] = sent[c] /\ inbox'[c] = inbox[c]

(* An attempt keeps its invariant when others move, as long as nobody      *)
(* writes to or reads from the connection it holds.                        *)
LEMMA Frame ==
  ASSUME NEW v \in Attempts, v[1] \in Callers, AttemptInv(v), Untouched(v), Grows,
         apc[v] \in Holding => SameWire(conn[v])
  PROVE  AttemptInv(v)'
  <1>1. Place(v)'
    BY DEF AttemptInv, Place, Untouched, Grows
  <1>2. Left(v)'
    <2>1. gpc[v] # "none" => conn[v] \in Conns
      BY DEF AttemptInv, Place
    <2> QED BY <2>1 DEF AttemptInv, Left, Untouched, Grows
  <1>3. Wire(v)'
    <2>1. CASE apc[v] \in Holding
      <3>1. Silent(conn[v]) => Silent(conn[v])'
        BY <2>1 DEF Silent, SameWire, Untouched
      <3>2. Pending(conn[v], v) => Pending(conn[v], v)'
        BY <2>1 DEF Pending, SameWire, Untouched
      <3> QED BY <2>1, <3>1, <3>2 DEF AttemptInv, Wire, Untouched
    <2>2. CASE apc[v] \notin Holding
      BY <2>2 DEF Wire, Untouched
    <2> QED BY <2>1, <2>2
  <1>4. Answered(v)'
    BY DEF AttemptInv, Answered, Untouched, Grows
  <1> QED BY <1>1, <1>2, <1>3, <1>4 DEF AttemptInv

(* An attempt is a caller and an index.                                    *)
LEMMA AttemptPair ==
  ASSUME NEW t \in Attempts
  PROVE  t[1] \in Callers /\ t[2] \in 0..Retries /\ t = <<t[1], t[2]>>
  BY RpcClientAssumption DEF Attempts

(* No two attempts hold one connection, and none holds one in a pool.      *)
LEMMA HeldApart ==
  ASSUME PoolInv, ClientInv, NEW t \in Attempts, apc[t] \in Holding
  PROVE  /\ conn[t] \in Conns /\ conn[t] = holds[t]
         /\ status[conn[t]] = "open"
         /\ ~Pooled(conn[t])
         /\ \A v \in Attempts : v # t /\ apc[v] \in Holding => conn[v] # conn[t]
  <1>1. /\ at[t] = "held" /\ conn[t] = holds[t]
        /\ \A v \in Attempts : apc[v] \in Holding => conn[v] = holds[v]
    BY DEF ClientInv, AttemptInv, Place
  <1>2. holds[t] \in Conns /\ status[holds[t]] = "open"
    BY <1>1 DEF PoolInv, UsableOpen, Attempts
  <1>3. holds[t] # Nil
    BY <1>2, ConnPoolAssumption
  <1>4. ~Pooled(holds[t])
    BY DEF PoolInv, OneOwner, Attempts
  <1>5. \A v \in Attempts : holds[v] = holds[t] => v = t
    BY <1>3 DEF PoolInv, OneOwner, Attempts
  <1> QED BY <1>1, <1>2, <1>4, <1>5

(* At most the wire of the connection t holds changes.                     *)
OwnWire(t) ==
  \A c \in Conns : SameWire(c) \/ (apc[t] \in Holding /\ c = conn[t])

(* A step of t that at most uses the wire of the connection t holds does   *)
(* not disturb another attempt.                                            *)
LEMMA Others ==
  ASSUME PoolInv, ClientInv, NEW t \in Attempts, Grows, OwnWire(t),
         \A v \in Attempts : v # t => Untouched(v)
  PROVE  \A v \in Attempts : v # t => AttemptInv(v)'
  <1> SUFFICES ASSUME NEW v \in Attempts, v # t PROVE AttemptInv(v)'
    OBVIOUS
  <1>1. v[1] \in Callers
    BY AttemptPair
  <1>2. AttemptInv(v) /\ Untouched(v)
    BY DEF ClientInv
  <1>3. ASSUME apc[v] \in Holding PROVE SameWire(conn[v])
    <2>1. conn[v] \in Conns
      BY <1>3, HeldApart
    <2>2. apc[t] \in Holding => conn[v] # conn[t]
      BY <1>3, HeldApart
    <2> QED BY <2>1, <2>2 DEF OwnWire
  <1> QED BY <1>1, <1>2, <1>3, Frame

(* The order of the attempts of a call, when none starts.                  *)
LEMMA TurnsKept ==
  ASSUME ClientInv, UNCHANGED callVars,
         \A v \in Attempts : apc[v] = "none" => apc'[v] = "none"
  PROVE  \A k \in Callers : Turns(k)'
  <1> TAKE k \in Callers
  <1>1. \A i \in 0..Retries : <<k, i>> \in Attempts
    BY RpcClientAssumption DEF Attempts
  <1>2. cpc' = cpc /\ try' = try
    BY DEF callVars
  <1> QED BY <1>1, <1>2 DEF ClientInv, Turns

(* What may change in the responses: t stores its own answer.              *)
LEMMA AnswerKept ==
  ASSUME ClientInv, NEW t \in Attempts, result' = result,
         resp' = resp \/ resp' = [resp EXCEPT ![t[1]] = t]
  PROVE  OwnAnswer' /\ \A k \in Callers : resp[k] # Nil => resp'[k] # Nil
  <1>1. t[1] \in Callers /\ t # Nil
    BY AttemptPair, RpcClientAssumption DEF Attempts
  <1>2. resp \in [Callers -> Attempts \cup {Nil}]
    BY DEF ClientInv, TypeOK
  <1>3. \A k \in Callers : resp'[k] = resp[k] \/ (k = t[1] /\ resp'[k] = t)
    BY <1>1, <1>2
  <1>4. \A k \in Callers : /\ resp[k] # Nil => resp[k][1] = k
                           /\ result[k] = "ok" => resp[k] # Nil
    BY DEF ClientInv, OwnAnswer
  <1> QED BY <1>1, <1>3, <1>4 DEF OwnAnswer

(* A step of attempt t or its goroutine that does not use the pool.        *)
LEMMA LocalStep ==
  ASSUME PoolInv, ClientInv, NEW t \in Attempts, apc[t] # "none",
         UNCHANGED <<poolVars, lockVars, callVars>>,
         resp' = resp \/ resp' = [resp EXCEPT ![t[1]] = t],
         OwnWire(t),
         \A v \in Attempts : v # t => Untouched(v),
         TypeOK', AttemptInv(t)'
  PROVE  ClientInv'
  <1>0. /\ result' = result /\ init' = init /\ rpool' = rpool
        /\ status' = status /\ conns' = conns
    BY DEF poolVars, lockVars, callVars
  <1>1. OwnAnswer' /\ \A k \in Callers : resp[k] # Nil => resp'[k] # Nil
    BY <1>0, AnswerKept
  <1>2. Grows
    BY <1>0, <1>1 DEF Grows
  <1>3. \A v \in Attempts : AttemptInv(v)'
    BY <1>2, Others
  <1>4. \A k \in Callers : Turns(k)'
    <2>1. \A v \in Attempts : apc[v] = "none" => apc'[v] = "none"
      BY DEF Untouched
    <2> QED BY <2>1, TurnsKept
  <1>5. Quiet'
    <2> SUFFICES ASSUME NEW c \in Conns, status[c] = "none" \/ Pooled(c)
                 PROVE  Silent(c)'
      BY <1>0 DEF Quiet, Pooled
    <2>1. Silent(c)
      BY DEF ClientInv, Quiet
    <2>2. apc[t] \in Holding => c # conn[t]
      BY HeldApart
    <2>3. SameWire(c)
      BY <2>2 DEF OwnWire
    <2> QED BY <2>1, <2>3 DEF Silent, SameWire
  <1>6. InitRoom'
    BY <1>0 DEF ClientInv, InitRoom
  <1> QED BY <1>1, <1>3, <1>4, <1>5, <1>6 DEF ClientInv

(* The wires when nobody uses them.                                        *)
LEMMA NoWire ==
  ASSUME NEW t \in Attempts, UNCHANGED wireVars
  PROVE  OwnWire(t)
  BY DEF OwnWire, SameWire, wireVars

-----------------------------------------------------------------------------
(* One lemma per operation of an attempt.                                  *)

(* Backoff and next, and Options with the codec: no connection yet.        *)
LEMMA AttemptStartInv ==
  ASSUME PoolInv, PoolInv', ClientInv, NEW t \in Attempts,
         AttemptStart(t) \/ AttemptOptions(t)
  PROVE  ClientInv'
  <1> USE DEF Attempts
  <1>1. /\ apc[t] \in {"start", "options"}
        /\ \/ apc' = [apc EXCEPT ![t] = "options"] /\ ch' = ch
           \/ apc' = [apc EXCEPT ![t] = "get"] /\ ch' = ch
           \/ apc' = [apc EXCEPT ![t] = "done"] /\ ch' = [ch EXCEPT ![t] = "internal"]
        /\ UNCHANGED <<poolVars, lockVars, callVars, resp, ret, conn, goVars, serr,
                       sclosed, wireVars>>
    BY DEF AttemptStart, AttemptOptions, Fails
  <1>2. TypeOK'
    <2>1. PICK x \in {"options", "get", "done"} : apc' = [apc EXCEPT ![t] = x]
      BY <1>1
    <2>2. apc' \in [Attempts -> {"none", "start", "options", "get", "dial", "select", "seterr",
                                 "close", "release", "done"}]
      BY <2>1 DEF ClientInv, TypeOK
    <2>3. ch' \in [Attempts -> Outcomes \cup {"none"}]
      <3>1. ch \in [Attempts -> Outcomes \cup {"none"}] /\ "internal" \in Outcomes
        BY DEF ClientInv, TypeOK, Outcomes, Errors
      <3>2. ch' = ch \/ ch' = [ch EXCEPT ![t] = "internal"]
        BY <1>1
      <3> QED BY <3>1, <3>2
    <2> QED BY <1>1, <2>2, <2>3
        DEF ClientInv, TypeOK, PoolInv, lockVars, callVars, goVars, wireVars
  <1>3. \A v \in Attempts : v # t => Untouched(v)
    BY <1>1 DEF ClientInv, TypeOK, Untouched, poolVars, goVars
  <1>4. AttemptInv(t)'
    <2>1. /\ apc'[t] \in {"options", "get", "done"} /\ ch'[t] \in {ch[t], "internal"}
          /\ gpc'[t] = gpc[t] /\ conn'[t] = conn[t] /\ gch'[t] = gch[t]
          /\ got'[t] = got[t] /\ serr'[t] = serr[t] /\ ret'[t] = ret[t]
          /\ at'[t] = at[t] /\ status' = status /\ resp' = resp
      BY <1>1 DEF ClientInv, TypeOK, poolVars, goVars
    <2>2. AttemptInv(t)
      BY DEF ClientInv
    <2>3. gpc[t] = "none" /\ at[t] \notin {"held", "dial"}
      BY <1>1, <2>2 DEF AttemptInv, Place, Holding
    <2> QED BY <2>1, <2>2, <2>3 DEF AttemptInv, Place, Left, Wire, Answered, Holding
  <1> QED BY <1>1, <1>2, <1>3, <1>4, NoWire, LocalStep

(* The goroutine sent its outcome on the channel: it has ended.            *)
LEMMA AttemptReceivesInv ==
  ASSUME PoolInv, PoolInv', ClientInv, NEW t \in Attempts, AttemptReceives(t)
  PROVE  ClientInv'
  <1> USE DEF Attempts
  <1>1. /\ apc[t] = "select" /\ gch[t] # "none"
        /\ ret' = [ret EXCEPT ![t] = gch[t]]
        /\ apc' = [apc EXCEPT ![t] = "close"]
        /\ UNCHANGED <<poolVars, lockVars, callVars, resp, ch, conn, goVars, serr,
                       sclosed, wireVars>>
    BY DEF AttemptReceives
  <1>2. TypeOK'
    BY <1>1 DEF ClientInv, TypeOK, PoolInv, lockVars, callVars, goVars, wireVars
  <1>3. \A v \in Attempts : v # t => Untouched(v)
    BY <1>1 DEF ClientInv, TypeOK, Untouched, poolVars, goVars
  <1>4. AttemptInv(t)'
    <2>1. /\ apc'[t] = "close" /\ ret'[t] = gch[t] /\ ch'[t] = ch[t]
          /\ gpc'[t] = gpc[t] /\ conn'[t] = conn[t] /\ gch'[t] = gch[t]
          /\ got'[t] = got[t] /\ serr'[t] = serr[t] /\ holds' = holds
          /\ at'[t] = at[t] /\ status' = status /\ resp' = resp
          /\ sent' = sent /\ inbox' = inbox
      BY <1>1 DEF ClientInv, TypeOK, poolVars, goVars, wireVars
    <2>2. AttemptInv(t)
      BY DEF ClientInv
    <2>3. gpc[t] = "done"
      BY <1>1, <2>2 DEF AttemptInv, Place
    <2>4. Place(t)'
      BY <1>1, <2>1, <2>2 DEF AttemptInv, Place, Holding
    <2>5. Left(t)'
      BY <2>1, <2>3 DEF Left
    <2>6. Wire(t)'
      BY <1>1, <2>1, <2>2, <2>3 DEF AttemptInv, Wire, Silent, Holding
    <2>7. Answered(t)'
      BY <2>1, <2>2 DEF AttemptInv, Answered
    <2> QED BY <2>4, <2>5, <2>6, <2>7 DEF AttemptInv
  <1> QED BY <1>1, <1>2, <1>3, <1>4, NoWire, LocalStep

(* The connection timeout, the recording of it and the closing of the      *)
(* stream: the attempt goes on holding its connection.                     *)
LEMMA AttemptClosesInv ==
  ASSUME PoolInv, PoolInv', ClientInv, NEW t \in Attempts,
         AttemptTimesOut(t) \/ AttemptSetsError(t) \/ StreamClose(t)
  PROVE  ClientInv'
  <1> USE DEF Attempts
  <1>1. /\ \/ apc[t] = "select" /\ apc' = [apc EXCEPT ![t] = "seterr"]
              /\ ret' = [ret EXCEPT ![t] = "timeout"] /\ serr' = serr
           \/ apc[t] = "seterr" /\ apc' = [apc EXCEPT ![t] = "close"]
              /\ ret' = ret /\ serr' = [serr EXCEPT ![t] = "timeout"]
           \/ apc[t] = "close" /\ apc' = [apc EXCEPT ![t] = "release"]
              /\ ret' = ret /\ serr' = serr
        /\ sclosed' = sclosed \/ sclosed' = [sclosed EXCEPT ![t] = TRUE]
        /\ UNCHANGED <<poolVars, lockVars, callVars, resp, ch, conn, goVars, wireVars>>
    BY DEF AttemptTimesOut, AttemptSetsError, StreamClose
  <1>2. TypeOK'
    <2>0. PICK x \in {"seterr", "close", "release"} : apc' = [apc EXCEPT ![t] = x]
      BY <1>1
    <2>1. apc' \in [Attempts -> {"none", "start", "options", "get", "dial", "select", "seterr",
                                 "close", "release", "done"}]
      BY <2>0 DEF ClientInv, TypeOK
    <2>2. ret' \in [Attempts -> Outcomes \cup {"none"}]
      <3>1. ret \in [Attempts -> Outcomes \cup {"none"}] /\ "timeout" \in Outcomes
        BY DEF ClientInv, TypeOK, Outcomes, Errors
      <3>2. ret' = ret \/ ret' = [ret EXCEPT ![t] = "timeout"]
        BY <1>1
      <3> QED BY <3>1, <3>2
    <2>3. serr' \in [Attempts -> Errors \cup {"nil"}]
      <3>1. serr \in [Attempts -> Errors \cup {"nil"}] /\ "timeout" \in Errors
        BY DEF ClientInv, TypeOK, Errors
      <3>2. serr' = serr \/ serr' = [serr EXCEPT ![t] = "timeout"]
        BY <1>1
      <3> QED BY <3>1, <3>2
    <2>4. sclosed' \in [Attempts -> BOOLEAN]
      <3>1. sclosed \in [Attempts -> BOOLEAN]
        BY DEF ClientInv, TypeOK
      <3>2. sclosed' = sclosed \/ sclosed' = [sclosed EXCEPT ![t] = TRUE]
        BY <1>1
      <3> QED BY <3>1, <3>2
    <2> QED BY <1>1, <2>1, <2>2, <2>3, <2>4
        DEF ClientInv, TypeOK, PoolInv, lockVars, callVars, goVars, wireVars
  <1>3. \A v \in Attempts : v # t => Untouched(v)
    BY <1>1 DEF ClientInv, TypeOK, Untouched, poolVars, goVars
  <1>4. AttemptInv(t)'
    <2>1. /\ \/ apc[t] = "select" /\ apc'[t] = "seterr"
                  /\ ret'[t] = "timeout" /\ serr'[t] = serr[t]
             \/ apc[t] = "seterr" /\ apc'[t] = "close"
                  /\ ret'[t] = ret[t] /\ serr'[t] = "timeout"
             \/ apc[t] = "close" /\ apc'[t] = "release"
                  /\ ret'[t] = ret[t] /\ serr'[t] = serr[t]
          /\ gpc'[t] = gpc[t] /\ conn'[t] = conn[t] /\ gch'[t] = gch[t]
          /\ got'[t] = got[t] /\ ch'[t] = ch[t] /\ holds' = holds
          /\ at'[t] = at[t] /\ status' = status /\ resp' = resp
          /\ sent' = sent /\ inbox' = inbox
      BY <1>1 DEF ClientInv, TypeOK, poolVars, goVars, wireVars
    <2>2. AttemptInv(t)
      BY DEF ClientInv
    <2>4. Place(t)'
      BY <2>1, <2>2 DEF AttemptInv, Place, Holding
    <2>5. Left(t)'
      BY <2>1, <2>2 DEF AttemptInv, Left, Holding
    <2>6. Wire(t)'
      <3>1. Silent(conn[t])' <=> Silent(conn[t])
        BY <2>1 DEF Silent
      <3>2. Pending(conn[t], t)' <=> Pending(conn[t], t)
        BY <2>1 DEF Pending
      <3>3. apc[t] \in Holding
        BY <2>1 DEF Holding
      <3>4. serr'[t] = "nil" => serr[t] = "nil"
        BY <2>1
      <3> QED BY <2>1, <2>2, <3>1, <3>2, <3>3, <3>4 DEF AttemptInv, Wire
    <2>7. Answered(t)'
      BY <2>1, <2>2 DEF AttemptInv, Answered
    <2> QED BY <2>4, <2>5, <2>6, <2>7 DEF AttemptInv
  <1>5. apc[t] # "none"
    BY <1>1
  <1> QED BY <1>1, <1>2, <1>3, <1>4, <1>5, NoWire, LocalStep

-----------------------------------------------------------------------------
(* One lemma per operation of the second goroutine.                        *)

(* Send and Recv before they write or read: the stream may be closed.      *)
LEMMA StreamEntersInv ==
  ASSUME PoolInv, PoolInv', ClientInv, NEW t \in Attempts,
         StreamSend(t) \/ StreamRecv(t)
  PROVE  ClientInv'
  <1> USE DEF Attempts
  <1>1. /\ \/ gpc[t] = "send" /\ gpc' = [gpc EXCEPT ![t] = "writing"]
              /\ gch' = gch /\ serr' = serr
           \/ gpc[t] = "recv" /\ gpc' = [gpc EXCEPT ![t] = "read"]
              /\ gch' = gch /\ serr' = serr
           \/ gpc[t] \in {"send", "recv"} /\ gpc' = [gpc EXCEPT ![t] = "done"]
              /\ gch' = [gch EXCEPT ![t] = "internal"]
              /\ serr' = [serr EXCEPT ![t] = "internal"]
        /\ UNCHANGED <<poolVars, lockVars, callVars, resp, apc, ret, ch, conn, got,
                       sclosed, wireVars>>
    BY DEF StreamSend, StreamRecv, Ends
  <1>2. TypeOK'
    <2>0. PICK x \in {"writing", "read", "done"} : gpc' = [gpc EXCEPT ![t] = x]
      BY <1>1
    <2>1. gpc' \in [Attempts -> {"none", "send", "writing", "recv", "read", "body", "done"}]
      BY <2>0 DEF ClientInv, TypeOK
    <2>2. gch' \in [Attempts -> Outcomes \cup {"none"}]
      <3>1. gch \in [Attempts -> Outcomes \cup {"none"}] /\ "internal" \in Outcomes
        BY DEF ClientInv, TypeOK, Outcomes, Errors
      <3>2. gch' = gch \/ gch' = [gch EXCEPT ![t] = "internal"]
        BY <1>1
      <3> QED BY <3>1, <3>2
    <2>3. serr' \in [Attempts -> Errors \cup {"nil"}]
      <3>1. serr \in [Attempts -> Errors \cup {"nil"}] /\ "internal" \in Errors
        BY DEF ClientInv, TypeOK, Errors
      <3>2. serr' = serr \/ serr' = [serr EXCEPT ![t] = "internal"]
        BY <1>1
      <3> QED BY <3>1, <3>2
    <2> QED BY <1>1, <2>1, <2>2, <2>3
        DEF ClientInv, TypeOK, PoolInv, lockVars, callVars, wireVars
  <1>3. \A v \in Attempts : v # t => Untouched(v)
    BY <1>1 DEF ClientInv, TypeOK, Untouched, poolVars
  <1>4. AttemptInv(t)
    BY DEF ClientInv
  <1>5. AttemptInv(t)'
    <2>1. /\ \/ gpc[t] = "send" /\ gpc'[t] = "writing"
                  /\ gch'[t] = gch[t] /\ serr'[t] = serr[t]
             \/ gpc[t] = "recv" /\ gpc'[t] = "read"
                  /\ gch'[t] = gch[t] /\ serr'[t] = serr[t]
             \/ gpc[t] \in {"send", "recv"} /\ gpc'[t] = "done"
                  /\ gch'[t] = "internal" /\ serr'[t] = "internal"
          /\ apc'[t] = apc[t] /\ conn'[t] = conn[t] /\ got'[t] = got[t]
          /\ ch'[t] = ch[t] /\ ret'[t] = ret[t] /\ holds' = holds
          /\ at'[t] = at[t] /\ status' = status /\ resp' = resp
          /\ sent' = sent /\ inbox' = inbox
      BY <1>1 DEF ClientInv, TypeOK, poolVars, wireVars
    <2>4. Place(t)'
      BY <2>1, <1>4 DEF AttemptInv, Place
    <2>5. Left(t)'
      BY <2>1, <1>4 DEF AttemptInv, Left
    <2>6. Wire(t)'
      <3>1. Silent(conn[t])' <=> Silent(conn[t])
        BY <2>1 DEF Silent
      <3>2. Pending(conn[t], t)' <=> Pending(conn[t], t)
        BY <2>1 DEF Pending
      <3> QED BY <2>1, <1>4, <3>1, <3>2 DEF AttemptInv, Wire
    <2>7. Answered(t)'
      BY <2>1, <1>4 DEF AttemptInv, Answered
    <2> QED BY <2>4, <2>5, <2>6, <2>7 DEF AttemptInv
  <1>6. apc[t] # "none"
    BY <1>1, <1>4 DEF AttemptInv, Place, Holding
  <1> QED BY <1>1, <1>2, <1>3, <1>5, <1>6, NoWire, LocalStep

(* Writing the request, failing to, or a panic before anything is sent.    *)
LEMMA StreamWriteInv ==
  ASSUME PoolInv, PoolInv', ClientInv, NEW t \in Attempts, StreamWrite(t)
  PROVE  ClientInv'
  <1> USE DEF Attempts
  <1>0. AttemptInv(t)
    BY DEF ClientInv
  <1>1. /\ gpc[t] = "writing"
        /\ UNCHANGED <<poolVars, lockVars, callVars, resp, apc, ret, ch, conn, got,
                       sclosed, inbox>>
    BY DEF StreamWrite
  <1>2. /\ apc[t] # "none" /\ conn[t] \in Conns
        /\ status[conn[t]] = "open" => apc[t] \in Holding
        /\ apc[t] \in Holding => Silent(conn[t])
    BY <1>0, <1>1 DEF AttemptInv, Place, Left, Wire, Holding
  <1>3. CASE /\ status[conn[t]] = "open"
             /\ sent' = [sent EXCEPT ![conn[t]] = Append(@, t)]
             /\ gpc' = [gpc EXCEPT ![t] = "recv"]
             /\ UNCHANGED <<gch, serr>>
    <2>1. sent[conn[t]] = <<>> /\ inbox[conn[t]] = <<>>
      BY <1>2, <1>3 DEF Silent
    <2>2. sent' \in [Conns -> Seq(Attempts)] /\ sent'[conn[t]] = <<t>>
      BY <1>2, <1>3, <2>1 DEF ClientInv, TypeOK
    <2>3. TypeOK'
      BY <1>1, <1>3, <2>2 DEF ClientInv, TypeOK, PoolInv, lockVars, callVars
    <2>4. \A v \in Attempts : v # t => Untouched(v)
      BY <1>1, <1>3 DEF ClientInv, TypeOK, Untouched, poolVars
    <2>5. OwnWire(t)
      BY <1>1, <1>2, <1>3 DEF OwnWire, SameWire, ClientInv, TypeOK
    <2>6. AttemptInv(t)'
      <3>1. /\ gpc'[t] = "recv" /\ apc' = apc /\ conn' = conn /\ got' = got /\ gch' = gch
            /\ serr' = serr /\ ch' = ch /\ ret' = ret /\ holds' = holds /\ at' = at
            /\ status' = status /\ resp' = resp /\ inbox' = inbox
        BY <1>1, <1>3 DEF ClientInv, TypeOK, poolVars
      <3>2. Place(t)'
        BY <3>1, <1>0, <1>1 DEF AttemptInv, Place
      <3>3. Left(t)'
        BY <3>1, <1>0, <1>1 DEF AttemptInv, Left
      <3>4. Pending(conn[t], t)'
        BY <3>1, <2>1, <2>2 DEF Pending
      <3>5. Wire(t)'
        BY <3>1, <3>4 DEF Wire
      <3>6. Answered(t)'
        BY <3>1, <1>0 DEF AttemptInv, Answered
      <3> QED BY <3>2, <3>3, <3>5, <3>6 DEF AttemptInv
    <2> QED BY <1>1, <1>2, <2>3, <2>4, <2>5, <2>6, LocalStep
  <1>4. CASE /\ gpc' = [gpc EXCEPT ![t] = "done"]
             /\ gch' = [gch EXCEPT ![t] = "internal"]
             /\ serr' = [serr EXCEPT ![t] = "internal"] \/ serr' = serr
             /\ UNCHANGED sent
    <2>1. TypeOK'
      <3>1. serr' \in [Attempts -> Errors \cup {"nil"}]
        <4>1. serr \in [Attempts -> Errors \cup {"nil"}] /\ "internal" \in Errors
          BY DEF ClientInv, TypeOK, Errors
        <4> QED BY <4>1, <1>4
      <3> QED BY <1>1, <1>4, <3>1
          DEF ClientInv, TypeOK, PoolInv, lockVars, callVars, Outcomes, Errors
    <2>2. \A v \in Attempts : v # t => Untouched(v)
      BY <1>1, <1>4 DEF ClientInv, TypeOK, Untouched, poolVars
    <2>3. AttemptInv(t)'
      <3>1. /\ gpc'[t] = "done" /\ gch'[t] = "internal" /\ serr'[t] \in {serr[t], "internal"}
            /\ apc' = apc /\ conn' = conn /\ got' = got
            /\ ch' = ch /\ ret' = ret /\ holds' = holds /\ at' = at
            /\ status' = status /\ resp' = resp /\ inbox' = inbox /\ sent' = sent
        BY <1>1, <1>4 DEF ClientInv, TypeOK, poolVars
      <3>2. Place(t)'
        BY <3>1, <1>0, <1>1 DEF AttemptInv, Place
      <3>3. Left(t)'
        BY <3>1 DEF Left
      <3>4. Wire(t)'
        BY <3>1, <1>2 DEF Wire, Silent
      <3>5. Answered(t)'
        BY <3>1, <1>0 DEF AttemptInv, Answered
      <3> QED BY <3>2, <3>3, <3>4, <3>5 DEF AttemptInv
    <2>4. OwnWire(t)
      BY <1>1, <1>4 DEF OwnWire, SameWire
    <2> QED BY <1>1, <1>2, <2>1, <2>2, <2>3, <2>4, LocalStep
  <1> QED BY <1>3, <1>4 DEF StreamWrite, Ends

(* Reading the next message of the connection: it is the attempt's own.    *)
LEMMA StreamReadInv ==
  ASSUME PoolInv, PoolInv', ClientInv, NEW t \in Attempts, StreamRead(t)
  PROVE  ClientInv'
  <1> USE DEF Attempts
  <1>0. AttemptInv(t)
    BY DEF ClientInv
  <1>1. /\ gpc[t] = "read"
        /\ UNCHANGED <<poolVars, lockVars, callVars, resp, apc, ret, ch, conn,
                       sclosed, sent>>
    BY DEF StreamRead
  <1>2. /\ apc[t] # "none" /\ conn[t] \in Conns
        /\ status[conn[t]] = "open" => apc[t] \in Holding
        /\ apc[t] \in Holding => Pending(conn[t], t)
    BY <1>0, <1>1 DEF AttemptInv, Place, Left, Wire, Holding
  <1>3. ASSUME status[conn[t]] = "open", inbox[conn[t]] # <<>>,
               inbox' = [inbox EXCEPT ![conn[t]] = Tail(@)]
        PROVE  /\ inbox' \in [Conns -> Seq([to : Attempts, kind : Outcomes])]
               /\ Silent(conn[t])'
               /\ \E kind \in Outcomes : Head(inbox[conn[t]]) = [to |-> t, kind |-> kind]
               /\ OwnWire(t)
    <2>1. PICK kind \in Outcomes : /\ sent[conn[t]] = <<>>
                                   /\ inbox[conn[t]] = <<[to |-> t, kind |-> kind]>>
      BY <1>2, <1>3 DEF Pending
    <2>2. Tail(inbox[conn[t]]) = <<>> /\ Head(inbox[conn[t]]) = [to |-> t, kind |-> kind]
      BY <2>1
    <2>3. inbox' \in [Conns -> Seq([to : Attempts, kind : Outcomes])]
      <3>1. inbox \in [Conns -> Seq([to : Attempts, kind : Outcomes])]
        BY DEF ClientInv, TypeOK
      <3>2. inbox' = [inbox EXCEPT ![conn[t]] = <<>>]
        BY <1>3, <2>2
      <3>3. <<>> \in Seq([to : Attempts, kind : Outcomes])
        OBVIOUS
      <3> QED BY <3>1, <3>2, <3>3
    <2>4. inbox'[conn[t]] = <<>>
      BY <1>2, <1>3, <2>2 DEF ClientInv, TypeOK
    <2>5. Silent(conn[t])'
      BY <1>1, <2>1, <2>4 DEF Silent
    <2>6. OwnWire(t)
      BY <1>1, <1>2, <1>3 DEF OwnWire, SameWire, ClientInv, TypeOK
    <2> QED BY <2>2, <2>3, <2>5, <2>6
  <1>4. CASE /\ status[conn[t]] = "open" /\ inbox[conn[t]] # <<>>
             /\ inbox' = [inbox EXCEPT ![conn[t]] = Tail(@)]
             /\ Head(inbox[conn[t]]).kind = "ok"
             /\ got' = [got EXCEPT ![t] = Head(inbox[conn[t]]).to]
             /\ gpc' = [gpc EXCEPT ![t] = "body"]
             /\ UNCHANGED <<gch, serr>>
    <2>0. PICK kind \in Outcomes : Head(inbox[conn[t]]) = [to |-> t, kind |-> kind]
      BY <1>3, <1>4
    <2>1. Head(inbox[conn[t]]).to = t
      BY <2>0
    <2>2. TypeOK'
      <3>1. /\ got \in [Attempts -> Attempts \cup {Nil}]
            /\ gpc \in [Attempts -> {"none", "send", "writing", "recv", "read", "body", "done"}]
        BY DEF ClientInv, TypeOK
      <3>2. inbox' \in [Conns -> Seq([to : Attempts, kind : Outcomes])]
        BY <1>3, <1>4
      <3>3. /\ got' \in [Attempts -> Attempts \cup {Nil}]
            /\ gpc' \in [Attempts -> {"none", "send", "writing", "recv", "read", "body", "done"}]
        BY <1>4, <2>1, <3>1
      <3> QED BY <1>1, <1>4, <3>2, <3>3 DEF ClientInv, TypeOK, PoolInv, lockVars, callVars
    <2>3. \A v \in Attempts : v # t => Untouched(v)
      BY <1>1, <1>4 DEF ClientInv, TypeOK, Untouched, poolVars
    <2>4. AttemptInv(t)'
      <3>1. /\ gpc'[t] = "body" /\ got'[t] = t /\ gch' = gch /\ serr' = serr
            /\ apc' = apc /\ conn' = conn
            /\ ch' = ch /\ ret' = ret /\ holds' = holds /\ at' = at
            /\ status' = status /\ resp' = resp
        BY <1>1, <1>4, <2>1 DEF ClientInv, TypeOK, poolVars
      <3>2. Place(t)'
        BY <3>1, <1>0, <1>1 DEF AttemptInv, Place
      <3>3. Left(t)'
        BY <3>1, <1>0, <1>1 DEF AttemptInv, Left
      <3>4. Wire(t)'
        BY <3>1, <1>3, <1>4 DEF Wire
      <3>5. Answered(t)'
        BY <3>1, <1>0 DEF AttemptInv, Answered
      <3> QED BY <3>2, <3>3, <3>4, <3>5 DEF AttemptInv
    <2> QED BY <1>1, <1>2, <1>3, <1>4, <2>2, <2>3, <2>4, LocalStep
  <1>5. ASSUME NEW kind \in Errors,
               inbox' \in [Conns -> Seq([to : Attempts, kind : Outcomes])],
               OwnWire(t),
               gpc' = [gpc EXCEPT ![t] = "done"],
               gch' = [gch EXCEPT ![t] = kind],
               serr' = [serr EXCEPT ![t] = kind],
               got' = got
        PROVE  ClientInv'
    <2>1. kind \in Outcomes /\ kind # "nil" /\ kind # "ok"
      BY <1>5 DEF Outcomes, Errors
    <2>2. TypeOK'
      BY <1>1, <1>5, <2>1 DEF ClientInv, TypeOK, PoolInv, lockVars, callVars
    <2>3. \A v \in Attempts : v # t => Untouched(v)
      BY <1>1, <1>5 DEF ClientInv, TypeOK, Untouched, poolVars
    <2>4. AttemptInv(t)'
      <3>1. /\ gpc'[t] = "done" /\ gch'[t] = kind /\ serr'[t] = kind
            /\ apc' = apc /\ conn' = conn /\ got' = got
            /\ ch' = ch /\ ret' = ret /\ holds' = holds /\ at' = at
            /\ status' = status /\ resp' = resp
        BY <1>1, <1>5 DEF ClientInv, TypeOK, poolVars
      <3>2. Place(t)'
        BY <3>1, <1>0, <1>1 DEF AttemptInv, Place
      <3>3. Left(t)'
        BY <3>1 DEF Left
      <3>4. Wire(t)'
        BY <3>1, <2>1 DEF Wire
      <3>5. Answered(t)'
        BY <3>1, <2>1, <1>0 DEF AttemptInv, Answered
      <3> QED BY <3>2, <3>3, <3>4, <3>5 DEF AttemptInv
    <2> QED BY <1>1, <1>2, <1>5, <2>2, <2>3, <2>4, LocalStep
  <1>6. CASE /\ status[conn[t]] = "open" /\ inbox[conn[t]] # <<>>
             /\ inbox' = [inbox EXCEPT ![conn[t]] = Tail(@)]
             /\ Head(inbox[conn[t]]).kind # "ok"
             /\ Ends(t, Head(inbox[conn[t]]).kind)
             /\ serr' = [serr EXCEPT ![t] = Head(inbox[conn[t]]).kind]
             /\ UNCHANGED got
    <2>0. PICK kind \in Outcomes : Head(inbox[conn[t]]) = [to |-> t, kind |-> kind]
      BY <1>3, <1>6
    <2>1. Head(inbox[conn[t]]).kind = kind /\ kind \in Errors
      BY <2>0, <1>6 DEF Outcomes
    <2> QED BY <1>3, <1>5, <1>6, <2>1 DEF Ends
  <1>7. CASE /\ Ends(t, "internal")
             /\ serr' = [serr EXCEPT ![t] = "internal"]
             /\ UNCHANGED <<inbox, got>>
    <2>1. "internal" \in Errors
      BY DEF Errors
    <2>2. inbox' \in [Conns -> Seq([to : Attempts, kind : Outcomes])]
      BY <1>7 DEF ClientInv, TypeOK
    <2>3. OwnWire(t)
      BY <1>1, <1>7 DEF OwnWire, SameWire
    <2> QED BY <1>5, <1>7, <2>1, <2>2, <2>3 DEF Ends
  <1> QED BY <1>4, <1>6, <1>7 DEF StreamRead

(* Decoding the answer into the caller's response.                         *)
LEMMA StreamBodyInv ==
  ASSUME PoolInv, PoolInv', ClientInv, NEW t \in Attempts, StreamBody(t)
  PROVE  ClientInv'
  <1> USE DEF Attempts
  <1>0. AttemptInv(t) /\ t[1] \in Callers /\ t # Nil
    BY AttemptPair, RpcClientAssumption DEF ClientInv
  <1>1. /\ gpc[t] = "body"
        /\ gpc' = [gpc EXCEPT ![t] = "done"]
        /\ got' = [got EXCEPT ![t] = Nil]
        /\ UNCHANGED <<poolVars, lockVars, callVars, apc, ret, ch, conn, sclosed, wireVars>>
    BY DEF StreamBody, Ends
  <1>2. /\ apc[t] # "none" /\ got[t] = t
        /\ apc[t] \in Holding => Silent(conn[t])
    BY <1>0, <1>1 DEF AttemptInv, Place, Wire, Holding
  <1>3. PICK err \in Outcomes :
          /\ gch' = [gch EXCEPT ![t] = err]
          /\ serr' = serr \/ serr' = [serr EXCEPT ![t] = "internal"]
          /\ \/ resp' = [resp EXCEPT ![t[1]] = t]
             \/ resp' = resp /\ err # "ok"
    <2>1. CASE /\ resp' = [resp EXCEPT ![t[1]] = got[t]]
               /\ Ends(t, IF serr[t] = "nil" THEN "ok" ELSE serr[t])
               /\ UNCHANGED serr
      <3>1. PICK err \in Outcomes : err = IF serr[t] = "nil" THEN "ok" ELSE serr[t]
        BY DEF ClientInv, TypeOK, Outcomes
      <3> QED BY <2>1, <3>1, <1>2 DEF Ends
    <2>2. CASE Ends(t, "internal") /\ UNCHANGED resp
                 /\ (serr' = serr \/ serr' = [serr EXCEPT ![t] = "internal"])
      BY <2>2 DEF Ends, Outcomes, Errors
    <2> QED BY <2>1, <2>2 DEF StreamBody
  <1>4. TypeOK'
    <2>1. serr' \in [Attempts -> Errors \cup {"nil"}]
      BY <1>3 DEF ClientInv, TypeOK, Errors
    <2>2. resp' \in [Callers -> Attempts \cup {Nil}]
      <3>1. resp \in [Callers -> Attempts \cup {Nil}]
        BY DEF ClientInv, TypeOK
      <3> QED BY <1>3, <3>1
    <2> QED BY <1>1, <1>3, <2>1, <2>2
        DEF ClientInv, TypeOK, PoolInv, lockVars, callVars, wireVars
  <1>5. \A v \in Attempts : v # t => Untouched(v)
    BY <1>1, <1>3 DEF ClientInv, TypeOK, Untouched, poolVars
  <1>6. AttemptInv(t)'
    <2>1. /\ gpc'[t] = "done" /\ gch'[t] = err
          /\ serr'[t] \in {serr[t], "internal"}
          /\ apc' = apc /\ conn' = conn
          /\ ch' = ch /\ ret' = ret /\ holds' = holds /\ at' = at
          /\ status' = status /\ inbox' = inbox /\ sent' = sent
      BY <1>1, <1>3 DEF ClientInv, TypeOK, poolVars, wireVars
    <2>2. Place(t)'
      BY <2>1, <1>0, <1>1 DEF AttemptInv, Place
    <2>3. Left(t)'
      BY <2>1 DEF Left
    <2>4. Wire(t)'
      BY <2>1, <1>2 DEF Wire, Silent
    <2>5. Answered(t)'
      <3>1. CASE resp' = [resp EXCEPT ![t[1]] = t]
        BY <3>1, <1>0 DEF Answered, ClientInv, TypeOK
      <3>2. CASE resp' = resp /\ err # "ok"
        BY <3>2, <2>1, <1>0 DEF AttemptInv, Answered
      <3> QED BY <3>1, <3>2, <1>3
    <2> QED BY <2>2, <2>3, <2>4, <2>5 DEF AttemptInv
  <1> QED BY <1>1, <1>2, <1>3, <1>4, <1>5, <1>6, NoWire, LocalStep

-----------------------------------------------------------------------------
(* The operations of an attempt that use the pool.                         *)

(* A step of t that uses the pool and no wire: what it puts into a pool    *)
(* has to be silent.                                                       *)
LEMMA PoolStep ==
  ASSUME PoolInv, ClientInv, NEW t \in Attempts, apc[t] # "none",
         UNCHANGED <<lockVars, callVars, resp, wireVars>>,
         \A c \in Conns : /\ status[c] # "none" => status'[c] # "none"
                          /\ status[c] = "closed" => status'[c] = "closed"
                          /\ Pooled(c)' => Pooled(c) \/ Silent(c),
         \A v \in Attempts : v # t => Untouched(v),
         TypeOK', AttemptInv(t)'
  PROVE  ClientInv'
  <1>0. /\ result' = result /\ init' = init /\ rpool' = rpool /\ resp' = resp
        /\ sent' = sent /\ inbox' = inbox
    BY DEF lockVars, callVars, wireVars
  <1>1. OwnAnswer'
    BY <1>0, AnswerKept
  <1>2. Grows
    BY <1>0 DEF Grows
  <1>3. \A v \in Attempts : AttemptInv(v)'
    BY <1>2, NoWire, Others
  <1>4. \A k \in Callers : Turns(k)'
    <2>1. \A v \in Attempts : apc[v] = "none" => apc'[v] = "none"
      BY DEF Untouched
    <2> QED BY <2>1, TurnsKept
  <1>5. Quiet'
    <2> SUFFICES ASSUME NEW c \in Conns, status'[c] = "none" \/ Pooled(c)'
                 PROVE  Silent(c)'
      BY DEF Quiet
    <2>1. Silent(c)
      BY DEF ClientInv, Quiet
    <2> QED BY <2>1, <1>0 DEF Silent
  <1>6. InitRoom'
    BY <1>0 DEF ClientInv, InitRoom
  <1> QED BY <1>1, <1>3, <1>4, <1>5, <1>6 DEF ClientInv

(* The attempt of a call got a silent connection, from the pool or the     *)
(* transport, and starts its goroutine.                                    *)
LEMMA BeginInv ==
  ASSUME PoolInv, PoolInv', ClientInv, NEW t \in Attempts,
         apc[t] \in {"get", "dial"}, Begin(t), at'[t] = "held",
         holds'[t] \in Conns, status'[holds'[t]] = "open", Silent(holds'[t]),
         UNCHANGED <<lockVars, callVars, resp, ret, gch, got, serr, sclosed, wireVars>>
  PROVE  TypeOK' /\ AttemptInv(t)'
  <1> USE DEF Attempts
  <1>1. /\ apc' = [apc EXCEPT ![t] = "select"]
        /\ conn' = [conn EXCEPT ![t] = holds'[t]]
        /\ gpc' = [gpc EXCEPT ![t] = "send"]
        /\ ch' = ch
    BY DEF Begin
  <1>2. TypeOK'
    BY <1>1 DEF ClientInv, TypeOK, PoolInv, lockVars, callVars, wireVars
  <1>3. /\ apc'[t] = "select" /\ conn'[t] = holds'[t] /\ gpc'[t] = "send"
        /\ gch' = gch /\ got' = got /\ ret' = ret /\ resp' = resp
        /\ sent' = sent /\ inbox' = inbox
    BY <1>1 DEF ClientInv, TypeOK, wireVars
  <1>4. AttemptInv(t)
    BY DEF ClientInv
  <1>5. gch[t] = "none"
    BY <1>4 DEF AttemptInv, Place, Holding
  <1>6. Place(t)'
    BY <1>3, <1>5 DEF Place, Holding
  <1>7. Left(t)'
    BY <1>3 DEF Left, Holding
  <1>8. Silent(conn[t])'
    BY <1>3 DEF Silent
  <1>9. Wire(t)'
    BY <1>3, <1>8 DEF Wire
  <1>10. Answered(t)'
    BY <1>1, <1>3, <1>4 DEF AttemptInv, Answered
  <1> QED BY <1>2, <1>6, <1>7, <1>9, <1>10 DEF AttemptInv

(* The attempt fails without a connection, or goes on to dial.             *)
LEMMA NoConnInv ==
  ASSUME PoolInv, PoolInv', ClientInv, NEW t \in Attempts,
         apc[t] \in {"get", "dial"},
         \/ Fails(t, "internal") /\ at'[t] = "idle"
         \/ apc' = [apc EXCEPT ![t] = "dial"] /\ ch' = ch /\ at'[t] = "dial",
         UNCHANGED <<lockVars, callVars, resp, ret, conn, gpc, gch, got, serr, sclosed, wireVars>>
  PROVE  TypeOK' /\ AttemptInv(t)'
  <1> USE DEF Attempts
  <1>1. \/ /\ apc' = [apc EXCEPT ![t] = "done"]
           /\ ch' = [ch EXCEPT ![t] = "internal"]
           /\ at'[t] = "idle"
        \/ apc' = [apc EXCEPT ![t] = "dial"] /\ ch' = ch /\ at'[t] = "dial"
    BY DEF Fails
  <1>2. TypeOK'
    <2>1. PICK x \in {"dial", "done"} : apc' = [apc EXCEPT ![t] = x]
      BY <1>1
    <2>2. apc' \in [Attempts -> {"none", "start", "options", "get", "dial", "select", "seterr",
                                 "close", "release", "done"}]
      BY <2>1 DEF ClientInv, TypeOK
    <2>3. ch' \in [Attempts -> Outcomes \cup {"none"}]
      <3>1. ch \in [Attempts -> Outcomes \cup {"none"}] /\ "internal" \in Outcomes
        BY DEF ClientInv, TypeOK, Outcomes, Errors
      <3>2. ch' = ch \/ ch' = [ch EXCEPT ![t] = "internal"]
        BY <1>1
      <3> QED BY <3>1, <3>2
    <2> QED BY <2>2, <2>3 DEF ClientInv, TypeOK, PoolInv, lockVars, callVars, wireVars
  <1>3. /\ \/ apc'[t] = "done" /\ ch'[t] = "internal" /\ at'[t] = "idle"
           \/ apc'[t] = "dial" /\ ch'[t] = ch[t] /\ at'[t] = "dial"
        /\ gpc' = gpc /\ conn' = conn /\ gch' = gch /\ got' = got /\ ret' = ret
        /\ resp' = resp
    BY <1>1 DEF ClientInv, TypeOK
  <1>4. AttemptInv(t)
    BY DEF ClientInv
  <1>5. gpc[t] = "none" /\ conn[t] = Nil
    BY <1>4 DEF AttemptInv, Place, Holding
  <1>6. Place(t)' /\ Left(t)' /\ Wire(t)'
    BY <1>3, <1>4, <1>5 DEF AttemptInv, Place, Left, Wire, Holding
  <1>7. Answered(t)'
    BY <1>3, <1>4 DEF AttemptInv, Answered
  <1> QED BY <1>2, <1>6, <1>7 DEF AttemptInv

(* Get hands out an idle connection, fails, or goes on to dial.            *)
LEMMA AttemptGetInv ==
  ASSUME PoolInv, PoolInv', ClientInv, NEW t \in Attempts, AttemptGet(t)
  PROVE  ClientInv'
  <1> USE DEF Attempts
  <1>0. rpool \in Pools /\ TypeOK
    BY DEF ClientInv, TypeOK
  <1>1. /\ apc[t] = "get"
        /\ UNCHANGED <<lockVars, callVars, resp, ret, gch, got, serr, sclosed, wireVars>>
    BY DEF AttemptGet
  <1>2. PICK a \in Addrs :
          \/ GetPooled(t, rpool, a) /\ Begin(t)
          \/ GetCloseFails(t, rpool, a) /\ Fails(t, "internal") /\ UNCHANGED <<conn, gpc>>
          \/ GetEmpty(t, rpool, a) /\ apc' = [apc EXCEPT ![t] = "dial"]
               /\ UNCHANGED <<ch, conn, gpc>>
    BY DEF AttemptGet
  <1>3. /\ Closes
        /\ \A c \in Conns : Pooled(c)' => Pooled(c)
        /\ GetPooled(t, rpool, a) =>
             holds'[t] \in Conns /\ Pooled(holds'[t]) /\ status'[holds'[t]] = "open"
    BY <1>0, <1>2, GetTakes
  <1>4. \A v \in Attempts : v # t => Untouched(v)
    <2>1. /\ at' = at \/ at' = [at EXCEPT ![t] = "held"] \/ at' = [at EXCEPT ![t] = "dial"]
          /\ holds' = holds \/ \E c : holds' = [holds EXCEPT ![t] = c]
      BY <1>2 DEF GetPooled, GetCloseFails, GetEmpty
    <2>2. \A v \in Attempts : v # t => at'[v] = at[v] /\ holds'[v] = holds[v]
      BY <2>1 DEF PoolInv, PoolTypeOK
    <2>3. \A v \in Attempts : v # t => apc'[v] = apc[v] /\ conn'[v] = conn[v]
                                         /\ gpc'[v] = gpc[v] /\ ch'[v] = ch[v]
      BY <1>0, <1>2 DEF Begin, Fails, TypeOK
    <2> QED BY <1>1, <2>2, <2>3 DEF Untouched
  <1>5. TypeOK' /\ AttemptInv(t)'
    <2>1. CASE GetPooled(t, rpool, a) /\ Begin(t)
      <3>1. at'[t] = "held"
        BY <2>1 DEF GetPooled, PoolInv, PoolTypeOK
      <3>2. Silent(holds'[t])
        BY <1>3, <2>1 DEF ClientInv, Quiet
      <3> QED BY <1>1, <1>3, <2>1, <3>1, <3>2, BeginInv
    <2>2. CASE GetCloseFails(t, rpool, a) /\ Fails(t, "internal") /\ UNCHANGED <<conn, gpc>>
      <3>1. at'[t] = "idle"
        BY <2>2 DEF GetCloseFails
      <3> QED BY <1>1, <2>2, <3>1, NoConnInv
    <2>3. CASE GetEmpty(t, rpool, a) /\ apc' = [apc EXCEPT ![t] = "dial"]
                 /\ UNCHANGED <<ch, conn, gpc>>
      <3>1. at'[t] = "dial"
        BY <2>3 DEF GetEmpty, PoolInv, PoolTypeOK
      <3> QED BY <1>1, <2>3, <3>1, NoConnInv
    <2> QED BY <1>2, <2>1, <2>2, <2>3
  <1>6. \A c \in Conns : /\ status[c] # "none" => status'[c] # "none"
                         /\ status[c] = "closed" => status'[c] = "closed"
                         /\ Pooled(c)' => Pooled(c) \/ Silent(c)
    BY <1>3 DEF Closes
  <1> QED BY <1>1, <1>4, <1>5, <1>6, PoolStep

(* A connection just dialled is silent; a dial that fails leaves nothing.  *)
LEMMA AttemptDialInv ==
  ASSUME PoolInv, PoolInv', ClientInv, NEW t \in Attempts, AttemptDial(t)
  PROVE  ClientInv'
  <1> USE DEF Attempts
  <1>0. TypeOK
    BY DEF ClientInv
  <1>1. /\ apc[t] = "dial"
        /\ UNCHANGED <<lockVars, callVars, resp, ret, gch, got, serr, sclosed, wireVars>>
    BY DEF AttemptDial
  <1>2. \/ DialOk(t) /\ Begin(t)
        \/ DialFails(t) /\ Fails(t, "internal") /\ UNCHANGED <<conn, gpc>>
    BY DEF AttemptDial
  <1>3. \A v \in Attempts : v # t => Untouched(v)
    <2>1. /\ at' = [at EXCEPT ![t] = "held"] \/ at' = [at EXCEPT ![t] = "idle"]
          /\ holds' = holds \/ \E c : holds' = [holds EXCEPT ![t] = c]
      BY <1>2 DEF DialOk, DialFails
    <2>2. \A v \in Attempts : v # t => at'[v] = at[v] /\ holds'[v] = holds[v]
      BY <2>1 DEF PoolInv, PoolTypeOK
    <2>3. \A v \in Attempts : v # t => apc'[v] = apc[v] /\ conn'[v] = conn[v]
                                         /\ gpc'[v] = gpc[v] /\ ch'[v] = ch[v]
      BY <1>0, <1>2 DEF Begin, Fails, TypeOK
    <2> QED BY <1>1, <2>2, <2>3 DEF Untouched
  <1>4. CASE DialOk(t) /\ Begin(t)
    <2>1. /\ holds'[t] \in Conns
          /\ status[holds'[t]] = "none" /\ status'[holds'[t]] = "open"
          /\ \A c \in Conns : c # holds'[t] => status'[c] = status[c]
          /\ \A c \in Conns : Pooled(c)' <=> Pooled(c)
      BY <1>4, DialOpens
    <2>2. at'[t] = "held"
      BY <1>4 DEF DialOk, PoolInv, PoolTypeOK
    <2>3. Silent(holds'[t])
      BY <2>1 DEF ClientInv, Quiet
    <2>4. TypeOK' /\ AttemptInv(t)'
      BY <1>1, <1>4, <2>1, <2>2, <2>3, BeginInv
    <2>5. \A c \in Conns : /\ status[c] # "none" => status'[c] # "none"
                           /\ status[c] = "closed" => status'[c] = "closed"
                           /\ Pooled(c)' => Pooled(c) \/ Silent(c)
      BY <2>1
    <2> QED BY <1>1, <1>3, <2>4, <2>5, PoolStep
  <1>5. CASE DialFails(t) /\ Fails(t, "internal") /\ UNCHANGED <<conn, gpc>>
    <2>1. at'[t] = "idle" /\ status' = status /\ conns' = conns
      BY <1>5 DEF DialFails, PoolInv, PoolTypeOK
    <2>2. TypeOK' /\ AttemptInv(t)'
      BY <1>1, <1>5, <2>1, NoConnInv
    <2>3. \A c \in Conns : /\ status[c] # "none" => status'[c] # "none"
                           /\ status[c] = "closed" => status'[c] = "closed"
                           /\ Pooled(c)' => Pooled(c) \/ Silent(c)
      BY <2>1 DEF Pooled
    <2> QED BY <1>1, <1>3, <2>2, <2>3, PoolStep
  <1> QED BY <1>2, <1>4, <1>5

(* Giving the connection back: it is closed unless the stream had no       *)
(* error, in which case the goroutine has ended and nothing is on it.      *)
LEMMA StreamReleaseInv ==
  ASSUME PoolInv, PoolInv', ClientInv, NEW t \in Attempts, StreamRelease(t)
  PROVE  ClientInv'
  <1> USE DEF Attempts
  <1>0. TypeOK /\ rpool \in Pools /\ AttemptInv(t)
    BY DEF ClientInv, TypeOK
  <1>1. /\ apc[t] = "release"
        /\ apc' = [apc EXCEPT ![t] = "done"]
        /\ ch' = [ch EXCEPT ![t] = ret[t]]
        /\ ret' = [ret EXCEPT ![t] = "none"]
        /\ UNCHANGED <<lockVars, callVars, resp, conn, goVars, serr, sclosed, wireVars>>
    BY DEF StreamRelease, Fails
  <1>2. PICK failed \in BOOLEAN : /\ Release(t, rpool, failed)
                                  /\ serr[t] # "nil" => failed
    <2>1. PICK close \in BOOLEAN : Release(t, rpool, serr[t] # "nil" \/ close)
      BY DEF StreamRelease
    <2>2. PICK failed \in BOOLEAN : failed = (serr[t] # "nil" \/ close)
      OBVIOUS
    <2>3. Release(t, rpool, failed)
      BY <2>1, <2>2
    <2>4. serr[t] # "nil" => failed
      BY <2>2
    <2> QED BY <2>3, <2>4
  <1>3. /\ Closes
        /\ holds[t] \in Conns
        /\ failed => status'[holds[t]] = "closed"
        /\ \A c \in Conns : Pooled(c)' => Pooled(c) \/ (c = holds[t] /\ ~failed)
    BY <1>0, <1>2, ReleaseGives
  <1>4. /\ conn[t] = holds[t]
        /\ ~failed => gpc[t] = "done" /\ serr[t] = "nil" /\ Silent(holds[t])
    BY <1>0, <1>1, <1>2 DEF AttemptInv, Place, Left, Wire, Holding
  <1>5. TypeOK'
    BY <1>0, <1>1 DEF TypeOK, PoolInv, lockVars, callVars, goVars, wireVars
  <1>6. \A v \in Attempts : v # t => Untouched(v)
    <2>1. at' = [at EXCEPT ![t] = "idle"] /\ holds' = [holds EXCEPT ![t] = Nil]
      BY <1>2 DEF Release
    <2>2. \A v \in Attempts : v # t => at'[v] = at[v] /\ holds'[v] = holds[v]
      BY <2>1 DEF PoolInv, PoolTypeOK
    <2>3. \A v \in Attempts : v # t => apc'[v] = apc[v] /\ ch'[v] = ch[v] /\ ret'[v] = ret[v]
      BY <1>0, <1>1 DEF TypeOK
    <2> QED BY <1>1, <2>2, <2>3 DEF Untouched, goVars
  <1>7. AttemptInv(t)'
    <2>0. at'[t] = "idle"
      BY <1>2 DEF Release, PoolInv, PoolTypeOK
    <2>1. /\ apc'[t] = "done" /\ ch'[t] = ret[t] /\ ret'[t] = "none" /\ at'[t] = "idle"
          /\ gpc' = gpc /\ gch' = gch /\ got' = got /\ conn' = conn /\ resp' = resp
      BY <1>0, <1>1, <2>0 DEF TypeOK, goVars
    <2>2. Place(t)'
      BY <2>1, <1>0, <1>3 DEF AttemptInv, Place, Holding, Closes
    <2>3. Left(t)'
      BY <2>1, <1>3, <1>4 DEF Left
    <2>4. Wire(t)'
      BY <2>1 DEF Wire, Holding
    <2>5. Answered(t)'
      BY <2>1, <1>0 DEF AttemptInv, Answered
    <2> QED BY <2>2, <2>3, <2>4, <2>5 DEF AttemptInv
  <1>8. \A c \in Conns : /\ status[c] # "none" => status'[c] # "none"
                         /\ status[c] = "closed" => status'[c] = "closed"
                         /\ Pooled(c)' => Pooled(c) \/ Silent(c)
    BY <1>3, <1>4 DEF Closes
  <1> QED BY <1>1, <1>5, <1>6, <1>7, <1>8, PoolStep

-----------------------------------------------------------------------------
(* Call, the server and Init: no attempt moves but one that starts.        *)

(* The step starts at most the attempt t, whose turn it is.                *)
LEMMA CallerStep ==
  ASSUME PoolInv, ClientInv, NEW t \in Attempts,
         UNCHANGED <<poolVars, rpool, init, resp, ret, ch, conn, goVars, serr, wireVars>>,
         \A v \in Attempts : v # t => apc'[v] = apc[v],
         apc'[t] = apc[t] \/ (apc[t] = "none" /\ apc'[t] = "start"),
         TypeOK', OwnAnswer', \A k \in Callers : Turns(k)'
  PROVE  ClientInv'
  <1>0. /\ init' = init /\ rpool' = rpool /\ resp' = resp /\ ret' = ret /\ ch' = ch
        /\ conn' = conn /\ gpc' = gpc /\ gch' = gch /\ got' = got /\ serr' = serr
        /\ sent' = sent /\ inbox' = inbox
        /\ status' = status /\ conns' = conns /\ at' = at /\ holds' = holds
    BY DEF poolVars, goVars, wireVars
  <1>1. Grows
    BY <1>0 DEF Grows
  <1>2. \A c \in Conns : SameWire(c)
    BY <1>0 DEF SameWire
  <1>3. ASSUME NEW v \in Attempts PROVE AttemptInv(v)'
    <2>1. AttemptInv(v)
      BY DEF ClientInv
    <2>2. CASE apc'[v] = apc[v]
      <3>1. Untouched(v)
        BY <2>2, <1>0 DEF Untouched
      <3>2. apc[v] \in Holding => SameWire(conn[v])
        BY <1>2, HeldApart
      <3>3. v[1] \in Callers
        BY AttemptPair
      <3> QED BY <2>1, <3>1, <3>2, <3>3, <1>1, Frame
    <2>3. CASE apc[v] = "none" /\ apc'[v] = "start"
      <3>1. gpc[v] = "none" /\ conn[v] = Nil /\ gch[v] = "none" /\ at[v] \notin {"held", "dial"}
        BY <2>1, <2>3 DEF AttemptInv, Place, Holding
      <3>2. Place(v)' /\ Left(v)' /\ Wire(v)'
        BY <3>1, <2>3, <1>0 DEF Place, Left, Wire, Holding
      <3>3. Answered(v)'
        BY <2>1, <1>0 DEF AttemptInv, Answered
      <3> QED BY <3>2, <3>3 DEF AttemptInv
    <2> QED BY <2>2, <2>3
  <1>4. Quiet'
    BY <1>0 DEF ClientInv, Quiet, Pooled, Silent
  <1>5. InitRoom'
    BY <1>0 DEF ClientInv, InitRoom
  <1> QED BY <1>3, <1>4, <1>5 DEF ClientInv

(* Call returns: it changes nothing of its attempts.                       *)
LEMMA CallReturnInv ==
  ASSUME PoolInv, PoolInv', ClientInv, NEW k \in Callers,
         NEW res \in Outcomes \cup {"noselect"}, Return(k, res),
         res = "ok" => resp[k] # Nil,
         UNCHANGED <<poolVars, rpool, init, try, resp, apc, ret, ch, conn, goVars, serr,
                     sclosed, wireVars>>
  PROVE  ClientInv'
  <1>1. TypeOK'
    BY DEF ClientInv, TypeOK, PoolInv, Return, goVars, wireVars
  <1>2. /\ cpc'[k] = "done" /\ result'[k] = res
        /\ \A l \in Callers : l # k => cpc'[l] = cpc[l] /\ result'[l] = result[l]
    BY DEF ClientInv, TypeOK, Return
  <1>3. OwnAnswer'
    BY <1>2 DEF ClientInv, OwnAnswer
  <1>4. ASSUME NEW l \in Callers PROVE Turns(l)'
    <2>1. Turns(l)
      BY DEF ClientInv
    <2>2. cpc'[l] = "idle" => cpc[l] = "idle"
      BY <1>2
    <2> QED BY <2>1, <2>2 DEF Turns
  <1>5. <<k, 0>> \in Attempts
    BY RpcClientAssumption DEF Attempts
  <1> QED BY <1>1, <1>3, <1>4, <1>5, CallerStep

(* Call starts an attempt whose turn it is.                                *)
LEMMA CallSpawnInv ==
  ASSUME PoolInv, PoolInv', ClientInv, NEW k \in Callers, NEW i \in 0..Retries,
         Spawn(k, i), apc[<<k, i>>] = "none",
         try' = [try EXCEPT ![k] = i],
         cpc' = [cpc EXCEPT ![k] = "wait"],
         reading' \subseteq Callers,
         cpc[k] = "idle" \/ i > try[k],
         UNCHANGED <<poolVars, rpool, init, result, resp, ret, ch, conn, goVars, serr,
                     sclosed, wireVars>>
  PROVE  ClientInv'
  <1>0. <<k, i>> \in Attempts /\ Attempts = Callers \X (0..Retries) /\ Retries \in Nat
    BY RpcClientAssumption DEF Attempts
  <1>1. apc' = [apc EXCEPT ![<<k, i>>] = "start"]
    BY DEF Spawn
  <1>2. TypeOK'
    BY <1>0, <1>1 DEF ClientInv, TypeOK, PoolInv, goVars, wireVars
  <1>3. apc'[<<k, i>>] = "start" /\ \A v \in Attempts : v # <<k, i>> => apc'[v] = apc[v]
    BY <1>0, <1>1 DEF ClientInv, TypeOK
  <1>4. OwnAnswer'
    BY DEF ClientInv, OwnAnswer
  <1>5. ASSUME NEW l \in Callers PROVE Turns(l)'
    <2>1. Turns(l)
      BY DEF ClientInv
    <2>2. CASE l = k
      <3>1. cpc'[k] = "wait" /\ try'[k] = i
        BY DEF ClientInv, TypeOK
      <3>2. try[k] \in 0..Retries
        BY DEF ClientInv, TypeOK
      <3>3. ASSUME NEW j \in 0..Retries, j > i PROVE apc'[<<k, j>>] = "none"
        <4>1. <<k, j>> \in Attempts /\ <<k, j>> # <<k, i>>
          BY <3>3, <1>0
        <4>2. cpc[k] = "idle" \/ j > try[k]
          BY <3>2, <3>3, <1>0
        <4>3. apc[<<k, j>>] = "none"
          BY <2>1, <2>2, <4>2 DEF Turns
        <4> QED BY <1>3, <4>1, <4>3
      <3> QED BY <2>2, <3>1, <3>3 DEF Turns
    <2>3. CASE l # k
      <3>1. cpc'[l] = cpc[l] /\ try'[l] = try[l]
        BY <2>3 DEF ClientInv, TypeOK
      <3>2. \A j \in 0..Retries : <<l, j>> \in Attempts /\ <<l, j>> # <<k, i>>
        BY <1>0, <2>3
      <3>3. \A j \in 0..Retries : apc'[<<l, j>>] = apc[<<l, j>>]
        BY <3>2, <1>3
      <3> QED BY <2>1, <3>1, <3>3 DEF Turns
    <2> QED BY <2>2, <2>3
  <1> QED BY <1>0, <1>2, <1>3, <1>4, <1>5, CallerStep

(* Call starts, gives up at its deadline, or receives the outcome of the   *)
(* attempt under way.                                                      *)
LEMMA CallStepInv ==
  ASSUME PoolInv, PoolInv', ClientInv, NEW k \in Callers, CallStep(k)
  PROVE  ClientInv'
  <1>0. /\ TypeOK /\ Turns(k) /\ Retries \in Nat
        /\ try[k] \in 0..Retries
        /\ \A i \in 0..Retries : <<k, i>> \in Attempts
    BY RpcClientAssumption DEF ClientInv, TypeOK, Attempts
  <1>1. CASE CallStart(k)
    <2>0. /\ cpc[k] = "idle" /\ try[k] = 0 /\ 0 \in 0..Retries /\ apc[<<k, 0>>] = "none"
          /\ UNCHANGED <<poolVars, rpool, init, try, resp, ret, ch, conn, goVars, serr,
                         sclosed, wireVars>>
      BY <1>0, <1>1 DEF CallStart, Turns
    <2>1. CASE /\ cpc' = [cpc EXCEPT ![k] = "wait"]
               /\ reading' = reading \cup {k}
               /\ Spawn(k, 0)
               /\ UNCHANGED result
      <3>1. try' = [try EXCEPT ![k] = 0]
        BY <2>0, <1>0 DEF TypeOK
      <3>2. reading' \subseteq Callers
        BY <2>1, <1>0 DEF TypeOK
      <3> QED BY <2>0, <2>1, <3>1, <3>2, CallSpawnInv
    <2>2. CASE /\ \E res \in {"noselect", "timeout"} : Return(k, res)
               /\ UNCHANGED apc
      <3>1. PICK res \in {"noselect", "timeout"} : Return(k, res)
        BY <2>2
      <3>2. res \in Outcomes \cup {"noselect"} /\ res # "ok"
        BY DEF Outcomes, Errors
      <3> QED BY <2>0, <2>2, <3>1, <3>2, CallReturnInv
    <2> QED BY <1>1, <2>1, <2>2 DEF CallStart
  <1>2. CASE CallTimesOut(k)
    <2>1. "timeout" \in Outcomes \cup {"noselect"} /\ "timeout" # "ok"
      BY DEF Outcomes, Errors
    <2>2. /\ Return(k, "timeout")
          /\ UNCHANGED <<poolVars, rpool, init, try, resp, apc, ret, ch, conn, goVars, serr,
                         sclosed, wireVars>>
      BY <1>2 DEF CallTimesOut
    <2> QED BY <2>1, <2>2, CallReturnInv
  <1>3. CASE CallReceives(k)
    <2>0. PICK err : err = ch[<<k, try[k]>>]
      OBVIOUS
    <2>1. /\ cpc[k] = "wait" /\ err # "none"
          /\ UNCHANGED <<poolVars, rpool, init, resp, ret, ch, conn, goVars, serr,
                         sclosed, wireVars>>
          /\ \/ Return(k, err) /\ UNCHANGED <<try, apc>>
             \/ /\ try[k] < Retries
                /\ try' = [try EXCEPT ![k] = @ + 1]
                /\ Spawn(k, try[k] + 1)
                /\ UNCHANGED <<cpc, result, reading>>
      BY <1>3, <2>0 DEF CallReceives
    <2>2. err \in Outcomes
      BY <1>0, <2>0, <2>1 DEF TypeOK
    <2>3. err = "ok" => resp[k] # Nil
      <3>1. Answered(<<k, try[k]>>)
        BY <1>0 DEF ClientInv, AttemptInv
      <3>2. <<k, try[k]>>[1] = k
        OBVIOUS
      <3> QED BY <2>0, <3>1, <3>2 DEF Answered
    <2>4. CASE Return(k, err) /\ UNCHANGED <<try, apc>>
      BY <2>1, <2>2, <2>3, <2>4, CallReturnInv
    <2>5. CASE /\ try[k] < Retries
               /\ try' = [try EXCEPT ![k] = @ + 1]
               /\ Spawn(k, try[k] + 1)
               /\ UNCHANGED <<cpc, result, reading>>
      <3>1. PICK i \in 0..Retries : i = try[k] + 1
        BY <1>0, <2>5
      <3>2. try' = [try EXCEPT ![k] = i] /\ Spawn(k, i)
        BY <2>5, <3>1
      <3>3. i > try[k]
        BY <3>1, <1>0
      <3>4. apc[<<k, i>>] = "none"
        BY <3>3, <1>0 DEF Turns
      <3>5. cpc' = [cpc EXCEPT ![k] = "wait"] /\ reading' \subseteq Callers
        BY <2>1, <2>5, <1>0 DEF TypeOK
      <3> QED BY <2>1, <2>5, <3>2, <3>3, <3>4, <3>5, CallSpawnInv
    <2> QED BY <2>1, <2>4, <2>5
  <1> QED BY <1>1, <1>2, <1>3 DEF CallStep

(* The server answers the request of the attempt that holds c, or one on a *)
(* connection that was thrown away.                                        *)
LEMMA ServerAnswersInv ==
  ASSUME PoolInv, PoolInv', ClientInv, NEW c \in Conns, ServerAnswers(c)
  PROVE  ClientInv'
  <1>1. PICK kind \in Outcomes :
          inbox' = [inbox EXCEPT ![c] = Append(@, [to |-> Head(sent[c]), kind |-> kind])]
    BY DEF ServerAnswers
  <1>2. /\ sent[c] # <<>> /\ sent' = [sent EXCEPT ![c] = Tail(@)]
        /\ UNCHANGED <<poolVars, lockVars, callVars, resp, apc, ret, ch, conn, goVars, serr,
                       sclosed>>
    BY DEF ServerAnswers
  <1>3. sent \in [Conns -> Seq(Attempts)]
        /\ inbox \in [Conns -> Seq([to : Attempts, kind : Outcomes])]
    BY DEF ClientInv, TypeOK
  <1>4. Head(sent[c]) \in Attempts /\ Tail(sent[c]) \in Seq(Attempts)
    BY <1>2, <1>3
  <1>5. /\ sent' \in [Conns -> Seq(Attempts)]
        /\ inbox' \in [Conns -> Seq([to : Attempts, kind : Outcomes])]
    <2>1. PICK h \in Attempts : h = Head(sent[c])
      BY <1>4
    <2>2. [to |-> h, kind |-> kind] \in [to : Attempts, kind : Outcomes]
      OBVIOUS
    <2>3. PICK m \in [to : Attempts, kind : Outcomes] : m = [to |-> h, kind |-> kind]
      BY <2>2
    <2>4. inbox' = [inbox EXCEPT ![c] = Append(@, m)]
      BY <1>1, <2>1, <2>3
    <2>5. Append(inbox[c], m) \in Seq([to : Attempts, kind : Outcomes])
      <3>1. PICK S : S = [to : Attempts, kind : Outcomes]
        OBVIOUS
      <3>2. PICK q \in Seq(S) : q = inbox[c]
        BY <1>3, <3>1
      <3>3. m \in S
        BY <3>1
      <3>4. Append(q, m) \in Seq(S)
        BY <3>3
      <3> QED BY <3>1, <3>2, <3>4
    <2> QED BY <1>2, <1>3, <1>4, <2>4, <2>5
  <1>6. TypeOK'
    BY <1>2, <1>5 DEF ClientInv, TypeOK, PoolInv, lockVars, callVars, goVars
  <1>7. \A d \in Conns : d # c => SameWire(d)
    BY <1>1, <1>2, <1>3 DEF SameWire
  <1>8. /\ status' = status /\ conns' = conns /\ at' = at /\ holds' = holds
        /\ resp' = resp /\ result' = result /\ cpc' = cpc /\ try' = try
        /\ init' = init /\ rpool' = rpool /\ gpc' = gpc /\ gch' = gch /\ got' = got
        /\ apc' = apc /\ conn' = conn /\ serr' = serr /\ ret' = ret /\ ch' = ch
    BY <1>2 DEF poolVars, lockVars, callVars, goVars
  <1>9. ASSUME NEW v \in Attempts PROVE AttemptInv(v)'
    <2>0. AttemptInv(v) /\ Untouched(v) /\ Grows
      BY <1>8 DEF ClientInv, Untouched, Grows
    <2>1. CASE apc[v] \in Holding /\ conn[v] = c
      <3>1. Place(v)' /\ Left(v)' /\ Answered(v)'
        BY <2>0, <1>8 DEF AttemptInv, Place, Left, Answered
      <3>2. ~Silent(c)
        BY <1>2 DEF Silent
      <3>3. Pending(c, v) => Pending(c, v)'
        <4>1. SUFFICES ASSUME Pending(c, v) PROVE Pending(c, v)'
          OBVIOUS
        <4>2. sent[c] = <<v>> /\ inbox[c] = <<>>
          BY <4>1, <1>2 DEF Pending
        <4>3. sent'[c] = <<>>
          BY <4>2, <1>2, <1>3
        <4>4. inbox'[c] = <<[to |-> v, kind |-> kind]>>
          BY <4>2, <1>1, <1>3
        <4> QED BY <4>3, <4>4 DEF Pending
      <3>4. Wire(v)'
        BY <2>0, <2>1, <3>2, <3>3, <1>8 DEF AttemptInv, Wire
      <3> QED BY <3>1, <3>4 DEF AttemptInv
    <2>2. CASE ~(apc[v] \in Holding /\ conn[v] = c)
      <3>1. apc[v] \in Holding => SameWire(conn[v])
        BY <2>2, <1>7, HeldApart
      <3>2. v[1] \in Callers
        BY AttemptPair
      <3> QED BY <2>0, <3>1, <3>2, Frame
    <2> QED BY <2>1, <2>2
  <1>10. Quiet'
    <2> SUFFICES ASSUME NEW d \in Conns, status[d] = "none" \/ Pooled(d)
                 PROVE  Silent(d)'
      BY <1>8 DEF Quiet, Pooled
    <2>1. Silent(d)
      BY DEF ClientInv, Quiet
    <2>2. d # c
      BY <2>1, <1>2 DEF Silent
    <2> QED BY <2>1, <2>2, <1>7 DEF Silent, SameWire
  <1>11. OwnAnswer' /\ InitRoom' /\ \A k \in Callers : Turns(k)'
    BY <1>8 DEF ClientInv, OwnAnswer, InitRoom, Turns
  <1> QED BY <1>6, <1>9, <1>10, <1>11 DEF ClientInv

(* Init and the passing of time close connections at most.                 *)
LEMMA InitStepInv ==
  ASSUME PoolInv, PoolInv', ClientInv,
         \/ InitLock \/ InitClose \/ InitSwap
         \/ \E c \in Conns : ConnAges(c)
  PROVE  ClientInv'
  <1>0. TypeOK /\ InitRoom /\ rpool \in Pools /\ rpool \in 0..MaxInits /\ MaxInits \in Nat
    BY RpcClientAssumption DEF ClientInv, TypeOK
  <1>1. /\ UNCHANGED <<reading, callVars, resp, apc, ret, ch, conn, goVars, serr,
                       sclosed, wireVars>>
        /\ at' = at /\ holds' = holds
    BY DEF InitLock, InitClose, InitSwap, ConnAges, clientVars, lockVars, poolVars, Close, Age
  <1>2. Closes /\ \A c \in Conns : Pooled(c)' => Pooled(c)
    <2>1. CASE InitClose
      BY <2>1, <1>0, CloseEmpties DEF InitClose
    <2>2. CASE InitLock \/ InitSwap \/ \E c \in Conns : ConnAges(c)
      <3>1. status' = status /\ conns' = conns
        BY <2>2 DEF InitLock, InitSwap, ConnAges, Age, poolVars
      <3> QED BY <3>1 DEF Closes, Pooled
    <2> QED BY <2>1, <2>2
  <1>3. rpool' \in Pools /\ init' \in {"idle", "lock", "swap"} /\ InitRoom'
    <2>1. Pools = 0..MaxInits
      BY RpcClientAssumption
    <2> QED BY <2>1, <1>0 DEF InitLock, InitClose, InitSwap, ConnAges, clientVars, lockVars,
                              InitRoom, TypeOK
  <1>4. TypeOK'
    BY <1>0, <1>1, <1>3 DEF TypeOK, PoolInv, callVars, goVars, wireVars
  <1>5. Grows
    BY <1>1, <1>2 DEF Grows, Closes
  <1>6. ASSUME NEW v \in Attempts PROVE AttemptInv(v)'
    <2>1. AttemptInv(v) /\ Untouched(v)
      BY <1>1 DEF ClientInv, Untouched, goVars
    <2>2. SameWire(conn[v])
      BY <1>1 DEF SameWire, wireVars
    <2>3. v[1] \in Callers
      BY AttemptPair
    <2> QED BY <2>1, <2>2, <2>3, <1>5, Frame
  <1>7. Quiet'
    BY <1>1, <1>2 DEF ClientInv, Quiet, Silent, Closes, wireVars
  <1>8. OwnAnswer' /\ \A k \in Callers : Turns(k)'
    BY <1>1 DEF ClientInv, OwnAnswer, Turns, callVars
  <1> QED BY <1>3, <1>4, <1>6, <1>7, <1>8 DEF ClientInv

-----------------------------------------------------------------------------

(* Every step keeps both invariants: one case for each operation.          *)
LEMMA StepClientInv ==
  ASSUME PoolInv, ClientInv, [Next]_vars
  PROVE  PoolInv' /\ ClientInv'
  <1>1. PoolInv'
    <2>1. [PoolNext]_poolVars
      BY ClientPoolStep DEF ClientInv
    <2> QED BY <2>1, StepPoolInv
  <1>2. ASSUME NEW k \in Callers, CallStep(k) PROVE ClientInv'
    BY <1>1, <1>2, CallStepInv
  <1>3. ASSUME NEW t \in Attempts, AttemptStep(t) PROVE ClientInv'
    BY <1>1, <1>3, AttemptStartInv, AttemptGetInv, AttemptDialInv, AttemptReceivesInv,
       AttemptClosesInv, StreamReleaseInv DEF AttemptStep
  <1>4. ASSUME NEW t \in Attempts, GoStep(t) PROVE ClientInv'
    BY <1>1, <1>4, StreamEntersInv, StreamWriteInv, StreamReadInv, StreamBodyInv DEF GoStep
  <1>5. ASSUME NEW c \in Conns, ServerAnswers(c) PROVE ClientInv'
    BY <1>1, <1>5, ServerAnswersInv
  <1>6. ASSUME InitLock \/ InitClose \/ InitSwap \/ \E c \in Conns : ConnAges(c)
        PROVE  ClientInv'
    BY <1>1, <1>6, InitStepInv
  <1>7. ASSUME UNCHANGED vars PROVE ClientInv'
    <2>1. /\ status' = status /\ conns' = conns /\ at' = at /\ holds' = holds
          /\ resp' = resp /\ result' = result /\ cpc' = cpc /\ try' = try
          /\ init' = init /\ rpool' = rpool /\ gpc' = gpc /\ gch' = gch /\ got' = got
          /\ apc' = apc /\ conn' = conn /\ serr' = serr /\ ret' = ret /\ ch' = ch
          /\ sent' = sent /\ inbox' = inbox /\ reading' = reading /\ sclosed' = sclosed
      BY <1>7 DEF vars, poolVars, clientVars, lockVars, callVars, goVars, wireVars
    <2>2. TypeOK'
      BY <1>1, <2>1 DEF ClientInv, TypeOK, PoolInv
    <2>3. \A t \in Attempts : AttemptInv(t)'
      <3> SUFFICES ASSUME NEW t \in Attempts PROVE AttemptInv(t)'
        OBVIOUS
      <3>1. AttemptInv(t)
        BY DEF ClientInv
      <3>2. Place(t)' /\ Left(t)'
        BY <2>1, <3>1 DEF AttemptInv, Place, Left
      <3>3. Wire(t)'
        BY <2>1, <3>1 DEF AttemptInv, Wire, Silent, Pending
      <3>4. Answered(t)'
        BY <2>1, <3>1 DEF AttemptInv, Answered
      <3> QED BY <3>2, <3>3, <3>4 DEF AttemptInv
    <2>4. Quiet' /\ OwnAnswer' /\ InitRoom' /\ \A k \in Callers : Turns(k)'
      BY <2>1 DEF ClientInv, Quiet, Silent, Pooled, OwnAnswer, InitRoom, Turns
    <2> QED BY <2>2, <2>3, <2>4 DEF ClientInv
  <1> QED BY <1>1, <1>2, <1>3, <1>4, <1>5, <1>6, <1>7 DEF Next

(* The invariants of the pool and of the client hold in every state.       *)
THEOREM ClientInvariant == Spec => [](PoolInv /\ ClientInv)
  <1>1. Init => PoolInv /\ ClientInv
    BY InitPoolInv, InitClientInv DEF Init
  <1>2. (PoolInv /\ ClientInv) /\ [Next]_vars => (PoolInv /\ ClientInv)'
    BY StepClientInv
  <1> QED BY <1>1, <1>2, PTL DEF Spec

(* Type correctness of the client's state: Call's loop index stays within  *)
(* the retries, r.pool is one of the pools, and what is on a connection    *)
(* are requests and answers of attempts.                                   *)
THEOREM ClientTypeCorrect == Spec => []TypeOK
  <1>1. PoolInv /\ ClientInv => TypeOK
    BY DEF ClientInv
  <1> QED BY <1>1, ClientInvariant, PTL

(* rpcClient.Call: whatever timeouts, retries, failures and calls of Init  *)
(* interleave, an answer decoded into a caller's response is an answer to  *)
(* a request of that caller, and Call returns nil only with such an answer *)
(* in place.                                                               *)
THEOREM ClientOwnAnswer == Spec => []OwnAnswer
  <1>1. PoolInv /\ ClientInv => OwnAnswer
    BY DEF ClientInv
  <1> QED BY <1>1, ClientInvariant, PTL

(* rpcStream.Close with pool.Release: a connection that goes back to a     *)
(* pool has no request unanswered, no answer unread and no goroutine left  *)
(* on it, however its attempt ended.                                       *)
THEOREM ClientIdleIsQuiet == Spec => []IdleIsQuiet
  <1>1. ASSUME PoolInv, ClientInv PROVE IdleIsQuiet
    <2> SUFFICES ASSUME NEW c \in Conns, Pooled(c)
                 PROVE  /\ sent[c] = <<>> /\ inbox[c] = <<>>
                        /\ \A t \in Attempts : conn[t] = c => gpc[t] = "done"
      BY DEF IdleIsQuiet
    <2>1. Silent(c)
      BY <1>1 DEF ClientInv, Quiet
    <2>2. status[c] = "open"
      BY <1>1 DEF PoolInv, UsableOpen, Pooled
    <2>3. ASSUME NEW t \in Attempts, conn[t] = c PROVE gpc[t] = "done"
      <3>1. AttemptInv(t)
        BY <1>1 DEF ClientInv
      <3>2. apc[t] \notin Holding
        BY <1>1, <2>3, HeldApart
      <3>3. c # Nil
        BY ConnPoolAssumption
      <3> QED BY <3>1, <3>2, <3>3, <2>2, <2>3 DEF AttemptInv, Place, Left
    <2> QED BY <2>1, <2>3 DEF Silent
  <1> QED BY <1>1, ClientInvariant, PTL

-----------------------------------------------------------------------------
(* Connections that are lost.                                              *)

(* An attempt under way is the present one of a Call that waits or gave it *)
(* up at its deadline; its outcome is there when it is over.               *)
UnderWay(t) ==
  /\ ch[t] # "none" => apc[t] = "done"
  /\ apc[t] \notin {"none", "done"} =>
       /\ t[2] = try[t[1]]
       /\ cpc[t[1]] = "wait" \/ (cpc[t[1]] = "done" /\ result[t[1]] = "timeout")

(* Init has no Call beside it while it replaces the pool.                  *)
InitAlone ==
  /\ \A k \in Callers : cpc[k] = "wait" => k \in reading
  /\ init = "swap" => reading = {}

(* A connection that is idle elsewhere than in the client's pool, or in    *)
(* the pool that Init is about to replace, was given there by an attempt   *)
(* that outlived its Call.                                                 *)
Stray(c) == \E t \in Attempts : conn[t] = c /\ Outlived(t)
StrayOnly ==
  \A p \in Pools, c \in Conns : PooledIn(p, c) /\ (p # rpool \/ init = "swap") => Stray(c)

LostInv == InitAlone /\ StrayOnly /\ \A t \in Attempts : UnderWay(t)

(* A new client.                                                           *)
LEMMA InitLostInv == Init => LostInv
  <1> SUFFICES ASSUME Init PROVE LostInv
    OBVIOUS
  <1>1. InitAlone
    BY DEF Init, InitAlone
  <1>2. \A t \in Attempts : UnderWay(t)
    BY DEF Init, UnderWay
  <1>3. \A p \in Pools, c \in Conns : ~PooledIn(p, c)
    <2>1. \A p \in Pools, a \in Addrs : conns[p][a] = <<>>
      BY DEF Init, PoolInit
    <2>2. \A p \in Pools, a \in Addrs : Len(conns[p][a]) = 0
      BY <2>1
    <2> QED BY <2>2 DEF PooledIn
  <1> QED BY <1>1, <1>2, <1>3 DEF LostInv, StrayOnly

(* What is over stays over: a stray connection stays one.                  *)
LEMMA StrayKept ==
  ASSUME ClientInv, ClientInv', NEW c \in Conns, Stray(c),
         \A t \in Attempts : apc[t] = "done" => apc'[t] = "done" /\ conn'[t] = conn[t],
         \A k \in Callers : cpc[k] = "done" =>
            cpc'[k] = "done" /\ result'[k] = result[k] /\ try'[k] = try[k]
  PROVE  Stray(c)'
  <1>1. PICK t \in Attempts : conn[t] = c /\ Outlived(t)
    BY DEF Stray
  <1>2. t[1] \in Callers
    BY AttemptPair
  <1>3. conn'[t] = c /\ Outlived(t)'
    BY <1>1, <1>2 DEF Outlived
  <1> QED BY <1>3 DEF Stray

(* A step of an attempt or its goroutine that gives nothing to a pool.     *)
LEMMA AttemptLostInv ==
  ASSUME PoolInv, ClientInv, ClientInv', LostInv, NEW t \in Attempts, apc[t] # "none",
         UNCHANGED <<lockVars, callVars>>,
         \A q \in Pools, c \in Conns : PooledIn(q, c)' => PooledIn(q, c),
         \A v \in Attempts : v # t => apc'[v] = apc[v] /\ conn'[v] = conn[v] /\ ch'[v] = ch[v],
         apc[t] = "done" => apc'[t] = "done" /\ conn'[t] = conn[t],
         ch'[t] = ch[t] \/ apc'[t] = "done"
  PROVE  LostInv'
  <1>0. /\ rpool' = rpool /\ init' = init /\ reading' = reading
        /\ cpc' = cpc /\ try' = try /\ result' = result
    BY DEF lockVars, callVars
  <1>1. \A v \in Attempts : apc[v] = "done" => apc'[v] = "done" /\ conn'[v] = conn[v]
    OBVIOUS
  <1>2. InitAlone'
    BY <1>0 DEF LostInv, InitAlone
  <1>3. StrayOnly'
    <2> SUFFICES ASSUME NEW p \in Pools, NEW c \in Conns, PooledIn(p, c)',
                        p # rpool' \/ init' = "swap"
                 PROVE  Stray(c)'
      BY DEF StrayOnly
    <2>1. PooledIn(p, c)
      OBVIOUS
    <2>2. Stray(c)
      BY <1>0, <2>1 DEF LostInv, StrayOnly
    <2> QED BY <1>0, <1>1, <2>2, StrayKept
  <1>4. ASSUME NEW v \in Attempts PROVE UnderWay(v)'
    <2>1. UnderWay(v)
      BY DEF LostInv
    <2>2. CASE v # t
      BY <1>0, <2>1, <2>2 DEF UnderWay
    <2>3. CASE v = t
      BY <1>0, <2>1, <2>3 DEF UnderWay
    <2> QED BY <2>2, <2>3
  <1> QED BY <1>2, <1>3, <1>4 DEF LostInv

(* The steps of an attempt but its Release, and those of its goroutine.    *)
LEMMA WorkingLostInv ==
  ASSUME PoolInv, PoolInv', ClientInv, ClientInv', LostInv, NEW t \in Attempts,
         (AttemptStep(t) /\ ~StreamRelease(t)) \/ GoStep(t)
  PROVE  LostInv'
  <1>0. TypeOK /\ rpool \in Pools /\ AttemptInv(t)
    BY DEF ClientInv, TypeOK
  <1>1. UNCHANGED <<lockVars, callVars>>
    BY DEF AttemptStep, GoStep, AttemptStart, AttemptOptions, AttemptGet, AttemptDial,
           AttemptReceives, AttemptTimesOut, AttemptSetsError, StreamClose, StreamSend,
           StreamWrite, StreamRecv, StreamRead, StreamBody
  <1>2. CASE AttemptGet(t)
    <2>1. PICK a \in Addrs :
            \/ GetPooled(t, rpool, a) /\ Begin(t)
            \/ GetCloseFails(t, rpool, a) /\ Fails(t, "internal") /\ UNCHANGED <<conn, gpc>>
            \/ GetEmpty(t, rpool, a) /\ apc' = [apc EXCEPT ![t] = "dial"]
                 /\ UNCHANGED <<ch, conn, gpc>>
      BY <1>2 DEF AttemptGet
    <2>2. \A q \in Pools, c \in Conns : PooledIn(q, c)' => PooledIn(q, c)
      BY <1>0, <2>1, GetTakes DEF Attempts
    <2>3. apc[t] = "get"
      BY <1>2 DEF AttemptGet
    <2>4. /\ \A v \in Attempts : v # t => apc'[v] = apc[v] /\ conn'[v] = conn[v] /\ ch'[v] = ch[v]
          /\ ch'[t] = ch[t] \/ apc'[t] = "done"
      BY <1>0, <2>1 DEF Begin, Fails, TypeOK
    <2> QED BY <1>1, <2>2, <2>3, <2>4, AttemptLostInv
  <1>3. CASE AttemptDial(t)
    <2>1. \/ DialOk(t) /\ Begin(t)
          \/ DialFails(t) /\ Fails(t, "internal") /\ UNCHANGED <<conn, gpc>>
      BY <1>3 DEF AttemptDial
    <2>2. conns' = conns
      BY <2>1 DEF DialOk, DialFails
    <2>3. \A q \in Pools, c \in Conns : PooledIn(q, c)' => PooledIn(q, c)
      BY <2>2 DEF PooledIn
    <2>4. apc[t] = "dial"
      BY <1>3 DEF AttemptDial
    <2>5. /\ \A v \in Attempts : v # t => apc'[v] = apc[v] /\ conn'[v] = conn[v] /\ ch'[v] = ch[v]
          /\ ch'[t] = ch[t] \/ apc'[t] = "done"
      BY <1>0, <2>1 DEF Begin, Fails, TypeOK
    <2> QED BY <1>1, <2>3, <2>4, <2>5, AttemptLostInv
  <1>4. CASE \/ AttemptStart(t) \/ AttemptOptions(t) \/ AttemptReceives(t)
             \/ AttemptTimesOut(t) \/ AttemptSetsError(t) \/ StreamClose(t)
    <2>1. conns' = conns /\ conn' = conn
      BY <1>4 DEF AttemptStart, AttemptOptions, AttemptReceives, AttemptTimesOut,
                  AttemptSetsError, StreamClose, poolVars
    <2>2. \A q \in Pools, c \in Conns : PooledIn(q, c)' => PooledIn(q, c)
      BY <2>1 DEF PooledIn
    <2>3. /\ apc[t] \notin {"none", "done"}
          /\ \/ \E x : apc' = [apc EXCEPT ![t] = x] /\ ch' = ch
             \/ Fails(t, "internal")
      BY <1>4 DEF AttemptStart, AttemptOptions, AttemptReceives, AttemptTimesOut,
                  AttemptSetsError, StreamClose
    <2>4. /\ \A v \in Attempts : v # t => apc'[v] = apc[v] /\ ch'[v] = ch[v]
          /\ ch'[t] = ch[t] \/ apc'[t] = "done"
      BY <1>0, <2>3 DEF Fails, TypeOK
    <2> QED BY <1>1, <2>1, <2>2, <2>3, <2>4, AttemptLostInv
  <1>5. CASE GoStep(t)
    <2>1. conns' = conns /\ conn' = conn /\ apc' = apc /\ ch' = ch /\ gpc[t] # "none"
      BY <1>5 DEF GoStep, StreamSend, StreamWrite, StreamRecv, StreamRead, StreamBody, poolVars
    <2>2. \A q \in Pools, c \in Conns : PooledIn(q, c)' => PooledIn(q, c)
      BY <2>1 DEF PooledIn
    <2>3. apc[t] # "none"
      BY <1>0, <2>1 DEF AttemptInv, Place, Holding
    <2> QED BY <1>1, <2>1, <2>2, <2>3, AttemptLostInv
  <1> QED BY <1>2, <1>3, <1>4, <1>5 DEF AttemptStep

(* Release: while Init replaces the pool, only an attempt that outlived    *)
(* its Call is there to give a connection back.                            *)
LEMMA ReleaseLostInv ==
  ASSUME PoolInv, PoolInv', ClientInv, ClientInv', LostInv, NEW t \in Attempts,
         StreamRelease(t)
  PROVE  LostInv'
  <1>0. /\ TypeOK /\ rpool \in Pools /\ AttemptInv(t) /\ UnderWay(t) /\ InitAlone
        /\ t[1] \in Callers
    BY AttemptPair DEF ClientInv, TypeOK, LostInv
  <1>1. /\ apc[t] = "release"
        /\ apc' = [apc EXCEPT ![t] = "done"]
        /\ ch' = [ch EXCEPT ![t] = ret[t]]
        /\ conn' = conn
        /\ rpool' = rpool /\ init' = init /\ reading' = reading
        /\ cpc' = cpc /\ try' = try /\ result' = result
    BY DEF StreamRelease, Fails, lockVars, callVars
  <1>2. PICK failed \in BOOLEAN : Release(t, rpool, failed)
    <2>1. PICK close \in BOOLEAN : Release(t, rpool, serr[t] # "nil" \/ close)
      BY DEF StreamRelease
    <2>2. PICK failed \in BOOLEAN : failed = (serr[t] # "nil" \/ close)
      OBVIOUS
    <2> QED BY <2>1, <2>2
  <1>3. \A q \in Pools, c \in Conns :
          PooledIn(q, c)' => PooledIn(q, c) \/ (q = rpool /\ c = holds[t])
    BY <1>0, <1>2, ReleaseGives DEF Attempts
  <1>4. conn[t] = holds[t] /\ apc'[t] = "done"
    BY <1>0, <1>1 DEF AttemptInv, Place, Holding, TypeOK
  <1>5. \A v \in Attempts : v # t => apc'[v] = apc[v] /\ ch'[v] = ch[v]
    BY <1>0, <1>1 DEF TypeOK
  <1>6. init = "swap" => Outlived(t)'
    BY <1>0, <1>1, <1>4 DEF UnderWay, InitAlone, Outlived
  <1>7. \A v \in Attempts : apc[v] = "done" => apc'[v] = "done" /\ conn'[v] = conn[v]
    BY <1>1, <1>4, <1>5
  <1>8. StrayOnly'
    <2> SUFFICES ASSUME NEW p \in Pools, NEW c \in Conns, PooledIn(p, c)',
                        p # rpool' \/ init' = "swap"
                 PROVE  Stray(c)'
      BY DEF StrayOnly
    <2>1. CASE PooledIn(p, c)
      <3>1. Stray(c)
        BY <1>1, <2>1 DEF LostInv, StrayOnly
      <3> QED BY <1>1, <1>7, <3>1, StrayKept
    <2>2. CASE p = rpool /\ c = holds[t]
      <3>1. Outlived(t)' /\ conn'[t] = c
        BY <1>1, <1>4, <1>6, <2>2
      <3> QED BY <3>1 DEF Stray
    <2> QED BY <1>3, <2>1, <2>2
  <1>9. \A v \in Attempts : UnderWay(v)'
    <2> TAKE v \in Attempts
    <2>1. UnderWay(v)
      BY DEF LostInv
    <2> QED BY <1>1, <1>4, <1>5, <2>1 DEF UnderWay
  <1> QED BY <1>0, <1>1, <1>8, <1>9 DEF LostInv, InitAlone

(* Call: it starts only while no Init waits or runs, and gives up an       *)
(* attempt under way only at its deadline.                                 *)
LEMMA CallLostInv ==
  ASSUME PoolInv, ClientInv, ClientInv', LostInv, NEW k \in Callers, CallStep(k)
  PROVE  LostInv'
  <1>0. /\ TypeOK /\ Turns(k) /\ InitAlone /\ try[k] \in 0..Retries /\ Retries \in Nat
        /\ \A i \in 0..Retries : <<k, i>> \in Attempts
    BY RpcClientAssumption DEF ClientInv, TypeOK, LostInv, Attempts
  <1>1. /\ conns' = conns /\ rpool' = rpool /\ init' = init /\ conn' = conn /\ ch' = ch
        /\ cpc[k] # "done"
    BY DEF CallStep, CallStart, CallTimesOut, CallReceives, poolVars
  <1>2. PICK i, st, rs :
          /\ i \in 0..Retries
          /\ cpc' = [cpc EXCEPT ![k] = st] /\ result' = [result EXCEPT ![k] = rs]
          /\ \/ /\ st = "wait" /\ apc[<<k, i>>] = "none"
                /\ apc' = [apc EXCEPT ![<<k, i>>] = "start"]
                /\ try' = [try EXCEPT ![k] = i]
                /\ reading' = reading \cup {k}
                /\ \/ init = "idle" /\ cpc[k] = "idle"
                   \/ cpc[k] = "wait" /\ ch[<<k, try[k]>>] # "none" /\ i = try[k] + 1
             \/ /\ st = "done" /\ apc' = apc /\ try' = try /\ reading' = reading \ {k}
                /\ \/ cpc[k] = "idle" \/ rs = "timeout"
                   \/ ch[<<k, try[k]>>] # "none"
    <2>1. CASE CallStart(k)
      <3>1. /\ cpc[k] = "idle" /\ init = "idle" /\ try[k] = 0 /\ apc[<<k, 0>>] = "none"
            /\ try' = try /\ 0 \in 0..Retries
        BY <1>0, <2>1 DEF CallStart, CanRLock, Turns
      <3>2. CASE /\ cpc' = [cpc EXCEPT ![k] = "wait"]
                 /\ reading' = reading \cup {k}
                 /\ Spawn(k, 0)
                 /\ UNCHANGED result
        <4>1. try' = [try EXCEPT ![k] = 0] /\ result' = [result EXCEPT ![k] = result[k]]
          BY <1>0, <3>1, <3>2 DEF TypeOK
        <4> QED BY <3>1, <3>2, <4>1 DEF Spawn
      <3>3. CASE (\E res \in {"noselect", "timeout"} : Return(k, res)) /\ UNCHANGED apc
        BY <3>1, <3>3 DEF Return
      <3> QED BY <2>1, <3>2, <3>3 DEF CallStart
    <2>2. CASE CallTimesOut(k)
      BY <1>0, <2>2 DEF CallTimesOut, Return
    <2>3. CASE CallReceives(k)
      <3>1. cpc[k] = "wait" /\ ch[<<k, try[k]>>] # "none"
        BY <2>3 DEF CallReceives
      <3>2. CASE Return(k, ch[<<k, try[k]>>]) /\ UNCHANGED <<try, apc>>
        BY <1>0, <3>1, <3>2 DEF Return
      <3>3. CASE /\ try[k] < Retries
                 /\ try' = [try EXCEPT ![k] = @ + 1]
                 /\ Spawn(k, try[k] + 1)
                 /\ UNCHANGED <<cpc, result, reading>>
        <4>1. PICK i \in 0..Retries : i = try[k] + 1
          BY <1>0, <3>3
        <4>2. apc[<<k, i>>] = "none"
          BY <1>0, <4>1 DEF Turns
        <4>3. reading' = reading \cup {k}
          BY <1>0, <3>1, <3>3 DEF InitAlone
        <4>4. cpc' = [cpc EXCEPT ![k] = "wait"] /\ result' = [result EXCEPT ![k] = result[k]]
          BY <1>0, <3>1, <3>3 DEF TypeOK
        <4>5. apc' = [apc EXCEPT ![<<k, i>>] = "start"] /\ try' = [try EXCEPT ![k] = i]
          BY <3>3, <4>1 DEF Spawn
        <4> QED BY <3>1, <4>1, <4>2, <4>3, <4>4, <4>5
      <3> QED BY <2>3, <3>2, <3>3 DEF CallReceives
    <2> QED BY <2>1, <2>2, <2>3 DEF CallStep
  <1>3. /\ cpc'[k] = st /\ result'[k] = rs
        /\ \A l \in Callers : l # k =>
             cpc'[l] = cpc[l] /\ result'[l] = result[l] /\ try'[l] = try[l]
    BY <1>0, <1>2 DEF TypeOK
  <1>4. \A v \in Attempts : apc[v] = "done" => apc'[v] = "done" /\ conn'[v] = conn[v]
    BY <1>0, <1>1, <1>2 DEF TypeOK
  <1>5. StrayOnly'
    <2> SUFFICES ASSUME NEW p \in Pools, NEW c \in Conns, PooledIn(p, c)',
                        p # rpool' \/ init' = "swap"
                 PROVE  Stray(c)'
      BY DEF StrayOnly
    <2>1. PooledIn(p, c)
      BY <1>1 DEF PooledIn
    <2>2. Stray(c)
      BY <1>1, <2>1 DEF LostInv, StrayOnly
    <2>3. \A l \in Callers : cpc[l] = "done" =>
            cpc'[l] = "done" /\ result'[l] = result[l] /\ try'[l] = try[l]
      BY <1>1, <1>3
    <2> QED BY <1>4, <2>2, <2>3, StrayKept
  <1>6. InitAlone'
    <2>1. init = "swap" => reading' = {}
      BY <1>0, <1>2 DEF InitAlone
    <2>2. \A l \in Callers : cpc'[l] = "wait" => l \in reading'
      BY <1>0, <1>2, <1>3 DEF InitAlone
    <2> QED BY <1>1, <2>1, <2>2 DEF InitAlone
  <1>7. ASSUME NEW v \in Attempts PROVE UnderWay(v)'
    <2>0. v[1] \in Callers /\ v[2] \in 0..Retries /\ v = <<v[1], v[2]>> /\ UnderWay(v)
      BY AttemptPair DEF LostInv
    <2>1. CASE v[1] # k
      <3>1. apc'[v] = apc[v]
        BY <1>0, <1>2, <2>0, <2>1 DEF TypeOK
      <3> QED BY <1>1, <1>3, <2>0, <2>1, <3>1 DEF UnderWay
    <2>2. CASE v[1] = k /\ st = "wait"
      <3>1. /\ apc[<<k, i>>] = "none" /\ apc' = [apc EXCEPT ![<<k, i>>] = "start"]
            /\ try'[k] = i
        BY <1>0, <1>2, <2>2 DEF TypeOK
      <3>2. CASE v = <<k, i>>
        <4>1. apc'[v] = "start" /\ ch[v] = "none" /\ v[2] = i
          BY <1>0, <2>0, <3>1, <3>2 DEF UnderWay, TypeOK
        <4> QED BY <1>1, <1>3, <2>2, <3>1, <4>1 DEF UnderWay
      <3>3. CASE v # <<k, i>>
        <4>1. apc'[v] = apc[v]
          BY <1>0, <3>1, <3>3 DEF TypeOK
        <4>2. apc[v] \in {"none", "done"}
          <5>1. CASE cpc[k] = "idle"
            BY <1>0, <2>0, <2>2, <5>1 DEF Turns
          <5>2. CASE ch[<<k, try[k]>>] # "none"
            <6>1. UnderWay(<<k, try[k]>>)
              BY <1>0 DEF LostInv
            <6>2. apc[<<k, try[k]>>] = "done"
              BY <5>2, <6>1 DEF UnderWay
            <6>3. v[2] # try[k] => apc[v] \in {"none", "done"}
              BY <2>0, <2>2 DEF UnderWay
            <6> QED BY <2>0, <2>2, <6>2, <6>3
          <5> QED BY <1>2, <2>2, <5>1, <5>2
        <4> QED BY <1>1, <2>0, <4>1, <4>2 DEF UnderWay
      <3> QED BY <3>2, <3>3
    <2>3. CASE v[1] = k /\ st = "done"
      <3>1. apc' = apc /\ try' = try
        BY <1>2, <2>3
      <3>2. CASE rs = "timeout"
        BY <1>1, <1>3, <2>0, <2>3, <3>1, <3>2 DEF UnderWay
      <3>3. CASE cpc[k] = "idle"
        <4>1. apc[v] = "none"
          BY <1>0, <2>0, <2>3, <3>3 DEF Turns
        <4> QED BY <1>1, <2>0, <3>1, <4>1 DEF UnderWay
      <3>4. CASE ch[<<k, try[k]>>] # "none"
        <4>1. UnderWay(<<k, try[k]>>)
          BY <1>0 DEF LostInv
        <4>2. apc[<<k, try[k]>>] = "done"
          BY <3>4, <4>1 DEF UnderWay
        <4>3. apc[v] \in {"none", "done"}
          BY <2>0, <2>3, <4>2 DEF UnderWay
        <4> QED BY <1>1, <2>0, <3>1, <4>3 DEF UnderWay
      <3> QED BY <1>2, <2>3, <3>2, <3>3, <3>4
    <2> QED BY <1>2, <2>1, <2>2, <2>3
  <1> QED BY <1>5, <1>6, <1>7 DEF LostInv

(* The server and the passing of time change nothing of this; Init closes  *)
(* the pool when no Call is there, and replaces it then.                   *)
LEMMA InitLost ==
  ASSUME PoolInv, ClientInv, ClientInv', LostInv,
         \/ InitLock \/ InitClose \/ InitSwap
         \/ \E c \in Conns : ServerAnswers(c) \/ ConnAges(c)
         \/ UNCHANGED vars
  PROVE  LostInv'
  <1>0. /\ apc' = apc /\ ch' = ch /\ conn' = conn /\ cpc' = cpc /\ try' = try
        /\ result' = result /\ reading' = reading
        /\ rpool \in Pools
    BY DEF InitLock, InitClose, InitSwap, ServerAnswers, ConnAges, vars, clientVars, callVars,
           lockVars, ClientInv, TypeOK
  <1>1. \A t \in Attempts : UnderWay(t)'
    BY <1>0 DEF LostInv, UnderWay
  <1>2. \A c \in Conns : Stray(c) => Stray(c)'
    BY <1>0, StrayKept
  <1>3. CASE InitClose
    <2>1. \A q \in Pools, c \in Conns : PooledIn(q, c)' => q # rpool /\ PooledIn(q, c)
      BY <1>0, <1>3, CloseEmpties DEF InitClose
    <2>2. rpool' = rpool /\ reading = {}
      BY <1>3 DEF InitClose
    <2>3. InitAlone'
      BY <1>0, <2>2 DEF LostInv, InitAlone
    <2>4. StrayOnly'
      BY <1>2, <2>1, <2>2 DEF LostInv, StrayOnly
    <2> QED BY <1>1, <2>3, <2>4 DEF LostInv
  <1>4. CASE InitSwap
    <2>1. conns' = conns /\ init = "swap" /\ init' = "idle"
      BY <1>4 DEF InitSwap, poolVars
    <2>2. \A q \in Pools, c \in Conns : PooledIn(q, c)' => PooledIn(q, c)
      BY <2>1 DEF PooledIn
    <2>3. InitAlone'
      BY <1>0, <2>1 DEF LostInv, InitAlone
    <2>4. StrayOnly'
      BY <1>2, <2>1, <2>2 DEF LostInv, StrayOnly
    <2> QED BY <1>1, <2>3, <2>4 DEF LostInv
  <1>5. CASE InitLock \/ (\E c \in Conns : ServerAnswers(c) \/ ConnAges(c)) \/ UNCHANGED vars
    <2>1. conns' = conns /\ rpool' = rpool /\ (init' = init \/ init' = "lock")
      BY <1>5 DEF InitLock, ServerAnswers, ConnAges, Age, poolVars, vars, clientVars, lockVars
    <2>2. \A q \in Pools, c \in Conns : PooledIn(q, c)' => PooledIn(q, c)
      BY <2>1 DEF PooledIn
    <2>3. InitAlone'
      BY <1>0, <2>1 DEF LostInv, InitAlone
    <2>4. StrayOnly'
      BY <1>2, <2>1, <2>2 DEF LostInv, StrayOnly
    <2> QED BY <1>1, <2>3, <2>4 DEF LostInv
  <1> QED BY <1>3, <1>4, <1>5

(* Connections are lost in one way only: whatever times out, fails and is  *)
(* replaced, an open connection is in use, or idle in the client's pool,   *)
(* or was given back by an attempt that outlived its Call.                 *)
THEOREM ClientNoLostConn == Spec => []NoLostConn
  <1>1. Init => LostInv
    BY InitLostInv
  <1>2. ASSUME PoolInv, PoolInv', ClientInv, ClientInv', LostInv, [Next]_vars
        PROVE  LostInv'
    <2>1. ASSUME NEW t \in Attempts, AttemptStep(t) PROVE LostInv'
      BY <1>2, <2>1, WorkingLostInv, ReleaseLostInv
    <2>2. ASSUME NEW t \in Attempts, GoStep(t) PROVE LostInv'
      BY <1>2, <2>2, WorkingLostInv
    <2>3. ASSUME NEW k \in Callers, CallStep(k) PROVE LostInv'
      BY <1>2, <2>3, CallLostInv
    <2>4. ASSUME \/ InitLock \/ InitClose \/ InitSwap
                 \/ \E c \in Conns : ServerAnswers(c) \/ ConnAges(c)
                 \/ UNCHANGED vars
          PROVE  LostInv'
      BY <1>2, <2>4, InitLost
    <2> QED BY <1>2, <2>1, <2>2, <2>3, <2>4 DEF Next
  <1>3. ASSUME PoolInv, ClientInv, LostInv PROVE NoLostConn
    <2> SUFFICES ASSUME NEW c \in Conns, status[c] = "open"
                 PROVE  \/ \E u \in Users : holds[u] = c
                        \/ PooledIn(rpool, c)
                        \/ \E t \in Attempts : conn[t] = c /\ Outlived(t)
      BY DEF NoLostConn
    <2>1. CASE \E u \in Users : holds[u] = c
      BY <2>1
    <2>2. CASE Pooled(c)
      <3>1. PICK p \in Pools : PooledIn(p, c)
        BY <2>2 DEF Pooled, PooledIn
      <3> QED BY <1>3, <3>1 DEF LostInv, StrayOnly, Stray
    <2> QED BY <1>3, <2>1, <2>2 DEF PoolInv, OpenIsKept
  <1> QED BY <1>1, <1>2, <1>3, ClientInvariant, PTL DEF Spec

-----------------------------------------------------------------------------
(* The client is a correct user of its pools: every behaviour of RpcClient *)
(* is, seen through the variables of the pool, a behaviour of PoolSpec, so *)
(* the theorems of ConnPoolProofs hold under the client too, across every  *)
(* replacement of the pool by Init.                                        *)
THEOREM ClientImplementsPool == Spec => PoolSpec
  <1>1. Init => PoolInit
    BY DEF Init
  <1>2. TypeOK /\ [Next]_vars => [PoolNext]_poolVars
    BY ClientPoolStep
  <1> QED BY <1>1, <1>2, ClientTypeCorrect, PTL DEF Spec, PoolSpec
=============================================================================
