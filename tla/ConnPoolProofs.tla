--------------------------- MODULE ConnPoolProofs ---------------------------
(***************************************************************************)
(* Proofs about ConnPool, for any number of connections, addresses, pools  *)
(* and users and any pool size.                                            *)
(***************************************************************************)
EXTENDS ConnPool, TLAPS

(* What ties the users to the connections: a user inside Get knows its     *)
(* pool and address, a user holds a connection exactly while it is "held", *)
(* and a connection that was dialled has an address and a pool.            *)
Bookkeeping ==
  /\ \A u \in Users : at[u] = "dial" => want[u] \in [pool : Pools, addr : Addrs]
  /\ \A u \in Users : at[u] = "held" <=> holds[u] # Nil
  /\ \A c \in Conns : status[c] # "none" => dialed[c] \in Addrs /\ origin[c] \in Pools

(* The inductive invariant.                                                *)
PoolInv ==
  /\ PoolTypeOK
  /\ Bookkeeping
  /\ OneOwner
  /\ UsableOpen
  /\ OpenIsKept
  /\ SizeBound

(* Cutting a stack leaves a stack whose elements are the lower ones.       *)
LEMMA CutSeq ==
  ASSUME NEW s \in Seq(Conns), NEW n \in 0..Len(s)
  PROVE  /\ SubSeq(s, 1, n) \in Seq(Conns)
         /\ Len(SubSeq(s, 1, n)) = n
         /\ \A i \in 1..n : SubSeq(s, 1, n)[i] = s[i]
  OBVIOUS

(* Pushing keeps the lower elements and adds one.                          *)
LEMMA PushSeq ==
  ASSUME NEW s \in Seq(Conns), NEW c \in Conns
  PROVE  /\ Append(s, c) \in Seq(Conns)
         /\ Len(Append(s, c)) = Len(s) + 1
         /\ \A i \in 1..Len(s) : Append(s, c)[i] = s[i]
         /\ Append(s, c)[Len(s) + 1] = c
  OBVIOUS

(* The connections of a stack are connections.                             *)
LEMMA StackConns ==
  ASSUME PoolTypeOK, NEW p \in Pools, NEW a \in Addrs
  PROVE  /\ conns[p][a] \in Seq(Conns)
         /\ Len(conns[p][a]) \in Nat
         /\ \A i \in 1..Len(conns[p][a]) : conns[p][a][i] \in Conns
  BY DEF PoolTypeOK

(* Closing changes the status of the given connections and of no other.   *)
LEMMA ClosingType ==
  ASSUME PoolTypeOK, NEW cs
  PROVE  /\ Closing(cs) \in [Conns -> {"none", "open", "closed"}]
         /\ \A c \in Conns : c \in cs => Closing(cs)[c] = "closed"
         /\ \A c \in Conns : c \notin cs => Closing(cs)[c] = status[c]
  BY DEF PoolTypeOK, Closing

(* Membership in the upper part of a stack.                                *)
LEMMA FromMember ==
  ASSUME NEW s, NEW i, NEW c
  PROVE  c \in From(s, i) <=> \E j \in i..Len(s) : s[j] = c
  BY DEF From

(* Stacks that only got shorter have no connection at two places.          *)
LEMMA ShorterStacks ==
  ASSUME OneOwner,
         \A q \in Pools, b \in Addrs : \A j \in 1..Len(conns'[q][b]) :
           j \in 1..Len(conns[q][b]) /\ conns'[q][b][j] = conns[q][b][j]
  PROVE  \A q, r \in Pools, b, d \in Addrs :
           \A j \in 1..Len(conns'[q][b]), k \in 1..Len(conns'[r][d]) :
             conns'[q][b][j] = conns'[r][d][k] => q = r /\ b = d /\ j = k
  <1> SUFFICES ASSUME NEW q \in Pools, NEW r \in Pools, NEW b \in Addrs, NEW d \in Addrs,
                      NEW j \in 1..Len(conns'[q][b]), NEW k \in 1..Len(conns'[r][d]),
                      conns'[q][b][j] = conns'[r][d][k]
               PROVE  q = r /\ b = d /\ j = k
    OBVIOUS
  <1>1. /\ j \in 1..Len(conns[q][b]) /\ k \in 1..Len(conns[r][d])
        /\ conns[q][b][j] = conns[r][d][k]
    OBVIOUS
  <1> QED
    BY <1>1 DEF OneOwner

(* newPool's state satisfies the invariant.                                *)
LEMMA InitPoolInv == PoolInit => PoolInv
  <1> SUFFICES ASSUME PoolInit PROVE PoolInv
    OBVIOUS
  <1>1. PoolTypeOK
    BY DEF PoolInit, PoolTypeOK, NoWant
  <1>2. \A p \in Pools, a \in Addrs : conns[p][a] = <<>> /\ Len(conns[p][a]) = 0
    BY DEF PoolInit
  <1>3. Bookkeeping
    BY DEF PoolInit, Bookkeeping
  <1>4. OneOwner
    BY <1>2 DEF PoolInit, OneOwner, Pooled
  <1>5. UsableOpen
    BY <1>2 DEF PoolInit, UsableOpen
  <1>6. OpenIsKept
    BY DEF PoolInit, OpenIsKept
  <1>7. SizeBound
    BY <1>2, ConnPoolAssumption DEF SizeBound
  <1> QED
    BY <1>1, <1>3, <1>4, <1>5, <1>6, <1>7 DEF PoolInv

(* Get that pops an idle connection.                                       *)
LEMMA GetPooledInv ==
  ASSUME PoolInv, NEW u \in Users, NEW p \in Pools, NEW a \in Addrs,
         GetPooled(u, p, a)
  PROVE  PoolInv'
  <1> DEFINE s == conns[p][a]
  <1> USE DEF PoolInv
  <1>0. PICK i \in 1..Len(s) :
          /\ \A j \in (i+1)..Len(s) : old[s[j]]
          /\ status' = Closing(From(s, i + 1))
          /\ conns' = Cut(p, a, i - 1)
          /\ holds' = [holds EXCEPT ![u] = s[i]]
    BY DEF GetPooled
  <1>1. /\ s \in Seq(Conns) /\ Len(s) \in Nat /\ s[i] \in Conns
        /\ \A j \in 1..Len(s) : s[j] \in Conns
    BY StackConns
  <1>2. /\ at[u] = "idle" /\ at' = [at EXCEPT ![u] = "held"] /\ want' = want
        /\ dialed' = dialed /\ origin' = origin /\ old' = old
    BY DEF GetPooled, connVars
  <1>3. conns' = [conns EXCEPT ![p][a] = SubSeq(@, 1, i - 1)]
    BY <1>0 DEF Cut
  <1>4. /\ conns'[p][a] \in Seq(Conns)
        /\ Len(conns'[p][a]) = i - 1
        /\ \A j \in 1..(i-1) : conns'[p][a][j] = s[j]
    BY <1>1, <1>3, CutSeq DEF PoolTypeOK
  <1>5. \A q \in Pools, b \in Addrs : (q # p \/ b # a) => conns'[q][b] = conns[q][b]
    BY <1>3 DEF PoolTypeOK
  <1>6. PoolTypeOK'
    <2>1. conns' \in [Pools -> [Addrs -> Seq(Conns)]]
      BY <1>3, <1>4 DEF PoolTypeOK
    <2>2. status' \in [Conns -> {"none", "open", "closed"}]
      BY <1>0, ClosingType DEF PoolTypeOK
    <2>3. holds' \in [Users -> Conns \cup {Nil}]
      BY <1>0, <1>1 DEF PoolTypeOK
    <2>4. at' \in [Users -> {"idle", "dial", "held"}]
      BY <1>2 DEF PoolTypeOK
    <2> QED BY <2>1, <2>2, <2>3, <2>4, <1>2 DEF PoolTypeOK
  <1>7. \A c \in Conns : status'[c] = status[c]
                         \/ (status'[c] = "closed" /\ \E j \in (i+1)..Len(s) : s[j] = c)
    <2> SUFFICES ASSUME NEW c \in Conns
                 PROVE  status'[c] = status[c]
                        \/ (status'[c] = "closed" /\ \E j \in (i+1)..Len(s) : s[j] = c)
      OBVIOUS
    <2> DEFINE F == From(s, i + 1)
    <2>1. c \in F <=> \E j \in (i+1)..Len(s) : s[j] = c
      BY FromMember
    <2>2. (c \in F => status'[c] = "closed") /\ (c \notin F => status'[c] = status[c])
      BY <1>0, ClosingType
    <2> HIDE DEF F
    <2> QED BY <2>1, <2>2
  <1>8. \A q \in Pools, b \in Addrs : \A j \in 1..Len(conns'[q][b]) :
          /\ j \in 1..Len(conns[q][b])
          /\ conns'[q][b][j] = conns[q][b][j]
          /\ (q = p /\ b = a) => j < i
    BY <1>1, <1>4, <1>5
  <1>9. \A c \in Conns : status'[c] # "none" <=> status[c] # "none"
    BY <1>1, <1>7 DEF UsableOpen
  <1>10. Bookkeeping'
    BY <1>0, <1>1, <1>2, <1>9, ConnPoolAssumption DEF Bookkeeping, PoolTypeOK
  <1>11. \A v \in Users : holds[v] # s[i]
    BY <1>1 DEF OneOwner, Pooled
  <1>12. OneOwner'
    <2>1. \A v, w \in Users : holds'[v] = holds'[w] /\ holds'[v] # Nil => v = w
      BY <1>0, <1>11 DEF OneOwner, PoolTypeOK
    <2>2. \A q, r \in Pools, b, d \in Addrs :
            \A j \in 1..Len(conns'[q][b]), k \in 1..Len(conns'[r][d]) :
              conns'[q][b][j] = conns'[r][d][k] => q = r /\ b = d /\ j = k
      BY <1>8, ShorterStacks
    <2>3. \A v \in Users : (~Pooled(holds[v]))'
      <3> SUFFICES ASSUME NEW v \in Users, NEW q \in Pools, NEW b \in Addrs,
                          NEW j \in 1..Len(conns'[q][b]), conns'[q][b][j] = holds'[v]
                   PROVE  FALSE
        BY DEF Pooled
      <3>1. j \in 1..Len(conns[q][b]) /\ conns[q][b][j] = holds'[v] /\ (q = p /\ b = a => j < i)
        BY <1>8
      <3>2. CASE v = u
        BY <3>1, <3>2, <1>0, <1>1 DEF OneOwner, PoolTypeOK
      <3>3. CASE v # u
        BY <3>1, <3>3, <1>0 DEF OneOwner, Pooled, PoolTypeOK
      <3> QED BY <3>2, <3>3
    <2> QED BY <2>1, <2>2, <2>3 DEF OneOwner
  <1>13. UsableOpen'
    <2>1. \A q \in Pools, b \in Addrs : \A j \in 1..Len(conns'[q][b]) :
            status'[conns'[q][b][j]] = "open"
      <3> SUFFICES ASSUME NEW q \in Pools, NEW b \in Addrs, NEW j \in 1..Len(conns'[q][b])
                   PROVE  status'[conns'[q][b][j]] = "open"
        OBVIOUS
      <3>1. j \in 1..Len(conns[q][b]) /\ conns'[q][b][j] = conns[q][b][j] /\ (q = p /\ b = a => j < i)
        BY <1>8
      <3>2. conns[q][b][j] \in Conns /\ status[conns[q][b][j]] = "open"
        BY <3>1, StackConns DEF UsableOpen
      <3>3. \A k \in (i+1)..Len(s) : s[k] # conns[q][b][j]
        BY <3>1, <1>1 DEF OneOwner
      <3> QED BY <3>1, <3>2, <3>3, <1>7
    <2>2. \A v \in Users : at'[v] = "held" => holds'[v] \in Conns /\ status'[holds'[v]] = "open"
      <3> SUFFICES ASSUME NEW v \in Users, at'[v] = "held"
                   PROVE  holds'[v] \in Conns /\ status'[holds'[v]] = "open"
        OBVIOUS
      <3>1. CASE v = u
        <4>1. holds'[v] = s[i] /\ status[s[i]] = "open"
          BY <3>1, <1>0 DEF PoolTypeOK, UsableOpen
        <4>2. \A k \in (i+1)..Len(s) : s[k] # s[i]
          BY <1>1 DEF OneOwner
        <4> QED BY <4>1, <4>2, <1>1, <1>7
      <3>2. CASE v # u
        <4>1. holds'[v] = holds[v] /\ holds[v] \in Conns /\ status[holds[v]] = "open"
          BY <3>2, <1>0, <1>2 DEF PoolTypeOK, UsableOpen
        <4>2. \A k \in (i+1)..Len(s) : s[k] # holds[v]
          BY <1>1 DEF OneOwner, Pooled
        <4> QED BY <4>1, <4>2, <1>7
      <3> QED BY <3>1, <3>2
    <2> QED BY <2>1, <2>2 DEF UsableOpen
  <1>14. OpenIsKept'
    <2> SUFFICES ASSUME NEW c \in Conns, status'[c] = "open"
                 PROVE  Pooled(c)' \/ \E v \in Users : holds'[v] = c
      BY DEF OpenIsKept
    <2>1. status[c] = "open"
      BY <1>7
    <2>2. CASE \E v \in Users : holds[v] = c
      BY <2>2, <1>0, <1>2, <1>1, ConnPoolAssumption DEF Bookkeeping, PoolTypeOK
    <2>3. CASE Pooled(c)
      <3>1. PICK q \in Pools, b \in Addrs : \E k \in 1..Len(conns[q][b]) : conns[q][b][k] = c
        BY <2>3 DEF Pooled
      <3>2. PICK k \in 1..Len(conns[q][b]) : conns[q][b][k] = c
        BY <3>1
      <3>3. CASE q = p /\ b = a /\ k = i
        BY <3>2, <3>3, <1>0 DEF PoolTypeOK
      <3>4. CASE q = p /\ b = a /\ k > i
        <4>1. c \in From(s, i + 1)
          BY <3>2, <3>4, <1>1 DEF From
        <4> QED BY <4>1, <1>0 DEF Closing
      <3>5. CASE q = p /\ b = a /\ k < i
        BY <3>2, <3>5, <1>1, <1>4 DEF Pooled
      <3>6. CASE q # p \/ b # a
        BY <3>2, <3>6, <1>5 DEF Pooled
      <3> QED BY <3>3, <3>4, <3>5, <3>6, <1>1
    <2> QED BY <2>1, <2>2, <2>3 DEF OpenIsKept
  <1>15. SizeBound'
    BY <1>1, <1>4, <1>5, ConnPoolAssumption DEF SizeBound
  <1> QED
    BY <1>6, <1>10, <1>12, <1>13, <1>14, <1>15

(* Get that drops the aged upper part of a stack and takes nothing.        *)
LEMMA DropInv ==
  ASSUME PoolInv, NEW u \in Users, NEW p \in Pools, NEW a \in Addrs,
         NEW n \in 0..Len(conns[p][a]),
         status' = Closing(From(conns[p][a], n + 1)),
         conns' = Cut(p, a, n),
         UNCHANGED <<connVars, holds>>
  PROVE  /\ conns' \in [Pools -> [Addrs -> Seq(Conns)]]
         /\ status' \in [Conns -> {"none", "open", "closed"}]
         /\ \A c \in Conns : status'[c] # "none" <=> status[c] # "none"
         /\ OneOwner'
         /\ \A q \in Pools, b \in Addrs : \A j \in 1..Len(conns'[q][b]) :
              status'[conns'[q][b][j]] = "open"
         /\ \A v \in Users : at[v] = "held" =>
              holds'[v] \in Conns /\ status'[holds'[v]] = "open"
         /\ OpenIsKept'
         /\ SizeBound'
  <1> DEFINE s == conns[p][a]
  <1> USE DEF PoolInv
  <1>0. holds' = holds /\ dialed' = dialed /\ origin' = origin /\ old' = old
    BY DEF connVars
  <1>1. /\ s \in Seq(Conns) /\ Len(s) \in Nat
        /\ \A j \in 1..Len(s) : s[j] \in Conns
    BY StackConns
  <1>2. conns' = [conns EXCEPT ![p][a] = SubSeq(@, 1, n)]
    BY DEF Cut
  <1>3. /\ conns'[p][a] \in Seq(Conns)
        /\ Len(conns'[p][a]) = n
        /\ \A j \in 1..n : conns'[p][a][j] = s[j]
    BY <1>1, <1>2, CutSeq DEF PoolTypeOK
  <1>4. \A q \in Pools, b \in Addrs : (q # p \/ b # a) => conns'[q][b] = conns[q][b]
    BY <1>2 DEF PoolTypeOK
  <1>5. conns' \in [Pools -> [Addrs -> Seq(Conns)]]
    BY <1>2, <1>3 DEF PoolTypeOK
  <1>6. status' \in [Conns -> {"none", "open", "closed"}]
    BY ClosingType DEF PoolTypeOK
  <1>7. \A c \in Conns : \/ /\ status'[c] = status[c]
                             /\ \A j \in (n+1)..Len(s) : s[j] # c
                          \/ /\ status'[c] = "closed"
                             /\ \E j \in (n+1)..Len(s) : s[j] = c
    <2> SUFFICES ASSUME NEW c \in Conns
                 PROVE  \/ /\ status'[c] = status[c]
                           /\ \A j \in (n+1)..Len(s) : s[j] # c
                        \/ /\ status'[c] = "closed"
                           /\ \E j \in (n+1)..Len(s) : s[j] = c
      OBVIOUS
    <2> DEFINE F == From(s, n + 1)
    <2>1. c \in F <=> \E j \in (n+1)..Len(s) : s[j] = c
      BY FromMember
    <2>2. (c \in F => status'[c] = "closed") /\ (c \notin F => status'[c] = status[c])
      BY ClosingType
    <2> HIDE DEF F
    <2> QED BY <2>1, <2>2
  <1>8. \A q \in Pools, b \in Addrs : \A j \in 1..Len(conns'[q][b]) :
          /\ j \in 1..Len(conns[q][b])
          /\ conns'[q][b][j] = conns[q][b][j]
          /\ (q = p /\ b = a) => j <= n
    BY <1>1, <1>3, <1>4
  <1>9. \A c \in Conns : status'[c] # "none" <=> status[c] # "none"
    BY <1>1, <1>7 DEF UsableOpen
  <1>10. OneOwner'
    <2>1. \A v, w \in Users : holds'[v] = holds'[w] /\ holds'[v] # Nil => v = w
      BY <1>0 DEF OneOwner
    <2>2. \A q, r \in Pools, b, d \in Addrs :
            \A j \in 1..Len(conns'[q][b]), k \in 1..Len(conns'[r][d]) :
              conns'[q][b][j] = conns'[r][d][k] => q = r /\ b = d /\ j = k
      BY <1>8, ShorterStacks
    <2>3. \A v \in Users : (~Pooled(holds[v]))'
      BY <1>0, <1>8 DEF OneOwner, Pooled
    <2> QED BY <2>1, <2>2, <2>3 DEF OneOwner
  <1>11. \A q \in Pools, b \in Addrs : \A j \in 1..Len(conns'[q][b]) :
           status'[conns'[q][b][j]] = "open"
    <2> SUFFICES ASSUME NEW q \in Pools, NEW b \in Addrs, NEW j \in 1..Len(conns'[q][b])
                 PROVE  status'[conns'[q][b][j]] = "open"
      OBVIOUS
    <2>1. j \in 1..Len(conns[q][b]) /\ conns'[q][b][j] = conns[q][b][j] /\ (q = p /\ b = a => j <= n)
      BY <1>8
    <2>2. conns[q][b][j] \in Conns /\ status[conns[q][b][j]] = "open"
      BY <2>1, StackConns DEF UsableOpen
    <2>3. \A k \in (n+1)..Len(s) : s[k] # conns[q][b][j]
      BY <2>1, <1>1 DEF OneOwner
    <2> QED BY <2>1, <2>2, <2>3, <1>7
  <1>12. \A v \in Users : at[v] = "held" =>
           holds'[v] \in Conns /\ status'[holds'[v]] = "open"
    <2> SUFFICES ASSUME NEW v \in Users, at[v] = "held"
                 PROVE  holds[v] \in Conns /\ status'[holds[v]] = "open"
      BY <1>0
    <2>1. holds[v] \in Conns /\ status[holds[v]] = "open"
      BY DEF UsableOpen
    <2>2. \A k \in (n+1)..Len(s) : s[k] # holds[v]
      BY <1>1 DEF OneOwner, Pooled
    <2> QED BY <2>1, <2>2, <1>7
  <1>13. OpenIsKept'
    <2> SUFFICES ASSUME NEW c \in Conns, status'[c] = "open"
                 PROVE  Pooled(c)' \/ \E v \in Users : holds'[v] = c
      BY DEF OpenIsKept
    <2>1. status[c] = "open" /\ \A j \in (n+1)..Len(s) : s[j] # c
      BY <1>7
    <2>2. CASE \E v \in Users : holds[v] = c
      BY <2>2, <1>0
    <2>3. CASE Pooled(c)
      <3>1. PICK q \in Pools, b \in Addrs : \E k \in 1..Len(conns[q][b]) : conns[q][b][k] = c
        BY <2>3 DEF Pooled
      <3>2. PICK k \in 1..Len(conns[q][b]) : conns[q][b][k] = c
        BY <3>1
      <3>3. CASE q = p /\ b = a
        BY <3>2, <3>3, <2>1, <1>1, <1>3 DEF Pooled
      <3>4. CASE q # p \/ b # a
        BY <3>2, <3>4, <1>4 DEF Pooled
      <3> QED BY <3>3, <3>4
    <2> QED BY <2>1, <2>2, <2>3 DEF OpenIsKept
  <1>14. SizeBound'
    BY <1>1, <1>3, <1>4, ConnPoolAssumption DEF SizeBound
  <1> QED
    BY <1>5, <1>6, <1>9, <1>10, <1>11, <1>12, <1>13, <1>14

(* Get that fails on closing an aged connection.                           *)
LEMMA GetCloseFailsInv ==
  ASSUME PoolInv, NEW u \in Users, NEW p \in Pools, NEW a \in Addrs,
         GetCloseFails(u, p, a)
  PROVE  PoolInv'
  <1> USE DEF PoolInv
  <1>1. Len(conns[p][a]) \in Nat
    BY StackConns
  <1>2. PICK i \in 1..Len(conns[p][a]) :
          status' = Closing(From(conns[p][a], i)) /\ conns' = Cut(p, a, i - 1)
    BY DEF GetCloseFails
  <1>3. i - 1 \in 0..Len(conns[p][a]) /\ (i - 1) + 1 = i
    BY <1>1
  <1>4. UNCHANGED <<connVars, at, want, holds>>
    BY DEF GetCloseFails
  <1>5. /\ conns' \in [Pools -> [Addrs -> Seq(Conns)]]
        /\ status' \in [Conns -> {"none", "open", "closed"}]
        /\ \A c \in Conns : status'[c] # "none" <=> status[c] # "none"
        /\ OneOwner' /\ OpenIsKept' /\ SizeBound'
        /\ UsableOpen'
    BY <1>2, <1>3, <1>4, DropInv DEF UsableOpen
  <1>6. PoolTypeOK' /\ Bookkeeping'
    BY <1>4, <1>5 DEF PoolTypeOK, Bookkeeping, connVars
  <1> QED BY <1>5, <1>6

(* Get that empties a stack and goes on to dial.                           *)
LEMMA GetEmptyInv ==
  ASSUME PoolInv, NEW u \in Users, NEW p \in Pools, NEW a \in Addrs,
         GetEmpty(u, p, a)
  PROVE  PoolInv'
  <1> USE DEF PoolInv
  <1>1. Len(conns[p][a]) \in Nat
    BY StackConns
  <1>2. /\ at[u] = "idle" /\ at' = [at EXCEPT ![u] = "dial"]
        /\ want' = [want EXCEPT ![u] = [pool |-> p, addr |-> a]]
        /\ status' = Closing(From(conns[p][a], 0 + 1)) /\ conns' = Cut(p, a, 0)
        /\ UNCHANGED <<connVars, holds>>
    BY DEF GetEmpty
  <1>3. 0 \in 0..Len(conns[p][a])
    BY <1>1
  <1>4. /\ conns' \in [Pools -> [Addrs -> Seq(Conns)]]
        /\ status' \in [Conns -> {"none", "open", "closed"}]
        /\ \A c \in Conns : status'[c] # "none" <=> status[c] # "none"
        /\ OneOwner' /\ OpenIsKept' /\ SizeBound'
        /\ UsableOpen'
    BY <1>2, <1>3, DropInv DEF UsableOpen, PoolTypeOK
  <1>5. PoolTypeOK' /\ Bookkeeping'
    BY <1>2, <1>4 DEF PoolTypeOK, Bookkeeping, connVars
  <1> QED BY <1>4, <1>5

(* A dial that succeeds.                                                   *)
LEMMA DialOkInv ==
  ASSUME PoolInv, NEW u \in Users, DialOk(u)
  PROVE  PoolInv'
  <1> USE DEF PoolInv
  <1>0. PICK c \in Conns :
          /\ status[c] = "none"
          /\ status' = [status EXCEPT ![c] = "open"]
          /\ dialed' = [dialed EXCEPT ![c] = want[u].addr]
          /\ origin' = [origin EXCEPT ![c] = want[u].pool]
          /\ holds' = [holds EXCEPT ![u] = c]
    BY DEF DialOk
  <1>1. /\ at[u] = "dial" /\ at' = [at EXCEPT ![u] = "held"]
        /\ want' = [want EXCEPT ![u] = NoWant]
        /\ conns' = conns /\ old' = old
    BY DEF DialOk
  <1>2. want[u].addr \in Addrs /\ want[u].pool \in Pools
    BY <1>1 DEF Bookkeeping
  <1>3. PoolTypeOK'
    BY <1>0, <1>1, <1>2 DEF PoolTypeOK, NoWant
  <1>4. Bookkeeping'
    BY <1>0, <1>1, <1>2, ConnPoolAssumption DEF Bookkeeping, PoolTypeOK
  <1>5. ~Pooled(c) /\ \A v \in Users : holds[v] # c
    BY <1>0, ConnPoolAssumption DEF Pooled, UsableOpen, Bookkeeping
  <1>6. OneOwner'
    BY <1>0, <1>1, <1>5 DEF OneOwner, Pooled, PoolTypeOK
  <1>7. UsableOpen'
    BY <1>0, <1>1, <1>5, StackConns DEF UsableOpen, Pooled, PoolTypeOK
  <1>8. OpenIsKept'
    <2> SUFFICES ASSUME NEW d \in Conns, status'[d] = "open"
                 PROVE  Pooled(d)' \/ \E v \in Users : holds'[v] = d
      BY DEF OpenIsKept
    <2>1. CASE d = c
      BY <2>1, <1>0 DEF PoolTypeOK
    <2>2. CASE d # c /\ Pooled(d)
      BY <2>2, <1>1 DEF Pooled
    <2>3. CASE d # c /\ ~Pooled(d)
      <3>1. PICK v \in Users : holds[v] = d
        BY <2>3, <1>0 DEF OpenIsKept, PoolTypeOK
      <3>2. v # u
        BY <3>1, <1>1, ConnPoolAssumption DEF Bookkeeping
      <3> QED BY <3>1, <3>2, <1>0 DEF PoolTypeOK
    <2> QED BY <2>1, <2>2, <2>3
  <1>9. SizeBound'
    BY <1>1 DEF SizeBound
  <1> QED BY <1>3, <1>4, <1>6, <1>7, <1>8, <1>9

(* A dial that fails.                                                      *)
LEMMA DialFailsInv ==
  ASSUME PoolInv, NEW u \in Users, DialFails(u)
  PROVE  PoolInv'
  <1> USE DEF PoolInv, DialFails, connVars
  <1>1. PoolTypeOK'
    BY DEF PoolTypeOK, NoWant
  <1>2. Bookkeeping'
    BY DEF Bookkeeping, PoolTypeOK
  <1>3. OneOwner' /\ OpenIsKept' /\ SizeBound'
    BY DEF OneOwner, OpenIsKept, SizeBound, Pooled
  <1>4. UsableOpen'
    BY DEF UsableOpen, PoolTypeOK
  <1> QED BY <1>1, <1>2, <1>3, <1>4

(* Release, whether it closes the connection or puts it back.              *)
LEMMA ReleaseInv ==
  ASSUME PoolInv, NEW u \in Users, NEW p \in Pools, NEW failed \in BOOLEAN,
         Release(u, p, failed)
  PROVE  PoolInv'
  <1> DEFINE c == holds[u]
             r == Remote[dialed[c]]
  <1> USE DEF PoolInv
  <1>1. /\ at[u] = "held" /\ at' = [at EXCEPT ![u] = "idle"]
        /\ holds' = [holds EXCEPT ![u] = Nil] /\ want' = want
        /\ dialed' = dialed /\ origin' = origin /\ old' = old
    BY DEF Release, connVars
  <1>2. c \in Conns /\ status[c] = "open" /\ ~Pooled(c)
    BY <1>1 DEF UsableOpen, OneOwner
  <1>3. dialed[c] \in Addrs /\ r \in Addrs
    BY <1>2, ConnPoolAssumption DEF Bookkeeping
  <1>4. holds' \in [Users -> Conns \cup {Nil}] /\ at' \in [Users -> {"idle", "dial", "held"}]
    BY <1>1 DEF PoolTypeOK
  <1>5. \A v \in Users : v # u => holds'[v] = holds[v] /\ holds[v] # c
    BY <1>1, <1>2, ConnPoolAssumption DEF OneOwner, PoolTypeOK
  <1>6. holds'[u] = Nil
    BY <1>1 DEF PoolTypeOK
  <1>a. (failed \/ ~Room(p, r)) => status' = Closing({c}) /\ conns' = conns
    BY DEF Release
  <1>b. (~failed /\ Room(p, r)) =>
          conns' = [conns EXCEPT ![p][r] = Append(@, c)] /\ status' = status
    BY DEF Release
  <1>c. \A q \in Pools, b \in Addrs : \A j \in 1..Len(conns[q][b]) :
          conns[q][b][j] \in Conns /\ conns[q][b][j] # c
    BY <1>2, StackConns DEF Pooled
  <1>d. holds[u] = c
    OBVIOUS
  <1>e. \A q, t \in Pools, b, d \in Addrs :
          \A j \in 1..Len(conns[q][b]), k \in 1..Len(conns[t][d]) :
            conns[q][b][j] = conns[t][d][k] => q = t /\ b = d /\ j = k
    BY DEF OneOwner
  <1> HIDE DEF c, r
  <1>7. CASE failed \/ ~Room(p, r)
    <2>1. status' = Closing({c}) /\ conns' = conns
      BY <1>7, <1>a
    <2>2. /\ status' \in [Conns -> {"none", "open", "closed"}]
          /\ status'[c] = "closed"
          /\ \A d \in Conns : d # c => status'[d] = status[d]
      BY <2>1, <1>2, ClosingType
    <2>3. PoolTypeOK'
      BY <2>1, <2>2, <1>1, <1>4 DEF PoolTypeOK
    <2>4. Bookkeeping'
      BY <2>2, <1>1, <1>2 DEF Bookkeeping, PoolTypeOK
    <2>5. OneOwner'
      <3>1. ~Pooled(Nil)
        BY StackConns, ConnPoolAssumption DEF Pooled
      <3> QED BY <3>1, <2>1, <1>1, <1>5, <1>6 DEF OneOwner, Pooled
    <2>6. UsableOpen'
      <3>1. \A v \in Users : at'[v] = "held" => v # u /\ at[v] = "held"
        BY <1>1 DEF PoolTypeOK
      <3>2. \A v \in Users : at'[v] = "held" =>
              holds'[v] \in Conns /\ status'[holds'[v]] = "open"
        BY <3>1, <2>2, <1>5 DEF UsableOpen
      <3>3. \A q \in Pools, b \in Addrs : \A j \in 1..Len(conns[q][b]) :
              status'[conns[q][b][j]] = "open"
        BY <2>2, <1>c DEF UsableOpen
      <3> QED BY <3>2, <3>3, <2>1 DEF UsableOpen
    <2>7. OpenIsKept'
      <3> SUFFICES ASSUME NEW d \in Conns, status'[d] = "open"
                   PROVE  Pooled(d)' \/ \E v \in Users : holds'[v] = d
        BY DEF OpenIsKept
      <3>1. d # c /\ status[d] = "open"
        BY <2>2
      <3>2. CASE Pooled(d)
        BY <3>2, <2>1 DEF Pooled
      <3>3. CASE ~Pooled(d)
        BY <3>1, <3>3, <1>5, <1>d DEF OpenIsKept
      <3> QED BY <3>2, <3>3
    <2>8. SizeBound'
      BY <2>1 DEF SizeBound
    <2> QED BY <2>3, <2>4, <2>5, <2>6, <2>7, <2>8
  <1>8. CASE ~failed /\ Room(p, r)
    <2>1. conns' = [conns EXCEPT ![p][r] = Append(@, c)] /\ status' = status
      BY <1>8, <1>b
    <2>2. conns[p][r] \in Seq(Conns) /\ Len(conns[p][r]) \in Nat
      BY <1>3, StackConns
    <2>3. /\ conns'[p][r] \in Seq(Conns)
          /\ Len(conns'[p][r]) = Len(conns[p][r]) + 1
          /\ \A i \in 1..Len(conns[p][r]) : conns'[p][r][i] = conns[p][r][i]
          /\ conns'[p][r][Len(conns[p][r]) + 1] = c
      BY <2>1, <2>2, <1>2, <1>3, PushSeq DEF PoolTypeOK
    <2>4. \A q \in Pools, b \in Addrs : (q # p \/ b # r) => conns'[q][b] = conns[q][b]
      BY <2>1 DEF PoolTypeOK
    <2>5. PoolTypeOK'
      <3>1. conns' \in [Pools -> [Addrs -> Seq(Conns)]]
        BY <2>1, <2>3, <1>3 DEF PoolTypeOK
      <3> QED BY <3>1, <2>1, <1>1, <1>4 DEF PoolTypeOK
    <2>6. Bookkeeping'
      BY <2>1, <1>1 DEF Bookkeeping, PoolTypeOK
    <2>7. \A q \in Pools, b \in Addrs : \A j \in 1..Len(conns'[q][b]) :
            \/ j \in 1..Len(conns[q][b]) /\ conns'[q][b][j] = conns[q][b][j]
            \/ q = p /\ b = r /\ j = Len(conns[q][b]) + 1 /\ conns'[q][b][j] = c
      <3> SUFFICES ASSUME NEW q \in Pools, NEW b \in Addrs, NEW j \in 1..Len(conns'[q][b])
                   PROVE  \/ j \in 1..Len(conns[q][b]) /\ conns'[q][b][j] = conns[q][b][j]
                          \/ q = p /\ b = r /\ j = Len(conns[q][b]) + 1 /\ conns'[q][b][j] = c
        OBVIOUS
      <3>1. CASE q = p /\ b = r
        BY <3>1, <2>2, <2>3
      <3>2. CASE q # p \/ b # r
        BY <3>2, <2>4
      <3> QED BY <3>1, <3>2
    <2>8. OneOwner'
      <3>1. \A v, w \in Users : holds'[v] = holds'[w] /\ holds'[v] # Nil => v = w
        BY <1>5, <1>6 DEF OneOwner
      <3>2. \A q, t \in Pools, b, d \in Addrs :
              \A j \in 1..Len(conns'[q][b]), k \in 1..Len(conns'[t][d]) :
                conns'[q][b][j] = conns'[t][d][k] => q = t /\ b = d /\ j = k
        <4> SUFFICES ASSUME NEW q \in Pools, NEW t \in Pools, NEW b \in Addrs, NEW d \in Addrs,
                            NEW j \in 1..Len(conns'[q][b]), NEW k \in 1..Len(conns'[t][d]),
                            conns'[q][b][j] = conns'[t][d][k]
                     PROVE  q = t /\ b = d /\ j = k
          OBVIOUS
        <4>1. CASE conns'[q][b][j] = c
          <5>1. q = p /\ b = r /\ j = Len(conns[q][b]) + 1
            BY <4>1, <2>7, <1>c
          <5>a. conns'[t][d][k] = c
            BY <4>1
          <5>b. \/ k \in 1..Len(conns[t][d]) /\ conns'[t][d][k] = conns[t][d][k]
                \/ t = p /\ d = r /\ k = Len(conns[t][d]) + 1
            BY <2>7
          <5>2. t = p /\ d = r /\ k = Len(conns[t][d]) + 1
            BY <5>a, <5>b, <1>c
          <5> QED BY <5>1, <5>2
        <4>2. CASE conns'[q][b][j] # c
          <5>1. j \in 1..Len(conns[q][b]) /\ conns'[q][b][j] = conns[q][b][j]
            BY <4>2, <2>7
          <5>2. k \in 1..Len(conns[t][d]) /\ conns'[t][d][k] = conns[t][d][k]
            BY <4>2, <2>7
          <5>3. conns[q][b][j] = conns[t][d][k]
            BY <5>1, <5>2
          <5> QED BY <5>1, <5>2, <5>3, <1>e
        <4> QED BY <4>1, <4>2
      <3>3. \A v \in Users : (~Pooled(holds[v]))'
        <4> SUFFICES ASSUME NEW v \in Users, NEW q \in Pools, NEW b \in Addrs,
                            NEW j \in 1..Len(conns'[q][b]), conns'[q][b][j] = holds'[v]
                     PROVE  FALSE
          BY DEF Pooled
        <4>1. CASE v = u
          BY <4>1, <2>7, <1>2, <1>6, StackConns, ConnPoolAssumption
        <4>2. CASE v # u
          BY <4>2, <2>7, <1>5 DEF OneOwner, Pooled
        <4> QED BY <4>1, <4>2
      <3> QED BY <3>1, <3>2, <3>3 DEF OneOwner
    <2>9. UsableOpen'
      BY <2>1, <2>7, <1>1, <1>2, <1>5 DEF UsableOpen, PoolTypeOK
    <2>10. OpenIsKept'
      <3> SUFFICES ASSUME NEW d \in Conns, status[d] = "open"
                   PROVE  Pooled(d)' \/ \E v \in Users : holds'[v] = d
        BY <2>1 DEF OpenIsKept
      <3>1. CASE d = c
        BY <3>1, <2>2, <2>3, <1>3 DEF Pooled
      <3>2. CASE d # c /\ Pooled(d)
        <4>1. PICK q \in Pools, b \in Addrs : \E k \in 1..Len(conns[q][b]) : conns[q][b][k] = d
          BY <3>2 DEF Pooled
        <4>2. PICK k \in 1..Len(conns[q][b]) : conns[q][b][k] = d
          BY <4>1
        <4>3. k \in 1..Len(conns'[q][b]) /\ conns'[q][b][k] = d
          BY <4>2, <2>2, <2>3, <2>4
        <4> QED BY <4>3 DEF Pooled
      <3>3. CASE d # c /\ ~Pooled(d)
        BY <3>3, <1>5, <1>d DEF OpenIsKept
      <3> QED BY <3>1, <3>2, <3>3
    <2>11. SizeBound'
      BY <1>8, <2>2, <2>3, <2>4, <1>3, ConnPoolAssumption DEF SizeBound, Room
    <2> QED BY <2>5, <2>6, <2>8, <2>9, <2>10, <2>11
  <1> QED BY <1>7, <1>8

(* Close.                                                                  *)
LEMMA CloseInv ==
  ASSUME PoolInv, NEW p \in Pools, Close(p)
  PROVE  PoolInv'
  <1> USE DEF PoolInv
  <1>1. /\ status' = Closing(Idle(p))
        /\ conns' = [conns EXCEPT ![p] = [a \in Addrs |-> <<>>]]
        /\ UNCHANGED <<dialed, origin, old, at, want, holds>>
    BY DEF Close, connVars
  <1>2. \A q \in Pools, b \in Addrs :
          /\ q = p => conns'[q][b] = <<>> /\ Len(conns'[q][b]) = 0
          /\ q # p => conns'[q][b] = conns[q][b]
    BY <1>1 DEF PoolTypeOK
  <1>3. \A d \in Conns : d \in Idle(p) <=>
          \E a \in Addrs : \E i \in 1..Len(conns[p][a]) : conns[p][a][i] = d
    BY DEF Idle, From
  <1>4. /\ status' \in [Conns -> {"none", "open", "closed"}]
        /\ \A d \in Conns : d \in Idle(p) => status'[d] = "closed"
        /\ \A d \in Conns : d \notin Idle(p) => status'[d] = status[d]
    BY <1>1, ClosingType
  <1>5. PoolTypeOK'
    BY <1>1, <1>4 DEF PoolTypeOK
  <1>6. \A d \in Conns : d \in Idle(p) => status[d] = "open"
    BY <1>3 DEF UsableOpen
  <1>7. Bookkeeping'
    BY <1>1, <1>4, <1>6 DEF Bookkeeping
  <1>8. OneOwner'
    BY <1>1, <1>2 DEF OneOwner, Pooled
  <1>9. UsableOpen'
    <2>1. ASSUME NEW q \in Pools, NEW b \in Addrs, NEW j \in 1..Len(conns'[q][b])
          PROVE  status'[conns'[q][b][j]] = "open"
      <3>1. q # p /\ conns'[q][b] = conns[q][b]
        BY <1>2
      <3>2. conns[q][b][j] \in Conns /\ status[conns[q][b][j]] = "open"
        BY <3>1, StackConns DEF UsableOpen
      <3>3. conns[q][b][j] \notin Idle(p)
        BY <3>1, <3>2, <1>3 DEF OneOwner
      <3> QED BY <3>1, <3>2, <3>3, <1>4
    <2>2. ASSUME NEW v \in Users, at[v] = "held"
          PROVE  holds[v] \in Conns /\ status'[holds[v]] = "open"
      <3>1. holds[v] \in Conns /\ status[holds[v]] = "open"
        BY <2>2 DEF UsableOpen
      <3>2. holds[v] \notin Idle(p)
        BY <3>1, <1>3 DEF OneOwner, Pooled
      <3> QED BY <3>1, <3>2, <1>4
    <2> QED BY <2>1, <2>2, <1>1 DEF UsableOpen
  <1>10. OpenIsKept'
    <2> SUFFICES ASSUME NEW d \in Conns, status'[d] = "open"
                 PROVE  Pooled(d)' \/ \E v \in Users : holds'[v] = d
      BY DEF OpenIsKept
    <2>1. d \notin Idle(p) /\ status[d] = "open"
      BY <1>4
    <2>2. CASE Pooled(d)
      <3>1. PICK q \in Pools, b \in Addrs : \E k \in 1..Len(conns[q][b]) : conns[q][b][k] = d
        BY <2>2 DEF Pooled
      <3>2. q # p
        BY <3>1, <2>1, <1>3
      <3> QED BY <3>1, <3>2, <1>2 DEF Pooled
    <2>3. CASE ~Pooled(d)
      BY <2>1, <2>3, <1>1 DEF OpenIsKept
    <2> QED BY <2>2, <2>3
  <1>11. SizeBound'
    BY <1>2, ConnPoolAssumption DEF SizeBound
  <1> QED BY <1>5, <1>7, <1>8, <1>9, <1>10, <1>11

(* The invariant survives every step of the pool.                          *)
LEMMA StepPoolInv == PoolInv /\ [PoolNext]_poolVars => PoolInv'
  <1> SUFFICES ASSUME PoolInv, [PoolNext]_poolVars PROVE PoolInv'
    OBVIOUS
  <1>1. CASE \E u \in Users, p \in Pools, a \in Addrs : GetPooled(u, p, a)
    BY <1>1, GetPooledInv
  <1>2. CASE \E u \in Users, p \in Pools, a \in Addrs : GetCloseFails(u, p, a)
    BY <1>2, GetCloseFailsInv
  <1>3. CASE \E u \in Users, p \in Pools, a \in Addrs : GetEmpty(u, p, a)
    BY <1>3, GetEmptyInv
  <1>4. CASE \E u \in Users : DialOk(u)
    BY <1>4, DialOkInv
  <1>5. CASE \E u \in Users : DialFails(u)
    BY <1>5, DialFailsInv
  <1>6. CASE \E u \in Users, p \in Pools, failed \in BOOLEAN : Release(u, p, failed)
    BY <1>6, ReleaseInv
  <1>7. CASE \E p \in Pools : Close(p)
    BY <1>7, CloseInv
  <1>8. CASE \E c \in Conns : Age(c)
    <2>1. PICK c \in Conns : Age(c)
      BY <1>8
    <2>2. old' \in [Conns -> BOOLEAN] /\ UNCHANGED <<conns, status, dialed, origin, at, want, holds>>
      BY <2>1 DEF Age, PoolInv, PoolTypeOK
    <2> QED BY <2>2 DEF PoolInv, PoolTypeOK, Bookkeeping, OneOwner, UsableOpen,
                        OpenIsKept, SizeBound, Pooled
  <1>9. CASE UNCHANGED poolVars
    BY <1>9 DEF poolVars, PoolInv, PoolTypeOK, Bookkeeping, OneOwner, UsableOpen,
                OpenIsKept, SizeBound, Pooled
  <1> QED
    BY <1>1, <1>2, <1>3, <1>4, <1>5, <1>6, <1>7, <1>8, <1>9 DEF PoolNext

(* The invariant holds in every state the pools can reach.                 *)
THEOREM PoolInvariant == PoolSpec => []PoolInv
  <1>1. PoolInit => PoolInv
    BY InitPoolInv
  <1>2. PoolInv /\ [PoolNext]_poolVars => PoolInv'
    BY StepPoolInv
  <1> QED BY <1>1, <1>2, PTL DEF PoolSpec

(* Type correctness of the pool's state (conns, and what Get and Release   *)
(* assume of it).                                                          *)
THEOREM PoolTypeCorrect == PoolSpec => []PoolTypeOK
  BY PoolInvariant, PTL DEF PoolInv

(* Get never gives one connection to two users, nor leaves in a pool one   *)
(* that it handed out.                                                     *)
THEOREM PoolOneOwner == PoolSpec => []OneOwner
  BY PoolInvariant, PTL DEF PoolInv

(* Get hands out, and users keep, open connections only.                   *)
THEOREM PoolUsableOpen == PoolSpec => []UsableOpen
  BY PoolInvariant, PTL DEF PoolInv

(* No open connection escapes both the pools and the users.                *)
THEOREM PoolOpenIsKept == PoolSpec => []OpenIsKept
  BY PoolInvariant, PTL DEF PoolInv

(* Release never lets a stack grow above the configured size.              *)
THEOREM PoolSizeBound == PoolSpec => []SizeBound
  BY PoolInvariant, PTL DEF PoolInv
=============================================================================
