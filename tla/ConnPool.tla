------------------------------ MODULE ConnPool ------------------------------
(***************************************************************************)
(* The client's connection pool, util/pool/default.go.                     *)
(*                                                                         *)
(* A pool maps an address to a stack of idle connections.  Get pops the    *)
(* stack under the pool's mutex, closing the connections older than the    *)
(* TTL on the way, and dials outside the mutex when nothing is left;       *)
(* Release closes a failed connection, or pushes a healthy one under the   *)
(* address that its transport reports as Remote(); Close empties the pool. *)
(*                                                                         *)
(* Several pools exist because rpcClient.Init replaces the pool of a       *)
(* client while calls may still be using the former one.  Alone, users get *)
(* and release at will (PoolSpec, what the theorems are about); under      *)
(* RpcClient the users are the attempts of the calls.                      *)
(***************************************************************************)
EXTENDS Integers, Sequences

CONSTANTS Conns,    \* identities of connections; each is dialled at most once
          Addrs,    \* addresses given to Get and reported by Remote()
          Pools,    \* pool objects
          Users,    \* goroutines that use a pool
          Size,     \* pool.size
          Remote,   \* Remote[a]: what a connection dialled at a reports
          Nil       \* no connection, no address, no pool

ASSUME ConnPoolAssumption ==
          /\ Size \in Nat
          /\ Remote \in [Addrs -> Addrs]
          /\ Nil \notin Conns /\ Nil \notin Addrs /\ Nil \notin Pools

VARIABLES conns,    \* conns[p][a]: p.conns[a], the top of the stack is last
          status,   \* status[c]: "none" before the dial, "open" or "closed"
          dialed,   \* dialed[c]: the address c was dialled at
          origin,   \* origin[c]: the pool that dialled c
          old,      \* old[c]: c is older than the pool's TTL
          at,       \* at[u]: "idle", "dial" (inside Get), "held"
          want,     \* want[u]: pool and address of the Get in progress
          holds     \* holds[u]: the connection u got and has not released

poolVars == <<conns, status, dialed, origin, old, at, want, holds>>
connVars == <<dialed, origin, old>>

-----------------------------------------------------------------------------
(* No Get in progress.                                                     *)
NoWant == [pool |-> Nil, addr |-> Nil]

(* newPool: an empty map; no connection exists.                            *)
PoolInit ==
  /\ conns = [p \in Pools |-> [a \in Addrs |-> <<>>]]
  /\ status = [c \in Conns |-> "none"]
  /\ dialed = [c \in Conns |-> Nil]
  /\ origin = [c \in Conns |-> Nil]
  /\ old = [c \in Conns |-> FALSE]
  /\ at = [u \in Users |-> "idle"]
  /\ want = [u \in Users |-> NoWant]
  /\ holds = [u \in Users |-> Nil]

(* The state after cs were closed.                                         *)
Closing(cs) == [c \in Conns |-> IF c \in cs THEN "closed" ELSE status[c]]

(* The connections at positions i and above of the stack s.                *)
From(s, i) == {s[j] : j \in i..Len(s)}

(* p.conns[a] cut to its first n connections.                              *)
Cut(p, a, n) == [conns EXCEPT ![p][a] = SubSeq(@, 1, n)]

(* Mutant: the shortened stack is not stored back (p.conns[addr] = conns).  *)
GetPooledKeeps(u, p, a) ==
  /\ at[u] = "idle"
  /\ \E i \in 1..Len(conns[p][a]) :
       /\ ~old[conns[p][a][i]]
       /\ holds' = [holds EXCEPT ![u] = conns[p][a][i]]
  /\ at' = [at EXCEPT ![u] = "held"]
  /\ UNCHANGED <<conns, status, connVars, want>>

(* Get finds a connection that is young enough: the aged ones above it are *)
(* closed, it is popped and returned, all under the pool's mutex.          *)
GetPooled(u, p, a) ==
  /\ at[u] = "idle"
  /\ \E i \in 1..Len(conns[p][a]) :
       /\ ~old[conns[p][a][i]]
       /\ \A j \in (i+1)..Len(conns[p][a]) : old[conns[p][a][j]]
       /\ status' = Closing(From(conns[p][a], i + 1))
       /\ conns' = Cut(p, a, i - 1)
       /\ holds' = [holds EXCEPT ![u] = conns[p][a][i]]
  /\ at' = [at EXCEPT ![u] = "held"]
  /\ UNCHANGED <<connVars, want>>

(* Closing an aged connection fails: Get returns that error, and what is   *)
(* below it stays in the pool.                                             *)
GetCloseFails(u, p, a) ==
  /\ at[u] = "idle"
  /\ \E i \in 1..Len(conns[p][a]) :
       /\ \A j \in i..Len(conns[p][a]) : old[conns[p][a][j]]
       /\ status' = Closing(From(conns[p][a], i))
       /\ conns' = Cut(p, a, i - 1)
  /\ UNCHANGED <<connVars, at, want, holds>>

(* The stack is empty or held aged connections only: Get unlocks and goes  *)
(* on to dial.                                                             *)
GetEmpty(u, p, a) ==
  /\ at[u] = "idle"
  /\ \A j \in 1..Len(conns[p][a]) : old[conns[p][a][j]]
  /\ status' = Closing(From(conns[p][a], 1))
  /\ conns' = Cut(p, a, 0)
  /\ at' = [at EXCEPT ![u] = "dial"]
  /\ want' = [want EXCEPT ![u] = [pool |-> p, addr |-> a]]
  /\ UNCHANGED <<connVars, holds>>

(* Mutant: address and pool of the dial mixed up.                          *)
DialOkSwapped(u) ==
  /\ at[u] = "dial"
  /\ \E c \in Conns :
       /\ status[c] = "none"
       /\ status' = [status EXCEPT ![c] = "open"]
       /\ dialed' = [dialed EXCEPT ![c] = want[u].pool]
       /\ origin' = [origin EXCEPT ![c] = want[u].addr]
       /\ holds' = [holds EXCEPT ![u] = c]
  /\ at' = [at EXCEPT ![u] = "held"]
  /\ want' = [want EXCEPT ![u] = NoWant]
  /\ UNCHANGED <<conns, old>>

(* p.tr.Dial succeeds with a new connection, which Get returns.            *)
DialOk(u) ==
  /\ at[u] = "dial"
  /\ \E c \in Conns :
       /\ status[c] = "none"
       /\ status' = [status EXCEPT ![c] = "open"]
       /\ dialed' = [dialed EXCEPT ![c] = want[u].addr]
       /\ origin' = [origin EXCEPT ![c] = want[u].pool]
       /\ holds' = [holds EXCEPT ![u] = c]
  /\ at' = [at EXCEPT ![u] = "held"]
  /\ want' = [want EXCEPT ![u] = NoWant]
  /\ UNCHANGED <<conns, old>>

(* p.tr.Dial fails and so does Get.                                        *)
DialFails(u) ==
  /\ at[u] = "dial"
  /\ at' = [at EXCEPT ![u] = "idle"]
  /\ want' = [want EXCEPT ![u] = NoWant]
  /\ UNCHANGED <<conns, status, connVars, holds>>

(* Mutant: len(conns) > p.size instead of >=.                              *)
RoomOffByOne(p, a) == Len(conns[p][a]) <= Size

(* Release pushes back a connection that ended well while there is room.   *)
Room(p, a) == Len(conns[p][a]) < Size

(* Release(conn, err): close the connection if err is set or the stack is  *)
(* full, else push it under conn.Remote().                                 *)
Release(u, p, failed) ==
  /\ at[u] = "held"
  /\ LET c == holds[u]
         r == Remote[dialed[c]]
     IN IF failed \/ ~Room(p, r)
        THEN /\ status' = Closing({c})
             /\ UNCHANGED conns
        ELSE /\ conns' = [conns EXCEPT ![p][r] = Append(@, c)]
             /\ UNCHANGED status
  /\ at' = [at EXCEPT ![u] = "idle"]
  /\ holds' = [holds EXCEPT ![u] = Nil]
  /\ UNCHANGED <<connVars, want>>

(* The connections idle in pool p.                                         *)
Idle(p) == UNION {From(conns[p][a], 1) : a \in Addrs}

(* Mutant: the map entries are not deleted.                                *)
CloseKeeps(p) ==
  /\ status' = Closing(Idle(p))
  /\ UNCHANGED <<conns, connVars, at, want, holds>>

(* Close closes every idle connection and forgets them; a Get or Release   *)
(* that comes later works on the emptied pool.                             *)
Close(p) ==
  /\ status' = Closing(Idle(p))
  /\ conns' = [conns EXCEPT ![p] = [a \in Addrs |-> <<>>]]
  /\ UNCHANGED <<connVars, at, want, holds>>

(* Time passes until time.Since(c.Created()) > ttl.                        *)
Age(c) ==
  /\ status[c] = "open"
  /\ ~old[c]
  /\ old' = [old EXCEPT ![c] = TRUE]
  /\ UNCHANGED <<conns, status, dialed, origin, at, want, holds>>

PoolNext ==
  \/ \E u \in Users, p \in Pools, a \in Addrs :
       GetPooled(u, p, a) \/ GetCloseFails(u, p, a) \/ GetEmpty(u, p, a)
  \/ \E u \in Users : DialOk(u) \/ DialFails(u)
  \/ \E u \in Users, p \in Pools, failed \in BOOLEAN : Release(u, p, failed)
  \/ \E p \in Pools : Close(p)
  \/ \E c \in Conns : Age(c)

PoolSpec == PoolInit /\ [][PoolNext]_poolVars

-----------------------------------------------------------------------------
(* Type correctness of pool.conns, of the connections and of the users of  *)
(* Get and Release.                                                        *)
PoolTypeOK ==
  /\ conns \in [Pools -> [Addrs -> Seq(Conns)]]
  /\ status \in [Conns -> {"none", "open", "closed"}]
  /\ dialed \in [Conns -> Addrs \cup {Nil}]
  /\ origin \in [Conns -> Pools \cup {Nil}]
  /\ old \in [Conns -> BOOLEAN]
  /\ at \in [Users -> {"idle", "dial", "held"}]
  /\ want \in [Users -> [pool : Pools \cup {Nil}, addr : Addrs \cup {Nil}]]
  /\ holds \in [Users -> Conns \cup {Nil}]

(* c is idle in some pool, or in p.                                        *)
Pooled(c) == \E p \in Pools, a \in Addrs : \E i \in 1..Len(conns[p][a]) :
               conns[p][a][i] = c
PooledIn(p, c) == \E a \in Addrs : \E i \in 1..Len(conns[p][a]) : conns[p][a][i] = c

(* A connection has one owner: no two users hold it, it is at one place of *)
(* one pool, and it is never held and idle at once.  Two calls on one      *)
(* connection would read each other's answers.                             *)
OneOwner ==
  /\ \A u, v \in Users : holds[u] = holds[v] /\ holds[u] # Nil => u = v
  /\ \A p, q \in Pools, a, b \in Addrs :
       \A i \in 1..Len(conns[p][a]), j \in 1..Len(conns[q][b]) :
         conns[p][a][i] = conns[q][b][j] => p = q /\ a = b /\ i = j
  /\ \A u \in Users : ~Pooled(holds[u])

(* What Get can return is open, and so is what a user is still holding:    *)
(* neither ageing, nor Close, nor another user's Release closes it.        *)
UsableOpen ==
  /\ \A p \in Pools, a \in Addrs : \A i \in 1..Len(conns[p][a]) :
       status[conns[p][a][i]] = "open"
  /\ \A u \in Users : at[u] = "held" =>
       holds[u] \in Conns /\ status[holds[u]] = "open"

(* An open connection is idle in a pool or held by a user.                 *)
OpenIsKept ==
  \A c \in Conns : status[c] = "open" => Pooled(c) \/ \E u \in Users : holds[u] = c

(* The bound of the repository's TestClientPool, per pool and address.     *)
SizeBound == \A p \in Pools, a \in Addrs : Len(conns[p][a]) <= Size
=============================================================================
