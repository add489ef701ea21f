-------------------------- MODULE RpcServerProofs --------------------------
(***************************************************************************)
(* Proofs about the life cycle of the rpc server.                          *)
(*                                                                         *)
(* Types, and that the transport and the broker go only after the requests *)
(* that were under way at the exit signal, are proved for any users,       *)
(* starts, connections and subscribers. The other invariants are about the *)
(* registry, and are proved for one user of Start and Stop with any number *)
(* of starts: the theorems say so with Users = {v}. That is how            *)
(* service.Run uses the server, whose Start and Stop are called from one   *)
(* goroutine. It is needed, since Start reads "started" under the lock,    *)
(* gives the lock back and sets it at its end: two calls at once both      *)
(* register and both begin a registrar. Init and Subscribe are other steps *)
(* of that user; the registrars, the accept loops, the connections and the *)
(* expiry of a registration interleave with it without a limit.            *)
(*                                                                         *)
(* With one user the argument is that the user and the registrars take     *)
(* turns: at most one registrar is active, there is one exactly while the  *)
(* user is neither in Start nor stopped, and it has a Stop's channel       *)
(* exactly while the user awaits its answer. So what Register and          *)
(* Deregister read before they ask the registry is still so when they come *)
(* back, and the flags, the registry and the subscriptions agree.          *)
(***************************************************************************)
EXTENDS RpcServer, FiniteSetTheorems, TLAPS

(* Where a user of Start and Stop can be,                                  *)
UserPCs == {"idle", "swap", "connect", "check", "register", "cached", "fresh", "attempt",
            "commit", "spawn", "set", "send", "await", "lost", "answered"}

(* a registrar inside its loop,                                            *)
LoopPCs == {"select", "register", "cached", "fresh", "attempt", "commit", "dereg", "forget"}

(* and a registrar.                                                        *)
RegistrarPCs == LoopPCs \cup {"idle", "wait", "close", "disconnect", "restore", "off"}

(* Start before its goroutines exist.                                      *)
Opening == {"swap", "connect", "check", "register", "cached", "fresh", "attempt", "commit",
            "spawn"}

(* A shutdown after the requests have drained.                             *)
Closing == {"close", "disconnect", "restore"}

(* What a thread keeps.                                                    *)
ThreadRecords ==
  [pc : PCs, addr : Addrs \cup {Nil}, reg : Addrs \cup {Nil}, port : Ports \cup {Nil},
   was : BOOLEAN, tries : 0..Attempts, ch : Users \cup {Nil}]

(* The rest of the types.                                                  *)
StateTypes ==
  /\ started \in BOOLEAN /\ registered \in BOOLEAN /\ broker \in BOOLEAN
  /\ address \in Addrs /\ advertise \in Addrs \cup {Nil} /\ rsvc \in Addrs \cup {Nil}
  /\ registry \in Addrs \cup {Nil}
  /\ subs \subseteq known /\ known \subseteq Subs
  /\ live \in [Subs -> Nat] /\ stray \in [Subs -> Nat]
  /\ open \subseteq Ports
  /\ listen \in [Starts -> {"off", "accepting", "done"}]
  /\ conn \in [Conns -> {"new", "serving", "closing", "done"}]
  /\ running \subseteq Conns /\ draining \in [Starts -> SUBSET running]

(* Where the threads are, and what they know there.                        *)
Places(t) ==
  /\ t \in Users => th[t].pc \in UserPCs
  /\ t \in Starts => th[t].pc \in RegistrarPCs
  /\ t \in Users /\ th[t].pc \in Opening => th[t].addr # Nil /\ th[t].port # Nil
  /\ t \in Starts /\ th[t].pc \notin {"idle", "off"} => th[t].addr # Nil
  /\ t \in Starts /\ th[t].pc \in Closing \cup {"wait"} => th[t].ch # Nil

(* There is a live subscription of the broker for each one that the server *)
(* remembers, so that unsubscribing finds one.                             *)
Owed == \A b \in subs : live[b] > 0

(* The inductive invariant, for any users.                                 *)
ServerInv ==
  /\ StateTypes /\ th \in [Threads -> ThreadRecords]
  /\ Owed /\ DrainedBeforeClose
  /\ \A t \in Threads : Places(t)

(* It says more than the types.                                            *)
LEMMA ServerInvTypes == ServerInv => TypeOK
  BY DEF ServerInv, StateTypes, TypeOK, ThreadRecords

(* Nobody has called Start.                                                *)
LEMMA ServerInitially == Init => ServerInv
<1> SUFFICES ASSUME Init PROVE ServerInv
  OBVIOUS
<1>1. Local \in ThreadRecords
  BY DEF Local, ThreadRecords, PCs, Attempts
<1>2. th \in [Threads -> ThreadRecords] /\ \A t \in Threads : th[t].pc = "idle"
  BY <1>1 DEF Init, Local
<1>3. StateTypes
  BY DEF Init, StateTypes, Addrs
<1>4. \A t \in Threads : Places(t)
  BY <1>2 DEF Places, UserPCs, RegistrarPCs, Opening, Closing
<1>5. DrainedBeforeClose
  BY DEF Init, DrainedBeforeClose
<1>6. Owed
  BY DEF Init, Owed
<1> QED
  BY <1>2, <1>3, <1>4, <1>5, <1>6 DEF ServerInv

(* Two kinds of threads.                                                   *)
LEMMA Kinds ==
  /\ \A t \in Threads : t \in Users \/ t \in Starts
  /\ \A u \in Users : u \in Threads /\ u \notin Starts
  /\ \A i \in Starts : i \in Threads /\ i \notin Users
  /\ Nil \notin Users /\ Nil \notin Addrs /\ Nil \notin Ports
  BY RpcServerAssumption DEF Threads, Addrs

(* A thread goes to its next place.                                        *)
LEMMA GotoStep ==
  ASSUME th \in [Threads -> ThreadRecords], NEW t \in Threads, NEW pc \in PCs, Goto(t, pc)
  PROVE  /\ th' \in [Threads -> ThreadRecords]
         /\ \A s \in Threads \ {t} : th'[s] = th[s]
         /\ th'[t] = [th[t] EXCEPT !.pc = pc]
         /\ th'[t].pc = pc /\ th'[t].addr = th[t].addr /\ th'[t].port = th[t].port
         /\ th'[t].ch = th[t].ch /\ th'[t].was = th[t].was /\ th'[t].reg = th[t].reg
  BY DEF Goto, ThreadRecords

(* The record of a thread that returned from Register.                     *)
LEMMA FinishedRecord ==
  ASSUME NEW x \in ThreadRecords, NEW p \in PCs
  PROVE  LET f == [x EXCEPT !.pc = p, !.reg = Nil, !.was = FALSE, !.tries = 0]
         IN  /\ f \in ThreadRecords /\ f.pc = p /\ f.addr = x.addr
             /\ f.port = x.port /\ f.ch = x.ch
<1>1. 0 \in 0 .. Attempts /\ FALSE \in BOOLEAN
  BY DEF Attempts
<1> QED
  BY <1>1 DEF ThreadRecords

(* A thread returns from Register.                                         *)
LEMMA FinishedStep ==
  ASSUME th \in [Threads -> ThreadRecords], NEW t \in Threads, th' = Finished(t)
  PROVE  /\ th' \in [Threads -> ThreadRecords]
         /\ \A s \in Threads \ {t} : th'[s] = th[s]
         /\ th'[t].pc = Returns(t) /\ th'[t].addr = th[t].addr /\ th'[t].port = th[t].port
         /\ th'[t].ch = th[t].ch
<1>1. Returns(t) \in PCs
  BY DEF Returns, PCs
<1> DEFINE f == [th[t] EXCEPT !.pc = Returns(t), !.reg = Nil, !.was = FALSE, !.tries = 0]
<1>2. th' = [th EXCEPT ![t] = f]
  BY DEF Finished
<1>3. /\ f \in ThreadRecords /\ f.pc = Returns(t) /\ f.addr = th[t].addr
      /\ f.port = th[t].port /\ f.ch = th[t].ch
  BY <1>1, FinishedRecord
<1> HIDE DEF f
<1> QED
  BY <1>2, <1>3

(* A step of one thread: the others are where they were.                   *)
LEMMA OneThread ==
  ASSUME ServerInv, NEW t \in Threads, \A s \in Threads \ {t} : th'[s] = th[s],
         draining' = draining, Places(t)',
         t \in Starts /\ UseWg /\ th'[t].pc \in Closing => draining[t] = {}
  PROVE  (\A s \in Threads : Places(s)') /\ DrainedBeforeClose'
<1>1. ASSUME NEW s \in Threads PROVE Places(s)'
  <2>1. CASE s = t
    BY <2>1
  <2>2. CASE s # t
    BY <2>2 DEF ServerInv, Places
  <2> QED
    BY <2>1, <2>2
<1>2. ASSUME NEW i \in Starts, UseWg, th'[i].pc \in Closing PROVE draining'[i] = {}
  BY <1>2, Kinds DEF ServerInv, DrainedBeforeClose, Closing
<1> QED
  BY <1>1, <1>2 DEF DrainedBeforeClose, Closing

(* Register, from a user or a registrar.                                   *)
LEMMA RegisterMoves ==
  ASSUME ServerInv, NEW t \in Threads,
         RegisterBegin(t) \/ RegisterRemembers(t) \/ TryRegister(t) \/ TryRegisterFails(t)
           \/ RegisterCommit(t)
  PROVE  /\ th' \in [Threads -> ThreadRecords]
         /\ \A s \in Threads \ {t} : th'[s] = th[s]
         /\ th'[t].pc \in {"cached", "fresh", "attempt", "commit", Returns(t)}
         /\ th'[t].addr = th[t].addr /\ th'[t].port = th[t].port
         /\ th'[t].ch = th[t].ch
         /\ StateTypes' /\ Owed'
<1> DEFINE Stays == /\ th' \in [Threads -> ThreadRecords]
                    /\ \A s \in Threads \ {t} : th'[s] = th[s]
                    /\ th'[t].pc \in {"cached", "fresh", "attempt", "commit", Returns(t)}
                    /\ th'[t].addr = th[t].addr /\ th'[t].port = th[t].port
                    /\ th'[t].ch = th[t].ch
<1>0. /\ th \in [Threads -> ThreadRecords] /\ th[t] \in ThreadRecords /\ Places(t)
      /\ StateTypes /\ Owed
  BY DEF ServerInv
<1>1. /\ th[t].pc \in {"register", "cached", "fresh", "attempt", "commit"}
      /\ UNCHANGED <<started, address, known, stray, broker, open, listen, connVars, inits,
                     expiries, kept>>
  BY DEF RegisterBegin, RegisterRemembers, TryRegister, TryRegisterFails, RegisterCommit, At,
         srvVars, optVars, subVars, extVars, bounds
<1>2. ASSUME RegisterBegin(t) PROVE Stays /\ StateTypes' /\ Owed'
  <2> DEFINE p == IF rsvc # Nil THEN "cached" ELSE "fresh"
             a == IF rsvc # Nil THEN rsvc ELSE GetAddr
  <2>1. p \in PCs /\ a \in Addrs \cup {Nil} /\ p \in {"cached", "fresh"}
    BY <1>0 DEF StateTypes, GetAddr, PCs
  <2>2. th' = [th EXCEPT ![t].pc = p, ![t].reg = a]
    BY <1>2 DEF RegisterBegin
  <2> HIDE DEF p, a
  <2>3. Stays
    BY <1>0, <2>1, <2>2 DEF ThreadRecords
  <2>4. StateTypes' /\ Owed'
    BY <1>0, <1>2 DEF RegisterBegin, StateTypes, Owed, srvVars, optVars, subVars, extVars, connVars
  <2> QED
    BY <2>3, <2>4
<1>3. ASSUME RegisterRemembers(t) PROVE Stays /\ StateTypes' /\ Owed'
  <2>1. th' = [th EXCEPT ![t].pc = "attempt", ![t].was = registered]
    BY <1>3 DEF RegisterRemembers
  <2>2. registered \in BOOLEAN /\ "attempt" \in PCs
    BY <1>0 DEF StateTypes, PCs
  <2>3. Stays
    BY <1>0, <2>1, <2>2 DEF ThreadRecords
  <2>4. StateTypes' /\ Owed'
    BY <1>0, <1>3 DEF RegisterRemembers, StateTypes, Owed, srvVars, optVars, subVars, extVars,
                      connVars
  <2> QED
    BY <2>3, <2>4
<1>4. ASSUME TryRegister(t) PROVE Stays /\ StateTypes' /\ Owed'
  <2>1. th' = Finished(t) \/ Goto(t, "commit")
    BY <1>4 DEF TryRegister
  <2>2. Stays
    BY <1>0, <2>1, GotoStep, FinishedStep DEF PCs
  <2>3. th[t].reg \in Addrs \cup {Nil}
    BY <1>0 DEF ThreadRecords
  <2>4. StateTypes' /\ Owed'
    BY <1>0, <1>4, <2>3 DEF TryRegister, StateTypes, Owed, srvVars, optVars, subVars, connVars
  <2> QED
    BY <2>2, <2>4
<1>5. ASSUME TryRegisterFails(t) PROVE Stays /\ StateTypes' /\ Owed'
  <2>1. Stays
    <3>1. CASE th' = Finished(t)
      BY <1>0, <3>1, FinishedStep
    <3>2. CASE th[t].tries + 1 < Attempts /\ th' = [th EXCEPT ![t].tries = @ + 1]
      <4>1. th[t].tries + 1 \in 0 .. Attempts
        BY <1>0, <3>2 DEF ThreadRecords, Attempts
      <4>2. th[t].pc \in {"cached", "attempt"}
        BY <1>5 DEF TryRegisterFails
      <4> QED
        BY <1>0, <3>2, <4>1, <4>2 DEF ThreadRecords
    <3> QED
      BY <1>5, <3>1, <3>2 DEF TryRegisterFails
  <2>2. StateTypes' /\ Owed'
    BY <1>0, <1>5 DEF TryRegisterFails, StateTypes, Owed, srvVars, optVars, subVars, extVars,
                      connVars
  <2> QED
    BY <2>1, <2>2
<1>6. ASSUME RegisterCommit(t) PROVE Stays /\ StateTypes' /\ Owed'
  <2>1. Stays
    BY <1>0, <1>6, FinishedStep DEF RegisterCommit
  <2>2. PICK done \in SUBSET known : ReSubscribe(done)
    BY <1>6 DEF RegisterCommit
  <2>3. /\ subs' = subs \cup done /\ done \subseteq known /\ known \subseteq Subs
        /\ live' \in [Subs -> Nat]
        /\ \A b \in Subs : live'[b] = live[b] + IF b \in done THEN 1 ELSE 0
    BY <1>0, <2>2 DEF ReSubscribe, StateTypes
  <2>4. ASSUME NEW b \in subs' PROVE live'[b] > 0
    <3>1. b \in Subs /\ live[b] \in Nat /\ (b \in done \/ live[b] > 0)
      BY <1>0, <2>3 DEF StateTypes, Owed
    <3> QED
      BY <2>3, <3>1
  <2>5. th[t].reg \in Addrs \cup {Nil}
    BY <1>0 DEF ThreadRecords
  <2>6. registered' = TRUE /\ rsvc' \in {th[t].reg, rsvc} /\ advertise' = th[t].reg
        /\ UNCHANGED registry
    BY <1>6 DEF RegisterCommit, extVars
  <2>7. StateTypes'
    BY <1>0, <1>1, <2>3, <2>5, <2>6 DEF StateTypes, connVars
  <2> QED
    BY <2>1, <2>4, <2>7 DEF Owed
<1> QED
  BY <1>2, <1>3, <1>4, <1>5, <1>6

(* Register keeps the invariant, from Start and from the registrar.        *)
LEMMA RegisterKeeps ==
  ASSUME ServerInv, NEW t \in Threads,
         RegisterBegin(t) \/ RegisterRemembers(t) \/ TryRegister(t) \/ TryRegisterFails(t)
           \/ RegisterCommit(t)
  PROVE  ServerInv'
<1>0. /\ th \in [Threads -> ThreadRecords] /\ th[t] \in ThreadRecords /\ Places(t)
  BY DEF ServerInv
<1>1. /\ th[t].pc \in {"register", "cached", "fresh", "attempt", "commit"}
      /\ UNCHANGED connVars
  BY DEF RegisterBegin, RegisterRemembers, TryRegister, TryRegisterFails, RegisterCommit, At
<1>2. /\ th' \in [Threads -> ThreadRecords]
      /\ \A s \in Threads \ {t} : th'[s] = th[s]
      /\ th'[t].pc \in {"cached", "fresh", "attempt", "commit", Returns(t)}
      /\ th'[t].addr = th[t].addr /\ th'[t].port = th[t].port
      /\ th'[t].ch = th[t].ch
      /\ StateTypes' /\ Owed'
  BY RegisterMoves
<1>3. Places(t)' /\ th'[t].pc \notin Closing
  <2>1. CASE t \in Users
    BY <1>0, <1>1, <1>2, <2>1, Kinds DEF Places, UserPCs, Opening, Closing, Returns
  <2>2. CASE t \in Starts
    BY <1>0, <1>1, <1>2, <2>2, Kinds DEF Places, LoopPCs, RegistrarPCs, Closing, Returns
  <2> QED
    BY <2>1, <2>2, Kinds
<1> QED
  BY <1>1, <1>2, <1>3, OneThread DEF ServerInv, connVars

(* Deregister, from a registrar.                                           *)
LEMMA DeregisterKeeps ==
  ASSUME ServerInv, NEW t \in Threads,
         Deregister(t) \/ DeregisterFails(t) \/ DeregisterCommit(t)
  PROVE  ServerInv'
<1>0. /\ th \in [Threads -> ThreadRecords] /\ th[t] \in ThreadRecords /\ Places(t)
      /\ StateTypes /\ Owed
  BY DEF ServerInv
<1>1. /\ th[t].pc \in {"dereg", "forget"} /\ t \in Starts
      /\ UNCHANGED <<started, optVars, known, broker, open, listen, connVars, inits, expiries>>
  BY <1>0, Kinds DEF Deregister, DeregisterFails, DeregisterCommit, At,
         srvVars, optVars, subVars, extVars, bounds, Places, UserPCs
<1>2. PICK pc \in PCs : Goto(t, pc) /\ pc \in {"forget", DeregReturns(t)}
  BY DEF Deregister, DeregisterFails, DeregisterCommit, DeregReturns, PCs
<1>3. /\ th' \in [Threads -> ThreadRecords] /\ \A s \in Threads \ {t} : th'[s] = th[s]
      /\ th'[t].pc = pc /\ th'[t].addr = th[t].addr /\ th'[t].port = th[t].port
      /\ th'[t].ch = th[t].ch
  BY <1>0, <1>2, GotoStep
<1>4. Places(t)' /\ th'[t].pc \notin Closing
  BY <1>0, <1>1, <1>2, <1>3, Kinds
     DEF Places, LoopPCs, RegistrarPCs, Closing, DeregReturns
<1>5. CASE Deregister(t) \/ DeregisterFails(t)
  <2>1. UNCHANGED <<srvVars, subVars>> /\ registry' \in {Nil, registry}
    BY <1>5 DEF Deregister, DeregisterFails, extVars
  <2>2. StateTypes' /\ Owed'
    BY <1>0, <1>1, <2>1 DEF StateTypes, Owed, srvVars, optVars, subVars, connVars
  <2> QED
    BY <1>1, <1>3, <1>4, <2>2, OneThread DEF ServerInv, connVars
<1>6. CASE DeregisterCommit(t)
  <2>1. PICK refused \in SUBSET subs :
          /\ rsvc' = Nil /\ registered' = FALSE /\ registry' = registry
          /\ \/ /\ live' = [b \in Subs |-> live[b] - IF b \in subs \ refused THEN 1 ELSE 0]
                /\ stray' = [b \in Subs |-> stray[b] + IF b \in refused THEN 1 ELSE 0]
                /\ subs' = {}
             \/ UNCHANGED <<live, stray, subs>>
    BY <1>6 DEF DeregisterCommit, LetGo, extVars
  <2>2. ASSUME live' = [b \in Subs |-> live[b] - IF b \in subs \ refused THEN 1 ELSE 0]
        PROVE  live' \in [Subs -> Nat]
    <3>1. ASSUME NEW b \in Subs PROVE live[b] - (IF b \in subs \ refused THEN 1 ELSE 0) \in Nat
      <4>1. live[b] \in Nat /\ (b \in subs => live[b] > 0)
        BY <1>0 DEF StateTypes, Owed
      <4> QED
        BY <4>1
    <3> QED
      BY <2>2, <3>1
  <2>3. live' \in [Subs -> Nat] /\ stray' \in [Subs -> Nat] /\ subs' \subseteq known
    BY <1>0, <2>1, <2>2 DEF StateTypes
  <2>4. Owed'
    BY <1>0, <2>1 DEF Owed
  <2>5. StateTypes'
    BY <1>0, <1>1, <2>1, <2>3 DEF StateTypes, optVars, connVars
  <2> QED
    BY <1>1, <1>3, <1>4, <2>4, <2>5, OneThread DEF ServerInv, connVars
<1> QED
  BY <1>5, <1>6

(* Start, up to the goroutines.                                            *)
LEMMA StartKeeps ==
  ASSUME ServerInv, NEW u \in Users,
         StartListen(u) \/ StartSwap(u) \/ StartConnect(u) \/ StartConnectFails(u)
           \/ StartCheck(u) \/ StartDone(u) \/ StopReturn(u)
  PROVE  ServerInv'
<1> DEFINE Moves == /\ th' \in [Threads -> ThreadRecords]
                    /\ \A s \in Threads \ {u} : th'[s] = th[s]
                    /\ Places(u)'
<1>0. /\ th \in [Threads -> ThreadRecords] /\ th[u] \in ThreadRecords /\ Places(u)
      /\ StateTypes /\ Owed /\ u \in Threads /\ u \notin Starts
  BY Kinds DEF ServerInv
<1>1. UNCHANGED <<registered, rsvc, advertise, subVars, registry, listen, connVars>>
  BY DEF StartListen, StartSwap, StartConnect, StartConnectFails, StartCheck, StartDone,
         StopReturn, srvVars, optVars, extVars
<1>2. ASSUME StartListen(u) PROVE Moves /\ StateTypes'
  <2>1. PICK p \in Bindable : /\ open' = open \cup {p}
                              /\ th' = [th EXCEPT ![u].pc = "swap", ![u].addr = address,
                                                  ![u].port = p]
    BY <1>2 DEF StartListen
  <2>2. p \in Ports /\ "swap" \in PCs /\ address \in Addrs
    BY <1>0 DEF Bindable, StateTypes, Addrs, PCs
  <2>3. /\ th' \in [Threads -> ThreadRecords] /\ \A s \in Threads \ {u} : th'[s] = th[s]
        /\ th'[u].pc = "swap" /\ th'[u].addr = address /\ th'[u].port = p
    BY <1>0, <2>1, <2>2 DEF ThreadRecords
  <2>4. Places(u)'
    BY <1>0, <2>2, <2>3, Kinds DEF Places, UserPCs, Opening
  <2>5. UNCHANGED <<started, address, broker>>
    BY <1>2 DEF StartListen, srvVars, optVars
  <2>6. StateTypes'
    BY <1>0, <1>1, <2>1, <2>2, <2>5 DEF StateTypes, subVars, connVars
  <2> QED
    BY <2>3, <2>4, <2>6
<1>3. ASSUME StartSwap(u) PROVE Moves /\ StateTypes'
  <2>1. th[u].pc = "swap" /\ address' = th[u].port /\ Goto(u, "connect") /\ "connect" \in PCs
        /\ UNCHANGED <<started, broker, open>>
    BY <1>3 DEF StartSwap, At, srvVars, extVars, PCs
  <2>2. th[u].port \in Ports
    BY <1>0, <2>1 DEF Places, Opening, ThreadRecords
  <2>3. /\ th' \in [Threads -> ThreadRecords] /\ \A s \in Threads \ {u} : th'[s] = th[s]
        /\ th'[u].pc = "connect" /\ th'[u].addr = th[u].addr /\ th'[u].port = th[u].port
    BY <1>0, <2>1, GotoStep
  <2>4. Places(u)'
    BY <1>0, <2>1, <2>3 DEF Places, UserPCs, Opening
  <2>5. StateTypes'
    BY <1>0, <1>1, <2>1, <2>2 DEF StateTypes, subVars, connVars, Addrs
  <2> QED
    BY <2>3, <2>4, <2>5
<1>4. ASSUME StartConnect(u) \/ StartCheck(u) PROVE Moves /\ StateTypes'
  <2>1. PICK pc \in {"check", "register", "spawn"} : Goto(u, pc)
    BY <1>4 DEF StartConnect, StartCheck
  <2>2. th[u].pc \in {"connect", "check"} /\ UNCHANGED <<started, address, open>> /\ pc \in PCs
        /\ broker' \in {TRUE, broker}
    BY <1>4 DEF StartConnect, StartCheck, At, srvVars, optVars, extVars, PCs
  <2>3. /\ th' \in [Threads -> ThreadRecords] /\ \A s \in Threads \ {u} : th'[s] = th[s]
        /\ th'[u].pc = pc /\ th'[u].addr = th[u].addr /\ th'[u].port = th[u].port
    BY <1>0, <2>1, <2>2, GotoStep
  <2>4. Places(u)'
    BY <1>0, <2>1, <2>2, <2>3 DEF Places, UserPCs, Opening
  <2>5. StateTypes'
    BY <1>0, <1>1, <2>2 DEF StateTypes, subVars, connVars
  <2> QED
    BY <2>3, <2>4, <2>5
<1>5. ASSUME StartConnectFails(u) PROVE Moves /\ StateTypes'
  <2>1. th' = [th EXCEPT ![u] = Local] /\ UNCHANGED <<started, address, broker, open>>
    BY <1>5 DEF StartConnectFails, srvVars, optVars, extVars
  <2>2. Local \in ThreadRecords /\ Local.pc = "idle"
    BY DEF Local, ThreadRecords, PCs, Attempts
  <2>3. /\ th' \in [Threads -> ThreadRecords] /\ \A s \in Threads \ {u} : th'[s] = th[s]
        /\ th'[u].pc = "idle"
    BY <1>0, <2>1, <2>2
  <2>4. Places(u)'
    BY <1>0, <2>3 DEF Places, UserPCs, Opening
  <2>5. StateTypes'
    BY <1>0, <1>1, <2>1 DEF StateTypes, subVars, connVars
  <2> QED
    BY <2>3, <2>4, <2>5
<1>6. ASSUME StartDone(u) \/ StopReturn(u) PROVE Moves /\ StateTypes'
  <2>1. Goto(u, "idle") /\ started' \in BOOLEAN /\ UNCHANGED <<address, broker, open>>
        /\ "idle" \in PCs
    BY <1>6 DEF StartDone, StopReturn, optVars, extVars, PCs
  <2>2. /\ th' \in [Threads -> ThreadRecords] /\ \A s \in Threads \ {u} : th'[s] = th[s]
        /\ th'[u].pc = "idle"
    BY <1>0, <2>1, GotoStep
  <2>3. Places(u)'
    BY <1>0, <2>2 DEF Places, UserPCs, Opening
  <2>4. StateTypes'
    BY <1>0, <1>1, <2>1 DEF StateTypes, subVars, connVars
  <2> QED
    BY <2>2, <2>3, <2>4
<1>7. Moves /\ StateTypes'
  BY <1>2, <1>3, <1>4, <1>5, <1>6
<1>8. Owed'
  BY <1>0, <1>1 DEF Owed, subVars
<1>9. (\A s \in Threads : Places(s)') /\ DrainedBeforeClose'
  BY <1>0, <1>1, <1>7, OneThread DEF connVars
<1> QED
  BY <1>7, <1>8, <1>9 DEF ServerInv

(* What the registrar and the user hold after Start's last step.           *)
LEMMA SpawnRecords ==
  ASSUME NEW x \in Addrs \cup {Nil}, NEW y \in Ports \cup {Nil}
  PROVE  LET a == [Local EXCEPT !.pc = "select", !.addr = x, !.port = y]
             b == [Local EXCEPT !.pc = "set"]
         IN  /\ a \in ThreadRecords /\ a.pc = "select" /\ a.addr = x /\ a.ch = Nil
             /\ b \in ThreadRecords /\ b.pc = "set"
<1>1. Local \in ThreadRecords /\ Local.ch = Nil
  BY DEF Local, ThreadRecords, PCs, Attempts
<1>2. {"select", "set"} \subseteq PCs
  BY DEF PCs
<1> QED
  BY <1>1, <1>2 DEF ThreadRecords

(* The end of Start: the registrar and the accept loop begin.              *)
LEMMA SpawnKeeps ==
  ASSUME ServerInv, NEW u \in Users, StartSpawn(u) PROVE ServerInv'
<1>0. /\ th \in [Threads -> ThreadRecords] /\ th[u] \in ThreadRecords /\ Places(u)
      /\ StateTypes /\ Owed /\ u \in Threads /\ u \notin Starts
  BY Kinds DEF ServerInv
<1>1. PICK x \in Addrs \cup {Nil}, y \in Ports \cup {Nil} : x = th[u].addr /\ y = th[u].port
  BY <1>0 DEF ThreadRecords
<1> DEFINE a == [Local EXCEPT !.pc = "select", !.addr = x, !.port = y]
           b == [Local EXCEPT !.pc = "set"]
<1>2. PICK i \in Starts : /\ th' = [th EXCEPT ![i] = a, ![u] = b]
                          /\ listen' = [listen EXCEPT ![i] = "accepting"]
  BY <1>1 DEF StartSpawn
<1>3. /\ a \in ThreadRecords /\ a.pc = "select" /\ a.addr = x
      /\ b \in ThreadRecords /\ b.pc = "set"
  BY SpawnRecords, ZenonT(40)
<1> HIDE DEF a, b
<1>4. /\ i # u /\ i \in Threads /\ th' \in [Threads -> ThreadRecords]
      /\ th'[i] = a /\ th'[u] = b /\ \A s \in Threads \ {i, u} : th'[s] = th[s]
  BY <1>0, <1>2, <1>3, Kinds
<1>5. x # Nil
  BY <1>0, <1>1 DEF StartSpawn, At, Places, Opening
<1>6. ASSUME NEW s \in Threads PROVE Places(s)'
  <2>1. CASE s = i
    BY <1>3, <1>4, <1>5, <2>1, Kinds DEF Places, RegistrarPCs, LoopPCs, Closing
  <2>2. CASE s = u
    BY <1>0, <1>3, <1>4, <2>2 DEF Places, UserPCs, Opening
  <2>3. CASE s \notin {i, u}
    BY <1>4, <2>3 DEF ServerInv, Places
  <2> QED
    BY <2>1, <2>2, <2>3
<1>7. UNCHANGED <<srvVars, optVars, subVars, extVars, connVars>>
  BY DEF StartSpawn
<1>8. StateTypes' /\ Owed'
  BY <1>0, <1>2, <1>7 DEF StateTypes, Owed, srvVars, optVars, subVars, extVars, connVars
<1>9. DrainedBeforeClose'
  BY <1>3, <1>4, <1>7, Kinds DEF ServerInv, DrainedBeforeClose, connVars
<1> QED
  BY <1>4, <1>6, <1>8, <1>9 DEF ServerInv

(* The exit signal: a Stop meets a registrar in its select.                *)
LEMMA LeaveKeeps ==
  ASSUME ServerInv, NEW i \in Starts, NEW u \in Users, At(i, "select"), th' = Leave(i, u),
         draining' = [draining EXCEPT ![i] = running],
         UNCHANGED <<srvVars, optVars, subVars, extVars, listen, conn, running>>
  PROVE  ServerInv'
<1>0. /\ th \in [Threads -> ThreadRecords] /\ Places(i)
      /\ StateTypes /\ Owed /\ u \in Threads /\ u \notin Starts /\ i \in Threads /\ i # u
  BY Kinds DEF ServerInv
<1> DEFINE p == IF registered THEN "dereg" ELSE "wait"
<1>1. p \in {"dereg", "wait"}
  OBVIOUS
<1>2. th' = [th EXCEPT ![i].ch = u, ![i].pc = p, ![u].pc = "await"]
  BY DEF Leave
<1> HIDE DEF p
<1>3. /\ th' \in [Threads -> ThreadRecords] /\ \A s \in Threads \ {i, u} : th'[s] = th[s]
      /\ th'[i].pc = p /\ th'[i].ch = u /\ th'[i].addr = th[i].addr
      /\ th'[u].pc = "await"
  <2>1. p \in PCs /\ "await" \in PCs
    BY <1>1 DEF PCs
  <2> QED
    BY <1>0, <1>2, <2>1 DEF ThreadRecords
<1>4. ASSUME NEW s \in Threads PROVE Places(s)'
  <2>1. CASE s = i
    BY <1>0, <1>1, <1>3, <2>1, Kinds DEF At, Places, RegistrarPCs, LoopPCs, Closing
  <2>2. CASE s = u
    BY <1>0, <1>3, <2>2 DEF Places, UserPCs, Opening
  <2>3. CASE s \notin {i, u}
    BY <1>3, <2>3 DEF ServerInv, Places
  <2> QED
    BY <2>1, <2>2, <2>3
<1>5. StateTypes' /\ Owed'
  BY <1>0 DEF StateTypes, Owed, srvVars, optVars, subVars, extVars
<1>6. ASSUME NEW j \in Starts, UseWg, th'[j].pc \in Closing PROVE draining'[j] = {}
  <2>1. j # i /\ j # u /\ j \in Threads
    BY <1>0, <1>1, <1>3, <1>6, Kinds DEF Closing
  <2> QED
    BY <1>0, <1>3, <1>6, <2>1 DEF ServerInv, DrainedBeforeClose, Closing, StateTypes
<1> QED
  BY <1>3, <1>4, <1>5, <1>6 DEF ServerInv, DrainedBeforeClose, Closing

(* Either side of the exit channel may come first.                         *)
LEMMA SignalKeeps ==
  ASSUME ServerInv,
         \/ \E u \in Users : StopSend(u)
         \/ \E i \in Starts : RegistrarExit(i)
  PROVE  ServerInv'
<1>1. UNCHANGED <<srvVars, optVars, subVars, extVars, listen, conn, running>>
  BY DEF StopSend, RegistrarExit
<1>2. CASE \E i \in Starts, u \in Users :
             /\ At(i, "select") /\ th' = Leave(i, u)
             /\ draining' = [draining EXCEPT ![i] = running]
  BY <1>1, <1>2, LeaveKeeps
<1>3. CASE \E u \in Users : Goto(u, "send") /\ UNCHANGED draining
  <2>1. PICK u \in Users : Goto(u, "send") /\ UNCHANGED draining
    BY <1>3
  <2>2. u \in Threads /\ u \notin Starts /\ "send" \in PCs /\ th \in [Threads -> ThreadRecords]
    BY Kinds DEF PCs, ServerInv
  <2>3. /\ th' \in [Threads -> ThreadRecords] /\ \A s \in Threads \ {u} : th'[s] = th[s]
        /\ th'[u].pc = "send"
    BY <2>1, <2>2, GotoStep
  <2>4. Places(u)'
    BY <2>2, <2>3 DEF Places, UserPCs, Opening
  <2>5. (\A s \in Threads : Places(s)') /\ DrainedBeforeClose'
    BY <2>1, <2>2, <2>3, <2>4, OneThread
  <2>6. StateTypes' /\ Owed'
    BY <1>1, <2>1 DEF ServerInv, StateTypes, Owed, srvVars, optVars, subVars, extVars
  <2> QED
    BY <2>3, <2>5, <2>6 DEF ServerInv
<1>4. ASSUME NEW u \in Users, StopSend(u)
      PROVE  \/ \E i \in Starts : /\ At(i, "select") /\ th' = Leave(i, u)
                                  /\ draining' = [draining EXCEPT ![i] = running]
             \/ Goto(u, "send") /\ UNCHANGED draining
  BY <1>4 DEF StopSend
<1>5. ASSUME NEW i \in Starts, RegistrarExit(i)
      PROVE  \E u \in Users : /\ At(i, "select") /\ th' = Leave(i, u)
                              /\ draining' = [draining EXCEPT ![i] = running]
  BY <1>5 DEF RegistrarExit
<1> QED
  BY <1>2, <1>3, <1>4, <1>5

(* The registrar's own steps, except the answer.                           *)
LEMMA RegistrarKeeps ==
  ASSUME ServerInv, NEW i \in Starts,
         Tick(i) \/ RegistrarWait(i) \/ RegistrarDisconnect(i) \/ RegistrarRestore(i)
  PROVE  ServerInv'
<1> DEFINE Moves == /\ th' \in [Threads -> ThreadRecords]
                    /\ \A s \in Threads \ {i} : th'[s] = th[s]
                    /\ Places(i)' /\ StateTypes'
                    /\ UseWg /\ th'[i].pc \in Closing => draining[i] = {}
<1>0. /\ th \in [Threads -> ThreadRecords] /\ th[i] \in ThreadRecords /\ Places(i)
      /\ StateTypes /\ Owed /\ i \in Threads /\ i \notin Users /\ DrainedBeforeClose
  BY Kinds DEF ServerInv
<1>1. UNCHANGED <<srvVars, advertise, subVars, registry, open, listen, connVars>>
  BY DEF Tick, RegistrarWait, RegistrarDisconnect, RegistrarRestore, optVars, extVars
<1>2. ASSUME Tick(i) PROVE Moves
  <2>1. PICK pc \in {"register", "dereg", "select"} : Goto(i, pc)
    BY <1>2 DEF Tick
  <2>2. th[i].pc = "select" /\ UNCHANGED <<address, broker>> /\ pc \in PCs
    BY <1>2 DEF Tick, At, optVars, extVars, PCs
  <2>3. /\ th' \in [Threads -> ThreadRecords] /\ \A s \in Threads \ {i} : th'[s] = th[s]
        /\ th'[i].pc = pc /\ th'[i].addr = th[i].addr
    BY <1>0, <2>1, <2>2, GotoStep
  <2>4. Places(i)' /\ th'[i].pc \notin Closing
    BY <1>0, <2>1, <2>2, <2>3 DEF Places, RegistrarPCs, LoopPCs, Closing
  <2>5. StateTypes'
    BY <1>0, <1>1, <2>2 DEF StateTypes, srvVars, subVars, connVars
  <2> QED
    BY <2>3, <2>4, <2>5
<1>3. ASSUME RegistrarWait(i) PROVE Moves
  <2>1. th[i].pc = "wait" /\ UNCHANGED <<address, broker>> /\ Goto(i, "close") /\ "close" \in PCs
        /\ (UseWg => running = {})
    BY <1>3 DEF RegistrarWait, At, optVars, extVars, PCs
  <2>2. /\ th' \in [Threads -> ThreadRecords] /\ \A s \in Threads \ {i} : th'[s] = th[s]
        /\ th'[i].pc = "close" /\ th'[i].addr = th[i].addr /\ th'[i].ch = th[i].ch
    BY <1>0, <2>1, GotoStep
  <2>3. Places(i)'
    BY <1>0, <2>1, <2>2 DEF Places, RegistrarPCs, LoopPCs, Closing
  <2>4. UseWg => draining[i] = {}
    <3>1. draining[i] \subseteq running
      BY <1>0 DEF StateTypes
    <3> QED
      BY <2>1, <3>1
  <2>5. StateTypes'
    BY <1>0, <1>1, <2>1 DEF StateTypes, srvVars, subVars, connVars
  <2> QED
    BY <2>2, <2>3, <2>4, <2>5
<1>4. ASSUME RegistrarDisconnect(i) PROVE Moves
  <2>1. th[i].pc = "disconnect" /\ UNCHANGED address /\ Goto(i, "restore") /\ "restore" \in PCs
        /\ broker' = FALSE
    BY <1>4 DEF RegistrarDisconnect, At, optVars, PCs
  <2>2. /\ th' \in [Threads -> ThreadRecords] /\ \A s \in Threads \ {i} : th'[s] = th[s]
        /\ th'[i].pc = "restore" /\ th'[i].addr = th[i].addr /\ th'[i].ch = th[i].ch
    BY <1>0, <2>1, GotoStep
  <2>3. Places(i)'
    BY <1>0, <2>1, <2>2 DEF Places, RegistrarPCs, LoopPCs, Closing
  <2>4. UseWg => draining[i] = {}
    BY <1>0, <2>1 DEF DrainedBeforeClose
  <2>5. StateTypes'
    BY <1>0, <1>1, <2>1 DEF StateTypes, srvVars, subVars, connVars
  <2> QED
    BY <2>2, <2>3, <2>4, <2>5
<1>5. ASSUME RegistrarRestore(i) PROVE Moves
  <2> DEFINE c == th[i].ch
             l == [Local EXCEPT !.pc = "off", !.ch = c]
  <2>1. th[i].pc = "restore" /\ UNCHANGED broker /\ address' = th[i].addr
        /\ th' = [th EXCEPT ![i] = l]
    BY <1>5 DEF RegistrarRestore, At, extVars
  <2>2. th[i].addr \in Addrs /\ c \in Users \cup {Nil}
    BY <1>0, <2>1 DEF Places, ThreadRecords
  <2> HIDE DEF c
  <2>3. l \in ThreadRecords /\ l.pc = "off"
    <3>1. Local \in ThreadRecords /\ "off" \in PCs
      BY DEF Local, ThreadRecords, PCs, Attempts
    <3> QED
      BY <2>2, <3>1 DEF ThreadRecords
  <2> HIDE DEF l
  <2>4. /\ th' \in [Threads -> ThreadRecords] /\ \A s \in Threads \ {i} : th'[s] = th[s]
        /\ th'[i].pc = "off"
    BY <1>0, <2>1, <2>3
  <2>5. Places(i)' /\ th'[i].pc \notin Closing
    BY <1>0, <2>4 DEF Places, RegistrarPCs, LoopPCs, Closing
  <2>6. StateTypes'
    BY <1>0, <1>1, <2>1, <2>2 DEF StateTypes, srvVars, subVars, connVars
  <2> QED
    BY <2>4, <2>5, <2>6
<1>6. Moves
  BY <1>2, <1>3, <1>4, <1>5
<1>7. Owed'
  BY <1>0, <1>1 DEF Owed, subVars
<1>8. (\A s \in Threads : Places(s)') /\ DrainedBeforeClose'
  BY <1>0, <1>1, <1>6, OneThread DEF connVars
<1> QED
  BY <1>6, <1>7, <1>8 DEF ServerInv

(* The answer to Stop.                                                     *)
LEMMA CloseKeeps ==
  ASSUME ServerInv, NEW i \in Starts, RegistrarClose(i) PROVE ServerInv'
<1>0. /\ th \in [Threads -> ThreadRecords] /\ th[i] \in ThreadRecords /\ Places(i)
      /\ StateTypes /\ Owed /\ i \in Threads /\ i \notin Users /\ th[i].pc = "close"
  BY Kinds DEF ServerInv, RegistrarClose, At
<1>1. PICK u \in Users : u = th[i].ch
  BY <1>0 DEF Places, Closing, ThreadRecords
<1>2. th' = [th EXCEPT ![i].pc = "disconnect", ![u].pc = "answered"] /\ open' = open \ {th[i].port}
      /\ u \in Threads /\ u \notin Starts /\ u # i
  BY <1>1, Kinds DEF RegistrarClose
<1>3. /\ th' \in [Threads -> ThreadRecords] /\ \A s \in Threads \ {i, u} : th'[s] = th[s]
      /\ th'[i].pc = "disconnect" /\ th'[i].ch = th[i].ch /\ th'[i].addr = th[i].addr
      /\ th'[u].pc = "answered"
  <2>1. {"disconnect", "answered"} \subseteq PCs
    BY DEF PCs
  <2> QED
    BY <1>0, <1>2, <2>1 DEF ThreadRecords
<1>4. ASSUME NEW s \in Threads PROVE Places(s)'
  <2>1. CASE s = i
    BY <1>0, <1>3, <2>1 DEF Places, RegistrarPCs, LoopPCs, Closing
  <2>2. CASE s = u
    BY <1>2, <1>3, <2>2 DEF Places, UserPCs, Opening
  <2>3. CASE s \notin {i, u}
    BY <1>3, <2>3 DEF ServerInv, Places
  <2> QED
    BY <2>1, <2>2, <2>3
<1>5. UNCHANGED <<srvVars, optVars, subVars, registry, broker, listen, connVars>>
  BY DEF RegistrarClose
<1>6. StateTypes' /\ Owed'
  BY <1>0, <1>2, <1>5 DEF StateTypes, Owed, srvVars, optVars, subVars, connVars
<1>7. ASSUME NEW j \in Starts, UseWg, th'[j].pc \in Closing PROVE draining'[j] = {}
  <2>1. th[j].pc \in Closing
    BY <1>0, <1>2, <1>3, <1>7, Kinds DEF Closing
  <2> QED
    BY <1>5, <1>7, <2>1 DEF ServerInv, DrainedBeforeClose, Closing, connVars
<1> QED
  BY <1>3, <1>4, <1>6, <1>7 DEF ServerInv, DrainedBeforeClose, Closing

(* Steps that move no thread, or only send a Stop astray.                  *)
LEMMA OtherKeeps ==
  ASSUME ServerInv,
         \/ \E u \in Users : InitOptions(u) \/ \E b \in Subs : Subscribe(u, b)
         \/ \E i \in Starts : ListenReturns(i)
         \/ \E c \in Conns : Serving(c)
         \/ Expire \/ UNCHANGED vars
  PROVE  ServerInv'
<1>0. th \in [Threads -> ThreadRecords] /\ StateTypes /\ Owed
  BY DEF ServerInv
<1>1. CASE \E u \in Users : InitOptions(u)
  <2>1. /\ UNCHANGED <<started, registered, optVars, known, subs, live, stray, extVars, th, listen,
                       connVars>>
        /\ rsvc' = Nil
    BY <1>1 DEF InitOptions
  <2>2. StateTypes' /\ Owed'
    BY <1>0, <2>1 DEF StateTypes, Owed, optVars, extVars, connVars
  <2> QED
    BY <2>1, <2>2 DEF ServerInv, Places, DrainedBeforeClose, connVars
<1>2. CASE \E u \in Users, b \in Subs : Subscribe(u, b)
  <2>1. PICK b \in Subs : /\ UNCHANGED <<srvVars, optVars, live, extVars, th, listen, connVars>>
                          /\ known' = known \cup {b} /\ subs' = subs \ {b}
                          /\ stray' = [x \in Subs |-> stray[x] + IF x \in subs \cap {b} THEN 1
                                                                 ELSE 0]
    BY <1>2 DEF Subscribe, LetGo
  <2>2. StateTypes' /\ Owed'
    BY <1>0, <2>1 DEF StateTypes, Owed, srvVars, optVars, extVars, connVars
  <2> QED
    BY <2>1, <2>2 DEF ServerInv, Places, DrainedBeforeClose, connVars
<1>3. CASE \/ \E i \in Starts : ListenReturns(i)
           \/ \E c \in Conns : ConnOpen(c) \/ ConnClose(c) \/ ConnClosed(c)
           \/ Expire \/ UNCHANGED vars
  <2>1. /\ UNCHANGED <<srvVars, optVars, subVars, broker, open, th, running, draining>>
        /\ registry' \in {Nil, registry}
        /\ \/ listen' = listen
           \/ \E i \in Starts : listen' = [listen EXCEPT ![i] = "done"]
        /\ \/ conn' = conn
           \/ \E c \in Conns, p \in {"serving", "closing", "done"} : conn' = [conn EXCEPT ![c] = p]
    BY <1>3 DEF ListenReturns, ConnOpen, ConnClose, ConnClosed, Expire, vars, extVars, connVars
  <2>2. StateTypes' /\ Owed'
    BY <1>0, <2>1 DEF StateTypes, Owed, srvVars, optVars, subVars
  <2> QED
    BY <2>1, <2>2 DEF ServerInv, Places, DrainedBeforeClose
<1>4. CASE \E c \in Conns : ConnRequest(c)
  <2>1. PICK c \in Conns : ConnRequest(c)
    BY <1>4
  <2>2. /\ UNCHANGED <<srvVars, optVars, subVars, extVars, th, listen, conn, draining>>
        /\ running' = running \cup {c}
    BY <2>1 DEF ConnRequest
  <2>3. StateTypes' /\ Owed'
    BY <1>0, <2>2 DEF StateTypes, Owed, srvVars, optVars, subVars, extVars
  <2> QED
    BY <2>2, <2>3 DEF ServerInv, Places, DrainedBeforeClose
<1>5. CASE \E c \in Conns : RequestDone(c)
  <2>1. PICK c \in Conns : RequestDone(c)
    BY <1>5
  <2>2. /\ UNCHANGED <<srvVars, optVars, subVars, extVars, th, listen, conn>>
        /\ running' = running \ {c} /\ draining' = [i \in Starts |-> draining[i] \ {c}]
    BY <2>1 DEF RequestDone
  <2>3. StateTypes' /\ Owed'
    BY <1>0, <2>2 DEF StateTypes, Owed, srvVars, optVars, subVars, extVars
  <2>4. DrainedBeforeClose'
    BY <2>2 DEF ServerInv, DrainedBeforeClose
  <2> QED
    BY <2>2, <2>3, <2>4 DEF ServerInv, Places
<1>6. CASE \E c \in Conns : ConnError(c)
  <2>1. PICK c \in Conns : ConnError(c)
    BY <1>6
  <2>2. /\ UNCHANGED <<srvVars, optVars, subVars, extVars, listen, running, draining>>
        /\ conn' = [conn EXCEPT ![c] = "done"]
        /\ UNCHANGED th \/ \E u \in Users : At(u, "send") /\ Goto(u, "lost")
    BY <2>1 DEF ConnError
  <2>3. StateTypes' /\ Owed'
    BY <1>0, <2>2 DEF StateTypes, Owed, srvVars, optVars, subVars, extVars
  <2>4. CASE UNCHANGED th
    BY <2>2, <2>3, <2>4 DEF ServerInv, Places, DrainedBeforeClose
  <2>5. CASE \E u \in Users : Goto(u, "lost")
    <3>1. PICK u \in Users : Goto(u, "lost")
      BY <2>5
    <3>2. u \in Threads /\ u \notin Starts /\ "lost" \in PCs
      BY Kinds DEF PCs
    <3>3. /\ th' \in [Threads -> ThreadRecords] /\ \A s \in Threads \ {u} : th'[s] = th[s]
          /\ th'[u].pc = "lost"
      BY <1>0, <3>1, <3>2, GotoStep
    <3>4. Places(u)'
      BY <3>2, <3>3 DEF Places, UserPCs, Opening
    <3>5. (\A s \in Threads : Places(s)') /\ DrainedBeforeClose'
      BY <2>2, <3>2, <3>3, <3>4, OneThread
    <3> QED
      BY <2>3, <3>3, <3>5 DEF ServerInv
  <2> QED
    BY <2>2, <2>4, <2>5
<1> QED
  BY <1>1, <1>2, <1>3, <1>4, <1>5, <1>6 DEF Serving

(* Every step of the server keeps the invariant.                           *)
LEMMA ServerStep == ServerInv /\ [Next]_vars => ServerInv'
<1> SUFFICES ASSUME ServerInv, [Next]_vars PROVE ServerInv'
  OBVIOUS
<1>1. ASSUME NEW t \in Threads, Registration(t) PROVE ServerInv'
  BY <1>1, RegisterKeeps, DeregisterKeeps DEF Registration
<1>2. ASSUME NEW u \in Users, StartListen(u) \/ Starting(u) \/ StopSend(u) \/ StopReturn(u)
      PROVE  ServerInv'
  BY <1>2, StartKeeps, SpawnKeeps, SignalKeeps DEF Starting
<1>3. ASSUME NEW i \in Starts, Tick(i) \/ RegistrarExit(i) \/ Shutdown(i)
      PROVE  ServerInv'
  BY <1>3, RegistrarKeeps, CloseKeeps, SignalKeeps DEF Shutdown
<1>4. CASE \/ \E u \in Users : InitOptions(u) \/ \E b \in Subs : Subscribe(u, b)
           \/ \E i \in Starts : ListenReturns(i)
           \/ \E c \in Conns : Serving(c)
           \/ Expire \/ UNCHANGED vars
  BY <1>4, OtherKeeps
<1> QED
  BY <1>1, <1>2, <1>3, <1>4 DEF Next

(* Every variable has its type in every reachable state, for any users: in *)
(* particular the numbers of subscriptions never become negative, although *)
(* Deregister unsubscribes what an earlier Register remembered.            *)
THEOREM ServerTypeCorrect == Spec => []TypeOK
<1>1. Init => ServerInv
  BY ServerInitially
<1>2. ServerInv /\ [Next]_vars => ServerInv'
  BY ServerStep
<1>3. ServerInv => TypeOK
  BY ServerInvTypes
<1> QED
  BY <1>1, <1>2, <1>3, PTL DEF Spec

(* The server waits for its requests: when a registrar closes the          *)
(* transport, disconnects the broker or restores the address, with a wait  *)
(* group, every connection that was served at the exit signal is done. For *)
(* any users, starts and connections.                                      *)
THEOREM ServerDrains == Spec => []DrainedBeforeClose
<1>1. Init => ServerInv
  BY ServerInitially
<1>2. ServerInv /\ [Next]_vars => ServerInv'
  BY ServerStep
<1>3. ServerInv => DrainedBeforeClose
  BY DEF ServerInv
<1> QED
  BY <1>1, <1>2, <1>3, PTL DEF Spec

-----------------------------------------------------------------------------
(* A registrar that has not answered its Stop yet.                         *)
Active(i) == th[i].pc \in LoopPCs \cup {"wait", "close"}

(* Inside Register or Deregister.                                          *)
InRegistry == {"register", "cached", "fresh", "attempt", "commit", "dereg", "forget"}

(* A registrar without a Stop's channel is in its loop.                    *)
Unsignalled == \A i \in Starts : th[i].pc \in LoopPCs \ {"dereg", "forget"} => th[i].ch = Nil

(* At most one registrar is active.                                        *)
OneActive == \A i, j \in Starts : Active(i) /\ Active(j) => i = j

(* Where the user is tells whether there is an active registrar.           *)
Phase(u) ==
  /\ th[u].pc \in Opening \cup {"set"} => started = FALSE
  /\ th[u].pc \in {"send", "await", "lost", "answered"} => started = TRUE
  /\ th[u].pc \in Opening \cup {"answered"} \/ (th[u].pc = "idle" /\ started = FALSE)
       => \A i \in Starts : ~Active(i)
  /\ th[u].pc \in {"set", "send", "await", "lost"} \/ (th[u].pc = "idle" /\ started = TRUE)
       => \E i \in Starts : Active(i)
  /\ \A i \in Starts : Active(i) => (th[i].ch # Nil <=> th[u].pc = "await")

(* The turns of the user and its registrars.                               *)
Phases == Unsignalled /\ OneActive /\ \A u \in Users : Phase(u)

(* What a thread inside Register or Deregister relies on.                  *)
Relies(t) ==
  /\ th[t].pc = "cached" => registered = TRUE
  /\ th[t].pc = "attempt" => th[t].was = registered
  /\ th[t].pc = "commit" => registered = FALSE
  /\ th[t].pc = "forget" => registry = Nil

(* The flags, the registration and the subscriptions agree.                *)
Remembered ==
  /\ rsvc # Nil => registered = TRUE
  /\ registered = FALSE => subs = {}
  /\ registry # Nil => registered = TRUE \/ \E t \in Threads : th[t].pc = "commit"
  /\ \A b \in Subs : live[b] = stray[b] + IF b \in subs THEN 1 ELSE 0

(* A shutdown whose Deregister was refused, or that has deregistered.      *)
Undone(u) ==
  /\ \/ th[u].pc \in {"swap", "connect", "answered"}
     \/ th[u].pc = "idle" /\ started = FALSE
     \/ \E i \in Starts : th[i].pc \in {"wait", "close"}
  /\ registered = TRUE
  => kept = TRUE

(* The inductive invariant, for one user.                                  *)
SingleInv ==
  /\ ServerInv /\ kept \in BOOLEAN
  /\ Phases /\ Remembered
  /\ \A t \in Threads : Relies(t)
  /\ \A u \in Users : Undone(u)

(* Nobody has called Start.                                                *)
LEMMA SingleInitially == Init => SingleInv
<1> SUFFICES ASSUME Init PROVE SingleInv
  OBVIOUS
<1>1. \A t \in Threads : th[t].pc = "idle"
  BY DEF Init, Local
<1>2. \A i \in Starts : ~Active(i)
  BY <1>1, Kinds DEF Active, LoopPCs
<1>3. Phases
  BY <1>1, <1>2, Kinds DEF Init, Phases, Unsignalled, OneActive, Phase, Opening, LoopPCs
<1>4. Remembered
  BY DEF Init, Remembered
<1>5. \A t \in Threads : Relies(t)
  BY <1>1 DEF Relies
<1>6. \A u \in Users : Undone(u)
  BY DEF Init, Undone
<1> QED
  BY <1>3, <1>4, <1>5, <1>6, ServerInitially DEF Init, SingleInv

(* The user and the active registrar take turns with the registry.         *)
LEMMA OneActor ==
  ASSUME NEW v, Users = {v}, SingleInv, NEW t \in Threads, NEW s \in Threads,
         th[t].pc \in InRegistry, th[s].pc \in InRegistry
  PROVE  s = t
<1>1. \A x \in Threads : Places(x)
  BY DEF SingleInv, ServerInv
<1>2. \A x \in Users : th[x].pc \in InRegistry => \A i \in Starts : ~Active(i)
  BY <1>1, Kinds DEF SingleInv, Phases, Phase, InRegistry, Opening, Places, UserPCs
<1>3. \A i \in Starts : th[i].pc \in InRegistry => Active(i)
  BY DEF InRegistry, Active, LoopPCs
<1>4. OneActive
  BY DEF SingleInv, Phases
<1> QED
  BY <1>2, <1>3, <1>4, Kinds DEF OneActive

(* A step that leaves the active registrars as they are, and the user      *)
(* where it is or in Start.                                                *)
LEMMA PhasesKept ==
  ASSUME Phases, UNCHANGED started,
         \A i \in Starts : Active(i)' <=> Active(i),
         \A i \in Starts : Active(i) => th'[i].ch = th[i].ch,
         Unsignalled',
         \A u \in Users : th'[u].pc = th[u].pc \/ (th[u].pc \in Opening /\ th'[u].pc \in Opening)
  PROVE  Phases'
<1>1. OneActive'
  BY DEF Phases, OneActive
<1>2. ASSUME NEW u \in Users PROVE Phase(u)'
  <2>1. Phase(u)
    BY DEF Phases
  <2>2. CASE th'[u].pc = th[u].pc
    BY <2>1, <2>2 DEF Phase
  <2>3. CASE th[u].pc \in Opening /\ th'[u].pc \in Opening
    BY <2>1, <2>3 DEF Phase, Opening
  <2> QED
    BY <2>2, <2>3
<1> QED
  BY <1>1, <1>2 DEF Phases

(* A user inside Register, or a registrar in its loop: the shutdown before *)
(* is over.                                                                *)
LEMMA NothingUndone ==
  ASSUME Phases', NEW u \in Users,
         \/ th'[u].pc \in Opening \ {"swap", "connect"}
         \/ \E i \in Starts : th'[i].pc \in LoopPCs
  PROVE  Undone(u)'
<1>1. Phase(u)' /\ OneActive'
  BY DEF Phases
<1>2. \A i \in Starts : /\ th'[i].pc \in {"wait", "close"} => Active(i)' /\ th'[i].pc \notin LoopPCs
                        /\ th'[i].pc \in LoopPCs => Active(i)'
  BY DEF Active, LoopPCs
<1>3. CASE th'[u].pc \in Opening \ {"swap", "connect"}
  <2>1. \A i \in Starts : ~Active(i)'
    BY <1>1, <1>3 DEF Phase
  <2> QED
    BY <1>2, <1>3, <2>1 DEF Undone, Opening
<1>4. CASE \E i \in Starts : th'[i].pc \in LoopPCs
  <2>1. PICK i \in Starts : th'[i].pc \in LoopPCs /\ Active(i)'
    BY <1>2, <1>4
  <2>2. /\ th'[u].pc \notin {"swap", "connect", "answered"}
        /\ ~(th'[u].pc = "idle" /\ started' = FALSE)
    BY <1>1, <2>1 DEF Phase, Opening
  <2>3. \A j \in Starts : th'[j].pc \notin {"wait", "close"}
    BY <1>1, <1>2, <2>1 DEF OneActive
  <2> QED
    BY <2>2, <2>3 DEF Undone
<1> QED
  BY <1>3, <1>4

(* Register, from Start or from the registrar.                             *)
LEMMA RegisterSingle ==
  ASSUME NEW v, Users = {v}, SingleInv, NEW t \in Threads,
         RegisterBegin(t) \/ RegisterRemembers(t) \/ TryRegister(t) \/ TryRegisterFails(t)
           \/ RegisterCommit(t)
  PROVE  SingleInv'
<1>0. /\ ServerInv /\ th \in [Threads -> ThreadRecords] /\ th[t] \in ThreadRecords /\ Places(t)
      /\ Phases /\ Remembered /\ Relies(t) /\ StateTypes
  BY DEF SingleInv, ServerInv
<1>1. /\ th[t].pc \in {"register", "cached", "fresh", "attempt", "commit"}
      /\ UNCHANGED <<started, known, stray, kept>>
  BY DEF RegisterBegin, RegisterRemembers, TryRegister, TryRegisterFails, RegisterCommit, At,
         srvVars, subVars
<1>2. /\ \A s \in Threads \ {t} : th'[s] = th[s]
      /\ th'[t].pc \in {"cached", "fresh", "attempt", "commit", Returns(t)}
      /\ th'[t].ch = th[t].ch
  BY <1>0, RegisterMoves
<1>3. Phases'
  <2>1. CASE t \in Users
    <3>1. t \notin Starts /\ th'[t].pc \in Opening /\ th[t].pc \in Opening
      BY <1>1, <1>2, <2>1, Kinds DEF Returns, Opening
    <3>2. \A i \in Starts : th'[i] = th[i]
      BY <1>2, <3>1, Kinds
    <3>3. /\ \A i \in Starts : (Active(i)' <=> Active(i)) /\ (Active(i) => th'[i].ch = th[i].ch)
          /\ Unsignalled'
      BY <1>0, <3>2 DEF Active, Phases, Unsignalled
    <3>4. \A u \in Users : th'[u].pc = th[u].pc \/ (th[u].pc \in Opening /\ th'[u].pc \in Opening)
      BY <1>2, <3>1, Kinds
    <3> QED
      BY <1>0, <1>1, <3>3, <3>4, PhasesKept
  <2>2. CASE t \in Starts
    <3>1. /\ t \notin Users /\ th'[t].pc \in LoopPCs \ {"dereg", "forget"}
          /\ th[t].pc \in LoopPCs \ {"dereg", "forget"}
      BY <1>1, <1>2, <2>2, Kinds DEF Returns, LoopPCs
    <3>2. \A i \in Starts : Active(i)' <=> Active(i)
      BY <1>2, <3>1, Kinds DEF Active
    <3>3. \A i \in Starts : th'[i].ch = th[i].ch
      BY <1>2, Kinds
    <3>4. Unsignalled'
      BY <1>0, <1>2, <3>1, <3>3, Kinds DEF Phases, Unsignalled
    <3>5. \A u \in Users : th'[u].pc = th[u].pc
      BY <1>2, <3>1, Kinds
    <3> QED
      BY <1>0, <1>1, <3>2, <3>3, <3>4, <3>5, PhasesKept
  <2> QED
    BY <2>1, <2>2, Kinds
<1>4. ASSUME NEW s \in Threads \ {t} PROVE Relies(s)' /\ th[s].pc # "commit"
  <2>1. th[s].pc \notin InRegistry
    BY <1>1, OneActor DEF InRegistry
  <2> QED
    BY <1>2, <2>1 DEF Relies, InRegistry
<1>5. ASSUME RegisterBegin(t) PROVE Remembered' /\ Relies(t)'
  <2>1. /\ UNCHANGED <<srvVars, subVars, registry>> /\ th[t].pc = "register"
        /\ th'[t].pc = IF rsvc # Nil THEN "cached" ELSE "fresh"
    BY <1>0, <1>5 DEF RegisterBegin, At, extVars, ThreadRecords
  <2>2. Relies(t)'
    BY <1>0, <2>1 DEF Relies, Remembered, srvVars
  <2>3. Remembered'
    BY <1>0, <1>4, <2>1 DEF Remembered, srvVars, subVars
  <2> QED
    BY <2>2, <2>3
<1>6. ASSUME RegisterRemembers(t) PROVE Remembered' /\ Relies(t)'
  <2>1. /\ UNCHANGED <<srvVars, subVars, registry>> /\ th[t].pc = "fresh"
        /\ th'[t].pc = "attempt" /\ th'[t].was = registered
    BY <1>0, <1>6 DEF RegisterRemembers, At, extVars, ThreadRecords
  <2>2. Relies(t)'
    BY <1>0, <2>1 DEF Relies, srvVars
  <2>3. Remembered'
    BY <1>0, <1>4, <2>1 DEF Remembered, srvVars, subVars
  <2> QED
    BY <2>2, <2>3
<1>7. ASSUME TryRegister(t) PROVE Remembered' /\ Relies(t)'
  <2>1. /\ UNCHANGED <<srvVars, subVars>> /\ th[t].pc \in {"cached", "attempt"}
        /\ \/ (th[t].pc = "cached" \/ th[t].was = TRUE) /\ th' = Finished(t)
           \/ th[t].pc = "attempt" /\ th[t].was = FALSE /\ Goto(t, "commit")
    BY <1>0, <1>7 DEF TryRegister, At, ThreadRecords
  <2>2. CASE (th[t].pc = "cached" \/ th[t].was = TRUE) /\ th' = Finished(t)
    <3>1. registered = TRUE /\ th'[t].pc \in {"spawn", "select"}
      BY <1>0, <2>1, <2>2, FinishedStep DEF Relies, Returns
    <3>2. Relies(t)'
      BY <3>1 DEF Relies
    <3>3. Remembered'
      BY <1>0, <2>1, <3>1 DEF Remembered, srvVars, subVars
    <3> QED
      BY <3>2, <3>3
  <2>3. CASE th[t].pc = "attempt" /\ th[t].was = FALSE /\ Goto(t, "commit")
    <3>1. registered = FALSE /\ th'[t].pc = "commit"
      BY <1>0, <2>3, GotoStep DEF Relies, PCs
    <3>2. Relies(t)'
      BY <2>1, <3>1 DEF Relies, srvVars
    <3>3. Remembered'
      BY <1>0, <2>1, <3>1 DEF Remembered, srvVars, subVars
    <3> QED
      BY <3>2, <3>3
  <2> QED
    BY <2>1, <2>2, <2>3
<1>8. ASSUME TryRegisterFails(t) PROVE Remembered' /\ Relies(t)'
  <2>1. /\ UNCHANGED <<srvVars, subVars, registry>> /\ th[t].pc \in {"cached", "attempt"}
        /\ \/ th' = Finished(t)
           \/ th' = [th EXCEPT ![t].tries = @ + 1]
    BY <1>0, <1>8 DEF TryRegisterFails, extVars
  <2>2. Relies(t)'
    <3>1. CASE th' = Finished(t)
      <4>1. th'[t].pc \in {"spawn", "select"}
        BY <1>0, <3>1, FinishedStep DEF Returns
      <4> QED
        BY <4>1 DEF Relies
    <3>2. CASE th' = [th EXCEPT ![t].tries = @ + 1]
      <4>1. th'[t].pc = th[t].pc /\ th'[t].was = th[t].was
        BY <1>0, <3>2 DEF ThreadRecords
      <4> QED
        BY <1>0, <2>1, <4>1 DEF Relies, srvVars
    <3> QED
      BY <2>1, <3>1, <3>2
  <2>3. Remembered'
    BY <1>0, <1>4, <2>1 DEF Remembered, srvVars, subVars
  <2> QED
    BY <2>2, <2>3
<1>9. ASSUME RegisterCommit(t) PROVE Remembered' /\ Relies(t)'
  <2>1. registered' = TRUE /\ th' = Finished(t) /\ th[t].pc = "commit"
    BY <1>9 DEF RegisterCommit, At
  <2>2. PICK done \in SUBSET known : ReSubscribe(done)
    BY <1>9 DEF RegisterCommit
  <2>3. registered = FALSE /\ subs = {} /\ known \subseteq Subs
    BY <1>0, <2>1 DEF Relies, Remembered, StateTypes
  <2>4. subs' = done /\ stray' = stray /\ \A b \in Subs : live[b] = stray[b]
    BY <1>0, <1>1, <2>2, <2>3 DEF ReSubscribe, Remembered, StateTypes
  <2>5. \A b \in Subs : live'[b] = stray'[b] + IF b \in subs' THEN 1 ELSE 0
    BY <1>0, <2>2, <2>4 DEF ReSubscribe, StateTypes
  <2>6. th'[t].pc \in {"spawn", "select"}
    BY <1>0, <2>1, FinishedStep DEF Returns
  <2> QED
    BY <2>1, <2>5, <2>6 DEF Remembered, Relies
<1>10. Remembered' /\ Relies(t)'
  BY <1>5, <1>6, <1>7, <1>8, <1>9
<1>11. ASSUME NEW u \in Users PROVE Undone(u)'
  <2>1. CASE t \in Users
    <3>1. t = u /\ th'[u].pc \in Opening \ {"swap", "connect"}
      BY <1>2, <2>1 DEF Returns, Opening
    <3> QED
      BY <1>3, <3>1, NothingUndone
  <2>2. CASE t \in Starts
    <3>1. th'[t].pc \in LoopPCs
      BY <1>2, <2>2, Kinds DEF Returns, LoopPCs
    <3> QED
      BY <1>3, <2>2, <3>1, NothingUndone
  <2> QED
    BY <2>1, <2>2, Kinds
<1>12. ServerInv' /\ kept' \in BOOLEAN
  BY <1>1, RegisterKeeps DEF SingleInv
<1> QED
  BY <1>3, <1>4, <1>10, <1>11, <1>12 DEF SingleInv

(* Deregister, from a registrar that was told to stop.                     *)
LEMMA DeregisterSingle ==
  ASSUME NEW v, Users = {v}, SingleInv, NEW t \in Threads,
         Deregister(t) \/ DeregisterFails(t) \/ DeregisterCommit(t)
  PROVE  SingleInv'
<1>0. /\ ServerInv /\ th \in [Threads -> ThreadRecords] /\ th[t] \in ThreadRecords /\ Places(t)
      /\ Phases /\ Remembered /\ Relies(t) /\ StateTypes /\ kept \in BOOLEAN
  BY DEF SingleInv, ServerInv
<1>1. /\ th[t].pc \in {"dereg", "forget"} /\ t \in Starts /\ t \notin Users /\ UNCHANGED started
  BY <1>0, Kinds DEF Deregister, DeregisterFails, DeregisterCommit, At, srvVars, Places, UserPCs
<1>2. PICK pc \in PCs : Goto(t, pc) /\ pc \in {"forget", DeregReturns(t)}
  BY DEF Deregister, DeregisterFails, DeregisterCommit, DeregReturns, PCs
<1>3. /\ \A s \in Threads \ {t} : th'[s] = th[s]
      /\ th'[t].pc = pc /\ th'[t].ch = th[t].ch
  BY <1>0, <1>2, GotoStep
<1>4. pc = DeregReturns(t) => (pc = "wait" /\ th[t].ch # Nil) \/ (pc = "register" /\ th[t].ch = Nil)
  BY DEF DeregReturns
<1>5. Phases'
  <2>1. \A i \in Starts : Active(i)' <=> Active(i)
    BY <1>1, <1>2, <1>3, <1>4, Kinds DEF Active, LoopPCs
  <2>2. \A i \in Starts : th'[i].ch = th[i].ch
    BY <1>3, Kinds
  <2>3. Unsignalled'
    BY <1>0, <1>2, <1>3, <1>4, <2>2, Kinds DEF Phases, Unsignalled, LoopPCs
  <2>4. \A u \in Users : th'[u].pc = th[u].pc
    BY <1>1, <1>3, Kinds
  <2> QED
    BY <1>0, <1>1, <2>1, <2>2, <2>3, <2>4, PhasesKept
<1>6. ASSUME NEW s \in Threads \ {t} PROVE Relies(s)' /\ th[s].pc # "commit"
  <2>1. th[s].pc \notin InRegistry
    BY <1>1, OneActor DEF InRegistry
  <2> QED
    BY <1>3, <2>1 DEF Relies, InRegistry
<1>7. CASE Deregister(t)
  <2>1. /\ UNCHANGED <<srvVars, subVars, kept>> /\ registry' = Nil /\ th'[t].pc = "forget"
    BY <1>0, <1>7, GotoStep DEF Deregister, PCs
  <2>2. Relies(t)' /\ Remembered'
    BY <1>0, <2>1 DEF Relies, Remembered, srvVars, subVars
  <2>3. \A u \in Users : Undone(u)'
    BY <1>1, <1>5, <2>1, NothingUndone DEF LoopPCs
  <2>4. ServerInv' /\ kept' \in BOOLEAN
    BY <1>0, <2>1, DeregisterKeeps
  <2> QED
    BY <1>5, <1>6, <2>2, <2>3, <2>4 DEF SingleInv
<1>8. CASE DeregisterFails(t)
  <2>1. /\ UNCHANGED <<srvVars, subVars, registry>> /\ th[t].pc = "dereg"
        /\ pc = DeregReturns(t) /\ th'[t].pc = pc
    <3>1. Goto(t, DeregReturns(t)) /\ DeregReturns(t) \in PCs
      BY <1>8 DEF DeregisterFails, DeregReturns, PCs
    <3>2. th'[t].pc = DeregReturns(t)
      BY <1>0, <3>1, GotoStep
    <3> QED
      BY <1>3, <1>8, <3>2 DEF DeregisterFails, At, extVars
  <2>2. kept' \in BOOLEAN /\ (th[t].ch # Nil => kept' = TRUE)
    BY <1>0, <1>8 DEF DeregisterFails
  <2>3. Relies(t)'
    BY <1>4, <2>1 DEF Relies
  <2>4. Remembered'
    BY <1>0, <1>6, <2>1 DEF Remembered, srvVars, subVars
  <2>5. \A u \in Users : Undone(u)'
    <3>1. CASE th[t].ch # Nil
      BY <2>2, <3>1 DEF Undone
    <3>2. CASE th[t].ch = Nil
      BY <1>1, <1>4, <1>5, <2>1, <3>2, NothingUndone DEF LoopPCs
    <3> QED
      BY <3>1, <3>2
  <2>6. ServerInv'
    BY <1>0, <1>8, DeregisterKeeps
  <2> QED
    BY <1>5, <1>6, <2>2, <2>3, <2>4, <2>5, <2>6 DEF SingleInv
<1>9. CASE DeregisterCommit(t)
  <2>1. PICK refused \in SUBSET subs :
        /\ rsvc' = Nil /\ registered' = FALSE /\ registry' = registry /\ UNCHANGED kept
        /\ \/ /\ registered = TRUE
              /\ live' = [b \in Subs |-> live[b] - IF b \in subs \ refused THEN 1 ELSE 0]
              /\ stray' = [b \in Subs |-> stray[b] + IF b \in refused THEN 1 ELSE 0]
              /\ subs' = {}
           \/ registered = FALSE /\ UNCHANGED <<live, stray, subs>>
        /\ th[t].pc = "forget" /\ pc = DeregReturns(t) /\ th'[t].pc = pc
    <3>1. Goto(t, DeregReturns(t)) /\ DeregReturns(t) \in PCs
      BY <1>9 DEF DeregisterCommit, DeregReturns, PCs
    <3>2. th'[t].pc = DeregReturns(t)
      BY <1>0, <3>1, GotoStep
    <3> QED
      BY <1>0, <1>3, <1>9, <3>2 DEF DeregisterCommit, LetGo, extVars, At, StateTypes
  <2>2. registry = Nil
    BY <1>0, <2>1 DEF Relies
  <2>3. subs' = {} /\ \A b \in Subs : live'[b] = stray'[b] + 0
    BY <1>0, <2>1 DEF Remembered, StateTypes
  <2>4. Remembered' /\ Relies(t)'
    BY <1>4, <2>1, <2>2, <2>3 DEF Remembered, Relies
  <2>5. \A u \in Users : Undone(u)'
    BY <2>1 DEF Undone
  <2>6. ServerInv' /\ kept' \in BOOLEAN
    BY <1>0, <1>9, <2>1, DeregisterKeeps
  <2> QED
    BY <1>5, <1>6, <2>4, <2>5, <2>6 DEF SingleInv
<1> QED
  BY <1>7, <1>8, <1>9

(* Steps of Start, and Stop's return, by a user that is not in the         *)
(* registry before or after.                                               *)
LEMMA StartSingle ==
  ASSUME NEW v, Users = {v}, SingleInv, NEW u \in Users,
         StartListen(u) \/ StartSwap(u) \/ StartConnect(u) \/ StartConnectFails(u)
           \/ StartCheck(u) \/ StartDone(u) \/ StopReturn(u)
  PROVE  SingleInv'
<1>0. /\ ServerInv /\ th \in [Threads -> ThreadRecords] /\ th[u] \in ThreadRecords /\ Places(u)
      /\ Phases /\ Remembered /\ StateTypes /\ kept \in BOOLEAN /\ u \in Threads /\ u \notin Starts
      /\ Undone(u) /\ Phase(u) /\ u = v
  BY Kinds DEF SingleInv, ServerInv, Phases
<1>1. UNCHANGED <<registered, rsvc, subVars, registry, kept>>
  BY DEF StartListen, StartSwap, StartConnect, StartConnectFails, StartCheck, StartDone,
         StopReturn, srvVars, extVars
<1>2. /\ \A s \in Threads \ {u} : th'[s] = th[s]
      /\ \/ th[u].pc = "idle" /\ th'[u].pc = "swap" /\ started = FALSE /\ started' = started
         \/ th[u].pc = "swap" /\ th'[u].pc = "connect" /\ started' = started
         \/ th[u].pc = "connect" /\ th'[u].pc \in {"check", "idle"} /\ started' = started
         \/ th[u].pc = "check" /\ th'[u].pc \in {"register", "spawn"} /\ started' = started
         \/ th[u].pc = "set" /\ th'[u].pc = "idle" /\ started' = TRUE
         \/ th[u].pc = "answered" /\ th'[u].pc = "idle" /\ started' = FALSE
  <2>1. CASE StartListen(u)
    <3>1. PICK p : th' = [th EXCEPT ![u].pc = "swap", ![u].addr = address, ![u].port = p]
      BY <2>1 DEF StartListen
    <3>2. th'[u].pc = "swap" /\ \A s \in Threads \ {u} : th'[s] = th[s]
      BY <1>0, <3>1 DEF ThreadRecords
    <3>3. started = FALSE /\ started' = started /\ th[u].pc = "idle"
      BY <1>0, <2>1 DEF StartListen, At, srvVars, StateTypes
    <3> QED
      BY <3>2, <3>3
  <2>2. CASE StartConnectFails(u)
    BY <1>0, <2>2 DEF StartConnectFails, At, srvVars, Local
  <2>3. CASE StartSwap(u) \/ StartConnect(u) \/ StartCheck(u) \/ StartDone(u) \/ StopReturn(u)
    <3>1. PICK pc \in PCs :
            /\ Goto(u, pc)
            /\ \/ th[u].pc = "swap" /\ pc = "connect" /\ started' = started
               \/ th[u].pc = "connect" /\ pc = "check" /\ started' = started
               \/ th[u].pc = "check" /\ pc \in {"register", "spawn"} /\ started' = started
               \/ th[u].pc = "set" /\ pc = "idle" /\ started' = TRUE
               \/ th[u].pc = "answered" /\ pc = "idle" /\ started' = FALSE
      BY <2>3 DEF StartSwap, StartConnect, StartCheck, StartDone, StopReturn, At, srvVars, PCs
    <3>2. th'[u].pc = pc /\ \A s \in Threads \ {u} : th'[s] = th[s]
      BY <1>0, <3>1, GotoStep
    <3> QED
      BY <3>1, <3>2
  <2> QED
    BY <2>1, <2>2, <2>3
<1>3. \A i \in Starts : th'[i] = th[i]
  BY <1>0, <1>2, Kinds
<1>4. \A i \in Starts : Active(i)' <=> Active(i)
  BY <1>3 DEF Active
<1>5. Phases'
  <2>1. Phase(u)'
    <3>1. (th'[u].pc = "await") = FALSE /\ (th[u].pc = "await") = FALSE
      BY <1>2
    <3>2. \A i \in Starts : Active(i)' => ~(th'[i].ch # Nil)
      BY <1>0, <1>3, <1>4, <3>1 DEF Phase
    <3>3. /\ th'[u].pc \in Opening => started' = FALSE /\ \A i \in Starts : ~Active(i)
          /\ th'[u].pc \in Opening \cup {"idle"}
          /\ th'[u].pc = "idle" /\ started' = FALSE => \A i \in Starts : ~Active(i)
          /\ th'[u].pc = "idle" /\ started' = TRUE => \E i \in Starts : Active(i)
      BY <1>0, <1>2 DEF Phase, Opening
    <3> QED
      BY <1>4, <3>2, <3>3 DEF Phase, Opening
  <2>2. OneActive' /\ Unsignalled'
    BY <1>0, <1>3, <1>4 DEF Phases, OneActive, Unsignalled
  <2> QED
    BY <1>0, <2>1, <2>2 DEF Phases
<1>6. ASSUME NEW s \in Threads PROVE Relies(s)'
  <2>1. CASE s = u
    BY <1>2, <2>1 DEF Relies
  <2>2. CASE s # u
    BY <1>1, <1>2, <2>2 DEF SingleInv, Relies
  <2> QED
    BY <2>1, <2>2
<1>7. Remembered'
  <2>1. \A t \in Threads : th[t].pc = "commit" => th'[t].pc = "commit"
    BY <1>2
  <2> QED
    BY <1>0, <1>1, <2>1 DEF Remembered, subVars
<1>8. Undone(u)'
  <2>1. \A i \in Starts : th'[i].pc \in {"wait", "close"} => Active(i)'
    BY DEF Active
  <2>2. CASE th'[u].pc \in {"check", "register", "spawn"}
    BY <1>0, <1>5, <2>2, NothingUndone DEF Opening
  <2>3. CASE th'[u].pc \in {"swap", "connect"} \/ (th'[u].pc = "idle" /\ started' = FALSE)
    <3>1. \/ th[u].pc \in {"swap", "connect", "answered"}
          \/ th[u].pc = "idle" /\ started = FALSE
      BY <1>0, <1>2, <2>3 DEF Phase, Opening
    <3> QED
      BY <1>0, <1>1, <3>1 DEF Undone
  <2>4. CASE th'[u].pc = "idle" /\ started' = TRUE
    <3>1. \/ th[u].pc = "set"
          \/ th[u].pc = "connect" /\ started = TRUE
      BY <1>2, <2>4
    <3>2. th[u].pc = "set"
      BY <1>0, <3>1 DEF Phase, Opening
    <3>3. ASSUME NEW i \in Starts PROVE th'[i].pc \notin {"wait", "close"}
      <4>1. th[i].pc \in {"wait", "close"} => Active(i) /\ th[i].ch # Nil
        BY Kinds DEF SingleInv, ServerInv, Places, Closing, Active
      <4> QED
        BY <1>0, <1>3, <3>2, <4>1 DEF Phase
    <3> QED
      BY <2>4, <3>3 DEF Undone
  <2> QED
    BY <1>0, <1>2, <2>2, <2>3, <2>4 DEF StateTypes
<1>9. ServerInv'
  BY <1>0, StartKeeps
<1> QED
  BY <1>0, <1>1, <1>5, <1>6, <1>7, <1>8, <1>9 DEF SingleInv

(* The end of Start: a registrar becomes active.                           *)
LEMMA SpawnSingle ==
  ASSUME NEW v, Users = {v}, SingleInv, NEW u \in Users, StartSpawn(u)
  PROVE  SingleInv'
<1>0. /\ ServerInv /\ th \in [Threads -> ThreadRecords] /\ th[u] \in ThreadRecords
      /\ Phases /\ Remembered /\ StateTypes /\ kept \in BOOLEAN /\ u \in Threads /\ u \notin Starts
      /\ Phase(u) /\ u = v /\ th[u].pc = "spawn"
  BY Kinds DEF SingleInv, ServerInv, Phases, StartSpawn, At
<1>1. UNCHANGED <<srvVars, subVars, registry, kept>>
  BY DEF StartSpawn, extVars
<1>2. PICK x \in Addrs \cup {Nil}, y \in Ports \cup {Nil} : x = th[u].addr /\ y = th[u].port
  BY <1>0 DEF ThreadRecords
<1> DEFINE a == [Local EXCEPT !.pc = "select", !.addr = x, !.port = y]
           b == [Local EXCEPT !.pc = "set"]
<1>3. PICK i \in Starts : th' = [th EXCEPT ![i] = a, ![u] = b]
  BY <1>2 DEF StartSpawn
<1>4. a.pc = "select" /\ a.ch = Nil /\ b.pc = "set"
  BY SpawnRecords, ZenonT(40)
<1> HIDE DEF a, b
<1>5. /\ i # u /\ i \in Threads /\ th'[i].pc = "select" /\ th'[i].ch = Nil /\ th'[u].pc = "set"
      /\ \A s \in Threads \ {i, u} : th'[s] = th[s]
  BY <1>0, <1>3, <1>4, Kinds
<1>6. \A j \in Starts : ~Active(j)
  BY <1>0 DEF Phase, Opening
<1>7. \A j \in Starts : Active(j)' <=> j = i
  <2>1. Active(i)'
    BY <1>5 DEF Active, LoopPCs
  <2>2. \A j \in Starts \ {i} : ~Active(j)'
    BY <1>0, <1>5, <1>6, Kinds DEF Active
  <2> QED
    BY <2>1, <2>2
<1>8. Phases'
  <2>1. Unsignalled'
    BY <1>0, <1>5, Kinds DEF Phases, Unsignalled
  <2>2. OneActive'
    BY <1>7 DEF OneActive
  <2>3. started' = FALSE
    BY <1>0, <1>1 DEF Phase, Opening, srvVars
  <2>4. Phase(u)'
    BY <1>5, <1>7, <2>3 DEF Phase, Opening
  <2> QED
    BY <1>0, <2>1, <2>2, <2>4 DEF Phases
<1>9. ASSUME NEW s \in Threads PROVE Relies(s)'
  <2>1. CASE s \in {i, u}
    BY <1>5, <2>1 DEF Relies
  <2>2. CASE s \notin {i, u}
    BY <1>1, <1>5, <2>2 DEF SingleInv, Relies, srvVars
  <2> QED
    BY <2>1, <2>2
<1>10. Remembered'
  <2>1. th[i].pc # "commit"
    BY <1>6 DEF Active, LoopPCs
  <2>2. \A t \in Threads : th[t].pc = "commit" => th'[t].pc = "commit"
    BY <1>0, <1>5, <2>1
  <2> QED
    BY <1>0, <1>1, <2>2 DEF Remembered, srvVars, subVars
<1>11. Undone(u)'
  BY <1>5, <1>8, NothingUndone DEF LoopPCs
<1>12. ServerInv'
  BY <1>0, SpawnKeeps
<1> QED
  BY <1>0, <1>1, <1>8, <1>9, <1>10, <1>11, <1>12 DEF SingleInv

(* The exit signal reaches the registrar.                                  *)
LEMMA LeaveSingle ==
  ASSUME NEW v, Users = {v}, SingleInv, NEW i \in Starts, NEW u \in Users,
         th[i].pc = "select", th' = Leave(i, u),
         th[u].pc = "send" \/ (th[u].pc = "idle" /\ started = TRUE),
         UNCHANGED <<srvVars, subVars, extVars, kept>>, ServerInv'
  PROVE  SingleInv'
<1>0. /\ th \in [Threads -> ThreadRecords]
      /\ Phases /\ Remembered /\ StateTypes /\ kept \in BOOLEAN /\ u \in Threads /\ u \notin Starts
      /\ Phase(u) /\ u = v /\ i # u /\ i \in Threads
  BY Kinds DEF SingleInv, ServerInv, Phases
<1> DEFINE p == IF registered THEN "dereg" ELSE "wait"
<1>1. p \in {"dereg", "wait"} /\ (registered = TRUE => p = "dereg")
  OBVIOUS
<1>2. th' = [th EXCEPT ![i].ch = u, ![i].pc = p, ![u].pc = "await"]
  BY DEF Leave
<1> HIDE DEF p
<1>3. /\ \A s \in Threads \ {i, u} : th'[s] = th[s]
      /\ th'[i].pc = p /\ th'[i].ch = u /\ th'[u].pc = "await"
  BY <1>0, <1>2 DEF ThreadRecords
<1>4. Active(i) /\ \A j \in Starts : Active(j) => j = i
  BY <1>0 DEF Active, LoopPCs, Phases, OneActive
<1>5. \A j \in Starts : Active(j)' <=> j = i
  <2>1. Active(i)'
    BY <1>1, <1>3 DEF Active, LoopPCs
  <2>2. \A j \in Starts \ {i} : ~Active(j)'
    BY <1>0, <1>3, <1>4, Kinds DEF Active
  <2> QED
    BY <2>1, <2>2
<1>6. started' = TRUE
  BY <1>0 DEF Phase, srvVars
<1>7. Phases'
  <2>1. Unsignalled'
    BY <1>0, <1>1, <1>3, Kinds DEF Phases, Unsignalled, LoopPCs
  <2>2. OneActive'
    BY <1>5 DEF OneActive
  <2>3. Phase(u)'
    BY <1>3, <1>5, <1>6, Kinds DEF Phase, Opening
  <2> QED
    BY <1>0, <2>1, <2>2, <2>3 DEF Phases
<1>8. ASSUME NEW s \in Threads PROVE Relies(s)'
  <2>1. CASE s \in {i, u}
    BY <1>1, <1>3, <2>1 DEF Relies
  <2>2. CASE s \notin {i, u}
    BY <1>3, <2>2 DEF SingleInv, Relies, srvVars, extVars
  <2> QED
    BY <2>1, <2>2
<1>9. Remembered'
  <2>1. \A t \in Threads \ {u} : th[t].pc = "commit" => th'[t].pc = "commit"
    BY <1>3
  <2>2. th[u].pc # "commit"
    BY <1>0, <1>4 DEF Phase, Opening
  <2> QED
    BY <1>0, <2>1, <2>2 DEF Remembered, srvVars, subVars, extVars
<1>10. Undone(u)'
  <2>1. CASE registered = TRUE
    BY <1>1, <1>3, <1>7, <2>1, NothingUndone DEF LoopPCs
  <2>2. CASE registered # TRUE
    BY <2>2 DEF Undone, srvVars
  <2> QED
    BY <2>1, <2>2
<1> QED
  BY <1>0, <1>7, <1>8, <1>9, <1>10 DEF SingleInv

(* A user that goes from one place to another where it waits for the same. *)
LEMMA UserWaits ==
  ASSUME NEW v, Users = {v}, SingleInv, NEW u \in Users, NEW pc \in {"send", "lost"},
         th[u].pc = "send" \/ (th[u].pc = "idle" /\ started = TRUE), Goto(u, pc),
         UNCHANGED <<srvVars, subVars, extVars, kept>>, ServerInv'
  PROVE  SingleInv'
<1>0. /\ th \in [Threads -> ThreadRecords]
      /\ Phases /\ Remembered /\ kept \in BOOLEAN /\ u \in Threads /\ u \notin Starts
      /\ Phase(u) /\ Undone(u) /\ u = v /\ pc \in PCs
  BY Kinds DEF SingleInv, ServerInv, Phases, PCs
<1>1. th'[u].pc = pc /\ \A s \in Threads \ {u} : th'[s] = th[s]
  BY <1>0, GotoStep
<1>2. \A i \in Starts : th'[i] = th[i] /\ (Active(i)' <=> Active(i))
  BY <1>0, <1>1, Kinds DEF Active
<1>3. started = TRUE /\ started' = TRUE
  BY <1>0 DEF Phase, srvVars
<1>4. Phases'
  <2>1. OneActive' /\ Unsignalled'
    BY <1>0, <1>2 DEF Phases, OneActive, Unsignalled
  <2>2. Phase(u)'
    BY <1>0, <1>1, <1>2, <1>3 DEF Phase, Opening
  <2> QED
    BY <1>0, <2>1, <2>2 DEF Phases
<1>5. \A s \in Threads : Relies(s)'
  BY <1>1 DEF SingleInv, Relies, srvVars, extVars
<1>6. Remembered'
  <2>1. \A t \in Threads : th[t].pc = "commit" => th'[t].pc = "commit"
    BY <1>1
  <2> QED
    BY <1>0, <2>1 DEF Remembered, srvVars, subVars, extVars
<1>7. Undone(u)'
  BY <1>0, <1>1, <1>2, <1>3 DEF Undone, srvVars
<1> QED
  BY <1>0, <1>4, <1>5, <1>6, <1>7 DEF SingleInv

(* Whichever side of the channel comes first.                              *)
LEMMA SignalSingle ==
  ASSUME NEW v, Users = {v}, SingleInv,
         \/ \E u \in Users : StopSend(u)
         \/ \E i \in Starts : RegistrarExit(i)
  PROVE  SingleInv'
<1>0. /\ UNCHANGED <<srvVars, subVars, extVars, kept>> /\ ServerInv' /\ started \in BOOLEAN
  BY SignalKeeps DEF StopSend, RegistrarExit, SingleInv, ServerInv, StateTypes
<1>1. ASSUME NEW u \in Users, StopSend(u) PROVE SingleInv'
  <2>1. th[u].pc = "idle" /\ started = TRUE
    BY <1>0, <1>1 DEF StopSend, At
  <2>2. \/ \E i \in Starts : th[i].pc = "select" /\ th' = Leave(i, u)
        \/ Goto(u, "send")
    BY <1>1 DEF StopSend, At
  <2> QED
    BY <1>0, <2>1, <2>2, LeaveSingle, UserWaits
<1>2. ASSUME NEW i \in Starts, RegistrarExit(i) PROVE SingleInv'
  <2>1. th[i].pc = "select" /\ \E u \in Users : th[u].pc = "send" /\ th' = Leave(i, u)
    BY <1>2 DEF RegistrarExit, At
  <2> QED
    BY <1>0, <2>1, LeaveSingle
<1> QED
  BY <1>1, <1>2

(* The registrar's other steps.                                            *)
LEMMA RegistrarSingle ==
  ASSUME NEW v, Users = {v}, SingleInv, NEW i \in Starts,
         Tick(i) \/ RegistrarWait(i) \/ RegistrarDisconnect(i) \/ RegistrarRestore(i)
  PROVE  SingleInv'
<1>0. /\ ServerInv /\ th \in [Threads -> ThreadRecords] /\ th[i] \in ThreadRecords
      /\ Phases /\ Remembered /\ kept \in BOOLEAN /\ i \in Threads /\ i \notin Users
  BY Kinds DEF SingleInv, ServerInv
<1>1. UNCHANGED <<srvVars, subVars, registry, kept>>
  BY DEF Tick, RegistrarWait, RegistrarDisconnect, RegistrarRestore, extVars
<1>2. /\ \A s \in Threads \ {i} : th'[s] = th[s]
      /\ \/ th[i].pc = "select" /\ th'[i].pc \in {"register", "dereg", "select"} /\ th'[i].ch = th[i].ch
         \/ th[i].pc = "wait" /\ th'[i].pc = "close" /\ th'[i].ch = th[i].ch
         \/ th[i].pc = "disconnect" /\ th'[i].pc = "restore"
         \/ th[i].pc = "restore" /\ th'[i].pc = "off"
  <2>1. CASE Tick(i) \/ RegistrarWait(i) \/ RegistrarDisconnect(i)
    <3>1. PICK pc \in PCs :
            /\ Goto(i, pc)
            /\ \/ th[i].pc = "select" /\ pc \in {"register", "dereg", "select"}
               \/ th[i].pc = "wait" /\ pc = "close"
               \/ th[i].pc = "disconnect" /\ pc = "restore"
      BY <2>1 DEF Tick, RegistrarWait, RegistrarDisconnect, At, PCs
    <3> QED
      BY <1>0, <3>1, GotoStep
  <2>2. CASE RegistrarRestore(i)
    <3>1. PICK c : th' = [th EXCEPT ![i] = [Local EXCEPT !.pc = "off", !.ch = c]]
      BY <2>2 DEF RegistrarRestore
    <3>2. [Local EXCEPT !.pc = "off", !.ch = c].pc = "off"
      BY DEF Local
    <3> QED
      BY <1>0, <2>2, <3>1, <3>2 DEF RegistrarRestore, At
  <2> QED
    BY <2>1, <2>2
<1>3. \A j \in Starts : (Active(j)' <=> Active(j)) /\ (Active(j) => th'[j].ch = th[j].ch)
  BY <1>2, Kinds DEF Active, LoopPCs
<1>4. Unsignalled'
  BY <1>0, <1>2, Kinds DEF Phases, Unsignalled, LoopPCs
<1>5. \A u \in Users : th'[u] = th[u]
  BY <1>0, <1>2, Kinds
<1>6. Phases'
  BY <1>0, <1>1, <1>3, <1>4, <1>5, PhasesKept DEF srvVars
<1>7. ASSUME NEW s \in Threads PROVE Relies(s)'
  <2>1. CASE s = i
    BY <1>2, <2>1 DEF Relies
  <2>2. CASE s # i
    BY <1>1, <1>2, <2>2 DEF SingleInv, Relies, srvVars
  <2> QED
    BY <2>1, <2>2
<1>8. Remembered'
  <2>1. \A t \in Threads : th[t].pc = "commit" => th'[t].pc = "commit"
    BY <1>2
  <2> QED
    BY <1>0, <1>1, <2>1 DEF Remembered, srvVars, subVars
<1>9. \A u \in Users : Undone(u)'
  <2>1. \A j \in Starts : th'[j].pc \in {"wait", "close"} => th[j].pc \in {"wait", "close"}
    BY <1>2, Kinds
  <2> QED
    BY <1>1, <1>5, <2>1 DEF SingleInv, Undone, srvVars
<1>10. ServerInv'
  BY <1>0, RegistrarKeeps
<1> QED
  BY <1>0, <1>1, <1>6, <1>7, <1>8, <1>9, <1>10 DEF SingleInv

(* The answer to Stop: the registrar is no longer active.                  *)
LEMMA CloseSingle ==
  ASSUME NEW v, Users = {v}, SingleInv, NEW i \in Starts, RegistrarClose(i)
  PROVE  SingleInv'
<1>0. /\ ServerInv /\ th \in [Threads -> ThreadRecords] /\ th[i] \in ThreadRecords /\ Places(i)
      /\ Phases /\ Remembered /\ kept \in BOOLEAN /\ i \in Threads /\ i \notin Users
      /\ th[i].pc = "close"
  BY Kinds DEF SingleInv, ServerInv, RegistrarClose, At
<1>1. PICK u \in Users : u = th[i].ch
  BY <1>0 DEF Places, Closing, ThreadRecords
<1>2. /\ th' = [th EXCEPT ![i].pc = "disconnect", ![u].pc = "answered"]
      /\ u \in Threads /\ u \notin Starts /\ u # i
      /\ UNCHANGED <<srvVars, subVars, registry, kept>>
  BY <1>1, Kinds DEF RegistrarClose
<1>3. /\ \A s \in Threads \ {i, u} : th'[s] = th[s]
      /\ th'[i].pc = "disconnect" /\ th'[u].pc = "answered"
  BY <1>0, <1>2 DEF ThreadRecords
<1>4. Active(i) /\ (\A j \in Starts : Active(j) => j = i) /\ Phase(u) /\ Undone(u)
  BY <1>0 DEF Active, Phases, OneActive, SingleInv
<1>5. \A j \in Starts : ~Active(j)'
  BY <1>0, <1>2, <1>3, <1>4, Kinds DEF Active, LoopPCs
<1>6. th[u].pc = "await" /\ started' = TRUE
  <2>1. th[u].pc = "await"
    BY <1>1, <1>4, Kinds DEF Phase
  <2> QED
    BY <1>2, <1>4, <2>1 DEF Phase, srvVars
<1>7. Phases'
  <2>1. Unsignalled'
    BY <1>0, <1>2, <1>3, Kinds DEF Phases, Unsignalled, LoopPCs
  <2>2. OneActive' /\ Phase(u)'
    BY <1>3, <1>5, <1>6 DEF OneActive, Phase, Opening
  <2> QED
    BY <2>1, <2>2 DEF Phases
<1>8. ASSUME NEW s \in Threads PROVE Relies(s)'
  <2>1. CASE s \in {i, u}
    BY <1>3, <2>1 DEF Relies
  <2>2. CASE s \notin {i, u}
    BY <1>2, <1>3, <2>2 DEF SingleInv, Relies, srvVars
  <2> QED
    BY <2>1, <2>2
<1>9. Remembered'
  <2>1. \A t \in Threads : th[t].pc = "commit" => th'[t].pc = "commit"
    BY <1>0, <1>3, <1>6
  <2> QED
    BY <1>0, <1>2, <2>1 DEF Remembered, srvVars, subVars
<1>10. Undone(u)'
  BY <1>0, <1>2, <1>4 DEF Undone, srvVars
<1>11. ServerInv'
  BY <1>0, CloseKeeps
<1> QED
  BY <1>0, <1>2, <1>7, <1>8, <1>9, <1>10, <1>11 DEF SingleInv

(* The steps of the other parts.                                           *)
LEMMA OtherSingle ==
  ASSUME NEW v, Users = {v}, SingleInv,
         \/ \E u \in Users : InitOptions(u) \/ \E b \in Subs : Subscribe(u, b)
         \/ \E i \in Starts : ListenReturns(i)
         \/ \E c \in Conns : Serving(c)
         \/ Expire \/ UNCHANGED vars
  PROVE  SingleInv'
<1>0. ServerInv'
  BY OtherKeeps DEF SingleInv
<1>1. CASE UNCHANGED th
  <2>0. StateTypes /\ Remembered
    BY DEF SingleInv, ServerInv
  <2>1. /\ UNCHANGED <<started, registered, kept>> /\ subs' \subseteq subs
        /\ rsvc' \in {Nil, rsvc} /\ registry' \in {Nil, registry}
        /\ \A b \in Subs : live'[b] = stray'[b] + IF b \in subs' THEN 1 ELSE 0
    <3>0. CASE \E u \in Users : InitOptions(u)
      BY <2>0, <3>0 DEF InitOptions, srvVars, extVars, Remembered
    <3>1. CASE \E u \in Users, b \in Subs : Subscribe(u, b)
      <4>1. PICK b \in Subs : /\ UNCHANGED <<srvVars, live, extVars, kept>> /\ subs' = subs \ {b}
                              /\ stray' = [x \in Subs |-> stray[x] + IF x \in subs \cap {b} THEN 1
                                                                     ELSE 0]
        BY <3>1 DEF Subscribe, LetGo
      <4>2. ASSUME NEW x \in Subs PROVE live'[x] = stray'[x] + IF x \in subs' THEN 1 ELSE 0
        <5>1. live[x] = stray[x] + (IF x \in subs THEN 1 ELSE 0) /\ stray[x] \in Nat
          BY <2>0 DEF Remembered, StateTypes
        <5> QED
          BY <4>1, <5>1
      <4> QED
        BY <4>1, <4>2 DEF srvVars, extVars
    <3>2. CASE (\E i \in Starts : ListenReturns(i)) \/ Expire \/ UNCHANGED vars
      BY <2>0, <3>2 DEF ListenReturns, Expire, vars, srvVars, subVars, extVars, Remembered
    <3>3. CASE \E c \in Conns : Serving(c)
      BY <2>0, <3>3 DEF Serving, ConnOpen, ConnRequest, RequestDone, ConnClose, ConnClosed,
                        ConnError, srvVars, subVars, extVars, Remembered
    <3> QED
      BY <3>0, <3>1, <3>2, <3>3
  <2>2. Phases'
    BY <1>1, <2>1 DEF SingleInv, Phases, Phase, Unsignalled, OneActive, Active
  <2>3. Remembered' /\ \A t \in Threads : Relies(t)'
    BY <1>1, <2>1 DEF SingleInv, Remembered, Relies
  <2>4. \A u \in Users : Undone(u)'
    BY <1>1, <2>1 DEF SingleInv, Undone
  <2> QED
    BY <1>0, <2>1, <2>2, <2>3, <2>4 DEF SingleInv
<1>2. CASE ~UNCHANGED th
  <2>1. PICK u \in Users : /\ th[u].pc = "send" /\ Goto(u, "lost")
                           /\ UNCHANGED <<srvVars, subVars, extVars, kept>>
    BY <1>2 DEF InitOptions, Subscribe, ListenReturns, Expire, vars, Serving, ConnOpen,
                ConnRequest, RequestDone, ConnClose, ConnClosed, ConnError, At
  <2> QED
    BY <1>0, <2>1, UserWaits
<1> QED
  BY <1>1, <1>2

(* Every step of a server with one user keeps the invariant.               *)
LEMMA SingleStep ==
  ASSUME NEW v, Users = {v}, SingleInv, [Next]_vars PROVE SingleInv'
<1>1. ASSUME NEW t \in Threads, Registration(t) PROVE SingleInv'
  BY <1>1, RegisterSingle, DeregisterSingle DEF Registration
<1>2. ASSUME NEW u \in Users, StartListen(u) \/ Starting(u) \/ StopSend(u) \/ StopReturn(u)
      PROVE  SingleInv'
  BY <1>2, StartSingle, SpawnSingle, SignalSingle DEF Starting
<1>3. ASSUME NEW i \in Starts, Tick(i) \/ RegistrarExit(i) \/ Shutdown(i)
      PROVE  SingleInv'
  BY <1>3, RegistrarSingle, CloseSingle, SignalSingle DEF Shutdown
<1>4. CASE \/ \E u \in Users : InitOptions(u) \/ \E b \in Subs : Subscribe(u, b)
           \/ \E i \in Starts : ListenReturns(i)
           \/ \E c \in Conns : Serving(c)
           \/ Expire \/ UNCHANGED vars
  BY <1>4, OtherSingle
<1> QED
  BY <1>1, <1>2, <1>3, <1>4 DEF Next

(* What the invariant says of a server with one user.                      *)
LEMMA SingleSound ==
  ASSUME NEW v, Users = {v}, SingleInv
  PROVE  StoppedIsGone /\ OneRegistrar /\ SubscriptionsMatch
<1>0. v \in Users /\ v \in Threads /\ Phase(v) /\ Undone(v) /\ Remembered /\ StateTypes
  BY Kinds DEF SingleInv, ServerInv, Phases
<1>1. StoppedIsGone
  <2>1. SUFFICES ASSUME ~started, th[v].pc = "idle", registry # Nil PROVE kept
    BY <1>0 DEF StoppedIsGone, At
  <2>2. started = FALSE
    BY <1>0, <2>1 DEF StateTypes
  <2>3. ASSUME NEW t \in Threads PROVE th[t].pc # "commit"
    <3>1. CASE t \in Users
      BY <2>1, <3>1
    <3>2. CASE t \in Starts
      BY <1>0, <2>1, <2>2, <3>2 DEF Phase, Active, LoopPCs
    <3> QED
      BY <3>1, <3>2, Kinds
  <2>4. registered = TRUE
    BY <1>0, <2>1, <2>3 DEF Remembered
  <2> QED
    BY <1>0, <2>1, <2>2, <2>4 DEF Undone
<1>2. OneRegistrar
  <2>1. SUFFICES ASSUME started, th[v].pc \in {"idle", "send"} PROVE Cardinality(Looping) = 1
    BY <1>0 DEF OneRegistrar
  <2>2. started = TRUE
    BY <1>0, <2>1 DEF StateTypes
  <2>3. PICK i \in Starts : Active(i)
    BY <1>0, <2>1, <2>2 DEF Phase
  <2>4. i \in Looping
    BY <1>0, <2>1, <2>3 DEF Phase, Active, LoopPCs, Looping, Registrars
  <2>5. ASSUME NEW j \in Looping PROVE j = i
    <3>1. j \in Starts /\ th[j].pc \notin {"idle", "off"} /\ th[j].ch = Nil
      BY DEF Looping, Registrars
    <3>2. Places(j)
      BY <3>1, Kinds DEF SingleInv, ServerInv
    <3>3. Active(j)
      BY <3>1, <3>2 DEF Places, RegistrarPCs, Closing, Active
    <3> QED
      BY <2>3, <3>1, <3>3 DEF SingleInv, Phases, OneActive
  <2>6. Looping = {i}
    BY <2>4, <2>5
  <2> QED
    BY <2>6, FS_Singleton
<1>3. SubscriptionsMatch
  <2>1. ~registered => registered = FALSE
    BY <1>0 DEF StateTypes
  <2> QED
    BY <1>0, <2>1 DEF SubscriptionsMatch, Remembered
<1> QED
  BY <1>1, <1>2, <1>3

(* The invariant holds in every reachable state of a server with one user, *)
(* for any number of starts.                                               *)
THEOREM ServerSingleInvariant ==
  ASSUME NEW v, Users = {v} PROVE Spec => []SingleInv
<1>1. Init => SingleInv
  BY SingleInitially
<1>2. SingleInv /\ [Next]_vars => SingleInv'
  BY SingleStep
<1> QED
  BY <1>1, <1>2, PTL DEF Spec

(* A server that was stopped is out of the registry: when Stop has         *)
(* returned and no Start is under way, the registry has no node of it,     *)
(* unless the registry refused the Deregister. For one user, any starts,   *)
(* subscribers, connections and ports.                                     *)
THEOREM ServerStoppedIsGone ==
  ASSUME NEW v, Users = {v} PROVE Spec => []StoppedIsGone
<1>1. SingleInv => StoppedIsGone
  BY SingleSound
<1>2. Spec => []SingleInv
  BY ServerSingleInvariant
<1> QED
  BY <1>1, <1>2, PTL

(* A server that runs has one registrar, exactly: Start begins one, Stop   *)
(* meets the one that is there, and no old one is left in its loop after a *)
(* restart. For one user and any number of starts.                         *)
THEOREM ServerOneRegistrar ==
  ASSUME NEW v, Users = {v} PROVE Spec => []OneRegistrar
<1>1. SingleInv => OneRegistrar
  BY SingleSound
<1>2. Spec => []SingleInv
  BY ServerSingleInvariant
<1> QED
  BY <1>1, <1>2, PTL

(* The broker has one live subscription for each subscriber that the       *)
(* server remembers, besides those it let go because Unsubscribe failed or *)
(* because Subscribe was called again, and the server remembers none when  *)
(* it is not registered: neither a re-registration nor a restart doubles   *)
(* or leaks one. For one user and any number of starts.                    *)
THEOREM ServerSubscriptions ==
  ASSUME NEW v, Users = {v} PROVE Spec => []SubscriptionsMatch
<1>1. SingleInv => SubscriptionsMatch
  BY SingleSound
<1>2. Spec => []SingleInv
  BY ServerSingleInvariant
<1> QED
  BY <1>1, <1>2, PTL
=============================================================================
