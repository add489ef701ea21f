---------------------------- MODULE EtcdRegistry ----------------------------
(***************************************************************************)
(* The etcd registry: registry/etcd/etcd.go and watcher.go, in one process *)
(* that registers and deregisters its nodes one call at a time, as the     *)
(* server's loop does.                                                     *)
(*                                                                         *)
(* A node is a key of etcd with a lease; its value is the service with     *)
(* that node alone.  The process remembers the lease and a hash of the     *)
(* node, not of the service around it, and a Register that finds both      *)
(* unchanged only renews the lease.  etcd lets a lease expire at any time, *)
(* a call that fails may have been carried out, and Get, which is          *)
(* serializable, may be answered by a member that is behind.  There may be *)
(* keys of an earlier process, or of another program, from the start.      *)
(***************************************************************************)
EXTENDS Naturals, Sequences, FiniteSets

CONSTANTS EtNodes,
          EtNodeData,    \* what a node says: its address and metadata
          EtServiceData, \* what the service says: its version, metadata, endpoints
          EtLeft,        \* leases granted to earlier processes
          EtMaxOps,      \* bound on calls of Register and Deregister, one
                         \* of an earlier process included
          EtBatch        \* most events in one response of etcd's watch

ASSUME EtcdAssumption == EtLeft \in Nat /\ EtMaxOps \in Nat /\ EtBatch \in Nat \ {0}

VARIABLES etKv,          \* etcd: node -> [val, lease]; domain: the keys
          etLive,        \* etcd: leases that have not expired
          etGranted,     \* etcd: leases granted so far
          etPast,        \* etcd: node -> what its key has been, in some member
          etLeases,      \* e.leases
          etHash,        \* e.register
          etOp,          \* the call under way, or {}
          etOps, etPanic,
          etSure,        \* history: node -> the values its last Register stands for
          etDoubt,       \* history: nodes whose key is not what is remembered
          etEvents,      \* events the watcher has not got
          etView         \* the nodes as the watcher's results tell them

etVars == <<etKv, etPast, etLive, etGranted, etLeases, etHash, etOp, etOps, etPanic, etSure,
            etDoubt, etEvents, etView>>

etMem == <<etLeases, etHash>>
etStore == <<etKv, etPast, etEvents>>

EtValues == [node : EtNodeData, service : EtServiceData]

(* What a Get of a key may show: a value, or one that cannot be decoded,   *)
(* with a lease or without.  No key at all is as good as the last.         *)
EtSeen(leases) == [val : {{}} \cup {{v} : v \in EtValues}, lease : leases]
EtNoKey == [val |-> {}, lease |-> 0]

EtcdInit ==
  /\ \E left \in [EtNodes -> EtSeen(0..EtLeft)] :
       LET keys == {n \in EtNodes : left[n].val # {}}
           ValueOf(n) == CHOOSE v \in left[n].val : TRUE
       IN  /\ IsFiniteSet(keys)
           /\ etPast = [n \in EtNodes |-> {left[n]}]
           /\ etKv = [n \in keys |-> [val |-> ValueOf(n), lease |-> left[n].lease]]
           /\ etView = [n \in keys |-> ValueOf(n)]
           /\ etOps = IF \A n \in EtNodes : left[n] = EtNoKey THEN 0 ELSE 1
  /\ etLive = 1..EtLeft /\ etGranted = EtLeft
  /\ etLeases = <<>> /\ etHash = <<>>
  /\ etOp = {} /\ etPanic = FALSE
  /\ etSure = [n \in EtNodes |-> {}] /\ etDoubt = {}
  /\ etEvents = <<>>

EtWith(f, n, v) == [m \in DOMAIN f \cup {n} |-> IF m = n THEN v ELSE f[m]]
EtWithout(f, n) == [m \in DOMAIN f \ {n} |-> f[m]]

-----------------------------------------------------------------------------
(* etcd, as the code uses it: what it stores is told to the watcher.       *)
EtcdPut(n, v, lease) ==
  /\ etKv' = EtWith(etKv, n, [val |-> v, lease |-> lease])
  /\ etPast' = [etPast EXCEPT ![n] = @ \cup {[val |-> {v}, lease |-> lease]}]
  /\ etEvents' = Append(etEvents, [kind |-> "put", node |-> n, val |-> {v}, prev |-> {}])

EtcdDelete(N) ==
  /\ etKv' = [m \in DOMAIN etKv \ N |-> etKv[m]]
  /\ UNCHANGED etPast
  /\ \E order \in [1..Cardinality(N \cap DOMAIN etKv) -> N \cap DOMAIN etKv] :
       /\ \A i, j \in DOMAIN order : i # j => order[i] # order[j]
       /\ etEvents' = etEvents \o [i \in DOMAIN order |->
            [kind |-> "delete", node |-> order[i], val |-> {}, prev |-> {etKv[order[i]].val}]]

(* A lease expires, and its keys with it.                                  *)
EtcdExpires(l) ==
  LET keys == {n \in DOMAIN etKv : etKv[n].lease = l}
  IN  /\ l \in etLive
      /\ etLive' = etLive \ {l}
      /\ EtcdDelete(keys)
      /\ etSure' = [n \in EtNodes |-> IF n \in keys THEN {} ELSE etSure[n]]
      /\ etOp' = {[op EXCEPT !.lost = @ \/ (op.lease = l /\ op.pc \in {"check", "put"})] : op \in etOp}
      /\ UNCHANGED <<etGranted, etMem, etOps, etPanic, etView, etDoubt>>

-----------------------------------------------------------------------------
(* registerNode: is there a lease in memory?                               *)
EtRegister(n, v, ttl) ==
  /\ etOp = {} /\ etOps < EtMaxOps /\ ~etPanic
  /\ etOps' = etOps + 1
  /\ etOp' = {[node |-> n, val |-> v, ttl |-> ttl, notFound |-> FALSE, lost |-> FALSE,
               lease |-> IF n \in DOMAIN etLeases THEN etLeases[n] ELSE 0,
               pc |-> IF n \in DOMAIN etLeases THEN "renew" ELSE "get"]}
  /\ etSure' = [etSure EXCEPT ![n] = {}]
  /\ UNCHANGED <<etStore, etLive, etGranted, etMem, etPanic, etView, etDoubt>>

(* If not, ask etcd for the key, as some member has it.  A lease is taken  *)
(* over, and remembered with the hash if the value can be decoded; a key   *)
(* without a lease is passed over.                                         *)
EtGet(op, seen) ==
  LET n == op.node
  IN  /\ etOp = {op} /\ op.pc = "get" /\ seen \in etPast[n] \cup {EtNoKey}
      /\ etOp' = {[op EXCEPT !.pc = IF seen.lease > 0 THEN "renew" ELSE "check",
                             !.lease = seen.lease]}
      /\ \/ /\ seen.lease = 0 \/ seen.val = {}
            /\ UNCHANGED <<etMem, etDoubt>>
         \/ /\ seen.lease > 0
            /\ \E v \in seen.val :
                 /\ etLeases' = EtWith(etLeases, n, seen.lease)
                 /\ etHash' = EtWith(etHash, n, v.node)
                 /\ etDoubt' = IF n \in DOMAIN etKv /\ etKv[n] = [val |-> v, lease |-> seen.lease]
                               THEN etDoubt \ {n} ELSE etDoubt \cup {n}
      /\ UNCHANGED <<etStore, etLive, etGranted, etOps, etPanic, etSure, etView>>

(* Mutant: a lease that etcd does not know is as good as renewed.          *)
EtRenewAny(op) ==
  /\ etOp = {op} /\ op.pc = "renew"
  /\ etOp' = {[op EXCEPT !.pc = "check"]}
  /\ UNCHANGED <<etStore, etLive, etGranted, etMem, etOps, etPanic, etSure, etView, etDoubt>>

(* KeepAliveOnce.                                                          *)
EtRenew(op) ==
  /\ etOp = {op} /\ op.pc = "renew"
  /\ etOp' = {[op EXCEPT !.pc = "check", !.notFound = op.lease \notin etLive]}
  /\ UNCHANGED <<etStore, etLive, etGranted, etMem, etOps, etPanic, etSure, etView, etDoubt>>

(* The node's hash is compared, not the service's.                         *)
EtUnchanged(op) ==
  op.node \in DOMAIN etHash /\ etHash[op.node] = op.val.node /\ ~op.notFound

(* Unchanged and renewed: nothing to write, and what is there is some      *)
(* value with this node.  Otherwise a lease is granted; *)
(* a Register without a ttl has none, and reads the id of it all the same, *)
(* to log it.                                                              *)
EtCheck(op) ==
  /\ etOp = {op} /\ op.pc = "check"
  /\ \/ /\ EtUnchanged(op)
        /\ etOp' = {}
        /\ etSure' = [etSure EXCEPT ![op.node] = IF op.lost THEN {}
                                                  ELSE {w \in EtValues : w.node = op.val.node}]
        /\ UNCHANGED <<etLive, etGranted, etPanic>>
     \/ /\ ~EtUnchanged(op)
        /\ IF op.ttl
           THEN /\ etGranted' = etGranted + 1
                /\ etLive' = etLive \cup {etGranted + 1}
                /\ etOp' = {[op EXCEPT !.pc = "put", !.lease = etGranted + 1]}
                /\ UNCHANGED etPanic
           ELSE /\ etPanic' = TRUE /\ etOp' = {}
                /\ UNCHANGED <<etLive, etGranted>>
        /\ UNCHANGED etSure
  /\ UNCHANGED <<etStore, etMem, etOps, etView, etDoubt>>

(* Put with the lease, which must still be there; then the memory.         *)
EtPut(op) ==
  /\ etOp = {op} /\ op.pc = "put" /\ op.lease \in etLive
  /\ EtcdPut(op.node, op.val, op.lease)
  /\ etHash' = EtWith(etHash, op.node, op.val.node)
  /\ etLeases' = EtWith(etLeases, op.node, op.lease)
  /\ etSure' = [etSure EXCEPT ![op.node] = {op.val}]
  /\ etDoubt' = etDoubt \ {op.node}
  /\ etOp' = {}
  /\ UNCHANGED <<etLive, etGranted, etOps, etPanic, etView>>

(* Deregister forgets the node first and then deletes the key.             *)
EtDeregister(n) ==
  /\ etOp = {} /\ etOps < EtMaxOps /\ ~etPanic
  /\ etOps' = etOps + 1
  /\ etHash' = EtWithout(etHash, n) /\ etLeases' = EtWithout(etLeases, n)
  /\ etOp' = {[node |-> n, pc |-> "delete", lease |-> 0, lost |-> FALSE]}
  /\ etSure' = [etSure EXCEPT ![n] = {}]
  /\ UNCHANGED <<etStore, etLive, etGranted, etPanic, etView, etDoubt>>

EtDelete(op) ==
  /\ etOp = {op} /\ op.pc = "delete"
  /\ EtcdDelete({op.node})
  /\ etOp' = {}
  /\ UNCHANGED <<etLive, etGranted, etMem, etOps, etPanic, etSure, etView, etDoubt>>

(* A call to etcd fails and so does the operation; a write may have been   *)
(* made all the same.                                                      *)
EtFails(op) ==
  /\ etOp = {op} /\ (op.pc = "check" => ~EtUnchanged(op))
  /\ etOp' = {}
  /\ \/ UNCHANGED <<etStore, etDoubt>>
     \/ /\ op.pc = "put" /\ op.lease \in etLive
        /\ EtcdPut(op.node, op.val, op.lease)
        /\ etDoubt' = etDoubt \cup {op.node}
     \/ op.pc = "delete" /\ EtcdDelete({op.node}) /\ UNCHANGED etDoubt
  /\ UNCHANGED <<etLive, etGranted, etMem, etOps, etPanic, etSure, etView>>

-----------------------------------------------------------------------------
(* Next of the watcher: it takes a response and returns its first event; a *)
(* deleted key is known from the value before.                             *)
EtNext(k) ==
  LET ev == etEvents[1]
      of == IF ev.kind = "delete" THEN ev.prev ELSE ev.val
  IN  /\ k \in 1..EtBatch /\ k <= Len(etEvents)
      /\ etEvents' = SubSeq(etEvents, k + 1, Len(etEvents))
      /\ etView' = IF ev.kind = "delete" /\ of # {} THEN EtWithout(etView, ev.node)
                   ELSE IF of = {} THEN etView
                   ELSE EtWith(etView, ev.node, CHOOSE v \in of : TRUE)
      /\ UNCHANGED <<etKv, etPast, etLive, etGranted, etMem, etOp, etOps, etPanic, etSure, etDoubt>>

EtcdNext ==
  \/ \E n \in EtNodes : EtDeregister(n) \/ \E v \in EtValues, t \in BOOLEAN : EtRegister(n, v, t)
  \/ \E op \in etOp : \/ \E seen \in etPast[op.node] \cup {EtNoKey} : EtGet(op, seen)
                      \/ EtRenew(op) \/ EtCheck(op) \/ EtPut(op) \/ EtDelete(op)
                      \/ EtFails(op)
  \/ \E l \in etLive : EtcdExpires(l)
  \/ \E k \in 1..EtBatch : EtNext(k)

-----------------------------------------------------------------------------
(* A Register that returned without an error stands until the next call    *)
(* for the node, unless the lease has expired since it was renewed or      *)
(* granted: etcd has the value given if the Register wrote it, and a value *)
(* with this very node if it wrote nothing, for it remembers to have       *)
(* written; what else the service said then may be older.  Excepted is a   *)
(* node of which the process remembers what is not so: a Put that failed   *)
(* was made after all, or the key was taken over from a member that was    *)
(* behind.                                                                 *)
RegisteredIsThere ==
  \A n \in EtNodes \ etDoubt :
    etSure[n] # {} => n \in DOMAIN etKv /\ etKv[n].val \in etSure[n]

(* A watcher that has seen every event knows what etcd has; this is so     *)
(* when every response holds one event, for Next drops the others.         *)
WatcherMirrorsEtcd ==
  EtBatch = 1 /\ etEvents = <<>> => etView = [n \in DOMAIN etKv |-> etKv[n].val]

(* The registry, its watcher and etcd agree.                               *)
EtcdAgrees == RegisteredIsThere /\ WatcherMirrorsEtcd

=============================================================================
