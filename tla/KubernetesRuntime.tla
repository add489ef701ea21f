-------------------------- MODULE KubernetesRuntime -------------------------
(***************************************************************************)
(* The kubernetes runtime: runtime/kubernetes/kubernetes.go and service.go *)
(* on util/kubernetes/client and api.                                      *)
(*                                                                         *)
(* A micro service is two objects of the cluster, a deployment and a       *)
(* service, made and unmade by one request each.  A request may fail, and  *)
(* one that fails may have been carried out.  Create, Delete and Read hold *)
(* the runtime's lock; Update holds none.  An object is <<namespace,       *)
(* name, version>>.                                                        *)
(***************************************************************************)
EXTENDS Naturals, Sequences, FiniteSets

CONSTANTS KbSpaces, KbDefault,   \* namespaces; "default"
          KbNames, KbVersions,
          KbNoVersion,           \* the empty version
          KbMaxOps               \* bound on calls of Create, Delete, Update, Start

ASSUME KubernetesAssumption ==
  KbDefault \in KbSpaces /\ KbNoVersion \in KbVersions /\ KbMaxOps \in Nat

KbObjects == KbSpaces \X KbNames \X KbVersions

VARIABLES kbDeployments,   \* cluster: object -> was it updated; domain: those there
          kbServices,      \* cluster: set of objects
          kbSpaces,        \* cluster: its namespaces
          kbCache,         \* k.namespaces, {} when it is nil
          kbOp,            \* the Create or Delete that holds the lock, or {}
          kbUpdate,        \* the Update under way, or {}
          kbLoops,         \* goroutines of run
          kbEnding,        \* those of them whose channel is closed
          kbRunning,
          kbOps,
          kbPanic,
          kbOverlap        \* history: a Delete ran during the Update under way

kbVars == <<kbDeployments, kbServices, kbSpaces, kbCache, kbOp, kbUpdate, kbLoops, kbEnding, kbRunning,
            kbOps, kbPanic, kbOverlap>>

kbCluster == <<kbDeployments, kbServices, kbSpaces>>
kbLife == <<kbLoops, kbEnding, kbRunning>>

KubernetesInit ==
  /\ kbDeployments = <<>> /\ kbServices = {} /\ kbSpaces = {KbDefault}
  /\ kbCache = {} /\ kbOp = {} /\ kbUpdate = {}
  /\ kbLoops = 0 /\ kbEnding = 0 /\ kbRunning = FALSE /\ kbOps = 0
  /\ kbPanic = FALSE /\ kbOverlap = FALSE

-----------------------------------------------------------------------------
(* The requests.  POST of an object fails if it is there, DELETE and PATCH *)
(* fail if it is not: client.Create, Delete and Update, request and        *)
(* newResponse.                                                            *)
KbPostDeployment(x) ==
  /\ x \notin DOMAIN kbDeployments /\ x[1] \in kbSpaces
  /\ kbDeployments' = [y \in DOMAIN kbDeployments \cup {x} |->
                         IF y = x THEN FALSE ELSE kbDeployments[y]]
  /\ UNCHANGED <<kbServices, kbSpaces>>

KbPostService(x) ==
  /\ x \notin kbServices /\ x[1] \in kbSpaces
  /\ kbServices' = kbServices \cup {x}
  /\ UNCHANGED <<kbDeployments, kbSpaces>>

KbPostNamespace(s) ==
  /\ s \notin kbSpaces
  /\ kbSpaces' = kbSpaces \cup {s}
  /\ UNCHANGED <<kbDeployments, kbServices>>

KbDeleteService(x) ==
  /\ x \in kbServices
  /\ kbServices' = kbServices \ {x}
  /\ UNCHANGED <<kbDeployments, kbSpaces>>

KbDeleteDeployment(x) ==
  /\ x \in DOMAIN kbDeployments
  /\ kbDeployments' = [y \in DOMAIN kbDeployments \ {x} |-> kbDeployments[y]]
  /\ UNCHANGED <<kbServices, kbSpaces>>

KbPatch(x) ==
  /\ x \in DOMAIN kbDeployments
  /\ kbDeployments' = [kbDeployments EXCEPT ![x] = TRUE]
  /\ UNCHANGED <<kbServices, kbSpaces>>

(* The request a Create or a Delete has to make next.                      *)
KbRequest(op) ==
  \/ op.pc = "namespace" /\ KbPostNamespace(op.obj[1])
  \/ op.pc = "deployment" /\ KbPostDeployment(op.obj)
  \/ op.pc = "service" /\ KbPostService(op.obj)
  \/ op.pc = "delete service" /\ KbDeleteService(op.obj)
  \/ op.pc = "delete deployment" /\ KbDeleteDeployment(op.obj)

(* Mutant: Stop deletes the deployment before the service.                 *)
KbAfterSwapped(pc) ==
  CASE pc = "namespace" -> "deployment"
    [] pc = "deployment" -> "service"
    [] pc = "delete deployment" -> "delete service"
    [] OTHER -> "done"

(* The order of the requests: service.Start makes the deployment first,    *)
(* service.Stop deletes the service first.                                 *)
KbAfter(pc) ==
  CASE pc = "namespace" -> "deployment"
    [] pc = "deployment" -> "service"
    [] pc = "delete service" -> "delete deployment"
    [] OTHER -> "done"

-----------------------------------------------------------------------------
(* Create: namespaceExists fills the cache, the first time, and looks up   *)
(* the namespace; createNamespace if it is not there.                      *)
KbCreate(x) ==
  LET cache == IF kbCache = {} THEN kbSpaces ELSE kbCache
  IN  /\ kbOp = {} /\ kbOps < KbMaxOps
      /\ kbOps' = kbOps + 1
      /\ kbCache' = IF x[1] = KbDefault THEN kbCache ELSE cache
      /\ kbOp' = {[obj |-> x, pc |-> IF x[1] = KbDefault \/ x[1] \in cache THEN "deployment"
                                     ELSE "namespace"]}
      /\ UNCHANGED <<kbCluster, kbUpdate, kbLife, kbPanic, kbOverlap>>

KbDelete(x) ==
  /\ kbOp = {} /\ kbOps < KbMaxOps
  /\ kbOps' = kbOps + 1
  /\ kbOp' = {[obj |-> x, pc |-> CHOOSE pc \in {"delete service", "delete deployment"} :
                                    KbAfter(pc) # "done"]}
  /\ kbOverlap' = (kbOverlap \/ kbUpdate # {})
  /\ UNCHANGED <<kbCluster, kbCache, kbUpdate, kbLife, kbPanic>>

(* A request succeeds, and the next is due; a namespace goes to the cache. *)
KbRequested(op) ==
  /\ kbOp = {op}
  /\ KbRequest(op)
  /\ kbCache' = IF op.pc = "namespace" THEN kbCache \cup {op.obj[1]} ELSE kbCache
  /\ kbOp' = IF KbAfter(op.pc) = "done" THEN {} ELSE {[op EXCEPT !.pc = KbAfter(op.pc)]}
  /\ UNCHANGED <<kbUpdate, kbLife, kbOps, kbPanic, kbOverlap>>

(* A request fails, carried out or not, and with it the whole operation:   *)
(* nothing that was made before is taken back.                             *)
KbFailed(op) ==
  /\ kbOp = {op}
  /\ KbRequest(op) \/ UNCHANGED kbCluster
  /\ kbOp' = {}
  /\ UNCHANGED <<kbCache, kbUpdate, kbLife, kbOps, kbPanic, kbOverlap>>

-----------------------------------------------------------------------------
(* Update(s): getService asks for the services with this name, and this    *)
(* version if one is given, in the default namespace whatever the options  *)
(* say; then for the deployments.                                          *)
KbMatches(x, name, version) ==
  x[1] = KbDefault /\ x[2] = name /\ version \in {KbNoVersion, x[3]}

KbUpdate(name, version, space) ==
  /\ kbUpdate = {} /\ kbOps < KbMaxOps /\ ~kbPanic
  /\ kbOps' = kbOps + 1
  /\ kbUpdate' = {[pc |-> "services", name |-> name, version |-> version, space |-> space,
                   found |-> {}, route |-> {}, last |-> {}]}
  /\ kbOverlap' = (kbOp # {})
  /\ UNCHANGED <<kbCluster, kbCache, kbOp, kbLife, kbPanic>>

(* The pointer that each service found keeps to its object is the loop's   *)
(* variable: all of them end up at the one listed last, the route.         *)
KbGetServices(u) ==
  LET listed == {x \in kbServices : KbMatches(x, u.name, u.version)}
  IN  /\ kbUpdate = {u} /\ u.pc = "services"
      /\ \E route \in IF listed = {} THEN {{}} ELSE {{x} : x \in listed} :
           kbUpdate' = {[u EXCEPT !.pc = "deployments", !.found = listed, !.route = route]}
      /\ UNCHANGED <<kbCluster, kbCache, kbOp, kbLife, kbOps, kbPanic, kbOverlap>>

(* One of these requests fails, and getService with it.                    *)
KbGetFails(u) ==
  /\ kbUpdate = {u} /\ u.pc \in {"services", "deployments"}
  /\ kbUpdate' = {}
  /\ UNCHANGED <<kbCluster, kbCache, kbOp, kbLife, kbOps, kbPanic, kbOverlap>>

(* A service found without its deployment is dereferenced.  The pointer to *)
(* the deployment is the loop's variable too, so that all of the services  *)
(* share the deployment listed last.                                       *)
KbGetDeployments(u) ==
  LET listed == {x \in DOMAIN kbDeployments : KbMatches(x, u.name, u.version)}
  IN  /\ kbUpdate = {u} /\ u.pc = "deployments"
      /\ \/ /\ u.found \subseteq listed
            /\ \E last \in IF listed = {} THEN {{}} ELSE {{x} : x \in listed} :
                 kbUpdate' = IF u.found = {} THEN {} ELSE {[u EXCEPT !.pc = "patch", !.last = last]}
            /\ UNCHANGED kbPanic
         \/ /\ ~(u.found \subseteq listed)
            /\ kbUpdate' = {} /\ kbPanic' = TRUE
      /\ UNCHANGED <<kbCluster, kbCache, kbOp, kbLife, kbOps, kbOverlap>>

(* service.Update, once for each service found, is two requests: it        *)
(* patches the deployment, then the service; the first error ends Update,  *)
(* carried out or not.  Of a service no more is modelled than that it is   *)
(* there.                                                                  *)
KbPatches(u) ==
  /\ kbUpdate = {u} /\ u.pc = "patch"
  /\ \E x \in u.last :
       \/ /\ KbPatch(<<u.space, x[2], x[3]>>)
          /\ kbUpdate' \in {{[u EXCEPT !.pc = "patch service"]}, {}}
       \/ kbUpdate' = {} /\ UNCHANGED kbCluster
  /\ UNCHANGED <<kbCache, kbOp, kbLife, kbOps, kbPanic, kbOverlap>>

KbPatchesService(u) ==
  /\ kbUpdate = {u} /\ u.pc = "patch service"
  /\ \/ /\ \E x \in u.route : <<u.space, x[2], x[3]>> \in kbServices
        /\ \E y \in u.found :
             kbUpdate' = IF u.found = {y} THEN {} ELSE {[u EXCEPT !.pc = "patch", !.found = @ \ {y}]}
     \/ kbUpdate' = {}
  /\ UNCHANGED <<kbCluster, kbCache, kbOp, kbLife, kbOps, kbPanic, kbOverlap>>

-----------------------------------------------------------------------------
(* Start and Stop: run ends when it sees its channel closed.  It reads the *)
(* runtime's field each time round, so that one that was busy during a     *)
(* Stop and a Start waits on the new channel.                              *)
KbStart ==
  /\ kbOp = {} /\ ~kbRunning /\ kbOps < KbMaxOps
  /\ kbOps' = kbOps + 1
  /\ kbRunning' = TRUE /\ kbLoops' = kbLoops + 1
  /\ UNCHANGED <<kbCluster, kbCache, kbOp, kbUpdate, kbEnding, kbPanic, kbOverlap>>

KbStop ==
  /\ kbOp = {} /\ kbRunning
  /\ kbRunning' = FALSE /\ kbEnding' = kbLoops
  /\ UNCHANGED <<kbCluster, kbCache, kbOp, kbUpdate, kbLoops, kbOps, kbPanic, kbOverlap>>

KbRunEnds ==
  /\ kbEnding > 0
  /\ kbEnding' = kbEnding - 1 /\ kbLoops' = kbLoops - 1
  /\ UNCHANGED <<kbCluster, kbCache, kbOp, kbUpdate, kbRunning, kbOps, kbPanic, kbOverlap>>

KbRunMisses ==
  /\ kbEnding > 0 /\ kbRunning
  /\ kbEnding' = kbEnding - 1
  /\ UNCHANGED <<kbCluster, kbCache, kbOp, kbUpdate, kbLoops, kbRunning, kbOps, kbPanic, kbOverlap>>

(* run, an Update event: of the deployments listed those whose name is the *)
(* service's name, so those without a version.                             *)
KbEvent(name) ==
  /\ kbLoops > 0
  /\ \E x \in {y \in DOMAIN kbDeployments : y[1] = KbDefault /\ y[2] = name /\ y[3] = KbNoVersion} :
       KbPatch(x)
  /\ UNCHANGED <<kbCache, kbOp, kbUpdate, kbLife, kbOps, kbPanic, kbOverlap>>

KubernetesNext ==
  \/ \E x \in KbObjects : KbCreate(x) \/ KbDelete(x)
  \/ \E op \in kbOp : KbRequested(op) \/ KbFailed(op)
  \/ \E name \in KbNames, v \in KbVersions, s \in KbSpaces : KbUpdate(name, v, s)
  \/ \E u \in kbUpdate : KbGetServices(u) \/ KbGetFails(u) \/ KbGetDeployments(u)
  \/ \E u \in kbUpdate : KbPatches(u) \/ KbPatchesService(u)
  \/ KbStart \/ KbStop \/ KbRunEnds \/ KbRunMisses
  \/ \E name \in KbNames : KbEvent(name)

-----------------------------------------------------------------------------
(* A service never routes to a deployment that was not made or is gone,    *)
(* whatever request failed: the order of the requests is for this.  And    *)
(* Update, which relies on it, meets a service without its deployment only *)
(* when a Delete ran beside it.                                            *)
ServiceHasDeployment ==
  /\ kbServices \subseteq DOMAIN kbDeployments
  /\ kbPanic => kbOverlap

(* A runtime that runs has a loop that will go on, and one that was        *)
(* stopped has none.                                                       *)
LoopsFollowRunning ==
  IF kbRunning THEN kbLoops > kbEnding ELSE kbLoops = kbEnding

(* The runtime, its goroutines and the cluster agree.                      *)
KubernetesSound == ServiceHasDeployment /\ LoopsFollowRunning

=============================================================================
