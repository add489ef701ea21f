------------------------------ MODULE ApiRouter -----------------------------
(***************************************************************************)
(* The routers of the api gateway: the one that follows the registry       *)
(* (api/router/registry/registry.go) and the static one                    *)
(* (api/router/static/static.go), with what they take from                 *)
(* api/router/endpoint.go.                                                 *)
(*                                                                         *)
(* Two goroutines of the registry router store routes: one for every event *)
(* of its watcher, one that lists all services every ten minutes.  Each    *)
(* reads a service from the registry cache, which follows the registry     *)
(* with a delay of its own, and stores its routes later, under the lock.   *)
(* A service may have several versions; version v has the endpoints v and  *)
(* v + 1.  How an endpoint is matched with a request is the same in both   *)
(* routers.                                                                *)
(***************************************************************************)
EXTENDS Naturals, Sequences, SequencesExt, FiniteSets

CONSTANTS ArServices,    \* services of the registry
          ArMaxVersion,  \* their versions are 1..ArMaxVersion
          ArMaxChanges   \* bound on the changes of the registry

ASSUME ApiRouterAssumption == ArMaxVersion \in Nat /\ ArMaxChanges \in Nat

ArGoroutines == {"watch", "refresh"}

VARIABLES arReg,         \* service -> its versions in the registry
          arSeen,        \* history: service -> all that arReg was
          arChanges,     \* changes so far
          arEvents,      \* events the watcher has not returned yet
          arCache,       \* service -> its versions in the cache, {}: no entry
          arEps,         \* service -> its routes, r.eps
          arGo,          \* goroutine -> pc, service and versions it has read
          arTodo,        \* services the refresh has still to get
          arLost,        \* history: services with an event or a store lost
          arStopped,
          asEp,          \* static router: the endpoint registered, if any
          asReply,       \* static router: the last request and its reply
          asStopped

arRegVars == <<arReg, arSeen, arChanges, arEvents, arCache, arEps, arGo, arTodo, arLost, arStopped>>
asVars == <<asEp, asReply, asStopped>>
arVars == <<arRegVars, asVars>>
arRegistry == <<arReg, arSeen, arChanges>>

ArNoRead == [pc |-> "idle", service |-> {}, versions |-> {}]

(* The routes that store makes of the versions of a service: a key for     *)
(* every endpoint, with all versions that have it.                         *)
ArKeys(v) == {v, v + 1}
ArRoutes(versions) ==
  [k \in UNION {ArKeys(v) : v \in versions} |-> {v \in versions : k \in ArKeys(v)}]

ApiRouterInit ==
  /\ arReg = [s \in ArServices |-> {}] /\ arSeen = [s \in ArServices |-> {{}}] /\ arChanges = 0
  /\ arEvents = <<>> /\ arCache = arReg
  /\ arEps = [s \in ArServices |-> ArRoutes({})]
  /\ arGo = [g \in ArGoroutines |-> ArNoRead]
  /\ arTodo = {} /\ arLost = {} /\ arStopped = FALSE
  /\ asEp = {} /\ asReply = {} /\ asStopped = FALSE

-----------------------------------------------------------------------------
(* The registry (external): a version of a service is registered or        *)
(* removed, and this is an event.                                          *)
ArChange(s, versions) ==
  /\ arChanges < ArMaxChanges
  /\ arChanges' = arChanges + 1
  /\ arReg' = [arReg EXCEPT ![s] = versions]
  /\ arSeen' = [arSeen EXCEPT ![s] = @ \cup {versions}]
  /\ arEvents' = Append(arEvents, s)
  /\ UNCHANGED <<arCache, arEps, arGo, arTodo, arLost, arStopped>>

ArRegister(s) == \E v \in (1..ArMaxVersion) \ arReg[s] : ArChange(s, arReg[s] \cup {v})
ArDeregister(s) == \E v \in arReg[s] : ArChange(s, arReg[s] \ {v})

(* The cache has a watcher of its own, and entries that get too old: one   *)
(* of its entries becomes what the registry has now.                       *)
ArCacheFollows(s) ==
  /\ arCache[s] \notin {{}, arReg[s]}
  /\ arCache' = [arCache EXCEPT ![s] = arReg[s]]
  /\ UNCHANGED <<arRegistry, arEvents, arEps, arGo, arTodo, arLost, arStopped>>

(* The watcher fails: what it had not returned is lost, watch makes a new  *)
(* one.                                                                    *)
ArWatchFails ==
  /\ arEvents # <<>> /\ arGo["watch"].pc = "idle"
  /\ arLost' = arLost \cup Range(arEvents)
  /\ arEvents' = <<>>
  /\ UNCHANGED <<arRegistry, arCache, arEps, arGo, arTodo, arStopped>>

(* GetService of the cache: its entry, however old, or what the registry   *)
(* has, which becomes its entry; an error if there is nothing.             *)
ArEntry(s) == IF arCache[s] # {} THEN arCache[s] ELSE arReg[s]
ArRead(g, s) ==
  /\ arCache' = [arCache EXCEPT ![s] = ArEntry(s)]
  /\ arGo' = [arGo EXCEPT ![g] = IF ArEntry(s) = {} THEN ArNoRead
                                 ELSE [pc |-> "read", service |-> {s}, versions |-> ArEntry(s)]]

(* process: read the service of the event; an error leaves its routes.     *)
(* The events that Next returns after Stop are processed, too.             *)
ArProcess ==
  /\ arEvents # <<>> /\ arGo["watch"].pc = "idle"
  /\ arEvents' = Tail(arEvents)
  /\ ArRead("watch", Head(arEvents))
  /\ arLost' = IF ArEntry(Head(arEvents)) = {} THEN arLost \cup {Head(arEvents)} ELSE arLost
  /\ UNCHANGED <<arRegistry, arEps, arTodo, arStopped>>

(* refresh: list the services, then get and store one after the other.     *)
ArList ==
  /\ ~arStopped /\ arTodo = {} /\ arGo["refresh"].pc = "idle"
  /\ arTodo' = {s \in ArServices : arReg[s] # {}}
  /\ UNCHANGED <<arRegistry, arEvents, arCache, arEps, arGo, arLost, arStopped>>

ArGet(s) ==
  /\ s \in arTodo /\ arGo["refresh"].pc = "idle"
  /\ arTodo' = arTodo \ {s}
  /\ ArRead("refresh", s)
  /\ UNCHANGED <<arRegistry, arEvents, arEps, arLost, arStopped>>

(* Mutant: routes of the service that are gone are not deleted.            *)
ArReplaceKeeps(s, versions) ==
  arEps' = [arEps EXCEPT ![s] = [k \in DOMAIN arEps[s] \cup DOMAIN ArRoutes(versions) |->
              IF k \in DOMAIN ArRoutes(versions) THEN ArRoutes(versions)[k] ELSE arEps[s][k]]]

(* The routes of every service that store knows are deleted, then set.     *)
ArReplace(s, versions) == arEps' = [arEps EXCEPT ![s] = ArRoutes(versions)]

(* store, under the lock: what was read may be out of date by now, or have *)
(* been then.                                                              *)
ArStore(g, s) ==
  LET versions == arGo[g].versions
  IN  /\ arGo[g].pc = "read" /\ arGo[g].service = {s}
      /\ ArReplace(s, versions)
      /\ arLost' = IF versions = arReg[s] THEN arLost \ {s} ELSE arLost \cup {s}
      /\ arGo' = [arGo EXCEPT ![g] = ArNoRead]
      /\ UNCHANGED <<arRegistry, arEvents, arCache, arTodo, arStopped>>

ArStop ==
  /\ ~arStopped
  /\ arStopped' = TRUE
  /\ UNCHANGED <<arRegistry, arEvents, arCache, arEps, arGo, arTodo, arLost>>

-----------------------------------------------------------------------------
(* Endpoints and requests.  A host is a wildcard, a regexp that matches    *)
(* one host, or no regexp; a path is a template, a regexp between ^ and $, *)
(* or neither.  A request hits templates and regexps or not.               *)

ArEndpoints == [methods : SUBSET {"GET", "POST"},
                hosts : SeqOf({"*", "h1", "h2", "bad"}, 2),
                paths : SUBSET {"template", "pcre", "badpcre", "bad"}]
ArRequests == [method : {"GET"}, host : {"h1", "h2"}, hits : SUBSET {"template", "pcre"}]

(* Validate: a path between ^ and $ must compile.                          *)
ArValid(ep) == "badpcre" \notin ep.paths

(* Mutant: the compiled hosts are numbered from one, the hosts from zero.  *)
ArHostAtNext(ep, i, host) ==
  IF ep.hosts[i] = "*" THEN "match"
  ELSE IF i >= Len(ep.hosts) THEN "panic"
  ELSE IF ep.hosts[i + 1] = host THEN "match" ELSE "no"

(* The compiled hosts: wildcards and hosts that do not compile are left    *)
(* out, so that a position here need not be one in ep.hosts.               *)
ArHostRegs(ep) == SelectSeq(ep.hosts, LAMBDA h : h \notin {"*", "bad"})

(* The loop over hosts stops at the first match; a position past the end   *)
(* of the compiled ones panics.                                            *)
ArHostAt(ep, i, host) ==
  IF ep.hosts[i] = "*" THEN "match"
  ELSE IF i > Len(ArHostRegs(ep)) THEN "panic"
  ELSE IF ArHostRegs(ep)[i] = host THEN "match" ELSE "no"

ArHostMatch(ep, host) ==
  LET hit == {i \in DOMAIN ep.hosts : ArHostAt(ep, i, host) # "no"}
  IN  IF ep.hosts = <<>> THEN "match"
      ELSE IF hit = {} THEN "no"
      ELSE ArHostAt(ep, CHOOSE i \in hit : \A j \in hit : i <= j, host)

(* Endpoint: method, host, template paths and then regexp paths.           *)
ArMatch(ep, req) ==
  IF req.method \notin ep.methods THEN "no"
  ELSE IF ArHostMatch(ep, req.host) # "match" THEN ArHostMatch(ep, req.host)
  ELSE IF ep.paths \cap req.hits # {} THEN "match" ELSE "no"

(* Register refuses what is not valid or does not compile.                 *)
AsRegister ==
  /\ asEp = {}
  /\ \E ep \in ArEndpoints :
       /\ ArValid(ep) /\ "bad" \notin ep.paths /\ ~Contains(ep.hosts, "bad")
       /\ asEp' = {ep}
  /\ asReply' = {} /\ UNCHANGED asStopped

AsDeregister ==
  /\ asEp # {}
  /\ asEp' = {} /\ asReply' = {} /\ UNCHANGED asStopped

AsStop ==
  /\ ~asStopped
  /\ asStopped' = TRUE /\ asReply' = {} /\ UNCHANGED asEp

(* Route: refused after Stop; for an endpoint that matches, GetService may *)
(* fail.                                                                   *)
AsRoute(req) ==
  /\ asReply = {}
  /\ \E reply \in IF asStopped THEN {"closed"}
                  ELSE IF asEp = {} THEN {"no"}
                  ELSE LET m == ArMatch(CHOOSE ep \in asEp : TRUE, req)
                       IN  IF m = "match" THEN {"match", "no service"} ELSE {m} :
       asReply' = {[req |-> req, reply |-> reply]}
  /\ UNCHANGED <<asEp, asStopped>>

ApiRouterNext ==
  /\ \/ \E s \in ArServices : \/ ArRegister(s) \/ ArDeregister(s) \/ ArCacheFollows(s) \/ ArGet(s)
                              \/ \E g \in ArGoroutines : ArStore(g, s)
     \/ ArWatchFails \/ ArProcess \/ ArList \/ ArStop
  /\ UNCHANGED asVars

StaticRouterNext ==
  /\ AsRegister \/ AsDeregister \/ AsStop \/ \E req \in ArRequests : AsRoute(req)
  /\ UNCHANGED arRegVars

-----------------------------------------------------------------------------
ArUnderWay(s) == \/ Contains(arEvents, s)
                 \/ \E g \in ArGoroutines : arGo[g].service = {s}

(* Routes are of one moment.  The routes of a service are those of all the *)
(* versions that the registry had of it at one moment, never a mixture of  *)
(* two, whichever of the two goroutines stored last; and they are those of *)
(* its present versions when nothing is under way for it and nothing was   *)
(* lost: an event of a watcher that failed or of a service that was gone   *)
(* by then, or what was stored last was out of date, read from a cache     *)
(* that had not followed or overtaken by a newer store.                    *)
RoutesOfOneMoment ==
  \A s \in ArServices :
    /\ \E versions \in arSeen[s] : arEps[s] = ArRoutes(versions)
    /\ arEps[s] = ArRoutes(arReg[s]) \/ ArUnderWay(s) \/ s \in arLost

(* The static router answers as it should: an endpoint it accepted never   *)
(* makes it panic, and matches exactly the requests with one of its        *)
(* methods, one of its hosts (or any host, without hosts or with a         *)
(* wildcard) and one of its paths; once stopped it answers nothing.        *)
MatchesAsDeclared ==
  \A r \in asReply, ep \in asEp :
    LET declared == /\ r.req.method \in ep.methods
                    /\ ep.hosts = <<>> \/ Range(ep.hosts) \cap {"*", r.req.host} # {}
                    /\ ep.paths \cap r.req.hits # {}
    IN  r.reply \in IF asStopped THEN {"closed"}
                    ELSE IF declared THEN {"match", "no service"} ELSE {"no"}

=============================================================================
