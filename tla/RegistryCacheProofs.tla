------------------------- MODULE RegistryCacheProofs -------------------------
(***************************************************************************)
(* Proofs about RegistryCache, for any number of servers, services,        *)
(* versions, getters and watching goroutines and any bound on the calls: a *)
(* watched service always has its goroutine, an entry served without       *)
(* asking the registry is watched and has something in it, and update does *)
(* to an entry what the registry did to its records.                       *)
(*                                                                         *)
(* The cache takes its lock for each piece and never across, so none of    *)
(* this is a matter of one critical section. Between the mark of a getter  *)
(* and the start of the goroutine it made, running does not know that      *)
(* goroutine: only RunsOf does (Watching). A getter that fetches was       *)
(* preceded by a mark, its own or another's (Getting), and what it is      *)
(* about to store is not empty, because the error of the flight says so    *)
(* (FlightReturns). The entries may be the very objects that servers and   *)
(* events hold, and update writes into those: References says that they    *)
(* exist, and UpdatedObjs that they remain sets of nodes.                  *)
(***************************************************************************)
EXTENDS RegistryCache, FiniteSetTheorems, TLAPS

(* An entry of one version: a copy of nodes (obj = 0) or a shared object.  *)
Entry == [obj : Nat, nodes : SUBSET Servers]

(* The entries of one service.                                             *)
Entries == [Versions -> {Nil} \cup Entry]

(* What a sendEvent goroutine carries, and to whom it still offers it.     *)
Event == [id : Nat, action : {"update", "delete"}, service : Services, version : Versions,
          obj : Nat, to : {Nil} \cup SUBSET Watchers]

(* Where a call of GetService is.                                          *)
GetterPcs == {"idle", "mark", "fetch", "flight", "fetched", "store"}

(* A call of GetService: old is what it copied, new what the registry      *)
(* said.                                                                   *)
Getter == [pc : GetterPcs, service : Services \cup {Nil}, old : Views, new : Views,
           err : BOOLEAN, res : Views]

(* Where a run goroutine is.                                               *)
RunnerPcs == {"none", "start", "loop", "next", "event", "update"}

(* A run goroutine: its service and the event it is applying.              *)
Runner == [pc : RunnerPcs, service : Services \cup {Nil}, event : {Nil} \cup Event]

(* The service objects are numbered from 1 without a gap.                  *)
Objects == \E n \in Nat : objs \in [1..n -> SUBSET Servers]

(* The objects an entry shares exist.                                      *)
Refers(c) == \A v \in Versions : c[v] # Nil => c[v].obj \in DOMAIN objs \cup {0}

(* The types of all variables.                                             *)
CacheTypes ==
  /\ records \in [Services -> Views]
  /\ expired \subseteq Servers
  /\ watchers \in [Watchers -> {"none", "open", "stopped"}]
  /\ ops \in 0..MaxOps
  /\ events \subseteq Event
  /\ cache \in [Services -> {Nil} \cup Entries]
  /\ fresh \subseteq Services /\ watched \subseteq Services /\ running \subseteq Services
  /\ status \in {"nil", "err"} /\ stopped \in BOOLEAN
  /\ run \in [Runners -> Runner]
  /\ get \in [Getters -> Getter]
  /\ flight \in [Services -> SUBSET Getters]
  /\ DOMAIN rsvc = Servers

(* Nothing refers to an object that was not made: not an event, not a      *)
(* server, not the cache, not an event that is being applied.              *)
References ==
  /\ \A e \in events : e.obj \in DOMAIN objs
  /\ \A p \in Servers : rsvc[p] = Nil \/ rsvc[p] \in DOMAIN objs
  /\ \A s \in Services : cache[s] # Nil => Refers(cache[s])
  /\ \A r \in Runners : run[r].pc \in {"event", "update"} =>
       run[r].event \in Event /\ run[r].event.obj \in DOMAIN objs

(* A getter: its service is watched once it is past the mark; what it will *)
(* store is not empty; it is in the flight of its own service only.        *)
Getting(g) ==
  /\ get[g].pc # "idle" => get[g].service \in Services
  /\ ~stopped /\ get[g].pc \in {"fetch", "flight", "fetched", "store"} =>
       get[g].service \in watched
  /\ get[g].pc = "store" \/ (get[g].pc = "fetched" /\ ~get[g].err) =>
       Recorded(get[g].new) # {}
  /\ \A s \in Services : g \in flight[s] => get[g].pc = "flight" /\ get[g].service = s

(* A goroutine that exists has a service; a service said to be running has *)
(* one; and WatchedIsRun.                                                  *)
Watching ==
  /\ \A r \in Runners : run[r].pc # "none" => run[r].service \in Services
  /\ ~stopped => \A s \in running : RunsOf(s) # {}
  /\ WatchedIsRun

(* An entry with something in it.                                          *)
Kept(c) == c # Nil /\ \E v \in Versions : c[v] # Nil

(* What is served without asking the registry is kept and watched.         *)
Serving == ~stopped => \A s \in fresh : Kept(cache[s]) /\ s \in watched

(* The inductive invariant.                                                *)
CacheInv ==
  /\ Objects /\ CacheTypes /\ References
  /\ \A g \in Getters : Getting(g)
  /\ Watching /\ Serving

-----------------------------------------------------------------------------
(* The operators of the cache.                                             *)

(* Nil is neither a set of nodes, an entry nor the entries of a service.   *)
LEMMA NilApart ==
  /\ \A nodes \in SUBSET Servers : nodes # Nil
  /\ \A e \in Entry : e # Nil
  /\ \A c \in Entries : c # Nil
  <1>1. \A nodes \in SUBSET Servers : nodes # Nil
    BY CacheAssumption
  <1>2. \A e \in Entry : e # Nil
    BY CacheAssumption DEF Entry
  <1>3. Entries = [Versions -> [obj : Nat, nodes : SUBSET Servers] \cup {Nil}]
    <2>1. {Nil} \cup Entry = [obj : Nat, nodes : SUBSET Servers] \cup {Nil}
      BY DEF Entry
    <2> QED BY <2>1 DEF Entries
  <1>4. \A c \in Entries : c # Nil
    BY <1>3, CacheAssumption
  <1> QED BY <1>1, <1>2, <1>4

(* The fields of an entry.                                                 *)
LEMMA EntryParts ==
  ASSUME NEW e \in Entry
  PROVE  e.obj \in Nat /\ e.nodes \in SUBSET Servers
  BY DEF Entry

(* What a service object holds.                                            *)
LEMMA ObjContent ==
  ASSUME Objects, NEW o \in DOMAIN objs
  PROVE  objs[o] \in SUBSET Servers /\ o \in Nat /\ o # 0
  BY DEF Objects

(* A copied entry.                                                         *)
LEMMA CopiedEntry ==
  ASSUME NEW nodes \in SUBSET Servers
  PROVE  Copied(nodes) \in Entry /\ Copied(nodes).obj = 0 /\ Copied(nodes).nodes = nodes
  BY DEF Copied, Entry

(* A shared entry.                                                         *)
LEMMA SharedEntry ==
  ASSUME NEW o \in Nat
  PROVE  Shared(o) \in Entry /\ Shared(o).obj = o
  BY DEF Shared, Entry

(* The view of a service that is not there.                                *)
LEMMA EmptyView == Empty \in Views
  BY DEF Empty, Views

(* The nodes of an entry, copied or shared.                                *)
LEMMA NodesOfEntry ==
  ASSUME Objects, NEW e \in Entry, e.obj \in DOMAIN objs \cup {0}
  PROVE  EntryNodes(e) \in SUBSET Servers
  <1>1. CASE e.obj = 0
    BY <1>1, EntryParts DEF EntryNodes
  <1>2. CASE e.obj # 0
    BY <1>2, ObjContent DEF EntryNodes
  <1> QED BY <1>1, <1>2

(* The view of entries records exactly the versions that have one.         *)
LEMMA ViewOfEntries ==
  ASSUME Objects, NEW c \in Entries, Refers(c)
  PROVE  ViewOf(c) \in Views /\ Recorded(ViewOf(c)) = {v \in Versions : c[v] # Nil}
  <1>1. ViewOf(c) = [v \in Versions |-> IF c[v] = Nil THEN Nil ELSE EntryNodes(c[v])]
    BY NilApart DEF ViewOf
  <1>2. \A v \in Versions : c[v] # Nil => EntryNodes(c[v]) \in SUBSET Servers
    BY NodesOfEntry DEF Refers, Entries
  <1>3. ViewOf(c) \in Views
    BY <1>1, <1>2 DEF Views
  <1>4. \A v \in Versions : ViewOf(c)[v] # Nil <=> c[v] # Nil
    BY <1>1, <1>2, NilApart
  <1> QED BY <1>3, <1>4 DEF Recorded

(* The same when there may be no entry.                                    *)
LEMMA ViewOfCache ==
  ASSUME Objects, NEW c \in {Nil} \cup Entries, c # Nil => Refers(c)
  PROVE  ViewOf(c) \in Views
  <1>1. CASE c = Nil
    BY <1>1, EmptyView DEF ViewOf
  <1>2. CASE c # Nil
    BY <1>2, ViewOfEntries
  <1> QED BY <1>1, <1>2

(* A copy of a view refers to no object and has the same versions.         *)
LEMMA CopyOfView ==
  ASSUME NEW view \in Views
  PROVE  /\ CopyOf(view) \in Entries
         /\ \A v \in Versions :
              /\ CopyOf(view)[v] # Nil <=> view[v] # Nil
              /\ view[v] # Nil => /\ view[v] \in SUBSET Servers
                                  /\ CopyOf(view)[v] = Copied(view[v])
                                  /\ CopyOf(view)[v].obj = 0
                                  /\ CopyOf(view)[v].nodes = view[v]
  <1>1. \A v \in Versions : view[v] # Nil => view[v] \in SUBSET Servers
    BY DEF Views
  <1>2. \A v \in Versions : CopyOf(view)[v] = IF view[v] = Nil THEN Nil ELSE Copied(view[v])
    BY DEF CopyOf
  <1>3. \A v \in Versions : view[v] # Nil =>
          /\ Copied(view[v]) \in Entry /\ Copied(view[v]).obj = 0
          /\ Copied(view[v]).nodes = view[v]
    BY <1>1, CopiedEntry
  <1>4. CopyOf(view) \in Entries
    BY <1>3 DEF CopyOf, Entries
  <1>5. \A v \in Versions : CopyOf(view)[v] # Nil <=> view[v] # Nil
    BY <1>2, <1>3, NilApart
  <1> QED BY <1>1, <1>2, <1>3, <1>4, <1>5

-----------------------------------------------------------------------------

(* update, case by case. An update event stores its object, with the old   *)
(* nodes.                                                                  *)
LEMMA UpdatedUpdate ==
  ASSUME NEW c, NEW v, NEW o, NEW nodes, nodes # {}
  PROVE  Updated(c, "update", v, o, nodes) =
           [do |-> "set", entry |-> [c EXCEPT ![v] = Shared(o)],
            content |-> IF c[v] = Nil THEN nodes
                        ELSE Merged(EntryNodes(c[v]), nodes)]
  BY DEF Updated

(* Deleting from a version without an entry changes nothing.               *)
LEMMA DeleteUnknown ==
  ASSUME NEW c, NEW v, NEW o, NEW nodes, nodes # {}, c[v] = Nil
  PROVE  Updated(c, "delete", v, o, nodes) = [do |-> "none", entry |-> c, content |-> nodes]
  BY DEF Updated

(* Deleting some nodes keeps the others.                                   *)
LEMMA DeleteSome ==
  ASSUME NEW c, NEW v, NEW o, NEW nodes, nodes # {}, c[v] # Nil,
         EntryNodes(c[v]) \ nodes # {}
  PROVE  Updated(c, "delete", v, o, nodes) =
           [do |-> "set",
            entry |-> IF c[v].obj = 0 THEN [c EXCEPT ![v] = Copied(EntryNodes(c[v]) \ nodes)]
                      ELSE c,
            content |-> nodes]
  BY DEF Updated

(* Deleting the last nodes of the only version deletes the entry.          *)
LEMMA DeleteLast ==
  ASSUME NEW c, NEW v, NEW o, NEW nodes, nodes # {}, c[v] # Nil,
         EntryNodes(c[v]) \ nodes = {}, {x \in Versions : c[x] # Nil} = {v}
  PROVE  Updated(c, "delete", v, o, nodes) = [do |-> "del", entry |-> c, content |-> nodes]
  BY DEF Updated

(* Deleting the last nodes of one of several versions drops that version.  *)
LEMMA DeleteVersion ==
  ASSUME NEW c, NEW v, NEW o, NEW nodes, nodes # {}, c[v] # Nil,
         EntryNodes(c[v]) \ nodes = {}, {x \in Versions : c[x] # Nil} # {v}
  PROVE  Updated(c, "delete", v, o, nodes) =
           [do |-> "set", entry |-> [c EXCEPT ![v] = Nil], content |-> nodes]
  BY DEF Updated

(* An event without nodes deletes the entry or does nothing.               *)
LEMMA UpdatedNothing ==
  ASSUME NEW c, NEW v, NEW o, NEW action, NEW nodes, nodes = {}
  PROVE  Updated(c, action, v, o, nodes) =
           [do |-> IF action = "delete" THEN "del" ELSE "none", entry |-> c, content |-> nodes]
  BY DEF Updated

(* What the view of an agreeing cache becomes when update stores e.        *)
LEMMA ViewAfterSet ==
  ASSUME NEW s \in Services, NEW v, NEW nodes, NEW e, NEW content
  PROVE  /\ Updated(CopyOf(records[s]), "update", v, 0, nodes) =
              [do |-> "set", entry |-> e, content |-> content]
            => ViewAfter(s, "update", v, nodes) =
                 [x \in Versions |-> IF x = v THEN content
                                     ELSE IF e[x] = Nil THEN Nil ELSE e[x].nodes]
         /\ Updated(CopyOf(records[s]), "delete", v, 0, nodes) =
              [do |-> "set", entry |-> e, content |-> content]
            => ViewAfter(s, "delete", v, nodes) =
                 [x \in Versions |-> IF e[x] = Nil THEN Nil ELSE e[x].nodes]
  BY DEF ViewAfter

(* An update event makes an agreeing cache what Register makes the         *)
(* records.                                                                *)
LEMMA ViewAfterUpdate ==
  ASSUME NEW s \in Services, records[s] \in Views, NEW v \in Versions,
         NEW nodes \in SUBSET Servers, nodes # {}
  PROVE  ViewAfter(s, "update", v, nodes) = Registered(records[s], v, nodes)
  <1> DEFINE view == records[s]
             c == CopyOf(view)
             content == IF c[v] = Nil THEN nodes ELSE Merged(EntryNodes(c[v]), nodes)
             e == [c EXCEPT ![v] = Shared(0)]
  <1>1. \A x \in Versions :
          /\ c[x] # Nil <=> view[x] # Nil
          /\ view[x] # Nil => c[x].obj = 0 /\ c[x].nodes = view[x]
    BY CopyOfView
  <1>2. c \in Entries
    BY CopyOfView
  <1>3. Updated(c, "update", v, 0, nodes) = [do |-> "set", entry |-> e, content |-> content]
    BY UpdatedUpdate
  <1> HIDE DEF content, e
  <1>4. ViewAfter(s, "update", v, nodes) =
          [x \in Versions |-> IF x = v THEN content
                              ELSE IF e[x] = Nil THEN Nil ELSE e[x].nodes]
    BY <1>3, ViewAfterSet
  <1>5. content = IF view[v] = Nil THEN nodes ELSE view[v] \cup nodes
    <2>1. CASE view[v] = Nil
      BY <2>1, <1>1 DEF content
    <2>2. CASE view[v] # Nil
      BY <2>2, <1>1 DEF content, Merged, EntryNodes
    <2> QED BY <2>1, <2>2
  <1>6. ASSUME NEW x \in Versions, x # v
        PROVE  (IF e[x] = Nil THEN Nil ELSE e[x].nodes) = view[x]
    <2>1. e[x] = c[x]
      BY <1>2, <1>6 DEF e, Entries
    <2> QED BY <2>1, <1>1
  <1>7. /\ DOMAIN Registered(view, v, nodes) = Versions
        /\ Registered(view, v, nodes)[v] = IF view[v] = Nil THEN nodes ELSE view[v] \cup nodes
        /\ \A x \in Versions : x # v => Registered(view, v, nodes)[x] = view[x]
        /\ Registered(view, v, nodes) =
             [x \in Versions |-> Registered(view, v, nodes)[x]]
    BY DEF Registered, Views
  <1>8. \A x \in Versions :
          (IF x = v THEN content
             ELSE IF e[x] = Nil THEN Nil ELSE e[x].nodes) = Registered(view, v, nodes)[x]
    BY <1>5, <1>6, <1>7
  <1> QED BY <1>4, <1>7, <1>8

(* A delete event makes an agreeing cache what Deregister makes the        *)
(* records: by the cases of update.                                        *)
LEMMA ViewAfterDelete ==
  ASSUME NEW s \in Services, records[s] \in Views, NEW v \in Versions,
         NEW nodes \in SUBSET Servers, nodes # {}
  PROVE  ViewAfter(s, "delete", v, nodes) = Deregistered(records[s], v, nodes)
  <1> DEFINE view == records[s]
             c == CopyOf(view)
  <1>1. \A x \in Versions :
          /\ c[x] # Nil <=> view[x] # Nil
          /\ view[x] # Nil => /\ view[x] \in SUBSET Servers
                              /\ c[x].obj = 0 /\ c[x].nodes = view[x]
    BY CopyOfView
  <1>2. c \in Entries
    BY CopyOfView
  <1>3. view[v] # Nil => EntryNodes(c[v]) = view[v]
    BY <1>1 DEF EntryNodes
  <1>4. view = [x \in Versions |-> view[x]]
    BY DEF Views
  <1>5. CASE view[v] = Nil
    <2>1. Updated(c, "delete", v, 0, nodes) = [do |-> "none", entry |-> c, content |-> nodes]
      BY <1>1, <1>5, DeleteUnknown
    <2>2. ViewAfter(s, "delete", v, nodes) = records[s]
      BY <2>1 DEF ViewAfter
    <2> QED BY <2>2, <1>5 DEF Deregistered
  <1>6. CASE view[v] # Nil /\ view[v] \ nodes # {}
    <2> DEFINE e == [c EXCEPT ![v] = Copied(view[v] \ nodes)]
    <2>1. Updated(c, "delete", v, 0, nodes) = [do |-> "set", entry |-> e, content |-> nodes]
      <3>1. c[v] # Nil /\ c[v].obj = 0
        BY <1>1, <1>6
      <3>2. EntryNodes(c[v]) = view[v] /\ EntryNodes(c[v]) \ nodes # {}
        BY <1>3, <1>6
      <3>3. Updated(c, "delete", v, 0, nodes) =
              [do |-> "set",
               entry |-> IF c[v].obj = 0
                         THEN [c EXCEPT ![v] = Copied(EntryNodes(c[v]) \ nodes)] ELSE c,
               content |-> nodes]
        <4>1. PICK d : d = c
          OBVIOUS
        <4>2. d[v] # Nil /\ EntryNodes(d[v]) \ nodes # {}
          BY <3>1, <3>2, <4>1
        <4>3. Updated(d, "delete", v, 0, nodes) =
                [do |-> "set",
                 entry |-> IF d[v].obj = 0
                           THEN [d EXCEPT ![v] = Copied(EntryNodes(d[v]) \ nodes)] ELSE d,
                 content |-> nodes]
          BY <4>2, DeleteSome
        <4> QED BY <4>1, <4>3
      <3> QED BY <3>1, <3>2, <3>3
    <2>2. Copied(view[v] \ nodes) # Nil /\ Copied(view[v] \ nodes).nodes = view[v] \ nodes
      BY <1>1, <1>6, CopiedEntry, NilApart
    <2>3. e[v] = Copied(view[v] \ nodes) /\ \A x \in Versions : x # v => e[x] = c[x]
      BY <1>2 DEF Entries
    <2> HIDE DEF e
    <2>4. ViewAfter(s, "delete", v, nodes) =
            [x \in Versions |-> IF e[x] = Nil THEN Nil ELSE e[x].nodes]
      BY <2>1, ViewAfterSet, SMTT(40)
    <2>5. \A x \in Versions :
            (IF e[x] = Nil THEN Nil ELSE e[x].nodes)
            = IF x = v THEN view[v] \ nodes ELSE view[x]
      BY <1>1, <2>2, <2>3
    <2>6. Deregistered(view, v, nodes) = [view EXCEPT ![v] = view[v] \ nodes]
      BY <1>6 DEF Deregistered
    <2>7. Deregistered(view, v, nodes) =
            [x \in Versions |-> IF x = v THEN view[v] \ nodes ELSE view[x]]
      BY <2>6, <1>4
    <2> QED BY <2>4, <2>5, <2>7
  <1>7. CASE view[v] # Nil /\ view[v] \ nodes = {}
    <2>1. Deregistered(view, v, nodes) = [view EXCEPT ![v] = Nil]
      BY <1>1, <1>7 DEF Deregistered
    <2>2. Deregistered(view, v, nodes) = [x \in Versions |-> IF x = v THEN Nil ELSE view[x]]
      BY <2>1, <1>4
    <2>3. CASE {x \in Versions : c[x] # Nil} = {v}
      <3>1. Updated(c, "delete", v, 0, nodes) = [do |-> "del", entry |-> c, content |-> nodes]
        BY <1>1, <1>3, <1>7, <2>3, DeleteLast
      <3>2. ViewAfter(s, "delete", v, nodes) = Empty
        BY <3>1 DEF ViewAfter
      <3>3. \A x \in Versions : x # v => view[x] = Nil
        BY <1>1, <2>3
      <3> QED BY <2>2, <3>2, <3>3 DEF Empty
    <2>4. CASE {x \in Versions : c[x] # Nil} # {v}
      <3> DEFINE e == [c EXCEPT ![v] = Nil]
      <3>1. Updated(c, "delete", v, 0, nodes) = [do |-> "set", entry |-> e, content |-> nodes]
        BY <1>1, <1>3, <1>7, <2>4, DeleteVersion
      <3>2. e[v] = Nil /\ \A x \in Versions : x # v => e[x] = c[x]
        BY <1>2 DEF Entries
      <3> HIDE DEF e
      <3>3. ViewAfter(s, "delete", v, nodes) =
              [x \in Versions |-> IF e[x] = Nil THEN Nil ELSE e[x].nodes]
        BY <3>1, ViewAfterSet, SMTT(40)
      <3>4. \A x \in Versions :
              (IF e[x] = Nil THEN Nil ELSE e[x].nodes)
              = IF x = v THEN Nil ELSE view[x]
        BY <1>1, <3>2
      <3> QED BY <2>2, <3>3, <3>4
    <2> QED BY <2>3, <2>4
  <1> QED BY <1>5, <1>6, <1>7

(* update mirrors the registry whatever the records are.                   *)
LEMMA Mirrors ==
  ASSUME records \in [Services -> Views]
  PROVE  UpdateMirrorsRegistry
  <1> SUFFICES ASSUME NEW p \in Servers
               PROVE  /\ ViewAfter(ServiceOf[p], "update", VersionOf[p], {p})
                           = Registered(records[ServiceOf[p]], VersionOf[p], {p})
                      /\ ViewAfter(ServiceOf[p], "delete", VersionOf[p], {p})
                           = Deregistered(records[ServiceOf[p]], VersionOf[p], {p})
    BY DEF UpdateMirrorsRegistry
  <1>1. ServiceOf[p] \in Services /\ VersionOf[p] \in Versions
        /\ records[ServiceOf[p]] \in Views
    BY RegistryAssumption
  <1>2. {p} \in SUBSET Servers /\ {p} # {}
    OBVIOUS
  <1> QED BY <1>1, <1>2, ViewAfterUpdate, ViewAfterDelete

(* What update stores is an entry that refers to existing objects and is   *)
(* not empty.                                                              *)
LEMMA UpdatedEntry ==
  ASSUME Objects, NEW c \in Entries, Refers(c), NEW action \in {"update", "delete"},
         NEW v \in Versions, NEW o \in DOMAIN objs, NEW nodes \in SUBSET Servers,
         Updated(c, action, v, o, nodes).do = "set"
  PROVE  LET u == Updated(c, action, v, o, nodes) IN
         /\ u.entry \in Entries /\ Refers(u.entry) /\ Kept(u.entry)
         /\ action = "update" => u.content \in SUBSET Servers
  <1>0. o \in Nat /\ o # 0
    BY ObjContent
  <1>1. nodes # {}
    <2> SUFFICES ASSUME nodes = {} PROVE FALSE
      OBVIOUS
    <2> QED BY UpdatedNothing
  <1>2. c[v] # Nil => EntryNodes(c[v]) \in SUBSET Servers
    BY NodesOfEntry DEF Refers, Entries
  <1>3. CASE action = "update"
    <2> DEFINE e == [c EXCEPT ![v] = Shared(o)]
               content == IF c[v] = Nil THEN nodes ELSE Merged(EntryNodes(c[v]), nodes)
    <2>1. Updated(c, action, v, o, nodes) = [do |-> "set", entry |-> e, content |-> content]
      BY <1>1, <1>3, UpdatedUpdate
    <2>2. e[v] = Shared(o) /\ \A x \in Versions : x # v => e[x] = c[x]
      BY DEF Entries
    <2>3. Shared(o) \in Entry /\ Shared(o).obj = o /\ Shared(o) # Nil
      BY <1>0, SharedEntry, NilApart
    <2>4. e \in Entries
      BY <2>3 DEF Entries
    <2>5. content \in SUBSET Servers
      BY <1>2 DEF Merged
    <2> HIDE DEF e, content
    <2>6. Refers(e)
      BY <2>2, <2>3 DEF Refers
    <2>7. Kept(e)
      BY <2>2, <2>3, <2>4, NilApart DEF Kept
    <2> QED BY <2>1, <2>4, <2>5, <2>6, <2>7
  <1>4. CASE action = "delete" /\ c[v] = Nil
    <2>1. Updated(c, action, v, o, nodes) = [do |-> "none", entry |-> c, content |-> nodes]
      BY <1>1, <1>4, DeleteUnknown
    <2> QED BY <2>1
  <1>5. CASE action = "delete" /\ c[v] # Nil /\ EntryNodes(c[v]) \ nodes # {}
    <2> DEFINE left == EntryNodes(c[v]) \ nodes
               e == IF c[v].obj = 0 THEN [c EXCEPT ![v] = Copied(left)] ELSE c
    <2>1. Updated(c, action, v, o, nodes) = [do |-> "set", entry |-> e, content |-> nodes]
      BY <1>1, <1>5, DeleteSome
    <2>2. Copied(left) \in Entry /\ Copied(left).obj = 0 /\ Copied(left) # Nil
      BY <1>2, <1>5, CopiedEntry, NilApart
    <2>3. \/ e = c
          \/ /\ e \in Entries /\ e[v] = Copied(left)
             /\ \A x \in Versions : x # v => e[x] = c[x]
      BY <2>2 DEF Entries
    <2> HIDE DEF e, left
    <2>4. e \in Entries /\ Refers(e)
      BY <2>2, <2>3 DEF Refers
    <2>5. Kept(e)
      BY <1>5, <2>2, <2>3, <2>4, NilApart DEF Kept
    <2> QED BY <1>5, <2>1, <2>4, <2>5
  <1>6. CASE action = "delete" /\ c[v] # Nil /\ EntryNodes(c[v]) \ nodes = {}
    <2>1. {x \in Versions : c[x] # Nil} # {v}
      <3> SUFFICES ASSUME {x \in Versions : c[x] # Nil} = {v} PROVE FALSE
        OBVIOUS
      <3>1. Updated(c, action, v, o, nodes) = [do |-> "del", entry |-> c, content |-> nodes]
        BY <1>1, <1>6, DeleteLast
      <3> QED BY <3>1
    <2>2. PICK x \in Versions : x # v /\ c[x] # Nil
      BY <1>6, <2>1
    <2> DEFINE e == [c EXCEPT ![v] = Nil]
    <2>3. Updated(c, action, v, o, nodes) = [do |-> "set", entry |-> e, content |-> nodes]
      BY <1>1, <1>6, <2>1, DeleteVersion
    <2>4. e \in Entries /\ e[v] = Nil /\ \A y \in Versions : y # v => e[y] = c[y]
      BY DEF Entries
    <2> HIDE DEF e
    <2>5. Refers(e) /\ Kept(e)
      BY <2>2, <2>4, NilApart DEF Refers, Kept
    <2> QED BY <1>6, <2>3, <2>4, <2>5
  <1> QED BY <1>3, <1>4, <1>5, <1>6

(* The objects after update have the same identities and hold nodes.       *)
LEMMA UpdatedObjs ==
  ASSUME Objects, NEW c \in Entries, Refers(c), NEW action \in {"update", "delete"},
         NEW v \in Versions, NEW o \in DOMAIN objs, NEW nodes \in SUBSET Servers,
         NEW u, u = Updated(c, action, v, o, nodes)
  PROVE  ObjsAfter(c, action, v, o, nodes, u) \in [DOMAIN objs -> SUBSET Servers]
  <1>1. objs \in [DOMAIN objs -> SUBSET Servers]
    BY DEF Objects
  <1>2. CASE u.do = "set" /\ action = "update"
    <2>1. u.content \in SUBSET Servers
      BY <1>2, UpdatedEntry
    <2>2. ObjsAfter(c, action, v, o, nodes, u) = [objs EXCEPT ![o] = u.content]
      BY <1>2 DEF ObjsAfter
    <2> QED BY <1>1, <2>1, <2>2
  <1>3. CASE ~(u.do = "set" /\ action = "update")
    <2>1. CASE u.do = "set" /\ action = "delete" /\ c[v].obj # 0
                 /\ objs[c[v].obj] \ nodes # {}
      <3>1. PICK q : q = c[v].obj
        OBVIOUS
      <3>2. ObjsAfter(c, action, v, o, nodes, u) = [objs EXCEPT ![q] = @ \ nodes]
        BY <2>1, <3>1 DEF ObjsAfter
      <3> QED BY <1>1, <3>2
    <2>2. CASE ~(u.do = "set" /\ action = "delete" /\ c[v].obj # 0
                   /\ objs[c[v].obj] \ nodes # {})
      <3>1. ObjsAfter(c, action, v, o, nodes, u) = objs
        BY <1>3, <2>2 DEF ObjsAfter
      <3> QED BY <1>1, <3>1
    <2> QED BY <2>1, <2>2
  <1> QED BY <1>2, <1>3

-----------------------------------------------------------------------------
(* Records and objects of the registry.                                    *)

LEMMA NewObject ==
  ASSUME Objects, NEW nodes \in SUBSET Servers
  PROVE  /\ NewObj \in Nat /\ Alloc(nodes) \in [1..NewObj -> SUBSET Servers]
         /\ DOMAIN objs \subseteq 1..NewObj /\ NewObj \in 1..NewObj
  <1>1. PICK n \in Nat : objs \in [1..n -> SUBSET Servers]
    BY DEF Objects
  <1>2. Cardinality(1..n) = n
    BY FS_Interval
  <1>3. NewObj = n + 1
    BY <1>1, <1>2 DEF NewObj
  <1>4. Alloc(nodes) \in [1..(n + 1) -> SUBSET Servers]
    BY <1>1, <1>3 DEF Alloc
  <1> QED BY <1>1, <1>3, <1>4

(* Register and Deregister make views of views.                            *)
LEMMA RegisteredView ==
  ASSUME NEW view \in Views, NEW v \in Versions, NEW nodes \in SUBSET Servers
  PROVE  Registered(view, v, nodes) \in Views /\ Deregistered(view, v, nodes) \in Views
  <1>1. view[v] # Nil => view[v] \in SUBSET Servers
    BY DEF Views
  <1>2. Registered(view, v, nodes) \in Views
    BY <1>1 DEF Registered, Views
  <1>3. Deregistered(view, v, nodes) \in Views
    BY <1>1 DEF Deregistered, Views
  <1> QED BY <1>2, <1>3

(* An event that is passed on is an event about the same object.           *)
LEMMA EventTo ==
  ASSUME NEW e \in Event, NEW ws \in {Nil} \cup SUBSET Watchers
  PROVE  [e EXCEPT !.to = ws] \in Event /\ [e EXCEPT !.to = ws].obj = e.obj
  BY DEF Event

(* The fields of an event.                                                 *)
LEMMA EventFields ==
  ASSUME NEW e \in Event
  PROVE  /\ e.action \in {"update", "delete"} /\ e.service \in Services
         /\ e.version \in Versions /\ e.obj \in Nat
         /\ e.to # Nil => e.to \in SUBSET Watchers
  BY DEF Event

-----------------------------------------------------------------------------
(* Steps of the servers and the registry.                                  *)

(* What such a step has to keep.                                           *)
LEMMA RegistryStep ==
  ASSUME CacheInv, UNCHANGED <<cacheVars, run, get, flight>>,
         Objects', DOMAIN objs \subseteq DOMAIN objs',
         records' \in [Services -> Views], expired' \subseteq Servers,
         watchers' \in [Watchers -> {"none", "open", "stopped"}],
         ops' \in 0..MaxOps,
         \A e \in events' : e \in Event /\ e.obj \in DOMAIN objs',
         DOMAIN rsvc' = Servers,
         \A p \in Servers : rsvc'[p] = Nil \/ rsvc'[p] \in DOMAIN objs'
  PROVE  CacheInv'
  <1>0. /\ cache' = cache /\ fresh' = fresh /\ watched' = watched /\ running' = running
        /\ status' = status /\ stopped' = stopped /\ run' = run /\ get' = get
        /\ flight' = flight
    BY DEF cacheVars
  <1>1. CacheTypes'
    BY <1>0 DEF CacheInv, CacheTypes
  <1>2. References'
    <2>1. \A s \in Services : cache'[s] # Nil => Refers(cache[s])'
      BY <1>0 DEF CacheInv, References, Refers
    <2>2. \A r \in Runners : run'[r].pc \in {"event", "update"} =>
            run'[r].event \in Event /\ run'[r].event.obj \in DOMAIN objs'
      BY <1>0 DEF CacheInv, References
    <2> QED BY <2>1, <2>2 DEF References
  <1>3. \A g \in Getters : Getting(g)'
    BY <1>0 DEF CacheInv, Getting
  <1>4. Watching'
    BY <1>0 DEF CacheInv, Watching, WatchedIsRun, RunsOf
  <1>5. Serving'
    BY <1>0 DEF CacheInv, Serving, Kept
  <1> QED BY <1>1, <1>2, <1>3, <1>4, <1>5 DEF CacheInv

(* The event that a Register or a Deregister sends.                        *)
LEMMA SentEvent ==
  ASSUME CacheInv, NEW action \in {"update", "delete"}, NEW s \in Services,
         NEW v \in Versions, NEW o \in Nat, NEW D, DOMAIN objs \subseteq D, o \in D,
         Send(action, s, v, o) \/ events' = events
  PROVE  \A e \in events' : e \in Event /\ e.obj \in D
  <1>1. ops \in Nat
    BY RegistryAssumption DEF CacheInv, CacheTypes
  <1>2. \A e \in events : e \in Event /\ e.obj \in D
    BY DEF CacheInv, CacheTypes, References
  <1>3. PICK f : f = [id |-> ops, action |-> action, service |-> s, version |-> v,
                      obj |-> o, to |-> Nil]
    OBVIOUS
  <1>4. f \in Event /\ f.obj = o
    BY <1>1, <1>3 DEF Event
  <1>5. events' \subseteq events \cup {f}
    BY <1>3 DEF Send
  <1> QED BY <1>2, <1>4, <1>5

(* A server registers, with the object it has cached or with a new one.    *)
LEMMA ServerRegisterInv ==
  ASSUME CacheInv, NEW p \in Servers, ServerRegister(p)
  PROVE  CacheInv'
  <1> DEFINE s == ServiceOf[p]
             v == VersionOf[p]
  <1>0. s \in Services /\ v \in Versions
    BY RegistryAssumption
  <1>1. PICK o, nodes :
          /\ o = (IF rsvc[p] = Nil THEN NewObj ELSE rsvc[p])
          /\ nodes = (IF rsvc[p] = Nil THEN {p} ELSE objs[o])
    OBVIOUS
  <1>2. /\ Register(s, v, o, nodes)
        /\ objs' = IF rsvc[p] = Nil THEN Alloc({p}) ELSE objs
        /\ rsvc' = [rsvc EXCEPT ![p] = o]
        /\ UNCHANGED <<cacheVars, run, get, flight>>
    BY <1>1 DEF ServerRegister
  <1>3. /\ Objects' /\ DOMAIN objs \subseteq DOMAIN objs'
        /\ o \in DOMAIN objs' /\ o \in Nat /\ nodes \in SUBSET Servers
    <2>0. Objects /\ {p} \in SUBSET Servers
      BY DEF CacheInv
    <2>1. CASE rsvc[p] = Nil
      <3>1. /\ NewObj \in Nat /\ objs' \in [1..NewObj -> SUBSET Servers]
            /\ DOMAIN objs \subseteq 1..NewObj /\ NewObj \in 1..NewObj
        BY <2>0, <2>1, <1>2, NewObject
      <3>2. PICK m \in Nat : m = NewObj
        BY <3>1
      <3>3. Objects'
        BY <3>1, <3>2 DEF Objects
      <3>4. DOMAIN objs' = 1..NewObj
        BY <3>1
      <3> QED BY <2>0, <2>1, <1>1, <3>1, <3>3, <3>4
    <2>2. CASE rsvc[p] # Nil
      <3>1. objs' = objs /\ o = rsvc[p] /\ nodes = objs[o]
        BY <2>2, <1>1, <1>2
      <3>2. o \in DOMAIN objs
        BY <2>2, <3>1 DEF CacheInv, References
      <3>3. Objects'
        BY <2>0, <3>1 DEF Objects
      <3> QED BY <2>0, <3>1, <3>2, <3>3, ObjContent
    <2> QED BY <2>1, <2>2
  <1>4. /\ records' = [records EXCEPT ![s] = Registered(@, v, nodes)]
        /\ ops < MaxOps /\ ops' = ops + 1 /\ expired' \subseteq expired
        /\ watchers' = watchers
        /\ Send("update", s, v, o) \/ events' = events
    BY <1>2 DEF Register
  <1>5. records' \in [Services -> Views]
    <2>1. records \in [Services -> Views]
      BY DEF CacheInv, CacheTypes
    <2>2. Registered(records[s], v, nodes) \in Views
      BY <2>1, <1>0, <1>3, RegisteredView
    <2> QED BY <2>1, <2>2, <1>4
  <1>6. \A e \in events' : e \in Event /\ e.obj \in DOMAIN objs'
    BY <1>0, <1>3, <1>4, SentEvent
  <1>7. /\ expired' \subseteq Servers
        /\ watchers' \in [Watchers -> {"none", "open", "stopped"}]
        /\ ops' \in 0..MaxOps
    BY <1>4, RegistryAssumption DEF CacheInv, CacheTypes
  <1>8. /\ DOMAIN rsvc' = Servers
        /\ \A q \in Servers : rsvc'[q] = Nil \/ rsvc'[q] \in DOMAIN objs'
    BY <1>2, <1>3 DEF CacheInv, CacheTypes, References
  <1> QED BY <1>2, <1>3, <1>5, <1>6, <1>7, <1>8, RegistryStep

(* A server deregisters, with a new object.                                *)
LEMMA ServerDeregisterInv ==
  ASSUME CacheInv, NEW p \in Servers, ServerDeregister(p)
  PROVE  CacheInv'
  <1> DEFINE s == ServiceOf[p]
             v == VersionOf[p]
  <1>0. s \in Services /\ v \in Versions /\ {p} \in SUBSET Servers
    BY RegistryAssumption
  <1>1. PICK o : o = NewObj
    OBVIOUS
  <1>2. /\ Deregister(s, v, o, {p})
        /\ objs' = Alloc({p})
        /\ rsvc' = [rsvc EXCEPT ![p] = Nil]
        /\ UNCHANGED <<cacheVars, run, get, flight>>
    BY <1>1 DEF ServerDeregister
  <1>3. /\ Objects' /\ DOMAIN objs \subseteq DOMAIN objs'
        /\ o \in DOMAIN objs' /\ o \in Nat
    <2>1. /\ o \in Nat /\ objs' \in [1..o -> SUBSET Servers]
          /\ DOMAIN objs \subseteq 1..o /\ o \in 1..o
      BY <1>0, <1>1, <1>2, NewObject DEF CacheInv
    <2>2. Objects'
      BY <2>1 DEF Objects
    <2> QED BY <2>1, <2>2
  <1>4. /\ records' = [records EXCEPT ![s] = Deregistered(@, v, {p})]
        /\ ops < MaxOps /\ ops' = ops + 1 /\ expired' \subseteq expired
        /\ watchers' = watchers
        /\ Send("delete", s, v, o) \/ events' = events
    BY <1>2 DEF Deregister
  <1>5. records' \in [Services -> Views]
    <2>1. records \in [Services -> Views]
      BY DEF CacheInv, CacheTypes
    <2>2. Deregistered(records[s], v, {p}) \in Views
      BY <2>1, <1>0, RegisteredView
    <2> QED BY <2>1, <2>2, <1>4
  <1>6. \A e \in events' : e \in Event /\ e.obj \in DOMAIN objs'
    BY <1>0, <1>3, <1>4, SentEvent
  <1>7. /\ expired' \subseteq Servers
        /\ watchers' \in [Watchers -> {"none", "open", "stopped"}]
        /\ ops' \in 0..MaxOps
    BY <1>4, RegistryAssumption DEF CacheInv, CacheTypes
  <1>8. /\ DOMAIN rsvc' = Servers
        /\ \A q \in Servers : rsvc'[q] = Nil \/ rsvc'[q] \in DOMAIN objs'
    BY <1>2, <1>3 DEF CacheInv, CacheTypes, References
  <1> QED BY <1>2, <1>3, <1>5, <1>6, <1>7, <1>8, RegistryStep

(* A node expires; ttlPrune runs.                                          *)
LEMMA ExpiryInv ==
  ASSUME CacheInv, PruneNodes \/ \E p \in Servers : NodeExpires(p)
  PROVE  CacheInv'
  <1>0. /\ Objects /\ CacheTypes /\ References
        /\ UNCHANGED <<watchers, events, objs, ops, serverVars, cacheVars, run, get, flight>>
    BY DEF CacheInv, PruneNodes, Prune, NodeExpires, Expire
  <1>1. expired' \subseteq Servers
    BY <1>0 DEF CacheTypes, PruneNodes, Prune, NodeExpires, Expire
  <1>2. records' \in [Services -> Views]
    <2>1. records \in [Services -> Views]
      BY <1>0 DEF CacheTypes
    <2>2. CASE records' = records
      BY <2>1, <2>2
    <2>3. CASE records' = [s \in Services |-> [v \in Versions |->
                             IF records[s][v] = Nil THEN Nil ELSE records[s][v] \ expired]]
      <3>1. \A s \in Services, v \in Versions :
              records[s][v] = Nil \/ records[s][v] \in SUBSET Servers
        BY <2>1 DEF Views
      <3> QED BY <2>3, <3>1 DEF Views
    <2> QED BY <2>2, <2>3 DEF PruneNodes, Prune, NodeExpires, Expire
  <1>3. Objects'
    BY <1>0 DEF Objects
  <1> QED BY <1>0, <1>1, <1>2, <1>3, RegistryStep DEF CacheTypes, References, serverVars

(* An event that is done with a watcher is gone or still an event.         *)
LEMMA OfferedEvents ==
  ASSUME CacheInv, NEW e \in events, NEW w, e.to # Nil, Offered(e, w)
  PROVE  \A f \in events' : f \in Event /\ f.obj \in DOMAIN objs
  <1>1. e \in Event /\ \A f \in events : f \in Event /\ f.obj \in DOMAIN objs
    BY DEF CacheInv, CacheTypes, References
  <1>2. PICK ws : ws = e.to \ {w}
    OBVIOUS
  <1>3. ws \in SUBSET Watchers
    BY <1>1, <1>2, EventFields
  <1>4. PICK f : f = [e EXCEPT !.to = ws]
    OBVIOUS
  <1>5. f \in Event /\ f.obj = e.obj
    BY <1>1, <1>3, <1>4, EventTo
  <1>6. events' \subseteq events \cup {f}
    BY <1>2, <1>4 DEF Offered
  <1> QED BY <1>1, <1>5, <1>6

(* sendEvent takes its snapshot, forgets a stopped watcher or gives one    *)
(* up.                                                                     *)
LEMMA EventStepInv ==
  ASSUME CacheInv, NEW e \in events, EventStep(e)
  PROVE  CacheInv'
  <1>0. /\ Objects /\ CacheTypes /\ References
        /\ UNCHANGED <<records, expired, objs, ops, serverVars, cacheVars, run, get, flight>>
    BY DEF CacheInv, EventStep, Snapshot, Forget, Drop
  <1>1. watchers' \in [Watchers -> {"none", "open", "stopped"}]
    <2>1. watchers' = watchers \/ \E w \in Watchers : watchers' = [watchers EXCEPT ![w] = "none"]
      BY DEF EventStep, Snapshot, Forget, Drop
    <2> QED BY <1>0, <2>1 DEF CacheTypes
  <1>2. \A f \in events' : f \in Event /\ f.obj \in DOMAIN objs
    <2>1. CASE Snapshot(e)
      <3>1. PICK ws : ws = {w \in Watchers : watchers[w] # "none"}
        OBVIOUS
      <3>2. e \in Event /\ \A f \in events : f \in Event /\ f.obj \in DOMAIN objs
        BY <1>0 DEF CacheTypes, References
      <3>3. PICK f : f = [e EXCEPT !.to = ws]
        OBVIOUS
      <3>4. ws \in SUBSET Watchers
        BY <3>1
      <3>5. f \in Event /\ f.obj = e.obj
        BY <3>2, <3>3, <3>4, EventTo
      <3>6. events' \subseteq events \cup {f}
        BY <2>1, <3>1, <3>3 DEF Snapshot
      <3> QED BY <3>2, <3>5, <3>6
    <2>2. CASE \E w \in Watchers : Forget(e, w) \/ Drop(e, w)
      <3>1. PICK w \in Watchers : e.to # Nil /\ Offered(e, w)
        BY <2>2 DEF Forget, Drop
      <3> QED BY <3>1, OfferedEvents
    <2> QED BY <2>1, <2>2 DEF EventStep
  <1>3. Objects'
    BY <1>0 DEF Objects
  <1> QED BY <1>0, <1>1, <1>2, <1>3, RegistryStep DEF CacheTypes, References, serverVars

-----------------------------------------------------------------------------
(* Steps of the getters.                                                   *)

(* Setting the pc of a getter.                                             *)
LEMMA GetterPc ==
  ASSUME NEW G \in [Getters -> Getter], NEW g \in Getters, NEW x \in GetterPcs,
         NEW H, H = [G EXCEPT ![g].pc = x]
  PROVE  /\ H \in [Getters -> Getter]
         /\ H[g].pc = x /\ H[g].service = G[g].service /\ H[g].old = G[g].old
         /\ H[g].new = G[g].new /\ H[g].err = G[g].err
         /\ \A h \in Getters : h # g => H[h] = G[h]
  <1>1. PICK a : a = [G[g] EXCEPT !.pc = x]
    OBVIOUS
  <1>2. H = [G EXCEPT ![g] = a]
    BY <1>1
  <1>3. G[g] \in Getter
    OBVIOUS
  <1>4. a \in Getter /\ a.pc = x /\ a.service = G[g].service /\ a.old = G[g].old
        /\ a.new = G[g].new /\ a.err = G[g].err
    BY <1>1, <1>3 DEF Getter
  <1> QED BY <1>2, <1>4

(* A getter starting over with a result.                                   *)
LEMMA GetterIdle ==
  ASSUME NEW view \in Views
  PROVE  [Idle EXCEPT !.res = view] \in Getter /\ [Idle EXCEPT !.res = view].pc = "idle"
  BY EmptyView DEF Idle, Getter, GetterPcs

(* What a step of the getter g has to keep when the watching goroutines    *)
(* and the registry do not move.                                           *)
LEMMA GetterStep ==
  ASSUME CacheInv, NEW g \in Getters,
         UNCHANGED <<regVars, rsvc, running, stopped, run>>,
         watched' = watched, flight' = flight,
         status' \in {"nil", "err"},
         get' \in [Getters -> Getter],
         \A h \in Getters : h # g => get'[h] = get[h],
         Getting(g)',
         cache' \in [Services -> {Nil} \cup Entries],
         \A s \in Services : cache'[s] # Nil => Refers(cache'[s]),
         fresh' \subseteq Services, Serving'
  PROVE  CacheInv'
  <1>0. /\ records' = records /\ expired' = expired /\ watchers' = watchers
        /\ events' = events /\ objs' = objs /\ ops' = ops /\ rsvc' = rsvc
        /\ running' = running /\ stopped' = stopped /\ run' = run
    BY DEF regVars
  <1>1. Objects'
    BY <1>0 DEF CacheInv, Objects
  <1>2. CacheTypes'
    BY <1>0 DEF CacheInv, CacheTypes
  <1>3. References'
    <2>1. \A s \in Services : cache'[s] # Nil => Refers(cache[s])'
      BY <1>0 DEF Refers
    <2> QED BY <1>0, <2>1 DEF CacheInv, References
  <1>4. \A h \in Getters : Getting(h)'
    BY <1>0 DEF CacheInv, Getting
  <1>5. Watching'
    BY <1>0 DEF CacheInv, Watching, WatchedIsRun, RunsOf
  <1> QED BY <1>1, <1>2, <1>3, <1>4, <1>5 DEF CacheInv

(* The same when the cache's entries stay.                                 *)
LEMMA GetterMoves ==
  ASSUME CacheInv, NEW g \in Getters,
         UNCHANGED <<regVars, rsvc, cache, fresh, watched, running, stopped, run, flight>>,
         status' \in {"nil", "err"},
         get' \in [Getters -> Getter],
         \A h \in Getters : h # g => get'[h] = get[h],
         Getting(g)'
  PROVE  CacheInv'
  <1>1. /\ cache' \in [Services -> {Nil} \cup Entries]
        /\ \A s \in Services : cache'[s] # Nil => Refers(cache'[s])
        /\ fresh' \subseteq Services
    BY DEF CacheInv, CacheTypes, References
  <1>2. Serving'
    BY DEF CacheInv, Serving, Kept
  <1> QED BY <1>1, <1>2, GetterStep

(* A getter serves the entry or copies what there is for later.            *)
LEMMA GetReadInv ==
  ASSUME CacheInv, NEW g \in Getters, NEW s \in Services, GetRead(g, s)
  PROVE  CacheInv'
  <1>0. /\ Objects /\ CacheTypes /\ References /\ Getting(g)
        /\ get[g].pc = "idle"
        /\ UNCHANGED <<regVars, serverVars, cacheVars, run, flight, fails>>
    BY DEF CacheInv, GetRead
  <1>1. PICK view \in Views : view = ViewOf(cache[s])
    BY <1>0, ViewOfCache DEF CacheTypes, References
  <1>2. PICK x \in {"fetch", "mark"} : x = IF s \in watched THEN "fetch" ELSE "mark"
    OBVIOUS
  <1>3. PICK a : /\ get' = [get EXCEPT ![g] = a]
                 /\ \/ a = [Idle EXCEPT !.res = view]
                    \/ a = [Idle EXCEPT !.pc = x, !.service = s, !.old = view]
    BY <1>1, <1>2 DEF GetRead
  <1>4. /\ a \in Getter
        /\ a.pc = "idle" \/ (a.pc = x /\ a.service = s)
    <2>1. x \in GetterPcs
      BY DEF GetterPcs
    <2>2. CASE a = [Idle EXCEPT !.res = view]
      BY <2>2, GetterIdle
    <2>3. CASE a = [Idle EXCEPT !.pc = x, !.service = s, !.old = view]
      BY <2>1, <2>3, EmptyView DEF Idle, Getter, GetterPcs
    <2> QED BY <1>3, <2>2, <2>3
  <1>5. /\ get' \in [Getters -> Getter] /\ get'[g] = a
        /\ \A h \in Getters : h # g => get'[h] = get[h]
    BY <1>0, <1>3, <1>4 DEF CacheTypes
  <1>6. \A q \in Services : g \notin flight[q]
    BY <1>0 DEF Getting
  <1>7. Getting(g)'
    BY <1>0, <1>2, <1>4, <1>5, <1>6 DEF Getting, cacheVars
  <1>8. status \in {"nil", "err"}
    BY <1>0 DEF CacheTypes
  <1> QED BY <1>0, <1>5, <1>7, <1>8, GetterMoves DEF cacheVars, serverVars

(* A getter whose flight failed serves what it copied.                     *)
LEMMA GetStaleInv ==
  ASSUME CacheInv, NEW g \in Getters, GetStale(g)
  PROVE  CacheInv'
  <1>0. /\ CacheTypes /\ Getting(g)
        /\ get[g].pc = "fetched"
        /\ UNCHANGED <<regVars, serverVars, cache, fresh, watched, running, stopped, run,
                       flight, fails>>
    BY DEF CacheInv, GetStale
  <1>1. PICK view \in Views : view = get[g].old
    BY <1>0 DEF CacheTypes, Getter
  <1>2. PICK a : a = [Idle EXCEPT !.res = view]
    OBVIOUS
  <1>3. get' = [get EXCEPT ![g] = a]
    BY <1>1, <1>2 DEF GetStale
  <1>4. a \in Getter /\ a.pc = "idle"
    BY <1>2, GetterIdle
  <1>5. /\ get' \in [Getters -> Getter] /\ get'[g] = a
        /\ \A h \in Getters : h # g => get'[h] = get[h]
    BY <1>0, <1>3, <1>4 DEF CacheTypes
  <1>6. \A q \in Services : g \notin flight[q]
    BY <1>0 DEF Getting
  <1>7. Getting(g)'
    BY <1>0, <1>4, <1>5, <1>6 DEF Getting
  <1>8. status' \in {"nil", "err"}
    BY <1>0 DEF CacheTypes, GetStale
  <1> QED BY <1>0, <1>5, <1>7, <1>8, GetterMoves DEF serverVars

(* A getter that has an answer resets the status.                          *)
LEMMA GetClearsInv ==
  ASSUME CacheInv, NEW g \in Getters, GetClears(g)
  PROVE  CacheInv'
  <1>0. /\ CacheTypes /\ Getting(g)
        /\ get[g].pc = "fetched" /\ ~get[g].err
        /\ get' = [get EXCEPT ![g].pc = "store"]
        /\ UNCHANGED <<regVars, serverVars, cache, fresh, watched, running, stopped, run,
                       flight, fails>>
        /\ status' = "nil"
    BY DEF CacheInv, GetClears
  <1>1. /\ "store" \in GetterPcs /\ get \in [Getters -> Getter]
        /\ get' = [get EXCEPT ![g].pc = "store"]
    BY <1>0 DEF GetterPcs, CacheTypes
  <1>2. /\ get' \in [Getters -> Getter]
        /\ get'[g].pc = "store" /\ get'[g].service = get[g].service
        /\ get'[g].new = get[g].new
        /\ \A h \in Getters : h # g => get'[h] = get[h]
    BY <1>1, GetterPc
  <1>3. \A q \in Services : g \notin flight[q]
    BY <1>0 DEF Getting
  <1>4. Getting(g)'
    BY <1>0, <1>2, <1>3 DEF Getting
  <1> QED BY <1>0, <1>2, <1>4, GetterMoves DEF serverVars

(* A getter joins the flight of its service.                               *)
LEMMA GetJoinInv ==
  ASSUME CacheInv, NEW g \in Getters, GetJoin(g)
  PROVE  CacheInv'
  <1>0. /\ CacheTypes /\ Getting(g)
        /\ get[g].pc = "fetch"
        /\ get' = [get EXCEPT ![g].pc = "flight"]
        /\ UNCHANGED <<regVars, serverVars, cacheVars, run, fails>>
    BY DEF CacheInv, GetJoin
  <1>1. /\ "flight" \in GetterPcs /\ get \in [Getters -> Getter]
        /\ get' = [get EXCEPT ![g].pc = "flight"]
    BY <1>0 DEF GetterPcs, CacheTypes
  <1>2. /\ get' \in [Getters -> Getter]
        /\ get'[g].pc = "flight" /\ get'[g].service = get[g].service
        /\ \A h \in Getters : h # g => get'[h] = get[h]
    BY <1>1, GetterPc
  <1>3. PICK s \in Services : s = get[g].service
    BY <1>0 DEF Getting
  <1>4. flight' = [flight EXCEPT ![s] = @ \cup {g}]
    BY <1>3 DEF GetJoin
  <1>5. /\ flight' \in [Services -> SUBSET Getters]
        /\ \A q \in Services : \A h \in Getters :
             h \in flight'[q] => h \in flight[q] \/ (h = g /\ q = s)
    BY <1>0, <1>4 DEF CacheTypes
  <1>6. /\ records' = records /\ expired' = expired /\ watchers' = watchers
        /\ events' = events /\ objs' = objs /\ ops' = ops /\ rsvc' = rsvc
        /\ cache' = cache /\ fresh' = fresh /\ watched' = watched /\ running' = running
        /\ status' = status /\ stopped' = stopped /\ run' = run
    BY <1>0 DEF regVars, serverVars, cacheVars
  <1>7. \A h \in Getters : Getting(h)'
    <2> TAKE h \in Getters
    <2>1. CASE h = g
      <3>1. \A q \in Services : g \notin flight[q]
        BY <1>0 DEF Getting
      <3> QED BY <2>1, <3>1, <1>0, <1>2, <1>3, <1>5, <1>6 DEF Getting
    <2>2. CASE h # g
      <3>1. Getting(h) /\ get'[h] = get[h]
        BY <2>2, <1>2 DEF CacheInv
      <3> QED BY <2>2, <3>1, <1>5, <1>6 DEF Getting
    <2> QED BY <2>1, <2>2
  <1>8. Objects' /\ CacheTypes' /\ References'
    BY <1>2, <1>5, <1>6 DEF CacheInv, Objects, CacheTypes, References, Refers
  <1>9. Watching' /\ Serving'
    BY <1>6 DEF CacheInv, Watching, WatchedIsRun, RunsOf, Serving, Kept
  <1> QED BY <1>7, <1>8, <1>9 DEF CacheInv

(* The registry answers everyone in the flight of s.                       *)
LEMMA FlightReturnsInv ==
  ASSUME CacheInv, NEW s \in Services, FlightReturns(s)
  PROVE  CacheInv'
  <1>0. /\ CacheTypes /\ flight' = [flight EXCEPT ![s] = {}]
        /\ UNCHANGED <<regVars, serverVars, cacheVars, run>>
    BY DEF CacheInv, FlightReturns
  <1>1. PICK failing \in BOOLEAN :
          get' = [g \in Getters |->
            IF g \in flight[s]
            THEN [get[g] EXCEPT !.pc = "fetched", !.new = records[s],
                                !.err = failing \/ ~Known(s)]
            ELSE get[g]]
    BY DEF FlightReturns
  <1>2. PICK err \in BOOLEAN : err = (failing \/ ~Known(s))
    OBVIOUS
  <1>3. PICK view \in Views : view = records[s]
    BY <1>0 DEF CacheTypes
  <1>4. ~err => Recorded(view) # {}
    BY <1>2, <1>3 DEF Known
  <1>5. get' = [g \in Getters |->
            IF g \in flight[s]
            THEN [get[g] EXCEPT !.pc = "fetched", !.new = view, !.err = err]
            ELSE get[g]]
    BY <1>1, <1>2, <1>3
  <1>6. ASSUME NEW g \in Getters, g \in flight[s]
        PROVE  /\ get'[g] \in Getter
               /\ get'[g].pc = "fetched" /\ get'[g].new = view /\ get'[g].err = err
               /\ get'[g].service = get[g].service
    <2>1. PICK b \in Getter : b = get[g]
      BY <1>0 DEF CacheTypes
    <2>2. PICK a : a = [b EXCEPT !.pc = "fetched", !.new = view, !.err = err]
      OBVIOUS
    <2>3. /\ a \in Getter /\ a.pc = "fetched" /\ a.new = view /\ a.err = err
          /\ a.service = b.service
      BY <2>2 DEF Getter, GetterPcs
    <2>4. get'[g] = a
      BY <1>5, <1>6, <2>1, <2>2
    <2> QED BY <2>1, <2>3, <2>4
  <1>7. \A g \in Getters : g \notin flight[s] => get'[g] = get[g]
    BY <1>5
  <1>8. get' \in [Getters -> Getter]
    <2>1. \A g \in Getters : get'[g] \in Getter
      BY <1>0, <1>6, <1>7 DEF CacheTypes
    <2>2. get' = [g \in Getters |-> get'[g]]
      BY <1>5
    <2> QED BY <2>1, <2>2
  <1>9. /\ flight' \in [Services -> SUBSET Getters] /\ flight'[s] = {}
        /\ \A q \in Services : q # s => flight'[q] = flight[q]
    BY <1>0 DEF CacheTypes
  <1>10. /\ records' = records /\ expired' = expired /\ watchers' = watchers
         /\ events' = events /\ objs' = objs /\ ops' = ops /\ rsvc' = rsvc
         /\ cache' = cache /\ fresh' = fresh /\ watched' = watched /\ running' = running
         /\ status' = status /\ stopped' = stopped /\ run' = run
    BY <1>0 DEF regVars, serverVars, cacheVars
  <1>11. \A g \in Getters : Getting(g)'
    <2> TAKE g \in Getters
    <2>0. Getting(g)
      BY DEF CacheInv
    <2>1. CASE g \in flight[s]
      <3>1. get[g].pc = "flight" /\ get[g].service = s
        BY <2>0, <2>1 DEF Getting
      <3>2. \A q \in Services : q # s => g \notin flight[q]
        BY <2>0, <3>1 DEF Getting
      <3>3. \A q \in Services : g \notin flight'[q]
        BY <3>2, <1>9
      <3>4. ~stopped => s \in watched
        BY <2>0, <3>1 DEF Getting
      <3> QED BY <2>1, <3>1, <3>3, <3>4, <1>4, <1>6, <1>10 DEF Getting
    <2>2. CASE g \notin flight[s]
      BY <2>0, <2>2, <1>7, <1>9, <1>10 DEF Getting
    <2> QED BY <2>1, <2>2
  <1>12. Objects' /\ CacheTypes' /\ References'
    BY <1>8, <1>9, <1>10 DEF CacheInv, Objects, CacheTypes, References, Refers
  <1>13. Watching' /\ Serving'
    BY <1>10 DEF CacheInv, Watching, WatchedIsRun, RunsOf, Serving, Kept
  <1> QED BY <1>11, <1>12, <1>13 DEF CacheInv

(* A getter stores what the registry said, which is not empty.             *)
LEMMA GetStoresInv ==
  ASSUME CacheInv, NEW g \in Getters, GetStores(g)
  PROVE  CacheInv'
  <1>0. /\ CacheTypes /\ Getting(g)
        /\ get[g].pc = "store"
        /\ UNCHANGED <<regVars, serverVars, watched, running, status, stopped, run, flight,
                       fails>>
    BY DEF CacheInv, GetStores
  <1>1. PICK s \in Services : s = get[g].service
    BY <1>0 DEF Getting
  <1>2. PICK view \in Views : view = get[g].new
    BY <1>0 DEF CacheTypes, Getter
  <1>3. /\ cache' = [cache EXCEPT ![s] = CopyOf(view)]
        /\ fresh' = fresh \cup {s}
        /\ get' = [get EXCEPT ![g] = [Idle EXCEPT !.res = view]]
    BY <1>1, <1>2 DEF GetStores
  <1>4. PICK a : a = [Idle EXCEPT !.res = view]
    OBVIOUS
  <1>5. a \in Getter /\ a.pc = "idle"
    BY <1>4, GetterIdle
  <1>6. /\ get' \in [Getters -> Getter] /\ get'[g] = a
        /\ \A h \in Getters : h # g => get'[h] = get[h]
    BY <1>0, <1>3, <1>4, <1>5 DEF CacheTypes
  <1>7. \A q \in Services : g \notin flight[q]
    BY <1>0 DEF Getting
  <1>8. Getting(g)'
    BY <1>0, <1>5, <1>6, <1>7 DEF Getting
  <1>9. PICK c \in Entries : c = CopyOf(view)
    BY CopyOfView
  <1>10. Refers(c)
    BY <1>9, CopyOfView DEF Refers
  <1>11. Kept(c)
    <2>1. PICK v \in Versions : view[v] # Nil
      BY <1>0, <1>2 DEF Getting, Recorded
    <2>2. c[v] # Nil
      BY <1>9, <2>1, CopyOfView
    <2> QED BY <2>2, NilApart DEF Kept
  <1>12. /\ cache' \in [Services -> {Nil} \cup Entries] /\ cache'[s] = c
         /\ \A q \in Services : q # s => cache'[q] = cache[q]
    BY <1>0, <1>3, <1>9 DEF CacheTypes
  <1>13. \A q \in Services : cache'[q] # Nil => Refers(cache'[q])
    BY <1>10, <1>12 DEF CacheInv, References
  <1>14. fresh' \subseteq Services
    BY <1>0, <1>3 DEF CacheTypes
  <1>15. Serving'
    <2> SUFFICES ASSUME ~stopped, NEW q \in fresh'
                 PROVE  Kept(cache'[q]) /\ q \in watched
      BY <1>0 DEF Serving, Kept
    <2>1. CASE q = s
      BY <2>1, <1>0, <1>1, <1>11, <1>12 DEF Getting
    <2>2. CASE q # s
      <3>1. q \in fresh /\ q \in Services
        BY <2>2, <1>3, <1>14
      <3> QED BY <2>2, <3>1, <1>12 DEF CacheInv, Serving
    <2> QED BY <2>1, <2>2
  <1>16. status' \in {"nil", "err"}
    BY <1>0 DEF CacheTypes
  <1> QED BY <1>0, <1>6, <1>8, <1>12, <1>13, <1>14, <1>15, <1>16, GetterStep DEF serverVars

(* The ttl of an entry passes.                                             *)
LEMMA TTLPassesInv ==
  ASSUME CacheInv, NEW s \in Services, TTLPasses(s)
  PROVE  CacheInv'
  <1>1. /\ fresh' = fresh \ {s}
        /\ UNCHANGED <<regVars, serverVars, cache, watched, running, status, stopped, run, get,
                       flight>>
    BY DEF TTLPasses
  <1>2. Objects' /\ CacheTypes' /\ References'
    BY <1>1 DEF CacheInv, Objects, CacheTypes, References, Refers, regVars, serverVars
  <1>3. \A g \in Getters : Getting(g)'
    BY <1>1 DEF CacheInv, Getting
  <1>4. Watching' /\ Serving'
    BY <1>1 DEF CacheInv, Watching, WatchedIsRun, RunsOf, Serving, Kept
  <1> QED BY <1>2, <1>3, <1>4 DEF CacheInv

-----------------------------------------------------------------------------
(* Steps of the goroutines that watch.                                     *)

(* Setting the pc of a goroutine that watches.                             *)
LEMMA RunnerPc ==
  ASSUME NEW R \in [Runners -> Runner], NEW r \in Runners, NEW x \in RunnerPcs,
         NEW S, S = [R EXCEPT ![r].pc = x]
  PROVE  /\ S \in [Runners -> Runner]
         /\ S[r].pc = x /\ S[r].service = R[r].service /\ S[r].event = R[r].event
         /\ \A q \in Runners : q # r => S[q] = R[q]
  <1>1. PICK a : a = [R[r] EXCEPT !.pc = x]
    OBVIOUS
  <1>2. S = [R EXCEPT ![r] = a]
    BY <1>1
  <1>3. R[r] \in Runner
    OBVIOUS
  <1>4. a \in Runner /\ a.pc = x /\ a.service = R[r].service /\ a.event = R[r].event
    BY <1>1, <1>3 DEF Runner
  <1> QED BY <1>2, <1>4

(* What a step of the goroutine r, which goes on, has to keep.             *)
LEMMA RunnerStep ==
  ASSUME CacheInv, NEW r \in Runners,
         UNCHANGED <<records, expired, ops, rsvc, watched, stopped, get, flight>>,
         run' \in [Runners -> Runner],
         \A q \in Runners : q # r => run'[q] = run[q],
         run[r].pc # "none", run'[r].pc # "none", run'[r].service = run[r].service,
         run'[r].pc \in {"event", "update"} =>
           run'[r].event \in Event /\ run'[r].event.obj \in DOMAIN objs,
         objs' \in [DOMAIN objs -> SUBSET Servers],
         \A e \in events' : e \in Event /\ e.obj \in DOMAIN objs,
         watchers' \in [Watchers -> {"none", "open", "stopped"}],
         status' \in {"nil", "err"},
         running' \subseteq running \cup {run[r].service},
         cache' \in [Services -> {Nil} \cup Entries],
         \A s \in Services : cache'[s] # Nil => Refers(cache'[s]),
         fresh' \subseteq Services, Serving'
  PROVE  CacheInv'
  <1>0. DOMAIN objs' = DOMAIN objs
    OBVIOUS
  <1>1. Objects'
    <2>1. PICK n \in Nat : DOMAIN objs = 1..n
      BY DEF CacheInv, Objects
    <2> QED BY <2>1 DEF Objects
  <1>2. run[r].service \in Services
    BY DEF CacheInv, Watching
  <1>3. CacheTypes'
    BY <1>2 DEF CacheInv, CacheTypes
  <1>4. References'
    <2>1. \A s \in Services : cache'[s] # Nil => Refers(cache[s])'
      BY <1>0 DEF Refers
    <2>2. \A q \in Runners : run'[q].pc \in {"event", "update"} =>
            run'[q].event \in Event /\ run'[q].event.obj \in DOMAIN objs
      BY DEF CacheInv, References
    <2>3. \A p \in Servers : rsvc'[p] = Nil \/ rsvc'[p] \in DOMAIN objs'
      BY <1>0 DEF CacheInv, References
    <2> QED BY <1>0, <2>1, <2>2, <2>3 DEF References
  <1>5. \A g \in Getters : Getting(g)'
    BY DEF CacheInv, Getting
  <1>6. Watching'
    <2>1. \A s \in Services : RunsOf(s)' = RunsOf(s)
      BY DEF RunsOf
    <2>2. run[r].service \in Services /\ RunsOf(run[r].service) # {}
      BY <1>2 DEF RunsOf
    <2>3. \A q \in Runners : run'[q].pc # "none" => run'[q].service \in Services
      BY DEF CacheInv, Watching
    <2>4. ~stopped => \A s \in running' : RunsOf(s)' # {}
      BY <2>1, <2>2 DEF CacheInv, CacheTypes, Watching
    <2>5. WatchedIsRun'
      BY <2>1 DEF CacheInv, Watching, WatchedIsRun
    <2> QED BY <2>3, <2>4, <2>5 DEF Watching
  <1> QED BY <1>1, <1>3, <1>4, <1>5, <1>6 DEF CacheInv

(* The same when the cache's entries stay.                                 *)
LEMMA RunnerMoves ==
  ASSUME CacheInv, NEW r \in Runners,
         UNCHANGED <<records, expired, objs, ops, rsvc, cache, fresh, watched, stopped, get,
                     flight>>,
         run' \in [Runners -> Runner],
         \A q \in Runners : q # r => run'[q] = run[q],
         run[r].pc # "none", run'[r].pc # "none", run'[r].service = run[r].service,
         run'[r].pc \in {"event", "update"} =>
           run'[r].event \in Event /\ run'[r].event.obj \in DOMAIN objs,
         \A e \in events' : e \in Event /\ e.obj \in DOMAIN objs,
         watchers' \in [Watchers -> {"none", "open", "stopped"}],
         status' \in {"nil", "err"},
         running' \subseteq running \cup {run[r].service}
  PROVE  CacheInv'
  <1>1. /\ cache' \in [Services -> {Nil} \cup Entries]
        /\ \A s \in Services : cache'[s] # Nil => Refers(cache'[s])
        /\ fresh' \subseteq Services
    BY DEF CacheInv, CacheTypes, References
  <1>2. Serving'
    BY DEF CacheInv, Serving, Kept
  <1>3. objs' \in [DOMAIN objs -> SUBSET Servers]
    BY DEF CacheInv, Objects
  <1> QED BY <1>1, <1>2, <1>3, RunnerStep

(* A goroutine starts and says that it runs.                               *)
LEMMA RunStartInv ==
  ASSUME CacheInv, NEW r \in Runners, RunStart(r)
  PROVE  CacheInv'
  <1>0. /\ CacheTypes /\ References /\ run[r].pc = "start"
        /\ running' = running \cup {run[r].service}
        /\ UNCHANGED <<regVars, serverVars, cache, fresh, watched, status, stopped, get, flight>>
    BY DEF CacheInv, RunStart
  <1>1. /\ "loop" \in RunnerPcs /\ run \in [Runners -> Runner]
        /\ run' = [run EXCEPT ![r].pc = "loop"]
    BY <1>0 DEF RunnerPcs, CacheTypes, RunStart
  <1>2. /\ run' \in [Runners -> Runner]
        /\ run'[r].pc = "loop" /\ run'[r].service = run[r].service
        /\ \A q \in Runners : q # r => run'[q] = run[q]
    BY <1>1, RunnerPc
  <1>3. /\ \A e \in events' : e \in Event /\ e.obj \in DOMAIN objs
        /\ watchers' \in [Watchers -> {"none", "open", "stopped"}]
        /\ status' \in {"nil", "err"}
    BY <1>0 DEF CacheTypes, References, regVars
  <1> QED BY <1>0, <1>2, <1>3, RunnerMoves DEF regVars, serverVars

(* A goroutine opens its watcher.                                          *)
LEMMA RunWatchInv ==
  ASSUME CacheInv, NEW r \in Runners, RunWatch(r)
  PROVE  CacheInv'
  <1>0. /\ CacheTypes /\ References /\ run[r].pc = "loop"
        /\ watchers' = [watchers EXCEPT ![r] = "open"]
        /\ UNCHANGED <<records, expired, objs, ops, events, serverVars, cacheVars, get, flight>>
    BY DEF CacheInv, RunWatch, Watch
  <1>1. /\ "next" \in RunnerPcs /\ run \in [Runners -> Runner]
        /\ run' = [run EXCEPT ![r].pc = "next"]
    BY <1>0 DEF RunnerPcs, CacheTypes, RunWatch
  <1>2. /\ run' \in [Runners -> Runner]
        /\ run'[r].pc = "next" /\ run'[r].service = run[r].service
        /\ \A q \in Runners : q # r => run'[q] = run[q]
    BY <1>1, RunnerPc
  <1>3. /\ \A e \in events' : e \in Event /\ e.obj \in DOMAIN objs
        /\ watchers' \in [Watchers -> {"none", "open", "stopped"}]
        /\ status' \in {"nil", "err"}
    BY <1>0 DEF CacheTypes, References, cacheVars
  <1> QED BY <1>0, <1>2, <1>3, RunnerMoves DEF cacheVars, serverVars

(* Watch or Next fails; the goroutine goes on to watch again.              *)
LEMMA RunFailsInv ==
  ASSUME CacheInv, NEW r \in Runners, RunFails(r)
  PROVE  CacheInv'
  <1>0. /\ CacheTypes /\ References /\ run[r].pc # "none"
        /\ watchers' = [watchers EXCEPT ![r] = "none"] /\ status' = "err"
        /\ UNCHANGED <<records, expired, objs, ops, serverVars, cache, fresh, watched, running,
                       stopped, get, flight>>
    BY DEF CacheInv, RunFails
  <1>1. /\ "loop" \in RunnerPcs /\ run \in [Runners -> Runner]
        /\ run' = [run EXCEPT ![r].pc = "loop"]
    BY <1>0 DEF RunnerPcs, CacheTypes, RunFails
  <1>2. /\ run' \in [Runners -> Runner]
        /\ run'[r].pc = "loop" /\ run'[r].service = run[r].service
        /\ \A q \in Runners : q # r => run'[q] = run[q]
    BY <1>1, RunnerPc
  <1>3. \A f \in events' : f \in Event /\ f.obj \in DOMAIN objs
    <2> SUFFICES ASSUME NEW f \in events'
                 PROVE  f \in Event /\ f.obj \in DOMAIN objs
      OBVIOUS
    <2>1. PICK e \in events : f = [e EXCEPT !.to = IF @ = Nil THEN Nil ELSE @ \ {r}]
      BY DEF RunFails
    <2>2. e \in Event /\ e.obj \in DOMAIN objs
      BY <1>0 DEF CacheTypes, References
    <2>3. PICK ws : ws = IF e.to = Nil THEN Nil ELSE e.to \ {r}
      OBVIOUS
    <2>4. ws \in {Nil} \cup SUBSET Watchers
      BY <2>2, <2>3, EventFields
    <2>5. f = [e EXCEPT !.to = ws]
      BY <2>1, <2>3
    <2> QED BY <2>2, <2>4, <2>5, EventTo
  <1>4. /\ watchers' \in [Watchers -> {"none", "open", "stopped"}]
        /\ status' \in {"nil", "err"}
    BY <1>0 DEF CacheTypes
  <1> QED BY <1>0, <1>2, <1>3, <1>4, RunnerMoves DEF serverVars

(* Next returns an event, or skips it.                                     *)
LEMMA RunNextInv ==
  ASSUME CacheInv, NEW r \in Runners, NEW e \in events, RunNext(r, e)
  PROVE  CacheInv'
  <1>0. /\ CacheTypes /\ References /\ run[r].pc = "next"
        /\ e.to # Nil /\ Offered(e, r)
        /\ UNCHANGED <<records, expired, watchers, objs, ops, serverVars, cacheVars, get, flight>>
    BY DEF CacheInv, RunNext, Deliver
  <1>1. \A f \in events' : f \in Event /\ f.obj \in DOMAIN objs
    BY <1>0, OfferedEvents
  <1>2. e \in Event /\ e.obj \in DOMAIN objs
    BY <1>0 DEF CacheTypes, References
  <1>3. /\ run' \in [Runners -> Runner]
        /\ run'[r].pc # "none" /\ run'[r].service = run[r].service
        /\ run'[r].pc \in {"event", "update"} => run'[r].event = e
        /\ \A q \in Runners : q # r => run'[q] = run[q]
    <2>1. CASE run' = run
      BY <2>1, <1>0 DEF CacheTypes
    <2>2. CASE run' = [run EXCEPT ![r].pc = "event", ![r].event = e]
      <3>1. /\ "event" \in RunnerPcs /\ run \in [Runners -> Runner]
            /\ e \in {Nil} \cup Event
        BY <1>0, <1>2 DEF RunnerPcs, CacheTypes
      <3>2. PICK b : b = run[r]
        OBVIOUS
      <3>3. PICK a : a = [b EXCEPT !.pc = "event", !.event = e]
        OBVIOUS
      <3>4. run' = [run EXCEPT ![r] = a]
        BY <2>2, <3>2, <3>3
      <3>5. b \in Runner
        BY <3>1, <3>2
      <3>6. a \in Runner /\ a.pc = "event" /\ a.service = b.service /\ a.event = e
        BY <3>1, <3>3, <3>5 DEF Runner
      <3> QED BY <3>1, <3>2, <3>4, <3>6
    <2> QED BY <2>1, <2>2 DEF RunNext
  <1>4. /\ watchers' \in [Watchers -> {"none", "open", "stopped"}]
        /\ status' \in {"nil", "err"}
    BY <1>0 DEF CacheTypes, cacheVars
  <1> QED BY <1>0, <1>1, <1>2, <1>3, <1>4, RunnerMoves DEF cacheVars, serverVars

(* An event resets the status.                                             *)
LEMMA RunClearsInv ==
  ASSUME CacheInv, NEW r \in Runners, RunClears(r)
  PROVE  CacheInv'
  <1>0. /\ CacheTypes /\ References /\ run[r].pc = "event" /\ status' = "nil"
        /\ UNCHANGED <<regVars, serverVars, cache, fresh, watched, running, stopped, get, flight>>
    BY DEF CacheInv, RunClears
  <1>1. /\ "update" \in RunnerPcs /\ run \in [Runners -> Runner]
        /\ run' = [run EXCEPT ![r].pc = "update"]
    BY <1>0 DEF RunnerPcs, CacheTypes, RunClears
  <1>2. /\ run' \in [Runners -> Runner]
        /\ run'[r].pc = "update" /\ run'[r].service = run[r].service
        /\ run'[r].event = run[r].event
        /\ \A q \in Runners : q # r => run'[q] = run[q]
    BY <1>1, RunnerPc
  <1>3. run'[r].event \in Event /\ run'[r].event.obj \in DOMAIN objs
    BY <1>0, <1>2 DEF References
  <1>4. /\ \A e \in events' : e \in Event /\ e.obj \in DOMAIN objs
        /\ watchers' \in [Watchers -> {"none", "open", "stopped"}]
        /\ status' \in {"nil", "err"}
    BY <1>0 DEF CacheTypes, References, regVars
  <1> QED BY <1>0, <1>2, <1>3, <1>4, RunnerMoves DEF regVars, serverVars

(* After Stop a goroutine stops its watcher.                               *)
LEMMA RunQuitsInv ==
  ASSUME CacheInv, NEW r \in Runners, RunQuits(r)
  PROVE  CacheInv'
  <1>0. /\ CacheTypes /\ References /\ run[r].pc = "next"
        /\ watchers' = [watchers EXCEPT ![r] = IF @ = "open" THEN "stopped" ELSE @]
        /\ UNCHANGED <<records, expired, events, objs, ops, serverVars, cacheVars, get, flight>>
    BY DEF CacheInv, RunQuits, StopWatcher
  <1>1. /\ "loop" \in RunnerPcs /\ run \in [Runners -> Runner]
        /\ run' = [run EXCEPT ![r].pc = "loop"]
    BY <1>0 DEF RunnerPcs, CacheTypes, RunQuits
  <1>2. /\ run' \in [Runners -> Runner]
        /\ run'[r].pc = "loop" /\ run'[r].service = run[r].service
        /\ \A q \in Runners : q # r => run'[q] = run[q]
    BY <1>1, RunnerPc
  <1>3. /\ \A e \in events' : e \in Event /\ e.obj \in DOMAIN objs
        /\ watchers' \in [Watchers -> {"none", "open", "stopped"}]
        /\ status' \in {"nil", "err"}
    BY <1>0 DEF CacheTypes, References, cacheVars, Runners
  <1> QED BY <1>0, <1>2, <1>3, RunnerMoves DEF cacheVars, serverVars

(* update: the goroutine is done with its event, which may have changed    *)
(* the entry of the service it names, and the objects.                     *)
LEMMA UpdateInv ==
  ASSUME CacheInv, NEW r \in Runners, Update(r)
  PROVE  CacheInv'
  <1>0. /\ Objects /\ CacheTypes /\ References /\ Serving /\ run[r].pc = "update"
        /\ UNCHANGED <<records, expired, watchers, wants, events, ops, serverVars, watched,
                       running, status, stopped, get, flight>>
    BY DEF CacheInv, Update
  <1>1. /\ "next" \in RunnerPcs /\ run \in [Runners -> Runner]
        /\ Nil \in {Nil} \cup Event
        /\ run' = [run EXCEPT ![r].pc = "next", ![r].event = Nil]
    BY <1>0 DEF RunnerPcs, CacheTypes, Update
  <1>2. /\ run' \in [Runners -> Runner]
        /\ run'[r].pc = "next" /\ run'[r].service = run[r].service
        /\ \A q \in Runners : q # r => run'[q] = run[q]
    <2>1. PICK b : b = run[r]
      OBVIOUS
    <2>2. PICK a : a = [b EXCEPT !.pc = "next", !.event = Nil]
      OBVIOUS
    <2>3. run' = [run EXCEPT ![r] = a]
      BY <1>1, <2>1, <2>2
    <2>4. b \in Runner
      BY <1>1, <2>1
    <2>5. a \in Runner /\ a.pc = "next" /\ a.service = b.service
      BY <1>1, <2>2, <2>4 DEF Runner
    <2> QED BY <1>1, <2>1, <2>3, <2>5
  <1>3. PICK e \in Event : e = run[r].event /\ e.obj \in DOMAIN objs
    BY <1>0 DEF References
  <1>4. PICK action \in {"update", "delete"}, s \in Services, v \in Versions,
             o \in DOMAIN objs :
          action = e.action /\ s = e.service /\ v = e.version /\ o = e.obj
    BY <1>3, EventFields
  <1>5. PICK nodes \in SUBSET Servers : nodes = objs[o]
    BY <1>0, ObjContent
  <1>6. PICK c : c = cache[s]
    OBVIOUS
  <1>7. PICK u : u = Updated(c, action, v, o, nodes)
    OBVIOUS
  <1>8. \/ /\ s \in watched /\ c # Nil
           /\ u.do = "set" \/ u.do = "del"
           /\ cache' = [cache EXCEPT ![s] = IF u.do = "set" THEN u.entry ELSE Nil]
           /\ fresh' = IF u.do = "set" THEN fresh \cup {s} ELSE fresh \ {s}
           /\ objs' = ObjsAfter(c, action, v, o, nodes, u)
        \/ UNCHANGED <<cache, fresh, objs>>
    BY <1>3, <1>4, <1>5, <1>6, <1>7 DEF Update
  <1>9. /\ cache \in [Services -> {Nil} \cup Entries]
        /\ \A q \in Services : cache[q] # Nil => Refers(cache[q])
        /\ fresh \subseteq Services
    BY <1>0 DEF CacheTypes, References
  <1>10. /\ cache' \in [Services -> {Nil} \cup Entries]
         /\ \A q \in Services : cache'[q] # Nil => Refers(cache'[q])
         /\ fresh' \subseteq Services /\ Serving'
         /\ objs' \in [DOMAIN objs -> SUBSET Servers]
    <2>1. CASE UNCHANGED <<cache, fresh, objs>>
      <3>1. objs' \in [DOMAIN objs -> SUBSET Servers]
        BY <1>0, <2>1 DEF Objects
      <3>2. Serving'
        BY <1>0, <2>1 DEF Serving, Kept
      <3> QED BY <1>9, <2>1, <3>1, <3>2
    <2>2. ASSUME s \in watched, c # Nil,
                 objs' = ObjsAfter(c, action, v, o, nodes, u)
          PROVE  objs' \in [DOMAIN objs -> SUBSET Servers]
      <3>1. c \in Entries /\ Refers(c)
        BY <1>6, <1>9, <2>2
      <3> QED BY <1>0, <1>7, <2>2, <3>1, UpdatedObjs
    <2>3. CASE /\ s \in watched /\ c # Nil /\ u.do = "set"
               /\ cache' = [cache EXCEPT ![s] = u.entry]
               /\ fresh' = fresh \cup {s}
               /\ objs' = ObjsAfter(c, action, v, o, nodes, u)
      <3>1. c \in Entries /\ Refers(c)
        BY <1>6, <1>9, <2>3
      <3>2. PICK d : d = u.entry
        OBVIOUS
      <3>3. d \in Entries /\ Refers(d) /\ Kept(d)
        BY <1>0, <1>7, <2>3, <3>1, <3>2, UpdatedEntry
      <3>4. /\ cache' \in [Services -> {Nil} \cup Entries] /\ cache'[s] = d
            /\ \A q \in Services : q # s => cache'[q] = cache[q]
        BY <1>9, <2>3, <3>2, <3>3
      <3>5. \A q \in Services : cache'[q] # Nil => Refers(cache'[q])
        BY <1>9, <3>3, <3>4
      <3>6. fresh' \subseteq Services
        BY <1>9, <2>3
      <3>7. Serving'
        <4> SUFFICES ASSUME ~stopped, NEW q \in fresh'
                     PROVE  Kept(cache'[q]) /\ q \in watched
          BY <1>0 DEF Serving, Kept
        <4>1. CASE q = s
          BY <4>1, <2>3, <3>3, <3>4
        <4>2. CASE q # s
          <5>1. q \in fresh /\ q \in Services
            BY <4>2, <2>3, <3>6
          <5> QED BY <4>2, <5>1, <1>0, <3>4 DEF Serving
        <4> QED BY <4>1, <4>2
      <3> QED BY <2>2, <2>3, <3>4, <3>5, <3>6, <3>7
    <2>4. CASE /\ s \in watched /\ c # Nil
               /\ cache' = [cache EXCEPT ![s] = Nil]
               /\ fresh' = fresh \ {s}
               /\ objs' = ObjsAfter(c, action, v, o, nodes, u)
      <3>1. /\ cache' \in [Services -> {Nil} \cup Entries] /\ cache'[s] = Nil
            /\ \A q \in Services : q # s => cache'[q] = cache[q]
        BY <1>9, <2>4
      <3>2. \A q \in Services : cache'[q] # Nil => Refers(cache'[q])
        BY <1>9, <3>1
      <3>3. fresh' \subseteq Services
        BY <1>9, <2>4
      <3>4. Serving'
        <4> SUFFICES ASSUME ~stopped, NEW q \in fresh'
                     PROVE  Kept(cache'[q]) /\ q \in watched
          BY <1>0 DEF Serving, Kept
        <4>1. q \in fresh /\ q \in Services /\ q # s
          BY <2>4, <3>3
        <4> QED BY <4>1, <1>0, <3>1 DEF Serving
      <3> QED BY <2>2, <2>4, <3>1, <3>2, <3>3, <3>4
    <2> QED BY <1>8, <2>1, <2>3, <2>4
  <1>11. /\ \A f \in events' : f \in Event /\ f.obj \in DOMAIN objs
         /\ watchers' \in [Watchers -> {"none", "open", "stopped"}]
         /\ status' \in {"nil", "err"}
    BY <1>0 DEF CacheTypes, References
  <1> QED BY <1>0, <1>2, <1>10, <1>11, RunnerStep DEF serverVars

(* A getter makes sure that its service is watched: a new goroutine, or    *)
(* one that runs.                                                          *)
LEMMA GetMarkInv ==
  ASSUME CacheInv, NEW g \in Getters, GetMark(g)
  PROVE  CacheInv'
  <1>0. /\ CacheTypes /\ Getting(g) /\ Watching
        /\ get[g].pc = "mark"
        /\ UNCHANGED <<regVars, serverVars, cache, fresh, running, status, stopped, flight>>
    BY DEF CacheInv, GetMark
  <1>1. PICK s \in Services : s = get[g].service
    BY <1>0 DEF Getting
  <1>2. /\ "fetch" \in GetterPcs /\ get \in [Getters -> Getter]
        /\ get' = [get EXCEPT ![g].pc = "fetch"]
    BY <1>0 DEF GetterPcs, CacheTypes, GetMark
  <1>3. /\ get' \in [Getters -> Getter]
        /\ get'[g].pc = "fetch" /\ get'[g].service = get[g].service
        /\ \A h \in Getters : h # g => get'[h] = get[h]
    BY <1>2, GetterPc
  <1>4. watched' = watched \cup {s}
    BY <1>1 DEF GetMark
  <1>5. PICK a : a = [NoRun EXCEPT !.pc = "start", !.service = s]
    OBVIOUS
  <1>6. a \in Runner /\ a.pc = "start" /\ a.service = s
    BY <1>5 DEF NoRun, Runner, RunnerPcs
  <1>7. \/ \E r \in Runners : run[r].pc = "none" /\ run' = [run EXCEPT ![r] = a]
        \/ s \in running /\ run' = run
    BY <1>1, <1>5 DEF GetMark
  <1>8. /\ run' \in [Runners -> Runner]
        /\ \A q \in Runners :
             \/ run'[q] = run[q]
             \/ run[q].pc = "none" /\ run'[q].pc = "start" /\ run'[q].service = s
        /\ \/ \E q \in Runners : run'[q].pc = "start" /\ run'[q].service = s
           \/ s \in running /\ run' = run
    BY <1>0, <1>6, <1>7 DEF CacheTypes
  <1>9. /\ records' = records /\ expired' = expired /\ watchers' = watchers
        /\ events' = events /\ objs' = objs /\ ops' = ops /\ rsvc' = rsvc
        /\ cache' = cache /\ fresh' = fresh /\ running' = running
        /\ status' = status /\ stopped' = stopped /\ flight' = flight
    BY <1>0 DEF regVars, serverVars
  <1>10. Objects'
    BY <1>9 DEF CacheInv, Objects
  <1>11. CacheTypes'
    BY <1>0, <1>3, <1>4, <1>8, <1>9 DEF CacheTypes
  <1>12. References'
    <2>1. \A q \in Runners : run'[q].pc \in {"event", "update"} =>
            run'[q].event \in Event /\ run'[q].event.obj \in DOMAIN objs'
      BY <1>8, <1>9 DEF CacheInv, References
    <2>2. \A q \in Services : cache'[q] # Nil => Refers(cache[q])'
      BY <1>9 DEF CacheInv, References, Refers
    <2> QED BY <1>9, <2>1, <2>2 DEF CacheInv, References
  <1>13. \A h \in Getters : Getting(h)'
    <2> TAKE h \in Getters
    <2>1. CASE h = g
      <3>1. \A q \in Services : g \notin flight[q]
        BY <1>0 DEF Getting
      <3> QED BY <2>1, <3>1, <1>1, <1>3, <1>4, <1>9 DEF Getting
    <2>2. CASE h # g
      <3>1. Getting(h) /\ get'[h] = get[h]
        BY <2>2, <1>3 DEF CacheInv
      <3> QED BY <3>1, <1>4, <1>9 DEF Getting
    <2> QED BY <2>1, <2>2
  <1>14. Watching'
    <2>1. \A q \in Services : q # s => RunsOf(q)' = RunsOf(q)
      BY <1>8 DEF RunsOf
    <2>2. RunsOf(s) \subseteq RunsOf(s)'
      BY <1>8 DEF RunsOf
    <2>3. ~stopped => RunsOf(s)' # {}
      <3>1. CASE \E q \in Runners : run'[q].pc = "start" /\ run'[q].service = s
        BY <3>1 DEF RunsOf
      <3>2. CASE s \in running /\ run' = run
        BY <3>2, <2>2, <1>0 DEF Watching
      <3> QED BY <3>1, <3>2, <1>8
    <2>4. \A q \in Runners : run'[q].pc # "none" => run'[q].service \in Services
      BY <1>0, <1>8 DEF Watching
    <2>5. ~stopped => \A q \in running' : RunsOf(q)' # {}
      <3>1. running \subseteq Services
        BY <1>0 DEF CacheTypes
      <3> QED BY <1>0, <1>9, <2>1, <2>3, <3>1 DEF Watching
    <2>6. WatchedIsRun'
      BY <1>0, <1>4, <1>9, <2>1, <2>3 DEF Watching, WatchedIsRun
    <2> QED BY <1>9, <2>4, <2>5, <2>6 DEF Watching
  <1>15. Serving'
    BY <1>4, <1>9 DEF CacheInv, Serving, Kept
  <1> QED BY <1>10, <1>11, <1>12, <1>13, <1>14, <1>15 DEF CacheInv

(* After Stop a goroutine ends and forgets what is watched.                *)
LEMMA RunExitInv ==
  ASSUME CacheInv, NEW r \in Runners, RunExit(r)
  PROVE  CacheInv'
  <1>0. /\ CacheTypes /\ References /\ Watching /\ stopped
        /\ watched' = {} /\ running' \subseteq running
        /\ UNCHANGED <<regVars, serverVars, cache, fresh, status, stopped, get, flight>>
    BY DEF CacheInv, RunExit
  <1>1. PICK a : a = NoRun
    OBVIOUS
  <1>2. a \in Runner /\ a.pc = "none"
    BY <1>1 DEF NoRun, Runner, RunnerPcs
  <1>3. run' = [run EXCEPT ![r] = a]
    BY <1>1 DEF RunExit
  <1>4. /\ run' \in [Runners -> Runner]
        /\ \A q \in Runners : run'[q] = run[q] \/ run'[q].pc = "none"
    BY <1>0, <1>2, <1>3 DEF CacheTypes
  <1>5. /\ records' = records /\ expired' = expired /\ watchers' = watchers
        /\ events' = events /\ objs' = objs /\ ops' = ops /\ rsvc' = rsvc
        /\ cache' = cache /\ fresh' = fresh /\ get' = get
        /\ status' = status /\ stopped' = stopped /\ flight' = flight
    BY <1>0 DEF regVars, serverVars
  <1>6. Objects' /\ CacheTypes'
    BY <1>0, <1>4, <1>5 DEF CacheInv, Objects, CacheTypes
  <1>7. References'
    <2>1. \A q \in Runners : run'[q].pc \in {"event", "update"} =>
            run'[q].event \in Event /\ run'[q].event.obj \in DOMAIN objs'
      BY <1>0, <1>4, <1>5 DEF References
    <2>2. \A q \in Services : cache'[q] # Nil => Refers(cache[q])'
      BY <1>0, <1>5 DEF References, Refers
    <2> QED BY <1>0, <1>5, <2>1, <2>2 DEF References
  <1>8. \A g \in Getters : Getting(g)'
    BY <1>0, <1>5 DEF CacheInv, Getting
  <1>9. Watching' /\ Serving'
    BY <1>0, <1>4, <1>5 DEF Watching, WatchedIsRun, Serving
  <1> QED BY <1>6, <1>7, <1>8, <1>9 DEF CacheInv

(* Stop: from here on nothing is promised of what is watched.              *)
LEMMA StopInv ==
  ASSUME CacheInv, Stop
  PROVE  CacheInv'
  <1>0. /\ stopped' = TRUE
        /\ UNCHANGED <<regVars, serverVars, cache, fresh, watched, running, status, run, get,
                       flight>>
    BY DEF Stop
  <1>1. Objects' /\ CacheTypes' /\ References'
    BY <1>0 DEF CacheInv, Objects, CacheTypes, References, Refers, regVars, serverVars
  <1>2. \A g \in Getters : Getting(g)'
    BY <1>0 DEF CacheInv, Getting
  <1>3. Watching' /\ Serving'
    BY <1>0 DEF CacheInv, Watching, WatchedIsRun, Serving
  <1> QED BY <1>1, <1>2, <1>3 DEF CacheInv

-----------------------------------------------------------------------------
(* The specification keeps the invariant.                                  *)

(* A new cache before a new registry satisfies the invariant.              *)
LEMMA InitCacheInv ==
  ASSUME Init
  PROVE  CacheInv
  <1>0. RegInit
    BY DEF Init
  <1>1. Objects
    <2>1. 0 \in Nat /\ 1..0 = {}
      OBVIOUS
    <2>2. objs \in [1..0 -> SUBSET Servers]
      BY <1>0, <2>1 DEF RegInit
    <2> QED BY <2>1, <2>2 DEF Objects
  <1>2. \A r \in Runners : run[r] \in Runner /\ run[r].pc = "none"
    BY DEF Init, NoRun, Runner, RunnerPcs
  <1>3. \A g \in Getters : get[g] \in Getter /\ get[g].pc = "idle"
    BY EmptyView DEF Init, Idle, Getter, GetterPcs
  <1>4. CacheTypes
    <2>1. records \in [Services -> Views]
      BY <1>0 DEF RegInit, Views
    <2>2. /\ expired = {} /\ watchers = [w \in Watchers |-> "none"] /\ ops = 0 /\ events = {}
      BY <1>0 DEF RegInit
    <2>3. ops \in 0..MaxOps
      BY <2>2, RegistryAssumption
    <2>4. run \in [Runners -> Runner] /\ get \in [Getters -> Getter]
      <3>1. run = [r \in Runners |-> run[r]] /\ get = [g \in Getters |-> get[g]]
        BY DEF Init
      <3> QED BY <1>2, <1>3, <3>1
    <2> QED BY <2>1, <2>2, <2>3, <2>4 DEF Init, CacheTypes
  <1>5. References
    BY <1>0, <1>2 DEF Init, RegInit, References
  <1>6. \A g \in Getters : Getting(g)
    BY <1>3 DEF Init, Getting
  <1>7. Watching
    BY <1>2 DEF Init, Watching, WatchedIsRun, RunsOf
  <1>8. Serving
    BY DEF Init, Serving
  <1> QED BY <1>1, <1>4, <1>5, <1>6, <1>7, <1>8 DEF CacheInv

(* Every step keeps it: one case for each operation.                       *)
LEMMA StepCacheInv ==
  ASSUME CacheInv, [Next]_vars
  PROVE  CacheInv'
  <1>1. ASSUME NEW p \in Servers,
               ServerRegister(p) \/ ServerDeregister(p) \/ NodeExpires(p)
        PROVE  CacheInv'
    BY <1>1, ServerRegisterInv, ServerDeregisterInv, ExpiryInv
  <1>2. CASE PruneNodes
    BY <1>2, ExpiryInv
  <1>3. ASSUME NEW e \in events, EventStep(e)
        PROVE  CacheInv'
    BY <1>3, EventStepInv
  <1>4. ASSUME NEW g \in Getters, GetStep(g)
        PROVE  CacheInv'
    BY <1>4, GetReadInv, GetMarkInv, GetJoinInv, GetStaleInv, GetClearsInv, GetStoresInv
    DEF GetStep
  <1>5. ASSUME NEW s \in Services, FlightReturns(s) \/ TTLPasses(s)
        PROVE  CacheInv'
    BY <1>5, FlightReturnsInv, TTLPassesInv
  <1>6. ASSUME NEW r \in Runners, RunStep(r) \/ RunFails(r)
        PROVE  CacheInv'
    BY <1>6, RunStartInv, RunExitInv, RunWatchInv, RunClearsInv, UpdateInv, RunQuitsInv,
       RunNextInv, RunFailsInv DEF RunStep
  <1>7. CASE Stop
    BY <1>7, StopInv
  <1>8. CASE UNCHANGED vars
    <2>1. UNCHANGED <<regVars, serverVars, cacheVars, run, get, flight>>
      BY <1>8 DEF vars
    <2>2. Objects' /\ CacheTypes' /\ References'
      BY <2>1 DEF CacheInv, Objects, CacheTypes, References, Refers, regVars, serverVars,
                  cacheVars
    <2>3. \A g \in Getters : Getting(g)'
      BY <2>1 DEF CacheInv, Getting, cacheVars
    <2>4. Watching' /\ Serving'
      BY <2>1 DEF CacheInv, Watching, WatchedIsRun, RunsOf, Serving, Kept, cacheVars
    <2> QED BY <2>2, <2>3, <2>4 DEF CacheInv
  <1> QED BY <1>1, <1>2, <1>3, <1>4, <1>5, <1>6, <1>7, <1>8 DEF Next

(* The invariant holds in every state.                                     *)
THEOREM CacheInvariant == Spec => []CacheInv
  <1>1. Init => CacheInv
    BY InitCacheInv
  <1>2. CacheInv /\ [Next]_vars => CacheInv'
    BY StepCacheInv
  <1> QED BY <1>1, <1>2, PTL DEF Spec

(* Type correctness of the cache, the registry and the servers; in         *)
(* particular every *Service that an event or the cache holds was made,    *)
(* and the nodes in it are nodes, although cache.update writes into        *)
(* objects that it shares with the servers.                                *)
THEOREM CacheTypeCorrect == Spec => []TypeOK
  <1>1. ASSUME CacheInv PROVE TypeOK
    <2>1. Objects /\ CacheTypes /\ References
      BY <1>1 DEF CacheInv
    <2>2. \A e \in events : e.obj \in DOMAIN objs /\ (e.to = Nil \/ e.to \subseteq Watchers)
      BY <2>1, EventFields DEF CacheTypes, References
    <2>3. \A o \in DOMAIN objs : objs[o] \subseteq Servers
      BY <2>1, ObjContent
    <2>4. \A s \in Services : cache[s] # Nil => ViewOf(cache[s]) \in Views
      BY <2>1, ViewOfCache DEF CacheTypes, References
    <2>5. \A g \in Getters : get[g].res \in Views /\ get[g].old \in Views
      BY <2>1 DEF CacheTypes, Getter
    <2>6. \A r \in Runners : run[r].pc \in {"none", "start", "loop", "next", "event", "update"}
      BY <2>1 DEF CacheTypes, Runner, RunnerPcs
    <2> QED BY <2>1, <2>2, <2>3, <2>4, <2>5, <2>6 DEF TypeOK, CacheTypes, References
  <1> QED BY <1>1, CacheInvariant, PTL

(* cache.get and cache.run: until Stop, c.watched has a service exactly    *)
(* when a run goroutine for it exists, however many getters miss the cache *)
(* at once and however often Watch or Next fails. A service marked without *)
(* a goroutine would never be watched again, for get starts one only for a *)
(* service that is not marked.                                             *)
THEOREM CacheWatchedIsRun == Spec => []WatchedIsRun
  <1>1. CacheInv => WatchedIsRun
    BY DEF CacheInv, Watching
  <1> QED BY <1>1, CacheInvariant, PTL

(* cache.get, set, del and update: until Stop, an entry whose ttl has not  *)
(* passed is there, has a version in it, and is watched, so that an event  *)
(* can correct it before the ttl does; an event that empties it takes its  *)
(* ttl away too.                                                           *)
THEOREM CacheFreshIsWatched == Spec => []FreshIsWatched
  <1>1. ASSUME CacheInv PROVE FreshIsWatched
    <2> SUFFICES ASSUME ~stopped, NEW s \in fresh
                 PROVE  cache[s] # Nil /\ Recorded(ViewOf(cache[s])) # {} /\ s \in watched
      BY DEF FreshIsWatched
    <2>1. s \in Services /\ Kept(cache[s]) /\ s \in watched
      BY <1>1 DEF CacheInv, CacheTypes, Serving
    <2>2. PICK c : c = cache[s]
      OBVIOUS
    <2>3. Objects /\ c \in Entries /\ Refers(c)
      BY <1>1, <2>1, <2>2 DEF CacheInv, CacheTypes, References, Kept
    <2>4. Recorded(ViewOf(c)) = {v \in Versions : c[v] # Nil}
      BY <2>3, ViewOfEntries
    <2> QED BY <2>1, <2>2, <2>4 DEF Kept
  <1> QED BY <1>1, CacheInvariant, PTL

(* cache.update against Register and Deregister of the memory registry: in *)
(* every state, a cache that agrees with the registry agrees with it again *)
(* after it applies the event of the next call, for all versions and       *)
(* nodes, and for the empty records that ttlPrune leaves.                  *)
THEOREM CacheUpdateMirrors == Spec => []UpdateMirrorsRegistry
  <1>1. CacheInv => UpdateMirrorsRegistry
    BY Mirrors DEF CacheInv, CacheTypes
  <1> QED BY <1>1, CacheInvariant, PTL
=============================================================================
