------------------------------- MODULE Config -------------------------------
(***************************************************************************)
(* Configuration: the memory source (config/source/memory), the loader     *)
(* (config/loader/memory/memory.go) and the config over it                 *)
(* (config/default.go).                                                    *)
(*                                                                         *)
(* The loader keeps one change set per source, merges them, and after      *)
(* every change tells its watchers, of which the config's own run loop is  *)
(* one.  A goroutine per source, and the user's Load and Sync, change the  *)
(* loader concurrently: each commits under the lock, then reads what to    *)
(* send under a second lock, then sends without one.  Sources all define   *)
(* the same key, so merging takes the last source that has a value.        *)
(***************************************************************************)
EXTENDS Naturals, Sequences, SequencesExt, FiniteSets

CONSTANTS CfSources,     \* 1..n, in the order of Load; 0 stands for the user
          CfData,        \* values of the key
          CfNone,        \* no value
          CfBad,         \* data that does not decode
          CfStart,       \* what the sources have at first, a value or none
          CfOpLimit,     \* bound on updates of sources and calls of Sync together
          CfBuffer       \* 100, the buffer of a source's watcher

ASSUME ConfigAssumption == /\ CfNone \notin CfData /\ CfNone # CfBad
                           /\ CfBuffer \in Nat \ {0}

VARIABLES cfSource,      \* source -> its ChangeSet
          cfUpdates,     \* updates made so far
          cfQueue,       \* source -> Updates of the loader's watcher
          cfGoroutine,   \* source -> pc of memory.watch
          cfMissed,      \* history: sources with an update the loader never gets
          cfSets, cfVals, cfSnap, cfVersion,
          cfBy,          \* history: who wrote vals and snap last
          cfActor,       \* goroutine or user -> what it is about to send
          cfChan,        \* updates of the config's watcher, room for one
          cfWatcher,     \* version and value of that watcher
          cfGot,         \* history: what its Next returned
          cfUser,        \* pc of Load and Sync of the config, the snapshot
          cfSyncs,
          cfConfig,      \* config.snap
          cfClosed

cfVars == <<cfSource, cfUpdates, cfQueue, cfGoroutine, cfMissed, cfSets, cfVals, cfSnap,
            cfVersion, cfBy, cfActor, cfChan, cfWatcher, cfGot, cfUser, cfSyncs, cfConfig,
            cfClosed>>
cfSourceVars == <<cfSource, cfUpdates, cfMissed>>
cfLoaderVars == <<cfSets, cfVals, cfSnap, cfVersion, cfBy>>
cfWatchVars == <<cfChan, cfWatcher, cfGot>>
cfUserVars == <<cfUser, cfSyncs, cfConfig, cfClosed>>

CfUserActor == 0
CfActors == CfSources \cup {CfUserActor}
CfLoaded == DOMAIN cfSets
CfFirst == [value |-> CfNone, version |-> 0]
CfIdle == [pc |-> "idle", value |-> CfNone, version |-> 0]

(* jsonReader.Merge decodes every change set that has data, and fails if   *)
(* one does not decode.  What it merged it encodes itself, so that Values  *)
(* has no error to give.                                                   *)
CfDecodes(sets) == \A i \in DOMAIN sets : sets[i] # CfBad

(* Merge with override: the last change set that has data.                 *)
CfMerge(sets) ==
  LET with == {i \in DOMAIN sets : sets[i] # CfNone}
  IN  IF with = {} THEN CfNone ELSE sets[CHOOSE i \in with : \A j \in with : j <= i]

ConfigInit ==
  /\ cfSource = [i \in CfSources |-> CfStart]
  /\ cfUpdates = 0
  /\ cfQueue = [i \in CfSources |-> <<>>]
  /\ cfGoroutine = [i \in CfSources |-> "none"]
  /\ cfMissed = {}
  /\ cfSets = <<>> /\ cfVals = {} /\ cfSnap = CfFirst /\ cfVersion = 0 /\ cfBy = "nobody"
  /\ cfActor = [a \in CfActors |-> CfIdle]
  /\ cfChan = <<>>
  /\ cfWatcher = [on |-> FALSE, version |-> 0, value |-> CfNone]
  /\ cfGot = <<>>
  /\ cfUser = CfIdle /\ cfSyncs = 0
  /\ cfConfig = CfFirst /\ cfClosed = FALSE

-----------------------------------------------------------------------------
(* The source.                                                             *)

(* Update: the new data, sent to the loader's watcher if there is room.    *)
CfUpdate(i, d) ==
  /\ cfUpdates + cfSyncs < CfOpLimit
  /\ cfUpdates' = cfUpdates + 1
  /\ cfSource' = [cfSource EXCEPT ![i] = d]
  /\ IF cfGoroutine[i] = "watching" /\ Len(cfQueue[i]) < CfBuffer
     THEN /\ cfQueue' = [cfQueue EXCEPT ![i] = Append(@, d)]
          /\ cfMissed' = cfMissed \ {i}
     ELSE /\ cfMissed' = cfMissed \cup {i}
          /\ UNCHANGED cfQueue
  /\ UNCHANGED <<cfGoroutine, cfLoaderVars, cfActor, cfWatchVars, cfUserVars>>

-----------------------------------------------------------------------------
(* The loader.                                                             *)

(* New values and a new snapshot; versions are times and increase.         *)
CfCommit(sets, vals, by) ==
  /\ cfVersion' = cfVersion + 1
  /\ cfSnap' = [value |-> CfMerge(sets), version |-> cfVersion + 1]
  /\ cfVals' = vals
  /\ cfBy' = by

(* memory.watch: Watch the source, then for every change set save, merge   *)
(* and commit under the lock.                                              *)
CfWatchSource(i) ==
  /\ cfGoroutine[i] = "started"
  /\ cfGoroutine' = [cfGoroutine EXCEPT ![i] = "watching"]
  /\ UNCHANGED <<cfSourceVars, cfQueue, cfLoaderVars, cfActor, cfWatchVars, cfUserVars>>

(* Mutant: the other sources' sets are left out of the merge.              *)
CfNextChangeAlone(i) ==
  /\ cfQueue[i] # <<>> /\ cfActor[i].pc = "idle"
  /\ cfQueue' = [cfQueue EXCEPT ![i] = Tail(@)]
  /\ cfSets' = [cfSets EXCEPT ![i] = Head(cfQueue[i])]
  /\ CfCommit(<<Head(cfQueue[i])>>, {Head(cfQueue[i])}, "watch")
  /\ cfActor' = [cfActor EXCEPT ![i].pc = "committed"]
  /\ UNCHANGED <<cfSourceVars, cfGoroutine, cfWatchVars, cfUserVars>>

CfNextChange(i) ==
  /\ cfQueue[i] # <<>> /\ cfActor[i].pc = "idle"
  /\ cfQueue' = [cfQueue EXCEPT ![i] = Tail(@)]
  /\ cfSets' = [cfSets EXCEPT ![i] = Head(cfQueue[i])]
  /\ CfDecodes(cfSets')
  /\ CfCommit(cfSets', {CfMerge(cfSets')}, "watch")
  /\ cfActor' = [cfActor EXCEPT ![i].pc = "committed"]
  /\ UNCHANGED <<cfSourceVars, cfGoroutine, cfWatchVars, cfUserVars>>

(* The merge fails, because of this set or of another source's: the set is *)
(* saved all the same, values and snapshot stay, and the goroutine, after  *)
(* a second, watches the source anew.  What waits for the watcher it gives *)
(* up is lost.                                                             *)
CfChangeFails(i) ==
  /\ cfQueue[i] # <<>> /\ cfActor[i].pc = "idle"
  /\ cfSets' = [cfSets EXCEPT ![i] = Head(cfQueue[i])]
  /\ ~CfDecodes(cfSets')
  /\ cfQueue' = [cfQueue EXCEPT ![i] = <<>>]
  /\ cfMissed' = IF Tail(cfQueue[i]) = <<>> THEN cfMissed ELSE cfMissed \cup {i}
  /\ cfGoroutine' = [cfGoroutine EXCEPT ![i] = "started"]
  /\ UNCHANGED <<cfSource, cfUpdates, cfVals, cfSnap, cfVersion, cfBy, cfActor, cfWatchVars,
                 cfUserVars>>

(* update: read vals and snap under the lock; nothing to do for a watcher  *)
(* of this version.                                                        *)
CfCapture(a) ==
  /\ cfActor[a].pc = "committed"
  /\ cfActor' = [cfActor EXCEPT ![a] =
       IF ~cfWatcher.on \/ cfVals = {} \/ cfWatcher.version >= cfSnap.version THEN CfIdle
       ELSE [pc |-> "sending", value |-> CHOOSE v \in cfVals : TRUE,
             version |-> cfSnap.version]]
  /\ UNCHANGED <<cfSourceVars, cfQueue, cfGoroutine, cfLoaderVars, cfWatchVars, cfUserVars>>

(* The send, with the version that the snapshot has now; an update that    *)
(* finds another one waiting is dropped.                                   *)
CfSend(a) ==
  /\ cfActor[a].pc = "sending"
  /\ cfChan' = IF cfChan = <<>>
               THEN <<[value |-> cfActor[a].value, version |-> cfSnap.version]>> ELSE cfChan
  /\ cfActor' = [cfActor EXCEPT ![a] = CfIdle]
  /\ UNCHANGED <<cfSourceVars, cfQueue, cfGoroutine, cfLoaderVars, cfWatcher, cfGot,
                 cfUserVars>>

(* Next of the watcher passes over an update that is not newer, and over   *)
(* one with the same value.                                                *)
CfIsNewer(uv) == uv.version > cfWatcher.version

(* The run loop of the config takes what Next returns if it is newer than  *)
(* its snapshot.                                                           *)
CfNext ==
  /\ cfChan # <<>> /\ cfUser.pc # "load"
  /\ LET uv == Head(cfChan)
         returned == CfIsNewer(uv) /\ uv.value # cfWatcher.value
     IN  /\ cfWatcher' = IF CfIsNewer(uv)
                         THEN [on |-> TRUE, version |-> uv.version, value |-> uv.value]
                         ELSE cfWatcher
         /\ cfGot' = IF returned THEN Append(cfGot, uv) ELSE cfGot
         /\ cfConfig' = IF returned /\ cfConfig.version < uv.version THEN uv ELSE cfConfig
  /\ cfChan' = <<>>
  /\ UNCHANGED <<cfSourceVars, cfQueue, cfGoroutine, cfLoaderVars, cfActor, cfUser, cfSyncs,
                 cfClosed>>

(* Watch, called by the run loop, which is started when Init returned: the *)
(* value of Get and the version of the snapshot.                           *)
CfWatch ==
  /\ ~cfWatcher.on /\ cfVals # {} /\ cfConfig.version > 0
  /\ cfWatcher' = [on |-> TRUE, version |-> cfSnap.version,
                   value |-> CHOOSE v \in cfVals : TRUE]
  /\ UNCHANGED <<cfSourceVars, cfQueue, cfGoroutine, cfLoaderVars, cfActor, cfChan, cfGot,
                 cfUserVars>>

-----------------------------------------------------------------------------
(* The config.                                                             *)

(* An error is returned, and the config keeps what it has; one that Init   *)
(* returns is the end of the config.                                       *)
CfGiveUp ==
  cfUser' = [cfUser EXCEPT !.pc = IF cfConfig.version = 0 THEN "failed" ELSE "idle"]

(* Load, first half: read the next source, append it and watch it.         *)
CfLoad ==
  LET i == Len(cfSets) + 1
  IN  /\ cfUser.pc = "idle" /\ i \in CfSources
      /\ cfUser' = [cfUser EXCEPT !.pc = "load"]
      /\ cfSets' = Append(cfSets, cfSource[i])
      /\ cfGoroutine' = [cfGoroutine EXCEPT ![i] = "started"]
      /\ cfMissed' = cfMissed \ {i}
      /\ UNCHANGED <<cfSource, cfUpdates, cfQueue, cfVals, cfSnap, cfVersion, cfBy, cfActor,
                     cfWatchVars, cfSyncs, cfConfig, cfClosed>>

(* reload: the snapshot is new, the values stay what they were, for they   *)
(* are only taken over when they could not be made.                        *)
CfReload ==
  /\ cfUser.pc = "load" /\ cfActor[CfUserActor].pc = "idle" /\ CfDecodes(cfSets)
  /\ CfCommit(cfSets, cfVals, "reload")
  /\ cfActor' = [cfActor EXCEPT ![CfUserActor].pc = "committed"]
  /\ cfUser' = [cfUser EXCEPT !.pc = IF cfVals = {} THEN "sync" ELSE "snapshot"]
  /\ UNCHANGED <<cfSets, cfSourceVars, cfQueue, cfGoroutine, cfWatchVars, cfSyncs, cfConfig,
                 cfClosed>>

CfReloadFails ==
  /\ cfUser.pc = "load" /\ ~CfDecodes(cfSets)
  /\ CfGiveUp
  /\ UNCHANGED <<cfSourceVars, cfQueue, cfGoroutine, cfLoaderVars, cfActor, cfWatchVars, cfSyncs,
                 cfConfig, cfClosed>>

(* Sync, called by the user or, before anything is loaded, by Snapshot:    *)
(* read every source and commit; the sets stay what they were.             *)
CfSyncStart ==
  /\ cfUser.pc = "idle" /\ CfLoaded # {} /\ cfUpdates + cfSyncs < CfOpLimit
  /\ cfUser' = [cfUser EXCEPT !.pc = "sync"]
  /\ cfSyncs' = cfSyncs + 1
  /\ UNCHANGED <<cfSourceVars, cfQueue, cfGoroutine, cfLoaderVars, cfActor, cfWatchVars,
                 cfConfig, cfClosed>>

CfSync ==
  /\ cfUser.pc = "sync" /\ cfActor[CfUserActor].pc = "idle"
  /\ LET read == [i \in CfLoaded |-> cfSource[i]]
     IN  CfDecodes(read) /\ CfCommit(read, {CfMerge(read)}, "sync")
  /\ cfActor' = [cfActor EXCEPT ![CfUserActor].pc = "committed"]
  /\ cfUser' = [cfUser EXCEPT !.pc = "snapshot"]
  /\ UNCHANGED <<cfSets, cfSourceVars, cfQueue, cfGoroutine, cfWatchVars, cfSyncs, cfConfig,
                 cfClosed>>

CfSyncFails ==
  /\ cfUser.pc = "sync" /\ ~CfDecodes([i \in CfLoaded |-> cfSource[i]])
  /\ CfGiveUp
  /\ UNCHANGED <<cfSourceVars, cfQueue, cfGoroutine, cfLoaderVars, cfActor, cfWatchVars, cfSyncs,
                 cfConfig, cfClosed>>

(* Snapshot, and then the config takes it whatever it has by now.          *)
CfSnapshot ==
  /\ cfUser.pc = "snapshot" /\ cfActor[CfUserActor].pc = "idle"
  /\ cfUser' = [pc |-> "set", value |-> cfSnap.value, version |-> cfSnap.version]
  /\ UNCHANGED <<cfSourceVars, cfQueue, cfGoroutine, cfLoaderVars, cfActor, cfWatchVars,
                 cfSyncs, cfConfig, cfClosed>>

CfSet ==
  /\ cfUser.pc = "set"
  /\ cfConfig' = [value |-> cfUser.value, version |-> cfUser.version]
  /\ cfUser' = CfIdle
  /\ UNCHANGED <<cfSourceVars, cfQueue, cfGoroutine, cfLoaderVars, cfActor, cfWatchVars,
                 cfSyncs, cfClosed>>

(* Close while the run loop watches: the goroutine that stops the watcher  *)
(* calls Error on the nil that Stop returned, and the program ends.  All   *)
(* of this was its memory.                                                 *)
CfClose ==
  /\ cfWatcher.on
  /\ cfClosed' = TRUE
  /\ cfQueue' = [i \in CfSources |-> <<>>]
  /\ cfGoroutine' = [i \in CfSources |-> "none"]
  /\ cfSets' = <<>> /\ cfVals' = {} /\ cfSnap' = CfFirst /\ cfVersion' = 0 /\ cfBy' = "nobody"
  /\ cfActor' = [a \in CfActors |-> CfIdle]
  /\ cfWatcher' = [on |-> FALSE, version |-> 0, value |-> CfNone]
  /\ cfChan' = <<>> /\ cfGot' = <<>> /\ cfUser' = CfIdle /\ cfConfig' = CfFirst
  /\ UNCHANGED <<cfSourceVars, cfSyncs>>

ConfigNext ==
  /\ ~cfClosed
  /\ \/ \E i \in CfSources : \/ \E d \in CfData : CfUpdate(i, d)
                             \/ CfWatchSource(i) \/ CfNextChange(i) \/ CfChangeFails(i)
     \/ \E a \in CfActors : CfCapture(a) \/ CfSend(a)
     \/ CfNext \/ CfWatch \/ CfClose
     \/ CfLoad \/ CfReload \/ CfReloadFails \/ CfSyncStart \/ CfSync \/ CfSyncFails
     \/ CfSnapshot \/ CfSet

-----------------------------------------------------------------------------
CfQuiet == /\ cfUser.pc = "idle"
           /\ \A i \in CfSources : cfQueue[i] = <<>>

(* The loader follows its sources.  When no change is under way and no     *)
(* update was lost before the loader watched, or to a full buffer, or      *)
(* behind a change that failed, the sets are what the sources have, and if *)
(* all of these decode the snapshot is their merge: a change that did not  *)
(* decode is made good by the next one that does, whatever other changes   *)
(* failed in between because of it.  The values agree with the snapshot    *)
(* unless a Load was the last to write.  And what a watcher gets has       *)
(* versions that increase, whatever order the goroutines send in, each no  *)
(* newer than the loader's.  (Its value may be an older one than its       *)
(* version says: update reads the version again after the values.)         *)
ConfigFollowsSources ==
  /\ CfQuiet =>
       LET read == [i \in CfLoaded |-> cfSource[i]]
       IN  /\ \A i \in CfLoaded \ cfMissed : cfSets[i] = cfSource[i]
           /\ cfMissed = {} /\ CfLoaded # {} /\ CfDecodes(read) => cfSnap.value = CfMerge(read)
           /\ cfBy \in {"watch", "sync"} => cfVals = {cfSnap.value}
  /\ \A n \in 1..(Len(cfGot) - 1) : cfGot[n].version < cfGot[n + 1].version
  /\ cfConfig.version <= cfVersion

=============================================================================
