----------------------------- MODULE Selection -----------------------------
(***************************************************************************)
(* The selector of selector/: Select reads the services of a name from the *)
(* cache, applies the filters of the call one after the other and hands    *)
(* the rest to a strategy, which returns a Next function.  Goroutines may  *)
(* share one Next; the round robin strategy guards its counter with a      *)
(* mutex.                                                                  *)
(*                                                                         *)
(* Services are a sequence of [version, endpoint, nodes]; a node is its id *)
(* and the value of the one label that FilterLabel looks at, where "" is a *)
(* key that is missing and "nil" is no metadata at all.                    *)
(***************************************************************************)
EXTENDS Integers, Sequences, FiniteSets, SequencesExt

CONSTANTS SlCallers,     \* goroutines that share one Next
          SlMaxInt,      \* largest int; one more is the smallest
          SlMaxPicks     \* bound on the calls of Next

SlVersions == {"v1", "v2"}
SlNode(id, label) == [id |-> id, label |-> label]

(* What the registry may hold: two versions of a service.                  *)
SlServices ==
  {<<[version |-> "v1", endpoint |-> e, nodes |-> <<SlNode(1, l), SlNode(2, k)>>],
     [version |-> "v2", endpoint |-> "Foo.Bar", nodes |-> n]>> :
       e \in {"Foo.Bar", "Foo.Baz"}, l \in {"nil", "", "x"}, k \in {"", "x"},
       n \in {<<>>, <<SlNode(3, "x")>>}}
SlFilters == {[by |-> "version", val |-> "v1"], [by |-> "endpoint", val |-> "Foo.Bar"],
              [by |-> "label", val |-> "x"], [by |-> "label", val |-> ""]}

VARIABLES slPc,          \* idle, filter, next, failed
          slStrategy,    \* strategy of the selector
          slAll,         \* what the cache returned
          slLeft,        \* what the filters left
          slTodo,        \* filters to apply
          slUsed,        \* filters of the call
          slNodes,       \* nodes of the closure
          slI,           \* counter of the closure
          slHolder,      \* caller that holds mtx, or none
          slAt,          \* caller -> "idle", or "read" between lookup and i++
          slPicked,      \* history: the nodes returned, in order
          slWrapped      \* history: the counter overflowed
slVars == <<slPc, slStrategy, slAll, slLeft, slTodo, slUsed, slNodes, slI, slHolder, slAt,
            slPicked, slWrapped>>

SlNobody == "nobody"

SelectionInit ==
  /\ slPc = "idle" /\ slStrategy = "random" /\ slAll = <<>> /\ slLeft = <<>> /\ slTodo = <<>>
  /\ slUsed = <<>> /\ slNodes = <<>> /\ slI = 0 /\ slHolder = SlNobody
  /\ slAt = [c \in SlCallers |-> "idle"] /\ slPicked = <<>> /\ slWrapped = FALSE

-----------------------------------------------------------------------------
(* FilterVersion, FilterEndpoint: whole services.                          *)
FilterVersion(v, old) == SelectSeq(old, LAMBDA s : s.version = v)
FilterEndpoint(e, old) == SelectSeq(old, LAMBDA s : s.endpoint = e)

(* Mutant: a service whose nodes all lack the label is kept.               *)
FilterLabelKeeps(val, old) ==
  [i \in DOMAIN old |->
     [old[i] EXCEPT !.nodes = SelectSeq(@, LAMBDA n : n.label = val)]]

(* FilterLabel: a copy of the service with the nodes that have the label,  *)
(* if there are any.                                                       *)
FilterLabel(val, old) ==
  LET copies == [i \in DOMAIN old |->
                   [old[i] EXCEPT !.nodes = SelectSeq(@, LAMBDA n : n.label = val)]]
  IN  SelectSeq(copies, LAMBDA s : s.nodes # <<>>)

SlApply(f, old) == CASE f.by = "version"  -> FilterVersion(f.val, old)
                     [] f.by = "endpoint" -> FilterEndpoint(f.val, old)
                     [] f.by = "label"    -> FilterLabel(f.val, old)

(* Select: the services, and ErrNotFound if the cache has none.            *)
SlSelect(all, filters) ==
  /\ slPc = "idle" /\ slPc' = IF all = <<>> THEN "failed" ELSE "filter"
  /\ slAll' = all /\ slLeft' = all /\ slTodo' = filters /\ slUsed' = filters
  /\ UNCHANGED <<slStrategy, slNodes, slI, slHolder, slAt, slPicked, slWrapped>>

SlFilter ==
  /\ slPc = "filter" /\ slTodo # <<>>
  /\ slLeft' = SlApply(Head(slTodo), slLeft) /\ slTodo' = Tail(slTodo)
  /\ UNCHANGED <<slPc, slStrategy, slAll, slUsed, slNodes, slI, slHolder, slAt, slPicked, slWrapped>>

(* ErrNoneAvailable, or the strategy: all nodes in one list, and for the   *)
(* round robin a counter that starts anywhere.                             *)
SlStrategy(i) ==
  /\ slPc = "filter" /\ slTodo = <<>>
  /\ slPc' = IF slLeft = <<>> THEN "failed" ELSE "next"
  /\ slNodes' = FlattenSeq([k \in DOMAIN slLeft |-> slLeft[k].nodes])
  /\ slI' = i
  /\ UNCHANGED <<slStrategy, slAll, slLeft, slTodo, slUsed, slHolder, slAt, slPicked, slWrapped>>

(* Options of the selector: SetStrategy.                                   *)
SlSetStrategy ==
  /\ slPc = "idle" /\ slStrategy = "random" /\ slStrategy' = "roundrobin"
  /\ UNCHANGED <<slPc, slAll, slLeft, slTodo, slUsed, slNodes, slI, slHolder, slAt, slPicked, slWrapped>>

-----------------------------------------------------------------------------
(* The Next functions.                                                     *)

SlCalls(c) == slPc = "next" /\ slAt[c] = "idle" /\ Len(slPicked) < SlMaxPicks /\ slNodes # <<>>

(* Random: any of the nodes.                                               *)
SlRandom(c, k) ==
  /\ slStrategy = "random" /\ SlCalls(c)
  /\ slPicked' = Append(slPicked, slNodes[k])
  /\ UNCHANGED <<slPc, slStrategy, slAll, slLeft, slTodo, slUsed, slNodes, slI, slHolder, slAt, slWrapped>>

(* Mutant: the mutex is not taken.                                         *)
SlUnlocked(c) == SlCalls(c)

SlLocked(c) == SlCalls(c) /\ slHolder = SlNobody

(* RoundRobin: the node at i%len.  In Go the remainder of a negative       *)
(* counter is negative and the lookup panics.                              *)
SlLookup(c) ==
  /\ slStrategy = "roundrobin" /\ SlLocked(c)
  /\ slHolder' = c
  /\ slAt' = [slAt EXCEPT ![c] = "read"]
  /\ IF slI >= 0
     THEN /\ slPicked' = Append(slPicked, slNodes[(slI % Len(slNodes)) + 1])
          /\ UNCHANGED slPc
     ELSE UNCHANGED slPicked /\ slPc' = "panic"
  /\ UNCHANGED <<slStrategy, slAll, slLeft, slTodo, slUsed, slNodes, slI, slWrapped>>

SlIncrement(c) ==
  /\ slPc = "next" /\ slAt[c] = "read"
  /\ slI' = IF slI = SlMaxInt THEN -SlMaxInt - 1 ELSE slI + 1
  /\ slWrapped' = (slWrapped \/ slI = SlMaxInt)
  /\ slAt' = [slAt EXCEPT ![c] = "idle"]
  /\ slHolder' = SlNobody
  /\ UNCHANGED <<slPc, slStrategy, slAll, slLeft, slTodo, slUsed, slNodes, slPicked>>

SelectionNext ==
  \/ SlSetStrategy
  \/ slPc = "idle" /\ \E all \in SlServices \cup {<<>>}, fs \in SeqOf(SlFilters, 2) : SlSelect(all, fs)
  \/ SlFilter
  \/ slPc = "filter" /\ \E i \in 0..SlMaxInt : SlStrategy(i)
  \/ \E c \in SlCallers : SlLookup(c) \/ SlIncrement(c) \/ (\E k \in DOMAIN slNodes : SlRandom(c, k))

-----------------------------------------------------------------------------
SlFits(s, n) ==
  \A f \in ToSet(slUsed) : \/ f.by = "version" /\ s.version = f.val
                           \/ f.by = "endpoint" /\ s.endpoint = f.val
                           \/ f.by = "label" /\ n.label = f.val

(* A selection is sound: Next chooses among exactly the nodes that satisfy *)
(* every filter, however the filters are ordered, and Select fails rather  *)
(* than return a Next without nodes, unless a service without nodes passed *)
(* filters that look at the service only.  And a round robin that several  *)
(* goroutines share is one: as many calls in a row as there are nodes      *)
(* return each node once.  Until the counter overflows it never panics.    *)
SelectionSound ==
  /\ slPc = "next" =>
       /\ ToSet(slNodes) = {n \in UNION {ToSet(slAll[k].nodes) : k \in DOMAIN slAll} :
                              \E k \in DOMAIN slAll : n \in ToSet(slAll[k].nodes) /\ SlFits(slAll[k], n)}
       /\ slNodes = <<>> => \A f \in ToSet(slUsed) : f.by # "label"
  /\ slPc = "failed" => \A k \in DOMAIN slAll : \A n \in ToSet(slAll[k].nodes) : ~SlFits(slAll[k], n)
  /\ slStrategy = "roundrobin" =>
       \A j \in 1..(Len(slPicked) - Len(slNodes) + 1) :
         Cardinality({slPicked[k].id : k \in j..(j + Len(slNodes) - 1)}) = Len(slNodes)
  /\ slPc = "panic" => slWrapped

=============================================================================
