----------------------------- MODULE MemoryStore ----------------------------
(***************************************************************************)
(* The memory store (store/memory.go), whose records expire.               *)
(*                                                                         *)
(* The store keeps its records in a go-cache (external), one call of which *)
(* is one step; a Read of a prefix lists the keys and then gets them one   *)
(* by one, and records may go between.  Time passes in ticks; expiry and   *)
(* time to live are numbers of ticks.  Keys are numbers, so that they have *)
(* an order; a record is the key and the number of its Write.              *)
(***************************************************************************)
EXTENDS Integers, Sequences, SequencesExt, FiniteSets, FiniteSetsExt

CONSTANTS MsKeys,        \* keys, numbers from 1
          MsReads,       \* concurrent Reads
          MsMaxWrites,   \* bound on the Writes
          MsMaxTime      \* bound on the clock

ASSUME StoreAssumption == /\ MsKeys \subseteq Nat \ {0} /\ IsFiniteSet(MsKeys)
                          /\ MsMaxWrites \in Nat /\ MsMaxTime \in Nat

VARIABLES msNow,
          msItems,       \* go-cache: key -> write, expiry of the record, of the item
          msWrites,
          msRead,        \* read -> pc, keys left, records got; history: known
          msPage         \* the last List: its limit and offset, and what it returned

msVars == <<msNow, msItems, msWrites, msRead, msPage>>

MsNoPage == [limit |-> 0, offset |-> 0, keys |-> <<>>, all |-> <<>>, panic |-> FALSE]

StoreInit ==
  /\ msNow = 1 /\ msItems = <<>> /\ msWrites = 0
  /\ msRead = [r \in MsReads |-> [pc |-> "new", plain |-> FALSE, all |-> FALSE, todo |-> <<>>,
                                  got |-> {}, known |-> {}, kept |-> {}]]
  /\ msPage = MsNoPage

(* go-cache: an item with an expiry of 0 stays; Get and Items pass over an *)
(* item that has expired.                                                  *)
MsExpired(item) == item.drop # 0 /\ msNow > item.drop
MsLive == {k \in DOMAIN msItems : ~MsExpired(msItems[k])}
MsRecord(k) == <<k, msItems[k].write>>

(* Reads under way take note of what is there, and of what is not kept.    *)
MsNote(items, now) ==
  LET live == {k \in DOMAIN items : items[k].drop = 0 \/ now <= items[k].drop}
      recs == {<<k, items[k].write>> : k \in live}
  IN  [r \in MsReads |-> IF msRead[r].pc # "reading" THEN msRead[r]
                         ELSE [msRead[r] EXCEPT !.known = @ \cup recs, !.kept = @ \cap live]]

-----------------------------------------------------------------------------
(* Write: the time to live of the options before their expiry, and that    *)
(* before the record's own; an expiry is turned into what is left of it.   *)
(* Options: 0 is none; an expiry is a time, and may have passed.           *)
MsExpiry(own, at, ttl) == IF ttl # 0 THEN ttl ELSE IF at # 0 THEN at - msNow ELSE own

(* Mutant: the expiry is kept with the record but go-cache is not told.    *)
MsDropAtNever(left) == 0

(* set: go-cache keeps what is left, if that is positive, and else the     *)
(* item for good.                                                          *)
MsDropAt(left) == IF left > 0 THEN msNow + left ELSE 0

MsWrite(k, own, at, ttl) ==
  LET left == MsExpiry(own, at, ttl)
      item == [write |-> msWrites + 1, drop |-> MsDropAt(left),
               until |-> IF left = 0 THEN 0 ELSE msNow + left, past |-> left < 0]
      items == [j \in DOMAIN msItems \cup {k} |-> IF j = k THEN item ELSE msItems[j]]
  IN  /\ msWrites < MsMaxWrites
      /\ msWrites' = msWrites + 1
      /\ msItems' = items
      /\ msRead' = MsNote(items, msNow)
      /\ UNCHANGED <<msNow, msPage>>

MsDelete(K) ==
  LET items == [j \in DOMAIN msItems \ K |-> msItems[j]]
  IN  /\ msItems' = items
      /\ msRead' = MsNote(items, msNow)
      /\ UNCHANGED <<msNow, msWrites, msPage>>

(* Close flushes go-cache.                                                 *)
MsClose == DOMAIN msItems # {} /\ MsDelete(DOMAIN msItems)

(* go-cache's janitor takes out what has expired.                          *)
MsJanitor ==
  /\ MsLive # DOMAIN msItems
  /\ MsDelete(DOMAIN msItems \ MsLive)

MsTick ==
  /\ msNow < MsMaxTime
  /\ msNow' = msNow + 1
  /\ msRead' = MsNote(msItems, msNow + 1)
  /\ UNCHANGED <<msItems, msWrites, msPage>>

-----------------------------------------------------------------------------
(* Read of a key, or of a prefix (here: of every key) from offset to limit *)
(* of the list, in no order.  Keys are filtered after they are cut.        *)
MsBegin(r, todo, plain, all) ==
  msRead' = [msRead EXCEPT ![r] = [pc |-> "reading", plain |-> plain, all |-> all, todo |-> todo,
                                   got |-> {}, known |-> {MsRecord(k) : k \in MsLive}, kept |-> MsLive]]

MsReadKey(r, k) ==
  /\ msRead[r].pc = "new"
  /\ MsBegin(r, <<k>>, TRUE, FALSE)
  /\ UNCHANGED <<msNow, msItems, msWrites, msPage>>

(* Limit is a position too, and none given is a limit of 0: nothing is     *)
(* read, though the options say that Prefix returns all records.           *)
MsReadPrefix(r, limit, offset) ==
  LET n == Cardinality(MsLive)
  IN  /\ msRead[r].pc = "new"
      /\ \E order \in SetToSeqs(MsLive) :
           MsBegin(r, SubSeq(order, offset + 1, Min({limit, n})), FALSE, offset = 0 /\ limit >= n)
      /\ UNCHANGED <<msNow, msItems, msWrites, msPage>>

(* get of the next key; one that is not there ends the Read with an error, *)
(* and what was got is returned.                                           *)
MsGet(r) ==
  LET k == Head(msRead[r].todo)
  IN  /\ msRead[r].pc = "reading" /\ msRead[r].todo # <<>>
      /\ msRead' = [msRead EXCEPT ![r] =
           IF k \notin MsLive THEN [@ EXCEPT !.pc = "missing"]
           ELSE [@ EXCEPT !.todo = Tail(@), !.got = @ \cup {MsRecord(k)}]]
      /\ UNCHANGED <<msNow, msItems, msWrites, msPage>>

MsReturn(r) ==
  /\ msRead[r].pc = "reading" /\ msRead[r].todo = <<>>
  /\ msRead' = [msRead EXCEPT ![r].pc = "done"]
  /\ UNCHANGED <<msNow, msItems, msWrites, msPage>>

(* list with a limit or an offset: the keys in order, from the offset up   *)
(* to the limit, which is a position and not a count.  An offset past that *)
(* is out of the slice's range, and panics.                                *)
MsList(limit, offset) ==
  LET all == SetToSortSeq(MsLive, <)
      end == Min({limit, Len(all)})
  IN  /\ limit # 0 \/ offset # 0
      /\ msPage' = [limit |-> limit, offset |-> offset, all |-> all, panic |-> offset > end,
                    keys |-> SubSeq(all, offset + 1, end)]
      /\ UNCHANGED <<msNow, msItems, msWrites, msRead>>

StoreNext ==
  \/ \E k \in MsKeys, own, ttl \in {0, 1} : \E at \in 0..MsMaxTime : MsWrite(k, own, at, ttl)
  \/ \E k \in MsKeys : k \in DOMAIN msItems /\ MsDelete({k})
  \/ MsClose \/ MsJanitor \/ MsTick
  \/ \E r \in MsReads : \/ \E k \in MsKeys : MsReadKey(r, k)
                        \/ \E limit \in 0..2, offset \in 0..1 : MsReadPrefix(r, limit, offset)
                        \/ MsGet(r) \/ MsReturn(r)

ListingNext ==
  \/ \E k \in MsKeys : MsWrite(k, 0, 0, 0)
  \/ \E limit, offset \in 0..Cardinality(MsKeys) : MsList(limit, offset)

-----------------------------------------------------------------------------
(* A Read returns records as they were written: every record it returns    *)
(* was in the store, and had not expired, at some time since the Read      *)
(* began.  A Read of one key that was there all the time finds it, and a   *)
(* Read of a prefix without an offset, and with a limit that the keys do   *)
(* not exceed, every key that was there all the time.  A record whose      *)
(* expiry lay ahead when it was written is gone once it has passed.  A     *)
(* List with a limit and no offset returns the first keys, `limit' of them *)
(* or all.  This is as far as the code agrees with the options' comments:  *)
(* where they say more (a prefix read without a limit, pages by offset and *)
(* limit, a record written with an expiry in the past) it does not.        *)
ReadsAreSound ==
  /\ \A r \in MsReads :
       LET read == msRead[r]
       IN  /\ read.got \subseteq read.known
           /\ read.pc = "missing" => Head(read.todo) \notin read.kept
           /\ read.pc = "done" /\ read.plain => Cardinality(read.got) = 1
           /\ read.pc = "done" /\ read.all => read.kept \subseteq {rec[1] : rec \in read.got}
  /\ \A k \in MsLive : ~msItems[k].past /\ msItems[k].until # 0 => msNow <= msItems[k].until
  /\ msPage.offset = 0 =>
       ~msPage.panic /\ msPage.keys = SubSeq(msPage.all, 1, Min({msPage.limit, Len(msPage.all)}))

=============================================================================
