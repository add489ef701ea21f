----------------------------- MODULE RingBuffer -----------------------------
(***************************************************************************)
(* The ring buffer (util/ring/buffer.go) and the memory log made of it     *)
(* (debug/log/memory).                                                     *)
(*                                                                         *)
(* Put keeps the buffer's lock while it sends the entry to one stream      *)
(* after the other, and waits for a stream whose channel is full until it  *)
(* is read or stopped.  A log stream has a goroutine of its own that first *)
(* sends the latest records and then what comes from the buffer's stream,  *)
(* through a channel that may be full as well.  Entries are numbered.      *)
(***************************************************************************)
EXTENDS Naturals, Sequences, SequencesExt, FiniteSets

CONSTANTS RbReaders,     \* log streams
          RbMaxPuts,     \* bound on the entries
          RbSize,        \* size of the buffer
          RbRoom,        \* 128, the room of both channels
          RbBacklog      \* 10, the records sent first

ASSUME RingAssumption == /\ RbSize \in Nat \ {0} /\ RbRoom \in Nat \ {0}
                         /\ RbBacklog \in Nat \ {0} /\ RbMaxPuts \in Nat

VARIABLES rbCount,       \* entries put
          rbVals,        \* Buffer.vals
          rbLock,        \* Put holds the lock
          rbTodo,        \* streams the Put under way has still to send to
          rbStream,      \* reader -> pc of the log's Stream, and its two channels
          rbGot          \* reader -> records it has received

rbVars == <<rbCount, rbVals, rbLock, rbTodo, rbStream, rbGot>>

RingInit ==
  /\ rbCount = 0 /\ rbVals = <<>> /\ rbLock = FALSE /\ rbTodo = {}
  /\ rbStream = [r \in RbReaders |->
                   [pc |-> "none", start |-> 0, entries |-> <<>>, closed |-> FALSE,
                    stop |-> FALSE, last |-> <<>>, kept |-> <<>>, records |-> <<>>]]
  /\ rbGot = [r \in RbReaders |-> <<>>]

RbSuffix(s, n) == IF n >= Len(s) THEN s ELSE SubSeq(s, Len(s) - n + 1, Len(s))

(* b.streams.                                                              *)
RbStreams == {r \in RbReaders : rbStream[r].pc # "none" /\ ~rbStream[r].closed}

(* Put: append, trim, and the streams of this moment.                      *)
RbPut ==
  /\ ~rbLock /\ rbCount < RbMaxPuts
  /\ rbLock' = TRUE
  /\ rbCount' = rbCount + 1
  /\ rbVals' = RbSuffix(Append(rbVals, rbCount + 1), RbSize)
  /\ rbTodo' = RbStreams
  /\ UNCHANGED <<rbStream, rbGot>>

(* Mutant: an entry is dropped when the channel is full.                   *)
RbOfferDrops(r) ==
  /\ r \in rbTodo
  /\ rbTodo' = rbTodo \ {r}
  /\ rbStream' = IF Len(rbStream[r].entries) < RbRoom
                 THEN [rbStream EXCEPT ![r].entries = Append(@, rbCount)] ELSE rbStream
  /\ UNCHANGED <<rbCount, rbVals, rbLock, rbGot>>

(* The select: the entry if there is room.                                 *)
RbOffer(r) ==
  /\ r \in rbTodo /\ Len(rbStream[r].entries) < RbRoom
  /\ rbStream' = [rbStream EXCEPT ![r].entries = Append(@, rbCount)]
  /\ rbTodo' = rbTodo \ {r}
  /\ UNCHANGED <<rbCount, rbVals, rbLock, rbGot>>

(* Mutant: a stream that was stopped is noticed only when it has room.     *)
RbDropLate(r) ==
  /\ r \in rbTodo /\ rbStream[r].stop /\ Len(rbStream[r].entries) < RbRoom
  /\ rbStream' = [rbStream EXCEPT ![r].closed = TRUE]
  /\ rbTodo' = rbTodo \ {r}
  /\ UNCHANGED <<rbCount, rbVals, rbLock, rbGot>>

(* Or the stream was stopped: it is deleted and its channel closed.        *)
RbDrop(r) ==
  /\ r \in rbTodo /\ rbStream[r].stop
  /\ rbStream' = [rbStream EXCEPT ![r].closed = TRUE]
  /\ rbTodo' = rbTodo \ {r}
  /\ UNCHANGED <<rbCount, rbVals, rbLock, rbGot>>

RbPutReturns ==
  /\ rbLock /\ rbTodo = {}
  /\ rbLock' = FALSE
  /\ UNCHANGED <<rbCount, rbVals, rbTodo, rbStream, rbGot>>

-----------------------------------------------------------------------------
(* Stream of the log: the buffer's Stream, and then Get, each under the    *)
(* lock.                                                                   *)
RbOpen(r) ==
  /\ rbStream[r].pc = "none" /\ ~rbLock
  /\ rbStream' = [rbStream EXCEPT ![r].pc = "opened", ![r].start = rbCount]
  /\ UNCHANGED <<rbCount, rbVals, rbLock, rbTodo, rbGot>>

RbGet(r) ==
  /\ rbStream[r].pc = "opened" /\ ~rbLock
  /\ rbStream' = [rbStream EXCEPT ![r].pc = "streaming",
                                  ![r].last = RbSuffix(rbVals, RbBacklog),
                                  ![r].kept = RbSuffix(rbVals, RbBacklog)]
  /\ UNCHANGED <<rbCount, rbVals, rbLock, rbTodo, rbGot>>

(* The goroutine: the last records, then the entries.  It goes on after a  *)
(* Stop, until the channel is closed or nobody reads.                      *)
RbForward(r) ==
  LET s == rbStream[r]
  IN  /\ s.pc = "streaming" /\ Len(s.records) < RbRoom /\ s.last \o s.entries # <<>>
      /\ rbStream' = [rbStream EXCEPT ![r] =
           IF s.last # <<>> THEN [s EXCEPT !.records = Append(@, Head(s.last)), !.last = Tail(@)]
           ELSE [s EXCEPT !.records = Append(@, Head(s.entries)), !.entries = Tail(@)]]
      /\ UNCHANGED <<rbCount, rbVals, rbLock, rbTodo, rbGot>>

(* The reader reads, until it has called Stop.                             *)
RbRead(r) ==
  /\ rbStream[r].records # <<>> /\ ~rbStream[r].stop
  /\ rbGot' = [rbGot EXCEPT ![r] = Append(@, Head(rbStream[r].records))]
  /\ rbStream' = [rbStream EXCEPT ![r].records = Tail(@)]
  /\ UNCHANGED <<rbCount, rbVals, rbLock, rbTodo>>

RbStop(r) ==
  /\ rbStream[r].pc = "streaming" /\ ~rbStream[r].stop
  /\ rbStream' = [rbStream EXCEPT ![r].stop = TRUE]
  /\ UNCHANGED <<rbCount, rbVals, rbLock, rbTodo, rbGot>>

RingNext ==
  \/ RbPut \/ RbPutReturns
  \/ \E r \in RbReaders : \/ RbOffer(r) \/ RbDrop(r)
                          \/ RbOpen(r) \/ RbGet(r) \/ RbForward(r)
                          \/ RbRead(r) \/ RbStop(r)

(* Goroutines run on, and a reader reads or stops, as Stream asks of it:   *)
(* "Close the channel when you want to stop".                              *)
RingFairness ==
  /\ WF_rbVars(RbPutReturns)
  /\ \A r \in RbReaders : /\ WF_rbVars(RbOffer(r) \/ RbDrop(r))
                          /\ SF_rbVars(RbGet(r)) /\ WF_rbVars(RbForward(r))
                          /\ WF_rbVars(RbRead(r) \/ RbStop(r))

-----------------------------------------------------------------------------
(* The feed of a reader is all that it has got or will get.                *)
RbPipe(r) == rbGot[r] \o rbStream[r].records \o rbStream[r].last \o rbStream[r].entries

RbFeed == [r \in RbReaders |->
             [open  |-> rbStream[r].pc # "none",
              over  |-> rbStream[r].closed,
              start |-> rbStream[r].start,
              old   |-> rbStream[r].kept,
              new   |-> SubSeq(RbPipe(r), Len(rbStream[r].kept) + 1, Len(RbPipe(r)))]]

Feed == INSTANCE LogFeed WITH FeedReaders <- RbReaders, FeedLast <- RbBacklog,
                              feedLog <- rbCount, feed <- RbFeed

(* The log stream implements the log feed: its reader misses no entry,     *)
(* however Put, the goroutine and Stop interleave and whatever channel is  *)
(* full, and the records of its backlog come first.                        *)
StreamIsFeed == Feed!FeedSpec

(* Get waits for the lock that Put keeps until Get's goroutine can read:   *)
(* a stream whose channel was filled between the two calls that open it.   *)
RbStuck == \E r \in rbTodo : /\ rbStream[r].pc = "opened"
                             /\ Len(rbStream[r].entries) = RbRoom

(* Put returns although it sends with the lock in hand: no stream that is  *)
(* read or stopped holds it up for ever.  The one that can is a stream     *)
(* that is not opened yet, when as many entries as its channel has room    *)
(* for were put after the first half of Stream.                            *)
PutReturns == rbLock ~> (~rbLock \/ RbStuck)

=============================================================================
