------------------------------ MODULE LogFeed -------------------------------
(***************************************************************************)
(* What a log with subscribers promises, whatever it is made of.  Entries  *)
(* are numbered as they are written.  A subscriber that opens its feed is  *)
(* told every entry written from then on, each once, in order and without  *)
(* a gap; at some time the latest entries written before are put in front  *)
(* of them.  So no entry is missing between the two, although some may be  *)
(* in both.  A feed that was closed gets nothing more.                     *)
(***************************************************************************)
EXTENDS Naturals, Sequences

CONSTANTS FeedReaders,   \* subscribers
          FeedLast       \* at most so many old entries are replayed

VARIABLES feedLog,       \* number of entries written
          feed           \* reader -> its feed

feedVars == <<feedLog, feed>>

FeedInit ==
  /\ feedLog = 0
  /\ feed = [r \in FeedReaders |->
               [open |-> FALSE, over |-> FALSE, start |-> 0, old |-> <<>>, new |-> <<>>]]

FeedWrite ==
  /\ feedLog' = feedLog + 1
  /\ UNCHANGED feed

FeedOpen(r) ==
  /\ ~feed[r].open
  /\ feed' = [feed EXCEPT ![r].open = TRUE, ![r].start = feedLog]
  /\ UNCHANGED feedLog

(* The n entries written last.                                             *)
FeedReplay(r, n) ==
  /\ feed[r].open /\ feed[r].old = <<>> /\ n <= feedLog
  /\ feed' = [feed EXCEPT ![r].old = [i \in 1..n |-> feedLog - n + i]]
  /\ UNCHANGED feedLog

(* The next entry.                                                         *)
FeedDeliver(r) ==
  LET next == feed[r].start + Len(feed[r].new) + 1
  IN  /\ feed[r].open /\ ~feed[r].over /\ next <= feedLog
      /\ feed' = [feed EXCEPT ![r].new = Append(@, next)]
      /\ UNCHANGED feedLog

FeedClose(r) ==
  /\ feed[r].open
  /\ feed' = [feed EXCEPT ![r].over = TRUE]
  /\ UNCHANGED feedLog

FeedNext ==
  \/ FeedWrite
  \/ \E r \in FeedReaders : \/ FeedOpen(r) \/ FeedDeliver(r) \/ FeedClose(r)
                            \/ \E n \in 1..FeedLast : FeedReplay(r, n)

FeedSpec == FeedInit /\ [][FeedNext]_feedVars

=============================================================================
