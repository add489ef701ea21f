---------------------------- MODULE FileService ----------------------------
(***************************************************************************)
(* The file service of util/file: a handler that keeps open files as       *)
(* sessions, and a client that uploads and downloads a file block by block *)
(* with one remote call per block.  Several clients work on one file name. *)
(*                                                                         *)
(* A byte is a number, 0 the byte of a hole or of a fresh buffer; byte k   *)
(* of a client's local file is k, and a file that a download finds in its  *)
(* place is of bytes FsOldByte.  A remote call is made, or fails before  *)
(* or after it had its effect.                                             *)
(***************************************************************************)
EXTENDS Naturals, Sequences, FiniteSets

CONSTANTS FsClients,
          FsBlock,       \* blockSize
          FsSizes,       \* sizes of local files
          FsMaxTransfers, \* bound on the uploads and downloads
          FsMaxFails     \* bound on the remote calls that fail

VARIABLES fsFile,        \* bytes of the file on the server
          fsExists,      \* it has been created
          fsFiles,       \* ids of the sessions with an open file
          fsCounter,     \* counter of the sessions
          fsC,           \* the clients
          fsStarted,     \* uploads and downloads begun
          fsLost,        \* history: sessions that no client will close
          fsDirty,       \* history: clients whose file another one changed
          fsFails
fsVars == <<fsFile, fsExists, fsFiles, fsCounter, fsC, fsStarted, fsLost, fsDirty, fsFails>>

FsIdle == [pc |-> "idle", op |-> "none", id |-> 0, size |-> 0, off |-> 0, at |-> 0,
           blocks |-> 0, part |-> [k \in 1..FsBlock |-> 0], save |-> <<>>, old |-> 0,
           result |-> "none"]

FileServiceInit ==
  /\ fsFile = <<>> /\ fsExists = FALSE /\ fsFiles = {} /\ fsCounter = 0
  /\ fsC = [c \in FsClients |-> FsIdle] /\ fsStarted = 0
  /\ fsLost = {} /\ fsDirty = {} /\ fsFails = 0

Local(n) == [k \in 1..n |-> k]
FsOldByte == 255
FsMin(a, b) == IF a < b THEN a ELSE b
FsMax(a, b) == IF a > b THEN a ELSE b

(* Write of the handler: a gap before the offset reads as zeros.           *)
FsWriteAt(old, off, data) ==
  [k \in 1..FsMax(Len(old), off + Len(data)) |->
     IF k > off /\ k <= off + Len(data) THEN data[k - off]
     ELSE IF k <= Len(old) THEN old[k] ELSE 0]

(* Read of the handler, up to n bytes.                                     *)
FsReadAt(off, n) == SubSeq(fsFile, off + 1, FsMin(off + n, Len(fsFile)))

(* Get of the sessions.                                                    *)
FsHas(id) == id \in fsFiles

(* The blocks of the file by its size.                                     *)
FsBlocks == (Len(fsFile) + FsBlock - 1) \div FsBlock

(* ReadAt of the client reports the end of the file with a short block.    *)
FsShort(got) == Len(got) < FsBlock

FsOutcomes == {"ok", "lost", "late"}
FsCall(outcome) == /\ outcome # "ok" => fsFails < FsMaxFails
                   /\ fsFails' = IF outcome = "ok" THEN fsFails ELSE fsFails + 1
FsMade(outcome) == outcome \in {"ok", "late"}

(* Mutant: the id of a session is taken from the number of open files.     *)
FsNewIdBySize == Cardinality(fsFiles) + 1

(* Add of the sessions.                                                    *)
FsNewId == fsCounter + 1

(* Open of the handler; the session of a failed call is never closed.      *)
FsOpenFile(outcome) ==
  IF FsMade(outcome)
  THEN /\ fsFiles' = fsFiles \cup {FsNewId} /\ fsCounter' = fsCounter + 1 /\ fsExists' = TRUE
       /\ fsLost' = IF outcome = "late" THEN fsLost \cup {FsNewId} ELSE fsLost
  ELSE UNCHANGED <<fsFiles, fsCounter, fsExists, fsLost>>

-----------------------------------------------------------------------------
(* A client begins its next transfer.                                      *)
FsBegins(c) ==
  /\ fsC[c].pc \in {"idle", "ok", "failed"} /\ fsStarted < FsMaxTransfers
  /\ fsStarted' = fsStarted + 1

(* Upload: open and truncate.                                              *)
FsUpload(c, n, outcome) ==
  /\ FsBegins(c) /\ FsCall(outcome) /\ FsOpenFile(outcome)
  /\ fsFile' = IF FsMade(outcome) THEN <<>> ELSE fsFile
  /\ fsDirty' = IF FsMade(outcome) THEN FsClients \ {c} ELSE fsDirty
  /\ fsC' = [fsC EXCEPT ![c] = IF outcome = "ok"
               THEN [FsIdle EXCEPT !.pc = "write", !.op = "upload", !.id = FsNewId, !.size = n]
               ELSE [FsIdle EXCEPT !.pc = "failed"]]

(* A read of the local file gives count bytes, a block or fewer.  The      *)
(* whole buffer is written: what an earlier read left there follows.       *)
FsWriteBlock(c, count, outcome) ==
  LET u == fsC[c]
      part == [k \in 1..FsBlock |-> IF k <= count THEN u.off + k ELSE u.part[k]]
      made == FsMade(outcome) /\ FsHas(u.id)
  IN  /\ u.pc = "write" /\ count \in 1..FsMin(FsBlock, u.size - u.off) /\ FsCall(outcome)
      /\ fsFile' = IF made THEN FsWriteAt(fsFile, u.off, part) ELSE fsFile
      /\ fsDirty' = IF made THEN fsDirty \cup (FsClients \ {c}) ELSE fsDirty
      /\ fsC' = [fsC EXCEPT ![c] =
                   IF outcome = "ok" /\ made THEN [u EXCEPT !.off = @ + count, !.part = part]
                   ELSE [u EXCEPT !.pc = "close", !.result = "failed"]]
      /\ UNCHANGED <<fsStarted, fsExists, fsFiles, fsCounter, fsLost>>

(* The end of the local file.  A read error ends the loop as well, and the *)
(* error is a variable of the loop: Upload returns without one.            *)
FsUploaded(c, outcome) ==
  /\ fsC[c].pc = "write" /\ ((outcome = "ok") <=> (fsC[c].off >= fsC[c].size))
  /\ FsCall(outcome)
  /\ fsC' = [fsC EXCEPT ![c].pc = "close", ![c].result = "ok", ![c].size = fsC[c].off]
  /\ UNCHANGED <<fsStarted, fsFile, fsExists, fsFiles, fsCounter, fsLost, fsDirty>>

(* Close; its error is ignored.                                            *)
FsClose(c, outcome) ==
  /\ fsC[c].pc = "close" /\ FsCall(outcome)
  /\ fsFiles' = IF FsMade(outcome) THEN fsFiles \ {fsC[c].id} ELSE fsFiles
  /\ fsLost' = IF FsMade(outcome) THEN fsLost ELSE fsLost \cup {fsC[c].id}
  /\ fsC' = [fsC EXCEPT ![c].pc = fsC[c].result]
  /\ UNCHANGED <<fsStarted, fsFile, fsExists, fsCounter, fsDirty>>

-----------------------------------------------------------------------------
(* DownloadAt, from block b: the size of the file, before it is opened.    *)
FsStat(c, b, outcome) ==
  /\ FsBegins(c) /\ FsCall(outcome)
  /\ fsDirty' = fsDirty \ {c}
  /\ fsC' = [fsC EXCEPT ![c] = IF outcome = "ok" /\ fsExists
               THEN [FsIdle EXCEPT !.pc = "open", !.op = "download", !.off = b, !.at = b,
                              !.blocks = FsBlocks]
               ELSE [FsIdle EXCEPT !.pc = "failed"]]
  /\ UNCHANGED <<fsFile, fsExists, fsFiles, fsCounter, fsLost>>

(* The file to save to is opened as it is, and may be an old one of n      *)
(* bytes; then the session.                                                *)
FsOpen(c, n, outcome) ==
  /\ fsC[c].pc = "open" /\ FsCall(outcome) /\ FsOpenFile(outcome)
  /\ fsC' = [fsC EXCEPT ![c] = IF outcome = "ok"
               THEN [@ EXCEPT !.pc = "read", !.id = FsNewId, !.old = n,
                              !.save = [k \in 1..n |-> FsOldByte]]
               ELSE [@ EXCEPT !.pc = "failed"]]
  /\ UNCHANGED <<fsStarted, fsFile, fsDirty>>

(* GetBlock; a short block is the last one.  A failure returns without     *)
(* closing the session.                                                    *)
FsGetBlock(c, outcome) ==
  LET d == fsC[c]
      got == FsReadAt(d.at * FsBlock, FsBlock)
      good == outcome = "ok" /\ FsHas(d.id)
  IN  /\ d.pc = "read" /\ d.at < d.blocks /\ FsCall(outcome)
      /\ fsC' = [fsC EXCEPT ![c] =
                   IF ~good THEN [d EXCEPT !.pc = "failed"]
                   ELSE [d EXCEPT !.save = FsWriteAt(@, d.at * FsBlock, got), !.at = @ + 1,
                                  !.pc = IF FsShort(got) THEN "close" ELSE "read",
                                  !.result = IF FsShort(got) THEN "ok" ELSE @]]
      /\ fsLost' = IF good THEN fsLost ELSE fsLost \cup {d.id}
      /\ UNCHANGED <<fsStarted, fsFile, fsExists, fsFiles, fsCounter, fsDirty>>

FsDownloaded(c) ==
  /\ fsC[c].pc = "read" /\ fsC[c].at >= fsC[c].blocks
  /\ fsC' = [fsC EXCEPT ![c].pc = "close", ![c].result = "ok"]
  /\ UNCHANGED <<fsStarted, fsFile, fsExists, fsFiles, fsCounter, fsLost, fsDirty, fsFails>>

FileServiceNext ==
  \E c \in FsClients :
    \/ FsUploaded(c, "ok") \/ FsUploaded(c, "lost") \/ FsDownloaded(c)
    \/ \E o \in FsOutcomes : \/ \E n \in FsSizes : FsUpload(c, n, o)
                             \/ \E n \in 1..FsBlock : FsWriteBlock(c, n, o)
                             \/ \E n \in {0} \cup FsSizes : FsOpen(c, n, o)
                             \/ FsClose(c, o) \/ FsGetBlock(c, o)
                             \/ \E b \in 0..1 : FsStat(c, b, o)

-----------------------------------------------------------------------------
FsBusy(c) == fsC[c].pc \in {"write", "read", "close"}

(* Transfers are sound.  A session belongs to one running transfer, whose  *)
(* calls find it open whatever the other clients close, and what is open   *)
(* otherwise was lost: its Open or Close failed, or its download did.  The *)
(* file that an upload returned for, if no other client changed it since   *)
(* the upload began, starts with the local file as far as it could be read *)
(* and is less than a block longer; and a download that no change          *)
(* overlapped has written the file from its first block on, and is longer  *)
(* only by the rest of a longer file that was in its place.                *)
TransfersSound ==
  /\ fsFiles \subseteq {fsC[c].id : c \in {d \in FsClients : FsBusy(d)}} \cup fsLost
  /\ \A c \in FsClients : FsBusy(c) =>
       /\ fsC[c].id \in fsFiles
       /\ \A d \in FsClients \ {c} : FsBusy(d) => fsC[d].id # fsC[c].id
  /\ \A c \in FsClients :
       LET x == fsC[c]
       IN  x.pc = "ok" /\ c \notin fsDirty =>
             IF x.op = "upload"
             THEN /\ SubSeq(fsFile, 1, x.size) = Local(x.size)
                  /\ Len(fsFile) < x.size + FsBlock
             ELSE /\ \A k \in (x.off * FsBlock + 1)..Len(fsFile) :
                       k <= Len(x.save) /\ x.save[k] = fsFile[k]
                  /\ Len(x.save) <= FsMax(Len(fsFile), x.old)

=============================================================================
