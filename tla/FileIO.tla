------------------------------- MODULE FileIO -------------------------------
(***************************************************************************)
(* Open files of the ELF-DOS kernel (kernel/file.asm): file_open,          *)
(* file_read, file_write, file_seek, file_close and file_delete, on one    *)
(* volume.                                                                 *)
(*                                                                         *)
(* A file is a directory entry (first cluster and size), a chain of        *)
(* clusters in the FAT, and the data sectors of these clusters.  An open   *)
(* file is a file control block (FCB): a cursor in the chain, a position,  *)
(* and a one-sector buffer.                                                *)
(*                                                                         *)
(* The FAT is used as FatStore describes it: fat is what fat_get shows,    *)
(* fat_dur what a restart would find, and the latter is only ever replaced *)
(* by the former as a whole.  Directory entries and data sectors go        *)
(* straight to the disk.  A call is one step per transfer that can fail,   *)
(* or that a restart can fall in front of.                                 *)
(***************************************************************************)
EXTENDS Volume, Sequences, FiniteSets, FiniteSetsExt

CONSTANTS
  Files, Fcbs,
  NoFile, NoFcb,
  SecSize,          \* bytes per sector (512)
  Bytes,            \* what a byte can hold
  MaxRequest,       \* bound: bytes asked for in one read or write
  MaxMarks,         \* bound: bytes of the disk that are not Blank
  MaxReadFaults, MaxWriteFaults, MaxCrashes      \* bounds on mishaps

ClusterBytes == Spc * SecSize
MaxSize == (LastCluster - 1) * ClusterBytes      \* of a file: the whole volume
Sectors == Clusters \X (0 .. Spc - 1)
Buffers == [0 .. SecSize - 1 -> Bytes]

ASSUME FileConstants ==
  /\ NoFile \notin Files /\ NoFcb \notin Fcbs
  /\ SecSize \in Nat \ {0}
  /\ Bytes # {} /\ MaxRequest \in Nat /\ MaxMarks \in Nat
  /\ MaxReadFaults \in Nat /\ MaxWriteFaults \in Nat /\ MaxCrashes \in Nat

VARIABLES
  fat, fat_dur,     \* 0 (free), the next cluster, or Eoc
  dirent,           \* dirent[f]: [clust, size], or Absent
  data,             \* data[<<c, s>>]: sector s of cluster c
  fcb,
  call,             \* the registers of the call in progress
  ret,              \* of the last call: it succeeded (DF is clear)
  faults,           \* mishaps so far, for the bounds
  adrift            \* a cursor has left its chain: see LeaveChain

state == <<fat, fat_dur, dirent, data, fcb, call, ret, faults>>
vars == <<fat, fat_dur, dirent, data, fcb, call, ret, faults, adrift>>

Absent == [clust |-> -1, size |-> -1]
Blank == CHOOSE b \in Bytes : TRUE
Zeroes == [i \in 0 .. SecSize - 1 |-> Blank]

-----------------------------------------------------------------------------
(* The cursor of an FCB.                                                   *)

\* Mutant: the chain is walked to the byte at target, not the one before it.
SeekPastTarget(r, target) ==
  [r EXCEPT !.cclust = Nth(fat, r.sclust, target \div ClusterBytes),
            !.csect = (target \div SecSize) % Spc,
            !.boff = target % SecSize]

\* _fcb_seek_to: find the byte before target, which is sure to have a cluster,
\* and step over it.  At the end of a cluster csect is left at Spc: the move
\* to the next one is pending.
SeekTo(r, target) ==
  LET lbi == target - 1
      sector_in_clust == (lbi \div SecSize) % Spc
      boff == (lbi % SecSize) + 1
      wrap == boff = SecSize
  IN  [r EXCEPT !.cclust = Nth(fat, r.sclust, lbi \div ClusterBytes),
                !.csect = IF wrap THEN sector_in_clust + 1
                                  ELSE sector_in_clust,
                !.boff = IF wrap THEN 0 ELSE boff]

\* Mutant: the sector index wraps, the cluster stays.
ResolveStays(r) == IF r.csect = Spc THEN [r EXCEPT !.csect = 0] ELSE r

\* The pending move, where the chain goes on.
Resolve(r) == IF r.csect = Spc
                THEN [r EXCEPT !.cclust = Link(fat, r.cclust), !.csect = 0]
                ELSE r

SectorOf(r) == <<r.cclust, r.csect>>

\* The byte before target has a cluster in the chain, and the sector to read
\* next has one.
Reaches(r, target) ==
  Nth(fat, r.sclust, (target - 1) \div ClusterBytes) \in Clusters
GoesOn(r) == Resolve(r).cclust \in Clusters

\* Mutant: the buffer counts as valid in the next sector.
AdvanceKeepsBuffer(r, n) ==
  LET moved == [r EXCEPT !.boff = @ + n, !.fpos = @ + n]
  IN  IF moved.boff = SecSize
        THEN [moved EXCEPT !.boff = 0, !.csect = @ + 1,
                           !.iovalid = moved.csect + 1 < Spc]
        ELSE moved

\* Mutant: only a boundary inside the cluster ends the sector.
AdvanceNoWrap(r, n) ==
  LET moved == [r EXCEPT !.boff = @ + n, !.fpos = @ + n]
  IN  IF moved.boff = SecSize /\ moved.csect + 1 < Spc
        THEN [moved EXCEPT !.boff = 0, !.csect = @ + 1, !.iovalid = FALSE]
        ELSE moved

\* _fcb_add_chunk and _fcb_advance_after_chunk.
Advance(r, n) ==
  LET moved == [r EXCEPT !.boff = @ + n, !.fpos = @ + n]
  IN  IF moved.boff = SecSize
        THEN [moved EXCEPT !.boff = 0, !.csect = @ + 1, !.iovalid = FALSE]
        ELSE moved

-----------------------------------------------------------------------------
(* Calls, failures and restarts.                                           *)

Idle == [op |-> "idle", at |-> "", k |-> NoFcb, f |-> NoFile, n |-> 0,
         bytes |-> <<>>, c |-> 0]

Closed == [file |-> NoFile, open |-> FALSE, write |-> FALSE, sizechg |-> FALSE,
           iovalid |-> FALSE, sclust |-> 0, cclust |-> 0, csect |-> 0,
           boff |-> 0, fsize |-> 0, fpos |-> 0, iobuf |-> Zeroes]

Start(regs) == call.op = "idle" /\ call' = regs /\ ret' = TRUE

Return(ok) == call' = Idle /\ ret' = ok

Goto(place) == call' = [call EXCEPT !.at = place] /\ UNCHANGED ret

ReadFault == /\ faults.read < MaxReadFaults
             /\ faults' = [faults EXCEPT !.read = @ + 1]
WriteFault == /\ faults.write < MaxWriteFaults
              /\ faults' = [faults EXCEPT !.write = @ + 1]
Fault == ReadFault \/ WriteFault

Flush == fat_dur' = fat'         \* fat_flush, when it succeeds

Init == /\ fat = [c \in Clusters |-> 0] /\ fat_dur = fat
        /\ dirent = [f \in Files |-> Absent]
        /\ data = [s \in Sectors |-> Zeroes]
        /\ fcb = [k \in Fcbs |-> Closed]
        /\ call = Idle /\ ret = TRUE
        /\ faults = [read |-> 0, write |-> 0, crash |-> 0]
        /\ adrift = FALSE

Crash == /\ faults.crash < MaxCrashes
         /\ faults' = [faults EXCEPT !.crash = @ + 1]
         /\ fat' = fat_dur
         /\ fcb' = [k \in Fcbs |-> Closed]
         /\ call' = Idle /\ ret' = TRUE
         /\ UNCHANGED <<fat_dur, dirent, data>>

\* The FAT cache is written at a drive switch, or to make room for another FAT
\* sector.  (Without a restart to come, nothing depends on it.)
Sync == /\ faults.crash < MaxCrashes
        /\ fat_dur # fat /\ fat_dur' = fat
        /\ UNCHANGED <<fat, dirent, data, fcb, call, ret, faults>>

\* fat_alloc: any free cluster, marked Eoc.
Alloc(c) == c \in Clusters /\ fat[c] = 0 /\ fat' = [fat EXCEPT ![c] = Eoc]
Full == \A c \in Clusters : fat[c] # 0

-----------------------------------------------------------------------------
(* file_open.  Nothing keeps two FCBs off one file; that programs let no   *)
(* FCB write while another is on its file is assumed here.                 *)

OpenOn(f) == {k \in Fcbs : fcb[k].file = f}

Available(f, mode) ==
  \A k \in OpenOn(f) : mode = 0 /\ ~fcb[k].write

Capacity(table, c) ==
  ClusterBytes * Cardinality({i \in 0 .. LastCluster : Nth(table, c, i) \in Clusters})

Opened(f, mode) ==
  [Closed EXCEPT !.file = f, !.open = TRUE, !.write = mode # 0,
                 !.sizechg = mode = 1,
                 !.sclust = dirent[f].clust, !.cclust = dirent[f].clust,
                 !.fsize = IF mode = 1 THEN 0 ELSE dirent[f].size]

\* Mode 0 reads, 1 truncates (the chain is kept until file_close), 2 appends.
OpenExisting(k, f, mode) ==
  /\ dirent[f] # Absent
  /\ mode = 2 /\ dirent[f].size > 0 => Reaches(Opened(f, mode), dirent[f].size)
  /\ fcb' = [fcb EXCEPT ![k] =
               IF mode = 2 /\ dirent[f].size > 0
                 THEN [SeekTo(Opened(f, mode), dirent[f].size)
                         EXCEPT !.fpos = dirent[f].size]
                 ELSE Opened(f, mode)]
  /\ ret' = TRUE
  /\ UNCHANGED <<dirent, faults>>

\* The walk to the end of the file fails: the FCB stays at position 0.
OpenAppendFails(k, f, mode) ==
  /\ mode = 2 /\ dirent[f].size > 0
  /\ Fault
  /\ fcb' = [fcb EXCEPT ![k] = Opened(f, mode)]
  /\ ret' = TRUE
  /\ UNCHANGED dirent

OpenNew(k, f, mode) ==
  /\ dirent[f] = Absent /\ mode # 0
  /\ dirent' = [dirent EXCEPT ![f] = [clust |-> 0, size |-> 0]]
  /\ fcb' = [fcb EXCEPT ![k] = [Closed EXCEPT !.file = f, !.open = TRUE,
                                              !.write = TRUE]]
  /\ ret' = TRUE
  /\ UNCHANGED faults

OpenFails(f, mode) ==
  /\ \/ dirent[f] = Absent /\ mode = 0 /\ UNCHANGED faults
     \/ Fault
  /\ ret' = FALSE
  /\ UNCHANGED <<dirent, fcb>>

OpenCall(k, f, mode) ==
  /\ call.op = "idle" /\ fcb[k] = Closed /\ Available(f, mode)
  /\ \/ OpenExisting(k, f, mode) \/ OpenAppendFails(k, f, mode)
     \/ OpenNew(k, f, mode) \/ OpenFails(f, mode)
  /\ UNCHANGED <<fat, fat_dur, data, call>>

-----------------------------------------------------------------------------
(* file_seek, and the sector both file_read and file_write work in.        *)

Sought(r, target) ==
  [IF target = 0 THEN [r EXCEPT !.cclust = r.sclust, !.csect = 0, !.boff = 0]
                 ELSE SeekTo(r, target)
     EXCEPT !.fpos = target, !.iovalid = FALSE]

SeekCall(k, target) ==
  /\ call.op = "idle" /\ fcb[k].open
  /\ \/ /\ target \in 0 .. fcb[k].fsize
        /\ target # 0 => Reaches(fcb[k], target)
        /\ fcb' = [fcb EXCEPT ![k] = Sought(@, target)]
        /\ ret' = TRUE
        /\ UNCHANGED faults
     \/ /\ \/ target \notin 0 .. fcb[k].fsize /\ UNCHANGED faults
           \/ target # 0 /\ Fault
        /\ ret' = FALSE
        /\ UNCHANGED fcb
  /\ UNCHANGED <<fat, fat_dur, dirent, data, call>>

-----------------------------------------------------------------------------
(* file_read: sector by sector, up to the end of the file.                 *)

Cur == fcb[call.k]               \* the FCB of the call in progress

ReadCall(k, n) ==
  /\ fcb[k].open
  /\ Start([Idle EXCEPT !.op = "read", !.k = k, !.n = n])
  /\ UNCHANGED <<fat, fat_dur, dirent, data, fcb, faults>>

MoreToRead == call.n > 0 /\ Cur.fpos < Cur.fsize

ReadSector ==
  /\ call.op = "read" /\ MoreToRead /\ ~Cur.iovalid /\ GoesOn(Cur)
  /\ LET r == Resolve(Cur)
     IN  fcb' = [fcb EXCEPT ![call.k] = [r EXCEPT !.iobuf = data[SectorOf(r)],
                                                  !.iovalid = TRUE]]
  /\ UNCHANGED <<fat, fat_dur, dirent, data, call, ret, faults>>

\* fat_get fails, or the transfer: by then the pending move has been made.
ReadFails ==
  /\ call.op = "read" /\ MoreToRead /\ ~Cur.iovalid
  /\ Fault
  /\ \/ UNCHANGED fcb
     \/ GoesOn(Cur) /\ fcb' = [fcb EXCEPT ![call.k] = Resolve(@)]
  /\ Return(FALSE)
  /\ UNCHANGED <<fat, fat_dur, dirent, data>>

ReadChunk ==
  /\ call.op = "read" /\ MoreToRead /\ Cur.iovalid
  /\ LET n == Min({call.n, SecSize - Cur.boff, Cur.fsize - Cur.fpos})
     IN  /\ call' = [call EXCEPT !.n = @ - n,
                       !.bytes = @ \o [i \in 1 .. n |->
                                         Cur.iobuf[Cur.boff + i - 1]]]
         /\ fcb' = [fcb EXCEPT ![call.k] = Advance(@, n)]
  /\ UNCHANGED <<fat, fat_dur, dirent, data, ret, faults>>

ReadDone == /\ call.op = "read" /\ ~MoreToRead
            /\ Return(TRUE)
            /\ UNCHANGED <<fat, fat_dur, dirent, data, fcb, faults>>

-----------------------------------------------------------------------------
(* file_write: sector by sector, each written as soon as it is changed.    *)
(* It does not ask how the file was opened: write says that the FCB was    *)
(* opened to write, or has written.                                        *)

WriteCall(k, bytes) ==
  /\ fcb[k].open /\ OpenOn(fcb[k].file) = {k}
  /\ Start([Idle EXCEPT !.op = "write", !.k = k, !.bytes = bytes,
                        !.at = IF fcb[k].cclust = 0 THEN "first" ELSE "loop"])
  /\ fcb' = [fcb EXCEPT ![k].write = TRUE]
  /\ UNCHANGED <<fat, fat_dur, dirent, data, faults>>

\* A file without a cluster gets one, and the FAT is flushed.
FirstCluster(c) ==
  /\ Alloc(c)
  /\ fcb' = [fcb EXCEPT ![call.k] = [@ EXCEPT !.sclust = c, !.cclust = c,
                                              !.sizechg = TRUE]]
  /\ UNCHANGED <<dirent, data>>

\* Mutant: the FAT is left for file_close to flush.
WriteFirstUnflushed == /\ call.op = "write" /\ call.at = "first"
                       /\ \E c \in Clusters : FirstCluster(c)
                       /\ Goto("loop")
                       /\ UNCHANGED <<fat_dur, faults>>

WriteFirst == /\ call.op = "write" /\ call.at = "first"
              /\ \E c \in Clusters : FirstCluster(c)
              /\ Flush
              /\ Goto("loop")
              /\ UNCHANGED faults

\* No cluster could be allocated, or the flush failed.
WriteFirstFails ==
  /\ call.op = "write" /\ call.at = "first"
  /\ \/ /\ \/ Full /\ UNCHANGED faults
           \/ Fault
        /\ UNCHANGED <<fat, fcb, dirent, data>>
     \/ WriteFault /\ \E c \in Clusters : FirstCluster(c)
  /\ Return(FALSE)
  /\ UNCHANGED fat_dur

WriteMore == call.op = "write" /\ call.at = "loop" /\ call.bytes # <<>>

AtChainEnd == Cur.csect = Spc /\ Link(fat, Cur.cclust) = Eoc

WriteSector ==
  /\ WriteMore /\ ~Cur.iovalid /\ ~AtChainEnd
  /\ LET r == Resolve(Cur)
     IN  fcb' = [fcb EXCEPT ![call.k] = [r EXCEPT !.iobuf = data[SectorOf(r)],
                                                  !.iovalid = TRUE]]
  /\ UNCHANGED <<fat, fat_dur, dirent, data, call, ret, faults>>

WriteSectorFails ==
  /\ WriteMore /\ ~Cur.iovalid
  /\ Fault
  /\ \/ UNCHANGED fcb
     \/ ~AtChainEnd /\ fcb' = [fcb EXCEPT ![call.k] = Resolve(@)]
  /\ Return(FALSE)
  /\ UNCHANGED <<fat, fat_dur, dirent, data>>

\* fwrite_resolve_cluster at the end of the chain: allocate a cluster, then
\* link it.  Nothing is flushed.
Grow == /\ WriteMore /\ ~Cur.iovalid /\ AtChainEnd
        /\ \E c \in Clusters : /\ Alloc(c)
                               /\ call' = [call EXCEPT !.at = "link", !.c = c]
        /\ UNCHANGED <<fat_dur, dirent, data, fcb, ret, faults>>

\* Mutant: a write waits for a cluster to become free.
GrowFullWaits == /\ WriteMore /\ ~Cur.iovalid /\ AtChainEnd
                 /\ Full
                 /\ UNCHANGED vars

GrowFull == /\ WriteMore /\ ~Cur.iovalid /\ AtChainEnd
            /\ Full
            /\ Return(FALSE)
            /\ UNCHANGED <<fat, fat_dur, dirent, data, fcb, faults>>

LinkNew == /\ call.op = "write" /\ call.at = "link"
           /\ fat' = [fat EXCEPT ![Cur.cclust] = call.c]
           /\ fcb' = [fcb EXCEPT ![call.k] = [@ EXCEPT !.cclust = call.c,
                                                       !.csect = 0]]
           /\ Goto("loop")
           /\ UNCHANGED <<fat_dur, dirent, data, faults>>

\* The new cluster stays allocated and belongs to no file.
LinkFails == /\ call.op = "write" /\ call.at = "link"
             /\ Fault
             /\ Return(FALSE)
             /\ UNCHANGED <<fat, fat_dur, dirent, data, fcb>>

Patched(r, bytes) ==
  [i \in 0 .. SecSize - 1 |->
     IF i \in r.boff .. r.boff + Len(bytes) - 1 THEN bytes[i - r.boff + 1]
                                               ELSE r.iobuf[i]]

Chunk == SubSeq(call.bytes, 1, Min({Len(call.bytes), SecSize - Cur.boff}))

Grown(r) == IF r.fpos >= r.fsize
              THEN [r EXCEPT !.fsize = r.fpos, !.sizechg = TRUE]
              ELSE r

WriteChunk ==
  /\ WriteMore /\ Cur.iovalid
  /\ LET buffer == Patched(Cur, Chunk)
         n == Len(Chunk)
     IN  /\ data' = [data EXCEPT ![SectorOf(Cur)] = buffer]
         /\ fcb' = [fcb EXCEPT ![call.k] =
                      Grown(Advance([@ EXCEPT !.iobuf = buffer], n))]
         /\ call' = [call EXCEPT !.bytes = SubSeq(@, n + 1, Len(@))]
  /\ UNCHANGED <<fat, fat_dur, dirent, ret, faults>>

\* The buffer keeps the change, and counts as valid.
WriteChunkFails ==
  /\ WriteMore /\ Cur.iovalid
  /\ WriteFault
  /\ fcb' = [fcb EXCEPT ![call.k] = [@ EXCEPT !.iobuf = Patched(Cur, Chunk)]]
  /\ Return(FALSE)
  /\ UNCHANGED <<fat, fat_dur, dirent, data>>

WriteDone == /\ call.op = "write" /\ call.at = "loop" /\ call.bytes = <<>>
             /\ Return(TRUE)
             /\ UNCHANGED <<fat, fat_dur, dirent, data, fcb, faults>>

-----------------------------------------------------------------------------
(* file_close, for an FCB with a changed file: the directory entry first,  *)
(* then the clusters past the new end are freed, then the FAT is flushed.  *)
(* Failures are ignored.                                                   *)

CloseCall(k) ==
  /\ fcb[k].open
  /\ IF fcb[k].sizechg
       THEN /\ Start([Idle EXCEPT !.op = "close", !.k = k, !.at = "size"])
            /\ fcb' = [fcb EXCEPT ![k].open = FALSE]
       ELSE /\ call.op = "idle" /\ UNCHANGED call
            /\ ret' = TRUE
            /\ fcb' = [fcb EXCEPT ![k] = Closed]
  /\ UNCHANGED <<fat, fat_dur, dirent, data, faults>>

CloseSize ==
  /\ call.op = "close" /\ call.at = "size"
  /\ dirent' = [dirent EXCEPT ![Cur.file] = [clust |-> Cur.sclust,
                                             size |-> Cur.fsize]]
  /\ Goto("trim")
  /\ UNCHANGED <<fat, fat_dur, data, fcb, faults>>

CloseFails ==
  /\ call.op = "close" /\ call.at \in {"size", "trim"}
  /\ Fault
  /\ Goto("flush")
  /\ UNCHANGED <<fat, fat_dur, dirent, data, fcb>>

\* The cluster of the last byte, and the link _fclose_trim_chain finds there.
LastOne == SeekTo(Cur, Cur.fsize).cclust

Free(c) == call' = [call EXCEPT !.at = "free", !.c = c] /\ UNCHANGED ret

\* Mutant: the chain is not cut before its tail is freed.
TrimUncut ==
  /\ call.op = "close" /\ call.at = "trim" /\ Cur.fsize > 0
  /\ IF Link(fat, LastOne) \in Clusters THEN Free(fat[LastOne])
                                      ELSE Goto("flush")
  /\ UNCHANGED <<fat, fat_dur, dirent, data, fcb, faults>>

Trim ==
  /\ call.op = "close" /\ call.at = "trim" /\ Cur.fsize > 0
  /\ IF Link(fat, LastOne) \in Clusters
       THEN /\ fat' = [fat EXCEPT ![LastOne] = Eoc]
            /\ Free(fat[LastOne])
       ELSE UNCHANGED fat /\ Goto("flush")
  /\ UNCHANGED <<fat_dur, dirent, data, fcb, faults>>

\* Mutant: the chain of a file that became empty is kept.
KeepAll ==
  /\ call.op = "close" /\ call.at = "trim" /\ Cur.fsize = 0
  /\ Goto("flush")
  /\ UNCHANGED <<fat, fat_dur, dirent, data, fcb, faults>>

\* A file that became empty loses its whole chain; its entry, written again,
\* no longer names it.
TrimAll ==
  /\ call.op = "close" /\ call.at = "trim" /\ Cur.fsize = 0
  /\ IF Cur.sclust = 0
       THEN UNCHANGED <<dirent, fcb>> /\ Goto("flush")
       ELSE /\ dirent' = [dirent EXCEPT ![Cur.file].clust = 0]
            /\ fcb' = [fcb EXCEPT ![call.k].sclust = 0]
            /\ Free(Cur.sclust)
  /\ UNCHANGED <<fat, fat_dur, data, faults>>

-----------------------------------------------------------------------------
(* file_delete: the entry is marked deleted, then the chain is freed       *)
(* (_free_chain, which also serves file_close) and the FAT flushed.        *)

MarkDeleted(f) ==
  /\ dirent' = [dirent EXCEPT ![f] = Absent]
  /\ call' = [Idle EXCEPT !.op = "delete", !.f = f, !.c = dirent[f].clust,
                !.at = IF dirent[f].clust = 0 THEN "flush" ELSE "free"]
  /\ ret' = TRUE

DeleteCall(f) ==
  /\ call.op = "idle" /\ OpenOn(f) = {}
  /\ \/ dirent[f] # Absent /\ MarkDeleted(f) /\ UNCHANGED faults
     \/ /\ \/ dirent[f] = Absent /\ UNCHANGED faults
           \/ Fault
        /\ ret' = FALSE
        /\ UNCHANGED <<dirent, call>>
  /\ UNCHANGED <<fat, fat_dur, data, fcb>>

FreeOne == /\ call.at = "free"
           /\ fat' = [fat EXCEPT ![call.c] = 0]
           /\ IF fat[call.c] = Eoc THEN Goto("flush")
                                   ELSE Free(fat[call.c])
           /\ UNCHANGED <<fat_dur, dirent, data, fcb, faults>>

Released == IF call.op = "close" THEN fcb' = [fcb EXCEPT ![call.k] = Closed]
                                 ELSE UNCHANGED fcb

\* Freeing stops half way: file_close still flushes, file_delete does not.
FreeFails == /\ call.at = "free"
             /\ Fault
             /\ IF call.op = "close" THEN Goto("flush") ELSE Return(FALSE)
             /\ UNCHANGED <<fat, fat_dur, dirent, data, fcb>>

FlushLast == /\ call.at = "flush"
             /\ fat_dur' = fat
             /\ Released /\ Return(TRUE)
             /\ UNCHANGED <<fat, dirent, data, faults>>

FlushFails == /\ call.at = "flush"
              /\ WriteFault
              /\ Released /\ Return(call.op = "close")
              /\ UNCHANGED <<fat, fat_dur, dirent, data>>

-----------------------------------------------------------------------------
Requests == UNION {[1 .. n -> Bytes] : n \in 1 .. MaxRequest}

\* The kernel moves bytes and never looks at them: a few that stand out show
\* where each of them goes.
FewMarks(bytes) ==
  Cardinality({i \in DOMAIN bytes : bytes[i] # Blank})
    + Cardinality({at \in Sectors \X (0 .. SecSize - 1) :
                     data[at[1]][at[2]] # Blank}) <= MaxMarks

Caller ==
  \/ \E k \in Fcbs, f \in Files, mode \in 0 .. 2 : OpenCall(k, f, mode)
  \/ \E k \in Fcbs, target \in 0 .. MaxSize : SeekCall(k, target)
  \/ \E k \in Fcbs, n \in 1 .. MaxRequest : ReadCall(k, n)
  \/ \E k \in Fcbs, bytes \in Requests : FewMarks(bytes) /\ WriteCall(k, bytes)
  \/ \E k \in Fcbs : CloseCall(k)
  \/ \E f \in Files : DeleteCall(f)

Kernel ==
  \/ ReadSector \/ ReadFails \/ ReadChunk \/ ReadDone
  \/ WriteFirst \/ WriteFirstFails \/ WriteSector \/ WriteSectorFails
  \/ Grow \/ GrowFull \/ LinkNew \/ LinkFails
  \/ WriteChunk \/ WriteChunkFails \/ WriteDone
  \/ CloseSize \/ CloseFails \/ Trim \/ TrimAll
  \/ FreeOne \/ FreeFails \/ FlushLast \/ FlushFails

Step == Caller \/ Kernel \/ Sync \/ Crash

\* A restart can leave a file whose entry gives it more bytes than its chain
\* has.  Nothing in the kernel looks out for that: a read, a seek or an append
\* that comes to the end of the chain goes on with the mark found there as if
\* it were a cluster, and works on whatever sector that is.  What follows is
\* not modelled.
LeaveChain ==
  /\ ~adrift /\ adrift' = TRUE
  /\ \/ \E k \in Fcbs, f \in Files :
          /\ call.op = "idle" /\ fcb[k] = Closed /\ Available(f, 2)
          /\ dirent[f].size > 0 /\ ~Reaches(Opened(f, 2), dirent[f].size)
     \/ \E k \in Fcbs : \E target \in 1 .. fcb[k].fsize :
          call.op = "idle" /\ fcb[k].open /\ ~Reaches(fcb[k], target)
     \/ call.op = "read" /\ MoreToRead /\ ~Cur.iovalid /\ ~GoesOn(Cur)
  /\ UNCHANGED state

Unfollowed == adrift /\ UNCHANGED vars

Next == \/ ~adrift /\ Step /\ UNCHANGED adrift
        \/ LeaveChain
        \/ Unfollowed

\* A call that has begun runs: nothing else has the processor.
Spec == Init /\ [][Next]_vars /\ WF_vars(~adrift /\ Kernel /\ UNCHANGED adrift)

-----------------------------------------------------------------------------
(* Properties.                                                             *)

Places == {"", "first", "loop", "link", "size", "trim", "free", "flush"}

\* Types: a cursor never leaves its cluster, its sector or the file.
StateOK ==
  /\ fat \in [Clusters -> Links]
  /\ fat_dur \in [Clusters -> Links]
  /\ dirent \in [Files -> [clust : {0} \cup Clusters, size : 0 .. MaxSize]
                            \cup {Absent}]
  /\ data \in [Sectors -> Buffers]
  /\ fcb \in [Fcbs -> [file : Files \cup {NoFile}, open : BOOLEAN,
                       write : BOOLEAN, sizechg : BOOLEAN, iovalid : BOOLEAN,
                       sclust : {0} \cup Clusters, cclust : {0} \cup Clusters,
                       csect : 0 .. Spc, boff : 0 .. SecSize - 1,
                       fsize : 0 .. MaxSize, fpos : 0 .. MaxSize,
                       iobuf : Buffers]]
  /\ call \in [op : {"idle", "read", "write", "close", "delete"}, at : Places,
               k : Fcbs \cup {NoFcb}, f : Files \cup {NoFile},
               n : 0 .. MaxRequest, bytes : {<<>>} \cup Requests,
               c : {0} \cup Clusters]
  /\ ret \in BOOLEAN
  /\ faults \in [read : 0 .. MaxReadFaults, write : 0 .. MaxWriteFaults,
                 crash : 0 .. MaxCrashes]

TypeOK == StateOK /\ adrift \in BOOLEAN

\* Sector writes fail, or the system is restarted, not both.  (A restart after
\* a write that failed can find any part of an update on the disk.)
Either == faults.write = 0 \/ faults.crash = 0

\* The cursor of an open file is where its position says: on the sector and
\* byte of fpos, or at the end of the cluster before it.  Whatever mixture of
\* reads, writes, seeks and failures led there.  And before the first restart
\* none leaves its chain.
CursorOK == Either =>
  /\ adrift => faults.crash > 0
  /\ \A k \in Fcbs : LET r == fcb[k] IN
    r.open =>
      /\ r.fpos <= r.fsize
      /\ IF r.cclust = 0
           THEN r.sclust = 0 /\ r.fpos = 0 /\ r.csect = 0 /\ r.boff = 0
           ELSE /\ r.cclust \in Clusters
                /\ \E n \in 0 .. LastCluster :
                     /\ r.cclust = Nth(fat, r.sclust, n)
                     /\ r.fpos = n * ClusterBytes + r.csect * SecSize + r.boff
      /\ r.csect = Spc => r.boff = 0 /\ ~r.iovalid

\* To a program a file is a sequence of bytes and an open file a position in
\* it: reads return what was last written there, writes change these bytes of
\* this file and nothing else, and a file that was closed holds what was
\* written, however clusters, sectors and buffers are laid out.  (Until a sector
\* write fails or the system is restarted.)
BytesOf(c, size) ==
  [i \in 1 .. size |->
     data[<<Nth(fat, c, (i - 1) \div ClusterBytes),
            ((i - 1) \div SecSize) % Spc>>][(i - 1) % SecSize]]

\* The FCB that knows more of the file than its directory entry does.
Writers(f) == {k \in OpenOn(f) : /\ fcb[k].write
                                 /\ fcb[k].open \/ call.at = "size"}

Disturbed == faults.write + faults.crash > 0

Contents ==
  [f \in Files |->
     IF dirent[f] = Absent \/ Disturbed THEN {}
     ELSE IF Writers(f) = {} THEN {BytesOf(dirent[f].clust, dirent[f].size)}
     ELSE {BytesOf(fcb[k].sclust, fcb[k].fsize) : k \in Writers(f)}]

Handles == [k \in Fcbs |-> [file |-> fcb[k].file, pos |-> fcb[k].fpos]]
Delivered == IF call.op = "read" THEN call.bytes ELSE <<>>
Unwritten == IF call.op = "write" THEN call.bytes ELSE <<>>
Trouble == IF Disturbed THEN -1 ELSE faults.read

Bytefile == INSTANCE ByteFile
  WITH content <- Contents, handle <- Handles, got <- Delivered,
       todo <- Unwritten, trouble <- Trouble
IsByteFile == Bytefile!Spec

\* No cluster is in two places: each is the first of one file, or follows one
\* cluster, or neither; and none of these is free, so that no other file can
\* come to share it.
Sole(table, heads) ==
  /\ \A f, g \in Files : f # g => heads[f] \cap heads[g] = {}
  /\ \A f \in Files : \A c \in heads[f] :
       table[c] # 0 /\ \A d \in Clusters : table[d] # c
  /\ \A c \in Clusters : table[c] \in Clusters =>
       /\ table[table[c]] # 0
       /\ \A d \in Clusters : table[d] = table[c] => d = c

EntryHeads == [f \in Files |-> {dirent[f].clust} \cap Clusters]
Heads == [f \in Files |-> EntryHeads[f] \cup
                          ({fcb[k].sclust : k \in OpenOn(f)} \cap Clusters)]

\* Files, open or not, never share a cluster: not while file_write links a new
\* one, not while file_close and file_delete free theirs, whichever transfers
\* fail, and not after a restart, up to the limit that Either states, and until
\* a cursor leaves its chain.
NoCrossLink == Either => Sole(fat, Heads)

\* Nor would they after a restart at this moment: no directory entry on the
\* disk names a cluster that the FAT on the disk calls free or gives to
\* another file ("a live directory entry pointing at clusters the FAT has
\* already marked free"), until a write fails or a cursor leaves its chain.
CrashSafe == faults.write = 0 => Sole(fat_dur, EntryHeads)

\* While nothing has failed, no cluster is lost: with no file open, the
\* clusters in use are those the files need for their sizes, no more.
NoLostClusters ==
  (call.op = "idle" /\ faults = [read |-> 0, write |-> 0, crash |-> 0]
     /\ \A k \in Fcbs : fcb[k] = Closed)
  => /\ \A f \in Files : dirent[f] # Absent =>
          Capacity(fat, dirent[f].clust)
            \in dirent[f].size .. dirent[f].size + ClusterBytes - 1
     /\ \A c \in Clusters : fat[c] # 0 =>
          \E f \in Files, n \in 0 .. LastCluster : Nth(fat, dirent[f].clust, n) = c

\* Every call returns: file_read, file_write and _free_chain get on with each
\* step, and a full disk or a failure ends them.
CallsReturn == (call.op # "idle") ~> (call.op = "idle")

-----------------------------------------------------------------------------
(* The inductive invariant behind NoCrossLink and CrashSafe.               *)

IsFcb(r) ==
  /\ DOMAIN r = {"file", "open", "write", "sizechg", "iovalid", "sclust",
                 "cclust", "csect", "boff", "fsize", "fpos", "iobuf"}
  /\ r.file \in Files \cup {NoFile}
  /\ r.sclust \in {0} \cup Clusters
  /\ r.open => r.file # NoFile
  /\ r.sizechg => r.write

IsEntry(e) == /\ DOMAIN e = {"clust", "size"}
              /\ e.clust \in {0} \cup Clusters \/ e = Absent

\* As much of TypeOK as the rest needs.
Shape ==
  /\ fat \in [Clusters -> Links] /\ fat_dur \in [Clusters -> Links]
  /\ DOMAIN dirent = Files /\ \A f \in Files : IsEntry(dirent[f])
  /\ DOMAIN fcb = Fcbs /\ \A k \in Fcbs : IsFcb(fcb[k])
  /\ DOMAIN call = {"op", "at", "k", "f", "n", "bytes", "c"}
  /\ DOMAIN faults = {"read", "write", "crash"}
  /\ faults.write \in Nat /\ faults.crash \in Nat

\* A file opened for writing has one FCB.
Exclusive == \A k, l \in Fcbs :
               k # l /\ fcb[k].file = fcb[l].file /\ fcb[k].file # NoFile
                 => ~fcb[k].write

\* Where each call can be, and what it works on.
CallOK ==
  /\ call.op \in {"idle", "read", "write", "close", "delete"}
  /\ call.op \in {"read", "write", "close"} =>
       call.k \in Fcbs /\ Cur.file \in Files
  /\ call.op \in {"write", "close"} => Cur.write
  /\ call.op \in {"idle", "read"} => call.at = ""
  /\ call.op = "write" => call.at \in {"first", "loop", "link"}
  /\ call.op = "close" => call.at \in {"size", "trim", "free", "flush"}
  /\ call.op = "delete" => call.at \in {"free", "flush"}

Orphan(table, heads, c) == /\ c \in Clusters /\ table[c] # 0
                           /\ \A d \in Clusters : table[d] # c
                           /\ \A f \in Files : c \notin heads[f]

\* The cluster in call.c is in use and nothing refers to it, yet or any more.
CallHolds == call.at \in {"link", "free"} => Orphan(fat, Heads, call.c)

\* What is on the disk is safe even for the files that are open: a cluster
\* becomes the first one of a file only after the FAT was flushed.
DurSole == faults.write = 0 => Sole(fat_dur, Heads)

FatSole == Sole(fat, Heads)

IInv == Shape /\ Exclusive /\ CallOK /\ CallHolds /\ FatSole /\ DurSole
=============================================================================
