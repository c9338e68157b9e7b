------------------------------ MODULE FatCache ------------------------------
(***************************************************************************)
(* The FAT layer of the ELF-DOS kernel (kernel/fat.asm), the part of       *)
(* kernel/kinit.asm that drops its cached state, and the programs that     *)
(* attach and detach volumes (progs/mount.asm, progs/umount.asm).          *)
(*                                                                         *)
(* One FAT sector is cached for all drives together.  fat_set changes only *)
(* the cache; fat_flush writes the cached sector to every FAT copy.  The   *)
(* cache outlives a switch to another drive: it is tagged with the drive   *)
(* it belongs to, and only _fat_load_sector looks at the tag.              *)
(*                                                                         *)
(* The kernel runs one call at a time, so the interleavings that matter    *)
(* are those of a call with failing sector transfers and with a restart.   *)
(* A call therefore takes one step per sector transfer and per change of   *)
(* the cache; call holds its registers, and the state of the cache decides *)
(* which step is next, as it does in the code.                             *)
(*                                                                         *)
(* A FAT entry is two cells, <<c, 0>> and <<c, 1>>, that hold one digit    *)
(* each.  On a FAT16 volume both lie in one sector; a FAT12 entry may      *)
(* straddle two (LoSec[c] # HiSec[c]), and is then written in two steps.   *)
(***************************************************************************)
EXTENDS Naturals

CONSTANTS
  Slots,            \* drive slots: indices of drive_present, drive_bpb_table
  ShellSlot,        \* the slot /bin/shell was loaded from
  Vols,             \* partitions that can be mounted
  NoSlot, NoVol, NoSec,        \* $FF, an unset BPB, $FFFF
  LastCopy,         \* bpb_num_fats - 1
  LastCluster,      \* the largest cluster number of any volume
  MaxClust,         \* MaxClust[p]: bpb_max_clust of volume p
  Sectors,          \* FAT sector indices
  LoSec, HiSec,     \* the sectors of the two cells of an entry
  EocDigit,         \* the digit both cells of an end-of-chain mark hold
  SetValues,        \* the entries callers store with fat_set
  BootTable,        \* the partition krnboot gives each slot
  BootPresent,      \* the slots krnboot finds a volume for
  MaxReadFaults, MaxWriteFaults, MaxCrashes      \* bounds on mishaps

Clusters == 2 .. LastCluster
Digits == 0 .. LastCluster \cup {EocDigit}
Entries == Digits \X Digits
Cells == Clusters \X {0, 1}
Copies == 0 .. LastCopy

Free == <<0, 0>>                 \* $0000
Eoc == <<EocDigit, EocDigit>>    \* FAT_EOC

ASSUME FatConstants ==
  /\ ShellSlot \in Slots
  /\ NoSlot \notin Slots /\ NoVol \notin Vols /\ NoSec \notin Sectors
  /\ LastCopy \in Nat /\ LastCluster \in Nat
  /\ EocDigit \in Nat
  /\ MaxClust \in [Vols -> Clusters]
  /\ LoSec \in [Clusters -> Sectors] /\ HiSec \in [Clusters -> Sectors]
  /\ SetValues \subseteq Entries
  /\ BootTable \in [Slots -> Vols] /\ BootPresent \subseteq Slots
  /\ MaxReadFaults \in Nat /\ MaxWriteFaults \in Nat /\ MaxCrashes \in Nat

VARIABLES
  disk,               \* disk[p][k]: copy k of the FAT of volume p
  drive_present, drive_bpb_table,
  bpb,                \* the volume whose BPB fields are the active ones
  active_bpb_drive,
  fat_csec, fat_cache, fat_cache_drive, fat_dirty,
  fat_next_free,
  call,               \* the registers of the call in progress
  ret,                \* what the last completed call returned
  faults              \* mishaps so far: their numbers, and what MOUNT did

drives == <<drive_present, drive_bpb_table>>
active == <<bpb, active_bpb_drive>>
cache == <<fat_csec, fat_cache, fat_cache_drive, fat_dirty>>
vars == <<disk, drives, active, cache, fat_next_free, call, ret, faults>>

-----------------------------------------------------------------------------
(* Calls and returns.                                                      *)

Invalidations == {"invalidate", "mount", "umount"}
Ops == {"idle", "get", "set", "alloc", "claim", "flush", "switch"}
         \cup Invalidations

Idle == [op |-> "idle", c |-> 2, h |-> 0, v |-> Free, wrapped |-> FALSE,
         copy |-> 0, slot |-> NoSlot, to |-> NoVol]

NoResult == [op |-> "idle", ok |-> TRUE, full |-> FALSE, c |-> 2, v |-> Free]

Result(op, ok, c, v) == [NoResult EXCEPT !.op = op, !.ok = ok, !.c = c, !.v = v]

Start(regs) == /\ call.op = "idle"
               /\ call' = regs
               /\ ret' = NoResult

Return(result) == /\ call' = Idle
                  /\ ret' = result

Fail == Return(Result(call.op, FALSE, 2, Free))      \* DF = 1

SecOf(x) == IF x[2] = 0 THEN LoSec[x[1]] ELSE HiSec[x[1]]
Cell == <<call.c, call.h>>

-----------------------------------------------------------------------------
(* History: no action looks at it.                                         *)
(*                                                                         *)
(* faults.lost: a sector could not be written, and _switch_drive, which    *)
(* does not look at what its flush returns, has counted it as clean.       *)
(*                                                                         *)
(* faults.stale: MOUNT gave a drive another partition while the FAT sector *)
(* cached for the drive was the old partition's.  The sector is "kept":    *)
(* kernel_drive_invalidate drops only what the active drive has cached,    *)
(* and not what it fails to write.  Loading another sector, or dropping    *)
(* this one, ends that.  When the drive becomes active first, the sector   *)
(* is found by its tag and "used" as if it were the new partition's; from  *)
(* then on nothing is promised of either.                                  *)

Kept(stale) ==
  IF /\ stale = "no" /\ call.op = "mount" /\ fat_cache_drive = call.slot
     /\ fat_csec # NoSec /\ drive_bpb_table[call.slot] # call.to
    THEN "kept" ELSE stale

Forgotten(stale) == IF stale = "kept" THEN "no" ELSE stale
Used(stale) == IF stale = "kept" THEN "used" ELSE stale

-----------------------------------------------------------------------------
(* A restart finds the disk as it is and every variable at its boot value. *)

BootState ==
  /\ drive_present = BootPresent
  /\ drive_bpb_table = BootTable
  /\ bpb = NoVol /\ active_bpb_drive = NoSlot
  /\ fat_csec = NoSec /\ fat_cache_drive = NoSlot /\ fat_dirty = FALSE
  /\ fat_cache = [x \in Cells |-> 0]
  /\ fat_next_free = 2
  /\ call = Idle /\ ret = NoResult

Init == /\ disk = [p \in Vols |-> [k \in Copies |-> [x \in Cells |-> 0]]]
        /\ faults = [read |-> 0, write |-> 0, crash |-> 0,
                     lost |-> FALSE, stale |-> "no"]
        /\ BootState

Crash == /\ faults.crash < MaxCrashes
         /\ faults' = [faults EXCEPT !.crash = @ + 1, !.stale = Forgotten(@)]
         /\ drive_present' = BootPresent
         /\ drive_bpb_table' = BootTable
         /\ bpb' = NoVol /\ active_bpb_drive' = NoSlot
         /\ fat_csec' = NoSec /\ fat_cache_drive' = NoSlot /\ fat_dirty' = FALSE
         /\ fat_cache' = [x \in Cells |-> 0]
         /\ fat_next_free' = 2
         /\ call' = Idle /\ ret' = NoResult
         /\ UNCHANGED disk

-----------------------------------------------------------------------------
(* fat_flush: write the cached sector to each FAT copy in turn.  Whichever *)
(* call runs it, it is due while the sector is dirty, and the last copy    *)
(* makes the sector clean.                                                 *)

Want == SecOf(Cell)              \* the sector _fat_load_sector must cache

\* Mutant: the tag is not looked at, a sector of any drive is a hit.
HitAnyDrive == fat_csec = Want

Hit == fat_csec = Want /\ fat_cache_drive = active_bpb_drive

\* Mutant: the last cluster counts as past the end.
PastEndEarly == call.c >= MaxClust[bpb]

PastEnd == call.c > MaxClust[bpb]       \* fat_alloc's bound check

Loading == \/ call.op \in {"get", "set", "claim"}
           \/ call.op = "alloc" /\ ~PastEnd

Dirty == fat_dirty /\ fat_csec # NoSec

\* kernel_drive_invalidate acts on the active drive, or when there is none.
Concerned == /\ call.op \in Invalidations
             /\ active_bpb_drive \in {call.slot, NoSlot}

FlushDue == /\ Dirty
            /\ \/ call.op \in {"flush", "switch"}
               \/ Concerned
               \/ Loading /\ ~Hit

\* Sector s of a FAT copy overwritten by the cached one.
Written(fat) == [x \in Cells |-> IF SecOf(x) = fat_csec THEN fat_cache[x]
                                                         ELSE fat[x]]

\* Mutant: the sector counts as clean once the first copy is written.
WriteFirstCopy ==
  /\ FlushDue
  /\ disk' = [disk EXCEPT ![bpb][call.copy] = Written(@)]
  /\ fat_dirty' = FALSE /\ call' = [call EXCEPT !.copy = 0]
  /\ UNCHANGED <<drives, active, fat_csec, fat_cache, fat_cache_drive,
                 fat_next_free, ret, faults>>

WriteCopy ==
  /\ FlushDue
  /\ disk' = [disk EXCEPT ![bpb][call.copy] = Written(@)]
  /\ IF call.copy = LastCopy
       THEN fat_dirty' = FALSE /\ call' = [call EXCEPT !.copy = 0]
       ELSE fat_dirty' = fat_dirty /\ call' = [call EXCEPT !.copy = @ + 1]
  /\ UNCHANGED <<drives, active, fat_csec, fat_cache, fat_cache_drive,
                 fat_next_free, ret, faults>>

-----------------------------------------------------------------------------
(* _switch_drive.                                                          *)

SwitchCall(d) ==
  /\ IF d \in drive_present /\ d # active_bpb_drive
       THEN Start([Idle EXCEPT !.op = "switch", !.slot = d])
       ELSE /\ call.op = "idle" /\ call' = Idle
            /\ ret' = Result("switch", d \in drive_present, 2, Free)
  /\ UNCHANGED <<disk, drives, active, cache, fat_next_free, faults>>

\* The outgoing drive's sector has been flushed, or its flush has failed:
\* the code does not look.  The sector stays cached and counts as clean.
Activate ==
  /\ bpb' = drive_bpb_table[call.slot]
  /\ active_bpb_drive' = call.slot
  /\ fat_dirty' = FALSE
  /\ Return(Result("switch", TRUE, 2, Free))
  /\ UNCHANGED <<drives, fat_csec, fat_cache, fat_cache_drive>>

Switch == /\ call.op = "switch" /\ ~Dirty
          /\ Activate
          /\ UNCHANGED <<disk, fat_next_free, faults>>

-----------------------------------------------------------------------------
(* kernel_drive_invalidate, alone or from MOUNT or UMOUNT, which commit    *)
(* their change of the drive tables when it returns.                       *)

InvalidateCall(d) ==
  /\ Start([Idle EXCEPT !.op = "invalidate", !.slot = d])
  /\ UNCHANGED <<disk, drives, active, cache, fat_next_free, faults>>

UmountCall(d) ==
  /\ d # ShellSlot
  /\ Start([Idle EXCEPT !.op = "umount", !.slot = d])
  /\ UNCHANGED <<disk, drives, active, cache, fat_next_free, faults>>

MountCall(d, p) ==
  /\ d # ShellSlot
  /\ Start([Idle EXCEPT !.op = "mount", !.slot = d, !.to = p])
  /\ UNCHANGED <<disk, drives, active, cache, fat_next_free, faults>>

Commit ==
  CASE call.op = "invalidate" -> UNCHANGED drives
    [] call.op = "umount" -> /\ drive_present' = drive_present \ {call.slot}
                             /\ UNCHANGED drive_bpb_table
    [] call.op = "mount" ->
         /\ drive_bpb_table' = [drive_bpb_table EXCEPT ![call.slot] = call.to]
         /\ drive_present' \in {drive_present \cup {call.slot},
                                drive_present \ {call.slot}}   \* unformatted

\* Mutant: the sector is kept, as _switch_drive keeps it.
DropKeepsSector ==
  /\ Concerned /\ ~Dirty
  /\ active_bpb_drive' = NoSlot
  /\ Commit
  /\ Return(Result(call.op, TRUE, 2, Free))
  /\ UNCHANGED <<disk, bpb, cache, fat_next_free, faults>>

\* The drive is active, or none is: drop the (now clean) sector, and make
\* the next _switch_drive reload the BPB.
Drop == /\ Concerned /\ ~Dirty
        /\ fat_csec' = NoSec /\ fat_cache_drive' = NoSlot
        /\ active_bpb_drive' = NoSlot
        /\ Commit
        /\ Return(Result(call.op, TRUE, 2, Free))
        /\ faults' = [faults EXCEPT !.stale = Forgotten(@)]
        /\ UNCHANGED <<disk, bpb, fat_cache, fat_dirty, fat_next_free>>

\* Another drive is active: nothing of this one is taken to be cached.
NotConcerned == /\ call.op \in Invalidations /\ ~Concerned
                /\ Commit
                /\ Return(Result(call.op, TRUE, 2, Free))
                /\ faults' = [faults EXCEPT !.stale = Kept(@)]
                /\ UNCHANGED <<disk, active, cache, fat_next_free>>

-----------------------------------------------------------------------------
(* A failed sector write ends the flush; the sector stays dirty.  A load   *)
(* and a flush report it, a switch goes on regardless, and an invalidation *)
(* keeps the sector but still forgets which drive is active; neither of    *)
(* the last two tells its caller.                                          *)

\* Mutant: kernel_drive_invalidate drops the sector it failed to write.
WriteFailsDrops ==
  /\ FlushDue /\ faults.write < MaxWriteFaults
  /\ faults' = [faults EXCEPT !.write = @ + 1]
  /\ call.op \in Invalidations
  /\ active_bpb_drive' = NoSlot /\ fat_csec' = NoSec
  /\ Commit
  /\ Return(Result(call.op, TRUE, 2, Free))
  /\ UNCHANGED <<disk, bpb, fat_cache, fat_cache_drive, fat_dirty,
                 fat_next_free>>

WriteFails ==
  /\ FlushDue /\ faults.write < MaxWriteFaults
  /\ \/ /\ call.op = "switch"
        /\ Activate
        /\ faults' = [faults EXCEPT !.write = @ + 1, !.lost = TRUE]
     \/ /\ call.op \in Invalidations
        /\ active_bpb_drive' = NoSlot
        /\ Commit
        /\ Return(Result(call.op, TRUE, 2, Free))
        /\ faults' = [faults EXCEPT !.write = @ + 1, !.stale = Kept(@)]
        /\ UNCHANGED <<bpb, cache>>
     \/ /\ call.op \in {"get", "set", "alloc", "claim", "flush"}
        /\ Fail
        /\ faults' = [faults EXCEPT !.write = @ + 1]
        /\ UNCHANGED <<drives, active, cache>>
  /\ UNCHANGED <<disk, fat_next_free>>

-----------------------------------------------------------------------------
(* _fat_load_sector, once a dirty sector of another drive or another part  *)
(* of the FAT is out of the way.                                           *)

LoadSector ==
  /\ Loading /\ ~Hit /\ ~Dirty
  /\ fat_cache' = [x \in Cells |-> IF SecOf(x) = Want THEN disk[bpb][0][x]
                                                      ELSE 0]
  /\ fat_csec' = Want /\ fat_cache_drive' = active_bpb_drive
  /\ fat_dirty' = FALSE
  /\ faults' = [faults EXCEPT !.stale = Forgotten(@)]
  /\ UNCHANGED <<disk, drives, active, fat_next_free, call, ret>>

ReadFails ==
  /\ Loading /\ ~Hit /\ ~Dirty
  /\ faults.read < MaxReadFaults
  /\ faults' = [faults EXCEPT !.read = @ + 1]
  /\ Fail
  /\ UNCHANGED <<disk, drives, active, cache, fat_next_free>>

-----------------------------------------------------------------------------
(* fat_get: the entry is read cell by cell, each from its own sector.      *)

Valid(c) == bpb # NoVol /\ c \in 2 .. MaxClust[bpb]

GetCall(c) == /\ Valid(c)
              /\ Start([Idle EXCEPT !.op = "get", !.c = c])
              /\ UNCHANGED <<disk, drives, active, cache, fat_next_free, faults>>

Entry == <<call.v[1], fat_cache[Cell]>>     \* once the second cell is cached

FirstCell == call' = [call EXCEPT !.h = 1, !.v = <<fat_cache[Cell], 0>>]

Get == /\ call.op = "get" /\ Hit
       /\ IF call.h = 0 THEN FirstCell /\ UNCHANGED ret
                        ELSE Return(Result("get", TRUE, call.c, Entry))
       /\ faults' = [faults EXCEPT !.stale = Used(@)]
       /\ UNCHANGED <<disk, drives, active, cache, fat_next_free>>

-----------------------------------------------------------------------------
(* fat_set, also fat_alloc's claim of the cluster it found.  Freeing a     *)
(* cluster below the search hint lowers the hint to it; a claim moves the  *)
(* hint past it.                                                           *)

\* Whoever stores an entry has called _switch_drive first.  It fails only for
\* a drive that is not present, and the callers go on even then; so an entry
\* can be stored with no drive active, but only if some drive is not present.
Switched == active_bpb_drive # NoSlot \/ drive_present # Slots

SetCall(c, v) == /\ Valid(c) /\ Switched
                 /\ Start([Idle EXCEPT !.op = "set", !.c = c, !.v = v])
                 /\ UNCHANGED <<disk, drives, active, cache, fat_next_free,
                                faults>>

\* Mutant: the hint is left one too far.
HintTooFar == IF call.op = "claim" THEN call.c + 2
              ELSE IF call.v = Free /\ call.c < fat_next_free THEN call.c
              ELSE fat_next_free

Hint == IF call.op = "claim" THEN call.c + 1
        ELSE IF call.v = Free /\ call.c < fat_next_free THEN call.c
        ELSE fat_next_free

\* What fat_set stores in a cell.
Digit == call.v[call.h + 1]

Set == /\ call.op \in {"set", "claim"} /\ Hit
       /\ fat_cache' = [fat_cache EXCEPT ![Cell] = Digit]
       /\ fat_dirty' = TRUE
       /\ IF call.h = 0
            THEN /\ call' = [call EXCEPT !.h = 1]
                 /\ UNCHANGED <<fat_next_free, ret>>
            ELSE /\ fat_next_free' = Hint
                 /\ Return(Result(IF call.op = "claim" THEN "alloc" ELSE "set",
                                  TRUE, call.c, call.v))
       /\ faults' = [faults EXCEPT !.stale = Used(@)]
       /\ UNCHANGED <<disk, drives, active, fat_csec, fat_cache_drive>>

-----------------------------------------------------------------------------
(* fat_alloc: scan from the hint, wrapping to cluster 2 once.              *)

AllocCall == /\ bpb # NoVol /\ Switched
             /\ Start([Idle EXCEPT !.op = "alloc", !.c = fat_next_free])
             /\ UNCHANGED <<disk, drives, active, cache, fat_next_free, faults>>

\* Mutant: the scan wraps any number of times.
WrapForever == /\ call.op = "alloc" /\ PastEnd
               /\ call' = [call EXCEPT !.c = 2]
               /\ UNCHANGED <<disk, drives, active, cache, fat_next_free, ret,
                              faults>>

Wrap == /\ call.op = "alloc" /\ PastEnd
        /\ IF call.wrapped
             THEN Return([Result("alloc", FALSE, 2, Free) EXCEPT !.full = TRUE])
             ELSE /\ call' = [call EXCEPT !.wrapped = TRUE, !.c = 2]
                  /\ UNCHANGED ret
        /\ UNCHANGED <<disk, drives, active, cache, fat_next_free, faults>>

Probe == /\ call.op = "alloc" /\ ~PastEnd /\ Hit
         /\ IF call.h = 0 THEN FirstCell
            ELSE IF Entry = Free
              THEN call' = [call EXCEPT !.op = "claim", !.h = 0, !.v = Eoc]
              ELSE call' = [call EXCEPT !.c = @ + 1, !.h = 0, !.v = Free]
         /\ faults' = [faults EXCEPT !.stale = Used(@)]
         /\ UNCHANGED <<disk, drives, active, cache, fat_next_free, ret>>

FlushCall == /\ bpb # NoVol
             /\ Start([Idle EXCEPT !.op = "flush"])
             /\ UNCHANGED <<disk, drives, active, cache, fat_next_free, faults>>

Flushed == /\ call.op = "flush" /\ ~Dirty
           /\ Return(Result("flush", TRUE, 2, Free))
           /\ UNCHANGED <<disk, drives, active, cache, fat_next_free, faults>>

-----------------------------------------------------------------------------
Caller == \/ \E c \in Clusters : GetCall(c)
          \/ \E c \in Clusters, v \in SetValues : SetCall(c, v)
          \/ AllocCall
          \/ FlushCall
          \/ \E d \in Slots : SwitchCall(d) \/ InvalidateCall(d) \/ UmountCall(d)
          \/ \E d \in Slots, p \in Vols : MountCall(d, p)

Kernel == \/ WriteCopy \/ WriteFails
          \/ LoadSector \/ ReadFails
          \/ Get \/ Set \/ Wrap \/ Probe \/ Flushed
          \/ Switch \/ Drop \/ NotConcerned

Next == Caller \/ Kernel \/ Crash

\* A call that has begun runs: nothing else has the processor.
Spec == Init /\ [][Next]_vars /\ WF_vars(Kernel)

-----------------------------------------------------------------------------
(* Properties.                                                             *)

\* Types: the hint fat_alloc and fat_set leave is at most one past the largest
\* cluster, and the tag, the BPB and the registers are ones the code can have.
TypeOK ==
  /\ disk \in [Vols -> [Copies -> [Cells -> Digits]]]
  /\ drive_present \subseteq Slots
  /\ drive_bpb_table \in [Slots -> Vols]
  /\ bpb \in Vols \cup {NoVol}
  /\ active_bpb_drive \in Slots \cup {NoSlot}
  /\ fat_csec \in Sectors \cup {NoSec}
  /\ fat_cache \in [Cells -> Digits]
  /\ fat_cache_drive \in Slots \cup {NoSlot}
  /\ fat_dirty \in BOOLEAN
  /\ fat_next_free \in 2 .. LastCluster + 1
  /\ call \in [op : Ops, c : 2 .. LastCluster + 1, h : {0, 1}, v : Entries,
               wrapped : BOOLEAN, copy : Copies, slot : Slots \cup {NoSlot},
               to : Vols \cup {NoVol}]
  /\ ret \in [op : Ops, ok : BOOLEAN, full : BOOLEAN, c : Clusters,
              v : Entries]
  /\ faults \in [read : 0 .. MaxReadFaults, write : 0 .. MaxWriteFaults,
                 crash : 0 .. MaxCrashes,
                 lost : BOOLEAN, stale : {"no", "kept", "used"}]

\* The FAT of volume p: what the disk holds, under the sector that has been
\* changed in the cache and not yet written.
Vol(p) == IF p = bpb /\ Dirty THEN Written(disk[p][0]) ELSE disk[p][0]

EntryOf(p, c) == <<Vol(p)[<<c, 0>>], Vol(p)[<<c, 1>>]>>

\* The FAT layer is an ordered store of FAT entries: whatever the cache, the
\* drive switches and the remounts do, fat_set changes one entry of the
\* active volume and nothing else, no update is lost while the system runs,
\* and a restart finds the updates up to some moment and none after it.  A
\* sector that cannot be written changes none of that, until _switch_drive
\* counts it as clean all the same; nor does a remount, until a sector kept
\* over it is used.
NoReq == [p |-> NoVol, c |-> 2, v |-> Free]
Storing == IF call.op \in {"set", "claim"}
             THEN [p |-> bpb, c |-> call.c, v |-> call.v] ELSE NoReq

Trouble == faults.lost \/ faults.stale = "used"

Store == INSTANCE FatStore
           WITH vol <- [p \in Vols |-> Vol(p)], dur <- [p \in Vols |-> disk[p][0]],
                req <- Storing, epoch <- faults.crash, trouble <- Trouble
IsFatStore == Store!Spec

\* What fat_get returns is what the active volume's FAT holds for that
\* cluster, never an entry of another drive or partition, or from before an
\* update; and an entry stored by fat_set, or claimed by fat_alloc, is there as
\* a whole.  kernel_drive_invalidate is there to keep that so over a remount.
AnswersTrue ==
  ret.ok /\ ret.op \in {"get", "set", "alloc"} => ret.v = EntryOf(bpb, ret.c)

\* AnswersTrue until an update is lost or a sector kept over a remount is used.
ReadsSeeWrites == Trouble \/ AnswersTrue

\* fat_alloc says "disk full" only of a full volume, wherever the hint that
\* all drives share was left by allocations on another one: until an update
\* is lost or a sector kept over a remount is used.
FullTrue == ret.full => \A c \in 2 .. MaxClust[bpb] : EntryOf(bpb, c) # Free

FullMeansFull == Trouble \/ FullTrue

\* The FAT copies differ at most in the sector still waiting to be written:
\* a flush that failed half way is made good by a later one.  That ends with a
\* restart between two copies, or with a failed flush a switch ignores.
CopiesAgree ==
  faults.crash = 0 /\ ~faults.lost =>
    \A p \in Vols, k \in Copies, x \in Cells :
      disk[p][k][x] # disk[p][0][x] =>
        fat_dirty /\ p = bpb /\ SecOf(x) = fat_csec

\* Every call returns: fat_alloc's scan, in particular, wraps only once.
CallsReturn == (call.op # "idle") ~> (call.op = "idle")

-----------------------------------------------------------------------------
(* The inductive invariant behind these properties.  CallOK holds always;  *)
(* the rest until there is Trouble.                                        *)

CallOK ==
  /\ call.op # "idle" => ret = NoResult
  /\ call.op \in {"get", "set", "alloc", "claim", "flush"} => bpb # NoVol
  /\ call.op \in {"get", "set", "claim"} => call.c \in 2 .. MaxClust[bpb]
  /\ call.op = "switch" => call.slot \in drive_present
  /\ call.op \in Invalidations => call.slot \in Slots
  /\ call.op = "mount" => call.to \in Vols
  /\ fat_csec # NoSec => bpb # NoVol
  /\ fat_dirty => fat_csec # NoSec

CachedIsOnDisk(p) ==
  \A x \in Cells : SecOf(x) = fat_csec => fat_cache[x] = disk[p][0][x]

\* The active drive's table entry is the BPB in use; and the one cached
\* sector, shared by all drives, belongs to the volume its tag says: a dirty
\* one is that of the volume fat_flush writes it to, a clean one is what the
\* disk of its drive holds, through every switch, unmount and failed flush, so
\* that finding it by its tag later is as good as reading it.  Only a sector
\* that a remount has kept is not.
Coherent ==
  /\ active_bpb_drive # NoSlot =>
       /\ active_bpb_drive \in drive_present
       /\ bpb = drive_bpb_table[active_bpb_drive]
  /\ fat_dirty => active_bpb_drive \in {fat_cache_drive, NoSlot}
  /\ fat_csec # NoSec /\ faults.stale = "no" =>
       /\ fat_cache_drive # NoSlot =>
            IF fat_dirty THEN bpb = drive_bpb_table[fat_cache_drive]
            ELSE CachedIsOnDisk(drive_bpb_table[fat_cache_drive])
       /\ fat_cache_drive = NoSlot /\ active_bpb_drive = NoSlot /\ ~fat_dirty =>
            CachedIsOnDisk(bpb)

CacheCoherent == Trouble \/ Coherent

\* The steps a call has behind it.
CallProgress ==
  /\ call.copy > 0 => FlushDue /\ CachedIsOnDisk(bpb)
  /\ call.h = 1 => /\ call.op \in {"get", "set", "alloc", "claim"}
                   /\ call.c <= MaxClust[bpb]
                   /\ call.v[1] = Vol(bpb)[<<call.c, 0>>]
  /\ call.op = "alloc" /\ call.wrapped =>
       \A c \in 2 .. MaxClust[bpb] : c < call.c => EntryOf(bpb, c) # Free

IInv == TypeOK /\ CallOK /\ CacheCoherent /\ (Trouble \/ CallProgress)

-----------------------------------------------------------------------------
(* What comments say and the code does not do: CleanMeansWritten, and,     *)
(* without the reservation of ReadsSeeWrites, AnswersTrue.                 *)

\* A sector stops being dirty by being written ("clean: flushed above").
\* _switch_drive ignores the result of the flush it relies on.
CleanMeansWritten ==
  [][fat_dirty /\ ~fat_dirty' => Written(disk'[bpb][0]) = disk'[bpb][0]]_vars
=============================================================================
