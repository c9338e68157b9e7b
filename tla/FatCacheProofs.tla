--------------------------- MODULE FatCacheProofs ---------------------------
(***************************************************************************)
(* Theorems about FatCache, for every set of drives, volumes and sectors,  *)
(* every placement of the FAT entries in sectors (FAT12 or FAT16), and any *)
(* number of FAT copies, failed reads and restarts.                        *)
(***************************************************************************)
EXTENDS FatCache, TLAPS

Regs == [op : Ops, c : 2 .. LastCluster + 1, h : {0, 1}, v : Entries,
         wrapped : BOOLEAN, copy : Copies, slot : Slots \cup {NoSlot},
         to : Vols \cup {NoVol}]

Mishaps == [read : 0 .. MaxReadFaults, write : 0 .. MaxWriteFaults,
            crash : 0 .. MaxCrashes,
            lost : BOOLEAN, stale : {"no", "kept", "used"}]

Results == [op : Ops, ok : BOOLEAN, full : BOOLEAN, c : Clusters, v : Entries]

\* What the cluster numbers are.
LEMMA ClusterFacts ==
  /\ 2 \in Clusters /\ \A c \in Clusters : c \in Nat /\ 2 <= c /\ c <= LastCluster
  /\ \A p \in Vols : MaxClust[p] \in Clusters /\ MaxClust[p] \in Nat
  /\ 2 \in 2 .. LastCluster + 1
  /\ Clusters \subseteq 2 .. LastCluster + 1
BY FatConstants DEF Clusters

\* What the digits and entries are.
LEMMA DigitFacts == /\ 0 \in Digits /\ EocDigit \in Digits
                    /\ Free \in Entries /\ Eoc \in Entries
BY FatConstants DEF Digits, Entries, Free, Eoc

\* Every outcome is one a call can return.
LEMMA ResultType ==
  ASSUME NEW op \in Ops, NEW ok \in BOOLEAN, NEW c \in Clusters,
         NEW v \in Entries
  PROVE  /\ NoResult \in Results
         /\ Result(op, ok, c, v) \in Results
         /\ [Result(op, ok, c, v) EXCEPT !.full = TRUE] \in Results
BY ClusterFacts, DigitFacts DEF Result, NoResult, Results, Ops

\* So are the registers between calls.
LEMMA IdleType == Idle \in Regs
BY ClusterFacts, DigitFacts, FatConstants DEF Idle, Regs, Ops, Copies

\* Each cell of an entry has a sector.
LEMMA CellFacts ==
  /\ \A x \in Cells : SecOf(x) \in Sectors
  /\ \A c \in Clusters, h \in {0, 1} : <<c, h>> \in Cells
BY FatConstants DEF Cells, SecOf

(* TypeOK and CallOK, arranged by what a step of a call leaves alone       *)
(* together: the kernel's memory and the disks, and the call's registers.  *)
MemType ==
  /\ disk \in [Vols -> [Copies -> [Cells -> Digits]]]
  /\ drive_present \subseteq Slots
  /\ drive_bpb_table \in [Slots -> Vols]
  /\ bpb \in Vols \cup {NoVol}
  /\ active_bpb_drive \in Slots \cup {NoSlot}
  /\ fat_csec \in Sectors \cup {NoSec}
  /\ fat_cache \in [Cells -> Digits]
  /\ fat_cache_drive \in Slots \cup {NoSlot}
  /\ fat_dirty \in BOOLEAN
  /\ fat_next_free \in 2 .. LastCluster + 1
  /\ faults \in Mishaps
  /\ fat_csec # NoSec => bpb # NoVol
  /\ fat_dirty => fat_csec # NoSec

RegsOK ==
  /\ call.op \in {"get", "set", "alloc", "claim", "flush"} => bpb # NoVol
  /\ call.op \in {"get", "set", "claim"} => call.c \in 2 .. MaxClust[bpb]
  /\ call.op = "switch" => call.slot \in drive_present
  /\ call.op \in Invalidations => call.slot \in Slots
  /\ call.op = "mount" => call.to \in Vols

TypeInv == /\ MemType /\ call \in Regs /\ ret \in Results /\ RegsOK
           /\ call.op # "idle" => ret = NoResult

\* Writing the cached sector keeps a FAT a FAT.
LEMMA WrittenType ==
  ASSUME TypeInv, NEW fat \in [Cells -> Digits]
  PROVE  Written(fat) \in [Cells -> Digits]
BY DEF Written, TypeInv, MemType

\* A call that works on the cache has an entry of the active volume in hand.
LEMMA WorkFacts ==
  ASSUME TypeInv, Loading
  PROVE  /\ bpb \in Vols
         /\ call.c \in Clusters /\ call.c <= MaxClust[bpb]
         /\ Cell \in Cells /\ Want \in Sectors
<1>1. bpb \in Vols /\ call.h \in {0, 1} /\ call.c \in 2 .. LastCluster + 1
  BY DEF TypeInv, MemType, RegsOK, Regs, Loading
<1>2. call.c <= MaxClust[bpb]
  <2>1. MaxClust[bpb] \in Nat /\ call.c \in Nat
    <3>1. MaxClust[bpb] \in Nat
      BY <1>1, ClusterFacts
    <3>2. LastCluster + 1 \in Nat
      BY FatConstants
    <3> QED
      BY <1>1, <3>1, <3>2
  <2>2. CASE call.op = "alloc" /\ ~PastEnd
    BY <2>1, <2>2 DEF PastEnd
  <2>3. CASE call.op \in {"get", "set", "claim"}
    BY <2>1, <2>3 DEF TypeInv, RegsOK
  <2> QED
    BY <2>2, <2>3 DEF Loading
<1>3. call.c \in Clusters
  BY <1>1, <1>2, ClusterFacts, FatConstants DEF Clusters
<1> QED
  BY <1>1, <1>2, <1>3, CellFacts DEF Cell, Want

\* A dirty sector belongs to a volume.
LEMMA DirtyFacts ==
  ASSUME TypeInv, Dirty
  PROVE  bpb \in Vols
BY DEF TypeInv, MemType, Dirty


\* The arrangement is TypeOK and CallOK, no more and no less.
LEMMA TypeParts == TypeInv <=> TypeOK /\ CallOK
BY DEF TypeInv, TypeOK, CallOK, MemType, Regs, Results, RegsOK, Mishaps

\* Starting a call, and returning from one, keeps the types.
LEMMA StartType ==
  ASSUME TypeInv, NEW regs \in Regs, Start(regs),
         MemType', RegsOK'
  PROVE  TypeInv'
<1>1. call' \in Regs /\ ret' = NoResult /\ NoResult \in Results
  BY ResultType, ClusterFacts, DigitFacts DEF Start, NoResult, Results, Ops
<1> QED
  BY <1>1 DEF TypeInv

\* A call that returns leaves registers and result right.
LEMMA ReturnType ==
  ASSUME TypeInv, NEW r \in Results, Return(r), MemType'
  PROVE  TypeInv'
<1>1. call' = Idle /\ Idle \in Regs /\ Idle.op = "idle" /\ ret' \in Results
  BY IdleType DEF Return, Idle
<1>2. RegsOK'
  BY <1>1 DEF RegsOK, Invalidations
<1> QED
  BY <1>1, <1>2 DEF TypeInv

\* What each step does to the history of mishaps.
LEMMA FaultsStep ==
  ASSUME MemType, [Next]_vars
  PROVE  /\ faults' \in Mishaps
         /\ ~Trouble' => ~Trouble
         /\ ~Trouble' /\ (Get \/ Set \/ Probe) =>
              faults.stale = "no" /\ faults'.stale = "no"
         /\ ~Trouble' /\ WriteFails => call.op # "switch"
         /\ ~faults'.lost => ~faults.lost /\ (WriteFails => call.op # "switch")
         /\ WriteFails /\ call.op \notin Invalidations =>
              faults'.stale = faults.stale
         /\ IF Crash THEN faults'.crash = faults.crash + 1
                     ELSE faults'.crash = faults.crash
<1> DEFINE S == {"no", "kept", "used"}
<1>1. /\ faults \in Mishaps /\ faults.read \in Nat /\ faults.write \in Nat
      /\ faults.crash \in Nat /\ faults.lost \in BOOLEAN /\ faults.stale \in S
  BY DEF MemType, Mishaps
<1>2. /\ \A x \in S : Kept(x) \in S /\ Forgotten(x) \in S /\ Used(x) \in S
      /\ Kept("used") = "used" /\ Forgotten("used") = "used" /\ Used("used") = "used"
      /\ Used("kept") = "used" /\ Used("no") = "no"
  BY DEF Kept, Forgotten, Used
<1>3. CASE Crash
  <2>1. /\ faults.crash < MaxCrashes
        /\ faults' = [faults EXCEPT !.crash = @ + 1, !.stale = Forgotten(@)]
        /\ call'.op = "idle" /\ call'.h = 0 /\ UNCHANGED disk /\ fat_dirty' = FALSE
    BY <1>3 DEF Crash, Idle
  <2>2. /\ faults' \in Mishaps /\ faults'.crash = faults.crash + 1
        /\ faults'.lost = faults.lost /\ faults'.stale = Forgotten(faults.stale)
        /\ faults'.crash # faults.crash
    <3>1. faults'.crash = faults.crash + 1
      BY <1>1, <2>1 DEF Mishaps
    <3>2. faults'.crash \in 0 .. MaxCrashes /\ faults'.crash # faults.crash
      BY <1>1, <2>1, <3>1, FatConstants
    <3>3. /\ faults'.lost = faults.lost /\ faults'.stale = Forgotten(faults.stale)
          /\ faults'.read = faults.read /\ faults'.write = faults.write
          /\ faults' = [read |-> faults'.read, write |-> faults'.write,
                        crash |-> faults'.crash, lost |-> faults'.lost,
                        stale |-> faults'.stale]
      BY <1>1, <2>1 DEF Mishaps
    <3>4. faults' \in Mishaps
      BY <1>1, <1>2, <3>2, <3>3 DEF Mishaps
    <3> QED
      BY <3>1, <3>2, <3>3, <3>4
  <2>3. ~Get /\ ~Set /\ ~Probe /\ ~WriteFails
    <3>1. ASSUME Get \/ Set \/ Probe PROVE FALSE
      <4>1. faults'.crash = faults.crash
        BY <1>1, <3>1 DEF Get, Set, Probe, Mishaps
      <4> QED
        BY <2>2, <4>1
    <3>2. ASSUME WriteFails PROVE FALSE
      <4>1. faults'.crash = faults.crash
        BY <1>1, <3>2 DEF WriteFails, Mishaps
      <4> QED
        BY <2>2, <4>1
    <3> QED
      BY <3>1, <3>2
  <2> QED
    BY <1>1, <1>2, <1>3, <2>2, <2>3 DEF Trouble
<1>4. CASE Get \/ Set \/ Probe
  <2>1. faults' = [faults EXCEPT !.stale = Used(@)]
    BY <1>4 DEF Get, Set, Probe
  <2>2. /\ faults' \in Mishaps /\ faults'.crash = faults.crash
        /\ faults'.lost = faults.lost /\ faults'.stale = Used(faults.stale)
    BY <1>1, <1>2, <2>1 DEF Mishaps
  <2>3. ~Crash /\ ~WriteFails
    <3>1. ~Crash
      <4>1. Crash => faults'.crash = faults.crash + 1
        BY <1>1 DEF Crash
      <4> QED
        BY <1>1, <2>2, <4>1
    <3>2. ~WriteFails
      BY <1>4 DEF WriteFails, FlushDue, Get, Set, Probe, Concerned, Loading, Invalidations
    <3> QED
      BY <3>1, <3>2
  <2> QED
    BY <1>1, <1>2, <2>2, <2>3 DEF Trouble
<1>5. CASE WriteFails
  <2>1. \/ /\ call.op = "switch"
           /\ faults' = [faults EXCEPT !.write = @ + 1, !.lost = TRUE]
        \/ /\ call.op \in Invalidations /\ call.op # "switch"
           /\ faults' = [faults EXCEPT !.write = @ + 1, !.stale = Kept(@)]
        \/ /\ call.op # "switch"
           /\ faults' = [faults EXCEPT !.write = @ + 1]
    BY <1>5 DEF WriteFails, Invalidations
  <2>2. faults.write < MaxWriteFaults
    BY <1>5 DEF WriteFails
  <2>3. /\ faults' \in Mishaps /\ faults'.crash = faults.crash
        /\ faults'.lost = (faults.lost \/ call.op = "switch")
        /\ faults'.stale \in {faults.stale, Kept(faults.stale)}
        /\ call.op \notin Invalidations => faults'.stale = faults.stale
    <3>1. faults'.write = faults.write + 1
      BY <1>1, <2>1 DEF Mishaps
    <3>2. faults'.write \in 0 .. MaxWriteFaults
      BY <1>1, <2>2, <3>1, FatConstants
    <3>3. /\ faults'.lost = (faults.lost \/ call.op = "switch")
          /\ faults'.stale \in {faults.stale, Kept(faults.stale)}
          /\ call.op \notin Invalidations => faults'.stale = faults.stale
      BY <1>1, <2>1 DEF Mishaps, Invalidations
    <3>4. /\ faults'.read = faults.read /\ faults'.crash = faults.crash
          /\ faults' = [read |-> faults'.read, write |-> faults'.write,
                        crash |-> faults'.crash, lost |-> faults'.lost,
                        stale |-> faults'.stale]
      BY <1>1, <2>1 DEF Mishaps
    <3>5. faults' \in Mishaps
      BY <1>1, <1>2, <3>2, <3>3, <3>4 DEF Mishaps
    <3> QED
      BY <3>3, <3>4, <3>5
  <2>4. ~Crash
    <3>1. Crash => faults'.crash = faults.crash + 1
      BY <1>1 DEF Crash
    <3> QED
      BY <1>1, <2>3, <3>1
  <2>5. ~Get /\ ~Set /\ ~Probe
    BY <1>5 DEF WriteFails, FlushDue, Get, Set, Probe, Concerned, Loading, Invalidations
  <2> QED
    BY <1>1, <1>2, <2>3, <2>4, <2>5 DEF Trouble
<1>6. CASE ReadFails
  <2>1. /\ faults.read < MaxReadFaults /\ ~Hit /\ Loading /\ ~Dirty
        /\ faults' = [faults EXCEPT !.read = @ + 1]
    BY <1>6 DEF ReadFails
  <2>2. /\ faults' \in Mishaps /\ faults'.crash = faults.crash
        /\ faults'.lost = faults.lost /\ faults'.stale = faults.stale
    BY <1>1, <2>1, FatConstants DEF Mishaps
  <2>3. ~Crash /\ ~Get /\ ~Set /\ ~Probe /\ ~WriteFails
    <3>1. Crash => faults'.crash = faults.crash + 1
      BY <1>1 DEF Crash
    <3>2. ~Crash
      BY <1>1, <2>2, <3>1
    <3>3. ~Get /\ ~Set /\ ~Probe
      BY <2>1 DEF Get, Set, Probe
    <3>4. ~WriteFails
      BY <2>1 DEF WriteFails, FlushDue
    <3> QED
      BY <3>2, <3>3, <3>4
  <2> QED
    BY <1>1, <2>2, <2>3 DEF Trouble
<1>7. CASE Drop \/ LoadSector \/ NotConcerned
  <2>1. faults' \in {[faults EXCEPT !.stale = Kept(@)], [faults EXCEPT !.stale = Forgotten(@)]}
    BY <1>7 DEF Drop, LoadSector, NotConcerned
  <2>2. /\ faults' \in Mishaps /\ faults'.crash = faults.crash
        /\ faults'.lost = faults.lost
        /\ faults'.stale \in {Kept(faults.stale), Forgotten(faults.stale)}
    BY <1>1, <1>2, <2>1 DEF Mishaps
  <2>3. ~Crash /\ ~Get /\ ~Set /\ ~Probe /\ ~WriteFails
    <3>1. Crash => faults'.crash = faults.crash + 1
      BY <1>1 DEF Crash
    <3>2. Drop \/ LoadSector => ~Dirty
      BY DEF Drop, LoadSector
    <3>3. NotConcerned \/ Drop => call.op \in Invalidations
      BY DEF NotConcerned, Drop, Concerned
    <3>4. LoadSector => Loading /\ ~Hit
      BY DEF LoadSector
    <3>5. Get \/ Set \/ Probe => Hit /\ call.op \notin Invalidations
      BY DEF Get, Set, Probe, Invalidations
    <3>6. WriteFails => Dirty /\ (call.op \in Invalidations => Concerned)
      BY DEF WriteFails, FlushDue, Loading, Invalidations
    <3>7. NotConcerned => ~Concerned
      BY DEF NotConcerned
    <3> QED
      BY <1>1, <1>7, <2>2, <3>1, <3>2, <3>3, <3>4, <3>5, <3>6, <3>7
  <2> QED
    BY <1>1, <1>2, <2>2, <2>3 DEF Trouble
<1>8. CASE UNCHANGED faults /\ ~(Get \/ Set \/ Probe) /\ ~WriteFails
  <2>1. ~Crash
    <3>1. Crash => faults'.crash = faults.crash + 1
      BY <1>1 DEF Crash
    <3> QED
      BY <1>1, <1>8, <3>1
  <2> QED
    BY <1>1, <1>8, <2>1 DEF Trouble
<1>9. \/ Crash \/ Get \/ Set \/ Probe \/ WriteFails \/ ReadFails \/ Drop
      \/ LoadSector \/ NotConcerned \/ UNCHANGED faults
  BY DEF Next, Caller, Kernel, GetCall, SetCall, AllocCall, FlushCall,
     SwitchCall, InvalidateCall, UmountCall, MountCall, WriteCopy, Wrap, Flushed,
     Switch, vars
<1> QED
  BY <1>3, <1>4, <1>5, <1>6, <1>7, <1>8, <1>9

\* MOUNT and UMOUNT keep the drive tables what they are.
LEMMA CommitType ==
  ASSUME TypeInv, call.op \in Invalidations, Commit
  PROVE  /\ drive_present' \subseteq Slots
         /\ drive_bpb_table' \in [Slots -> Vols]
<1>1. /\ call.slot \in Slots /\ (call.op = "mount" => call.to \in Vols)
      /\ drive_present \subseteq Slots /\ drive_bpb_table \in [Slots -> Vols]
  BY DEF TypeInv, RegsOK, MemType
<1> QED
  BY <1>1 DEF Commit, Invalidations, drives

\* The first half of an entry in a register.
LEMMA FirstCellType ==
  ASSUME TypeInv, FirstCell, fat_cache[Cell] \in Digits
  PROVE  call' \in Regs /\ call'.op = call.op /\ call'.c = call.c
BY DigitFacts DEF FirstCell, TypeInv, Regs, Entries

-----------------------------------------------------------------------------
\* What fat_set stores in a cell is a digit.
LEMMA DigitType ==
  ASSUME TypeInv
  PROVE  Digit \in Digits
<1>1. /\ call.v \in Digits \X Digits /\ call.h \in {0, 1}
      /\ call.v[1] \in Digits /\ call.v[2] \in Digits
  BY DEF Entries, TypeInv, Regs
<1>2. call.h + 1 \in {1, 2}
  BY <1>1
<1> QED
  BY <1>1, <1>2 DEF Digit

\* The types hold after booting.
LEMMA TypeInit == Init => TypeInv
<1> SUFFICES ASSUME Init PROVE TypeInv
  OBVIOUS
<1>1. MemType
  <2>1. disk \in [Vols -> [Copies -> [Cells -> Digits]]]
    BY DigitFacts DEF Init
  <2>2. fat_cache \in [Cells -> Digits]
    BY DigitFacts DEF Init, BootState
  <2>3. faults \in Mishaps
    BY FatConstants DEF Init, Mishaps
  <2> QED
    BY <2>1, <2>2, <2>3, FatConstants, ClusterFacts
       DEF Init, BootState, MemType
<1>2. call \in Regs /\ ret \in Results /\ RegsOK /\ call.op = "idle"
  BY IdleType, ResultType, ClusterFacts, DigitFacts
     DEF Init, BootState, RegsOK, Idle, NoResult, Results, Ops, Invalidations
<1> QED
  BY <1>1, <1>2 DEF TypeInv

\* Every step keeps them.
LEMMA TypeStep == TypeInv /\ [Next]_vars => TypeInv'
<1> SUFFICES ASSUME TypeInv, [Next]_vars PROVE TypeInv'
  OBVIOUS
<1> USE FatConstants DEF drives, active, cache
<1>0. faults' \in Mishaps
  BY FaultsStep DEF TypeInv
<1>1. CASE Caller
  <2>1. ASSUME NEW c \in Clusters, GetCall(c) PROVE TypeInv'
    <3>1. [Idle EXCEPT !.op = "get", !.c = c] \in Regs
      BY <2>1, IdleType, ClusterFacts, DigitFacts DEF Regs, Ops, Idle
    <3>2. Start([Idle EXCEPT !.op = "get", !.c = c])
      BY <2>1 DEF GetCall
    <3>3. MemType'
      BY <2>1 DEF GetCall, MemType, TypeInv
    <3>4. RegsOK'
      BY <2>1 DEF GetCall, RegsOK, Start, Idle, MemType, TypeInv, Invalidations, Valid
    <3> QED
      BY <3>1, <3>2, <3>3, <3>4, StartType
  <2>2. ASSUME NEW c \in Clusters, NEW v \in SetValues, SetCall(c, v)
        PROVE  TypeInv'
    <3>1. [Idle EXCEPT !.op = "set", !.c = c, !.v = v] \in Regs
      BY <2>2, IdleType, ClusterFacts, DigitFacts DEF Regs, Ops, Idle
    <3>2. Start([Idle EXCEPT !.op = "set", !.c = c, !.v = v])
      BY <2>2 DEF SetCall
    <3>3. MemType'
      BY <2>2 DEF SetCall, MemType, TypeInv
    <3>4. RegsOK'
      BY <2>2 DEF SetCall, RegsOK, Start, Idle, MemType, TypeInv, Invalidations, Valid
    <3> QED
      BY <3>1, <3>2, <3>3, <3>4, StartType
  <2>3. CASE AllocCall
    <3>1. [Idle EXCEPT !.op = "alloc", !.c = fat_next_free] \in Regs
      BY <2>3, IdleType, ClusterFacts, DigitFacts
         DEF TypeInv, MemType, Regs, Ops, Idle, AllocCall, Invalidations
    <3>2. Start([Idle EXCEPT !.op = "alloc", !.c = fat_next_free])
      BY <2>3 DEF AllocCall
    <3>3. MemType'
      BY <2>3 DEF AllocCall, MemType, TypeInv
    <3>4. RegsOK'
      BY <2>3 DEF AllocCall, RegsOK, Start, Idle, MemType, TypeInv, Invalidations
    <3> QED
      BY <3>1, <3>2, <3>3, <3>4, StartType
  <2>4. CASE FlushCall
    <3>1. [Idle EXCEPT !.op = "flush"] \in Regs
      BY <2>4, IdleType, ClusterFacts, DigitFacts DEF Regs, Ops, Idle
    <3>2. Start([Idle EXCEPT !.op = "flush"])
      BY <2>4 DEF FlushCall
    <3>3. MemType'
      BY <2>4 DEF FlushCall, MemType, TypeInv
    <3>4. RegsOK'
      BY <2>4 DEF FlushCall, RegsOK, Start, Idle, MemType, TypeInv, Invalidations
    <3> QED
      BY <3>1, <3>2, <3>3, <3>4, StartType
  <2>6. ASSUME NEW d \in Slots, InvalidateCall(d) PROVE TypeInv'
    <3>1. [Idle EXCEPT !.op = "invalidate", !.slot = d] \in Regs
      BY <2>6, IdleType, ClusterFacts, DigitFacts DEF Regs, Ops, Idle, InvalidateCall, Invalidations
    <3>2. Start([Idle EXCEPT !.op = "invalidate", !.slot = d])
      BY <2>6 DEF InvalidateCall
    <3>3. MemType'
      BY <2>6 DEF InvalidateCall, MemType, TypeInv
    <3>4. RegsOK'
      BY <2>6 DEF InvalidateCall, RegsOK, Start, Idle, MemType, TypeInv, Invalidations
    <3> QED
      BY <3>1, <3>2, <3>3, <3>4, StartType
  <2>7. ASSUME NEW d \in Slots, UmountCall(d) PROVE TypeInv'
    <3>1. [Idle EXCEPT !.op = "umount", !.slot = d] \in Regs
      BY <2>7, IdleType, ClusterFacts, DigitFacts DEF Regs, Ops, Idle, UmountCall, Invalidations
    <3>2. Start([Idle EXCEPT !.op = "umount", !.slot = d])
      BY <2>7 DEF UmountCall
    <3>3. MemType'
      BY <2>7 DEF UmountCall, MemType, TypeInv
    <3>4. RegsOK'
      BY <2>7 DEF UmountCall, RegsOK, Start, Idle, MemType, TypeInv, Invalidations
    <3> QED
      BY <3>1, <3>2, <3>3, <3>4, StartType
  <2>8. ASSUME NEW d \in Slots, NEW p \in Vols, MountCall(d, p)
        PROVE  TypeInv'
    <3>1. [Idle EXCEPT !.op = "mount", !.slot = d, !.to = p] \in Regs
      BY <2>8, IdleType, ClusterFacts, DigitFacts DEF Regs, Ops, Idle, MountCall, Invalidations
    <3>2. Start([Idle EXCEPT !.op = "mount", !.slot = d, !.to = p])
      BY <2>8 DEF MountCall
    <3>3. MemType'
      BY <2>8 DEF MountCall, MemType, TypeInv
    <3>4. RegsOK'
      BY <2>8 DEF MountCall, RegsOK, Start, Idle, MemType, TypeInv, Invalidations
    <3> QED
      BY <3>1, <3>2, <3>3, <3>4, StartType
  <2>5. ASSUME NEW d \in Slots, SwitchCall(d) PROVE TypeInv'
    <3>1. MemType'
      BY <2>5 DEF SwitchCall, MemType, TypeInv
    <3>2. CASE d \in drive_present /\ d # active_bpb_drive
      <4>1. [Idle EXCEPT !.op = "switch", !.slot = d] \in Regs
        BY IdleType DEF Regs, Ops, Idle
      <4>2. Start([Idle EXCEPT !.op = "switch", !.slot = d])
        BY <2>5, <3>2 DEF SwitchCall
      <4>3. RegsOK'
        BY <2>5, <3>2, <4>2 DEF SwitchCall, RegsOK, Start, Idle, Invalidations
      <4> QED
        BY <3>1, <4>1, <4>2, <4>3, StartType
    <3>3. CASE ~(d \in drive_present /\ d # active_bpb_drive)
      <4>1. Result("switch", d \in drive_present, 2, Free) \in Results
        <5>1. (d \in drive_present) \in BOOLEAN
          OBVIOUS
        <5> QED
          BY <5>1, ResultType, ClusterFacts, DigitFacts DEF Ops
      <4>2. Return(Result("switch", d \in drive_present, 2, Free))
        BY <2>5, <3>3 DEF SwitchCall, Return
      <4> QED
        BY <3>1, <4>1, <4>2, ReturnType
    <3> QED
      BY <3>2, <3>3
  <2> QED
    BY <1>1, <2>1, <2>2, <2>3, <2>4, <2>5, <2>6, <2>7, <2>8 DEF Caller
<1>2. CASE WriteCopy
  <2>1. bpb \in Vols
    BY <1>2, DirtyFacts DEF WriteCopy, FlushDue
  <2>2. disk' \in [Vols -> [Copies -> [Cells -> Digits]]]
    <3>1. call.copy \in Copies
      BY DEF TypeInv, Regs
    <3>2. disk[bpb][call.copy] \in [Cells -> Digits]
      BY <2>1, <3>1 DEF TypeInv, MemType
    <3>3. Written(disk[bpb][call.copy]) \in [Cells -> Digits]
      BY <3>2, WrittenType
    <3> QED
      BY <1>2, <2>1, <3>1, <3>3 DEF WriteCopy, TypeInv, MemType
  <2>3. MemType'
    BY <1>2, <2>2 DEF WriteCopy, TypeInv, MemType
  <2>4. call' \in Regs /\ call'.op = call.op /\ call'.c = call.c
        /\ call'.slot = call.slot /\ call'.to = call.to
    BY <1>2 DEF WriteCopy, TypeInv, Regs, Copies
  <2> QED
    BY <1>2, <2>3, <2>4 DEF WriteCopy, TypeInv, RegsOK
<1>3. CASE WriteFails
  <2> USE <1>3
  <2>1. faults' \in Mishaps
    BY <1>0
  <2>2. \A ok \in BOOLEAN : Result(call.op, ok, 2, Free) \in Results
    BY ResultType, ClusterFacts, DigitFacts DEF TypeInv, Regs
  <2>3. Result("switch", TRUE, 2, Free) \in Results
    BY ResultType, ClusterFacts, DigitFacts DEF Ops
  <2>4. CASE call.op = "switch"
    <3>1. /\ call.slot \in Slots
          /\ drive_bpb_table[call.slot] \in Vols \ {NoVol}
      BY <2>4 DEF TypeInv, MemType, RegsOK
    <3>2. Activate
      BY <2>4 DEF WriteFails, Invalidations
    <3>3. MemType'
      BY <2>1, <3>1, <3>2 DEF WriteFails, Activate, TypeInv, MemType
    <3> QED
      BY <2>3, <3>2, <3>3, ReturnType DEF Activate
  <2>5. CASE call.op \in Invalidations
    <3>1. Commit /\ Return(Result(call.op, TRUE, 2, Free))
          /\ active_bpb_drive' = NoSlot /\ UNCHANGED <<bpb, cache>>
          /\ UNCHANGED <<disk, fat_next_free>>
      BY <2>5 DEF WriteFails, Invalidations
    <3>2. /\ drive_present' \subseteq Slots
          /\ drive_bpb_table' \in [Slots -> Vols]
      BY <2>5, <3>1, CommitType
    <3>3. MemType'
      BY <2>1, <3>1, <3>2 DEF TypeInv, MemType
    <3> QED
      BY <2>2, <3>1, <3>3, ReturnType
  <2>6. CASE call.op \in {"get", "set", "alloc", "claim", "flush"}
    <3>1. Fail /\ UNCHANGED <<drives, active, cache, disk, fat_next_free>>
      BY <2>6 DEF WriteFails, Invalidations
    <3>2. MemType'
      BY <2>1, <3>1 DEF TypeInv, MemType
    <3> QED
      BY <2>2, <3>1, <3>2, ReturnType DEF Fail
  <2> QED
    BY <2>4, <2>5, <2>6 DEF WriteFails
<1>4. CASE LoadSector
  <2>1. bpb \in Vols /\ Want \in Sectors
    BY <1>4, WorkFacts DEF LoadSector
  <2>2. fat_cache' \in [Cells -> Digits]
    BY <1>4, <2>1, DigitFacts DEF LoadSector, TypeInv, MemType, Copies
  <2>3. MemType'
    BY <1>0, <1>4, <2>1, <2>2 DEF LoadSector, TypeInv, MemType
  <2> QED
    BY <1>4, <2>3 DEF LoadSector, TypeInv, RegsOK
<1>5. CASE ReadFails
  <2>1. MemType'
    BY <1>0, <1>5 DEF ReadFails, TypeInv, MemType
  <2>2. Result(call.op, FALSE, 2, Free) \in Results
    BY ResultType, ClusterFacts, DigitFacts DEF TypeInv, Regs
  <2> QED
    BY <1>5, <2>1, <2>2, ReturnType DEF ReadFails, Fail
<1>6. CASE Get
  <2>1. MemType'
    BY <1>0, <1>6 DEF Get, TypeInv, MemType
  <2>2. Cell \in Cells /\ fat_cache[Cell] \in Digits /\ call.c \in Clusters
    BY <1>6, WorkFacts DEF Get, Loading, TypeInv, MemType
  <2>3. CASE call.h = 0
    <3>1. call' \in Regs /\ call'.op = call.op /\ call'.c = call.c
          /\ UNCHANGED ret
      BY <1>6, <2>2, <2>3, FirstCellType DEF Get
    <3> QED
      BY <1>6, <2>1, <3>1 DEF Get, TypeInv, RegsOK, Invalidations
  <2>4. CASE call.h # 0
    <3>1. Entry \in Entries
      BY <2>2 DEF Entry, Entries, TypeInv, Regs
    <3>2. Result("get", TRUE, call.c, Entry) \in Results
      BY <2>2, <3>1, ResultType DEF Ops
    <3> QED
      BY <1>6, <2>1, <2>4, <3>2, ReturnType DEF Get
  <2> QED
    BY <2>3, <2>4
<1>7. CASE Set
  <2>1. Cell \in Cells /\ call.c \in Clusters /\ call.c <= MaxClust[bpb]
        /\ bpb # NoVol
    BY <1>7, WorkFacts DEF Set, Loading
  <2>2. Digit \in Digits /\ call.v \in Entries
    BY DigitType DEF TypeInv, Regs
  <2>3. Hint \in 2 .. LastCluster + 1
    BY <2>1, ClusterFacts DEF Hint, TypeInv, MemType, Clusters
  <2>4. fat_csec # NoSec
    BY <1>7, <2>1, CellFacts DEF Set, Hit, Want
  <2>5. MemType'
    BY <1>0, <1>7, <2>1, <2>2, <2>3, <2>4
       DEF Set, TypeInv, MemType
  <2>6. CASE call.h = 0
    <3>1. call' \in Regs /\ call'.op = call.op /\ call'.c = call.c
      BY <1>7, <2>6 DEF Set, TypeInv, Regs
    <3> QED
      BY <1>7, <2>5, <2>6, <3>1 DEF Set, TypeInv, RegsOK, Invalidations
  <2>7. CASE call.h # 0
    <3> DEFINE op == IF call.op = "claim" THEN "alloc" ELSE "set"
    <3>1. Result(op, TRUE, call.c, call.v) \in Results
      BY <2>1, <2>2, ResultType DEF Ops
    <3>2. Return(Result(op, TRUE, call.c, call.v))
      BY <1>7, <2>7 DEF Set
    <3> QED
      BY <2>5, <3>1, <3>2, ReturnType
  <2> QED
    BY <2>6, <2>7
<1>8. CASE Wrap
  <2>1. MemType'
    BY <1>8 DEF Wrap, TypeInv, MemType
  <2>2. CASE call.wrapped
    <3>1. [Result("alloc", FALSE, 2, Free) EXCEPT !.full = TRUE] \in Results
      BY ResultType, ClusterFacts, DigitFacts DEF Ops
    <3> QED
      BY <1>8, <2>1, <2>2, <3>1, ReturnType DEF Wrap
  <2>3. CASE ~call.wrapped
    <3>1. call' \in Regs /\ call'.op = "alloc" /\ UNCHANGED ret
      <4>1. /\ call' = [call EXCEPT !.wrapped = TRUE, !.c = 2]
            /\ call \in Regs /\ call.op = "alloc" /\ ret' = ret
        BY <1>8, <2>3 DEF Wrap, TypeInv
      <4>2. 2 \in 2 .. LastCluster + 1
        BY ClusterFacts
      <4> QED
        BY <4>1, <4>2 DEF Regs
    <3>2. RegsOK'
      BY <1>8, <3>1 DEF Wrap, TypeInv, RegsOK, Invalidations
    <3>3. ret \in Results /\ ret = NoResult
      BY <1>8 DEF Wrap, TypeInv
    <3> QED
      BY <2>1, <3>1, <3>2, <3>3 DEF TypeInv
  <2> QED
    BY <2>2, <2>3
<1>9. CASE Probe
  <2>1. MemType'
    BY <1>0, <1>9 DEF Probe, TypeInv, MemType
  <2>2. Cell \in Cells /\ fat_cache[Cell] \in Digits /\ call.c \in Clusters
        /\ call.c <= MaxClust[bpb] /\ bpb \in Vols
    BY <1>9, WorkFacts DEF Probe, Loading, TypeInv, MemType
  <2>3. call' \in Regs /\ call'.op \in {"alloc", "claim"}
        /\ (call'.op = "claim" => call'.c = call.c)
    <3>1. CASE call.h = 0
      BY <1>9, <2>2, <3>1, FirstCellType DEF Probe
    <3>2. CASE call.h # 0
      <4>1. call.c + 1 \in 2 .. LastCluster + 1
        BY <2>2 DEF Clusters
      <4>2. CASE Entry = Free
        <5>1. call' = [call EXCEPT !.op = "claim", !.h = 0, !.v = Eoc]
          BY <1>9, <3>2, <4>2 DEF Probe
        <5> QED
          BY <5>1, DigitFacts DEF TypeInv, Regs, Ops
      <4>3. CASE Entry # Free
        <5>1. call' = [call EXCEPT !.c = @ + 1, !.h = 0, !.v = Free]
          BY <1>9, <3>2, <4>3 DEF Probe
        <5>2. call.op = "alloc" /\ call \in Regs
          BY <1>9 DEF Probe, TypeInv
        <5>3. call' \in Regs /\ call'.op = "alloc"
          BY <5>1, <5>2, <4>1, DigitFacts DEF Regs
        <5> QED
          BY <5>3
      <4> QED
        BY <4>2, <4>3
    <3> QED
      BY <3>1, <3>2
  <2>4. RegsOK'
    <3>1. bpb' = bpb /\ bpb # NoVol /\ MaxClust[bpb] \in Nat
      BY <1>9, <2>2, ClusterFacts DEF Probe
    <3>2. call.c \in 2 .. MaxClust[bpb]
      BY <2>2, <3>1 DEF Clusters
    <3> QED
      BY <2>3, <3>1, <3>2 DEF RegsOK, Invalidations
  <2> QED
    BY <1>9, <2>1, <2>3, <2>4 DEF Probe, TypeInv
<1>10. CASE Flushed
  <2>1. Result("flush", TRUE, 2, Free) \in Results
    BY ResultType, ClusterFacts, DigitFacts DEF Ops
  <2>2. MemType'
    BY <1>10 DEF Flushed, TypeInv, MemType
  <2> QED
    BY <1>10, <2>1, <2>2, ReturnType DEF Flushed
<1>11. CASE Switch
  <2>1. Result("switch", TRUE, 2, Free) \in Results
    BY ResultType, ClusterFacts, DigitFacts DEF Ops
  <2>2. /\ call.slot \in Slots
        /\ drive_bpb_table[call.slot] \in Vols \ {NoVol}
    BY <1>11 DEF Switch, TypeInv, MemType, RegsOK
  <2>3. MemType'
    BY <1>11, <2>2 DEF Switch, Activate, TypeInv, MemType
  <2> QED
    BY <1>11, <2>1, <2>3, ReturnType DEF Switch, Activate
<1>12. CASE Drop \/ NotConcerned
  <2>1. Result(call.op, TRUE, 2, Free) \in Results
    BY ResultType, ClusterFacts, DigitFacts DEF TypeInv, Regs
  <2>2. /\ Commit /\ call.op \in Invalidations
        /\ Return(Result(call.op, TRUE, 2, Free))
    BY <1>12 DEF Drop, NotConcerned, Concerned
  <2>3. /\ drive_present' \subseteq Slots
        /\ drive_bpb_table' \in [Slots -> Vols]
    BY <2>2, CommitType
  <2>4. CASE Drop
    <3>1. fat_dirty' = FALSE
      BY <2>4 DEF Drop, Dirty, TypeInv, MemType
    <3> QED
      BY <1>0, <2>1, <2>2, <2>3, <2>4, <3>1, ReturnType
         DEF Drop, TypeInv, MemType
  <2>5. CASE NotConcerned
    <3>1. MemType'
      BY <1>0, <2>3, <2>5 DEF NotConcerned, TypeInv, MemType
    <3> QED
      BY <2>1, <2>2, <3>1, ReturnType
  <2> QED
    BY <1>12, <2>4, <2>5
<1>13. CASE Crash
  <2>1. fat_cache' \in [Cells -> Digits]
    BY <1>13, DigitFacts DEF Crash
  <2>2. faults' \in Mishaps
    BY <1>0
  <2>3. MemType'
    BY <1>13, <2>1, <2>2, ClusterFacts DEF Crash, TypeInv, MemType
  <2>4. Return(NoResult) /\ NoResult \in Results
    BY <1>13, ResultType, ClusterFacts, DigitFacts
       DEF Crash, Return, NoResult, Results, Ops
  <2> QED
    BY <2>3, <2>4, ReturnType
<1>14. CASE UNCHANGED vars
  BY <1>14 DEF TypeInv, MemType, RegsOK, vars
<1> QED
  BY <1>1, <1>2, <1>3, <1>4, <1>5, <1>6, <1>7, <1>8, <1>9, <1>10, <1>11,
     <1>12, <1>13, <1>14 DEF Next, Kernel

\* Every variable keeps its type, and every call in progress has arguments
\* it can work on: no flush, load or store ever uses an unset BPB or a
\* cluster number past the volume's end.
THEOREM TypeCorrect == Spec => [](TypeOK /\ CallOK)
<1>1. TypeInv => TypeOK /\ CallOK
  BY TypeParts
<1> QED
  BY <1>1, TypeInit, TypeStep, PTL DEF Spec

-----------------------------------------------------------------------------
(* What FatCache computes is right, for every value of its constants and   *)
(* however many transfers fail, until there is Trouble: a switch counts a  *)
(* sector as clean that could not be written (the run FatCache_lossy), or  *)
(* a sector that a remount has kept is used (FatCache_remount).  Reads see *)
(* writes, "disk full" is true, and the FAT layer implements the ordered   *)
(* store of FatStore.  The copies of the FAT agree whatever MOUNT does.    *)
(*                                                                         *)
(* Everything follows from how a step changes Vol, the FATs as the kernel  *)
(* shows them: Set puts one cell, every other step but Crash leaves Vol    *)
(* alone.                                                                  *)

\* Of a step: there is no trouble after it.
Benign == ~Trouble'

\* Then there was none before it, no switch ignores a failed flush, and what
\* is found in the cache was not kept over a remount.
LEMMA BenignStep ==
  ASSUME TypeInv, [Next]_vars, Benign
  PROVE  /\ ~Trouble
         /\ Get \/ Set \/ Probe => faults.stale = "no" /\ faults'.stale = "no"
         /\ WriteFails => call.op # "switch"
         /\ WriteFails /\ call.op \notin Invalidations => faults'.stale = faults.stale
BY FaultsStep DEF TypeInv, Benign

Answers == AnswersTrue /\ FullTrue

Safe == TypeInv /\ Coherent /\ CallProgress /\ Answers

\* The FATs, on the disk and as the kernel shows them, are FATs.
LEMMA DiskType ==
  ASSUME TypeInv, NEW p \in Vols
  PROVE  /\ disk[p][0] \in [Cells -> Digits]
         /\ Vol(p) \in [Cells -> Digits]
         /\ 0 \in Copies
<1>1. 0 \in Copies /\ disk[p][0] \in [Cells -> Digits]
  BY FatConstants DEF TypeInv, MemType, Copies
<1> QED
  BY <1>1, WrittenType DEF Vol

\* A sector found in the cache shows what the volume's FAT holds.
LEMMA HitVol ==
  ASSUME TypeInv, Coherent, Loading, Hit, faults.stale = "no"
  PROVE  /\ bpb \in Vols /\ Cell \in Cells /\ SecOf(Cell) = fat_csec
         /\ fat_csec # NoSec
         /\ \A x \in Cells : SecOf(x) = fat_csec => Vol(bpb)[x] = fat_cache[x]
<1>1. /\ bpb \in Vols /\ Cell \in Cells /\ SecOf(Cell) = fat_csec
      /\ fat_csec # NoSec
  BY WorkFacts, FatConstants DEF Hit, Want
<1>2. CASE Dirty
  BY <1>1, <1>2 DEF Vol, Written
<1>3. CASE ~Dirty
  <2>1. ~fat_dirty
    BY <1>1, <1>3 DEF Dirty
  <2>2. CachedIsOnDisk(bpb)
    BY <1>1, <2>1, FatConstants DEF Hit, Coherent, TypeInv, MemType
  <2> QED
    BY <1>1, <1>3, <2>2 DEF Vol, CachedIsOnDisk
<1> QED
  BY <1>1, <1>2, <1>3

-----------------------------------------------------------------------------
(* How the steps change Vol.                                               *)

\* A change of clean cache state, or of nothing Vol reads, leaves Vol alone.
LEMMA SameVol ==
  ASSUME UNCHANGED disk,
         \/ ~Dirty /\ ~Dirty'
         \/ UNCHANGED <<bpb, fat_csec, fat_cache, fat_dirty>>
  PROVE  \A p \in Vols : Vol(p)' = Vol(p)
BY DEF Vol, Dirty, Written, SecOf

\* Writing a FAT copy leaves Vol alone; the first copy brings the disk to it.
LEMMA WriteCopyVol ==
  ASSUME TypeInv, CallProgress, WriteCopy
  PROVE  /\ \A p \in Vols : Vol(p)' = Vol(p)
         /\ \A p \in Vols \ {bpb} : disk'[p][0] = disk[p][0]
         /\ CachedIsOnDisk(bpb)'
         /\ bpb \in Vols /\ Dirty /\ UNCHANGED bpb
         /\ disk'[bpb][0] = IF call.copy = 0 THEN Vol(bpb) ELSE disk[bpb][0]
<1> DEFINE D == disk[bpb][0]
<1>1. bpb \in Vols /\ Dirty /\ call.copy \in Copies /\ UNCHANGED bpb
      /\ UNCHANGED <<fat_csec, fat_cache>>
  BY DirtyFacts DEF WriteCopy, FlushDue, TypeInv, Regs, active
<1>2. D \in [Cells -> Digits] /\ Vol(bpb) = Written(D) /\ 0 \in Copies
  BY <1>1, DiskType DEF Vol
<1>3. disk' = [disk EXCEPT ![bpb][call.copy] = Written(@)]
      /\ disk \in [Vols -> [Copies -> [Cells -> Digits]]]
  BY DEF WriteCopy, TypeInv, MemType
<1>4. \A p \in Vols \ {bpb} : disk'[p] = disk[p]
  BY <1>1, <1>3
<1>5. \A p \in Vols \ {bpb} : Vol(p)' = Vol(p)
  BY <1>1, <1>4 DEF Vol
<1>6. \A f : Written(f)' = Written(f)
  BY <1>1 DEF Written, SecOf
<1>7. CASE call.copy = 0
  <2>1. disk'[bpb][0] = Written(D)
    BY <1>1, <1>2, <1>3, <1>7
  <2>2. Written(Written(D)) = Written(D)
    BY DEF Written
  <2>3. Vol(bpb)' = Vol(bpb)
    BY <1>1, <1>2, <2>1, <2>2 DEF Vol, Written, SecOf
  <2>4. CachedIsOnDisk(bpb)'
    BY <1>1, <2>1 DEF CachedIsOnDisk, Written, SecOf
  <2> QED
    BY <1>1, <1>2, <1>4, <1>5, <1>7, <2>1, <2>3, <2>4
<1>8. CASE call.copy # 0
  <2>1. disk'[bpb][0] = D
    BY <1>1, <1>2, <1>3, <1>8
  <2>2. CachedIsOnDisk(bpb)
    BY <1>1, <1>8 DEF CallProgress, Copies
  <2>3. Written(D) = D
    BY <1>2, <2>2 DEF CachedIsOnDisk, Written
  <2>4. Vol(bpb)' = Vol(bpb)
    BY <1>1, <1>2, <2>1, <2>3 DEF Vol, Written, SecOf
  <2>5. CachedIsOnDisk(bpb)'
    BY <1>1, <2>1, <2>2 DEF CachedIsOnDisk, SecOf
  <2> QED
    BY <1>1, <1>2, <1>4, <1>5, <1>8, <2>1, <2>4, <2>5
<1> QED
  BY <1>7, <1>8

\* fat_set changes one cell of the active volume's FAT.
LEMMA SetVol ==
  ASSUME TypeInv, Coherent, Set, faults.stale = "no"
  PROVE  /\ bpb \in Vols /\ Cell \in Cells /\ Digit \in Digits
         /\ UNCHANGED <<disk, bpb>>
         /\ Vol(bpb)' = [Vol(bpb) EXCEPT ![Cell] = Digit]
         /\ \A p \in Vols \ {bpb} : Vol(p)' = Vol(p)
<1>1. Loading /\ Hit
  BY DEF Set, Loading
<1>2. UNCHANGED <<disk, bpb, fat_csec>> /\ fat_dirty' = TRUE
      /\ fat_cache' = [fat_cache EXCEPT ![Cell] = Digit]
  BY DEF Set, active
<1>3. Digit \in Digits
  BY DigitType
<1>4. bpb \in Vols /\ Vol(bpb) \in [Cells -> Digits]
      /\ fat_cache \in [Cells -> Digits] /\ Dirty'
  BY <1>1, <1>2, HitVol, DiskType DEF Dirty, TypeInv, MemType
<1>5. Vol(bpb)' = [x \in Cells |-> IF SecOf(x) = fat_csec THEN fat_cache'[x]
                                                       ELSE disk[bpb][0][x]]
  BY <1>2, <1>4 DEF Vol, Written, SecOf
<1>6. \A x \in Cells : Vol(bpb)'[x] = IF x = Cell THEN Digit ELSE Vol(bpb)[x]
  <2> SUFFICES ASSUME NEW x \in Cells
               PROVE  Vol(bpb)'[x] = IF x = Cell THEN Digit ELSE Vol(bpb)[x]
    OBVIOUS
  <2>1. CASE SecOf(x) = fat_csec
    BY <1>1, <1>2, <1>4, <1>5, <2>1, HitVol
  <2>2. CASE SecOf(x) # fat_csec
    <3>1. Vol(bpb)[x] = disk[bpb][0][x] /\ x # Cell
      BY <1>1, <2>2, HitVol DEF Vol, Written
    <3> QED
      BY <1>5, <2>2, <3>1
  <2> QED
    BY <2>1, <2>2
<1>7. Vol(bpb)' = [Vol(bpb) EXCEPT ![Cell] = Digit]
  BY <1>4, <1>5, <1>6
<1>8. \A p \in Vols \ {bpb} : Vol(p)' = Vol(p)
  BY <1>2 DEF Vol
<1> QED
  BY <1>1, <1>2, <1>3, <1>4, <1>7, <1>8, HitVol

\* No step but WriteCopy, Set and Crash changes the disks or Vol.
LEMMA QuietVol ==
  ASSUME TypeInv, Benign, [Next]_vars,
         \/ Caller \/ WriteFails \/ LoadSector \/ ReadFails \/ Get \/ Wrap
         \/ Probe \/ Flushed \/ Switch \/ Drop \/ NotConcerned \/ UNCHANGED vars
  PROVE  /\ UNCHANGED disk /\ \A p \in Vols : Vol(p)' = Vol(p)
<1>1. WriteFails => UNCHANGED <<disk, bpb, fat_csec, fat_cache, fat_dirty>>
  BY BenignStep DEF WriteFails, cache, active
<1>2. UNCHANGED disk
  BY <1>1 DEF Caller, GetCall, SetCall, AllocCall, FlushCall, SwitchCall,
     InvalidateCall, UmountCall, MountCall, LoadSector, ReadFails, Get, Wrap,
     Probe, Flushed, Switch, Drop, NotConcerned, vars
<1>3. CASE Caller \/ WriteFails \/ ReadFails \/ Get \/ Wrap \/ Probe \/ Flushed
           \/ NotConcerned \/ UNCHANGED vars
  <2>1. UNCHANGED <<bpb, fat_csec, fat_cache, fat_dirty>>
    BY <1>1, <1>3 DEF Caller, GetCall, SetCall, AllocCall, FlushCall, SwitchCall,
       InvalidateCall, UmountCall, MountCall, ReadFails, Get, Wrap, Probe,
       Flushed, NotConcerned, vars, active, cache
  <2> QED
    BY <1>2, <2>1, SameVol
<1>4. CASE LoadSector \/ Switch \/ Drop
  <2>1. ~Dirty /\ ~Dirty'
    BY <1>4 DEF LoadSector, Switch, Activate, Drop, Dirty
  <2> QED
    BY <1>2, <2>1, SameVol
<1> QED
  BY <1>2, <1>3, <1>4

-----------------------------------------------------------------------------
(* The cache stays coherent.                                               *)

\* Every step keeps the cache coherent.
LEMMA CoherentStep ==
  ASSUME Benign, TypeInv, Coherent, CallProgress, [Next]_vars
  PROVE  Coherent'
<1> USE DEF active, cache, drives
<1>0. /\ ~Trouble
      /\ Get \/ Set \/ Probe => faults.stale = "no" /\ faults'.stale = "no"
      /\ WriteFails => call.op # "switch"
      /\ WriteFails /\ call.op \notin Invalidations => faults'.stale = faults.stale
  BY BenignStep
<1>1. CASE \/ Caller \/ ReadFails \/ Get \/ Wrap \/ Probe \/ Flushed
           \/ UNCHANGED vars
  <2>1. UNCHANGED <<disk, drives, active, cache>>
    BY <1>1 DEF Caller, GetCall, SetCall, AllocCall, FlushCall, SwitchCall,
       InvalidateCall, UmountCall, MountCall, ReadFails, Get, Wrap, Probe,
       Flushed, vars
  <2>2. faults'.stale = faults.stale
    <3>1. CASE ReadFails
      BY <3>1 DEF ReadFails, TypeInv, MemType, Mishaps
    <3>2. CASE Get \/ Probe
      BY <1>0, <3>2
    <3>3. CASE Caller \/ Wrap \/ Flushed \/ UNCHANGED vars
      BY <3>3 DEF Caller, GetCall, SetCall, AllocCall, FlushCall, SwitchCall,
         InvalidateCall, UmountCall, MountCall, Wrap, Flushed, vars
    <3> QED
      BY <1>1, <3>1, <3>2, <3>3
  <2> QED
    BY <2>1, <2>2 DEF Coherent, CachedIsOnDisk, SecOf
<1>2. CASE WriteCopy
  <2>1. /\ CachedIsOnDisk(bpb)' /\ fat_dirty /\ fat_csec # NoSec
        /\ UNCHANGED <<drives, active, fat_csec, fat_cache, fat_cache_drive, faults>>
        /\ fat_dirty' \in {fat_dirty, FALSE}
    BY <1>2, WriteCopyVol DEF WriteCopy, FlushDue, Dirty
  <2>2. faults.stale = "no" /\ fat_cache_drive # NoSlot =>
          drive_bpb_table[fat_cache_drive] = bpb
    BY <2>1 DEF Coherent
  <2> QED
    BY <2>1, <2>2 DEF Coherent, CachedIsOnDisk, SecOf
<1>3. CASE LoadSector
  <2>1. CachedIsOnDisk(bpb)'
    BY <1>3 DEF LoadSector, CachedIsOnDisk, SecOf
  <2>2. /\ UNCHANGED <<drives, active>> /\ fat_dirty' = FALSE
        /\ fat_cache_drive' = active_bpb_drive
    BY <1>3 DEF LoadSector
  <2> QED
    BY <2>1, <2>2 DEF Coherent, CachedIsOnDisk, SecOf
<1>4. CASE Set
  <2>1. /\ fat_cache_drive = active_bpb_drive /\ fat_dirty' = TRUE
        /\ UNCHANGED <<drives, active, fat_cache_drive, fat_csec>>
    BY <1>4 DEF Set, Hit
  <2> QED
    BY <2>1 DEF Coherent
<1>5. CASE Switch
  <2>1. /\ call.slot \in drive_present /\ call.slot # NoSlot
        /\ ~fat_dirty /\ fat_dirty' = FALSE
    BY <1>5, FatConstants
       DEF Switch, Activate, Dirty, TypeInv, RegsOK, MemType
  <2>2. /\ bpb' = drive_bpb_table[call.slot] /\ active_bpb_drive' = call.slot
        /\ UNCHANGED <<disk, drives, fat_csec, fat_cache, fat_cache_drive, faults>>
    BY <1>5 DEF Switch, Activate
  <2> QED
    BY <2>1, <2>2 DEF Coherent, CachedIsOnDisk, SecOf
<1>6. CASE Drop
  BY <1>6 DEF Drop, Dirty, Coherent, TypeInv, MemType
\* MOUNT commits, and the sector stays: the history says so.
<1>7. ASSUME Commit, UNCHANGED <<disk, cache, bpb>>, call.op \in Invalidations,
             faults'.stale = Kept(faults.stale),
             active_bpb_drive' \in {active_bpb_drive, NoSlot},
             active_bpb_drive' # NoSlot => active_bpb_drive # call.slot,
             active_bpb_drive = NoSlot => fat_dirty,
             active_bpb_drive' = NoSlot => fat_dirty
      PROVE  Coherent'
  <2>1. /\ call.slot \in Slots /\ fat_cache_drive \in Slots \cup {NoSlot}
        /\ active_bpb_drive \in Slots \cup {NoSlot} /\ NoSlot \notin Slots
        /\ faults.stale \in {"no", "kept", "used"} /\ fat_dirty \in BOOLEAN
        /\ fat_dirty => fat_csec # NoSec
        /\ drive_bpb_table \in [Slots -> Vols] /\ drive_present \subseteq Slots
    BY <1>7, FatConstants DEF TypeInv, RegsOK, MemType, Mishaps
  <2>2. \A d \in Slots \ {call.slot} :
           /\ d \in drive_present => d \in drive_present'
           /\ drive_bpb_table'[d] = drive_bpb_table[d]
    BY <1>7, <2>1 DEF Commit, Invalidations
  <2>3. fat_csec # NoSec /\ faults'.stale = "no" /\ fat_cache_drive \in Slots =>
          /\ drive_bpb_table'[fat_cache_drive] = drive_bpb_table[fat_cache_drive]
          /\ faults.stale = "no"
    BY <1>7, <2>1, <2>2 DEF Kept, Commit, Invalidations
  <2>4. active_bpb_drive' # NoSlot =>
          /\ active_bpb_drive' \in drive_present'
          /\ bpb' = drive_bpb_table'[active_bpb_drive']
    BY <1>7, <2>1, <2>2 DEF Coherent
  <2>5. fat_dirty' => active_bpb_drive' \in {fat_cache_drive', NoSlot}
    BY <1>7 DEF Coherent
  <2>6. ASSUME fat_csec' # NoSec, faults'.stale = "no", fat_cache_drive' # NoSlot
        PROVE  IF fat_dirty' THEN bpb' = drive_bpb_table'[fat_cache_drive']
               ELSE CachedIsOnDisk(drive_bpb_table[fat_cache_drive])'
    BY <1>7, <2>1, <2>3, <2>6 DEF Coherent, CachedIsOnDisk, SecOf
  <2> QED
    BY <1>7, <2>1, <2>4, <2>5, <2>6 DEF Coherent
<1>8. CASE NotConcerned
  <2>1. faults'.stale = Kept(faults.stale)
    BY <1>8 DEF NotConcerned, TypeInv, MemType, Mishaps
  <2> QED
    BY <1>7, <1>8, <2>1 DEF NotConcerned, Concerned
<1>9. CASE WriteFails
  <2>1. CASE call.op \in Invalidations
    <3>1. /\ Commit /\ UNCHANGED <<disk, cache, bpb>> /\ active_bpb_drive' = NoSlot
          /\ fat_dirty
          /\ faults' = [faults EXCEPT !.write = @ + 1, !.stale = Kept(@)]
      BY <1>9, <2>1 DEF WriteFails, Invalidations, FlushDue, Dirty
    <3>2. faults'.stale = Kept(faults.stale)
      BY <3>1 DEF TypeInv, MemType, Mishaps
    <3> QED
      BY <1>7, <2>1, <3>1, <3>2
  <2>2. CASE call.op \notin Invalidations
    <3>1. UNCHANGED <<disk, drives, active, cache>> /\ faults'.stale = faults.stale
      BY <1>0, <1>9, <2>2 DEF WriteFails
    <3> QED
      BY <3>1 DEF Coherent, CachedIsOnDisk, SecOf
  <2> QED
    BY <2>1, <2>2
<1>10. CASE Crash
  BY <1>10 DEF Crash, Coherent
<1> QED
  BY <1>1, <1>2, <1>3, <1>4, <1>5, <1>6, <1>8, <1>9, <1>10 DEF Next, Kernel

-----------------------------------------------------------------------------
(* The steps a call has behind it stay what they were.                     *)

\* Only a flush that is due has written some of the copies.
LEMMA NoCopyYet ==
  ASSUME TypeInv, CallProgress, ~FlushDue
  PROVE  call.copy = 0
BY DEF TypeInv, Regs, Copies, CallProgress

\* Every step keeps what a call has behind it.
LEMMA ProgressStep ==
  ASSUME Benign, TypeInv, Coherent, CallProgress, [Next]_vars
  PROVE  CallProgress'
<1> USE DEF active, cache, drives
<1>0. Get \/ Set \/ Probe => faults.stale = "no"
  BY BenignStep
\* A call that has just begun, or is over, has nothing behind it.
<1>1. ASSUME call'.copy = 0, call'.h = 0, call'.op = "alloc" => ~call'.wrapped
      PROVE  CallProgress'
  BY <1>1 DEF CallProgress
<1>2. ASSUME call' = Idle PROVE CallProgress'
  BY <1>1, <1>2 DEF Idle
<1>3. CASE \/ ReadFails \/ WriteFails \/ Flushed \/ Switch \/ Drop
           \/ NotConcerned \/ Crash
  BY <1>2, <1>3 DEF ReadFails, WriteFails, Fail, Flushed, Switch, Activate, Drop,
     NotConcerned, Crash, Return
<1>4. CASE Caller
  <2>1. ASSUME NEW d \in Slots, NEW p \in Vols, MountCall(d, p)
        PROVE  CallProgress'
    BY <1>1, <2>1 DEF MountCall, Start, Idle
  <2>2. ASSUME NEW c \in Clusters, \/ GetCall(c)
                                  \/ \E v \in SetValues : SetCall(c, v)
        PROVE  CallProgress'
    BY <1>1, <2>2 DEF GetCall, SetCall, Start, Idle
  <2>3. CASE AllocCall \/ FlushCall
    BY <1>1, <2>3 DEF AllocCall, FlushCall, Start, Idle
  <2>4. ASSUME NEW d \in Slots, InvalidateCall(d) \/ UmountCall(d)
        PROVE  CallProgress'
    BY <1>1, <2>4 DEF InvalidateCall, UmountCall, Start, Idle
  <2>5. ASSUME NEW d \in Slots, SwitchCall(d) PROVE CallProgress'
    <3>1. CASE d \in drive_present /\ d # active_bpb_drive
      BY <1>1, <2>5, <3>1 DEF SwitchCall, Start, Idle
    <3>2. CASE ~(d \in drive_present /\ d # active_bpb_drive)
      BY <1>2, <2>5, <3>2 DEF SwitchCall
    <3> QED
      BY <3>1, <3>2
  <2> QED
    BY <1>4, <2>1, <2>2, <2>3, <2>4, <2>5 DEF Caller
<1>5. CASE WriteCopy
  <2>1. /\ UNCHANGED <<call.op, call.c, call.h, call.v, call.wrapped,
                           call.slot, call.to>>
        /\ UNCHANGED <<drives, active, fat_csec, fat_cache, fat_cache_drive>>
        /\ call'.copy > 0 => fat_dirty' = fat_dirty
        /\ FlushDue
    BY <1>5 DEF WriteCopy, TypeInv, Regs
  <2>2. call'.copy > 0 => FlushDue'
    BY <2>1 DEF FlushDue, Dirty, Concerned, Loading, PastEnd, Hit, Want, Cell,
       SecOf
  <2>3. bpb \in Vols /\ Vol(bpb)' = Vol(bpb) /\ CachedIsOnDisk(bpb)'
    BY <1>5, WriteCopyVol
  <2> QED
    BY <2>1, <2>2, <2>3 DEF CallProgress, EntryOf
<1>6. CASE LoadSector \/ UNCHANGED vars
  <2>1. UNCHANGED <<call, drives, active>>
    BY <1>6 DEF LoadSector, vars
  <2>2. CASE LoadSector
    <3>1. bpb \in Vols /\ Vol(bpb)' = Vol(bpb) /\ call.copy = 0
      BY <2>2, WorkFacts, QuietVol, NoCopyYet
         DEF LoadSector, FlushDue, Loading
    <3> QED
      BY <2>1, <2>2, <3>1 DEF CallProgress, EntryOf
  <2>3. CASE UNCHANGED vars
    BY <2>3 DEF CallProgress, EntryOf, Vol, Dirty, Written, SecOf, vars,
       FlushDue, Concerned, Loading, PastEnd, Hit, Want, Cell, CachedIsOnDisk
  <2> QED
    BY <1>6, <2>2, <2>3
<1>7. CASE Get \/ Probe
  <2>1. /\ Loading /\ Hit /\ ~FlushDue /\ call.op \in {"get", "alloc"}
    BY <1>7 DEF Get, Probe, Loading, FlushDue, Concerned, Invalidations
  <2>2. /\ call.copy = 0 /\ bpb \in Vols /\ Vol(bpb)' = Vol(bpb)
        /\ UNCHANGED <<drives, active, cache>>
        /\ call.c \in Clusters /\ call.c <= MaxClust[bpb]
        /\ fat_cache[Cell] = Vol(bpb)[Cell]
    BY <1>0, <1>7, <2>1, NoCopyYet, QuietVol, WorkFacts, HitVol DEF Get, Probe
  <2>3. CASE call.h = 0
    <3>1. call' = [call EXCEPT !.h = 1, !.v = <<fat_cache[Cell], 0>>]
      BY <1>7, <2>3 DEF Get, Probe, FirstCell
    <3>2. /\ call'.copy = 0 /\ call'.h = 1 /\ call'.op = call.op
          /\ call'.c = call.c /\ call'.wrapped = call.wrapped
          /\ call'.v[1] = Vol(bpb)[<<call.c, 0>>]
      BY <2>2, <2>3, <3>1 DEF TypeInv, Regs, Cell
    <3> QED
      BY <2>1, <2>2, <3>2 DEF CallProgress, EntryOf
  <2>4. CASE call.h # 0 /\ Get
    BY <1>2, <2>4 DEF Get, Return
  <2>5. CASE call.h # 0 /\ Probe /\ Entry = Free
    <3>1. call' = [call EXCEPT !.op = "claim", !.h = 0, !.v = Eoc]
      BY <2>5 DEF Probe
    <3> QED
      BY <1>1, <2>2, <3>1 DEF TypeInv, Regs
  <2>6. CASE call.h # 0 /\ Probe /\ Entry # Free
    <3>1. call' = [call EXCEPT !.c = @ + 1, !.h = 0, !.v = Free]
      BY <2>6 DEF Probe
    <3>2. /\ call'.copy = 0 /\ call'.h = 0 /\ call'.op = "alloc"
          /\ call'.c = call.c + 1 /\ call'.wrapped = call.wrapped
          /\ call.op = "alloc" /\ call.h = 1
      BY <2>2, <2>6, <3>1 DEF Probe, TypeInv, Regs
    <3>3. EntryOf(bpb, call.c) # Free
      BY <2>2, <2>6, <3>2 DEF EntryOf, Entry, Cell, CallProgress
    <3>4. ASSUME call.wrapped, NEW c \in 2 .. MaxClust[bpb], c < call.c + 1
          PROVE  EntryOf(bpb, c) # Free
      <4>1. call.c \in Nat /\ MaxClust[bpb] \in Nat
        BY <2>2, ClusterFacts
      <4>2. c < call.c \/ c = call.c
        BY <3>4, <4>1
      <4> QED
        BY <3>2, <3>3, <3>4, <4>2 DEF CallProgress
    <3> QED
      BY <2>2, <3>2, <3>4 DEF CallProgress, EntryOf
  <2> QED
    BY <1>7, <2>3, <2>4, <2>5, <2>6
<1>8. CASE Set
  <2>1. /\ Loading /\ Hit /\ ~FlushDue /\ call.op \in {"set", "claim"}
    BY <1>8 DEF Set, Loading, FlushDue, Concerned, Invalidations
  <2>2. call.copy = 0 /\ call.c <= MaxClust[bpb]
    BY <2>1, NoCopyYet, WorkFacts
  <2>3. CASE call.h = 0
    <3>1. call' = [call EXCEPT !.h = 1]
      BY <1>8, <2>3 DEF Set
    <3>2. /\ call'.copy = 0 /\ call'.h = 1 /\ call'.op = call.op
          /\ call'.c = call.c /\ call'.v = call.v
      BY <2>2, <3>1 DEF TypeInv, Regs
    <3>3. Cell = <<call.c, 0>> /\ Digit = call.v[1]
      BY <2>3 DEF Cell, Digit
    <3>4. Vol(bpb)'[<<call.c, 0>>] = call.v[1] /\ bpb' = bpb
      BY <1>0, <1>8, <3>3, SetVol, DiskType
    <3> QED
      BY <2>1, <2>2, <3>2, <3>4 DEF CallProgress
  <2>4. CASE call.h # 0
    BY <1>2, <1>8, <2>4 DEF Set, Return
  <2> QED
    BY <2>3, <2>4
<1>9. CASE Wrap
  <2>1. ~FlushDue /\ call.op = "alloc" /\ call.c > MaxClust[bpb]
    BY <1>9 DEF Wrap, PastEnd, FlushDue, Loading, Concerned, Invalidations
  <2>2. call.copy = 0 /\ call.h = 0
    <3>1. bpb \in Vols /\ MaxClust[bpb] \in Nat /\ call.c \in Nat
          /\ call.h \in {0, 1}
      <4>1. bpb \in Vols /\ call.c \in 2 .. LastCluster + 1 /\ call.h \in {0, 1}
        BY <2>1 DEF TypeInv, MemType, RegsOK, Regs
      <4>2. MaxClust[bpb] \in Nat /\ LastCluster \in Nat
        BY <4>1, ClusterFacts, FatConstants
      <4> QED
        BY <4>1, <4>2
    <3> QED
      BY <2>1, <3>1, NoCopyYet DEF CallProgress
  <2>3. CASE call.wrapped
    BY <1>2, <1>9, <2>3 DEF Wrap, Return
  <2>4. CASE ~call.wrapped
    <3>1. call' = [call EXCEPT !.wrapped = TRUE, !.c = 2]
      BY <1>9, <2>4 DEF Wrap
    <3>2. /\ call'.copy = 0 /\ call'.h = 0 /\ call'.op = "alloc" /\ call'.c = 2
          /\ bpb' = bpb /\ bpb \in Vols /\ MaxClust[bpb] \in Nat
      BY <1>9, <2>1, <2>2, <3>1, ClusterFacts
         DEF Wrap, TypeInv, Regs, MemType, RegsOK
    <3> QED
      BY <3>2 DEF CallProgress
  <2> QED
    BY <2>3, <2>4
<1> QED
  BY <1>3, <1>4, <1>5, <1>6, <1>7, <1>8, <1>9, QuietVol DEF Next, Kernel

-----------------------------------------------------------------------------
(* What the calls return.                                                  *)

\* Every answer is right, and stays so until the next call.
LEMMA AnswerStep ==
  ASSUME Benign, TypeInv, Coherent, CallProgress, Answers, [Next]_vars
  PROVE  Answers'
<1>0. Get \/ Set \/ Probe => faults.stale = "no"
  BY BenignStep
\* Nothing has been answered yet, or the answer says nothing about the FAT.
<1>1. ASSUME ret'.op \notin {"get", "set", "alloc"} \/ ret'.ok = FALSE,
             ret'.full = FALSE
      PROVE  Answers'
  BY <1>1 DEF Answers, AnswersTrue, FullTrue
<1>2. ASSUME ret' = NoResult PROVE Answers'
  BY <1>1, <1>2 DEF NoResult
<1>3. CASE call.op # "idle" /\ UNCHANGED ret
  BY <1>2, <1>3 DEF TypeInv
<1>4. CASE Caller \/ Crash
  <2>1. ASSUME NEW d \in Slots, SwitchCall(d) PROVE Answers'
    <3>1. CASE d \in drive_present /\ d # active_bpb_drive
      BY <1>2, <2>1, <3>1 DEF SwitchCall, Start
    <3>2. CASE ~(d \in drive_present /\ d # active_bpb_drive)
      <4>1. ret'.op = "switch" /\ ret'.full = FALSE
        BY <2>1, <3>2 DEF SwitchCall, Result, NoResult
      <4> QED
        BY <1>1, <4>1
    <3> QED
      BY <3>1, <3>2
  <2> QED
    BY <1>2, <1>4, <2>1 DEF Caller, GetCall, SetCall, AllocCall, FlushCall,
       InvalidateCall, UmountCall, MountCall, Start, Crash
<1>5. CASE WriteCopy \/ LoadSector
  BY <1>3, <1>5 DEF WriteCopy, LoadSector, FlushDue, Concerned, Loading,
     Invalidations
<1>6. CASE ReadFails \/ WriteFails \/ Flushed \/ Switch \/ Drop \/ NotConcerned
  <2>1. ret'.full = FALSE
    BY <1>6 DEF ReadFails, WriteFails, Fail, Flushed, Switch, Activate, Drop, NotConcerned,
       Return, Result, NoResult
  <2>2. CASE ReadFails
    <3>1. ret'.ok = FALSE
      BY <2>2 DEF ReadFails, Fail, Return, Result, NoResult
    <3> QED
      BY <1>1, <2>1, <3>1
  <2>4. CASE WriteFails
    <3>1. ret'.ok = FALSE \/ ret'.op \notin {"get", "set", "alloc"}
      BY <2>4 DEF WriteFails, Fail, Activate, Return, Result, NoResult, Invalidations
    <3> QED
      BY <1>1, <2>1, <3>1
  <2>3. CASE Flushed \/ Switch \/ Drop \/ NotConcerned
    <3>1. ret'.op \notin {"get", "set", "alloc"}
      BY <2>3 DEF Flushed, Switch, Activate, Drop, NotConcerned, Concerned,
         Return, Result, NoResult, Invalidations
    <3> QED
      BY <1>1, <2>1, <3>1
  <2> QED
    BY <1>6, <2>2, <2>3, <2>4
<1>7. CASE Get
  <2>1. CASE call.h = 0
    BY <1>3, <1>7, <2>1 DEF Get
  <2>2. CASE call.h # 0
    <3>1. /\ ret'.full = FALSE /\ ret'.c = call.c /\ ret'.v = Entry
          /\ UNCHANGED bpb
      BY <1>7, <2>2 DEF Get, Return, Result, NoResult, active
    <3>2. call.h = 1 /\ Loading /\ Hit
      BY <1>7, <2>2 DEF Get, Loading, TypeInv, Regs
    <3>3. Vol(bpb)' = Vol(bpb) /\ fat_cache[Cell] = Vol(bpb)[Cell]
      BY <1>0, <1>7, <3>1, <3>2, HitVol, QuietVol
    <3>4. Entry = <<Vol(bpb)'[<<call.c, 0>>], Vol(bpb)'[<<call.c, 1>>]>>
      BY <3>2, <3>3 DEF Entry, Cell, CallProgress
    <3> QED
      BY <3>1, <3>4 DEF Answers, AnswersTrue, FullTrue, EntryOf
  <2> QED
    BY <2>1, <2>2
<1>8. CASE Set
  <2>1. CASE call.h = 0
    BY <1>3, <1>8, <2>1 DEF Set
  <2>2. CASE call.h # 0
    <3>1. /\ ret'.full = FALSE /\ ret'.c = call.c /\ ret'.v = call.v
          /\ UNCHANGED bpb
      BY <1>8, <2>2 DEF Set, Return, Result, NoResult, active
    <3>2. call.h = 1 /\ Cell = <<call.c, 1>> /\ Digit = call.v[2]
      BY <2>2 DEF Cell, Digit, TypeInv, Regs
    <3>3. Vol(bpb)'[<<call.c, 1>>] = call.v[2]
      BY <1>0, <1>8, <3>2, SetVol, DiskType
    <3>4. Vol(bpb)'[<<call.c, 0>>] = call.v[1]
      <4>1. Loading /\ <<call.c, 0>> \in Cells /\ <<call.c, 0>> # Cell
        BY <1>8, <3>2, WorkFacts, CellFacts DEF Set, Loading
      <4>2. Vol(bpb)[<<call.c, 0>>] = call.v[1]
        BY <3>2 DEF CallProgress
      <4> QED
        BY <1>0, <1>8, <4>1, <4>2, SetVol, DiskType
    <3>5. call.v = <<call.v[1], call.v[2]>>
      BY DEF TypeInv, Regs, Entries
    <3> QED
      BY <3>1, <3>3, <3>4, <3>5
         DEF Answers, AnswersTrue, FullTrue, EntryOf
  <2> QED
    BY <2>1, <2>2
<1>9. CASE Wrap
  <2>1. CASE call.wrapped
    <3>1. /\ ret' = [Result("alloc", FALSE, 2, Free) EXCEPT !.full = TRUE]
          /\ UNCHANGED bpb /\ call.op = "alloc" /\ call.c > MaxClust[bpb]
      BY <1>9, <2>1 DEF Wrap, PastEnd, Return, active
    <3>2. /\ bpb \in Vols /\ call.c \in 2 .. LastCluster + 1
          /\ Vol(bpb)' = Vol(bpb)
      BY <1>9, <3>1, QuietVol DEF TypeInv, MemType, RegsOK, Regs
    <3>3. \A c \in 2 .. MaxClust[bpb] : c < call.c
      BY <3>1, <3>2, ClusterFacts, FatConstants
    <3>4. \A c \in 2 .. MaxClust[bpb] : EntryOf(bpb, c)' # Free
      BY <2>1, <3>1, <3>2, <3>3 DEF CallProgress, EntryOf
    <3> QED
      BY <3>1, <3>4 DEF Answers, AnswersTrue, FullTrue, EntryOf,
         Result, NoResult
  <2>2. CASE ~call.wrapped
    BY <1>3, <1>9, <2>2 DEF Wrap
  <2> QED
    BY <2>1, <2>2
<1>10. CASE Probe
  BY <1>3, <1>10 DEF Probe
<1>11. CASE UNCHANGED vars
  BY <1>11 DEF Answers, AnswersTrue, FullTrue, EntryOf, Vol, Dirty,
     Written, SecOf, vars, active, cache
<1> QED
  BY <1>4, <1>5, <1>6, <1>7, <1>8, <1>9, <1>10, <1>11, QuietVol
     DEF Next, Kernel

\* All of it holds after booting.
LEMMA SafeInit == Init => Safe
<1> SUFFICES ASSUME Init PROVE Safe
  OBVIOUS
<1>1. TypeInv
  BY TypeInit
<1>2. Coherent /\ CallProgress
  BY DEF Init, BootState, Coherent, CallProgress, Idle
<1>3. Answers
  BY DEF Init, BootState, Answers, AnswersTrue, FullTrue, NoResult
<1> QED
  BY <1>1, <1>2, <1>3 DEF Safe

\* Safe until there is trouble.
SafeUntil == TypeInv /\ (~Trouble => Safe)

\* Every step keeps that.
LEMMA SafeStep == SafeUntil /\ [Next]_vars => SafeUntil'
<1> SUFFICES ASSUME SafeUntil, [Next]_vars
             PROVE  SafeUntil'
  OBVIOUS
<1>1. TypeInv'
  BY TypeStep DEF SafeUntil
<1>2. ASSUME ~Trouble'
      PROVE  Safe'
  <2>1. Benign /\ Safe
    BY <1>2, BenignStep DEF Benign, SafeUntil
  <2>2. TypeInv /\ Coherent /\ CallProgress /\ Answers
    BY <2>1 DEF Safe
  <2> QED
    BY <1>1, <2>1, <2>2, CoherentStep, ProgressStep, AnswerStep DEF Safe
<1> QED
  BY <1>1, <1>2 DEF SafeUntil

\* And so it holds after booting.
LEMMA SafeUntilInit == Init => SafeUntil
BY SafeInit DEF SafeUntil, Safe

\* What fat_get returns is what the FAT of the active volume holds, never an
\* entry of another drive or of before an update; fat_set and fat_alloc store
\* an entry as a whole.  This ends when a switch ignores a failed flush, or
\* when a sector kept over a remount is used.
THEOREM AnswersRight == Spec => []ReadsSeeWrites
<1>1. SafeUntil => ReadsSeeWrites
  BY DEF SafeUntil, Safe, Answers, ReadsSeeWrites
<1> QED
  BY <1>1, SafeUntilInit, SafeStep, PTL DEF Spec

\* fat_alloc says "disk full" only of a full volume, wherever the hint that all
\* drives share stood when the scan began: it wraps once and misses none.  This
\* ends as AnswersRight does.
THEOREM DiskFullTrue == Spec => []FullMeansFull
<1>1. SafeUntil => FullMeansFull
  BY DEF SafeUntil, Safe, Answers, FullMeansFull
<1> QED
  BY <1>1, SafeUntilInit, SafeStep, PTL DEF Spec

\* The one cached sector, which all drives share, belongs to the volume its tag
\* says, through every switch, unmount and failed flush: a dirty one is that of
\* the volume fat_flush would write it to, a clean one is what the disk holds.
\* A remount may keep a sector that is not; this ends when such a one is used,
\* or when a switch ignores a failed flush.
THEOREM CacheTrue == Spec => []CacheCoherent
<1>1. SafeUntil => CacheCoherent
  BY DEF SafeUntil, Safe, CacheCoherent
<1> QED
  BY <1>1, SafeUntilInit, SafeStep, PTL DEF Spec

-----------------------------------------------------------------------------
(* The FAT layer implements FatStore.                                      *)

vol == [p \in Vols |-> Vol(p)]
dur == [p \in Vols |-> disk[p][0]]

\* A booted system is a store without updates.
LEMMA StoreInit == Init => Store!Init
<1> SUFFICES ASSUME Init PROVE Store!Init
  OBVIOUS
<1>1. TypeInv /\ ~Dirty
  BY TypeInit DEF Init, BootState, Dirty
<1>2. \A p \in Vols : disk[p][0] \in [Cells -> Digits] /\ Vol(p) = disk[p][0]
  BY <1>1, DiskType DEF Vol
<1>3. Storing = NoReq /\ faults.crash = 0 /\ Trouble = FALSE
  BY DEF Init, BootState, Idle, Storing, Trouble
<1> QED
  BY <1>2, <1>3 DEF Store!Init

\* A step that changes neither FAT is a stutter, or starts or ends a store.
LEMMA QuietStoreStep ==
  ASSUME vol' = vol, dur' = dur, UNCHANGED <<faults.crash, Trouble>>,
         Storing = NoReq \/ Storing' = NoReq \/ Storing' = Storing
  PROVE  [Store!Next]_<<vol, dur, Storing, faults.crash, Trouble>>
BY DEF Store!Next, Store!Ask, Store!Done, vol, dur

\* An entry is being stored until the call that stores it returns.
LEMMA StoringStep ==
  ASSUME TypeInv, Benign, [Next]_vars,
         \/ Caller \/ WriteCopy \/ WriteFails \/ LoadSector \/ ReadFails \/ Get
         \/ Wrap \/ Probe \/ Flushed \/ Switch \/ Drop \/ NotConcerned
         \/ UNCHANGED vars
  PROVE  Storing = NoReq \/ Storing' = NoReq \/ Storing' = Storing
<1>1. CASE Caller
  <2>1. call.op = "idle"
    BY <1>1 DEF Caller, GetCall, SetCall, AllocCall, FlushCall, SwitchCall,
       InvalidateCall, UmountCall, MountCall, Start
  <2> QED
    BY <2>1 DEF Storing
<1>2. CASE WriteCopy
  <2>1. /\ call'.op = call.op /\ call'.c = call.c /\ call'.v = call.v
        /\ UNCHANGED <<bpb, faults>>
    BY <1>2 DEF WriteCopy, TypeInv, Regs, active
  <2> QED
    BY <2>1 DEF Storing
<1>3. CASE LoadSector \/ UNCHANGED vars
  BY <1>3 DEF LoadSector, vars, active, Storing
<1>4. CASE Get \/ Wrap \/ Probe \/ Flushed \/ Switch \/ Drop \/ NotConcerned
  BY <1>4 DEF Get, Wrap, Probe, Flushed, Switch, Drop, NotConcerned, Concerned,
     Invalidations, Storing
<1>5. CASE ReadFails \/ WriteFails
  <2>1. \E r : Return(r)
    BY <1>5 DEF ReadFails, WriteFails, Activate, Fail
  <2>2. call'.op = "idle"
    BY <2>1 DEF Return, Idle
  <2> QED
    BY <2>2 DEF Storing
<1> QED
  BY <1>1, <1>2, <1>3, <1>4, <1>5

\* Every step is one of the store, or a stutter.
LEMMA StoreStep ==
  ASSUME Benign, Safe, [Next]_vars
  PROVE  [Store!Next]_<<vol, dur, Storing, faults.crash, Trouble>>
<1> USE DEF vol, dur
<1>1. TypeInv /\ Coherent /\ CallProgress
  BY DEF Safe
<1>0. /\ Trouble = FALSE /\ Trouble' = FALSE
      /\ IF Crash THEN faults'.crash = faults.crash + 1
                  ELSE faults'.crash = faults.crash
      /\ Get \/ Set \/ Probe => faults.stale = "no"
  BY <1>1, FaultsStep, BenignStep DEF Benign, TypeInv
<1>2. CASE Set /\ ~Crash
  <2>1. /\ bpb \in Vols /\ Cell \in Cells /\ UNCHANGED <<disk, bpb>>
        /\ Vol(bpb)' = [Vol(bpb) EXCEPT ![Cell] = Digit]
        /\ \A p \in Vols \ {bpb} : Vol(p)' = Vol(p)
    BY <1>0, <1>1, <1>2, SetVol
  <2>2. /\ call.op \in {"set", "claim"} /\ UNCHANGED faults.crash
        /\ call.h \in {0, 1}
    BY <1>0, <1>1, <1>2 DEF Set, TypeInv, Regs
  <2>3. /\ Storing = [p |-> bpb, c |-> call.c, v |-> call.v]
        /\ Storing # NoReq
    BY <2>1, <2>2, FatConstants DEF Storing, NoReq
  <2>4. Storing' \in {Storing, NoReq}
    <3>1. CASE call.h = 0
      <4>1. call'.op = call.op /\ call'.c = call.c /\ call'.v = call.v
        BY <1>1, <1>2, <3>1 DEF Set, TypeInv, Regs
      <4> QED
        BY <2>1, <4>1 DEF Storing
    <3>2. CASE call.h # 0
      <4>1. call'.op = "idle"
        BY <1>2, <3>2 DEF Set, Return, Idle
      <4> QED
        BY <4>1 DEF Storing
    <3> QED
      BY <3>1, <3>2
  <2>5. vol' = [vol EXCEPT ![bpb][Cell] = Digit] /\ dur' = dur
    BY <2>1
  <2>6. /\ Cell = <<Storing.c, call.h>> /\ bpb = Storing.p
        /\ Digit = Storing.v[call.h + 1]
    BY <2>3 DEF Cell, Digit
  <2>7. Store!Put(call.h)
    BY <2>1, <2>2, <2>3, <2>4, <2>5, <2>6 DEF Store!Put
  <2> QED
    BY <1>0, <2>2, <2>7 DEF Store!Next
<1>3. CASE WriteCopy /\ ~Crash
  <2>1. /\ bpb \in Vols /\ vol' = vol /\ UNCHANGED faults.crash
        /\ Storing' = Storing
    <3>1. /\ call'.op = call.op /\ call'.c = call.c /\ call'.v = call.v
          /\ UNCHANGED <<bpb, faults.crash>>
      BY <1>0, <1>1, <1>3 DEF WriteCopy, TypeInv, Regs, active
    <3> QED
      BY <1>1, <1>3, <3>1, WriteCopyVol DEF Storing
  <2>2. CASE call.copy = 0
    <3>1. dur' = [dur EXCEPT ![bpb] = vol[bpb]]
      BY <1>1, <1>3, <2>1, <2>2, WriteCopyVol
    <3> QED
      BY <1>0, <2>1, <3>1 DEF Store!Next, Store!Sync
  <2>3. CASE call.copy # 0
    <3>1. dur' = dur
      BY <1>1, <1>3, <2>1, <2>3, WriteCopyVol
    <3> QED
      BY <1>0, <2>1, <3>1
  <2> QED
    BY <2>2, <2>3
<1>4. CASE Crash
  <2>1. /\ UNCHANGED disk /\ ~Dirty' /\ call'.op = "idle"
        /\ faults'.crash = faults.crash + 1
    BY <1>0, <1>4 DEF Crash, Dirty, Idle
  <2>2. vol' = dur /\ dur' = dur /\ Storing' = NoReq
    BY <2>1 DEF Vol, Storing
  <2> QED
    BY <1>0, <2>1, <2>2 DEF Store!Next, Store!Restart
<1>5. CASE /\ \/ Caller \/ WriteFails \/ LoadSector \/ ReadFails \/ Get \/ Wrap
              \/ Probe \/ Flushed \/ Switch \/ Drop \/ NotConcerned
              \/ UNCHANGED vars
           /\ ~Crash
  <2>1. vol' = vol /\ dur' = dur
    BY <1>1, <1>5, QuietVol
  <2>2. Storing = NoReq \/ Storing' = NoReq \/ Storing' = Storing
    BY <1>1, <1>5, StoringStep
  <2>3. UNCHANGED <<faults.crash, Trouble>>
    BY <1>0, <1>5
  <2> QED
    BY <2>1, <2>2, <2>3, QuietStoreStep
<1> QED
  BY <1>2, <1>3, <1>4, <1>5 DEF Next, Kernel

\* Seen from above, the FAT layer is the ordered store: while the system runs,
\* an entry changes only because it was asked to, on the volume that was
\* active, and no update is lost; and what a restart finds is a FAT the
\* kernel had at some earlier moment.  Failing transfers change none of that,
\* until a switch ignores a failed flush; nor does a remount, until a sector
\* kept over it is used.
THEOREM ImplementsFatStore == Spec => IsFatStore
<1>1. Init => Store!Init
  BY StoreInit
<1>2. SafeUntil /\ [Next]_vars
        => [Store!Next]_<<vol, dur, Storing, faults.crash, Trouble>>
  <2> SUFFICES ASSUME SafeUntil, [Next]_vars
               PROVE  [Store!Next]_<<vol, dur, Storing, faults.crash, Trouble>>
    OBVIOUS
  <2>1. CASE Trouble'
    <3>1. Trouble' = TRUE
      BY <2>1 DEF Trouble
    <3> QED
      BY <3>1 DEF Store!Next, Store!Astray
  <2>2. CASE ~Trouble'
    <3>1. Benign /\ TypeInv
      BY <2>2 DEF Benign, SafeUntil
    <3>2. Safe
      BY <3>1, BenignStep DEF SafeUntil
    <3> QED
      BY <3>1, <3>2, StoreStep
  <2> QED
    BY <2>1, <2>2
<1> QED
  BY <1>1, <1>2, SafeUntilInit, SafeStep, PTL
     DEF Spec, IsFatStore, Store!Spec, vol, dur

-----------------------------------------------------------------------------
(* The copies of the FAT.                                                  *)

\* What parts the copies for good: a restart in the middle of a flush, and a
\* switch that ignores that its flush has failed.
Mild == faults.crash = 0 /\ ~faults.lost

\* A flush has written the copies it counts, and no other part of any.
CopiesWritten ==
  /\ call.copy > 0 => FlushDue
  /\ \A k \in Copies, x \in Cells :
       k < call.copy /\ SecOf(x) = fat_csec => disk[bpb][k][x] = fat_cache[x]

CopiesAgreeNow ==
  \A p \in Vols, k \in Copies, x \in Cells :
    disk[p][k][x] # disk[p][0][x] =>
      fat_dirty /\ p = bpb /\ SecOf(x) = fat_csec

CopyInv == TypeInv /\ (Mild => CopiesWritten /\ CopiesAgree)

LEMMA Returned == ASSUME NEW r, Return(r) PROVE call' = Idle /\ call'.op = "idle" /\ call'.copy = 0
  BY DEF Return, Idle

LEMMA Called == ASSUME Caller PROVE call'.copy = 0
<1>1. ASSUME NEW c \in Clusters, GetCall(c) PROVE call'.copy = 0
  BY <1>1 DEF GetCall, Start, Idle
<1>2. ASSUME NEW c \in Clusters, NEW v \in SetValues, SetCall(c, v) PROVE call'.copy = 0
  BY <1>2 DEF SetCall, Start, Idle
<1>3. CASE AllocCall
  BY <1>3 DEF AllocCall, Start, Idle
<1>4. CASE FlushCall
  BY <1>4 DEF FlushCall, Start, Idle
<1>5. ASSUME NEW d \in Slots, SwitchCall(d) PROVE call'.copy = 0
  <2>1. CASE d \in drive_present /\ d # active_bpb_drive
    BY <1>5, <2>1 DEF SwitchCall, Start, Idle
  <2>2. CASE ~(d \in drive_present /\ d # active_bpb_drive)
    BY <1>5, <2>2 DEF SwitchCall, Idle
  <2> QED
    BY <2>1, <2>2
<1>6. ASSUME NEW d \in Slots, InvalidateCall(d) PROVE call'.copy = 0
  BY <1>6 DEF InvalidateCall, Start, Idle
<1>7. ASSUME NEW d \in Slots, UmountCall(d) PROVE call'.copy = 0
  BY <1>7 DEF UmountCall, Start, Idle
<1>8. ASSUME NEW d \in Slots, NEW p \in Vols, MountCall(d, p) PROVE call'.copy = 0
  BY <1>8 DEF MountCall, Start, Idle
<1> QED
  BY <1>1, <1>2, <1>3, <1>4, <1>5, <1>6, <1>7, <1>8 DEF Caller

LEMMA Wrapped ==
  ASSUME call \in Regs, Wrap
  PROVE  \/ call'.op = call.op /\ call'.copy = call.copy
         \/ call'.op = "idle" /\ call'.copy = 0
<1>1. CASE call.wrapped
  <2>1. \E r : Return(r)
    BY <1>1 DEF Wrap
  <2> QED
    BY <2>1, Returned
<1>2. CASE ~call.wrapped
  <2>1. call' = [call EXCEPT !.wrapped = TRUE, !.c = 2]
    BY <1>2 DEF Wrap
  <2>2. call'.op = call.op /\ call'.copy = call.copy
    BY <2>1 DEF Regs
  <2> QED
    BY <2>2
<1> QED
  BY <1>1, <1>2

\* Nothing is forgotten of what has gone wrong.
LEMMA MildBefore ==
  ASSUME TypeInv, [Next]_vars, Mild'
  PROVE  Mild /\ ~Crash /\ (WriteFails => call.op # "switch")
<1>1. faults.crash \in Nat /\ MemType
  BY DEF TypeInv, MemType, Mishaps
<1>2. /\ ~faults'.lost => ~faults.lost /\ (WriteFails => call.op # "switch")
      /\ IF Crash THEN faults'.crash = faults.crash + 1
                  ELSE faults'.crash = faults.crash
  BY <1>1, FaultsStep
<1> QED
  BY <1>1, <1>2 DEF Mild

LEMMA CopiesStep ==
  ASSUME TypeInv, CopiesWritten, CopiesAgree, [Next]_vars, Mild, Mild'
  PROVE  CopiesWritten' /\ CopiesAgree'
<1> USE DEF drives, active, cache
<1>1. ~Crash /\ (WriteFails => call.op # "switch") /\ CopiesAgreeNow
  BY MildBefore DEF CopiesAgree, CopiesAgreeNow, Mild
<1>2. /\ LastCopy \in Nat /\ call.copy \in 0 .. LastCopy /\ Copies = 0 .. LastCopy
      /\ fat_dirty => fat_csec # NoSec
      /\ disk \in [Vols -> [Copies -> [Cells -> Digits]]] /\ fat_dirty \in BOOLEAN
      /\ fat_cache \in [Cells -> Digits]
  BY FatConstants DEF TypeInv, Regs, Copies, MemType
<1>3. ASSUME call'.copy = 0 PROVE CopiesWritten'
  BY <1>2, <1>3 DEF CopiesWritten, Copies
<1>4. ASSUME ~FlushDue PROVE call.copy = 0
  BY <1>2, <1>4 DEF CopiesWritten
\* What disagreed before may still, as long as the sector waits.
<1>5. ASSUME UNCHANGED disk, fat_dirty => UNCHANGED <<bpb, fat_csec>> /\ fat_dirty'
      PROVE  CopiesAgree'
  BY <1>1, <1>5 DEF CopiesAgree, CopiesAgreeNow, SecOf
<1>6. CASE Caller \/ ReadFails \/ Flushed \/ NotConcerned
  <2>1. /\ UNCHANGED <<disk, active, cache>>
    BY <1>6 DEF Caller, GetCall, SetCall, AllocCall, FlushCall, SwitchCall,
       InvalidateCall, UmountCall, MountCall, ReadFails, Flushed, NotConcerned
  <2>2. call'.copy = 0
    <3>1. CASE Caller
      BY <3>1, Called
    <3>2. CASE ReadFails \/ Flushed \/ NotConcerned
      <4>1. \E r : Return(r)
        BY <3>2 DEF ReadFails, Flushed, NotConcerned, Fail
      <4> QED
        BY <4>1, Returned
    <3> QED
      BY <1>6, <3>1, <3>2
  <2> QED
    BY <1>3, <1>5, <2>1, <2>2
<1>7. CASE Get \/ Wrap \/ Probe
  <2>1. UNCHANGED <<disk, active, cache>>
    BY <1>7 DEF Get, Wrap, Probe
  <2>2. ~FlushDue
    BY <1>7 DEF Get, Wrap, Probe, FlushDue, Concerned, Invalidations, Loading
  <2>3. call'.copy = 0
    <3>1. call \in Regs /\ call.copy = 0
      BY <1>4, <2>2 DEF TypeInv
    <3>2. FirstCell => call'.copy = 0
      BY <3>1 DEF FirstCell, Regs
    <3>3. CASE Get
      <4>1. FirstCell \/ \E r : Return(r)
        BY <3>3 DEF Get
      <4> QED
        BY <3>2, <4>1 DEF Return, Idle
    <3>4. CASE Probe
      <4>1. \/ FirstCell
            \/ call' = [call EXCEPT !.op = "claim", !.h = 0, !.v = Eoc]
            \/ call' = [call EXCEPT !.c = @ + 1, !.h = 0, !.v = Free]
        BY <3>4 DEF Probe
      <4> QED
        BY <3>1, <3>2, <4>1 DEF Regs
    <3>5. CASE Wrap
      BY <3>1, <3>5, Wrapped
    <3> QED
      BY <1>7, <3>3, <3>4, <3>5
  <2> QED
    BY <1>3, <1>5, <2>1, <2>3
<1>8. CASE Set
  <2>1. UNCHANGED <<disk, bpb, fat_csec>> /\ fat_dirty' = TRUE
    BY <1>8 DEF Set
  <2>2. call'.copy = 0
    <3>1. ~FlushDue
      BY <1>8 DEF Set, FlushDue, Concerned, Invalidations
    <3>2. call \in Regs /\ call.copy = 0
      BY <1>4, <3>1 DEF TypeInv
    <3>3. \/ call' = [call EXCEPT !.h = 1]
          \/ \E r : Return(r)
      BY <1>8 DEF Set
    <3> QED
      BY <3>2, <3>3 DEF Return, Idle, Regs
  <2> QED
    BY <1>3, <1>5, <2>1, <2>2
<1>9. CASE LoadSector \/ Switch \/ Drop
  <2>1. ~Dirty /\ UNCHANGED disk
    BY <1>9 DEF LoadSector, Switch, Drop
  <2>2. ~fat_dirty
    BY <1>2, <2>1 DEF Dirty
  <2>3. call'.copy = 0
    <3>1. CASE LoadSector
      <4>1. ~FlushDue /\ call' = call
        BY <2>1, <3>1 DEF LoadSector, FlushDue
      <4> QED
        BY <1>4, <4>1
    <3>2. CASE Switch \/ Drop
      <4>1. \E r : Return(r)
        BY <3>2 DEF Switch, Activate, Drop
      <4> QED
        BY <4>1, Returned
    <3> QED
      BY <1>9, <3>1, <3>2
  <2> QED
    BY <1>3, <1>5, <2>1, <2>2, <2>3
<1>10. CASE WriteFails
  <2>1. UNCHANGED disk
    BY <1>10 DEF WriteFails
  <2>3. call.op # "switch"
    BY <1>1, <1>10
  <2>4. call'.copy = 0 /\ UNCHANGED <<bpb, cache>>
    <3>1. UNCHANGED <<bpb, cache>> /\ \E r : Return(r)
      BY <1>10, <2>3 DEF WriteFails, Fail
    <3> QED
      BY <3>1, Returned
  <2> QED
    BY <1>3, <1>5, <2>1, <2>4
<1>11. CASE WriteCopy
  <2> DEFINE n == call.copy
             W == Written(disk[bpb][n])
  <2>1. /\ FlushDue /\ Dirty /\ bpb \in Vols
        /\ disk' = [disk EXCEPT ![bpb][n] = W]
        /\ UNCHANGED <<bpb, active_bpb_drive, fat_csec, fat_cache, fat_cache_drive>>
    BY <1>11, DirtyFacts DEF WriteCopy, FlushDue
  <2>2. /\ \A p \in Vols, k \in Copies : p # bpb \/ k # n => disk'[p][k] = disk[p][k]
        /\ disk'[bpb][n] = W
    BY <1>2, <2>1
  <2>3. \A x \in Cells : W[x] = IF SecOf(x) = fat_csec THEN fat_cache[x] ELSE disk[bpb][n][x]
    BY DEF Written
  <2>4. \A k \in Copies, x \in Cells :
           k <= n /\ SecOf(x) = fat_csec => disk'[bpb][k][x] = fat_cache[x]
    <3> SUFFICES ASSUME NEW k \in Copies, NEW x \in Cells, k <= n, SecOf(x) = fat_csec
                 PROVE  disk'[bpb][k][x] = fat_cache[x]
      OBVIOUS
    <3>1. CASE k = n
      BY <2>2, <2>3, <3>1
    <3>2. CASE k < n
      <4>1. disk[bpb][k][x] = fat_cache[x]
        BY <3>2 DEF CopiesWritten
      <4>2. disk'[bpb][k] = disk[bpb][k]
        BY <1>2, <2>1, <2>2, <3>2
      <4> QED
        BY <4>1, <4>2
    <3> QED
      BY <1>2, <3>1, <3>2
  <2>5. \A p \in Vols, k \in Copies, x \in Cells :
           p # bpb \/ SecOf(x) # fat_csec => disk'[p][k][x] = disk'[p][0][x]
    <3> SUFFICES ASSUME NEW p \in Vols, NEW k \in Copies, NEW x \in Cells,
                        p # bpb \/ SecOf(x) # fat_csec
                 PROVE  disk'[p][k][x] = disk'[p][0][x]
      OBVIOUS
    <3>1. \A j \in Copies : disk'[p][j][x] = disk[p][j][x]
      BY <2>2, <2>3
    <3>2. disk[p][k][x] = disk[p][0][x]
      BY <1>1 DEF CopiesAgreeNow
    <3> QED
      BY <1>2, <3>1, <3>2
  <2>6. SecOf(NoSec)' = SecOf(NoSec) /\ \A x : SecOf(x)' = SecOf(x)
    BY DEF SecOf
  <2>7. CASE n = LastCopy
    <3>1. call'.copy = 0
      BY <1>11, <2>7 DEF WriteCopy, TypeInv, Regs
    <3>2. \A p \in Vols, k \in Copies, x \in Cells : disk'[p][k][x] = disk'[p][0][x]
      <4> SUFFICES ASSUME NEW p \in Vols, NEW k \in Copies, NEW x \in Cells
                   PROVE  disk'[p][k][x] = disk'[p][0][x]
        OBVIOUS
      <4>1. k <= n /\ 0 <= n /\ 0 \in Copies
        BY <1>2, <2>7
      <4>2. CASE p = bpb /\ SecOf(x) = fat_csec
        BY <2>4, <4>1, <4>2
      <4> QED
        BY <2>5, <4>2
    <3> QED
      BY <1>3, <3>1, <3>2 DEF CopiesAgree
  <2>8. CASE n # LastCopy
    <3>1. /\ call' = [call EXCEPT !.copy = @ + 1] /\ fat_dirty' = fat_dirty
      BY <1>11, <2>8 DEF WriteCopy
    <3>2. /\ call'.copy = n + 1 /\ call'.op = call.op /\ call'.c = call.c
          /\ call'.h = call.h /\ call'.slot = call.slot
      BY <3>1 DEF TypeInv, Regs
    <3>3. FlushDue'
      BY <2>1, <3>1, <3>2 DEF FlushDue, Dirty, Concerned, Loading, PastEnd, Hit, Want, Cell, SecOf
    <3>4. CopiesWritten'
      BY <1>2, <2>1, <2>4, <2>6, <3>2, <3>3 DEF CopiesWritten, Copies
    <3>5. CopiesAgree'
      BY <2>1, <2>5, <2>6, <3>1 DEF CopiesAgree, Dirty
    <3> QED
      BY <3>4, <3>5
  <2> QED
    BY <2>7, <2>8
<1>12. CASE UNCHANGED vars
  <2>1. UNCHANGED <<disk, active, cache, call>>
    BY <1>12 DEF vars
  <2> QED
    BY <1>1, <2>1 DEF CopiesWritten, CopiesAgree, CopiesAgreeNow, FlushDue, Dirty, Concerned, Loading,
       PastEnd, Hit, Want, Cell, SecOf
<1> QED
  BY <1>1, <1>6, <1>7, <1>8, <1>9, <1>10, <1>11, <1>12 DEF Next, Kernel

\* The FAT copies differ at most in the sector that waits to be written, for any
\* number of copies and drives and whatever MOUNT does.  A flush that fails half
\* way is made good by a later one, until a restart comes between, or a switch
\* ignores the failure.
THEOREM CopiesTogether == Spec => []CopiesAgree
<1>1. Init => CopyInv
  <2> SUFFICES ASSUME Init PROVE CopyInv
    OBVIOUS
  <2>1. TypeInv
    BY TypeInit
  <2>2. CopiesWritten
    BY FatConstants DEF Init, BootState, CopiesWritten, Idle, Copies
  <2>3. CopiesAgree
    BY FatConstants DEF Init, CopiesAgree, Copies
  <2> QED
    BY <2>1, <2>2, <2>3 DEF CopyInv
<1>2. CopyInv /\ [Next]_vars => CopyInv'
  <2> SUFFICES ASSUME CopyInv, [Next]_vars PROVE CopyInv'
    OBVIOUS
  <2>1. TypeInv'
    BY TypeStep DEF CopyInv
  <2>2. ASSUME Mild' PROVE CopiesWritten' /\ CopiesAgree'
    BY <2>2, MildBefore, CopiesStep DEF CopyInv
  <2> QED
    BY <2>1, <2>2 DEF CopyInv
<1>3. CopyInv => CopiesAgree
  BY DEF CopyInv, CopiesAgree, Mild
<1> QED
  BY <1>1, <1>2, <1>3, PTL DEF Spec
=============================================================================
