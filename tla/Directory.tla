------------------------------ MODULE Directory ------------------------------
(***************************************************************************)
(* Directories of the ELF-DOS kernel: the iterator of kernel/dir.asm, and  *)
(* the calls of kernel/file.asm that look up, add, change and remove       *)
(* entries (file_open, file_stat, file_setattr, file_touch, file_delete,   *)
(* file_rename, dir_create, dir_remove), on one volume.                    *)
(*                                                                         *)
(* A directory is a run of sectors of entry slots, up to the first slot    *)
(* that says End: the fixed sectors of the root, or a chain of clusters.   *)
(* A name that is not a clean 8.3 one takes some LFN slots and then the    *)
(* short entry they belong to.  All calls share one iterator position and  *)
(* one sector buffer.                                                      *)
(*                                                                         *)
(* Files have no clusters here (FileIO has them), and paths are resolved:  *)
(* a call names a directory and an entry in it.  The FAT is used as        *)
(* FatStore describes it.  A call is one step per transfer.                *)
(***************************************************************************)
EXTENDS Volume, Sequences, FiniteSets, FiniteSetsExt

CONSTANTS
  Names,
  Garbled,          \* what LFN entries that do not belong together spell
  Parts,            \* Parts[n]: LFN slots a name needs; 0: a clean 8.3 name
  ShortName,        \* ShortName[n][i]: without a tail (i = 0), or with ~i
  Shown,            \* Shown[s]: what a short name alone is listed as
  Chksum,           \* Chksum[s]: the checksum that ties LFN slots to s
  DirEntPerSec,     \* slots per sector (16)
  RootSectors,
  MaxTail,          \* the last tail tried (99)
  Scenarios         \* what may happen: the calls and names programs use, and
                    \* how many transfers fail and restarts there are

Root == 0
Dirs == {Root} \cup Clusters
Places == 0 .. DirEntPerSec - 1
Sectors == ({Root} \X (0 .. RootSectors - 1)) \cup (Clusters \X (0 .. Spc - 1))

Calls == {"stat", "open", "create", "mkdir", "setattr", "delete", "rmdir",
          "rename", "list"}

ASSUME DirectoryConstants ==
  /\ Garbled \notin Names
  /\ DirEntPerSec \in Nat \ {0} /\ RootSectors \in Nat \ {0} /\ MaxTail \in Nat
  /\ \A n \in Names : Parts[n] \in 0 .. DirEntPerSec - 1
  /\ \A n \in Names : Parts[n] = 0 => Shown[ShortName[n][0]] = n
  /\ Scenarios \subseteq [calls : SUBSET Calls, names : SUBSET Names,
                         reads : Nat, writes : Nat, crashes : Nat]

VARIABLES
  fat, fat_dur,     \* as in FileIO
  slots,            \* slots[<<c, s>>]: sector s of cluster c, or of the root
  pos,              \* dir_clust, dir_sect, dir_cur_lba, dir_eptr, dir_eleft
                    \* and the LFN being assembled
  buf,              \* dir_buf
  call,             \* what the call in progress keeps
  ok,               \* DF of the last call, inverted
  list,             \* a program's listing of a directory
  steady,           \* names there ever since the listing began
  exposed,          \* history: the calls to come may read junk as entries
  faults,           \* so far
  scenario          \* the one that happens

vars == <<fat, fat_dur, slots, pos, buf, call, ok, list, steady, exposed, faults,
          scenario>>

-----------------------------------------------------------------------------
(* Slots.                                                                  *)

End == [kind |-> "end"]
Deleted == [kind |-> "deleted"]
Dot == [kind |-> "dot"]          \* "." and ".."
Junk == [kind |-> "junk"]        \* whatever a former owner left

LfnSlot(n, seq, sum) == [kind |-> "lfn", name |-> n, seq |-> seq,
                         last |-> seq = Parts[n], sum |-> sum]
ShortSlot(s, dir, ro, clust) ==
  [kind |-> "short", short |-> s, dir |-> dir, ro |-> ro, clust |-> clust]

Filled(x) == [i \in Places |-> x]
NoLfn == [ok |-> FALSE, sum |-> 0, pieces |-> {}]

\* The LFN state after a slot: an LFN slot starts or continues a name, any
\* other ends it.
LfnAfter(lfn, slot) ==
  IF slot.kind # "lfn" THEN NoLfn
  ELSE IF slot.last
    THEN [ok |-> TRUE, sum |-> slot.sum, pieces |-> {<<slot.name, slot.seq>>}]
  ELSE IF lfn.ok
    THEN [lfn EXCEPT !.pieces = @ \cup {<<slot.name, slot.seq>>}]
  ELSE lfn

\* The LFN state before slot i of a run of slots read from slot first on.
LfnAt(run, first, lfn, i) ==
  LET at[j \in first .. i] ==
        IF j = first THEN lfn ELSE LfnAfter(at[j - 1], run[j - 1])
  IN  at[i]

Assembled(pieces) ==
  IF \E n \in Names : pieces = {n} \X (1 .. Parts[n])
    THEN CHOOSE n \in Names : pieces = {n} \X (1 .. Parts[n])
    ELSE Garbled

\* The name dir_read gives a short entry: the LFN, if its checksum fits.
NameOf(slot, lfn) ==
  IF lfn.ok /\ lfn.sum = Chksum[slot.short] THEN Assembled(lfn.pieces)
                                            ELSE Shown[slot.short]

\* The short entries of a sector from slot first on, up to an End.  (Junk would
\* be read as entries, too: no call begins when it can be, see JunkShows.)
Shortly(sector, first) ==
  {i \in first .. DirEntPerSec - 1 :
     sector[i].kind = "short" /\ \A j \in first .. i : sector[j] # End}

EntriesOf(sector, first, lfn) ==
  {[off |-> i, name |-> NameOf(sector[i], LfnAt(sector, first, lfn, i)),
    dir |-> sector[i].dir, ro |-> sector[i].ro, clust |-> sector[i].clust] :
     i \in Shortly(sector, first)}

-----------------------------------------------------------------------------
(* What a directory holds, read from the first sector to the first End.    *)

ChainLength(c) ==
  Cardinality({i \in 0 .. LastCluster - 2 : Nth(fat, c, i) \in Clusters})

SectorCount(d) == IF d = Root THEN RootSectors ELSE Spc * ChainLength(d)

SectorAt(d, k) == slots[IF d = Root THEN <<Root, k>>
                                    ELSE <<Nth(fat, d, k \div Spc), k % Spc>>]

HasEnd(sector) == \E i \in Places : sector[i] = End

\* The sectors a scan reaches.
Reached(d) == {k \in 0 .. SectorCount(d) - 1 :
                 \A j \in 0 .. k - 1 : ~HasEnd(SectorAt(d, j))}

ShortsAt(d) == UNION {{k} \X Shortly(SectorAt(d, k), 0) : k \in Reached(d)}
Shorts(d) == {SectorAt(d, at[1])[at[2]] : at \in ShortsAt(d)}

\* No LFN is split between sectors.
Listing(d) == UNION {EntriesOf(SectorAt(d, k), 0, NoLfn) : k \in Reached(d)}
ListedIn(d) == {e.name : e \in Listing(d)}

Subdirs(d) == {e.clust : e \in {x \in Shorts(d) : x.dir}}

\* The directories there are: those a path leads to.
LiveDirs ==
  LET upto[i \in 0 .. LastCluster - 1] ==
        IF i = 0 THEN {Root}
        ELSE LET above == upto[i - 1]
             IN  above \cup UNION {Subdirs(d) : d \in above}
  IN  upto[LastCluster - 1]

-----------------------------------------------------------------------------
(* Calls, failures and restarts.                                           *)

Nowhere == <<Root, 0>>
AtRest == [clust |-> Root, sect |-> -1, lba |-> Nowhere, eptr |-> 0,
           eleft |-> 0, lfn |-> NoLfn]
NoEntry == [off |-> 0, name |-> Garbled, dir |-> FALSE, ro |-> FALSE, clust |-> 0]

\* name: what is looked up, or created.  entry, lba: an entry found earlier.
\* other: the new name of a rename, and the old one when that is found.
\* n: the tail to try, or the sector to clear.  new: a cluster to be linked.
Idle == [op |-> "idle", at |-> "", dir |-> Root, name |-> Garbled,
         other |-> Garbled, entry |-> NoEntry, lba |-> Nowhere,
         short |-> Garbled, off |-> 0, n |-> 0, new |-> 0]

NotListing == [on |-> FALSE, dir |-> Root, pos |-> AtRest, seen |-> <<>>]

NoFaults == [read |-> 0, write |-> 0, crash |-> 0]

ReadFault == /\ faults.read < scenario.reads
             /\ faults' = [faults EXCEPT !.read = @ + 1]
WriteFault == /\ faults.write < scenario.writes
              /\ faults' = [faults EXCEPT !.write = @ + 1]
Fault == ReadFault \/ WriteFault

Return(success) == /\ call' = Idle /\ ok' = success
                   /\ pos' = AtRest /\ buf' = Filled(End)

Fails == Return(FALSE) /\ UNCHANGED list

Goto(place) == call' = [call EXCEPT !.at = place] /\ UNCHANGED <<ok, list>>

\* dir_open.  Position and buffer keep what the last scan left there.
DirOpen(p, d) == [p EXCEPT !.clust = d, !.sect = -1, !.eleft = 0, !.lfn = NoLfn]

Init == /\ fat = [c \in Clusters |-> 0] /\ fat_dur = fat
        /\ slots = [l \in Sectors |-> IF l[1] = Root THEN Filled(End)
                                                      ELSE Filled(Junk)]
        /\ pos = AtRest /\ buf = Filled(End)
        /\ call = Idle /\ ok = TRUE
        /\ list = NotListing /\ steady = {} /\ exposed = FALSE
        /\ faults = NoFaults
        /\ scenario \in Scenarios

-----------------------------------------------------------------------------
(* The iterator: _dir_next_sector and dir_read, up to the entry wanted.    *)
(* What the caller does then is Found or NotThere, below.                  *)

ClusterDone(p) == p.clust # Root /\ p.sect + 1 >= Spc
NoMore(p) == IF p.clust = Root THEN p.sect + 1 >= RootSectors
                               ELSE ClusterDone(p) /\ Link(fat, p.clust) = Eoc

NextSector(p) ==
  LET c == IF ClusterDone(p) THEN Link(fat, p.clust) ELSE p.clust
      s == IF ClusterDone(p) THEN 0 ELSE p.sect + 1
  IN  [p EXCEPT !.clust = c, !.sect = s, !.lba = <<c, s>>]

Scanning == call.at \in {"scan", "scanto", "empty"}

Wanted(e) == call.op = "list" \/ call.at = "empty" \/ e.name = call.name

Hits == IF pos.eleft = 0 THEN {}
        ELSE {e \in EntriesOf(buf, pos.eptr, pos.lfn) : Wanted(e)}
Hit == CHOOSE e \in Hits : \A x \in Hits : e.off <= x.off

EndsHere == IF pos.eleft = 0 THEN {}
            ELSE {i \in pos.eptr .. DirEntPerSec - 1 : buf[i] = End}

\* Mutant: dir_eleft is not counted down.
AtUncounted(i) == [pos EXCEPT !.eptr = i, !.lfn = NoLfn]

At(i) == [pos EXCEPT !.eptr = i, !.eleft = DirEntPerSec - i, !.lfn = NoLfn]

\* The caller means to add an entry where the scan ends.
Adding == call.op \in {"create", "mkdir"} \/ call.at = "scanto"

\* The scan ended at p, with b in the buffer.
NotThere(p, b) ==
  \/ /\ Adding
     /\ Goto(IF call.op = "mkdir" THEN "alloc" ELSE "short")
     /\ pos' = p /\ buf' = b
  \/ /\ call.at = "empty"
     /\ Goto("reload")
     /\ pos' = [p EXCEPT !.lba = call.lba] /\ buf' = b
  \/ /\ call.op = "list" /\ Return(FALSE) /\ list' = NotListing
  \/ /\ call.op # "list" /\ call.at = "scan" /\ ~Adding /\ Fails

Load == /\ Scanning /\ pos.eleft = 0 /\ ~NoMore(pos)
        /\ pos' = [NextSector(pos) EXCEPT !.eptr = 0, !.eleft = DirEntPerSec]
        /\ buf' = slots[NextSector(pos).lba]
        /\ UNCHANGED <<fat, fat_dur, slots, call, ok, list, faults>>

\* Mutant: the sector is scanned again.
PassSectorAgain ==
  /\ Scanning /\ pos.eleft > 0 /\ Hits = {} /\ EndsHere = {}
  /\ pos' = At(0)
  /\ UNCHANGED <<fat, fat_dur, slots, buf, call, ok, list, faults>>

PassSector ==
  /\ Scanning /\ pos.eleft > 0 /\ Hits = {} /\ EndsHere = {}
  /\ pos' = [At(DirEntPerSec) EXCEPT
               !.lfn = LfnAt(buf, pos.eptr, pos.lfn, DirEntPerSec)]
  /\ UNCHANGED <<fat, fat_dur, slots, buf, call, ok, list, faults>>

ScanEnds ==
  /\ Scanning /\ Hits = {}
  /\ \/ EndsHere # {} /\ NotThere(At(Min(EndsHere)), buf)
     \/ pos.eleft = 0 /\ NoMore(pos) /\ NotThere([pos EXCEPT !.sect = @ + 1], buf)
  /\ UNCHANGED <<fat, fat_dur, slots, faults>>

\* Where an earlier scan may have stopped: behind an entry, or at the end.
Stops(sector) ==
  {i + 1 : i \in Shortly(sector, 0)}
  \cup {Min({i \in Places : sector[i] = End} \cup {DirEntPerSec})}

\* dir_eptr and dir_buf, when a read fails.  A call's first read finds there
\* what the last call left, others what this call did.  (At best: a transfer
\* may fail half way.)
LeftBehind ==
  IF pos.sect = -1 /\ call.at = "scan"
    THEN UNION {UNION {{<<e, SectorAt(d, k)>> : e \in Stops(SectorAt(d, k))} :
                         k \in Reached(d)} : d \in LiveDirs}
    ELSE {<<pos.eptr, buf>>}

\* A transfer that fails ends the scan like the end of the directory: fat_get,
\* or the read, by which time the position is that of the next sector.
ScanFails ==
  /\ Scanning /\ pos.eleft = 0 /\ ReadFault
  /\ \/ ClusterDone(pos) /\ NotThere([pos EXCEPT !.sect = @ + 1], buf)
     \/ /\ ~NoMore(pos)
        /\ \E left \in LeftBehind :
             NotThere([NextSector(pos) EXCEPT !.eptr = left[1]], left[2])
  /\ UNCHANGED <<fat, fat_dur, slots>>

-----------------------------------------------------------------------------
(* An entry is found.                                                      *)

ScanHits == /\ Scanning /\ Hits # {}
            /\ UNCHANGED <<fat, fat_dur, slots, faults>>

\* file_stat; file_open to read; file_open to write; dir_create and
\* file_rename, which want no such entry; dir_remove, which wants none at all.
FoundAnswers ==
  /\ ScanHits
  /\ \/ call.op = "stat" /\ Return(TRUE)
     \/ call.op = "open" /\ Return(~Hit.dir)
     \/ call.op = "create" /\ Return(~Hit.dir /\ ~Hit.ro)
     \/ call.op = "mkdir" /\ Return(FALSE)
     \/ call.at \in {"scanto", "empty"} /\ Return(FALSE)
  /\ UNCHANGED list

\* dir_read, for a program that lists a directory and keeps its place with
\* dir_save_state.
FoundNext ==
  /\ ScanHits /\ call.op = "list"
  /\ Return(TRUE)
  /\ list' = [list EXCEPT !.pos = At(Hit.off + 1), !.seen = Append(@, Hit.name)]

\* file_setattr, file_delete, dir_remove and file_rename keep the entry.
Keep(place) == [call EXCEPT !.at = place, !.entry = Hit, !.lba = pos.lba]

FoundToChange ==
  /\ ScanHits /\ call.at = "scan"
  /\ \/ call.op = "setattr" /\ call' = Keep("store")
     \/ call.op = "delete" /\ ~Hit.dir /\ ~Hit.ro /\ call' = Keep("mark")
  /\ UNCHANGED <<pos, buf, ok, list>>

\* Mutant: dir_remove does not look whether the directory is empty.
FoundToRemoveUnlooked ==
  /\ ScanHits /\ call.at = "scan"
  /\ call.op = "rmdir" /\ Hit.dir /\ Hit.clust # Root
  /\ call' = Keep("mark")
  /\ UNCHANGED <<pos, buf, ok, list>>

FoundToRemove ==
  /\ ScanHits /\ call.at = "scan"
  /\ call.op = "rmdir" /\ Hit.dir /\ Hit.clust # Root
  /\ call' = Keep("empty")
  /\ pos' = DirOpen(At(Hit.off + 1), Hit.clust)
  /\ UNCHANGED <<buf, ok, list>>

FoundToRename ==
  /\ ScanHits /\ call.at = "scan" /\ call.op = "rename"
  /\ call' = [Keep("scanto") EXCEPT !.name = call.other, !.other = call.name]
  /\ pos' = DirOpen(At(Hit.off + 1), call.dir)
  /\ UNCHANGED <<buf, ok, list>>

FoundRefused ==
  /\ ScanHits /\ call.at = "scan"
  /\ \/ call.op = "delete" /\ (Hit.dir \/ Hit.ro)
     \/ call.op = "rmdir" /\ (~Hit.dir \/ Hit.clust = Root)
  /\ Fails

-----------------------------------------------------------------------------
(* Changes to a sector that is in the buffer.                              *)

Unread == UNCHANGED <<fat, fat_dur, faults>>

SumOf(slot) == IF slot.kind = "short" THEN Chksum[slot.short] ELSE -1

\* _mark_entry_deleted: the short entry, and the LFN slots that go with it.
Marked(sector, off) ==
  LET mine(i) == \A j \in i .. off - 1 :
                   sector[j].kind = "lfn" /\ sector[j].sum = SumOf(sector[off])
  IN  [i \in Places |-> IF i <= off /\ mine(i) THEN Deleted ELSE sector[i]]

Write(l, sector) == slots' = [slots EXCEPT ![l] = sector] /\ Unread

Store == /\ call.at = "store"
         /\ \E ro \in BOOLEAN : Write(pos.lba, [buf EXCEPT ![call.entry.off].ro = ro])
         /\ Return(TRUE) /\ UNCHANGED list

\* The entry of a directory that is removed goes before its chain does.
MarkDeleted ==
  /\ call.at = "mark"
  /\ Write(pos.lba, Marked(buf, call.entry.off))
  /\ IF call.op = "rename" THEN Return(TRUE) /\ UNCHANGED list
     ELSE /\ call' = [call EXCEPT !.new = call.entry.clust,
                        !.at = IF call.entry.clust = 0 THEN "flush" ELSE "free"]
          /\ UNCHANGED <<pos, buf, ok, list>>

Reload == /\ call.at = "reload"
          /\ buf' = slots[pos.lba]
          /\ Goto(IF call.op = "mkdir" THEN "short" ELSE "mark")
          /\ UNCHANGED <<fat, fat_dur, slots, pos, faults>>

\* Mutant: dir_buf is taken to be what it was.
RestoreUnread == /\ call.at = "restore"
                 /\ Goto("scan")
                 /\ UNCHANGED <<fat, fat_dur, slots, pos, buf, faults>>

\* dir_restore_state.
Restore == /\ call.at = "restore"
           /\ buf' = slots[pos.lba]
           /\ Goto("scan")
           /\ UNCHANGED <<fat, fat_dur, slots, pos, faults>>

\* A call that cannot go on returns.
TransferFails ==
  /\ \/ call.at \in {"reload", "restore"} /\ ReadFault
     \/ call.at \in {"store", "mark", "fill", "insert", "dots", "clear", "wipe"}
          /\ WriteFault
     \/ call.at \in {"alloc", "grow", "link", "free"} /\ Fault
     \/ call.at = "flush" /\ WriteFault
  /\ Return(FALSE)
  /\ list' = IF call.op = "list" THEN NotListing ELSE list
  /\ UNCHANGED <<fat, fat_dur, slots>>

-----------------------------------------------------------------------------
(* _file_create: a new entry where the scan ended.                         *)

\* _check_shortname_collision: from the cluster the scan ended in.
Taken(s) == \E x \in Shorts(pos.clust) : x.short = s

Candidate == ShortName[call.name][call.n]

Fits == pos.eptr + Parts[call.name] < DirEntPerSec

TakeShort == /\ call' = [call EXCEPT !.short = Candidate, !.off = pos.eptr,
                                     !.at = IF Fits THEN "insert" ELSE "fill"]
             /\ UNCHANGED <<ok, list>>

TryNext == IF call.n < MaxTail
             THEN call' = [call EXCEPT !.n = @ + 1] /\ UNCHANGED <<pos, ok, list>>
             ELSE call' = Idle /\ ok' = FALSE /\ pos' = AtRest /\ UNCHANGED list

\* A clean name is not looked for; for others the scan's sector is read again.
ChooseShort ==
  /\ call.at = "short"
  /\ \/ Parts[call.name] = 0 /\ TakeShort /\ UNCHANGED <<pos, buf>>
     \/ /\ Parts[call.name] > 0 /\ ~Taken(Candidate)
        /\ TakeShort /\ buf' = slots[pos.lba] /\ UNCHANGED pos
     \/ /\ Parts[call.name] > 0 /\ Taken(Candidate)
        /\ buf' = slots[pos.lba]
        /\ TryNext
  /\ UNCHANGED <<fat, fat_dur, slots, faults>>

\* A read that fails ends the search: no collision; or it is that of the
\* scan's sector: a collision.
ChooseFails ==
  /\ call.at = "short" /\ Parts[call.name] > 0 /\ ReadFault
  /\ \/ TakeShort /\ buf' = slots[pos.lba] /\ UNCHANGED pos
     \/ TryNext /\ UNCHANGED buf
  /\ UNCHANGED <<fat, fat_dur, slots>>

\* Mutant: the End stays in the sector that had no room.
FillNothing == /\ call.at = "fill"
               /\ Write(pos.lba, buf)
               /\ Goto("next") /\ UNCHANGED <<pos, buf>>

\* No room here: the rest of the sector is marked deleted.
Fill == /\ call.at = "fill"
        /\ buf' = [i \in Places |-> IF i < pos.eptr THEN buf[i] ELSE Deleted]
        /\ Write(pos.lba, buf')
        /\ Goto("next") /\ UNCHANGED pos

NextHasRoom == /\ call.at = "next" /\ ~NoMore(pos)
               /\ pos' = NextSector(pos) /\ buf' = slots[NextSector(pos).lba]
               /\ call' = [call EXCEPT !.at = "insert", !.off = 0]
               /\ UNCHANGED <<fat, fat_dur, slots, ok, list, faults>>

\* The root cannot grow, another directory does.
GrowFrom(p) == \/ p.clust = Root /\ Fails
               \/ p.clust # Root /\ Goto("grow") /\ pos' = p /\ UNCHANGED buf

NextIsNone == /\ call.at = "next" /\ NoMore(pos)
              /\ GrowFrom([pos EXCEPT !.sect = @ + 1])
              /\ UNCHANGED <<fat, fat_dur, slots, faults>>

\* A read that fails counts as the end of the chain.
NextFails == /\ call.at = "next" /\ ReadFault
             /\ \/ ClusterDone(pos) /\ GrowFrom([pos EXCEPT !.sect = @ + 1])
                \/ ~NoMore(pos) /\ GrowFrom(NextSector(pos))
             /\ UNCHANGED <<fat, fat_dur, slots>>

\* fat_alloc: any free cluster, marked Eoc.
Alloc(c) == c \in Clusters /\ fat[c] = 0 /\ fat' = [fat EXCEPT ![c] = Eoc]
Full == \A c \in Clusters : fat[c] # 0

Grow == /\ call.at = "grow"
        /\ \E c \in Clusters :
             Alloc(c) /\ call' = [call EXCEPT !.at = "link", !.new = c]
        /\ UNCHANGED <<fat_dur, slots, pos, buf, ok, list, faults>>

NoCluster == /\ call.at \in {"alloc", "grow"} /\ Full
             /\ Fails
             /\ UNCHANGED <<fat, fat_dur, slots, faults>>

LinkIn == fat' = [fat EXCEPT ![pos.clust] = call.new]

\* Mutant: the FAT is not flushed.
LinkNewUnflushed ==
  /\ call.at = "link"
  /\ LinkIn
  /\ pos' = [pos EXCEPT !.clust = call.new, !.sect = 0, !.lba = <<call.new, 0>>]
  /\ call' = [call EXCEPT !.at = "wipe", !.n = 1]
  /\ UNCHANGED <<fat_dur, slots, buf, ok, list, faults>>

LinkNew == /\ call.at = "link"
           /\ LinkIn /\ fat_dur' = fat'
           /\ pos' = [pos EXCEPT !.clust = call.new, !.sect = 0,
                                 !.lba = <<call.new, 0>>]
           /\ call' = [call EXCEPT !.at = "wipe", !.n = 1]
           /\ UNCHANGED <<slots, buf, ok, list, faults>>

\* The new cluster is in the chain when the flush fails.
LinkUnflushed == /\ call.at = "link" /\ WriteFault
                 /\ LinkIn
                 /\ Fails
                 /\ UNCHANGED <<fat_dur, slots>>

\* The sectors of a new cluster but the first.
ClearSector == /\ call.at \in {"clear", "wipe"} /\ call.n < Spc
               /\ Write(<<call.new, call.n>>, Filled(End))
               /\ call' = [call EXCEPT !.n = @ + 1]
               /\ UNCHANGED <<pos, buf, ok, list>>

Wiped == /\ call.at = "wipe" /\ call.n >= Spc
         /\ buf' = Filled(End)
         /\ call' = [call EXCEPT !.at = "insert", !.off = 0]
         /\ UNCHANGED <<fat, fat_dur, slots, pos, ok, list, faults>>

\* The sector with the entry for call.name, and an End behind it.
WithEntry ==
  LET parts == Parts[call.name]
      e == call.entry
  IN  [i \in Places |->
         IF i \in call.off .. call.off + parts - 1
           THEN LfnSlot(call.name, parts - (i - call.off), Chksum[call.short])
         ELSE IF i = call.off + parts
           THEN ShortSlot(call.short, e.dir, e.ro, e.clust)
         ELSE IF i = call.off + parts + 1 THEN End
         ELSE buf[i]]

\* Mutant: the old entry's sector is not read again.
InsertUnread == /\ call.at = "insert"
                /\ Write(pos.lba, WithEntry)
                /\ IF call.op = "rename"
                     THEN /\ Goto("mark")
                          /\ pos' = [pos EXCEPT !.lba = call.lba]
                          /\ buf' = WithEntry
                     ELSE Return(TRUE) /\ UNCHANGED list

Insert == /\ call.at = "insert"
          /\ Write(pos.lba, WithEntry)
          /\ IF call.op = "rename"
               THEN /\ Goto("reload")
                    /\ pos' = [pos EXCEPT !.lba = call.lba]
                    /\ UNCHANGED buf
               ELSE Return(TRUE) /\ UNCHANGED list

-----------------------------------------------------------------------------
(* dir_create makes the new directory before the entry that names it.      *)

\* Mutant: the cluster is used as it is.
NewClusterUncleared(c) ==
  /\ Alloc(c)
  /\ call' = [call EXCEPT !.at = "reload", !.n = 0, !.new = c,
                          !.entry = [NoEntry EXCEPT !.dir = TRUE, !.clust = c]]

NewCluster(c) ==
  /\ Alloc(c)
  /\ call' = [call EXCEPT !.at = "dots", !.new = c,
                          !.entry = [NoEntry EXCEPT !.dir = TRUE, !.clust = c]]

\* Mutant: the FAT is not flushed before the entry is written.
MakeAllocUnflushed == /\ call.at = "alloc"
                      /\ \E c \in Clusters : NewCluster(c)
                      /\ UNCHANGED <<fat_dur, slots, pos, buf, ok, list, faults>>

MakeAlloc == /\ call.at = "alloc"
             /\ \E c \in Clusters : NewCluster(c)
             /\ fat_dur' = fat'
             /\ UNCHANGED <<slots, pos, buf, ok, list, faults>>

MakeUnflushed == /\ call.at = "alloc" /\ WriteFault
                 /\ \E c \in Clusters : Alloc(c)
                 /\ Fails
                 /\ UNCHANGED <<fat_dur, slots>>

MakeDots == /\ call.at = "dots"
            /\ Write(<<call.new, 0>>, [i \in Places |-> IF i < 2 THEN Dot ELSE End])
            /\ call' = [call EXCEPT !.at = "clear", !.n = 1]
            /\ UNCHANGED <<pos, buf, ok, list>>

Cleared == /\ call.at = "clear" /\ call.n >= Spc
           /\ call' = [call EXCEPT !.at = "reload", !.n = 0]
           /\ UNCHANGED <<fat, fat_dur, slots, pos, buf, ok, list, faults>>

-----------------------------------------------------------------------------
(* _free_chain.  What a free cluster holds is not kept apart.              *)

FreeOne == /\ call.at = "free"
           /\ fat' = [fat EXCEPT ![call.new] = 0]
           /\ slots' = [l \in Sectors |-> IF l[1] = call.new THEN Filled(Junk)
                                                             ELSE slots[l]]
           /\ call' = IF fat[call.new] \in Clusters
                        THEN [call EXCEPT !.new = fat[call.new]]
                        ELSE [call EXCEPT !.at = "flush"]
           /\ UNCHANGED <<fat_dur, pos, buf, ok, list, faults>>

FlushLast == /\ call.at = "flush"
             /\ fat_dur' = fat
             /\ Return(TRUE)
             /\ UNCHANGED <<fat, slots, list, faults>>

-----------------------------------------------------------------------------
(* Programs.                                                               *)

Start(op, d, n, m) ==
  /\ call' = [Idle EXCEPT !.op = op, !.at = "scan", !.dir = d, !.name = n,
                          !.other = m]
  /\ pos' = DirOpen(pos, d)
  /\ ok' = TRUE
  /\ UNCHANGED <<fat, fat_dur, slots, buf, faults>>

NameCalls == scenario.calls \ {"list", "rename"}

CallOn(op, d, n) == op # "rmdir" \/ ~list.on \/ list.dir = Root

\* A program does not remove the directory it is listing.
NameCall == /\ \E op \in NameCalls, d \in LiveDirs, n \in scenario.names :
                 CallOn(op, d, n) /\ Start(op, d, n, Garbled)
            /\ UNCHANGED list

RenameCall == /\ "rename" \in scenario.calls
              /\ \E d \in LiveDirs, n, m \in scenario.names : Start("rename", d, n, m)
              /\ UNCHANGED list

ListCall == /\ "list" \in scenario.calls /\ ~list.on
            /\ \E d \in LiveDirs :
                 /\ Start("list", d, Garbled, Garbled)
                 /\ list' = [NotListing EXCEPT !.on = TRUE, !.dir = d]

ListNext == /\ list.on
            /\ call' = [Idle EXCEPT !.op = "list", !.at = "restore",
                                    !.dir = list.dir]
            /\ pos' = list.pos /\ ok' = TRUE
            /\ UNCHANGED <<fat, fat_dur, slots, buf, list, faults>>

Caller == call.op = "idle" /\ (NameCall \/ RenameCall \/ ListCall \/ ListNext)

Kernel ==
  \/ Load \/ PassSector \/ ScanEnds \/ ScanFails
  \/ FoundAnswers \/ FoundNext \/ FoundToChange \/ FoundToRemove
  \/ FoundToRename \/ FoundRefused
  \/ Store \/ MarkDeleted \/ Reload \/ Restore \/ TransferFails
  \/ ChooseShort \/ ChooseFails \/ Fill \/ NextHasRoom \/ NextIsNone \/ NextFails
  \/ Grow \/ NoCluster \/ LinkNew \/ LinkUnflushed \/ ClearSector \/ Wiped \/ Insert
  \/ MakeAlloc \/ MakeUnflushed \/ MakeDots \/ Cleared
  \/ FreeOne \/ FlushLast

\* As in FileIO.
Sync == /\ faults.crash < scenario.crashes
        /\ fat_dur # fat /\ fat_dur' = fat
        /\ UNCHANGED <<fat, slots, pos, buf, call, ok, list, faults>>

\* At any moment, also between the linking and the clearing of a cluster.
Crash == /\ faults.crash < scenario.crashes
         /\ faults' = [faults EXCEPT !.crash = @ + 1]
         /\ fat' = fat_dur
         /\ call' = Idle /\ ok' = TRUE /\ pos' = AtRest /\ buf' = Filled(End)
         /\ list' = NotListing
         /\ UNCHANGED <<fat_dur, slots>>

\* A scan would run into what a former owner of a cluster left there.  dir_read
\* takes such bytes for entries, whatever they are; a call that fails while it
\* links a cluster to a directory and clears it, or a restart then, leaves it so.
JunkShows ==
  /\ call.op = "idle"
  /\ \E d \in LiveDirs : \E k \in Reached(d), i \in Places :
       /\ SectorAt(d, k)[i] = Junk
       /\ \A j \in 0 .. i : SectorAt(d, k)[j] # End

\* Not code: it watches which names stay, and whether junk shows.
Watch == /\ steady' = IF ~list'.on THEN {}
                       ELSE IF list.on THEN steady \cap ListedIn(list.dir)'
                       ELSE ListedIn(list.dir)'
         /\ exposed' = (exposed \/ JunkShows')
         /\ UNCHANGED scenario

\* What programs find once junk shows is anything, and is not followed.
Unfollowed == exposed /\ UNCHANGED vars

Next == \/ ~exposed /\ (Caller \/ Kernel \/ Sync \/ Crash) /\ Watch
        \/ Unfollowed

\* A call that has begun runs: nothing else has the processor.
Spec == Init /\ [][Next]_vars /\ WF_vars(Kernel /\ Watch)

-----------------------------------------------------------------------------
(* Properties.                                                             *)

Steps == {"", "scan", "scanto", "empty", "reload", "restore", "store", "mark",
          "alloc", "dots", "clear", "short", "fill", "next", "grow", "link",
          "wipe", "insert", "free", "flush"}
ShortNames == {ShortName[n][i] : n \in Names, i \in 0 .. MaxTail}
Listed == Names \cup {Garbled} \cup {Shown[s] : s \in ShortNames}

Slots ==
  {End, Deleted, Dot, Junk}
  \cup {LfnSlot(n, i, Chksum[s]) : n \in Names, i \in 1 .. DirEntPerSec, s \in ShortNames}
  \cup {ShortSlot(s, dir, ro, c) : s \in ShortNames, dir \in BOOLEAN, ro \in BOOLEAN,
                                   c \in Dirs}

IsPos(p) ==
  /\ p.clust \in Dirs /\ p.sect \in -1 .. Max({RootSectors, Spc}) + 1
  /\ p.lba \in Sectors
  /\ p.eptr \in 0 .. DirEntPerSec /\ p.eleft \in {0, DirEntPerSec - p.eptr}

\* Types: until junk shows, the iterator stays on a sector of a directory and
\* inside it, and a call has somewhere to work.
TypeOK ==
  /\ fat \in [Clusters -> Links] /\ fat_dur \in [Clusters -> Links]
  /\ slots \in [Sectors -> [Places -> Slots]]
  /\ IsPos(pos) /\ IsPos(list.pos)
  /\ buf \in [Places -> Slots]
  /\ call.op \in scenario.calls \cup {"idle"} /\ call.at \in Steps
  /\ call.dir \in Dirs /\ call.lba \in Sectors /\ call.off \in 0 .. DirEntPerSec
  /\ {call.name, call.other, call.entry.name} \subseteq Listed
  /\ call.new \in {0} \cup Clusters /\ call.entry.clust \in Dirs
  /\ ok \in BOOLEAN /\ exposed \in BOOLEAN /\ list.on \in BOOLEAN /\ list.dir \in Dirs
  /\ steady \subseteq Listed

\* Until junk shows, what _file_create, file_delete, file_rename, dir_create,
\* dir_remove and file_setattr do to the names, read as dir_read reads them, is
\* one change of the tree at a time, and to a restart each is done or not begun
\* (NameSpace).
tree ==
  LET live == LiveDirs
  IN  [d \in Dirs |->
         IF d \in live
           THEN {[name |-> e.name, dir |-> e.dir, ro |-> e.ro, clust |-> e.clust] :
                   e \in Listing(d)}
           ELSE {}]
pending == IF call.op = "rename" /\ call.at \in {"reload", "mark"}
             THEN <<call.dir, call.other, call.name>> ELSE <<>>

Namespace == INSTANCE NameSpace
               WITH trouble <- IF faults.read > 0 \/ exposed THEN -1 ELSE faults.crash
IsNameSpace == Namespace!Spec

\* dir_read never finds two entries of one name in a directory: the lookup
\* before _file_create sees every sector, and file_rename takes the old entry
\* away from where it is.
NamesUnique == \A d \in LiveDirs :
  Cardinality(ListedIn(d)) = Cardinality(ShortsAt(d))

\* No scan of _dir_next_sector runs into what a former owner of a cluster left
\* there: dir_create and the growth in _file_create clear every sector before
\* an entry leads to it, and what lies behind an End stays there.
NoJunk == ~JunkShows

Returns == /\ call.op # "idle" /\ call'.op = "idle"
           /\ faults = NoFaults /\ faults' = faults

\* What a call reports in DF is what the next one finds: an entry made or
\* renamed can be looked up, a removed one cannot, and file_stat says "not
\* found" only of what is not there, however the directory grew.
Answers ==
  [][Returns => \A d \in {call.dir} : LET there == ListedIn(d)' IN
       /\ call.op \in {"stat", "open", "create", "mkdir", "setattr"} /\ ok'
            => call.name \in there
       /\ call.op \in {"delete", "rmdir"} /\ ok' => call.name \notin there
       /\ call.op = "rename" /\ ok' => call.name \in there /\ call.other \notin there
       /\ call.op = "stat" /\ ~ok' => call.name \notin there]_vars

\* A program that lists a directory with dir_read, and makes other calls in
\* between (dir_save_state, dir_restore_state), is told each name that is there
\* all the time exactly once.
ListingRight ==
  [][list.on /\ ~list'.on /\ Returns =>
       \A n \in steady : Cardinality({i \in DOMAIN list.seen : list.seen[i] = n}) = 1]_vars

\* Now and after a restart, as long as no read fails and until junk shows, an
\* entry made by dir_create names a cluster that is in use, begins with "." and
\* "..", and belongs to no other directory; when dir_remove frees a cluster, no
\* entry names it any more.
DirsSafe == faults.read = 0 /\ ~exposed =>
  LET live == LiveDirs IN
  /\ \A c \in live \ {Root} :
       /\ slots[<<c, 0>>][0] = Dot
       /\ fat_dur[c] # 0 /\ \A d \in Clusters : fat_dur[d] # c
  /\ \A c, d \in live : c # d => Subdirs(c) \cap Subdirs(d) = {}
  /\ \A d \in live : \A e, f \in Listing(d) :
       e.dir /\ f.dir /\ e.clust = f.clust => e.name = f.name

\* Every call returns: the scans and the search for a free tail end, whatever
\* fails.
CallsReturn == (call.op # "idle") ~> (call.op = "idle")

-----------------------------------------------------------------------------
(* What comments say and the code does not do.                             *)

\* A directory has no two entries of one short name: what
\* _check_shortname_collision is there for.
ShortNamesUnique == \A d \in LiveDirs :
  Cardinality({x.short : x \in Shorts(d)}) = Cardinality(ShortsAt(d))

\* A rename that fails partway leaves "a harmless duplicate entry (both names
\* pointing at the same data), never a lost one".
RenameKeeps ==
  [][call.op = "rename" /\ call.at # "scan" =>
       \A d \in {call.dir} : {call.name, call.other} \cap ListedIn(d)' # {}]_vars
=============================================================================
