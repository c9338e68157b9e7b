---------------------------- MODULE FileIOProofs ----------------------------
(***************************************************************************)
(* Files never share a cluster, for every volume, any number of files and  *)
(* FCBs, and whatever transfers fail (NoCrossLink); and until a sector     *)
(* write fails, a restart at any moment finds them apart as well           *)
(* (CrashSafe).                                                            *)
(*                                                                         *)
(* The FAT is seen as a graph: a head is the first cluster of a file, a    *)
(* link goes from a cluster to the next.  Sole says that no cluster has    *)
(* two references; Orphan that one has none.  The lemmas say how the five  *)
(* things the file calls do to the FAT (allocate a head, allocate, link,   *)
(* cut, free) preserve this; the proof then goes through the actions.      *)
(*                                                                         *)
(* The cursor of every open file is where its position says (CursorOK):    *)
(* chains do not meet, so the chain of an open file outlives what happens  *)
(* to the others, and each operation on an FCB moves its cursor along its  *)
(* own.                                                                    *)
(*                                                                         *)
(* No cluster is lost while nothing fails (NoLostClusters): every cluster  *)
(* in use is in the chain of a file or in the hands of the call, and the   *)
(* chain of a file that no FCB is ahead of is as long as its size asks.    *)
(*                                                                         *)
(* FileIO implements ByteFile (IsByteFile): a byte of a file stays the     *)
(* same unless it is written to.  BytesInv is what the buffers, the FCBs   *)
(* and the directory entries say of each other: a valid buffer is its      *)
(* sector, an FCB of unchanged size agrees with its entry.                 *)
(*                                                                         *)
(* A restart can leave a chain shorter than its file; what needs it to be  *)
(* long enough is stated for faults.crash = 0.  Step and state leave out   *)
(* LeaveChain, after which nothing moves.                                  *)
(***************************************************************************)
EXTENDS FileIO, FiniteSetTheorems, WellFoundedInduction, SequenceTheorems, TLAPS

\* What the cluster numbers and links are.
LEMMA ClusterFacts ==
  /\ Clusters \subseteq Nat /\ 0 \notin Clusters /\ Eoc \notin Clusters
  /\ Eoc # 0 /\ Eoc \in Nat /\ -1 \notin Clusters
BY VolumeConstants DEF Clusters, Eoc

\* Owning fewer first clusters does no harm.
LEMMA SoleFewer ==
  ASSUME NEW t, NEW H, NEW G, Sole(t, H), \A f \in Files : G[f] \subseteq H[f]
  PROVE  Sole(t, G)
BY DEF Sole

\* Allocate c, perhaps as the head of file g.
LEMMA SoleAlloc ==
  ASSUME NEW t \in [Clusters -> Links], NEW H, NEW G, NEW g, Sole(t, H),
         NEW c \in Clusters, t[c] = 0,
         \A f \in Files : G[f] \subseteq Clusters,
         \A f \in Files : G[f] \subseteq H[f] \cup (IF f = g THEN {c} ELSE {})
  PROVE  /\ Sole([t EXCEPT ![c] = Eoc], G)
         /\ (\A f \in Files : c \notin G[f])
              => Orphan([t EXCEPT ![c] = Eoc], G, c)
<1> DEFINE u == [t EXCEPT ![c] = Eoc]
<1>1. /\ u[c] = Eoc
      /\ \A d \in Clusters : d # c => u[d] = t[d]
  OBVIOUS
<1>2. /\ \A f \in Files : c \notin H[f]
      /\ \A d \in Clusters : t[d] # c
  BY DEF Sole
<1>3. /\ \A d \in Clusters : u[d] # c
      /\ Eoc \notin Clusters /\ Eoc # 0
  BY <1>1, <1>2, ClusterFacts
<1>4. \A f, k \in Files : f # k => G[f] \cap G[k] = {}
  BY <1>2 DEF Sole
<1>5. \A f \in Files : \A h \in G[f] :
        u[h] # 0 /\ \A d \in Clusters : u[d] # h
  BY <1>1, <1>3 DEF Sole
<1>6. \A d \in Clusters : u[d] \in Clusters =>
        /\ u[u[d]] # 0
        /\ \A e \in Clusters : u[e] = u[d] => e = d
  BY <1>1, <1>2, <1>3 DEF Sole
<1>7. Sole(u, G)
  BY <1>4, <1>5, <1>6 DEF Sole
<1> HIDE DEF u
<1>8. (\A f \in Files : c \notin G[f]) => Orphan(u, G, c)
  BY <1>1, <1>3 DEF Orphan
<1> QED
  BY <1>7, <1>8 DEF u

\* Link the orphan c behind p.
LEMMA SoleLink ==
  ASSUME NEW t \in [Clusters -> Links], NEW H, Sole(t, H),
         \A f \in Files : H[f] \subseteq Clusters,
         NEW p, NEW c, Orphan(t, H, c)
  PROVE  Sole([t EXCEPT ![p] = c], H)
<1> DEFINE u == [t EXCEPT ![p] = c]
<1>1. \A d \in Clusters : u[d] = IF d = p THEN c ELSE t[d]
  OBVIOUS
<1>2. c # 0 /\ c \in Clusters
  BY ClusterFacts DEF Orphan
<1> HIDE DEF u
<1>3. \A f \in Files : \A h \in H[f] :
        u[h] # 0 /\ \A d \in Clusters : u[d] # h
  BY <1>1, <1>2 DEF Sole, Orphan
<1>4. \A d \in Clusters : u[d] \in Clusters =>
        /\ u[u[d]] # 0
        /\ \A e \in Clusters : u[e] = u[d] => e = d
  BY <1>1, <1>2 DEF Sole, Orphan
<1> QED
  BY <1>3, <1>4 DEF Sole, u

\* Cut the chain behind p.
LEMMA SoleCut ==
  ASSUME NEW t \in [Clusters -> Links], NEW H, Sole(t, H),
         \A f \in Files : H[f] \subseteq Clusters,
         NEW p \in Clusters, t[p] \in Clusters
  PROVE  /\ Sole([t EXCEPT ![p] = Eoc], H)
         /\ Orphan([t EXCEPT ![p] = Eoc], H, t[p])
<1> DEFINE u == [t EXCEPT ![p] = Eoc]
<1>1. \A d \in Clusters : u[d] = IF d = p THEN Eoc ELSE t[d]
  OBVIOUS
<1>2. Eoc # 0 /\ Eoc \notin Clusters
  BY ClusterFacts
<1> HIDE DEF u
<1>3. \A f \in Files : \A h \in H[f] :
        u[h] # 0 /\ \A d \in Clusters : u[d] # h
  BY <1>1, <1>2 DEF Sole
<1>4. \A d \in Clusters : u[d] \in Clusters =>
        /\ u[u[d]] # 0
        /\ \A e \in Clusters : u[e] = u[d] => e = d
  BY <1>1, <1>2 DEF Sole
<1>5. Orphan(u, H, t[p])
  BY <1>1, <1>2 DEF Sole, Orphan
<1> QED
  BY <1>3, <1>4, <1>5 DEF Sole, u

\* Free the orphan c: what followed it becomes an orphan.
LEMMA SoleFree ==
  ASSUME NEW t \in [Clusters -> Links], NEW H, Sole(t, H),
         \A f \in Files : H[f] \subseteq Clusters,
         NEW c, Orphan(t, H, c)
  PROVE  /\ Sole([t EXCEPT ![c] = 0], H)
         /\ t[c] \in Clusters => Orphan([t EXCEPT ![c] = 0], H, t[c])
<1> DEFINE u == [t EXCEPT ![c] = 0]
<1>1. \A d \in Clusters : u[d] = IF d = c THEN 0 ELSE t[d]
  BY DEF Orphan
<1>2. 0 \notin Clusters
  BY ClusterFacts
<1> HIDE DEF u
<1>3. \A f \in Files : \A h \in H[f] :
        u[h] # 0 /\ \A d \in Clusters : u[d] # h
  BY <1>1, <1>2 DEF Sole, Orphan
<1>4. \A d \in Clusters : u[d] \in Clusters =>
        /\ u[u[d]] # 0
        /\ \A e \in Clusters : u[e] = u[d] => e = d
  BY <1>1, <1>2 DEF Sole, Orphan
<1>5. t[c] \in Clusters => Orphan(u, H, t[c])
  BY <1>1, <1>2 DEF Sole, Orphan
<1> QED
  BY <1>3, <1>4, <1>5 DEF Sole, u

-----------------------------------------------------------------------------
(* Heads.                                                                  *)

\* A first cluster is a cluster.
LEMMA HeadsType == \A f \in Files : Heads[f] \subseteq Clusters
BY DEF Heads, EntryHeads

\* A step that leaves entries and first clusters alone leaves the heads alone.
LEMMA SameHeads ==
  ASSUME UNCHANGED dirent,
         \A k \in Fcbs : /\ fcb'[k].file = fcb[k].file
                         /\ fcb'[k].sclust = fcb[k].sclust
  PROVE  Heads' = Heads
BY DEF Heads, EntryHeads, OpenOn

FcbRecords ==
  [file : Files \cup {NoFile}, open : BOOLEAN, write : BOOLEAN, sizechg : BOOLEAN,
   iovalid : BOOLEAN, sclust : {0} \cup Clusters, cclust : {0} \cup Clusters,
   csect : 0 .. Spc, boff : 0 .. SecSize - 1, fsize : 0 .. MaxSize,
   fpos : 0 .. MaxSize, iobuf : Buffers]

SameUse(r, q) == /\ IsFcb(q)
                 /\ q.file = r.file /\ q.sclust = r.sclust
                 /\ q.write = r.write

\* Two changes that leave the use of an FCB alone, one after the other.
LEMMA SameUseTrans ==
  ASSUME NEW r, NEW q, NEW p, SameUse(r, q), SameUse(q, p)
  PROVE  SameUse(r, p)
BY DEF SameUse

\* Moving the cursor.
LEMMA MovedUse ==
  ASSUME NEW r, IsFcb(r), NEW c, NEW s, NEW b
  PROVE  SameUse(r, [r EXCEPT !.cclust = c, !.csect = s, !.boff = b])
BY DEF SameUse, IsFcb

\* _fcb_seek_to moves the cursor.
LEMMA SeekToUse ==
  ASSUME NEW r, IsFcb(r), NEW target
  PROVE  SameUse(r, SeekTo(r, target))
BY MovedUse DEF SeekTo

\* So does file_seek, whatever the target.
LEMMA SoughtUse ==
  ASSUME NEW r, IsFcb(r), NEW target
  PROVE  SameUse(r, Sought(r, target))
<1> DEFINE q == IF target = 0
                  THEN [r EXCEPT !.cclust = r.sclust, !.csect = 0, !.boff = 0]
                  ELSE SeekTo(r, target)
<1>1. SameUse(r, [r EXCEPT !.cclust = r.sclust, !.csect = 0, !.boff = 0])
  BY DEF SameUse, IsFcb
<1>2. SameUse(r, q)
  BY <1>1, SeekToUse
<1>3. Sought(r, target) = [q EXCEPT !.fpos = target, !.iovalid = FALSE]
  BY DEF Sought
<1> HIDE DEF q
<1>4. SameUse(q, [q EXCEPT !.fpos = target, !.iovalid = FALSE])
  BY <1>2 DEF SameUse, IsFcb
<1> QED
  BY <1>2, <1>3, <1>4, SameUseTrans

\* So does the pending step to the next cluster.
LEMMA ResolveUse ==
  ASSUME NEW r, IsFcb(r)
  PROVE  SameUse(r, Resolve(r))
BY DEF Resolve, SameUse, IsFcb

\* A sector read into the buffer, or a change of it.
LEMMA LoadUse ==
  ASSUME NEW r, IsFcb(r), NEW buffer
  PROVE  /\ SameUse(r, [r EXCEPT !.iobuf = buffer, !.iovalid = TRUE])
         /\ SameUse(r, [r EXCEPT !.iobuf = buffer])
BY DEF SameUse, IsFcb

\* The step over a chunk.
LEMMA AdvanceUse ==
  ASSUME NEW r, IsFcb(r), NEW n
  PROVE  SameUse(r, Advance(r, n))
<1> DEFINE moved == [r EXCEPT !.boff = @ + n, !.fpos = @ + n]
<1>1. SameUse(r, moved)
  BY DEF SameUse, IsFcb
<1> HIDE DEF moved
<1>2. SameUse(moved, [moved EXCEPT !.boff = 0, !.csect = @ + 1,
                                   !.iovalid = FALSE])
  BY <1>1 DEF SameUse, IsFcb
<1>3. Advance(r, n) \in {moved, [moved EXCEPT !.boff = 0, !.csect = @ + 1,
                                              !.iovalid = FALSE]}
  BY DEF Advance, moved
<1> QED
  BY <1>1, <1>2, <1>3, SameUseTrans

\* A size that grows.
LEMMA GrownUse ==
  ASSUME NEW r, IsFcb(r), r.write
  PROVE  SameUse(r, Grown(r))
BY DEF Grown, SameUse, IsFcb
-----------------------------------------------------------------------------
(* Steps that touch neither the FAT nor an entry, and keep the use of each *)
(* FCB.                                                                    *)

\* A step that counts a failure, or none, keeps the counters right.
LEMMA FaultTypes ==
  ASSUME Shape, Fault \/ UNCHANGED faults
  PROVE  /\ DOMAIN faults' = {"read", "write", "crash"}
         /\ faults'.write \in Nat /\ faults'.crash \in Nat
         /\ faults'.write = 0 => faults.write = 0 /\ ~WriteFault
BY FileConstants DEF Shape, Fault, ReadFault, WriteFault

FaultFree == /\ DOMAIN faults' = {"read", "write", "crash"}
             /\ faults'.write \in Nat /\ faults'.crash \in Nat
             /\ faults'.write = 0 => faults.write = 0 /\ ~WriteFault

Registers == {"op", "at", "k", "f", "n", "bytes", "c"}

\* A step that leaves FAT and entries alone, and the use of every FCB,
\* keeps the invariant.
LEMMA QuietStep ==
  ASSUME IInv, UNCHANGED <<fat, fat_dur, dirent>>,
         DOMAIN fcb' = Fcbs, \A k \in Fcbs : SameUse(fcb[k], fcb'[k]),
         DOMAIN call' = Registers, FaultFree, CallOK',
         call'.at \in {"link", "free"} =>
           call.at \in {"link", "free"} /\ call'.c = call.c
  PROVE  IInv'
<1>1. Heads' = Heads
  BY SameHeads DEF SameUse
<1>2. Shape'
  BY DEF IInv, Shape, SameUse, IsFcb, FaultFree, Registers
<1>3. Exclusive'
  BY DEF IInv, Exclusive, SameUse
<1>4. CallHolds'
  BY <1>1 DEF IInv, CallHolds, Orphan
<1>5. FatSole' /\ DurSole'
  BY <1>1 DEF IInv, FatSole, DurSole, Sole, FaultFree
<1> QED
  BY <1>2, <1>3, <1>4, <1>5 DEF IInv

\* Every FCB is one to begin with.
LEMMA SameUseSelf ==
  ASSUME IInv
  PROVE  \A k \in Fcbs : SameUse(fcb[k], fcb[k])
BY DEF IInv, Shape, SameUse

\* One FCB is replaced by one of the same use.
LEMMA OneFcb ==
  ASSUME IInv, NEW k \in Fcbs, NEW r, SameUse(fcb[k], r),
         fcb' = [fcb EXCEPT ![k] = r]
  PROVE  DOMAIN fcb' = Fcbs /\ \A l \in Fcbs : SameUse(fcb[l], fcb'[l])
BY SameUseSelf DEF IInv, Shape

\* The call is over.
LEMMA ReturnIdle ==
  ASSUME NEW ok, Return(ok)
  PROVE  DOMAIN call' = Registers /\ CallOK'
         /\ call'.at \notin {"link", "free"}
BY DEF Return, Idle, CallOK, Registers
\* The FCB of the call in progress.
LEMMA CurUse ==
  ASSUME IInv, call.op \in {"read", "write", "close"}
  PROVE  call.k \in Fcbs /\ IsFcb(Cur) /\ SameUse(Cur, Cur)
BY DEF IInv, CallOK, Shape, Cur, SameUse

\* FaultTypes from the invariant.
LEMMA FaultKept ==
  ASSUME IInv, Fault \/ UNCHANGED faults
  PROVE  FaultFree
BY FaultTypes DEF IInv, FaultFree

\* file_read keeps the invariant: only cursor and buffer change.
LEMMA ReadStep ==
  ASSUME IInv, ReadSector \/ ReadFails \/ ReadChunk \/ ReadDone
  PROVE  IInv'
<1>1. /\ call.op = "read" /\ call.k \in Fcbs /\ IsFcb(Cur)
      /\ SameUse(Cur, Cur) /\ FaultFree /\ DOMAIN call = Registers
  BY CurUse, FaultKept
  DEF ReadSector, ReadFails, ReadChunk, ReadDone, IInv, Shape, Registers
<1>2. CASE ReadSector
  <2>1. /\ SameUse(Cur, Resolve(Cur))
        /\ IsFcb(Resolve(Cur))
    BY <1>1, ResolveUse DEF SameUse
  <2>2. PICK r : /\ SameUse(Cur, r)
                 /\ fcb' = [fcb EXCEPT ![call.k] = r]
    BY <1>2, <2>1, LoadUse, SameUseTrans DEF ReadSector
  <2>3. DOMAIN fcb' = Fcbs /\ \A k \in Fcbs : SameUse(fcb[k], fcb'[k])
    BY <1>1, <2>2, OneFcb DEF Cur
  <2>4. CallOK'
    BY <1>1, <1>2, <2>3 DEF IInv, CallOK, Cur, SameUse, ReadSector
  <2> QED
    BY <1>1, <1>2, <2>3, <2>4, QuietStep DEF ReadSector
<1>3. CASE ReadFails
  <2>1. DOMAIN fcb' = Fcbs /\ \A k \in Fcbs : SameUse(fcb[k], fcb'[k])
    BY <1>1, <1>3, ResolveUse, OneFcb, SameUseSelf
    DEF ReadFails, Cur, IInv, Shape
  <2> QED
    BY <1>1, <1>3, <2>1, ReturnIdle, QuietStep DEF ReadFails
<1>4. CASE ReadChunk
  <2>1. PICK n : /\ fcb' = [fcb EXCEPT ![call.k] = Advance(fcb[call.k], n)]
                 /\ \E b : call' = [call EXCEPT !.n = @ - n, !.bytes = b]
    BY <1>1, <1>4 DEF ReadChunk, IInv, Shape
  <2>2. DOMAIN fcb' = Fcbs /\ \A k \in Fcbs : SameUse(fcb[k], fcb'[k])
    <3>1. SameUse(fcb[call.k], Advance(fcb[call.k], n))
      BY <1>1, AdvanceUse DEF Cur
    <3> QED
      BY <1>1, <2>1, <3>1, OneFcb
  <2>3. /\ DOMAIN call' = Registers /\ call'.op = call.op
        /\ call'.k = call.k /\ call'.at = call.at /\ call'.c = call.c
    BY <1>1, <2>1 DEF Registers
  <2>4. CallOK'
    BY <1>1, <2>2, <2>3 DEF IInv, CallOK, Cur, SameUse
  <2> QED
    BY <1>1, <1>4, <2>2, <2>3, <2>4, QuietStep DEF ReadChunk
<1>5. CASE ReadDone
  <2>1. fcb' = fcb /\ UNCHANGED <<fat, fat_dur, dirent>>
    BY <1>5 DEF ReadDone
  <2> QED
    BY <1>1, <1>5, <2>1, ReturnIdle, QuietStep, SameUseSelf
    DEF ReadDone, IInv, Shape
<1> QED
  BY <1>2, <1>3, <1>4, <1>5

\* So do the steps of file_write that allocate and link nothing.
LEMMA WriteQuietStep ==
  ASSUME IInv, \/ WriteSector \/ WriteSectorFails \/ GrowFull \/ LinkFails
               \/ WriteChunk \/ WriteChunkFails \/ WriteDone
  PROVE  IInv'
<1>1. /\ call.op = "write" /\ call.k \in Fcbs /\ IsFcb(Cur) /\ Cur.write
      /\ SameUse(Cur, Cur) /\ FaultFree /\ DOMAIN call = Registers
  BY CurUse, FaultKept
  DEF WriteSector, WriteSectorFails, GrowFull, LinkFails, WriteChunk,
      WriteChunkFails, WriteDone, WriteMore, Fault, IInv, Shape, CallOK,
      Registers
<1>2. CASE WriteSector
  <2>1. /\ SameUse(Cur, Resolve(Cur))
        /\ IsFcb(Resolve(Cur))
    BY <1>1, ResolveUse DEF SameUse
  <2>2. PICK r : /\ SameUse(Cur, r)
                 /\ fcb' = [fcb EXCEPT ![call.k] = r]
    BY <1>2, <2>1, LoadUse, SameUseTrans DEF WriteSector
  <2>3. DOMAIN fcb' = Fcbs /\ \A k \in Fcbs : SameUse(fcb[k], fcb'[k])
    BY <1>1, <2>2, OneFcb DEF Cur
  <2>4. CallOK'
    <3>1. call' = call /\ CallOK
      BY <1>2 DEF WriteSector, IInv
    <3> QED
      BY <1>1, <2>3, <3>1 DEF CallOK, Cur, SameUse
  <2> QED
    BY <1>1, <1>2, <2>3, <2>4, QuietStep DEF WriteSector, WriteMore
<1>3. CASE WriteSectorFails
  <2>1. DOMAIN fcb' = Fcbs /\ \A k \in Fcbs : SameUse(fcb[k], fcb'[k])
    BY <1>1, <1>3, ResolveUse, OneFcb, SameUseSelf
    DEF WriteSectorFails, Cur, IInv, Shape
  <2> QED
    BY <1>1, <1>3, <2>1, ReturnIdle, QuietStep DEF WriteSectorFails
<1>4. CASE WriteChunk
  <2>1. PICK b, n : fcb' = [fcb EXCEPT ![call.k] =
                       Grown(Advance([fcb[call.k] EXCEPT !.iobuf = b], n))]
    BY <1>1, <1>4 DEF WriteChunk, IInv, Shape
  <2>2. SameUse(Cur, [Cur EXCEPT !.iobuf = b])
    BY <1>1, LoadUse
  <2>3. SameUse(Cur, Advance([Cur EXCEPT !.iobuf = b], n))
    <3>1. IsFcb([Cur EXCEPT !.iobuf = b])
      BY <2>2 DEF SameUse
    <3> QED
      BY <2>2, <3>1, AdvanceUse, SameUseTrans
  <2>4. SameUse(Cur, Grown(Advance([Cur EXCEPT !.iobuf = b], n)))
    <3>1. /\ IsFcb(Advance([Cur EXCEPT !.iobuf = b], n))
          /\ Advance([Cur EXCEPT !.iobuf = b], n).write
      BY <1>1, <2>3 DEF SameUse
    <3> QED
      BY <2>3, <3>1, GrownUse, SameUseTrans
  <2>5. DOMAIN fcb' = Fcbs /\ \A k \in Fcbs : SameUse(fcb[k], fcb'[k])
    BY <1>1, <2>1, <2>4, OneFcb DEF Cur
  <2>6. /\ DOMAIN call' = Registers /\ call'.op = call.op
        /\ call'.k = call.k /\ call'.at = call.at /\ call'.c = call.c
    BY <1>1, <1>4 DEF WriteChunk, Registers
  <2>7. CallOK'
    BY <1>1, <2>5, <2>6 DEF IInv, CallOK, Cur, SameUse
  <2> QED
    BY <1>1, <1>4, <2>5, <2>6, <2>7, QuietStep DEF WriteChunk, WriteMore
<1>5. CASE WriteChunkFails
  <2>1. DOMAIN fcb' = Fcbs /\ \A k \in Fcbs : SameUse(fcb[k], fcb'[k])
    BY <1>1, <1>5, LoadUse, OneFcb DEF WriteChunkFails, Cur, IInv, Shape
  <2> QED
    BY <1>1, <1>5, <2>1, ReturnIdle, QuietStep DEF WriteChunkFails
<1>6. CASE GrowFull \/ LinkFails \/ WriteDone
  <2>1. fcb' = fcb /\ UNCHANGED <<fat, fat_dur, dirent>> /\ \E ok : Return(ok)
    BY <1>6 DEF GrowFull, LinkFails, WriteDone
  <2> QED
    BY <1>1, <2>1, ReturnIdle, QuietStep, SameUseSelf DEF IInv, Shape
<1> QED
  BY <1>2, <1>3, <1>4, <1>5, <1>6
-----------------------------------------------------------------------------
(* Calls that only start, or that are over at once.                        *)

\* file_open keeps it: an FCB gets the entry's first cluster, which is the
\* file's already.
LEMMA OpenStep ==
  ASSUME IInv, NEW k \in Fcbs, NEW f \in Files, NEW mode, OpenCall(k, f, mode)
  PROVE  IInv'
<1>1. /\ call.op = "idle" /\ UNCHANGED <<fat, fat_dur, call>>
      /\ call.at = "" /\ FaultFree
      /\ fcb[k].file = NoFile /\ ~fcb[k].write
      /\ \A l \in Fcbs : fcb[l].file = f => mode = 0 /\ ~fcb[l].write
  <2>1. call.op = "idle" /\ UNCHANGED <<fat, fat_dur, call>> /\ call.at = ""
    BY DEF OpenCall, IInv, CallOK
  <2>2. Fault \/ UNCHANGED faults
    BY DEF OpenCall, OpenExisting, OpenAppendFails, OpenNew, OpenFails
  <2>3. fcb[k].file = NoFile /\ ~fcb[k].write
    BY DEF OpenCall, Closed
  <2>4. \A l \in Fcbs : fcb[l].file = f => mode = 0 /\ ~fcb[l].write
    BY DEF OpenCall, Available, OpenOn
  <2> QED
    BY <2>1, <2>2, <2>3, <2>4, FaultKept
<1>2. CASE OpenFails(f, mode)
  BY <1>1, <1>2, QuietStep, SameUseSelf DEF OpenFails, IInv, Shape, CallOK, Registers
<1>3. ASSUME NEW r, fcb' = [fcb EXCEPT ![k] = r], IsFcb(r), r.file = f,
             r.write => mode # 0,
             DOMAIN dirent' = Files, \A g \in Files : IsEntry(dirent'[g]),
             \A g \in Files : EntryHeads'[g] \subseteq EntryHeads[g],
             {r.sclust} \cap Clusters \subseteq EntryHeads[f]
      PROVE  IInv'
  <2>1. \A g \in Files : Heads'[g] \subseteq Heads[g]
    BY <1>1, <1>3 DEF Heads, OpenOn, IInv, Shape
  <2>2. Shape'
    BY <1>1, <1>3 DEF IInv, Shape, FaultFree
  <2>3. Exclusive'
    BY <1>1, <1>3 DEF IInv, Shape, Exclusive
  <2>4. CallOK' /\ CallHolds'
    BY <1>1 DEF IInv, CallOK, CallHolds
  <2>5. FatSole' /\ DurSole'
    BY <1>1, <2>1, SoleFewer DEF IInv, FatSole, DurSole, FaultFree
  <2> QED
    BY <2>2, <2>3, <2>4, <2>5 DEF IInv
<1>4. ASSUME dirent[f] # Absent
      PROVE  /\ IsFcb(Opened(f, mode)) /\ Opened(f, mode).file = f
             /\ Opened(f, mode).write = (mode # 0)
             /\ {Opened(f, mode).sclust} \cap Clusters \subseteq EntryHeads[f]
  <2>1. dirent[f].clust \in {0} \cup Clusters
    BY <1>4 DEF IInv, Shape, IsEntry
  <2>2. EntryHeads[f] = {dirent[f].clust} \cap Clusters
    BY DEF EntryHeads
  <2>3. /\ Opened(f, mode).file = f /\ Opened(f, mode).open
        /\ Opened(f, mode).write = (mode # 0)
        /\ Opened(f, mode).sizechg = (mode = 1)
        /\ Opened(f, mode).sclust = dirent[f].clust
        /\ DOMAIN Opened(f, mode) = DOMAIN Closed
    BY DEF Opened, Closed
  <2>4. f # NoFile /\ (mode = 1 => mode # 0)
    BY FileConstants
  <2>5. IsFcb(Opened(f, mode))
    BY <2>1, <2>3, <2>4 DEF IsFcb, Closed
  <2> QED
    BY <2>2, <2>3, <2>5
<1>5. CASE OpenExisting(k, f, mode) \/ OpenAppendFails(k, f, mode)
  <2>1. dirent[f] # Absent /\ dirent' = dirent
    BY <1>5 DEF OpenExisting, OpenAppendFails, Absent
  <2>2. PICK r : /\ fcb' = [fcb EXCEPT ![k] = r]
                 /\ \/ r = Opened(f, mode)
                    \/ r = [SeekTo(Opened(f, mode), dirent[f].size)
                              EXCEPT !.fpos = dirent[f].size]
    BY <1>5 DEF OpenExisting, OpenAppendFails
  <2>3. SameUse(Opened(f, mode), r)
    <3>1. SameUse(Opened(f, mode), SeekTo(Opened(f, mode), dirent[f].size))
      BY <1>4, <2>1, SeekToUse
    <3> QED
      BY <1>4, <2>1, <2>2, <3>1 DEF SameUse, IsFcb
  <2>4. /\ IsFcb(r) /\ r.file = f /\ (r.write => mode # 0)
        /\ {r.sclust} \cap Clusters \subseteq EntryHeads[f]
    BY <1>4, <2>1, <2>3 DEF SameUse
  <2>5. EntryHeads' = EntryHeads
    BY <2>1 DEF EntryHeads
  <2> QED
    BY <1>3, <2>1, <2>2, <2>4, <2>5 DEF IInv, Shape
<1>6. CASE OpenNew(k, f, mode)
  <2> DEFINE r == [Closed EXCEPT !.file = f, !.open = TRUE, !.write = TRUE]
  <2>1. IsFcb(r) /\ r.file = f /\ r.sclust = 0 /\ mode # 0
    BY <1>6, FileConstants DEF Closed, IsFcb, OpenNew
  <2>2. /\ DOMAIN dirent' = Files /\ \A g \in Files : IsEntry(dirent'[g])
        /\ \A g \in Files : EntryHeads'[g] \subseteq EntryHeads[g]
    <3>1. dirent' = [dirent EXCEPT ![f] = [clust |-> 0, size |-> 0]]
      BY <1>6 DEF OpenNew
    <3>2. \A g \in Files : dirent'[g] = IF g = f THEN [clust |-> 0, size |-> 0]
                                                ELSE dirent[g]
      BY <3>1 DEF IInv, Shape
    <3>3. DOMAIN dirent' = Files /\ \A g \in Files : IsEntry(dirent'[g])
      BY <3>1, <3>2 DEF IInv, Shape, IsEntry
    <3>4. \A g \in Files : EntryHeads'[g] \subseteq EntryHeads[g]
      BY <3>2, ClusterFacts DEF EntryHeads
    <3> QED
      BY <3>3, <3>4
  <2> QED
    BY <1>3, <1>6, <2>1, <2>2, ClusterFacts DEF OpenNew
<1> QED
  BY <1>2, <1>5, <1>6 DEF OpenCall

\* The FCB that file_write is called on is the only one on its file, and one
\* that writes from then on.
LEMMA WritesNow ==
  ASSUME fcb \in [Fcbs -> FcbRecords] \/ IInv, NEW k \in Fcbs, NEW x, WriteCall(k, x)
  PROVE  LET q == [fcb[k] EXCEPT !.write = TRUE]
         IN  /\ fcb' = [fcb EXCEPT ![k] = q]
             /\ q.file = fcb[k].file /\ q.open /\ fcb[k].open /\ q.write
             /\ \A g \in {"sizechg", "iovalid", "sclust", "cclust", "csect", "boff",
                           "fsize", "fpos", "iobuf"} : q[g] = fcb[k][g]
             /\ \A l \in Fcbs : fcb[l].file = fcb[k].file => l = k
<1>1. fcb[k].open /\ OpenOn(fcb[k].file) = {k} /\ fcb' = [fcb EXCEPT ![k].write = TRUE]
  BY DEF WriteCall
<1>2. DOMAIN fcb[k] = {"file", "open", "write", "sizechg", "iovalid", "sclust",
                       "cclust", "csect", "boff", "fsize", "fpos", "iobuf"}
  BY DEF IInv, Shape, IsFcb, FcbRecords
<1>3. \A l \in Fcbs : fcb[l].file = fcb[k].file => l = k
  BY <1>1 DEF OpenOn
<1> QED
  BY <1>1, <1>2, <1>3

\* The beginning of file_write keeps the invariant.
LEMMA WriteCallStep ==
  ASSUME IInv, NEW k \in Fcbs, NEW x, WriteCall(k, x)
  PROVE  IInv'
<1> DEFINE q == [fcb[k] EXCEPT !.write = TRUE]
<1>1. /\ fcb' = [fcb EXCEPT ![k] = q] /\ q.file = fcb[k].file /\ q.sclust = fcb[k].sclust
      /\ q.open /\ fcb[k].open /\ q.write
      /\ \A l \in Fcbs : fcb[l].file = fcb[k].file => l = k
  BY WritesNow
<1>2. /\ UNCHANGED <<fat, fat_dur, dirent, faults>> /\ call'.op = "write" /\ call'.k = k
      /\ call'.at \in {"first", "loop"} /\ DOMAIN call' = Registers
  BY DEF WriteCall, Start, Idle, Registers
<1>3. IsFcb(fcb[k]) /\ fcb[k].file \in Files /\ DOMAIN fcb = Fcbs
  BY <1>1 DEF IInv, Shape, IsFcb
<1>4. IsFcb(q)
  BY <1>3 DEF IsFcb
<1> HIDE DEF q
<1>5. /\ fcb'[k] = q /\ DOMAIN fcb' = Fcbs /\ \A l \in Fcbs : l # k => fcb'[l] = fcb[l]
  BY <1>1, <1>3
<1>6. \A l \in Fcbs : fcb'[l].file = fcb[l].file /\ fcb'[l].sclust = fcb[l].sclust
  BY <1>1, <1>5
<1>7. Heads' = Heads
  BY <1>2, <1>6, SameHeads
<1>8. Shape'
  BY <1>2, <1>4, <1>5 DEF IInv, Shape, Registers
<1>9. Exclusive'
  BY <1>1, <1>5, <1>6 DEF IInv, Exclusive
<1>10. CallOK' /\ CallHolds'
  BY <1>1, <1>2, <1>3, <1>5 DEF CallOK, CallHolds, Cur
<1>11. FatSole' /\ DurSole'
  BY <1>2, <1>7 DEF IInv, FatSole, DurSole, Sole
<1> QED
  BY <1>8, <1>9, <1>10, <1>11 DEF IInv

\* The beginning of a call on an open FCB keeps it.
LEMMA CallStep ==
  ASSUME IInv, NEW k \in Fcbs, NEW x,
         SeekCall(k, x) \/ ReadCall(k, x) \/ WriteCall(k, x)
  PROVE  IInv'
<1>1. /\ IsFcb(fcb[k]) /\ fcb[k].open /\ fcb[k].file \in Files
      /\ UNCHANGED <<fat, fat_dur, dirent>> /\ FaultFree
  BY FaultKept
  DEF IInv, Shape, IsFcb, SeekCall, ReadCall, WriteCall, Start
<1>2. CASE SeekCall(k, x)
  <2>1. UNCHANGED call /\ call.at = "" /\ call.op = "idle"
    BY <1>2 DEF SeekCall, IInv, CallOK
  <2>2. DOMAIN fcb' = Fcbs /\ \A l \in Fcbs : SameUse(fcb[l], fcb'[l])
    <3>1. SameUse(fcb[k], Sought(fcb[k], x))
      BY <1>1, SoughtUse
    <3>2. fcb' = fcb \/ fcb' = [fcb EXCEPT ![k] = Sought(fcb[k], x)]
      BY <1>2 DEF SeekCall, IInv, Shape
    <3> QED
      BY <3>1, <3>2, OneFcb, SameUseSelf DEF IInv, Shape
  <2> QED
    BY <1>1, <2>1, <2>2, QuietStep DEF IInv, CallOK, Shape, Registers
<1>3. CASE ReadCall(k, x)
  <2>1. fcb' = fcb /\ call.op = "idle" /\ call'.k = k
        /\ DOMAIN call' = Registers /\ call'.op = "read" /\ call'.at = ""
    BY <1>3 DEF ReadCall, Start, Idle, Registers
  <2>2. CallOK'
    BY <1>1, <2>1 DEF CallOK, Cur
  <2> QED
    BY <1>1, <2>1, <2>2, QuietStep, SameUseSelf DEF IInv, Shape
<1>4. CASE WriteCall(k, x)
  BY <1>4, WriteCallStep
<1> QED
  BY <1>2, <1>3, <1>4
-----------------------------------------------------------------------------
(* file_write's changes of the FAT.                                        *)

\* A first cluster: what it changes in FAT, FCB and heads.
LEMMA FirstHeads ==
  ASSUME IInv, call.op = "write", NEW c \in Clusters, FirstCluster(c)
  PROVE  /\ fat[c] = 0 /\ fat' = [fat EXCEPT ![c] = Eoc]
         /\ DOMAIN fcb' = Fcbs /\ \A k \in Fcbs : IsFcb(fcb'[k])
         /\ Exclusive'
         /\ UNCHANGED dirent
         /\ \A k \in Fcbs : /\ fcb'[k].file = fcb[k].file
                            /\ fcb'[k].write = fcb[k].write
         /\ \A f \in Files :
              Heads'[f] \subseteq
                Heads[f] \cup (IF f = Cur.file THEN {c} ELSE {})
<1>1. /\ fat[c] = 0 /\ fat' = [fat EXCEPT ![c] = Eoc] /\ UNCHANGED dirent
      /\ fcb' = [fcb EXCEPT ![call.k] =
                   [fcb[call.k] EXCEPT !.sclust = c, !.cclust = c,
                                       !.sizechg = TRUE]]
  BY DEF FirstCluster, Alloc, IInv, Shape
<1>2. call.k \in Fcbs /\ IsFcb(Cur) /\ Cur.write
  BY CurUse DEF IInv, CallOK
<1> DEFINE r == [fcb[call.k] EXCEPT !.sclust = c, !.cclust = c,
                                    !.sizechg = TRUE]
<1>3. IsFcb(r) /\ r.file = Cur.file /\ r.write = Cur.write /\ r.sclust = c
  BY <1>2 DEF IsFcb, Cur
<1>4. \A k \in Fcbs : fcb'[k] = IF k = call.k THEN r ELSE fcb[k]
  BY <1>1 DEF IInv, Shape
<1>5. DOMAIN fcb' = Fcbs
  BY <1>1 DEF IInv, Shape
<1> HIDE DEF r
<1>6. \A k \in Fcbs : /\ IsFcb(fcb'[k])
                      /\ fcb'[k].file = fcb[k].file
                      /\ fcb'[k].write = fcb[k].write
  BY <1>3, <1>4 DEF IInv, Shape, Cur
<1>7. Exclusive'
  BY <1>6 DEF IInv, Exclusive
<1>8. \A f \in Files :
        Heads'[f] \subseteq Heads[f] \cup (IF f = Cur.file THEN {c} ELSE {})
  BY <1>1, <1>3, <1>4 DEF Heads, EntryHeads, OpenOn, Cur
<1> QED
  BY <1>1, <1>5, <1>6, <1>7, <1>8

\* The types and the ownership of the FAT, from the invariant.
LEMMA FatTypes ==
  ASSUME IInv
  PROVE  /\ fat \in [Clusters -> Links] /\ fat_dur \in [Clusters -> Links]
         /\ {0, Eoc} \subseteq Links /\ Clusters \subseteq Links
         /\ Sole(fat, Heads)
BY DEF IInv, Shape, Links, FatSole

\* The first cluster of a file keeps the invariant: it was free, and the
\* FAT is on the disk before an entry can name it.
LEMMA WriteFirstStep ==
  ASSUME IInv, WriteFirst \/ WriteFirstFails
  PROVE  IInv'
<1>1. /\ call.op = "write" /\ call.at = "first" /\ FaultFree
      /\ call.k \in Fcbs /\ Cur.file \in Files /\ Cur.write
      /\ DOMAIN call = Registers
  BY FaultKept
  DEF WriteFirst, WriteFirstFails, Fault, IInv, CallOK, Shape, Registers
<1>2. ASSUME NEW c \in Clusters, FirstCluster(c), CallOK',
             DOMAIN call' = Registers, call'.at \notin {"link", "free"},
             fat_dur' = fat' \/ (fat_dur' = fat_dur /\ WriteFault)
      PROVE  IInv'
  <2>1. Sole(fat', Heads') /\ fat' \in [Clusters -> Links]
    <3>1. /\ fat[c] = 0 /\ fat' = [fat EXCEPT ![c] = Eoc]
          /\ \A f \in Files : Heads'[f] \subseteq
                Heads[f] \cup (IF f = Cur.file THEN {c} ELSE {})
      BY <1>1, <1>2, FirstHeads
    <3>2. \A f \in Files : Heads'[f] \subseteq Clusters
      BY DEF Heads, EntryHeads
    <3>3. Sole([fat EXCEPT ![c] = Eoc], Heads')
      BY <3>1, <3>2, SoleAlloc, FatTypes
    <3> QED
      BY <3>1, <3>3, FatTypes
  <2>2. Shape'
    BY <1>1, <1>2, <2>1, FirstHeads DEF IInv, Shape, FaultFree, Registers
  <2>3. DurSole'
    BY <1>1, <1>2, <2>1 DEF DurSole, FaultFree
  <2>4. CallHolds'
    BY <1>2 DEF CallHolds
  <2> QED
    BY <1>1, <1>2, <2>1, <2>2, <2>3, <2>4, FirstHeads DEF IInv, FatSole
<1>3. CASE WriteFirst
  <2>1. PICK c \in Clusters : FirstCluster(c)
    BY <1>3 DEF WriteFirst
  <2>2. /\ DOMAIN call' = Registers /\ call'.at = "loop"
        /\ call'.op = "write" /\ call'.k = call.k
    BY <1>1, <1>3 DEF WriteFirst, Goto, Registers
  <2>3. CallOK'
    BY <1>1, <2>1, <2>2, FirstHeads DEF CallOK, Cur
  <2> QED
    BY <1>2, <1>3, <2>1, <2>2, <2>3 DEF WriteFirst, Flush
<1>4. CASE WriteFirstFails
  <2>1. DOMAIN call' = Registers /\ CallOK' /\ call'.at \notin {"link", "free"}
        /\ UNCHANGED fat_dur
    BY <1>4, ReturnIdle DEF WriteFirstFails
  <2>2. CASE UNCHANGED <<fat, fcb, dirent, data>>
    BY <1>1, <2>1, <2>2, QuietStep, SameUseSelf DEF IInv, Shape
  <2>3. CASE WriteFault /\ \E c \in Clusters : FirstCluster(c)
    BY <1>2, <2>1, <2>3
  <2> QED
    BY <1>4, <2>2, <2>3 DEF WriteFirstFails
<1> QED
  BY <1>3, <1>4

\* The allocation of a further cluster and its link keep it.
LEMMA GrowStep ==
  ASSUME IInv, Grow \/ LinkNew
  PROVE  IInv'
<1>1. /\ call.op = "write" /\ call.k \in Fcbs /\ Cur.file \in Files /\ Cur.write
      /\ IsFcb(Cur) /\ DOMAIN call = Registers /\ FaultFree
      /\ UNCHANGED <<fat_dur, dirent>>
  BY FaultKept, CurUse
  DEF Grow, LinkNew, WriteMore, IInv, CallOK, Shape, Registers
<1>2. CASE Grow
  <2>1. PICK c \in Clusters : /\ fat[c] = 0 /\ fat' = [fat EXCEPT ![c] = Eoc]
                              /\ call' = [call EXCEPT !.at = "link", !.c = c]
    BY <1>2 DEF Grow, Alloc
  <2>2. fcb' = fcb /\ Heads' = Heads
    BY <1>1, <1>2, SameHeads DEF Grow
  <2>3. \A f \in Files : c \notin Heads[f]
    BY <2>1, FatTypes DEF Sole
  <2>4. Sole(fat', Heads) /\ Orphan(fat', Heads, c)
    BY <2>1, <2>3, SoleAlloc, FatTypes, HeadsType
  <2>5. call'.op = "write" /\ call'.at = "link" /\ call'.c = c /\ call'.k = call.k
        /\ DOMAIN call' = Registers
    BY <1>1, <2>1 DEF Registers
  <2>6. Shape'
    BY <1>1, <2>1, <2>2, <2>5, FatTypes DEF IInv, Shape, FaultFree, Registers
  <2>7. CallOK' /\ CallHolds' /\ Exclusive'
    BY <1>1, <2>2, <2>4, <2>5 DEF IInv, CallOK, CallHolds, Exclusive, Cur
  <2> QED
    BY <1>1, <2>2, <2>4, <2>6, <2>7 DEF IInv, FatSole, DurSole, FaultFree
<1>3. CASE LinkNew
  <2>1. /\ fat' = [fat EXCEPT ![Cur.cclust] = call.c]
        /\ Orphan(fat, Heads, call.c)
    BY <1>3 DEF LinkNew, IInv, CallHolds
  <2>2. Sole(fat', Heads) /\ fat' \in [Clusters -> Links]
    BY <2>1, SoleLink, FatTypes, HeadsType DEF Orphan
  <2>3. SameUse(Cur, [Cur EXCEPT !.cclust = call.c, !.csect = 0])
    BY <1>1 DEF SameUse, IsFcb
  <2>4. DOMAIN fcb' = Fcbs /\ \A k \in Fcbs : SameUse(fcb[k], fcb'[k])
    BY <1>1, <1>3, <2>3, OneFcb DEF LinkNew, Cur, IInv, Shape
  <2>5. Heads' = Heads
    BY <1>1, <2>4, SameHeads DEF SameUse
  <2>6. call'.op = "write" /\ call'.at = "loop" /\ call'.k = call.k
        /\ DOMAIN call' = Registers
    BY <1>1, <1>3 DEF LinkNew, Goto, Registers
  <2>7. Shape'
    BY <1>1, <2>2, <2>4, <2>6 DEF IInv, Shape, FaultFree, Registers, SameUse
  <2>8. CallOK' /\ CallHolds' /\ Exclusive'
    BY <1>1, <2>4, <2>6 DEF IInv, CallOK, CallHolds, Exclusive, Cur, SameUse
  <2> QED
    BY <1>1, <2>2, <2>5, <2>7, <2>8 DEF IInv, FatSole, DurSole, FaultFree
<1> QED
  BY <1>2, <1>3
-----------------------------------------------------------------------------
(* file_close and file_delete.                                             *)

\* Steps that shrink the set of heads and leave the FAT alone.
LEMMA FewerHeadsStep ==
  ASSUME IInv, UNCHANGED <<fat, fat_dur>>, FaultFree, Shape', Exclusive', CallOK',
         \A f \in Files : Heads'[f] \subseteq Heads[f],
         call'.at \in {"link", "free"} => Orphan(fat, Heads', call'.c)
  PROVE  IInv'
<1>1. Sole(fat, Heads') /\ DurSole'
  BY SoleFewer DEF IInv, FatSole, DurSole, FaultFree
<1> QED
  BY <1>1 DEF IInv, CallHolds, FatSole

\* The FCB of a file is given up.
LEMMA ReleaseStep ==
  ASSUME IInv, NEW k \in Fcbs, fcb' = [fcb EXCEPT ![k] = Closed],
         UNCHANGED dirent
  PROVE  /\ DOMAIN fcb' = Fcbs /\ \A l \in Fcbs : IsFcb(fcb'[l])
         /\ Exclusive'
         /\ \A f \in Files : Heads'[f] \subseteq Heads[f]
<1>1. IsFcb(Closed) /\ Closed.file = NoFile
  BY DEF Closed, IsFcb
<1>2. \A l \in Fcbs : fcb'[l] = IF l = k THEN Closed ELSE fcb[l]
  BY DEF IInv, Shape
<1>3. DOMAIN fcb' = Fcbs /\ \A l \in Fcbs : IsFcb(fcb'[l])
  BY <1>1, <1>2 DEF IInv, Shape
<1>4. Exclusive'
  BY <1>1, <1>2 DEF IInv, Exclusive
<1>5. \A f \in Files : Heads'[f] \subseteq Heads[f]
  BY <1>1, <1>2, FileConstants DEF Heads, EntryHeads, OpenOn
<1> QED
  BY <1>3, <1>4, <1>5

\* The beginning of file_close keeps it.
LEMMA CloseCallStep ==
  ASSUME IInv, NEW k \in Fcbs, CloseCall(k)
  PROVE  IInv'
<1>1. /\ IsFcb(fcb[k]) /\ fcb[k].open /\ fcb[k].file \in Files
      /\ call.op = "idle" /\ call.at = ""
      /\ UNCHANGED <<fat, fat_dur, dirent>> /\ FaultFree
  BY FaultKept DEF IInv, Shape, IsFcb, CloseCall, Start, CallOK
<1>2. CASE fcb[k].sizechg
  <2>1. SameUse(fcb[k], [fcb[k] EXCEPT !.open = FALSE])
    BY <1>1 DEF SameUse, IsFcb
  <2>2. DOMAIN fcb' = Fcbs /\ \A l \in Fcbs : SameUse(fcb[l], fcb'[l])
    BY <1>2, <2>1, OneFcb DEF CloseCall, IInv, Shape
  <2>3. /\ call'.op = "close" /\ call'.at = "size" /\ call'.k = k
        /\ DOMAIN call' = Registers
    BY <1>2 DEF CloseCall, Start, Idle, Registers
  <2>4. CallOK'
    BY <1>1, <1>2, <2>2, <2>3 DEF CallOK, Cur, SameUse, IsFcb
  <2> QED
    BY <1>1, <2>2, <2>3, <2>4, QuietStep
<1>3. CASE ~fcb[k].sizechg
  <2>1. fcb' = [fcb EXCEPT ![k] = Closed] /\ UNCHANGED call
    BY <1>3 DEF CloseCall
  <2>2. Shape' /\ CallOK'
    BY <1>1, <2>1, ReleaseStep DEF IInv, Shape, FaultFree, CallOK
  <2> QED
    BY <1>1, <2>1, <2>2, ReleaseStep, FewerHeadsStep
<1> QED
  BY <1>2, <1>3

\* The entry that file_close writes names the cluster the FCB had.
LEMMA CloseSizeStep ==
  ASSUME IInv, CloseSize \/ CloseFails
  PROVE  IInv'
<1>1. /\ call.op = "close" /\ call.k \in Fcbs /\ Cur.file \in Files /\ Cur.write
      /\ IsFcb(Cur) /\ DOMAIN call = Registers /\ FaultFree
      /\ UNCHANGED <<fat, fat_dur, fcb>>
  BY FaultKept, CurUse
  DEF CloseSize, CloseFails, IInv, CallOK, Shape, Registers
<1>2. /\ call'.op = "close" /\ call'.at \in {"trim", "flush"}
      /\ call'.k = call.k /\ DOMAIN call' = Registers /\ CallOK'
  <2>1. /\ call'.op = "close" /\ call'.at \in {"trim", "flush"}
        /\ call'.k = call.k /\ DOMAIN call' = Registers
    BY <1>1 DEF CloseSize, CloseFails, Goto, Registers
  <2> QED
    BY <1>1, <2>1 DEF CallOK, Cur
<1>3. CASE CloseSize
  <2>1. \A f \in Files : dirent'[f] =
          IF f = Cur.file THEN [clust |-> Cur.sclust, size |-> Cur.fsize]
                          ELSE dirent[f]
    BY <1>3 DEF CloseSize, IInv, Shape
  <2>2. Shape'
    <3>1. DOMAIN dirent' = Files
      BY <1>3 DEF CloseSize, IInv, Shape
    <3>2. \A f \in Files : IsEntry(dirent'[f])
      BY <1>1, <2>1 DEF IInv, Shape, IsEntry, IsFcb
    <3> QED
      BY <1>1, <1>2, <3>1, <3>2 DEF IInv, Shape, FaultFree, Registers
  <2>3. \A f \in Files : Heads'[f] \subseteq Heads[f]
    BY <1>1, <2>1 DEF Heads, EntryHeads, OpenOn, Cur
  <2>4. Exclusive'
    BY <1>1 DEF IInv, Exclusive
  <2> QED
    BY <1>1, <1>2, <2>2, <2>3, <2>4, FewerHeadsStep
<1>4. CASE CloseFails
  BY <1>1, <1>2, <1>4, QuietStep, SameUseSelf DEF CloseFails, IInv, Shape
<1> QED
  BY <1>3, <1>4

\* Steps that change the FAT and leave the heads alone.
LEMMA FatStep ==
  ASSUME IInv, UNCHANGED <<fat_dur, dirent, fcb>>, FaultFree,
         fat' \in [Clusters -> Links], Sole(fat', Heads),
         DOMAIN call' = Registers, CallOK',
         call'.at \in {"link", "free"} => Orphan(fat', Heads, call'.c)
  PROVE  IInv'
<1>1. Heads' = Heads
  BY SameHeads
<1>2. Shape' /\ Exclusive'
  BY DEF IInv, Shape, FaultFree, Registers, Exclusive
<1> QED
  BY <1>1, <1>2 DEF IInv, CallHolds, FatSole, DurSole, FaultFree

\* The rest of file_close and file_delete stays the same call.
LEMMA SameCall ==
  ASSUME IInv, call.op \in {"close", "delete"}, UNCHANGED fcb,
         \/ \E place \in {"free", "flush"} : Goto(place)
         \/ \E c : Free(c)
  PROVE  /\ DOMAIN call' = Registers /\ CallOK' /\ call'.at \in {"free", "flush"}
<1>1. /\ DOMAIN call' = Registers /\ call'.op = call.op /\ call'.k = call.k
      /\ call'.at \in {"free", "flush"}
  BY DEF IInv, Shape, Registers, Goto, Free
<1> QED
  BY <1>1 DEF IInv, CallOK, Cur

\* Cutting the chain leaves its tail an orphan, or the file without one.
LEMMA TrimStep ==
  ASSUME IInv, Trim \/ TrimAll
  PROVE  IInv'
<1>1. /\ call.op = "close" /\ call.k \in Fcbs /\ Cur.file \in Files /\ Cur.write
      /\ IsFcb(Cur) /\ DOMAIN call = Registers /\ FaultFree /\ UNCHANGED fat_dur
  BY FaultKept, CurUse DEF Trim, TrimAll, IInv, CallOK, Shape, Registers
<1>2. CASE Trim
  <2>1. UNCHANGED <<dirent, fcb>>
    BY <1>2 DEF Trim
  <2>2. CASE Link(fat, LastOne) \in Clusters
    <3>1. LastOne \in Clusters /\ fat[LastOne] \in Clusters
      BY <2>2, ClusterFacts DEF Link
    <3>2. fat' = [fat EXCEPT ![LastOne] = Eoc] /\ Free(fat[LastOne])
      BY <1>2, <2>2 DEF Trim
    <3>3. Sole(fat', Heads) /\ Orphan(fat', Heads, fat[LastOne])
      BY <3>1, <3>2, SoleCut, FatTypes, HeadsType
    <3>4. fat' \in [Clusters -> Links] /\ call'.c = fat[LastOne]
      BY <1>1, <3>2, FatTypes DEF Free, Registers
    <3>5. DOMAIN call' = Registers /\ CallOK'
      BY <1>1, <2>1, <3>2, SameCall
    <3> QED
      BY <1>1, <2>1, <3>3, <3>4, <3>5, FatStep
  <2>3. CASE Link(fat, LastOne) \notin Clusters
    <3>1. UNCHANGED fat /\ Goto("flush")
      BY <1>2, <2>3 DEF Trim
    <3>2. DOMAIN call' = Registers /\ CallOK' /\ call'.at = "flush"
      BY <1>1, <2>1, <3>1, SameCall DEF Goto, Registers
    <3> QED
      BY <1>1, <2>1, <3>1, <3>2, QuietStep, SameUseSelf DEF IInv, Shape
  <2> QED
    BY <2>2, <2>3
<1>3. CASE TrimAll
  <2>1. UNCHANGED fat
    BY <1>3 DEF TrimAll
  <2>2. CASE Cur.sclust = 0
    <3>1. UNCHANGED <<dirent, fcb>> /\ Goto("flush")
      BY <1>3, <2>2 DEF TrimAll
    <3>2. DOMAIN call' = Registers /\ CallOK' /\ call'.at = "flush"
      BY <1>1, <3>1, SameCall DEF Goto, Registers
    <3> QED
      BY <1>1, <2>1, <3>1, <3>2, QuietStep, SameUseSelf DEF IInv, Shape
  <2>3. CASE Cur.sclust # 0
    <3>0. PICK f \in Files, h \in Clusters : f = Cur.file /\ h = Cur.sclust
      BY <1>1, <2>3 DEF IsFcb
    <3>1. /\ dirent' = [dirent EXCEPT ![f].clust = 0]
          /\ fcb' = [fcb EXCEPT ![call.k].sclust = 0]
          /\ Free(h) /\ h \in Clusters /\ f \in Files /\ f # NoFile
      BY <1>3, <2>3, <3>0, FileConstants DEF TrimAll
    <3>2. /\ DOMAIN fcb' = Fcbs /\ \A l \in Fcbs : IsFcb(fcb'[l])
          /\ \A l \in Fcbs : /\ fcb'[l].file = fcb[l].file
                             /\ fcb'[l].write = fcb[l].write
                             /\ fcb'[l].sclust = IF l = call.k THEN 0
                                                 ELSE fcb[l].sclust
      <4>1. IsFcb([Cur EXCEPT !.sclust = 0])
        BY <1>1 DEF IsFcb
      <4>2. fcb' = [fcb EXCEPT ![call.k] = [Cur EXCEPT !.sclust = 0]]
        BY <1>1, <3>1 DEF Cur, IInv, Shape
      <4>3. \A l \in Fcbs : fcb'[l] = IF l = call.k THEN [Cur EXCEPT !.sclust = 0]
                                                   ELSE fcb[l]
        BY <4>2 DEF IInv, Shape
      <4> QED
        BY <1>1, <4>1, <4>2, <4>3 DEF IInv, Shape, Cur, IsFcb
    <3>3. Exclusive'
      BY <3>2 DEF IInv, Exclusive
    <3>4. /\ DOMAIN dirent' = Files /\ \A g \in Files : IsEntry(dirent'[g])
          /\ dirent'[f].clust = 0
          /\ \A g \in Files : g # f => dirent'[g] = dirent[g]
      <4>1. dirent' = [dirent EXCEPT ![f] = [dirent[f] EXCEPT !.clust = 0]]
        BY <3>1 DEF IInv, Shape
      <4>2. IsEntry([dirent[f] EXCEPT !.clust = 0])
            /\ [dirent[f] EXCEPT !.clust = 0].clust = 0
        BY <3>1 DEF IInv, Shape, IsEntry
      <4>3. \A g \in Files : dirent'[g] = IF g = f
                                 THEN [dirent[f] EXCEPT !.clust = 0]
                                 ELSE dirent[g]
        BY <4>1 DEF IInv, Shape
      <4>4. DOMAIN dirent' = Files
        BY <4>1 DEF IInv, Shape
      <4> QED
        BY <3>1, <4>2, <4>3, <4>4 DEF IInv, Shape
    <3>5. \A g \in Files : Heads'[g] \subseteq Heads[g]
      BY <3>1, <3>2, <3>4, ClusterFacts DEF Heads, EntryHeads, OpenOn
    <3>6. Heads'[f] = {}
      <4>1. EntryHeads'[f] = {}
        BY <3>1, <3>4, ClusterFacts DEF EntryHeads
      <4>2. \A l \in Fcbs : fcb'[l].file = f => l = call.k
        BY <1>1, <3>0, <3>1, <3>2 DEF IInv, Exclusive, Cur
      <4>3. {fcb'[l].sclust : l \in OpenOn(f)'} \cap Clusters = {}
        BY <3>2, <4>2, ClusterFacts DEF OpenOn
      <4> QED
        BY <3>1, <4>1, <4>3 DEF Heads
    <3>7. h \in Heads[f]
      BY <1>1, <3>0, <3>1 DEF Heads, OpenOn, Cur
    <3>8. Orphan(fat, Heads', h)
      <4>1. fat[h] # 0 /\ \A d \in Clusters : fat[d] # h
        BY <3>1, <3>7, FatTypes DEF Sole
      <4>2. \A g \in Files : h \notin Heads'[g]
        BY <3>1, <3>5, <3>6, <3>7, FatTypes DEF Sole
      <4> QED
        BY <3>1, <4>1, <4>2 DEF Orphan
    <3>9. /\ DOMAIN call' = Registers /\ CallOK' /\ call'.c = h
      <4>1. /\ call'.op = "close" /\ call'.k = call.k /\ call'.at = "free"
            /\ DOMAIN call' = Registers /\ call'.c = h
        BY <1>1, <3>1 DEF Free, Registers
      <4> QED
        BY <1>1, <3>2, <4>1 DEF CallOK, Cur
    <3>10. Shape'
      BY <1>1, <2>1, <3>2, <3>4, <3>9 DEF IInv, Shape, FaultFree, Registers
    <3> QED
      BY <1>1, <2>1, <3>3, <3>5, <3>8, <3>9, <3>10, FewerHeadsStep
  <2> QED
    BY <2>2, <2>3
<1> QED
  BY <1>2, <1>3

\* file_delete keeps it: the entry goes, and its chain is an orphan.
LEMMA DeleteStep ==
  ASSUME IInv, NEW f \in Files, DeleteCall(f)
  PROVE  IInv'
<1>1. /\ call.op = "idle" /\ call.at = "" /\ OpenOn(f) = {} /\ FaultFree
      /\ UNCHANGED <<fat, fat_dur, fcb>> /\ DOMAIN call = Registers
  BY FaultKept DEF DeleteCall, IInv, CallOK, Shape, Registers
<1>2. CASE dirent[f] # Absent /\ MarkDeleted(f)
  <2>1. PICK h \in {0} \cup Clusters : h = dirent[f].clust
    BY <1>2 DEF IInv, Shape, IsEntry
  <2>2. /\ dirent' = [dirent EXCEPT ![f] = Absent]
        /\ call'.op = "delete" /\ call'.c = h /\ DOMAIN call' = Registers
        /\ call'.at = IF h = 0 THEN "flush" ELSE "free"
    BY <1>2, <2>1 DEF MarkDeleted, Idle, Registers
  <2>3. \A g \in Files : dirent'[g] = IF g = f THEN Absent ELSE dirent[g]
    BY <2>2 DEF IInv, Shape
  <2>4. Shape'
    <3>1. DOMAIN dirent' = Files
      BY <2>2 DEF IInv, Shape
    <3>2. \A g \in Files : IsEntry(dirent'[g])
      BY <2>3 DEF IInv, Shape, IsEntry, Absent
    <3> QED
      BY <1>1, <2>2, <3>1, <3>2 DEF IInv, Shape, FaultFree, Registers
  <2>5. \A g \in Files : Heads'[g] \subseteq Heads[g]
    <3>1. Absent.clust \notin Clusters
      BY ClusterFacts DEF Absent
    <3>2. \A g \in Files : EntryHeads'[g] \subseteq EntryHeads[g]
      BY <2>3, <3>1 DEF EntryHeads
    <3> QED
      BY <1>1, <3>2 DEF Heads, OpenOn
  <2>6. Heads'[f] = {}
    <3>1. EntryHeads'[f] = {}
      BY <2>3, ClusterFacts DEF EntryHeads, Absent
    <3>2. OpenOn(f)' = {}
      BY <1>1 DEF OpenOn
    <3> QED
      BY <3>1, <3>2 DEF Heads
  <2>7. ASSUME h # 0 PROVE Orphan(fat, Heads', h)
    <3>1. h \in Clusters /\ h \in Heads[f]
      BY <2>1, <2>7 DEF Heads, EntryHeads
    <3>2. fat[h] # 0 /\ \A d \in Clusters : fat[d] # h
      BY <3>1, FatTypes DEF Sole
    <3>3. \A g \in Files : h \notin Heads'[g]
      BY <2>5, <2>6, <3>1, FatTypes DEF Sole
    <3> QED
      BY <3>1, <3>2, <3>3 DEF Orphan
  <2>8. CallOK' /\ Exclusive'
    BY <1>1, <2>2 DEF IInv, CallOK, Exclusive
  <2> QED
    BY <1>1, <2>2, <2>4, <2>5, <2>7, <2>8, FewerHeadsStep
<1>3. CASE UNCHANGED <<dirent, call>>
  BY <1>1, <1>3, QuietStep, SameUseSelf DEF IInv, Shape, CallOK
<1> QED
  BY <1>2, <1>3 DEF DeleteCall

\* _free_chain frees an orphan, and the next cluster becomes one.
LEMMA FreeStep ==
  ASSUME IInv, FreeOne \/ FreeFails
  PROVE  IInv'
<1>1. /\ call.op \in {"close", "delete"} /\ call.at = "free" /\ FaultFree
      /\ UNCHANGED <<fat_dur, dirent, fcb>> /\ Orphan(fat, Heads, call.c)
  BY FaultKept DEF FreeOne, FreeFails, IInv, CallOK, CallHolds
<1>2. CASE FreeOne
  <2>1. /\ fat' = [fat EXCEPT ![call.c] = 0]
        /\ \/ Goto("flush")
           \/ fat[call.c] # Eoc /\ Free(fat[call.c])
    BY <1>2 DEF FreeOne
  <2>2. /\ Sole(fat', Heads) /\ fat' \in [Clusters -> Links]
        /\ fat[call.c] \in Clusters => Orphan(fat', Heads, fat[call.c])
    BY <1>1, <2>1, SoleFree, FatTypes, HeadsType
  <2>3. DOMAIN call' = Registers /\ CallOK'
    BY <1>1, <2>1, SameCall
  <2>4. call'.at \in {"link", "free"} => Orphan(fat', Heads, call'.c)
    <3>1. fat[call.c] \in Links /\ fat[call.c] # 0
      BY <1>1, FatTypes DEF Orphan
    <3>2. fat[call.c] # Eoc => fat[call.c] \in Clusters
      BY <3>1 DEF Links
    <3>3. /\ Goto("flush") => call'.at = "flush"
          /\ Free(fat[call.c]) => call'.c = fat[call.c]
      BY DEF Goto, Free, IInv, Shape
    <3> QED
      BY <2>1, <2>2, <3>2, <3>3
  <2> QED
    BY <1>1, <2>2, <2>3, <2>4, FatStep
<1>3. CASE FreeFails
  <2>1. DOMAIN call' = Registers /\ CallOK' /\ call'.at \notin {"link", "free"}
    <3>1. CASE Goto("flush")
      BY <1>1, <3>1, SameCall DEF Goto, IInv, Shape
    <3>2. CASE Return(FALSE)
      BY <3>2, ReturnIdle
    <3> QED
      BY <1>3, <3>1, <3>2 DEF FreeFails
  <2> QED
    BY <1>1, <1>3, <2>1, QuietStep, SameUseSelf DEF FreeFails, IInv, Shape
<1> QED
  BY <1>2, <1>3

\* fat_flush puts on the disk what is safe in memory.
LEMMA FlushStep ==
  ASSUME IInv, FlushLast \/ FlushFails
  PROVE  IInv'
<1>1. /\ call.op \in {"close", "delete"} /\ UNCHANGED <<fat, dirent>> /\ FaultFree
      /\ Released /\ (Return(TRUE) \/ Return(call.op = "close"))
      /\ fat_dur' = fat \/ fat_dur' = fat_dur
  <2>1. FaultFree
    BY FaultKept DEF FlushLast, FlushFails, Fault
  <2>2. call.op \in {"close", "delete"}
    BY DEF FlushLast, FlushFails, IInv, CallOK
  <2> QED
    BY <2>1, <2>2 DEF FlushLast, FlushFails
<1>2. DOMAIN call' = Registers /\ CallOK' /\ call'.at \notin {"link", "free"}
  BY <1>1, ReturnIdle
<1>3. /\ DOMAIN fcb' = Fcbs /\ \A l \in Fcbs : IsFcb(fcb'[l])
      /\ Exclusive'
      /\ \A f \in Files : Heads'[f] \subseteq Heads[f]
  <2>1. CASE call.op = "close"
    BY <1>1, <2>1, CurUse, ReleaseStep DEF Released
  <2>2. CASE call.op # "close"
    <3>1. fcb' = fcb
      BY <1>1, <2>2 DEF Released
    <3>2. Heads' = Heads
      BY <1>1, <3>1, SameHeads
    <3> QED
      BY <3>1, <3>2 DEF IInv, Shape, Exclusive
  <2> QED
    BY <2>1, <2>2
<1>4. Shape'
  BY <1>1, <1>2, <1>3 DEF IInv, Shape, FaultFree, Registers
<1>5. Sole(fat, Heads') /\ DurSole'
  BY <1>1, <1>3, SoleFewer, FatTypes DEF IInv, DurSole, FaultFree
<1> QED
  BY <1>1, <1>2, <1>3, <1>4, <1>5 DEF IInv, CallHolds, FatSole

-----------------------------------------------------------------------------
(* The FAT is written, or the system restarted.                            *)

\* So does a flush at any other moment.
LEMMA SyncStep ==
  ASSUME IInv, Sync
  PROVE  IInv'
<1>1. fat_dur' = fat /\ UNCHANGED <<fat, dirent, data, fcb, call, ret, faults>>
  BY DEF Sync
<1>2. Heads' = Heads
  BY <1>1, SameHeads
<1>3. Shape' /\ Exclusive' /\ CallOK'
  BY <1>1 DEF IInv, Shape, Exclusive, CallOK, Cur
<1> QED
  BY <1>1, <1>2, <1>3 DEF IInv, CallHolds, FatSole, DurSole

\* A restart is safe because what is on the disk is; after a write has failed
\* it need not be.
LEMMA CrashStep ==
  ASSUME IInv, Either', Crash
  PROVE  IInv'
<1>1. /\ fat' = fat_dur /\ fcb' = [k \in Fcbs |-> Closed] /\ call' = Idle
      /\ UNCHANGED <<fat_dur, dirent>>
  BY DEF Crash
<1>2. /\ faults.write = 0 /\ faults'.write = 0
      /\ DOMAIN faults' = {"read", "write", "crash"}
      /\ faults'.write \in Nat /\ faults'.crash \in Nat
  BY DEF Crash, IInv, Shape, Either
<1>3. IsFcb(Closed) /\ Closed.file = NoFile
  BY DEF Closed, IsFcb
<1>4. \A f \in Files : Heads'[f] \subseteq Heads[f]
  BY <1>1, <1>3, FileConstants DEF Heads, EntryHeads, OpenOn
<1>5. Sole(fat_dur, Heads')
  BY <1>2, <1>4, SoleFewer DEF IInv, DurSole
<1>6. Shape' /\ Exclusive'
  BY <1>1, <1>2, <1>3 DEF IInv, Shape, Exclusive, Idle
<1>7. CallOK' /\ CallHolds'
  BY <1>1 DEF CallOK, CallHolds, Idle
<1> QED
  BY <1>1, <1>5, <1>6, <1>7 DEF IInv, FatSole, DurSole

-----------------------------------------------------------------------------
(* The theorems.                                                           *)

\* The invariant holds of an empty volume.
LEMMA InitSafe ==
  ASSUME Init
  PROVE  IInv
<1>1. IsFcb(Closed) /\ Closed.file = NoFile
  BY DEF Closed, IsFcb
<1>2. Shape /\ Exclusive
  BY <1>1 DEF Init, Shape, Exclusive, Links, IsEntry, Absent, Idle
<1>3. CallOK /\ CallHolds
  BY DEF Init, CallOK, CallHolds, Idle
<1>4. \A f \in Files : Heads[f] = {}
  BY <1>1, ClusterFacts, FileConstants
  DEF Init, Heads, EntryHeads, OpenOn, Absent
<1>5. Sole(fat, Heads)
  BY <1>4, ClusterFacts DEF Init, Sole
<1> QED
  BY <1>2, <1>3, <1>5 DEF Init, IInv, FatSole, DurSole

\* Every step keeps the invariant, up to the limit that Either states.
LEMMA NextSafe ==
  ASSUME IInv, Either', [Step]_state
  PROVE  IInv'
<1>1. CASE Caller
  <2>1. ASSUME NEW k \in Fcbs, NEW f \in Files, NEW mode \in 0 .. 2,
               OpenCall(k, f, mode)
        PROVE  IInv'
    BY <2>1, OpenStep
  <2>2. ASSUME NEW k \in Fcbs, NEW x,
               SeekCall(k, x) \/ ReadCall(k, x) \/ WriteCall(k, x)
        PROVE  IInv'
    BY <2>2, CallStep
  <2> QED
    BY <1>1, <2>1, <2>2, CloseCallStep, DeleteStep DEF Caller
<1>2. CASE Kernel
  BY <1>2, ReadStep, WriteQuietStep, WriteFirstStep, GrowStep, CloseSizeStep,
     TrimStep, FreeStep, FlushStep DEF Kernel
<1>3. CASE Sync \/ Crash
  BY <1>3, SyncStep, CrashStep
<1>4. CASE UNCHANGED state
  <2>1. UNCHANGED <<fat, fat_dur, dirent, fcb, call, faults>>
    BY <1>4 DEF state
  <2>2. FaultFree
    BY <2>1, FaultKept
  <2>3. DOMAIN call' = Registers /\ CallOK'
    BY <2>1 DEF IInv, Shape, Registers, CallOK, Cur
  <2> QED
    BY <2>1, <2>2, <2>3, QuietStep, SameUseSelf DEF IInv, Shape
<1> QED
  BY <1>1, <1>2, <1>3, <1>4 DEF Step

\* Mishaps are counted, whatever state they leave.
Counted == /\ DOMAIN faults = {"read", "write", "crash"}
           /\ faults.write \in Nat /\ faults.crash \in Nat

\* None has happened yet.
LEMMA InitCounted ==
  ASSUME Init
  PROVE  Counted
BY DEF Init, Counted

\* Failures and restarts are only ever counted up.
LEMMA CountedStep ==
  ASSUME Counted, Fault \/ Crash \/ UNCHANGED faults
  PROVE  Counted' /\ (Either' => Either)
<1>1. CASE Fault
  BY <1>1 DEF Counted, Either, Fault, ReadFault, WriteFault
<1>2. CASE Crash
  BY <1>2 DEF Counted, Either, Crash
<1>3. CASE UNCHANGED faults
  BY <1>3 DEF Counted, Either
<1> QED
  BY <1>1, <1>2, <1>3

Running == Caller \/ Kernel \/ Sync \/ UNCHANGED state

\* A step that is no restart counts a failure or nothing.
LEMMA RunningCounted ==
  ASSUME Running
  PROVE  Fault \/ UNCHANGED faults
<1>1. CASE Caller
  <2>1. ASSUME NEW k \in Fcbs, NEW f \in Files, NEW mode \in 0 .. 2,
               OpenCall(k, f, mode)
        PROVE  Fault \/ UNCHANGED faults
    BY <2>1 DEF OpenCall, OpenExisting, OpenAppendFails, OpenNew, OpenFails
  <2>2. ASSUME NEW k \in Fcbs, NEW x,
               SeekCall(k, x) \/ ReadCall(k, x) \/ WriteCall(k, x)
        PROVE  Fault \/ UNCHANGED faults
    BY <2>2 DEF SeekCall, ReadCall, WriteCall
  <2>3. ASSUME NEW k \in Fcbs, CloseCall(k)
        PROVE  Fault \/ UNCHANGED faults
    BY <2>3 DEF CloseCall
  <2>4. ASSUME NEW f \in Files, DeleteCall(f)
        PROVE  Fault \/ UNCHANGED faults
    BY <2>4 DEF DeleteCall
  <2> QED
    BY <1>1, <2>1, <2>2, <2>3, <2>4 DEF Caller
<1>2. CASE ReadSector \/ ReadFails \/ ReadChunk \/ ReadDone
  BY <1>2 DEF ReadSector, ReadFails, ReadChunk, ReadDone
<1>3. CASE \/ WriteFirst \/ WriteFirstFails \/ WriteSector \/ WriteSectorFails
           \/ Grow \/ GrowFull \/ LinkNew \/ LinkFails
           \/ WriteChunk \/ WriteChunkFails \/ WriteDone
  BY <1>3 DEF WriteFirst, WriteFirstFails, WriteSector, WriteSectorFails, Grow,
     GrowFull, LinkNew, LinkFails, WriteChunk, WriteChunkFails, WriteDone, Fault
<1>4. CASE \/ CloseSize \/ CloseFails \/ Trim \/ TrimAll
           \/ FreeOne \/ FreeFails \/ FlushLast \/ FlushFails
  BY <1>4 DEF CloseSize, CloseFails, Trim, TrimAll, FreeOne, FreeFails,
     FlushLast, FlushFails, Fault
<1>5. CASE Sync \/ UNCHANGED state
  BY <1>5 DEF Sync, state
<1> QED
  BY <1>1, <1>2, <1>3, <1>4, <1>5 DEF Running, Kernel

\* Every step counts a failure, a restart or nothing.
LEMMA EveryStepCounted ==
  ASSUME [Step]_state
  PROVE  Fault \/ Crash \/ UNCHANGED faults
BY RunningCounted DEF Step, Running

\* Only a restart counts as one.
LEMMA RestartsKept ==
  ASSUME Running, DOMAIN faults = {"read", "write", "crash"}
  PROVE  faults'.crash = faults.crash
BY RunningCounted DEF Fault, ReadFault, WriteFault

\* A cursor that leaves its chain changes nothing else yet; then the model ends.
LEMMA StepOfNext ==
  ASSUME [Next]_vars
  PROVE  [Step]_state
BY DEF Next, LeaveChain, Unfollowed, state, vars

\* Until both a sector write has failed and the system was restarted, the
\* invariant holds.
LEMMA Safe == Spec => [](Either => IInv)
<1> DEFINE Inv == Counted /\ (Either => IInv)
<1>1. Init => Inv
  BY InitSafe, InitCounted
<1>2. Inv /\ [Next]_vars => Inv'
  BY StepOfNext, CountedStep, EveryStepCounted, NextSafe
<1>3. Inv => (Either => IInv)
  OBVIOUS
<1> QED
  BY <1>1, <1>2, <1>3, PTL DEF Spec

\* No two files, open or not, share a cluster, and no chain forks or runs into a
\* free cluster: on any volume, for any number of files and FCBs, and whichever
\* transfers fail in file_write, file_close and file_delete, or however often
\* the system restarts; until a cursor leaves the chain of a file that a restart
\* left shorter than its size (LeaveChain), from where on nothing is claimed.
\* (After both a failing write and a restart it is false.)
THEOREM FilesApart == Spec => []NoCrossLink
<1>1. (Either => IInv) => NoCrossLink
  BY DEF IInv, FatSole, NoCrossLink
<1> QED
  BY <1>1, Safe, PTL

\* Until a sector write fails, a restart at any moment finds files that do not
\* share a cluster, and whose chains do not run into a free one: the order of
\* file_write's, file_close's and file_delete's transfers sees to it.
THEOREM RestartSafe == Spec => []CrashSafe
<1>1. (Either => IInv) => CrashSafe
  <2>1. \A f \in Files : EntryHeads[f] \subseteq Heads[f]
    BY DEF Heads
  <2> QED
    BY <2>1, SoleFewer DEF IInv, DurSole, CrashSafe, Either
<1> QED
  BY <1>1, Safe, PTL

-----------------------------------------------------------------------------
(* The cursors.                                                            *)

\* The cursor of an FCB is on a cluster of the file's chain, where its position
\* says; before the first restart the chain goes at least as far as the file.
Placed(t, r) ==
  IF r.cclust = 0
    THEN r.sclust = 0 /\ r.fpos = 0 /\ r.csect = 0 /\ r.boff = 0
    ELSE \E n \in Nat :
           /\ r.cclust = Nth(t, r.sclust, n)
           /\ r.fpos = n * ClusterBytes + r.csect * SecSize + r.boff

Covered(t, r) ==
  \A n \in Nat : n * ClusterBytes < r.fsize => Nth(t, r.sclust, n) \in Clusters

Steady(x, t, r) == /\ Placed(t, r)
                   /\ x.crash = 0 => Covered(t, r)
                   /\ r.fpos <= r.fsize
                   /\ r.csect = Spc => r.boff = 0 /\ ~r.iovalid
                   /\ r.iovalid => r.cclust # 0

\* A chain long enough for the size.
Spans(t, c, size) ==
  \A n \in Nat : n * ClusterBytes < size => Nth(t, c, n) \in Clusters

\* What a call in progress knows of its FCB.
Working ==
  /\ call.op \in {"read", "write"} => Cur.open
  /\ call.op = "close" => ~Cur.open
  /\ call.op = "write" => (Cur.cclust = 0 <=> call.at = "first")
  /\ call.at = "link" => Cur.csect = Spc /\ fat[Cur.cclust] = Eoc
  /\ call.op = "read" => Len(call.bytes) + call.n <= MaxRequest
  /\ call.op = "close" /\ call.at = "size" /\ faults.crash = 0 => Covered(fat, Cur)
  /\ call.op = "close" /\ call.at = "trim" =>
       dirent[Cur.file] = [clust |-> Cur.sclust, size |-> Cur.fsize]

\* Before the first restart the chain of an entry is as long as its size says.
EntriesLong == faults.crash = 0 =>
  \A f \in Files : dirent[f] # Absent => Spans(fat, dirent[f].clust, dirent[f].size)

CursorInv ==
  /\ StateOK /\ Working /\ EntriesLong
  /\ \A k \in Fcbs : fcb[k].open => Steady(faults, fat, fcb[k])
  /\ \A k \in Fcbs : fcb[k].file \in Files => dirent[fcb[k].file] # Absent
-----------------------------------------------------------------------------
(* Chains.  Induction is done with the smallest counterexample.            *)

\* A set of numbers has a smallest one.
LEMMA Least ==
  ASSUME NEW S \in SUBSET Nat, S # {}
  PROVE  \E m \in S : \A y \in S : m <= y
<1>1. PICK m \in S : \A y \in S : ~(<<y, m>> \in OpToRel(<, Nat))
  BY NatLessThanWellFounded, WFMin
<1>2. \A y \in S : m <= y
  <2> TAKE y \in S
  <2>1. y \in Nat /\ m \in Nat
    BY <1>1
  <2>2. ~(y < m)
    BY <1>1, <2>1 DEF OpToRel
  <2> QED BY <2>1, <2>2
<1> QED
  BY <1>2

\* The recursive function in Nth.
IsWalk(t, c, n, f) ==
  f = [i \in 0 .. n |-> IF i = 0 THEN c ELSE Link(t, f[i - 1])]

\* Nth is a value of that function.
LEMMA NthIs ==
  ASSUME NEW t, NEW c, NEW n \in Nat
  PROVE  Nth(t, c, n) = (CHOOSE f : IsWalk(t, c, n, f))[n]
BY DEF Nth, IsWalk

\* There is such a function, however far the walk goes.
LEMMA WalkExists ==
  ASSUME NEW t, NEW c
  PROVE  \A n \in Nat : \E f : IsWalk(t, c, n, f)
<1> DEFINE Bad == {n \in Nat : ~\E f : IsWalk(t, c, n, f)}
<1>1. SUFFICES Bad = {}
  OBVIOUS
<1>2. SUFFICES ASSUME Bad # {} PROVE FALSE
  BY <1>1
<1>3. PICK m \in Bad : \A y \in Bad : m <= y
  <2> HIDE DEF Bad
  <2>1. Bad \in SUBSET Nat
    BY DEF Bad
  <2> QED
    BY <1>2, <2>1, Least
<1>4. m \in Nat /\ ~\E f : IsWalk(t, c, m, f)
  OBVIOUS
<1>5. m # 0
  <2> SUFFICES ASSUME m = 0 PROVE FALSE
    OBVIOUS
  <2> DEFINE f == [i \in 0 .. 0 |-> c]
  <2>1. f = [i \in 0 .. 0 |-> IF i = 0 THEN c ELSE Link(t, f[i - 1])]
    OBVIOUS
  <2>2. IsWalk(t, c, 0, f)
    BY <2>1 DEF IsWalk
  <2> QED
    BY <1>4, <2>2
<1>6. PICK f : IsWalk(t, c, m - 1, f)
  <2>1. m - 1 \in Nat /\ ~(m <= m - 1)
    BY <1>4, <1>5
  <2> QED
    BY <1>3, <2>1
<1> DEFINE g == [i \in 0 .. m |-> IF i = 0 THEN c ELSE Link(t, f[i - 1])]
<1>7. \A i \in 0 .. m - 1 : f[i] = g[i]
  BY <1>4, <1>6 DEF IsWalk
<1>8. g = [i \in 0 .. m |-> IF i = 0 THEN c ELSE Link(t, g[i - 1])]
  <2>1. \A i \in 0 .. m : i # 0 => i - 1 \in 0 .. m - 1
    BY <1>4
  <2> HIDE DEF g
  <2>2. \A i \in 0 .. m : (IF i = 0 THEN c ELSE Link(t, f[i - 1]))
                           = (IF i = 0 THEN c ELSE Link(t, g[i - 1]))
    BY <1>7, <2>1
  <2>3. g = [i \in 0 .. m |-> IF i = 0 THEN c ELSE Link(t, f[i - 1])]
    BY DEF g
  <2> QED
    BY <2>2, <2>3
<1>9. IsWalk(t, c, m, g)
  BY <1>8 DEF IsWalk
<1> QED
  BY <1>4, <1>9

\* Two walks agree as far as both go.
LEMMA WalksAgree ==
  ASSUME NEW t, NEW c, NEW n \in Nat, NEW m \in Nat, n <= m,
         NEW f, IsWalk(t, c, n, f), NEW g, IsWalk(t, c, m, g)
  PROVE  \A i \in 0 .. n : f[i] = g[i]
<1> DEFINE Bad == {i \in 0 .. n : f[i] # g[i]}
<1> SUFFICES ASSUME Bad # {} PROVE FALSE
  OBVIOUS
<1>1. PICK j \in Bad : \A y \in Bad : j <= y
  <2>1. Bad \in SUBSET Nat
    OBVIOUS
  <2> HIDE DEF Bad
  <2> QED
    BY <2>1, Least
<1>2. /\ f[j] = IF j = 0 THEN c ELSE Link(t, f[j - 1])
      /\ g[j] = IF j = 0 THEN c ELSE Link(t, g[j - 1])
  BY DEF IsWalk
<1>3. j # 0
  BY <1>2
<1>4. j - 1 \in 0 .. n /\ ~(j <= j - 1)
  BY <1>3
<1>5. f[j - 1] = g[j - 1]
  BY <1>1, <1>4
<1> QED
  BY <1>2, <1>5

\* What Nth computes.
LEMMA NthStep ==
  ASSUME NEW t, NEW c
  PROVE  /\ Nth(t, c, 0) = c
         /\ \A n \in Nat : Nth(t, c, n + 1) = Link(t, Nth(t, c, n))
<1> DEFINE F(n) == CHOOSE f : IsWalk(t, c, n, f)
<1>1. \A n \in Nat : IsWalk(t, c, n, F(n)) /\ Nth(t, c, n) = F(n)[n]
  BY WalkExists, NthIs
<1> HIDE DEF F
<1>2. Nth(t, c, 0) = c
  BY <1>1 DEF IsWalk
<1>3. ASSUME NEW n \in Nat
      PROVE  Nth(t, c, n + 1) = Link(t, Nth(t, c, n))
  <2>1. IsWalk(t, c, n, F(n)) /\ IsWalk(t, c, n + 1, F(n + 1))
    BY <1>1
  <2>2. F(n)[n] = F(n + 1)[n]
    BY <2>1, WalksAgree
  <2>3. F(n + 1)[n + 1] = Link(t, F(n + 1)[n])
    BY <2>1 DEF IsWalk
  <2> QED
    BY <1>1, <2>2, <2>3
<1> QED
  BY <1>2, <1>3

\* Once past its end, a chain stays there.
LEMMA ChainPrefix ==
  ASSUME NEW t, NEW c, NEW n \in Nat, Nth(t, c, n) \in Clusters
  PROVE  \A m \in 0 .. n : Nth(t, c, m) \in Clusters
<1> DEFINE Bad == {k \in Nat : k <= n /\ Nth(t, c, n - k) \notin Clusters}
<1>1. CASE Bad # {}
  <2>1. PICK k \in Bad : \A y \in Bad : k <= y
    <3>1. Bad \in SUBSET Nat
      OBVIOUS
    <3> HIDE DEF Bad
    <3> QED
      BY <1>1, <3>1, Least
  <2>2. k # 0
    OBVIOUS
  <2>3. k - 1 \in Nat /\ k - 1 <= n /\ ~(k <= k - 1)
    BY <2>2
  <2>4. Nth(t, c, n - (k - 1)) \in Clusters
    BY <2>1, <2>3
  <2>5. Nth(t, c, (n - k) + 1) = Link(t, Nth(t, c, n - k))
    <3> DEFINE m == n - k
    <3>1. m \in Nat
      OBVIOUS
    <3> HIDE DEF m
    <3>2. Nth(t, c, m + 1) = Link(t, Nth(t, c, m))
      BY <3>1, NthStep
    <3> QED
      BY <3>2 DEF m
  <2>6. n - (k - 1) = (n - k) + 1
    OBVIOUS
  <2>7. Link(t, Nth(t, c, n - k)) = Eoc
    BY DEF Link
  <2> QED
    BY <2>4, <2>5, <2>6, <2>7, ClusterFacts
<1>2. CASE Bad = {}
  <2> SUFFICES ASSUME NEW m \in 0 .. n PROVE Nth(t, c, m) \in Clusters
    OBVIOUS
  <2>1. n - m \in Nat /\ n - m <= n /\ n - (n - m) = m
    OBVIOUS
  <2> QED
    BY <1>2, <2>1
<1> QED
  BY <1>1, <1>2

\* What a cluster links to.
LEMMA NthNext ==
  ASSUME NEW t, NEW c, NEW n \in Nat, Nth(t, c, n + 1) \in Clusters
  PROVE  /\ Nth(t, c, n) \in Clusters
         /\ t[Nth(t, c, n)] = Nth(t, c, n + 1)
<1>1. n \in 0 .. n + 1 /\ n + 1 \in Nat
  OBVIOUS
<1>2. Nth(t, c, n) \in Clusters
  BY <1>1, ChainPrefix
<1> QED
  BY <1>2, NthStep DEF Link

\* No cluster of a file's chain is free.
LEMMA ChainUsed ==
  ASSUME NEW t, NEW H, Sole(t, H), NEW f \in Files, NEW c \in H[f],
         NEW n \in Nat, Nth(t, c, n) \in Clusters
  PROVE  t[Nth(t, c, n)] # 0
<1>1. CASE n = 0
  BY <1>1, NthStep DEF Sole
<1>2. CASE n # 0
  <2>1. n - 1 \in Nat /\ (n - 1) + 1 = n
    BY <1>2
  <2>2. Nth(t, c, n - 1) \in Clusters /\ t[Nth(t, c, n - 1)] = Nth(t, c, n)
    BY <2>1, NthNext
  <2> QED
    BY <2>2 DEF Sole
<1> QED
  BY <1>1, <1>2

\* Two chains never meet, and no chain meets itself.
LEMMA ChainsApart ==
  ASSUME NEW t, NEW H, Sole(t, H), \A f \in Files : H[f] \subseteq Clusters,
         NEW f \in Files, NEW g \in Files, NEW c \in H[f], NEW d \in H[g],
         NEW i \in Nat, NEW j \in Nat,
         Nth(t, c, i) = Nth(t, d, j), Nth(t, c, i) \in Clusters
  PROVE  c = d /\ i = j /\ f = g
<1> DEFINE Bad == {k \in Nat : \E l \in Nat :
                     /\ Nth(t, c, k) = Nth(t, d, l) /\ Nth(t, c, k) \in Clusters
                     /\ ~(c = d /\ k = l)}
<1>1. Bad = {}
  <2> SUFFICES ASSUME Bad # {} PROVE FALSE
    OBVIOUS
  <2>1. PICK k \in Bad : \A y \in Bad : k <= y
    <3>1. Bad \in SUBSET Nat
      OBVIOUS
    <3> HIDE DEF Bad
    <3> QED
      BY <3>1, Least
  <2>2. PICK l \in Nat :
          /\ Nth(t, c, k) = Nth(t, d, l) /\ Nth(t, c, k) \in Clusters
          /\ ~(c = d /\ k = l)
    OBVIOUS
  <2>3. \A x \in H[f] \cup H[g] : \A e \in Clusters : t[e] # x
    BY DEF Sole
  <2>4. k # 0
    <3> SUFFICES ASSUME k = 0 PROVE FALSE
      OBVIOUS
    <3>1. Nth(t, c, k) = c
      BY NthStep
    <3>2. CASE l = 0
      BY <2>2, <3>1, <3>2, NthStep
    <3>3. CASE l # 0
      <4>1. l - 1 \in Nat /\ (l - 1) + 1 = l
        BY <3>3
      <4>2. Nth(t, d, l - 1) \in Clusters /\ t[Nth(t, d, l - 1)] = Nth(t, d, l)
        BY <2>2, <4>1, NthNext
      <4> QED
        BY <2>2, <2>3, <3>1, <4>2
    <3> QED
      BY <3>2, <3>3
  <2>5. k - 1 \in Nat /\ (k - 1) + 1 = k /\ ~(k <= k - 1)
    BY <2>4
  <2>6. Nth(t, c, k - 1) \in Clusters /\ t[Nth(t, c, k - 1)] = Nth(t, c, k)
    BY <2>2, <2>5, NthNext
  <2>7. l # 0
    <3> SUFFICES ASSUME l = 0 PROVE FALSE
      OBVIOUS
    <3>1. Nth(t, d, l) = d
      BY NthStep
    <3> QED
      BY <2>2, <2>3, <2>6, <3>1
  <2>8. l - 1 \in Nat /\ (l - 1) + 1 = l
    BY <2>7
  <2>9. Nth(t, d, l - 1) \in Clusters /\ t[Nth(t, d, l - 1)] = Nth(t, d, l)
    BY <2>2, <2>8, NthNext
  <2>10. Nth(t, c, k - 1) = Nth(t, d, l - 1)
    BY <2>2, <2>6, <2>9 DEF Sole
  <2>11. ~(c = d /\ k - 1 = l - 1)
    BY <2>2
  <2>12. k - 1 \in Bad
    BY <2>5, <2>6, <2>8, <2>10, <2>11
  <2> QED
    BY <2>1, <2>5, <2>12
<1>2. c = d /\ i = j
  BY <1>1
<1> QED
  BY <1>2 DEF Sole

\* A chain is as long as the volume at most.
LEMMA ChainShort ==
  ASSUME NEW t, NEW H, Sole(t, H), \A f \in Files : H[f] \subseteq Clusters,
         NEW f \in Files, NEW c \in H[f],
         NEW n \in Nat, Nth(t, c, n) \in Clusters
  PROVE  n <= LastCluster - 2
<1> DEFINE g == [i \in 0 .. n |-> Nth(t, c, i)]
<1>1. g \in [0 .. n -> Clusters]
  BY ChainPrefix
<1>2. /\ IsFiniteSet(0 .. n) /\ Cardinality(0 .. n) = n + 1
      /\ IsFiniteSet(Clusters) /\ Cardinality(Clusters) = LastCluster - 1
  BY FS_Interval, VolumeConstants DEF Clusters
<1>3. \A i, j \in 0 .. n : i # j => g[i] # g[j]
  <2> SUFFICES ASSUME NEW i \in 0 .. n, NEW j \in 0 .. n, i # j, g[i] = g[j] PROVE FALSE
    OBVIOUS
  <2>1. i \in Nat /\ j \in Nat /\ Nth(t, c, i) = Nth(t, c, j) /\ Nth(t, c, i) \in Clusters
    BY <1>1
  <2> QED
    BY <2>1, ChainsApart
<1> HIDE DEF g
<1>4. ~(Cardinality(Clusters) < Cardinality(0 .. n))
  BY <1>1, <1>2, <1>3, FS_PigeonHole
<1> QED
  BY <1>2, <1>4, VolumeConstants

\* A chain keeps its first clusters, if their links are kept.
LEMMA ChainKept ==
  ASSUME NEW t, NEW u, NEW c, NEW n \in Nat,
         \A i \in Nat : i < n => /\ Nth(t, c, i) \in Clusters
                                 /\ u[Nth(t, c, i)] = t[Nth(t, c, i)]
  PROVE  Nth(u, c, n) = Nth(t, c, n)
<1>0. /\ \A i \in Nat : Nth(u, c, i + 1) = Link(u, Nth(u, c, i))
      /\ \A i \in Nat : Nth(t, c, i + 1) = Link(t, Nth(t, c, i))
  <2>1. \A i \in Nat : Nth(u, c, i + 1) = Link(u, Nth(u, c, i))
    BY NthStep
  <2>2. \A i \in Nat : Nth(t, c, i + 1) = Link(t, Nth(t, c, i))
    BY NthStep
  <2> QED
    BY <2>1, <2>2
<1> DEFINE Bad == {i \in Nat : i <= n /\ Nth(u, c, i) # Nth(t, c, i)}
<1>1. Bad = {}
  <2> SUFFICES ASSUME Bad # {} PROVE FALSE
    OBVIOUS
  <2>1. PICK k \in Bad : \A y \in Bad : k <= y
    <3>1. Bad \in SUBSET Nat
      OBVIOUS
    <3> HIDE DEF Bad
    <3> QED
      BY <3>1, Least
  <2>2. k # 0
    BY NthStep
  <2>3. k - 1 \in Nat /\ (k - 1) + 1 = k /\ k - 1 < n /\ ~(k <= k - 1)
    BY <2>2
  <2>4. Nth(u, c, k - 1) = Nth(t, c, k - 1)
    BY <2>1, <2>3
  <2>5. /\ Nth(u, c, k) = Link(u, Nth(u, c, k - 1))
        /\ Nth(t, c, k) = Link(t, Nth(t, c, k - 1))
    <3> DEFINE j == k - 1
    <3>1. j \in Nat /\ j + 1 = k
      BY <2>3
    <3> HIDE DEF j
    <3>2. /\ Nth(u, c, j + 1) = Link(u, Nth(u, c, j))
          /\ Nth(t, c, j + 1) = Link(t, Nth(t, c, j))
      BY <1>0, <3>1
    <3> QED
      BY <3>1, <3>2 DEF j
  <2>6. Link(u, Nth(t, c, k - 1)) = Link(t, Nth(t, c, k - 1))
    BY <2>3 DEF Link
  <2> QED
    BY <2>4, <2>5, <2>6
<1> QED
  BY <1>1

\* New clusters and new links at the end of a chain leave what chains there are.
LEMMA ChainGrows ==
  ASSUME NEW t, NEW u, \A d \in Clusters : t[d] \in Clusters => u[d] = t[d],
         NEW c, NEW n \in Nat, Nth(t, c, n) \in Clusters
  PROVE  Nth(u, c, n) = Nth(t, c, n)
<1>1. ASSUME NEW i \in Nat, i < n
      PROVE  Nth(t, c, i) \in Clusters /\ u[Nth(t, c, i)] = t[Nth(t, c, i)]
  <2>1. i + 1 \in 0 .. n
    BY <1>1
  <2>2. Nth(t, c, i + 1) \in Clusters
    BY <2>1, ChainPrefix
  <2> QED
    BY <2>2, NthNext
<1> QED
  BY <1>1, ChainKept

\* What happens to a cluster outside a chain leaves the chain.
LEMMA ChainBeside ==
  ASSUME NEW t, NEW u, NEW p, \A d \in Clusters : d # p => u[d] = t[d],
         NEW c, \A n \in Nat : Nth(t, c, n) \in Clusters => Nth(t, c, n) # p,
         NEW n \in Nat, Nth(t, c, n) \in Clusters
  PROVE  Nth(u, c, n) = Nth(t, c, n)
<1>1. ASSUME NEW i \in Nat, i < n
      PROVE  Nth(t, c, i) \in Clusters /\ u[Nth(t, c, i)] = t[Nth(t, c, i)]
  <2>1. i \in 0 .. n
    BY <1>1
  <2>2. Nth(t, c, i) \in Clusters
    BY <2>1, ChainPrefix
  <2> QED
    BY <2>2
<1> QED
  BY <1>1, ChainKept

\* A cluster that nothing refers to is in no file's chain.
LEMMA OrphanBeside ==
  ASSUME NEW t, NEW H, NEW p, Orphan(t, H, p), NEW f \in Files, NEW c \in H[f],
         NEW n \in Nat, Nth(t, c, n) \in Clusters
  PROVE  Nth(t, c, n) # p
<1>1. CASE n = 0
  BY <1>1, NthStep DEF Orphan
<1>2. CASE n # 0
  <2>1. n - 1 \in Nat /\ (n - 1) + 1 = n
    BY <1>2
  <2>2. Nth(t, c, n - 1) \in Clusters /\ t[Nth(t, c, n - 1)] = Nth(t, c, n)
    BY <2>1, NthNext
  <2> QED
    BY <2>2 DEF Orphan
<1> QED
  BY <1>1, <1>2

-----------------------------------------------------------------------------
(* Positions.                                                              *)

\* Sectors and clusters have a size.
LEMMA SizeFacts ==
  /\ Spc \in Nat /\ Spc > 0 /\ SecSize \in Nat /\ SecSize > 0
  /\ ClusterBytes \in Nat /\ ClusterBytes > 0 /\ Spc * SecSize = ClusterBytes
<1>1. Spc \in Nat /\ Spc > 0 /\ SecSize \in Nat /\ SecSize > 0
  BY VolumeConstants, FileConstants
<1>2. Spc * SecSize > 0 /\ Spc * SecSize \in Nat
  BY <1>1
<1> QED
  BY <1>1, <1>2 DEF ClusterBytes

\* Quotient and remainder.
LEMMA DivMod ==
  ASSUME NEW p \in Nat, p > 0, NEW a \in Nat
  PROVE  /\ a \div p \in Nat /\ a % p \in Nat /\ a % p < p
         /\ a = p * (a \div p) + (a % p)
<1>1. a \div p \in Nat
  BY SMT
<1>2. a % p \in Nat
  BY SMT
<1>3. a % p < p
  BY SMT
<1>4. a = p * (a \div p) + (a % p)
  BY SMT
<1> QED
  BY <1>1, <1>2, <1>3, <1>4

\* There is one quotient.
LEMMA DivIs ==
  ASSUME NEW p \in Nat, p > 0, NEW q \in Nat, NEW r \in Nat, r < p
  PROVE  (p * q + r) \div p = q
<1> DEFINE a == p * q + r
           x == a \div p
           y == a % p
<1>1. p * q \in Nat
  OBVIOUS
<1>2. a \in Nat
  BY <1>1
<1>3. x \in Nat /\ y \in Nat /\ y < p /\ a = p * x + y
  <2> HIDE DEF a
  <2> QED BY <1>2, DivMod
<1>4. p * q + r = p * x + y
  BY <1>3
<1> HIDE DEF x, y, a
<1>5. ~(x < q)
  <2> SUFFICES ASSUME x < q PROVE FALSE
    OBVIOUS
  <2>1. p * (q - x) >= p
    BY <1>3
  <2>2. p * (q - x) = p * q - p * x
    BY <1>3
  <2> QED
    BY <1>1, <1>3, <1>4, <2>1, <2>2
<1>6. ~(q < x)
  <2> SUFFICES ASSUME q < x PROVE FALSE
    OBVIOUS
  <2>1. p * (x - q) >= p
    BY <1>3
  <2>2. p * (x - q) = p * x - p * q
    BY <1>3
  <2> QED
    BY <1>1, <1>3, <1>4, <2>1, <2>2
<1> QED
  BY <1>3, <1>5, <1>6 DEF x, a

\* Where a byte of a file is: cluster, sector in it, byte in that.
LEMMA ByteAt ==
  ASSUME NEW b \in Nat
  PROVE  /\ b \div ClusterBytes \in Nat
         /\ (b \div SecSize) % Spc \in 0 .. Spc - 1
         /\ b % SecSize \in 0 .. SecSize - 1
         /\ b = (b \div ClusterBytes) * ClusterBytes
                  + ((b \div SecSize) % Spc) * SecSize + (b % SecSize)
<1> DEFINE a == b \div SecSize
           y == b % SecSize
           q == a \div Spc
           s == a % Spc
<1>1. a \in Nat /\ y \in Nat /\ y < SecSize /\ b = SecSize * a + y
  BY SizeFacts, DivMod
<1>2. q \in Nat /\ s \in Nat /\ s < Spc /\ a = Spc * q + s
  <2> HIDE DEF a
  <2> QED BY <1>1, SizeFacts, DivMod
<1> HIDE DEF a, y, q, s
<1>3. b = ClusterBytes * q + (SecSize * s + y)
  <2>1. SecSize * a = SecSize * (Spc * q) + SecSize * s
    BY <1>2, SizeFacts
  <2>2. SecSize * (Spc * q) = (Spc * SecSize) * q
    BY <1>2, SizeFacts
  <2>3. SecSize * a = ClusterBytes * q + SecSize * s
    BY <2>1, <2>2, SizeFacts
  <2>4. SecSize * s \in Nat /\ ClusterBytes * q \in Nat /\ b = SecSize * a + y
    BY <1>1, <1>2, SizeFacts
  <2> DEFINE A == SecSize * a
             Q == ClusterBytes * q
             S == SecSize * s
  <2>5. A = Q + S /\ b = A + y /\ S \in Nat /\ Q \in Nat
    BY <2>3, <2>4
  <2> HIDE DEF A, Q, S
  <2>6. b = Q + (S + y)
    BY <1>1, <2>5
  <2> QED
    BY <2>6 DEF Q, S
<1>4. SecSize * s + y \in Nat /\ SecSize * s + y < ClusterBytes
  <2>1. SecSize * s \in Nat /\ SecSize * s + SecSize = SecSize * (s + 1)
    BY <1>2, SizeFacts
  <2>2. SecSize * (s + 1) <= SecSize * Spc
    BY <1>2, SizeFacts
  <2>3. SecSize * Spc = ClusterBytes
    BY SizeFacts
  <2> QED
    BY <1>1, <2>1, <2>2, <2>3, SizeFacts
<1>5. b \div ClusterBytes = q
  <2> DEFINE x == SecSize * s + y
  <2>1. b = ClusterBytes * q + x /\ x \in Nat /\ x < ClusterBytes
    BY <1>3, <1>4
  <2> HIDE DEF x
  <2> QED
    BY <1>2, <2>1, SizeFacts, DivIs
<1>6. b = q * ClusterBytes + s * SecSize + y
  <2>1. ClusterBytes * q = q * ClusterBytes /\ SecSize * s = s * SecSize
    BY <1>2, SizeFacts
  <2>2. SecSize * s \in Nat /\ ClusterBytes * q \in Nat
    BY <1>2, SizeFacts
  <2> QED
    BY <1>1, <1>3, <2>1, <2>2
<1> QED
  <2>1. y \in 0 .. SecSize - 1 /\ s \in 0 .. Spc - 1
    BY <1>1, <1>2, SizeFacts
  <2>2. s = (b \div SecSize) % Spc /\ y = b % SecSize
    BY DEF a, y, s
  <2> QED
    BY <1>2, <1>5, <1>6, <2>1, <2>2

-----------------------------------------------------------------------------
(* What the operations on an FCB do to its cursor.                         *)

\* The size of the largest file is a number.
LEMMA MaxSizeFact == MaxSize \in Nat /\ MaxSize = (LastCluster - 1) * ClusterBytes
<1>1. LastCluster - 1 \in Nat /\ ClusterBytes \in Nat
  BY SizeFacts, VolumeConstants
<1> QED
  BY <1>1 DEF MaxSize

\* An FCB of a file: its chain is a chain of that file.
LEMMA ChainOf ==
  ASSUME IInv, NEW k \in Fcbs, fcb[k].file \in Files,
         NEW n \in Nat, Nth(fat, fcb[k].sclust, n) \in Clusters
  PROVE  /\ fcb[k].sclust \in Heads[fcb[k].file]
         /\ n <= LastCluster - 2
         /\ fat[Nth(fat, fcb[k].sclust, n)] # 0
<1>1. Nth(fat, fcb[k].sclust, 0) \in Clusters
  BY ChainPrefix
<1>2. fcb[k].sclust \in Clusters
  BY <1>1, NthStep
<1>3. fcb[k].sclust \in Heads[fcb[k].file]
  BY <1>2 DEF Heads, OpenOn
<1>4. Sole(fat, Heads)
  BY DEF IInv, FatSole
<1> QED
  BY <1>3, <1>4, HeadsType, ChainShort, ChainUsed

\* A position inside cluster number n is inside the volume, and less than a
\* cluster from its start.
LEMMA PositionBound ==
  ASSUME NEW n \in Nat, n <= LastCluster - 2, NEW cs \in 0 .. Spc, NEW bo \in Nat,
         cs = Spc => bo = 0, bo <= SecSize
  PROVE  /\ n * ClusterBytes + cs * SecSize + bo \in 0 .. MaxSize
         /\ n * ClusterBytes + cs * SecSize + bo <= (n + 1) * ClusterBytes
<1>1. cs * SecSize + bo <= ClusterBytes /\ cs * SecSize \in Nat
  <2>1. cs * SecSize \in Nat
    BY SizeFacts
  <2>2. CASE cs = Spc
    BY <2>2, <2>1, SizeFacts
  <2>3. CASE cs # Spc
    <3>1. (cs + 1) * SecSize <= Spc * SecSize
      BY <2>3, SizeFacts
    <3>2. (cs + 1) * SecSize = cs * SecSize + SecSize
      BY SizeFacts
    <3> QED
      BY <2>1, <3>1, <3>2, SizeFacts
  <2> QED
    BY <2>2, <2>3
<1>2. (n + 1) * ClusterBytes = n * ClusterBytes + ClusterBytes /\ n * ClusterBytes \in Nat
  BY SizeFacts
<1>3. (n + 1) * ClusterBytes <= (LastCluster - 1) * ClusterBytes
  BY SizeFacts, VolumeConstants
<1> DEFINE A == n * ClusterBytes
           B == cs * SecSize
           C == (n + 1) * ClusterBytes
<1>4. A \in Nat /\ B \in Nat /\ B + bo <= ClusterBytes /\ C = A + ClusterBytes /\ C <= MaxSize
  BY <1>1, <1>2, <1>3, MaxSizeFact
<1> HIDE DEF A, B, C
<1>5. A + B + bo \in 0 .. MaxSize /\ A + B + bo <= C
  BY <1>4, SizeFacts, MaxSizeFact
<1> QED
  BY <1>5 DEF A, B, C

\* _fcb_seek_to goes to the byte before the target and steps over it.
LEMMA SeekPlaces ==
  ASSUME NEW r \in FcbRecords, NEW target \in 1 .. MaxSize,
         Nth(fat, r.sclust, (target - 1) \div ClusterBytes) \in Clusters
  PROVE  LET q == SeekTo(r, target)
         IN  /\ q \in FcbRecords /\ q.cclust \in Clusters
             /\ q = [r EXCEPT !.cclust = q.cclust, !.csect = q.csect, !.boff = q.boff]
             /\ \E n \in Nat : /\ q.cclust = Nth(fat, r.sclust, n)
                               /\ target = n * ClusterBytes + q.csect * SecSize + q.boff
             /\ q.csect = Spc => q.boff = 0
<1> DEFINE lbi == target - 1
           n == lbi \div ClusterBytes
           s == (lbi \div SecSize) % Spc
           b == lbi % SecSize
           wrap == b + 1 = SecSize
           cs == IF wrap THEN s + 1 ELSE s
           bo == IF wrap THEN 0 ELSE b + 1
           q == SeekTo(r, target)
<1>1. lbi \in Nat
  BY MaxSizeFact
<1>2. /\ n \in Nat /\ s \in 0 .. Spc - 1 /\ b \in 0 .. SecSize - 1
      /\ lbi = n * ClusterBytes + s * SecSize + b
  <2> HIDE DEF lbi
  <2> QED BY <1>1, ByteAt
<1>3. q = [r EXCEPT !.cclust = Nth(fat, r.sclust, n), !.csect = cs, !.boff = bo]
  BY DEF SeekTo
<1>4. Nth(fat, r.sclust, n) \in Clusters
  OBVIOUS
<1>5. target = lbi + 1
  BY MaxSizeFact
<1> HIDE DEF n, s, b, lbi
<1>6. cs \in 0 .. Spc /\ bo \in 0 .. SecSize - 1 /\ (cs = Spc => bo = 0)
  BY <1>2, SizeFacts
<1>7. target = n * ClusterBytes + cs * SecSize + bo
  <2>1. n * ClusterBytes \in Nat /\ s * SecSize \in Nat
        /\ (s + 1) * SecSize = s * SecSize + SecSize
    BY <1>2, SizeFacts
  <2> DEFINE A == n * ClusterBytes
             B == s * SecSize
  <2>2. A \in Nat /\ B \in Nat /\ lbi = A + B + b
    BY <1>2, <2>1
  <2>3. CASE wrap
    <3>1. cs * SecSize = B + SecSize /\ bo = 0
      BY <2>1, <2>3
    <3> HIDE DEF A, B
    <3>2. target = A + (B + SecSize) + 0
      BY <1>2, <1>5, <2>2, <2>3, SizeFacts
    <3> QED
      BY <3>1, <3>2 DEF A
  <2>4. CASE ~wrap
    <3>1. cs * SecSize = B /\ bo = b + 1
      BY <2>4
    <3> HIDE DEF A, B
    <3>2. target = A + B + (b + 1)
      BY <1>2, <1>5, <2>2, SizeFacts
    <3> QED
      BY <3>1, <3>2 DEF A
  <2> QED
    BY <2>3, <2>4
<1> HIDE DEF cs, bo
<1>8. /\ q \in FcbRecords /\ q.cclust = Nth(fat, r.sclust, n) /\ q.csect = cs /\ q.boff = bo
      /\ q = [r EXCEPT !.cclust = q.cclust, !.csect = q.csect, !.boff = q.boff]
  BY <1>3, <1>4, <1>6 DEF FcbRecords
<1> HIDE DEF q
<1>9. /\ q.cclust \in Clusters
      /\ \E m \in Nat : /\ q.cclust = Nth(fat, r.sclust, m)
                        /\ target = m * ClusterBytes + q.csect * SecSize + q.boff
      /\ q.csect = Spc => q.boff = 0
  BY <1>2, <1>4, <1>6, <1>7, <1>8
<1> QED
  BY <1>8, <1>9 DEF q

\* A target inside the file has a cluster before it.
LEMMA CoveredTarget ==
  ASSUME NEW r \in FcbRecords, Covered(fat, r), NEW target \in 1 .. r.fsize
  PROVE  Nth(fat, r.sclust, (target - 1) \div ClusterBytes) \in Clusters
<1> DEFINE lbi == target - 1
           n == lbi \div ClusterBytes
<1>0. r.fsize \in Nat
  BY MaxSizeFact DEF FcbRecords
<1>1. lbi \in Nat /\ lbi < r.fsize
  BY <1>0
<1>2. n \in Nat /\ n * ClusterBytes <= lbi
  <2> HIDE DEF lbi
  <2>1. n \in Nat /\ lbi % ClusterBytes \in Nat /\ lbi = ClusterBytes * n + (lbi % ClusterBytes)
    BY <1>1, SizeFacts, DivMod
  <2> HIDE DEF n
  <2>2. n * ClusterBytes = ClusterBytes * n /\ n * ClusterBytes \in Nat
    BY <2>1, SizeFacts
  <2> DEFINE A == n * ClusterBytes
             z == lbi % ClusterBytes
  <2>3. z \in Nat /\ lbi = A + z /\ A \in Nat
    BY <2>1, <2>2
  <2> HIDE DEF A, z
  <2>4. A <= lbi
    BY <2>3
  <2> QED
    BY <2>1, <2>4 DEF A
<1> HIDE DEF n
<1>3. n * ClusterBytes < r.fsize
  <2>1. n * ClusterBytes \in Nat
    BY <1>2, SizeFacts
  <2> QED
    BY <1>0, <1>1, <1>2, <2>1
<1>4. Nth(fat, r.sclust, n) \in Clusters
  BY <1>2, <1>3 DEF Covered
<1> QED
  BY <1>4 DEF n

\* file_seek, anywhere in the file.
LEMMA SoughtSteady ==
  ASSUME NEW r \in FcbRecords, Steady(faults, fat, r), NEW target \in 0 .. r.fsize,
         target # 0 => Reaches(r, target)
  PROVE  Sought(r, target) \in FcbRecords /\ Steady(faults, fat, Sought(r, target))
         /\ Sought(r, target).open = r.open
<1>0. r.fsize \in 0 .. MaxSize /\ MaxSize \in Nat /\ target \in 0 .. MaxSize
  BY MaxSizeFact DEF FcbRecords
<1>1. CASE target = 0
  <2> DEFINE q == [r EXCEPT !.cclust = r.sclust, !.csect = 0, !.boff = 0, !.fpos = 0,
                            !.iovalid = FALSE]
  <2>1. Sought(r, target) = q
    BY <1>1 DEF Sought, FcbRecords
  <2>2. /\ q \in FcbRecords /\ q.cclust = r.sclust /\ q.sclust = r.sclust /\ q.csect = 0
        /\ q.boff = 0 /\ q.fpos = 0 /\ q.fsize = r.fsize /\ q.open = r.open
        /\ q.iovalid = FALSE
    <3>1. 0 \in 0 .. Spc /\ 0 \in 0 .. SecSize - 1 /\ 0 \in 0 .. MaxSize
      BY <1>0, SizeFacts
    <3>2. r.sclust \in {0} \cup Clusters
      BY DEF FcbRecords
    <3> QED
      BY <3>1, <3>2 DEF FcbRecords
  <2> HIDE DEF q
  <2>3. Placed(fat, q)
    <3>1. q.cclust = Nth(fat, q.sclust, 0)
      BY <2>2, NthStep
    <3>2. 0 = 0 * ClusterBytes + 0 * SecSize + 0 /\ 0 \in Nat
      BY SizeFacts
    <3> QED
      BY <2>2, <3>1, <3>2 DEF Placed
  <2>4. Steady(faults, fat, q)
    BY <1>0, <2>2, <2>3, SizeFacts DEF Steady, Covered
  <2> QED
    BY <2>1, <2>2, <2>4
<1>2. CASE target # 0
  <2> DEFINE p == SeekTo(r, target)
             q == [p EXCEPT !.fpos = target, !.iovalid = FALSE]
  <2>1. Sought(r, target) = q
    BY <1>2 DEF Sought
  <2>2. target \in 1 .. r.fsize /\ target \in 1 .. MaxSize
    BY <1>0, <1>2
  <2>3. /\ p \in FcbRecords /\ p.cclust \in Clusters
        /\ p = [r EXCEPT !.cclust = p.cclust, !.csect = p.csect, !.boff = p.boff]
        /\ \E n \in Nat : /\ p.cclust = Nth(fat, r.sclust, n)
                          /\ target = n * ClusterBytes + p.csect * SecSize + p.boff
        /\ p.csect = Spc => p.boff = 0
    BY <1>2, <2>2, SeekPlaces DEF Reaches
  <2> HIDE DEF p
  <2>4. /\ q \in FcbRecords /\ q.cclust = p.cclust /\ q.sclust = r.sclust
        /\ q.csect = p.csect /\ q.boff = p.boff /\ q.fpos = target
        /\ q.fsize = r.fsize /\ q.iovalid = FALSE /\ q.open = r.open
    <3>1. /\ p.sclust = r.sclust /\ p.fsize = r.fsize /\ p.open = r.open
      BY <2>3 DEF FcbRecords
    <3> QED
      BY <1>0, <2>3, <3>1 DEF FcbRecords
  <2> HIDE DEF q
  <2>5. Placed(fat, q)
    BY <2>3, <2>4, ClusterFacts DEF Placed
  <2>6. Steady(faults, fat, q)
    BY <1>0, <2>3, <2>4, <2>5 DEF Steady, Covered
  <2> QED
    BY <2>1, <2>4, <2>6
<1> QED
  BY <1>1, <1>2

\* Where the model lets file_read go on, there is a cluster.
LEMMA GoesThere ==
  ASSUME NEW r \in FcbRecords, Steady(faults, fat, r), GoesOn(r)
  PROVE  /\ r.cclust \in Clusters
         /\ r.csect = Spc => Link(fat, r.cclust) \in Clusters
<1>1. CASE r.csect = Spc
  <2>1. r.cclust # 0
    BY <1>1, SizeFacts DEF Steady, Placed
  <2>2. Resolve(r).cclust = Link(fat, r.cclust)
    BY <1>1 DEF Resolve, FcbRecords
  <2> QED
    BY <2>1, <2>2 DEF GoesOn, FcbRecords
<1>2. CASE r.csect # Spc
  BY <1>2 DEF GoesOn, Resolve
<1> QED
  BY <1>1, <1>2

\* Before the end of the file there is a cluster, and at its end another one:
\* until the system is restarted.
LEMMA NextThere ==
  ASSUME NEW r \in FcbRecords, Steady(faults, fat, r), r.fpos < r.fsize,
         faults.crash = 0
  PROVE  /\ r.cclust \in Clusters
         /\ r.csect = Spc => Link(fat, r.cclust) \in Clusters
<1>0. r.fsize \in Nat /\ r.fpos \in Nat
  BY MaxSizeFact DEF FcbRecords
<1>1. r.cclust # 0
  <2> SUFFICES ASSUME r.cclust = 0 PROVE FALSE
    OBVIOUS
  <2>1. r.sclust = 0 /\ r.fpos = 0
    BY DEF Steady, Placed
  <2>2. 0 \in Nat /\ 0 * ClusterBytes < r.fsize
    BY <1>0, <2>1, SizeFacts
  <2>3. Nth(fat, r.sclust, 0) \in Clusters
    BY <2>2 DEF Steady, Covered
  <2> QED
    BY <2>1, <2>3, NthStep, ClusterFacts
<1>2. r.cclust \in Clusters
  BY <1>1 DEF FcbRecords
<1>3. ASSUME r.csect = Spc PROVE Link(fat, r.cclust) \in Clusters
  <2>1. PICK n \in Nat : /\ r.cclust = Nth(fat, r.sclust, n)
                         /\ r.fpos = n * ClusterBytes + r.csect * SecSize + r.boff
    BY <1>1 DEF Steady, Placed
  <2>2. r.boff = 0
    BY <1>3 DEF Steady
  <2>3. (n + 1) * ClusterBytes = n * ClusterBytes + Spc * SecSize /\ n + 1 \in Nat
        /\ n * ClusterBytes \in Nat /\ Spc * SecSize \in Nat
    BY SizeFacts
  <2>4. (n + 1) * ClusterBytes < r.fsize
    BY <1>3, <2>1, <2>2, <2>3
  <2>5. Nth(fat, r.sclust, n + 1) \in Clusters
    BY <2>3, <2>4 DEF Steady, Covered
  <2>6. Nth(fat, r.sclust, n + 1) = Link(fat, Nth(fat, r.sclust, n))
    BY <2>1, NthStep
  <2> QED
    BY <2>1, <2>5, <2>6
<1> QED
  BY <1>2, <1>3

\* The pending move is made.
LEMMA ResolveSteady ==
  ASSUME NEW r \in FcbRecords, Steady(faults, fat, r), r.cclust \in Clusters,
         r.csect = Spc => Link(fat, r.cclust) \in Clusters
  PROVE  /\ Resolve(r) \in FcbRecords /\ Steady(faults, fat, Resolve(r))
         /\ Resolve(r).csect \in 0 .. Spc - 1 /\ Resolve(r).cclust \in Clusters
         /\ Resolve(r).open = r.open
<1>1. CASE r.csect # Spc
  <2>1. Resolve(r) = r
    BY <1>1 DEF Resolve
  <2>2. r.csect \in 0 .. Spc - 1
    BY <1>1, SizeFacts DEF FcbRecords
  <2> QED
    BY <2>1, <2>2
<1>2. CASE r.csect = Spc
  <2> DEFINE q == [r EXCEPT !.cclust = Link(fat, r.cclust), !.csect = 0]
  <2>1. Resolve(r) = q
    BY <1>2 DEF Resolve
  <2>2. 0 \in 0 .. Spc /\ 0 \in 0 .. Spc - 1 /\ Link(fat, r.cclust) \in Clusters
    BY <1>2, SizeFacts
  <2>3. /\ q \in FcbRecords /\ q.cclust = Link(fat, r.cclust) /\ q.csect = 0
        /\ q.sclust = r.sclust /\ q.boff = r.boff /\ q.fpos = r.fpos
        /\ q.fsize = r.fsize /\ q.open = r.open /\ q.cclust # 0
    BY <2>2, ClusterFacts DEF FcbRecords
  <2> HIDE DEF q
  <2>4. r.boff = 0 /\ r.cclust # 0
    BY <1>2, ClusterFacts DEF Steady
  <2>5. PICK n \in Nat : /\ r.cclust = Nth(fat, r.sclust, n)
                         /\ r.fpos = n * ClusterBytes + r.csect * SecSize + r.boff
    BY <2>4 DEF Steady, Placed
  <2>6. /\ (n + 1) * ClusterBytes = n * ClusterBytes + Spc * SecSize /\ n + 1 \in Nat
        /\ n * ClusterBytes \in Nat /\ Spc * SecSize \in Nat /\ 0 * SecSize = 0
        /\ (n + 1) * ClusterBytes \in Nat
    BY SizeFacts
  <2>7. r.fpos = (n + 1) * ClusterBytes + 0 * SecSize + 0
    <3> DEFINE A == n * ClusterBytes
               B == Spc * SecSize
               C == (n + 1) * ClusterBytes
               D == 0 * SecSize
    <3>1. r.fpos = A + B + 0 /\ C = A + B /\ D = 0 /\ A \in Nat /\ B \in Nat
      BY <1>2, <2>4, <2>5, <2>6
    <3> HIDE DEF A, B, C, D
    <3>2. r.fpos = C + D + 0
      BY <3>1
    <3> QED
      BY <3>2 DEF C, D
  <2>8. q.cclust = Nth(fat, r.sclust, n + 1)
    <3>1. Nth(fat, r.sclust, n + 1) = Link(fat, Nth(fat, r.sclust, n))
      BY <2>5, NthStep
    <3> QED
      BY <2>3, <2>5, <3>1
  <2>9. Placed(fat, q)
    <3>1. q.cclust # 0
      BY <2>2, <2>3, ClusterFacts
    <3>2. q.cclust = Nth(fat, q.sclust, n + 1)
          /\ q.fpos = (n + 1) * ClusterBytes + q.csect * SecSize + q.boff
      BY <2>3, <2>4, <2>7, <2>8
    <3> QED
      BY <2>6, <3>1, <3>2 DEF Placed
  <2>10. Steady(faults, fat, q)
    BY <2>2, <2>3, <2>9, SizeFacts DEF Steady, Covered
  <2> QED
    BY <2>1, <2>2, <2>3, <2>10
<1> QED
  BY <1>1, <1>2

\* A sector in the buffer.
LEMMA LoadSteady ==
  ASSUME NEW r \in FcbRecords, Steady(faults, fat, r), r.csect \in 0 .. Spc - 1,
         r.cclust \in Clusters, NEW buffer \in Buffers
  PROVE  LET q == [r EXCEPT !.iobuf = buffer, !.iovalid = TRUE]
         IN  q \in FcbRecords /\ Steady(faults, fat, q) /\ q.open = r.open /\ q.cclust = r.cclust
<1> DEFINE q == [r EXCEPT !.iobuf = buffer, !.iovalid = TRUE]
<1>1. /\ q \in FcbRecords /\ q.cclust = r.cclust /\ q.csect = r.csect
      /\ q.sclust = r.sclust /\ q.boff = r.boff /\ q.fpos = r.fpos
      /\ q.fsize = r.fsize /\ q.open = r.open
  BY DEF FcbRecords
<1>2. r.csect # Spc /\ r.cclust # 0
  BY SizeFacts, ClusterFacts
<1> HIDE DEF q
<1>3. Steady(faults, fat, q)
  BY <1>1, <1>2 DEF Steady, Covered, Placed
<1> QED
  BY <1>1, <1>3 DEF q

\* A changed buffer.
LEMMA BufferSteady ==
  ASSUME NEW r \in FcbRecords, Steady(faults, fat, r), NEW buffer \in Buffers
  PROVE  LET q == [r EXCEPT !.iobuf = buffer]
         IN  q \in FcbRecords /\ Steady(faults, fat, q) /\ q.open = r.open
<1> DEFINE q == [r EXCEPT !.iobuf = buffer]
<1>1. /\ q \in FcbRecords /\ q.cclust = r.cclust /\ q.csect = r.csect
      /\ q.sclust = r.sclust /\ q.boff = r.boff /\ q.fpos = r.fpos
      /\ q.fsize = r.fsize /\ q.open = r.open /\ q.iovalid = r.iovalid
  BY DEF FcbRecords
<1> HIDE DEF q
<1>2. Steady(faults, fat, q)
  BY <1>1 DEF Steady, Covered, Placed
<1> QED
  BY <1>1, <1>2 DEF q

\* The step over a chunk of the sector, seen as a position.
LEMMA AdvancePlaces ==
  ASSUME NEW r \in FcbRecords, r.cclust \in Clusters, r.csect \in 0 .. Spc - 1,
         NEW N \in Nat, r.cclust = Nth(fat, r.sclust, N),
         r.fpos = N * ClusterBytes + r.csect * SecSize + r.boff,
         NEW n \in Nat, r.boff + n <= SecSize,
         r.csect = Spc => ~r.iovalid,
         r.fpos + n \in 0 .. MaxSize
  PROVE  LET q == Advance(r, n)
         IN  /\ q \in FcbRecords /\ q.open = r.open /\ q.sclust = r.sclust
             /\ q.fsize = r.fsize /\ q.fpos = r.fpos + n /\ q.cclust = r.cclust
             /\ Placed(fat, q)
             /\ q.csect = Spc => q.boff = 0 /\ ~q.iovalid
<1> DEFINE q == Advance(r, n)
           bo == r.boff + n
<1>0. /\ r.boff \in 0 .. SecSize - 1 /\ r.fpos \in Nat /\ bo \in Nat
      /\ N * ClusterBytes \in Nat /\ r.csect * SecSize \in Nat
      /\ (r.csect + 1) * SecSize = r.csect * SecSize + SecSize /\ r.cclust # 0
      /\ r.csect # Spc
  BY SizeFacts, MaxSizeFact, ClusterFacts DEF FcbRecords
<1> DEFINE A == N * ClusterBytes
           B == r.csect * SecSize
<1>1. CASE bo = SecSize
  <2> DEFINE p == [r EXCEPT !.boff = 0, !.fpos = r.fpos + n, !.csect = r.csect + 1,
                            !.iovalid = FALSE]
  <2>1. q = p
    BY <1>1 DEF Advance, FcbRecords
  <2>2. 0 \in 0 .. SecSize - 1 /\ r.csect + 1 \in 0 .. Spc
    BY SizeFacts
  <2>3. /\ p \in FcbRecords /\ p.open = r.open /\ p.sclust = r.sclust
        /\ p.fsize = r.fsize /\ p.fpos = r.fpos + n /\ p.cclust = r.cclust
        /\ p.csect = r.csect + 1 /\ p.boff = 0 /\ p.iovalid = FALSE
    BY <2>2 DEF FcbRecords
  <2> HIDE DEF p
  <2>4. p.fpos = A + p.csect * SecSize + p.boff
    <3>1. p.csect * SecSize = B + SecSize
      BY <1>0, <2>3
    <3>2. r.fpos = A + B + r.boff /\ A \in Nat /\ B \in Nat
      BY <1>0
    <3> HIDE DEF A, B
    <3>3. r.fpos + n = A + (B + SecSize) + 0
      BY <1>0, <1>1, <3>2, SizeFacts
    <3> QED
      BY <2>3, <3>1, <3>3
  <2>5. Placed(fat, p)
    BY <1>0, <2>3, <2>4 DEF Placed
  <2> QED
    BY <2>1, <2>3, <2>5
<1>2. CASE bo # SecSize
  <2> DEFINE p == [r EXCEPT !.boff = bo, !.fpos = r.fpos + n]
  <2>1. q = p
    BY <1>2 DEF Advance, FcbRecords
  <2>2. bo \in 0 .. SecSize - 1
    BY <1>0, <1>2, SizeFacts
  <2> HIDE DEF bo
  <2>3. /\ p \in FcbRecords /\ p.open = r.open /\ p.sclust = r.sclust
        /\ p.fsize = r.fsize /\ p.fpos = r.fpos + n /\ p.cclust = r.cclust
        /\ p.csect = r.csect /\ p.boff = bo /\ p.iovalid = r.iovalid
    BY <2>2 DEF FcbRecords
  <2> HIDE DEF p
  <2>4. p.fpos = A + p.csect * SecSize + p.boff
    <3>1. p.csect * SecSize = B
      BY <2>3
    <3>2. r.fpos = A + B + r.boff /\ A \in Nat /\ B \in Nat
      BY <1>0
    <3> HIDE DEF A, B
    <3>3. r.fpos + n = A + B + bo
      BY <1>0, <3>2 DEF bo
    <3> QED
      BY <2>3, <3>1, <3>3
  <2>5. Placed(fat, p)
    BY <1>0, <2>3, <2>4 DEF Placed
  <2> QED
    BY <1>0, <2>1, <2>3, <2>5
<1> QED
  BY <1>1, <1>2

\* The smallest of two numbers, and of three.
LEMMA SmallestOf ==
  /\ \A a, b \in Nat : LET m == Min({a, b}) IN m \in Nat /\ m <= a /\ m <= b
  /\ \A a, b, c \in Nat :
       LET m == Min({a, b, c}) IN m \in Nat /\ m <= a /\ m <= b /\ m <= c
<1>1. ASSUME NEW S \in SUBSET Nat, S # {}
      PROVE  Min(S) \in S /\ \A y \in S : Min(S) <= y
  <2>1. \E m \in S : \A y \in S : m <= y
    BY <1>1, Least
  <2> QED
    BY <2>1 DEF Min
<1>2. ASSUME NEW a \in Nat, NEW b \in Nat
      PROVE  Min({a, b}) \in Nat /\ Min({a, b}) <= a /\ Min({a, b}) <= b
  <2> DEFINE S == {a, b}
  <2>1. S \in SUBSET Nat /\ S # {} /\ a \in S /\ b \in S
    OBVIOUS
  <2> HIDE DEF S
  <2>2. Min(S) \in Nat /\ Min(S) <= a /\ Min(S) <= b
    BY <1>1, <2>1
  <2> QED
    BY <2>2 DEF S
<1>3. ASSUME NEW a \in Nat, NEW b \in Nat, NEW c \in Nat
      PROVE  /\ Min({a, b, c}) \in Nat /\ Min({a, b, c}) <= a
             /\ Min({a, b, c}) <= b /\ Min({a, b, c}) <= c
  <2> DEFINE S == {a, b, c}
  <2>1. S \in SUBSET Nat /\ S # {} /\ a \in S /\ b \in S /\ c \in S
    OBVIOUS
  <2> HIDE DEF S
  <2>2. Min(S) \in Nat /\ Min(S) <= a /\ Min(S) <= b /\ Min(S) <= c
    BY <1>1, <2>1
  <2> QED
    BY <2>2 DEF S
<1> QED
  BY <1>2, <1>3

\* What file_read has collected and file_write has left: short sequences.
LEMMA RequestSeq ==
  ASSUME NEW s
  PROVE  s \in {<<>>} \cup Requests <=> s \in Seq(Bytes) /\ Len(s) <= MaxRequest
<1>0. MaxRequest \in Nat
  BY FileConstants
<1>1. ASSUME s \in {<<>>} \cup Requests
      PROVE  s \in Seq(Bytes) /\ Len(s) <= MaxRequest
  <2>1. CASE s = <<>>
    BY <1>0, <2>1
  <2>2. CASE s # <<>>
    <3>1. PICK n \in 1 .. MaxRequest : s \in [1 .. n -> Bytes]
      BY <1>1, <2>2 DEF Requests
    <3>2. n \in Nat /\ s \in Seq(Bytes)
      BY <1>0, <3>1, IsASeq
    <3>3. Len(s) = n
      BY <3>1, <3>2, LenProperties
    <3> QED
      BY <1>0, <3>2, <3>3
  <2> QED
    BY <2>1, <2>2
<1>2. ASSUME s \in Seq(Bytes), Len(s) <= MaxRequest
      PROVE  s \in {<<>>} \cup Requests
  <2>1. Len(s) \in Nat /\ s \in [1 .. Len(s) -> Bytes]
    BY <1>2, LenProperties
  <2>2. CASE Len(s) = 0
    BY <1>2, <2>2, EmptySeq
  <2>3. CASE Len(s) # 0
    <3>1. Len(s) \in 1 .. MaxRequest
      BY <1>0, <1>2, <2>1, <2>3
    <3> QED
      BY <2>1, <3>1 DEF Requests
  <2> QED
    BY <2>2, <2>3
<1> QED
  BY <1>1, <1>2

-----------------------------------------------------------------------------
(* The chains of the open files outlive each step.                         *)

\* The FAT t keeps what the chain of r is now.
Keeps(t, r) == \A n \in Nat : Nth(fat, r.sclust, n) \in Clusters
                                => Nth(t, r.sclust, n) = Nth(fat, r.sclust, n)

\* Then the cursor is where it was.
LEMMA SteadyKept ==
  ASSUME NEW t, NEW r \in FcbRecords, Steady(faults, fat, r), Keeps(t, r)
  PROVE  Steady(faults, t, r)
<1>1. Placed(t, r)
  <2>1. CASE r.cclust = 0
    BY <2>1 DEF Steady, Placed
  <2>2. CASE r.cclust # 0
    <3>1. PICK n \in Nat : /\ r.cclust = Nth(fat, r.sclust, n)
                           /\ r.fpos = n * ClusterBytes + r.csect * SecSize + r.boff
      BY <2>2 DEF Steady, Placed
    <3>2. r.cclust \in Clusters
      BY <2>2 DEF FcbRecords
    <3>3. r.cclust = Nth(t, r.sclust, n)
      BY <3>1, <3>2 DEF Keeps
    <3> QED
      BY <2>2, <3>1, <3>3 DEF Placed
  <2> QED
    BY <2>1, <2>2
<1>2. faults.crash = 0 => Covered(t, r)
  BY DEF Steady, Covered, Keeps
<1> QED
  BY <1>1, <1>2 DEF Steady

\* A cluster that is allocated, or linked behind the end of a chain.
LEMMA KeepsGrowing ==
  ASSUME NEW r, NEW t, NEW p, NEW v, t = [fat EXCEPT ![p] = v],
         fat \in [Clusters -> Links], p \in Clusters => fat[p] \notin Clusters
  PROVE  Keeps(t, r)
<1>1. \A d \in Clusters : fat[d] \in Clusters => t[d] = fat[d]
  OBVIOUS
<1>2. ASSUME NEW n \in Nat, Nth(fat, r.sclust, n) \in Clusters
      PROVE  Nth(t, r.sclust, n) = Nth(fat, r.sclust, n)
  <2> HIDE DEF Keeps
  <2> QED
    BY ONLY <1>1, <1>2, ChainGrows
<1> QED
  BY <1>2 DEF Keeps

\* A change of a cluster that is in no open file's chain.
LEMMA KeepsBeside ==
  ASSUME NEW r, NEW t, NEW p, \A d \in Clusters : d # p => t[d] = fat[d],
         \A n \in Nat : Nth(fat, r.sclust, n) \in Clusters
                           => Nth(fat, r.sclust, n) # p
  PROVE  Keeps(t, r)
<1>1. ASSUME NEW n \in Nat, Nth(fat, r.sclust, n) \in Clusters
      PROVE  Nth(t, r.sclust, n) = Nth(fat, r.sclust, n)
  <2> DEFINE c == r.sclust
  <2>1. \A i \in Nat : Nth(fat, c, i) \in Clusters => Nth(fat, c, i) # p
    OBVIOUS
  <2>2. Nth(fat, c, n) \in Clusters
    BY <1>1
  <2> HIDE DEF c
  <2>3. Nth(t, c, n) = Nth(fat, c, n)
    BY <2>1, <2>2, ChainBeside
  <2> QED
    BY <2>3 DEF c
<1> QED
  BY <1>1 DEF Keeps

\* The last cluster of a file that is being closed belongs to no open file.
LEMMA LastOneApart ==
  ASSUME IInv, CursorInv, call.op = "close", LastOne \in Clusters,
         NEW k \in Fcbs, fcb[k].open, Cur.fsize > 0,
         NEW n \in Nat, Nth(fat, fcb[k].sclust, n) \in Clusters
  PROVE  Nth(fat, fcb[k].sclust, n) # LastOne
<1>1. /\ call.k \in Fcbs /\ Cur.file \in Files /\ Cur.write /\ ~Cur.open
      /\ k # call.k
  BY DEF IInv, CallOK, CursorInv, Working, Cur
<1>2. fcb[k].file \in Files
  BY DEF IInv, Shape, IsFcb
<1>3. fcb[k].file # Cur.file
  BY <1>1, <1>2, FileConstants DEF IInv, Exclusive, Cur
<1> DEFINE m == (Cur.fsize - 1) \div ClusterBytes
<1>4. Cur.fsize \in Nat
  BY <1>1, MaxSizeFact DEF CursorInv, StateOK, Cur
<1>5. m \in Nat
  <2>1. Cur.fsize - 1 \in Nat
    BY <1>4
  <2> QED
    BY <2>1, SizeFacts, DivMod
<1>6. LastOne = Nth(fat, Cur.sclust, m)
  <2>1. fcb[call.k] \in [file : Files \cup {NoFile}, open : BOOLEAN,
                       write : BOOLEAN, sizechg : BOOLEAN, iovalid : BOOLEAN,
                       sclust : {0} \cup Clusters, cclust : {0} \cup Clusters,
                       csect : 0 .. Spc, boff : 0 .. SecSize - 1,
                       fsize : 0 .. MaxSize, fpos : 0 .. MaxSize,
                       iobuf : Buffers]
    BY <1>1 DEF CursorInv, StateOK
  <2> QED
    BY <2>1 DEF LastOne, SeekTo, Cur
<1> HIDE DEF m
<1>7. Cur.sclust \in Heads[Cur.file] /\ fcb[k].sclust \in Heads[fcb[k].file]
  BY <1>1, <1>2, <1>5, <1>6, ChainOf DEF Cur
<1> QED
  BY <1>1, <1>2, <1>3, <1>5, <1>6, <1>7, HeadsType, ChainsApart DEF IInv, FatSole

\* Every step but a restart keeps them.
LEMMA ChainsKept ==
  ASSUME IInv, CursorInv, Running, NEW k \in Fcbs, fcb[k].open
  PROVE  Keeps(fat', fcb[k])
<1>0. fat \in [Clusters -> Links] /\ fcb[k].file \in Files /\ fcb[k] \in FcbRecords
  BY DEF IInv, Shape, IsFcb, CursorInv, StateOK, FcbRecords
<1>1. CASE UNCHANGED fat
  BY <1>1 DEF Keeps
<1>2. CASE WriteFirst \/ WriteFirstFails \/ Grow
  <2>1. CASE \E c \in Clusters : Alloc(c)
    BY <1>0, <2>1, KeepsGrowing, ClusterFacts DEF Alloc
  <2> QED
    BY <1>1, <1>2, <2>1 DEF WriteFirst, WriteFirstFails, Grow, FirstCluster
<1>3. CASE LinkNew
  <2>1. fat' = [fat EXCEPT ![Cur.cclust] = call.c] /\ fat[Cur.cclust] = Eoc
    BY <1>3 DEF LinkNew, CursorInv, Working
  <2> QED
    BY <1>0, <2>1, KeepsGrowing, ClusterFacts
<1>4. CASE Trim
  <2>1. CASE Link(fat, LastOne) \in Clusters
    <3>1. LastOne \in Clusters /\ fat' = [fat EXCEPT ![LastOne] = Eoc]
          /\ call.op = "close" /\ Cur.fsize > 0
      BY <1>4, <2>1, ClusterFacts DEF Trim, Link
    <3>2. \A n \in Nat : Nth(fat, fcb[k].sclust, n) \in Clusters
                           => Nth(fat, fcb[k].sclust, n) # LastOne
      BY <3>1, LastOneApart
    <3>3. \A d \in Clusters : d # LastOne => fat'[d] = fat[d]
      BY <1>0, <3>1
    <3> QED
      BY <3>2, <3>3, KeepsBeside
  <2> QED
    BY <1>1, <1>4, <2>1 DEF Trim
<1>5. CASE FreeOne
  <2>1. Orphan(fat, Heads, call.c) /\ fat' = [fat EXCEPT ![call.c] = 0]
    BY <1>5 DEF FreeOne, IInv, CallHolds
  <2>2. \A n \in Nat : Nth(fat, fcb[k].sclust, n) \in Clusters
                         => Nth(fat, fcb[k].sclust, n) # call.c
    BY <1>0, <2>1, ChainOf, OrphanBeside
  <2>3. \A d \in Clusters : d # call.c => fat'[d] = fat[d]
    BY <1>0, <2>1
  <2> QED
    BY <2>2, <2>3, KeepsBeside
<1>6. CASE Caller
  BY <1>1, <1>6 DEF Caller, OpenCall, SeekCall, ReadCall, WriteCall, CloseCall, DeleteCall
<1>7. CASE \/ ReadSector \/ ReadFails \/ ReadChunk \/ ReadDone \/ WriteSector
           \/ WriteSectorFails \/ GrowFull \/ LinkFails
  BY <1>1, <1>7 DEF ReadSector, ReadFails, ReadChunk, ReadDone, WriteSector,
     WriteSectorFails, GrowFull, LinkFails
<1>8. CASE \/ WriteChunk \/ WriteChunkFails \/ WriteDone \/ CloseSize \/ CloseFails
           \/ TrimAll \/ FreeFails \/ FlushLast \/ FlushFails \/ Sync \/ UNCHANGED state
  BY <1>1, <1>8 DEF WriteChunk, WriteChunkFails, WriteDone, CloseSize, CloseFails,
     TrimAll, FreeFails, FlushLast, FlushFails, Sync, state
<1> QED
  BY <1>2, <1>3, <1>4, <1>5, <1>6, <1>7, <1>8 DEF Running, Kernel

-----------------------------------------------------------------------------
(* The steps of a call leave every cursor in its place.                    *)

Cursors == /\ fcb \in [Fcbs -> FcbRecords]
           /\ \A k \in Fcbs : fcb[k].open => Steady(faults, fat, fcb[k])

\* The invariant says so of the FCBs now.
LEMMA CursorsNow ==
  ASSUME CursorInv
  PROVE  Cursors
BY DEF CursorInv, StateOK, Cursors, FcbRecords

\* One FCB is changed, to one whose cursor is right.
LEMMA OneCursor ==
  ASSUME IInv, CursorInv, Running, NEW k \in Fcbs, NEW r \in FcbRecords,
         r.open => Steady(faults, fat', r), fcb' = [fcb EXCEPT ![k] = r]
  PROVE  Cursors'
<1>0. faults'.crash = faults.crash
  BY RestartsKept DEF IInv, Shape
<1>1. Cursors
  BY CursorsNow
<1>2. fcb' \in [Fcbs -> FcbRecords]
  BY <1>1 DEF Cursors
<1>3. ASSUME NEW l \in Fcbs, fcb'[l].open
      PROVE  Steady(faults, fat', fcb'[l])
  <2>1. CASE l = k
    BY <1>1, <1>3, <2>1 DEF Cursors
  <2>2. CASE l # k
    <3>1. fcb'[l] = fcb[l] /\ fcb[l] \in FcbRecords
      BY <1>1, <2>2 DEF Cursors
    <3>2. Steady(faults, fat, fcb[l]) /\ Keeps(fat', fcb[l])
      BY <1>1, <1>3, <3>1, ChainsKept DEF Cursors
    <3> QED
      BY <3>1, <3>2, SteadyKept
  <2> QED
    BY <2>1, <2>2
<1> QED
  BY <1>0, <1>2, <1>3 DEF Cursors, Steady

\* None is.
LEMMA NoCursor ==
  ASSUME IInv, CursorInv, Running, UNCHANGED fcb
  PROVE  Cursors'
<1>0. faults'.crash = faults.crash
  BY RestartsKept DEF IInv, Shape
<1>1. Cursors
  BY CursorsNow
<1>2. ASSUME NEW l \in Fcbs, fcb[l].open
      PROVE  Steady(faults, fat', fcb[l])
  <2>1. Steady(faults, fat, fcb[l]) /\ Keeps(fat', fcb[l]) /\ fcb[l] \in FcbRecords
    BY <1>1, <1>2, ChainsKept DEF Cursors
  <2> QED
    BY <2>1, SteadyKept
<1> QED
  BY <1>0, <1>1, <1>2 DEF Cursors, Steady

\* The FCB of the call, and its sector of the disk.
LEMMA CurCursor ==
  ASSUME IInv, CursorInv, call.op \in {"read", "write"}
  PROVE  call.k \in Fcbs /\ Cur \in FcbRecords /\ Cur.open /\ Steady(faults, fat, Cur)
<1>1. call.k \in Fcbs /\ Cur.open
  BY DEF IInv, CallOK, CursorInv, Working
<1> QED
  BY <1>1, CursorsNow DEF Cursors, Cur

\* A cursor inside its cluster is on a sector.
LEMMA SectorIs ==
  ASSUME CursorInv, NEW r \in FcbRecords, r.cclust \in Clusters, r.csect \in 0 .. Spc - 1
  PROVE  SectorOf(r) \in Sectors /\ data[SectorOf(r)] \in Buffers
BY DEF CursorInv, StateOK, SectorOf, Sectors

\* file_read.
LEMMA ReadCursor ==
  ASSUME IInv, CursorInv, ReadSector \/ ReadFails \/ ReadChunk \/ ReadDone
  PROVE  Cursors'
<1>0. Running
  BY DEF Running, Kernel
<1>1. /\ call.op = "read" /\ call.k \in Fcbs /\ Cur \in FcbRecords /\ Cur.open
      /\ Steady(faults, fat, Cur) /\ fcb[call.k] = Cur
  BY CurCursor DEF ReadSector, ReadFails, ReadChunk, ReadDone, Cur
<1>2. CASE ReadSector \/ (ReadFails /\ ~UNCHANGED fcb)
  <2> DEFINE r == Resolve(Cur)
  <2>1. GoesOn(Cur) /\ UNCHANGED fat
    BY <1>2 DEF ReadSector, ReadFails
  <2>2. /\ r \in FcbRecords /\ Steady(faults, fat, r) /\ r.csect \in 0 .. Spc - 1
        /\ r.cclust \in Clusters /\ r.open
    BY <1>1, <2>1, GoesThere, ResolveSteady
  <2>3. CASE ReadSector
    <3> DEFINE q == [r EXCEPT !.iobuf = data[SectorOf(r)], !.iovalid = TRUE]
    <3>1. fcb' = [fcb EXCEPT ![call.k] = q]
      BY <2>3 DEF ReadSector
    <3> HIDE DEF r
    <3>2. q \in FcbRecords /\ Steady(faults, fat, q)
      BY <2>2, SectorIs, LoadSteady
    <3> HIDE DEF q
    <3> QED
      BY <1>0, <1>1, <2>1, <3>1, <3>2, OneCursor
  <2>4. CASE ReadFails /\ ~UNCHANGED fcb
    <3>1. fcb' = [fcb EXCEPT ![call.k] = r]
      BY <1>1, <2>4 DEF ReadFails
    <3> HIDE DEF r
    <3> QED
      BY <1>0, <1>1, <2>1, <2>2, <3>1, OneCursor
  <2> QED
    BY <1>2, <2>3, <2>4
<1>3. CASE ReadChunk
  <2> DEFINE n == Min({call.n, SecSize - Cur.boff, Cur.fsize - Cur.fpos})
             q == Advance(Cur, n)
  <2>1. fcb' = [fcb EXCEPT ![call.k] = q] /\ UNCHANGED fat /\ Cur.fpos < Cur.fsize
        /\ Cur.iovalid
    BY <1>1, <1>3 DEF ReadChunk, MoreToRead
  <2>2. /\ n \in Nat /\ Cur.boff + n <= SecSize /\ Cur.fpos + n <= Cur.fsize
        /\ Cur.fpos + n \in 0 .. MaxSize
    <3>1. /\ call.n \in Nat /\ SecSize - Cur.boff \in Nat /\ Cur.fsize - Cur.fpos \in Nat
          /\ Cur.boff \in Nat /\ Cur.fsize \in 0 .. MaxSize /\ Cur.fpos \in Nat
          /\ MaxSize \in Nat /\ SecSize \in Nat
      <4>1. call.n \in 0 .. MaxRequest /\ MaxRequest \in Nat
        BY FileConstants DEF CursorInv, StateOK
      <4>2. /\ Cur.boff \in 0 .. SecSize - 1 /\ Cur.fsize \in 0 .. MaxSize
            /\ Cur.fpos \in 0 .. MaxSize
        BY <1>1 DEF FcbRecords
      <4>3. MaxSize \in Nat /\ SecSize \in Nat
        BY SizeFacts, MaxSizeFact
      <4> QED
        BY <2>1, <4>1, <4>2, <4>3
    <3>2. n \in Nat /\ n <= SecSize - Cur.boff /\ n <= Cur.fsize - Cur.fpos
      BY <3>1, SmallestOf
    <3> HIDE DEF n
    <3> QED
      BY <3>1, <3>2
  <2> HIDE DEF n
  <2>3. Cur.cclust \in Clusters /\ Cur.csect \in 0 .. Spc - 1
    <3>1. Cur.csect # Spc /\ Cur.cclust # 0
      BY <1>1, <2>1 DEF Steady
    <3> QED
      BY <1>1, <3>1, SizeFacts DEF FcbRecords
  <2>4. PICK N \in Nat : /\ Cur.cclust = Nth(fat, Cur.sclust, N)
                         /\ Cur.fpos = N * ClusterBytes + Cur.csect * SecSize + Cur.boff
    BY <1>1, <2>3, ClusterFacts DEF Steady, Placed
  <2>5. /\ q \in FcbRecords /\ q.sclust = Cur.sclust /\ q.fsize = Cur.fsize
        /\ q.fpos = Cur.fpos + n /\ Placed(fat, q) /\ q.cclust = Cur.cclust
        /\ q.csect = Spc => q.boff = 0 /\ ~q.iovalid
    BY <1>1, <2>2, <2>3, <2>4, AdvancePlaces DEF Steady
  <2>6. Steady(faults, fat, q)
    BY <1>1, <2>2, <2>3, <2>5, ClusterFacts DEF Steady, Covered
  <2> HIDE DEF q
  <2> QED
    BY <1>0, <1>1, <2>1, <2>5, <2>6, OneCursor
<1>4. CASE UNCHANGED fcb
  BY <1>0, <1>4, NoCursor
<1> QED
  BY <1>2, <1>3, <1>4 DEF ReadDone

\* What file_write changes of the buffer, and what is left to write.
LEMMA ChunkFacts ==
  ASSUME IInv, CursorInv, WriteMore
  PROVE  /\ call.bytes \in Seq(Bytes) /\ Len(call.bytes) <= MaxRequest
         /\ Len(Chunk) \in Nat /\ Cur.boff + Len(Chunk) <= SecSize
         /\ Patched(Cur, Chunk) \in Buffers
         /\ LET rest == SubSeq(call.bytes, Len(Chunk) + 1, Len(call.bytes))
            IN  rest \in Seq(Bytes) /\ Len(rest) <= MaxRequest
<1> DEFINE s == call.bytes
           n == Min({Len(s), SecSize - Cur.boff})
<1>1. s \in Seq(Bytes) /\ Len(s) <= MaxRequest /\ MaxRequest \in Nat
  BY RequestSeq, FileConstants DEF CursorInv, StateOK
<1>2. Cur \in FcbRecords
  BY CurCursor DEF WriteMore
<1>3. Cur.boff \in 0 .. SecSize - 1 /\ Cur.iobuf \in Buffers /\ SecSize \in Nat
  BY <1>2, SizeFacts DEF FcbRecords
<1> HIDE DEF s
<1>4. n \in Nat /\ n <= Len(s) /\ n <= SecSize - Cur.boff
  <2>1. Len(s) \in Nat /\ SecSize - Cur.boff \in Nat
    BY <1>1, <1>3
  <2> QED
    BY <2>1, SmallestOf
<1>5. Chunk = SubSeq(s, 1, n)
  BY DEF Chunk, s
<1> HIDE DEF n
<1>6. Chunk \in Seq(Bytes) /\ Len(Chunk) = n
  <2>1. Len(s) \in Nat /\ s \in [1 .. Len(s) -> Bytes]
    BY <1>1
  <2> QED
    BY <1>1, <1>4, <1>5, <2>1
<1>7. Patched(Cur, Chunk) \in Buffers
  <2>1. ASSUME NEW i \in 0 .. SecSize - 1, i \in Cur.boff .. Cur.boff + Len(Chunk) - 1
        PROVE  Chunk[i - Cur.boff + 1] \in Bytes
    <3>1. i - Cur.boff + 1 \in 1 .. Len(Chunk)
      BY SMTT(30), <1>3, <1>4, <1>6, <2>1
    <3> QED
      BY <1>6, <3>1
  <2>2. ASSUME NEW i \in 0 .. SecSize - 1
        PROVE  Cur.iobuf[i] \in Bytes
    BY <1>3 DEF Buffers
  <2> QED
    BY <2>1, <2>2 DEF Patched, Buffers
<1>8. LET rest == SubSeq(s, n + 1, Len(s))
      IN  rest \in Seq(Bytes) /\ Len(rest) <= MaxRequest
  BY <1>1, <1>4
<1> QED
  BY <1>1, <1>3, <1>4, <1>6, <1>7, <1>8 DEF s

\* A chunk written, at the end of the file or inside it.
LEMMA WrittenSteady ==
  ASSUME NEW r \in FcbRecords, Steady(faults, fat, r), r.cclust \in Clusters, r.iovalid,
         NEW n \in Nat, r.boff + n <= SecSize,
         \A m \in Nat : Nth(fat, r.sclust, m) \in Clusters => m <= LastCluster - 2
  PROVE  LET q == Grown(Advance(r, n))
         IN  /\ q \in FcbRecords /\ Steady(faults, fat, q) /\ q.open = r.open
             /\ q.cclust = r.cclust
<1> DEFINE p == Advance(r, n)
           q == Grown(p)
<1> SUFFICES /\ q \in FcbRecords /\ Steady(faults, fat, q) /\ q.open = r.open
             /\ q.cclust = r.cclust
  OBVIOUS
<1>1. r.csect \in 0 .. Spc - 1 /\ r.csect \in 0 .. Spc /\ r.csect # Spc
  BY SizeFacts DEF Steady, FcbRecords
<1>2. PICK N \in Nat : /\ r.cclust = Nth(fat, r.sclust, N)
                       /\ r.fpos = N * ClusterBytes + r.csect * SecSize + r.boff
  BY ClusterFacts DEF Steady, Placed
<1>3. N <= LastCluster - 2
  BY <1>2
<1>4. r.boff \in Nat /\ r.fpos \in Nat /\ r.fsize \in 0 .. MaxSize /\ MaxSize \in Nat
      /\ r.fsize \in Nat
  BY SizeFacts, MaxSizeFact DEF FcbRecords
<1>5. r.fpos + n \in 0 .. MaxSize /\ r.fpos + n <= (N + 1) * ClusterBytes
  <2> DEFINE b == r.boff + n
             A == N * ClusterBytes
             B == r.csect * SecSize
             C == (N + 1) * ClusterBytes
  <2>1. b \in Nat /\ b <= SecSize /\ A \in Nat /\ B \in Nat
    BY <1>1, <1>4, SizeFacts
  <2> HIDE DEF b
  <2>2. A + B + b \in 0 .. MaxSize /\ A + B + b <= C
    BY <1>1, <1>3, <2>1, PositionBound
  <2>3. r.fpos = A + B + r.boff
    BY <1>2
  <2> HIDE DEF A, B, C
  <2>4. r.fpos + n = A + B + b
    BY <1>4, <2>1, <2>3 DEF b
  <2> QED
    BY <2>2, <2>4 DEF C
<1>6. /\ p \in FcbRecords /\ p.open = r.open /\ p.sclust = r.sclust
      /\ p.fsize = r.fsize /\ p.fpos = r.fpos + n /\ p.cclust = r.cclust
      /\ Placed(fat, p)
      /\ p.csect = Spc => p.boff = 0 /\ ~p.iovalid
  BY <1>1, <1>2, <1>5, AdvancePlaces
<1> HIDE DEF p
<1>7. CASE p.fpos >= p.fsize
  <2>1. q = [p EXCEPT !.fsize = p.fpos, !.sizechg = TRUE]
    BY <1>7 DEF Grown
  <2>2. /\ q \in FcbRecords /\ q.open = p.open /\ q.sclust = p.sclust
        /\ q.fsize = p.fpos /\ q.fpos = p.fpos /\ q.cclust = p.cclust
        /\ q.csect = p.csect /\ q.boff = p.boff /\ q.iovalid = p.iovalid
    BY <1>6, <2>1 DEF FcbRecords
  <2> HIDE DEF q
  <2>3. Placed(fat, q)
    BY <1>6, <2>2 DEF Placed
  <2>4. ASSUME NEW m \in Nat, m * ClusterBytes < q.fsize
        PROVE  Nth(fat, q.sclust, m) \in Clusters
    <3>1. m * ClusterBytes < (N + 1) * ClusterBytes
      <4>1. m * ClusterBytes \in Nat /\ (N + 1) * ClusterBytes \in Nat
        BY SizeFacts
      <4> QED
        BY <1>4, <1>5, <1>6, <2>2, <2>4, <4>1
    <3>2. m \in 0 .. N
      <4> SUFFICES ASSUME m >= N + 1 PROVE FALSE
        OBVIOUS
      <4>1. (N + 1) * ClusterBytes <= m * ClusterBytes
        BY SizeFacts
      <4>2. m * ClusterBytes \in Nat /\ (N + 1) * ClusterBytes \in Nat
        BY SizeFacts
      <4> QED
        BY <3>1, <4>1, <4>2
    <3>3. Nth(fat, r.sclust, N) \in Clusters
      BY <1>2
    <3> QED
      BY <1>6, <2>2, <3>2, <3>3, ChainPrefix
  <2>5. q.fpos <= q.fsize
    BY <1>4, <1>6, <2>2
  <2> QED
    BY <1>6, <2>2, <2>3, <2>4, <2>5 DEF Steady, Covered
<1>8. CASE ~(p.fpos >= p.fsize)
  <2>1. q = p
    BY <1>8 DEF Grown
  <2>2. p.fpos <= p.fsize
    BY <1>4, <1>6, <1>8
  <2>3. Steady(faults, fat, p)
    BY <1>6, <2>2 DEF Steady, Covered
  <2> QED
    BY <1>6, <2>1, <2>3
<1> QED
  BY <1>7, <1>8

\* Where file_write goes on: a cluster it has.
LEMMA WriteThere ==
  ASSUME IInv, CursorInv, WriteMore
  PROVE  /\ Cur.cclust \in Clusters
         /\ ~AtChainEnd => (Cur.csect = Spc => Link(fat, Cur.cclust) \in Clusters)
<1>1. Cur \in FcbRecords /\ Cur.cclust # 0 /\ Steady(faults, fat, Cur)
  BY CurCursor DEF WriteMore, CursorInv, Working
<1>2. Cur.cclust \in Clusters
  BY <1>1 DEF FcbRecords
<1>3. ASSUME ~AtChainEnd, Cur.csect = Spc
      PROVE  Link(fat, Cur.cclust) \in Clusters
  <2>1. Link(fat, Cur.cclust) = fat[Cur.cclust] /\ fat[Cur.cclust] # Eoc
        /\ fat[Cur.cclust] \in Links
    BY <1>2, <1>3 DEF AtChainEnd, Link, IInv, Shape
  <2>2. PICK n \in Nat : Cur.cclust = Nth(fat, Cur.sclust, n)
    BY <1>1 DEF Steady, Placed
  <2>3. call.k \in Fcbs /\ Cur.file \in Files
    BY DEF IInv, CallOK, WriteMore
  <2>4. fat[Cur.cclust] # 0
    BY <1>2, <2>2, <2>3, ChainOf DEF Cur
  <2> QED
    BY <2>1, <2>4 DEF Links
<1> QED
  BY <1>2, <1>3

\* file_write inside its chain.
LEMMA WriteCursor ==
  ASSUME IInv, CursorInv, WriteSector \/ WriteSectorFails \/ WriteChunk \/ WriteChunkFails
  PROVE  Cursors'
<1>0. Running /\ WriteMore /\ UNCHANGED fat
  BY DEF Running, Kernel, WriteSector, WriteSectorFails, WriteChunk, WriteChunkFails
<1>1. /\ call.op = "write" /\ call.k \in Fcbs /\ Cur \in FcbRecords /\ Cur.open
      /\ Steady(faults, fat, Cur) /\ fcb[call.k] = Cur /\ Cur.cclust \in Clusters
  BY <1>0, CurCursor, WriteThere DEF WriteMore, Cur
<1>2. CASE WriteSector \/ (WriteSectorFails /\ ~UNCHANGED fcb)
  <2> DEFINE r == Resolve(Cur)
  <2>1. ~AtChainEnd
    BY <1>2 DEF WriteSector, WriteSectorFails
  <2>2. /\ r \in FcbRecords /\ Steady(faults, fat, r) /\ r.csect \in 0 .. Spc - 1
        /\ r.cclust \in Clusters /\ r.open
    BY <1>0, <1>1, <2>1, WriteThere, ResolveSteady
  <2>3. CASE WriteSector
    <3> DEFINE q == [r EXCEPT !.iobuf = data[SectorOf(r)], !.iovalid = TRUE]
    <3>1. fcb' = [fcb EXCEPT ![call.k] = q]
      BY <2>3 DEF WriteSector
    <3> HIDE DEF r
    <3>2. q \in FcbRecords /\ Steady(faults, fat, q)
      BY <2>2, SectorIs, LoadSteady
    <3> HIDE DEF q
    <3> QED
      BY <1>0, <1>1, <3>1, <3>2, OneCursor
  <2>4. CASE WriteSectorFails /\ ~UNCHANGED fcb
    <3>1. fcb' = [fcb EXCEPT ![call.k] = r]
      BY <1>1, <2>4 DEF WriteSectorFails
    <3> HIDE DEF r
    <3> QED
      BY <1>0, <1>1, <2>2, <3>1, OneCursor
  <2> QED
    BY <1>2, <2>3, <2>4
<1> DEFINE buffer == Patched(Cur, Chunk)
           r == [Cur EXCEPT !.iobuf = buffer]
<1>3. r \in FcbRecords /\ Steady(faults, fat, r) /\ r.open /\ buffer \in Buffers
      /\ r.cclust = Cur.cclust /\ r.sclust = Cur.sclust /\ r.boff = Cur.boff
      /\ r.iovalid = Cur.iovalid
  <2>1. buffer \in Buffers
    BY <1>0, ChunkFacts
  <2> HIDE DEF buffer
  <2> QED
    BY <1>1, <2>1, BufferSteady DEF FcbRecords
<1>4. CASE WriteChunk
  <2> DEFINE q == Grown(Advance(r, Len(Chunk)))
  <2>1. fcb' = [fcb EXCEPT ![call.k] = q] /\ Cur.iovalid
    BY <1>1, <1>4 DEF WriteChunk
  <2>2. Len(Chunk) \in Nat /\ r.boff + Len(Chunk) <= SecSize
    BY <1>0, <1>3, ChunkFacts
  <2>3. \A m \in Nat : Nth(fat, r.sclust, m) \in Clusters => m <= LastCluster - 2
    BY <1>0, <1>1, <1>3, ChainOf DEF IInv, CallOK, WriteMore, Cur
  <2> HIDE DEF r
  <2>4. q \in FcbRecords /\ Steady(faults, fat, q)
    BY <1>1, <1>3, <2>1, <2>2, <2>3, WrittenSteady
  <2> HIDE DEF q
  <2> QED
    BY <1>0, <1>1, <2>1, <2>4, OneCursor
<1>5. CASE WriteChunkFails
  <2>1. fcb' = [fcb EXCEPT ![call.k] = r]
    BY <1>1, <1>5 DEF WriteChunkFails
  <2> HIDE DEF r
  <2> QED
    BY <1>0, <1>1, <1>3, <2>1, OneCursor
<1>6. CASE UNCHANGED fcb
  BY <1>0, <1>6, NoCursor
<1> QED
  BY <1>2, <1>4, <1>5, <1>6

\* An FCB without a cluster is one of an empty file, before a restart.
LEMMA NoClusterYet ==
  ASSUME NEW r \in FcbRecords, Steady(faults, fat, r), r.cclust = 0
  PROVE  /\ r.sclust = 0 /\ r.fpos = 0 /\ r.csect = 0 /\ r.boff = 0 /\ ~r.iovalid
         /\ faults.crash = 0 => r.fsize = 0
<1>1. r.sclust = 0 /\ r.fpos = 0 /\ r.csect = 0 /\ r.boff = 0 /\ ~r.iovalid
  BY DEF Steady, Placed, FcbRecords
<1>2. faults.crash = 0 => r.fsize = 0
  <2> SUFFICES ASSUME faults.crash = 0, r.fsize # 0 PROVE FALSE
    OBVIOUS
  <2>1. r.fsize \in Nat
    BY MaxSizeFact DEF FcbRecords
  <2>2. 0 \in Nat /\ 0 * ClusterBytes < r.fsize
    BY <2>1, SizeFacts
  <2>3. Nth(fat, r.sclust, 0) \in Clusters
    BY <2>2 DEF Steady, Covered
  <2> QED
    BY <1>1, <2>3, NthStep, ClusterFacts
<1> QED
  BY <1>1, <1>2

\* The first cluster of a file.
LEMMA FirstCursor ==
  ASSUME IInv, CursorInv, WriteFirst \/ WriteFirstFails
  PROVE  Cursors'
<1>0. Running /\ call.op = "write" /\ call.at = "first"
  BY DEF Running, Kernel, WriteFirst, WriteFirstFails
<1>1. /\ call.k \in Fcbs /\ Cur \in FcbRecords /\ Cur.open
      /\ Steady(faults, fat, Cur) /\ fcb[call.k] = Cur /\ Cur.cclust = 0
  BY <1>0, CurCursor DEF Cur, CursorInv, Working
<1>2. CASE \E c \in Clusters : FirstCluster(c)
  <2>1. PICK c \in Clusters : FirstCluster(c)
    BY <1>2
  <2> DEFINE q == [Cur EXCEPT !.sclust = c, !.cclust = c, !.sizechg = TRUE]
  <2>2. fcb' = [fcb EXCEPT ![call.k] = q]
    BY <1>1, <2>1 DEF FirstCluster
  <2>3. /\ Cur.sclust = 0 /\ Cur.fpos = 0 /\ Cur.csect = 0 /\ Cur.boff = 0
        /\ faults.crash = 0 => Cur.fsize = 0
    BY <1>1, NoClusterYet
  <2>4. /\ q \in FcbRecords /\ q.sclust = c /\ q.cclust = c /\ q.fpos = 0
        /\ q.fsize = Cur.fsize /\ q.csect = 0 /\ q.boff = 0 /\ c # 0
    BY <1>1, <2>3, ClusterFacts DEF FcbRecords
  <2> HIDE DEF q
  <2>5. Placed(fat', q)
    <3>1. Nth(fat', c, 0) = c
      BY NthStep
    <3>2. 0 = 0 * ClusterBytes + 0 * SecSize + 0 /\ 0 \in Nat
      BY SizeFacts
    <3> QED
      BY <2>4, <3>1, <3>2, ClusterFacts DEF Placed
  <2>6. Steady(faults, fat', q)
    <3>1. \A n \in Nat : ~(n * ClusterBytes < 0)
      BY SizeFacts
    <3>2. faults.crash = 0 => Covered(fat', q)
      BY <2>3, <2>4, <3>1 DEF Covered
    <3>3. 0 <= Cur.fsize
      BY <1>1, MaxSizeFact DEF FcbRecords
    <3> QED
      BY <2>4, <2>5, <3>2, <3>3, SizeFacts DEF Steady
  <2> QED
    BY <1>0, <1>1, <2>2, <2>4, <2>6, OneCursor
<1>3. CASE UNCHANGED fcb
  BY <1>0, <1>3, NoCursor
<1> QED
  BY <1>2, <1>3 DEF WriteFirst, WriteFirstFails

\* A cluster behind the last one.
LEMMA LinkCursor ==
  ASSUME IInv, CursorInv, LinkNew
  PROVE  Cursors'
<1>0. Running /\ call.op = "write" /\ call.at = "link"
  BY DEF Running, Kernel, LinkNew
<1>1. /\ call.k \in Fcbs /\ Cur \in FcbRecords /\ Cur.open
      /\ Steady(faults, fat, Cur) /\ fcb[call.k] = Cur /\ Cur.cclust # 0
      /\ Cur.csect = Spc /\ Cur.boff = 0 /\ ~Cur.iovalid
  BY <1>0, CurCursor DEF Cur, CursorInv, Working, Steady
<1>2. Cur.cclust \in Clusters /\ call.c \in Clusters
      /\ fat' = [fat EXCEPT ![Cur.cclust] = call.c]
  BY <1>0, <1>1 DEF LinkNew, IInv, CallHolds, Orphan, FcbRecords
<1> DEFINE q == [Cur EXCEPT !.cclust = call.c, !.csect = 0]
<1>3. fcb' = [fcb EXCEPT ![call.k] = q]
  BY <1>1 DEF LinkNew
<1>4. /\ q \in FcbRecords /\ q.sclust = Cur.sclust /\ q.cclust = call.c
      /\ q.fpos = Cur.fpos /\ q.fsize = Cur.fsize /\ q.csect = 0 /\ q.boff = 0
      /\ q.cclust # 0
  <2>1. 0 \in 0 .. Spc /\ call.c # 0
    BY <1>2, SizeFacts, ClusterFacts
  <2> QED
    BY ZenonT(60), <1>1, <1>2, <2>1 DEF FcbRecords
<1> HIDE DEF q
<1>5. PICK n \in Nat : /\ Cur.cclust = Nth(fat, Cur.sclust, n)
                       /\ Cur.fpos = n * ClusterBytes + Cur.csect * SecSize + Cur.boff
  BY <1>1 DEF Steady, Placed
<1>6. Keeps(fat', Cur)
  BY <1>0, <1>1, ChainsKept DEF LinkNew
<1>7. Nth(fat', q.sclust, n + 1) = call.c
  <2>1. Nth(fat', Cur.sclust, n) = Cur.cclust
    BY <1>2, <1>5, <1>6 DEF Keeps
  <2>2. Nth(fat', Cur.sclust, n + 1) = Link(fat', Nth(fat', Cur.sclust, n))
    BY NthStep
  <2>3. Link(fat', Cur.cclust) = call.c
    BY <1>2 DEF Link, IInv, Shape
  <2> QED
    BY <1>4, <2>1, <2>2, <2>3
<1>8. Placed(fat', q)
  <2> DEFINE A == n * ClusterBytes
             B == Spc * SecSize
             C == (n + 1) * ClusterBytes
             D == 0 * SecSize
  <2>1. Cur.fpos = A + B + 0 /\ C = A + B /\ D = 0 /\ A \in Nat /\ B \in Nat
    BY <1>1, <1>5, SizeFacts
  <2> HIDE DEF A, B, C, D
  <2>2. q.fpos = C + D + q.boff
    BY <1>4, <2>1
  <2>3. q.fpos = (n + 1) * ClusterBytes + q.csect * SecSize + q.boff
    BY <1>4, <2>2 DEF C, D
  <2> QED
    BY <1>2, <1>4, <1>7, <2>3, ClusterFacts DEF Placed
<1>9. Steady(faults, fat', q)
  <2>1. faults.crash = 0 => Covered(fat', q)
    BY <1>1, <1>4, <1>6 DEF Steady, Covered, Keeps
  <2> QED
    BY <1>1, <1>4, <1>8, <2>1, SizeFacts DEF Steady
<1> QED
  BY <1>0, <1>1, <1>3, <1>4, <1>9, OneCursor

\* An FCB as file_open leaves it at the start of the file.
LEMMA OpenedSteady ==
  ASSUME CursorInv, NEW f \in Files, dirent[f] # Absent, NEW mode \in 0 .. 2
  PROVE  LET q == Opened(f, mode)
         IN  /\ q \in FcbRecords /\ Steady(faults, fat, q) /\ q.open /\ ~q.iovalid
             /\ q.sclust = dirent[f].clust
             /\ mode # 1 => q.fsize = dirent[f].size
<1> DEFINE q == Opened(f, mode)
           size == IF mode = 1 THEN 0 ELSE dirent[f].size
<1> SUFFICES /\ q \in FcbRecords /\ Steady(faults, fat, q) /\ q.open /\ ~q.iovalid
             /\ q.sclust = dirent[f].clust
             /\ mode # 1 => q.fsize = dirent[f].size
  OBVIOUS
<1>1. dirent[f].clust \in {0} \cup Clusters /\ dirent[f].size \in 0 .. MaxSize
  BY DEF CursorInv, StateOK
<1>2. size \in 0 .. MaxSize /\ 0 \in 0 .. MaxSize /\ 0 \in 0 .. Spc /\ 0 \in 0 .. SecSize - 1
  BY <1>1, MaxSizeFact, SizeFacts
<1>3. Zeroes \in Buffers
  BY FileConstants DEF Zeroes, Buffers, Blank
<1> HIDE DEF size
<1>4. /\ q \in FcbRecords /\ q.sclust = dirent[f].clust /\ q.cclust = dirent[f].clust
      /\ q.fsize = size /\ q.fpos = 0 /\ q.csect = 0 /\ q.boff = 0 /\ q.open /\ ~q.iovalid
  <2> DEFINE w == mode # 0
             s == mode = 1
             entry == dirent[f].clust
  <2>1. q = [Closed EXCEPT !.file = f, !.open = TRUE, !.write = w, !.sizechg = s,
                           !.sclust = entry, !.cclust = entry, !.fsize = size]
    BY DEF Opened, size
  <2>2. w \in BOOLEAN /\ s \in BOOLEAN /\ entry \in {0} \cup Clusters
    BY <1>1
  <2> HIDE DEF q, w, s, entry
  <2>3. q = [file |-> f, open |-> TRUE, write |-> w, sizechg |-> s,
             iovalid |-> FALSE, sclust |-> entry, cclust |-> entry,
             csect |-> 0, boff |-> 0, fsize |-> size, fpos |-> 0, iobuf |-> Zeroes]
    BY <2>1 DEF Closed
  <2>4. q \in FcbRecords
    BY <1>2, <1>3, <2>2, <2>3 DEF FcbRecords
  <2> QED
    BY <2>3, <2>4 DEF entry
<1> HIDE DEF q
<1>5. Placed(fat, q)
  <2>1. Nth(fat, q.sclust, 0) = q.sclust
    BY NthStep
  <2>2. 0 = 0 * ClusterBytes + 0 * SecSize + 0 /\ 0 \in Nat
    BY SizeFacts
  <2> QED
    BY <1>4, <2>1, <2>2 DEF Placed
<1>6. faults.crash = 0 => Covered(fat, q)
  <2>1. CASE mode = 1
    <3>1. \A n \in Nat : ~(n * ClusterBytes < 0)
      BY SizeFacts
    <3> QED
      BY <1>4, <2>1, <3>1 DEF Covered, size
  <2>2. CASE mode # 1
    <3> QED
      BY <1>4, <2>2 DEF Covered, size, CursorInv, EntriesLong, Spans
  <2> QED
    BY <2>1, <2>2
<1>7. q.fpos <= q.fsize
  BY <1>2, <1>4, MaxSizeFact
<1> QED
  BY <1>4, <1>5, <1>6, <1>7, SizeFacts DEF Steady, size

\* file_open to append: at the end of the file.
LEMMA AppendSteady ==
  ASSUME NEW r \in FcbRecords, Steady(faults, fat, r), r.fsize > 0, ~r.iovalid,
         Reaches(r, r.fsize)
  PROVE  LET q == [SeekTo(r, r.fsize) EXCEPT !.fpos = r.fsize]
         IN  q \in FcbRecords /\ Steady(faults, fat, q)
<1> DEFINE p == SeekTo(r, r.fsize)
           q == [p EXCEPT !.fpos = r.fsize]
<1>0. r.fsize \in 1 .. MaxSize /\ r.fsize \in 1 .. r.fsize /\ r.fsize \in 0 .. MaxSize
      /\ r.fsize \in Nat
  BY MaxSizeFact DEF FcbRecords
<1>1. /\ p \in FcbRecords /\ p.cclust \in Clusters
      /\ p = [r EXCEPT !.cclust = p.cclust, !.csect = p.csect, !.boff = p.boff]
      /\ \E n \in Nat : /\ p.cclust = Nth(fat, r.sclust, n)
                        /\ r.fsize = n * ClusterBytes + p.csect * SecSize + p.boff
      /\ p.csect = Spc => p.boff = 0
  BY <1>0, SeekPlaces DEF Reaches
<1> SUFFICES q \in FcbRecords /\ Steady(faults, fat, q)
  OBVIOUS
<1> HIDE DEF p
<1>2. p.sclust = r.sclust /\ p.fsize = r.fsize /\ p.iovalid = r.iovalid
  BY <1>1 DEF FcbRecords
<1>3. /\ q \in FcbRecords /\ q.cclust = p.cclust /\ q.sclust = r.sclust
      /\ q.csect = p.csect /\ q.boff = p.boff /\ q.fpos = r.fsize
      /\ q.fsize = r.fsize /\ q.iovalid = FALSE
  BY <1>0, <1>1, <1>2 DEF FcbRecords
<1> HIDE DEF q
<1>4. Placed(fat, q)
  BY <1>1, <1>3, ClusterFacts DEF Placed
<1> QED
  BY <1>0, <1>1, <1>3, <1>4 DEF Steady, Covered

\* An FCB not in use, and one of a new file.
LEMMA ClosedCursor ==
  /\ Closed \in FcbRecords /\ ~Closed.open
  /\ \A f \in Files :
       LET q == [Closed EXCEPT !.file = f, !.open = TRUE, !.write = TRUE]
       IN  q \in FcbRecords /\ Steady(faults, fat, q)
<1>1. 0 \in 0 .. MaxSize /\ 0 \in 0 .. Spc /\ 0 \in 0 .. SecSize - 1
  BY MaxSizeFact, SizeFacts
<1>2. Zeroes \in Buffers
  BY FileConstants DEF Zeroes, Buffers, Blank
<1>3. Closed \in FcbRecords /\ ~Closed.open
  BY <1>1, <1>2 DEF Closed, FcbRecords
<1>4. ASSUME NEW f \in Files
      PROVE  LET q == [Closed EXCEPT !.file = f, !.open = TRUE, !.write = TRUE]
             IN  q \in FcbRecords /\ Steady(faults, fat, q)
  <2> DEFINE q == [Closed EXCEPT !.file = f, !.open = TRUE, !.write = TRUE]
  <2>1. q \in FcbRecords
    BY <1>3 DEF FcbRecords
  <2>2. /\ q.sclust = 0 /\ q.cclust = 0 /\ q.fpos = 0 /\ q.fsize = 0
        /\ q.csect = 0 /\ q.boff = 0 /\ q.iovalid = FALSE
    BY DEF Closed
  <2> HIDE DEF q
  <2>3. \A n \in Nat : ~(n * ClusterBytes < 0)
    BY SizeFacts
  <2>4. Steady(faults, fat, q)
    BY <2>2, <2>3, SizeFacts DEF Steady, Placed, Covered
  <2> QED
    BY <2>1, <2>4 DEF q
<1> QED
  BY <1>3, <1>4

\* file_open.
LEMMA OpenCursor ==
  ASSUME IInv, CursorInv, NEW k \in Fcbs, NEW f \in Files, NEW mode \in 0 .. 2,
         OpenCall(k, f, mode)
  PROVE  Cursors'
<1>0. Running /\ UNCHANGED fat
  BY DEF Running, Caller, OpenCall
<1> DEFINE q == Opened(f, mode)
<1>1. ASSUME dirent[f] # Absent
      PROVE  /\ q \in FcbRecords /\ Steady(faults, fat, q) /\ q.open /\ ~q.iovalid
             /\ mode # 1 => q.fsize = dirent[f].size
  BY <1>1, OpenedSteady
<1> HIDE DEF q
<1>2. CASE OpenExisting(k, f, mode)
  <2>1. dirent[f] # Absent
    BY <1>2 DEF OpenExisting
  <2>2. CASE mode = 2 /\ dirent[f].size > 0
    <3> DEFINE p == [SeekTo(q, q.fsize) EXCEPT !.fpos = q.fsize]
    <3>0. q.fsize = dirent[f].size
      BY <1>1, <2>1, <2>2
    <3>1. fcb' = [fcb EXCEPT ![k] = p]
      <4>1. fcb' = [fcb EXCEPT ![k] = [SeekTo(q, dirent[f].size)
                                         EXCEPT !.fpos = dirent[f].size]]
        BY <1>2, <2>2 DEF OpenExisting, q
      <4> QED
        BY ONLY <3>0, <4>1
    <3>2. Reaches(q, q.fsize)
      <4>1. Reaches(q, dirent[f].size)
        BY <1>2, <2>2 DEF OpenExisting, q
      <4> QED
        BY ONLY <3>0, <4>1
    <3>3. p \in FcbRecords /\ Steady(faults, fat, p)
      BY <1>1, <2>1, <2>2, <3>0, <3>2, AppendSteady
    <3> HIDE DEF p
    <3> QED
      BY <1>0, <3>1, <3>3, OneCursor
  <2>3. CASE ~(mode = 2 /\ dirent[f].size > 0)
    <3>1. fcb' = [fcb EXCEPT ![k] = q]
      BY <1>2, <2>3 DEF OpenExisting, q
    <3> QED
      BY <1>0, <1>1, <2>1, <3>1, OneCursor
  <2> QED
    BY <2>2, <2>3
<1>3. CASE OpenAppendFails(k, f, mode)
  <2>1. dirent[f] # Absent /\ fcb' = [fcb EXCEPT ![k] = q]
    BY <1>3 DEF OpenAppendFails, Absent, q
  <2> QED
    BY <1>0, <1>1, <2>1, OneCursor
<1>4. CASE OpenNew(k, f, mode)
  BY <1>0, <1>4, ClosedCursor, OneCursor DEF OpenNew
<1>5. CASE OpenFails(f, mode)
  BY <1>0, <1>5, NoCursor DEF OpenFails
<1> QED
  BY <1>2, <1>3, <1>4, <1>5 DEF OpenCall

\* file_seek.
LEMMA SeekCursor ==
  ASSUME IInv, CursorInv, NEW k \in Fcbs, NEW target \in 0 .. MaxSize, SeekCall(k, target)
  PROVE  Cursors'
<1>0. Running /\ UNCHANGED fat
  BY DEF Running, Caller, SeekCall
<1>1. fcb[k] \in FcbRecords /\ Steady(faults, fat, fcb[k])
  BY CursorsNow DEF Cursors, SeekCall
<1>2. CASE /\ target \in 0 .. fcb[k].fsize /\ (target # 0 => Reaches(fcb[k], target))
           /\ fcb' = [fcb EXCEPT ![k] = Sought(@, target)]
  <2> DEFINE q == Sought(fcb[k], target)
  <2>1. fcb' = [fcb EXCEPT ![k] = q]
    BY <1>2
  <2>2. q \in FcbRecords /\ Steady(faults, fat, q)
    BY <1>1, <1>2, SoughtSteady
  <2> HIDE DEF q
  <2> QED
    BY <1>0, <2>1, <2>2, OneCursor
<1>3. CASE UNCHANGED fcb
  BY <1>0, <1>3, NoCursor
<1> QED
  BY <1>2, <1>3 DEF SeekCall

\* file_close: an FCB that is closed has no cursor.
LEMMA CloseCursor ==
  ASSUME IInv, CursorInv,
         (\E k \in Fcbs : CloseCall(k)) \/ TrimAll \/ FlushLast \/ FlushFails
  PROVE  Cursors'
<1>0. Running
  BY DEF Running, Kernel, Caller
<1>1. ASSUME NEW k \in Fcbs, CloseCall(k)
      PROVE  Cursors'
  <2> DEFINE q == [fcb[k] EXCEPT !.open = FALSE]
  <2>1. fcb' = [fcb EXCEPT ![k] = q] \/ fcb' = [fcb EXCEPT ![k] = Closed]
    BY <1>1 DEF CloseCall
  <2>2. q \in FcbRecords /\ ~q.open
    BY CursorsNow DEF Cursors, FcbRecords
  <2> HIDE DEF q
  <2> QED
    BY <1>0, <2>1, <2>2, ClosedCursor, OneCursor
<1>2. CASE TrimAll /\ ~UNCHANGED fcb
  <2> DEFINE q == [fcb[call.k] EXCEPT !.sclust = 0]
  <2>1. fcb' = [fcb EXCEPT ![call.k] = q] /\ call.op = "close"
    BY <1>2 DEF TrimAll
  <2>2. call.k \in Fcbs /\ ~fcb[call.k].open
    BY <2>1 DEF IInv, CallOK, CursorInv, Working, Cur
  <2>3. q \in FcbRecords /\ ~q.open
    BY <2>2, CursorsNow DEF Cursors, FcbRecords
  <2> HIDE DEF q
  <2> QED
    BY <1>0, <2>1, <2>2, <2>3, OneCursor
<1>3. CASE (FlushLast \/ FlushFails) /\ ~UNCHANGED fcb
  <2>1. fcb' = [fcb EXCEPT ![call.k] = Closed] /\ call.op = "close"
    BY <1>3 DEF FlushLast, FlushFails, Released
  <2>2. call.k \in Fcbs
    BY <2>1 DEF IInv, CallOK
  <2> QED
    BY <1>0, <2>1, <2>2, ClosedCursor, OneCursor
<1>4. CASE UNCHANGED fcb
  BY <1>0, <1>4, NoCursor
<1> QED
  BY <1>1, <1>2, <1>3, <1>4

\* file_write, when it begins, moves no cursor.
LEMMA WriteCallCursor ==
  ASSUME IInv, CursorInv, Running, NEW k \in Fcbs, NEW x, WriteCall(k, x)
  PROVE  Cursors'
<1> DEFINE r == fcb[k]
           q == [r EXCEPT !.write = TRUE]
<1>1. fcb' = [fcb EXCEPT ![k] = q] /\ r.open /\ UNCHANGED fat
  BY DEF WriteCall
<1>2. r \in FcbRecords /\ Steady(faults, fat, r)
  BY <1>1, CursorsNow DEF Cursors
<1> HIDE DEF r
<1>3. /\ q \in FcbRecords /\ q.cclust = r.cclust /\ q.csect = r.csect
      /\ q.sclust = r.sclust /\ q.boff = r.boff /\ q.fpos = r.fpos
      /\ q.fsize = r.fsize /\ q.iovalid = r.iovalid
  BY <1>2 DEF FcbRecords
<1> HIDE DEF q
<1>4. Steady(faults, fat', q)
  BY <1>1, <1>2, <1>3 DEF Steady, Covered, Placed
<1> QED
  BY <1>1, <1>3, <1>4, OneCursor

\* Every step but a restart, and a restart.
LEMMA CursorsStep ==
  ASSUME IInv, CursorInv, [Step]_state
  PROVE  Cursors'
<1>1. CASE Crash
  BY <1>1, ClosedCursor DEF Crash, Cursors
<1>2. CASE Running
  <2>1. CASE Caller
    <3>1. ASSUME NEW k \in Fcbs, NEW x, ReadCall(k, x) \/ WriteCall(k, x)
          PROVE  Cursors'
      BY <1>2, <3>1, NoCursor, WriteCallCursor DEF ReadCall
    <3>2. ASSUME NEW f \in Files, DeleteCall(f)
          PROVE  Cursors'
      BY <1>2, <3>2, NoCursor DEF DeleteCall
    <3> QED
      BY <2>1, <3>1, <3>2, OpenCursor, SeekCursor, CloseCursor DEF Caller
  <2>2. CASE \/ Grow \/ GrowFull \/ LinkFails \/ WriteDone \/ CloseSize \/ CloseFails \/ Trim
             \/ FreeOne \/ FreeFails \/ Sync \/ UNCHANGED state
    <3>1. UNCHANGED fcb
      BY <2>2 DEF Grow, GrowFull, LinkFails, WriteDone, CloseSize, CloseFails, Trim,
         FreeOne, FreeFails, Sync, state
    <3> QED
      BY <1>2, <3>1, NoCursor
  <2> QED
    BY <1>2, <2>1, <2>2, ReadCursor, WriteCursor, FirstCursor, LinkCursor, CloseCursor
    DEF Running, Kernel
<1> QED
  BY <1>1, <1>2 DEF Step, Running

-----------------------------------------------------------------------------
(* Entries, sectors, registers and outcomes.                               *)

\* StateOK, part by part.
EntriesOK ==
  /\ dirent \in [Files -> [clust : {0} \cup Clusters, size : 0 .. MaxSize]
                            \cup {Absent}]
  /\ \A k \in Fcbs : fcb[k].file \in Files => dirent[fcb[k].file] # Absent
CallRecords ==
  [op : {"idle", "read", "write", "close", "delete"}, at : Places,
   k : Fcbs \cup {NoFcb}, f : Files \cup {NoFile},
   n : 0 .. MaxRequest, bytes : {<<>>} \cup Requests, c : {0} \cup Clusters]
FaultRecords ==
  [read : 0 .. MaxReadFaults, write : 0 .. MaxWriteFaults, crash : 0 .. MaxCrashes]

\* The invariant is made of these.
LEMMA PartsOf ==
  CursorInv <=>
    /\ fat \in [Clusters -> Links] /\ fat_dur \in [Clusters -> Links]
    /\ EntriesOK /\ EntriesLong /\ Cursors /\ Working
    /\ data \in [Sectors -> Buffers] /\ call \in CallRecords
    /\ ret \in BOOLEAN /\ faults \in FaultRecords
BY DEF CursorInv, StateOK, EntriesOK, Cursors, FcbRecords, CallRecords,
   FaultRecords

\* An FCB opened for writing is the only one of its file.
LEMMA OnlyWriter ==
  ASSUME IInv, NEW k \in Fcbs, fcb[k].file \in Files, fcb[k].write,
         NEW l \in Fcbs, fcb[l].file = fcb[k].file
  PROVE  l = k
BY FileConstants DEF IInv, Exclusive

\* The FCB of file_close, and the chain of its file.
LEMMA ClosingNow ==
  ASSUME IInv, CursorInv, call.op = "close"
  PROVE  /\ call.k \in Fcbs /\ Cur \in FcbRecords /\ Cur = fcb[call.k]
         /\ Cur.file \in Files /\ Cur.write /\ ~Cur.open /\ dirent[Cur.file] # Absent
         /\ \A l \in Fcbs : fcb[l].file = Cur.file => l = call.k
         /\ call.at \in {"size", "trim", "free", "flush"}
         /\ faults.crash = 0 /\ call.at \in {"size", "trim"} =>
              Spans(fat, Cur.sclust, Cur.fsize)
         /\ call.at = "trim" =>
              dirent[Cur.file] = [clust |-> Cur.sclust, size |-> Cur.fsize]
         /\ Cur.fsize \in Nat
<1>1. /\ call.k \in Fcbs /\ Cur.file \in Files /\ Cur.write
      /\ call.at \in {"size", "trim", "free", "flush"}
  BY DEF IInv, CallOK
<1>2. ~Cur.open /\ Cur = fcb[call.k] /\ Cur \in FcbRecords /\ dirent[Cur.file] # Absent
  BY <1>1, CursorsNow DEF Cursors, Cur, CursorInv, Working
<1>3. \A l \in Fcbs : fcb[l].file = Cur.file => l = call.k
  BY <1>1, <1>2, OnlyWriter
<1>5. /\ faults.crash = 0 /\ call.at = "size" => Spans(fat, Cur.sclust, Cur.fsize)
      /\ call.at = "trim" =>
           dirent[Cur.file] = [clust |-> Cur.sclust, size |-> Cur.fsize]
  BY DEF CursorInv, Working, Covered, Spans
<1>6. faults.crash = 0 /\ call.at = "trim" => Spans(fat, Cur.sclust, Cur.fsize)
  <2> SUFFICES ASSUME faults.crash = 0, call.at = "trim"
               PROVE  Spans(fat, Cur.sclust, Cur.fsize)
    OBVIOUS
  <2>1. dirent[Cur.file].clust = Cur.sclust /\ dirent[Cur.file].size = Cur.fsize
    BY <1>5
  <2> QED
    BY <1>1, <1>2, <2>1 DEF CursorInv, EntriesLong
<1>7. Cur.fsize \in Nat
  BY <1>2, MaxSizeFact DEF FcbRecords
<1> QED
  BY <1>1, <1>2, <1>3, <1>5, <1>6, <1>7

\* _fclose_trim_chain looks at the cluster of the last byte.
LEMMA LastByteIn ==
  ASSUME Cur \in FcbRecords, Spans(fat, Cur.sclust, Cur.fsize), Cur.fsize > 0
  PROVE  \E m \in Nat : /\ LastOne = Nth(fat, Cur.sclust, m) /\ LastOne \in Clusters
                        /\ m * ClusterBytes < Cur.fsize
                        /\ Cur.fsize <= (m + 1) * ClusterBytes
<1>2. Cur.fsize \in Nat
  BY MaxSizeFact DEF FcbRecords
<1> DEFINE m == (Cur.fsize - 1) \div ClusterBytes
           A == m * ClusterBytes
           C == (m + 1) * ClusterBytes
           b == (Cur.fsize - 1) % ClusterBytes
<1>3. /\ m \in Nat /\ b \in Nat /\ b < ClusterBytes
      /\ Cur.fsize - 1 = ClusterBytes * m + b
  <2> DEFINE a == Cur.fsize - 1
  <2>1. a \in Nat
    BY <1>2
  <2> HIDE DEF a
  <2>2. a \div ClusterBytes \in Nat /\ a % ClusterBytes \in Nat /\ a % ClusterBytes < ClusterBytes
        /\ a = ClusterBytes * (a \div ClusterBytes) + (a % ClusterBytes)
    BY <2>1, SizeFacts, DivMod
  <2> QED
    BY <2>2 DEF a
<1>4. LastOne = Nth(fat, Cur.sclust, m)
  BY DEF LastOne, SeekTo, FcbRecords
<1> HIDE DEF m, b
<1>5. A \in Nat /\ C = A + ClusterBytes /\ ClusterBytes * m = A
  BY <1>3, SizeFacts
<1> HIDE DEF A, C
<1>6. A < Cur.fsize /\ Cur.fsize <= C
  BY <1>2, <1>3, <1>5, SizeFacts
<1>7. LastOne \in Clusters
  BY <1>3, <1>4, <1>6 DEF Spans, A
<1> QED
  BY <1>3, <1>4, <1>6, <1>7 DEF A, C

\* The first cluster of a chain that is long enough for a byte.
LEMMA SpansHead ==
  ASSUME NEW t, NEW c, NEW size \in Nat, Spans(t, c, size), NEW n \in Nat,
         n * ClusterBytes < size
  PROVE  c \in Clusters /\ \A i \in 0 .. n : Nth(t, c, i) \in Clusters
<1>1. Nth(t, c, n) \in Clusters
  BY DEF Spans
<1>2. \A i \in 0 .. n : Nth(t, c, i) \in Clusters
  BY <1>1, ChainPrefix
<1>3. Nth(t, c, 0) \in Clusters
  BY <1>2
<1> QED
  BY <1>2, <1>3, NthStep

\* The clusters of a file up to its size stay where they are in its chain: in
\* every step but a restart, whatever happens to the FAT.
LEMMA ChainRemains ==
  ASSUME IInv, CursorInv, faults.crash = 0, Running, NEW f \in Files, NEW c,
         c \in Clusters => c \in Heads[f], NEW size \in Nat, Spans(fat, c, size),
         Trim /\ f = Cur.file => c = Cur.sclust /\ size <= Cur.fsize,
         NEW n \in Nat, n * ClusterBytes < size
  PROVE  Nth(fat', c, n) = Nth(fat, c, n)
<1>0. /\ fat \in [Clusters -> Links] /\ c \in Heads[f] /\ Sole(fat, Heads)
      /\ \A g \in Files : Heads[g] \subseteq Clusters
      /\ Nth(fat, c, n) \in Clusters
      /\ \A i \in 0 .. n : Nth(fat, c, i) \in Clusters
  BY SpansHead, HeadsType DEF IInv, Shape, FatSole
<1>1. CASE UNCHANGED fat
  BY <1>1
<1>2. CASE \A d \in Clusters : fat[d] \in Clusters => fat'[d] = fat[d]
  BY <1>0, <1>2, ChainGrows
<1>3. CASE WriteFirst \/ WriteFirstFails \/ Grow
  <2>1. CASE \E p \in Clusters : Alloc(p)
    <3>1. \A d \in Clusters : fat[d] \in Clusters => fat'[d] = fat[d]
      BY <1>0, <2>1, ClusterFacts DEF Alloc
    <3> QED
      BY <1>2, <3>1
  <2> QED
    BY <1>1, <1>3, <2>1 DEF WriteFirst, WriteFirstFails, Grow, FirstCluster
<1>4. CASE LinkNew
  <2>1. fat' = [fat EXCEPT ![Cur.cclust] = call.c] /\ fat[Cur.cclust] = Eoc
    BY <1>4 DEF LinkNew, CursorInv, Working
  <2>2. \A d \in Clusters : fat[d] \in Clusters => fat'[d] = fat[d]
    BY <1>0, <2>1, ClusterFacts
  <2> QED
    BY <1>2, <2>2
<1>5. CASE Trim /\ ~UNCHANGED fat
  <2>1. call.op = "close" /\ call.at = "trim" /\ Cur.fsize > 0
        /\ fat' = [fat EXCEPT ![LastOne] = Eoc]
    BY <1>5 DEF Trim
  <2>2. PICK m \in Nat : /\ LastOne = Nth(fat, Cur.sclust, m) /\ LastOne \in Clusters
                         /\ m * ClusterBytes < Cur.fsize
                         /\ Cur.fsize <= (m + 1) * ClusterBytes
    BY <2>1, ClosingNow, LastByteIn
  <2>3. PICK g \in Files : g = Cur.file
    BY <2>1, ClosingNow
  <2>4. PICK h \in Heads[g] : h = Cur.sclust
    <3>1. Nth(fat, fcb[call.k].sclust, m) \in Clusters /\ fcb[call.k].file \in Files
          /\ call.k \in Fcbs
      BY <2>1, <2>2, <2>3, ClosingNow
    <3>2. fcb[call.k].sclust \in Heads[fcb[call.k].file]
      BY <3>1, ChainOf
    <3> QED
      BY <2>3, <3>2 DEF Cur
  <2>5. ASSUME NEW i \in Nat, i < n
        PROVE  Nth(fat, c, i) \in Clusters /\ fat'[Nth(fat, c, i)] = fat[Nth(fat, c, i)]
    <3>1. i \in 0 .. n
      BY <2>5
    <3>2. Nth(fat, c, i) \in Clusters
      BY <1>0, <3>1
    <3>3. Nth(fat, c, i) # LastOne
      <4> SUFFICES ASSUME Nth(fat, c, i) = Nth(fat, h, m) PROVE FALSE
        BY <2>2, <2>4
      <4>1. i = m /\ f = g
        BY <1>0, <3>2, ChainsApart
      <4>2. size <= Cur.fsize /\ Cur.fsize \in Nat
        BY <1>5, <2>1, <2>3, <4>1, ClosingNow
      <4>3. (m + 1) * ClusterBytes <= n * ClusterBytes
            /\ (m + 1) * ClusterBytes \in Nat /\ n * ClusterBytes \in Nat
        BY <2>5, <4>1, SizeFacts
      <4> QED
        BY <2>2, <4>2, <4>3
    <3> QED
      BY <1>0, <2>1, <3>2, <3>3
  <2> QED
    BY ONLY <2>5, n \in Nat, ChainKept
<1>6. CASE FreeOne
  <2>1. Orphan(fat, Heads, call.c) /\ fat' = [fat EXCEPT ![call.c] = 0]
    BY <1>6 DEF FreeOne, IInv, CallHolds
  <2>2. PICK p : p = call.c
    OBVIOUS
  <2>3. \A i \in Nat : Nth(fat, c, i) \in Clusters => Nth(fat, c, i) # p
    BY <1>0, <2>1, <2>2, OrphanBeside
  <2>4. \A d \in Clusters : d # p => fat'[d] = fat[d]
    BY <1>0, <2>1, <2>2
  <2>5. ASSUME NEW i \in Nat, i < n
        PROVE  Nth(fat, c, i) \in Clusters /\ fat'[Nth(fat, c, i)] = fat[Nth(fat, c, i)]
    <3>1. i \in 0 .. n
      BY SMTT(30), <2>5
    <3> QED
      BY <1>0, <2>3, <2>4, <3>1
  <2> QED
    BY ONLY <2>5, n \in Nat, ChainKept
<1>7. CASE Caller
  BY <1>1, <1>7 DEF Caller, OpenCall, SeekCall, ReadCall, WriteCall, CloseCall, DeleteCall
<1>8. CASE \/ ReadSector \/ ReadFails \/ ReadChunk \/ ReadDone \/ WriteSector
           \/ WriteSectorFails \/ GrowFull \/ LinkFails
  BY <1>1, <1>8 DEF ReadSector, ReadFails, ReadChunk, ReadDone, WriteSector,
     WriteSectorFails, GrowFull, LinkFails
<1>9. CASE \/ WriteChunk \/ WriteChunkFails \/ WriteDone \/ CloseSize \/ CloseFails
           \/ TrimAll \/ FreeFails \/ FlushLast \/ FlushFails \/ Sync \/ UNCHANGED state
  BY <1>1, <1>9 DEF WriteChunk, WriteChunkFails, WriteDone, CloseSize, CloseFails,
     TrimAll, FreeFails, FlushLast, FlushFails, Sync, state
<1> QED
  BY <1>1, <1>3, <1>4, <1>5, <1>6, <1>7, <1>8, <1>9 DEF Running, Kernel

\* So a chain stays long enough.
LEMMA SpansRemain ==
  ASSUME IInv, CursorInv, faults.crash = 0, Running, NEW f \in Files, NEW c,
         c \in Clusters => c \in Heads[f], NEW size \in Nat, Spans(fat, c, size),
         Trim /\ f = Cur.file => c = Cur.sclust /\ size <= Cur.fsize
  PROVE  Spans(fat', c, size)
<1>1. \A n \in Nat : n * ClusterBytes < size => Nth(fat', c, n) = Nth(fat, c, n)
  BY ChainRemains
<1> QED
  BY <1>1 DEF Spans

\* Which steps change an entry, and to what.
LEMMA EntryChanged ==
  ASSUME Running, NEW f \in Files, dirent \in [Files -> [clust : {0} \cup Clusters,
                                      size : 0 .. MaxSize] \cup {Absent}],
         dirent'[f] # dirent[f]
  PROVE  \/ dirent'[f] = Absent /\ \E g \in Files : DeleteCall(g)
         \/ dirent'[f] = [clust |-> 0, size |-> 0]
              /\ \E k \in Fcbs, g \in Files, mode \in 0 .. 2 : OpenCall(k, g, mode)
         \/ CloseSize /\ f = Cur.file
              /\ dirent'[f] = [clust |-> Cur.sclust, size |-> Cur.fsize]
         \/ TrimAll /\ f = Cur.file /\ dirent'[f] = [dirent[f] EXCEPT !.clust = 0]
<1>1. CASE Caller
  <2>1. ASSUME NEW k \in Fcbs, NEW g \in Files, NEW mode \in 0 .. 2,
               OpenCall(k, g, mode)
        PROVE  dirent'[f] = [clust |-> 0, size |-> 0]
    BY <2>1 DEF OpenCall, OpenExisting, OpenAppendFails, OpenNew, OpenFails
  <2>2. ASSUME NEW k \in Fcbs, NEW x,
               SeekCall(k, x) \/ ReadCall(k, x) \/ WriteCall(k, x)
        PROVE  FALSE
    BY <2>2 DEF SeekCall, ReadCall, WriteCall
  <2>3. ASSUME NEW k \in Fcbs, CloseCall(k)
        PROVE  FALSE
    BY <2>3 DEF CloseCall
  <2>4. ASSUME NEW g \in Files, DeleteCall(g)
        PROVE  dirent'[f] = Absent
    BY <2>4 DEF DeleteCall, MarkDeleted
  <2> QED
    BY <1>1, <2>1, <2>2, <2>3, <2>4 DEF Caller
<1>2. CASE \/ ReadSector \/ ReadFails \/ ReadChunk \/ ReadDone \/ WriteSector
           \/ WriteSectorFails \/ GrowFull \/ LinkFails \/ Grow \/ LinkNew
  BY <1>2 DEF ReadSector, ReadFails, ReadChunk, ReadDone, WriteSector,
     WriteSectorFails, GrowFull, LinkFails, Grow, LinkNew
<1>3. CASE WriteFirst \/ WriteFirstFails
  BY <1>3 DEF WriteFirst, WriteFirstFails, FirstCluster
<1>4. CASE \/ WriteChunk \/ WriteChunkFails \/ WriteDone \/ CloseFails \/ Trim
           \/ FreeOne \/ FreeFails \/ FlushLast \/ FlushFails \/ Sync \/ UNCHANGED state
  BY <1>4 DEF WriteChunk, WriteChunkFails, WriteDone, CloseFails, Trim,
     FreeOne, FreeFails, FlushLast, FlushFails, Sync, state
<1>5. CASE CloseSize
  BY <1>5 DEF CloseSize
<1>6. CASE TrimAll
  BY <1>6 DEF TrimAll
<1> QED
  BY <1>1, <1>2, <1>3, <1>4, <1>5, <1>6 DEF Running, Kernel

\* The chain of an entry that is left alone stays long enough.
LEMMA EntryLong ==
  ASSUME IInv, CursorInv, faults.crash = 0, Running, NEW f \in Files, dirent[f] # Absent
  PROVE  /\ dirent[f].size \in Nat
         /\ Spans(fat, dirent[f].clust, dirent[f].size)
         /\ Spans(fat', dirent[f].clust, dirent[f].size)
         /\ dirent[f].clust \in Clusters => dirent[f].clust \in Heads[f]
         /\ Trim /\ f = Cur.file => dirent[f].clust = Cur.sclust /\ dirent[f].size <= Cur.fsize
<1> DEFINE c == dirent[f].clust
           size == dirent[f].size
<1>1. size \in Nat
  <2>1. dirent[f] \in [clust : {0} \cup Clusters, size : 0 .. MaxSize]
    BY DEF CursorInv, StateOK
  <2> QED
    BY <2>1, MaxSizeFact
<1>2. c \in Clusters => c \in Heads[f]
  BY DEF Heads, EntryHeads
<1>3. Spans(fat, c, size)
  BY DEF CursorInv, EntriesLong
<1>4. Trim /\ f = Cur.file => c = Cur.sclust /\ size <= Cur.fsize
  <2> SUFFICES ASSUME Trim, f = Cur.file PROVE c = Cur.sclust /\ size <= Cur.fsize
    OBVIOUS
  <2>1. call.op = "close" /\ call.at = "trim"
    BY DEF Trim
  <2>2. dirent[f] = [clust |-> Cur.sclust, size |-> Cur.fsize] /\ Cur.fsize \in Nat
    BY <2>1, ClosingNow
  <2> QED
    BY <2>2
<1> HIDE DEF c, size
<1>5. Spans(fat', c, size)
  BY <1>1, <1>2, <1>3, <1>4, SpansRemain
<1> QED
  BY <1>1, <1>2, <1>3, <1>4, <1>5 DEF c, size

\* The chain of every entry is as long as its size says.
LEMMA EntriesSpan ==
  ASSUME IInv, CursorInv, faults.crash = 0, Running, NEW f \in Files, dirent'[f] # Absent
  PROVE  Spans(fat', dirent'[f].clust, dirent'[f].size)
<1>0. /\ dirent \in [Files -> [clust : {0} \cup Clusters, size : 0 .. MaxSize]
                                \cup {Absent}]
      /\ \A c : Spans(fat', c, 0)
  <2>1. \A n \in Nat : ~(n * ClusterBytes < 0)
    BY SizeFacts
  <2> QED
    BY <2>1 DEF CursorInv, StateOK, Spans
<1>1. CASE dirent'[f] = dirent[f]
  BY <1>1, EntryLong
<1>2. CASE dirent'[f] = [clust |-> 0, size |-> 0]
  BY <1>0, <1>2
<1>3. CASE CloseSize /\ f = Cur.file
             /\ dirent'[f] = [clust |-> Cur.sclust, size |-> Cur.fsize]
  <2>1. call.op = "close" /\ call.at = "size" /\ UNCHANGED fat
    BY <1>3 DEF CloseSize
  <2>2. Spans(fat, Cur.sclust, Cur.fsize)
    BY <2>1, ClosingNow
  <2> QED
    BY <1>3, <2>1, <2>2
<1>4. CASE TrimAll /\ f = Cur.file /\ dirent'[f] = [dirent[f] EXCEPT !.clust = 0]
  <2>1. call.op = "close" /\ call.at = "trim" /\ Cur.fsize = 0
    BY <1>4 DEF TrimAll
  <2>2. dirent[f] = [clust |-> Cur.sclust, size |-> Cur.fsize]
    BY <1>4, <2>1, ClosingNow
  <2>3. dirent'[f].size = 0
    BY <1>4, <2>1, <2>2
  <2> QED
    BY <1>0, <2>3
<1> QED
  BY <1>0, <1>1, <1>2, <1>3, <1>4, EntryChanged

\* Every step but a restart keeps the chains long enough.
LEMMA EntriesLongStep ==
  ASSUME IInv, CursorInv, [Step]_state
  PROVE  EntriesLong'
<1>0. DOMAIN faults = {"read", "write", "crash"} /\ faults.crash \in Nat
  BY DEF IInv, Shape
<1>1. CASE Crash
  <2>1. faults'.crash = faults.crash + 1
    BY <1>0, <1>1 DEF Crash
  <2> QED
    BY <1>0, <2>1 DEF EntriesLong
<1>2. CASE Running
  <2>1. faults'.crash = faults.crash
    BY <1>0, <1>2, RestartsKept
  <2> QED
    BY <1>2, <2>1, EntriesSpan DEF EntriesLong
<1> QED
  BY <1>1, <1>2 DEF Step, Running

\* A fault or a restart is counted up to its bound.
LEMMA FaultsStep ==
  ASSUME CursorInv, [Step]_state
  PROVE  faults' \in FaultRecords
<1>1. /\ faults \in FaultRecords /\ MaxReadFaults \in Nat /\ MaxWriteFaults \in Nat
      /\ MaxCrashes \in Nat
  BY PartsOf, FileConstants
<1>2. CASE Fault \/ Crash
  BY <1>1, <1>2 DEF Fault, ReadFault, WriteFault, Crash, FaultRecords
<1> QED
  BY <1>1, <1>2, EveryStepCounted

\* The outcome of a call.
LEMMA OutcomeStep ==
  ASSUME CursorInv, [Step]_state
  PROVE  ret' \in BOOLEAN
<1>0. ret \in BOOLEAN /\ call \in CallRecords
  BY PartsOf
<1>2. ASSUME NEW ok \in BOOLEAN, Return(ok)
      PROVE  ret' \in BOOLEAN
  BY <1>0, <1>2 DEF Return
<1>3. CASE Caller
  <2>1. ASSUME NEW k \in Fcbs, NEW f \in Files, NEW mode \in 0 .. 2,
               OpenCall(k, f, mode)
        PROVE  ret' \in BOOLEAN
    BY <2>1 DEF OpenCall, OpenExisting, OpenAppendFails, OpenNew, OpenFails
  <2>2. ASSUME NEW k \in Fcbs, NEW x,
               SeekCall(k, x) \/ ReadCall(k, x) \/ WriteCall(k, x) \/ CloseCall(k)
        PROVE  ret' \in BOOLEAN
    BY <2>2 DEF SeekCall, ReadCall, WriteCall, CloseCall, Start
  <2>3. ASSUME NEW f \in Files, DeleteCall(f)
        PROVE  ret' \in BOOLEAN
    BY <2>3 DEF DeleteCall, MarkDeleted
  <2> QED
    BY <1>3, <2>1, <2>2, <2>3 DEF Caller
<1>4. CASE ReadSector \/ ReadFails \/ ReadChunk \/ ReadDone
  BY <1>0, <1>2, <1>4 DEF ReadSector, ReadFails, ReadChunk, ReadDone
<1>5. CASE \/ WriteFirst \/ WriteFirstFails \/ WriteSector \/ WriteSectorFails
           \/ Grow \/ GrowFull \/ LinkNew \/ LinkFails
           \/ WriteChunk \/ WriteChunkFails \/ WriteDone
  BY <1>0, <1>2, <1>5 DEF WriteFirst, WriteFirstFails, WriteSector, WriteSectorFails,
     Grow, GrowFull, LinkNew, LinkFails, WriteChunk, WriteChunkFails, WriteDone, Goto
<1>6. CASE \/ CloseSize \/ CloseFails \/ Trim \/ TrimAll \/ FreeOne \/ FreeFails
  <2>1. UNCHANGED ret \/ Return(FALSE)
    BY <1>6 DEF CloseSize, CloseFails, Trim, TrimAll, FreeOne, FreeFails, Goto, Free
  <2> QED
    BY <1>0, <1>2, <2>1
<1>7. CASE FlushLast \/ FlushFails
  <2>1. Return(TRUE) \/ Return(call.op = "close")
    BY <1>7 DEF FlushLast, FlushFails
  <2> DEFINE ok == call.op = "close"
  <2>2. ok \in BOOLEAN /\ (Return(TRUE) \/ Return(ok))
    BY <2>1
  <2> HIDE DEF ok
  <2> QED
    BY <1>2, <2>2
<1>8. CASE Crash \/ Sync \/ UNCHANGED state
  BY <1>0, <1>8 DEF Crash, Sync, state
<1> QED
  BY <1>3, <1>4, <1>5, <1>6, <1>7, <1>8 DEF Step, Kernel

\* Only file_write changes a sector, and it writes a whole one.
LEMMA DataStep ==
  ASSUME IInv, CursorInv, [Step]_state
  PROVE  data' \in [Sectors -> Buffers]
<1>0. data \in [Sectors -> Buffers]
  BY PartsOf
<1>1. CASE WriteChunk
  <2> DEFINE buffer == Patched(Cur, Chunk)
  <2>1. buffer \in Buffers
    BY <1>1, ChunkFacts DEF WriteChunk
  <2>2. data' = [data EXCEPT ![SectorOf(Cur)] = buffer]
    BY <1>1 DEF WriteChunk
  <2> HIDE DEF buffer
  <2> QED
    BY <1>0, <2>1, <2>2
<1>2. CASE Caller
  BY <1>0, <1>2 DEF Caller, OpenCall, SeekCall, ReadCall, WriteCall, CloseCall, DeleteCall
<1>3. CASE \/ ReadSector \/ ReadFails \/ ReadChunk \/ ReadDone \/ WriteFirst
           \/ WriteFirstFails \/ WriteSector \/ WriteSectorFails \/ Grow \/ GrowFull
           \/ LinkNew \/ LinkFails
  BY <1>0, <1>3 DEF ReadSector, ReadFails, ReadChunk, ReadDone, WriteFirst,
     WriteFirstFails, WriteSector, WriteSectorFails, Grow, GrowFull, LinkNew, LinkFails,
     FirstCluster
<1>4. CASE \/ WriteChunkFails \/ WriteDone \/ CloseSize \/ CloseFails
           \/ Trim \/ TrimAll \/ FreeOne \/ FreeFails \/ FlushLast \/ FlushFails
           \/ Sync \/ Crash \/ UNCHANGED state
  BY <1>0, <1>4 DEF WriteChunkFails, WriteDone, CloseSize, CloseFails, Trim, TrimAll,
     FreeOne, FreeFails, FlushLast, FlushFails, Sync, Crash, state
<1> QED
  BY <1>1, <1>2, <1>3, <1>4 DEF Step, Kernel

\* file_read and file_write keep an FCB on its file.
LEMMA SameFile ==
  ASSUME NEW r \in FcbRecords, NEW b, NEW n
  PROVE  /\ Resolve(r).file = r.file
         /\ [Resolve(r) EXCEPT !.iobuf = b, !.iovalid = TRUE].file = r.file
         /\ [r EXCEPT !.iobuf = b].file = r.file
         /\ Advance(r, n).file = r.file
         /\ Grown(Advance([r EXCEPT !.iobuf = b], n)).file = r.file
<1>1. \A q : "file" \in DOMAIN q =>
        /\ "file" \in DOMAIN Resolve(q) /\ Resolve(q).file = q.file
        /\ Advance(q, n).file = q.file
        /\ "file" \in DOMAIN Advance(q, n)
        /\ Grown(q).file = q.file
  BY DEF Resolve, Advance, Grown
<1>2. "file" \in DOMAIN r /\ "file" \in DOMAIN [r EXCEPT !.iobuf = b]
      /\ [r EXCEPT !.iobuf = b].file = r.file
  BY DEF FcbRecords
<1>3. Resolve(r).file = r.file /\ "file" \in DOMAIN Resolve(r) /\ Advance(r, n).file = r.file
  BY <1>1, <1>2
<1>4. Grown(Advance([r EXCEPT !.iobuf = b], n)).file = r.file
  BY <1>1, <1>2
<1>5. [Resolve(r) EXCEPT !.iobuf = b, !.iovalid = TRUE].file = r.file
  BY <1>3
<1> QED
  BY <1>2, <1>3, <1>4, <1>5

\* So every FCB keeps its file, and the entries are left alone.
LEMMA TransfersKeepFiles ==
  ASSUME IInv, CursorInv,
         \/ ReadSector \/ ReadFails \/ ReadChunk \/ ReadDone \/ WriteFirst \/ WriteFirstFails
         \/ WriteSector \/ WriteSectorFails \/ Grow \/ GrowFull \/ LinkNew \/ LinkFails
         \/ WriteChunk \/ WriteChunkFails \/ WriteDone
  PROVE  UNCHANGED dirent /\ \A k \in Fcbs : fcb'[k].file = fcb[k].file
<1>0. fcb \in [Fcbs -> FcbRecords]
  BY PartsOf DEF Cursors
<1>1. ASSUME NEW r, fcb' = [fcb EXCEPT ![call.k] = r], call.k \in Fcbs => r.file = Cur.file
      PROVE  \A k \in Fcbs : fcb'[k].file = fcb[k].file
  BY <1>0, <1>1 DEF Cur
<1>2. call.k \in Fcbs => Cur \in FcbRecords /\ fcb[call.k] = Cur
  BY <1>0 DEF Cur
<1>3. CASE UNCHANGED <<dirent, fcb>>
  BY <1>3
<1>4. CASE ReadSector \/ WriteSector
  BY <1>1, <1>2, <1>4, SameFile DEF ReadSector, WriteSector
<1>5. CASE ReadFails \/ WriteSectorFails
  BY <1>1, <1>2, <1>5, SameFile DEF ReadFails, WriteSectorFails, Cur
<1>6. CASE ReadChunk
  BY ZenonT(60), <1>1, <1>2, <1>6, SameFile DEF ReadChunk, Cur
<1>7. CASE WriteChunk
  BY <1>1, <1>2, <1>7, SameFile DEF WriteChunk, Cur
<1>8. CASE WriteChunkFails
  BY <1>1, <1>2, <1>8, SameFile DEF WriteChunkFails, Cur
<1>9. CASE WriteFirst \/ WriteFirstFails
  <2>1. CASE \E c \in Clusters : FirstCluster(c)
    <3>1. PICK c \in Clusters : FirstCluster(c)
      BY <2>1
    <3> DEFINE r == [fcb[call.k] EXCEPT !.sclust = c, !.cclust = c, !.sizechg = TRUE]
    <3>2. fcb' = [fcb EXCEPT ![call.k] = r] /\ UNCHANGED dirent
      BY <3>1 DEF FirstCluster
    <3>3. call.k \in Fcbs => r.file = Cur.file
      BY <1>2 DEF FcbRecords
    <3> HIDE DEF r
    <3> QED
      BY <1>1, <3>2, <3>3
  <2> QED
    BY <1>3, <1>9, <2>1 DEF WriteFirst, WriteFirstFails
<1>10. CASE LinkNew
  <2> DEFINE r == [fcb[call.k] EXCEPT !.cclust = call.c, !.csect = 0]
  <2>1. fcb' = [fcb EXCEPT ![call.k] = r] /\ UNCHANGED dirent
    BY <1>10 DEF LinkNew
  <2>2. call.k \in Fcbs => r.file = Cur.file
    BY <1>2 DEF FcbRecords
  <2> HIDE DEF r
  <2> QED
    BY <1>1, <2>1, <2>2
<1>11. CASE ReadDone \/ Grow \/ GrowFull \/ LinkFails \/ WriteDone
  BY <1>11 DEF ReadDone, Grow, GrowFull, LinkFails, WriteDone
<1> QED
  BY <1>4, <1>5, <1>6, <1>7, <1>8, <1>9, <1>10, <1>11

\* The entries keep their form, and one whose file is in use stays.
LEMMA EntriesStep ==
  ASSUME IInv, CursorInv, [Step]_state
  PROVE  EntriesOK'
<1>0. /\ dirent \in [Files -> [clust : {0} \cup Clusters, size : 0 .. MaxSize]
                                \cup {Absent}]
      /\ \A k \in Fcbs : fcb[k].file \in Files => dirent[fcb[k].file] # Absent
      /\ fcb \in [Fcbs -> FcbRecords] /\ NoFile \notin Files
  BY PartsOf, FileConstants DEF EntriesOK, Cursors
<1>1. ASSUME UNCHANGED dirent,
             \A k \in Fcbs : fcb'[k].file \in Files => fcb'[k].file = fcb[k].file
      PROVE  EntriesOK'
  BY <1>0, <1>1 DEF EntriesOK
<1>2. ASSUME NEW k \in Fcbs, NEW f \in Files, NEW mode \in 0 .. 2, OpenCall(k, f, mode)
      PROVE  EntriesOK'
  <2>1. ASSUME NEW r, r.file = f, fcb' = [fcb EXCEPT ![k] = r],
               dirent[f] # Absent, UNCHANGED dirent
        PROVE  EntriesOK'
    BY <1>0, <2>1 DEF EntriesOK
  <2> DEFINE q == Opened(f, mode)
  <2>2. "file" \in DOMAIN q /\ q.file = f
    BY DEF Opened, Closed
  <2>3. \A t : SeekTo(q, t).file = f /\ [SeekTo(q, t) EXCEPT !.fpos = t].file = f
    <3> HIDE DEF q
    <3>1. ASSUME NEW t
          PROVE  "file" \in DOMAIN SeekTo(q, t) /\ SeekTo(q, t).file = f
      BY <2>2 DEF SeekTo
    <3> QED
      BY <3>1
  <2>4. CASE OpenExisting(k, f, mode) \/ OpenAppendFails(k, f, mode)
    <3>1. dirent[f] # Absent /\ UNCHANGED dirent
      BY <2>4 DEF OpenExisting, OpenAppendFails, Absent
    <3>2. \/ fcb' = [fcb EXCEPT ![k] = q]
          \/ fcb' = [fcb EXCEPT ![k] = [SeekTo(q, dirent[f].size)
                                          EXCEPT !.fpos = dirent[f].size]]
      BY <2>4 DEF OpenExisting, OpenAppendFails
    <3> HIDE DEF q
    <3> QED
      BY <2>1, <2>2, <2>3, <3>1, <3>2
  <2>5. CASE OpenNew(k, f, mode)
    <3> DEFINE e == [clust |-> 0, size |-> 0]
               r == [Closed EXCEPT !.file = f, !.open = TRUE, !.write = TRUE]
    <3>1. e \in [clust : {0} \cup Clusters, size : 0 .. MaxSize] /\ e # Absent
      <4>1. 0 \in 0 .. MaxSize /\ 0 # -1
        BY MaxSizeFact
      <4> QED
        BY <4>1 DEF Absent
    <3>2. dirent' = [dirent EXCEPT ![f] = e] /\ fcb' = [fcb EXCEPT ![k] = r]
      BY <2>5 DEF OpenNew
    <3>3. r.file = f
      BY DEF Closed
    <3> HIDE DEF e, r
    <3> QED
      BY <1>0, <3>1, <3>2, <3>3 DEF EntriesOK
  <2>6. CASE OpenFails(f, mode)
    BY <1>1, <2>6 DEF OpenFails
  <2> QED
    BY <1>2, <2>4, <2>5, <2>6 DEF OpenCall
<1>3. ASSUME NEW k \in Fcbs, NEW x \in 0 .. MaxSize, SeekCall(k, x)
      PROVE  EntriesOK'
  <2>1. IsFcb(fcb[k])
    BY DEF IInv, Shape
  <2>2. SameUse(fcb[k], Sought(fcb[k], x))
    BY <2>1, SoughtUse
  <2> QED
    BY <1>0, <1>1, <1>3, <2>2 DEF SeekCall, SameUse
<1>4. ASSUME NEW k \in Fcbs, CloseCall(k)
      PROVE  EntriesOK'
  BY <1>0, <1>1, <1>4 DEF CloseCall, Closed, FcbRecords
<1>5. ASSUME NEW f \in Files, DeleteCall(f)
      PROVE  EntriesOK'
  <2>1. CASE UNCHANGED dirent
    BY <1>1, <1>5, <2>1 DEF DeleteCall
  <2>2. CASE dirent' = [dirent EXCEPT ![f] = Absent]
    <3>1. \A k \in Fcbs : fcb[k].file # f
      BY <1>5 DEF DeleteCall, OpenOn
    <3> QED
      BY <1>0, <1>5, <2>2, <3>1 DEF DeleteCall, EntriesOK
  <2> QED
    BY <1>5, <2>1, <2>2 DEF DeleteCall, MarkDeleted
<1>6. CASE CloseSize
  <2>1. call.k \in Fcbs /\ Cur.file \in Files /\ Cur \in FcbRecords
    BY <1>0, <1>6 DEF CloseSize, IInv, CallOK, Cur
  <2> DEFINE e == [clust |-> Cur.sclust, size |-> Cur.fsize]
  <2>2. e \in [clust : {0} \cup Clusters, size : 0 .. MaxSize] /\ e # Absent
    BY <2>1, ClusterFacts DEF Absent, FcbRecords
  <2>3. dirent' = [dirent EXCEPT ![Cur.file] = e] /\ UNCHANGED fcb
    BY <1>6 DEF CloseSize
  <2> HIDE DEF e
  <2> QED
    BY <1>0, <2>1, <2>2, <2>3 DEF EntriesOK
<1>7. CASE TrimAll
  <2>1. call.k \in Fcbs /\ Cur.file \in Files /\ Cur \in FcbRecords /\ Cur = fcb[call.k]
    BY <1>0, <1>7 DEF TrimAll, IInv, CallOK, Cur
  <2>2. CASE UNCHANGED <<dirent, fcb>>
    BY <1>1, <2>2
  <2>3. CASE ~UNCHANGED <<dirent, fcb>>
    <3> DEFINE e == [dirent[Cur.file] EXCEPT !.clust = 0]
               r == [Cur EXCEPT !.sclust = 0]
    <3>1. dirent[Cur.file] \in [clust : {0} \cup Clusters, size : 0 .. MaxSize]
      BY <1>0, <2>1
    <3>2. e \in [clust : {0} \cup Clusters, size : 0 .. MaxSize] /\ e # Absent
      BY <3>1 DEF Absent
    <3>3. r.file = Cur.file
      BY <2>1 DEF FcbRecords
    <3>4. dirent' = [dirent EXCEPT ![Cur.file] = e] /\ fcb' = [fcb EXCEPT ![call.k] = r]
      BY <1>7, <2>1, <2>3 DEF TrimAll
    <3> HIDE DEF e, r
    <3> QED
      BY <1>0, <2>1, <3>2, <3>3, <3>4 DEF EntriesOK
  <2> QED
    BY <2>2, <2>3
<1>8. CASE \/ Sync \/ Crash \/ UNCHANGED state \/ FlushLast \/ FlushFails \/ FreeOne
           \/ FreeFails \/ Trim \/ CloseFails
  <2>1. UNCHANGED dirent
        /\ \/ UNCHANGED fcb \/ fcb' = [k \in Fcbs |-> Closed]
           \/ fcb' = [fcb EXCEPT ![call.k] = Closed]
    BY <1>8 DEF Sync, Crash, state, FlushLast, FlushFails, FreeOne, FreeFails, Trim,
       CloseFails, Released
  <2>2. Closed.file = NoFile
    BY DEF Closed
  <2> QED
    BY <1>0, <1>1, <2>1, <2>2
<1>9. CASE \/ ReadSector \/ ReadFails \/ ReadChunk \/ ReadDone \/ WriteFirst
           \/ WriteFirstFails \/ WriteSector \/ WriteSectorFails \/ Grow \/ GrowFull
           \/ LinkNew \/ LinkFails \/ WriteChunk \/ WriteChunkFails \/ WriteDone
  BY <1>1, <1>9, TransfersKeepFiles
<1>10. ASSUME NEW k \in Fcbs, NEW x, ReadCall(k, x) \/ WriteCall(k, x)
       PROVE  EntriesOK'
  <2>1. CASE ReadCall(k, x)
    BY <1>1, <2>1 DEF ReadCall
  <2>2. CASE WriteCall(k, x)
    <3>1. UNCHANGED dirent
      BY <2>2 DEF WriteCall
    <3>2. \A l \in Fcbs : fcb'[l].file = fcb[l].file
      BY <1>0, <2>2, WritesNow
    <3> QED
      BY <1>1, <3>1, <3>2
  <2> QED
    BY <1>10, <2>1, <2>2
<1> QED
  BY <1>2, <1>3, <1>4, <1>5, <1>6, <1>7, <1>8, <1>9, <1>10 DEF Step, Kernel, Caller

\* What file_read takes out of the buffer, and what it has then.
Part == Min({call.n, SecSize - Cur.boff, Cur.fsize - Cur.fpos})
Taken == [i \in 1 .. Part |-> Cur.iobuf[Cur.boff + i - 1]]

\* It fits what the program asked for.
LEMMA ReadFacts ==
  ASSUME IInv, CursorInv, ReadChunk
  PROVE  /\ call' = [call EXCEPT !.n = call.n - Part, !.bytes = call.bytes \o Taken]
         /\ call.n - Part \in 0 .. MaxRequest
         /\ call.bytes \o Taken \in Seq(Bytes)
         /\ Len(call.bytes \o Taken) + (call.n - Part) <= MaxRequest
         /\ Len(call.bytes \o Taken) <= MaxRequest
<1>0. call \in CallRecords /\ MaxRequest \in Nat
  BY PartsOf, FileConstants
<1>1. /\ Cur.boff \in 0 .. SecSize - 1 /\ Cur.fsize \in 0 .. MaxSize /\ Cur.iobuf \in Buffers
      /\ Cur.fpos \in 0 .. MaxSize /\ Cur.fpos < Cur.fsize /\ SecSize \in Nat
  BY CurCursor, SizeFacts DEF ReadChunk, MoreToRead, FcbRecords
<1>2. Part \in Nat /\ Part <= call.n /\ Part <= SecSize - Cur.boff
  <2>1. call.n \in Nat /\ SecSize - Cur.boff \in Nat /\ Cur.fsize - Cur.fpos \in Nat
    BY <1>0, <1>1, MaxSizeFact DEF CallRecords
  <2> QED
    BY <2>1, SmallestOf DEF Part
<1>3. call' = [call EXCEPT !.n = call.n - Part, !.bytes = call.bytes \o Taken]
  BY <1>0 DEF ReadChunk, CallRecords, Part, Taken
<1>4. Taken \in Seq(Bytes) /\ Len(Taken) = Part
  <2>1. ASSUME NEW i \in 1 .. Part
        PROVE  Cur.iobuf[Cur.boff + i - 1] \in Bytes
    <3>1. Cur.boff + i - 1 \in 0 .. SecSize - 1
      BY <1>1, <1>2
    <3> QED
      BY <1>1, <3>1 DEF Buffers
  <2> QED
    BY <1>2, <2>1 DEF Taken
<1>5. call.bytes \in Seq(Bytes) /\ Len(call.bytes) + call.n <= MaxRequest
      /\ call.n \in 0 .. MaxRequest /\ Len(call.bytes) \in Nat
  <2>1. call.bytes \in Seq(Bytes) /\ call.n \in 0 .. MaxRequest
    BY <1>0, RequestSeq DEF CallRecords
  <2>2. Len(call.bytes) + call.n <= MaxRequest
    BY DEF CursorInv, Working, ReadChunk
  <2> QED
    BY <2>1, <2>2
<1>6. call.bytes \o Taken \in Seq(Bytes)
      /\ Len(call.bytes \o Taken) = Len(call.bytes) + Part
  BY <1>4, <1>5
<1> QED
  BY SMTT(30), <1>0, <1>2, <1>3, <1>5, <1>6

\* The registers.
LEMMA RegistersStep ==
  ASSUME IInv, CursorInv, [Step]_state
  PROVE  call' \in CallRecords
<1>0. call \in CallRecords /\ fat \in [Clusters -> Links]
  BY PartsOf
<1>1. MaxRequest \in Nat /\ 0 \in 0 .. MaxRequest
  BY FileConstants
<1>2. Idle \in CallRecords
  BY <1>1 DEF Idle, CallRecords, Places
<1>3. ASSUME NEW place \in Places, Goto(place)
      PROVE  call' \in CallRecords
  BY <1>0, <1>3 DEF Goto, CallRecords
<1>4. ASSUME NEW c \in {0} \cup Clusters, Free(c)
      PROVE  call' \in CallRecords
  BY <1>0, <1>4 DEF Free, CallRecords, Places
<1>5. ASSUME NEW ok, Return(ok)
      PROVE  call' \in CallRecords
  BY <1>2, <1>5 DEF Return
<1>6. CASE Caller
  <2>1. ASSUME NEW k \in Fcbs, NEW f \in Files, NEW mode \in 0 .. 2,
               OpenCall(k, f, mode)
        PROVE  call' \in CallRecords
    BY <1>0, <2>1 DEF OpenCall
  <2>2. ASSUME NEW k \in Fcbs, NEW x, SeekCall(k, x)
        PROVE  call' \in CallRecords
    BY <1>0, <2>2 DEF SeekCall
  <2>3. ASSUME NEW k \in Fcbs, NEW n \in 1 .. MaxRequest, ReadCall(k, n)
        PROVE  call' \in CallRecords
    <3>1. call' = [Idle EXCEPT !.op = "read", !.k = k, !.n = n] /\ n \in 0 .. MaxRequest
      BY <1>1, <2>3 DEF ReadCall, Start
    <3> QED
      BY <1>2, <3>1 DEF CallRecords
  <2>4. ASSUME NEW k \in Fcbs, NEW bytes \in Requests, WriteCall(k, bytes)
        PROVE  call' \in CallRecords
    <3>1. PICK place \in {"first", "loop"} :
            call' = [Idle EXCEPT !.op = "write", !.k = k, !.bytes = bytes, !.at = place]
      BY <2>4 DEF WriteCall, Start
    <3> QED
      BY <1>2, <3>1 DEF CallRecords, Places
  <2>5. ASSUME NEW k \in Fcbs, CloseCall(k)
        PROVE  call' \in CallRecords
    <3>1. UNCHANGED call \/ call' = [Idle EXCEPT !.op = "close", !.k = k, !.at = "size"]
      BY <2>5 DEF CloseCall, Start
    <3> QED
      BY ZenonT(60), <1>0, <1>2, <3>1 DEF CallRecords, Places
  <2>6. ASSUME NEW f \in Files, DeleteCall(f)
        PROVE  call' \in CallRecords
    <3>1. CASE UNCHANGED call
      BY <1>0, <3>1
    <3>2. CASE dirent[f] # Absent /\ MarkDeleted(f)
      <4>1. dirent[f].clust \in {0} \cup Clusters
        BY <3>2, PartsOf DEF EntriesOK
      <4>2. PICK place \in {"flush", "free"} :
              call' = [Idle EXCEPT !.op = "delete", !.f = f, !.c = dirent[f].clust,
                                   !.at = place]
        BY <3>2 DEF MarkDeleted
      <4> QED
        BY <1>2, <4>1, <4>2 DEF CallRecords, Places
    <3> QED
      BY <2>6, <3>1, <3>2 DEF DeleteCall
  <2> QED
    BY <1>6, <2>1, <2>2, <2>3, <2>4, <2>5, <2>6 DEF Caller
<1>7. CASE ReadChunk
  <2>1. /\ call' = [call EXCEPT !.n = call.n - Part, !.bytes = call.bytes \o Taken]
        /\ call.n - Part \in 0 .. MaxRequest
        /\ call.bytes \o Taken \in Seq(Bytes)
        /\ Len(call.bytes \o Taken) <= MaxRequest
    BY <1>7, ReadFacts
  <2>2. call.bytes \o Taken \in {<<>>} \cup Requests
    BY <2>1, RequestSeq
  <2> QED
    BY <1>0, <2>1, <2>2 DEF CallRecords
<1>8. CASE WriteChunk
  <2> DEFINE rest == SubSeq(call.bytes, Len(Chunk) + 1, Len(call.bytes))
  <2>1. call' = [call EXCEPT !.bytes = rest]
    BY <1>0, <1>8 DEF WriteChunk, CallRecords
  <2>2. rest \in {<<>>} \cup Requests
    BY <1>8, ChunkFacts, RequestSeq DEF WriteChunk
  <2> HIDE DEF rest
  <2> QED
    BY <1>0, <2>1, <2>2 DEF CallRecords
<1>9. CASE Grow
  <2>1. PICK c \in Clusters : call' = [call EXCEPT !.at = "link", !.c = c]
    BY <1>9 DEF Grow
  <2> QED
    BY <1>0, <2>1 DEF CallRecords, Places
<1>10. CASE Trim
  <2>1. CASE Link(fat, LastOne) \in Clusters
    <3>1. fat[LastOne] \in Clusters
      BY <2>1, ClusterFacts DEF Link
    <3> QED
      BY <1>4, <1>10, <2>1, <3>1 DEF Trim
  <2> QED
    BY <1>3, <1>10, <2>1 DEF Trim, Places
<1>11. CASE TrimAll
  <2>1. Cur.sclust \in {0} \cup Clusters
    BY <1>11, PartsOf DEF TrimAll, Cursors, FcbRecords, Cur, IInv, CallOK
  <2> QED
    BY <1>3, <1>4, <1>11, <2>1 DEF TrimAll, Places
<1>12. CASE FreeOne
  <2>1. call.c \in Clusters
    BY <1>12 DEF FreeOne, IInv, CallHolds, Orphan
  <2>2. fat[call.c] # Eoc => fat[call.c] \in {0} \cup Clusters
    BY <1>0, <2>1 DEF Links
  <2> QED
    BY <1>3, <1>4, <1>12, <2>2 DEF FreeOne, Places
<1>13. CASE \/ WriteFirst \/ LinkNew \/ CloseSize \/ CloseFails \/ FreeFails
  BY <1>3, <1>5, <1>13 DEF WriteFirst, LinkNew, CloseSize, CloseFails, FreeFails, Places
<1>14. CASE \/ ReadSector \/ ReadFails \/ ReadDone \/ WriteFirstFails \/ WriteSector
            \/ WriteSectorFails \/ GrowFull \/ LinkFails \/ WriteChunkFails
  BY <1>0, <1>5, <1>14 DEF ReadSector, ReadFails, ReadDone, WriteFirstFails, WriteSector,
     WriteSectorFails, GrowFull, LinkFails, WriteChunkFails
<1>15. CASE \/ WriteDone \/ FlushLast \/ FlushFails \/ Sync \/ Crash \/ UNCHANGED state
  BY <1>0, <1>2, <1>5, <1>15 DEF WriteDone, FlushLast, FlushFails, Sync, Crash, state
<1> QED
  BY <1>6, <1>7, <1>8, <1>9, <1>10, <1>11, <1>12, <1>13, <1>14, <1>15 DEF Step, Kernel

\* What the call knows of its FCB.
LEMMA WorkingStep ==
  ASSUME IInv, CursorInv, [Step]_state
  PROVE  Working'
<1>0. /\ call \in CallRecords /\ fat \in [Clusters -> Links] /\ fcb \in [Fcbs -> FcbRecords]
      /\ Working /\ CallOK
  BY PartsOf DEF Cursors, IInv
<1>1. ASSUME call'.op \in {"idle", "delete"}, call'.at # "link"
      PROVE  Working'
  BY <1>1 DEF Working
<1>2. ASSUME UNCHANGED <<fat, fcb, call, dirent, faults>>
      PROVE  Working'
  BY <1>0, <1>2 DEF Working, Cur
<1>3. ASSUME NEW ok, Return(ok)
      PROVE  Working'
  BY <1>1, <1>3 DEF Return, Idle
<1>4. ASSUME call.op = "idle", UNCHANGED call
      PROVE  Working'
  BY <1>0, <1>1, <1>4 DEF CallOK
<1>5. CASE Caller
  <2>1. ASSUME NEW k \in Fcbs, NEW f, NEW x, OpenCall(k, f, x) \/ SeekCall(k, x)
        PROVE  Working'
    BY <1>4, <2>1 DEF OpenCall, SeekCall
  <2>2. ASSUME NEW k \in Fcbs, NEW n \in 1 .. MaxRequest, ReadCall(k, n)
        PROVE  Working'
    <3>1. /\ call'.op = "read" /\ call'.at = "" /\ call'.k = k /\ call'.n = n
          /\ call'.bytes = <<>> /\ fcb'[k].open
      BY <2>2 DEF ReadCall, Start, Idle
    <3>2. Len(call'.bytes) + call'.n <= MaxRequest
      <4>1. Len(<<>>) = 0 /\ MaxRequest \in Nat
        BY FileConstants
      <4> DEFINE held == call'.bytes
                 asked == call'.n
      <4>2. held = <<>> /\ asked = n
        BY <3>1
      <4> HIDE DEF held, asked
      <4>3. Len(held) = 0
        BY <4>1, <4>2
      <4>4. Len(held) + asked <= MaxRequest
        BY <4>1, <4>2, <4>3
      <4> QED
        BY <4>4 DEF held, asked
    <3> QED
      BY <3>1, <3>2 DEF Working, Cur
  <2>3. ASSUME NEW k \in Fcbs, NEW bytes \in Requests, WriteCall(k, bytes)
        PROVE  Working'
    <3>1. /\ call'.op = "write" /\ call'.k = k /\ fcb'[k].open
          /\ call'.at = IF fcb'[k].cclust = 0 THEN "first" ELSE "loop"
      <4>1. fcb'[k].open /\ fcb'[k].cclust = fcb[k].cclust
        BY <1>0, <2>3, WritesNow
      <4> QED
        BY <2>3, <4>1 DEF WriteCall, Start, Idle
    <3> QED
      BY <3>1 DEF Working, Cur
  <2>4. ASSUME NEW k \in Fcbs, CloseCall(k)
        PROVE  Working'
    <3>1. CASE UNCHANGED call
      BY <1>4, <2>4, <3>1 DEF CloseCall, Start
    <3>2. CASE call' # call
      <4>1. /\ call'.op = "close" /\ call'.k = k /\ call'.at = "size"
            /\ fcb' = [fcb EXCEPT ![k].open = FALSE]
        BY <2>4, <3>2 DEF CloseCall, Start, Idle
      <4>2. /\ ~fcb'[k].open /\ fcb'[k].sclust = fcb[k].sclust
            /\ fcb'[k].fsize = fcb[k].fsize /\ fcb[k].open
            /\ UNCHANGED <<fat, faults>>
        BY <1>0, <2>4, <4>1 DEF FcbRecords, CloseCall
      <4>3. faults.crash = 0 => Covered(fat, fcb[k])
        BY <4>2, CursorsNow DEF Cursors, Steady
      <4>4. faults'.crash = 0 => Covered(fat', fcb'[k])
        BY <4>2, <4>3 DEF Covered
      <4> QED
        BY <4>1, <4>2, <4>4 DEF Working, Cur
    <3> QED
      BY <3>1, <3>2
  <2>5. ASSUME NEW f \in Files, DeleteCall(f)
        PROVE  Working'
    <3>1. CASE UNCHANGED call
      BY <1>4, <2>5, <3>1 DEF DeleteCall
    <3>2. CASE MarkDeleted(f)
      <4>1. call'.op = "delete" /\ call'.at # "link"
        BY <3>2 DEF MarkDeleted, Idle
      <4> QED
        BY <1>1, <4>1
    <3> QED
      BY <2>5, <3>1, <3>2 DEF DeleteCall
  <2> QED
    BY <1>5, <2>1, <2>2, <2>3, <2>4, <2>5 DEF Caller
<1>6. CASE ReadSector \/ WriteSector
  <2>1. call.k \in Fcbs /\ Cur \in FcbRecords /\ Cur.open /\ Steady(faults, fat, Cur)
        /\ fcb[call.k] = Cur /\ UNCHANGED <<fat, call>> /\ call.at # "link"
        /\ call.op \in {"read", "write"}
    BY <1>0, <1>6, CurCursor DEF ReadSector, WriteSector, WriteMore, CallOK, Cur
  <2> DEFINE r == Resolve(Cur)
             q == [r EXCEPT !.iobuf = data[SectorOf(r)], !.iovalid = TRUE]
  <2>2. r \in FcbRecords /\ r.open /\ r.cclust \in Clusters /\ Cur.cclust \in Clusters
    <3>1. CASE ReadSector
      BY <2>1, <3>1, GoesThere, ResolveSteady DEF ReadSector
    <3>2. CASE WriteSector
      BY <2>1, <3>2, WriteThere, ResolveSteady DEF WriteSector
    <3> QED
      BY <1>6, <3>1, <3>2
  <2>3. fcb' = [fcb EXCEPT ![call.k] = q]
    BY <1>6 DEF ReadSector, WriteSector
  <2> HIDE DEF r
  <2>4. q.open /\ q.cclust = r.cclust
    BY <2>2 DEF FcbRecords
  <2> HIDE DEF q
  <2>5. Cur' = q
    BY <1>0, <2>1, <2>3 DEF Cur
  <2> QED
    BY <1>0, <2>1, <2>2, <2>4, <2>5, ClusterFacts DEF Working
<1>7. CASE ReadChunk
  <2>1. call.k \in Fcbs /\ Cur \in FcbRecords /\ Cur.open /\ fcb[call.k] = Cur
        /\ call.op = "read" /\ call.at = ""
    BY <1>0, <1>7, CurCursor DEF ReadChunk, CallOK, Cur
  <2> DEFINE q == Advance(Cur, Part)
  <2>2. call' = [call EXCEPT !.n = call.n - Part, !.bytes = call.bytes \o Taken]
        /\ Len(call.bytes \o Taken) + (call.n - Part) <= MaxRequest
    BY <1>7, ReadFacts
  <2>3. fcb' = [fcb EXCEPT ![call.k] = q]
    BY <1>7, <2>1 DEF ReadChunk, Part
  <2>4. q.open
    BY <2>1 DEF Advance, FcbRecords
  <2> HIDE DEF q
  <2>5. /\ call'.op = "read" /\ call'.at = "" /\ call'.k = call.k
        /\ call'.bytes = call.bytes \o Taken /\ call'.n = call.n - Part
    BY <1>0, <2>1, <2>2 DEF CallRecords
  <2>6. Cur' = q
    BY <1>0, <2>1, <2>3, <2>5 DEF Cur
  <2> QED
    BY <2>2, <2>4, <2>5, <2>6 DEF Working
<1>8. CASE WriteFirst
  <2>1. /\ call.k \in Fcbs /\ Cur \in FcbRecords /\ Cur.open /\ fcb[call.k] = Cur
        /\ call.op = "write"
    BY <1>0, <1>8, CurCursor DEF WriteFirst, Cur
  <2>2. PICK c \in Clusters : FirstCluster(c)
    BY <1>8 DEF WriteFirst
  <2> DEFINE q == [Cur EXCEPT !.sclust = c, !.cclust = c, !.sizechg = TRUE]
  <2>3. fcb' = [fcb EXCEPT ![call.k] = q] /\ call' = [call EXCEPT !.at = "loop"]
    BY <1>8, <2>1, <2>2 DEF WriteFirst, FirstCluster, Goto
  <2>4. q.open /\ q.cclust = c
    BY <2>1 DEF FcbRecords
  <2> HIDE DEF q
  <2>5. Cur' = q /\ call'.op = "write" /\ call'.at = "loop"
    BY <1>0, <2>1, <2>3 DEF Cur, CallRecords
  <2> QED
    BY <2>4, <2>5, ClusterFacts DEF Working
<1>9. CASE Grow
  <2>1. /\ call.k \in Fcbs /\ Cur \in FcbRecords /\ Cur.open /\ call.op = "write"
        /\ Cur.cclust \in Clusters /\ Cur.csect = Spc /\ fat[Cur.cclust] = Eoc
    BY <1>9, CurCursor, WriteThere DEF Grow, WriteMore, AtChainEnd, Link
  <2>2. PICK c \in Clusters : Alloc(c) /\ call' = [call EXCEPT !.at = "link", !.c = c]
    BY <1>9 DEF Grow
  <2>3. /\ call'.op = "write" /\ call'.at = "link" /\ call'.k = call.k /\ UNCHANGED fcb
    BY <1>0, <1>9, <2>1, <2>2 DEF Grow, CallRecords
  <2>4. Cur' = Cur
    BY <2>3 DEF Cur
  <2>5. fat'[Cur.cclust] = Eoc
    BY <1>0, <2>1, <2>2 DEF Alloc
  <2> QED
    BY <2>1, <2>3, <2>4, <2>5, ClusterFacts DEF Working
<1>10. CASE LinkNew
  <2>1. /\ call.k \in Fcbs /\ Cur \in FcbRecords /\ Cur.open /\ call.op = "write"
        /\ fcb[call.k] = Cur /\ call.c \in Clusters
    BY <1>10, CurCursor DEF LinkNew, IInv, CallHolds, Orphan, Cur
  <2> DEFINE q == [Cur EXCEPT !.cclust = call.c, !.csect = 0]
  <2>2. fcb' = [fcb EXCEPT ![call.k] = q] /\ call' = [call EXCEPT !.at = "loop"]
    BY <1>10, <2>1 DEF LinkNew, Goto
  <2>3. q.open /\ q.cclust = call.c
    BY <2>1 DEF FcbRecords
  <2> HIDE DEF q
  <2>4. Cur' = q /\ call'.op = "write" /\ call'.at = "loop"
    BY <1>0, <2>1, <2>2 DEF Cur, CallRecords
  <2> QED
    BY <2>1, <2>3, <2>4, ClusterFacts DEF Working
<1>11. CASE WriteChunk
  <2>1. /\ call.k \in Fcbs /\ Cur \in FcbRecords /\ Cur.open /\ Cur.cclust \in Clusters
        /\ fcb[call.k] = Cur /\ call.op = "write" /\ call.at = "loop"
    BY <1>11, CurCursor, WriteThere DEF WriteChunk, WriteMore, Cur
  <2> DEFINE r == [Cur EXCEPT !.iobuf = Patched(Cur, Chunk)]
             q == Grown(Advance(r, Len(Chunk)))
  <2>2. fcb' = [fcb EXCEPT ![call.k] = q]
        /\ \E b : call' = [call EXCEPT !.bytes = b]
    BY <1>11, <2>1 DEF WriteChunk
  <2>3. q.open /\ q.cclust = Cur.cclust
    <3>1. r.open /\ r.cclust = Cur.cclust /\ {"open", "cclust"} \subseteq DOMAIN r
      BY <2>1 DEF FcbRecords
    <3> HIDE DEF r
    <3> QED
      BY <3>1 DEF Grown, Advance
  <2> HIDE DEF q
  <2>4. Cur' = q /\ call'.op = "write" /\ call'.at = "loop"
    BY <1>0, <2>1, <2>2 DEF Cur, CallRecords
  <2> QED
    BY <2>1, <2>3, <2>4, ClusterFacts DEF Working
<1>20. CASE CloseSize
  <2>1. UNCHANGED fcb /\ call.op = "close" /\ ~Cur.open /\ Cur.file \in Files
        /\ call' = [call EXCEPT !.at = "trim"]
        /\ dirent' = [dirent EXCEPT ![Cur.file] = [clust |-> Cur.sclust,
                                                   size |-> Cur.fsize]]
    BY <1>0, <1>20 DEF CloseSize, Working, CallOK, Goto
  <2>2. call'.op = "close" /\ call'.at = "trim" /\ call'.k = call.k
    BY <1>0, <2>1 DEF CallRecords
  <2>3. Cur' = Cur
    BY <2>1, <2>2 DEF Cur
  <2>4. dirent'[Cur.file] = [clust |-> Cur.sclust, size |-> Cur.fsize]
    BY <2>1, PartsOf DEF EntriesOK
  <2> QED
    BY <2>1, <2>2, <2>3, <2>4 DEF Working
<1>12. CASE CloseFails \/ Trim
  <2>1. UNCHANGED fcb /\ call.op = "close" /\ ~Cur.open
    BY <1>0, <1>12 DEF CloseFails, Trim, Working
  <2>2. PICK place \in {"flush", "free"} :
          \E c : \/ call' = [call EXCEPT !.at = place]
                 \/ call' = [call EXCEPT !.at = place, !.c = c]
    BY <1>12 DEF CloseFails, Trim, Goto, Free
  <2>3. call'.op = "close" /\ call'.at \in {"flush", "free"} /\ call'.k = call.k
    BY <1>0, <2>1, <2>2 DEF CallRecords
  <2> QED
    BY <2>1, <2>3 DEF Working, Cur
<1>13. CASE TrimAll
  <2>1. call.op = "close" /\ call.k \in Fcbs /\ ~fcb[call.k].open
    BY <1>0, <1>13 DEF TrimAll, Working, CallOK, Cur
  <2>2. PICK place \in {"flush", "free"} :
          \E c : \/ call' = [call EXCEPT !.at = place]
                 \/ call' = [call EXCEPT !.at = place, !.c = c]
    BY <1>13 DEF TrimAll, Goto, Free
  <2>3. call'.op = "close" /\ call'.at \in {"flush", "free"} /\ call'.k = call.k
    BY <1>0, <2>1, <2>2 DEF CallRecords
  <2>4. UNCHANGED fcb \/ fcb' = [fcb EXCEPT ![call.k].sclust = 0]
    BY <1>13 DEF TrimAll
  <2>5. ~fcb'[call.k].open
    BY <1>0, <2>1, <2>4 DEF FcbRecords
  <2> QED
    BY <2>3, <2>5 DEF Working, Cur
<1>14. CASE FreeOne
  <2>1. UNCHANGED fcb /\ call.op \in {"close", "delete"}
    BY <1>0, <1>14 DEF FreeOne, CallOK
  <2>2. PICK place \in {"flush", "free"} :
          \E c : \/ call' = [call EXCEPT !.at = place]
                 \/ call' = [call EXCEPT !.at = place, !.c = c]
    BY <1>14 DEF FreeOne, Goto, Free
  <2>3. call'.op = call.op /\ call'.at \in {"flush", "free"} /\ call'.k = call.k
    BY <1>0, <2>2 DEF CallRecords
  <2> QED
    BY <1>0, <2>1, <2>3 DEF Working, Cur
<1>15. CASE FreeFails
  <2>1. CASE call.op = "close"
    <3>1. call' = [call EXCEPT !.at = "flush"] /\ UNCHANGED fcb
      BY <1>15, <2>1 DEF FreeFails, Goto
    <3>2. call'.op = "close" /\ call'.at = "flush" /\ call'.k = call.k
      BY <1>0, <2>1, <3>1 DEF CallRecords
    <3> QED
      BY <1>0, <2>1, <3>1, <3>2 DEF Working, Cur
  <2> QED
    BY <1>3, <1>15, <2>1 DEF FreeFails
<1>16. CASE \/ ReadFails \/ ReadDone \/ WriteFirstFails \/ WriteSectorFails \/ GrowFull
            \/ LinkFails \/ WriteChunkFails \/ WriteDone \/ FlushLast \/ FlushFails
  BY <1>3, <1>16 DEF ReadFails, ReadDone, WriteFirstFails, WriteSectorFails, GrowFull,
     LinkFails, WriteChunkFails, WriteDone, FlushLast, FlushFails
<1>17. CASE Sync \/ UNCHANGED state
  BY <1>2, <1>17 DEF Sync, state
<1>18. CASE Crash
  BY <1>1, <1>18 DEF Crash, Idle
<1> QED
  BY <1>5, <1>6, <1>7, <1>8, <1>9, <1>10, <1>11, <1>12, <1>13, <1>14, <1>15, <1>16, <1>17,
     <1>18, <1>20 DEF Step, Kernel

\* Every step keeps the cursors, up to the limit that Either states.
LEMMA CursorStep ==
  ASSUME IInv, IInv', CursorInv, [Step]_state
  PROVE  CursorInv'
<1>1. fat' \in [Clusters -> Links] /\ fat_dur' \in [Clusters -> Links]
  BY DEF IInv, Shape
<1>2. EntriesOK' /\ EntriesLong' /\ Cursors' /\ Working' /\ data' \in [Sectors -> Buffers]
      /\ call' \in CallRecords /\ ret' \in BOOLEAN /\ faults' \in FaultRecords
  BY EntriesStep, EntriesLongStep, CursorsStep, WorkingStep, DataStep, RegistersStep,
     OutcomeStep, FaultsStep
<1> QED
  BY <1>1, <1>2 DEF CursorInv, StateOK, EntriesOK, Cursors, FcbRecords, CallRecords,
     FaultRecords

\* An empty volume.
LEMMA InitCursor ==
  ASSUME Init
  PROVE  CursorInv
<1>1. fat \in [Clusters -> Links] /\ fat_dur \in [Clusters -> Links]
  BY DEF Init, Links
<1>2. EntriesOK /\ EntriesLong /\ Cursors
  BY ClosedCursor, FileConstants DEF Init, EntriesOK, EntriesLong, Cursors, Closed
<1>3. data \in [Sectors -> Buffers]
  BY FileConstants DEF Init, Zeroes, Blank, Buffers
<1>4. call \in CallRecords /\ ret \in BOOLEAN /\ Working
  <2>1. 0 \in 0 .. MaxRequest
    BY FileConstants
  <2> QED
    BY <2>1 DEF Init, Idle, CallRecords, Places, Working
<1>5. faults \in FaultRecords
  <2>1. 0 \in 0 .. MaxReadFaults /\ 0 \in 0 .. MaxWriteFaults /\ 0 \in 0 .. MaxCrashes
    BY FileConstants
  <2> QED
    BY <2>1 DEF Init, FaultRecords
<1> QED
  BY <1>1, <1>2, <1>3, <1>4, <1>5, PartsOf

\* Until both a sector write has failed and the system was restarted.
LEMMA CursorSafe == Spec => [](Either => IInv /\ CursorInv)
<1> DEFINE Inv == Counted /\ (Either => IInv /\ CursorInv)
<1>1. Init => Inv
  BY InitSafe, InitCursor, InitCounted
<1>2. Inv /\ [Next]_vars => Inv'
  BY StepOfNext, CountedStep, EveryStepCounted, NextSafe, CursorStep
<1>3. Inv => (Either => IInv /\ CursorInv)
  OBVIOUS
<1> QED
  BY <1>1, <1>2, <1>3, PTL DEF Spec

\* Before the first restart no cursor leaves its chain.
LEMMA Followed ==
  ASSUME IInv, CursorInv, faults.crash = 0
  PROVE  ~LeaveChain
<1>1. ASSUME NEW f \in Files, dirent[f].size > 0
      PROVE  Reaches(Opened(f, 2), dirent[f].size)
  <2> DEFINE q == Opened(f, 2)
  <2>1. dirent[f] # Absent
    BY <1>1 DEF Absent
  <2>2. q \in FcbRecords /\ Steady(faults, fat, q) /\ q.fsize = dirent[f].size
    BY <2>1, OpenedSteady
  <2> HIDE DEF q
  <2>3. Covered(fat, q) /\ q.fsize \in 1 .. q.fsize
    BY <1>1, <2>2, MaxSizeFact DEF Steady, FcbRecords
  <2>4. Reaches(q, q.fsize)
    BY <2>2, <2>3, CoveredTarget DEF Reaches
  <2> QED
    BY <2>2, <2>4 DEF q
<1>2. ASSUME NEW k \in Fcbs, fcb[k].open, NEW target \in 1 .. fcb[k].fsize
      PROVE  Reaches(fcb[k], target)
  <2>1. fcb[k] \in FcbRecords /\ Covered(fat, fcb[k])
    BY <1>2, CursorsNow DEF Cursors, Steady
  <2> QED
    BY <2>1, CoveredTarget DEF Reaches
<1>3. ASSUME call.op = "read", MoreToRead
      PROVE  GoesOn(Cur)
  <2>1. Cur \in FcbRecords /\ Steady(faults, fat, Cur) /\ Cur.fpos < Cur.fsize
    BY <1>3, CurCursor DEF MoreToRead
  <2> QED
    BY <2>1, NextThere, ResolveSteady DEF GoesOn
<1> QED
  BY <1>1, <1>2, <1>3 DEF LeaveChain

\* Where a cursor has left its chain, the system was restarted.
Strays == adrift \in BOOLEAN /\ (Either /\ adrift => faults.crash > 0)

\* A cursor goes adrift in no other step.
LEMMA StraysStep ==
  ASSUME Counted, Either => IInv /\ CursorInv, Strays, [Next]_vars
  PROVE  Strays'
<1>1. CASE ~adrift /\ adrift' = adrift
  BY <1>1 DEF Strays
<1>2. CASE LeaveChain
  <2>1. adrift' = TRUE /\ faults' = faults
    BY <1>2 DEF LeaveChain, state
  <2>2. Either => faults.crash # 0
    BY <1>2, Followed
  <2>3. Either' => faults'.crash > 0
    BY <2>1, <2>2 DEF Either, Counted
  <2> QED
    BY <2>1, <2>3 DEF Strays
<1>3. CASE UNCHANGED <<adrift, faults>>
  BY <1>3 DEF Strays, Either
<1> QED
  BY <1>1, <1>2, <1>3 DEF Next, Unfollowed, vars

\* Of every state.
LEMMA StraysAlways == Spec => []Strays
<1> DEFINE Inv == Counted /\ (Either => IInv /\ CursorInv)
<1>1. Init => Inv /\ Strays
  BY InitSafe, InitCursor, InitCounted DEF Init, Strays
<1>2. Inv /\ [Next]_vars => Inv'
  BY StepOfNext, CountedStep, EveryStepCounted, NextSafe, CursorStep
<1>3. Inv /\ Strays /\ [Next]_vars => Strays'
  BY StraysStep
<1> QED
  BY <1>1, <1>2, <1>3, PTL DEF Spec

\* The cursor of every open file is on the cluster, sector and byte that its
\* position says, inside the file, for every volume, cluster and sector size,
\* whatever reads, writes, seeks, other files' calls and failures went before.
THEOREM CursorsAlways == Spec => []CursorOK
<1>1. (Either => IInv /\ CursorInv) /\ Strays => CursorOK
  <2> SUFFICES ASSUME Either, IInv, CursorInv, Strays, NEW k \in Fcbs, fcb[k].open
               PROVE  LET r == fcb[k] IN
                 /\ r.fpos <= r.fsize
                 /\ IF r.cclust = 0
                      THEN r.sclust = 0 /\ r.fpos = 0 /\ r.csect = 0 /\ r.boff = 0
                      ELSE /\ r.cclust \in Clusters
                           /\ \E n \in 0 .. LastCluster :
                                /\ r.cclust = Nth(fat, r.sclust, n)
                                /\ r.fpos = n * ClusterBytes + r.csect * SecSize + r.boff
                 /\ r.csect = Spc => r.boff = 0 /\ ~r.iovalid
    BY DEF CursorOK, Strays
  <2>1. fcb[k] \in FcbRecords /\ Steady(faults, fat, fcb[k]) /\ fcb[k].file \in Files
    BY CursorsNow DEF Cursors, IInv, Shape, IsFcb
  <2>2. ASSUME fcb[k].cclust # 0
        PROVE  /\ fcb[k].cclust \in Clusters
               /\ \E n \in 0 .. LastCluster :
                    /\ fcb[k].cclust = Nth(fat, fcb[k].sclust, n)
                    /\ fcb[k].fpos = n * ClusterBytes + fcb[k].csect * SecSize + fcb[k].boff
    <3>1. PICK n \in Nat :
            /\ fcb[k].cclust = Nth(fat, fcb[k].sclust, n)
            /\ fcb[k].fpos = n * ClusterBytes + fcb[k].csect * SecSize + fcb[k].boff
      BY <2>1, <2>2 DEF Steady, Placed
    <3>2. fcb[k].cclust \in Clusters
      BY <2>1, <2>2 DEF FcbRecords
    <3>3. n <= LastCluster - 2
      BY <2>1, <3>1, <3>2, ChainOf
    <3>4. n \in 0 .. LastCluster
      BY <3>3, VolumeConstants
    <3> QED
      BY <3>1, <3>2, <3>4
  <2> QED
    BY <2>1, <2>2 DEF Steady, Placed
<1> QED
  BY <1>1, CursorSafe, StraysAlways, PTL

\* Every variable keeps its form: no cursor leaves the volume, no position and
\* no size exceeds it, no more bytes are read than were asked for, and no
\* register goes astray, up to the limit that Either states.
THEOREM TypesAlways == Spec => [](Either => TypeOK)
<1>1. (Either => IInv /\ CursorInv) /\ Strays => (Either => TypeOK)
  BY DEF CursorInv, Strays, TypeOK
<1> QED
  BY <1>1, CursorSafe, StraysAlways, PTL

-----------------------------------------------------------------------------
(* More about chains.                                                      *)

\* A chain whose clusters keep their links stays as it is, to its end.
LEMMA ChainSame ==
  ASSUME NEW t, NEW u, NEW c,
         \A n \in Nat : Nth(t, c, n) \in Clusters => u[Nth(t, c, n)] = t[Nth(t, c, n)]
  PROVE  \A n \in Nat : Nth(u, c, n) = Nth(t, c, n)
<1> DEFINE Bad == {i \in Nat : Nth(u, c, i) # Nth(t, c, i)}
<1>a. \A i \in Nat : Nth(u, c, i + 1) = Link(u, Nth(u, c, i))
  BY NthStep
<1>b. \A i \in Nat : Nth(t, c, i + 1) = Link(t, Nth(t, c, i))
  BY NthStep
<1> SUFFICES ASSUME Bad # {} PROVE FALSE
  OBVIOUS
<1>1. PICK k \in Bad : \A y \in Bad : k <= y
  <2>1. Bad \in SUBSET Nat
    OBVIOUS
  <2> HIDE DEF Bad
  <2> QED
    BY <2>1, Least
<1>2. k # 0
  BY NthStep
<1> DEFINE j == k - 1
<1>3. j \in Nat /\ j + 1 = k /\ ~(k <= j)
  BY <1>2
<1>4. Nth(u, c, j) = Nth(t, c, j)
  BY <1>1, <1>3
<1>c. Nth(u, c, k) # Nth(t, c, k)
  BY <1>1
<1> HIDE DEF j, Bad
<1>5. Nth(u, c, k) = Link(u, Nth(u, c, j)) /\ Nth(t, c, k) = Link(t, Nth(t, c, j))
  BY <1>3, <1>a, <1>b
<1>7. Link(u, Nth(t, c, j)) = Link(t, Nth(t, c, j))
  BY <1>3 DEF Link
<1> QED
  BY <1>4, <1>5, <1>7, <1>c

\* The rest of a chain is a chain.
LEMMA ChainShift ==
  ASSUME NEW t, NEW c, NEW m \in Nat
  PROVE  \A n \in Nat : Nth(t, c, m + n) = Nth(t, Nth(t, c, m), n)
<1> DEFINE d == Nth(t, c, m)
           Bad == {i \in Nat : Nth(t, c, m + i) # Nth(t, d, i)}
<1> SUFFICES ASSUME Bad # {} PROVE FALSE
  OBVIOUS
<1>1. PICK k \in Bad : \A y \in Bad : k <= y
  <2>1. Bad \in SUBSET Nat
    OBVIOUS
  <2> HIDE DEF Bad
  <2> QED
    BY <2>1, Least
<1>2. k # 0
  <2>1. Nth(t, d, 0) = d
    BY NthStep
  <2> QED
    BY <2>1
<1> DEFINE j == k - 1
<1>3. j \in Nat /\ j + 1 = k /\ ~(k <= j) /\ m + j \in Nat /\ m + k = (m + j) + 1
  BY <1>2
<1>4. Nth(t, c, m + j) = Nth(t, d, j)
  BY <1>1, <1>3
<1>a. Nth(t, c, m + k) # Nth(t, d, k)
  BY <1>1
<1> HIDE DEF j, d, Bad
<1> DEFINE i == m + j
<1>5. Nth(t, c, i + 1) = Link(t, Nth(t, c, i))
  <2>1. i \in Nat
    BY <1>3
  <2> HIDE DEF i
  <2> QED
    BY <2>1, NthStep
<1>6. Nth(t, d, j + 1) = Link(t, Nth(t, d, j))
  BY <1>3, NthStep
<1> QED
  BY <1>3, <1>4, <1>5, <1>6, <1>a

\* After its end a chain stays ended.
LEMMA ChainEnds ==
  ASSUME NEW t, NEW c, NEW m \in Nat, Nth(t, c, m) \notin Clusters,
         NEW n \in Nat, m <= n
  PROVE  Nth(t, c, n) \notin Clusters
<1>1. m \in 0 .. n
  OBVIOUS
<1> QED
  BY <1>1, ChainPrefix
-----------------------------------------------------------------------------
(* Lost clusters.                                                          *)

\* Nothing has failed.
Clean == faults = [read |-> 0, write |-> 0, crash |-> 0]

\* The chain from c is as long as a file of this size needs it.
Tight(t, c, size) ==
  \A n \in Nat : Nth(t, c, n) \in Clusters <=> n * ClusterBytes < size

\* file_write has linked a cluster in which nothing is written yet.
Pending(k) == /\ call.op = "write" /\ call.at = "loop" /\ call.k = k
              /\ call.bytes # <<>>
              /\ fcb[k].fpos = fcb[k].fsize /\ fcb[k].csect # Spc

Closing(k, places) == call.op = "close" /\ call.k = k /\ call.at \in places

\* The FCB is ahead of the directory entry or the chain.
Unsettled(k) == \/ fcb[k].sizechg /\ (fcb[k].open \/ Closing(k, {"size", "trim"}))
                \/ Pending(k)

\* The entries of the other files are right.
Settled == \A f \in Files :
  dirent[f] # Absent /\ (\A k \in OpenOn(f) : ~Unsettled(k))
    => Tight(fat, dirent[f].clust, dirent[f].size)

\* What an entry and the FCBs of its file say of each other.
Paired(k) ==
  LET e == dirent[fcb[k].file]
  IN  /\ e.clust \in {0, fcb[k].sclust}
      /\ ~fcb[k].sizechg => e = [clust |-> fcb[k].sclust, size |-> fcb[k].fsize]
      /\ fcb[k].sizechg => fcb[k].open \/ Closing(k, {"size", "trim", "free", "flush"})
      /\ Closing(k, {"size", "trim", "free", "flush"}) => fcb[k].sizechg
      /\ Closing(k, {"size", "trim"}) => Covered(fat, fcb[k])
      /\ Closing(k, {"trim", "free", "flush"}) =>
           e = [clust |-> fcb[k].sclust, size |-> fcb[k].fsize]

AllPaired == \A k \in Fcbs : fcb[k].file \in Files => Paired(k)

\* A cluster in use belongs to a file, or to the call in progress.
InFile(c) == \E f \in Files : \E h \in Heads[f] : \E n \in Nat : Nth(fat, h, n) = c

Held(c) ==
  \/ InFile(c)
  \/ call.at = "link" /\ c = call.c
  \/ call.at = "free" /\ \E n \in Nat : Nth(fat, call.c, n) = c

LostInv ==
  /\ Settled /\ AllPaired
  /\ \A c \in Clusters : fat[c] # 0 => Held(c)
  /\ call.at = "link" => call.bytes # <<>> /\ Cur.fpos = Cur.fsize
\* Nothing fails and nothing is restarted in a step that leaves it so.
LEMMA CleanStep ==
  ASSUME Clean, Clean'
  PROVE  ~Fault /\ ~ReadFault /\ ~WriteFault /\ ~Crash
BY DEF Clean, Fault, ReadFault, WriteFault, Crash

\* The chain an entry names is a chain of its file.
LEMMA EntryChain ==
  ASSUME IInv, NEW g \in Files, NEW n \in Nat, Nth(fat, dirent[g].clust, n) \in Clusters
  PROVE  /\ dirent[g].clust \in Heads[g]
         /\ fat[Nth(fat, dirent[g].clust, n)] # 0
<1> DEFINE c == dirent[g].clust
<1>1. c \in Clusters
  <2>1. Nth(fat, c, n) \in Clusters
    OBVIOUS
  <2> HIDE DEF c
  <2>2. Nth(fat, c, 0) \in Clusters
    BY <2>1, ChainPrefix
  <2> QED
    BY <2>2, NthStep
<1>2. c \in Heads[g]
  BY <1>1 DEF Heads, EntryHeads
<1>3. Nth(fat, c, n) \in Clusters /\ Sole(fat, Heads)
  BY DEF IInv, FatSole
<1> HIDE DEF c
<1>4. fat[Nth(fat, c, n)] # 0
  BY <1>2, <1>3, ChainUsed
<1> QED
  BY <1>2, <1>4 DEF c

\* It meets no chain of another file.
LEMMA EntryApart ==
  ASSUME IInv, NEW g \in Files, NEW f \in Files, f # g, NEW h \in Heads[f],
         NEW n \in Nat, NEW m \in Nat, Nth(fat, dirent[g].clust, n) \in Clusters
  PROVE  Nth(fat, dirent[g].clust, n) # Nth(fat, h, m)
<1> DEFINE c == dirent[g].clust
<1>1. c \in Heads[g] /\ Nth(fat, c, n) \in Clusters /\ Sole(fat, Heads)
      /\ \A x \in Files : Heads[x] \subseteq Clusters
  BY EntryChain, HeadsType DEF IInv, FatSole
<1> HIDE DEF c
<1>2. Nth(fat, c, n) # Nth(fat, h, m)
  BY <1>1, ChainsApart
<1> QED
  BY <1>2 DEF c

\* A chain whose links are kept is as long as before.
LEMMA TightKept ==
  ASSUME NEW t, NEW u, NEW c, NEW size, Tight(t, c, size),
         \A n \in Nat : Nth(t, c, n) \in Clusters => u[Nth(t, c, n)] = t[Nth(t, c, n)]
  PROVE  Tight(u, c, size)
<1>1. \A n \in Nat : Nth(u, c, n) = Nth(t, c, n)
  BY ChainSame
<1> QED
  BY <1>1 DEF Tight

\* An empty file has no chain.
LEMMA TightEmpty ==
  ASSUME NEW t
  PROVE  Tight(t, 0, 0)
<1>1. Nth(t, 0, 0) \notin Clusters
  BY NthStep, ClusterFacts
<1>2. ASSUME NEW n \in Nat
      PROVE  Nth(t, 0, n) \notin Clusters /\ ~(n * ClusterBytes < 0)
  BY <1>1, ChainEnds, SizeFacts
<1> QED
  BY <1>2 DEF Tight

\* A chain that ends with the cluster of the last byte.
LEMMA TightTrim ==
  ASSUME NEW t, NEW c, NEW size \in Nat, NEW m \in Nat,
         Nth(t, c, m) \in Clusters, Nth(t, c, m + 1) \notin Clusters,
         m * ClusterBytes < size, size <= (m + 1) * ClusterBytes
  PROVE  Tight(t, c, size)
<1>1. ASSUME NEW n \in Nat, n <= m
      PROVE  Nth(t, c, n) \in Clusters /\ n * ClusterBytes < size
  <2>1. n \in 0 .. m
    BY <1>1
  <2>2. n * ClusterBytes <= m * ClusterBytes /\ n * ClusterBytes \in Nat
        /\ m * ClusterBytes \in Nat
    BY <1>1, SizeFacts
  <2> QED
    BY <2>1, <2>2, ChainPrefix
<1>2. ASSUME NEW n \in Nat, ~(n <= m)
      PROVE  Nth(t, c, n) \notin Clusters /\ ~(n * ClusterBytes < size)
  <2>1. m + 1 \in Nat /\ m + 1 <= n
    BY <1>2
  <2>2. (m + 1) * ClusterBytes <= n * ClusterBytes /\ n * ClusterBytes \in Nat
        /\ (m + 1) * ClusterBytes \in Nat
    BY <2>1, SizeFacts
  <2>3. Nth(t, c, n) \notin Clusters
    <3> DEFINE j == m + 1
    <3>1. j \in Nat /\ j <= n /\ Nth(t, c, j) \notin Clusters
      BY <2>1
    <3> HIDE DEF j
    <3> QED
      BY <3>1, ChainEnds
  <2> QED
    BY <2>2, <2>3
<1> QED
  BY <1>1, <1>2 DEF Tight

\* Chains that only grow keep what is in them.
LEMMA InFileGrows ==
  ASSUME \A d \in Clusters : fat[d] \in Clusters => fat'[d] = fat[d],
         \A f \in Files : Heads[f] \subseteq Heads'[f],
         NEW c \in Clusters, InFile(c)
  PROVE  InFile(c)'
<1>1. PICK f \in Files : \E h \in Heads[f] : \E n \in Nat : Nth(fat, h, n) = c
  BY DEF InFile
<1>2. PICK h \in Heads[f] : \E n \in Nat : Nth(fat, h, n) = c
  BY <1>1
<1>3. PICK n \in Nat : Nth(fat, h, n) = c
  BY <1>2
<1>4. Nth(fat', h, n) = c
  BY <1>3, ChainGrows
<1> QED
  BY <1>1, <1>2, <1>4 DEF InFile

\* A step that leaves the FAT alone and takes no head away.
LEMMA StillHeld ==
  ASSUME LostInv, UNCHANGED fat, \A f \in Files : Heads[f] \subseteq Heads'[f],
         call.at \notin {"link", "free"}
  PROVE  \A c \in Clusters : fat'[c] # 0 => Held(c)'
<1> SUFFICES ASSUME NEW c \in Clusters, fat[c] # 0 PROVE Held(c)'
  OBVIOUS
<1>1. InFile(c)
  BY DEF LostInv, Held
<1>2. InFile(c)'
  BY <1>1, InFileGrows
<1> QED
  BY <1>2 DEF Held

\* A step that changes neither the FAT nor an entry, only cursors.
LEMMA QuietLost ==
  ASSUME LostInv, UNCHANGED <<fat, dirent>>,
         \A k \in Fcbs : /\ fcb'[k].file = fcb[k].file /\ fcb'[k].sclust = fcb[k].sclust
                         /\ fcb'[k].sizechg = fcb[k].sizechg
                         /\ fcb'[k].fsize = fcb[k].fsize /\ fcb'[k].open = fcb[k].open
                         /\ Pending(k) => Pending(k)',
         call.op # "close", call'.op # "close",
         call.at \notin {"link", "free"}, call'.at # "link"
  PROVE  LostInv'
<1>1. Heads' = Heads
  BY SameHeads
<1>2. \A k \in Fcbs : \A places : ~Closing(k, places) /\ ~Closing(k, places)'
  BY DEF Closing
<1>3. ASSUME NEW f \in Files, dirent'[f] # Absent, \A k \in OpenOn(f)' : ~Unsettled(k)'
      PROVE  Tight(fat, dirent[f].clust, dirent[f].size)'
  <2>1. \A k \in OpenOn(f) : ~Unsettled(k)
    BY <1>3 DEF OpenOn, Unsettled, Closing
  <2> QED
    BY <1>3, <2>1 DEF LostInv, Settled, Tight
<1>4. AllPaired'
  BY DEF LostInv, AllPaired, Paired, Closing
<1>5. \A c \in Clusters : fat'[c] # 0 => Held(c)'
  BY <1>1, StillHeld
<1> QED
  BY <1>3, <1>4, <1>5 DEF LostInv, Settled

\* A step that changes nothing of all this.
LEMMA SameLost ==
  ASSUME LostInv, UNCHANGED <<fat, dirent, fcb, call>>
  PROVE  LostInv'
BY DEF LostInv, Settled, Unsettled, Pending, Closing, AllPaired, Paired, Held, InFile, Tight,
   Heads, EntryHeads, OpenOn, Cur, Covered

\* Moving the cursor of an FCB leaves what QuietLost asks for.
FcbFields == {"file", "open", "write", "sizechg", "iovalid", "sclust", "cclust",
              "csect", "boff", "fsize", "fpos", "iobuf"}

SameExtent(r, q) == /\ DOMAIN q = FcbFields
                    /\ q.file = r.file /\ q.sclust = r.sclust
                    /\ q.sizechg = r.sizechg /\ q.fsize = r.fsize /\ q.open = r.open

\* One such change after another.
LEMMA ExtentTrans ==
  ASSUME NEW r, NEW q, NEW p, SameExtent(r, q), SameExtent(q, p)
  PROVE  SameExtent(r, p)
BY DEF SameExtent

\* The fields of the cursor and of the buffer.
LEMMA ExtentFields ==
  ASSUME NEW r, DOMAIN r = FcbFields, NEW c, NEW s, NEW b
  PROVE  /\ SameExtent(r, r)
         /\ SameExtent(r, [r EXCEPT !.cclust = c, !.csect = s, !.boff = b])
         /\ SameExtent(r, [r EXCEPT !.fpos = c, !.iovalid = s])
         /\ SameExtent(r, [r EXCEPT !.iobuf = c, !.iovalid = s])
BY SMTT(30) DEF SameExtent, FcbFields

\* _fcb_seek_to moves the cursor.
LEMMA SeekToExtent ==
  ASSUME NEW r, DOMAIN r = FcbFields, NEW target
  PROVE  SameExtent(r, SeekTo(r, target))
BY ZenonT(60), ExtentFields DEF SeekTo

\* So do the operations that only move it or fill the buffer.
LEMMA MovedExtent ==
  ASSUME NEW r \in FcbRecords, NEW b, NEW n, NEW target
  PROVE  /\ SameExtent(r, [Resolve(r) EXCEPT !.iobuf = b, !.iovalid = TRUE])
         /\ SameExtent(r, Advance(r, n))
         /\ SameExtent(r, Sought(r, target))
<1>1. DOMAIN r = FcbFields
  BY DEF FcbRecords, FcbFields
<1>2. DOMAIN Resolve(r) = FcbFields /\ SameExtent(r, Resolve(r))
  BY <1>1 DEF Resolve, SameExtent, FcbFields
<1>3. SameExtent(r, [Resolve(r) EXCEPT !.iobuf = b, !.iovalid = TRUE])
  BY <1>2, ExtentFields, ExtentTrans
<1>4. SameExtent(r, Advance(r, n))
  BY <1>1 DEF Advance, SameExtent, FcbFields
<1>5. SameExtent(r, Sought(r, target))
  <2> DEFINE q == IF target = 0
                    THEN [r EXCEPT !.cclust = r.sclust, !.csect = 0, !.boff = 0]
                    ELSE SeekTo(r, target)
  <2>1. SameExtent(r, q)
    BY <1>1, ExtentFields, SeekToExtent
  <2>2. Sought(r, target) = [q EXCEPT !.fpos = target, !.iovalid = FALSE]
    BY DEF Sought
  <2> HIDE DEF q
  <2>3. DOMAIN q = FcbFields
    BY SMTT(30), <2>1 DEF SameExtent
  <2>4. SameExtent(q, [q EXCEPT !.fpos = target, !.iovalid = FALSE])
    BY <2>3, ExtentFields
  <2> QED
    BY SMTT(30), <2>1, <2>2, <2>4, ExtentTrans
<1> QED
  BY <1>3, <1>4, <1>5

\* One FCB is changed so.
LEMMA OneExtent ==
  ASSUME CursorInv, NEW k \in Fcbs, NEW r, SameExtent(fcb[k], r),
         fcb' = [fcb EXCEPT ![k] = r]
  PROVE  \A l \in Fcbs : SameExtent(fcb[l], fcb'[l])
<1>1. fcb \in [Fcbs -> FcbRecords]
  BY CursorsNow DEF Cursors
<1>2. \A l \in Fcbs : DOMAIN fcb[l] = FcbFields
  BY <1>1 DEF FcbRecords, FcbFields
<1>3. \A l \in Fcbs : SameExtent(fcb[l], fcb[l])
  BY <1>2 DEF SameExtent
<1>4. ASSUME NEW l \in Fcbs
      PROVE  SameExtent(fcb[l], fcb'[l])
  <2>1. CASE l = k
    BY <1>1, <2>1
  <2>2. CASE l # k
    BY <1>1, <1>3, <2>2
  <2> QED
    BY <2>1, <2>2
<1> QED
  BY <1>4

\* None is.
LEMMA NoExtent ==
  ASSUME CursorInv, UNCHANGED fcb
  PROVE  \A l \in Fcbs : SameExtent(fcb[l], fcb'[l])
<1>1. fcb \in [Fcbs -> FcbRecords]
  BY CursorsNow DEF Cursors
<1> QED
  BY <1>1 DEF SameExtent, FcbRecords, FcbFields

\* file_seek, and the beginning of a read or a write.
LEMMA CallLost ==
  ASSUME IInv, CursorInv, LostInv, Clean, Clean', NEW k \in Fcbs, NEW x,
         SeekCall(k, x) \/ ReadCall(k, x) \/ WriteCall(k, x)
  PROVE  LostInv'
<1>0. ~Fault /\ call.op = "idle" /\ UNCHANGED <<fat, dirent>>
  BY CleanStep DEF SeekCall, ReadCall, WriteCall, Start
<1>1. /\ call.at = "" /\ \A l \in Fcbs : ~Pending(l)
  BY <1>0 DEF IInv, CallOK, Pending
<1>2. /\ call'.op \in {"idle", "read", "write"} /\ call'.at # "link"
  BY <1>0, <1>1 DEF SeekCall, ReadCall, WriteCall, Start, Idle
<1>3. \A l \in Fcbs : SameExtent(fcb[l], fcb'[l])
  <2>1. CASE UNCHANGED fcb
    BY <2>1, NoExtent
  <2>2. CASE SeekCall(k, x) /\ ~UNCHANGED fcb
    <3>1. fcb' = [fcb EXCEPT ![k] = Sought(fcb[k], x)]
      BY <2>2 DEF SeekCall
    <3>2. SameExtent(fcb[k], Sought(fcb[k], x))
      BY CursorsNow, MovedExtent DEF Cursors
    <3> QED
      BY <3>1, <3>2, OneExtent
  <2>3. CASE WriteCall(k, x)
    <3> DEFINE q == [fcb[k] EXCEPT !.write = TRUE]
    <3>1. fcb' = [fcb EXCEPT ![k] = q]
      BY <2>3 DEF WriteCall
    <3>2. SameExtent(fcb[k], q)
      BY CursorsNow DEF Cursors, FcbRecords, SameExtent, FcbFields
    <3> HIDE DEF q
    <3> QED
      BY <3>1, <3>2, OneExtent
  <2> QED
    BY <2>1, <2>2, <2>3 DEF ReadCall
<1> QED
  BY <1>0, <1>1, <1>2, <1>3, QuietLost DEF SameExtent

\* file_read.
LEMMA ReadLost ==
  ASSUME IInv, CursorInv, LostInv, Clean, Clean',
         ReadSector \/ ReadFails \/ ReadChunk \/ ReadDone
  PROVE  LostInv'
<1>0. ~ReadFails /\ call.op = "read" /\ UNCHANGED <<fat, dirent>>
  BY CleanStep DEF ReadSector, ReadFails, ReadChunk, ReadDone
<1>1. call.at = "" /\ call.k \in Fcbs /\ \A l \in Fcbs : ~Pending(l)
  BY <1>0 DEF IInv, CallOK, Pending
<1>2. Cur \in FcbRecords /\ Cur = fcb[call.k]
  BY <1>1, CursorsNow DEF Cursors, Cur
<1>3. call'.op \in {"idle", "read"} /\ call'.at = ""
  <2>1. DOMAIN call = {"op", "at", "k", "f", "n", "bytes", "c"}
    BY DEF IInv, Shape
  <2>2. CASE ReadSector
    BY <1>0, <1>1, <2>2 DEF ReadSector
  <2>3. CASE ReadChunk
    BY <1>0, <1>1, <2>1, <2>3 DEF ReadChunk
  <2>4. CASE ReadDone
    BY <2>4 DEF ReadDone, Return, Idle
  <2> QED
    BY <1>0, <2>2, <2>3, <2>4
<1>4. \A l \in Fcbs : SameExtent(fcb[l], fcb'[l])
  <2>1. CASE ReadSector
    <3> DEFINE r == [Resolve(Cur) EXCEPT !.iobuf = data[SectorOf(Resolve(Cur))],
                                         !.iovalid = TRUE]
    <3>1. fcb' = [fcb EXCEPT ![call.k] = r]
      BY <2>1 DEF ReadSector
    <3>2. SameExtent(Cur, r)
      BY <1>2, MovedExtent
    <3> HIDE DEF r
    <3> QED
      BY <1>1, <1>2, <3>1, <3>2, OneExtent
  <2>2. CASE ReadChunk
    <3>1. PICK n : fcb' = [fcb EXCEPT ![call.k] = Advance(Cur, n)]
      BY <1>2, <2>2 DEF ReadChunk
    <3>2. SameExtent(Cur, Advance(Cur, n))
      BY <1>2, MovedExtent
    <3> QED
      BY <1>1, <1>2, <3>1, <3>2, OneExtent
  <2>3. CASE ReadDone
    BY <2>3, NoExtent DEF ReadDone
  <2> QED
    BY <1>0, <2>1, <2>2, <2>3
<1> QED
  BY <1>0, <1>1, <1>3, <1>4, QuietLost DEF SameExtent

\* The steps of file_write that change no extent.
LEMMA WriteQuietLost ==
  ASSUME IInv, CursorInv, LostInv, Clean, Clean',
         \/ WriteSector \/ WriteSectorFails \/ WriteChunkFails \/ LinkFails
         \/ WriteFirstFails \/ GrowFull \/ WriteDone
  PROVE  LostInv'
<1>0. /\ ~WriteSectorFails /\ ~WriteChunkFails /\ ~LinkFails
      /\ call.op = "write" /\ call.at \in {"first", "loop"} /\ UNCHANGED <<fat, dirent>>
  BY CleanStep DEF WriteSector, WriteSectorFails, WriteChunkFails, LinkFails,
     WriteFirstFails, GrowFull, WriteDone, WriteMore
<1>1. call.k \in Fcbs /\ Cur \in FcbRecords /\ Cur = fcb[call.k]
  BY <1>0, CurCursor DEF Cur
<1>2. CASE WriteSector
  <2> DEFINE r == [Resolve(Cur) EXCEPT !.iobuf = data[SectorOf(Resolve(Cur))],
                                       !.iovalid = TRUE]
  <2>1. fcb' = [fcb EXCEPT ![call.k] = r] /\ UNCHANGED call
    BY <1>2 DEF WriteSector
  <2>2. SameExtent(Cur, r)
    BY <1>1, MovedExtent
  <2>3. ASSUME Cur.csect # Spc
        PROVE  r.csect # Spc /\ r.fpos = Cur.fpos
    BY <1>1, <2>3 DEF Resolve, FcbRecords
  <2> HIDE DEF r
  <2>4. \A l \in Fcbs : SameExtent(fcb[l], fcb'[l])
    BY <1>1, <2>1, <2>2, OneExtent
  <2>5. ASSUME NEW l \in Fcbs, Pending(l)
        PROVE  Pending(l)'
    <3>1. l = call.k /\ Cur.fpos = Cur.fsize /\ Cur.csect # Spc
      BY <1>1, <2>5 DEF Pending
    <3>2. fcb \in [Fcbs -> FcbRecords]
      BY CursorsNow DEF Cursors
    <3>3. fcb'[l] = r
      BY <1>1, <2>1, <3>1, <3>2
    <3> QED
      BY <2>1, <2>2, <2>3, <2>5, <3>1, <3>3 DEF Pending, SameExtent
  <2> QED
    BY <1>0, <2>1, <2>4, <2>5, QuietLost DEF SameExtent
<1>3. CASE WriteFirstFails \/ GrowFull \/ WriteDone
  <2>1. UNCHANGED fcb /\ call' = Idle
    BY <1>3, CleanStep DEF WriteFirstFails, GrowFull, WriteDone, Return
  <2>2. \A l \in Fcbs : ~Pending(l)
    BY <1>3 DEF WriteFirstFails, GrowFull, WriteDone, AtChainEnd, Cur, Pending
  <2> QED
    BY <1>0, <2>1, <2>2, QuietLost DEF Idle
<1> QED
  BY <1>0, <1>2, <1>3

\* A chunk written at the end changes the size, and the FCB says so.
LEMMA ChunkLost ==
  ASSUME IInv, CursorInv, LostInv, WriteChunk
  PROVE  LostInv'
<1>0. /\ call.op = "write" /\ call.at = "loop" /\ WriteMore /\ Cur.iovalid
      /\ UNCHANGED <<fat, dirent>>
  BY DEF WriteChunk, WriteMore
<1>1. call.k \in Fcbs /\ Cur \in FcbRecords /\ Cur = fcb[call.k] /\ Cur.open
  BY <1>0, CurCursor DEF Cur
<1> DEFINE r == [Cur EXCEPT !.iobuf = Patched(Cur, Chunk)]
           p == Advance(r, Len(Chunk))
           q == Grown(p)
<1>2. fcb' = [fcb EXCEPT ![call.k] = q]
  BY <1>1 DEF WriteChunk
<1>3. Len(Chunk) \in Nat
  BY <1>0, ChunkFacts
<1>4. /\ p.file = Cur.file /\ p.sclust = Cur.sclust /\ p.fsize = Cur.fsize
      /\ p.open = Cur.open /\ p.sizechg = Cur.sizechg /\ p.fpos = Cur.fpos + Len(Chunk)
      /\ {"file", "sclust", "fsize", "open", "sizechg", "fpos"} \subseteq DOMAIN p
  BY <1>1 DEF Advance, FcbRecords
<1> HIDE DEF p
<1>5. /\ q.file = Cur.file /\ q.sclust = Cur.sclust /\ q.open = Cur.open
      /\ Cur.sizechg => q.sizechg
      /\ ~q.sizechg => q.fsize = Cur.fsize /\ Cur.fpos # Cur.fsize
  <2>1. Cur.fpos \in Nat /\ Cur.fsize \in Nat
    BY <1>1, MaxSizeFact DEF FcbRecords
  <2>2. CASE p.fpos >= p.fsize
    <3>1. q = [p EXCEPT !.fsize = p.fpos, !.sizechg = TRUE]
      BY <2>2 DEF Grown
    <3> QED
      BY <1>4, <3>1
  <2>3. CASE ~(p.fpos >= p.fsize)
    <3>1. q = p
      BY <2>3 DEF Grown
    <3>2. Cur.fpos # Cur.fsize
      BY <1>3, <1>4, <2>1, <2>3
    <3> HIDE DEF q
    <3> QED
      BY <1>4, <3>1, <3>2
  <2> QED
    BY <2>2, <2>3
<1> HIDE DEF q
<1>6. fcb \in [Fcbs -> FcbRecords]
  BY CursorsNow DEF Cursors
<1>7. /\ fcb'[call.k] = q /\ \A l \in Fcbs : l # call.k => fcb'[l] = fcb[l]
  BY <1>1, <1>2, <1>6
<1>8. /\ call'.op = "write" /\ call'.at = "loop" /\ call'.k = call.k
  <2>1. DOMAIN call = {"op", "at", "k", "f", "n", "bytes", "c"}
    BY DEF IInv, Shape
  <2> QED
    BY <1>0, <2>1 DEF WriteChunk
<1>9. \A l \in Fcbs : \A places : ~Closing(l, places) /\ ~Closing(l, places)'
  BY <1>0, <1>8 DEF Closing
<1>10. \A l \in Fcbs : fcb'[l].file = fcb[l].file /\ fcb'[l].sclust = fcb[l].sclust
  BY <1>1, <1>5, <1>7
<1>11. Heads' = Heads
  BY <1>0, <1>10, SameHeads
<1>12. \A l \in Fcbs : Unsettled(l) => Unsettled(l)'
  <2>1. ASSUME NEW l \in Fcbs, l # call.k, Unsettled(l)
        PROVE  Unsettled(l)'
    <3>1. ~Pending(l)
      BY <2>1 DEF Pending
    <3>2. fcb[l].sizechg /\ fcb[l].open
      BY <1>9, <2>1, <3>1 DEF Unsettled
    <3> QED
      BY <1>7, <2>1, <3>2 DEF Unsettled
  <2>2. ASSUME NEW l \in Fcbs, l = call.k, Unsettled(l)
        PROVE  Unsettled(l)'
    <3>1. q.sizechg
      BY <1>1, <1>5, <1>9, <2>2 DEF Unsettled, Pending
    <3>2. fcb'[l].sizechg /\ fcb'[l].open
      BY <1>1, <1>5, <1>7, <2>2, <3>1
    <3> QED
      BY <3>2 DEF Unsettled
  <2> QED
    BY <2>1, <2>2
<1>13. Settled'
  <2> SUFFICES ASSUME NEW f \in Files, dirent'[f] # Absent,
                      \A l \in OpenOn(f)' : ~Unsettled(l)'
               PROVE  Tight(fat, dirent[f].clust, dirent[f].size)'
    BY DEF Settled
  <2>1. \A l \in OpenOn(f) : ~Unsettled(l)
    BY <1>10, <1>12 DEF OpenOn
  <2> QED
    BY <1>0, <2>1 DEF LostInv, Settled, Tight
<1>14. AllPaired'
  <2> SUFFICES ASSUME NEW l \in Fcbs, fcb'[l].file \in Files PROVE Paired(l)'
    BY DEF AllPaired
  <2>1. Paired(l)
    BY <1>10 DEF LostInv, AllPaired
  <2>2. CASE l = call.k
    BY <1>0, <1>1, <1>5, <1>7, <1>9, <2>1, <2>2 DEF Paired
  <2>3. CASE l # call.k
    BY <1>0, <1>7, <1>9, <2>1, <2>3 DEF Paired
  <2> QED
    BY <2>2, <2>3
<1>15. \A c \in Clusters : fat'[c] # 0 => Held(c)'
  BY <1>0, <1>11, StillHeld
<1> QED
  BY <1>8, <1>13, <1>14, <1>15 DEF LostInv

\* With no call in progress only an open FCB is ahead of its entry.
LEMMA IdleUnsettled ==
  ASSUME call.op = "idle"
  PROVE  \A k \in Fcbs : /\ Unsettled(k) <=> fcb[k].sizechg /\ fcb[k].open
                         /\ ~Pending(k) /\ \A places : ~Closing(k, places)
BY DEF Unsettled, Pending, Closing

\* file_open: an FCB that agrees with the entry.
LEMMA OpenLost ==
  ASSUME IInv, CursorInv, LostInv, Clean, Clean', NEW k \in Fcbs, NEW f \in Files,
         NEW mode \in 0 .. 2, OpenCall(k, f, mode)
  PROVE  LostInv'
<1>0. /\ call.op = "idle" /\ call.at = "" /\ UNCHANGED <<fat, call>> /\ ~Fault
      /\ fcb[k] = Closed
  BY CleanStep DEF OpenCall, IInv, CallOK
<1>1. fcb \in [Fcbs -> FcbRecords] /\ fcb[k].file = NoFile
  <2>1. Closed.file = NoFile
    BY DEF Closed
  <2> QED
    BY <1>0, <2>1, CursorsNow DEF Cursors
<1>2. /\ \A l \in Fcbs : /\ ~Pending(l) /\ ~Pending(l)'
                         /\ \A places : ~Closing(l, places) /\ ~Closing(l, places)'
  BY <1>0 DEF Pending, Closing
<1>3. CASE OpenFails(f, mode)
  BY <1>0, <1>3, SameLost DEF OpenFails
<1>4. ASSUME NEW r, fcb' = [fcb EXCEPT ![k] = r], r.file = f, r.open,
             dirent'[f] # Absent, \A g \in Files : g # f => dirent'[g] = dirent[g],
             dirent[f] # Absent => dirent'[f] = dirent[f],
             dirent[f] = Absent => dirent'[f] = [clust |-> 0, size |-> 0],
             r.sclust = dirent'[f].clust,
             ~r.sizechg => dirent'[f] = [clust |-> r.sclust, size |-> r.fsize]
      PROVE  LostInv'
  <2>1. fcb'[k] = r /\ \A l \in Fcbs : l # k => fcb'[l] = fcb[l]
    BY <1>1, <1>4
  <2>2. \A g \in Files : k \notin OpenOn(g)
    BY <1>1, FileConstants DEF OpenOn
  <2>3. \A g \in Files : \A l \in OpenOn(g) : l \in OpenOn(g)' /\ fcb'[l] = fcb[l]
    BY <2>1, <2>2 DEF OpenOn
  <2>4. \A g \in Files : Heads[g] \subseteq Heads'[g]
    <3> SUFFICES ASSUME NEW g \in Files, NEW h \in Heads[g] PROVE h \in Heads'[g]
      OBVIOUS
    <3>1. CASE h \in EntryHeads[g]
      <4>1. h = dirent[g].clust /\ h \in Clusters
        BY <3>1 DEF EntryHeads
      <4>2. dirent[g] # Absent
        BY <4>1, ClusterFacts DEF Absent
      <4>3. dirent'[g] = dirent[g]
        BY <1>4, <4>2
      <4> QED
        BY <4>1, <4>3 DEF Heads, EntryHeads
    <3>2. CASE h \notin EntryHeads[g]
      <4>1. PICK l \in OpenOn(g) : h = fcb[l].sclust
        BY <3>2 DEF Heads
      <4>2. h \in Clusters
        BY HeadsType
      <4> QED
        BY <2>3, <4>1, <4>2 DEF Heads
    <3> QED
      BY <3>1, <3>2
  <2>5. \A g \in Files : \A l \in OpenOn(g) : Unsettled(l) => Unsettled(l)'
    <3> SUFFICES ASSUME NEW g \in Files, NEW l \in OpenOn(g), Unsettled(l)
                 PROVE  Unsettled(l)'
      OBVIOUS
    <3>1. l \in Fcbs /\ fcb'[l] = fcb[l]
      BY <2>3 DEF OpenOn
    <3>2. fcb[l].sizechg /\ fcb[l].open
      BY <1>2, <3>1 DEF Unsettled
    <3> QED
      BY <3>1, <3>2 DEF Unsettled
  <2>6. Settled'
    <3> SUFFICES ASSUME NEW g \in Files, dirent'[g] # Absent,
                        \A l \in OpenOn(g)' : ~Unsettled(l)'
                 PROVE  Tight(fat, dirent[g].clust, dirent[g].size)'
      BY DEF Settled
    <3>1. CASE dirent[g] # Absent
      <4>1. dirent'[g] = dirent[g]
        BY <1>4, <3>1
      <4>2. \A l \in OpenOn(g) : ~Unsettled(l)
        BY <2>3, <2>5
      <4> QED
        BY <1>0, <3>1, <4>1, <4>2 DEF LostInv, Settled, Tight
    <3>2. CASE dirent[g] = Absent
      <4>1. dirent'[g] = [clust |-> 0, size |-> 0]
        BY <1>4, <3>2
      <4>2. Tight(fat, 0, 0)
        BY TightEmpty
      <4>3. dirent'[g].clust = 0 /\ dirent'[g].size = 0
        BY <4>1
      <4> QED
        BY <1>0, <4>2, <4>3 DEF Tight
    <3> QED
      BY <3>1, <3>2
  <2>7. AllPaired'
    <3> SUFFICES ASSUME NEW l \in Fcbs, fcb'[l].file \in Files PROVE Paired(l)'
      BY DEF AllPaired
    <3>1. CASE l = k
      BY <1>2, <1>4, <2>1, <3>1 DEF Paired
    <3>2. CASE l # k
      <4>1. fcb'[l] = fcb[l] /\ Paired(l) /\ dirent[fcb[l].file] # Absent
        BY <2>1, <3>2 DEF LostInv, AllPaired, CursorInv
      <4>2. dirent'[fcb[l].file] = dirent[fcb[l].file]
        BY <1>4, <4>1
      <4> QED
        BY <1>2, <4>1, <4>2 DEF Paired
    <3> QED
      BY <3>1, <3>2
  <2>8. \A c \in Clusters : fat'[c] # 0 => Held(c)'
    BY <1>0, <2>4, StillHeld
  <2> QED
    BY <1>0, <2>6, <2>7, <2>8 DEF LostInv
<1>5. CASE OpenNew(k, f, mode)
  <2> DEFINE r == [Closed EXCEPT !.file = f, !.open = TRUE, !.write = TRUE]
  <2>1. /\ fcb' = [fcb EXCEPT ![k] = r] /\ dirent[f] = Absent
        /\ dirent' = [dirent EXCEPT ![f] = [clust |-> 0, size |-> 0]]
        /\ DOMAIN dirent = Files
    BY <1>5 DEF OpenNew, IInv, Shape
  <2>2. r.file = f /\ r.open /\ ~r.sizechg /\ r.sclust = 0 /\ r.fsize = 0
    BY DEF Closed
  <2>3. /\ dirent'[f] = [clust |-> 0, size |-> 0] /\ dirent'[f] # Absent
        /\ \A g \in Files : g # f => dirent'[g] = dirent[g]
    BY <2>1 DEF Absent
  <2> HIDE DEF r
  <2> QED
    BY <1>4, <2>1, <2>2, <2>3
<1>6. CASE OpenExisting(k, f, mode)
  <2> DEFINE q == Opened(f, mode)
             r == IF mode = 2 /\ dirent[f].size > 0
                    THEN [SeekTo(q, dirent[f].size) EXCEPT !.fpos = dirent[f].size]
                    ELSE q
  <2>1. fcb' = [fcb EXCEPT ![k] = r] /\ UNCHANGED dirent /\ dirent[f] # Absent
    BY <1>6 DEF OpenExisting
  <2>2. /\ DOMAIN q = FcbFields /\ q.file = f /\ q.open /\ q.sclust = dirent[f].clust
        /\ q.sizechg = (mode = 1)
        /\ q.fsize = IF mode = 1 THEN 0 ELSE dirent[f].size
    BY DEF Opened, Closed, FcbFields
  <2>3. SameExtent(q, r)
    <3> DEFINE s == SeekTo(q, dirent[f].size)
    <3> HIDE DEF q
    <3>1. SameExtent(q, q) /\ SameExtent(q, s)
      BY <2>2, ExtentFields, SeekToExtent
    <3> HIDE DEF s
    <3>2. SameExtent(q, [s EXCEPT !.fpos = dirent[f].size])
      BY <3>1 DEF SameExtent, FcbFields
    <3> QED
      BY <3>1, <3>2 DEF s
  <2> HIDE DEF q, r
  <2>4. dirent[f] = [clust |-> dirent[f].clust, size |-> dirent[f].size]
    BY <2>1 DEF CursorInv, StateOK
  <2>5. r.file = f /\ r.open /\ r.sclust = dirent[f].clust
        /\ (~r.sizechg => r.fsize = dirent[f].size)
    BY <2>2, <2>3 DEF SameExtent
  <2> QED
    BY <1>4, <2>1, <2>4, <2>5
<1> QED
  BY <1>0, <1>3, <1>5, <1>6 DEF OpenCall, OpenAppendFails

\* file_close begins: an FCB that changed nothing is given up, another one waits
\* for its entry.
LEMMA CloseCallLost ==
  ASSUME IInv, CursorInv, LostInv, faults.crash = 0, NEW k \in Fcbs, CloseCall(k)
  PROVE  LostInv'
<1>0. /\ call.op = "idle" /\ call.at = "" /\ UNCHANGED <<fat, dirent>> /\ fcb[k].open
  BY DEF CloseCall, Start, IInv, CallOK
<1>1. fcb \in [Fcbs -> FcbRecords] /\ fcb[k].file \in Files
  BY <1>0, CursorsNow DEF Cursors, IInv, Shape, IsFcb
<1>2. /\ \A l \in Fcbs : /\ Unsettled(l) <=> fcb[l].sizechg /\ fcb[l].open
                         /\ ~Pending(l) /\ \A places : ~Closing(l, places)
  BY <1>0, IdleUnsettled
<1>3. CASE fcb[k].sizechg
  <2> DEFINE r == [fcb[k] EXCEPT !.open = FALSE]
  <2>1. /\ fcb' = [fcb EXCEPT ![k] = r]
        /\ call'.op = "close" /\ call'.k = k /\ call'.at = "size"
    BY <1>1, <1>3 DEF CloseCall, Start, Idle
  <2>2. /\ r.file = fcb[k].file /\ r.sclust = fcb[k].sclust /\ r.fsize = fcb[k].fsize
        /\ r.sizechg = fcb[k].sizechg /\ ~r.open
    BY <1>1 DEF FcbRecords
  <2> HIDE DEF r
  <2>3. fcb'[k] = r /\ \A l \in Fcbs : l # k => fcb'[l] = fcb[l]
    BY <1>1, <2>1
  <2>4. Heads' = Heads
    BY <1>0, <2>2, <2>3, SameHeads
  <2>5. \A l \in Fcbs : Unsettled(l)' <=> Unsettled(l)
    <3>1. \A l \in Fcbs : ~Pending(l)'
      BY <2>1 DEF Pending
    <3>2. \A l \in Fcbs : Closing(l, {"size", "trim"})' <=> l = k
      BY <2>1 DEF Closing
    <3>3. ASSUME NEW l \in Fcbs
          PROVE  Unsettled(l)' <=> Unsettled(l)
      <4>1. CASE l = k
        BY <1>0, <1>2, <1>3, <2>2, <2>3, <3>2, <4>1 DEF Unsettled
      <4>2. CASE l # k
        BY <1>2, <2>3, <3>1, <3>2, <4>2 DEF Unsettled
      <4> QED
        BY <4>1, <4>2
    <3> QED
      BY <3>3
  <2>6. Settled'
    <3> SUFFICES ASSUME NEW g \in Files, dirent'[g] # Absent,
                        \A l \in OpenOn(g)' : ~Unsettled(l)'
                 PROVE  Tight(fat, dirent[g].clust, dirent[g].size)'
      BY DEF Settled
    <3>1. OpenOn(g)' = OpenOn(g)
      BY <2>2, <2>3 DEF OpenOn
    <3>2. \A l \in OpenOn(g) : ~Unsettled(l)
      BY <2>5, <3>1 DEF OpenOn
    <3> QED
      BY <1>0, <3>2 DEF LostInv, Settled, Tight
  <2>7. AllPaired'
    <3> SUFFICES ASSUME NEW l \in Fcbs, fcb'[l].file \in Files PROVE Paired(l)'
      BY DEF AllPaired
    <3>1. CASE l = k
      <4>1. Covered(fat, fcb[k])
        BY <1>0, CursorsNow DEF Cursors, Steady
      <4>2. Covered(fat', r)
        BY <1>0, <2>2, <4>1 DEF Covered
      <4>3. Paired(k)
        BY <1>1 DEF LostInv, AllPaired
      <4>4. \A places : Closing(k, places)' => "size" \in places
        BY <2>1 DEF Closing
      <4>5. Closing(k, {"size", "trim"})' /\ Closing(k, {"size", "trim", "free", "flush"})'
        BY <2>1 DEF Closing
      <4> QED
        BY <1>0, <1>3, <2>2, <2>3, <3>1, <4>2, <4>3, <4>4, <4>5 DEF Paired
    <3>2. CASE l # k
      <4>1. fcb'[l] = fcb[l] /\ Paired(l) /\ \A places : ~Closing(l, places)'
        BY <2>1, <2>3, <3>2 DEF LostInv, AllPaired, Closing
      <4> QED
        BY <1>0, <1>2, <4>1 DEF Paired
    <3> QED
      BY <3>1, <3>2
  <2>8. \A c \in Clusters : fat'[c] # 0 => Held(c)'
    BY <1>0, <2>4, StillHeld
  <2> QED
    BY <2>1, <2>6, <2>7, <2>8 DEF LostInv
<1>4. CASE ~fcb[k].sizechg
  <2>1. fcb' = [fcb EXCEPT ![k] = Closed] /\ UNCHANGED call
    BY <1>4 DEF CloseCall
  <2>2. fcb'[k] = Closed /\ \A l \in Fcbs : l # k => fcb'[l] = fcb[l]
    BY <1>1, <2>1
  <2>3. Closed.file = NoFile
    BY DEF Closed
  <2>4. dirent[fcb[k].file].clust = fcb[k].sclust
    <3>1. Paired(k)
      BY <1>1 DEF LostInv, AllPaired
    <3>2. dirent[fcb[k].file] = [clust |-> fcb[k].sclust, size |-> fcb[k].fsize]
      BY <1>4, <3>1 DEF Paired
    <3> QED
      BY <3>2
  <2>5. \A g \in Files : Heads[g] \subseteq Heads'[g]
    <3> SUFFICES ASSUME NEW g \in Files, NEW h \in Heads[g] PROVE h \in Heads'[g]
      OBVIOUS
    <3>1. h \in Clusters
      BY HeadsType
    <3>2. CASE h = dirent[g].clust
      BY <1>0, <3>1, <3>2 DEF Heads, EntryHeads
    <3>3. CASE h # dirent[g].clust
      <4>1. PICK l \in OpenOn(g) : h = fcb[l].sclust
        BY <3>3 DEF Heads, EntryHeads
      <4>2. l # k
        BY <2>4, <3>3, <4>1 DEF OpenOn
      <4>3. l \in OpenOn(g)' /\ fcb'[l].sclust = h
        BY <2>2, <4>1, <4>2 DEF OpenOn
      <4> QED
        BY <3>1, <4>3 DEF Heads
    <3> QED
      BY <3>2, <3>3
  <2>6. Settled'
    <3> SUFFICES ASSUME NEW g \in Files, dirent'[g] # Absent,
                        \A l \in OpenOn(g)' : ~Unsettled(l)'
                 PROVE  Tight(fat, dirent[g].clust, dirent[g].size)'
      BY DEF Settled
    <3>1. \A l \in OpenOn(g) : ~Unsettled(l)
      <4> SUFFICES ASSUME NEW l \in OpenOn(g), l # k PROVE ~Unsettled(l)
        BY <1>2, <1>4 DEF OpenOn
      <4>1. l \in OpenOn(g)' /\ fcb'[l] = fcb[l] /\ l \in Fcbs
        BY <2>2 DEF OpenOn
      <4>2. ~Unsettled(l)'
        BY <4>1
      <4> QED
        BY <1>2, <4>1, <4>2 DEF Unsettled
    <3> QED
      BY <1>0, <3>1 DEF LostInv, Settled, Tight
  <2>7. AllPaired'
    <3> SUFFICES ASSUME NEW l \in Fcbs, fcb'[l].file \in Files PROVE Paired(l)'
      BY DEF AllPaired
    <3>1. l # k
      BY <2>2, <2>3, FileConstants
    <3>2. fcb'[l] = fcb[l] /\ Paired(l) /\ \A places : ~Closing(l, places)'
      BY <1>0, <2>1, <2>2, <3>1 DEF LostInv, AllPaired, Closing
    <3> QED
      BY <1>0, <1>2, <3>2 DEF Paired
  <2>8. \A c \in Clusters : fat'[c] # 0 => Held(c)'
    BY <1>0, <2>5, StillHeld
  <2> QED
    BY <1>0, <2>1, <2>6, <2>7, <2>8 DEF LostInv
<1> QED
  BY <1>3, <1>4

\* file_delete: the chain passes from the entry to the call.
LEMMA DeleteLost ==
  ASSUME IInv, CursorInv, LostInv, NEW f \in Files, DeleteCall(f)
  PROVE  LostInv'
<1>0. /\ call.op = "idle" /\ call.at = "" /\ UNCHANGED <<fat, fcb>> /\ OpenOn(f) = {}
  BY DEF DeleteCall, IInv, CallOK
<1>1. CASE UNCHANGED <<dirent, call>>
  BY <1>0, <1>1, SameLost
<1>2. CASE MarkDeleted(f)
  <2>1. /\ \A l \in Fcbs : /\ Unsettled(l) <=> fcb[l].sizechg /\ fcb[l].open
                           /\ ~Pending(l) /\ \A places : ~Closing(l, places)
    BY <1>0, IdleUnsettled
  <2>2. /\ dirent' = [dirent EXCEPT ![f] = Absent] /\ DOMAIN dirent = Files
        /\ call'.op = "delete" /\ call'.c = dirent[f].clust
        /\ call'.at = IF dirent[f].clust = 0 THEN "flush" ELSE "free"
    BY <1>2 DEF MarkDeleted, Idle, IInv, Shape
  <2>3. dirent'[f] = Absent /\ \A g \in Files : g # f => dirent'[g] = dirent[g]
    BY <2>2
  <2>4. \A l \in Fcbs : /\ Unsettled(l)' <=> fcb[l].sizechg /\ fcb[l].open
                        /\ \A places : ~Closing(l, places)'
    BY <1>0, <2>2 DEF Unsettled, Pending, Closing
  <2>5. Settled'
    <3> SUFFICES ASSUME NEW g \in Files, dirent'[g] # Absent,
                        \A l \in OpenOn(g)' : ~Unsettled(l)'
                 PROVE  Tight(fat, dirent[g].clust, dirent[g].size)'
      BY DEF Settled
    <3>1. g # f /\ dirent'[g] = dirent[g]
      BY <2>3
    <3>2. \A l \in OpenOn(g) : ~Unsettled(l)
      BY <1>0, <2>1, <2>4 DEF OpenOn
    <3> QED
      BY <1>0, <3>1, <3>2 DEF LostInv, Settled, Tight
  <2>6. AllPaired'
    <3> SUFFICES ASSUME NEW l \in Fcbs, fcb'[l].file \in Files PROVE Paired(l)'
      BY DEF AllPaired
    <3>1. Paired(l) /\ fcb'[l] = fcb[l]
      BY <1>0 DEF LostInv, AllPaired
    <3>2. fcb[l].file # f
      BY <1>0 DEF OpenOn
    <3>3. dirent'[fcb[l].file] = dirent[fcb[l].file]
      BY <1>0, <2>3, <3>2
    <3> QED
      BY <2>1, <2>4, <3>1, <3>3 DEF Paired
  <2>7. \A c \in Clusters : fat'[c] # 0 => Held(c)'
    <3> SUFFICES ASSUME NEW c \in Clusters, fat[c] # 0 PROVE Held(c)'
      BY <1>0
    <3>1. InFile(c)
      BY <1>0 DEF LostInv, Held
    <3>2. PICK g \in Files : \E h \in Heads[g] : \E n \in Nat : Nth(fat, h, n) = c
      BY <3>1 DEF InFile
    <3>3. PICK h \in Heads[g] : \E n \in Nat : Nth(fat, h, n) = c
      BY <3>2
    <3>4. CASE g = f
      <4>1. h = dirent[f].clust /\ h # 0
        BY <1>0, <3>4, ClusterFacts DEF Heads, EntryHeads
      <4>2. call'.at = "free" /\ call'.c = h
        BY <2>2, <4>1
      <4> QED
        BY <1>0, <3>3, <4>2 DEF Held
    <3>5. CASE g # f
      <4>1. h \in Heads'[g]
        BY <1>0, <2>3, <3>5 DEF Heads, EntryHeads, OpenOn
      <4> QED
        BY <1>0, <3>3, <4>1 DEF Held, InFile
    <3> QED
      BY <3>4, <3>5
  <2> QED
    BY <2>2, <2>5, <2>6, <2>7 DEF LostInv
<1> QED
  BY <1>1, <1>2 DEF DeleteCall

\* The chains of entries keep clear of a cluster that was free.
LEMMA TightAlloc ==
  ASSUME IInv, NEW g \in Files, NEW c \in Clusters, fat[c] = 0,
         fat' = [fat EXCEPT ![c] = Eoc],
         Tight(fat, dirent[g].clust, dirent[g].size)
  PROVE  Tight(fat', dirent[g].clust, dirent[g].size)
<1> DEFINE e == dirent[g].clust
           s == dirent[g].size
<1>1. \A n \in Nat : Nth(fat, e, n) \in Clusters => fat[Nth(fat, e, n)] # 0
  BY EntryChain
<1>2. fat \in [Clusters -> Links]
  BY FatTypes
<1>3. \A n \in Nat : Nth(fat, e, n) \in Clusters => fat'[Nth(fat, e, n)] = fat[Nth(fat, e, n)]
  BY <1>1, <1>2
<1>4. Tight(fat, e, s)
  OBVIOUS
<1> HIDE DEF e, s
<1>5. Tight(fat', e, s)
  BY <1>3, <1>4, TightKept
<1> QED
  BY <1>5 DEF e, s

\* The first cluster of a file.
LEMMA FirstLost ==
  ASSUME IInv, CursorInv, LostInv, WriteFirst
  PROVE  LostInv'
<1>0. /\ call.op = "write" /\ call.at = "first" /\ call'.at = "loop" /\ call'.op = "write"
      /\ call'.k = call.k /\ UNCHANGED dirent
  <2>1. DOMAIN call = {"op", "at", "k", "f", "n", "bytes", "c"}
    BY DEF IInv, Shape
  <2> QED
    BY <2>1 DEF WriteFirst, FirstCluster, Goto
<1>1. /\ call.k \in Fcbs /\ Cur \in FcbRecords /\ Cur = fcb[call.k] /\ Cur.open
      /\ Cur.file \in Files /\ fcb \in [Fcbs -> FcbRecords]
  BY <1>0, CurCursor, CursorsNow DEF Cur, IInv, CallOK, Cursors
<1>2. Cur.sclust = 0
  BY <1>0, <1>1, CurCursor, NoClusterYet DEF CursorInv, Working
<1>3. PICK c \in Clusters : FirstCluster(c)
  BY DEF WriteFirst
<1>4. fat[c] = 0 /\ fat' = [fat EXCEPT ![c] = Eoc] /\ fat \in [Clusters -> Links]
  BY <1>3, FatTypes DEF FirstCluster, Alloc
<1> DEFINE r == [Cur EXCEPT !.sclust = c, !.cclust = c, !.sizechg = TRUE]
<1>5. fcb' = [fcb EXCEPT ![call.k] = r]
  BY <1>1, <1>3 DEF FirstCluster
<1>6. r.file = Cur.file /\ r.sclust = c /\ r.sizechg /\ r.open
  BY <1>1 DEF FcbRecords
<1> HIDE DEF r
<1>7. fcb'[call.k] = r /\ \A l \in Fcbs : l # call.k => fcb'[l] = fcb[l]
  BY <1>1, <1>5
<1>8. \A l \in Fcbs : \A places : ~Closing(l, places) /\ ~Closing(l, places)'
  BY <1>0 DEF Closing
<1>9. \A g \in Files : Heads[g] \subseteq Heads'[g]
  <2> SUFFICES ASSUME NEW g \in Files, NEW h \in Heads[g] PROVE h \in Heads'[g]
    OBVIOUS
  <2>1. h \in Clusters /\ h # 0
    BY HeadsType, ClusterFacts
  <2>2. CASE h = dirent[g].clust
    BY <1>0, <2>1, <2>2 DEF Heads, EntryHeads
  <2>3. CASE h # dirent[g].clust
    <3>1. PICK l \in OpenOn(g) : h = fcb[l].sclust
      BY <2>3 DEF Heads, EntryHeads
    <3>2. l # call.k
      BY <1>1, <1>2, <2>1, <3>1
    <3>3. l \in OpenOn(g)' /\ fcb'[l].sclust = h
      BY <1>7, <3>1, <3>2 DEF OpenOn
    <3> QED
      BY <2>1, <3>3 DEF Heads
  <2> QED
    BY <2>2, <2>3
<1>10. Settled'
  <2> SUFFICES ASSUME NEW g \in Files, dirent'[g] # Absent,
                      \A l \in OpenOn(g)' : ~Unsettled(l)'
               PROVE  Tight(fat, dirent[g].clust, dirent[g].size)'
    BY DEF Settled
  <2>1. g # Cur.file
    <3> SUFFICES ASSUME g = Cur.file PROVE FALSE
      OBVIOUS
    <3>1. call.k \in OpenOn(g)'
      BY <1>1, <1>6, <1>7 DEF OpenOn
    <3>2. \A l \in Fcbs : fcb'[l].sizechg /\ fcb'[l].open => Unsettled(l)'
      BY DEF Unsettled
    <3>3. \A l \in OpenOn(g)' : l # call.k
      <4> SUFFICES ASSUME NEW l \in OpenOn(g)', l = call.k PROVE FALSE
        OBVIOUS
      <4>1. fcb'[l].sizechg /\ fcb'[l].open /\ l \in Fcbs
        BY <1>1, <1>6, <1>7
      <4> QED
        BY <3>2, <4>1
    <3> QED
      BY <3>1, <3>3
  <2>2. \A l \in OpenOn(g) : ~Unsettled(l)
    <3> SUFFICES ASSUME NEW l \in OpenOn(g), Unsettled(l) PROVE FALSE
      OBVIOUS
    <3>1. l \in Fcbs /\ fcb'[l] = fcb[l] /\ l \in OpenOn(g)'
      BY <1>1, <1>7, <2>1 DEF OpenOn
    <3>2. fcb[l].sizechg /\ fcb[l].open
      BY <1>0, <1>8, <3>1 DEF Unsettled, Pending
    <3>3. Unsettled(l)'
      BY <3>1, <3>2 DEF Unsettled
    <3> QED
      BY <3>1, <3>3
  <2>3. Tight(fat, dirent[g].clust, dirent[g].size)
    BY <1>0, <2>2 DEF LostInv, Settled
  <2>4. Tight(fat', dirent[g].clust, dirent[g].size)
    BY <1>4, <2>3, TightAlloc
  <2> QED
    BY <1>0, <2>4 DEF Tight
<1>11. AllPaired'
  <2> SUFFICES ASSUME NEW l \in Fcbs, fcb'[l].file \in Files PROVE Paired(l)'
    BY DEF AllPaired
  <2>1. CASE l = call.k
    <3>1. Paired(l)
      BY <1>1, <2>1 DEF LostInv, AllPaired
    <3>2. dirent[Cur.file].clust = 0
      BY <1>1, <1>2, <2>1, <3>1 DEF Paired
    <3> QED
      BY <1>0, <1>6, <1>7, <1>8, <2>1, <3>2 DEF Paired
  <2>2. CASE l # call.k
    <3>1. fcb'[l] = fcb[l] /\ Paired(l)
      BY <1>7, <2>2 DEF LostInv, AllPaired
    <3> QED
      BY <1>0, <1>8, <3>1 DEF Paired
  <2> QED
    BY <2>1, <2>2
<1>12. \A d \in Clusters : fat'[d] # 0 => Held(d)'
  <2> SUFFICES ASSUME NEW d \in Clusters, fat'[d] # 0 PROVE InFile(d)'
    BY DEF Held
  <2>1. CASE d = c
    <3>1. PICK f \in Files : f = Cur.file
      BY <1>1
    <3>2. call.k \in OpenOn(f)' /\ fcb'[call.k].sclust = c
      BY <1>1, <1>6, <1>7, <3>1 DEF OpenOn
    <3>3. c \in Heads'[f]
      BY <3>2 DEF Heads
    <3>4. Nth(fat', c, 0) = c
      BY NthStep
    <3> QED
      BY <2>1, <3>3, <3>4 DEF InFile
  <2>2. CASE d # c
    <3>1. fat[d] # 0
      BY <1>4, <2>2
    <3>2. InFile(d)
      BY <1>0, <3>1 DEF LostInv, Held
    <3>3. \A x \in Clusters : fat[x] \in Clusters => fat'[x] = fat[x]
      BY <1>4, ClusterFacts
    <3> QED
      BY <1>9, <3>2, <3>3, InFileGrows
  <2> QED
    BY <2>1, <2>2
<1> QED
  BY <1>0, <1>10, <1>11, <1>12 DEF LostInv

\* A cluster is allocated at the end of the chain, where the file ends too.
LEMMA GrowLost ==
  ASSUME IInv, CursorInv, LostInv, faults.crash = 0, Grow
  PROVE  LostInv'
<1>0. /\ call.op = "write" /\ call.at = "loop" /\ WriteMore /\ AtChainEnd
      /\ UNCHANGED <<dirent, fcb>>
  BY DEF Grow, WriteMore
<1>1. /\ call.k \in Fcbs /\ Cur \in FcbRecords /\ Cur = fcb[call.k] /\ Steady(faults, fat, Cur)
      /\ Cur.cclust \in Clusters
  BY <1>0, CurCursor, WriteThere DEF Cur
<1>2. PICK c \in Clusters : Alloc(c) /\ call' = [call EXCEPT !.at = "link", !.c = c]
  BY DEF Grow
<1>3. fat[c] = 0 /\ fat' = [fat EXCEPT ![c] = Eoc] /\ fat \in [Clusters -> Links]
  BY <1>2, FatTypes DEF Alloc
<1>4. /\ call'.op = "write" /\ call'.at = "link" /\ call'.k = call.k /\ call'.c = c
      /\ call'.bytes = call.bytes
  <2>1. DOMAIN call = {"op", "at", "k", "f", "n", "bytes", "c"}
    BY DEF IInv, Shape
  <2> QED
    BY <1>0, <1>2, <2>1
<1>5. Cur' = Cur
  BY <1>0, <1>4 DEF Cur
<1>6. Cur.fpos = Cur.fsize
  <2>1. PICK N \in Nat : /\ Cur.cclust = Nth(fat, Cur.sclust, N)
                         /\ Cur.fpos = N * ClusterBytes + Cur.csect * SecSize + Cur.boff
    BY <1>1, ClusterFacts DEF Steady, Placed
  <2>2. Cur.csect = Spc /\ Cur.boff = 0 /\ Link(fat, Cur.cclust) = Eoc
    BY <1>0, <1>1 DEF AtChainEnd, Steady
  <2> DEFINE A == N * ClusterBytes
             B == Spc * SecSize
             C == (N + 1) * ClusterBytes
  <2>3. Cur.fpos = A + B + 0 /\ C = A + B /\ A \in Nat /\ B \in Nat
    BY <2>1, <2>2, SizeFacts
  <2>4. Nth(fat, Cur.sclust, N + 1) \notin Clusters
    <3>1. Nth(fat, Cur.sclust, N + 1) = Link(fat, Nth(fat, Cur.sclust, N))
      BY NthStep
    <3> QED
      BY <2>1, <2>2, <3>1, ClusterFacts
  <2>5. ~(C < Cur.fsize)
    <3>1. N + 1 \in Nat
      OBVIOUS
    <3> QED
      BY <1>1, <2>4, <3>1 DEF Steady, Covered
  <2>6. Cur.fsize \in Nat /\ Cur.fpos <= Cur.fsize
    BY <1>1, MaxSizeFact DEF FcbRecords, Steady
  <2> HIDE DEF A, B, C
  <2> QED
    BY <2>3, <2>5, <2>6
<1>7. \A l \in Fcbs : /\ \A places : ~Closing(l, places) /\ ~Closing(l, places)'
                      /\ ~Pending(l) /\ ~Pending(l)'
  BY <1>0, <1>4 DEF Closing, Pending, AtChainEnd, Cur
<1>8. Heads' = Heads
  BY <1>0, SameHeads
<1>9. Settled'
  <2> SUFFICES ASSUME NEW g \in Files, dirent'[g] # Absent,
                      \A l \in OpenOn(g)' : ~Unsettled(l)'
               PROVE  Tight(fat, dirent[g].clust, dirent[g].size)'
    BY DEF Settled
  <2>1. \A l \in Fcbs : Unsettled(l) <=> Unsettled(l)'
    BY <1>0, <1>7 DEF Unsettled
  <2>2. \A l \in OpenOn(g) : ~Unsettled(l)
    BY <1>0, <2>1 DEF OpenOn
  <2>3. Tight(fat, dirent[g].clust, dirent[g].size)
    BY <1>0, <2>2 DEF LostInv, Settled
  <2>4. Tight(fat', dirent[g].clust, dirent[g].size)
    BY <1>3, <2>3, TightAlloc
  <2> QED
    BY <1>0, <2>4 DEF Tight
<1>10. AllPaired'
  BY <1>0, <1>7 DEF LostInv, AllPaired, Paired
<1>11. \A d \in Clusters : fat'[d] # 0 => Held(d)'
  <2> SUFFICES ASSUME NEW d \in Clusters, fat'[d] # 0 PROVE Held(d)'
    OBVIOUS
  <2>1. CASE d = c
    BY <1>4, <2>1 DEF Held
  <2>2. CASE d # c
    <3>1. fat[d] # 0
      BY <1>3, <2>2
    <3>2. InFile(d)
      BY <1>0, <3>1 DEF LostInv, Held
    <3>3. \A x \in Clusters : fat[x] \in Clusters => fat'[x] = fat[x]
      BY <1>3, ClusterFacts
    <3>4. InFile(d)'
      BY <1>8, <3>2, <3>3, InFileGrows
    <3> QED
      BY <3>4 DEF Held
  <2> QED
    BY <2>1, <2>2
<1>12. call'.bytes # <<>> /\ Cur'.fpos = Cur'.fsize
  BY <1>0, <1>4, <1>5, <1>6 DEF WriteMore
<1> QED
  BY <1>9, <1>10, <1>11, <1>12 DEF LostInv

\* It is linked: the chain is one longer than the file needs, until a chunk is
\* written there.
LEMMA LinkLost ==
  ASSUME IInv, CursorInv, LostInv, LinkNew
  PROVE  LostInv'
<1>0. /\ call.op = "write" /\ call.at = "link" /\ UNCHANGED dirent
      /\ call.bytes # <<>> /\ Cur.fpos = Cur.fsize
  BY DEF LinkNew, LostInv
<1>1. /\ call.k \in Fcbs /\ Cur \in FcbRecords /\ Cur = fcb[call.k] /\ Steady(faults, fat, Cur)
      /\ Cur.file \in Files /\ fcb \in [Fcbs -> FcbRecords] /\ Cur.open
  BY <1>0, CurCursor, CursorsNow DEF Cur, IInv, CallOK, Cursors
<1>2. /\ Cur.cclust \in Clusters /\ fat[Cur.cclust] = Eoc /\ call.c \in Clusters
      /\ fat' = [fat EXCEPT ![Cur.cclust] = call.c] /\ fat \in [Clusters -> Links]
  <2>1. Cur.cclust # 0 /\ fat[Cur.cclust] = Eoc
    BY <1>0 DEF CursorInv, Working
  <2>2. call.c \in Clusters
    BY <1>0 DEF IInv, CallHolds, Orphan
  <2> QED
    BY <1>1, <2>1, <2>2, FatTypes DEF LinkNew, FcbRecords
<1> DEFINE r == [Cur EXCEPT !.cclust = call.c, !.csect = 0]
<1>3. fcb' = [fcb EXCEPT ![call.k] = r]
  BY <1>1 DEF LinkNew
<1>4. /\ r.file = Cur.file /\ r.sclust = Cur.sclust /\ r.open = Cur.open
      /\ r.sizechg = Cur.sizechg /\ r.fsize = Cur.fsize /\ r.fpos = Cur.fpos /\ r.csect = 0
  BY <1>1 DEF FcbRecords
<1> HIDE DEF r
<1>5. fcb'[call.k] = r /\ \A l \in Fcbs : l # call.k => fcb'[l] = fcb[l]
  BY <1>1, <1>3
<1>6. /\ call'.op = "write" /\ call'.at = "loop" /\ call'.k = call.k
      /\ call'.bytes = call.bytes
  <2>1. DOMAIN call = {"op", "at", "k", "f", "n", "bytes", "c"}
    BY DEF IInv, Shape
  <2> QED
    BY <1>0, <2>1 DEF LinkNew, Goto
<1>7. \A l \in Fcbs : /\ fcb'[l].file = fcb[l].file /\ fcb'[l].sclust = fcb[l].sclust
                      /\ fcb'[l].open = fcb[l].open /\ fcb'[l].fsize = fcb[l].fsize
                      /\ fcb'[l].sizechg = fcb[l].sizechg
  BY <1>1, <1>4, <1>5
<1>8. Heads' = Heads
  BY <1>0, <1>7, SameHeads
<1>9. \A l \in Fcbs : \A places : ~Closing(l, places) /\ ~Closing(l, places)'
  BY <1>0, <1>6 DEF Closing
<1>10. PICK N \in Nat : /\ Cur.cclust = Nth(fat, Cur.sclust, N)
  BY <1>1, <1>2, ClusterFacts DEF Steady, Placed
<1>11. Cur.sclust \in Heads[Cur.file]
  BY <1>1, <1>2, <1>10, ChainOf
<1>12. \A x \in Clusters : fat[x] \in Clusters => fat'[x] = fat[x]
  BY <1>2, ClusterFacts
<1>13. Settled'
  <2> SUFFICES ASSUME NEW g \in Files, dirent'[g] # Absent,
                      \A l \in OpenOn(g)' : ~Unsettled(l)'
               PROVE  Tight(fat, dirent[g].clust, dirent[g].size)'
    BY DEF Settled
  <2>1. g # Cur.file
    <3> SUFFICES ASSUME g = Cur.file PROVE FALSE
      OBVIOUS
    <3>1. call.k \in OpenOn(g)'
      BY <1>1, <1>7 DEF OpenOn
    <3>2. 0 # Spc
      BY SizeFacts
    <3>3. ASSUME NEW l \in Fcbs, l = call.k
          PROVE  Unsettled(l)'
      BY <1>0, <1>4, <1>5, <1>6, <3>2, <3>3 DEF Unsettled, Pending
    <3>4. \A l \in OpenOn(g)' : l # call.k
      BY <1>1, <3>3
    <3> QED
      BY <3>1, <3>4
  <2>2. \A l \in OpenOn(g) : ~Unsettled(l)
    <3> SUFFICES ASSUME NEW l \in OpenOn(g), Unsettled(l) PROVE FALSE
      OBVIOUS
    <3>1. l \in Fcbs /\ l # call.k /\ l \in OpenOn(g)'
      BY <1>1, <1>7, <2>1 DEF OpenOn
    <3>2. fcb[l].sizechg /\ fcb[l].open
      BY <1>0, <1>9, <3>1 DEF Unsettled, Pending
    <3>3. Unsettled(l)'
      BY <1>7, <3>1, <3>2 DEF Unsettled
    <3> QED
      BY <3>1, <3>3
  <2>3. Tight(fat, dirent[g].clust, dirent[g].size)
    BY <1>0, <2>2 DEF LostInv, Settled
  <2>4. \A n \in Nat : Nth(fat, dirent[g].clust, n) \in Clusters
                         => Nth(fat, dirent[g].clust, n) # Cur.cclust
    <3> SUFFICES ASSUME NEW n \in Nat, Nth(fat, dirent[g].clust, n) \in Clusters
                 PROVE  Nth(fat, dirent[g].clust, n) # Nth(fat, Cur.sclust, N)
      BY <1>10
    <3> DEFINE f == Cur.file
               h == Cur.sclust
    <3>1. f \in Files /\ f # g /\ h \in Heads[f]
      BY <1>1, <1>11, <2>1
    <3> HIDE DEF f, h
    <3>2. Nth(fat, dirent[g].clust, n) # Nth(fat, h, N)
      BY <3>1, EntryApart
    <3> QED
      BY <3>2 DEF h
  <2>5. Tight(fat', dirent[g].clust, dirent[g].size)
    <3> DEFINE e == dirent[g].clust
               s == dirent[g].size
    <3>1. \A n \in Nat : Nth(fat, e, n) \in Clusters
                           => fat'[Nth(fat, e, n)] = fat[Nth(fat, e, n)]
      BY <1>2, <2>4
    <3>2. Tight(fat, e, s)
      BY <2>3
    <3> HIDE DEF e, s
    <3>3. Tight(fat', e, s)
      BY <3>1, <3>2, TightKept
    <3> QED
      BY <3>3 DEF e, s
  <2> QED
    BY <1>0, <2>5 DEF Tight
<1>14. AllPaired'
  <2> SUFFICES ASSUME NEW l \in Fcbs, fcb'[l].file \in Files PROVE Paired(l)'
    BY DEF AllPaired
  <2>1. Paired(l)
    BY <1>7 DEF LostInv, AllPaired
  <2> QED
    BY <1>0, <1>7, <1>9, <2>1 DEF Paired
<1>15. \A d \in Clusters : fat'[d] # 0 => Held(d)'
  <2> SUFFICES ASSUME NEW d \in Clusters, fat'[d] # 0 PROVE InFile(d)'
    BY DEF Held
  <2>1. fat[d] # 0
    BY <1>2, ClusterFacts
  <2>2. CASE d = call.c
    <3>1. Nth(fat', Cur.sclust, N) = Cur.cclust
      <4> DEFINE h == Cur.sclust
                 x == Cur.cclust
      <4>1. Nth(fat, h, N) = x /\ x \in Clusters
        BY <1>2, <1>10
      <4> HIDE DEF h, x
      <4>2. Nth(fat', h, N) = x
        BY <1>12, <4>1, ChainGrows
      <4> QED
        BY <4>2 DEF h, x
    <3>2. Nth(fat', Cur.sclust, N + 1) = Link(fat', Nth(fat', Cur.sclust, N))
      BY NthStep
    <3>3. Link(fat', Cur.cclust) = call.c
      BY <1>2 DEF Link
    <3>4. Nth(fat', Cur.sclust, N + 1) = d /\ N + 1 \in Nat
      BY <2>2, <3>1, <3>2, <3>3
    <3>5. Cur.file \in Files /\ Cur.sclust \in Heads'[Cur.file]
      BY <1>1, <1>8, <1>11
    <3> DEFINE f == Cur.file
               h == Cur.sclust
    <3>6. f \in Files /\ h \in Heads'[f] /\ Nth(fat', h, N + 1) = d
      BY <3>4, <3>5
    <3> HIDE DEF f, h
    <3> QED
      BY <3>4, <3>6 DEF InFile
  <2>3. CASE d # call.c
    <3>1. InFile(d)
      BY <1>0, <2>1, <2>3 DEF LostInv, Held
    <3> QED
      BY <1>8, <1>12, <3>1, InFileGrows
  <2> QED
    BY <2>2, <2>3
<1> QED
  BY <1>6, <1>13, <1>14, <1>15 DEF LostInv

\* An FCB that is being closed: the only one of its file, and a changed one.
LEMMA ClosingFacts ==
  ASSUME IInv, CursorInv, LostInv, call.op = "close"
  PROVE  /\ call.k \in Fcbs /\ Cur \in FcbRecords /\ Cur = fcb[call.k]
         /\ Cur.file \in Files /\ ~Cur.open /\ Cur.sizechg
         /\ \A l \in Fcbs : fcb[l].file = Cur.file => l = call.k
         /\ fcb \in [Fcbs -> FcbRecords] /\ Paired(call.k)
         /\ call.at \in {"size", "trim", "free", "flush"}
         /\ call.at \in {"size", "trim"} => Covered(fat, Cur)
         /\ call.at \in {"trim", "free", "flush"} =>
              dirent[Cur.file] = [clust |-> Cur.sclust, size |-> Cur.fsize]
         /\ dirent[Cur.file].clust \in {0, Cur.sclust}
<1>1. /\ call.k \in Fcbs /\ Cur.file \in Files /\ Cur.write
      /\ call.at \in {"size", "trim", "free", "flush"}
  BY DEF IInv, CallOK
<1>2. fcb \in [Fcbs -> FcbRecords] /\ ~Cur.open /\ Cur = fcb[call.k] /\ Cur \in FcbRecords
  BY <1>1, CursorsNow DEF Cursors, Cur, CursorInv, Working
<1>3. \A l \in Fcbs : fcb[l].file = Cur.file => l = call.k
  BY <1>1, <1>2, FileConstants DEF IInv, Exclusive
<1>4. Paired(call.k)
  BY <1>1, <1>2 DEF LostInv, AllPaired
<1>5. Closing(call.k, {"size", "trim", "free", "flush"})
  BY <1>1 DEF Closing
<1>6. /\ Cur.sizechg
      /\ Closing(call.k, {"size", "trim"}) => Covered(fat, Cur)
      /\ Closing(call.k, {"trim", "free", "flush"}) =>
           dirent[Cur.file] = [clust |-> Cur.sclust, size |-> Cur.fsize]
      /\ dirent[Cur.file].clust \in {0, Cur.sclust}
  BY <1>2, <1>4, <1>5 DEF Paired
<1>7. \A places : Closing(call.k, places) <=> call.at \in places
  BY DEF Closing
<1> QED
  BY <1>1, <1>2, <1>3, <1>4, <1>6, <1>7

\* The other files' FCBs and entries are what they were.
LEMMA OthersLost ==
  ASSUME LostInv, NEW f \in Files, DOMAIN dirent = Files, DOMAIN dirent' = Files,
         \A g \in Files : g # f => dirent'[g] = dirent[g],
         \A l \in Fcbs : fcb[l].file # f => fcb'[l] = fcb[l],
         \A l \in Fcbs : fcb'[l].file # f => fcb[l].file # f \/ fcb'[l].file \notin Files,
         \A l \in Fcbs : fcb[l].file # f =>
           /\ ~Pending(l) /\ ~Pending(l)'
           /\ \A places : ~Closing(l, places) /\ ~Closing(l, places)',
         \A g \in Files : g # f =>
           (Tight(fat, dirent[g].clust, dirent[g].size)
              => Tight(fat', dirent[g].clust, dirent[g].size)),
         dirent'[f] # Absent => Tight(fat', dirent'[f].clust, dirent'[f].size),
         \A l \in Fcbs : fcb'[l].file = f => Paired(l)',
         \A c \in Clusters : fat'[c] # 0 => Held(c)',
         call'.at # "link"
  PROVE  LostInv'
<1>1. Settled'
  <2> SUFFICES ASSUME NEW g \in Files, dirent'[g] # Absent,
                      \A l \in OpenOn(g)' : ~Unsettled(l)'
               PROVE  Tight(fat, dirent[g].clust, dirent[g].size)'
    BY DEF Settled
  <2>1. CASE g = f
    BY <2>1 DEF Tight
  <2>2. CASE g # f
    <3>1. \A l \in OpenOn(g) : ~Unsettled(l)
      <4> SUFFICES ASSUME NEW l \in OpenOn(g), Unsettled(l) PROVE FALSE
        OBVIOUS
      <4>1. l \in Fcbs /\ fcb'[l] = fcb[l] /\ l \in OpenOn(g)' /\ fcb[l].file # f
        BY <2>2 DEF OpenOn
      <4>2. fcb[l].sizechg /\ fcb[l].open
        BY <4>1 DEF Unsettled
      <4>3. Unsettled(l)'
        BY <4>1, <4>2 DEF Unsettled
      <4> QED
        BY <4>1, <4>3
    <3>2. dirent'[g] = dirent[g]
      BY <2>2
    <3>3. Tight(fat, dirent[g].clust, dirent[g].size)
      BY <3>1, <3>2 DEF LostInv, Settled
    <3>4. Tight(fat', dirent[g].clust, dirent[g].size)
      BY <2>2, <3>3
    <3> QED
      BY <3>2, <3>4 DEF Tight
  <2> QED
    BY <2>1, <2>2
<1>2. AllPaired'
  <2> SUFFICES ASSUME NEW l \in Fcbs, fcb'[l].file \in Files PROVE Paired(l)'
    BY DEF AllPaired
  <2>1. CASE fcb'[l].file # f
    <3>1. fcb[l].file # f /\ fcb'[l] = fcb[l] /\ dirent'[fcb[l].file] = dirent[fcb[l].file]
      BY <2>1
    <3>2. Paired(l)
      BY <3>1 DEF LostInv, AllPaired
    <3> QED
      BY <3>1, <3>2 DEF Paired
  <2> QED
    BY <2>1
<1> QED
  BY <1>1, <1>2 DEF LostInv

\* file_close writes the entry.
LEMMA CloseSizeLost ==
  ASSUME IInv, CursorInv, LostInv, CloseSize
  PROVE  LostInv'
<1>0. /\ call.op = "close" /\ call.at = "size" /\ UNCHANGED <<fat, fcb>>
      /\ dirent' = [dirent EXCEPT ![Cur.file] = [clust |-> Cur.sclust, size |-> Cur.fsize]]
  BY DEF CloseSize
<1>1. /\ call'.op = "close" /\ call'.at = "trim" /\ call'.k = call.k
  <2>1. DOMAIN call = {"op", "at", "k", "f", "n", "bytes", "c"}
    BY DEF IInv, Shape
  <2> QED
    BY <1>0, <2>1 DEF CloseSize, Goto
<1>2. /\ call.k \in Fcbs /\ Cur \in FcbRecords /\ Cur = fcb[call.k]
      /\ Cur.file \in Files /\ ~Cur.open /\ Cur.sizechg
      /\ \A l \in Fcbs : fcb[l].file = Cur.file => l = call.k
      /\ Covered(fat, Cur) /\ dirent[Cur.file].clust \in {0, Cur.sclust}
      /\ DOMAIN dirent = Files
  BY <1>0, ClosingFacts DEF IInv, Shape
<1>3. /\ dirent'[Cur.file] = [clust |-> Cur.sclust, size |-> Cur.fsize]
      /\ \A g \in Files : g # Cur.file => dirent'[g] = dirent[g]
  BY <1>0, <1>2
<1>4. \A l \in Fcbs : l # call.k =>
        \A places : ~Closing(l, places) /\ ~Closing(l, places)'
  BY <1>1 DEF Closing
<1>5. \A l \in Fcbs : Unsettled(l) <=> Unsettled(l)'
  BY <1>0, <1>1 DEF Unsettled, Closing, Pending
<1>6. \A g \in Files : Heads[g] \subseteq Heads'[g]
  <2> SUFFICES ASSUME NEW g \in Files, NEW h \in Heads[g] PROVE h \in Heads'[g]
    OBVIOUS
  <2>1. h \in Clusters /\ h # 0
    BY HeadsType, ClusterFacts
  <2>2. CASE g # Cur.file \/ h # dirent[g].clust
    BY <1>0, <1>3, <2>1, <2>2 DEF Heads, EntryHeads, OpenOn
  <2>3. CASE g = Cur.file /\ h = dirent[g].clust
    <3>1. h = dirent'[g].clust
      BY <1>2, <1>3, <2>1, <2>3
    <3> QED
      BY <2>1, <3>1 DEF Heads, EntryHeads
  <2> QED
    BY <2>2, <2>3
<1>7. Settled'
  <2> SUFFICES ASSUME NEW g \in Files, dirent'[g] # Absent,
                      \A l \in OpenOn(g)' : ~Unsettled(l)'
               PROVE  Tight(fat, dirent[g].clust, dirent[g].size)'
    BY DEF Settled
  <2>1. \A l \in OpenOn(g) : ~Unsettled(l)
    BY <1>0, <1>5 DEF OpenOn
  <2>2. g # Cur.file
    <3>1. Unsettled(call.k)
      BY <1>0, <1>2 DEF Unsettled, Closing
    <3> QED
      BY <1>2, <2>1, <3>1 DEF OpenOn
  <2>3. dirent'[g] = dirent[g]
    BY <1>3, <2>2
  <2> QED
    BY <1>0, <2>1, <2>3 DEF LostInv, Settled, Tight
<1>8. AllPaired'
  <2> SUFFICES ASSUME NEW l \in Fcbs, fcb'[l].file \in Files PROVE Paired(l)'
    BY DEF AllPaired
  <2>1. CASE l = call.k
    <3>1. fcb'[l] = Cur /\ Covered(fat', fcb'[l])
      BY <1>0, <1>2, <2>1 DEF Covered
    <3>2. \A places : Closing(l, places)' <=> "trim" \in places
      BY <1>1, <2>1 DEF Closing
    <3> QED
      BY <1>2, <1>3, <3>1, <3>2 DEF Paired
  <2>2. CASE l # call.k
    <3>1. Paired(l) /\ fcb'[l] = fcb[l]
      BY <1>0 DEF LostInv, AllPaired
    <3>2. dirent'[fcb[l].file] = dirent[fcb[l].file]
      BY <1>0, <1>2, <1>3, <2>2
    <3> QED
      BY <1>4, <2>2, <3>1, <3>2 DEF Paired
  <2> QED
    BY <2>1, <2>2
<1>9. \A c \in Clusters : fat'[c] # 0 => Held(c)'
  BY <1>0, <1>6, StillHeld
<1> QED
  BY <1>1, <1>7, <1>8, <1>9 DEF LostInv

\* The last call of all: the FAT is flushed.
LEMMA FlushLost ==
  ASSUME IInv, CursorInv, LostInv, Clean, Clean', FlushLast \/ FlushFails
  PROVE  LostInv'
<1>0. /\ FlushLast /\ call.at = "flush" /\ UNCHANGED <<fat, dirent>> /\ call' = Idle
      /\ call'.op = "idle" /\ call'.at = ""
  <2>1. FlushLast
    BY CleanStep DEF FlushFails
  <2>2. Idle.op = "idle" /\ Idle.at = ""
    BY DEF Idle
  <2> QED
    BY <2>1, <2>2 DEF FlushLast, Return
<1>1. \A l \in Fcbs : \A places : ~Closing(l, places)' /\ ~Pending(l)'
  BY <1>0 DEF Closing, Pending
<1>2. \A l \in Fcbs : Unsettled(l) <=> fcb[l].sizechg /\ fcb[l].open
  BY <1>0 DEF Unsettled, Closing, Pending
<1>3. CASE call.op = "close"
  <2>1. /\ call.k \in Fcbs /\ Cur = fcb[call.k] /\ ~Cur.open /\ Cur.file \in Files
        /\ dirent[Cur.file] = [clust |-> Cur.sclust, size |-> Cur.fsize]
        /\ fcb \in [Fcbs -> FcbRecords]
    BY <1>0, <1>3, ClosingFacts
  <2>2. fcb' = [fcb EXCEPT ![call.k] = Closed]
    BY <1>0, <1>3 DEF FlushLast, Released
  <2>3. fcb'[call.k] = Closed /\ \A l \in Fcbs : l # call.k => fcb'[l] = fcb[l]
    BY <2>1, <2>2
  <2>4. Closed.file = NoFile
    BY DEF Closed
  <2>5. \A g \in Files : Heads[g] \subseteq Heads'[g]
    <3> SUFFICES ASSUME NEW g \in Files, NEW h \in Heads[g] PROVE h \in Heads'[g]
      OBVIOUS
    <3>1. h \in Clusters
      BY HeadsType
    <3>2. CASE h = dirent[g].clust
      BY <1>0, <3>1, <3>2 DEF Heads, EntryHeads
    <3>3. CASE h # dirent[g].clust
      <4>1. PICK l \in OpenOn(g) : h = fcb[l].sclust
        BY <3>3 DEF Heads, EntryHeads
      <4>2. l # call.k
        <5>1. dirent[Cur.file].clust = Cur.sclust
          BY <2>1
        <5> QED
          BY <2>1, <3>3, <4>1, <5>1 DEF OpenOn
      <4>3. l \in OpenOn(g)' /\ fcb'[l].sclust = h
        BY <2>3, <4>1, <4>2 DEF OpenOn
      <4> QED
        BY <3>1, <4>3 DEF Heads
    <3> QED
      BY <3>2, <3>3
  <2>6. Settled'
    <3> SUFFICES ASSUME NEW g \in Files, dirent'[g] # Absent,
                        \A l \in OpenOn(g)' : ~Unsettled(l)'
                 PROVE  Tight(fat, dirent[g].clust, dirent[g].size)'
      BY DEF Settled
    <3>1. \A l \in OpenOn(g) : ~Unsettled(l)
      <4> SUFFICES ASSUME NEW l \in OpenOn(g), Unsettled(l) PROVE FALSE
        OBVIOUS
      <4>1. l \in Fcbs /\ fcb[l].sizechg /\ fcb[l].open
        BY <1>2 DEF OpenOn
      <4>2. l # call.k
        BY <2>1, <4>1
      <4>3. l \in OpenOn(g)' /\ fcb'[l] = fcb[l]
        BY <2>3, <4>2 DEF OpenOn
      <4>4. Unsettled(l)'
        BY <4>1, <4>3 DEF Unsettled
      <4> QED
        BY <4>3, <4>4
    <3> QED
      BY <1>0, <3>1 DEF LostInv, Settled, Tight
  <2>7. AllPaired'
    <3> SUFFICES ASSUME NEW l \in Fcbs, fcb'[l].file \in Files PROVE Paired(l)'
      BY DEF AllPaired
    <3>1. l # call.k
      BY <2>3, <2>4, FileConstants
    <3>2. fcb'[l] = fcb[l] /\ Paired(l)
      BY <2>3, <3>1 DEF LostInv, AllPaired
    <3>3. \A places : ~Closing(l, places)
      BY <3>1 DEF Closing
    <3> QED
      BY <1>0, <1>1, <3>2, <3>3 DEF Paired
  <2>8. \A c \in Clusters : fat'[c] # 0 => Held(c)'
    BY <1>0, <2>5, StillHeld
  <2> QED
    BY <1>0, <2>6, <2>7, <2>8 DEF LostInv
<1>4. CASE call.op # "close"
  <2>1. UNCHANGED fcb
    BY <1>0, <1>4 DEF FlushLast, Released
  <2>2. \A l \in Fcbs : ~Pending(l)
    BY <1>0 DEF Pending
  <2> QED
    BY <1>0, <1>4, <2>1, <2>2, QuietLost
<1> QED
  BY <1>3, <1>4

\* The last cluster of a closing file, and how far its chain must go.
LEMMA LastOneIs ==
  ASSUME IInv, CursorInv, LostInv, call.op = "close", call.at = "trim", Cur.fsize > 0
  PROVE  \E m \in Nat : /\ LastOne = Nth(fat, Cur.sclust, m) /\ LastOne \in Clusters
                        /\ m * ClusterBytes < Cur.fsize
                        /\ Cur.fsize <= (m + 1) * ClusterBytes
<1>1. Cur \in FcbRecords /\ Covered(fat, Cur)
  BY ClosingFacts
<1>2. Cur.fsize \in Nat
  BY <1>1, MaxSizeFact DEF FcbRecords
<1> DEFINE m == (Cur.fsize - 1) \div ClusterBytes
           A == m * ClusterBytes
           C == (m + 1) * ClusterBytes
           b == (Cur.fsize - 1) % ClusterBytes
<1>3. /\ m \in Nat /\ b \in Nat /\ b < ClusterBytes
      /\ Cur.fsize - 1 = ClusterBytes * m + b
  <2> DEFINE a == Cur.fsize - 1
  <2>1. a \in Nat
    BY <1>2
  <2> HIDE DEF a
  <2>2. a \div ClusterBytes \in Nat /\ a % ClusterBytes \in Nat /\ a % ClusterBytes < ClusterBytes
        /\ a = ClusterBytes * (a \div ClusterBytes) + (a % ClusterBytes)
    BY <2>1, SizeFacts, DivMod
  <2> QED
    BY <2>2 DEF a
<1>4. LastOne = Nth(fat, Cur.sclust, m)
  BY <1>1 DEF LastOne, SeekTo, FcbRecords
<1> HIDE DEF m, b
<1>5. A \in Nat /\ C = A + ClusterBytes /\ ClusterBytes * m = A
  BY <1>3, SizeFacts
<1> HIDE DEF A, C
<1>6. A < Cur.fsize /\ Cur.fsize <= C
  BY <1>2, <1>3, <1>5, SizeFacts
<1>7. LastOne \in Clusters
  BY <1>1, <1>3, <1>4, <1>6 DEF Covered, A
<1> QED
  BY <1>3, <1>4, <1>6, <1>7 DEF A, C

\* Cutting a chain: what was in it is before the cut, or in the rest.
LEMMA CutChain ==
  ASSUME NEW t, NEW u, NEW p, NEW q, p \in Clusters, q = t[p],
         \A x \in Clusters : x # p => u[x] = t[x],
         \A j \in Nat : Nth(t, q, j) \in Clusters => Nth(t, q, j) # p,
         NEW h, NEW n \in Nat, Nth(t, h, n) \in Clusters
  PROVE  Nth(u, h, n) = Nth(t, h, n) \/ \E j \in Nat : Nth(u, q, j) = Nth(t, h, n)
<1>1. CASE \A i \in Nat : i < n => Nth(t, h, i) # p
  <2>1. ASSUME NEW i \in Nat, i < n
        PROVE  Nth(t, h, i) \in Clusters /\ u[Nth(t, h, i)] = t[Nth(t, h, i)]
    <3>1. i \in 0 .. n
      BY <2>1
    <3>2. Nth(t, h, i) \in Clusters
      BY <3>1, ChainPrefix
    <3> QED
      BY <1>1, <2>1, <3>2
  <2>2. n \in Nat
    OBVIOUS
  <2>3. Nth(u, h, n) = Nth(t, h, n)
    BY ONLY <2>1, <2>2, ChainKept
  <2> QED
    BY <2>3
<1>2. CASE ~(\A i \in Nat : i < n => Nth(t, h, i) # p)
  <2>1. PICK i \in Nat : i < n /\ Nth(t, h, i) = p
    BY <1>2
  <2> DEFINE a == i + 1
             j == n - a
  <2>2. a \in Nat /\ j \in Nat /\ a + j = n
    BY <2>1
  <2>3. Nth(t, h, a) = q
    <3>1. Nth(t, h, i + 1) = Link(t, Nth(t, h, i))
      BY NthStep
    <3> QED
      BY <2>1, <3>1 DEF Link
  <2>c. \A x \in Nat : Nth(t, q, x) \in Clusters => Nth(t, q, x) # p
    OBVIOUS
  <2> HIDE DEF a, j
  <2>4. Nth(t, h, a + j) = Nth(t, Nth(t, h, a), j)
    BY <2>2, ChainShift
  <2>5. Nth(t, q, j) = Nth(t, h, n)
    BY <2>2, <2>3, <2>4
  <2>6. \A x \in Nat : Nth(t, q, x) \in Clusters => u[Nth(t, q, x)] = t[Nth(t, q, x)]
    BY <2>c
  <2>7. Nth(u, q, j) = Nth(t, q, j)
    <3>1. \A x \in Nat : Nth(u, q, x) = Nth(t, q, x)
      BY ONLY <2>6, ChainSame
    <3> QED
      BY <2>2, <3>1
  <2> QED
    BY <2>2, <2>5, <2>7
<1> QED
  BY <1>1, <1>2

\* file_close cuts the chain behind the last byte.
LEMMA TrimLost ==
  ASSUME IInv, CursorInv, LostInv, Trim
  PROVE  LostInv'
<1>0. /\ call.op = "close" /\ call.at = "trim" /\ Cur.fsize > 0
      /\ UNCHANGED <<dirent, fcb>>
  BY DEF Trim
<1>1. PICK f \in Files : f = Cur.file
  BY <1>0, ClosingFacts
<1>2. /\ call.k \in Fcbs /\ Cur \in FcbRecords /\ Cur = fcb[call.k]
      /\ ~Cur.open /\ Cur.sizechg /\ Paired(call.k)
      /\ \A l \in Fcbs : fcb[l].file = f => l = call.k
      /\ dirent[f] = [clust |-> Cur.sclust, size |-> Cur.fsize]
      /\ DOMAIN dirent = Files /\ fat \in [Clusters -> Links] /\ Sole(fat, Heads)
  BY <1>0, <1>1, ClosingFacts DEF IInv, Shape, FatSole
<1>3. PICK m \in Nat : /\ LastOne = Nth(fat, Cur.sclust, m) /\ LastOne \in Clusters
                       /\ m * ClusterBytes < Cur.fsize
                       /\ Cur.fsize <= (m + 1) * ClusterBytes
  BY <1>0, LastOneIs
<1>4. Cur.sclust \in Heads[f] /\ Cur.fsize \in Nat
  <2>1. Nth(fat, fcb[call.k].sclust, m) \in Clusters /\ fcb[call.k].file \in Files
    BY <1>1, <1>2, <1>3
  <2>2. fcb[call.k].sclust \in Heads[fcb[call.k].file]
    BY <1>2, <2>1, ChainOf
  <2> QED
    BY <1>1, <1>2, <2>2, MaxSizeFact DEF FcbRecords
<1>5. Heads' = Heads
  BY <1>0, SameHeads
<1>6. Nth(fat, Cur.sclust, m + 1) = fat[LastOne]
  <2>1. Nth(fat, Cur.sclust, m + 1) = Link(fat, Nth(fat, Cur.sclust, m))
    BY NthStep
  <2> QED
    BY <1>3, <2>1 DEF Link
<1>7. Link(fat, LastOne) = fat[LastOne]
  BY <1>3 DEF Link
<1>8. /\ call'.op = "close" /\ call'.k = call.k /\ call'.at \in {"free", "flush"}
      /\ fat[LastOne] \in Clusters => call'.at = "free" /\ call'.c = fat[LastOne]
  <2>1. DOMAIN call = {"op", "at", "k", "f", "n", "bytes", "c"}
    BY DEF IInv, Shape
  <2>2. CASE fat[LastOne] \in Clusters
    BY <1>0, <1>7, <2>1, <2>2 DEF Trim, Free
  <2>3. CASE fat[LastOne] \notin Clusters
    BY <1>0, <1>7, <2>1, <2>3 DEF Trim, Goto
  <2> QED
    BY <2>2, <2>3
<1>9. CASE fat[LastOne] \notin Clusters
  <2>1. fat' = fat
    BY <1>7, <1>9 DEF Trim
  <2>2. Tight(fat, Cur.sclust, Cur.fsize)
    BY <1>3, <1>4, <1>6, <1>9, TightTrim
  <2>3. \A c \in Clusters : fat'[c] # 0 => Held(c)'
    BY <1>0, <1>5, <2>1, StillHeld
  <2>4. dirent'[f].clust = Cur.sclust /\ dirent'[f].size = Cur.fsize
    BY <1>0, <1>2
  <2>5. Paired(call.k)'
    BY <1>0, <1>1, <1>2, <1>8 DEF Paired, Closing
  <2>6. ASSUME NEW l \in Fcbs, fcb'[l].file = f
        PROVE  Paired(l)'
    <3>1. l = call.k
      BY <1>0, <1>2, <2>6
    <3>2. \A places : Closing(l, places)' <=> call'.at \in places
      BY <1>8, <3>1 DEF Closing
    <3> QED
      BY <1>0, <1>1, <1>2, <1>8, <3>1, <3>2 DEF Paired
  <2>7. ASSUME NEW l \in Fcbs, fcb[l].file # f
        PROVE  /\ ~Pending(l) /\ ~Pending(l)'
               /\ \A places : ~Closing(l, places) /\ ~Closing(l, places)'
    BY <1>0, <1>1, <1>2, <1>8, <2>7 DEF Pending, Closing
  <2> QED
    BY <1>0, <1>2, <1>8, <2>1, <2>2, <2>3, <2>4, <2>6, <2>7, OthersLost
<1>10. CASE fat[LastOne] \in Clusters
  <2> DEFINE p == LastOne
             q == fat[LastOne]
             s == Cur.sclust
  <2>1. /\ fat' = [fat EXCEPT ![p] = Eoc] /\ p \in Clusters /\ q = fat[p] /\ q \in Clusters
        /\ p = Nth(fat, s, m) /\ Nth(fat, s, m + 1) = q /\ s \in Heads[f]
        /\ call'.at = "free" /\ call'.c = q
    BY <1>3, <1>4, <1>6, <1>7, <1>8, <1>10 DEF Trim
  <2>2. Tight(fat', Cur.sclust, Cur.fsize)
    <3> DEFINE z == Cur.fsize
    <3>0. z \in Nat /\ m * ClusterBytes < z /\ z <= (m + 1) * ClusterBytes
      BY <1>3, <1>4
    <3> HIDE DEF p, q, s, z
    <3>1. ASSUME NEW i \in Nat, i < m
          PROVE  Nth(fat, s, i) \in Clusters /\ fat'[Nth(fat, s, i)] = fat[Nth(fat, s, i)]
      <4>1. i \in 0 .. m
        BY <3>1
      <4>2. Nth(fat, s, i) \in Clusters
        BY <2>1, <4>1, ChainPrefix
      <4>3. Nth(fat, s, i) # Nth(fat, s, m)
        BY <1>2, <2>1, <3>1, <4>2, HeadsType, ChainsApart
      <4> QED
        BY <1>2, <2>1, <4>2, <4>3
    <3>2. Nth(fat', s, m) = p
      <4>1. m \in Nat
        OBVIOUS
      <4>2. Nth(fat', s, m) = Nth(fat, s, m)
        BY ONLY <3>1, <4>1, ChainKept
      <4> QED
        BY <2>1, <4>2
    <3>3. Nth(fat', s, m + 1) = Link(fat', Nth(fat', s, m))
      BY NthStep
    <3>4. Link(fat', p) = Eoc
      BY <1>2, <2>1 DEF Link
    <3>5. Nth(fat', s, m) \in Clusters /\ Nth(fat', s, m + 1) \notin Clusters
      BY <2>1, <3>2, <3>3, <3>4, ClusterFacts
    <3>6. Tight(fat', s, z)
      BY <3>0, <3>5, TightTrim
    <3> QED
      BY <3>6 DEF s, z
  <2>3. \A j \in Nat : Nth(fat, q, j) \in Clusters => Nth(fat, q, j) # p
    <3> HIDE DEF p, q, s
    <3> SUFFICES ASSUME NEW j \in Nat, Nth(fat, q, j) \in Clusters, Nth(fat, q, j) = p
                 PROVE  FALSE
      OBVIOUS
    <3> DEFINE a == m + 1
               b == a + j
    <3>1. a \in Nat /\ b \in Nat /\ b # m /\ Nth(fat, s, a) = q
      BY <2>1
    <3> HIDE DEF a
    <3>2. Nth(fat, s, a + j) = Nth(fat, Nth(fat, s, a), j)
      BY <3>1, ChainShift
    <3>3. Nth(fat, s, b) = Nth(fat, s, m) /\ Nth(fat, s, b) \in Clusters
      BY <2>1, <3>1, <3>2
    <3> HIDE DEF b
    <3> QED
      BY <1>2, <2>1, <3>1, <3>3, HeadsType, ChainsApart
  <2>4. \A c \in Clusters : fat'[c] # 0 => Held(c)'
    <3> HIDE DEF p, q, s
    <3> SUFFICES ASSUME NEW c \in Clusters, fat'[c] # 0 PROVE Held(c)'
      OBVIOUS
    <3>1. fat[c] # 0
      BY <1>2, <2>1, ClusterFacts
    <3>2. InFile(c)
      BY <1>0, <3>1 DEF LostInv, Held
    <3>3. PICK g \in Files : \E h \in Heads[g] : \E n \in Nat : Nth(fat, h, n) = c
      BY <3>2 DEF InFile
    <3>4. PICK h \in Heads[g] : \E n \in Nat : Nth(fat, h, n) = c
      BY <3>3
    <3>5. PICK n \in Nat : Nth(fat, h, n) = c
      BY <3>4
    <3>6. Nth(fat', h, n) = c \/ \E j \in Nat : Nth(fat', q, j) = c
      <4>1. /\ p \in Clusters /\ q = fat[p] /\ n \in Nat /\ Nth(fat, h, n) \in Clusters
            /\ \A x \in Clusters : x # p => fat'[x] = fat[x]
        BY <1>2, <2>1, <3>5
      <4>2. Nth(fat', h, n) = Nth(fat, h, n)
              \/ \E j \in Nat : Nth(fat', q, j) = Nth(fat, h, n)
        BY ONLY <2>3, <4>1, CutChain
      <4> QED
        BY <3>5, <4>2
    <3>7. CASE Nth(fat', h, n) = c
      <4>1. h \in Heads'[g]
        BY <1>5
      <4> QED
        BY <3>7, <4>1 DEF Held, InFile
    <3>8. CASE \E j \in Nat : Nth(fat', q, j) = c
      BY <2>1, <3>8 DEF Held
    <3> QED
      BY <3>6, <3>7, <3>8
  <2>5. dirent'[f].clust = Cur.sclust /\ dirent'[f].size = Cur.fsize
    BY <1>0, <1>2
  <2>6. ASSUME NEW l \in Fcbs, fcb'[l].file = f
        PROVE  Paired(l)'
    <3>1. l = call.k
      BY <1>0, <1>2, <2>6
    <3>2. \A places : Closing(l, places)' <=> call'.at \in places
      BY <1>8, <3>1 DEF Closing
    <3> QED
      BY <1>0, <1>1, <1>2, <1>8, <3>1, <3>2 DEF Paired
  <2>7. ASSUME NEW l \in Fcbs, fcb[l].file # f
        PROVE  /\ ~Pending(l) /\ ~Pending(l)'
               /\ \A places : ~Closing(l, places) /\ ~Closing(l, places)'
    BY <1>0, <1>1, <1>2, <1>8, <2>7 DEF Pending, Closing
  <2>8. ASSUME NEW g \in Files, g # f, Tight(fat, dirent[g].clust, dirent[g].size)
        PROVE  Tight(fat', dirent[g].clust, dirent[g].size)
    <3> DEFINE e == dirent[g].clust
               z == dirent[g].size
    <3> HIDE DEF p, q, s
    <3>1. \A n \in Nat : Nth(fat, e, n) \in Clusters => Nth(fat, e, n) # Nth(fat, s, m)
      BY <2>1, <2>8, EntryApart
    <3>2. \A n \in Nat : Nth(fat, e, n) \in Clusters
                           => fat'[Nth(fat, e, n)] = fat[Nth(fat, e, n)]
      BY <1>2, <2>1, <3>1
    <3>3. Tight(fat, e, z)
      BY <2>8
    <3> HIDE DEF e, z
    <3>4. Tight(fat', e, z)
      BY <3>2, <3>3, TightKept
    <3> QED
      BY <3>4 DEF e, z
  <2> QED
    BY <1>0, <1>2, <1>8, <2>2, <2>4, <2>5, <2>6, <2>7, <2>8, OthersLost
<1> QED
  BY <1>9, <1>10

\* A file that became empty gives up its chain.
LEMMA TrimAllLost ==
  ASSUME IInv, CursorInv, LostInv, TrimAll
  PROVE  LostInv'
<1>0. call.op = "close" /\ call.at = "trim" /\ Cur.fsize = 0 /\ UNCHANGED fat
  BY DEF TrimAll
<1>1. PICK f \in Files : f = Cur.file
  BY <1>0, ClosingFacts
<1>2. /\ call.k \in Fcbs /\ Cur \in FcbRecords /\ Cur = fcb[call.k]
      /\ ~Cur.open /\ Cur.sizechg /\ fcb[call.k].file = f
      /\ \A l \in Fcbs : fcb[l].file = f => l = call.k
      /\ dirent[f] = [clust |-> Cur.sclust, size |-> 0]
      /\ DOMAIN dirent = Files /\ fcb \in [Fcbs -> FcbRecords]
  BY <1>0, <1>1, ClosingFacts DEF IInv, Shape
<1>3. /\ dirent[f].clust = Cur.sclust /\ dirent[f].size = 0
  BY <1>2
<1> DEFINE r == [Cur EXCEPT !.sclust = 0]
<1>4. CASE Cur.sclust = 0
  <2>1. UNCHANGED <<dirent, fcb>>
    BY <1>4 DEF TrimAll
  <2>2. call'.op = "close" /\ call'.k = call.k /\ call'.at = "flush"
    <3>1. DOMAIN call = {"op", "at", "k", "f", "n", "bytes", "c"}
      BY DEF IInv, Shape
    <3> QED
      BY <1>0, <1>4, <3>1 DEF TrimAll, Goto
  <2>3. Heads' = Heads
    BY <2>1, SameHeads
  <2>4. \A c \in Clusters : fat'[c] # 0 => Held(c)'
    BY <1>0, <2>3, StillHeld
  <2>5. Tight(fat', dirent'[f].clust, dirent'[f].size)
    <3>1. dirent'[f].clust = 0 /\ dirent'[f].size = 0
      BY <1>3, <1>4, <2>1
    <3> QED
      BY <3>1, TightEmpty
  <2>6. ASSUME NEW l \in Fcbs, fcb'[l].file = f
        PROVE  Paired(l)'
    <3>1. l = call.k
      BY <1>2, <2>1, <2>6
    <3>2. \A places : Closing(l, places)' <=> call'.at \in places
      BY <2>2, <3>1 DEF Closing
    <3> QED
      BY <1>0, <1>1, <1>2, <2>1, <2>2, <3>1, <3>2 DEF Paired
  <2>7. ASSUME NEW l \in Fcbs, fcb[l].file # f
        PROVE  /\ ~Pending(l) /\ ~Pending(l)'
               /\ \A places : ~Closing(l, places) /\ ~Closing(l, places)'
    BY <1>0, <1>2, <2>2, <2>7 DEF Pending, Closing
  <2> QED
    BY <1>0, <1>2, <2>1, <2>2, <2>4, <2>5, <2>6, <2>7, OthersLost
<1>5. CASE Cur.sclust # 0
  <2>1. /\ dirent' = [dirent EXCEPT ![Cur.file].clust = 0]
        /\ fcb' = [fcb EXCEPT ![call.k] = r]
    BY <1>2, <1>5 DEF TrimAll
  <2>2. /\ call'.op = "close" /\ call'.k = call.k /\ call'.at = "free"
        /\ call'.c = Cur.sclust
    <3>1. DOMAIN call = {"op", "at", "k", "f", "n", "bytes", "c"}
      BY DEF IInv, Shape
    <3> QED
      BY <1>0, <1>5, <3>1 DEF TrimAll, Free
  <2>3. /\ r.file = f /\ r.sclust = 0 /\ r.sizechg /\ ~r.open /\ r.fsize = 0
    BY <1>0, <1>1, <1>2 DEF FcbRecords
  <2> HIDE DEF r
  <2>4. fcb'[call.k] = r /\ \A l \in Fcbs : l # call.k => fcb'[l] = fcb[l]
    BY <1>2, <2>1
  <2>5. /\ dirent'[f] = [clust |-> 0, size |-> 0]
        /\ \A g \in Files : g # f => dirent'[g] = dirent[g]
        /\ DOMAIN dirent' = Files
    <3>1. dirent' = [dirent EXCEPT ![f] = [dirent[f] EXCEPT !.clust = 0]]
      BY <1>1, <2>1
    <3> QED
      BY <1>2, <3>1
  <2>6. Tight(fat', dirent'[f].clust, dirent'[f].size)
    <3>1. dirent'[f].clust = 0 /\ dirent'[f].size = 0
      BY <2>5
    <3> QED
      BY <3>1, TightEmpty
  <2>7. ASSUME NEW l \in Fcbs, fcb'[l].file = f
        PROVE  Paired(l)'
    <3>1. l = call.k
      BY <1>2, <2>4, <2>7
    <3>2. \A places : Closing(l, places)' <=> call'.at \in places
      BY <2>2, <3>1 DEF Closing
    <3> QED
      BY <1>2, <2>2, <2>3, <2>4, <2>5, <3>1, <3>2 DEF Paired
  <2>8. ASSUME NEW l \in Fcbs, fcb[l].file # f
        PROVE  /\ ~Pending(l) /\ ~Pending(l)'
               /\ \A places : ~Closing(l, places) /\ ~Closing(l, places)'
    BY <1>0, <1>2, <2>2, <2>8 DEF Pending, Closing
  <2>9. \A l \in Fcbs : fcb[l].file # f => fcb'[l] = fcb[l]
    BY <1>2, <2>4
  <2>10. \A l \in Fcbs : fcb'[l].file # f => fcb[l].file # f
    BY <1>2, <2>3, <2>4
  <2>11. \A c \in Clusters : fat'[c] # 0 => Held(c)'
    <3> SUFFICES ASSUME NEW c \in Clusters, fat[c] # 0 PROVE Held(c)'
      BY <1>0
    <3>1. InFile(c)
      BY <1>0 DEF LostInv, Held
    <3>2. PICK g \in Files : \E h \in Heads[g] : \E n \in Nat : Nth(fat, h, n) = c
      BY <3>1 DEF InFile
    <3>3. PICK h \in Heads[g] : \E n \in Nat : Nth(fat, h, n) = c
      BY <3>2
    <3>4. CASE g = f
      <4>1. h = Cur.sclust
        <5>1. CASE h \in EntryHeads[f]
          BY <1>3, <5>1 DEF EntryHeads
        <5>2. CASE h \notin EntryHeads[f]
          <6>1. PICK l \in OpenOn(f) : h = fcb[l].sclust
            BY <3>4, <5>2 DEF Heads
          <6> QED
            BY <1>2, <6>1 DEF OpenOn
        <5> QED
          BY <5>1, <5>2
      <4> QED
        BY <1>0, <2>2, <3>3, <4>1 DEF Held
    <3>5. CASE g # f
      <4>1. h \in Heads'[g]
        <5>1. CASE h \in EntryHeads[g]
          BY <2>5, <3>5, <5>1 DEF Heads, EntryHeads
        <5>2. CASE h \notin EntryHeads[g]
          <6>1. PICK l \in OpenOn(g) : h = fcb[l].sclust
            BY <5>2 DEF Heads
          <6>2. l \in OpenOn(g)' /\ fcb'[l].sclust = h
            BY <2>9, <3>5, <6>1 DEF OpenOn
          <6> QED
            BY <6>2, HeadsType DEF Heads
        <5> QED
          BY <5>1, <5>2
      <4> QED
        BY <1>0, <3>3, <4>1 DEF Held, InFile
    <3> QED
      BY <3>4, <3>5
  <2> QED
    BY <1>0, <1>2, <2>2, <2>5, <2>6, <2>7, <2>8, <2>9, <2>10, <2>11, OthersLost
<1> QED
  BY <1>4, <1>5

\* _free_chain frees a cluster of a chain that belongs to the call.
LEMMA FreeLost ==
  ASSUME IInv, CursorInv, LostInv, FreeOne
  PROVE  LostInv'
<1>0. /\ call.at = "free" /\ fat' = [fat EXCEPT ![call.c] = 0]
      /\ UNCHANGED <<dirent, fcb>> /\ Orphan(fat, Heads, call.c)
      /\ call.op \in {"close", "delete"}
  BY DEF FreeOne, IInv, CallHolds, CallOK
<1> DEFINE p == call.c
           q == fat[call.c]
<1>1. /\ p \in Clusters /\ fat[p] # 0 /\ \A d \in Clusters : fat[d] # p
      /\ fat \in [Clusters -> Links]
  BY <1>0, FatTypes DEF Orphan
<1>2. fat'[p] = 0 /\ \A d \in Clusters : d # p => fat'[d] = fat[d]
  BY <1>0, <1>1
<1>3. /\ call'.op = call.op /\ call'.k = call.k /\ call'.at \in {"free", "flush"}
      /\ q # Eoc => call'.at = "free" /\ call'.c = q
  <2>1. DOMAIN call = {"op", "at", "k", "f", "n", "bytes", "c"}
    BY DEF IInv, Shape
  <2>2. CASE q = Eoc
    BY <1>0, <2>1, <2>2 DEF FreeOne, Goto
  <2>3. CASE q # Eoc
    BY <1>0, <2>1, <2>3 DEF FreeOne, Free
  <2> QED
    BY <2>2, <2>3
<1>4. Heads' = Heads
  BY <1>0, SameHeads
<1>5. \A l \in Fcbs :
        /\ ~Pending(l) /\ ~Pending(l)'
        /\ ~Closing(l, {"size", "trim"}) /\ ~Closing(l, {"size", "trim"})'
        /\ Closing(l, {"trim", "free", "flush"}) <=> Closing(l, {"trim", "free", "flush"})'
        /\ Closing(l, {"size", "trim", "free", "flush"})
             <=> Closing(l, {"size", "trim", "free", "flush"})'
  BY <1>0, <1>3 DEF Pending, Closing
<1>6. Settled'
  <2> SUFFICES ASSUME NEW g \in Files, dirent'[g] # Absent,
                      \A l \in OpenOn(g)' : ~Unsettled(l)'
               PROVE  Tight(fat, dirent[g].clust, dirent[g].size)'
    BY DEF Settled
  <2>1. \A l \in Fcbs : Unsettled(l) <=> Unsettled(l)'
    BY <1>0, <1>5 DEF Unsettled
  <2>2. \A l \in OpenOn(g) : ~Unsettled(l)
    BY <1>0, <2>1 DEF OpenOn
  <2>3. Tight(fat, dirent[g].clust, dirent[g].size)
    BY <1>0, <2>2 DEF LostInv, Settled
  <2> DEFINE e == dirent[g].clust
             s == dirent[g].size
  <2>4. \A n \in Nat : Nth(fat, e, n) \in Clusters
                         => fat'[Nth(fat, e, n)] = fat[Nth(fat, e, n)]
    <3> SUFFICES ASSUME NEW n \in Nat, Nth(fat, e, n) \in Clusters
                 PROVE  Nth(fat, e, n) # p
      BY <1>2
    <3>1. e \in Heads[g] /\ Orphan(fat, Heads, p)
      BY <1>0, EntryChain
    <3> HIDE DEF e, p
    <3> QED
      BY <3>1, OrphanBeside
  <2>5. Tight(fat, e, s)
    BY <2>3
  <2> HIDE DEF e, s
  <2>6. Tight(fat', e, s)
    BY ONLY <2>4, <2>5, TightKept
  <2>7. Tight(fat', dirent[g].clust, dirent[g].size)
    BY <2>6 DEF e, s
  <2> QED
    BY <1>0, <2>7 DEF Tight
<1>7. AllPaired'
  <2> SUFFICES ASSUME NEW l \in Fcbs, fcb'[l].file \in Files PROVE Paired(l)'
    BY DEF AllPaired
  <2>1. Paired(l)
    BY <1>0 DEF LostInv, AllPaired
  <2> QED
    BY <1>0, <1>5, <2>1 DEF Paired
<1>8. \A d \in Clusters : fat'[d] # 0 => Held(d)'
  <2> SUFFICES ASSUME NEW d \in Clusters, fat'[d] # 0 PROVE Held(d)'
    OBVIOUS
  <2>1. d # p /\ fat[d] # 0
    BY <1>2
  <2>2. CASE InFile(d)
    <3>1. PICK g \in Files : \E h \in Heads[g] : \E n \in Nat : Nth(fat, h, n) = d
      BY <2>2 DEF InFile
    <3>2. PICK h \in Heads[g] : \E n \in Nat : Nth(fat, h, n) = d
      BY <3>1
    <3>3. PICK n \in Nat : Nth(fat, h, n) = d
      BY <3>2
    <3>4. \A i \in Nat : Nth(fat, h, i) \in Clusters => Nth(fat, h, i) # p
      BY <1>0, OrphanBeside
    <3>5. Nth(fat', h, n) = Nth(fat, h, n)
      <4>1. \A i \in Nat : Nth(fat, h, i) \in Clusters
                             => fat'[Nth(fat, h, i)] = fat[Nth(fat, h, i)]
        BY <1>2, <3>4
      <4>2. \A i \in Nat : Nth(fat', h, i) = Nth(fat, h, i)
        BY ONLY <4>1, ChainSame
      <4> QED
        BY <4>2
    <3>6. h \in Heads'[g]
      BY <1>4
    <3> QED
      BY <3>3, <3>5, <3>6 DEF Held, InFile
  <2>3. CASE ~InFile(d)
    <3>1. PICK n \in Nat : Nth(fat, p, n) = d
      BY <1>0, <2>1, <2>3 DEF LostInv, Held
    <3>2. n # 0
      BY <2>1, <3>1, NthStep
    <3> DEFINE j == n - 1
    <3>3. j \in Nat /\ 1 + j = n /\ 1 \in Nat /\ j + 1 = n
      BY <3>2
    <3>4. Nth(fat, p, 1) = q
      <4>1. Nth(fat, p, 0) = p /\ Nth(fat, p, 0 + 1) = Link(fat, Nth(fat, p, 0))
        BY NthStep
      <4> QED
        BY <1>1, <4>1 DEF Link
    <3> HIDE DEF j, p, q
    <3>5. Nth(fat, p, 1 + j) = Nth(fat, Nth(fat, p, 1), j)
      BY <3>3, ChainShift
    <3>6. Nth(fat, q, j) = d
      BY <3>1, <3>3, <3>4, <3>5
    <3>7. q # Eoc
      <4> SUFFICES ASSUME q = Eoc PROVE FALSE
        OBVIOUS
      <4>1. Nth(fat, p, 1) \notin Clusters /\ 1 <= n /\ 1 \in Nat
        BY <3>3, <3>4, ClusterFacts
      <4>2. Nth(fat, p, n) \notin Clusters
        BY <4>1, ChainEnds
      <4> QED
        BY <3>1, <4>2
    <3>8. call'.at = "free" /\ call'.c = q
      BY <1>3, <3>7 DEF q
    <3>9. q # p
      BY <1>1 DEF p, q
    <3>10. \A i \in Nat : Nth(fat, q, i) \in Clusters => Nth(fat, q, i) # p
      <4> SUFFICES ASSUME NEW i \in Nat, Nth(fat, q, i) \in Clusters PROVE Nth(fat, q, i) # p
        OBVIOUS
      <4>1. CASE i = 0
        BY <3>9, <4>1, NthStep
      <4>2. CASE i # 0
        <5>1. i - 1 \in Nat /\ (i - 1) + 1 = i
          BY <4>2
        <5>2. Nth(fat, q, i - 1) \in Clusters /\ fat[Nth(fat, q, i - 1)] = Nth(fat, q, i)
          BY <5>1, NthNext
        <5> QED
          BY <1>1, <5>2
      <4> QED
        BY <4>1, <4>2
    <3>11. Nth(fat', q, j) = Nth(fat, q, j)
      <4>1. \A i \in Nat : Nth(fat, q, i) \in Clusters
                             => fat'[Nth(fat, q, i)] = fat[Nth(fat, q, i)]
        BY <1>2, <3>10 DEF p
      <4>2. \A i \in Nat : Nth(fat', q, i) = Nth(fat, q, i)
        BY ONLY <4>1, ChainSame
      <4> QED
        BY <3>3, <4>2
    <3> QED
      BY <3>3, <3>6, <3>8, <3>11 DEF Held
  <2> QED
    BY <2>2, <2>3
<1> QED
  BY <1>3, <1>6, <1>7, <1>8 DEF LostInv

\* Every step in which nothing fails.
LEMMA LostStep ==
  ASSUME IInv, CursorInv, LostInv, Clean, Clean', [Step]_state
  PROVE  LostInv'
<1>1. CASE Caller
  <2>1. CASE \E k \in Fcbs, f \in Files, mode \in 0 .. 2 : OpenCall(k, f, mode)
    BY <2>1, OpenLost
  <2>2. CASE \E k \in Fcbs, target \in 0 .. MaxSize : SeekCall(k, target)
    BY <2>2, CallLost
  <2>3. CASE \E k \in Fcbs, n \in 1 .. MaxRequest : ReadCall(k, n)
    BY <2>3, CallLost
  <2>4. CASE \E k \in Fcbs, bytes \in Requests : FewMarks(bytes) /\ WriteCall(k, bytes)
    BY <2>4, CallLost
  <2>5. CASE \E k \in Fcbs : CloseCall(k)
    BY <2>5, CloseCallLost DEF Clean
  <2>6. CASE \E f \in Files : DeleteCall(f)
    BY <2>6, DeleteLost
  <2> QED
    BY <1>1, <2>1, <2>2, <2>3, <2>4, <2>5, <2>6 DEF Caller
<1>2. CASE Kernel
  <2>1. CASE ReadSector \/ ReadFails \/ ReadChunk \/ ReadDone
    BY <2>1, ReadLost
  <2>2. CASE \/ WriteSector \/ WriteSectorFails \/ WriteChunkFails \/ LinkFails
             \/ WriteFirstFails \/ GrowFull \/ WriteDone
    BY <2>2, WriteQuietLost
  <2>3. CASE WriteFirst \/ Grow \/ LinkNew \/ WriteChunk
    BY <2>3, FirstLost, GrowLost, LinkLost, ChunkLost DEF Clean
  <2>4. CASE CloseSize \/ Trim \/ TrimAll
    BY <2>4, CloseSizeLost, TrimLost, TrimAllLost
  <2>5. CASE FreeOne \/ FlushLast \/ FlushFails
    BY <2>5, FreeLost, FlushLost
  <2>6. ~CloseFails /\ ~FreeFails
    BY CleanStep DEF CloseFails, FreeFails
  <2> QED
    BY <1>2, <2>1, <2>2, <2>3, <2>4, <2>5, <2>6 DEF Kernel
<1>3. CASE Sync \/ UNCHANGED state
  BY <1>3, SameLost DEF Sync, state
<1>4. ~Crash
  BY CleanStep
<1> QED
  BY <1>1, <1>2, <1>3, <1>4 DEF Step

\* An empty volume.
LEMMA InitLost ==
  ASSUME Init
  PROVE  LostInv
<1>1. \A f \in Files : dirent[f] = Absent
  BY DEF Init
<1>2. \A k \in Fcbs : fcb[k].file \notin Files
  BY FileConstants DEF Init, Closed
<1>3. \A c \in Clusters : fat[c] = 0
  BY DEF Init
<1>4. call.at = ""
  BY DEF Init, Idle
<1> QED
  BY <1>1, <1>2, <1>3, <1>4 DEF LostInv, Settled, AllPaired

\* A chain that is as long as its file needs has the capacity for it, and less
\* than a cluster more.
LEMMA TightCapacity ==
  ASSUME NEW t, NEW c, NEW size \in 0 .. MaxSize, Tight(t, c, size)
  PROVE  Capacity(t, c) \in size .. size + ClusterBytes - 1
<1> DEFINE S == {i \in 0 .. LastCluster : Nth(t, c, i) \in Clusters}
           Enough == {i \in Nat : size <= i * ClusterBytes}
<1>0. size \in Nat
  BY MaxSizeFact
<1>1. PICK m \in Enough : \A y \in Enough : m <= y
  <2>1. LastCluster - 1 \in Enough
    BY MaxSizeFact, VolumeConstants
  <2>2. Enough \in SUBSET Nat /\ Enough # {}
    BY <2>1
  <2> HIDE DEF Enough
  <2> QED
    BY <2>2, Least
<1>2. m \in Nat /\ size <= m * ClusterBytes /\ m <= LastCluster - 1
  <2>1. LastCluster - 1 \in Enough
    BY MaxSizeFact, VolumeConstants
  <2> QED
    BY <1>1, <2>1
<1>3. m # 0 => (m - 1) * ClusterBytes < size
  <2> SUFFICES ASSUME m # 0, ~((m - 1) * ClusterBytes < size) PROVE FALSE
    OBVIOUS
  <2>1. m - 1 \in Nat /\ ~(m <= m - 1)
    BY <1>2
  <2>2. (m - 1) * ClusterBytes \in Nat
    BY <2>1, SizeFacts
  <2>3. size <= (m - 1) * ClusterBytes
    BY <1>0, <2>2
  <2>4. m - 1 \in Enough
    BY <2>1, <2>3
  <2> QED
    BY <1>1, <2>1, <2>4
<1>4. S = 0 .. m - 1
  <2>1. ASSUME NEW i \in Nat, i < m
        PROVE  i \in S
    <3>1. i * ClusterBytes <= (m - 1) * ClusterBytes
      BY <1>2, <2>1, SizeFacts
    <3>2. i * ClusterBytes \in Nat /\ (m - 1) * ClusterBytes \in Nat
      BY <1>2, <2>1, SizeFacts
    <3>3. i * ClusterBytes < size
      BY <1>0, <1>2, <1>3, <2>1, <3>1, <3>2
    <3> QED
      BY <1>2, <2>1, <3>3, VolumeConstants DEF Tight
  <2>2. ASSUME NEW i \in S
        PROVE  i < m
    <3> SUFFICES ASSUME m <= i PROVE FALSE
      BY <1>2, VolumeConstants
    <3>0. i \in Nat
      BY VolumeConstants
    <3>1. m * ClusterBytes <= i * ClusterBytes
      BY <1>2, <3>0, SizeFacts
    <3>2. m * ClusterBytes \in Nat /\ i * ClusterBytes \in Nat
      BY <1>2, <3>0, SizeFacts
    <3>3. ~(i * ClusterBytes < size)
      BY <1>0, <1>2, <3>1, <3>2
    <3> QED
      BY <3>0, <3>3 DEF Tight
  <2>3. \A i \in S : i \in Nat
    BY VolumeConstants
  <2> HIDE DEF S
  <2>4. \A i : i \in 0 .. m - 1 <=> i \in Nat /\ i < m
    BY <1>2
  <2> QED
    BY <2>1, <2>2, <2>3, <2>4
<1>5. Cardinality(S) = m
  <2>1. 0 \in Int /\ m - 1 \in Int /\ (0 > m - 1 => m = 0)
    BY <1>2
  <2>2. Cardinality(0 .. m - 1) = IF 0 > m - 1 THEN 0 ELSE m - 1 - 0 + 1
    BY <2>1, FS_Interval
  <2>3. Cardinality(0 .. m - 1) = m
    BY <1>2, <2>1, <2>2
  <2> HIDE DEF S
  <2> QED
    BY <1>4, <2>3
<1>6. Capacity(t, c) = ClusterBytes * m
  <2>1. Capacity(t, c) = ClusterBytes * Cardinality(S)
    BY DEF Capacity
  <2> HIDE DEF S
  <2> QED
    BY <1>5, <2>1
<1> DEFINE A == m * ClusterBytes
           B == (m - 1) * ClusterBytes
<1>7. /\ Capacity(t, c) = A /\ A \in Nat /\ size <= A
      /\ m = 0 => A = 0
      /\ m # 0 => B < size /\ A = B + ClusterBytes /\ B \in Nat
  BY <1>2, <1>3, <1>6, SizeFacts
<1> HIDE DEF A, B
<1> QED
  BY <1>0, <1>7, SizeFacts

\* With all FCBs closed nothing is pending, and the invariant says that no
\* cluster is lost.
LEMMA NoneLost ==
  ASSUME IInv, CursorInv, Clean => LostInv
  PROVE  NoLostClusters
<1> SUFFICES ASSUME call.op = "idle", Clean, \A k \in Fcbs : fcb[k] = Closed
             PROVE  /\ \A f \in Files : dirent[f] # Absent =>
                         Capacity(fat, dirent[f].clust)
                           \in dirent[f].size .. dirent[f].size + ClusterBytes - 1
                    /\ \A c \in Clusters : fat[c] # 0 =>
                         \E f \in Files, n \in 0 .. LastCluster :
                           Nth(fat, dirent[f].clust, n) = c
  BY DEF NoLostClusters, Clean
<1>1. \A f \in Files : OpenOn(f) = {}
  <2>1. Closed.file = NoFile
    BY DEF Closed
  <2> QED
    BY <2>1, FileConstants DEF OpenOn
<1>2. LostInv /\ call.at = ""
  BY DEF IInv, CallOK
<1>3. ASSUME NEW f \in Files, dirent[f] # Absent
      PROVE  Capacity(fat, dirent[f].clust)
               \in dirent[f].size .. dirent[f].size + ClusterBytes - 1
  <2>1. Tight(fat, dirent[f].clust, dirent[f].size)
    BY <1>1, <1>2, <1>3 DEF LostInv, Settled
  <2>2. dirent[f].size \in 0 .. MaxSize
    BY <1>3 DEF CursorInv, StateOK
  <2> QED
    BY <2>1, <2>2, TightCapacity
<1>4. ASSUME NEW c \in Clusters, fat[c] # 0
      PROVE  \E f \in Files, n \in 0 .. LastCluster : Nth(fat, dirent[f].clust, n) = c
  <2>1. InFile(c)
    BY <1>2, <1>4 DEF LostInv, Held
  <2>2. PICK f \in Files : \E h \in Heads[f] : \E n \in Nat : Nth(fat, h, n) = c
    BY <2>1 DEF InFile
  <2>3. PICK h \in Heads[f] : \E n \in Nat : Nth(fat, h, n) = c
    BY <2>2
  <2>4. PICK n \in Nat : Nth(fat, h, n) = c
    BY <2>3
  <2>5. h = dirent[f].clust
    BY <1>1 DEF Heads, EntryHeads
  <2>6. n <= LastCluster - 2
    BY <2>4, HeadsType, ChainShort DEF IInv, FatSole
  <2>7. n \in 0 .. LastCluster
    BY <2>6, VolumeConstants
  <2> QED
    BY <2>4, <2>5, <2>7
<1> QED
  BY <1>3, <1>4

\* Nothing has failed in a state only if nothing had before.
LEMMA CleanBefore ==
  ASSUME Counted, Either => CursorInv, [Step]_state, Clean'
  PROVE  Clean /\ Either
<1>1. Fault \/ Crash \/ UNCHANGED faults
  BY EveryStepCounted
<1>2. ~Crash /\ ~WriteFault
  BY DEF Counted, Clean, Crash, WriteFault
<1>3. Either
  BY <1>1, <1>2 DEF Fault, ReadFault, Counted, Clean, Either
<1>4. faults.read \in Nat
  <2>1. faults \in FaultRecords
    BY <1>3, PartsOf
  <2> QED
    BY <2>1, FileConstants DEF FaultRecords
<1>5. ~ReadFault
  BY <1>4 DEF Counted, Clean, ReadFault
<1> QED
  BY <1>1, <1>2, <1>3, <1>5 DEF Clean, Fault

\* While nothing has failed and nothing was restarted, the space on the volume
\* is what its files need: with no file open every cluster in use is in the
\* chain of a file, and no chain is longer than the file's size asks for.
\* Whatever was opened, written, grown, truncated, cut, closed and deleted, in
\* whatever order, and with a full volume, too.
THEOREM NothingLost == Spec => []NoLostClusters
<1> DEFINE Inv == Counted /\ (Either => IInv /\ CursorInv) /\ (Clean => LostInv)
<1>1. Init => Inv
  BY InitSafe, InitCursor, InitLost, InitCounted
<1>2. Inv /\ [Next]_vars => Inv'
  <2> SUFFICES ASSUME Inv, [Step]_state PROVE Inv'
    BY StepOfNext
  <2>1. Counted' /\ (Either' => IInv' /\ CursorInv')
    BY CountedStep, EveryStepCounted, NextSafe, CursorStep
  <2>2. ASSUME Clean' PROVE LostInv'
    BY <2>2, CleanBefore, LostStep
  <2> QED
    BY <2>1, <2>2
<1>3. Inv => NoLostClusters
  <2> SUFFICES ASSUME Inv, Clean PROVE NoLostClusters
    BY DEF NoLostClusters, Clean
  <2>1. Either
    BY DEF Clean, Either
  <2> QED
    BY <2>1, NoneLost
<1> QED
  BY <1>1, <1>2, <1>3, PTL DEF Spec
-----------------------------------------------------------------------------
(* Files as sequences of bytes.                                            *)

\* The bytes of a chain, for the FAT t and the data sectors d.
Image(t, d, c, size) ==
  [i \in 1 .. size |->
     d[<<Nth(t, c, (i - 1) \div ClusterBytes),
         ((i - 1) \div SecSize) % Spc>>][(i - 1) % SecSize]]

\* What an FCB, its file's entry and the call in progress say of each other,
\* whichever reads have failed.
Matching(k) ==
  LET r == fcb[k]
      e == dirent[r.file]
  IN  /\ r.open \/ (call.op = "close" /\ k = call.k)
      /\ r.open /\ ~r.sizechg => e = [clust |-> r.sclust, size |-> r.fsize]

\* A buffer that counts as valid holds its sector.
Buffered(d, r) == r.open /\ r.iovalid
                    => r.cclust \in Clusters /\ r.iobuf = d[SectorOf(r)]

BytesInv ==
  /\ faults.crash = 0
  /\ \A k \in Fcbs : fcb[k].file \in Files => Matching(k)
  /\ \A k \in Fcbs : Buffered(data, fcb[k])

\* The byte of a file, and the cluster it is in.
LEMMA ByteInside ==
  ASSUME NEW size \in Nat, NEW i \in 1 .. size
  PROVE  /\ (i - 1) \div ClusterBytes \in Nat
         /\ ((i - 1) \div ClusterBytes) * ClusterBytes < size
         /\ ((i - 1) \div SecSize) % Spc \in 0 .. Spc - 1
         /\ (i - 1) % SecSize \in 0 .. SecSize - 1
<1> DEFINE b == i - 1
           n == b \div ClusterBytes
           s == (b \div SecSize) % Spc
           o == b % SecSize
<1>1. b \in Nat /\ b < size
  OBVIOUS
<1> HIDE DEF b
<1>2. /\ n \in Nat /\ s \in 0 .. Spc - 1 /\ o \in 0 .. SecSize - 1
      /\ b = n * ClusterBytes + s * SecSize + o
  BY <1>1, ByteAt
<1> HIDE DEF n, s, o
<1>3. n * ClusterBytes \in Nat /\ s * SecSize \in Nat
  BY <1>2, SizeFacts
<1>4. n * ClusterBytes < size
  BY <1>1, <1>2, <1>3
<1> QED
  BY <1>2, <1>4 DEF b, n, s, o

\* Chains and sectors that stay the same hold the same bytes.
LEMMA ImageSame ==
  ASSUME NEW t, NEW u, NEW d, NEW e, NEW c, NEW size \in Nat,
         \A n \in Nat : n * ClusterBytes < size =>
           /\ Nth(u, c, n) = Nth(t, c, n)
           /\ \A s \in 0 .. Spc - 1 : e[<<Nth(t, c, n), s>>] = d[<<Nth(t, c, n), s>>]
  PROVE  Image(u, e, c, size) = Image(t, d, c, size)
<1> SUFFICES ASSUME NEW i \in 1 .. size
             PROVE  e[<<Nth(u, c, (i - 1) \div ClusterBytes),
                        ((i - 1) \div SecSize) % Spc>>][(i - 1) % SecSize]
                  = d[<<Nth(t, c, (i - 1) \div ClusterBytes),
                        ((i - 1) \div SecSize) % Spc>>][(i - 1) % SecSize]
  BY DEF Image
<1> DEFINE n == (i - 1) \div ClusterBytes
           s == ((i - 1) \div SecSize) % Spc
<1>1. n \in Nat /\ n * ClusterBytes < size /\ s \in 0 .. Spc - 1
  BY ByteInside
<1> HIDE DEF n, s
<1>2. e[<<Nth(u, c, n), s>>] = d[<<Nth(t, c, n), s>>]
  BY <1>1
<1> QED
  BY <1>2 DEF n, s

\* An empty file has no bytes, wherever it starts.
LEMMA ImageEmpty ==
  ASSUME NEW t, NEW d, NEW c
  PROVE  Image(t, d, c, 0) = <<>>
BY DEF Image

\* It is a sequence as long as the file.
LEMMA ImageLen ==
  ASSUME NEW t, NEW d, NEW c, NEW size \in Nat
  PROVE  Len(Image(t, d, c, size)) = size /\ DOMAIN Image(t, d, c, size) = 1 .. size
BY DEF Image

-----------------------------------------------------------------------------
(* What the abstract file holds.                                           *)

\* The FCB is ahead of its file's entry.
Live(fs, at, k) == fs[k].write /\ (fs[k].open \/ at = "size")

\* The content of a file, for the FAT t, the sectors d, the entries e and the
\* FCBs fs.
View(t, d, e, fs, at, f) ==
  LET ahead == {k \in Fcbs : fs[k].file = f /\ Live(fs, at, k)}
  IN  IF e[f] = Absent THEN {}
      ELSE IF ahead = {} THEN {Image(t, d, e[f].clust, e[f].size)}
      ELSE {Image(t, d, fs[k].sclust, fs[k].fsize) : k \in ahead}

\* Before anything has failed but reads, that is what Contents says.
LEMMA ContentsNow ==
  ASSUME ~Disturbed, NEW f \in Files
  PROVE  Contents[f] = View(fat, data, dirent, fcb, call.at, f)
BY DEF Contents, Disturbed, View, Writers, OpenOn, Live, BytesOf, Image

\* After a step as well.
LEMMA ContentsNext ==
  ASSUME ~Disturbed', NEW f \in Files
  PROVE  Contents'[f] = View(fat', data', dirent', fcb', call'.at, f)
BY DEF Contents, Disturbed, View, Writers, OpenOn, Live, BytesOf, Image

\* Contents is a function of the files.
LEMMA ContentsShape ==
  /\ DOMAIN Contents = Files /\ DOMAIN Contents' = Files
  /\ Contents = [f \in Files |-> Contents[f]]
  /\ Contents' = [f \in Files |-> Contents'[f]]
BY DEF Contents

\* A file that no FCB is ahead of holds what its entry says.
LEMMA ViewEntry ==
  ASSUME NEW t, NEW d, NEW e, NEW fs, NEW at, NEW f, e[f] # Absent,
         \A k \in Fcbs : fs[k].file = f => ~Live(fs, at, k)
  PROVE  View(t, d, e, fs, at, f) = {Image(t, d, e[f].clust, e[f].size)}
BY DEF View

\* A file that one FCB is ahead of holds what that one says.
LEMMA ViewLive ==
  ASSUME NEW t, NEW d, NEW e, NEW fs, NEW at, NEW f, e[f] # Absent,
         NEW k \in Fcbs, fs[k].file = f, Live(fs, at, k),
         \A l \in Fcbs : fs[l].file = f => l = k
  PROVE  View(t, d, e, fs, at, f) = {Image(t, d, fs[k].sclust, fs[k].fsize)}
<1>1. {l \in Fcbs : fs[l].file = f /\ Live(fs, at, l)} = {k}
  OBVIOUS
<1>2. {Image(t, d, fs[l].sclust, fs[l].fsize) : l \in {k}}
        = {Image(t, d, fs[k].sclust, fs[k].fsize)}
  OBVIOUS
<1> QED
  BY <1>1, <1>2 DEF View

\* To the program that has it open, a file has the size its FCB says and the
\* bytes of the chain its FCB starts.
LEMMA OpenContent ==
  ASSUME IInv, CursorInv, BytesInv, ~Disturbed, NEW k \in Fcbs,
         fcb[k].file \in Files, fcb[k].open
  PROVE  Contents[fcb[k].file] = {Image(fat, data, fcb[k].sclust, fcb[k].fsize)}
<1> DEFINE f == fcb[k].file
<1>1. dirent[f] # Absent
  BY DEF CursorInv
<1>2. CASE fcb[k].write
  <2>1. Live(fcb, call.at, k)
    BY <1>2 DEF Live
  <2>2. \A l \in Fcbs : fcb[l].file = f => l = k
    BY <1>2, OnlyWriter
  <2> QED
    BY <1>1, <2>1, <2>2, ViewLive, ContentsNow
<1>3. CASE ~fcb[k].write
  <2>1. \A l \in Fcbs : fcb[l].file = f => ~Live(fcb, call.at, l)
    BY <1>3, OnlyWriter DEF Live
  <2>2. ~fcb[k].sizechg
    BY <1>3 DEF IInv, Shape, IsFcb
  <2>3. dirent[f] = [clust |-> fcb[k].sclust, size |-> fcb[k].fsize]
    BY <2>2 DEF BytesInv, Matching
  <2>4. dirent[f].clust = fcb[k].sclust /\ dirent[f].size = fcb[k].fsize
    BY <2>3
  <2> QED
    BY <1>1, <2>1, <2>4, ViewEntry, ContentsNow
<1> QED
  BY <1>2, <1>3

-----------------------------------------------------------------------------
(* What a step leaves of the bytes on the disk.                            *)

\* Only a chunk written changes a data sector.
LEMMA OnlyChunks ==
  ASSUME [Step]_state
  PROVE  WriteChunk \/ UNCHANGED data
<1>1. CASE Caller
  BY <1>1 DEF Caller, OpenCall, SeekCall, ReadCall, WriteCall, CloseCall, DeleteCall
<1>2. CASE \/ ReadSector \/ ReadFails \/ ReadChunk \/ ReadDone \/ WriteSector
           \/ WriteSectorFails \/ GrowFull \/ LinkFails \/ Grow \/ LinkNew
  BY <1>2 DEF ReadSector, ReadFails, ReadChunk, ReadDone, WriteSector,
     WriteSectorFails, GrowFull, LinkFails, Grow, LinkNew
<1>3. CASE WriteFirst \/ WriteFirstFails
  BY <1>3 DEF WriteFirst, WriteFirstFails, FirstCluster
<1>4. CASE \/ WriteChunkFails \/ WriteDone \/ CloseSize \/ CloseFails \/ Trim
           \/ TrimAll \/ FreeOne \/ FreeFails \/ FlushLast \/ FlushFails
           \/ Sync \/ Crash \/ UNCHANGED state
  BY <1>4 DEF WriteChunkFails, WriteDone, CloseSize, CloseFails, Trim,
     TrimAll, FreeOne, FreeFails, FlushLast, FlushFails, Sync, Crash, state
<1> QED
  BY SMTT(30), <1>1, <1>2, <1>3, <1>4 DEF Step, Kernel

\* Where the FCB of file_write is: on a cluster of its own file's chain.
LEMMA WriterAt ==
  ASSUME IInv, CursorInv, WriteMore
  PROVE  /\ Cur.file \in Files /\ Cur.sclust \in Heads[Cur.file]
         /\ \E N \in Nat : /\ Cur.cclust = Nth(fat, Cur.sclust, N)
                           /\ Cur.fpos = N * ClusterBytes + Cur.csect * SecSize + Cur.boff
<1>1. call.k \in Fcbs /\ Cur.file \in Files /\ Cur = fcb[call.k]
  BY DEF IInv, CallOK, WriteMore, Cur
<1>2. Cur.cclust \in Clusters /\ Steady(faults, fat, Cur)
  BY WriteThere, CurCursor DEF WriteMore
<1>3. PICK N \in Nat : /\ Cur.cclust = Nth(fat, Cur.sclust, N)
                       /\ Cur.fpos = N * ClusterBytes + Cur.csect * SecSize + Cur.boff
  BY <1>2, ClusterFacts DEF Steady, Placed
<1>4. Nth(fat, fcb[call.k].sclust, N) \in Clusters
  BY <1>1, <1>2, <1>3
<1>5. fcb[call.k].sclust \in Heads[fcb[call.k].file]
  BY <1>1, <1>4, ChainOf
<1> QED
  BY <1>1, <1>3, <1>5

\* No other file has that cluster in its chain.
LEMMA WriterApart ==
  ASSUME IInv, CursorInv, WriteMore, NEW f \in Files, f # Cur.file,
         NEW c \in Heads[f], NEW n \in Nat, Nth(fat, c, n) \in Clusters
  PROVE  Nth(fat, c, n) # Cur.cclust
<1>1. PICK g \in Files : g = Cur.file
  BY WriterAt
<1>2. PICK h \in Heads[g] : h = Cur.sclust
  BY <1>1, WriterAt
<1>3. PICK N \in Nat : Cur.cclust = Nth(fat, h, N)
  BY <1>2, WriterAt
<1>4. Sole(fat, Heads) /\ \A x \in Files : Heads[x] \subseteq Clusters
  BY HeadsType DEF IInv, FatSole
<1>5. Nth(fat, c, n) # Nth(fat, h, N)
  BY <1>1, <1>4, ChainsApart
<1> QED
  BY <1>3, <1>5

\* A chunk written changes one sector.
LEMMA OneSector ==
  ASSUME IInv, CursorInv, WriteChunk
  PROVE  /\ data' = [data EXCEPT ![SectorOf(Cur)] = Patched(Cur, Chunk)]
         /\ \A c, s : c # Cur.cclust => data'[<<c, s>>] = data[<<c, s>>]
<1>1. /\ data' = [data EXCEPT ![SectorOf(Cur)] = Patched(Cur, Chunk)]
      /\ data \in [Sectors -> Buffers]
  BY DEF WriteChunk, CursorInv, StateOK
<1> DEFINE p == SectorOf(Cur)
           b == Patched(Cur, Chunk)
<1>2. ASSUME NEW c, NEW s, c # Cur.cclust
      PROVE  data'[<<c, s>>] = data[<<c, s>>]
  <2> DEFINE q == <<c, s>>
  <2>1. q # p
    <3>1. q[1] = c /\ p[1] = Cur.cclust
      BY DEF SectorOf
    <3> HIDE DEF p, q
    <3> QED
      BY <1>2, <3>1
  <2> HIDE DEF p, q, b
  <2>2. data' = [data EXCEPT ![p] = b]
    BY <1>1 DEF p, b
  <2>3. data'[q] = data[q]
    BY <1>1, <2>1, <2>2
  <2> QED
    BY <2>3 DEF q
<1> QED
  BY <1>1, <1>2

\* The bytes of a file that is not being written stay what they are, in every
\* step but a restart.
LEMMA ImageKept ==
  ASSUME IInv, CursorInv, BytesInv, Running, NEW f \in Files, NEW c,
         c \in Clusters => c \in Heads[f], NEW size \in Nat, Spans(fat, c, size),
         Trim /\ f = Cur.file => c = Cur.sclust /\ size <= Cur.fsize,
         WriteChunk => f # Cur.file
  PROVE  Image(fat', data', c, size) = Image(fat, data, c, size)
<1>1. ASSUME NEW n \in Nat, n * ClusterBytes < size
      PROVE  /\ Nth(fat', c, n) = Nth(fat, c, n)
             /\ \A s \in 0 .. Spc - 1 :
                  data'[<<Nth(fat, c, n), s>>] = data[<<Nth(fat, c, n), s>>]
  <2>1. Nth(fat', c, n) = Nth(fat, c, n)
    BY <1>1, ChainRemains DEF BytesInv
  <2>2. c \in Heads[f] /\ Nth(fat, c, n) \in Clusters
    BY <1>1, SpansHead DEF Spans
  <2>3. CASE UNCHANGED data
    BY <2>1, <2>3
  <2>4. CASE WriteChunk
    <3>1. Nth(fat, c, n) # Cur.cclust
      BY <2>2, <2>4, WriterApart DEF WriteChunk
    <3> QED
      BY <2>1, <2>4, <3>1, OneSector
  <2> QED
    BY <2>3, <2>4, OnlyChunks DEF Running, Step
<1> QED
  BY <1>1, ImageSame

\* The file of an entry: its chain stays long enough and keeps its bytes.
LEMMA EntryKept ==
  ASSUME IInv, CursorInv, BytesInv, Running, NEW f \in Files, dirent[f] # Absent
  PROVE  /\ dirent[f].size \in Nat
         /\ Spans(fat', dirent[f].clust, dirent[f].size)
         /\ (WriteChunk => f # Cur.file)
              => Image(fat', data', dirent[f].clust, dirent[f].size)
                   = Image(fat, data, dirent[f].clust, dirent[f].size)
<1> DEFINE c == dirent[f].clust
           size == dirent[f].size
<1>0. faults.crash = 0
  BY DEF BytesInv
<1>1. /\ size \in Nat /\ Spans(fat, c, size) /\ Spans(fat', c, size)
      /\ c \in Clusters => c \in Heads[f]
      /\ Trim /\ f = Cur.file => c = Cur.sclust /\ size <= Cur.fsize
  BY <1>0, EntryLong
<1> HIDE DEF c, size
<1>6. ASSUME WriteChunk => f # Cur.file
      PROVE  Image(fat', data', c, size) = Image(fat, data, c, size)
  BY <1>1, <1>6, ImageKept
<1> QED
  BY <1>1, <1>6 DEF c, size

\* The file of an FCB that is open, or whose entry file_close has not written.
LEMMA FcbKept ==
  ASSUME IInv, CursorInv, BytesInv, Running, NEW k \in Fcbs, fcb[k].file \in Files,
         fcb[k].open \/ Closing(k, {"size"})
  PROVE  /\ fcb[k].fsize \in Nat
         /\ Spans(fat', fcb[k].sclust, fcb[k].fsize)
         /\ (WriteChunk => fcb[k].file # Cur.file)
              => Image(fat', data', fcb[k].sclust, fcb[k].fsize)
                   = Image(fat, data, fcb[k].sclust, fcb[k].fsize)
<1> DEFINE f == fcb[k].file
           c == fcb[k].sclust
           size == fcb[k].fsize
<1>1. fcb[k] \in FcbRecords /\ (fcb[k].open => Steady(faults, fat, fcb[k]))
  BY CursorsNow DEF Cursors
<1>2. size \in Nat
  BY <1>1, MaxSizeFact DEF FcbRecords
<1>3. c \in Clusters => c \in Heads[f]
  BY DEF Heads, OpenOn
<1>4. Spans(fat, c, size)
  <2>1. CASE fcb[k].open
    BY <1>1, <2>1 DEF BytesInv, Steady, Covered, Spans
  <2>2. CASE Closing(k, {"size"})
    BY <2>2, ClosingNow DEF BytesInv, Closing, Cur
  <2> QED
    BY <2>1, <2>2
<1>5. ~(Trim /\ f = Cur.file)
  <2> SUFFICES ASSUME Trim, f = Cur.file PROVE FALSE
    OBVIOUS
  <2>1. call.op = "close" /\ call.at = "trim"
    BY DEF Trim
  <2>2. k = call.k /\ ~Cur.open /\ Cur = fcb[call.k]
    BY <2>1, ClosingNow
  <2> QED
    BY <2>1, <2>2 DEF Closing
<1>6. f \in Files
  OBVIOUS
<1> HIDE DEF c, size, f
<1>7. Spans(fat', c, size)
  BY <1>2, <1>3, <1>4, <1>5, <1>6, SpansRemain DEF BytesInv
<1>8. ASSUME WriteChunk => f # Cur.file
      PROVE  Image(fat', data', c, size) = Image(fat, data, c, size)
  BY <1>2, <1>3, <1>4, <1>5, <1>6, <1>8, ImageKept
<1> QED
  BY <1>2, <1>7, <1>8 DEF c, size, f

\* An FCB ahead of its entry is open, or its entry is about to be written.
LEMMA LiveOpen ==
  ASSUME IInv, BytesInv, NEW k \in Fcbs, fcb[k].file \in Files, Live(fcb, call.at, k)
  PROVE  fcb[k].write /\ (fcb[k].open \/ Closing(k, {"size"}))
BY DEF Live, BytesInv, Matching, Closing

\* A file keeps its content in a step that changes neither its entry nor what
\* its FCBs say of it, and is no write to it.
LEMMA SameContent ==
  ASSUME IInv, CursorInv, BytesInv, Running, ~Disturbed, ~Disturbed', NEW g \in Files,
         dirent'[g] = dirent[g], WriteChunk => g # Cur.file,
         \A k \in Fcbs : fcb[k].file = g \/ fcb'[k].file = g =>
           /\ fcb'[k].file = fcb[k].file
           /\ Live(fcb', call'.at, k) <=> Live(fcb, call.at, k)
           /\ fcb'[k].fsize = fcb[k].fsize
           /\ fcb'[k].sclust = fcb[k].sclust \/ fcb[k].fsize = 0
  PROVE  Contents'[g] = Contents[g]
<1>1. /\ Contents[g] = View(fat, data, dirent, fcb, call.at, g)
      /\ Contents'[g] = View(fat', data', dirent', fcb', call'.at, g)
  BY ContentsNow, ContentsNext
<1>2. CASE dirent[g] = Absent
  BY <1>1, <1>2 DEF View
<1>3. CASE dirent[g] # Absent /\ \A k \in Fcbs : fcb[k].file = g => ~Live(fcb, call.at, k)
  <2>1. \A k \in Fcbs : fcb'[k].file = g => ~Live(fcb', call'.at, k)
    BY <1>3
  <2>2. Image(fat', data', dirent[g].clust, dirent[g].size)
          = Image(fat, data, dirent[g].clust, dirent[g].size)
    BY <1>3, EntryKept
  <2>3. /\ Contents[g] = {Image(fat, data, dirent[g].clust, dirent[g].size)}
        /\ Contents'[g] = {Image(fat', data', dirent'[g].clust, dirent'[g].size)}
    BY <1>1, <1>3, <2>1, ViewEntry
  <2> QED
    BY <2>2, <2>3
<1>4. CASE dirent[g] # Absent /\ ~\A k \in Fcbs : fcb[k].file = g => ~Live(fcb, call.at, k)
  <2>1. PICK k \in Fcbs : fcb[k].file = g /\ Live(fcb, call.at, k)
    BY <1>4
  <2>2. fcb[k].write /\ (fcb[k].open \/ Closing(k, {"size"}))
    BY <2>1, LiveOpen
  <2>3. \A l \in Fcbs : fcb[l].file = g => l = k
    BY <2>1, <2>2, OnlyWriter
  <2>4. /\ fcb'[k].file = g /\ Live(fcb', call'.at, k)
        /\ \A l \in Fcbs : fcb'[l].file = g => l = k
    BY <2>1, <2>3
  <2>5. /\ Contents[g] = {Image(fat, data, fcb[k].sclust, fcb[k].fsize)}
        /\ Contents'[g] = {Image(fat', data', fcb'[k].sclust, fcb'[k].fsize)}
    BY <1>1, <1>4, <2>1, <2>3, <2>4, ViewLive
  <2>6. Image(fat', data', fcb[k].sclust, fcb[k].fsize)
          = Image(fat, data, fcb[k].sclust, fcb[k].fsize)
    BY <2>1, <2>2, FcbKept
  <2>7. CASE fcb'[k].sclust = fcb[k].sclust
    BY <2>1, <2>5, <2>6, <2>7
  <2>8. CASE fcb[k].fsize = 0
    <3>1. fcb'[k].fsize = 0
      BY <2>1, <2>8
    <3> QED
      BY <2>5, <2>8, <3>1, ImageEmpty
  <2> QED
    BY <2>1, <2>7, <2>8
<1> QED
  BY <1>2, <1>3, <1>4

\* All of them.
LEMMA AllSame ==
  ASSUME \A g \in Files : Contents'[g] = Contents[g]
  PROVE  Contents' = Contents
BY ContentsShape

\* One of them has changed.
LEMMA OneReplaced ==
  ASSUME NEW f \in Files, \A g \in Files : g # f => Contents'[g] = Contents[g],
         NEW x, Contents'[f] = x
  PROVE  Contents' = [Contents EXCEPT ![f] = x]
BY ContentsShape

-----------------------------------------------------------------------------
(* Every step but a restart keeps BytesInv, while no sector write fails.   *)

\* A buffer stays right if its FCB is left alone: what is written is written to
\* the sectors of another file.
LEMMA BufferKept ==
  ASSUME IInv, CursorInv, BytesInv, Running, NEW k \in Fcbs,
         WriteChunk => fcb[k].file # Cur.file
  PROVE  Buffered(data', fcb[k])
<1>1. CASE UNCHANGED data
  BY <1>1 DEF BytesInv
<1>2. CASE WriteChunk
  <2> SUFFICES ASSUME fcb[k].open, fcb[k].iovalid
               PROVE  fcb[k].cclust \in Clusters /\ fcb[k].iobuf = data'[SectorOf(fcb[k])]
    BY DEF Buffered
  <2>1. fcb[k].cclust \in Clusters /\ fcb[k].iobuf = data[SectorOf(fcb[k])]
    BY DEF BytesInv, Buffered
  <2>2. fcb[k].file \in Files /\ Steady(faults, fat, fcb[k])
    BY DEF IInv, Shape, IsFcb, CursorInv
  <2>3. PICK n \in Nat : fcb[k].cclust = Nth(fat, fcb[k].sclust, n)
    BY <2>1, <2>2, ClusterFacts DEF Steady, Placed
  <2>4. fcb[k].sclust \in Heads[fcb[k].file]
    BY <2>1, <2>2, <2>3, ChainOf
  <2>5. fcb[k].cclust # Cur.cclust
    BY <1>2, <2>1, <2>2, <2>3, <2>4, WriterApart DEF WriteChunk
  <2>6. data'[SectorOf(fcb[k])] = data[SectorOf(fcb[k])]
    BY <1>2, <2>5, OneSector DEF SectorOf
  <2> QED
    BY <2>1, <2>6
<1> QED
  BY <1>1, <1>2, OnlyChunks DEF Running, Step

\* So only the FCB that is changed has to be looked at.
LEMMA OneBuffer ==
  ASSUME IInv, CursorInv, BytesInv, Running, NEW k \in Fcbs, NEW q,
         fcb' = [fcb EXCEPT ![k] = q], Buffered(data', q),
         WriteChunk => k = call.k
  PROVE  \A l \in Fcbs : Buffered(data', fcb'[l])
<1> SUFFICES ASSUME NEW l \in Fcbs PROVE Buffered(data', fcb'[l])
  OBVIOUS
<1>1. fcb \in [Fcbs -> FcbRecords]
  BY CursorsNow DEF Cursors
<1>2. CASE l = k
  BY <1>1, <1>2
<1>3. CASE l # k
  <2>1. fcb'[l] = fcb[l]
    BY <1>1, <1>3
  <2>2. WriteChunk => fcb[l].file # Cur.file
    <3> SUFFICES ASSUME WriteChunk, fcb[l].file = Cur.file PROVE FALSE
      OBVIOUS
    <3>1. k = call.k /\ Cur.file \in Files /\ Cur.write /\ Cur = fcb[call.k]
      BY DEF WriteChunk, WriteMore, IInv, CallOK, Cur
    <3>2. l = k
      BY <3>1, OnlyWriter
    <3> QED
      BY <1>3, <3>2
  <2>3. Buffered(data', fcb[l])
    BY <2>2, BufferKept
  <2> QED
    BY <2>1, <2>3
<1> QED
  BY <1>2, <1>3

\* None is changed.
LEMMA NoBuffer ==
  ASSUME IInv, CursorInv, BytesInv, Running, ~WriteChunk, UNCHANGED fcb
  PROVE  \A l \in Fcbs : Buffered(data', fcb'[l])
BY BufferKept

\* No operation on an FCB makes a buffer valid but the one that loads it.
LEMMA MovedBuffer ==
  ASSUME NEW r \in FcbRecords, NEW d, Buffered(d, r), NEW n
  PROVE  /\ Resolve(r).iovalid = r.iovalid
         /\ ~Sought(r, n).iovalid
         /\ SeekTo(r, n).iovalid = r.iovalid
         /\ Buffered(d, Advance(r, n)) /\ Buffered(d, Grown(r))
<1>1. DOMAIN r = FcbFields
  BY DEF FcbRecords, FcbFields
<1>2. Resolve(r).iovalid = r.iovalid /\ SeekTo(r, n).iovalid = r.iovalid
  BY <1>1 DEF Resolve, SeekTo, FcbFields
<1>3. ~Sought(r, n).iovalid
  <2> DEFINE q == IF n = 0 THEN [r EXCEPT !.cclust = r.sclust, !.csect = 0, !.boff = 0]
                           ELSE SeekTo(r, n)
  <2>1. "iovalid" \in DOMAIN q
    BY <1>1 DEF SeekTo, FcbFields
  <2>2. Sought(r, n) = [q EXCEPT !.fpos = n, !.iovalid = FALSE]
    BY DEF Sought
  <2> HIDE DEF q
  <2> QED
    BY <2>1, <2>2
<1>4. Buffered(d, Grown(r))
  BY <1>1 DEF Grown, Buffered, SectorOf, FcbFields
<1>5. Buffered(d, Advance(r, n))
  <2> DEFINE p == [r EXCEPT !.boff = @ + n, !.fpos = @ + n]
  <2>1. Buffered(d, p) /\ "iovalid" \in DOMAIN p
    BY <1>1 DEF Buffered, SectorOf, FcbFields
  <2>2. Advance(r, n) = IF p.boff = SecSize
                          THEN [p EXCEPT !.boff = 0, !.csect = @ + 1, !.iovalid = FALSE]
                          ELSE p
    BY DEF Advance
  <2> HIDE DEF p
  <2> QED
    BY <2>1, <2>2 DEF Buffered
<1> QED
  BY <1>2, <1>3, <1>4, <1>5

\* A sector just loaded.
LEMMA LoadedBuffer ==
  ASSUME NEW r \in FcbRecords, NEW d, r.cclust \in Clusters
  PROVE  Buffered(d, [r EXCEPT !.iobuf = d[SectorOf(r)], !.iovalid = TRUE])
BY DEF Buffered, SectorOf, FcbRecords

\* An FCB as file_open makes it has an empty buffer.
LEMMA OpenedBuffer ==
  ASSUME NEW f, NEW mode
  PROVE  /\ ~Closed.iovalid /\ ~Opened(f, mode).iovalid
         /\ ~[SeekTo(Opened(f, mode), dirent[f].size) EXCEPT !.fpos = dirent[f].size].iovalid
         /\ ~[Closed EXCEPT !.file = f, !.open = TRUE, !.write = TRUE].iovalid
<1>1. DOMAIN Closed = FcbFields /\ ~Closed.iovalid
  BY DEF Closed, FcbFields
<1>2. DOMAIN Opened(f, mode) = FcbFields /\ ~Opened(f, mode).iovalid
  BY <1>1 DEF Opened, FcbFields
<1> DEFINE r == Opened(f, mode)
           q == SeekTo(r, dirent[f].size)
<1> HIDE DEF r
<1>3. DOMAIN q = FcbFields /\ ~q.iovalid
  BY <1>2 DEF r, SeekTo, FcbFields
<1> HIDE DEF q
<1>4. ~[q EXCEPT !.fpos = dirent[f].size].iovalid
  BY <1>3 DEF FcbFields
<1> QED
  BY <1>1, <1>2, <1>4 DEF q, r, FcbFields

\* The program's calls.
LEMMA CallerBuffers ==
  ASSUME IInv, CursorInv, BytesInv, Caller
  PROVE  \A l \in Fcbs : Buffered(data', fcb'[l])
<1>0. Running /\ ~WriteChunk
  <2>1. call.op = "idle"
    BY DEF Caller, OpenCall, SeekCall, ReadCall, WriteCall, CloseCall, DeleteCall, Start
  <2> QED
    BY SMTT(30), <2>1 DEF Running, WriteChunk, WriteMore
<1>1. ASSUME NEW k \in Fcbs, NEW q, fcb' = [fcb EXCEPT ![k] = q], ~(q.open /\ q.iovalid)
      PROVE  \A l \in Fcbs : Buffered(data', fcb'[l])
  <2>1. Buffered(data', q)
    BY <1>1 DEF Buffered
  <2> QED
    BY <1>0, <1>1, <2>1, OneBuffer
<1>2. CASE UNCHANGED fcb
  BY <1>0, <1>2, NoBuffer
<1>3. ASSUME NEW k \in Fcbs, NEW f \in Files, NEW mode \in 0 .. 2, OpenCall(k, f, mode)
      PROVE  \A l \in Fcbs : Buffered(data', fcb'[l])
  <2>1. CASE OpenExisting(k, f, mode)
    BY <1>1, <2>1, OpenedBuffer DEF OpenExisting
  <2>2. CASE OpenAppendFails(k, f, mode)
    BY <1>1, <2>2, OpenedBuffer DEF OpenAppendFails
  <2>3. CASE OpenNew(k, f, mode)
    BY <1>1, <2>3, OpenedBuffer DEF OpenNew
  <2>4. CASE OpenFails(f, mode)
    BY <1>2, <2>4 DEF OpenFails
  <2> QED
    BY <1>3, <2>1, <2>2, <2>3, <2>4 DEF OpenCall
<1>4. ASSUME NEW k \in Fcbs, NEW n, SeekCall(k, n)
      PROVE  \A l \in Fcbs : Buffered(data', fcb'[l])
  <2>1. fcb[k] \in FcbRecords /\ Buffered(data, fcb[k])
    BY CursorsNow DEF Cursors, BytesInv
  <2>2. ~Sought(fcb[k], n).iovalid
    BY <2>1, MovedBuffer
  <2>3. UNCHANGED fcb \/ fcb' = [fcb EXCEPT ![k] = Sought(fcb[k], n)]
    BY <1>4 DEF SeekCall
  <2> QED
    BY <1>1, <1>2, <2>2, <2>3
<1>5. ASSUME NEW k \in Fcbs, CloseCall(k)
      PROVE  \A l \in Fcbs : Buffered(data', fcb'[l])
  <2>1. CASE fcb[k].sizechg
    <3> DEFINE q == [fcb[k] EXCEPT !.open = FALSE]
    <3>1. fcb' = [fcb EXCEPT ![k] = q]
      BY <1>5, <2>1 DEF CloseCall
    <3>2. ~q.open
      BY CursorsNow DEF Cursors, FcbRecords
    <3> HIDE DEF q
    <3> QED
      BY <1>1, <3>1, <3>2
  <2>2. CASE ~fcb[k].sizechg
    BY <1>1, <1>5, <2>2, OpenedBuffer DEF CloseCall
  <2> QED
    BY <2>1, <2>2
<1>6. ASSUME NEW k \in Fcbs, NEW x, WriteCall(k, x)
      PROVE  \A l \in Fcbs : Buffered(data', fcb'[l])
  <2> DEFINE q == [fcb[k] EXCEPT !.write = TRUE]
  <2>1. fcb' = [fcb EXCEPT ![k] = q] /\ UNCHANGED data
    BY <1>6 DEF WriteCall
  <2>2. fcb[k] \in FcbRecords /\ Buffered(data, fcb[k])
    BY CursorsNow DEF Cursors, BytesInv
  <2>3. Buffered(data', q)
    BY <2>1, <2>2 DEF Buffered, SectorOf, FcbRecords
  <2> HIDE DEF q
  <2> QED
    BY <1>0, <2>1, <2>3, OneBuffer
<1> QED
  BY <1>2, <1>3, <1>4, <1>5, <1>6 DEF Caller, ReadCall, DeleteCall

\* A sector is loaded, or the cursor makes its pending move and no more.
LEMMA LoadBuffers ==
  ASSUME IInv, CursorInv, BytesInv,
         ReadSector \/ ReadFails \/ WriteSector \/ WriteSectorFails
  PROVE  \A l \in Fcbs : Buffered(data', fcb'[l])
<1>0. /\ Running /\ ~WriteChunk /\ UNCHANGED <<fat, data>> /\ call.op \in {"read", "write"}
      /\ ~Cur.iovalid
  BY DEF Running, Kernel, WriteChunk, ReadSector, ReadFails, WriteSector, WriteSectorFails,
     WriteMore
<1>1. call.k \in Fcbs /\ Cur \in FcbRecords /\ Cur.open /\ Steady(faults, fat, Cur)
      /\ Cur = fcb[call.k]
  BY <1>0, CurCursor DEF Cur
<1> DEFINE r == Resolve(Cur)
           q == [r EXCEPT !.iobuf = data[SectorOf(r)], !.iovalid = TRUE]
<1>2. CASE ReadSector \/ WriteSector
  <2>1. fcb' = [fcb EXCEPT ![call.k] = q]
    BY <1>2 DEF ReadSector, WriteSector
  <2>2. Cur.cclust \in Clusters /\ (Cur.csect = Spc => Link(fat, Cur.cclust) \in Clusters)
    <3>1. CASE ReadSector
      BY <1>1, <3>1, NextThere DEF ReadSector, MoreToRead, BytesInv
    <3>2. CASE WriteSector
      BY <3>2, WriteThere DEF WriteSector
    <3> QED
      BY <1>2, <3>1, <3>2
  <2>3. r \in FcbRecords /\ r.cclust \in Clusters
    BY <1>1, <2>2, ResolveSteady
  <2> HIDE DEF r
  <2>4. Buffered(data', q)
    BY <1>0, <2>3, LoadedBuffer
  <2> HIDE DEF q
  <2> QED
    BY <1>0, <1>1, <2>1, <2>4, OneBuffer
<1>3. CASE (ReadFails \/ WriteSectorFails) /\ ~UNCHANGED fcb
  <2>1. fcb' = [fcb EXCEPT ![call.k] = r]
    BY <1>1, <1>3 DEF ReadFails, WriteSectorFails
  <2>2. r.iovalid = Cur.iovalid
    BY <1>1, MovedBuffer DEF BytesInv
  <2> HIDE DEF r
  <2>3. Buffered(data', r)
    BY <1>0, <2>2 DEF Buffered
  <2> QED
    BY <1>0, <1>1, <2>1, <2>3, OneBuffer
<1> QED
  BY <1>0, <1>2, <1>3, NoBuffer DEF ReadFails, WriteSectorFails

\* A chunk of the buffer is read, or written through to the sector.
LEMMA ChunkBuffers ==
  ASSUME IInv, CursorInv, BytesInv, ReadChunk \/ WriteChunk
  PROVE  \A l \in Fcbs : Buffered(data', fcb'[l])
<1>0. Running /\ call.op \in {"read", "write"}
  BY DEF Running, Kernel, ReadChunk, WriteChunk, WriteMore
<1>1. call.k \in Fcbs /\ Cur \in FcbRecords /\ Cur.open /\ Steady(faults, fat, Cur)
      /\ Cur = fcb[call.k] /\ Buffered(data, Cur)
  BY <1>0, CurCursor DEF Cur, BytesInv
<1>2. CASE ReadChunk
  <2>1. PICK n : fcb' = [fcb EXCEPT ![call.k] = Advance(Cur, n)]
    BY <1>1, <1>2 DEF ReadChunk
  <2>2. Buffered(data', Advance(Cur, n))
    BY <1>1, <1>2, MovedBuffer DEF ReadChunk
  <2> QED
    BY <1>0, <1>1, <2>1, <2>2, OneBuffer DEF ReadChunk, WriteChunk, WriteMore
<1>3. CASE WriteChunk
  <2> DEFINE b == Patched(Cur, Chunk)
             r == [Cur EXCEPT !.iobuf = b]
             n == Len(Chunk)
             q == Grown(Advance(r, n))
  <2>1. fcb' = [fcb EXCEPT ![call.k] = q]
    BY <1>1, <1>3 DEF WriteChunk
  <2>2. b \in Buffers /\ Cur.iovalid /\ Cur.cclust \in Clusters
    BY <1>3, ChunkFacts, WriteThere DEF WriteChunk
  <2>3. SectorOf(Cur) \in Sectors
    <3>1. Cur.csect \in 0 .. Spc - 1
      BY <1>1, <2>2, SizeFacts DEF Steady, FcbRecords
    <3> QED
      BY <1>1, <2>2, <3>1, SectorIs
  <2>4. data'[SectorOf(Cur)] = b
    BY <1>3, <2>3, OneSector DEF CursorInv, StateOK
  <2>5. r \in FcbRecords /\ SectorOf(r) = SectorOf(Cur) /\ r.iobuf = b
        /\ r.cclust = Cur.cclust
    <3> HIDE DEF b
    <3> QED
      BY <1>1, <2>2 DEF FcbRecords, SectorOf
  <2> HIDE DEF r, n, b
  <2>6. Buffered(data', r)
    BY <2>2, <2>4, <2>5 DEF Buffered
  <2>7. Buffered(data', q)
    <3> DEFINE p == Advance(r, n)
    <3>1. Buffered(data', p)
      BY <2>5, <2>6, MovedBuffer
    <3>2. DOMAIN p = FcbFields
      BY <2>5 DEF Advance, FcbRecords, FcbFields
    <3> HIDE DEF p
    <3>3. Buffered(data', Grown(p))
      BY <3>1, <3>2 DEF Grown, Buffered, SectorOf, FcbFields
    <3> QED
      BY <3>3 DEF p
  <2> HIDE DEF q
  <2> QED
    BY <1>0, <1>1, <2>1, <2>7, OneBuffer
<1> QED
  BY <1>2, <1>3

\* A cluster is added, or an FCB is not in use any more.
LEMMA OtherBuffers ==
  ASSUME IInv, CursorInv, BytesInv,
         \/ WriteFirst \/ WriteFirstFails \/ LinkNew \/ TrimAll \/ FlushLast \/ FlushFails
  PROVE  \A l \in Fcbs : Buffered(data', fcb'[l])
<1>0. Running /\ ~WriteChunk
  BY DEF Running, Kernel, WriteChunk, WriteMore, WriteFirst, WriteFirstFails, LinkNew,
     TrimAll, FlushLast, FlushFails, IInv, CallOK
<1>1. ASSUME NEW q, fcb' = [fcb EXCEPT ![call.k] = q], ~(q.open /\ q.iovalid),
             call.k \in Fcbs
      PROVE  \A l \in Fcbs : Buffered(data', fcb'[l])
  <2>1. Buffered(data', q)
    BY <1>1 DEF Buffered
  <2> QED
    BY <1>0, <1>1, <2>1, OneBuffer
<1>2. CASE UNCHANGED fcb
  BY <1>0, <1>2, NoBuffer
<1>3. CASE (WriteFirst \/ WriteFirstFails) /\ ~UNCHANGED fcb
  <2>1. PICK c \in Clusters : FirstCluster(c)
    BY <1>3 DEF WriteFirst, WriteFirstFails
  <2>2. call.op = "write" /\ call.at = "first"
    BY <1>3 DEF WriteFirst, WriteFirstFails
  <2>3. call.k \in Fcbs /\ Cur \in FcbRecords /\ Cur.open /\ Cur = fcb[call.k]
        /\ Buffered(data, Cur) /\ Cur.cclust = 0
    BY <2>2, CurCursor DEF Cur, BytesInv, CursorInv, Working
  <2>4. ~Cur.iovalid
    BY <2>3, ClusterFacts DEF Buffered
  <2> DEFINE q == [Cur EXCEPT !.sclust = c, !.cclust = c, !.sizechg = TRUE]
  <2>5. fcb' = [fcb EXCEPT ![call.k] = q]
    BY <2>1, <2>3 DEF FirstCluster
  <2>6. ~q.iovalid
    BY <2>3, <2>4 DEF FcbRecords
  <2> HIDE DEF q
  <2> QED
    BY <1>1, <2>3, <2>5, <2>6
<1>4. CASE LinkNew
  <2>1. call.op = "write" /\ call.at = "link"
    BY <1>4 DEF LinkNew
  <2>2. call.k \in Fcbs /\ Cur \in FcbRecords /\ Cur = fcb[call.k] /\ ~Cur.iovalid
    BY <2>1, CurCursor DEF Cur, CursorInv, Working, Steady
  <2> DEFINE q == [Cur EXCEPT !.cclust = call.c, !.csect = 0]
  <2>3. fcb' = [fcb EXCEPT ![call.k] = q]
    BY <1>4, <2>2 DEF LinkNew
  <2>4. ~q.iovalid
    BY <2>2 DEF FcbRecords
  <2> HIDE DEF q
  <2> QED
    BY <1>1, <2>2, <2>3, <2>4
<1>5. CASE TrimAll /\ ~UNCHANGED fcb
  <2>1. call.op = "close"
    BY <1>5 DEF TrimAll
  <2>2. call.k \in Fcbs /\ Cur \in FcbRecords /\ Cur = fcb[call.k] /\ ~Cur.open
    BY <2>1, ClosingNow
  <2> DEFINE q == [Cur EXCEPT !.sclust = 0]
  <2>3. fcb' = [fcb EXCEPT ![call.k] = q]
    BY <1>5, <2>2 DEF TrimAll
  <2>4. ~q.open
    BY <2>2 DEF FcbRecords
  <2> HIDE DEF q
  <2> QED
    BY <1>1, <2>2, <2>3, <2>4
<1>6. CASE (FlushLast \/ FlushFails) /\ ~UNCHANGED fcb
  <2>1. call.op = "close" /\ fcb' = [fcb EXCEPT ![call.k] = Closed]
    BY <1>6 DEF FlushLast, FlushFails, Released
  <2>2. call.k \in Fcbs
    BY <2>1, ClosingNow
  <2> QED
    BY <1>1, <2>1, <2>2, OpenedBuffer
<1> QED
  BY <1>2, <1>3, <1>4, <1>5, <1>6

\* A valid buffer holds its sector, after every step but a restart or a write
\* that fails.
LEMMA BuffersStep ==
  ASSUME IInv, CursorInv, BytesInv, Running, ~WriteChunkFails
  PROVE  \A l \in Fcbs : Buffered(data', fcb'[l])
<1>1. CASE Caller
  BY <1>1, CallerBuffers
<1>2. CASE ReadSector \/ ReadFails \/ WriteSector \/ WriteSectorFails
  BY <1>2, LoadBuffers
<1>3. CASE ReadChunk \/ WriteChunk
  BY <1>3, ChunkBuffers
<1>4. CASE \/ WriteFirst \/ WriteFirstFails \/ LinkNew \/ TrimAll \/ FlushLast \/ FlushFails
  BY <1>4, OtherBuffers
<1>5. CASE \/ ReadDone \/ Grow \/ GrowFull \/ LinkFails \/ WriteDone \/ CloseSize \/ CloseFails
           \/ Trim \/ FreeOne \/ FreeFails \/ Sync \/ UNCHANGED state
  <2>1. UNCHANGED fcb /\ UNCHANGED data
    BY <1>5 DEF ReadDone, Grow, GrowFull, LinkFails, WriteDone, CloseSize, CloseFails,
       Trim, FreeOne, FreeFails, Sync, state
  <2> QED
    BY <2>1 DEF BytesInv
<1> QED
  BY <1>1, <1>2, <1>3, <1>4, <1>5 DEF Running, Kernel

\* An FCB that is open after the step is not being closed.
LEMMA OpenMatch ==
  ASSUME NEW k \in Fcbs, fcb'[k].open,
         ~fcb'[k].sizechg => dirent'[fcb'[k].file]
                               = [clust |-> fcb'[k].sclust, size |-> fcb'[k].fsize]
  PROVE  Matching(k)'
BY DEF Matching

\* All FCBs in use are open, but that of file_close.
LEMMA NowOpen ==
  ASSUME BytesInv, NEW k \in Fcbs, fcb[k].file \in Files, ~(call.op = "close" /\ k = call.k)
  PROVE  /\ fcb[k].open
         /\ ~fcb[k].sizechg => dirent[fcb[k].file]
                                 = [clust |-> fcb[k].sclust, size |-> fcb[k].fsize]
BY DEF BytesInv, Matching, Closing

\* An FCB that is left alone, with its entry.
LEMMA OtherMatching ==
  ASSUME BytesInv, CursorInv', NEW k \in Fcbs, fcb[k].file \in Files,
         fcb'[k] = fcb[k], dirent'[fcb[k].file] = dirent[fcb[k].file],
         ~(call.op = "close" /\ k = call.k)
  PROVE  Matching(k)'
<1>1. fcb'[k].open
  BY NowOpen
<1>2. ~fcb'[k].sizechg => dirent'[fcb'[k].file]
                            = [clust |-> fcb'[k].sclust, size |-> fcb'[k].fsize]
  BY NowOpen
<1> QED
  BY <1>1, <1>2, OpenMatch

\* An FCB is changed by a call that leaves the entries alone.
LEMMA OneMatching ==
  ASSUME CursorInv, BytesInv, CursorInv', call.op # "close", UNCHANGED dirent,
         NEW k \in Fcbs, NEW q, fcb' = [fcb EXCEPT ![k] = q],
         q.file = fcb[k].file, q.open = fcb[k].open,
         ~q.sizechg => ~fcb[k].sizechg /\ q.sclust = fcb[k].sclust /\ q.fsize = fcb[k].fsize,
         NEW l \in Fcbs, fcb'[l].file \in Files
  PROVE  Matching(l)'
<1>1. fcb \in [Fcbs -> FcbRecords]
  BY CursorsNow DEF Cursors
<1>2. CASE l = k
  <2>1. fcb'[l] = q /\ fcb[l].file \in Files
    BY <1>1, <1>2
  <2>2. fcb'[l].open
    BY <1>2, <2>1, NowOpen
  <2>3. ~fcb'[l].sizechg => dirent'[fcb'[l].file]
                              = [clust |-> fcb'[l].sclust, size |-> fcb'[l].fsize]
    BY <1>2, <2>1, NowOpen
  <2> QED
    BY <2>2, <2>3, OpenMatch
<1>3. CASE l # k
  <2>1. fcb'[l] = fcb[l]
    BY <1>1, <1>3
  <2> QED
    BY <2>1, OtherMatching
<1> QED
  BY <1>2, <1>3

\* No FCB is, nor an entry.
LEMMA SameMatching ==
  ASSUME BytesInv, CursorInv', call.op # "close", UNCHANGED <<dirent, fcb>>,
         NEW l \in Fcbs, fcb'[l].file \in Files
  PROVE  Matching(l)'
BY OtherMatching

\* file_read and file_write.
LEMMA TransferMatching ==
  ASSUME IInv, CursorInv, BytesInv, CursorInv', Kernel, call.op \in {"read", "write"},
         NEW l \in Fcbs, fcb'[l].file \in Files
  PROVE  Matching(l)'
<1>0. /\ call.k \in Fcbs /\ Cur \in FcbRecords /\ Cur = fcb[call.k] /\ call.op # "close"
      /\ DOMAIN Cur = FcbFields
  BY CurCursor DEF Cur, FcbRecords, FcbFields
<1>1. ASSUME NEW q, fcb' = [fcb EXCEPT ![call.k] = q], UNCHANGED dirent,
             q.file = Cur.file, q.open = Cur.open,
             ~q.sizechg => ~Cur.sizechg /\ q.sclust = Cur.sclust /\ q.fsize = Cur.fsize
      PROVE  Matching(l)'
  BY <1>0, <1>1, OneMatching
<1>2. CASE UNCHANGED <<dirent, fcb>>
  BY <1>0, <1>2, SameMatching
<1>3. CASE ReadSector \/ WriteSector
  <2> DEFINE q == [Resolve(Cur) EXCEPT !.iobuf = data[SectorOf(Resolve(Cur))], !.iovalid = TRUE]
  <2>1. fcb' = [fcb EXCEPT ![call.k] = q] /\ UNCHANGED dirent
    BY <1>3 DEF ReadSector, WriteSector
  <2>2. SameExtent(Cur, q)
    BY <1>0, MovedExtent
  <2> HIDE DEF q
  <2> QED
    BY <1>1, <2>1, <2>2 DEF SameExtent
<1>4. CASE (ReadFails \/ WriteSectorFails) /\ ~UNCHANGED fcb
  <2> DEFINE q == Resolve(Cur)
  <2>1. fcb' = [fcb EXCEPT ![call.k] = q] /\ UNCHANGED dirent
    BY <1>0, <1>4 DEF ReadFails, WriteSectorFails
  <2>2. q.file = Cur.file /\ q.open = Cur.open /\ q.sizechg = Cur.sizechg
        /\ q.sclust = Cur.sclust /\ q.fsize = Cur.fsize
    BY <1>0 DEF Resolve, FcbFields
  <2> HIDE DEF q
  <2> QED
    BY <1>1, <2>1, <2>2
<1>5. CASE ReadChunk
  <2>1. PICK n : fcb' = [fcb EXCEPT ![call.k] = Advance(Cur, n)]
    BY <1>0, <1>5 DEF ReadChunk
  <2>2. SameExtent(Cur, Advance(Cur, n)) /\ UNCHANGED dirent
    BY <1>0, <1>5, MovedExtent DEF ReadChunk
  <2> QED
    BY <1>1, <2>1, <2>2 DEF SameExtent
<1>6. CASE WriteChunk
  <2> DEFINE b == Patched(Cur, Chunk)
             r == [Cur EXCEPT !.iobuf = b]
             p == Advance(r, Len(Chunk))
             q == Grown(p)
  <2>1. fcb' = [fcb EXCEPT ![call.k] = q] /\ UNCHANGED dirent
    BY <1>0, <1>6 DEF WriteChunk
  <2>2. r \in FcbRecords /\ SameExtent(Cur, r)
    <3>1. b \in Buffers
      BY <1>6, ChunkFacts DEF WriteChunk
    <3> HIDE DEF b
    <3> QED
      BY <1>0, <3>1 DEF FcbRecords, SameExtent, FcbFields
  <2> HIDE DEF r
  <2>3. SameExtent(r, p)
    BY <2>2, MovedExtent
  <2> HIDE DEF p
  <2>4. SameExtent(Cur, p)
    BY <2>2, <2>3, ExtentTrans
  <2>5. q.file = Cur.file /\ q.open = Cur.open
        /\ (~q.sizechg => ~Cur.sizechg /\ q.sclust = Cur.sclust /\ q.fsize = Cur.fsize)
    BY <2>4 DEF Grown, SameExtent, FcbFields
  <2> HIDE DEF q
  <2> QED
    BY <1>1, <2>1, <2>5
<1>7. CASE WriteChunkFails
  <2> DEFINE q == [Cur EXCEPT !.iobuf = Patched(Cur, Chunk)]
  <2>1. fcb' = [fcb EXCEPT ![call.k] = q] /\ UNCHANGED dirent
    BY <1>0, <1>7 DEF WriteChunkFails
  <2>2. q.file = Cur.file /\ q.open = Cur.open /\ q.sizechg = Cur.sizechg
        /\ q.sclust = Cur.sclust /\ q.fsize = Cur.fsize
    BY <1>0 DEF FcbFields
  <2> HIDE DEF q
  <2> QED
    BY <1>1, <2>1, <2>2
<1>8. CASE (WriteFirst \/ WriteFirstFails) /\ ~UNCHANGED fcb
  <2>1. PICK c \in Clusters : FirstCluster(c)
    BY <1>8 DEF WriteFirst, WriteFirstFails
  <2> DEFINE q == [Cur EXCEPT !.sclust = c, !.cclust = c, !.sizechg = TRUE]
  <2>2. fcb' = [fcb EXCEPT ![call.k] = q] /\ UNCHANGED dirent
    BY <1>0, <2>1 DEF FirstCluster
  <2>3. q.file = Cur.file /\ q.open = Cur.open /\ q.sizechg
    BY <1>0 DEF FcbFields
  <2> HIDE DEF q
  <2> QED
    BY <1>1, <2>2, <2>3
<1>9. CASE LinkNew
  <2> DEFINE q == [Cur EXCEPT !.cclust = call.c, !.csect = 0]
  <2>1. fcb' = [fcb EXCEPT ![call.k] = q] /\ UNCHANGED dirent
    BY <1>0, <1>9 DEF LinkNew
  <2>2. q.file = Cur.file /\ q.open = Cur.open /\ q.sizechg = Cur.sizechg
        /\ q.sclust = Cur.sclust /\ q.fsize = Cur.fsize
    BY <1>0 DEF FcbFields
  <2> HIDE DEF q
  <2> QED
    BY <1>1, <2>1, <2>2
<1>10. CASE \/ ReadFails \/ ReadDone \/ WriteFirst \/ WriteFirstFails \/ WriteSectorFails
            \/ Grow \/ GrowFull \/ LinkFails \/ WriteDone
  <2>1. UNCHANGED dirent
    BY <1>10 DEF ReadFails, ReadDone, WriteFirst, WriteFirstFails, WriteSectorFails, Grow,
       GrowFull, LinkFails, WriteDone, FirstCluster
  <2> QED
    BY <1>2, <1>4, <1>8, <1>10, <2>1 DEF ReadDone, Grow, GrowFull, LinkFails, WriteDone
<1>11. ~(\/ CloseSize \/ CloseFails \/ Trim \/ TrimAll
         \/ FreeOne \/ FreeFails \/ FlushLast \/ FlushFails)
  BY DEF CloseSize, CloseFails, Trim, TrimAll, FreeOne, FreeFails, FlushLast, FlushFails,
     IInv, CallOK
<1> QED
  BY <1>3, <1>5, <1>6, <1>7, <1>9, <1>10, <1>11 DEF Kernel

\* file_open: the FCB agrees with the entry, unless it truncates.
LEMMA OpenMatching ==
  ASSUME IInv, CursorInv, BytesInv, CursorInv', NEW k \in Fcbs, NEW f \in Files,
         NEW mode \in 0 .. 2, OpenCall(k, f, mode), NEW l \in Fcbs, fcb'[l].file \in Files
  PROVE  Matching(l)'
<1>0. call.op = "idle" /\ fcb \in [Fcbs -> FcbRecords] /\ DOMAIN dirent = Files
      /\ fcb[k].file \notin Files
  BY CursorsNow, FileConstants DEF OpenCall, Cursors, IInv, Shape, Closed
<1>1. ASSUME NEW q, fcb' = [fcb EXCEPT ![k] = q], q.open,
             ~q.sizechg => dirent'[q.file] = [clust |-> q.sclust, size |-> q.fsize],
             \A g \in Files : g # f \/ dirent[f] # Absent => dirent'[g] = dirent[g]
      PROVE  Matching(l)'
  <2>1. CASE l = k
    BY <1>0, <1>1, <2>1, OpenMatch
  <2>2. CASE l # k
    <3>1. fcb'[l] = fcb[l]
      BY <1>0, <1>1, <2>2
    <3>2. dirent'[fcb[l].file] = dirent[fcb[l].file]
      BY <1>1, <3>1 DEF CursorInv
    <3> QED
      BY <1>0, <3>1, <3>2, OtherMatching
  <2> QED
    BY <2>1, <2>2
<1> DEFINE r == Opened(f, mode)
           s == [SeekTo(r, dirent[f].size) EXCEPT !.fpos = dirent[f].size]
<1>2. ASSUME dirent[f] # Absent
      PROVE  /\ r.file = f /\ r.open /\ r \in FcbRecords
             /\ ~r.sizechg => dirent[f] = [clust |-> r.sclust, size |-> r.fsize]
  <2>1. DOMAIN Closed = FcbFields
    BY DEF Closed, FcbFields
  <2>2. r.file = f /\ r.open /\ (r.sizechg <=> mode = 1)
    BY <2>1 DEF Opened, FcbFields
  <2>3. /\ r \in FcbRecords /\ r.sclust = dirent[f].clust
        /\ mode # 1 => r.fsize = dirent[f].size
    BY <1>2, OpenedSteady
  <2>4. dirent[f] \in [clust : {0} \cup Clusters, size : 0 .. MaxSize]
    BY <1>2 DEF CursorInv, StateOK
  <2> QED
    BY <2>2, <2>3, <2>4
<1>3. CASE OpenExisting(k, f, mode)
  <2>1. dirent[f] # Absent /\ UNCHANGED dirent
    BY <1>3 DEF OpenExisting
  <2>2. CASE mode = 2 /\ dirent[f].size > 0
    <3>1. fcb' = [fcb EXCEPT ![k] = s]
      BY <1>3, <2>2 DEF OpenExisting
    <3> HIDE DEF r
    <3>2. DOMAIN r = FcbFields
      BY <1>2, <2>1 DEF FcbRecords, FcbFields
    <3>3. s.file = r.file /\ s.open = r.open /\ s.sizechg = r.sizechg
          /\ s.sclust = r.sclust /\ s.fsize = r.fsize
      <4> DEFINE p == SeekTo(r, dirent[f].size)
      <4>1. SameExtent(r, p)
        BY <3>2, SeekToExtent
      <4>2. s = [p EXCEPT !.fpos = dirent[f].size]
        OBVIOUS
      <4> HIDE DEF p, s
      <4> QED
        BY <4>1, <4>2 DEF SameExtent, FcbFields
    <3> HIDE DEF s
    <3> QED
      BY <1>1, <1>2, <2>1, <3>1, <3>3
  <2>3. CASE ~(mode = 2 /\ dirent[f].size > 0)
    <3>1. fcb' = [fcb EXCEPT ![k] = r]
      BY <1>3, <2>3 DEF OpenExisting
    <3> HIDE DEF r
    <3> QED
      BY <1>1, <1>2, <2>1, <3>1
  <2> QED
    BY <2>2, <2>3
<1>4. CASE OpenAppendFails(k, f, mode)
  <2>1. fcb' = [fcb EXCEPT ![k] = r] /\ UNCHANGED dirent /\ dirent[f].size > 0
    BY <1>4 DEF OpenAppendFails
  <2>2. dirent[f] # Absent
    BY <2>1 DEF Absent
  <2> HIDE DEF r
  <2> QED
    BY <1>1, <1>2, <2>1, <2>2
<1>5. CASE OpenNew(k, f, mode)
  <2> DEFINE q == [Closed EXCEPT !.file = f, !.open = TRUE, !.write = TRUE]
  <2>1. /\ dirent[f] = Absent /\ dirent' = [dirent EXCEPT ![f] = [clust |-> 0, size |-> 0]]
        /\ fcb' = [fcb EXCEPT ![k] = q]
    BY <1>5 DEF OpenNew
  <2>2. q.open /\ q.file = f /\ q.sclust = 0 /\ q.fsize = 0
    BY DEF Closed
  <2> HIDE DEF q
  <2>3. dirent'[f] = [clust |-> q.sclust, size |-> q.fsize]
    BY <1>0, <2>1, <2>2
  <2>4. \A g \in Files : g # f \/ dirent[f] # Absent => dirent'[g] = dirent[g]
    BY <1>0, <2>1
  <2> QED
    BY <1>1, <2>1, <2>2, <2>3, <2>4
<1>6. CASE OpenFails(f, mode)
  BY <1>0, <1>6, SameMatching DEF OpenFails
<1> QED
  BY <1>3, <1>4, <1>5, <1>6 DEF OpenCall

\* The other calls of the program.
LEMMA CallerMatching ==
  ASSUME IInv, CursorInv, BytesInv, CursorInv', Caller,
         NEW l \in Fcbs, fcb'[l].file \in Files
  PROVE  Matching(l)'
<1>0. fcb \in [Fcbs -> FcbRecords] /\ DOMAIN dirent = Files
  BY CursorsNow DEF Cursors, IInv, Shape
<1>1. ASSUME NEW k \in Fcbs, NEW n, SeekCall(k, n)
      PROVE  Matching(l)'
  <2>1. call.op = "idle" /\ UNCHANGED dirent
    BY <1>1 DEF SeekCall
  <2>2. CASE UNCHANGED fcb
    BY <2>1, <2>2, SameMatching
  <2>3. CASE ~UNCHANGED fcb
    <3>1. fcb' = [fcb EXCEPT ![k] = Sought(fcb[k], n)]
      BY <1>1, <2>3 DEF SeekCall
    <3>2. SameExtent(fcb[k], Sought(fcb[k], n))
      BY <1>0, MovedExtent
    <3> QED
      BY <2>1, <3>1, <3>2, OneMatching DEF SameExtent
  <2> QED
    BY <2>2, <2>3
<1>2. ASSUME NEW k \in Fcbs, NEW x, ReadCall(k, x) \/ WriteCall(k, x)
      PROVE  Matching(l)'
  <2>1. CASE ReadCall(k, x)
    BY <2>1, SameMatching DEF ReadCall, Start
  <2>2. CASE WriteCall(k, x)
    <3> DEFINE q == [fcb[k] EXCEPT !.write = TRUE]
    <3>1. fcb' = [fcb EXCEPT ![k] = q] /\ call.op = "idle" /\ UNCHANGED dirent
      BY <2>2 DEF WriteCall, Start
    <3>2. SameExtent(fcb[k], q)
      BY <1>0 DEF FcbRecords, SameExtent, FcbFields
    <3> HIDE DEF q
    <3> QED
      BY <3>1, <3>2, OneMatching DEF SameExtent
  <2> QED
    BY <1>2, <2>1, <2>2
<1>3. ASSUME NEW k \in Fcbs, CloseCall(k)
      PROVE  Matching(l)'
  <2>1. call.op = "idle" /\ UNCHANGED <<fat, dirent>> /\ fcb[k].open
    BY <1>3 DEF CloseCall, Start
  <2>2. CASE l # k
    <3>1. fcb'[l] = fcb[l]
      BY <1>0, <1>3, <2>2 DEF CloseCall
    <3> QED
      BY <2>1, <3>1, OtherMatching
  <2>3. CASE l = k
    <3>1. fcb[k].sizechg /\ fcb' = [fcb EXCEPT ![k].open = FALSE]
          /\ call' = [Idle EXCEPT !.op = "close", !.k = k, !.at = "size"]
      BY <1>0, <1>3, <2>3, FileConstants DEF CloseCall, Closed, Start
    <3>2. ~fcb'[k].open
      BY <1>0, <3>1 DEF FcbRecords
    <3>3. call'.op = "close" /\ call'.k = k /\ call'.at = "size"
      BY <3>1 DEF Idle
    <3> QED
      BY <2>3, <3>2, <3>3 DEF Matching
  <2> QED
    BY <2>2, <2>3
<1>4. ASSUME NEW f \in Files, DeleteCall(f)
      PROVE  Matching(l)'
  <2>1. call.op = "idle" /\ UNCHANGED fcb /\ fcb[l].file # f
    BY <1>4 DEF DeleteCall, OpenOn
  <2>2. dirent'[fcb[l].file] = dirent[fcb[l].file]
    BY <1>0, <1>4, <2>1 DEF DeleteCall, MarkDeleted
  <2> QED
    BY <2>1, <2>2, OtherMatching
<1> QED
  BY <1>1, <1>2, <1>3, <1>4, OpenMatching DEF Caller

\* file_close and file_delete.
LEMMA CloseMatching ==
  ASSUME IInv, CursorInv, BytesInv, CursorInv', IInv', Kernel, call.op \in {"close", "delete"},
         NEW l \in Fcbs, fcb'[l].file \in Files
  PROVE  Matching(l)'
<1>0. /\ fcb \in [Fcbs -> FcbRecords] /\ DOMAIN dirent = Files
      /\ DOMAIN call = Registers /\ call.at \in {"size", "trim", "free", "flush"}
      /\ call.op = "delete" => call.at \in {"free", "flush"}
  BY CursorsNow DEF Cursors, IInv, Shape, Registers, CallOK
<1>1. ~(\/ ReadSector \/ ReadFails \/ ReadChunk \/ ReadDone \/ WriteFirst \/ WriteFirstFails
        \/ WriteSector \/ WriteSectorFails \/ Grow \/ GrowFull \/ LinkNew \/ LinkFails
        \/ WriteChunk \/ WriteChunkFails \/ WriteDone)
  BY DEF ReadSector, ReadFails, ReadChunk, ReadDone, WriteFirst, WriteFirstFails,
     WriteSector, WriteSectorFails, WriteMore, Grow, GrowFull, LinkNew, LinkFails,
     WriteChunk, WriteChunkFails, WriteDone
<1>2. CASE ~(call.op = "close" /\ l = call.k)
  <2>1. fcb'[l] = fcb[l]
    BY <1>0, <1>1, <1>2 DEF Kernel, CloseSize, CloseFails, Trim, TrimAll, FreeOne,
       FreeFails, FlushLast, FlushFails, Released
  <2>2. UNCHANGED dirent \/ \E x : dirent' = [dirent EXCEPT ![Cur.file] = x]
    BY <1>1 DEF Kernel, CloseSize, CloseFails, Trim, TrimAll, FreeOne,
       FreeFails, FlushLast, FlushFails
  <2>3. UNCHANGED dirent \/ fcb[l].file # Cur.file
    <3>1. CASE call.op = "close"
      BY <1>2, <3>1, ClosingNow
    <3>2. CASE call.op = "delete"
      BY <1>0, <1>1, <3>2 DEF Kernel, CloseSize, CloseFails, Trim, TrimAll, FreeOne,
         FreeFails, FlushLast, FlushFails
    <3> QED
      BY <3>1, <3>2
  <2>4. dirent'[fcb[l].file] = dirent[fcb[l].file]
    BY <1>0, <2>1, <2>2, <2>3
  <2> QED
    BY <1>2, <2>1, <2>4, OtherMatching
<1>3. CASE call.op = "close" /\ l = call.k
  <2>0. /\ Cur = fcb[l] /\ Cur \in FcbRecords /\ ~Cur.open /\ dirent[Cur.file] # Absent
        /\ Cur.file \in Files
    BY <1>3, ClosingNow
  <2>1. CASE CloseSize \/ CloseFails \/ Trim \/ TrimAll \/ FreeOne \/ FreeFails
    <3>1. ~fcb'[l].open
      BY <1>0, <1>3, <2>0, <2>1 DEF CloseSize, CloseFails, Trim, TrimAll, FreeOne, FreeFails,
         FcbRecords
    <3>2. call'.op = "close" /\ call'.k = l
      BY <1>0, <1>3, <2>1 DEF CloseSize, CloseFails, Trim, TrimAll, FreeOne, FreeFails,
         Goto, Free, Registers
    <3> QED
      BY <3>1, <3>2 DEF Matching
  <2>2. CASE FlushLast \/ FlushFails
    <3>1. fcb' = [fcb EXCEPT ![l] = Closed]
      BY <1>3, <2>2 DEF FlushLast, FlushFails, Released
    <3>2. fcb'[l].file = NoFile
      BY <1>0, <3>1 DEF Closed
    <3> QED
      BY <3>2, FileConstants
  <2> QED
    BY <1>1, <2>1, <2>2 DEF Kernel
<1> QED
  BY <1>2, <1>3

\* Every step but a restart or a write that fails.
LEMMA BytesStep ==
  ASSUME IInv, CursorInv, BytesInv, IInv', CursorInv', Running, ~WriteChunkFails
  PROVE  BytesInv'
<1>1. ASSUME NEW l \in Fcbs, fcb'[l].file \in Files
      PROVE  Matching(l)'
  <2>1. CASE Caller
    BY <1>1, <2>1, CallerMatching
  <2>2. CASE Kernel
    <3>1. call.op \in {"read", "write", "close", "delete"}
      <4>1. call.op # "idle"
        BY <2>2 DEF Kernel, ReadSector, ReadFails, ReadChunk, ReadDone, WriteFirst,
           WriteFirstFails, WriteSector, WriteSectorFails, WriteMore, Grow, GrowFull, LinkNew,
           LinkFails, WriteChunk, WriteChunkFails, WriteDone, CloseSize, CloseFails, Trim,
           TrimAll, FreeOne, FreeFails, FlushLast, FlushFails, IInv, CallOK
      <4> QED
        BY <4>1 DEF IInv, CallOK
    <3> QED
      BY <1>1, <2>2, <3>1, TransferMatching, CloseMatching
  <2>3. CASE Sync \/ UNCHANGED state
    <3>1. UNCHANGED <<fat, dirent, fcb, call>>
      BY <2>3 DEF Sync, state
    <3>2. Matching(l)
      BY <1>1, <3>1 DEF BytesInv
    <3> QED
      BY <3>1, <3>2 DEF Matching, Closing
  <2> QED
    BY <2>1, <2>2, <2>3 DEF Running
<1>2. \A l \in Fcbs : Buffered(data', fcb'[l])
  BY BuffersStep
<1>3. faults'.crash = 0
  BY RestartsKept DEF BytesInv, IInv, Shape
<1> QED
  BY <1>1, <1>2, <1>3 DEF BytesInv

\* An empty volume.
LEMMA InitBytes ==
  ASSUME Init
  PROVE  BytesInv
<1>1. \A k \in Fcbs : fcb[k] = Closed
  BY DEF Init
<1>2. \A k \in Fcbs : fcb[k].file \notin Files /\ ~fcb[k].open
  BY <1>1, FileConstants DEF Closed
<1> QED
  BY <1>2 DEF Init, BytesInv, Buffered

-----------------------------------------------------------------------------
(* Each step is one that ByteFile allows.                                  *)

\* A step in the files' good times, with all that holds before and after it.
Calm == /\ IInv /\ CursorInv /\ BytesInv /\ ~Disturbed
        /\ Running /\ ~WriteFault
        /\ IInv' /\ CursorInv' /\ BytesInv' /\ ~Disturbed'
        /\ Trouble' >= Trouble

\* Nothing a program can see has changed.
Unseen == UNCHANGED <<Contents, Handles, Delivered, Unwritten>>

\* Good times were good before.
LEMMA TimesWorsen ==
  ASSUME CursorInv, [Step]_state, ~Disturbed'
  PROVE  ~Disturbed /\ Running /\ ~WriteFault /\ Trouble' >= Trouble
<1>1. /\ DOMAIN faults = {"read", "write", "crash"}
      /\ faults.read \in Nat /\ faults.write \in Nat /\ faults.crash \in Nat
  BY DEF CursorInv, StateOK
<1>2. Fault \/ Crash \/ UNCHANGED faults
  BY EveryStepCounted
<1>3. ~WriteFault
  BY <1>1 DEF WriteFault, Disturbed
<1>4. ~Crash
  BY <1>1 DEF Crash, Disturbed
<1>5. ReadFault \/ UNCHANGED faults
  BY <1>2, <1>3, <1>4 DEF Fault
<1>6. ~Disturbed /\ Trouble' >= Trouble
  BY <1>1, <1>5 DEF ReadFault, Disturbed, Trouble
<1> QED
  BY <1>3, <1>4, <1>6 DEF Step, Running

\* In bad times ByteFile promises nothing.
LEMMA BadTimes ==
  ASSUME Disturbed'
  PROVE  Bytefile!Next
BY DEF Bytefile!Next, Bytefile!Astray, Trouble

\* The abstract handle of an FCB in use.
LEMMA HandleIs ==
  ASSUME NEW k \in Fcbs
  PROVE  /\ Handles[k] = [file |-> fcb[k].file, pos |-> fcb[k].fpos]
         /\ Handles[k].file = fcb[k].file /\ Handles[k].pos = fcb[k].fpos
         /\ fcb[k].file \in Files => k \in Bytefile!InUse
<1>1. Handles[k] = [file |-> fcb[k].file, pos |-> fcb[k].fpos]
  BY DEF Handles
<1>2. ASSUME fcb[k].file \in Files PROVE Handles[k] # Bytefile!Unused
  BY <1>1, <1>2, FileConstants DEF Bytefile!Unused
<1> QED
  BY <1>1, <1>2 DEF Bytefile!InUse

\* No file and no position has changed.
LEMMA HandlesSame ==
  ASSUME \A l \in Fcbs : fcb'[l].file = fcb[l].file /\ fcb'[l].fpos = fcb[l].fpos
  PROVE  UNCHANGED Handles
BY DEF Handles

\* One FCB is replaced.
LEMMA HandleGiven ==
  ASSUME DOMAIN fcb = Fcbs, NEW k \in Fcbs, NEW q, fcb' = [fcb EXCEPT ![k] = q]
  PROVE  Handles' = [Handles EXCEPT ![k] = [file |-> q.file, pos |-> q.fpos]]
<1>1. \A l \in Fcbs : fcb'[l] = IF l = k THEN q ELSE fcb[l]
  OBVIOUS
<1>2. Handles' = [l \in Fcbs |-> [file |-> fcb'[l].file, pos |-> fcb'[l].fpos]]
  BY DEF Handles
<1>3. Handles = [l \in Fcbs |-> [file |-> fcb[l].file, pos |-> fcb[l].fpos]]
  BY DEF Handles
<1> HIDE DEF Handles
<1>4. DOMAIN Handles' = Fcbs /\ DOMAIN Handles = Fcbs
  BY <1>2, <1>3
<1>5. \A l \in Fcbs : Handles'[l] = IF l = k THEN [file |-> q.file, pos |-> q.fpos]
                                             ELSE Handles[l]
  BY <1>1, <1>2, <1>3
<1> QED
  BY <1>2, <1>3, <1>5

\* It keeps its file.
LEMMA HandleMoved ==
  ASSUME DOMAIN fcb = Fcbs, NEW k \in Fcbs, NEW q, fcb' = [fcb EXCEPT ![k] = q],
         q.file = fcb[k].file
  PROVE  Bytefile!At(k, q.fpos)
<1> DEFINE old == [file |-> fcb[k].file, pos |-> fcb[k].fpos]
           new == [file |-> q.file, pos |-> q.fpos]
<1>1. Handles' = [Handles EXCEPT ![k] = new]
  BY HandleGiven
<1>2. Handles[k] = old /\ DOMAIN Handles = Fcbs
  BY HandleIs DEF Handles
<1>3. [old EXCEPT !.pos = q.fpos] = new
  OBVIOUS
<1> HIDE DEF old, new
<1>4. [Handles EXCEPT ![k].pos = q.fpos] = [Handles EXCEPT ![k] = new]
  BY <1>2, <1>3
<1> QED
  BY <1>1, <1>4 DEF Bytefile!At

\* An FCB that stands for no file.
LEMMA HandleUnused ==
  /\ [file |-> Closed.file, pos |-> Closed.fpos] = Bytefile!Unused
  /\ \A k \in Fcbs : fcb[k] = Closed => Handles[k] = Bytefile!Unused
<1>1. Closed.file = NoFile /\ Closed.fpos = 0
  BY DEF Closed
<1> QED
  BY <1>1, HandleIs DEF Bytefile!Unused

\* An open file after the step.
LEMMA OpenContentNext ==
  ASSUME Calm, NEW k \in Fcbs, fcb'[k].file \in Files, fcb'[k].open
  PROVE  Contents'[fcb'[k].file] = {Image(fat', data', fcb'[k].sclust, fcb'[k].fsize)}
<1> DEFINE f == fcb'[k].file
<1>0. \A l \in Fcbs : fcb'[l].file = f /\ (fcb'[k].write \/ fcb'[l].write) => l = k
  BY FileConstants DEF Calm, IInv, Exclusive
<1>1. dirent'[f] # Absent
  BY DEF Calm, CursorInv
<1>2. Contents'[f] = View(fat', data', dirent', fcb', call'.at, f)
  BY ContentsNext DEF Calm
<1>3. CASE fcb'[k].write
  <2>1. Live(fcb', call'.at, k)
    BY <1>3 DEF Live
  <2> QED
    BY <1>0, <1>1, <1>2, <1>3, <2>1, ViewLive
<1>4. CASE ~fcb'[k].write
  <2>1. \A l \in Fcbs : fcb'[l].file = f => ~Live(fcb', call'.at, l)
    BY <1>0, <1>4 DEF Live
  <2>2. ~fcb'[k].sizechg
    BY <1>4 DEF Calm, IInv, Shape, IsFcb
  <2>3. dirent'[f] = [clust |-> fcb'[k].sclust, size |-> fcb'[k].fsize]
    BY <2>2 DEF Calm, BytesInv, Matching
  <2>4. dirent'[f].clust = fcb'[k].sclust /\ dirent'[f].size = fcb'[k].fsize
    BY <2>3
  <2> QED
    BY <1>1, <1>2, <2>1, <2>4, ViewEntry
<1> QED
  BY <1>3, <1>4

\* All files keep their content in a step that is about none.
LEMMA QuietContents ==
  ASSUME Calm, ~WriteChunk, UNCHANGED dirent, call.at # "size", call'.at # "size",
         \A l \in Fcbs : /\ fcb'[l].file = fcb[l].file /\ fcb'[l].write = fcb[l].write
                         /\ fcb'[l].open = fcb[l].open /\ fcb'[l].fsize = fcb[l].fsize
                         /\ fcb'[l].sclust = fcb[l].sclust \/ fcb[l].fsize = 0
  PROVE  UNCHANGED Contents
<1>1. ASSUME NEW g \in Files PROVE Contents'[g] = Contents[g]
  BY SameContent DEF Calm, Live
<1> QED
  BY <1>1, AllSame

\* file_open, with the FCB q that it makes.
LEMMA OpenAs ==
  ASSUME Calm, NEW k \in Fcbs, NEW f \in Files, NEW mode \in 0 .. 2, OpenCall(k, f, mode),
         NEW q \in FcbRecords, fcb' = [fcb EXCEPT ![k] = q], q.file = f, q.open,
         q.fpos \in {0, q.fsize},
         \A g \in Files : g # f => dirent'[g] = dirent[g],
         \/ /\ dirent' = dirent /\ dirent[f] # Absent /\ mode # 1
            /\ q.sclust = dirent[f].clust /\ q.fsize = dirent[f].size
         \/ q.fsize = 0
  PROVE  Bytefile!Open(k, f)
<1>0. /\ call.op = "idle" /\ call' = call /\ fcb[k] = Closed /\ DOMAIN fcb = Fcbs
      /\ \A l \in Fcbs : fcb[l].file = f => mode = 0 /\ ~fcb[l].write
      /\ ~WriteChunk /\ fcb[k].file \notin Files
  BY FileConstants DEF OpenCall, Available, OpenOn, Calm, IInv, Shape, WriteChunk, WriteMore, Closed
<1>1. /\ \A l \in Fcbs : l # k => fcb'[l] = fcb[l]
      /\ fcb'[k] = q
  BY <1>0
<1>2. ASSUME NEW g \in Files, g # f PROVE Contents'[g] = Contents[g]
  BY <1>0, <1>1, <1>2, SameContent DEF Calm, Live
<1>3. Contents'[f] = {Image(fat', data', q.sclust, q.fsize)}
  BY <1>1, OpenContentNext
<1>4. q.fsize \in Nat
  BY MaxSizeFact DEF FcbRecords
<1>5. Handles' = [Handles EXCEPT ![k] = [file |-> f, pos |-> q.fpos]]
  BY <1>0, HandleGiven
<1>6. Bytefile!Quiet /\ UNCHANGED <<Delivered, Unwritten>> /\ Handles[k] = Bytefile!Unused
  BY <1>0, HandleUnused DEF Bytefile!Quiet, Delivered, Unwritten
<1>7. \E s \in Contents'[f] : \E pos \in {0, Len(s)} :
        Handles' = [Handles EXCEPT ![k] = [file |-> f, pos |-> pos]]
  <2> DEFINE s == Image(fat', data', q.sclust, q.fsize)
  <2>1. Len(s) = q.fsize
    BY <1>4, ImageLen
  <2> HIDE DEF s
  <2>2. s \in Contents'[f] /\ q.fpos \in {0, Len(s)}
    BY <1>3, <2>1 DEF s
  <2> QED
    BY <1>5, <2>2
<1>8. CASE q.fsize = 0
  <2>1. Contents'[f] = {<<>>}
    BY <1>3, <1>8, ImageEmpty
  <2>2. Bytefile!Replace(f, <<>>)
    BY <1>2, <2>1, OneReplaced DEF Bytefile!Replace
  <2> QED
    BY <1>6, <1>7, <2>2 DEF Bytefile!Open
<1>9. CASE q.fsize # 0
  <2>0. /\ dirent' = dirent /\ dirent[f] # Absent /\ mode # 1
        /\ q.sclust = dirent[f].clust /\ q.fsize = dirent[f].size
    BY <1>9
  <2>1. \A l \in Fcbs : fcb[l].file = f => ~Live(fcb, call.at, l)
    BY <1>0 DEF Live
  <2>2. Contents[f] = {Image(fat, data, dirent[f].clust, dirent[f].size)}
    BY <2>0, <2>1, ViewEntry, ContentsNow DEF Calm
  <2>3. Image(fat', data', dirent[f].clust, dirent[f].size)
          = Image(fat, data, dirent[f].clust, dirent[f].size)
    BY <1>0, <2>0, EntryKept DEF Calm
  <2>4. Contents'[f] = Contents[f] /\ Contents[f] # {}
    BY <1>3, <2>0, <2>2, <2>3
  <2>5. UNCHANGED Contents
    BY <1>2, <2>4, AllSame
  <2> QED
    BY <1>6, <1>7, <2>4, <2>5 DEF Bytefile!Open
<1> QED
  BY <1>8, <1>9

\* A call that fails before it has done anything.
LEMMA NothingSeen ==
  ASSUME Calm, UNCHANGED <<dirent, fcb>>, call' = call, ~WriteChunk
  PROVE  Unseen
<1>1. UNCHANGED <<Delivered, Unwritten>>
  BY DEF Delivered, Unwritten
<1>2. UNCHANGED Handles
  BY HandlesSame
<1>3. ASSUME NEW g \in Files PROVE Contents'[g] = Contents[g]
  BY SameContent DEF Calm, Live
<1> QED
  BY <1>1, <1>2, <1>3, AllSame DEF Unseen

\* file_open.
LEMMA OpenSeen ==
  ASSUME Calm, NEW k \in Fcbs, NEW f \in Files, NEW mode \in 0 .. 2, OpenCall(k, f, mode)
  PROVE  Unseen \/ Bytefile!Open(k, f)
<1>0. call.op = "idle" /\ call' = call /\ DOMAIN dirent = Files /\ ~WriteChunk
  BY DEF OpenCall, Calm, IInv, Shape, WriteChunk, WriteMore
<1> DEFINE r == Opened(f, mode)
           p == [SeekTo(r, dirent[f].size) EXCEPT !.fpos = dirent[f].size]
<1>1. ASSUME dirent[f] # Absent
      PROVE  /\ r \in FcbRecords /\ r.file = f /\ r.open /\ r.fpos = 0 /\ Steady(faults, fat, r)
             /\ r.sclust = dirent[f].clust /\ ~r.iovalid
             /\ mode = 1 => r.fsize = 0
             /\ mode # 1 => r.fsize = dirent[f].size
  <2>1. DOMAIN Closed = FcbFields /\ Closed.fpos = 0
    BY DEF Closed, FcbFields
  <2>2. r.file = f /\ r.fpos = 0 /\ (mode = 1 => r.fsize = 0)
    BY <2>1 DEF Opened, FcbFields
  <2> QED
    BY <1>1, <2>2, OpenedSteady DEF Calm
<1> HIDE DEF r
<1>2. CASE OpenExisting(k, f, mode) /\ ~(mode = 2 /\ dirent[f].size > 0)
  <2>1. dirent[f] # Absent /\ UNCHANGED dirent /\ fcb' = [fcb EXCEPT ![k] = r]
    BY <1>2 DEF OpenExisting, r
  <2> QED
    BY <1>1, <2>1, OpenAs
<1>3. CASE OpenExisting(k, f, mode) /\ mode = 2 /\ dirent[f].size > 0
  <2>1. dirent[f] # Absent /\ UNCHANGED dirent /\ fcb' = [fcb EXCEPT ![k] = p]
    BY <1>3 DEF OpenExisting, r
  <2>2. r.fsize = dirent[f].size
    BY <1>1, <1>3, <2>1
  <2>3. p \in FcbRecords
    <3>1. Reaches(r, r.fsize)
      BY <1>3, <2>2 DEF OpenExisting, r
    <3> QED
      BY <1>1, <1>3, <2>1, <2>2, <3>1, AppendSteady
  <2>4. SameExtent(r, SeekTo(r, dirent[f].size))
    <3>1. DOMAIN r = FcbFields
      BY <1>1, <2>1 DEF FcbRecords, FcbFields
    <3> QED
      BY <3>1, SeekToExtent
  <2>5. p.file = f /\ p.open /\ p.sclust = dirent[f].clust /\ p.fsize = dirent[f].size
        /\ p.fpos = dirent[f].size
    <3> DEFINE s == SeekTo(r, dirent[f].size)
    <3>1. p = [s EXCEPT !.fpos = dirent[f].size]
      OBVIOUS
    <3> HIDE DEF s, p
    <3> QED
      BY <1>1, <2>1, <2>2, <2>4, <3>1 DEF s, SameExtent, FcbFields
  <2> HIDE DEF p
  <2>6. p.fpos \in {0, p.fsize} /\ dirent' = dirent /\ mode # 1
        /\ \A g \in Files : g # f => dirent'[g] = dirent[g]
    BY <1>3, <2>1, <2>5
  <2>7. Bytefile!Open(k, f)
    BY <2>1, <2>3, <2>5, <2>6, OpenAs
  <2> QED
    BY <2>7
<1>4. CASE OpenAppendFails(k, f, mode)
  <2>1. /\ dirent[f].size > 0 /\ UNCHANGED dirent
        /\ fcb' = [fcb EXCEPT ![k] = r] /\ mode = 2
    BY <1>4 DEF OpenAppendFails, r
  <2>2. dirent[f] # Absent
    BY <2>1 DEF Absent
  <2> QED
    BY <1>1, <2>1, <2>2, OpenAs
<1>5. CASE OpenNew(k, f, mode)
  <2> DEFINE q == [Closed EXCEPT !.file = f, !.open = TRUE, !.write = TRUE]
  <2>1. /\ dirent' = [dirent EXCEPT ![f] = [clust |-> 0, size |-> 0]]
        /\ fcb' = [fcb EXCEPT ![k] = q]
    BY <1>5 DEF OpenNew
  <2>2. q.open /\ q.file = f /\ q.fpos = 0 /\ q.fsize = 0
    BY DEF Closed
  <2>3. q \in FcbRecords
    BY ClosedCursor
  <2> HIDE DEF q
  <2>4. \A g \in Files : g # f => dirent'[g] = dirent[g]
    BY <1>0, <2>1
  <2> QED
    BY <2>1, <2>2, <2>3, <2>4, OpenAs
<1>6. CASE OpenFails(f, mode)
  <2>1. UNCHANGED <<dirent, fcb>>
    BY <1>6 DEF OpenFails
  <2> QED
    BY <1>0, <2>1, NothingSeen
<1> QED
  BY <1>2, <1>3, <1>4, <1>5, <1>6 DEF OpenCall

\* file_seek.
LEMMA SeekSeen ==
  ASSUME Calm, NEW k \in Fcbs, NEW target \in 0 .. MaxSize, SeekCall(k, target)
  PROVE  Unseen \/ (k \in Bytefile!InUse /\ Bytefile!Seek(k))
<1>0. /\ call.op = "idle" /\ call' = call /\ UNCHANGED <<fat, dirent, data>> /\ fcb[k].open
      /\ ~WriteChunk /\ DOMAIN fcb = Fcbs /\ fcb[k] \in FcbRecords /\ fcb[k].file \in Files
      /\ DOMAIN fcb[k] = FcbFields
  BY CursorsNow DEF SeekCall, Calm, IInv, Shape, IsFcb, WriteChunk, WriteMore, Cursors, FcbFields
<1>1. CASE UNCHANGED fcb
  BY <1>0, <1>1, NothingSeen
<1>2. CASE ~UNCHANGED fcb
  <2> DEFINE q == Sought(fcb[k], target)
  <2>1. target \in 0 .. fcb[k].fsize /\ fcb' = [fcb EXCEPT ![k] = q]
    BY <1>2 DEF SeekCall
  <2>2. SameExtent(fcb[k], q)
    BY <1>0, MovedExtent
  <2>3. q.fpos = target /\ q.write = fcb[k].write
    <3> DEFINE r == IF target = 0
                      THEN [fcb[k] EXCEPT !.cclust = fcb[k].sclust, !.csect = 0, !.boff = 0]
                      ELSE SeekTo(fcb[k], target)
    <3>1. DOMAIN r = FcbFields /\ r.write = fcb[k].write
      BY <1>0 DEF SeekTo, FcbFields
    <3>2. q = [r EXCEPT !.fpos = target, !.iovalid = FALSE]
      BY DEF Sought
    <3> HIDE DEF r, q
    <3> QED
      BY <3>1, <3>2 DEF FcbFields
  <2> HIDE DEF q
  <2>4. Bytefile!At(k, target)
    BY <1>0, <2>1, <2>2, <2>3, HandleMoved DEF SameExtent
  <2>5. UNCHANGED Contents
    <3>1. call.at # "size"
      BY <1>0 DEF Calm, IInv, CallOK
    <3>2. \A l \in Fcbs : /\ fcb'[l].file = fcb[l].file /\ fcb'[l].write = fcb[l].write
                          /\ fcb'[l].open = fcb[l].open /\ fcb'[l].fsize = fcb[l].fsize
                          /\ fcb'[l].sclust = fcb[l].sclust
      BY <1>0, <2>1, <2>2, <2>3 DEF SameExtent
    <3> QED
      BY <1>0, <3>1, <3>2, QuietContents
  <2>6. Bytefile!Quiet /\ UNCHANGED <<Delivered, Unwritten>>
    BY <1>0 DEF Bytefile!Quiet, Delivered, Unwritten
  <2> DEFINE s == Image(fat, data, fcb[k].sclust, fcb[k].fsize)
  <2>7. Contents[fcb[k].file] = {s}
    BY <1>0, OpenContent DEF Calm
  <2>8. Len(s) = fcb[k].fsize
    BY <1>0, MaxSizeFact, ImageLen DEF FcbRecords
  <2> HIDE DEF s
  <2>9. s \in Contents[Handles[k].file] /\ target \in 0 .. Len(s)
    BY <2>1, <2>7, <2>8, HandleIs
  <2>10. Bytefile!Seek(k)
    BY <2>4, <2>5, <2>6, <2>9 DEF Bytefile!Seek
  <2> QED
    BY <1>0, <2>10, HandleIs
<1> QED
  BY <1>1, <1>2

\* file_read and file_write, when they are called.
LEMMA AskSeen ==
  ASSUME Calm, NEW k \in Fcbs, NEW n, ReadCall(k, n)
  PROVE  Unseen
<1>0. /\ call.op = "idle" /\ call' = [Idle EXCEPT !.op = "read", !.k = k, !.n = n]
      /\ UNCHANGED <<dirent, fcb>>
  BY DEF ReadCall, Start
<1>1. call'.op = "read" /\ call'.bytes = <<>> /\ call'.at = ""
  BY <1>0 DEF Idle
<1>2. UNCHANGED <<Delivered, Unwritten>>
  BY <1>0, <1>1 DEF Delivered, Unwritten
<1>3. call.at # "size" /\ ~WriteChunk
  BY <1>0 DEF Calm, IInv, CallOK, WriteChunk, WriteMore
<1>4. UNCHANGED Contents
  BY <1>0, <1>1, <1>3, QuietContents
<1>5. UNCHANGED Handles
  BY <1>0, HandlesSame
<1> QED
  BY <1>2, <1>4, <1>5 DEF Unseen

\* file_write is asked to write some bytes.
LEMMA WriteAsked ==
  ASSUME Calm, NEW k \in Fcbs, NEW bytes \in Requests, WriteCall(k, bytes)
  PROVE  Bytefile!Ask
<1> DEFINE at == IF fcb[k].cclust = 0 THEN "first" ELSE "loop"
           q == [fcb[k] EXCEPT !.write = TRUE]
           f == fcb[k].file
<1>0. /\ call.op = "idle" /\ UNCHANGED <<fat, data, dirent>>
      /\ call' = [Idle EXCEPT !.op = "write", !.k = k, !.bytes = bytes, !.at = at]
  BY DEF WriteCall, Start
<1>a. at # "size"
  OBVIOUS
<1>b. /\ fcb' = [fcb EXCEPT ![k] = q]
      /\ \A l \in Fcbs : fcb[l].file = f => l = k
      /\ f \in Files /\ fcb[k].open /\ DOMAIN fcb = Fcbs
  BY WritesNow DEF Calm, IInv, Shape, IsFcb
<1>c. /\ q.file = f /\ q.open /\ q.fpos = fcb[k].fpos
      /\ q.sclust = fcb[k].sclust /\ q.fsize = fcb[k].fsize
  BY <1>b DEF Calm, IInv, Shape, IsFcb
<1>d. fcb'[k] = q /\ \A l \in Fcbs : l # k => fcb'[l] = fcb[l]
  BY <1>b
<1> HIDE DEF at, q
<1>1. call'.op = "write" /\ call'.bytes = bytes /\ call'.at = at
  BY <1>0 DEF Idle
<1>2. bytes # <<>>
  <2>1. PICK n \in 1 .. MaxRequest : bytes \in [1 .. n -> Bytes]
    BY DEF Requests
  <2>2. 1 \in DOMAIN bytes
    BY <2>1, FileConstants
  <2> QED
    BY <2>2
<1>3. /\ Bytefile!Quiet /\ UNCHANGED Delivered /\ Unwritten' # <<>>
  BY <1>0, <1>1, <1>2 DEF Bytefile!Quiet, Delivered, Unwritten
<1>4. call.at # "size" /\ ~WriteChunk
  BY <1>0 DEF Calm, IInv, CallOK, WriteChunk, WriteMore
<1>5. UNCHANGED Contents
  <2>1. ASSUME NEW g \in Files, g # f PROVE Contents'[g] = Contents[g]
    <3>1. \A l \in Fcbs : fcb[l].file = g \/ fcb'[l].file = g => fcb'[l] = fcb[l]
      BY <1>c, <1>d, <2>1
    <3>2. \A l \in Fcbs : fcb[l].file = g \/ fcb'[l].file = g =>
            (Live(fcb', call'.at, l) <=> Live(fcb, call.at, l))
      BY <1>1, <1>4, <1>a, <3>1 DEF Live
    <3> QED
      BY <1>0, <1>4, <2>1, <3>1, <3>2, SameContent DEF Calm
  <2>2. Contents[f] = {Image(fat, data, fcb[k].sclust, fcb[k].fsize)}
    BY <1>b, OpenContent DEF Calm
  <2>3. Contents'[f] = {Image(fat', data', fcb'[k].sclust, fcb'[k].fsize)}
    <3>1. fcb'[k].file = f /\ fcb'[k].open
      BY <1>c, <1>d
    <3> QED
      BY <1>b, <3>1, OpenContentNext
  <2>4. Contents'[f] = Contents[f]
    BY <1>0, <1>c, <1>d, <2>2, <2>3
  <2> QED
    BY <2>1, <2>4, AllSame
<1>6. UNCHANGED Handles
  BY <1>c, <1>d, HandlesSame
<1> QED
  BY <1>3, <1>5, <1>6 DEF Bytefile!Ask

\* A step of file_read or file_write that writes no sector.
LEMMA TransferSame ==
  ASSUME Calm, call.op \in {"read", "write"}, UNCHANGED dirent, ~WriteChunk,
         call'.at # "size", NEW q, fcb' = fcb \/ fcb' = [fcb EXCEPT ![call.k] = q],
         q.file = Cur.file, q.write = Cur.write, q.open = Cur.open, q.fsize = Cur.fsize,
         q.fpos = Cur.fpos, q.sclust = Cur.sclust \/ Cur.fsize = 0
  PROVE  UNCHANGED <<Contents, Handles>>
<1>0. /\ DOMAIN fcb = Fcbs /\ call.at # "size" /\ Cur = fcb[call.k]
  BY DEF Calm, IInv, Shape, CallOK, Cur
<1>1. \A l \in Fcbs : /\ fcb'[l].file = fcb[l].file /\ fcb'[l].write = fcb[l].write
                      /\ fcb'[l].open = fcb[l].open /\ fcb'[l].fsize = fcb[l].fsize
                      /\ fcb'[l].fpos = fcb[l].fpos
                      /\ fcb'[l].sclust = fcb[l].sclust \/ fcb[l].fsize = 0
  BY <1>0
<1>2. UNCHANGED Contents
  BY <1>0, <1>1, QuietContents
<1>3. UNCHANGED Handles
  BY <1>1, HandlesSame
<1> QED
  BY <1>2, <1>3

\* The FCB itself is such a q, and so is one whose cursor has made its pending
\* move, with a buffer loaded or not.
LEMMA MovedSame ==
  ASSUME NEW r \in FcbRecords, NEW b
  PROVE  LET q == Resolve(r)
             p == [q EXCEPT !.iobuf = b, !.iovalid = TRUE]
         IN  /\ q.file = r.file /\ q.write = r.write /\ q.open = r.open
             /\ q.fsize = r.fsize /\ q.fpos = r.fpos /\ q.sclust = r.sclust
             /\ p.file = r.file /\ p.write = r.write /\ p.open = r.open
             /\ p.fsize = r.fsize /\ p.fpos = r.fpos /\ p.sclust = r.sclust
<1> DEFINE q == Resolve(r)
<1>1. DOMAIN r = FcbFields
  BY DEF FcbRecords, FcbFields
<1>2. /\ DOMAIN q = FcbFields
      /\ q.file = r.file /\ q.write = r.write /\ q.open = r.open
      /\ q.fsize = r.fsize /\ q.fpos = r.fpos /\ q.sclust = r.sclust
  BY <1>1 DEF Resolve, FcbFields
<1> HIDE DEF q
<1>3. LET p == [q EXCEPT !.iobuf = b, !.iovalid = TRUE]
      IN  /\ p.file = r.file /\ p.write = r.write /\ p.open = r.open
          /\ p.fsize = r.fsize /\ p.fpos = r.fpos /\ p.sclust = r.sclust
  BY <1>2 DEF FcbFields
<1> QED
  BY <1>2, <1>3 DEF q

\* Steps of file_read and file_write that a program does not see: a sector is
\* loaded, or a cluster is added to the chain.
LEMMA TransferUnseen ==
  ASSUME Calm, ReadSector \/ WriteSector \/ WriteFirst \/ Grow \/ LinkNew
  PROVE  Unseen
<1>0. /\ call.op \in {"read", "write"} /\ UNCHANGED dirent /\ ~WriteChunk
      /\ DOMAIN call = Registers
  BY DEF ReadSector, WriteSector, WriteMore, WriteFirst, FirstCluster, Grow, LinkNew,
     WriteChunk, Calm, IInv, Shape, Registers
<1>1. /\ call.k \in Fcbs /\ Cur \in FcbRecords /\ Cur = fcb[call.k] /\ Steady(faults, fat, Cur)
      /\ DOMAIN Cur = FcbFields /\ call.at # "size"
  BY <1>0, CurCursor DEF Calm, Cur, FcbRecords, FcbFields, IInv, CallOK
<1>2. call'.op = call.op /\ call'.bytes = call.bytes /\ call'.at # "size"
  BY <1>0, <1>1 DEF ReadSector, WriteSector, WriteFirst, Grow, LinkNew, Goto, Registers
<1>3. UNCHANGED <<Delivered, Unwritten>>
  BY <1>2 DEF Delivered, Unwritten
<1>4. CASE ReadSector \/ WriteSector
  <2> DEFINE q == [Resolve(Cur) EXCEPT !.iobuf = data[SectorOf(Resolve(Cur))], !.iovalid = TRUE]
  <2>1. fcb' = [fcb EXCEPT ![call.k] = q]
    BY <1>4 DEF ReadSector, WriteSector
  <2>2. /\ q.file = Cur.file /\ q.write = Cur.write /\ q.open = Cur.open
        /\ q.fsize = Cur.fsize /\ q.fpos = Cur.fpos /\ q.sclust = Cur.sclust
    BY <1>1, MovedSame
  <2> HIDE DEF q
  <2>3. UNCHANGED <<Contents, Handles>>
    BY <1>0, <1>2, <2>1, <2>2, TransferSame
  <2> QED
    BY <1>3, <2>3 DEF Unseen
<1>5. CASE WriteFirst
  <2>1. PICK c \in Clusters : fcb' = [fcb EXCEPT ![call.k] = [Cur EXCEPT !.sclust = c,
                                        !.cclust = c, !.sizechg = TRUE]]
    BY <1>1, <1>5 DEF WriteFirst, FirstCluster
  <2>2. call.op = "write" /\ call.at = "first"
    BY <1>5 DEF WriteFirst
  <2>3. Cur.fsize = 0
    BY <1>1, <2>2, NoClusterYet DEF Calm, BytesInv, CursorInv, Working
  <2> DEFINE q == [Cur EXCEPT !.sclust = c, !.cclust = c, !.sizechg = TRUE]
  <2>4. /\ q.file = Cur.file /\ q.write = Cur.write /\ q.open = Cur.open
        /\ q.fsize = Cur.fsize /\ q.fpos = Cur.fpos
    BY <1>1 DEF FcbFields
  <2>5. fcb' = [fcb EXCEPT ![call.k] = q]
    BY <2>1
  <2> HIDE DEF q
  <2>6. UNCHANGED <<Contents, Handles>>
    BY <1>0, <1>2, <2>3, <2>4, <2>5, TransferSame
  <2> QED
    BY <1>3, <2>6 DEF Unseen
<1>6. CASE Grow
  <2>1. fcb' = fcb
    BY <1>6 DEF Grow
  <2>2. UNCHANGED <<Contents, Handles>>
    BY <1>0, <1>2, <2>1, TransferSame
  <2> QED
    BY <1>3, <2>2 DEF Unseen
<1>7. CASE LinkNew
  <2> DEFINE q == [Cur EXCEPT !.cclust = call.c, !.csect = 0]
  <2>1. fcb' = [fcb EXCEPT ![call.k] = q]
    BY <1>1, <1>7 DEF LinkNew
  <2>2. /\ q.file = Cur.file /\ q.write = Cur.write /\ q.open = Cur.open
        /\ q.fsize = Cur.fsize /\ q.fpos = Cur.fpos /\ q.sclust = Cur.sclust
    BY <1>1 DEF FcbFields
  <2> HIDE DEF q
  <2>3. UNCHANGED <<Contents, Handles>>
    BY <1>0, <1>2, <2>1, <2>2, TransferSame
  <2> QED
    BY <1>3, <2>3 DEF Unseen
<1> QED
  BY <1>4, <1>5, <1>6, <1>7

\* They return.
LEMMA TransferDone ==
  ASSUME Calm, \/ ReadFails \/ ReadDone \/ WriteFirstFails \/ WriteSectorFails \/ GrowFull
               \/ LinkFails \/ WriteDone
  PROVE  Bytefile!Done
<1>0. /\ call.op \in {"read", "write"} /\ UNCHANGED dirent /\ ~WriteChunk /\ call' = Idle
  <2>1. UNCHANGED data
    BY DEF ReadFails, ReadDone, WriteFirstFails, FirstCluster, WriteSectorFails, GrowFull,
       LinkFails, WriteDone
  <2>2. call.op \in {"read", "write"} /\ UNCHANGED dirent /\ call' = Idle
    BY DEF ReadFails, ReadDone, WriteFirstFails, FirstCluster, WriteSectorFails, WriteMore,
       GrowFull, LinkFails, WriteDone, Return
  <2>3. DOMAIN call = Registers
    BY DEF Calm, IInv, Shape, Registers
  <2>4. WriteChunk => call'.op = "write"
    BY <2>3 DEF WriteChunk, WriteMore, Registers
  <2>5. call'.op = "idle"
    BY <2>2 DEF Idle
  <2> QED
    BY <2>2, <2>4, <2>5
<1>1. Delivered' = <<>> /\ Unwritten' = <<>> /\ call'.at # "size"
  BY <1>0 DEF Idle, Delivered, Unwritten
<1>2. /\ call.k \in Fcbs /\ Cur \in FcbRecords /\ Cur = fcb[call.k]
  BY <1>0, CurCursor DEF Calm, Cur
<1>3. fcb' = fcb \/ fcb' = [fcb EXCEPT ![call.k] = Resolve(Cur)]
  BY <1>2 DEF ReadFails, ReadDone, WriteFirstFails, WriteSectorFails, GrowFull, LinkFails,
     WriteDone, Calm
<1> DEFINE q == Resolve(Cur)
<1>4. /\ q.file = Cur.file /\ q.write = Cur.write /\ q.open = Cur.open
      /\ q.fsize = Cur.fsize /\ q.fpos = Cur.fpos /\ q.sclust = Cur.sclust
  BY <1>2, MovedSame
<1> HIDE DEF q
<1>5. fcb' = fcb \/ fcb' = [fcb EXCEPT ![call.k] = q]
  BY <1>3 DEF q
<1>6. UNCHANGED <<Contents, Handles>>
  BY <1>0, <1>1, <1>4, <1>5, TransferSame
<1> QED
  BY <1>1, <1>6 DEF Bytefile!Done

\* An FCB is given up: its file is what its entry says.
LEMMA GivenUp ==
  ASSUME Calm, ~WriteChunk, UNCHANGED dirent, NEW k \in Fcbs, fcb[k].file \in Files,
         fcb' = [fcb EXCEPT ![k] = Closed],
         call.op = "idle" \/ (call.op = "close" /\ k = call.k), call.at # "size",
         call'.at # "size", Contents[fcb[k].file]
           = {Image(fat, data, dirent[fcb[k].file].clust, dirent[fcb[k].file].size)},
         Bytefile!Quiet, UNCHANGED <<Delivered, Unwritten>>
  PROVE  k \in Bytefile!InUse /\ Bytefile!Close(k)
<1>0. DOMAIN fcb = Fcbs /\ Closed.file \notin Files
  BY FileConstants DEF Calm, IInv, Shape, Closed
<1>1. \A l \in Fcbs : fcb'[l] = IF l = k THEN Closed ELSE fcb[l]
  BY <1>0
<1> DEFINE f == fcb[k].file
<1>2. ASSUME NEW g \in Files, g # f PROVE Contents'[g] = Contents[g]
  <2>1. \A l \in Fcbs : fcb[l].file = g \/ fcb'[l].file = g => fcb'[l] = fcb[l]
    BY <1>0, <1>1, <1>2
  <2>2. \A l \in Fcbs : fcb[l].file = g =>
          (Live(fcb', call'.at, l) <=> Live(fcb, call.at, l))
    BY <2>1 DEF Live
  <2> QED
    BY <2>1, <2>2, SameContent DEF Calm
<1>3. Contents'[f] = Contents[f]
  <2>1. \A l \in Fcbs : fcb'[l].file = f => ~Live(fcb', call'.at, l)
    <3> SUFFICES ASSUME NEW l \in Fcbs, fcb'[l].file = f, Live(fcb', call'.at, l)
                 PROVE  FALSE
      OBVIOUS
    <3>1. l # k /\ fcb'[l] = fcb[l]
      BY <1>0, <1>1
    <3>2. fcb[l].file = f /\ fcb[l].write
      BY <3>1 DEF Live
    <3> QED
      BY <3>1, <3>2, OnlyWriter DEF Calm
  <2>2. dirent[f] # Absent /\ dirent' = dirent
    BY DEF Calm, CursorInv
  <2>3. Contents'[f] = View(fat', data', dirent, fcb', call'.at, f)
    BY <2>2, ContentsNext DEF Calm
  <2>4. Contents'[f] = {Image(fat', data', dirent[f].clust, dirent[f].size)}
    BY ONLY <2>1, <2>2, <2>3, ViewEntry
  <2>5. Image(fat', data', dirent[f].clust, dirent[f].size)
          = Image(fat, data, dirent[f].clust, dirent[f].size)
    BY <2>2, EntryKept DEF Calm
  <2> QED
    BY <2>4, <2>5
<1>4. UNCHANGED Contents
  BY <1>2, <1>3, AllSame
<1>5. Handles' = [Handles EXCEPT ![k] = [file |-> Closed.file, pos |-> Closed.fpos]]
  BY <1>0, HandleGiven
<1>6. Handles' = [Handles EXCEPT ![k] = Bytefile!Unused]
  BY <1>5, HandleUnused
<1> QED
  BY <1>4, <1>6, HandleIs DEF Bytefile!Close

\* file_close, when it is called: with a changed file it goes on.
LEMMA CloseSeen ==
  ASSUME Calm, NEW k \in Fcbs, CloseCall(k)
  PROVE  Unseen \/ (k \in Bytefile!InUse /\ Bytefile!Close(k))
<1>0. /\ call.op = "idle" /\ call.at = "" /\ UNCHANGED <<fat, dirent, data>> /\ fcb[k].open
      /\ DOMAIN fcb = Fcbs /\ fcb[k].file \in Files /\ ~WriteChunk
      /\ IsFcb(fcb[k])
  BY DEF CloseCall, Start, Calm, IInv, Shape, IsFcb, CallOK, WriteChunk, WriteMore
<1>1. CASE fcb[k].sizechg
  <2> DEFINE q == [fcb[k] EXCEPT !.open = FALSE]
  <2>1. /\ call' = [Idle EXCEPT !.op = "close", !.k = k, !.at = "size"]
        /\ fcb' = [fcb EXCEPT ![k] = q]
    BY <1>0, <1>1 DEF CloseCall, Start
  <2>2. /\ q.file = fcb[k].file /\ q.write = fcb[k].write /\ q.fsize = fcb[k].fsize
        /\ q.fpos = fcb[k].fpos /\ q.sclust = fcb[k].sclust
    BY <1>0 DEF IsFcb
  <2> HIDE DEF q
  <2>3. call'.op = "close" /\ call'.at = "size"
    BY <2>1 DEF Idle
  <2>4. UNCHANGED <<Delivered, Unwritten>>
    BY <1>0, <2>3 DEF Delivered, Unwritten
  <2>5. \A l \in Fcbs : /\ fcb'[l].file = fcb[l].file /\ fcb'[l].write = fcb[l].write
                        /\ fcb'[l].fsize = fcb[l].fsize /\ fcb'[l].fpos = fcb[l].fpos
                        /\ fcb'[l].sclust = fcb[l].sclust
    BY <1>0, <2>1, <2>2
  <2>6. \A l \in Fcbs : fcb[l].file \in Files => fcb[l].open
    BY <1>0, NowOpen DEF Calm
  <2>7. ASSUME NEW g \in Files PROVE Contents'[g] = Contents[g]
    <3>1. \A l \in Fcbs : fcb[l].file = g =>
            (Live(fcb', call'.at, l) <=> Live(fcb, call.at, l))
      BY <2>3, <2>5, <2>6, <2>7 DEF Live
    <3> QED
      BY <1>0, <2>5, <3>1, SameContent DEF Calm
  <2>8. UNCHANGED Handles
    BY <2>5, HandlesSame
  <2> QED
    BY <2>4, <2>7, <2>8, AllSame DEF Unseen
<1>2. CASE ~fcb[k].sizechg
  <2>1. fcb' = [fcb EXCEPT ![k] = Closed] /\ call' = call
    BY <1>2 DEF CloseCall
  <2>2. dirent[fcb[k].file] = [clust |-> fcb[k].sclust, size |-> fcb[k].fsize]
    BY <1>0, <1>2, NowOpen DEF Calm
  <2>3. /\ dirent[fcb[k].file].clust = fcb[k].sclust
        /\ dirent[fcb[k].file].size = fcb[k].fsize
    BY <2>2
  <2>4. Contents[fcb[k].file]
          = {Image(fat, data, dirent[fcb[k].file].clust, dirent[fcb[k].file].size)}
    BY <1>0, <2>3, OpenContent DEF Calm
  <2>5. Bytefile!Quiet /\ UNCHANGED <<Delivered, Unwritten>>
    BY <1>0, <2>1 DEF Bytefile!Quiet, Delivered, Unwritten
  <2>6. k \in Bytefile!InUse /\ Bytefile!Close(k)
    BY <1>0, <2>1, <2>4, <2>5, GivenUp
  <2> QED
    BY <2>6
<1> QED
  BY <1>1, <1>2

\* A step of file_close that leaves all files but its own alone.
LEMMA ClosingOthers ==
  ASSUME Calm, call.op = "close", ~WriteChunk, NEW g \in Files, g # Cur.file,
         dirent'[g] = dirent[g], \A l \in Fcbs : l # call.k => fcb'[l] = fcb[l],
         fcb'[call.k].file = Cur.file
  PROVE  Contents'[g] = Contents[g]
<1>1. call.k \in Fcbs /\ Cur = fcb[call.k]
  BY ClosingNow DEF Calm
<1>2. \A l \in Fcbs : fcb[l].file = g \/ fcb'[l].file = g =>
        l # call.k /\ fcb'[l] = fcb[l]
  BY <1>1
<1>3. \A l \in Fcbs : fcb[l].file = g => fcb[l].open
  BY <1>2, NowOpen DEF Calm
<1>4. \A l \in Fcbs : fcb[l].file = g =>
        (Live(fcb', call'.at, l) <=> Live(fcb, call.at, l))
  BY <1>2, <1>3 DEF Live
<1> QED
  BY <1>2, <1>4, SameContent DEF Calm

\* The entry is written: now it says what the FCB said.
LEMMA SizeSeen ==
  ASSUME Calm, CloseSize
  PROVE  Unseen
<1>0. /\ call.op = "close" /\ call.at = "size" /\ fcb' = fcb /\ UNCHANGED <<fat, data>>
      /\ dirent' = [dirent EXCEPT ![Cur.file] = [clust |-> Cur.sclust, size |-> Cur.fsize]]
      /\ DOMAIN dirent = Files /\ DOMAIN call = Registers /\ ~WriteChunk
  BY DEF CloseSize, Calm, IInv, Shape, Registers, WriteChunk, WriteMore
<1>1. /\ call.k \in Fcbs /\ Cur = fcb[call.k] /\ Cur.file \in Files /\ Cur.write /\ ~Cur.open
      /\ \A l \in Fcbs : fcb[l].file = Cur.file => l = call.k
      /\ dirent[Cur.file] # Absent
  BY <1>0, ClosingNow DEF Calm
<1>2. call'.op = "close" /\ call'.at = "trim"
  BY <1>0 DEF CloseSize, Goto, Registers
<1>3. UNCHANGED <<Delivered, Unwritten>>
  BY <1>0, <1>2 DEF Delivered, Unwritten
<1>4. UNCHANGED Handles
  BY <1>0, HandlesSame
<1> DEFINE f == Cur.file
<1>5. ASSUME NEW g \in Files, g # f PROVE Contents'[g] = Contents[g]
  BY <1>0, <1>1, <1>5, ClosingOthers
<1>6. Contents'[f] = Contents[f]
  <2>1. Live(fcb, call.at, call.k)
    BY <1>0, <1>1 DEF Live
  <2>2. Contents[f] = {Image(fat, data, Cur.sclust, Cur.fsize)}
    BY <1>1, <2>1, ViewLive, ContentsNow DEF Calm
  <2>3. \A l \in Fcbs : fcb'[l].file = f => ~Live(fcb', call'.at, l)
    BY <1>0, <1>1, <1>2 DEF Live
  <2>4. dirent'[f] = [clust |-> Cur.sclust, size |-> Cur.fsize]
    BY <1>0, <1>1
  <2>5. dirent'[f] # Absent /\ dirent'[f].clust = Cur.sclust /\ dirent'[f].size = Cur.fsize
    <3>1. Cur.fsize \in Nat
      BY <1>0, ClosingNow DEF Calm
    <3> QED
      BY <2>4, <3>1 DEF Absent
  <2>6. Contents'[f] = {Image(fat', data', Cur.sclust, Cur.fsize)}
    BY <1>1, <2>3, <2>5, ViewEntry, ContentsNext DEF Calm
  <2> QED
    BY <1>0, <2>2, <2>6
<1>7. UNCHANGED Contents
  BY <1>5, <1>6, AllSame
<1> QED
  BY <1>3, <1>4, <1>7 DEF Unseen

\* It is not: the file keeps its old entry, and the new content is lost.
LEMMA CloseLoses ==
  ASSUME Calm, CloseFails
  PROVE  Unseen \/ (call.k \in Bytefile!InUse /\ Bytefile!Lose(call.k))
<1>0. /\ call.op = "close" /\ call.at \in {"size", "trim"}
      /\ UNCHANGED <<fat, data, dirent, fcb>>
      /\ DOMAIN call = Registers /\ ~WriteChunk
  BY DEF CloseFails, Calm, IInv, Shape, Registers, WriteChunk, WriteMore
<1>1. call.k \in Fcbs /\ Cur = fcb[call.k] /\ Cur.file \in Files
  BY <1>0, ClosingNow DEF Calm
<1>2. call'.op = "close" /\ call'.at = "flush"
  BY <1>0 DEF CloseFails, Goto, Registers
<1>3. Bytefile!Quiet /\ UNCHANGED <<Delivered, Unwritten>>
  BY <1>0, <1>2 DEF Delivered, Unwritten, Bytefile!Quiet
<1>4. UNCHANGED Handles
  BY <1>0, HandlesSame
<1>5. ASSUME NEW g \in Files, g # Cur.file PROVE Contents'[g] = Contents[g]
  BY <1>0, <1>1, <1>5, ClosingOthers
<1>6. CASE call.at = "trim"
  <2>1. \A l \in Fcbs : Live(fcb', call'.at, l) <=> Live(fcb, call.at, l)
    BY <1>0, <1>2, <1>6 DEF Live
  <2>2. \A g \in Files : Contents'[g] = Contents[g]
    BY <1>0, <2>1, SameContent DEF Calm
  <2> QED
    BY <1>3, <1>4, <2>2, AllSame DEF Unseen
<1>7. CASE call.at = "size"
  <2>1. Trouble' > Trouble
    <3>1. ReadFault
      BY DEF CloseFails, Fault, Calm
    <3>2. DOMAIN faults = {"read", "write", "crash"} /\ faults.read \in Nat
      BY DEF Calm, CursorInv, StateOK
    <3> QED
      BY <3>1, <3>2 DEF ReadFault, Trouble, Calm
  <2>2. Handles[call.k].file = Cur.file /\ call.k \in Bytefile!InUse
    BY <1>1, HandleIs
  <2> QED
    BY <1>3, <1>4, <1>5, <2>1, <2>2 DEF Bytefile!Lose
<1> QED
  BY <1>0, <1>6, <1>7

\* What is done to the chain, past the last byte of the file.
LEMMA FreeSeen ==
  ASSUME Calm, Trim \/ TrimAll \/ FreeOne \/ FreeFails
  PROVE  Unseen \/ Bytefile!Done
<1>0. /\ call.op \in {"close", "delete"} /\ call.at \in {"trim", "free"} /\ UNCHANGED data
      /\ DOMAIN call = Registers /\ ~WriteChunk /\ DOMAIN fcb = Fcbs /\ DOMAIN dirent = Files
  BY DEF Trim, TrimAll, FreeOne, FreeFails, Calm, IInv, Shape, CallOK, Registers,
     WriteChunk, WriteMore
<1>1. call'.op \in {call.op, "idle"} /\ call'.at # "size" /\ Delivered' = <<>> /\ Unwritten' = <<>>
  <2>1. call'.op \in {call.op, "idle"} /\ call'.at \in {"free", "flush", ""}
    <3>1. CASE Trim \/ TrimAll
      BY <1>0, <3>1 DEF Trim, TrimAll, Goto, Free, Registers
    <3>2. CASE FreeOne
      BY <1>0, <3>2 DEF FreeOne, Goto, Free, Registers
    <3>3. CASE FreeFails
      <4>1. CASE call.op = "close"
        <5>1. call' = [call EXCEPT !.at = "flush"]
          BY <3>3, <4>1 DEF FreeFails, Goto
        <5> QED
          BY <1>0, <5>1 DEF Registers
      <4>2. CASE call.op # "close"
        <5>1. call' = Idle
          BY <3>3, <4>2 DEF FreeFails, Return
        <5> QED
          BY <5>1 DEF Idle
      <4> QED
        BY <4>1, <4>2
    <3> QED
      BY <3>1, <3>2, <3>3
  <2> QED
    BY <1>0, <2>1 DEF Delivered, Unwritten
<1>2. Delivered = <<>> /\ Unwritten = <<>>
  BY <1>0 DEF Delivered, Unwritten
<1>3. CASE UNCHANGED <<dirent, fcb>>
  <2>1. UNCHANGED Handles
    BY <1>3, HandlesSame
  <2>2. UNCHANGED Contents
    BY <1>0, <1>1, <1>3, QuietContents
  <2> QED
    BY <1>1, <1>2, <2>1, <2>2 DEF Unseen
<1>4. CASE TrimAll /\ ~UNCHANGED <<dirent, fcb>>
  <2>1. /\ call.op = "close" /\ call.at = "trim" /\ Cur.fsize = 0
        /\ dirent' = [dirent EXCEPT ![Cur.file].clust = 0]
        /\ fcb' = [fcb EXCEPT ![call.k].sclust = 0]
    BY <1>4 DEF TrimAll
  <2>2. /\ call.k \in Fcbs /\ Cur = fcb[call.k] /\ Cur.file \in Files /\ ~Cur.open
        /\ Cur \in FcbRecords
        /\ \A l \in Fcbs : fcb[l].file = Cur.file => l = call.k
        /\ dirent[Cur.file] = [clust |-> Cur.sclust, size |-> Cur.fsize]
        /\ dirent[Cur.file] # Absent
    BY <2>1, ClosingNow DEF Calm
  <2>3. /\ fcb'[call.k].file = Cur.file /\ ~fcb'[call.k].open
        /\ fcb'[call.k].fpos = Cur.fpos
        /\ \A l \in Fcbs : l # call.k => fcb'[l] = fcb[l]
    BY <1>0, <2>1, <2>2 DEF FcbRecords
  <2>4. UNCHANGED Handles
    BY <2>2, <2>3, HandlesSame
  <2> DEFINE f == Cur.file
  <2>5. ASSUME NEW g \in Files, g # f PROVE Contents'[g] = Contents[g]
    <3>1. dirent'[g] = dirent[g]
      BY <2>1, <2>5
    <3> QED
      BY <1>0, <2>1, <2>3, <2>5, <3>1, ClosingOthers
  <2>6. Contents'[f] = Contents[f]
    <3>1. \A l \in Fcbs : fcb[l].file = f => ~Live(fcb, call.at, l)
      BY <2>1, <2>2 DEF Live
    <3>2. \A l \in Fcbs : fcb'[l].file = f => ~Live(fcb', call'.at, l)
      BY <1>1, <2>2, <2>3 DEF Live
    <3>3. dirent[f].size = 0 /\ dirent'[f].size = 0 /\ dirent'[f] # Absent
      <4>1. dirent'[f] = [clust |-> 0, size |-> 0]
        BY <1>0, <2>1, <2>2
      <4> QED
        BY <2>1, <2>2, <4>1 DEF Absent
    <3>4. /\ Contents[f] = {Image(fat, data, dirent[f].clust, 0)}
          /\ Contents'[f] = {Image(fat', data', dirent'[f].clust, 0)}
      BY <2>2, <3>1, <3>2, <3>3, ViewEntry, ContentsNow, ContentsNext DEF Calm
    <3> QED
      BY <3>4, ImageEmpty
  <2>7. UNCHANGED Contents
    BY <2>5, <2>6, AllSame
  <2> QED
    BY <1>1, <1>2, <2>4, <2>7 DEF Unseen
<1> QED
  BY <1>3, <1>4 DEF Trim, TrimAll, FreeOne, FreeFails

\* The last step of file_close and file_delete.
LEMMA FlushSeen ==
  ASSUME Calm, FlushLast
  PROVE  Unseen \/ (call.k \in Bytefile!InUse /\ Bytefile!Close(call.k))
<1>0. /\ call.op \in {"close", "delete"} /\ call.at = "flush" /\ UNCHANGED <<fat, dirent, data>>
      /\ call' = Idle /\ ~WriteChunk
  BY DEF FlushLast, Return, Calm, IInv, CallOK, WriteChunk, WriteMore
<1>1. call'.op = "idle" /\ call'.at = ""
  BY <1>0 DEF Idle
<1>2. Bytefile!Quiet /\ UNCHANGED <<Delivered, Unwritten>>
  BY <1>0, <1>1 DEF Delivered, Unwritten, Bytefile!Quiet
<1>3. CASE call.op = "delete"
  <2>1. UNCHANGED fcb
    BY <1>3 DEF FlushLast, Released
  <2>2. UNCHANGED Handles
    BY <2>1, HandlesSame
  <2>3. UNCHANGED Contents
    BY <1>0, <1>1, <2>1, QuietContents
  <2> QED
    BY <1>2, <2>2, <2>3 DEF Unseen
<1>4. CASE call.op = "close"
  <2>1. fcb' = [fcb EXCEPT ![call.k] = Closed]
    BY <1>4 DEF FlushLast, Released
  <2>2. /\ call.k \in Fcbs /\ Cur = fcb[call.k] /\ Cur.file \in Files /\ ~Cur.open
        /\ \A l \in Fcbs : fcb[l].file = Cur.file => l = call.k
        /\ dirent[Cur.file] # Absent
    BY <1>4, ClosingNow DEF Calm
  <2>3. \A l \in Fcbs : fcb[l].file = Cur.file => ~Live(fcb, call.at, l)
    BY <1>0, <2>2 DEF Live
  <2>4. Contents[Cur.file] = {Image(fat, data, dirent[Cur.file].clust, dirent[Cur.file].size)}
    BY <2>2, <2>3, ViewEntry, ContentsNow DEF Calm
  <2>5. call.k \in Bytefile!InUse /\ Bytefile!Close(call.k)
    BY <1>0, <1>1, <1>2, <1>4, <2>1, <2>2, <2>4, GivenUp
  <2> QED
    BY <2>5
<1> QED
  BY <1>0, <1>3, <1>4

\* file_delete, when it is called.
LEMMA DeleteSeen ==
  ASSUME Calm, NEW f \in Files, DeleteCall(f)
  PROVE  Unseen \/ Bytefile!Delete(f)
<1>0. /\ call.op = "idle" /\ UNCHANGED <<fat, data, fcb>> /\ ~WriteChunk /\ DOMAIN dirent = Files
      /\ \A l \in Fcbs : fcb[l].file # f
      /\ call.at = ""
  BY DEF DeleteCall, OpenOn, Calm, IInv, Shape, WriteChunk, WriteMore, CallOK
<1>1. CASE UNCHANGED <<dirent, call>>
  BY <1>0, <1>1, NothingSeen
<1>2. CASE MarkDeleted(f)
  <2>1. /\ dirent' = [dirent EXCEPT ![f] = Absent] /\ call'.op = "delete"
        /\ call'.at # "size"
    BY <1>2 DEF MarkDeleted, Idle
  <2>2. Bytefile!Quiet /\ UNCHANGED <<Delivered, Unwritten>>
    BY <1>0, <2>1 DEF Delivered, Unwritten, Bytefile!Quiet
  <2>3. UNCHANGED Handles /\ \A l \in Fcbs : Handles[l].file # f
    BY <1>0, HandlesSame, HandleIs
  <2>4. ASSUME NEW g \in Files, g # f PROVE Contents'[g] = Contents[g]
    <3>1. dirent'[g] = dirent[g]
      BY <2>1, <2>4
    <3>2. \A l \in Fcbs : Live(fcb', call'.at, l) <=> Live(fcb, call.at, l)
      BY <1>0, <2>1 DEF Live
    <3> QED
      BY <1>0, <3>1, <3>2, SameContent DEF Calm
  <2>5. Contents'[f] = {}
    <3>1. dirent'[f] = Absent
      BY <1>0, <2>1
    <3>2. Contents'[f] = View(fat', data', dirent', fcb', call'.at, f)
      BY ContentsNext DEF Calm
    <3> QED
      BY <3>1, <3>2 DEF View
  <2>6. Contents' = [Contents EXCEPT ![f] = {}]
    BY <2>4, <2>5, OneReplaced
  <2> QED
    BY <2>2, <2>3, <2>6 DEF Bytefile!Delete
<1> QED
  BY <1>1, <1>2 DEF DeleteCall

-----------------------------------------------------------------------------
(* The bytes that a chunk moves.                                           *)

\* A remainder is what is left over.
LEMMA ModIs ==
  ASSUME NEW p \in Nat, p > 0, NEW q \in Nat, NEW r \in Nat, r < p
  PROVE  (p * q + r) % p = r
<1> DEFINE a == p * q + r
<1>1. a \in Nat
  OBVIOUS
<1>2. a \div p = q
  BY DivIs
<1> HIDE DEF a
<1>3. a = p * (a \div p) + (a % p) /\ a % p \in Nat
  BY <1>1, DivMod
<1>4. a = p * q + (a % p)
  BY <1>2, <1>3
<1> DEFINE z == p * q
           m == a % p
<1>5. a = z + m /\ a = z + r /\ z \in Nat /\ m \in Nat
  BY <1>3, <1>4 DEF a
<1> HIDE DEF z, m
<1>6. m = r
  BY <1>5
<1> QED
  BY <1>6 DEF m, a

\* Byte o of sector s of the n-th cluster, found again from its position.
LEMMA ByteIs ==
  ASSUME NEW n \in Nat, NEW s \in 0 .. Spc - 1, NEW o \in 0 .. SecSize - 1, NEW b,
         b = n * ClusterBytes + s * SecSize + o
  PROVE  b \div ClusterBytes = n /\ (b \div SecSize) % Spc = s /\ b % SecSize = o
<1> DEFINE x == s * SecSize
           y == n * ClusterBytes
           z == n * Spc
<1>0. s \in Nat /\ o \in Nat /\ o < SecSize /\ s < Spc
  BY SizeFacts
<1>1. x \in Nat /\ y \in Nat /\ z \in Nat
  BY <1>0, SizeFacts
<1>2. x + SecSize <= ClusterBytes
  <2>1. x + SecSize = (s + 1) * SecSize
    BY <1>0, SizeFacts
  <2>2. (s + 1) * SecSize <= Spc * SecSize
    BY <1>0, SizeFacts
  <2> QED
    BY <2>1, <2>2, SizeFacts
<1>3. y = SecSize * z
  <2>1. n * (Spc * SecSize) = SecSize * (n * Spc)
    BY SizeFacts
  <2> QED
    BY <2>1, SizeFacts
<1>4. SecSize * (z + s) = SecSize * z + x
  BY <1>0, <1>1, SizeFacts
<1>5. b = y + x + o /\ y = ClusterBytes * n /\ z = Spc * n
  BY SizeFacts
<1> HIDE DEF x, y, z
<1>6. b \div ClusterBytes = n
  <2>1. b = ClusterBytes * n + (x + o)
    BY <1>0, <1>1, <1>5
  <2>2. x + o \in Nat /\ x + o < ClusterBytes
    BY <1>0, <1>1, <1>2, SizeFacts
  <2> QED
    BY <2>1, <2>2, DivIs, SizeFacts
<1>7. b = SecSize * (z + s) + o /\ z + s \in Nat
  <2>1. SecSize * (z + s) = y + x
    BY <1>3, <1>4
  <2> QED
    BY <1>0, <1>1, <1>5, <2>1
<1>8. b \div SecSize = z + s /\ b % SecSize = o
  BY <1>0, <1>7, DivIs, ModIs, SizeFacts
<1>9. (z + s) % Spc = s
  BY <1>0, <1>5, ModIs, SizeFacts
<1> QED
  BY <1>6, <1>8, <1>9

\* The smallest of some numbers is one of them.
LEMMA SmallestIn ==
  /\ \A a, b \in Nat : Min({a, b}) \in {a, b}
  /\ \A a, b, c \in Nat : Min({a, b, c}) \in {a, b, c}
<1>1. ASSUME NEW S \in SUBSET Nat, S # {}
      PROVE  Min(S) \in S
  <2>1. \E m \in S : \A y \in S : m <= y
    BY <1>1, Least
  <2> QED
    BY <2>1 DEF Min
<1>2. ASSUME NEW a \in Nat, NEW b \in Nat PROVE Min({a, b}) \in {a, b}
  <2> DEFINE S == {a, b}
  <2>1. S \in SUBSET Nat /\ S # {}
    OBVIOUS
  <2> HIDE DEF S
  <2>2. Min(S) \in S
    BY <1>1, <2>1
  <2> QED
    BY <2>2 DEF S
<1>3. ASSUME NEW a \in Nat, NEW b \in Nat, NEW c \in Nat PROVE Min({a, b, c}) \in {a, b, c}
  <2> DEFINE S == {a, b, c}
  <2>1. S \in SUBSET Nat /\ S # {}
    OBVIOUS
  <2> HIDE DEF S
  <2>2. Min(S) \in S
    BY <1>1, <2>1
  <2> QED
    BY <2>2 DEF S
<1> QED
  BY <1>2, <1>3

\* An FCB in a sector of its file's chain, at the byte of its position.
Standing(t, r) ==
  /\ r.csect \in 0 .. Spc - 1 /\ r.boff \in 0 .. SecSize - 1
  /\ \E N \in Nat : /\ r.cclust = Nth(t, r.sclust, N)
                    /\ r.fpos = N * ClusterBytes + r.csect * SecSize + r.boff

\* Where the FCB is, once its buffer is valid.
LEMMA InSector ==
  ASSUME IInv, CursorInv, BytesInv, call.op \in {"read", "write"}, Cur.iovalid,
         Cur.cclust \in Clusters
  PROVE  /\ call.k \in Fcbs /\ Cur \in FcbRecords /\ Cur = fcb[call.k] /\ Cur.open
         /\ Cur.file \in Files /\ Cur.csect \in 0 .. Spc - 1 /\ Cur.boff \in 0 .. SecSize - 1
         /\ Cur.fpos \in Nat /\ Cur.fsize \in Nat /\ Cur.fpos <= Cur.fsize
         /\ Cur.iobuf = data[SectorOf(Cur)] /\ Cur.iobuf \in Buffers
         /\ Covered(fat, Cur)
         /\ Standing(fat, Cur)
<1>1. call.k \in Fcbs /\ Cur \in FcbRecords /\ Cur = fcb[call.k] /\ Cur.open
      /\ Steady(faults, fat, Cur)
  BY CurCursor DEF Cur
<1>2. Cur.file \in Files
  BY <1>1 DEF IInv, CallOK
<1>3. Cur.csect \in 0 .. Spc - 1
  BY <1>1, SizeFacts DEF Steady, FcbRecords
<1>4. Cur.fpos \in Nat /\ Cur.fsize \in Nat /\ Cur.fpos <= Cur.fsize
      /\ Cur.boff \in 0 .. SecSize - 1 /\ Cur.iobuf \in Buffers
  BY <1>1, MaxSizeFact DEF Steady, FcbRecords
<1>5. Cur.iobuf = data[SectorOf(Cur)]
  BY <1>1 DEF BytesInv, Buffered
<1>6. \E N \in Nat : /\ Cur.cclust = Nth(fat, Cur.sclust, N)
                     /\ Cur.fpos = N * ClusterBytes + Cur.csect * SecSize + Cur.boff
  BY <1>1, ClusterFacts DEF Steady, Placed
<1>7. Covered(fat, Cur)
  BY <1>1 DEF BytesInv, Steady
<1> QED
  BY <1>1, <1>2, <1>3, <1>4, <1>5, <1>6, <1>7 DEF Standing

\* A byte of the buffer past the cursor is the byte of the file that is as far
\* past the position.
LEMMA BufferByte ==
  ASSUME NEW t, NEW d, NEW r, Standing(t, r),
         NEW size \in Nat, NEW i \in 1 .. size, NEW o \in 0 .. SecSize - 1,
         i > r.fpos, i - r.fpos = o - r.boff + 1
  PROVE  Image(t, d, r.sclust, size)[i] = d[SectorOf(r)][o]
<1>a. r.csect \in 0 .. Spc - 1 /\ r.boff \in 0 .. SecSize - 1
  BY DEF Standing
<1>b. PICK N \in Nat : /\ r.cclust = Nth(t, r.sclust, N)
                      /\ r.fpos = N * ClusterBytes + r.csect * SecSize + r.boff
  BY DEF Standing
<1> DEFINE b == i - 1
           x == N * ClusterBytes
           y == r.csect * SecSize
<1>0. x \in Nat /\ y \in Nat /\ r.boff \in Nat
  BY <1>a, SizeFacts
<1>1. r.fpos = x + y + r.boff
  BY <1>b
<1>2. b = x + y + o
  <2> HIDE DEF x, y
  <2> QED
    BY <1>0, <1>1
<1>3. b \div ClusterBytes = N /\ (b \div SecSize) % Spc = r.csect /\ b % SecSize = o
  <2>1. b = N * ClusterBytes + r.csect * SecSize + o
    BY <1>2
  <2> HIDE DEF b, x, y
  <2> QED
    BY <1>a, <1>0, <2>1, ByteIs
<1> HIDE DEF x, y, b
<1>4. Image(t, d, r.sclust, size)[i]
        = d[<<Nth(t, r.sclust, b \div ClusterBytes), (b \div SecSize) % Spc>>][b % SecSize]
  BY <1>2 DEF Image, b
<1>5. Image(t, d, r.sclust, size)[i] = d[<<Nth(t, r.sclust, N), r.csect>>][o]
  BY <1>3, <1>4
<1> QED
  BY <1>b, <1>5 DEF SectorOf

\* The bytes of a file from one to another.
LEMMA PartOf ==
  ASSUME NEW t, NEW d, NEW c, NEW size \in Nat, NEW a \in Nat, NEW b \in Nat,
         a > 0, a <= b, b <= size
  PROVE  \A u : (\E U : u \in [1 .. b - a + 1 -> U])
                /\ (\A i \in 1 .. b - a + 1 : u[i] = Image(t, d, c, size)[a + i - 1])
              => SubSeq(Image(t, d, c, size), a, b) = u
<1> DEFINE s == Image(t, d, c, size)
           S == {s[i] : i \in 1 .. size}
           q == SubSeq(s, a, b)
           n == b - a + 1
<1>1. Len(s) = size /\ DOMAIN s = 1 .. size /\ s = [i \in 1 .. size |-> s[i]]
  BY ImageLen DEF Image
<1> HIDE DEF s
<1>2. s \in Seq(S)
  BY <1>1
<1> HIDE DEF S
<1>3. a \in 1 .. Len(s) + 1 /\ b \in a - 1 .. Len(s) /\ n \in Nat
  BY <1>1
<1>4. q \in Seq(S) /\ Len(q) = n /\ \A i \in 1 .. n : q[i] = s[a + i - 1]
  BY <1>2, <1>3, SubSeqProperties
<1> HIDE DEF q, n
<1>5. q \in [1 .. n -> S]
  BY <1>3, <1>4, LenProperties
<1> SUFFICES ASSUME NEW u, NEW U, u \in [1 .. n -> U], \A i \in 1 .. n : u[i] = s[a + i - 1]
             PROVE  q = u
  BY DEF q, s, n
<1> QED
  BY <1>4, <1>5

\* A chunk read is the next bytes of the file.
LEMMA ReadSeen ==
  ASSUME Calm, ReadChunk
  PROVE  call.k \in Bytefile!InUse /\ Bytefile!Read(call.k)
<1>0. /\ call.op = "read" /\ MoreToRead /\ Cur.iovalid /\ UNCHANGED <<fat, data, dirent>>
      /\ DOMAIN call = Registers /\ DOMAIN fcb = Fcbs
  BY DEF ReadChunk, Calm, IInv, Shape, Registers
<1>1. /\ call.k \in Fcbs /\ Cur \in FcbRecords /\ Cur = fcb[call.k] /\ Steady(faults, fat, Cur)
      /\ DOMAIN Cur = FcbFields
  BY <1>0, CurCursor DEF Calm, Cur, FcbRecords, FcbFields
<1>2. Cur.cclust \in Clusters
  BY <1>0, <1>1, NextThere DEF MoreToRead, Calm, BytesInv
<1>3. /\ Cur.file \in Files /\ Cur.open /\ Cur.csect \in 0 .. Spc - 1
      /\ Cur.boff \in 0 .. SecSize - 1
      /\ Cur.fpos \in Nat /\ Cur.fsize \in Nat /\ Cur.iobuf = data[SectorOf(Cur)]
  BY <1>0, <1>2, InSector DEF Calm
<1>4. Standing(fat, Cur) /\ Cur.fpos <= Cur.fsize
  BY <1>0, <1>2, InSector DEF Calm
<1>5. /\ Part \in Nat /\ Part > 0 /\ Part <= SecSize - Cur.boff
      /\ Cur.fpos + Part <= Cur.fsize
  <2>1. /\ call.n \in Nat /\ call.n > 0 /\ SecSize - Cur.boff \in Nat
        /\ SecSize - Cur.boff > 0 /\ Cur.fsize - Cur.fpos \in Nat /\ Cur.fsize - Cur.fpos > 0
    <3>1. call.n \in Nat
      BY FileConstants DEF Calm, CursorInv, StateOK
    <3>2. call.n > 0 /\ Cur.fpos < Cur.fsize
      BY <1>0 DEF MoreToRead
    <3> QED
      BY <1>3, <1>4, <3>1, <3>2, SizeFacts
  <2>2. /\ Part \in {call.n, SecSize - Cur.boff, Cur.fsize - Cur.fpos}
        /\ Part <= SecSize - Cur.boff /\ Part <= Cur.fsize - Cur.fpos
    BY <2>1, SmallestIn, SmallestOf DEF Part
  <2> QED
    BY <1>3, <2>1, <2>2
<1> DEFINE s == Image(fat, data, Cur.sclust, Cur.fsize)
           end == Cur.fpos + Part
<1>6. Len(s) = Cur.fsize /\ DOMAIN s = 1 .. Cur.fsize
  BY <1>3, ImageLen
<1>7. ASSUME NEW m \in 1 .. Part
      PROVE  s[Cur.fpos + m] = Cur.iobuf[Cur.boff + m - 1]
  <2> DEFINE i == Cur.fpos + m
             o == Cur.boff + m - 1
  <2>1. /\ i \in 1 .. Cur.fsize /\ o \in 0 .. SecSize - 1 /\ i > Cur.fpos
        /\ i - Cur.fpos = o - Cur.boff + 1
    BY <1>3, <1>5, SizeFacts
  <2> HIDE DEF i, o
  <2>2. s[i] = data[SectorOf(Cur)][o]
    BY <1>3, <1>4, <2>1, BufferByte
  <2> QED
    BY <1>3, <2>2 DEF i, o
<1>8. SubSeq(s, Cur.fpos + 1, end) = Taken
  <2> DEFINE a == Cur.fpos + 1
             U == {Taken[m] : m \in 1 .. Part}
  <2>0. /\ a \in Nat /\ end \in Nat /\ a > 0 /\ a <= end /\ end <= Cur.fsize
        /\ end - a + 1 = Part /\ \A m \in 1 .. Part : a + m - 1 = Cur.fpos + m
    BY <1>3, <1>5
  <2>1. Taken \in [1 .. Part -> U]
    BY DEF Taken
  <2> HIDE DEF a, end, U
  <2>2. \A m \in 1 .. Part : Taken[m] = s[a + m - 1]
    BY <1>7, <2>0 DEF Taken
  <2>3. /\ \E V : Taken \in [1 .. end - a + 1 -> V]
        /\ \A m \in 1 .. end - a + 1 : Taken[m] = s[a + m - 1]
    BY <2>0, <2>1, <2>2
  <2>4. SubSeq(s, a, end) = Taken
    BY <1>3, <2>0, <2>3, PartOf
  <2> QED
    BY <2>4 DEF a
<1> HIDE DEF s
<1>9. /\ Delivered' = Delivered \o SubSeq(s, Cur.fpos + 1, end)
      /\ UNCHANGED Unwritten /\ call'.at = call.at
  <2>1. call' = [call EXCEPT !.n = call.n - Part, !.bytes = call.bytes \o Taken]
    BY ReadFacts DEF Calm
  <2>2. call'.op = "read" /\ call'.bytes = call.bytes \o Taken /\ call'.at = call.at
    BY <1>0, <2>1 DEF Registers
  <2> QED
    BY <1>0, <1>8, <2>2 DEF Delivered, Unwritten
<1> DEFINE q == Advance(Cur, Part)
<1>10. /\ fcb' = [fcb EXCEPT ![call.k] = q]
       /\ q.file = Cur.file /\ q.open = Cur.open /\ q.write = Cur.write
       /\ q.fsize = Cur.fsize /\ q.sclust = Cur.sclust /\ q.fpos = end
  <2>1. fcb' = [fcb EXCEPT ![call.k] = q]
    BY <1>1 DEF ReadChunk, Part
  <2> DEFINE p == [Cur EXCEPT !.boff = @ + Part, !.fpos = @ + Part]
  <2>2. /\ DOMAIN p = FcbFields
        /\ p.file = Cur.file /\ p.open = Cur.open /\ p.write = Cur.write
        /\ p.fsize = Cur.fsize /\ p.sclust = Cur.sclust /\ p.fpos = end
    BY <1>1 DEF FcbFields
  <2>3. q = IF p.boff = SecSize
              THEN [p EXCEPT !.boff = 0, !.csect = @ + 1, !.iovalid = FALSE] ELSE p
    BY DEF Advance
  <2> HIDE DEF p, q, end
  <2>4. /\ q.file = p.file /\ q.open = p.open /\ q.write = p.write
        /\ q.fsize = p.fsize /\ q.sclust = p.sclust /\ q.fpos = p.fpos
    BY <2>2, <2>3 DEF FcbFields
  <2> QED
    BY <2>1, <2>2, <2>4 DEF q
<1> HIDE DEF q
<1>11. Bytefile!At(call.k, end)
  BY <1>0, <1>1, <1>10, HandleMoved
<1>12. UNCHANGED Contents
  <2>1. /\ call.at # "size" /\ ~WriteChunk
    BY <1>0 DEF Calm, IInv, CallOK, WriteChunk, WriteMore
  <2>2. \A l \in Fcbs : /\ fcb'[l].file = fcb[l].file /\ fcb'[l].write = fcb[l].write
                        /\ fcb'[l].open = fcb[l].open /\ fcb'[l].fsize = fcb[l].fsize
                        /\ fcb'[l].sclust = fcb[l].sclust
    BY <1>0, <1>1, <1>10
  <2> QED
    BY <1>0, <1>9, <2>1, <2>2, QuietContents
<1>13. s \in Contents[Handles[call.k].file]
  BY <1>1, <1>3, OpenContent, HandleIs DEF Calm, s
<1>14. Handles[call.k].pos = Cur.fpos /\ call.k \in Bytefile!InUse
  BY <1>1, <1>3, HandleIs
<1>15. end \in Handles[call.k].pos + 1 .. Len(s)
  BY <1>3, <1>5, <1>6, <1>14 DEF s
<1> HIDE DEF end
<1>16. /\ Delivered' = Delivered \o SubSeq(s, Handles[call.k].pos + 1, end)
       /\ Bytefile!At(call.k, end) /\ UNCHANGED <<Contents, Unwritten>>
  BY SMTT(30), <1>9, <1>11, <1>12, <1>14
<1>17. Bytefile!Read(call.k)
  BY <1>13, <1>15, <1>16 DEF Bytefile!Read
<1> QED
  BY <1>14, <1>17

\* A chunk written is the first part of what is yet to be written.
LEMMA ChunkIs ==
  ASSUME IInv, CursorInv, WriteMore
  PROVE  /\ call.bytes \in Seq(Bytes) /\ Len(Chunk) \in 1 .. Len(call.bytes)
         /\ Chunk = SubSeq(call.bytes, 1, Len(Chunk))
         /\ Cur.boff + Len(Chunk) <= SecSize
         /\ DOMAIN Chunk = 1 .. Len(Chunk)
<1> DEFINE s == call.bytes
           n == Min({Len(s), SecSize - Cur.boff})
<1>1. s \in Seq(Bytes) /\ s # <<>> /\ Cur.boff + Len(Chunk) <= SecSize
  BY ChunkFacts DEF WriteMore
<1>2. Cur.boff \in 0 .. SecSize - 1 /\ SecSize \in Nat
  BY CurCursor, SizeFacts DEF WriteMore, FcbRecords
<1>3. Chunk = SubSeq(s, 1, n)
  BY DEF Chunk
<1> HIDE DEF s
<1>4. Len(s) \in Nat /\ Len(s) > 0 /\ SecSize - Cur.boff \in Nat /\ SecSize - Cur.boff > 0
  BY <1>1, <1>2
<1>5. n \in {Len(s), SecSize - Cur.boff} /\ n <= Len(s)
  BY <1>4, SmallestIn, SmallestOf
<1> HIDE DEF n
<1>6. n \in 1 .. Len(s)
  BY <1>4, <1>5
<1>7. Chunk \in Seq(Bytes) /\ Len(Chunk) = n
  BY <1>1, <1>3, <1>4, <1>6
<1> QED
  BY <1>1, <1>3, <1>6, <1>7 DEF s

\* The sectors after a chunk was written.
LEMMA WrittenSectors ==
  ASSUME IInv, CursorInv, BytesInv, WriteChunk
  PROVE  /\ \A o \in 0 .. SecSize - 1 :
              data'[SectorOf(Cur)][o]
                = IF o \in Cur.boff .. Cur.boff + Len(Chunk) - 1
                    THEN Chunk[o - Cur.boff + 1] ELSE data[SectorOf(Cur)][o]
         /\ \A c, s : <<c, s>> # SectorOf(Cur) => data'[<<c, s>>] = data[<<c, s>>]
<1>0. WriteMore /\ Cur.iovalid /\ call.op = "write"
  BY DEF WriteChunk, WriteMore
<1>1. Cur.cclust \in Clusters
  BY <1>0, WriteThere
<1>2. /\ Cur \in FcbRecords /\ Cur.csect \in 0 .. Spc - 1
      /\ Cur.iobuf = data[SectorOf(Cur)]
  BY <1>0, <1>1, InSector
<1>3. SectorOf(Cur) \in Sectors /\ data \in [Sectors -> Buffers]
  BY <1>1, <1>2, SectorIs DEF CursorInv, StateOK
<1> DEFINE p == SectorOf(Cur)
           b == Patched(Cur, Chunk)
<1>4. data' = [data EXCEPT ![p] = b]
  BY OneSector
<1>5. \A o \in 0 .. SecSize - 1 :
        b[o] = IF o \in Cur.boff .. Cur.boff + Len(Chunk) - 1
                 THEN Chunk[o - Cur.boff + 1] ELSE Cur.iobuf[o]
  BY DEF Patched
<1> HIDE DEF p, b
<1>6. data'[p] = b
  BY <1>3, <1>4 DEF p
<1>7. ASSUME NEW c, NEW s, <<c, s>> # p
      PROVE  data'[<<c, s>>] = data[<<c, s>>]
  <2> DEFINE q == <<c, s>>
  <2> HIDE DEF q
  <2>1. q # p
    BY <1>7 DEF q
  <2>2. data'[q] = data[q]
    BY <1>3, <1>4, <2>1
  <2> QED
    BY <2>2 DEF q
<1> QED
  BY <1>2, <1>5, <1>6, <1>7 DEF p

\* A byte of the file that a chunk is written to: inside the chunk it is the
\* chunk's, elsewhere the one it was.
LEMMA WrittenByte ==
  ASSUME IInv, CursorInv, BytesInv, WriteChunk, NEW size \in Nat,
         size = IF Cur.fpos + Len(Chunk) > Cur.fsize THEN Cur.fpos + Len(Chunk)
                                                     ELSE Cur.fsize,
         NEW i \in 1 .. size
  PROVE  Image(fat, data', Cur.sclust, size)[i]
           = IF i \in Cur.fpos + 1 .. Cur.fpos + Len(Chunk) THEN Chunk[i - Cur.fpos]
             ELSE Image(fat, data, Cur.sclust, Cur.fsize)[i]
<1>0. WriteMore /\ Cur.iovalid /\ call.op = "write"
  BY DEF WriteChunk, WriteMore
<1>1. Cur.cclust \in Clusters
  BY <1>0, WriteThere
<1>2. /\ Cur.csect \in 0 .. Spc - 1 /\ Cur.boff \in 0 .. SecSize - 1
      /\ Cur.fpos \in Nat /\ Cur.fsize \in Nat /\ Cur.fpos <= Cur.fsize
      /\ Covered(fat, Cur) /\ Standing(fat, Cur)
  BY <1>0, <1>1, InSector
<1>3. Len(Chunk) \in Nat /\ Cur.boff + Len(Chunk) <= SecSize
  BY <1>0, ChunkFacts
<1>4. CASE i \in Cur.fpos + 1 .. Cur.fpos + Len(Chunk)
  <2> DEFINE o == Cur.boff + (i - Cur.fpos) - 1
  <2>1. /\ o \in 0 .. SecSize - 1 /\ i > Cur.fpos /\ i - Cur.fpos = o - Cur.boff + 1
        /\ o \in Cur.boff .. Cur.boff + Len(Chunk) - 1
    <3> DEFINE l == Len(Chunk)
    <3>1. l \in Nat /\ Cur.boff + l <= SecSize /\ i \in Cur.fpos + 1 .. Cur.fpos + l
      BY <1>3, <1>4
    <3> HIDE DEF l
    <3> DEFINE p == Cur.fpos
               q == Cur.boff
    <3>2. /\ p \in Nat /\ q \in Nat /\ i \in Nat /\ i > p /\ i <= p + l
          /\ q + l <= SecSize /\ SecSize \in Nat /\ l \in Nat
      BY <1>2, <3>1, SizeFacts
    <3> HIDE DEF p, q
    <3>3. o = q + (i - p) - 1
      BY DEF p, q
    <3>4. /\ o \in 0 .. SecSize - 1 /\ i - p = o - q + 1 /\ o \in q .. q + l - 1
      BY ONLY <3>2, <3>3
    <3> QED
      BY <3>2, <3>4 DEF l, p, q
  <2> HIDE DEF o
  <2>2. Image(fat, data', Cur.sclust, size)[i] = data'[SectorOf(Cur)][o]
    BY SMTT(30), <1>2, <2>1, BufferByte
  <2>3. data'[SectorOf(Cur)][o] = Chunk[o - Cur.boff + 1]
    BY <2>1, WrittenSectors
  <2> QED
    BY <1>4, <2>1, <2>2, <2>3
<1>5. CASE i \notin Cur.fpos + 1 .. Cur.fpos + Len(Chunk)
  <2> DEFINE b == i - 1
             n == b \div ClusterBytes
             s == (b \div SecSize) % Spc
             o == b % SecSize
             c == Nth(fat, Cur.sclust, n)
  <2>0. i \in 1 .. Cur.fsize /\ b \in Nat
    BY <1>2, <1>3, <1>5
  <2>1. /\ Image(fat, data', Cur.sclust, size)[i] = data'[<<c, s>>][o]
        /\ Image(fat, data, Cur.sclust, Cur.fsize)[i] = data[<<c, s>>][o]
    BY <2>0 DEF Image
  <2>2. n \in Nat /\ n * ClusterBytes < Cur.fsize /\ o \in 0 .. SecSize - 1
    BY <1>2, <2>0, ByteInside
  <2>3. c \in Clusters
    BY <1>2, <2>2 DEF Covered
  <2>4. CASE <<c, s>> = SectorOf(Cur)
    <3>1. PICK N \in Nat : /\ Cur.cclust = Nth(fat, Cur.sclust, N)
                           /\ Cur.fpos = N * ClusterBytes + Cur.csect * SecSize + Cur.boff
      BY <1>2 DEF Standing
    <3>2. c = Cur.cclust /\ s = Cur.csect
      BY <2>4 DEF SectorOf
    <3>3. n = N
      <4>1. PICK g \in Files : g = Cur.file
        BY <1>0, WriterAt
      <4>2. PICK h \in Heads[g] : h = Cur.sclust
        BY <1>0, <4>1, WriterAt
      <4>3. Sole(fat, Heads) /\ \A x \in Files : Heads[x] \subseteq Clusters
        BY HeadsType DEF IInv, FatSole
      <4>4. Nth(fat, h, n) = Nth(fat, h, N) /\ Nth(fat, h, n) \in Clusters
        BY <2>3, <3>1, <3>2, <4>2
      <4> HIDE DEF n
      <4> QED
        BY <2>2, <4>3, <4>4, ChainsApart
    <3>4. b = n * ClusterBytes + s * SecSize + o
      BY <2>0, ByteAt
    <3> DEFINE x == n * ClusterBytes
               y == s * SecSize
    <3>5. x \in Nat /\ y \in Nat
      BY <1>2, <2>2, <3>2, SizeFacts
    <3>6. b = x + y + o /\ Cur.fpos = x + y + Cur.boff
      BY <3>1, <3>2, <3>3, <3>4
    <3> HIDE DEF x, y, o, n, s, c
    <3>7. o \notin Cur.boff .. Cur.boff + Len(Chunk) - 1
      BY SMTT(30), <1>2, <1>3, <1>5, <2>0, <2>2, <3>5, <3>6
    <3>8. data'[SectorOf(Cur)][o] = data[SectorOf(Cur)][o]
      BY <2>2, <3>7, WrittenSectors
    <3> QED
      BY <1>5, <2>1, <2>4, <3>8
  <2>5. CASE <<c, s>> # SectorOf(Cur)
    <3> HIDE DEF c, s, o
    <3> QED
      BY <1>5, <2>1, <2>5, WrittenSectors
  <2> QED
    BY <2>4, <2>5
<1> QED
  BY <1>4, <1>5

\* The FCB after a chunk was written.
LEMMA WrittenFcb ==
  ASSUME IInv, CursorInv, BytesInv, WriteChunk
  PROVE  \E q : /\ fcb' = [fcb EXCEPT ![call.k] = q]
                /\ q.file = Cur.file /\ q.open = Cur.open /\ q.write = Cur.write
                /\ q.sclust = Cur.sclust /\ q.fpos = Cur.fpos + Len(Chunk)
                /\ q.fsize = IF Cur.fpos + Len(Chunk) > Cur.fsize
                               THEN Cur.fpos + Len(Chunk) ELSE Cur.fsize
<1>0. WriteMore /\ Cur.iovalid /\ call.op = "write"
  BY DEF WriteChunk, WriteMore
<1>1. /\ call.k \in Fcbs /\ Cur \in FcbRecords /\ Cur = fcb[call.k] /\ DOMAIN Cur = FcbFields
      /\ Cur.fpos \in Nat /\ Cur.fsize \in Nat
  BY <1>0, CurCursor, MaxSizeFact DEF Cur, FcbRecords, FcbFields
<1>2. Len(Chunk) \in Nat
  BY <1>0, ChunkFacts
<1> DEFINE b == Patched(Cur, Chunk)
           n == Len(Chunk)
           r == [Cur EXCEPT !.iobuf = b]
           p == Advance(r, n)
           q == Grown(p)
<1>3. fcb' = [fcb EXCEPT ![call.k] = q]
  BY <1>1 DEF WriteChunk
<1>4. /\ DOMAIN r = FcbFields
      /\ r.file = Cur.file /\ r.open = Cur.open /\ r.write = Cur.write
      /\ r.sclust = Cur.sclust /\ r.fpos = Cur.fpos /\ r.fsize = Cur.fsize
  <2> HIDE DEF b
  <2> QED
    BY <1>1 DEF FcbFields
<1>5. /\ DOMAIN p = FcbFields
      /\ p.file = r.file /\ p.open = r.open /\ p.write = r.write
      /\ p.sclust = r.sclust /\ p.fpos = r.fpos + n /\ p.fsize = r.fsize
  <2> DEFINE m == [r EXCEPT !.boff = @ + n, !.fpos = @ + n]
  <2>1. p = IF m.boff = SecSize
              THEN [m EXCEPT !.boff = 0, !.csect = @ + 1, !.iovalid = FALSE] ELSE m
    BY DEF Advance
  <2> HIDE DEF r, n
  <2>2. /\ DOMAIN m = FcbFields
        /\ m.file = r.file /\ m.open = r.open /\ m.write = r.write
        /\ m.sclust = r.sclust /\ m.fpos = r.fpos + n /\ m.fsize = r.fsize
    BY <1>4 DEF FcbFields
  <2> HIDE DEF m, p
  <2> QED
    BY <2>1, <2>2 DEF FcbFields
<1> HIDE DEF p, r, b
<1>6. /\ q.file = p.file /\ q.open = p.open /\ q.write = p.write
      /\ q.sclust = p.sclust /\ q.fpos = p.fpos
      /\ q.fsize = IF p.fpos >= p.fsize THEN p.fpos ELSE p.fsize
  BY <1>5 DEF Grown, FcbFields
<1>7. p.fpos = Cur.fpos + n /\ p.fsize = Cur.fsize /\ n \in Nat
  BY <1>2, <1>4, <1>5
<1> HIDE DEF q, n
<1>8. q.fpos = Cur.fpos + n
      /\ q.fsize = IF Cur.fpos + n > Cur.fsize THEN Cur.fpos + n ELSE Cur.fsize
  BY <1>1, <1>6, <1>7
<1>9. q.file = Cur.file /\ q.open = Cur.open /\ q.write = Cur.write /\ q.sclust = Cur.sclust
  BY <1>4, <1>5, <1>6
<1> QED
  BY <1>3, <1>8, <1>9 DEF n

\* A chunk written replaces the next bytes of its file, or adds to them.
LEMMA WriteSeen ==
  ASSUME Calm, WriteChunk
  PROVE  call.k \in Bytefile!InUse /\ Bytefile!Write(call.k)
<1>0. /\ WriteMore /\ Cur.iovalid /\ call.op = "write" /\ UNCHANGED <<fat, dirent>>
      /\ DOMAIN call = Registers /\ DOMAIN fcb = Fcbs
  BY DEF WriteChunk, WriteMore, Calm, IInv, Shape, Registers
<1>1. Cur.cclust \in Clusters
  BY <1>0, WriteThere DEF Calm
<1>2. /\ call.k \in Fcbs /\ Cur = fcb[call.k] /\ Cur.file \in Files /\ Cur.open
      /\ Cur.fpos \in Nat /\ Cur.fsize \in Nat /\ Cur.fpos <= Cur.fsize
      /\ call.at = "loop" /\ Cur.write
  BY <1>0, <1>1, InSector DEF Calm, WriteMore, IInv, CallOK
<1>3. /\ call.bytes \in Seq(Bytes) /\ Len(Chunk) \in 1 .. Len(call.bytes)
      /\ Chunk = SubSeq(call.bytes, 1, Len(Chunk))
  BY <1>0, ChunkIs DEF Calm
<1>4. PICK q : /\ fcb' = [fcb EXCEPT ![call.k] = q]
               /\ q.file = Cur.file /\ q.open = Cur.open /\ q.write = Cur.write
               /\ q.sclust = Cur.sclust /\ q.fpos = Cur.fpos + Len(Chunk)
               /\ q.fsize = IF Cur.fpos + Len(Chunk) > Cur.fsize
                              THEN Cur.fpos + Len(Chunk) ELSE Cur.fsize
  BY WrittenFcb DEF Calm
<1> DEFINE n == Len(Chunk)
           s == Image(fat, data, Cur.sclust, Cur.fsize)
           f == Cur.file
           size == q.fsize
           u == Image(fat, data', Cur.sclust, size)
<1>5. n \in Nat /\ size \in Nat
  BY <1>2, <1>3, <1>4
<1>6. Contents'[f] = {u}
  <2>1. fcb'[call.k] = q
    BY <1>0, <1>2, <1>4
  <2>2. Contents'[fcb'[call.k].file]
          = {Image(fat', data', fcb'[call.k].sclust, fcb'[call.k].fsize)}
    BY <1>2, <1>4, <2>1, OpenContentNext
  <2> QED
    BY <1>0, <1>4, <2>1, <2>2
<1>7. u = Bytefile!Overwritten(s, Cur.fpos, Chunk)
  <2>1. Len(s) = Cur.fsize /\ Len(Chunk) = n
    BY <1>2, ImageLen
  <2>2. \A i \in 1 .. size :
          u[i] = IF i \in Cur.fpos + 1 .. Cur.fpos + n THEN Chunk[i - Cur.fpos] ELSE s[i]
    BY <1>4, <1>5, WrittenByte DEF Calm
  <2>3. u = [i \in 1 .. size |-> u[i]]
    BY DEF Image
  <2>4. size = IF Cur.fpos + Len(Chunk) > Len(s) THEN Cur.fpos + Len(Chunk) ELSE Len(s)
    BY <1>4, <2>1
  <2>5. Bytefile!Overwritten(s, Cur.fpos, Chunk)
          = [i \in 1 .. size |->
               IF i \in Cur.fpos + 1 .. Cur.fpos + Len(Chunk) THEN Chunk[i - Cur.fpos]
                                                              ELSE s[i]]
    BY <2>4 DEF Bytefile!Overwritten
  <2> HIDE DEF u, s, size
  <2> QED
    BY <2>2, <2>3, <2>5
<1>8. ASSUME NEW g \in Files, g # f
      PROVE  Contents'[g] = Contents[g]
  <2>1. \A l \in Fcbs : fcb[l].file = g \/ fcb'[l].file = g => fcb'[l] = fcb[l]
    BY <1>0, <1>2, <1>4, <1>8
  <2>2. call'.at = call.at
    BY <1>0 DEF WriteChunk, Registers
  <2> QED
    BY <1>0, <1>8, <2>1, <2>2, SameContent DEF Calm, Live
<1> HIDE DEF u, s
<1>9. Bytefile!Replace(f, Bytefile!Overwritten(s, Cur.fpos, Chunk))
  BY <1>2, <1>6, <1>7, <1>8, OneReplaced DEF Bytefile!Replace
<1>10. Bytefile!At(call.k, Cur.fpos + n)
  BY <1>0, <1>2, <1>4, HandleMoved
<1>11. Handles[call.k].pos = Cur.fpos /\ Handles[call.k].file = f /\ call.k \in Bytefile!InUse
  BY <1>2, HandleIs
<1>12. s \in Contents[Handles[call.k].file]
  BY <1>2, <1>11, OpenContent DEF Calm, s
<1>13. /\ Unwritten = call.bytes /\ Unwritten' = SubSeq(call.bytes, n + 1, Len(call.bytes))
       /\ UNCHANGED Delivered
  <2>1. call' = [call EXCEPT !.bytes = SubSeq(call.bytes, n + 1, Len(call.bytes))]
    BY <1>0 DEF WriteChunk, Registers
  <2> HIDE DEF n
  <2>2. call'.op = "write" /\ call'.bytes = SubSeq(call.bytes, n + 1, Len(call.bytes))
    BY <1>0, <2>1 DEF Registers
  <2> QED
    BY <1>0, <2>2 DEF Unwritten, Delivered
<1>14. n \in 1 .. Len(Unwritten) /\ Chunk = SubSeq(Unwritten, 1, n)
  BY <1>3, <1>13
<1> HIDE DEF n, f
<1>15. Bytefile!Write(call.k)
  <2>1. /\ Bytefile!Replace(Handles[call.k].file,
             Bytefile!Overwritten(s, Handles[call.k].pos, SubSeq(Unwritten, 1, n)))
        /\ Bytefile!At(call.k, Handles[call.k].pos + n)
        /\ Unwritten' = SubSeq(Unwritten, n + 1, Len(Unwritten))
        /\ UNCHANGED Delivered
    BY <1>9, <1>10, <1>11, <1>13, <1>14
  <2> QED
    BY <1>12, <1>14, <2>1 DEF Bytefile!Write
<1> QED
  BY <1>11, <1>15

-----------------------------------------------------------------------------
(* FileIO implements ByteFile.                                             *)

\* A step that no program sees, or that is one of ByteFile's.
LEMMA GoodTimes ==
  ASSUME Trouble' >= Trouble,
         \/ Unseen
         \/ \E k \in Bytefile!InUse : \/ Bytefile!Seek(k) \/ Bytefile!Read(k)
                                      \/ Bytefile!Write(k) \/ Bytefile!Close(k)
                                      \/ Bytefile!Lose(k)
         \/ \E k \in Fcbs, f \in Files : Bytefile!Open(k, f)
         \/ \E f \in Files : Bytefile!Delete(f)
         \/ Bytefile!Ask \/ Bytefile!Done
  PROVE  Bytefile!Next
BY DEF Bytefile!Next, Unseen

\* The program's calls.
LEMMA CallerSeen ==
  ASSUME Calm, Caller
  PROVE  Bytefile!Next
<1>0. Trouble' >= Trouble
  BY DEF Calm
<1>1. ASSUME NEW k \in Fcbs, NEW f \in Files, NEW mode \in 0 .. 2, OpenCall(k, f, mode)
      PROVE  Bytefile!Next
  BY <1>0, <1>1, OpenSeen, GoodTimes
<1>2. ASSUME NEW k \in Fcbs, NEW target \in 0 .. MaxSize, SeekCall(k, target)
      PROVE  Bytefile!Next
  BY <1>0, <1>2, SeekSeen, GoodTimes
<1>3. ASSUME NEW k \in Fcbs, NEW n \in 1 .. MaxRequest, ReadCall(k, n)
      PROVE  Bytefile!Next
  BY <1>0, <1>3, AskSeen, GoodTimes
<1>4. ASSUME NEW k \in Fcbs, NEW bytes \in Requests, WriteCall(k, bytes)
      PROVE  Bytefile!Next
  BY <1>0, <1>4, WriteAsked, GoodTimes
<1>5. ASSUME NEW k \in Fcbs, CloseCall(k) PROVE Bytefile!Next
  BY <1>0, <1>5, CloseSeen, GoodTimes
<1>6. ASSUME NEW f \in Files, DeleteCall(f) PROVE Bytefile!Next
  BY <1>0, <1>6, DeleteSeen, GoodTimes
<1> QED
  BY <1>1, <1>2, <1>3, <1>4, <1>5, <1>6 DEF Caller

\* The kernel's own steps.
LEMMA KernelSeen ==
  ASSUME Calm, Kernel
  PROVE  Bytefile!Next
<1>0. Trouble' >= Trouble /\ ~WriteFault
  BY DEF Calm
<1>1. CASE ReadSector \/ WriteSector \/ WriteFirst \/ Grow \/ LinkNew
  BY <1>0, <1>1, TransferUnseen, GoodTimes
<1>2. CASE \/ ReadFails \/ ReadDone \/ WriteFirstFails \/ WriteSectorFails \/ GrowFull
           \/ LinkFails \/ WriteDone
  BY <1>0, <1>2, TransferDone, GoodTimes
<1>3. CASE ReadChunk
  BY <1>0, <1>3, ReadSeen, GoodTimes
<1>4. CASE WriteChunk
  BY <1>0, <1>4, WriteSeen, GoodTimes
<1>5. CASE CloseSize
  BY <1>0, <1>5, SizeSeen, GoodTimes
<1>6. CASE CloseFails
  BY <1>0, <1>6, CloseLoses, GoodTimes
<1>7. CASE Trim \/ TrimAll \/ FreeOne \/ FreeFails
  BY <1>0, <1>7, FreeSeen, GoodTimes
<1>8. CASE FlushLast
  BY <1>0, <1>8, FlushSeen, GoodTimes
<1>9. ~WriteChunkFails /\ ~FlushFails
  BY <1>0 DEF WriteChunkFails, FlushFails
<1> QED
  BY <1>1, <1>2, <1>3, <1>4, <1>5, <1>6, <1>7, <1>8, <1>9 DEF Kernel

\* A write of the FAT cache at a drive switch, or no step at all.
LEMMA SyncSeen ==
  ASSUME Calm, Sync \/ UNCHANGED state
  PROVE  Bytefile!Next
<1>1. UNCHANGED <<data, dirent, fcb, call>>
  BY DEF Sync, state
<1>2. ~WriteChunk
  <2> SUFFICES ASSUME WriteChunk PROVE FALSE
    OBVIOUS
  <2>1. Len(call.bytes) \in Nat /\ Len(Chunk) \in 1 .. Len(call.bytes)
        /\ call'.bytes = SubSeq(call.bytes, Len(Chunk) + 1, Len(call.bytes))
        /\ call.bytes \in Seq(Bytes)
    BY ChunkIs DEF WriteChunk, Calm, IInv, Shape
  <2> DEFINE n == Len(Chunk)
             s == call.bytes
  <2>2. s = SubSeq(s, n + 1, Len(s)) /\ s \in Seq(Bytes) /\ n \in 1 .. Len(s)
    BY <1>1, <2>1
  <2> HIDE DEF n, s
  <2> QED
    BY <2>2
<1>3. Unseen
  BY <1>1, <1>2, NothingSeen
<1> QED
  BY <1>3, GoodTimes DEF Calm

\* Before anything but reads has failed.
BytesSafe == Counted /\ (Either => IInv /\ CursorInv) /\ (~Disturbed => BytesInv)

\* No mishap so far is one that Either excludes.
LEMMA GoodBefore ==
  ASSUME Counted, Counted', ~Disturbed'
  PROVE  Either'
BY DEF Counted, Disturbed, Either

\* A step that leaves the times good is one between two good states.
LEMMA BytesSafeStep ==
  ASSUME BytesSafe, [Step]_state
  PROVE  BytesSafe' /\ (~Disturbed' => Calm)
<1>1. Counted' /\ (Either' => Either /\ IInv' /\ CursorInv')
  BY CountedStep, EveryStepCounted, NextSafe, CursorStep DEF BytesSafe
<1>2. ASSUME ~Disturbed' PROVE Calm
  <2>1. Either' /\ Either /\ IInv /\ CursorInv /\ IInv' /\ CursorInv'
    BY <1>1, <1>2, GoodBefore DEF BytesSafe
  <2>2. ~Disturbed /\ Running /\ ~WriteFault /\ Trouble' >= Trouble
    BY <1>2, <2>1, TimesWorsen
  <2>3. BytesInv /\ ~WriteChunkFails
    BY <2>2 DEF BytesSafe, WriteChunkFails
  <2>4. BytesInv'
    BY <2>1, <2>2, <2>3, BytesStep
  <2> QED
    BY <1>2, <2>1, <2>2, <2>3, <2>4 DEF Calm
<1> QED
  BY <1>1, <1>2 DEF BytesSafe, Calm

\* An empty volume is one without files.
LEMMA InitSeen ==
  ASSUME Init
  PROVE  Bytefile!Init
<1>1. ~Disturbed /\ Trouble = 0
  BY DEF Init, Disturbed, Trouble
<1>2. Contents = [f \in Files |-> {}]
  <2>1. \A f \in Files : dirent[f] = Absent
    BY DEF Init
  <2> QED
    BY <2>1 DEF Contents
<1>3. Handles = [k \in Fcbs |-> Bytefile!Unused]
  <2>1. \A k \in Fcbs : [file |-> fcb[k].file, pos |-> fcb[k].fpos] = Bytefile!Unused
    BY HandleUnused DEF Init
  <2> QED
    BY <2>1 DEF Handles
<1>4. Delivered = <<>> /\ Unwritten = <<>>
  BY DEF Init, Idle, Delivered, Unwritten
<1> QED
  BY <1>1, <1>2, <1>3, <1>4 DEF Bytefile!Init

\* To a program, a file is a sequence of bytes and an open file a position in
\* it: for every volume, sector and cluster size, whatever is opened, read,
\* written, sought, truncated, closed and deleted in whatever order, on however
\* many files, with a full volume and with reads that fail at any moment.
\* (Until a sector write fails or the system is restarted, as ByteFile says.)
THEOREM ImplementsByteFile == Spec => IsByteFile
<1>1. Init => BytesSafe /\ Bytefile!Init
  BY InitSafe, InitCursor, InitBytes, InitSeen, InitCounted DEF BytesSafe
<1>2. BytesSafe /\ [Next]_vars => BytesSafe'
  BY StepOfNext, BytesSafeStep
<1>3. BytesSafe /\ [Next]_vars
        => [Bytefile!Next]_<<Contents, Handles, Delivered, Unwritten, Trouble>>
  <2> SUFFICES ASSUME BytesSafe, [Step]_state
               PROVE  Bytefile!Next
    BY StepOfNext
  <2>1. ASSUME ~Disturbed' PROVE Bytefile!Next
    <3>1. Calm /\ Running
      BY <2>1, BytesSafeStep DEF Calm
    <3> QED
      BY <3>1, CallerSeen, KernelSeen, SyncSeen DEF Running
  <2> QED
    BY <2>1, BadTimes
<1> QED
  BY <1>1, <1>2, <1>3, PTL DEF Spec, IsByteFile, Bytefile!Spec, Bytefile!vars
=============================================================================
