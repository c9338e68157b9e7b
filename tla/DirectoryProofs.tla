--------------------------- MODULE DirectoryProofs ---------------------------
(***************************************************************************)
(* Theorems about Directory, for every size of sector, cluster and volume, *)
(* every set of names and whatever they are cut to.                        *)
(***************************************************************************)
EXTENDS Directory, FiniteSetTheorems, WellFoundedInduction, TLAPS

Entries == [off : Places, name : Listed, dir : BOOLEAN, ro : BOOLEAN, clust : Dirs]

CallRecords ==
  [op : Calls \cup {"idle"}, at : Steps, dir : Dirs, name : Listed, other : Listed,
   entry : Entries, lba : Sectors, short : ShortNames \cup {Garbled},
   off : 0 .. DirEntPerSec, n : Nat, new : {0} \cup Clusters]

PosFields == {"clust", "sect", "lba", "eptr", "eleft", "lfn"}

SectorsOf(c) == IF c = Root THEN RootSectors ELSE Spc

\* An iterator on a sector, at most over sectors behind the last of its cluster.
PosIn(p, over) ==
  /\ DOMAIN p = PosFields
  /\ p.clust \in Dirs /\ p.sect \in Int /\ p.sect >= -1
  /\ p.sect <= SectorsOf(p.clust) - 1 + over
  /\ p.lba \in Sectors
  /\ p.eptr \in 0 .. DirEntPerSec /\ p.eleft \in {0, DirEntPerSec - p.eptr}

\* How far that is, where a call stands.
Over(at) == IF at \in {"", "scan", "scanto", "empty", "restore"} THEN 0
            ELSE IF at \in {"grow", "link"} THEN 2 ELSE 1

Placing == {"fill", "next", "grow", "link", "wipe", "insert"}

\* A call of program s.
CallIn(c, s) ==
  /\ c \in CallRecords
  /\ c.op \in s.calls \cup {"idle"}
  /\ c.op = "idle" => c.at = ""
  /\ c.op \notin {"idle", "list"} => c.name \in Names
  /\ c.op = "rename" => c.other \in Names
  /\ c.op = "list" => c.at \in {"scan", "restore"}
  /\ c.at \in Placing => c.short \in ShortNames
  /\ c.at \in {"scan", "scanto", "empty", "restore", "alloc"} => c.n = 0
  /\ c.at = "reload" /\ c.op = "mkdir" => c.n = 0
  /\ c.at = "short" => c.n \in 0 .. MaxTail

ListIn(l, s) ==
  /\ DOMAIN l = {"on", "dir", "pos", "seen"}
  /\ l.on \in BOOLEAN /\ l.dir \in Dirs /\ PosIn(l.pos, 0)
  /\ l.on => "list" \in s.calls

Sheets == [Places -> Slots]

StoreOK == /\ fat \in [Clusters -> Links] /\ fat_dur \in [Clusters -> Links]
           /\ slots \in [Sectors -> Sheets]

WorkIn(c, p, b, o, l, s) ==
  /\ CallIn(c, s) /\ PosIn(p, Over(c.at)) /\ b \in Sheets
  /\ o \in BOOLEAN /\ ListIn(l, s)

WorkOK == WorkIn(call, pos, buf, ok, list, scenario)

Counts == [read : Nat, write : Nat, crash : Nat]

Core == /\ StoreOK /\ WorkOK
        /\ faults \in Counts /\ scenario \in Scenarios

Types == Core /\ steady \subseteq Listed /\ exposed \in BOOLEAN

-----------------------------------------------------------------------------
(* What the constants are.                                                 *)

\* Clusters, sectors and slots.
LEMMA Places0 ==
  /\ DirEntPerSec \in Nat /\ DirEntPerSec >= 1 /\ 0 \in Places
  /\ RootSectors \in Nat /\ RootSectors >= 1 /\ Spc \in Nat /\ Spc >= 1
  /\ LastCluster \in Nat /\ LastCluster >= 2 /\ MaxTail \in Nat
  /\ Root = 0 /\ Root \in Dirs /\ Root \notin Clusters /\ Eoc \notin Clusters
  /\ Eoc \in Links /\ 0 \in Links /\ Clusters \subseteq Links
  /\ Clusters \subseteq Nat /\ Clusters \subseteq Dirs /\ Dirs = {0} \cup Clusters
  /\ Nowhere \in Sectors
BY DirectoryConstants, VolumeConstants
   DEF Places, Root, Dirs, Clusters, Eoc, Links, Nowhere, Sectors

\* A link leads to a cluster, or nowhere.
LEMMA LinkType ==
  ASSUME NEW t \in [Clusters -> Links], NEW c
  PROVE  /\ Link(t, c) \in Links
         /\ Link(t, c) # Eoc => Link(t, c) \in Dirs
BY Places0 DEF Link, Links, Dirs, Root

\* Where a sector number may be.
LEMMA SectorIs ==
  /\ \A c \in Dirs, s \in Int : 0 <= s /\ s < SectorsOf(c) => <<c, s>> \in Sectors
  /\ \A l \in Sectors : /\ l = <<l[1], l[2]>> /\ l[1] \in Dirs
                        /\ l[2] \in Nat /\ l[2] < SectorsOf(l[1])
  /\ \A c \in Dirs : SectorsOf(c) \in Nat /\ SectorsOf(c) >= 1
BY Places0 DEF Sectors, SectorsOf, Dirs

\* The widest reach of an iterator is the one TypeOK allows.
LEMMA PosBound ==
  ASSUME NEW p, NEW over \in 0 .. 2, PosIn(p, over)
  PROVE  IsPos(p)
<1>1. Max({RootSectors, Spc}) \in Nat /\ Max({RootSectors, Spc}) >= RootSectors
      /\ Max({RootSectors, Spc}) >= Spc
  <2> DEFINE S == {RootSectors, Spc}
  <2>1. \E x \in S : \A y \in S : x >= y
    BY Places0
  <2>2. Max(S) \in S /\ \A y \in S : Max(S) >= y
    BY <2>1 DEF Max
  <2> QED
    BY <2>2, Places0
<1> HIDE DEF Max
<1>2. p.sect \in -1 .. Max({RootSectors, Spc}) + 1
  BY <1>1, Places0 DEF PosIn, SectorsOf
<1> QED
  BY <1>2 DEF IsPos, PosIn

\* The kinds of slots.
LEMMA SlotKinds ==
  ASSUME NEW x \in Slots
  PROVE  /\ x.kind = "short" =>
              /\ x.short \in ShortNames /\ x.dir \in BOOLEAN /\ x.ro \in BOOLEAN
              /\ x.clust \in Dirs /\ x = ShortSlot(x.short, x.dir, x.ro, x.clust)
              /\ DOMAIN x = {"kind", "short", "dir", "ro", "clust"}
         /\ x.kind = "end" <=> x = End
         /\ x.kind = "junk" <=> x = Junk
         /\ x.kind = "dot" <=> x = Dot
         /\ x.kind = "deleted" <=> x = Deleted
         /\ x.kind \in {"short", "end", "junk", "dot", "deleted", "lfn"}
<1>1. CASE x \in {End, Deleted, Dot, Junk}
  BY <1>1 DEF End, Deleted, Dot, Junk
<1>2. CASE \E n \in Names, i \in 1 .. DirEntPerSec, s \in ShortNames :
             x = LfnSlot(n, i, Chksum[s])
  BY <1>2 DEF LfnSlot, End, Deleted, Dot, Junk
<1>3. CASE \E s \in ShortNames, dir \in BOOLEAN, ro \in BOOLEAN, c \in Dirs :
             x = ShortSlot(s, dir, ro, c)
  BY <1>3 DEF ShortSlot, End, Deleted, Dot, Junk
<1> QED
  BY <1>1, <1>2, <1>3 DEF Slots

\* The slots a program's sectors are made of.
LEMMA SlotTypes ==
  /\ {End, Deleted, Dot, Junk} \subseteq Slots
  /\ \A s \in ShortNames, dir \in BOOLEAN, ro \in BOOLEAN, c \in Dirs :
       ShortSlot(s, dir, ro, c) \in Slots
  /\ \A n \in Names, i \in 1 .. DirEntPerSec, s \in ShortNames :
       LfnSlot(n, i, Chksum[s]) \in Slots
  /\ \A x \in {End, Deleted, Dot, Junk} : Filled(x) \in Sheets
BY DEF Slots, Sheets, Filled

\* What can be listed.
LEMMA Names0 == /\ Names \subseteq Listed /\ Garbled \in Listed
                /\ Garbled \notin Names
                /\ \A s \in ShortNames : Shown[s] \in Listed
                /\ \A slot \in Slots : \A lfn :
                     slot.kind = "short" => NameOf(slot, lfn) \in Listed
<1>1. /\ Names \subseteq Listed /\ Garbled \in Listed
      /\ Garbled \notin Names
      /\ \A s \in ShortNames : Shown[s] \in Listed
  BY DirectoryConstants DEF Listed
<1>2. \A pieces : Assembled(pieces) \in Names \cup {Garbled}
  BY DEF Assembled
<1>3. ASSUME NEW slot \in Slots, NEW lfn, slot.kind = "short"
      PROVE  NameOf(slot, lfn) \in Listed
  BY <1>1, <1>2, <1>3, SlotKinds DEF NameOf
<1> QED
  BY <1>1, <1>3

\* What dir_read makes of a sector.
LEMMA EntryTypes ==
  ASSUME NEW b \in Sheets, NEW first \in 0 .. DirEntPerSec, NEW lfn
  PROVE  EntriesOf(b, first, lfn) \subseteq Entries
<1> SUFFICES ASSUME NEW i \in Shortly(b, first)
             PROVE  [off |-> i, name |-> NameOf(b[i], LfnAt(b, first, lfn, i)),
                     dir |-> b[i].dir, ro |-> b[i].ro, clust |-> b[i].clust]
                    \in Entries
  BY DEF EntriesOf
<1>1. i \in Places /\ b[i] \in Slots /\ b[i].kind = "short"
  BY Places0 DEF Shortly, Sheets, Places
<1>2. b[i].dir \in BOOLEAN /\ b[i].ro \in BOOLEAN /\ b[i].clust \in Dirs
  BY <1>1, SlotKinds
<1>3. NameOf(b[i], LfnAt(b, first, lfn, i)) \in Listed
  BY <1>1, Names0
<1> QED
  BY <1>1, <1>2, <1>3 DEF Entries

-----------------------------------------------------------------------------
(* Chains of clusters.  Induction is done with the smallest counterexample.*)

\* A set of numbers has a smallest one.
LEMMA Least ==
  ASSUME NEW S \in SUBSET Nat, S # {}
  PROVE  \E m \in S : \A y \in S : m <= y
<1>1. PICK m \in S : \A y \in S : ~(<<y, m>> \in OpToRel(<, Nat))
  BY NatLessThanWellFounded, WFMin
<1>2. \A y \in S : m <= y
  <2> TAKE y \in S
  <2>1. y \in Nat /\ m \in Nat
    BY <1>1
  <2>2. ~(y < m)
    BY <1>1, <2>1 DEF OpToRel
  <2> QED BY <2>1, <2>2
<1> QED
  BY <1>2

\* The recursive function in Nth.
IsWalk(t, c, n, f) ==
  f = [i \in 0 .. n |-> IF i = 0 THEN c ELSE Link(t, f[i - 1])]

\* Nth is a value of that function.
LEMMA NthIs ==
  ASSUME NEW t, NEW c, NEW n \in Nat
  PROVE  Nth(t, c, n) = (CHOOSE f : IsWalk(t, c, n, f))[n]
BY DEF Nth, IsWalk

\* There is such a function, however far the walk goes.
LEMMA WalkExists ==
  ASSUME NEW t, NEW c
  PROVE  \A n \in Nat : \E f : IsWalk(t, c, n, f)
<1> DEFINE Bad == {n \in Nat : ~\E f : IsWalk(t, c, n, f)}
<1>1. SUFFICES Bad = {}
  OBVIOUS
<1>2. SUFFICES ASSUME Bad # {} PROVE FALSE
  BY <1>1
<1>3. PICK m \in Bad : \A y \in Bad : m <= y
  <2> HIDE DEF Bad
  <2>1. Bad \in SUBSET Nat
    BY DEF Bad
  <2> QED
    BY <1>2, <2>1, Least
<1>4. m \in Nat /\ ~\E f : IsWalk(t, c, m, f)
  OBVIOUS
<1>5. m # 0
  <2> SUFFICES ASSUME m = 0 PROVE FALSE
    OBVIOUS
  <2> DEFINE f == [i \in 0 .. 0 |-> c]
  <2>1. f = [i \in 0 .. 0 |-> IF i = 0 THEN c ELSE Link(t, f[i - 1])]
    OBVIOUS
  <2>2. IsWalk(t, c, 0, f)
    BY <2>1 DEF IsWalk
  <2> QED
    BY <1>4, <2>2
<1>6. PICK f : IsWalk(t, c, m - 1, f)
  <2>1. m - 1 \in Nat /\ ~(m <= m - 1)
    BY <1>4, <1>5
  <2> QED
    BY <1>3, <2>1
<1> DEFINE g == [i \in 0 .. m |-> IF i = 0 THEN c ELSE Link(t, f[i - 1])]
<1>7. \A i \in 0 .. m - 1 : f[i] = g[i]
  BY <1>4, <1>6 DEF IsWalk
<1>8. g = [i \in 0 .. m |-> IF i = 0 THEN c ELSE Link(t, g[i - 1])]
  <2>1. \A i \in 0 .. m : i # 0 => i - 1 \in 0 .. m - 1
    BY <1>4
  <2> HIDE DEF g
  <2>2. \A i \in 0 .. m : (IF i = 0 THEN c ELSE Link(t, f[i - 1]))
                           = (IF i = 0 THEN c ELSE Link(t, g[i - 1]))
    BY <1>7, <2>1
  <2>3. g = [i \in 0 .. m |-> IF i = 0 THEN c ELSE Link(t, f[i - 1])]
    BY DEF g
  <2> QED
    BY <2>2, <2>3
<1>9. IsWalk(t, c, m, g)
  BY <1>8 DEF IsWalk
<1> QED
  BY <1>4, <1>9

\* Two walks agree as far as both go.
LEMMA WalksAgree ==
  ASSUME NEW t, NEW c, NEW n \in Nat, NEW m \in Nat, n <= m,
         NEW f, IsWalk(t, c, n, f), NEW g, IsWalk(t, c, m, g)
  PROVE  \A i \in 0 .. n : f[i] = g[i]
<1> DEFINE Bad == {i \in 0 .. n : f[i] # g[i]}
<1> SUFFICES ASSUME Bad # {} PROVE FALSE
  OBVIOUS
<1>1. PICK j \in Bad : \A y \in Bad : j <= y
  <2>1. Bad \in SUBSET Nat
    OBVIOUS
  <2> HIDE DEF Bad
  <2> QED
    BY <2>1, Least
<1>2. /\ f[j] = IF j = 0 THEN c ELSE Link(t, f[j - 1])
      /\ g[j] = IF j = 0 THEN c ELSE Link(t, g[j - 1])
  BY DEF IsWalk
<1>3. j # 0
  BY <1>2
<1>4. j - 1 \in 0 .. n /\ ~(j <= j - 1)
  BY <1>3
<1>5. f[j - 1] = g[j - 1]
  BY <1>1, <1>4
<1> QED
  BY <1>2, <1>5

\* What Nth computes.
LEMMA NthStep ==
  ASSUME NEW t, NEW c
  PROVE  /\ Nth(t, c, 0) = c
         /\ \A n \in Nat : Nth(t, c, n + 1) = Link(t, Nth(t, c, n))
<1> DEFINE F(n) == CHOOSE f : IsWalk(t, c, n, f)
<1>1. \A n \in Nat : IsWalk(t, c, n, F(n)) /\ Nth(t, c, n) = F(n)[n]
  BY WalkExists, NthIs
<1> HIDE DEF F
<1>2. Nth(t, c, 0) = c
  BY <1>1 DEF IsWalk
<1>3. ASSUME NEW n \in Nat
      PROVE  Nth(t, c, n + 1) = Link(t, Nth(t, c, n))
  <2>1. IsWalk(t, c, n, F(n)) /\ IsWalk(t, c, n + 1, F(n + 1))
    BY <1>1
  <2>2. F(n)[n] = F(n + 1)[n]
    BY <2>1, WalksAgree
  <2>3. F(n + 1)[n + 1] = Link(t, F(n + 1)[n])
    BY <2>1 DEF IsWalk
  <2> QED
    BY <1>1, <2>2, <2>3
<1> QED
  BY <1>2, <1>3

\* Once past its end, a chain stays there.
LEMMA ChainPrefix ==
  ASSUME NEW t, NEW c, NEW n \in Nat, Nth(t, c, n) \in Clusters
  PROVE  \A m \in 0 .. n : Nth(t, c, m) \in Clusters
<1> DEFINE Bad == {k \in Nat : k <= n /\ Nth(t, c, n - k) \notin Clusters}
<1>1. CASE Bad # {}
  <2>1. PICK k \in Bad : \A y \in Bad : k <= y
    <3>1. Bad \in SUBSET Nat
      OBVIOUS
    <3> HIDE DEF Bad
    <3> QED
      BY <1>1, <3>1, Least
  <2>0. k \in Nat /\ k <= n /\ Nth(t, c, n - k) \notin Clusters
    OBVIOUS
  <2> HIDE DEF Bad
  <2>2. k # 0
    BY <2>0
  <2>3. k - 1 \in Nat /\ k - 1 <= n /\ ~(k <= k - 1)
    BY <2>0, <2>2
  <2>4. Nth(t, c, n - (k - 1)) \in Clusters
    BY <2>1, <2>3 DEF Bad
  <2>5. Nth(t, c, (n - k) + 1) = Link(t, Nth(t, c, n - k))
    <3>1. n - k \in Nat
      BY <2>0
    <3> QED
      BY <3>1, NthStep
  <2>6. n - (k - 1) = (n - k) + 1
    BY <2>0
  <2>7. Link(t, Nth(t, c, n - k)) = Eoc
    BY <2>0 DEF Link
  <2> QED
    BY <2>4, <2>5, <2>6, <2>7, Places0
<1>2. CASE Bad = {}
  <2> SUFFICES ASSUME NEW m \in 0 .. n PROVE Nth(t, c, m) \in Clusters
    OBVIOUS
  <2>1. n - m \in Nat /\ n - m <= n /\ n - (n - m) = m
    OBVIOUS
  <2> QED
    BY <1>2, <2>1
<1> QED
  BY <1>1, <1>2

\* What a cluster links to.
LEMMA NthNext ==
  ASSUME NEW t, NEW c, NEW n \in Nat, Nth(t, c, n + 1) \in Clusters
  PROVE  /\ Nth(t, c, n) \in Clusters
         /\ t[Nth(t, c, n)] = Nth(t, c, n + 1)
<1>1. n \in 0 .. n + 1 /\ n + 1 \in Nat
  OBVIOUS
<1>2. Nth(t, c, n) \in Clusters
  BY <1>1, ChainPrefix
<1> QED
  BY <1>2, NthStep DEF Link

\* The clusters a directory is counted to have are there.
LEMMA ChainReaches ==
  ASSUME NEW c, NEW m \in Nat, m < ChainLength(c)
  PROVE  Nth(fat, c, m) \in Clusters
<1> DEFINE S == {i \in 0 .. LastCluster - 2 : Nth(fat, c, i) \in Clusters}
<1>1. SUFFICES ASSUME Nth(fat, c, m) \notin Clusters PROVE FALSE
  OBVIOUS
<1>2. S \subseteq 0 .. m - 1
  <2> SUFFICES ASSUME NEW i \in S, ~(i < m) PROVE FALSE
    BY Places0
  <2>1. i \in Nat /\ m \in 0 .. i /\ Nth(fat, c, i) \in Clusters
    BY Places0
  <2> QED
    BY <1>1, <2>1, ChainPrefix
<1>3. IsFiniteSet(0 .. m - 1) /\ Cardinality(0 .. m - 1) = m
  <2>1. CASE m = 0
    <3>1. 0 .. m - 1 = {}
      BY <2>1
    <3> QED
      BY <2>1, <3>1, FS_EmptySet
  <2>2. CASE m # 0
    <3>1. 0 \in Int /\ m - 1 \in Int /\ ~(0 > m - 1) /\ (m - 1) - 0 + 1 = m
      BY <2>2
    <3> QED
      BY <3>1, FS_Interval
  <2> QED
    BY <2>1, <2>2
<1> HIDE DEF S
<1>4. Cardinality(S) <= m /\ Cardinality(S) \in Nat
  BY <1>2, <1>3, FS_Subset, FS_CardinalityType
<1>5. ChainLength(c) = Cardinality(S)
  BY DEF ChainLength, S
<1> QED
  BY <1>4, <1>5

\* Where sector k of directory d is.
SectorOf(d, k) == IF d = Root THEN <<Root, k>>
                              ELSE <<Nth(fat, d, k \div Spc), k % Spc>>

\* The sectors a directory is counted to have are there.
LEMMA SectorAtIs ==
  ASSUME NEW d \in Dirs, NEW k \in 0 .. SectorCount(d) - 1
  PROVE  /\ SectorOf(d, k) \in Sectors
         /\ SectorAt(d, k) = slots[SectorOf(d, k)]
         /\ d # Root => /\ k \div Spc \in Nat
                        /\ Nth(fat, d, k \div Spc) \in Clusters
<1>1. SectorAt(d, k) = slots[SectorOf(d, k)]
  BY DEF SectorAt, SectorOf
<1>2. CASE d = Root
  BY <1>1, <1>2, Places0 DEF SectorOf, SectorCount, Sectors
<1>3. CASE d # Root
  <2>1. ChainLength(d) \in Nat
    <3>1. IsFiniteSet(0 .. LastCluster - 2)
      BY Places0, FS_Interval
    <3>2. {i \in 0 .. LastCluster - 2 : Nth(fat, d, i) \in Clusters}
            \subseteq 0 .. LastCluster - 2
      OBVIOUS
    <3> QED
      BY <3>1, <3>2, FS_Subset, FS_CardinalityType DEF ChainLength
  <2> DEFINE L == ChainLength(d)
  <2> HIDE DEF L
  <2>2. L \in Nat /\ k \in Nat /\ k < Spc * L
    <3> DEFINE w == Spc * L
    <3>1. L \in Nat /\ SectorCount(d) = w
      BY <1>3, <2>1 DEF SectorCount, L
    <3>2. w \in Nat
      BY <3>1, Places0
    <3>3. k \in 0 .. w - 1
      BY <3>1
    <3> HIDE DEF w
    <3>4. k \in Nat /\ k < w
      BY <3>2, <3>3
    <3> QED
      BY <3>1, <3>4 DEF w
  <2> DEFINE q == k \div Spc
             r == k % Spc
  <2>3. q \in Int /\ r \in 0 .. Spc - 1 /\ k = Spc * q + r
    BY <2>2, Places0
  <2>4. q \in Nat /\ q < L
    <3> HIDE DEF q, r
    <3>1. ASSUME q < 0 PROVE FALSE
      <4>1. Spc * q <= Spc * (-1)
        BY <2>3, <3>1, Places0
      <4> QED
        BY <2>2, <2>3, <4>1, Places0
    <3>2. ASSUME q >= L PROVE FALSE
      <4>1. Spc * q >= Spc * L
        BY <2>2, <2>3, <3>2, Places0
      <4> DEFINE x == Spc * q
                 y == Spc * L
      <4>2. x \in Int /\ y \in Int
        BY <2>2, <2>3, Places0
      <4>3. x >= y /\ k < y /\ k = x + r
        BY <2>2, <2>3, <4>1
      <4> HIDE DEF x, y
      <4> QED
        BY <2>2, <2>3, <4>2, <4>3
    <3> QED
      BY <2>2, <2>3, <3>1, <3>2
  <2>5. Nth(fat, d, q) \in Clusters
    <3> HIDE DEF q
    <3> QED
      BY <2>4, ChainReaches DEF L
  <2> QED
    BY <1>1, <1>3, <2>3, <2>4, <2>5 DEF SectorOf, Sectors
<1> QED
  BY <1>2, <1>3

\* A sector that a directory is counted to have is one.
LEMMA SectorAtType ==
  ASSUME StoreOK, NEW d \in Dirs, NEW k \in 0 .. SectorCount(d) - 1
  PROVE  SectorAt(d, k) \in Sheets
BY SectorAtIs DEF StoreOK

Shows == \A d \in Dirs : ListedIn(d) \subseteq Listed

\* What a directory lists are names.
LEMMA ShowsNames == StoreOK => Shows
<1> SUFFICES ASSUME StoreOK, NEW d \in Dirs, NEW k \in Reached(d),
                    NEW e \in EntriesOf(SectorAt(d, k), 0, NoLfn)
             PROVE  e.name \in Listed
  BY DEF Shows, ListedIn, Listing
<1>1. SectorAt(d, k) \in Sheets
  BY SectorAtType DEF Reached
<1>2. 0 \in 0 .. DirEntPerSec
  BY Places0
<1>3. e \in Entries
  <2> DEFINE b == SectorAt(d, k)
  <2> HIDE DEF b
  <2>1. b \in Sheets /\ e \in EntriesOf(b, 0, NoLfn)
    BY <1>1 DEF b
  <2> QED
    BY <1>2, <2>1, EntryTypes
<1> QED
  BY <1>3 DEF Entries

-----------------------------------------------------------------------------
(* The iterator.                                                           *)

\* The entry a scan hits is the first of those it wants.
LEMMA HitIs ==
  ASSUME WorkOK, Hits # {}
  PROVE  /\ Hit \in Hits /\ Hit \in Entries /\ \A x \in Hits : Hit.off <= x.off
         /\ Hit \in EntriesOf(buf, pos.eptr, pos.lfn) /\ Wanted(Hit)
         /\ pos.eleft # 0
<1>1. /\ Hits \subseteq EntriesOf(buf, pos.eptr, pos.lfn)
      /\ \A x \in Hits : Wanted(x)
      /\ pos.eleft # 0
  BY DEF Hits
<1>2. EntriesOf(buf, pos.eptr, pos.lfn) \subseteq Entries
  <2>1. buf \in Sheets /\ pos.eptr \in 0 .. DirEntPerSec
    BY DEF WorkOK, WorkIn, PosIn
  <2> QED
    BY <2>1, EntryTypes
<1> DEFINE S == {x.off : x \in Hits}
<1>3. S \in SUBSET Nat /\ S # {}
  BY <1>1, <1>2, Places0 DEF Entries, Places
<1>4. PICK m \in S : \A y \in S : m <= y
  <2> HIDE DEF S
  <2> QED
    BY <1>3, Least
<1>5. \E e \in Hits : \A x \in Hits : e.off <= x.off
  BY <1>4
<1>6. Hit \in Hits /\ \A x \in Hits : Hit.off <= x.off
  BY <1>5 DEF Hit
<1> QED
  BY <1>1, <1>2, <1>6

\* The End a scan stops at is the first.
LEMMA EndIs ==
  ASSUME WorkOK, EndsHere # {}
  PROVE  /\ Min(EndsHere) \in EndsHere /\ Min(EndsHere) \in Places
         /\ Min(EndsHere) \in pos.eptr .. DirEntPerSec - 1
         /\ buf[Min(EndsHere)] = End /\ pos.eleft # 0
<1>1. /\ EndsHere \subseteq pos.eptr .. DirEntPerSec - 1 /\ pos.eleft # 0
      /\ \A i \in EndsHere : buf[i] = End
  BY DEF EndsHere
<1>2. EndsHere \in SUBSET Nat /\ EndsHere \subseteq Places
  BY <1>1, Places0 DEF WorkOK, WorkIn, PosIn, Places
<1>3. PICK m \in EndsHere : \A y \in EndsHere : m <= y
  BY <1>2, Least
<1>4. Min(EndsHere) \in EndsHere
  BY <1>3 DEF Min
<1> QED
  BY <1>1, <1>2, <1>4

\* A place in the sector at hand.
LEMMA AtIn ==
  ASSUME NEW over, PosIn(pos, over), NEW i \in 0 .. DirEntPerSec
  PROVE  /\ PosIn(At(i), over) /\ At(i).eptr = i
         /\ At(i).eleft = DirEntPerSec - i
         /\ At(i).clust = pos.clust /\ At(i).sect = pos.sect /\ At(i).lba = pos.lba
BY DEF At, PosIn, PosFields

\* The sector after one.
LEMMA NextIn ==
  ASSUME fat \in [Clusters -> Links], NEW p, NEW over, PosIn(p, over), ~NoMore(p)
  PROVE  /\ PosIn(NextSector(p), 0)
         /\ NextSector(p).lba = <<NextSector(p).clust, NextSector(p).sect>>
         /\ NextSector(p).sect \in Nat
         /\ NextSector(p).eptr = p.eptr /\ NextSector(p).eleft = p.eleft
         /\ NextSector(p).lba \in Sectors
<1> DEFINE c == IF ClusterDone(p) THEN Link(fat, p.clust) ELSE p.clust
           s == IF ClusterDone(p) THEN 0 ELSE p.sect + 1
<1>1. NextSector(p) = [p EXCEPT !.clust = c, !.sect = s, !.lba = <<c, s>>]
  BY DEF NextSector
<1>2. c \in Dirs
  BY LinkType DEF NoMore, ClusterDone, PosIn
<1>3. s \in Nat /\ s < SectorsOf(c)
  BY <1>2, SectorIs DEF NoMore, ClusterDone, PosIn, SectorsOf
<1>4. <<c, s>> \in Sectors
  BY <1>2, <1>3, SectorIs
<1>5. SectorsOf(c) \in Nat
  BY <1>2, SectorIs
<1> HIDE DEF c, s
<1>6. /\ NextSector(p).clust = c /\ NextSector(p).sect = s
      /\ NextSector(p).lba = <<c, s>>
      /\ NextSector(p).eptr = p.eptr /\ NextSector(p).eleft = p.eleft
      /\ DOMAIN NextSector(p) = PosFields
  BY <1>1 DEF PosIn, PosFields
<1> QED
  BY <1>2, <1>3, <1>4, <1>5, <1>6 DEF PosIn

\* One sector on, there or not.
LEMMA PastIn ==
  ASSUME NEW p, NEW over \in Nat, PosIn(p, over)
  PROVE  /\ PosIn([p EXCEPT !.sect = @ + 1], over + 1)
         /\ [p EXCEPT !.sect = @ + 1].clust = p.clust
         /\ [p EXCEPT !.sect = @ + 1].eptr = p.eptr
         /\ [p EXCEPT !.sect = @ + 1].lba = p.lba
         /\ [p EXCEPT !.sect = @ + 1].sect = p.sect + 1
BY SectorIs DEF PosIn, PosFields

\* The same, from where a scan is.
LEMMA PastOne ==
  ASSUME NEW p, PosIn(p, 0)
  PROVE  PosIn([p EXCEPT !.sect = @ + 1], 1)
<1>1. 0 \in Nat /\ 0 + 1 = 1
  OBVIOUS
<1>2. PosIn([p EXCEPT !.sect = @ + 1], 0 + 1)
  BY <1>1, PastIn
<1> QED
  BY <1>1, <1>2

\* A wider reach.
LEMMA PosWider ==
  ASSUME NEW p, NEW over \in Nat, NEW more \in Nat, PosIn(p, over), over <= more
  PROVE  PosIn(p, more)
BY SectorIs DEF PosIn

\* A position as dir_open leaves it.
LEMMA OpenIn ==
  ASSUME NEW p, NEW over \in Nat, PosIn(p, over), NEW d \in Dirs
  PROVE  /\ PosIn(DirOpen(p, d), 0) /\ DirOpen(p, d).sect = -1
         /\ DirOpen(p, d).eleft = 0 /\ DirOpen(p, d).clust = d
BY SectorIs DEF DirOpen, PosIn, PosFields

\* Positions and records between calls.
LEMMA AtRestIn ==
  /\ \A over \in Nat : PosIn(AtRest, over)
  /\ \A s : CallIn(Idle, s) /\ ListIn(NotListing, s)
  /\ Filled(End) \in Sheets
  /\ NoEntry \in Entries
<1>1. \A over \in Nat : PosIn(AtRest, over)
  BY Places0, SectorIs DEF PosIn, AtRest, PosFields, SectorsOf
<1>2. NoEntry \in Entries
  BY Places0, Names0 DEF NoEntry, Entries
<1>3. Idle \in CallRecords
  BY <1>2, Places0, Names0 DEF Idle, CallRecords, Steps
<1>4. \A s : CallIn(Idle, s)
  BY <1>3, Places0 DEF CallIn, Idle, Placing
<1>5. \A s : ListIn(NotListing, s)
  BY <1>1, Places0 DEF ListIn, NotListing
<1> QED
  BY <1>1, <1>2, <1>4, <1>5, SlotTypes

\* A call returns.
LEMMA ReturnWork ==
  ASSUME WorkOK, scenario' = scenario, list' = list \/ list' = NotListing,
         \E o \in BOOLEAN : Return(o)
  PROVE  WorkOK' /\ call' = Idle /\ pos' = AtRest /\ buf' = Filled(End)
<1>2. PosIn(AtRest, Over(Idle.at))
  <2>1. Over(Idle.at) = 0 /\ 0 \in Nat
    BY DEF Over, Idle
  <2> QED
    BY <2>1, AtRestIn
<1>3. call' = Idle /\ ok' \in BOOLEAN /\ pos' = AtRest /\ buf' = Filled(End)
  BY DEF Return
<1>4. ListIn(list', scenario)
  BY AtRestIn DEF WorkOK, WorkIn
<1> QED
  BY <1>2, <1>3, <1>4, AtRestIn DEF WorkOK, WorkIn

\* How far a position may be.
LEMMA OverIs ==
  /\ \A at \in Steps : Over(at) \in 0 .. 2
  /\ \A at \in {"", "scan", "scanto", "empty", "restore"} : Over(at) = 0
  /\ \A at \in Steps \ {"", "scan", "scanto", "empty", "restore", "grow", "link"} :
       Over(at) = 1
  /\ Over("grow") = 2 /\ Over("link") = 2
<1>1. \A at : Over(at) = 0 \/ Over(at) = 1 \/ Over(at) = 2
  BY DEF Over
<1>2. \A at \in {"", "scan", "scanto", "empty", "restore"} : Over(at) = 0
  BY DEF Over
<1>3. ASSUME NEW at \in Steps \ {"", "scan", "scanto", "empty", "restore", "grow",
                                 "link"}
      PROVE  Over(at) = 1
  BY DEF Over
<1>4. Over("grow") = 2 /\ Over("link") = 2
  BY DEF Over
<1>5. \A at \in Steps : Over(at) \in 0 .. 2
  BY <1>1
<1>6. \A at \in Steps \ {"", "scan", "scanto", "empty", "restore", "grow", "link"} :
        Over(at) = 1
  BY <1>3
<1> QED
  BY <1>2, <1>4, <1>5, <1>6

\* A call goes on elsewhere, a little further along.
LEMMA GotoIn ==
  ASSUME NEW c, NEW s, CallIn(c, s), NEW place \in Steps, place # "",
         c.op # "idle", c.op = "list" => place \in {"scan", "restore"},
         place \in Placing => c.short \in ShortNames,
         place \in {"scan", "scanto", "empty", "restore", "alloc"} => c.n = 0,
         place = "reload" /\ c.op = "mkdir" => c.n = 0,
         place = "short" => c.n \in 0 .. MaxTail
  PROVE  CallIn([c EXCEPT !.at = place], s)
<1>1. /\ [c EXCEPT !.at = place] \in CallRecords
      /\ [c EXCEPT !.at = place].at = place
      /\ [c EXCEPT !.at = place].op = c.op
      /\ [c EXCEPT !.at = place].name = c.name
      /\ [c EXCEPT !.at = place].other = c.other
      /\ [c EXCEPT !.at = place].short = c.short
      /\ [c EXCEPT !.at = place].n = c.n
  BY DEF CallIn, CallRecords
<1> QED
  BY <1>1 DEF CallIn

\* The scan of a call ends without the entry.
LEMMA NotThereWork ==
  ASSUME Core, scenario' = scenario, Scanning,
         \E p, b : PosIn(p, 1) /\ b \in Sheets /\ NotThere(p, b)
  PROVE  WorkOK'
<1>1. PICK p, b : PosIn(p, 1) /\ b \in Sheets /\ NotThere(p, b)
  OBVIOUS
<1>2. /\ CallIn(call, scenario) /\ ListIn(list, scenario) /\ ok \in BOOLEAN
      /\ call.op # "idle" /\ call.n = 0 /\ 0 \in 0 .. MaxTail
  <2>1. /\ CallIn(call, scenario) /\ ListIn(list, scenario) /\ ok \in BOOLEAN
    BY DEF Core, WorkOK, WorkIn
  <2>2. call.at \in {"scan", "scanto", "empty"}
    BY DEF Scanning
  <2>3. call.op # "idle" /\ call.n = 0
    BY <2>1, <2>2 DEF CallIn
  <2>4. 0 \in 0 .. MaxTail
    BY Places0
  <2> QED
    BY <2>1, <2>3, <2>4
<1>3. CASE Adding /\ Goto(IF call.op = "mkdir" THEN "alloc" ELSE "short")
           /\ pos' = p /\ buf' = b
  <2> DEFINE place == IF call.op = "mkdir" THEN "alloc" ELSE "short"
  <2>1. place \in {"alloc", "short"} /\ place \in Steps /\ place # ""
    BY DEF Steps
  <2>2. call.op # "list"
    BY <1>2, <1>3 DEF Adding, CallIn
  <2>3. place \notin Placing /\ place # "reload"
    BY DEF Placing
  <2>4. call' = [call EXCEPT !.at = place] /\ ok' = ok /\ list' = list
    BY <1>3 DEF Goto
  <2> HIDE DEF place
  <2>5. CallIn(call', scenario)
    BY <1>2, <2>1, <2>2, <2>3, <2>4, GotoIn
  <2>6. call'.at = place /\ Over(place) = 1
    BY <1>2, <2>1, <2>4, OverIs DEF CallIn, CallRecords
  <2> QED
    BY <1>1, <1>2, <1>3, <2>4, <2>5, <2>6 DEF WorkOK, WorkIn
<1>4. CASE call.at = "empty" /\ Goto("reload")
           /\ pos' = [p EXCEPT !.lba = call.lba] /\ buf' = b
  <2>1. call' = [call EXCEPT !.at = "reload"] /\ ok' = ok /\ list' = list
    BY <1>4 DEF Goto
  <2>2. call.op # "list" /\ call.lba \in Sectors
    BY <1>2, <1>4 DEF CallIn, CallRecords
  <2>3. CallIn(call', scenario)
    BY <1>2, <2>1, <2>2, GotoIn DEF Steps, Placing
  <2>4. call'.at = "reload" /\ Over("reload") = 1
    BY <1>2, <2>1, OverIs DEF CallIn, CallRecords, Steps
  <2>5. PosIn(pos', 1)
    BY <1>1, <1>4, <2>2 DEF PosIn, PosFields
  <2> QED
    BY <1>1, <1>2, <1>4, <2>1, <2>3, <2>4, <2>5 DEF WorkOK, WorkIn
<1>5. CASE call.op = "list" /\ Return(FALSE) /\ list' = NotListing
  BY <1>5, ReturnWork DEF Core
<1>6. CASE call.op # "list" /\ call.at = "scan" /\ ~Adding /\ Fails
  BY <1>6, ReturnWork DEF Core, Fails
<1> QED
  BY <1>1, <1>3, <1>4, <1>5, <1>6 DEF NotThere

-----------------------------------------------------------------------------
(* The directories there are.                                              *)

\* The recursive function in LiveDirs.
IsUpto(n, f) ==
  f = [i \in 0 .. n |-> IF i = 0 THEN {Root}
                        ELSE f[i - 1] \cup UNION {Subdirs(d) : d \in f[i - 1]}]

\* LiveDirs is a value of that function.
LEMMA LiveIs == LiveDirs = (CHOOSE f : IsUpto(LastCluster - 1, f))[LastCluster - 1]
BY DEF LiveDirs, IsUpto

\* There is such a function, however deep the directories are.
LEMMA UptoExists == \A n \in Nat : \E f : IsUpto(n, f)
<1> DEFINE Next1(x) == x \cup UNION {Subdirs(d) : d \in x}
<1>0. \A n, f : IsUpto(n, f) <=>
        f = [i \in 0 .. n |-> IF i = 0 THEN {Root} ELSE Next1(f[i - 1])]
  BY DEF IsUpto
<1> HIDE DEF Next1
<1> DEFINE Bad == {n \in Nat : ~\E f : IsUpto(n, f)}
<1>1. SUFFICES Bad = {}
  OBVIOUS
<1>2. SUFFICES ASSUME Bad # {} PROVE FALSE
  BY <1>1
<1>3. PICK m \in Bad : \A y \in Bad : m <= y
  <2> HIDE DEF Bad
  <2>1. Bad \in SUBSET Nat
    BY DEF Bad
  <2> QED
    BY <1>2, <2>1, Least
<1>4. m \in Nat /\ ~\E f : IsUpto(m, f)
  OBVIOUS
<1>5. m # 0
  <2> SUFFICES ASSUME m = 0 PROVE FALSE
    OBVIOUS
  <2> DEFINE f == [i \in 0 .. 0 |-> {Root}]
  <2>1. f = [i \in 0 .. 0 |-> IF i = 0 THEN {Root} ELSE Next1(f[i - 1])]
    OBVIOUS
  <2>2. IsUpto(0, f)
    BY <1>0, <2>1
  <2> QED
    BY <1>4, <2>2
<1>6. PICK f : IsUpto(m - 1, f)
  <2>1. m - 1 \in Nat /\ ~(m <= m - 1)
    BY <1>4, <1>5
  <2> QED
    BY <1>3, <2>1
<1> DEFINE g == [i \in 0 .. m |-> IF i = 0 THEN {Root} ELSE Next1(f[i - 1])]
<1>7. f = [i \in 0 .. m - 1 |-> IF i = 0 THEN {Root} ELSE Next1(f[i - 1])]
  BY <1>0, <1>6
<1>8. \A i \in 0 .. m - 1 : f[i] = g[i]
  <2> SUFFICES ASSUME NEW i \in 0 .. m - 1 PROVE f[i] = g[i]
    OBVIOUS
  <2>1. f[i] = IF i = 0 THEN {Root} ELSE Next1(f[i - 1])
    BY <1>7
  <2>2. i \in 0 .. m
    BY <1>4
  <2>3. g[i] = IF i = 0 THEN {Root} ELSE Next1(f[i - 1])
    BY <2>2
  <2> QED
    BY <2>1, <2>3
<1>9. g = [i \in 0 .. m |-> IF i = 0 THEN {Root} ELSE Next1(g[i - 1])]
  <2>1. \A i \in 0 .. m : i # 0 => i - 1 \in 0 .. m - 1
    BY <1>4
  <2> HIDE DEF g
  <2>2. \A i \in 0 .. m : (IF i = 0 THEN {Root} ELSE Next1(f[i - 1]))
                           = (IF i = 0 THEN {Root} ELSE Next1(g[i - 1]))
    BY <1>8, <2>1
  <2>3. g = [i \in 0 .. m |-> IF i = 0 THEN {Root} ELSE Next1(f[i - 1])]
    BY DEF g
  <2> QED
    BY <2>2, <2>3
<1>10. IsUpto(m, g)
  BY <1>0, <1>9
<1> QED
  BY <1>4, <1>10

\* Whatever has the root, and with a directory those in it, has them all.
LEMMA LiveIn ==
  ASSUME NEW S, Root \in S, \A d \in S : Subdirs(d) \subseteq S
  PROVE  LiveDirs \subseteq S
<1> DEFINE n == LastCluster - 1
<1>1. n \in Nat
  BY Places0
<1> DEFINE f == CHOOSE f : IsUpto(n, f)
<1>2. IsUpto(n, f) /\ LiveDirs = f[n]
  BY <1>1, UptoExists, LiveIs
<1> HIDE DEF f, n
<1>3. \A i \in 0 .. n : f[i] = IF i = 0 THEN {Root}
                               ELSE f[i - 1] \cup UNION {Subdirs(d) : d \in f[i - 1]}
  BY <1>2 DEF IsUpto
<1> DEFINE Bad == {i \in 0 .. n : ~(f[i] \subseteq S)}
<1>4. Bad = {}
  <2> SUFFICES ASSUME Bad # {} PROVE FALSE
    OBVIOUS
  <2>1. PICK m \in Bad : \A y \in Bad : m <= y
    <3>1. Bad \in SUBSET Nat
      BY <1>1
    <3> HIDE DEF Bad
    <3> QED
      BY <3>1, Least
  <2>2. m \in 0 .. n /\ ~(f[m] \subseteq S)
    OBVIOUS
  <2>3. m # 0
    BY <1>3, <2>2
  <2>4. m - 1 \in 0 .. n /\ ~(m <= m - 1)
    BY <1>1, <2>2, <2>3
  <2>5. f[m - 1] \subseteq S
    BY <2>1, <2>4
  <2>6. f[m] = f[m - 1] \cup UNION {Subdirs(d) : d \in f[m - 1]}
    BY <1>3, <2>2, <2>3
  <2> QED
    BY <2>2, <2>5, <2>6
<1> QED
  BY <1>1, <1>2, <1>4

\* The short entries of a directory, and where they are.
LEMMA ShortIs ==
  ASSUME StoreOK, NEW d \in Dirs, NEW k \in Reached(d), NEW i \in Places,
         i \in Shortly(SectorAt(d, k), 0)
  PROVE  /\ SectorOf(d, k) \in Sectors
         /\ SectorAt(d, k) = slots[SectorOf(d, k)]
         /\ SectorAt(d, k)[i] \in Slots
         /\ SectorAt(d, k)[i].kind = "short"
         /\ SectorAt(d, k)[i].clust \in Dirs
<1>1. k \in 0 .. SectorCount(d) - 1
  BY DEF Reached
<1>2. /\ SectorOf(d, k) \in Sectors /\ SectorAt(d, k) = slots[SectorOf(d, k)]
      /\ SectorAt(d, k) \in Sheets
  BY <1>1, SectorAtIs, SectorAtType
<1> DEFINE x == SectorAt(d, k)[i]
<1>3. x \in Slots /\ x.kind = "short"
  BY <1>2 DEF Sheets, Shortly
<1> QED
  BY <1>2, <1>3, SlotKinds

\* A subdirectory is named by a slot of a sector of its directory.
LEMMA SubdirIs ==
  ASSUME StoreOK, NEW d \in Dirs, NEW c \in Subdirs(d)
  PROVE  /\ c \in Dirs
         /\ \E k \in Reached(d), i \in Places :
              /\ SectorOf(d, k) \in Sectors
              /\ slots[SectorOf(d, k)][i].kind = "short"
              /\ slots[SectorOf(d, k)][i].dir
              /\ slots[SectorOf(d, k)][i].clust = c
<1>1. PICK at \in ShortsAt(d) : /\ SectorAt(d, at[1])[at[2]].dir
                                /\ SectorAt(d, at[1])[at[2]].clust = c
  BY DEF Subdirs, Shorts
<1>2. at[1] \in Reached(d) /\ at[2] \in Places /\ at[2] \in Shortly(SectorAt(d, at[1]), 0)
  BY DEF ShortsAt, Shortly, Places
<1> QED
  BY <1>1, <1>2, ShortIs

\* The directories a path leads to are directories.
LEMMA LiveAreDirs == StoreOK => LiveDirs \subseteq Dirs
<1> SUFFICES ASSUME StoreOK PROVE LiveDirs \subseteq Dirs
  OBVIOUS
<1>1. \A d \in Dirs : Subdirs(d) \subseteq Dirs
  BY SubdirIs
<1> QED
  BY <1>1, LiveIn, Places0

\* Where an earlier scan may have stopped.
LEMMA StopsIn ==
  ASSUME NEW b
  PROVE  Stops(b) \subseteq 0 .. DirEntPerSec
<1>1. \A i \in Shortly(b, 0) : i + 1 \in 0 .. DirEntPerSec
  BY Places0 DEF Shortly
<1> DEFINE S == {i \in Places : b[i] = End} \cup {DirEntPerSec}
<1>2. S \in SUBSET Nat /\ S \subseteq 0 .. DirEntPerSec /\ S # {}
  BY Places0 DEF Places
<1>3. Min(S) \in S
  <2> HIDE DEF S
  <2>1. PICK m \in S : \A y \in S : m <= y
    BY <1>2, Least
  <2> QED
    BY <2>1 DEF Min
<1>4. Stops(b) = {i + 1 : i \in Shortly(b, 0)} \cup {Min(S)}
  BY DEF Stops
<1> HIDE DEF S
<1> QED
  BY <1>1, <1>2, <1>3, <1>4

\* What a failing read leaves behind.
LEMMA LeftIs ==
  ASSUME Core, NEW left \in LeftBehind
  PROVE  left[1] \in 0 .. DirEntPerSec /\ left[2] \in Sheets
<1>1. StoreOK /\ buf \in Sheets /\ pos.eptr \in 0 .. DirEntPerSec
  BY DEF Core, WorkOK, WorkIn, PosIn
<1>2. CASE left = <<pos.eptr, buf>>
  BY <1>1, <1>2
<1>3. CASE \E d \in LiveDirs : \E k \in Reached(d) : \E e \in Stops(SectorAt(d, k)) :
             left = <<e, SectorAt(d, k)>>
  <2>0. PICK d \in LiveDirs : \E k \in Reached(d) : \E e \in Stops(SectorAt(d, k)) :
          left = <<e, SectorAt(d, k)>>
    BY <1>3
  <2>a. PICK k \in Reached(d) : \E e \in Stops(SectorAt(d, k)) :
          left = <<e, SectorAt(d, k)>>
    BY <2>0
  <2>1. PICK e \in Stops(SectorAt(d, k)) : left = <<e, SectorAt(d, k)>>
    BY <2>a
  <2>2. d \in Dirs /\ k \in 0 .. SectorCount(d) - 1
    BY <1>1, LiveAreDirs DEF Reached
  <2>3. SectorAt(d, k) \in Sheets
    BY <1>1, <2>2, SectorAtType
  <2> QED
    BY <2>1, <2>3, StopsIn
<1>4. left \in IF pos.sect = -1 /\ call.at = "scan"
                 THEN UNION {UNION {{<<e, SectorAt(d, k)>> : e \in Stops(SectorAt(d, k))} :
                                      k \in Reached(d)} : d \in LiveDirs}
                 ELSE {<<pos.eptr, buf>>}
  BY DEF LeftBehind
<1> QED
  BY <1>2, <1>3, <1>4

-----------------------------------------------------------------------------
(* Every step keeps the types.                                             *)

\* What is known of the call in progress.
LEMMA WorkFacts ==
  ASSUME Core
  PROVE  /\ CallIn(call, scenario) /\ call \in CallRecords
         /\ PosIn(pos, Over(call.at)) /\ buf \in Sheets
         /\ ok \in BOOLEAN /\ ListIn(list, scenario) /\ StoreOK /\ WorkOK
         /\ call.at \in Steps /\ (call.at # "" => call.op # "idle")
         /\ fat \in [Clusters -> Links]
         /\ DOMAIN call = {"op", "at", "dir", "name", "other", "entry", "lba",
                           "short", "off", "n", "new"}
BY DEF Core, WorkOK, WorkIn, CallIn, CallRecords, StoreOK

\* While it scans.
LEMMA ScanFacts ==
  ASSUME Core, Scanning
  PROVE  /\ PosIn(pos, 0) /\ call.n = 0 /\ call.op # "idle" /\ Over(call.at) = 0
         /\ call.op = "list" => call.at = "scan"
<1>1. call.at \in {"scan", "scanto", "empty"}
  BY DEF Scanning
<1>2. Over(call.at) = 0
  BY <1>1, OverIs
<1>3. CallIn(call, scenario) /\ PosIn(pos, 0)
  BY <1>2, WorkFacts
<1> QED
  BY <1>1, <1>2, <1>3 DEF CallIn

\* A failure is counted.
LEMMA FaultCounts ==
  ASSUME faults \in Counts, ReadFault \/ WriteFault \/ faults' = faults
  PROVE  faults' \in Counts
BY DEF Counts, ReadFault, WriteFault

\* A sector is written.
LEMMA WriteStore ==
  ASSUME StoreOK, \E l, x : x \in Sheets /\ Write(l, x)
  PROVE  StoreOK'
BY DEF StoreOK, Write, Unread

\* Nothing is written.
LEMMA SameStore ==
  ASSUME StoreOK, UNCHANGED <<fat, fat_dur, slots>>
  PROVE  StoreOK'
BY DEF StoreOK

\* Scanning.
LEMMA ScanStep ==
  ASSUME Core, scenario' = scenario, Load \/ PassSector \/ ScanEnds \/ ScanFails
  PROVE  Core'
<1>0. /\ StoreOK /\ WorkOK /\ fat \in [Clusters -> Links] /\ buf \in Sheets
      /\ CallIn(call, scenario) /\ ok \in BOOLEAN /\ ListIn(list, scenario)
      /\ faults \in Counts /\ scenario \in Scenarios
  BY WorkFacts DEF Core
<1>00. Scanning
  BY DEF Load, PassSector, ScanEnds, ScanFails
<1>000. PosIn(pos, 0) /\ Over(call.at) = 0
  BY <1>00, ScanFacts
<1>1. StoreOK' /\ faults' \in Counts /\ scenario' \in Scenarios
  BY <1>0, SameStore, FaultCounts DEF Load, PassSector, ScanEnds, ScanFails
<1>2. CASE Load
  <2>1. Scanning /\ ~NoMore(pos) /\ call' = call /\ ok' = ok /\ list' = list
    BY <1>2 DEF Load
  <2>2. /\ PosIn(NextSector(pos), 0) /\ NextSector(pos).lba \in Sectors
    BY <1>0, <1>000, <2>1, NextIn
  <2>3. PosIn(pos', 0)
    <3>1. pos' = [NextSector(pos) EXCEPT !.eptr = 0, !.eleft = DirEntPerSec]
      BY <1>2 DEF Load
    <3> DEFINE q == NextSector(pos)
    <3> HIDE DEF q
    <3>2. PosIn(q, 0) /\ pos' = [q EXCEPT !.eptr = 0, !.eleft = DirEntPerSec]
      BY <2>2, <3>1 DEF q
    <3>3. 0 \in 0 .. DirEntPerSec /\ DirEntPerSec - 0 = DirEntPerSec
      BY Places0
    <3> QED
      BY <3>2, <3>3 DEF PosIn, PosFields
  <2>4. buf' \in Sheets
    BY <1>0, <1>2, <2>2 DEF Load, StoreOK
  <2> QED
    BY <1>0, <1>000, <1>1, <2>1, <2>3, <2>4 DEF Core, WorkOK, WorkIn
<1>3. CASE PassSector
  <2>1. Scanning /\ call' = call /\ ok' = ok /\ list' = list /\ buf' = buf
    BY <1>3 DEF PassSector
  <2>2. PosIn(At(DirEntPerSec), 0)
    <3>1. DirEntPerSec \in 0 .. DirEntPerSec
      BY Places0
    <3> QED
      BY <1>000, <3>1, AtIn
  <2>3. PosIn(pos', 0)
    <3>1. \E x : pos' = [At(DirEntPerSec) EXCEPT !.lfn = x]
      BY <1>3 DEF PassSector
    <3> HIDE DEF At
    <3> QED
      BY <2>2, <3>1 DEF PosIn, PosFields
  <2> QED
    BY <1>0, <1>000, <1>1, <2>1, <2>3 DEF Core, WorkOK, WorkIn
<1>4. CASE ScanEnds
  <2>1. CASE EndsHere # {} /\ NotThere(At(Min(EndsHere)), buf)
    <3>1. Min(EndsHere) \in 0 .. DirEntPerSec
      <4>1. Min(EndsHere) \in Places
        BY <1>0, <2>1, EndIs
      <4> QED
        BY <4>1, Places0 DEF Places
    <3>2. PosIn(At(Min(EndsHere)), 0)
      BY <1>000, <3>1, AtIn
    <3>2a. PosIn(At(Min(EndsHere)), 1)
      BY <3>2, PosWider
    <3>3. \E p, b : PosIn(p, 1) /\ b \in Sheets /\ NotThere(p, b)
      BY <1>0, <2>1, <3>2a
    <3> QED
      BY <1>00, <1>1, <3>3, NotThereWork DEF Core
  <2>2. CASE pos.eleft = 0 /\ NoMore(pos) /\ NotThere([pos EXCEPT !.sect = @ + 1], buf)
    <3>1. Scanning
      BY <1>4 DEF ScanEnds
    <3>2. PosIn([pos EXCEPT !.sect = @ + 1], 1)
      BY <1>000, PastOne
    <3>3. \E p, b : PosIn(p, 1) /\ b \in Sheets /\ NotThere(p, b)
      BY <1>0, <2>2, <3>2
    <3> QED
      BY <1>00, <1>1, <3>3, NotThereWork DEF Core
  <2> QED
    BY <1>4, <2>1, <2>2 DEF ScanEnds
<1>5. CASE ScanFails
  <2>1. Scanning
    BY <1>5 DEF ScanFails
  <2>2. CASE ClusterDone(pos) /\ NotThere([pos EXCEPT !.sect = @ + 1], buf)
    <3>1. PosIn([pos EXCEPT !.sect = @ + 1], 1)
      BY <1>000, PastOne
    <3>2. \E p, b : PosIn(p, 1) /\ b \in Sheets /\ NotThere(p, b)
      BY <1>0, <2>2, <3>1
    <3> QED
      BY <1>1, <2>1, <3>2, NotThereWork DEF Core
  <2>3. CASE /\ ~NoMore(pos)
             /\ \E left \in LeftBehind :
                  NotThere([NextSector(pos) EXCEPT !.eptr = left[1]], left[2])
    <3>1. PICK left \in LeftBehind :
            NotThere([NextSector(pos) EXCEPT !.eptr = left[1]], left[2])
      BY <2>3
    <3>2. left[1] \in 0 .. DirEntPerSec /\ left[2] \in Sheets
      BY <2>1, LeftIs
    <3>3. PosIn([NextSector(pos) EXCEPT !.eptr = left[1]], 1)
      <4>1. /\ PosIn(NextSector(pos), 0) /\ NextSector(pos).eleft = pos.eleft
        BY <1>0, <1>000, <2>3, NextIn
      <4>2. pos.eleft = 0
        BY <1>5 DEF ScanFails
      <4>3. PosIn(NextSector(pos), 1)
        BY <4>1, PosWider
      <4> HIDE DEF NextSector
      <4> QED
        BY <3>2, <4>1, <4>2, <4>3 DEF PosIn, PosFields
    <3>4. \E p, b : PosIn(p, 1) /\ b \in Sheets /\ NotThere(p, b)
      BY <3>1, <3>2, <3>3
    <3> QED
      BY <1>1, <2>1, <3>4, NotThereWork DEF Core
  <2> QED
    BY <1>5, <2>2, <2>3 DEF ScanFails
<1> QED
  BY <1>2, <1>3, <1>4, <1>5

\* The entry that is found.
LEMMA HitFacts ==
  ASSUME Core, ScanHits
  PROVE  /\ Hit \in Entries /\ Scanning /\ PosIn(pos, 0)
         /\ PosIn(At(Hit.off + 1), 0) /\ Hit.clust \in Dirs
         /\ Hit.dir \in BOOLEAN /\ Hit.ro \in BOOLEAN
<1>1. WorkOK /\ Scanning /\ Hits # {}
  BY DEF Core, ScanHits
<1>2. Hit \in Entries
  BY <1>1, HitIs
<1>3. /\ Hit.off \in Places /\ Hit.clust \in Dirs
      /\ Hit.dir \in BOOLEAN /\ Hit.ro \in BOOLEAN
  BY <1>2 DEF Entries
<1>4. Hit.off + 1 \in 0 .. DirEntPerSec
  BY <1>3, Places0 DEF Places
<1>5. PosIn(pos, 0)
  BY <1>1, ScanFacts
<1> QED
  BY <1>1, <1>2, <1>3, <1>4, <1>5, AtIn

\* A call that keeps the entry is one.
LEMMA KeepIn ==
  ASSUME Core, ScanHits, call.at = "scan", call.op # "list",
         NEW place \in {"store", "mark", "empty", "scanto"}
  PROVE  /\ CallIn(Keep(place), scenario) /\ Keep(place).at = place
         /\ Keep(place).op = call.op
         /\ Keep(place).name = call.name /\ Keep(place).other = call.other
         /\ Keep(place) \in CallRecords
<1>1. CallIn(call, scenario) /\ call \in CallRecords /\ pos.lba \in Sectors
      /\ Hit \in Entries
  BY WorkFacts, HitFacts DEF PosIn
<1>2. /\ place \in Steps /\ place # "" /\ place \notin Placing
      /\ place \notin {"reload", "short", "restore", "alloc", "scan"}
  BY DEF Steps, Placing
<1>3. /\ Keep(place) \in CallRecords /\ Keep(place).at = place
      /\ Keep(place).op = call.op /\ Keep(place).name = call.name
      /\ Keep(place).other = call.other /\ Keep(place).n = call.n
  BY <1>1, <1>2 DEF Keep, CallRecords
<1>4. call.op # "idle" /\ call.n = 0
  BY <1>1 DEF CallIn
<1> HIDE DEF Keep
<1>5. CallIn(Keep(place), scenario)
  BY <1>1, <1>2, <1>3, <1>4 DEF CallIn
<1> QED
  BY <1>3, <1>5

\* An entry is found.
LEMMA FoundStep ==
  ASSUME Core, scenario' = scenario,
         FoundAnswers \/ FoundNext \/ FoundToChange \/ FoundToRemove
         \/ FoundToRename \/ FoundRefused
  PROVE  Core'
<1>0. /\ StoreOK /\ WorkOK /\ buf \in Sheets
      /\ CallIn(call, scenario) /\ ok \in BOOLEAN /\ ListIn(list, scenario)
      /\ faults \in Counts /\ scenario \in Scenarios
  BY WorkFacts DEF Core
<1>00. ScanHits
  BY DEF FoundAnswers, FoundNext, FoundToChange, FoundToRemove,
         FoundToRename, FoundRefused
<1>1. UNCHANGED <<fat, fat_dur, slots, faults>>
  BY <1>00 DEF ScanHits
<1>2. StoreOK' /\ faults' \in Counts /\ scenario' \in Scenarios
  BY <1>0, <1>1, SameStore
<1>3. /\ Hit \in Entries /\ PosIn(pos, 0)
      /\ PosIn(At(Hit.off + 1), 0) /\ Hit.clust \in Dirs
      /\ Hit.dir \in BOOLEAN /\ Hit.ro \in BOOLEAN
  BY <1>00, HitFacts
<1>4. CASE FoundAnswers
  <2>1. \E o \in BOOLEAN : Return(o)
    <3>1. /\ TRUE \in BOOLEAN /\ FALSE \in BOOLEAN /\ (~Hit.dir) \in BOOLEAN
          /\ (~Hit.dir /\ ~Hit.ro) \in BOOLEAN
      BY <1>3
    <3> QED
      BY <1>4, <3>1 DEF FoundAnswers
  <2>2. list' = list
    BY <1>4 DEF FoundAnswers
  <2> QED
    BY <1>0, <1>2, <2>1, <2>2, ReturnWork DEF Core
<1>5. CASE FoundNext
  <2>1. Return(TRUE)
    BY <1>5 DEF FoundNext
  <2>2. /\ call' = Idle /\ ok' = TRUE /\ pos' = AtRest /\ buf' = Filled(End)
    BY <2>1 DEF Return
  <2>3. ListIn(list', scenario)
    <3>1. \E x : list' = [list EXCEPT !.pos = At(Hit.off + 1), !.seen = x]
      BY <1>5 DEF FoundNext
    <3> HIDE DEF At
    <3> QED
      BY <1>0, <1>3, <3>1 DEF ListIn
  <2>4. PosIn(AtRest, Over(Idle.at))
    <3>1. Over(Idle.at) = 0 /\ 0 \in Nat
      BY DEF Over, Idle
    <3> QED
      BY <3>1, AtRestIn
  <2> QED
    BY <1>2, <2>2, <2>3, <2>4, AtRestIn DEF Core, WorkOK, WorkIn
<1>6. CASE FoundToChange
  <2>1. PICK place \in {"store", "mark"} :
          /\ call' = Keep(place) /\ call.at = "scan" /\ call.op # "list"
    BY <1>6 DEF FoundToChange
  <2>2. CallIn(call', scenario) /\ call'.at = place
    BY <1>00, <2>1, KeepIn
  <2>3. Over(place) = 1
    BY OverIs DEF Steps
  <2>4. PosIn(pos, 1)
    BY <1>3, PosWider
  <2> QED
    BY <1>0, <1>2, <1>6, <2>2, <2>3, <2>4 DEF Core, WorkOK, WorkIn, FoundToChange
<1>7. CASE FoundToRemove
  <2>1. /\ call' = Keep("empty") /\ call.at = "scan" /\ call.op # "list"
        /\ pos' = DirOpen(At(Hit.off + 1), Hit.clust)
    BY <1>7 DEF FoundToRemove
  <2>2. CallIn(call', scenario) /\ call'.at = "empty"
    BY <1>00, <2>1, KeepIn
  <2>3. Over("empty") = 0
    BY OverIs
  <2>4. PosIn(pos', 0)
    BY <1>3, <2>1, OpenIn
  <2> QED
    BY <1>0, <1>2, <1>7, <2>2, <2>3, <2>4 DEF Core, WorkOK, WorkIn, FoundToRemove
<1>8. CASE FoundToRename
  <2> DEFINE k == Keep("scanto")
  <2>1. /\ call' = [k EXCEPT !.name = call.other, !.other = call.name]
        /\ call.at = "scan" /\ call.op = "rename"
        /\ pos' = DirOpen(At(Hit.off + 1), call.dir)
    BY <1>8 DEF FoundToRename
  <2>2. CallIn(k, scenario) /\ k.at = "scanto" /\ k.op = call.op /\ k \in CallRecords
    BY <1>00, <2>1, KeepIn
  <2> HIDE DEF k
  <2>3. call.other \in Names /\ call.name \in Names /\ call.dir \in Dirs
    BY <1>0, <2>1 DEF CallIn, CallRecords
  <2>4. /\ call' \in CallRecords /\ call'.at = "scanto" /\ call'.op = k.op
        /\ call'.name \in Names /\ call'.other \in Names /\ call'.n = k.n
        /\ call'.short = k.short
    BY <2>1, <2>2, <2>3, Names0 DEF CallRecords
  <2>5. CallIn(call', scenario)
    BY <2>1, <2>2, <2>4 DEF CallIn
  <2>6. Over("scanto") = 0
    BY OverIs
  <2>7. PosIn(pos', 0)
    BY <1>3, <2>1, <2>3, OpenIn
  <2> QED
    BY <1>0, <1>2, <1>8, <2>4, <2>5, <2>6, <2>7 DEF Core, WorkOK, WorkIn, FoundToRename
<1>9. CASE FoundRefused
  <2>1. Return(FALSE) /\ list' = list
    BY <1>9 DEF FoundRefused, Fails
  <2> QED
    BY <1>0, <1>2, <2>1, ReturnWork DEF Core
<1> QED
  BY <1>4, <1>5, <1>6, <1>7, <1>8, <1>9

\* Changing read-only makes a slot of a slot.
LEMMA RoSlot ==
  ASSUME NEW x \in Slots, NEW ro \in BOOLEAN
  PROVE  [x EXCEPT !.ro = ro] \in Slots
<1>1. CASE x \in {End, Deleted, Dot, Junk}
  <2>1. [x EXCEPT !.ro = ro] = x
    BY <1>1 DEF End, Deleted, Dot, Junk
  <2> QED
    BY <2>1
<1>2. CASE \E n \in Names, i \in 1 .. DirEntPerSec, s \in ShortNames :
             x = LfnSlot(n, i, Chksum[s])
  <2>1. [x EXCEPT !.ro = ro] = x
    BY <1>2 DEF LfnSlot
  <2> QED
    BY <2>1
<1>3. CASE \E s \in ShortNames, dir \in BOOLEAN, r \in BOOLEAN, c \in Dirs :
             x = ShortSlot(s, dir, r, c)
  <2>1. PICK s \in ShortNames, dir \in BOOLEAN, r \in BOOLEAN, c \in Dirs :
             x = ShortSlot(s, dir, r, c)
    BY <1>3
  <2>2. [x EXCEPT !.ro = ro] = ShortSlot(s, dir, ro, c)
    BY <2>1 DEF ShortSlot
  <2> QED
    BY <2>2, SlotTypes
<1> QED
  BY <1>1, <1>2, <1>3 DEF Slots

\* What Store writes.
LEMMA RoSheet ==
  ASSUME NEW b \in Sheets, NEW off, NEW ro \in BOOLEAN
  PROVE  [b EXCEPT ![off].ro = ro] \in Sheets
<1>1. \A i \in Places : [b[i] EXCEPT !.ro = ro] \in Slots
  BY RoSlot DEF Sheets
<1>2. [b EXCEPT ![off].ro = ro] = [b EXCEPT ![off] = [b[off] EXCEPT !.ro = ro]]
  OBVIOUS
<1> DEFINE y == [b[off] EXCEPT !.ro = ro]
<1>3. off \in Places => y \in Slots
  BY <1>1
<1> HIDE DEF y
<1>4. [b EXCEPT ![off] = y] \in Sheets
  BY <1>3 DEF Sheets
<1> QED
  BY <1>2, <1>4 DEF y

\* What MarkDeleted and Fill write.
LEMMA ChangedSheets ==
  ASSUME NEW b \in Sheets
  PROVE  /\ \A off : Marked(b, off) \in Sheets
         /\ \A first : [i \in Places |-> IF i < first THEN b[i] ELSE Deleted] \in Sheets
<1>1. ASSUME NEW off
      PROVE  Marked(b, off) \in Sheets
  BY SlotTypes DEF Marked, Sheets
<1>2. ASSUME NEW first
      PROVE  [i \in Places |-> IF i < first THEN b[i] ELSE Deleted] \in Sheets
  BY SlotTypes DEF Sheets
<1> QED
  BY <1>1, <1>2

\* A sector that is in the buffer is changed, or read.
LEMMA ChangeStep ==
  ASSUME Core, scenario' = scenario,
         Store \/ MarkDeleted \/ Reload \/ Restore \/ TransferFails
  PROVE  Core'
<1>0. /\ StoreOK /\ WorkOK /\ buf \in Sheets /\ slots \in [Sectors -> Sheets]
      /\ CallIn(call, scenario) /\ ok \in BOOLEAN /\ ListIn(list, scenario)
      /\ PosIn(pos, Over(call.at)) /\ pos.lba \in Sectors
      /\ call \in CallRecords /\ call.entry.clust \in Dirs
      /\ faults \in Counts /\ scenario \in Scenarios
  BY WorkFacts DEF Core, StoreOK, PosIn, CallRecords, Entries
<1>1. CASE Store
  <2>1. StoreOK'
    <3>1. PICK ro \in BOOLEAN : Write(pos.lba, [buf EXCEPT ![call.entry.off].ro = ro])
      BY <1>1 DEF Store
    <3> DEFINE x == [buf EXCEPT ![call.entry.off].ro = ro]
    <3>2. x \in Sheets
      <4> DEFINE o == call.entry.off
      <4> HIDE DEF o
      <4>1. [buf EXCEPT ![o].ro = ro] \in Sheets
        BY <1>0, RoSheet
      <4> QED
        BY <4>1 DEF o
    <3> HIDE DEF x
    <3>3. Write(pos.lba, x)
      BY <3>1 DEF x
    <3>4. \E l, y : y \in Sheets /\ Write(l, y)
      BY <3>2, <3>3
    <3> QED
      BY <1>0, <3>4, WriteStore
  <2>2. Return(TRUE) /\ list' = list /\ faults' = faults
    BY <1>1 DEF Store, Write, Unread
  <2> QED
    BY <1>0, <2>1, <2>2, ReturnWork DEF Core
<1>2. CASE MarkDeleted
  <2>1. StoreOK' /\ faults' = faults
    <3>1. Write(pos.lba, Marked(buf, call.entry.off))
      BY <1>2 DEF MarkDeleted
    <3>2. \E l, x : x \in Sheets /\ Write(l, x)
      BY <1>0, <3>1, ChangedSheets
    <3> QED
      BY <1>0, <3>1, <3>2, WriteStore DEF Write, Unread
  <2>2. CASE Return(TRUE) /\ list' = list
    BY <1>0, <2>1, <2>2, ReturnWork DEF Core
  <2>3. CASE /\ call' = [call EXCEPT !.new = call.entry.clust,
                           !.at = IF call.entry.clust = 0 THEN "flush" ELSE "free"]
             /\ UNCHANGED <<pos, buf, ok, list>>
    <3> DEFINE place == IF call.entry.clust = 0 THEN "flush" ELSE "free"
    <3>1. /\ place \in Steps /\ place # "" /\ place \notin Placing
          /\ Over(place) = 1 /\ Over("mark") = 1
          /\ place \notin {"scan", "scanto", "empty", "restore", "alloc", "reload", "short"}
      BY OverIs DEF Steps, Placing
    <3>2. call' = [call EXCEPT !.new = call.entry.clust, !.at = place] /\ call.at = "mark"
      BY <1>2, <2>3 DEF MarkDeleted
    <3> HIDE DEF place
    <3>3. call.op \notin {"idle", "list"} /\ call.entry.clust \in {0} \cup Clusters
      BY <1>0, <3>2, Places0 DEF CallIn
    <3>4. /\ call' \in CallRecords /\ call'.at = place /\ call'.op = call.op
          /\ call'.name = call.name /\ call'.other = call.other
      BY <1>0, <3>1, <3>2, <3>3 DEF CallRecords
    <3>5. CallIn(call', scenario)
      BY <1>0, <3>1, <3>3, <3>4 DEF CallIn
    <3>6. PosIn(pos', Over(call'.at))
      BY <1>0, <2>3, <3>1, <3>2, <3>4
    <3> QED
      BY <1>0, <2>1, <2>3, <3>5, <3>6 DEF Core, WorkOK, WorkIn
  <2> QED
    BY <1>2, <2>2, <2>3 DEF MarkDeleted
<1>3. CASE Reload
  <2> DEFINE place == IF call.op = "mkdir" THEN "short" ELSE "mark"
  <2>1. /\ call' = [call EXCEPT !.at = place] /\ call.at = "reload"
        /\ ok' = ok /\ list' = list /\ pos' = pos /\ faults' = faults
        /\ UNCHANGED <<fat, fat_dur, slots>> /\ buf' = slots[pos.lba]
    BY <1>3 DEF Reload, Goto
  <2>2. /\ place \in Steps /\ place # "" /\ place \notin Placing
        /\ Over(place) = 1 /\ Over("reload") = 1
        /\ place \notin {"scan", "scanto", "empty", "restore", "alloc", "reload"}
    BY OverIs DEF Steps, Placing
  <2>3. place = "short" => call.op = "mkdir"
    OBVIOUS
  <2> HIDE DEF place
  <2>4. call.op \notin {"idle", "list"} /\ (place = "short" => call.n \in 0 .. MaxTail)
    BY <1>0, <2>1, <2>3, Places0 DEF CallIn
  <2>5. CallIn(call', scenario)
    BY <1>0, <2>1, <2>2, <2>4, GotoIn
  <2>6. call'.at = place
    BY <1>0, <2>1 DEF CallRecords
  <2>7. PosIn(pos', Over(call'.at)) /\ buf' \in Sheets /\ StoreOK'
    BY <1>0, <2>1, <2>2, <2>6, SameStore
  <2> QED
    BY <1>0, <2>1, <2>5, <2>7 DEF Core, WorkOK, WorkIn
<1>4. CASE Restore
  <2>1. /\ call' = [call EXCEPT !.at = "scan"] /\ call.at = "restore"
        /\ ok' = ok /\ list' = list /\ pos' = pos /\ faults' = faults
        /\ UNCHANGED <<fat, fat_dur, slots>> /\ buf' = slots[pos.lba]
    BY <1>4 DEF Restore, Goto
  <2>2. Over("scan") = 0 /\ Over("restore") = 0 /\ "scan" \in Steps
        /\ "scan" \notin Placing
    BY OverIs DEF Steps, Placing
  <2>3. call.op # "idle" /\ call.n = 0
    BY <1>0, <2>1 DEF CallIn
  <2>4. CallIn(call', scenario)
    BY <1>0, <2>1, <2>2, <2>3, GotoIn
  <2>5. call'.at = "scan"
    BY <1>0, <2>1 DEF CallRecords
  <2>6. PosIn(pos', Over(call'.at)) /\ buf' \in Sheets /\ StoreOK'
    BY <1>0, <2>1, <2>2, <2>5, SameStore
  <2> QED
    BY <1>0, <2>1, <2>4, <2>6 DEF Core, WorkOK, WorkIn
<1>5. CASE TransferFails
  <2>1. Return(FALSE) /\ (list' = list \/ list' = NotListing)
        /\ UNCHANGED <<fat, fat_dur, slots>>
    BY <1>5 DEF TransferFails
  <2>2. ReadFault \/ WriteFault
    BY <1>5 DEF TransferFails, Fault
  <2> QED
    BY <1>0, <2>1, <2>2, ReturnWork, SameStore, FaultCounts DEF Core
<1> QED
  BY <1>1, <1>2, <1>3, <1>4, <1>5

-----------------------------------------------------------------------------
(* A new entry.                                                            *)

\* The sector with the new entry.
LEMMA WithEntryType ==
  ASSUME Core, call.at = "insert"
  PROVE  WithEntry \in Sheets
<1>1. /\ call.name \in Names /\ call.short \in ShortNames /\ call.entry \in Entries
      /\ call.off \in 0 .. DirEntPerSec /\ buf \in Sheets
  BY WorkFacts DEF CallIn, CallRecords, Placing
<1>2. Parts[call.name] \in 0 .. DirEntPerSec - 1
  BY <1>1, DirectoryConstants
<1>3. /\ call.entry.dir \in BOOLEAN /\ call.entry.ro \in BOOLEAN
      /\ call.entry.clust \in Dirs
  BY <1>1 DEF Entries
<1> SUFFICES ASSUME NEW i \in Places
             PROVE  (IF i \in call.off .. call.off + Parts[call.name] - 1
                       THEN LfnSlot(call.name, Parts[call.name] - (i - call.off),
                                    Chksum[call.short])
                     ELSE IF i = call.off + Parts[call.name]
                       THEN ShortSlot(call.short, call.entry.dir, call.entry.ro,
                                      call.entry.clust)
                     ELSE IF i = call.off + Parts[call.name] + 1 THEN End
                     ELSE buf[i]) \in Slots
  BY DEF WithEntry, Sheets
<1>4. i \in call.off .. call.off + Parts[call.name] - 1
        => Parts[call.name] - (i - call.off) \in 1 .. DirEntPerSec
  BY <1>1, <1>2, Places0 DEF Places
<1>5. ShortSlot(call.short, call.entry.dir, call.entry.ro, call.entry.clust) \in Slots
  BY <1>1, <1>3, SlotTypes
<1>6. ASSUME i \in call.off .. call.off + Parts[call.name] - 1
      PROVE  LfnSlot(call.name, Parts[call.name] - (i - call.off),
                     Chksum[call.short]) \in Slots
  BY <1>1, <1>4, <1>6, SlotTypes
<1>7. buf[i] \in Slots /\ End \in Slots
  BY <1>1, SlotTypes DEF Sheets
<1> QED
  BY <1>5, <1>6, <1>7

\* The short name for a new entry.
LEMMA TakeWork ==
  ASSUME Core, call.at = "short", scenario' = scenario, TakeShort,
         pos' = pos, buf' \in Sheets
  PROVE  WorkOK'
<1>0. /\ CallIn(call, scenario) /\ ok \in BOOLEAN /\ ListIn(list, scenario)
      /\ PosIn(pos, Over(call.at)) /\ call \in CallRecords
      /\ call.op \notin {"idle", "list"} /\ pos.eptr \in 0 .. DirEntPerSec
  BY WorkFacts DEF CallIn, PosIn
<1>1. Candidate \in ShortNames
  BY <1>0 DEF CallIn, Candidate, ShortNames
<1> DEFINE place == IF Fits THEN "insert" ELSE "fill"
<1>2. call' = [call EXCEPT !.short = Candidate, !.off = pos.eptr, !.at = place]
      /\ ok' = ok /\ list' = list
  BY DEF TakeShort
<1>3. place \in {"insert", "fill"}
  OBVIOUS
<1> HIDE DEF place
<1>4. /\ place \in Steps /\ place # "" /\ Over(place) = 1 /\ Over("short") = 1
      /\ place \notin {"scan", "scanto", "empty", "restore", "alloc", "reload", "short"}
  BY <1>3, OverIs DEF Steps
<1>5. /\ call' \in CallRecords /\ call'.at = place /\ call'.op = call.op
      /\ call'.name = call.name /\ call'.other = call.other
      /\ call'.short = Candidate
  BY <1>0, <1>1, <1>2, <1>4 DEF CallRecords
<1>6. CallIn(call', scenario)
  BY <1>0, <1>1, <1>4, <1>5 DEF CallIn
<1>7. PosIn(pos', Over(call'.at))
  BY <1>0, <1>4, <1>5
<1> QED
  BY <1>0, <1>2, <1>6, <1>7 DEF WorkOK, WorkIn

\* The next tail is tried, or none is left.
LEMMA TryWork ==
  ASSUME Core, call.at = "short", scenario' = scenario, TryNext, buf' \in Sheets
  PROVE  WorkOK'
<1>0. /\ CallIn(call, scenario) /\ ok \in BOOLEAN /\ ListIn(list, scenario)
      /\ PosIn(pos, Over(call.at)) /\ call \in CallRecords
      /\ call.n \in 0 .. MaxTail
  BY WorkFacts DEF CallIn
<1>1. CASE call.n < MaxTail
  <2>1. call' = [call EXCEPT !.n = @ + 1] /\ UNCHANGED <<pos, ok, list>>
    BY <1>1 DEF TryNext
  <2>2. call.n + 1 \in Nat /\ call.n + 1 \in 0 .. MaxTail
    BY <1>0, <1>1, Places0
  <2>3. /\ call' \in CallRecords /\ call'.at = call.at /\ call'.op = call.op
        /\ call'.name = call.name /\ call'.other = call.other
        /\ call'.short = call.short /\ call'.n = call.n + 1
    BY <1>0, <2>1, <2>2 DEF CallRecords
  <2>4. CallIn(call', scenario)
    BY <1>0, <2>2, <2>3 DEF CallIn, Placing
  <2>5. PosIn(pos', Over(call'.at))
    BY <1>0, <2>1, <2>3
  <2> QED
    BY <1>0, <2>1, <2>4, <2>5 DEF WorkOK, WorkIn
<1>2. CASE ~(call.n < MaxTail)
  <2>1. call' = Idle /\ ok' = FALSE /\ pos' = AtRest /\ list' = list
    BY <1>2 DEF TryNext
  <2>2. Over(Idle.at) = 0 /\ 0 \in Nat
    BY DEF Over, Idle
  <2>3. PosIn(pos', Over(call'.at))
    BY <2>1, <2>2, AtRestIn
  <2> QED
    BY <1>0, <2>1, <2>3, AtRestIn DEF WorkOK, WorkIn
<1> QED
  BY <1>1, <1>2

\* A cluster is allocated.
LEMMA AllocType ==
  ASSUME fat \in [Clusters -> Links], \E c \in Clusters : Alloc(c)
  PROVE  fat' \in [Clusters -> Links]
BY Places0 DEF Alloc

\* A new entry is made room for and written.
LEMMA PlaceStep ==
  ASSUME Core, scenario' = scenario,
         ChooseShort \/ ChooseFails \/ Fill \/ NextHasRoom \/ NextIsNone \/ NextFails
         \/ Grow \/ NoCluster \/ LinkNew \/ LinkUnflushed \/ ClearSector \/ Wiped
         \/ Insert
  PROVE  Core'
<1>0. /\ StoreOK /\ WorkOK /\ buf \in Sheets /\ slots \in [Sectors -> Sheets]
      /\ fat \in [Clusters -> Links] /\ fat_dur \in [Clusters -> Links]
      /\ CallIn(call, scenario) /\ ok \in BOOLEAN /\ ListIn(list, scenario)
      /\ PosIn(pos, Over(call.at)) /\ pos.lba \in Sectors
      /\ call \in CallRecords /\ call.new \in {0} \cup Clusters /\ call.n \in Nat
      /\ faults \in Counts /\ scenario \in Scenarios
  BY WorkFacts DEF Core, StoreOK, PosIn, CallRecords
<1>00. 0 \in 0 .. DirEntPerSec
  BY Places0
<1>1. CASE ChooseShort
  <2>1. call.at = "short" /\ UNCHANGED <<fat, fat_dur, slots, faults>>
    BY <1>1 DEF ChooseShort
  <2>2. StoreOK' /\ slots[pos.lba] \in Sheets
    BY <1>0, <2>1, SameStore
  <2>3. WorkOK'
    <3>1. CASE TakeShort /\ UNCHANGED <<pos, buf>>
      BY <1>0, <2>1, <3>1, TakeWork
    <3>2. CASE TakeShort /\ buf' = slots[pos.lba] /\ UNCHANGED pos
      BY <2>1, <2>2, <3>2, TakeWork
    <3>3. CASE buf' = slots[pos.lba] /\ TryNext
      BY <2>1, <2>2, <3>3, TryWork
    <3> QED
      BY <1>1, <3>1, <3>2, <3>3 DEF ChooseShort
  <2> QED
    BY <1>0, <2>1, <2>2, <2>3 DEF Core
<1>2. CASE ChooseFails
  <2>1. call.at = "short" /\ UNCHANGED <<fat, fat_dur, slots>> /\ ReadFault
    BY <1>2 DEF ChooseFails
  <2>2. StoreOK' /\ slots[pos.lba] \in Sheets /\ faults' \in Counts
    BY <1>0, <2>1, SameStore, FaultCounts
  <2>3. WorkOK'
    <3>1. CASE TakeShort /\ buf' = slots[pos.lba] /\ UNCHANGED pos
      BY <2>1, <2>2, <3>1, TakeWork
    <3>2. CASE TryNext /\ UNCHANGED buf
      BY <1>0, <2>1, <3>2, TryWork
    <3> QED
      BY <1>2, <3>1, <3>2 DEF ChooseFails
  <2> QED
    BY <1>0, <2>2, <2>3 DEF Core
<1>3. CASE Fill
  <2>1. /\ call.at = "fill" /\ call' = [call EXCEPT !.at = "next"]
        /\ ok' = ok /\ list' = list /\ pos' = pos
        /\ Write(pos.lba, buf') /\ faults' = faults
    BY <1>3 DEF Fill, Goto, Write, Unread
  <2>2. buf' \in Sheets
    <3>1. buf' = [i \in Places |-> IF i < pos.eptr THEN buf[i] ELSE Deleted]
      BY <1>3 DEF Fill
    <3> QED
      BY <1>0, <3>1, ChangedSheets
  <2>3. StoreOK'
    BY <1>0, <2>1, <2>2, WriteStore
  <2>4. Over("fill") = 1 /\ Over("next") = 1 /\ "next" \in Steps
    BY OverIs DEF Steps
  <2>5. call.op \notin {"idle", "list"} /\ call.short \in ShortNames
    BY <1>0, <2>1 DEF CallIn, Placing
  <2>6. CallIn(call', scenario)
    BY <1>0, <2>1, <2>4, <2>5, GotoIn
  <2>7. call'.at = "next"
    BY <1>0, <2>1 DEF CallRecords
  <2> QED
    BY <1>0, <2>1, <2>2, <2>3, <2>4, <2>6, <2>7 DEF Core, WorkOK, WorkIn
<1>4. CASE NextHasRoom
  <2>1. /\ call.at = "next" /\ ~NoMore(pos) /\ pos' = NextSector(pos)
        /\ call' = [call EXCEPT !.at = "insert", !.off = 0]
        /\ UNCHANGED <<fat, fat_dur, slots, ok, list, faults>>
        /\ buf' = slots[NextSector(pos).lba]
    BY <1>4 DEF NextHasRoom
  <2>2. PosIn(NextSector(pos), 0) /\ NextSector(pos).lba \in Sectors
    BY <1>0, <2>1, NextIn
  <2>3. PosIn(pos', 1)
    <3>1. PosIn(pos', 0)
      BY <2>1, <2>2
    <3> QED
      BY <3>1, PosWider
  <2>4. Over("insert") = 1 /\ "insert" \in Steps
    BY OverIs DEF Steps
  <2>5. call.op \notin {"idle", "list"} /\ call.short \in ShortNames
    BY <1>0, <2>1 DEF CallIn, Placing
  <2>6. CallIn(call', scenario) /\ call'.at = "insert"
    <3>1. /\ call' \in CallRecords /\ call'.at = "insert" /\ call'.op = call.op
          /\ call'.name = call.name /\ call'.other = call.other
          /\ call'.short = call.short
      BY <1>0, <1>00, <2>1, <2>4 DEF CallRecords
    <3> QED
      BY <1>0, <2>5, <3>1 DEF CallIn
  <2>7. StoreOK' /\ buf' \in Sheets
    BY <1>0, <2>1, <2>2, SameStore
  <2> QED
    BY <1>0, <2>1, <2>3, <2>4, <2>6, <2>7 DEF Core, WorkOK, WorkIn
<1>5. ASSUME call.at = "next", \E p : PosIn(p, 2) /\ GrowFrom(p),
             UNCHANGED <<fat, fat_dur, slots>>, faults' \in Counts
      PROVE  Core'
  <2>1. PICK p : PosIn(p, 2) /\ GrowFrom(p)
    BY <1>5
  <2>2. StoreOK'
    BY <1>0, <1>5, SameStore
  <2>3. CASE Fails
    BY <1>0, <1>5, <2>2, <2>3, ReturnWork DEF Core, Fails
  <2>4. CASE Goto("grow") /\ pos' = p /\ UNCHANGED buf
    <3>1. /\ call' = [call EXCEPT !.at = "grow"] /\ ok' = ok /\ list' = list
      BY <2>4 DEF Goto
    <3>2. Over("grow") = 2 /\ "grow" \in Steps
      BY OverIs DEF Steps
    <3>3. call.op \notin {"idle", "list"} /\ call.short \in ShortNames
      BY <1>0, <1>5 DEF CallIn, Placing
    <3>4. CallIn(call', scenario)
      BY <1>0, <3>1, <3>2, <3>3, GotoIn
    <3>5. call'.at = "grow"
      BY <1>0, <3>1 DEF CallRecords
    <3> QED
      BY <1>0, <1>5, <2>1, <2>2, <2>4, <3>1, <3>2, <3>4, <3>5 DEF Core, WorkOK, WorkIn
  <2> QED
    BY <2>1, <2>3, <2>4 DEF GrowFrom
<1>6. ASSUME call.at = "next"
      PROVE  /\ PosIn([pos EXCEPT !.sect = @ + 1], 2)
             /\ ~NoMore(pos) => PosIn(NextSector(pos), 2)
  <2>1. Over("next") = 1
    BY OverIs DEF Steps
  <2>2. PosIn(pos, 1) /\ 1 \in Nat /\ 1 + 1 = 2
    BY <1>0, <1>6, <2>1
  <2>3. PosIn([pos EXCEPT !.sect = @ + 1], 1 + 1)
    BY <2>2, PastIn
  <2>4. ASSUME ~NoMore(pos) PROVE PosIn(NextSector(pos), 2)
    <3>1. PosIn(NextSector(pos), 0)
      BY <1>0, <2>2, <2>4, NextIn
    <3> QED
      BY <3>1, PosWider
  <2> QED
    BY <2>2, <2>3, <2>4
<1>7. CASE NextIsNone
  BY <1>0, <1>5, <1>6, <1>7 DEF NextIsNone
<1>8. CASE NextFails
  <2>1. faults' \in Counts
    BY <1>0, <1>8, FaultCounts DEF NextFails
  <2> QED
    BY <1>5, <1>6, <1>8, <2>1 DEF NextFails
<1>9. CASE Grow
  <2>1. PICK c \in Clusters : Alloc(c) /\ call' = [call EXCEPT !.at = "link", !.new = c]
    BY <1>9 DEF Grow
  <2>2. call.at = "grow" /\ UNCHANGED <<fat_dur, slots, pos, buf, ok, list, faults>>
    BY <1>9 DEF Grow
  <2>3. StoreOK'
    BY <1>0, <2>1, <2>2, AllocType DEF StoreOK
  <2>4. Over("grow") = 2 /\ Over("link") = 2 /\ "link" \in Steps
    BY OverIs DEF Steps
  <2>5. call.op \notin {"idle", "list"} /\ call.short \in ShortNames
    BY <1>0, <2>2 DEF CallIn, Placing
  <2>6. CallIn(call', scenario) /\ call'.at = "link"
    <3>1. /\ call' \in CallRecords /\ call'.at = "link" /\ call'.op = call.op
          /\ call'.name = call.name /\ call'.other = call.other
          /\ call'.short = call.short
      BY <1>0, <2>1, <2>4 DEF CallRecords
    <3> QED
      BY <1>0, <2>5, <3>1 DEF CallIn
  <2> QED
    BY <1>0, <2>2, <2>3, <2>4, <2>6 DEF Core, WorkOK, WorkIn
<1>10. CASE NoCluster
  <2>1. Return(FALSE) /\ list' = list /\ UNCHANGED <<fat, fat_dur, slots, faults>>
    BY <1>10 DEF NoCluster, Fails
  <2> QED
    BY <1>0, <2>1, ReturnWork, SameStore DEF Core
<1>11. ASSUME LinkIn
       PROVE  fat' \in [Clusters -> Links]
  BY <1>0, <1>11, Places0 DEF LinkIn
<1>12. CASE LinkNew
  <2>1. /\ call.at = "link" /\ LinkIn /\ fat_dur' = fat'
        /\ pos' = [pos EXCEPT !.clust = call.new, !.sect = 0, !.lba = <<call.new, 0>>]
        /\ call' = [call EXCEPT !.at = "wipe", !.n = 1]
        /\ UNCHANGED <<slots, buf, ok, list, faults>>
    BY <1>12 DEF LinkNew
  <2>2. StoreOK'
    BY <1>0, <1>11, <2>1 DEF StoreOK
  <2>3. call.new \in Dirs /\ <<call.new, 0>> \in Sectors
    <3>1. call.new \in Dirs
      BY <1>0, Places0
    <3> QED
      BY <3>1, SectorIs
  <2>4. PosIn(pos', 1)
    <3>1. SectorsOf(call.new) >= 1 /\ SectorsOf(call.new) \in Nat
      BY <2>3, SectorIs
    <3> QED
      BY <1>0, <2>1, <2>3, <3>1 DEF PosIn, PosFields
  <2>5. Over("wipe") = 1 /\ "wipe" \in Steps
    BY OverIs DEF Steps
  <2>6. call.op \notin {"idle", "list"} /\ call.short \in ShortNames
    BY <1>0, <2>1 DEF CallIn, Placing
  <2>7. CallIn(call', scenario) /\ call'.at = "wipe"
    <3>1. /\ call' \in CallRecords /\ call'.at = "wipe" /\ call'.op = call.op
          /\ call'.name = call.name /\ call'.other = call.other
          /\ call'.short = call.short
      BY <1>0, <2>1, <2>5 DEF CallRecords
    <3> QED
      BY <1>0, <2>6, <3>1 DEF CallIn
  <2> QED
    BY <1>0, <2>1, <2>2, <2>4, <2>5, <2>7 DEF Core, WorkOK, WorkIn
<1>13. CASE LinkUnflushed
  <2>1. Return(FALSE) /\ list' = list /\ UNCHANGED <<fat_dur, slots>> /\ WriteFault /\ LinkIn
    BY <1>13 DEF LinkUnflushed, Fails
  <2> QED
    BY <1>0, <1>11, <2>1, ReturnWork, FaultCounts DEF Core, StoreOK
<1>14. CASE ClearSector
  <2>1. /\ call.at \in {"clear", "wipe"} /\ Write(<<call.new, call.n>>, Filled(End))
        /\ call' = [call EXCEPT !.n = @ + 1]
        /\ UNCHANGED <<pos, buf, ok, list>> /\ faults' = faults
    BY <1>14 DEF ClearSector, Write, Unread
  <2>2. StoreOK'
    <3>1. \E l, x : x \in Sheets /\ Write(l, x)
      BY <2>1, SlotTypes
    <3> QED
      BY <1>0, <3>1, WriteStore
  <2>3. /\ call' \in CallRecords /\ call'.at = call.at /\ call'.op = call.op
        /\ call'.name = call.name /\ call'.other = call.other
        /\ call'.short = call.short
    BY <1>0, <2>1 DEF CallRecords
  <2>4. CallIn(call', scenario)
    BY <1>0, <2>1, <2>3 DEF CallIn
  <2>5. PosIn(pos', Over(call'.at))
    BY <1>0, <2>1, <2>3
  <2> QED
    BY <1>0, <2>1, <2>2, <2>4, <2>5 DEF Core, WorkOK, WorkIn
<1>15. CASE Wiped
  <2>1. /\ call.at = "wipe" /\ buf' = Filled(End)
        /\ call' = [call EXCEPT !.at = "insert", !.off = 0]
        /\ UNCHANGED <<fat, fat_dur, slots, pos, ok, list, faults>>
    BY <1>15 DEF Wiped
  <2>2. Over("wipe") = 1 /\ Over("insert") = 1 /\ "insert" \in Steps
    BY OverIs DEF Steps
  <2>3. call.op \notin {"idle", "list"} /\ call.short \in ShortNames
    BY <1>0, <2>1 DEF CallIn, Placing
  <2>4. CallIn(call', scenario) /\ call'.at = "insert"
    <3>1. /\ call' \in CallRecords /\ call'.at = "insert" /\ call'.op = call.op
          /\ call'.name = call.name /\ call'.other = call.other
          /\ call'.short = call.short
      BY <1>0, <1>00, <2>1, <2>2 DEF CallRecords
    <3> QED
      BY <1>0, <2>3, <3>1 DEF CallIn
  <2>5. StoreOK'
    BY <1>0, <2>1, SameStore
  <2> QED
    BY <1>0, <2>1, <2>2, <2>4, <2>5, AtRestIn DEF Core, WorkOK, WorkIn
<1>16. CASE Insert
  <2>1. call.at = "insert" /\ Write(pos.lba, WithEntry) /\ faults' = faults
    BY <1>16 DEF Insert, Write, Unread
  <2>2. StoreOK'
    <3>1. \E l, x : x \in Sheets /\ Write(l, x)
      BY <2>1, WithEntryType
    <3> QED
      BY <1>0, <3>1, WriteStore
  <2>3. CASE Return(TRUE) /\ list' = list
    BY <1>0, <2>1, <2>2, <2>3, ReturnWork DEF Core
  <2>4. CASE /\ call.op = "rename" /\ Goto("reload")
             /\ pos' = [pos EXCEPT !.lba = call.lba] /\ UNCHANGED buf
    <3>1. call' = [call EXCEPT !.at = "reload"] /\ ok' = ok /\ list' = list
      BY <2>4 DEF Goto
    <3>2. Over("insert") = 1 /\ Over("reload") = 1 /\ "reload" \in Steps
          /\ "reload" \notin Placing
      BY OverIs DEF Steps, Placing
    <3>3. CallIn(call', scenario)
      BY <1>0, <2>4, <3>1, <3>2, GotoIn
    <3>4. call'.at = "reload"
      BY <1>0, <3>1 DEF CallRecords
    <3>5. call.lba \in Sectors /\ PosIn(pos, 1)
      BY <1>0, <2>1, <3>2 DEF CallRecords
    <3>6. PosIn(pos', 1)
      BY <2>4, <3>5 DEF PosIn, PosFields
    <3> QED
      BY <1>0, <2>1, <2>2, <2>4, <3>1, <3>2, <3>3, <3>4, <3>6 DEF Core, WorkOK, WorkIn
  <2> QED
    BY <1>16, <2>3, <2>4 DEF Insert
<1> QED
  BY <1>1, <1>2, <1>3, <1>4, <1>7, <1>8, <1>9, <1>10, <1>12, <1>13, <1>14,
     <1>15, <1>16

\* A directory is made, and clusters are freed.
LEMMA MakeStep ==
  ASSUME Core, scenario' = scenario,
         MakeAlloc \/ MakeUnflushed \/ MakeDots \/ Cleared \/ FreeOne \/ FlushLast
  PROVE  Core'
<1>0. /\ StoreOK /\ WorkOK /\ buf \in Sheets /\ slots \in [Sectors -> Sheets]
      /\ fat \in [Clusters -> Links] /\ fat_dur \in [Clusters -> Links]
      /\ CallIn(call, scenario) /\ ok \in BOOLEAN /\ ListIn(list, scenario)
      /\ PosIn(pos, Over(call.at))
      /\ call \in CallRecords /\ call.new \in {0} \cup Clusters /\ call.n \in Nat
      /\ faults \in Counts /\ scenario \in Scenarios
  BY WorkFacts DEF Core, StoreOK, CallRecords
<1>1. CASE MakeAlloc
  <2>1. PICK c \in Clusters : NewCluster(c)
    BY <1>1 DEF MakeAlloc
  <2>2. /\ call.at = "alloc" /\ fat_dur' = fat'
        /\ UNCHANGED <<slots, pos, buf, ok, list, faults>>
    BY <1>1 DEF MakeAlloc
  <2>3. StoreOK'
    BY <1>0, <2>1, <2>2, AllocType DEF StoreOK, NewCluster
  <2> DEFINE e == [NoEntry EXCEPT !.dir = TRUE, !.clust = c]
  <2>4. e \in Entries
    <3>1. NoEntry \in Entries /\ c \in Dirs
      BY <2>1, AtRestIn, Places0
    <3> QED
      BY <3>1 DEF Entries
  <2>5. call' = [call EXCEPT !.at = "dots", !.new = c, !.entry = e]
    BY <2>1 DEF NewCluster
  <2> HIDE DEF e
  <2>6. Over("alloc") = 1 /\ Over("dots") = 1 /\ "dots" \in Steps
    BY OverIs DEF Steps
  <2>7. call.op \notin {"idle", "list"}
    BY <1>0, <2>2 DEF CallIn
  <2>8. /\ call' \in CallRecords /\ call'.at = "dots" /\ call'.op = call.op
        /\ call'.name = call.name /\ call'.other = call.other
    BY <1>0, <2>1, <2>4, <2>5, <2>6 DEF CallRecords
  <2>9. CallIn(call', scenario)
    BY <1>0, <2>7, <2>8 DEF CallIn, Placing
  <2>10. PosIn(pos', Over(call'.at))
    BY <1>0, <2>2, <2>6, <2>8
  <2> QED
    BY <1>0, <2>2, <2>3, <2>9, <2>10 DEF Core, WorkOK, WorkIn
<1>2. CASE MakeUnflushed
  <2>1. /\ Return(FALSE) /\ list' = list /\ UNCHANGED <<fat_dur, slots>> /\ WriteFault
        /\ \E c \in Clusters : Alloc(c)
    BY <1>2 DEF MakeUnflushed, Fails
  <2> QED
    BY <1>0, <2>1, AllocType, ReturnWork, FaultCounts DEF Core, StoreOK
<1>3. CASE MakeDots
  <2>1. /\ call.at = "dots" /\ call' = [call EXCEPT !.at = "clear", !.n = 1]
        /\ UNCHANGED <<pos, buf, ok, list>> /\ faults' = faults
        /\ Write(<<call.new, 0>>, [i \in Places |-> IF i < 2 THEN Dot ELSE End])
    BY <1>3 DEF MakeDots, Write, Unread
  <2>2. StoreOK'
    <3>1. [i \in Places |-> IF i < 2 THEN Dot ELSE End] \in Sheets
      BY SlotTypes DEF Sheets
    <3>2. \E l, x : x \in Sheets /\ Write(l, x)
      BY <2>1, <3>1
    <3> QED
      BY <1>0, <3>2, WriteStore
  <2>3. Over("dots") = 1 /\ Over("clear") = 1 /\ "clear" \in Steps
    BY OverIs DEF Steps
  <2>4. call.op \notin {"idle", "list"}
    BY <1>0, <2>1 DEF CallIn
  <2>5. /\ call' \in CallRecords /\ call'.at = "clear" /\ call'.op = call.op
        /\ call'.name = call.name /\ call'.other = call.other
    BY <1>0, <2>1, <2>3 DEF CallRecords
  <2>6. CallIn(call', scenario)
    BY <1>0, <2>4, <2>5 DEF CallIn, Placing
  <2>7. PosIn(pos', Over(call'.at))
    BY <1>0, <2>1, <2>3, <2>5
  <2> QED
    BY <1>0, <2>1, <2>2, <2>6, <2>7 DEF Core, WorkOK, WorkIn
<1>4. CASE Cleared
  <2>1. /\ call.at = "clear" /\ call' = [call EXCEPT !.at = "reload", !.n = 0]
        /\ UNCHANGED <<fat, fat_dur, slots, pos, buf, ok, list, faults>>
    BY <1>4 DEF Cleared
  <2>2. Over("reload") = 1 /\ Over("clear") = 1 /\ "reload" \in Steps
    BY OverIs DEF Steps
  <2>3. call.op \notin {"idle", "list"}
    BY <1>0, <2>1 DEF CallIn
  <2>4. /\ call' \in CallRecords /\ call'.at = "reload" /\ call'.op = call.op
        /\ call'.name = call.name /\ call'.other = call.other /\ call'.n = 0
    BY <1>0, <2>1, <2>2 DEF CallRecords
  <2>5. CallIn(call', scenario)
    BY <1>0, <2>3, <2>4 DEF CallIn, Placing
  <2>6. PosIn(pos', Over(call'.at))
    BY <1>0, <2>1, <2>2, <2>4
  <2> QED
    BY <1>0, <2>1, <2>5, <2>6, SameStore DEF Core, WorkOK, WorkIn
<1>5. CASE FreeOne
  <2>1. /\ call.at = "free" /\ UNCHANGED <<fat_dur, pos, buf, ok, list, faults>>
        /\ fat' = [fat EXCEPT ![call.new] = 0]
        /\ slots' = [l \in Sectors |-> IF l[1] = call.new THEN Filled(Junk)
                                                          ELSE slots[l]]
    BY <1>5 DEF FreeOne
  <2>2. StoreOK'
    <3>1. fat' \in [Clusters -> Links]
      BY <1>0, <2>1, Places0
    <3>2. slots' \in [Sectors -> Sheets]
      <4>1. Filled(Junk) \in Sheets
        BY SlotTypes
      <4> QED
        BY <1>0, <2>1, <4>1
    <3> QED
      BY <1>0, <2>1, <3>1, <3>2 DEF StoreOK
  <2>3. Over("free") = 1 /\ Over("flush") = 1 /\ "flush" \in Steps
    BY OverIs DEF Steps
  <2>4. call.op \notin {"idle", "list"}
    BY <1>0, <2>1 DEF CallIn
  <2>5. /\ call' \in CallRecords /\ call'.at \in {"free", "flush"} /\ call'.op = call.op
        /\ call'.name = call.name /\ call'.other = call.other
    <3>1. CASE fat[call.new] \in Clusters /\ call' = [call EXCEPT !.new = fat[call.new]]
      BY <1>0, <2>1, <3>1 DEF CallRecords
    <3>2. CASE call' = [call EXCEPT !.at = "flush"]
      BY <1>0, <2>3, <3>2 DEF CallRecords
    <3> QED
      BY <1>5, <3>1, <3>2 DEF FreeOne
  <2>6. CallIn(call', scenario)
    BY <1>0, <2>4, <2>5 DEF CallIn, Placing
  <2>7. PosIn(pos', Over(call'.at))
    BY <1>0, <2>1, <2>3, <2>5
  <2> QED
    BY <1>0, <2>1, <2>2, <2>6, <2>7 DEF Core, WorkOK, WorkIn
<1>6. CASE FlushLast
  <2>1. Return(TRUE) /\ UNCHANGED <<fat, slots, list, faults>> /\ fat_dur' = fat
    BY <1>6 DEF FlushLast
  <2> QED
    BY <1>0, <2>1, ReturnWork DEF Core, StoreOK
<1> QED
  BY <1>1, <1>2, <1>3, <1>4, <1>5, <1>6

\* The names programs use are names.
LEMMA ScenarioIs ==
  ASSUME scenario \in Scenarios
  PROVE  /\ scenario.names \subseteq Names /\ scenario.calls \subseteq Calls
         /\ scenario \in [calls : SUBSET Calls, names : SUBSET Names,
                          reads : Nat, writes : Nat, crashes : Nat]
BY DirectoryConstants

\* A program makes a call.
LEMMA CallerStep ==
  ASSUME Core, scenario' = scenario, Caller
  PROVE  Core'
<1>0. /\ StoreOK /\ buf \in Sheets
      /\ ok \in BOOLEAN /\ ListIn(list, scenario)
      /\ PosIn(pos, 0) /\ LiveDirs \subseteq Dirs
      /\ faults \in Counts /\ scenario \in Scenarios
      /\ scenario.names \subseteq Names /\ scenario.calls \subseteq Calls
  <2>1. CallIn(call, scenario) /\ call.op = "idle"
    BY WorkFacts DEF Caller
  <2>2. Over(call.at) = 0
    BY <2>1, OverIs DEF CallIn
  <2> QED
    BY <2>2, WorkFacts, LiveAreDirs, ScenarioIs DEF Core
<1>1. /\ Idle \in CallRecords /\ Over("scan") = 0 /\ Over("restore") = 0
      /\ "scan" \in Steps /\ "restore" \in Steps
      /\ "scan" \notin Placing /\ "restore" \notin Placing
      /\ Idle.n = 0
  BY AtRestIn, OverIs DEF CallIn, Steps, Placing, Idle
<1>2. ASSUME NEW op \in scenario.calls, NEW d \in Dirs, NEW n \in Listed, NEW m \in Listed,
             op # "list" => n \in Names, op = "rename" => m \in Names,
             Start(op, d, n, m), ListIn(list', scenario)
      PROVE  Core'
  <2>1. /\ call' = [Idle EXCEPT !.op = op, !.at = "scan", !.dir = d, !.name = n,
                                !.other = m]
        /\ pos' = DirOpen(pos, d) /\ ok' = TRUE
        /\ UNCHANGED <<fat, fat_dur, slots, buf, faults>>
    BY <1>2 DEF Start
  <2>2. /\ call' \in CallRecords /\ call'.op = op /\ call'.at = "scan"
        /\ call'.name = n /\ call'.other = m /\ call'.n = 0
    <3>1. op \in Calls
      BY <1>0
    <3> QED
      BY <1>1, <1>2, <2>1, <3>1 DEF CallRecords
  <2>3. op # "idle"
    BY <1>0 DEF Calls
  <2>4. CallIn(call', scenario)
    BY <1>1, <1>2, <2>2, <2>3 DEF CallIn
  <2>5. PosIn(pos', 0)
    BY <1>0, <1>2, <2>1, OpenIn
  <2> QED
    BY <1>0, <1>1, <1>2, <2>1, <2>2, <2>4, <2>5, SameStore DEF Core, WorkOK, WorkIn
<1>3. CASE NameCall
  <2>1. PICK op \in NameCalls, d \in LiveDirs, n \in scenario.names :
          Start(op, d, n, Garbled)
    BY <1>3 DEF NameCall
  <2>2. list' = list /\ op \in scenario.calls /\ op \notin {"list", "rename"}
    BY <1>3, <2>1 DEF NameCall, NameCalls
  <2>3. d \in Dirs /\ n \in Names /\ n \in Listed /\ Garbled \in Listed
    BY <1>0, Names0
  <2> QED
    BY <1>0, <1>2, <2>1, <2>2, <2>3
<1>4. CASE RenameCall
  <2>1. PICK d \in LiveDirs, n \in scenario.names, m \in scenario.names :
          Start("rename", d, n, m)
    BY <1>4 DEF RenameCall
  <2>2. list' = list /\ "rename" \in scenario.calls
    BY <1>4 DEF RenameCall
  <2>3. d \in Dirs /\ n \in Names /\ n \in Listed /\ m \in Names /\ m \in Listed
    BY <1>0, Names0
  <2> QED
    BY <1>0, <1>2, <2>1, <2>2, <2>3
<1>5. CASE ListCall
  <2>1. PICK d \in LiveDirs :
          /\ Start("list", d, Garbled, Garbled)
          /\ list' = [NotListing EXCEPT !.on = TRUE, !.dir = d]
    BY <1>5 DEF ListCall
  <2>2. "list" \in scenario.calls
    BY <1>5 DEF ListCall
  <2>3. d \in Dirs /\ Garbled \in Listed
    BY <1>0, Names0
  <2>4. ListIn(list', scenario)
    <3>1. ListIn(NotListing, scenario)
      BY AtRestIn
    <3> QED
      BY <2>1, <2>2, <2>3, <3>1 DEF ListIn
  <2> QED
    BY <1>2, <2>1, <2>2, <2>3, <2>4
<1>6. CASE ListNext
  <2>1. /\ list.on /\ ok' = TRUE /\ pos' = list.pos
        /\ call' = [Idle EXCEPT !.op = "list", !.at = "restore", !.dir = list.dir]
        /\ UNCHANGED <<fat, fat_dur, slots, buf, list, faults>>
    BY <1>6 DEF ListNext
  <2>2. PosIn(list.pos, 0) /\ list.dir \in Dirs /\ "list" \in scenario.calls
    BY <1>0, <2>1 DEF ListIn
  <2>3. /\ call' \in CallRecords /\ call'.op = "list" /\ call'.at = "restore"
        /\ call'.n = 0
    BY <1>1, <2>1, <2>2 DEF CallRecords, Calls
  <2>4. CallIn(call', scenario)
    BY <1>1, <2>2, <2>3 DEF CallIn
  <2> QED
    BY <1>0, <1>1, <2>1, <2>2, <2>3, <2>4, SameStore DEF Core, WorkOK, WorkIn
<1> QED
  BY <1>3, <1>4, <1>5, <1>6 DEF Caller

\* A flush by another program, and a restart.
LEMMA RestartStep ==
  ASSUME Core, scenario' = scenario, Sync \/ Crash
  PROVE  Core'
<1>0. /\ StoreOK /\ WorkOK /\ ListIn(list, scenario)
      /\ faults \in Counts /\ scenario \in Scenarios
  BY WorkFacts DEF Core
<1>1. CASE Sync
  BY <1>0, <1>1 DEF Sync, Core, StoreOK, WorkOK
<1>2. CASE Crash
  <2>1. /\ StoreOK' /\ faults' \in Counts
    BY <1>0, <1>2 DEF Crash, StoreOK, Counts
  <2>2. call' = Idle /\ ok' = TRUE /\ pos' = AtRest /\ buf' = Filled(End)
        /\ list' = NotListing
    BY <1>2 DEF Crash
  <2>3. PosIn(AtRest, Over(Idle.at))
    <3>1. Over(Idle.at) = 0 /\ 0 \in Nat
      BY DEF Over, Idle
    <3> QED
      BY <3>1, AtRestIn
  <2> QED
    BY <1>0, <2>1, <2>2, <2>3, AtRestIn DEF Core, WorkOK, WorkIn
<1> QED
  BY <1>1, <1>2

-----------------------------------------------------------------------------
(* Types, always.                                                          *)

\* The first state.
LEMMA InitTypes == Init => Types
<1> SUFFICES ASSUME Init PROVE Types
  OBVIOUS
<1>1. StoreOK
  <2>1. fat \in [Clusters -> Links] /\ fat_dur \in [Clusters -> Links]
    BY Places0 DEF Init
  <2>2. slots \in [Sectors -> Sheets]
    <3>1. Filled(End) \in Sheets /\ Filled(Junk) \in Sheets
      BY SlotTypes
    <3> QED
      BY <3>1 DEF Init
  <2> QED
    BY <2>1, <2>2 DEF StoreOK
<1>2. WorkOK
  <2>1. PosIn(AtRest, Over(Idle.at))
    <3>1. Over(Idle.at) = 0 /\ 0 \in Nat
      BY DEF Over, Idle
    <3> QED
      BY <3>1, AtRestIn
  <2> QED
    BY <2>1, AtRestIn DEF Init, WorkOK, WorkIn
<1> QED
  BY <1>1, <1>2 DEF Init, Types, Core, Counts, NoFaults

\* Every step keeps them.
LEMMA NextCore == Core /\ [Next]_vars => Core'
<1> SUFFICES ASSUME Core, [Next]_vars PROVE Core'
  OBVIOUS
<1>1. CASE UNCHANGED vars
  BY <1>1 DEF vars, Core, StoreOK, WorkOK
<1>2. CASE ~exposed /\ (Caller \/ Kernel \/ Sync \/ Crash) /\ Watch
  <2>1. scenario' = scenario /\ (Caller \/ Kernel \/ Sync \/ Crash)
    BY <1>2 DEF Watch
  <2> QED
    BY <2>1, ScanStep, FoundStep, ChangeStep, PlaceStep, MakeStep, CallerStep,
       RestartStep DEF Kernel
<1>3. CASE Unfollowed
  BY <1>1, <1>3 DEF Unfollowed
<1> QED
  BY <1>1, <1>2, <1>3 DEF Next

\* What is watched are names.
LEMMA NextSteady ==
  Core /\ steady \subseteq Listed /\ [Next]_vars /\ Core' /\ Shows'
    => (steady \subseteq Listed)'
<1> SUFFICES ASSUME Core, steady \subseteq Listed, [Next]_vars, Core', Shows'
             PROVE  steady' \subseteq Listed
  OBVIOUS
<1>1. CASE UNCHANGED vars
  BY <1>1 DEF vars
<1>2. CASE ~exposed /\ (Caller \/ Kernel \/ Sync \/ Crash) /\ Watch
  <2>1. steady' = IF ~list'.on THEN {}
                  ELSE IF list.on THEN steady \cap ListedIn(list.dir)'
                  ELSE ListedIn(list.dir)'
    BY <1>2 DEF Watch
  <2>2. list'.dir \in Dirs
    BY DEF Core, WorkOK, WorkIn, ListIn
  <2>3. ListedIn(list.dir)' \subseteq Listed
    BY <2>2 DEF Shows
  <2> QED
    BY <2>1, <2>3
<1>3. CASE Unfollowed
  BY <1>1, <1>3 DEF Unfollowed
<1> QED
  BY <1>1, <1>2, <1>3 DEF Next

\* Junk shows or does not.
LEMMA NextExposed == exposed \in BOOLEAN /\ [Next]_vars => (exposed \in BOOLEAN)'
BY DEF Next, Watch, Unfollowed, vars

\* What the invariant says of each variable.
LEMMA TypesAre == Types => TypeOK
<1> SUFFICES ASSUME Types PROVE TypeOK
  OBVIOUS
<1>1. /\ fat \in [Clusters -> Links] /\ fat_dur \in [Clusters -> Links]
      /\ slots \in [Sectors -> [Places -> Slots]] /\ buf \in [Places -> Slots]
      /\ ok \in BOOLEAN /\ steady \subseteq Listed /\ exposed \in BOOLEAN
      /\ CallIn(call, scenario) /\ ListIn(list, scenario) /\ call \in CallRecords
      /\ PosIn(pos, Over(call.at)) /\ call.at \in Steps
  BY WorkFacts DEF Types, Core, StoreOK, WorkOK, WorkIn, Sheets
<1>2. IsPos(pos)
  BY <1>1, OverIs, PosBound
<1>3. IsPos(list.pos) /\ list.on \in BOOLEAN /\ list.dir \in Dirs
  <2>1. PosIn(list.pos, 0) /\ 0 \in 0 .. 2
    BY <1>1 DEF ListIn
  <2> QED
    BY <1>1, <2>1, PosBound DEF ListIn
<1>4. /\ call.op \in scenario.calls \cup {"idle"} /\ call.at \in Steps
      /\ call.dir \in Dirs /\ call.lba \in Sectors /\ call.off \in 0 .. DirEntPerSec
      /\ {call.name, call.other, call.entry.name} \subseteq Listed
      /\ call.new \in {0} \cup Clusters /\ call.entry.clust \in Dirs
  BY <1>1 DEF CallIn, CallRecords, Entries
<1> QED
  BY <1>1, <1>2, <1>3, <1>4 DEF TypeOK

\* Whatever fails and is restarted, until junk shows, where the specification
\* ends (Unfollowed): the iterator stays on a sector of a directory and inside it
\* (_dir_next_sector, dir_read, the scan for room in _file_create), and every call
\* works on names, clusters and offsets there are.
THEOREM TypesAlways == Spec => []TypeOK
<1>1. Spec => []Core
  <2>1. Init => Core
    BY InitTypes DEF Types
  <2> QED
    BY <2>1, NextCore, PTL DEF Spec
<1>2. Core => Shows
  BY ShowsNames DEF Core
<1>3. Init => steady \subseteq Listed /\ exposed \in BOOLEAN
  BY InitTypes DEF Types
<1>4. Core /\ steady \subseteq Listed /\ exposed \in BOOLEAN => TypeOK
  BY TypesAre DEF Types
<1> QED
  BY <1>1, <1>2, <1>3, <1>4, NextSteady, NextExposed, PTL DEF Spec

-----------------------------------------------------------------------------
(* Directories are safe.                                                   *)

\* The slots that name a directory, and the directories they name.
NamesDir(x) == x.kind = "short" /\ x.dir
Slot(sl, at) == sl[at[1]][at[2]]
DirPlaces(sl) == {at \in Sectors \X Places : NamesDir(Slot(sl, at))}
Named(sl) == {Slot(sl, at).clust : at \in DirPlaces(sl)}

\* A FAT whose chains do not meet, nor run into a free cluster.
Chains(f) ==
  /\ \A c \in Clusters : f[c] \in Clusters => f[f[c]] # 0
  /\ \A c, d \in Clusters : f[c] \in Clusters /\ f[c] = f[d] => c = d

\* The first cluster of a chain.
First(f, c) == c \in Clusters /\ f[c] # 0 /\ \A d \in Clusters : f[d] # c

\* Each directory has one name, and its first cluster is kept, also on the
\* disk.  new: a directory about to be named.
Volumes(sl, f, g, new) ==
  /\ Chains(f) /\ Chains(g)
  /\ \A c \in Named(sl) \cup new : First(f, c) /\ First(g, c)
  /\ \A c \in Named(sl) : sl[<<c, 0>>][0] = Dot
  /\ \A at, to \in DirPlaces(sl) : Slot(sl, at).clust = Slot(sl, to).clust => at = to
  /\ new \cap Named(sl) = {}
  /\ \A l \in Sectors, i \in Places :
       sl[l][i].kind = "short" /\ ~sl[l][i].dir => sl[l][i].clust = 0

Making == {"dots", "clear", "reload", "short"} \cup Placing
NewOf(c) == IF c.op = "mkdir" /\ c.at \in Making THEN {c.entry.clust} ELSE {}

Used(f, c) == c = Root \/ (c \in Clusters /\ f[c] # 0)

\* A scan in a directory there is has in the buffer the sector it is on.
Searching(c, p, b, sl, f) ==
  c.at \in {"scan", "scanto", "empty"} /\ c.op \notin {"idle", "list"} =>
    /\ Used(f, p.clust) /\ Used(f, c.dir)
    /\ p.sect = -1 => p.eleft = 0
    /\ p.sect # -1 => /\ p.lba[1] = p.clust /\ b = sl[p.lba]
                      /\ p.eleft = DirEntPerSec - p.eptr

\* Which calls take which steps, and whether their entry is a directory's.
Kinds(c) ==
  /\ c.at \in {"alloc", "dots", "clear"} => c.op = "mkdir"
  /\ c.at \in {"short"} \cup Placing => c.op \in {"create", "mkdir", "rename"}
  /\ c.at = "reload" => c.op \in {"mkdir", "rmdir", "rename"}
  /\ c.at = "mark" => c.op \in {"delete", "rmdir", "rename"}
  /\ c.at = "restore" => c.op = "list"
  /\ c.at = "scanto" => c.op = "rename"
  /\ c.at = "empty" => c.op = "rmdir"
  /\ c.op = "create" \/ (c.op = "rename" /\ c.at # "scan")
       => ~c.entry.dir /\ c.entry.clust = 0
  /\ c.op = "mkdir" /\ c.at \in Making => c.entry.dir

\* The sector at hand is no first sector of a directory, or off is behind
\* the "." in it.
Behind(c, p, sl, off) ==
  \A d \in Named(sl) \cup NewOf(c) : p.lba = <<d, 0>> => off >= 1

\* Where a new entry may go.
Room(c, p, b, sl, f) ==
  /\ c.at \in {"alloc", "dots", "clear", "short", "fill"}
       \/ (c.at = "reload" /\ c.op = "mkdir")
       => Behind(c, p, sl, p.eptr) /\ p.sect # -1
  /\ c.at = "alloc" => Used(f, p.lba[1])
  /\ c.at = "next" => p.sect # -1
  /\ c.at \in {"short", "fill"} => b = sl[p.lba]
  /\ c.at = "insert" => \/ b = sl[p.lba] /\ Behind(c, p, sl, c.off)
                        \/ b = Filled(End) /\ Behind(c, p, sl, 0)

\* A cluster that a call has allocated.
Fresh(c, p, sl, f) ==
  /\ c.at \in {"dots", "clear"} => c.new = c.entry.clust
  /\ c.at \in {"clear", "wipe"} => c.n >= 1
  /\ c.at # "dots" => \A d \in NewOf(c) : sl[<<d, 0>>][0] = Dot
  /\ c.at = "link" => First(f, c.new)
  /\ c.at \in {"link", "wipe"} => c.new \notin Named(sl) \cup NewOf(c)
  /\ c.at = "wipe" => p.lba = <<c.new, 0>>

\* An entry that is changed or removed, and the clusters that go with it.
Removing(c, p, b, sl, f) ==
  /\ c.at \in {"store", "mark"} => b = sl[p.lba]
  /\ c.op = "rmdir" /\ c.at \in {"empty", "reload", "mark"}
       => /\ <<c.lba, c.entry.off>> \in DirPlaces(sl)
          /\ Slot(sl, <<c.lba, c.entry.off>>).clust = c.entry.clust
  /\ c.op = "rmdir" /\ c.at \in {"reload", "mark"} => p.lba = c.lba
  /\ c.op = "delete" /\ c.at = "mark"
       => b[c.entry.off].kind = "short" /\ c.entry.clust = 0
  /\ c.at = "free" => First(f, c.new) /\ c.new \notin Named(sl)

Progress(c, p, b, sl, f) ==
  /\ Searching(c, p, b, sl, f) /\ Kinds(c) /\ Room(c, p, b, sl, f)
  /\ Fresh(c, p, sl, f) /\ Removing(c, p, b, sl, f)

DirInv == /\ Volumes(slots, fat, fat_dur, NewOf(call))
          /\ Progress(call, pos, buf, slots, fat)
          /\ "mkdir" \notin scenario.calls => Named(slots) = {}

\* No read has failed, and no directory is renamed.
Calm == faults.read = 0 /\ ~({"mkdir", "rename"} \subseteq scenario.calls)

\* A cluster is marked used.
LEMMA AllocKeeps ==
  ASSUME NEW f \in [Clusters -> Links], Chains(f), NEW c \in Clusters, f[c] = 0
  PROVE  /\ Chains([f EXCEPT ![c] = Eoc])
         /\ First([f EXCEPT ![c] = Eoc], c)
         /\ \A x : First(f, x) => First([f EXCEPT ![c] = Eoc], x) /\ x # c
<1> DEFINE h == [f EXCEPT ![c] = Eoc]
<1>1. /\ h[c] = Eoc /\ \A d \in Clusters : d # c => h[d] = f[d]
      /\ Eoc \notin Clusters /\ Eoc # 0 /\ 0 \notin Clusters
  BY Places0 DEF Eoc, Root
<1>2. \A d \in Clusters : f[d] # c
  BY DEF Chains
<1> HIDE DEF h
<1>3. \A d \in Clusters : h[d] # c
  BY <1>1, <1>2
<1>4. \A d \in Clusters : h[d] \in Clusters => h[h[d]] # 0
  BY <1>1, <1>3 DEF Chains
<1>5. \A d, e \in Clusters : h[d] \in Clusters /\ h[d] = h[e] => d = e
  BY <1>1 DEF Chains
<1>6. Chains(h)
  BY <1>4, <1>5 DEF Chains
<1>7. First(h, c)
  BY <1>1, <1>3 DEF First
<1>8. ASSUME NEW x, First(f, x) PROVE First(h, x) /\ x # c
  BY <1>1, <1>8 DEF First
<1> QED
  BY <1>6, <1>7, <1>8 DEF h

\* A new chain is linked in.
LEMMA LinkKeeps ==
  ASSUME NEW f \in [Clusters -> Links], Chains(f), NEW p, NEW n, First(f, n)
  PROVE  /\ Chains([f EXCEPT ![p] = n])
         /\ \A x : First(f, x) /\ x # n => First([f EXCEPT ![p] = n], x)
<1> DEFINE h == [f EXCEPT ![p] = n]
<1>1. /\ \A d \in Clusters : IF d = p THEN h[d] = n ELSE h[d] = f[d]
      /\ n \in Clusters /\ f[n] # 0 /\ (\A d \in Clusters : f[d] # n)
      /\ 0 \notin Clusters
  BY Places0 DEF First, Root
<1> HIDE DEF h
<1>2. h[n] # 0
  BY <1>1
<1>3. \A d \in Clusters : h[d] \in Clusters => h[h[d]] # 0
  <2> SUFFICES ASSUME NEW d \in Clusters, h[d] \in Clusters, h[h[d]] = 0 PROVE FALSE
    OBVIOUS
  <2>1. d # p
    BY <1>1, <1>2
  <2>2. h[d] = f[d] /\ f[f[d]] # 0
    BY <1>1, <2>1 DEF Chains
  <2> QED
    BY <1>1, <2>2
<1>4. \A d, e \in Clusters : h[d] \in Clusters /\ h[d] = h[e] => d = e
  BY <1>1 DEF Chains
<1>5. ASSUME NEW x, First(f, x), x # n PROVE First(h, x)
  BY <1>1, <1>5 DEF First
<1> QED
  BY <1>3, <1>4, <1>5 DEF h, Chains

\* The first cluster of a chain is freed.
LEMMA FreeKeeps ==
  ASSUME NEW f \in [Clusters -> Links], Chains(f), NEW n, First(f, n)
  PROVE  /\ Chains([f EXCEPT ![n] = 0])
         /\ \A x : First(f, x) /\ x # n => First([f EXCEPT ![n] = 0], x)
         /\ f[n] \in Clusters => /\ First([f EXCEPT ![n] = 0], f[n])
                                 /\ ~First(f, f[n])
<1> DEFINE h == [f EXCEPT ![n] = 0]
<1>1. /\ \A d \in Clusters : IF d = n THEN h[d] = 0 ELSE h[d] = f[d]
      /\ n \in Clusters /\ f[n] # 0 /\ (\A d \in Clusters : f[d] # n)
      /\ 0 \notin Clusters
  BY Places0 DEF First, Root
<1> HIDE DEF h
<1>2. \A d \in Clusters : h[d] \in Clusters => h[h[d]] # 0
  BY <1>1 DEF Chains
<1>3. \A d, e \in Clusters : h[d] \in Clusters /\ h[d] = h[e] => d = e
  BY <1>1 DEF Chains
<1>4. ASSUME NEW x, First(f, x), x # n PROVE First(h, x)
  BY <1>1, <1>4 DEF First
<1>5. ASSUME f[n] \in Clusters PROVE First(h, f[n]) /\ ~First(f, f[n])
  BY <1>1, <1>5 DEF First, Chains
<1> QED
  BY <1>2, <1>3, <1>4, <1>5 DEF h, Chains

\* No new directories: what a sector keeps of those it names.
Keeps(old, b) ==
  \A i \in Places : /\ NamesDir(b[i]) => NamesDir(old[i]) /\ b[i].clust = old[i].clust
                    /\ b[i].kind = "short" /\ ~b[i].dir => b[i].clust = 0

\* Sectors change and name no new directory.
LEMMA FewerNamed ==
  ASSUME NEW sl, NEW sm, \A l \in Sectors : Keeps(sl[l], sm[l])
  PROVE  /\ DirPlaces(sm) \subseteq DirPlaces(sl) /\ Named(sm) \subseteq Named(sl)
         /\ \A at \in DirPlaces(sm) : Slot(sm, at).clust = Slot(sl, at).clust
<1>1. ASSUME NEW at \in DirPlaces(sm)
      PROVE  at \in DirPlaces(sl) /\ Slot(sm, at).clust = Slot(sl, at).clust
  <2>1. at \in Sectors \X Places /\ at[1] \in Sectors /\ at[2] \in Places
        /\ NamesDir(Slot(sm, at))
    BY DEF DirPlaces
  <2>2. Keeps(sl[at[1]], sm[at[1]])
    BY <2>1
  <2> QED
    BY <2>1, <2>2 DEF DirPlaces, Slot, Keeps
<1>2. Named(sm) \subseteq Named(sl)
  BY <1>1 DEF Named
<1> QED
  BY <1>1, <1>2

\* So directories are as safe as they were.
LEMMA FewerSafe ==
  ASSUME NEW sl, NEW sm, NEW f, NEW g, NEW new, Volumes(sl, f, g, new),
         \A l \in Sectors : Keeps(sl[l], sm[l]),
         \A c \in Named(sm) : sm[<<c, 0>>][0] = sl[<<c, 0>>][0] \/ sm[<<c, 0>>][0] = Dot
  PROVE  Volumes(sm, f, g, new)
<1>1. /\ DirPlaces(sm) \subseteq DirPlaces(sl) /\ Named(sm) \subseteq Named(sl)
      /\ \A at \in DirPlaces(sm) : Slot(sm, at).clust = Slot(sl, at).clust
  BY FewerNamed
<1>2. /\ Chains(f) /\ Chains(g)
      /\ \A c \in Named(sm) \cup new : First(f, c) /\ First(g, c)
      /\ new \cap Named(sm) = {}
  BY <1>1 DEF Volumes
<1>3. \A c \in Named(sm) : sm[<<c, 0>>][0] = Dot
  BY <1>1 DEF Volumes
<1>4. \A at, to \in DirPlaces(sm) : Slot(sm, at).clust = Slot(sm, to).clust => at = to
  <2> SUFFICES ASSUME NEW at \in DirPlaces(sm), NEW to \in DirPlaces(sm),
                      Slot(sm, at).clust = Slot(sm, to).clust
               PROVE  at = to
    OBVIOUS
  <2>1. /\ at \in DirPlaces(sl) /\ to \in DirPlaces(sl)
        /\ Slot(sl, at).clust = Slot(sl, to).clust
    BY <1>1
  <2> QED
    BY <2>1 DEF Volumes
<1>5. \A l \in Sectors, i \in Places :
        sm[l][i].kind = "short" /\ ~sm[l][i].dir => sm[l][i].clust = 0
  <2> SUFFICES ASSUME NEW l \in Sectors, NEW i \in Places
               PROVE  sm[l][i].kind = "short" /\ ~sm[l][i].dir => sm[l][i].clust = 0
    OBVIOUS
  <2>1. Keeps(sl[l], sm[l])
    OBVIOUS
  <2> QED
    BY <2>1 DEF Keeps
<1> QED
  BY <1>2, <1>3, <1>4, <1>5 DEF Volumes

\* A sector is written that names no new directory.
LEMMA WriteSafe ==
  ASSUME NEW sl \in [Sectors -> Sheets], NEW l \in Sectors, NEW b,
         NEW f, NEW g, NEW new, Volumes(sl, f, g, new), Keeps(sl[l], b),
         \A c \in Named(sl) : l = <<c, 0>> => b[0] = Dot
  PROVE  /\ Volumes([sl EXCEPT ![l] = b], f, g, new)
         /\ Named([sl EXCEPT ![l] = b]) \subseteq Named(sl)
         /\ DirPlaces([sl EXCEPT ![l] = b]) \subseteq DirPlaces(sl)
         /\ \A at \in DirPlaces([sl EXCEPT ![l] = b]) :
              Slot([sl EXCEPT ![l] = b], at).clust = Slot(sl, at).clust
<1> DEFINE sm == [sl EXCEPT ![l] = b]
<1>1. \A m \in Sectors : Keeps(sl[m], sl[m])
  BY DEF Keeps, Volumes
<1>2. \A m \in Sectors : sm[m] = IF m = l THEN b ELSE sl[m]
  OBVIOUS
<1> HIDE DEF sm
<1>3. \A m \in Sectors : Keeps(sl[m], sm[m])
  BY <1>1, <1>2
<1>4. /\ Named(sm) \subseteq Named(sl) /\ DirPlaces(sm) \subseteq DirPlaces(sl)
      /\ \A at \in DirPlaces(sm) : Slot(sm, at).clust = Slot(sl, at).clust
  BY <1>3, FewerNamed
<1>5. \A c \in Named(sm) : <<c, 0>> \in Sectors
  <2> SUFFICES ASSUME NEW c \in Named(sm) PROVE <<c, 0>> \in Sectors
    OBVIOUS
  <2>1. c \in Clusters
    BY <1>4 DEF Volumes, First
  <2> QED
    BY <2>1, SectorIs, Places0
<1>6. \A c \in Named(sm) : sm[<<c, 0>>][0] = sl[<<c, 0>>][0] \/ sm[<<c, 0>>][0] = Dot
  BY <1>2, <1>4, <1>5
<1>7. Volumes(sm, f, g, new)
  BY <1>3, <1>6, FewerSafe
<1> QED
  BY <1>4, <1>7 DEF sm

\* An entry is written, which may name the new directory.
LEMMA InsertSafe ==
  ASSUME NEW sl \in [Sectors -> Sheets], NEW l \in Sectors, NEW b, NEW o,
         NEW f, NEW g, NEW new, Volumes(sl, f, g, new),
         \A i \in Places : /\ NamesDir(b[i]) => \/ i = o /\ b[i].clust \in new
                                                \/ /\ NamesDir(sl[l][i])
                                                   /\ b[i].clust = sl[l][i].clust
                           /\ b[i].kind = "short" /\ ~b[i].dir => b[i].clust = 0,
         \A c \in Named(sl) \cup new : l = <<c, 0>> => b[0] = Dot,
         \A c \in new : sl[<<c, 0>>][0] = Dot
  PROVE  /\ Volumes([sl EXCEPT ![l] = b], f, g, {})
         /\ Named([sl EXCEPT ![l] = b]) \subseteq Named(sl) \cup new
<1> DEFINE sm == [sl EXCEPT ![l] = b]
<1>2. \A m \in Sectors : sm[m] = IF m = l THEN b ELSE sl[m]
  OBVIOUS
<1> HIDE DEF sm
<1>3. ASSUME NEW at \in DirPlaces(sm)
      PROVE  \/ at = <<l, o>> /\ Slot(sm, at).clust \in new
             \/ at \in DirPlaces(sl) /\ Slot(sm, at).clust = Slot(sl, at).clust
  <2>1. /\ at \in Sectors \X Places /\ at[1] \in Sectors /\ at[2] \in Places
        /\ at = <<at[1], at[2]>> /\ NamesDir(sm[at[1]][at[2]])
    BY DEF DirPlaces, Slot
  <2>2. CASE at[1] = l
    BY <1>2, <2>1, <2>2 DEF DirPlaces, Slot
  <2>3. CASE at[1] # l
    BY <1>2, <2>1, <2>3 DEF DirPlaces, Slot
  <2> QED
    BY <2>2, <2>3
<1>4. Named(sm) \subseteq Named(sl) \cup new
  BY <1>3 DEF Named
<1>5. \A c \in Named(sm) : First(f, c) /\ First(g, c)
  BY <1>4 DEF Volumes
<1>6. \A c \in Named(sm) : sm[<<c, 0>>][0] = Dot
  <2> SUFFICES ASSUME NEW c \in Named(sm) PROVE sm[<<c, 0>>][0] = Dot
    OBVIOUS
  <2>1. c \in Clusters
    BY <1>5 DEF First
  <2>2. <<c, 0>> \in Sectors
    BY <2>1, SectorIs, Places0
  <2> QED
    BY <1>2, <1>4, <2>2 DEF Volumes
<1>7. \A at, to \in DirPlaces(sm) : Slot(sm, at).clust = Slot(sm, to).clust => at = to
  <2> SUFFICES ASSUME NEW at \in DirPlaces(sm), NEW to \in DirPlaces(sm),
                      Slot(sm, at).clust = Slot(sm, to).clust
               PROVE  at = to
    OBVIOUS
  <2>1. \A x \in DirPlaces(sl) : Slot(sl, x).clust \in Named(sl)
    BY DEF Named
  <2>2. new \cap Named(sl) = {}
    BY DEF Volumes
  <2>3. CASE at \in DirPlaces(sl) /\ Slot(sm, at).clust = Slot(sl, at).clust
    <3>1. to \in DirPlaces(sl) /\ Slot(sm, to).clust = Slot(sl, to).clust
      BY <1>3, <2>1, <2>2, <2>3
    <3> QED
      BY <2>3, <3>1 DEF Volumes
  <2>4. CASE at = <<l, o>> /\ Slot(sm, at).clust \in new
    BY <1>3, <2>1, <2>2, <2>4
  <2> QED
    BY <1>3, <2>3, <2>4
<1>8. \A m \in Sectors, i \in Places :
        sm[m][i].kind = "short" /\ ~sm[m][i].dir => sm[m][i].clust = 0
  BY <1>2 DEF Volumes
<1> QED
  BY <1>4, <1>5, <1>6, <1>7, <1>8 DEF sm, Volumes

\* Two chains never meet.
LEMMA DirsApart ==
  ASSUME NEW t, Chains(t), NEW c, First(t, c), NEW d, First(t, d),
         NEW i \in Nat, NEW j \in Nat,
         Nth(t, c, i) = Nth(t, d, j), Nth(t, c, i) \in Clusters
  PROVE  c = d
<1> DEFINE Bad == {k \in Nat : \E l \in Nat :
                     /\ Nth(t, c, k) = Nth(t, d, l) /\ Nth(t, c, k) \in Clusters}
<1> SUFFICES ASSUME c # d PROVE FALSE
  OBVIOUS
<1>1. PICK k \in Bad : \A y \in Bad : k <= y
  <2>1. Bad \in SUBSET Nat /\ Bad # {}
    OBVIOUS
  <2> HIDE DEF Bad
  <2> QED
    BY <2>1, Least
<1>2. PICK l \in Nat : Nth(t, c, k) = Nth(t, d, l) /\ Nth(t, c, k) \in Clusters
  OBVIOUS
<1>3. k # 0
  <2> SUFFICES ASSUME k = 0 PROVE FALSE
    OBVIOUS
  <2>1. Nth(t, c, k) = c
    BY NthStep
  <2>2. l # 0
    <3>1. Nth(t, d, 0) = d
      BY NthStep
    <3> QED
      BY <1>2, <2>1, <3>1
  <2>3. l - 1 \in Nat /\ (l - 1) + 1 = l
    BY <2>2
  <2>4. Nth(t, d, l - 1) \in Clusters /\ t[Nth(t, d, l - 1)] = Nth(t, d, l)
    BY <1>2, <2>3, NthNext
  <2> QED
    BY <1>2, <2>1, <2>4 DEF First
<1>4. k - 1 \in Nat /\ (k - 1) + 1 = k /\ ~(k <= k - 1)
  BY <1>3
<1>5. Nth(t, c, k - 1) \in Clusters /\ t[Nth(t, c, k - 1)] = Nth(t, c, k)
  BY <1>2, <1>4, NthNext
<1>6. l # 0
  <2> SUFFICES ASSUME l = 0 PROVE FALSE
    OBVIOUS
  <2>1. Nth(t, d, l) = d
    BY NthStep
  <2> QED
    BY <1>2, <1>5, <2>1 DEF First
<1>7. l - 1 \in Nat /\ (l - 1) + 1 = l
  BY <1>6
<1>8. Nth(t, d, l - 1) \in Clusters /\ t[Nth(t, d, l - 1)] = Nth(t, d, l)
  BY <1>2, <1>7, NthNext
<1>9. Nth(t, c, k - 1) = Nth(t, d, l - 1)
  BY <1>2, <1>5, <1>8 DEF Chains
<1>10. k - 1 \in Bad
  BY <1>4, <1>5, <1>7, <1>9
<1> QED
  BY <1>1, <1>4, <1>10

\* A subdirectory is named at a place of its directory.
LEMMA SubdirAt ==
  ASSUME StoreOK, NEW d \in Dirs, NEW c \in Subdirs(d)
  PROVE  \E k \in Reached(d), i \in Places :
           /\ <<SectorOf(d, k), i>> \in DirPlaces(slots)
           /\ Slot(slots, <<SectorOf(d, k), i>>).clust = c
<1>1. PICK k \in Reached(d), i \in Places :
        /\ SectorOf(d, k) \in Sectors
        /\ slots[SectorOf(d, k)][i].kind = "short"
        /\ slots[SectorOf(d, k)][i].dir
        /\ slots[SectorOf(d, k)][i].clust = c
  BY SubdirIs
<1>2. <<SectorOf(d, k), i>>[1] = SectorOf(d, k) /\ <<SectorOf(d, k), i>>[2] = i
  OBVIOUS
<1> HIDE DEF SectorOf
<1>3. <<SectorOf(d, k), i>> \in DirPlaces(slots)
  BY <1>1, <1>2 DEF DirPlaces, Slot, NamesDir
<1> QED
  BY <1>1, <1>2, <1>3 DEF Slot

\* The directories a path leads to have names, but for the root.
LEMMA LiveNamed ==
  ASSUME StoreOK, NEW new, Volumes(slots, fat, fat_dur, new)
  PROVE  LiveDirs \subseteq {Root} \cup Named(slots)
<1>1. Named(slots) \subseteq Dirs
  BY Places0 DEF Volumes, First
<1>2. \A d \in {Root} \cup Named(slots) : Subdirs(d) \subseteq Named(slots)
  <2> SUFFICES ASSUME NEW d \in {Root} \cup Named(slots), NEW c \in Subdirs(d)
               PROVE  c \in Named(slots)
    OBVIOUS
  <2>1. d \in Dirs
    BY <1>1, Places0
  <2>2. PICK k \in Reached(d), i \in Places :
          /\ <<SectorOf(d, k), i>> \in DirPlaces(slots)
          /\ Slot(slots, <<SectorOf(d, k), i>>).clust = c
    BY <2>1, SubdirAt
  <2> QED
    BY <2>2 DEF Named
<1> DEFINE S == {Root} \cup Named(slots)
<1>3. Root \in S /\ \A d \in S : Subdirs(d) \subseteq S
  BY <1>2
<1> HIDE DEF S
<1>4. LiveDirs \subseteq S
  BY <1>3, LiveIn
<1> QED
  BY <1>4 DEF S

\* No sector belongs to two directories.
LEMMA SectorsApart ==
  ASSUME StoreOK, NEW new, Volumes(slots, fat, fat_dur, new),
         NEW c \in {Root} \cup Named(slots), NEW d \in {Root} \cup Named(slots),
         NEW k \in Reached(c), NEW m \in Reached(d), SectorOf(c, k) = SectorOf(d, m)
  PROVE  c = d
<1>1. /\ c \in Dirs /\ d \in Dirs
      /\ c # Root => First(fat, c)
      /\ d # Root => First(fat, d)
  BY Places0 DEF Volumes, First
<1>2. k \in 0 .. SectorCount(c) - 1 /\ m \in 0 .. SectorCount(d) - 1
  BY DEF Reached
<1>3. /\ c # Root => k \div Spc \in Nat /\ Nth(fat, c, k \div Spc) \in Clusters
      /\ d # Root => m \div Spc \in Nat /\ Nth(fat, d, m \div Spc) \in Clusters
  <2>1. c # Root => k \div Spc \in Nat /\ Nth(fat, c, k \div Spc) \in Clusters
    BY <1>1, <1>2, SectorAtIs
  <2>2. d # Root => m \div Spc \in Nat /\ Nth(fat, d, m \div Spc) \in Clusters
    BY <1>1, <1>2, SectorAtIs
  <2> QED
    BY <2>1, <2>2
<1>4. CASE c # Root /\ d # Root
  <2> DEFINE i == k \div Spc
             j == m \div Spc
  <2>1. Nth(fat, c, i) = Nth(fat, d, j)
    BY <1>4 DEF SectorOf
  <2>2. i \in Nat /\ j \in Nat /\ Nth(fat, c, i) \in Clusters
    BY <1>3, <1>4
  <2>3. Chains(fat) /\ First(fat, c) /\ First(fat, d)
    BY <1>1, <1>4 DEF Volumes
  <2> HIDE DEF i, j
  <2> QED
    BY <2>1, <2>2, <2>3, DirsApart
<1>5. CASE c = Root /\ d # Root
  <2>1. Nth(fat, d, m \div Spc) = Root
    BY <1>5 DEF SectorOf
  <2> QED
    BY <1>3, <1>5, <2>1, Places0
<1>6. CASE c # Root /\ d = Root
  <2>1. Nth(fat, c, k \div Spc) = Root
    BY <1>6 DEF SectorOf
  <2> QED
    BY <1>3, <1>6, <2>1, Places0
<1> QED
  BY <1>4, <1>5, <1>6

\* Volumes is what DirsSafe asks for.
LEMMA SafeNow ==
  ASSUME StoreOK, NEW new, Volumes(slots, fat, fat_dur, new)
  PROVE  DirsSafe
<1>1. LiveDirs \subseteq {Root} \cup Named(slots) /\ LiveDirs \subseteq Dirs
  BY LiveNamed, LiveAreDirs
<1>2. ASSUME NEW c \in LiveDirs \ {Root}
      PROVE  /\ slots[<<c, 0>>][0] = Dot
             /\ fat_dur[c] # 0 /\ \A d \in Clusters : fat_dur[d] # c
  <2>1. c \in Named(slots)
    BY <1>1
  <2> QED
    BY <2>1 DEF Volumes, First
<1>3. ASSUME NEW c \in LiveDirs, NEW d \in LiveDirs, c # d,
             NEW e \in Subdirs(c), e \in Subdirs(d)
      PROVE  FALSE
  <2>0. /\ c \in Dirs /\ d \in Dirs
        /\ c \in {Root} \cup Named(slots) /\ d \in {Root} \cup Named(slots)
    BY <1>1
  <2>1. PICK k \in Reached(c), i \in Places :
          /\ <<SectorOf(c, k), i>> \in DirPlaces(slots)
          /\ Slot(slots, <<SectorOf(c, k), i>>).clust = e
    BY <2>0, SubdirAt
  <2>2. PICK m \in Reached(d), j \in Places :
          /\ <<SectorOf(d, m), j>> \in DirPlaces(slots)
          /\ Slot(slots, <<SectorOf(d, m), j>>).clust = e
    BY <1>3, <2>0, SubdirAt
  <2>3. <<SectorOf(c, k), i>> = <<SectorOf(d, m), j>>
    BY <2>1, <2>2 DEF Volumes
  <2> HIDE DEF SectorOf
  <2>4. SectorOf(c, k) = SectorOf(d, m)
    BY <2>3
  <2> QED
    BY <1>3, <2>0, <2>4, SectorsApart
<1>4. ASSUME NEW d \in LiveDirs, NEW e \in Listing(d), NEW x \in Listing(d),
             e.dir, x.dir, e.clust = x.clust
      PROVE  e.name = x.name
  <2>0. d \in Dirs
    BY <1>1
  <2>1. \A y \in Listing(d) : y.dir => \E k \in Reached(d), i \in Places :
          /\ y.name = NameOf(SectorAt(d, k)[i], LfnAt(SectorAt(d, k), 0, NoLfn, i))
          /\ SectorAt(d, k) = slots[SectorOf(d, k)]
          /\ <<SectorOf(d, k), i>> \in DirPlaces(slots)
          /\ Slot(slots, <<SectorOf(d, k), i>>).clust = y.clust
    <3> SUFFICES ASSUME NEW k \in Reached(d),
                        NEW y \in EntriesOf(SectorAt(d, k), 0, NoLfn), y.dir
                 PROVE  \E i \in Places :
                   /\ y.name = NameOf(SectorAt(d, k)[i], LfnAt(SectorAt(d, k), 0, NoLfn, i))
                   /\ SectorAt(d, k) = slots[SectorOf(d, k)]
                   /\ <<SectorOf(d, k), i>> \in DirPlaces(slots)
                   /\ Slot(slots, <<SectorOf(d, k), i>>).clust = y.clust
      BY DEF Listing
    <3> DEFINE b == SectorAt(d, k)
               l == SectorOf(d, k)
    <3>1. PICK i \in Shortly(b, 0) :
            y = [off |-> i, name |-> NameOf(b[i], LfnAt(b, 0, NoLfn, i)),
                 dir |-> b[i].dir, ro |-> b[i].ro, clust |-> b[i].clust]
      BY DEF EntriesOf
    <3>2. i \in Places
      BY Places0 DEF Shortly, Places
    <3>3. l \in Sectors /\ b = slots[l] /\ b[i].kind = "short"
      BY <2>0, <3>1, <3>2, ShortIs
    <3> HIDE DEF b, l
    <3>4. /\ y.name = NameOf(b[i], LfnAt(b, 0, NoLfn, i)) /\ b[i].dir
          /\ y.clust = b[i].clust
      BY <3>1
    <3>5. <<l, i>>[1] = l /\ <<l, i>>[2] = i
      OBVIOUS
    <3>6. <<l, i>> \in DirPlaces(slots) /\ Slot(slots, <<l, i>>).clust = y.clust
      BY <3>2, <3>3, <3>4, <3>5 DEF DirPlaces, Slot, NamesDir
    <3> QED
      BY <3>2, <3>3, <3>4, <3>6 DEF b, l
  <2>2. PICK k \in Reached(d), i \in Places :
          /\ e.name = NameOf(SectorAt(d, k)[i], LfnAt(SectorAt(d, k), 0, NoLfn, i))
          /\ SectorAt(d, k) = slots[SectorOf(d, k)]
          /\ <<SectorOf(d, k), i>> \in DirPlaces(slots)
          /\ Slot(slots, <<SectorOf(d, k), i>>).clust = e.clust
    BY <1>4, <2>1
  <2>3. PICK m \in Reached(d), j \in Places :
          /\ x.name = NameOf(SectorAt(d, m)[j], LfnAt(SectorAt(d, m), 0, NoLfn, j))
          /\ SectorAt(d, m) = slots[SectorOf(d, m)]
          /\ <<SectorOf(d, m), j>> \in DirPlaces(slots)
          /\ Slot(slots, <<SectorOf(d, m), j>>).clust = x.clust
    BY <1>4, <2>1
  <2>4. <<SectorOf(d, k), i>> = <<SectorOf(d, m), j>>
    BY <1>4, <2>2, <2>3 DEF Volumes
  <2> HIDE DEF SectorOf
  <2>5. SectorOf(d, k) = SectorOf(d, m) /\ i = j
    BY <2>4
  <2>6. SectorAt(d, k) = SectorAt(d, m)
    BY <2>2, <2>3, <2>5
  <2> HIDE DEF SectorAt
  <2> QED
    BY <2>2, <2>3, <2>5, <2>6
<1> QED
  BY <1>2, <1>3, <1>4 DEF DirsSafe

\* What the sectors that are written keep of those in the buffer.
LEMMA SheetsKeep ==
  ASSUME NEW b \in Sheets, Keeps(b, b)
  PROVE  /\ \A ro \in BOOLEAN : \A o : Keeps(b, [b EXCEPT ![o].ro = ro])
         /\ \A o : Keeps(b, Marked(b, o))
         /\ \A o : Keeps(b, [i \in Places |-> IF i < o THEN b[i] ELSE Deleted])
<1>1. ASSUME NEW ro \in BOOLEAN, NEW o
      PROVE  Keeps(b, [b EXCEPT ![o].ro = ro])
  <2> DEFINE m == [b EXCEPT ![o].ro = ro]
  <2>1. m = [b EXCEPT ![o] = [b[o] EXCEPT !.ro = ro]]
    OBVIOUS
  <2>2. \A i \in Places : m[i] = IF i = o THEN [b[o] EXCEPT !.ro = ro] ELSE b[i]
    BY <2>1 DEF Sheets
  <2>3. [b[o] EXCEPT !.ro = ro].kind = b[o].kind
    OBVIOUS
  <2>4. [b[o] EXCEPT !.ro = ro].dir = b[o].dir
    OBVIOUS
  <2>5. [b[o] EXCEPT !.ro = ro].clust = b[o].clust
    OBVIOUS
  <2> HIDE DEF m
  <2> QED
    BY <2>2, <2>3, <2>4, <2>5 DEF Keeps, NamesDir
<1>2. ASSUME NEW o PROVE Keeps(b, Marked(b, o))
  BY DEF Marked, Keeps, NamesDir, Deleted
<1>3. ASSUME NEW o
      PROVE  Keeps(b, [i \in Places |-> IF i < o THEN b[i] ELSE Deleted])
  BY DEF Keeps, NamesDir, Deleted
<1> QED
  BY <1>1, <1>2, <1>3

\* And the sectors that are cleared.
LEMMA ClearKeeps ==
  ASSUME NEW b
  PROVE  /\ \A x \in {End, Junk} : Keeps(b, Filled(x))
         /\ Keeps(b, [i \in Places |-> IF i < 2 THEN Dot ELSE End])
BY DEF Keeps, Filled, NamesDir, End, Junk, Dot

\* The "." is kept.
LEMMA DotKept ==
  ASSUME NEW b \in Sheets, b[0] = Dot
  PROVE  /\ \A ro \in BOOLEAN : \A o : [b EXCEPT ![o].ro = ro][0] = Dot
         /\ \A o \in Places : b[o].kind = "short" => Marked(b, o)[0] = Dot
         /\ \A o \in Nat : o >= 1 =>
              [i \in Places |-> IF i < o THEN b[i] ELSE Deleted][0] = Dot
<1>0. 0 \in Places /\ Places \subseteq Nat
  BY Places0 DEF Places
<1>1. ASSUME NEW ro \in BOOLEAN, NEW o
      PROVE  [b EXCEPT ![o].ro = ro][0] = Dot
  <2> DEFINE m == [b EXCEPT ![o].ro = ro]
  <2>1. m = [b EXCEPT ![o] = [b[o] EXCEPT !.ro = ro]]
    OBVIOUS
  <2>2. m[0] = IF 0 = o THEN [b[o] EXCEPT !.ro = ro] ELSE b[0]
    BY <1>0, <2>1 DEF Sheets
  <2>3. [Dot EXCEPT !.ro = ro] = Dot
    BY DEF Dot
  <2> HIDE DEF m
  <2> QED
    BY <2>2, <2>3
<1>2. ASSUME NEW o \in Places, b[o].kind = "short"
      PROVE  Marked(b, o)[0] = Dot
  <2>1. o # 0
    BY <1>2 DEF Dot
  <2>2. o \in Nat /\ 0 \in 0 .. o - 1 /\ b[0].kind # "lfn"
    BY <1>0, <2>1 DEF Dot
  <2> QED
    BY <1>0, <2>2 DEF Marked
<1>3. ASSUME NEW o \in Nat, o >= 1
      PROVE  [i \in Places |-> IF i < o THEN b[i] ELSE Deleted][0] = Dot
  BY <1>0, <1>3
<1> QED
  BY <1>1, <1>2, <1>3

\* What is known of the call in progress.
LEMMA DirFacts ==
  ASSUME Core, DirInv
  PROVE  /\ fat \in [Clusters -> Links] /\ fat_dur \in [Clusters -> Links]
         /\ slots \in [Sectors -> Sheets] /\ buf \in Sheets
         /\ call \in CallRecords /\ pos.lba \in Sectors /\ pos.clust \in Dirs
         /\ pos.sect \in Int /\ pos.eptr \in 0 .. DirEntPerSec
         /\ DOMAIN pos = PosFields /\ call.off \in 0 .. DirEntPerSec
         /\ call.entry \in Entries
         /\ Volumes(slots, fat, fat_dur, NewOf(call))
         /\ Progress(call, pos, buf, slots, fat)
         /\ call.op \in scenario.calls \cup {"idle"} /\ CallIn(call, scenario)
BY WorkFacts DEF DirInv, StoreOK, PosIn, CallIn, CallRecords

\* The sectors keep what they name.
LEMMA SelfKept ==
  ASSUME NEW sl, NEW f, NEW g, NEW new, Volumes(sl, f, g, new), NEW l \in Sectors
  PROVE  Keeps(sl[l], sl[l])
BY DEF Volumes, Keeps

\* A step that names no other directory than the one made.
LEMMA NewInv ==
  ASSUME Core, DirInv, scenario' = scenario,
         Named(slots') \subseteq Named(slots) \cup NewOf(call),
         Volumes(slots', fat', fat_dur', NewOf(call')),
         Progress(call', pos', buf', slots', fat')
  PROVE  DirInv'
<1>1. "mkdir" \notin scenario.calls => NewOf(call) = {}
  BY DirFacts DEF NewOf
<1>2. "mkdir" \notin scenario.calls => Named(slots') = {}
  BY <1>1 DEF DirInv
<1> QED
  BY <1>2 DEF DirInv

\* A call that is over.
LEMMA IdleProgress ==
  ASSUME NEW p, NEW b, NEW sl, NEW f
  PROVE  Progress(Idle, p, b, sl, f) /\ NewOf(Idle) = {}
<1>1. NewOf(Idle) = {}
  BY DEF NewOf, Idle
<1>2. /\ Idle.at = "" /\ Idle.op = "idle"
  BY DEF Idle
<1> HIDE DEF Idle
<1>3. Searching(Idle, p, b, sl, f) /\ Kinds(Idle) /\ Room(Idle, p, b, sl, f)
  BY <1>2 DEF Searching, Kinds, Room, Placing, Making
<1>4. Fresh(Idle, p, sl, f) /\ Removing(Idle, p, b, sl, f)
  BY <1>1, <1>2 DEF Fresh, Removing
<1> QED
  BY <1>1, <1>3, <1>4 DEF Progress

\* Nothing is about to be named any more.
LEMMA VolumesLess ==
  ASSUME NEW sl, NEW f, NEW g, NEW new, Volumes(sl, f, g, new)
  PROVE  Volumes(sl, f, g, {})
BY DEF Volumes

\* A call returns.
LEMMA ReturnInv ==
  ASSUME Core, DirInv, scenario' = scenario, call' = Idle,
         Named(slots') \subseteq Named(slots) \cup NewOf(call),
         \E new : Volumes(slots', fat', fat_dur', new)
  PROVE  DirInv'
<1>1. Volumes(slots', fat', fat_dur', {})
  BY VolumesLess
<1> QED
  BY <1>1, IdleProgress, NewInv

\* A call that changes nothing returns.
LEMMA QuietReturn ==
  ASSUME Core, DirInv, scenario' = scenario, call' = Idle,
         UNCHANGED <<fat, fat_dur, slots>>
  PROVE  DirInv'
<1>1. Volumes(slots', fat', fat_dur', NewOf(call))
  BY DEF DirInv
<1> QED
  BY <1>1, ReturnInv

\* A call goes on, with nothing written.
LEMMA QuietInv ==
  ASSUME Core, DirInv, scenario' = scenario,
         UNCHANGED <<fat, fat_dur, slots>>, NewOf(call') \subseteq NewOf(call),
         Searching(call', pos', buf', slots, fat), Kinds(call'),
         Room(call', pos', buf', slots, fat), Fresh(call', pos', slots, fat),
         Removing(call', pos', buf', slots, fat)
  PROVE  DirInv'
<1>1. Volumes(slots', fat', fat_dur', NewOf(call'))
  BY DirFacts DEF Volumes
<1> QED
  BY <1>1, NewInv DEF Progress

\* While it scans, a call has made nothing.
LEMMA ScanStage ==
  ASSUME Core, DirInv, Scanning
  PROVE  /\ NewOf(call) = {} /\ Kinds(call)
         /\ call.op \notin {"idle", "list"} =>
              /\ Used(fat, pos.clust) /\ Used(fat, call.dir)
              /\ pos.sect = -1 => pos.eleft = 0
              /\ pos.sect # -1 => /\ pos.lba[1] = pos.clust /\ buf = slots[pos.lba]
                                  /\ pos.eleft = DirEntPerSec - pos.eptr
         /\ call.op # "idle" /\ call.at \in {"scan", "scanto", "empty"}
<1>1. call.at \in {"scan", "scanto", "empty"}
  BY DEF Scanning
<1>2. NewOf(call) = {}
  BY <1>1 DEF NewOf, Making, Placing
<1>3. call.op # "idle"
  BY <1>1, WorkFacts
<1> QED
  BY <1>1, <1>2, <1>3, DirFacts DEF Progress, Searching

\* It goes on scanning.
LEMMA ScanOn ==
  ASSUME Core, DirInv, Scanning, scenario' = scenario, call' = call,
         UNCHANGED <<fat, fat_dur, slots>>,
         Searching(call, pos', buf', slots, fat)
  PROVE  DirInv'
<1>1. NewOf(call) = {} /\ Kinds(call) /\ call.at \in {"scan", "scanto", "empty"}
  BY ScanStage
<1>2. Room(call, pos', buf', slots, fat)
  BY <1>1 DEF Room
<1>3. Fresh(call, pos', slots, fat)
  BY <1>1 DEF Fresh
<1>4. Removing(call, pos', buf', slots, fat)
  BY <1>1, DirFacts DEF Progress, Removing
<1> QED
  BY <1>1, <1>2, <1>3, <1>4, QuietInv

\* The scan ends without the entry.
LEMMA NotThereInv ==
  ASSUME Core, DirInv, Scanning, scenario' = scenario,
         UNCHANGED <<fat, fat_dur, slots>>,
         call.op # "list" => /\ pos.lba[1] = pos.clust /\ buf = slots[pos.lba],
         \E p : /\ p.lba = pos.lba /\ p.sect # -1
                /\ call.op # "list" =>
                     \A c \in Named(slots) : pos.lba = <<c, 0>> => p.eptr >= 1
                /\ DOMAIN p = PosFields
                /\ NotThere(p, buf)
  PROVE  DirInv'
<1>0. /\ call \in CallRecords /\ Volumes(slots, fat, fat_dur, NewOf(call))
      /\ Progress(call, pos, buf, slots, fat) /\ CallIn(call, scenario)
  BY DirFacts
<1>00. /\ NewOf(call) = {} /\ Kinds(call) /\ call.at \in {"scan", "scanto", "empty"}
       /\ call.op \notin {"idle", "list"} => Used(fat, pos.clust)
       /\ call.op # "idle"
  BY ScanStage
<1>1. PICK p : /\ p.lba = pos.lba /\ p.sect # -1
               /\ call.op # "list" =>
                    \A c \in Named(slots) : pos.lba = <<c, 0>> => p.eptr >= 1
               /\ DOMAIN p = PosFields
               /\ NotThere(p, buf)
  OBVIOUS
<1>2. CASE call' = Idle
  BY <1>2, QuietReturn
<1>3. CASE Adding /\ Goto(IF call.op = "mkdir" THEN "alloc" ELSE "short")
           /\ pos' = p /\ buf' = buf
  <2> DEFINE place == IF call.op = "mkdir" THEN "alloc" ELSE "short"
  <2>1. call' = [call EXCEPT !.at = place]
    BY <1>3 DEF Goto
  <2>2. place \in {"alloc", "short"} /\ (place = "alloc" <=> call.op = "mkdir")
    OBVIOUS
  <2> HIDE DEF place
  <2>3. /\ call'.at = place /\ call'.op = call.op /\ call'.entry = call.entry
        /\ call'.dir = call.dir /\ call'.n = call.n /\ call'.new = call.new
        /\ call'.lba = call.lba /\ call'.off = call.off
    BY <1>0, <2>1 DEF CallRecords
  <2>4. call.op \in {"create", "mkdir", "rename"}
    BY <1>3, <1>00 DEF Adding, Kinds
  <2>5. NewOf(call') = {}
    BY <2>2, <2>3 DEF NewOf, Making, Placing
  <2>6. Kinds(call')
    <3>1. call.op = "rename" => call.at # "scan"
      BY <1>3, <1>00 DEF Adding, Kinds
    <3> QED
      BY <1>00, <2>2, <2>3, <2>4, <3>1 DEF Kinds, Making, Placing
  <2>7. Searching(call', pos', buf', slots, fat)
    BY <2>2, <2>3 DEF Searching
  <2>8. Room(call', pos', buf', slots, fat)
    <3>1. Behind(call', pos', slots, pos'.eptr) /\ pos'.sect # -1
      BY <1>1, <1>3, <2>4, <2>5 DEF Behind
    <3>2. buf' = slots[pos'.lba] /\ Used(fat, pos'.lba[1])
      BY <1>1, <1>3, <1>00, <2>4
    <3> QED
      BY <2>2, <2>3, <3>1, <3>2 DEF Room
  <2>9. Fresh(call', pos', slots, fat)
    BY <2>2, <2>3, <2>5 DEF Fresh
  <2>10. Removing(call', pos', buf', slots, fat)
    BY <2>2, <2>3 DEF Removing
  <2> QED
    BY <2>5, <2>6, <2>7, <2>8, <2>9, <2>10, QuietInv
<1>4. CASE call.at = "empty" /\ Goto("reload")
           /\ pos' = [p EXCEPT !.lba = call.lba] /\ buf' = buf
  <2>1. call' = [call EXCEPT !.at = "reload"] /\ pos'.lba = call.lba
    BY <1>1, <1>4 DEF Goto, PosFields
  <2>2. /\ call'.at = "reload" /\ call'.op = call.op /\ call'.entry = call.entry
        /\ call'.lba = call.lba
    BY <1>0, <2>1 DEF CallRecords
  <2>3. call.op = "rmdir"
    BY <1>4, <1>00 DEF Kinds
  <2>4. NewOf(call') = {}
    BY <2>2, <2>3 DEF NewOf
  <2>5. Kinds(call')
    BY <2>2, <2>3 DEF Kinds, Making, Placing
  <2>6. Searching(call', pos', buf', slots, fat)
    BY <2>2 DEF Searching
  <2>7. Room(call', pos', buf', slots, fat)
    BY <2>2, <2>3 DEF Room
  <2>8. Fresh(call', pos', slots, fat)
    BY <2>2, <2>4 DEF Fresh
  <2>9. Removing(call', pos', buf', slots, fat)
    BY <1>0, <1>4, <2>1, <2>2, <2>3 DEF Progress, Removing
  <2> QED
    BY <2>4, <2>5, <2>6, <2>7, <2>8, <2>9, QuietInv
<1> QED
  BY <1>1, <1>2, <1>3, <1>4 DEF NotThere, Return, Fails

\* Scanning.
LEMMA ScanInv ==
  ASSUME Core, DirInv, Calm, Calm', scenario' = scenario,
         Load \/ PassSector \/ ScanEnds \/ ScanFails
  PROVE  DirInv'
<1>0. /\ fat \in [Clusters -> Links] /\ PosIn(pos, 0) /\ WorkOK
      /\ Chains(fat) /\ faults \in Counts /\ pos.eptr \in 0 .. DirEntPerSec
      /\ Volumes(slots, fat, fat_dur, NewOf(call))
  <2>1. Scanning
    BY DEF Load, PassSector, ScanEnds, ScanFails
  <2> QED
    BY <2>1, ScanFacts, DirFacts DEF Core, Volumes
<1>1. Scanning
  BY DEF Load, PassSector, ScanEnds, ScanFails
<1>2. /\ NewOf(call) = {} /\ Kinds(call)
      /\ call.op \notin {"idle", "list"} =>
           /\ Used(fat, pos.clust) /\ Used(fat, call.dir)
           /\ pos.sect = -1 => pos.eleft = 0
           /\ pos.sect # -1 => /\ pos.lba[1] = pos.clust /\ buf = slots[pos.lba]
                               /\ pos.eleft = DirEntPerSec - pos.eptr
      /\ call.op # "idle"
  BY <1>1, ScanStage
<1>3. CASE Load
  <2>1. /\ ~NoMore(pos) /\ call' = call /\ UNCHANGED <<fat, fat_dur, slots>>
        /\ pos' = [NextSector(pos) EXCEPT !.eptr = 0, !.eleft = DirEntPerSec]
        /\ buf' = slots[NextSector(pos).lba]
    BY <1>3 DEF Load
  <2> DEFINE q == NextSector(pos)
  <2>2. /\ PosIn(q, 0) /\ q.lba = <<q.clust, q.sect>> /\ q.sect \in Nat
    BY <1>0, <2>1, NextIn
  <2>3. q.clust = IF ClusterDone(pos) THEN Link(fat, pos.clust) ELSE pos.clust
    <3>1. DOMAIN pos = PosFields
      BY <1>0 DEF PosIn
    <3> QED
      BY <3>1 DEF NextSector, PosFields
  <2>4. call.op \notin {"idle", "list"} => Used(fat, q.clust)
    <3> SUFFICES ASSUME call.op \notin {"idle", "list"} PROVE Used(fat, q.clust)
      OBVIOUS
    <3>1. CASE ClusterDone(pos)
      <4>1. pos.clust \in Clusters
        BY <1>0, <3>1, Places0 DEF ClusterDone, PosIn, Dirs
      <4>2. fat[pos.clust] # 0 /\ fat[pos.clust] # Eoc
        BY <1>2, <2>1, <3>1, <4>1, Places0 DEF Used, NoMore, Link, ClusterDone
      <4>3. fat[pos.clust] \in Clusters
        BY <1>0, <4>1, <4>2 DEF Links
      <4>4. q.clust = fat[pos.clust]
        BY <2>3, <3>1, <4>1 DEF Link
      <4> QED
        BY <1>0, <4>1, <4>3, <4>4 DEF Used, Chains
    <3>2. CASE ~ClusterDone(pos)
      BY <1>2, <2>3, <3>2
    <3> QED
      BY <3>1, <3>2
  <2> HIDE DEF q
  <2>5. /\ pos' = [q EXCEPT !.eptr = 0, !.eleft = DirEntPerSec]
        /\ buf' = slots[q.lba]
    BY <2>1 DEF q
  <2>6. /\ pos'.clust = q.clust /\ pos'.sect = q.sect /\ pos'.lba = q.lba
        /\ pos'.eptr = 0 /\ pos'.eleft = DirEntPerSec
    BY <2>2, <2>5 DEF PosIn, PosFields
  <2>7. pos'.lba[1] = pos'.clust /\ pos'.sect # -1 /\ pos'.eleft = DirEntPerSec - pos'.eptr
    BY <2>2, <2>6, Places0
  <2>8. Searching(call, pos', buf', slots, fat)
    BY <1>2, <2>4, <2>5, <2>6, <2>7 DEF Searching
  <2> QED
    BY <1>1, <2>1, <2>8, ScanOn
<1>4. CASE PassSector
  <2>1. /\ call' = call /\ buf' = buf /\ UNCHANGED <<fat, fat_dur, slots>>
        /\ \E x : pos' = [At(DirEntPerSec) EXCEPT !.lfn = x]
        /\ pos.eleft > 0
    BY <1>4 DEF PassSector
  <2>2. DirEntPerSec \in 0 .. DirEntPerSec /\ DirEntPerSec - DirEntPerSec = 0
    BY Places0
  <2> DEFINE q == At(DirEntPerSec)
  <2>3. /\ PosIn(q, 0) /\ q.eptr = DirEntPerSec /\ q.eleft = 0
        /\ q.clust = pos.clust /\ q.sect = pos.sect /\ q.lba = pos.lba
    BY <1>0, <2>2, AtIn
  <2> HIDE DEF q
  <2>4. \E x : pos' = [q EXCEPT !.lfn = x]
    BY <2>1 DEF q
  <2>5. /\ pos'.eptr = DirEntPerSec /\ pos'.eleft = 0
        /\ pos'.clust = pos.clust /\ pos'.sect = pos.sect /\ pos'.lba = pos.lba
    BY <2>3, <2>4 DEF PosIn, PosFields
  <2>6. Searching(call, pos', buf', slots, fat)
    BY <1>2, <2>1, <2>2, <2>5 DEF Searching
  <2> QED
    BY <1>1, <2>1, <2>6, ScanOn
<1>5. CASE ScanEnds
  <2>0. UNCHANGED <<fat, fat_dur, slots>>
    BY <1>5 DEF ScanEnds
  <2>1. CASE EndsHere # {} /\ NotThere(At(Min(EndsHere)), buf)
    <3> DEFINE i == Min(EndsHere)
    <3>1. i \in Places /\ buf[i] = End /\ pos.eleft # 0
      BY <1>0, <2>1, EndIs
    <3>2. i \in 0 .. DirEntPerSec
      BY <3>1, Places0 DEF Places
    <3> HIDE DEF i
    <3>3. /\ PosIn(At(i), 0) /\ At(i).eptr = i
          /\ At(i).sect = pos.sect /\ At(i).lba = pos.lba
      BY <1>0, <3>2, AtIn
    <3>4. call.op # "list" =>
            pos.sect # -1 /\ pos.lba[1] = pos.clust /\ buf = slots[pos.lba]
      BY <1>2, <3>1
    <3>5. ASSUME call.op # "list", NEW c \in Named(slots), pos.lba = <<c, 0>>
          PROVE  i >= 1
      <4>1. buf[0] = Dot
        BY <1>0, <3>4, <3>5 DEF Volumes
      <4>2. i # 0
        BY <3>1, <4>1 DEF Dot, End
      <4> QED
        BY <3>2, <4>2, Places0
    <3>6. NotThere(At(i), buf)
      BY <2>1 DEF i
    <3>7. CASE call.op # "list"
      <4>1. \E p : /\ p.lba = pos.lba /\ p.sect # -1
                   /\ call.op # "list" =>
                        \A c \in Named(slots) : pos.lba = <<c, 0>> => p.eptr >= 1
                   /\ DOMAIN p = PosFields
                   /\ NotThere(p, buf)
        <5> DEFINE p == At(i)
        <5>1. p.lba = pos.lba /\ p.sect # -1 /\ DOMAIN p = PosFields
          BY <3>3, <3>4, <3>7 DEF PosIn
        <5>2. \A c \in Named(slots) : pos.lba = <<c, 0>> => p.eptr >= 1
          BY <3>3, <3>5, <3>7
        <5>3. NotThere(p, buf)
          BY <3>6
        <5> HIDE DEF p
        <5> QED
          BY <5>1, <5>2, <5>3
      <4> QED
        BY <1>1, <2>0, <3>4, <3>7, <4>1, NotThereInv
    <3>8. CASE call.op = "list"
      <4>1. call.at = "scan"
        BY <1>0, <1>1, <3>8, ScanFacts
      <4>2. call' = Idle
        BY <3>6, <3>8, <4>1 DEF NotThere, Adding, Return
      <4> QED
        BY <2>0, <4>2, QuietReturn
    <3> QED
      BY <3>7, <3>8
  <2>2. CASE pos.eleft = 0 /\ NoMore(pos) /\ NotThere([pos EXCEPT !.sect = @ + 1], buf)
    <3> DEFINE p == [pos EXCEPT !.sect = @ + 1]
    <3>1. /\ DOMAIN p = PosFields /\ p.lba = pos.lba /\ p.eptr = pos.eptr
          /\ p.sect = pos.sect + 1 /\ pos.sect \in Int /\ pos.sect >= -1
      BY <1>0 DEF PosIn, PosFields
    <3>2. pos.sect # -1
      BY <2>2, Places0 DEF NoMore, ClusterDone
    <3>3. NotThere(p, buf)
      BY <2>2
    <3> HIDE DEF p
    <3>4. p.sect # -1
      BY <3>1, <3>2
    <3>5. CASE call.op # "list"
      <4>1. /\ pos.lba[1] = pos.clust /\ buf = slots[pos.lba] /\ pos.eptr = DirEntPerSec
        BY <1>0, <1>2, <2>2, <3>2, <3>5, Places0
      <4>2. p.eptr >= 1
        BY <3>1, <4>1, Places0
      <4> QED
        BY <1>1, <2>0, <3>1, <3>3, <3>4, <4>1, <4>2, NotThereInv
    <3>6. CASE call.op = "list"
      <4>1. call.at = "scan"
        BY <1>0, <1>1, <3>6, ScanFacts
      <4>2. call' = Idle
        BY <3>3, <3>6, <4>1 DEF NotThere, Adding, Return
      <4> QED
        BY <2>0, <4>2, QuietReturn
    <3> QED
      BY <3>5, <3>6
  <2> QED
    BY <1>5, <2>1, <2>2 DEF ScanEnds
<1>6. CASE ScanFails
  BY <1>0, <1>6 DEF ScanFails, ReadFault, Calm, Counts
<1> QED
  BY <1>3, <1>4, <1>5, <1>6

\* The slot of the entry that is found.
LEMMA HitSlot ==
  ASSUME Core, DirInv, ScanHits, call.op # "list"
  PROVE  /\ Hit.off \in Places /\ buf[Hit.off].kind = "short"
         /\ Hit.dir = buf[Hit.off].dir /\ Hit.clust = buf[Hit.off].clust
         /\ buf = slots[pos.lba] /\ pos.lba \in Sectors
         /\ Hit.dir => /\ <<pos.lba, Hit.off>> \in DirPlaces(slots)
                       /\ Slot(slots, <<pos.lba, Hit.off>>).clust = Hit.clust
         /\ ~Hit.dir => Hit.clust = 0
<1>0. /\ WorkOK /\ Scanning /\ Hits # {} /\ pos.lba \in Sectors
      /\ Volumes(slots, fat, fat_dur, NewOf(call))
  BY DirFacts DEF Core, ScanHits
<1>1. Hit \in EntriesOf(buf, pos.eptr, pos.lfn) /\ pos.eleft # 0 /\ Hit \in Entries
  BY <1>0, HitIs
<1>2. PICK i \in Shortly(buf, pos.eptr) :
        Hit = [off |-> i, name |-> NameOf(buf[i], LfnAt(buf, pos.eptr, pos.lfn, i)),
               dir |-> buf[i].dir, ro |-> buf[i].ro, clust |-> buf[i].clust]
  BY <1>1 DEF EntriesOf
<1> DEFINE h == Hit
<1>3. /\ h.off = i /\ h.dir = buf[i].dir /\ h.clust = buf[i].clust
      /\ buf[i].kind = "short" /\ h.off \in Places
  BY <1>1, <1>2 DEF Shortly, Entries
<1>4. buf = slots[pos.lba]
  BY <1>0, <1>1, ScanStage
<1> HIDE DEF h
<1>5. ASSUME h.dir
      PROVE  /\ <<pos.lba, h.off>> \in DirPlaces(slots)
             /\ Slot(slots, <<pos.lba, h.off>>).clust = h.clust
  <2>1. <<pos.lba, h.off>>[1] = pos.lba /\ <<pos.lba, h.off>>[2] = h.off
    OBVIOUS
  <2> QED
    BY <1>0, <1>3, <1>4, <1>5, <2>1 DEF DirPlaces, Slot, NamesDir
<1>6. ~h.dir => h.clust = 0
  BY <1>0, <1>3, <1>4 DEF Volumes
<1> QED
  BY <1>0, <1>3, <1>4, <1>5, <1>6 DEF h

\* An entry is found.
LEMMA FoundInv ==
  ASSUME Core, DirInv, Calm, scenario' = scenario,
         FoundAnswers \/ FoundNext \/ FoundToChange \/ FoundToRemove
         \/ FoundToRename \/ FoundRefused
  PROVE  DirInv'
<1>0. /\ call \in CallRecords /\ Volumes(slots, fat, fat_dur, NewOf(call))
      /\ Progress(call, pos, buf, slots, fat) /\ CallIn(call, scenario)
      /\ DOMAIN pos = PosFields /\ call.op \in scenario.calls \cup {"idle"}
  BY DirFacts
<1>1. ScanHits /\ Scanning /\ UNCHANGED <<fat, fat_dur, slots>>
  BY DEF FoundAnswers, FoundNext, FoundToChange, FoundToRemove, FoundToRename,
         FoundRefused, ScanHits
<1>2. NewOf(call) = {} /\ Kinds(call) /\ call.op # "idle"
  BY <1>1, ScanStage
<1>3. CASE FoundAnswers \/ FoundNext \/ FoundRefused
  <2>1. call' = Idle
    BY <1>3 DEF FoundAnswers, FoundNext, FoundRefused, Return, Fails
  <2> QED
    BY <1>1, <2>1, QuietReturn
<1>4. ASSUME call.op # "list"
      PROVE  /\ Hit.off \in Places /\ buf[Hit.off].kind = "short"
             /\ buf = slots[pos.lba]
             /\ Hit.dir => /\ <<pos.lba, Hit.off>> \in DirPlaces(slots)
                           /\ Slot(slots, <<pos.lba, Hit.off>>).clust = Hit.clust
             /\ ~Hit.dir => Hit.clust = 0
             /\ Used(fat, call.dir) /\ PosIn(At(Hit.off + 1), 0)
             /\ Hit.clust \in Dirs /\ call.dir \in Dirs
  BY <1>0, <1>1, <1>2, <1>4, HitSlot, ScanStage, HitFacts DEF CallRecords
<1>5. \A place : /\ Keep(place).at = place /\ Keep(place).op = call.op
                 /\ Keep(place).entry = Hit /\ Keep(place).lba = pos.lba
                 /\ Keep(place).dir = call.dir
  BY <1>0 DEF Keep, CallRecords
<1>6. CASE FoundToChange
  <2>1. PICK place \in {"store", "mark"} :
          /\ call' = Keep(place) /\ UNCHANGED <<pos, buf>>
          /\ place = "store" => call.op = "setattr"
          /\ place = "mark" => call.op = "delete" /\ ~Hit.dir
    BY <1>6 DEF FoundToChange
  <2>2. /\ call'.at = place /\ call'.op = call.op /\ call'.entry = Hit
        /\ call'.lba = pos.lba
    BY <1>5, <2>1
  <2> HIDE DEF Keep, Hit
  <2>3. NewOf(call') = {}
    BY <2>1, <2>2 DEF NewOf
  <2>4. Searching(call', pos', buf', slots, fat)
    BY <2>2 DEF Searching
  <2>5. Kinds(call')
    BY <2>1, <2>2 DEF Kinds, Placing
  <2>6. Room(call', pos', buf', slots, fat) /\ Fresh(call', pos', slots, fat)
    BY <2>2, <2>3 DEF Room, Fresh
  <2>7. Removing(call', pos', buf', slots, fat)
    BY <1>4, <2>1, <2>2 DEF Removing
  <2> QED
    BY <1>1, <2>3, <2>4, <2>5, <2>6, <2>7, QuietInv
<1>7. CASE FoundToRemove
  <2>1. /\ call' = Keep("empty") /\ call.op = "rmdir" /\ Hit.dir
        /\ pos' = DirOpen(At(Hit.off + 1), Hit.clust)
    BY <1>7 DEF FoundToRemove
  <2>2. /\ call'.at = "empty" /\ call'.op = call.op /\ call'.entry = Hit
        /\ call'.lba = pos.lba /\ call'.dir = call.dir
    BY <1>5, <2>1
  <2>3. pos'.sect = -1 /\ pos'.eleft = 0 /\ pos'.clust = Hit.clust
    <3>1. 0 \in Nat
      OBVIOUS
    <3> QED
      BY <1>4, <2>1, <3>1, OpenIn
  <2>4. Used(fat, Hit.clust)
    <3>1. Hit.clust \in Named(slots)
      BY <1>4, <2>1 DEF Named
    <3> QED
      BY <1>0, <3>1 DEF Volumes, First, Used
  <2> HIDE DEF Keep, Hit
  <2>5. NewOf(call') = {}
    BY <2>1, <2>2 DEF NewOf
  <2>6. Searching(call', pos', buf', slots, fat)
    BY <1>4, <2>1, <2>2, <2>3, <2>4 DEF Searching
  <2>7. Kinds(call')
    BY <2>1, <2>2 DEF Kinds, Placing
  <2>8. Room(call', pos', buf', slots, fat) /\ Fresh(call', pos', slots, fat)
    BY <2>1, <2>2, <2>5 DEF Room, Fresh
  <2>9. Removing(call', pos', buf', slots, fat)
    <3>1. call'.entry.off = Hit.off /\ call'.entry.clust = Hit.clust
      BY <2>2
    <3> QED
      BY <1>4, <2>1, <2>2, <3>1 DEF Removing
  <2> QED
    BY <1>1, <2>5, <2>6, <2>7, <2>8, <2>9, QuietInv
<1>8. CASE FoundToRename
  <2> DEFINE k == Keep("scanto")
  <2>1. /\ call' = [k EXCEPT !.name = call.other, !.other = call.name]
        /\ call.op = "rename"
        /\ pos' = DirOpen(At(Hit.off + 1), call.dir)
    BY <1>8 DEF FoundToRename
  <2>2. /\ k.at = "scanto" /\ k.op = call.op /\ k.entry = Hit /\ k.lba = pos.lba
        /\ k.dir = call.dir
    BY <1>5
  <2>3. ~Hit.dir /\ Hit.clust = 0
    <3>1. "mkdir" \notin scenario.calls
      BY <1>0, <2>1 DEF Calm
    <3>2. Named(slots) = {}
      BY <3>1 DEF DirInv
    <3>3. Hit.dir => Hit.clust \in Named(slots)
      BY <1>4, <2>1 DEF Named
    <3> QED
      BY <1>4, <2>1, <3>2, <3>3
  <2>4. pos'.sect = -1 /\ pos'.eleft = 0 /\ pos'.clust = call.dir
    <3>1. 0 \in Nat
      OBVIOUS
    <3> QED
      BY <1>4, <2>1, <3>1, OpenIn
  <2> HIDE DEF k
  <2>5. /\ call'.at = "scanto" /\ call'.op = call.op /\ call'.entry = Hit
        /\ call'.dir = call.dir
    <3>1. /\ call'.at = k.at /\ call'.op = k.op /\ call'.entry = k.entry
          /\ call'.dir = k.dir
      BY <2>1
    <3> QED
      BY <2>2, <3>1
  <2> HIDE DEF Hit
  <2>6. NewOf(call') = {}
    BY <2>1, <2>5 DEF NewOf
  <2>7. Searching(call', pos', buf', slots, fat)
    BY <1>4, <2>1, <2>4, <2>5 DEF Searching
  <2>8. Kinds(call')
    BY <2>1, <2>3, <2>5 DEF Kinds, Placing
  <2>9. Room(call', pos', buf', slots, fat) /\ Fresh(call', pos', slots, fat)
    BY <2>5, <2>6 DEF Room, Fresh
  <2>10. Removing(call', pos', buf', slots, fat)
    BY <2>1, <2>5 DEF Removing
  <2> QED
    BY <1>1, <2>6, <2>7, <2>8, <2>9, <2>10, QuietInv
<1> QED
  BY <1>3, <1>6, <1>7, <1>8

\* A sector that is in the buffer is changed, or read.
LEMMA ChangeInv ==
  ASSUME Core, DirInv, Calm, scenario' = scenario,
         Store \/ MarkDeleted \/ Reload \/ Restore \/ TransferFails
  PROVE  DirInv'
<1>0. /\ call \in CallRecords /\ Volumes(slots, fat, fat_dur, NewOf(call))
      /\ Progress(call, pos, buf, slots, fat) /\ CallIn(call, scenario)
      /\ slots \in [Sectors -> Sheets] /\ buf \in Sheets /\ pos.lba \in Sectors
      /\ call.entry \in Entries /\ call.op \in scenario.calls \cup {"idle"}
  BY DirFacts
<1>00. Keeps(slots[pos.lba], slots[pos.lba])
  BY <1>0, SelfKept
<1>1. CASE Store
  <2>1. /\ call.at = "store" /\ UNCHANGED <<fat, fat_dur>> /\ call' = Idle
    BY <1>1 DEF Store, Write, Unread, Return
  <2> DEFINE o == call.entry.off
  <2>2. PICK ro \in BOOLEAN : slots' = [slots EXCEPT ![pos.lba] = [buf EXCEPT ![o].ro = ro]]
    BY <1>1 DEF Store, Write
  <2> HIDE DEF o
  <2> DEFINE b == [buf EXCEPT ![o].ro = ro]
  <2>3. buf = slots[pos.lba]
    BY <1>0, <2>1 DEF Progress, Removing
  <2>4. Keeps(slots[pos.lba], b)
    BY <1>0, <1>00, <2>3, SheetsKeep
  <2>5. buf[0] = Dot => b[0] = Dot
    BY <1>0, DotKept
  <2> HIDE DEF b
  <2>6. \A c \in Named(slots) : pos.lba = <<c, 0>> => b[0] = Dot
    BY <1>0, <2>3, <2>5 DEF Volumes
  <2>7. slots' = [slots EXCEPT ![pos.lba] = b]
    BY <2>2 DEF b
  <2>8. Volumes(slots', fat, fat_dur, NewOf(call)) /\ Named(slots') \subseteq Named(slots)
    BY <1>0, <2>4, <2>6, <2>7, WriteSafe
  <2>9. Volumes(slots', fat', fat_dur', NewOf(call))
    BY <2>1, <2>8
  <2> QED
    BY <2>1, <2>8, <2>9, ReturnInv
<1>2. CASE MarkDeleted
  <2> DEFINE o == call.entry.off
             b == Marked(buf, o)
  <2>1. /\ call.at = "mark" /\ UNCHANGED <<fat, fat_dur>>
        /\ slots' = [slots EXCEPT ![pos.lba] = b]
    BY <1>2 DEF MarkDeleted, Write, Unread
  <2>2. buf = slots[pos.lba] /\ o \in Places
    BY <1>0, <2>1 DEF Progress, Removing, Entries
  <2>3. call.op \in {"delete", "rmdir", "rename"}
    BY <1>0, <2>1 DEF Progress, Kinds
  <2>4. Keeps(slots[pos.lba], b)
    <3> HIDE DEF o
    <3> QED
      BY <1>0, <1>00, <2>2, SheetsKeep
  <2>5. call.op = "rmdir" => /\ <<pos.lba, o>> \in DirPlaces(slots)
                             /\ Slot(slots, <<pos.lba, o>>).clust = call.entry.clust
    BY <1>0, <2>1 DEF Progress, Removing
  <2>6. \A c \in Named(slots) : pos.lba = <<c, 0>> => b[0] = Dot
    <3> SUFFICES ASSUME NEW c \in Named(slots), pos.lba = <<c, 0>> PROVE b[0] = Dot
      OBVIOUS
    <3>1. buf[0] = Dot
      BY <1>0, <2>2 DEF Volumes
    <3>2. buf[o].kind = "short"
      <4>1. CASE call.op = "delete"
        BY <1>0, <2>1, <4>1 DEF Progress, Removing
      <4>2. CASE call.op = "rmdir"
        <5>1. <<pos.lba, o>>[1] = pos.lba /\ <<pos.lba, o>>[2] = o
          OBVIOUS
        <5> HIDE DEF o
        <5> QED
          BY <2>2, <2>5, <4>2, <5>1 DEF DirPlaces, Slot, NamesDir
      <4>3. CASE call.op = "rename"
        <5>1. "mkdir" \notin scenario.calls
          BY <1>0, <4>3 DEF Calm
        <5> QED
          BY <5>1 DEF DirInv
      <4> QED
        BY <2>3, <4>1, <4>2, <4>3
    <3> HIDE DEF o
    <3> QED
      BY <1>0, <2>2, <3>1, <3>2, DotKept
  <2>7. /\ Volumes(slots', fat, fat_dur, NewOf(call)) /\ Named(slots') \subseteq Named(slots)
        /\ DirPlaces(slots') \subseteq DirPlaces(slots)
        /\ \A at \in DirPlaces(slots') : Slot(slots', at).clust = Slot(slots, at).clust
    <3> DEFINE sm == [slots EXCEPT ![pos.lba] = b]
    <3> HIDE DEF b
    <3>1. /\ Volumes(sm, fat, fat_dur, NewOf(call)) /\ Named(sm) \subseteq Named(slots)
          /\ DirPlaces(sm) \subseteq DirPlaces(slots)
      BY <1>0, <2>4, <2>6, WriteSafe
    <3>2. \A at \in DirPlaces(sm) : Slot(sm, at).clust = Slot(slots, at).clust
      BY <1>0, <2>4, <2>6, WriteSafe
    <3>3. slots' = sm
      BY <2>1
    <3> HIDE DEF sm
    <3> QED
      BY <3>1, <3>2, <3>3
  <2>8. CASE Return(TRUE)
    <3>1. call' = Idle /\ Volumes(slots', fat', fat_dur', NewOf(call))
      BY <2>1, <2>7, <2>8 DEF Return
    <3> QED
      BY <2>7, <3>1, ReturnInv
  <2>9. CASE /\ call.op # "rename"
             /\ call' = [call EXCEPT !.new = call.entry.clust,
                           !.at = IF call.entry.clust = 0 THEN "flush" ELSE "free"]
             /\ UNCHANGED <<pos, buf, ok, list>>
    <3> DEFINE place == IF call.entry.clust = 0 THEN "flush" ELSE "free"
    <3>1. call' = [call EXCEPT !.new = call.entry.clust, !.at = place]
      BY <2>9
    <3>2. place \in {"flush", "free"} /\ (place = "free" => call.entry.clust # 0)
      OBVIOUS
    <3> HIDE DEF place
    <3>3. /\ call'.at = place /\ call'.op = call.op /\ call'.new = call.entry.clust
      BY <1>0, <3>1 DEF CallRecords
    <3>4. NewOf(call') = {}
      BY <3>2, <3>3 DEF NewOf, Making, Placing
    <3>5. place = "free" =>
            First(fat, call.entry.clust) /\ call.entry.clust \notin Named(slots')
      <4> SUFFICES ASSUME place = "free"
                   PROVE  First(fat, call.entry.clust) /\ call.entry.clust \notin Named(slots')
        OBVIOUS
      <4>1. call.op = "rmdir"
        BY <1>0, <2>1, <2>3, <2>9, <3>2 DEF Progress, Removing
      <4>2. First(fat, call.entry.clust)
        BY <1>0, <2>5, <4>1 DEF Named, Volumes
      <4>3. <<pos.lba, o>> \notin DirPlaces(slots')
        <5>1. <<pos.lba, o>>[1] = pos.lba /\ <<pos.lba, o>>[2] = o
          OBVIOUS
        <5>2. b[o] = Deleted
          <6> HIDE DEF o
          <6>1. o <= o /\ o .. o - 1 = {}
            BY <2>2, Places0 DEF Places
          <6> QED
            BY <2>2, <6>1 DEF Marked
        <5>3. slots'[pos.lba] = b
          BY <1>0, <2>1
        <5> HIDE DEF b, o
        <5> QED
          BY <5>1, <5>2, <5>3 DEF DirPlaces, Slot, NamesDir, Deleted
      <4>4. ASSUME NEW at \in DirPlaces(slots'), Slot(slots', at).clust = call.entry.clust
            PROVE  FALSE
        <5>1. at \in DirPlaces(slots) /\ Slot(slots, at).clust = call.entry.clust
          BY <2>7, <4>4
        <5>2. at = <<pos.lba, o>>
          BY <1>0, <2>5, <4>1, <5>1 DEF Volumes
        <5> QED
          BY <4>3, <4>4, <5>2
      <4> QED
        BY <4>2, <4>4 DEF Named
    <3>6. Searching(call', pos', buf', slots', fat') /\ Kinds(call')
      BY <2>3, <2>9, <3>2, <3>3 DEF Searching, Kinds, Placing, Making
    <3>7. Room(call', pos', buf', slots', fat') /\ Fresh(call', pos', slots', fat')
      BY <3>2, <3>3, <3>4 DEF Room, Fresh
    <3>8. Removing(call', pos', buf', slots', fat')
      BY <2>1, <3>2, <3>3, <3>5 DEF Removing
    <3>9. Volumes(slots', fat', fat_dur', NewOf(call'))
      BY <2>1, <2>7, <3>4, VolumesLess
    <3> QED
      BY <2>7, <3>6, <3>7, <3>8, <3>9, NewInv DEF Progress
  <2> QED
    BY <1>2, <2>8, <2>9 DEF MarkDeleted
<1>3. CASE Reload
  <2> DEFINE place == IF call.op = "mkdir" THEN "short" ELSE "mark"
  <2>1. /\ call' = [call EXCEPT !.at = place] /\ call.at = "reload"
        /\ pos' = pos /\ UNCHANGED <<fat, fat_dur, slots>> /\ buf' = slots[pos.lba]
    BY <1>3 DEF Reload, Goto
  <2>2. place \in {"short", "mark"} /\ (place = "short" <=> call.op = "mkdir")
    OBVIOUS
  <2> HIDE DEF place
  <2>3. /\ call'.at = place /\ call'.op = call.op /\ call'.entry = call.entry
        /\ call'.lba = call.lba
    BY <1>0, <2>1 DEF CallRecords
  <2>4. NewOf(call') \subseteq NewOf(call)
    BY <2>1, <2>2, <2>3 DEF NewOf, Making
  <2>5. call.op \in {"mkdir", "rmdir", "rename"}
    BY <1>0, <2>1 DEF Progress, Kinds
  <2>6. Searching(call', pos', buf', slots, fat)
    BY <2>2, <2>3 DEF Searching
  <2>7. Kinds(call')
    BY <1>0, <2>1, <2>2, <2>3, <2>5 DEF Progress, Kinds, Making, Placing
  <2>8. Room(call', pos', buf', slots, fat)
    BY <1>0, <2>1, <2>2, <2>3, <2>4 DEF Progress, Room, Behind
  <2>9. Fresh(call', pos', slots, fat)
    BY <1>0, <2>1, <2>2, <2>3, <2>4 DEF Progress, Fresh
  <2>10. Removing(call', pos', buf', slots, fat)
    BY <1>0, <2>1, <2>2, <2>3, <2>5 DEF Progress, Removing
  <2> QED
    BY <2>1, <2>4, <2>6, <2>7, <2>8, <2>9, <2>10, QuietInv
<1>4. CASE Restore
  <2>1. /\ call' = [call EXCEPT !.at = "scan"] /\ call.at = "restore"
        /\ pos' = pos /\ UNCHANGED <<fat, fat_dur, slots>>
    BY <1>4 DEF Restore, Goto
  <2>2. /\ call'.at = "scan" /\ call'.op = "list"
    BY <1>0, <2>1 DEF CallRecords, Progress, Kinds
  <2>3. NewOf(call') = {}
    BY <2>2 DEF NewOf
  <2>4. Searching(call', pos', buf', slots, fat) /\ Kinds(call')
        /\ Room(call', pos', buf', slots, fat)
    BY <2>2 DEF Searching, Kinds, Room, Placing
  <2>5. Fresh(call', pos', slots, fat) /\ Removing(call', pos', buf', slots, fat)
    BY <2>2, <2>3 DEF Fresh, Removing
  <2> QED
    BY <2>1, <2>3, <2>4, <2>5, QuietInv
<1>5. CASE TransferFails
  <2>1. call' = Idle /\ UNCHANGED <<fat, fat_dur, slots>>
    BY <1>5 DEF TransferFails, Return
  <2> QED
    BY <2>1, QuietReturn
<1> QED
  BY <1>1, <1>2, <1>3, <1>4, <1>5

\* The stage of a call that makes room for an entry and writes it.
Placed == {"short"} \cup Placing

\* Such a call goes on.
LEMMA PlaceOn ==
  ASSUME Core, DirInv, call.at \in Placed, call'.at \in Placed,
         call'.op = call.op, call'.entry = call.entry
  PROVE  /\ Kinds(call') /\ NewOf(call') = NewOf(call)
         /\ Searching(call', pos', buf', slots', fat')
         /\ Removing(call', pos', buf', slots', fat')
<1>1. Kinds(call)
  BY DirFacts DEF Progress
<1>2. call.op \in {"create", "mkdir", "rename"}
  BY <1>1 DEF Kinds, Placed
<1>3. call.at \in Making /\ call'.at \in Making /\ call.at # "scan"
  BY DEF Making, Placed, Placing
<1>4. Kinds(call')
  BY <1>1, <1>2, <1>3 DEF Kinds, Placed, Placing
<1>5. NewOf(call') = NewOf(call)
  BY <1>3 DEF NewOf
<1>6. Searching(call', pos', buf', slots', fat')
  BY DEF Searching, Placed, Placing
<1>7. Removing(call', pos', buf', slots', fat')
  BY DEF Removing, Placed, Placing
<1> QED
  BY <1>4, <1>5, <1>6, <1>7

\* It goes on, with nothing written.
LEMMA PlaceQuiet ==
  ASSUME Core, DirInv, scenario' = scenario, UNCHANGED <<fat, fat_dur, slots>>,
         call.at \in Placed, call'.at \in Placed,
         call'.op = call.op, call'.entry = call.entry,
         call'.at \in {"short", "fill"} =>
           /\ \A d \in Named(slots) \cup NewOf(call) :
                pos'.lba = <<d, 0>> => pos'.eptr >= 1
           /\ pos'.sect # -1 /\ buf' = slots[pos'.lba],
         call'.at = "next" => pos'.sect # -1,
         call'.at = "insert" =>
           \/ /\ buf' = slots[pos'.lba]
              /\ \A d \in Named(slots) \cup NewOf(call) :
                   pos'.lba = <<d, 0>> => call'.off >= 1
           \/ /\ buf' = Filled(End)
              /\ \A d \in Named(slots) \cup NewOf(call) : pos'.lba # <<d, 0>>,
         call'.at \notin {"link", "wipe"}
  PROVE  DirInv'
<1>1. /\ Kinds(call') /\ NewOf(call') = NewOf(call)
      /\ Searching(call', pos', buf', slots', fat')
      /\ Removing(call', pos', buf', slots', fat')
  BY PlaceOn
<1>2. Fresh(call, pos, slots, fat) /\ call.at # "dots" /\ call'.at # "clear"
      /\ call'.at \notin {"alloc", "dots", "reload"}
  BY DirFacts DEF Progress, Placed, Placing
<1>3. Fresh(call', pos', slots, fat)
  BY <1>1, <1>2 DEF Fresh
<1>4. Room(call', pos', buf', slots, fat)
  BY <1>1, <1>2 DEF Room, Behind
<1> QED
  BY <1>1, <1>3, <1>4, QuietInv

\* The short name is chosen.
LEMMA ChooseInv ==
  ASSUME Core, DirInv, scenario' = scenario, ChooseShort
  PROVE  DirInv'
<1>0. /\ call \in CallRecords /\ Progress(call, pos, buf, slots, fat)
      /\ call.at = "short" /\ UNCHANGED <<fat, fat_dur, slots>>
  BY DirFacts DEF ChooseShort
<1>1. /\ \A d \in Named(slots) \cup NewOf(call) :
           pos.lba = <<d, 0>> => pos.eptr >= 1
      /\ pos.sect # -1 /\ buf = slots[pos.lba]
  BY <1>0 DEF Progress, Room, Behind
<1>2. CASE TakeShort /\ pos' = pos /\ (buf' = buf \/ buf' = slots[pos.lba])
  <2> DEFINE place == IF Fits THEN "insert" ELSE "fill"
  <2>1. call' = [call EXCEPT !.short = Candidate, !.off = pos.eptr, !.at = place]
    BY <1>2 DEF TakeShort
  <2>2. place \in {"insert", "fill"}
    OBVIOUS
  <2> HIDE DEF place
  <2>3. /\ call'.at = place /\ call'.op = call.op /\ call'.entry = call.entry
        /\ call'.off = pos.eptr
    BY <1>0, <2>1 DEF CallRecords
  <2>4. place \in Placed /\ call.at \in Placed
    BY <1>0, <2>2 DEF Placed, Placing
  <2> QED
    BY <1>0, <1>1, <1>2, <2>2, <2>3, <2>4, PlaceQuiet
<1>3. CASE TryNext /\ buf' = slots[pos.lba]
  <2>1. CASE call' = [call EXCEPT !.n = @ + 1] /\ pos' = pos
    <3>1. call'.at = "short" /\ call'.op = call.op /\ call'.entry = call.entry
      BY <1>0, <2>1 DEF CallRecords
    <3>2. call.at \in Placed
      BY <1>0 DEF Placed
    <3> QED
      BY <1>0, <1>1, <1>3, <2>1, <3>1, <3>2, PlaceQuiet
  <2>2. CASE call' = Idle
    BY <1>0, <2>2, QuietReturn
  <2> QED
    BY <1>3, <2>1, <2>2 DEF TryNext
<1> QED
  BY <1>2, <1>3 DEF ChooseShort

\* The rest of a sector is marked deleted.
LEMMA FillInv ==
  ASSUME Core, DirInv, scenario' = scenario, Fill
  PROVE  DirInv'
<1>0. /\ call \in CallRecords /\ Progress(call, pos, buf, slots, fat)
      /\ call.at = "fill" /\ UNCHANGED <<fat, fat_dur>>
      /\ Volumes(slots, fat, fat_dur, NewOf(call))
      /\ slots \in [Sectors -> Sheets] /\ buf \in Sheets /\ pos.lba \in Sectors
      /\ pos.eptr \in Nat
  BY DirFacts DEF Fill, Write, Unread
<1>1. /\ \A d \in Named(slots) \cup NewOf(call) :
           pos.lba = <<d, 0>> => pos.eptr >= 1
      /\ pos.sect # -1 /\ buf = slots[pos.lba]
  BY <1>0 DEF Progress, Room, Behind
<1> DEFINE b == [i \in Places |-> IF i < pos.eptr THEN buf[i] ELSE Deleted]
           sm == [slots EXCEPT ![pos.lba] = b]
<1>2. slots' = sm /\ call' = [call EXCEPT !.at = "next"] /\ pos' = pos
  BY DEF Fill, Write, Goto
<1>3. Keeps(slots[pos.lba], b)
  BY <1>0, <1>1, SelfKept, SheetsKeep
<1>4. buf[0] = Dot /\ pos.eptr >= 1 => b[0] = Dot
  BY <1>0, DotKept
<1>5. sm[pos.lba] = b /\ \A l \in Sectors : l # pos.lba => sm[l] = slots[l]
  BY <1>0
<1> HIDE DEF b
<1>6. \A d \in NewOf(call) : slots[<<d, 0>>][0] = Dot
  BY <1>0 DEF Progress, Fresh
<1>7. \A c \in Named(slots) \cup NewOf(call) : pos.lba = <<c, 0>> => b[0] = Dot
  BY <1>0, <1>1, <1>4, <1>6 DEF Volumes
<1>8. /\ Volumes(sm, fat, fat_dur, NewOf(call)) /\ Named(sm) \subseteq Named(slots)
  BY <1>0, <1>3, <1>7, WriteSafe
<1>9. ASSUME NEW d \in NewOf(call) PROVE sm[<<d, 0>>][0] = Dot
  <2>1. <<d, 0>> \in Sectors
    BY <1>0, SectorIs, Places0 DEF Volumes, First
  <2> QED
    BY <1>5, <1>6, <1>7, <2>1
<1> HIDE DEF sm
<1>10. call'.at = "next" /\ call'.op = call.op /\ call'.entry = call.entry
  BY <1>0, <1>2 DEF CallRecords
<1>11. /\ Kinds(call') /\ NewOf(call') = NewOf(call)
       /\ Searching(call', pos', buf', slots', fat')
       /\ Removing(call', pos', buf', slots', fat')
  BY <1>0, <1>10, PlaceOn DEF Placed, Placing
<1>12. Room(call', pos', buf', slots', fat')
  BY <1>1, <1>2, <1>10 DEF Room
<1>13. Fresh(call', pos', slots', fat')
  BY <1>2, <1>9, <1>10, <1>11 DEF Fresh
<1> QED
  BY <1>0, <1>2, <1>8, <1>11, <1>12, <1>13, NewInv DEF Progress

\* The sector that follows is no first sector of a directory.
LEMMA NextBehind ==
  ASSUME Core, DirInv, call.at = "next", ~NoMore(pos)
  PROVE  \A d \in Named(slots) \cup NewOf(call) : NextSector(pos).lba # <<d, 0>>
<1>0. /\ fat \in [Clusters -> Links] /\ DOMAIN pos = PosFields
      /\ pos.clust \in Dirs /\ pos.sect \in Int /\ pos.sect >= -1 /\ pos.sect # -1
      /\ Volumes(slots, fat, fat_dur, NewOf(call)) /\ PosIn(pos, Over(call.at))
  BY DirFacts, WorkFacts DEF Progress, Room, PosIn
<1> SUFFICES ASSUME NEW d \in Named(slots) \cup NewOf(call),
                    NextSector(pos).lba = <<d, 0>>
             PROVE  FALSE
  OBVIOUS
<1> DEFINE c == IF ClusterDone(pos) THEN Link(fat, pos.clust) ELSE pos.clust
           s == IF ClusterDone(pos) THEN 0 ELSE pos.sect + 1
<1>1. NextSector(pos).lba = <<c, s>>
  BY <1>0 DEF NextSector, PosFields
<1>2. c = d /\ s = 0
  BY <1>1
<1>3. ClusterDone(pos)
  BY <1>0, <1>2
<1>4. pos.clust \in Clusters
  BY <1>0, <1>3 DEF ClusterDone, Dirs
<1>5. fat[pos.clust] = d
  BY <1>2, <1>3, <1>4 DEF Link
<1> QED
  BY <1>0, <1>4, <1>5 DEF Volumes, First

\* The next sector, or none.
LEMMA NextRoomInv ==
  ASSUME Core, DirInv, Calm, Calm', scenario' = scenario,
         NextHasRoom \/ NextIsNone \/ NextFails \/ NoCluster \/ ChooseFails
  PROVE  DirInv'
<1>0. /\ call \in CallRecords /\ faults \in Counts
      /\ UNCHANGED <<fat, fat_dur, slots>>
  BY DirFacts DEF Core, NextHasRoom, NextIsNone, NextFails, NoCluster, ChooseFails
<1>1. CASE NextHasRoom
  <2>1. /\ call.at = "next" /\ ~NoMore(pos) /\ pos' = NextSector(pos)
        /\ buf' = slots[NextSector(pos).lba]
        /\ call' = [call EXCEPT !.at = "insert", !.off = 0]
    BY <1>1 DEF NextHasRoom
  <2>2. \A d \in Named(slots) \cup NewOf(call) : pos'.lba # <<d, 0>>
    BY <2>1, NextBehind
  <2>3. call'.at = "insert" /\ call'.op = call.op /\ call'.entry = call.entry
    BY <1>0, <2>1 DEF CallRecords
  <2>4. buf' = slots[pos'.lba]
    BY <2>1
  <2>5. "insert" \in Placed /\ call.at \in Placed
    BY <2>1 DEF Placed, Placing
  <2> QED
    BY <1>0, <2>2, <2>3, <2>4, <2>5, PlaceQuiet
<1>2. CASE NextIsNone
  <2>1. call.at = "next" /\ (call' = Idle \/ call' = [call EXCEPT !.at = "grow"])
    BY <1>2 DEF NextIsNone, GrowFrom, Fails, Return, Goto
  <2>2. CASE call' = [call EXCEPT !.at = "grow"]
    <3>1. call'.at = "grow" /\ call'.op = call.op /\ call'.entry = call.entry
      BY <1>0, <2>2 DEF CallRecords
    <3>2. "grow" \in Placed /\ call.at \in Placed
      BY <2>1 DEF Placed, Placing
    <3> QED
      BY <1>0, <3>1, <3>2, PlaceQuiet
  <2> QED
    BY <1>0, <2>1, <2>2, QuietReturn
<1>3. CASE NextFails \/ ChooseFails
  BY <1>0, <1>3 DEF NextFails, ChooseFails, ReadFault, Calm, Counts
<1>4. CASE NoCluster
  <2>1. call' = Idle
    BY <1>4 DEF NoCluster, Fails, Return
  <2> QED
    BY <1>0, <2>1, QuietReturn
<1> QED
  BY <1>1, <1>2, <1>3, <1>4

\* A cluster is found to grow a directory by.
LEMMA GrowInv ==
  ASSUME Core, DirInv, scenario' = scenario, Grow
  PROVE  DirInv'
<1>0. /\ call \in CallRecords /\ Progress(call, pos, buf, slots, fat)
      /\ call.at = "grow" /\ UNCHANGED <<fat_dur, slots>>
      /\ Volumes(slots, fat, fat_dur, NewOf(call)) /\ fat \in [Clusters -> Links]
  BY DirFacts DEF Grow
<1>1. PICK c \in Clusters : Alloc(c) /\ call' = [call EXCEPT !.at = "link", !.new = c]
  BY DEF Grow
<1>2. fat' = [fat EXCEPT ![c] = Eoc] /\ fat[c] = 0 /\ Chains(fat)
  BY <1>0, <1>1 DEF Alloc, Volumes
<1>3. /\ Chains(fat') /\ First(fat', c)
      /\ \A x : First(fat, x) => First(fat', x) /\ x # c
  BY <1>0, <1>2, AllocKeeps
<1>4. /\ call'.at = "link" /\ call'.op = call.op /\ call'.entry = call.entry
      /\ call'.new = c
  BY <1>0, <1>1 DEF CallRecords
<1>5. /\ Kinds(call') /\ NewOf(call') = NewOf(call)
      /\ Searching(call', pos', buf', slots', fat')
      /\ Removing(call', pos', buf', slots', fat')
  BY <1>0, <1>4, PlaceOn DEF Placed, Placing
<1>6. Volumes(slots', fat', fat_dur', NewOf(call'))
  BY <1>0, <1>3, <1>5 DEF Volumes
<1>7. c \notin Named(slots) \cup NewOf(call)
  BY <1>0, <1>3 DEF Volumes
<1>8. Room(call', pos', buf', slots', fat')
  BY <1>4 DEF Room
<1>9. Fresh(call', pos', slots', fat')
  BY <1>0, <1>3, <1>4, <1>5, <1>7 DEF Fresh, Progress
<1> QED
  BY <1>0, <1>5, <1>6, <1>8, <1>9, NewInv DEF Progress

\* The cluster is linked in, and the FAT flushed, or not.
LEMMA LinkInv ==
  ASSUME Core, DirInv, scenario' = scenario, LinkNew \/ LinkUnflushed
  PROVE  DirInv'
<1>0. /\ call \in CallRecords /\ Progress(call, pos, buf, slots, fat)
      /\ call.at = "link" /\ slots' = slots
      /\ Volumes(slots, fat, fat_dur, NewOf(call)) /\ fat \in [Clusters -> Links]
      /\ fat' = [fat EXCEPT ![pos.clust] = call.new] /\ DOMAIN pos = PosFields
  BY DirFacts DEF LinkNew, LinkUnflushed, LinkIn
<1>1. First(fat, call.new) /\ call.new \notin Named(slots) \cup NewOf(call)
  BY <1>0 DEF Progress, Fresh
<1>2. Chains(fat') /\ \A x : First(fat, x) /\ x # call.new => First(fat', x)
  BY <1>0, <1>1, LinkKeeps DEF Volumes
<1>3. \A g \in {fat', fat_dur} : Volumes(slots, fat', g, NewOf(call))
  BY <1>0, <1>1, <1>2 DEF Volumes
<1>4. CASE LinkUnflushed
  <2>1. call' = Idle /\ fat_dur' = fat_dur
    BY <1>4 DEF LinkUnflushed, Fails, Return
  <2>2. Volumes(slots', fat', fat_dur', NewOf(call))
    BY <1>0, <1>3, <2>1
  <2> QED
    BY <1>0, <2>1, <2>2, ReturnInv
<1>5. CASE LinkNew
  <2>1. /\ fat_dur' = fat' /\ call' = [call EXCEPT !.at = "wipe", !.n = 1]
        /\ pos' = [pos EXCEPT !.clust = call.new, !.sect = 0, !.lba = <<call.new, 0>>]
    BY <1>5 DEF LinkNew
  <2>2. /\ call'.at = "wipe" /\ call'.op = call.op /\ call'.entry = call.entry
        /\ call'.new = call.new /\ call'.n = 1
    BY <1>0, <2>1 DEF CallRecords
  <2>3. pos'.lba = <<call.new, 0>>
    BY <1>0, <2>1 DEF PosFields
  <2>4. /\ Kinds(call') /\ NewOf(call') = NewOf(call)
        /\ Searching(call', pos', buf', slots', fat')
        /\ Removing(call', pos', buf', slots', fat')
    BY <1>0, <2>2, PlaceOn DEF Placed, Placing
  <2>5. Volumes(slots', fat', fat_dur', NewOf(call'))
    BY <1>0, <1>3, <2>1, <2>4
  <2>6. Room(call', pos', buf', slots', fat')
    BY <2>2 DEF Room
  <2>7. Fresh(call', pos', slots', fat')
    BY <1>0, <1>1, <2>2, <2>3, <2>4 DEF Fresh, Progress
  <2> QED
    BY <1>0, <2>4, <2>5, <2>6, <2>7, NewInv DEF Progress
<1> QED
  BY <1>4, <1>5

\* A sector of a new cluster is cleared, not its first.
LEMMA ClearInv ==
  ASSUME Core, DirInv, scenario' = scenario, ClearSector
  PROVE  DirInv'
<1>0. /\ call \in CallRecords /\ Progress(call, pos, buf, slots, fat)
      /\ call.at \in {"clear", "wipe"} /\ UNCHANGED <<fat, fat_dur, pos, buf>>
      /\ Volumes(slots, fat, fat_dur, NewOf(call)) /\ call.n \in Nat
      /\ slots \in [Sectors -> Sheets] /\ call' = [call EXCEPT !.n = @ + 1]
  BY DirFacts DEF ClearSector, Write, Unread, CallRecords
<1> DEFINE l == <<call.new, call.n>>
           sm == [slots EXCEPT ![l] = Filled(End)]
<1>1. slots' = sm
  BY DEF ClearSector, Write
<1>2. call.n >= 1 /\ \A d : l # <<d, 0>>
  BY <1>0 DEF Progress, Fresh
<1> HIDE DEF l
<1>3. Volumes(sm, fat, fat_dur, NewOf(call)) /\ Named(sm) \subseteq Named(slots)
  <2>1. CASE l \in Sectors
    <3>1. Keeps(slots[l], Filled(End))
      BY ClearKeeps
    <3> QED
      BY <1>0, <1>2, <2>1, <3>1, WriteSafe
  <2>2. CASE l \notin Sectors
    <3>1. sm = slots
      BY <1>0, <2>2
    <3> HIDE DEF sm
    <3> QED
      BY <1>0, <3>1
  <2> QED
    BY <2>1, <2>2
<1>4. ASSUME NEW d \in NewOf(call) PROVE sm[<<d, 0>>] = slots[<<d, 0>>]
  <2>1. <<d, 0>> \in Sectors
    BY <1>0, SectorIs, Places0 DEF Volumes, First
  <2> QED
    BY <1>0, <1>2, <2>1
<1> HIDE DEF sm
<1>5. /\ call'.at = call.at /\ call'.op = call.op /\ call'.entry = call.entry
      /\ call'.new = call.new /\ call'.n = call.n + 1 /\ call.n + 1 >= 1
  BY <1>0 DEF CallRecords
<1>6. NewOf(call') = NewOf(call)
  BY <1>5 DEF NewOf
<1>7. Kinds(call')
  BY <1>0, <1>5 DEF Progress, Kinds
<1>8. Searching(call', pos', buf', slots', fat')
  BY <1>0, <1>5 DEF Searching
<1>9. Removing(call', pos', buf', slots', fat')
  BY <1>0, <1>5 DEF Removing
<1>10. Room(call', pos', buf', slots', fat')
  BY <1>0, <1>1, <1>3, <1>5, <1>6 DEF Progress, Room, Behind
<1>11. Fresh(call', pos', slots', fat')
  BY <1>0, <1>1, <1>3, <1>4, <1>5, <1>6 DEF Progress, Fresh
<1> QED
  BY <1>0, <1>1, <1>3, <1>6, <1>7, <1>8, <1>9, <1>10, <1>11, NewInv DEF Progress

\* A new cluster is all clear but for the sector at hand.
LEMMA WipedInv ==
  ASSUME Core, DirInv, scenario' = scenario, Wiped
  PROVE  DirInv'
<1>0. /\ call \in CallRecords /\ Progress(call, pos, buf, slots, fat)
      /\ call.at = "wipe" /\ UNCHANGED <<fat, fat_dur, slots, pos>>
      /\ buf' = Filled(End) /\ call' = [call EXCEPT !.at = "insert", !.off = 0]
  BY DirFacts DEF Wiped
<1>1. call'.at = "insert" /\ call'.op = call.op /\ call'.entry = call.entry
  BY <1>0 DEF CallRecords
<1>2. \A d \in Named(slots) \cup NewOf(call) : pos'.lba # <<d, 0>>
  <2>1. pos.lba = <<call.new, 0>> /\ call.new \notin Named(slots) \cup NewOf(call)
    BY <1>0 DEF Progress, Fresh
  <2>2. \A d : <<call.new, 0>> = <<d, 0>> => call.new = d
    OBVIOUS
  <2> QED
    BY <1>0, <2>1, <2>2
<1>3. "insert" \in Placed /\ call.at \in Placed
  BY <1>0 DEF Placed, Placing
<1> QED
  BY <1>0, <1>1, <1>2, <1>3, PlaceQuiet

\* The entry is written.
LEMMA InsertInv ==
  ASSUME Core, DirInv, scenario' = scenario, Insert
  PROVE  DirInv'
<1>0. /\ call \in CallRecords /\ Progress(call, pos, buf, slots, fat)
      /\ call.at = "insert" /\ UNCHANGED <<fat, fat_dur>>
      /\ Volumes(slots, fat, fat_dur, NewOf(call)) /\ call.entry \in Entries
      /\ slots \in [Sectors -> Sheets] /\ pos.lba \in Sectors
      /\ call.off \in Nat /\ Kinds(call)
  BY DirFacts DEF Insert, Write, Unread, Progress
<1>1. Parts[call.name] \in Nat
  <2>1. call.name \in Names
    BY <1>0, WorkFacts DEF CallIn, Kinds, Placing
  <2> QED
    BY <2>1, DirectoryConstants
<1> DEFINE parts == Parts[call.name]
           o == call.off + parts
           e == ShortSlot(call.short, call.entry.dir, call.entry.ro, call.entry.clust)
           b == WithEntry
           new == NewOf(call)
           l == pos.lba
           sm == [slots EXCEPT ![l] = b]
<1>2. slots' = sm
  BY DEF Insert, Write
<1>3. \A i \in Places :
        \/ b[i].kind = "lfn" /\ i >= call.off
        \/ i = o /\ b[i] = e
        \/ b[i] = End /\ i > call.off
        \/ b[i] = buf[i]
  <2> SUFFICES ASSUME NEW i \in Places
               PROVE  \/ b[i].kind = "lfn" /\ i >= call.off
                      \/ i = o /\ b[i] = e
                      \/ b[i] = End /\ i > call.off
                      \/ b[i] = buf[i]
    OBVIOUS
  <2>1. b[i] = IF i \in call.off .. call.off + parts - 1
                 THEN LfnSlot(call.name, parts - (i - call.off), Chksum[call.short])
               ELSE IF i = o THEN e
               ELSE IF i = o + 1 THEN End ELSE buf[i]
    BY DEF WithEntry
  <2>2. \A n, s, x : LfnSlot(n, s, x).kind = "lfn"
    BY DEF LfnSlot
  <2> HIDE DEF b, e
  <2> QED
    BY <1>0, <1>1, <2>1, <2>2
<1>4. /\ e.kind = "short" /\ e.dir = call.entry.dir /\ e.clust = call.entry.clust
  BY DEF ShortSlot
<1>5. call.op \in {"create", "mkdir", "rename"} /\ call.at \in Making
      /\ call.at # "scan"
  BY <1>0 DEF Kinds, Placing, Making
<1>6. /\ NamesDir(e) => e.clust \in new
      /\ ~e.dir => e.clust = 0
  BY <1>0, <1>4, <1>5 DEF Kinds, NamesDir, NewOf
<1> HIDE DEF e, b, o, parts
<1>7. \A i \in Places : buf[i] = slots[l][i] \/ buf[i] = End
  BY <1>0 DEF Progress, Room, Filled
<1>8. \A i \in Places :
        /\ NamesDir(b[i]) => \/ i = o /\ b[i].clust \in new
                             \/ NamesDir(slots[l][i]) /\ b[i].clust = slots[l][i].clust
        /\ b[i].kind = "short" /\ ~b[i].dir => b[i].clust = 0
  <2> SUFFICES ASSUME NEW i \in Places
               PROVE  /\ NamesDir(b[i]) =>
                           \/ i = o /\ b[i].clust \in new
                           \/ NamesDir(slots[l][i]) /\ b[i].clust = slots[l][i].clust
                      /\ b[i].kind = "short" /\ ~b[i].dir => b[i].clust = 0
    OBVIOUS
  <2>1. CASE b[i].kind = "lfn" \/ b[i] = End
    BY <2>1 DEF NamesDir, End
  <2>2. CASE i = o /\ b[i] = e
    BY <1>6, <2>2
  <2>3. CASE b[i] = slots[l][i]
    BY <1>0, <2>3 DEF Volumes
  <2> QED
    BY <1>3, <1>7, <2>1, <2>2, <2>3
<1>9. \A c \in new : slots[<<c, 0>>][0] = Dot
  BY <1>0 DEF Progress, Fresh
<1>10. ASSUME NEW c \in Named(slots) \cup new, l = <<c, 0>>
       PROVE  b[0] = Dot
  <2>1. buf = slots[l] /\ call.off >= 1
    BY <1>0, <1>10 DEF Progress, Room, Behind
  <2>2. slots[l][0] = Dot
    BY <1>0, <1>9, <1>10 DEF Volumes
  <2>3. ~(0 >= call.off) /\ ~(0 > call.off) /\ 0 # o /\ 0 \in Places
    BY <1>0, <1>1, <2>1, Places0 DEF o, parts
  <2> QED
    BY <1>3, <2>1, <2>2, <2>3
<1>11. Volumes(sm, fat, fat_dur, {}) /\ Named(sm) \subseteq Named(slots) \cup new
  <2> HIDE DEF l
  <2>0. l \in Sectors
    BY <1>0 DEF l
  <2> HIDE DEF new
  <2>1. Volumes(slots, fat, fat_dur, new)
    BY <1>0 DEF new
  <2> QED
    BY <1>0, <1>8, <1>9, <1>10, <2>0, <2>1, InsertSafe
<1> HIDE DEF sm
<1>12. CASE call' = Idle
  BY <1>0, <1>2, <1>11, <1>12, ReturnInv
<1>13. CASE call.op = "rename" /\ call' = [call EXCEPT !.at = "reload"]
  <2>1. /\ call'.at = "reload" /\ call'.op = "rename" /\ call'.entry = call.entry
    BY <1>0, <1>13 DEF CallRecords
  <2>2. NewOf(call') = {}
    BY <2>1 DEF NewOf
  <2>3. Kinds(call')
    BY <1>0, <1>5, <1>13, <2>1 DEF Kinds, Placing
  <2>4. Searching(call', pos', buf', slots', fat') /\ Room(call', pos', buf', slots', fat')
    BY <2>1 DEF Searching, Room, Placing
  <2>5. Fresh(call', pos', slots', fat') /\ Removing(call', pos', buf', slots', fat')
    BY <2>1, <2>2 DEF Fresh, Removing
  <2>6. Volumes(slots', fat', fat_dur', NewOf(call'))
    BY <1>0, <1>2, <1>11, <2>2
  <2> QED
    BY <1>2, <1>11, <2>3, <2>4, <2>5, <2>6, NewInv DEF Progress
<1> QED
  BY <1>12, <1>13 DEF Insert, Goto, Return

\* Making room for an entry, and writing it.
LEMMA PlaceInv ==
  ASSUME Core, DirInv, Calm, Calm', scenario' = scenario,
         ChooseShort \/ ChooseFails \/ Fill \/ NextHasRoom \/ NextIsNone \/ NextFails
         \/ Grow \/ NoCluster \/ LinkNew \/ LinkUnflushed \/ ClearSector \/ Wiped
         \/ Insert
  PROVE  DirInv'
BY ChooseInv, FillInv, NextRoomInv, GrowInv, LinkInv, ClearInv, WipedInv, InsertInv

\* A cluster for a new directory.
LEMMA MakeAllocInv ==
  ASSUME Core, DirInv, scenario' = scenario, MakeAlloc \/ MakeUnflushed
  PROVE  DirInv'
<1>0. /\ call \in CallRecords /\ Progress(call, pos, buf, slots, fat)
      /\ call.at = "alloc" /\ slots' = slots /\ Kinds(call) /\ call.op = "mkdir"
      /\ Volumes(slots, fat, fat_dur, NewOf(call)) /\ fat \in [Clusters -> Links]
  BY DirFacts DEF MakeAlloc, MakeUnflushed, Progress, Kinds
<1>1. PICK c \in Clusters : Alloc(c) /\ (MakeAlloc => NewCluster(c))
  BY DEF MakeAlloc, MakeUnflushed, NewCluster
<1>2. fat' = [fat EXCEPT ![c] = Eoc] /\ fat[c] = 0 /\ Chains(fat)
  BY <1>0, <1>1 DEF Alloc, Volumes
<1>3. /\ Chains(fat') /\ First(fat', c)
      /\ \A x : First(fat, x) => First(fat', x) /\ x # c
  BY <1>0, <1>2, AllocKeeps
<1>4. \A g \in {fat', fat_dur} : Volumes(slots, fat', g, {})
  BY <1>0, <1>3 DEF Volumes
<1>5. CASE MakeUnflushed
  <2>1. call' = Idle /\ fat_dur' = fat_dur
    BY <1>5 DEF MakeUnflushed, Fails, Return
  <2>2. Volumes(slots', fat', fat_dur', {})
    BY <1>0, <1>4, <2>1
  <2> QED
    BY <1>0, <2>1, <2>2, ReturnInv
<1>6. CASE MakeAlloc
  <2>1. /\ fat_dur' = fat' /\ pos' = pos
        /\ call' = [call EXCEPT !.at = "dots", !.new = c,
                                !.entry = [NoEntry EXCEPT !.dir = TRUE, !.clust = c]]
    BY <1>1, <1>6 DEF MakeAlloc, NewCluster
  <2>2. /\ call'.at = "dots" /\ call'.op = "mkdir" /\ call'.new = c
        /\ call'.entry = [NoEntry EXCEPT !.dir = TRUE, !.clust = c]
    BY <1>0, <2>1 DEF CallRecords
  <2>3. call'.entry.dir /\ call'.entry.clust = c
    BY <2>2 DEF NoEntry
  <2>4. NewOf(call') = {c}
    BY <2>2, <2>3 DEF NewOf, Making
  <2>5. c \notin Named(slots)
    BY <1>0, <1>3 DEF Volumes
  <2>6. Volumes(slots', fat', fat_dur', NewOf(call'))
    BY <1>0, <1>3, <1>4, <2>1, <2>4, <2>5 DEF Volumes
  <2>7. Kinds(call') /\ Searching(call', pos', buf', slots', fat')
    BY <2>2, <2>3 DEF Kinds, Searching, Placing
  <2>8. Removing(call', pos', buf', slots', fat')
    BY <2>2 DEF Removing
  <2>9. Fresh(call', pos', slots', fat')
    BY <2>2, <2>3 DEF Fresh
  <2>10. Behind(call', pos', slots', pos'.eptr) /\ pos'.sect # -1
    <3>1. Behind(call, pos, slots, pos.eptr) /\ pos.sect # -1 /\ Used(fat, pos.lba[1])
      BY <1>0 DEF Progress, Room
    <3>2. pos.lba # <<c, 0>>
      <4>1. <<c, 0>>[1] = c
        OBVIOUS
      <4>2. ~Used(fat, c)
        BY <1>2, Places0 DEF Used
      <4> QED
        BY <3>1, <4>1, <4>2
    <3> QED
      BY <1>0, <2>1, <2>4, <3>1, <3>2 DEF Behind
  <2>11. Room(call', pos', buf', slots', fat')
    BY <2>2, <2>10 DEF Room
  <2> QED
    BY <1>0, <2>6, <2>7, <2>8, <2>9, <2>11, NewInv DEF Progress
<1> QED
  BY <1>5, <1>6

\* Its first sector.
LEMMA MakeDotsInv ==
  ASSUME Core, DirInv, scenario' = scenario, MakeDots
  PROVE  DirInv'
<1>0. /\ call \in CallRecords /\ Progress(call, pos, buf, slots, fat)
      /\ call.at = "dots" /\ UNCHANGED <<fat, fat_dur, pos>> /\ call.op = "mkdir"
      /\ Volumes(slots, fat, fat_dur, NewOf(call)) /\ slots \in [Sectors -> Sheets]
      /\ call' = [call EXCEPT !.at = "clear", !.n = 1] /\ call.new = call.entry.clust
      /\ NewOf(call) = {call.new}
  BY DirFacts DEF MakeDots, Write, Unread, Progress, Kinds, Fresh, NewOf, Making
<1> DEFINE b == [i \in Places |-> IF i < 2 THEN Dot ELSE End]
           l == <<call.new, 0>>
           sm == [slots EXCEPT ![l] = b]
<1>1. slots' = sm
  BY DEF MakeDots, Write
<1>2. b[0] = Dot
  BY Places0
<1>3. l \in Sectors
  <2>1. call.new \in Clusters
    BY <1>0 DEF Volumes, First
  <2> QED
    BY <2>1, SectorIs, Places0
<1>4. Keeps(slots[l], b)
  BY ClearKeeps
<1>5. sm[l] = b
  BY <1>0, <1>3
<1> HIDE DEF b
<1>6. Volumes(sm, fat, fat_dur, NewOf(call)) /\ Named(sm) \subseteq Named(slots)
  <2> HIDE DEF l
  <2> QED
    BY <1>0, <1>2, <1>3, <1>4, WriteSafe
<1> HIDE DEF sm
<1>7. /\ call'.at = "clear" /\ call'.op = "mkdir" /\ call'.new = call.new
      /\ call'.entry = call.entry /\ call'.n = 1
  BY <1>0 DEF CallRecords
<1>8. NewOf(call') = NewOf(call)
  BY <1>0, <1>7 DEF NewOf, Making
<1>9. Kinds(call')
  BY <1>0, <1>7 DEF Progress, Kinds, Making, Placing
<1>10. Searching(call', pos', buf', slots', fat') /\ Removing(call', pos', buf', slots', fat')
  BY <1>7 DEF Searching, Removing
<1>11. Room(call', pos', buf', slots', fat')
  BY <1>0, <1>1, <1>6, <1>7, <1>8 DEF Progress, Room, Behind
<1>12. Fresh(call', pos', slots', fat')
  BY <1>0, <1>1, <1>2, <1>5, <1>7, <1>8 DEF Fresh
<1> QED
  BY <1>0, <1>1, <1>6, <1>8, <1>9, <1>10, <1>11, <1>12, NewInv DEF Progress

\* The others are clear.
LEMMA ClearedInv ==
  ASSUME Core, DirInv, scenario' = scenario, Cleared
  PROVE  DirInv'
<1>0. /\ call \in CallRecords /\ Progress(call, pos, buf, slots, fat)
      /\ call.at = "clear" /\ UNCHANGED <<fat, fat_dur, slots, pos, buf>>
      /\ call.op = "mkdir" /\ call' = [call EXCEPT !.at = "reload", !.n = 0]
  BY DirFacts DEF Cleared, Progress, Kinds
<1>1. call'.at = "reload" /\ call'.op = "mkdir" /\ call'.entry = call.entry
  BY <1>0 DEF CallRecords
<1>2. NewOf(call') = NewOf(call)
  BY <1>0, <1>1 DEF NewOf, Making
<1>3. Kinds(call')
  BY <1>0, <1>1 DEF Progress, Kinds, Making, Placing
<1>4. Searching(call', pos', buf', slots, fat) /\ Removing(call', pos', buf', slots, fat)
  BY <1>1 DEF Searching, Removing
<1>5. Room(call', pos', buf', slots, fat)
  BY <1>0, <1>1, <1>2 DEF Progress, Room, Behind
<1>6. Fresh(call', pos', slots, fat)
  BY <1>0, <1>1, <1>2 DEF Progress, Fresh
<1> QED
  BY <1>0, <1>2, <1>3, <1>4, <1>5, <1>6, QuietInv

\* A cluster of a removed directory is freed.
LEMMA FreeInv ==
  ASSUME Core, DirInv, scenario' = scenario, FreeOne
  PROVE  DirInv'
<1>0. /\ call \in CallRecords /\ Progress(call, pos, buf, slots, fat)
      /\ call.at = "free" /\ UNCHANGED <<fat_dur, pos, buf>>
      /\ Volumes(slots, fat, fat_dur, NewOf(call)) /\ slots \in [Sectors -> Sheets]
      /\ fat \in [Clusters -> Links] /\ fat' = [fat EXCEPT ![call.new] = 0]
      /\ First(fat, call.new) /\ call.new \notin Named(slots) /\ Chains(fat)
      /\ NewOf(call) = {}
  BY DirFacts DEF FreeOne, Progress, Removing, Volumes, NewOf, Making, Placing
<1> DEFINE sm == [l \in Sectors |-> IF l[1] = call.new THEN Filled(Junk) ELSE slots[l]]
           next == fat[call.new]
<1>1. /\ slots' = sm
      /\ call' = IF next \in Clusters THEN [call EXCEPT !.new = next]
                                      ELSE [call EXCEPT !.at = "flush"]
  BY DEF FreeOne
<1>2. /\ Chains(fat') /\ \A x : First(fat, x) /\ x # call.new => First(fat', x)
      /\ next \in Clusters => First(fat', next) /\ ~First(fat, next)
  BY <1>0, FreeKeeps
<1>3. \A l \in Sectors : Keeps(slots[l], sm[l])
  <2> SUFFICES ASSUME NEW l \in Sectors PROVE Keeps(slots[l], sm[l])
    OBVIOUS
  <2>1. Keeps(slots[l], slots[l]) /\ Keeps(slots[l], Filled(Junk))
    BY <1>0, SelfKept, ClearKeeps
  <2> QED
    BY <2>1
<1>4. \A c \in Clusters : c # call.new => sm[<<c, 0>>] = slots[<<c, 0>>]
  <2> SUFFICES ASSUME NEW c \in Clusters, c # call.new
               PROVE  sm[<<c, 0>>] = slots[<<c, 0>>]
    OBVIOUS
  <2>1. <<c, 0>> \in Sectors /\ <<c, 0>>[1] = c
    BY SectorIs, Places0
  <2> QED
    BY <2>1
<1> HIDE DEF sm, next
<1>5. Named(sm) \subseteq Named(slots)
  BY <1>3, FewerNamed
<1>6. \A c \in Named(sm) : sm[<<c, 0>>][0] = slots[<<c, 0>>][0]
  BY <1>0, <1>4, <1>5 DEF Volumes, First
<1>7. Volumes(sm, fat, fat_dur, {})
  BY <1>0, <1>3, <1>6, FewerSafe
<1>8. Volumes(sm, fat', fat_dur, {})
  BY <1>0, <1>2, <1>5, <1>7 DEF Volumes
<1>9. PICK place \in {"free", "flush"} :
        /\ call'.at = place /\ call'.op = call.op /\ call'.entry = call.entry
        /\ place = "free" => call'.new = next /\ next \in Clusters
  <2>1. CASE next \in Clusters
    <3>1. /\ call'.at = "free" /\ call'.op = call.op /\ call'.entry = call.entry
          /\ call'.new = next
      BY <1>0, <1>1, <2>1 DEF CallRecords
    <3> QED
      BY <2>1, <3>1
  <2>2. CASE next \notin Clusters
    <3>1. /\ call'.at = "flush" /\ call'.op = call.op /\ call'.entry = call.entry
      BY <1>0, <1>1, <2>2 DEF CallRecords
    <3> QED
      BY <3>1
  <2> QED
    BY <2>1, <2>2
<1>10. NewOf(call') = {}
  BY <1>9 DEF NewOf, Making, Placing
<1>11. Kinds(call')
  BY <1>0, <1>9 DEF Progress, Kinds, Making, Placing
<1>12. Searching(call', pos', buf', slots', fat') /\ Room(call', pos', buf', slots', fat')
  BY <1>9 DEF Searching, Room
<1>13. Fresh(call', pos', slots', fat')
  BY <1>9, <1>10 DEF Fresh
<1>14. Removing(call', pos', buf', slots', fat')
  <2>1. place = "free" => First(fat', call'.new) /\ call'.new \notin Named(sm)
    BY <1>0, <1>2, <1>5, <1>9 DEF Volumes
  <2> QED
    BY <1>1, <1>9, <2>1 DEF Removing
<1> QED
  BY <1>0, <1>1, <1>5, <1>8, <1>10, <1>11, <1>12, <1>13, <1>14, NewInv DEF Progress

\* Making a directory, and freeing one.
LEMMA MakeInv ==
  ASSUME Core, DirInv, scenario' = scenario,
         MakeAlloc \/ MakeUnflushed \/ MakeDots \/ Cleared \/ FreeOne \/ FlushLast
  PROVE  DirInv'
<1>1. CASE FlushLast
  <2>1. /\ call' = Idle /\ fat' = fat /\ fat_dur' = fat /\ slots' = slots
    BY <1>1 DEF FlushLast, Return
  <2>2. Volumes(slots', fat', fat_dur', NewOf(call))
    BY <2>1, DirFacts DEF Volumes
  <2> QED
    BY <2>1, <2>2, ReturnInv
<1> QED
  BY <1>1, MakeAllocInv, MakeDotsInv, ClearedInv, FreeInv

\* A program makes a call.
LEMMA CallerInv ==
  ASSUME Core, DirInv, scenario' = scenario, Caller
  PROVE  DirInv'
<1>0. /\ Volumes(slots, fat, fat_dur, NewOf(call)) /\ StoreOK
      /\ DOMAIN pos = PosFields
  BY DirFacts, WorkFacts
<1>1. \A d \in LiveDirs : Used(fat, d)
  <2>1. LiveDirs \subseteq {Root} \cup Named(slots)
    BY SMTT(30), <1>0, LiveNamed
  <2> QED
    BY <1>0, <2>1 DEF Used, Volumes, First
<1>2. UNCHANGED <<fat, fat_dur, slots>>
  BY DEF Caller, NameCall, RenameCall, ListCall, ListNext, Start
<1>3. /\ Idle.entry = NoEntry /\ ~NoEntry.dir /\ NoEntry.clust = 0
      /\ {"op", "at", "dir", "entry"} \subseteq DOMAIN Idle
  BY DEF Idle, NoEntry
<1>4. ASSUME NEW op, NEW d \in LiveDirs, NEW n, NEW m, Start(op, d, n, m)
      PROVE  DirInv'
  <2>1. /\ call' = [Idle EXCEPT !.op = op, !.at = "scan", !.dir = d, !.name = n,
                                !.other = m]
        /\ pos' = DirOpen(pos, d)
    BY <1>4 DEF Start
  <2>2. /\ call'.op = op /\ call'.at = "scan" /\ call'.dir = d
        /\ call'.entry = NoEntry
    <3>1. /\ call'.op = op /\ call'.at = "scan" /\ call'.dir = d
          /\ call'.entry = Idle.entry
      BY <2>1 DEF Idle
    <3> QED
      BY <1>3, <3>1
  <2>3. pos'.clust = d /\ pos'.sect = -1 /\ pos'.eleft = 0
    BY <1>0, <2>1 DEF DirOpen, PosFields
  <2>4. NewOf(call') = {}
    BY <2>2 DEF NewOf, Making, Placing
  <2>5. Searching(call', pos', buf', slots, fat)
    BY <1>1, <2>2, <2>3 DEF Searching
  <2>6. Kinds(call')
    BY <1>3, <2>2 DEF Kinds, Making, Placing
  <2>7. Room(call', pos', buf', slots, fat) /\ Removing(call', pos', buf', slots, fat)
    BY <2>2 DEF Room, Removing
  <2>8. Fresh(call', pos', slots, fat)
    BY <2>2, <2>4 DEF Fresh
  <2> QED
    BY <1>2, <2>4, <2>5, <2>6, <2>7, <2>8, QuietInv
<1>5. CASE ListNext
  <2>1. call' = [Idle EXCEPT !.op = "list", !.at = "restore", !.dir = list.dir]
    BY <1>5 DEF ListNext
  <2>2. call'.op = "list" /\ call'.at = "restore"
    BY <2>1 DEF Idle
  <2>3. NewOf(call') = {}
    BY <2>2 DEF NewOf
  <2>4. /\ Searching(call', pos', buf', slots, fat) /\ Kinds(call')
        /\ Room(call', pos', buf', slots, fat) /\ Removing(call', pos', buf', slots, fat)
    BY <2>2 DEF Searching, Kinds, Placing, Room, Removing
  <2>5. Fresh(call', pos', slots, fat)
    BY <2>2, <2>3 DEF Fresh
  <2> QED
    BY <1>2, <2>3, <2>4, <2>5, QuietInv
<1>6. CASE NameCall
  <2>1. PICK op \in NameCalls, d \in LiveDirs, n \in scenario.names :
          Start(op, d, n, Garbled)
    BY <1>6 DEF NameCall
  <2> QED
    BY <1>4, <2>1
<1>7. CASE RenameCall
  <2>1. PICK d \in LiveDirs, n \in scenario.names, m \in scenario.names :
          Start("rename", d, n, m)
    BY <1>7 DEF RenameCall
  <2> QED
    BY <1>4, <2>1
<1>8. CASE ListCall
  <2>1. PICK d \in LiveDirs : Start("list", d, Garbled, Garbled)
    BY <1>8 DEF ListCall
  <2> QED
    BY <1>4, <2>1
<1> QED
  BY <1>5, <1>6, <1>7, <1>8 DEF Caller

\* A flush by another program, and a restart.
LEMMA RestartInv ==
  ASSUME Core, DirInv, scenario' = scenario, Sync \/ Crash
  PROVE  DirInv'
<1>0. /\ Volumes(slots, fat, fat_dur, NewOf(call))
      /\ Progress(call, pos, buf, slots, fat)
  BY DirFacts
<1>1. CASE Sync
  <2>1. /\ fat_dur' = fat /\ UNCHANGED <<fat, slots, pos, buf, call>>
    BY <1>1 DEF Sync
  <2>2. Volumes(slots', fat', fat_dur', NewOf(call')) /\ Named(slots') \subseteq Named(slots)
    BY <1>0, <2>1 DEF Volumes
  <2>3. Progress(call', pos', buf', slots', fat')
    BY <1>0, <2>1
  <2> QED
    BY <2>2, <2>3, NewInv
<1>2. CASE Crash
  <2>1. /\ fat' = fat_dur /\ UNCHANGED <<fat_dur, slots>> /\ call' = Idle
    BY <1>2 DEF Crash
  <2>2. Volumes(slots', fat', fat_dur', NewOf(call))
    BY <1>0, <2>1 DEF Volumes
  <2> QED
    BY <2>1, <2>2, ReturnInv
<1> QED
  BY <1>1, <1>2

\* An empty volume.
LEMMA InitDir == Init => DirInv
<1> SUFFICES ASSUME Init PROVE DirInv
  OBVIOUS
<1>1. /\ call = Idle /\ fat_dur = fat /\ fat \in [Clusters -> Links]
      /\ \A c \in Clusters : fat[c] = 0
  BY Places0 DEF Init
<1>2. \A l \in Sectors, i \in Places : slots[l][i].kind # "short"
  BY DEF Init, Filled, End, Junk
<1>3. DirPlaces(slots) = {}
  BY <1>2 DEF DirPlaces, NamesDir, Slot
<1>4. Named(slots) = {}
  BY <1>3 DEF Named
<1>5. Chains(fat)
  BY <1>1, Places0 DEF Chains
<1>6. Volumes(slots, fat, fat_dur, {})
  BY <1>1, <1>2, <1>3, <1>4, <1>5 DEF Volumes
<1> QED
  BY <1>1, <1>4, <1>6, IdleProgress DEF DirInv

\* A step of a call counts one failure at most.
LEMMA KernelFaults ==
  ASSUME Kernel
  PROVE  ReadFault \/ WriteFault \/ faults' = faults
<1>1. CASE Load \/ PassSector \/ ScanEnds \/ ScanFails
  BY <1>1 DEF Load, PassSector, ScanEnds, ScanFails
<1>2. CASE FoundAnswers \/ FoundNext \/ FoundToChange \/ FoundToRemove
           \/ FoundToRename \/ FoundRefused
  BY <1>2 DEF FoundAnswers, FoundNext, FoundToChange, FoundToRemove,
              FoundToRename, FoundRefused, ScanHits
<1>3. CASE Store \/ MarkDeleted \/ Reload \/ Restore \/ TransferFails
  BY <1>3 DEF Store, MarkDeleted, Write, Unread, Reload, Restore, TransferFails, Fault
<1>4. CASE ChooseShort \/ ChooseFails \/ Fill \/ NextHasRoom \/ NextIsNone
           \/ NextFails
  BY <1>4 DEF ChooseShort, ChooseFails, Fill, Write, Unread, NextHasRoom,
              NextIsNone, NextFails
<1>5. CASE Grow \/ NoCluster \/ LinkNew \/ LinkUnflushed \/ ClearSector
           \/ Wiped \/ Insert
  BY <1>5 DEF Grow, NoCluster, LinkNew, LinkUnflushed, ClearSector, Write, Unread,
              Wiped, Insert
<1>6. CASE MakeAlloc \/ MakeUnflushed \/ MakeDots \/ Cleared \/ FreeOne
           \/ FlushLast
  BY <1>6 DEF MakeAlloc, MakeUnflushed, MakeDots, Write, Unread, Cleared, FreeOne,
              FlushLast
<1> QED
  BY <1>1, <1>2, <1>3, <1>4, <1>5, <1>6 DEF Kernel

\* A read that has failed has failed.
LEMMA ReadsCount ==
  ASSUME faults \in Counts, ReadFault \/ WriteFault \/ faults' = faults
  PROVE  faults'.read = 0 => faults.read = 0
BY DEF Counts, ReadFault, WriteFault

\* Every step keeps directories safe, as long as all reads succeed.
LEMMA NextDir == Core /\ (Calm => DirInv) /\ [Next]_vars => (Calm => DirInv)'
<1> SUFFICES ASSUME Core, Calm => DirInv, [Next]_vars, Calm' PROVE DirInv'
  OBVIOUS
<1>1. CASE UNCHANGED vars
  BY <1>1 DEF vars, Calm, DirInv
<1>2. CASE ~exposed /\ (Caller \/ Kernel \/ Sync \/ Crash) /\ Watch
  <2>1. scenario' = scenario /\ (Caller \/ Kernel \/ Sync \/ Crash)
    BY <1>2 DEF Watch
  <2>2. faults'.read = 0 => faults.read = 0
    <3>0. faults \in Counts
      BY DEF Core
    <3>1. CASE Crash
      BY SMTT(30), <3>0, <3>1 DEF Crash, Counts
    <3>2. CASE Caller \/ Sync
      BY <3>2 DEF Caller, NameCall, RenameCall, ListCall, ListNext, Start, Sync
    <3>3. CASE Kernel
      BY <3>0, <3>3, KernelFaults, ReadsCount
    <3> QED
      BY <2>1, <3>1, <3>2, <3>3
  <2>3. Calm /\ DirInv
    BY <2>1, <2>2 DEF Calm
  <2> QED
    BY <2>1, <2>3, ScanInv, FoundInv, ChangeInv, PlaceInv, MakeInv, CallerInv,
       RestartInv DEF Kernel
<1>3. CASE Unfollowed
  BY <1>1, <1>3 DEF Unfollowed
<1> QED
  BY <1>1, <1>2, <1>3 DEF Next

\* However writes fail and the machine restarts, also while a directory grows, and
\* until what a former owner left in a cluster can be read as entries: every
\* directory that a path leads to keeps its first cluster, on the disk too,
\* begins with "." and ".." and has one name.  dir_create clears and flushes a
\* cluster before it names it, dir_remove takes the name away before it frees
\* the chain, and nothing else writes there.  A directory that is renamed has
\* two names for a while, so programs do not do both.
THEOREM DirsSafeAlways ==
  Spec => [](~({"mkdir", "rename"} \subseteq scenario.calls) => DirsSafe)
<1>1. Init => Core /\ (Calm => DirInv)
  BY InitTypes, InitDir DEF Types
<1>2. Core /\ (Calm => DirInv)
        => (~({"mkdir", "rename"} \subseteq scenario.calls) => DirsSafe)
  <2> SUFFICES ASSUME Core, Calm => DirInv,
                      ~({"mkdir", "rename"} \subseteq scenario.calls)
               PROVE  DirsSafe
    OBVIOUS
  <2>1. CASE faults.read = 0
    <3>1. Volumes(slots, fat, fat_dur, NewOf(call)) /\ StoreOK
      BY <2>1, WorkFacts DEF Calm, DirInv
    <3> QED
      BY <3>1, SafeNow
  <2>2. CASE faults.read # 0
    BY <2>2 DEF DirsSafe
  <2> QED
    BY <2>1, <2>2
<1> QED
  BY <1>1, <1>2, NextCore, NextDir, PTL DEF Spec

-----------------------------------------------------------------------------
(* No scan meets junk.                                                     *)

\* A sector with nothing in it that a former owner left.
Clean(b) == \A i \in Places : b[i].kind # "junk"

\* Sectors in use that are still to be cleared.
Dirt(c, p) ==
  CASE c.at \in {"dots", "link"} -> {l \in Sectors : l[1] = c.new}
    [] c.at = "clear" -> {l \in Sectors : l[1] = c.new /\ l[2] >= c.n}
    [] c.at = "wipe" -> {l \in Sectors : l[1] = c.new /\ (l[2] = 0 \/ l[2] >= c.n)}
    [] c.at = "insert" -> {p.lba}
    [] OTHER -> {}

\* All other sectors in use are clean.
Spotless(dirt, sl, f) ==
  \A l \in Sectors \ dirt : Used(f, l[1]) => Clean(sl[l])

\* The sectors that a call goes back to are clean, and the cluster it goes on
\* from is in use.
Handled(c, p, b, sl, f) ==
  /\ c.at \in {"store", "mark", "alloc", "dots", "clear", "reload", "short", "fill"}
       => Clean(sl[p.lba])
  /\ c.at \in {"scanto", "empty"} \/ (c.op = "rename" /\ c.at \in Placed)
       => Clean(sl[c.lba])
  /\ c.at = "insert" => Clean(b)
  /\ c.at \in {"alloc", "dots", "clear", "short", "fill", "next", "grow", "link"}
       \/ (c.at = "reload" /\ c.op = "mkdir") => Used(f, p.clust)
  /\ c.at = "wipe" => c.new \in Clusters

CleanInv == /\ Spotless(Dirt(call, pos), slots, fat)
            /\ Handled(call, pos, buf, slots, fat)

\* Nothing has failed, and no directory is renamed.
Quiet == faults = NoFaults /\ ~({"mkdir", "rename"} \subseteq scenario.calls)

\* What changes a sector leaves it clean.
LEMMA StillClean ==
  ASSUME NEW b \in Sheets, Clean(b)
  PROVE  /\ \A ro \in BOOLEAN : \A o : Clean([b EXCEPT ![o].ro = ro])
         /\ \A o : Clean(Marked(b, o))
         /\ \A o : Clean([i \in Places |-> IF i < o THEN b[i] ELSE Deleted])
<1>1. ASSUME NEW ro \in BOOLEAN, NEW o
      PROVE  Clean([b EXCEPT ![o].ro = ro])
  <2> DEFINE m == [b EXCEPT ![o].ro = ro]
  <2>1. m = [b EXCEPT ![o] = [b[o] EXCEPT !.ro = ro]]
    OBVIOUS
  <2>2. \A i \in Places : m[i] = IF i = o THEN [b[o] EXCEPT !.ro = ro] ELSE b[i]
    BY <2>1 DEF Sheets
  <2>3. [b[o] EXCEPT !.ro = ro].kind = b[o].kind
    OBVIOUS
  <2> HIDE DEF m
  <2> QED
    BY <2>2, <2>3 DEF Clean
<1>2. ASSUME NEW o PROVE Clean(Marked(b, o))
  BY DEF Marked, Clean, Deleted
<1>3. ASSUME NEW o PROVE Clean([i \in Places |-> IF i < o THEN b[i] ELSE Deleted])
  BY DEF Clean, Deleted
<1> QED
  BY <1>1, <1>2, <1>3

\* And what clears one.
LEMMA NowClean ==
  /\ Clean(Filled(End))
  /\ Clean([i \in Places |-> IF i < 2 THEN Dot ELSE End])
BY DEF Clean, Filled, End, Dot

\* A sector is written: one more is clean.
LEMMA WriteClean ==
  ASSUME NEW sl \in [Sectors -> Sheets], NEW l, NEW b, Clean(b),
         NEW f, NEW dirt, NEW less, Spotless(dirt, sl, f), dirt \subseteq less \cup {l}
  PROVE  /\ Spotless(less, [sl EXCEPT ![l] = b], f)
         /\ \A m \in Sectors : Clean(sl[m]) => Clean([sl EXCEPT ![l] = b][m])
<1> DEFINE sm == [sl EXCEPT ![l] = b]
<1>1. \A m \in Sectors : sm[m] = IF m = l THEN b ELSE sl[m]
  OBVIOUS
<1> HIDE DEF sm
<1>2. \A m \in Sectors : Clean(sl[m]) => Clean(sm[m])
  BY <1>1
<1>3. Spotless(less, sm, f)
  BY <1>1 DEF Spotless
<1> QED
  BY <1>2, <1>3 DEF sm

\* More may be dirty.
LEMMA MoreDirt ==
  ASSUME NEW sl, NEW f, NEW dirt, NEW more, Spotless(dirt, sl, f), dirt \subseteq more
  PROVE  Spotless(more, sl, f)
BY DEF Spotless

\* Where dirt is.
LEMMA DirtIs ==
  ASSUME NEW c, NEW p
  PROVE  /\ c.at \notin {"dots", "link", "clear", "wipe", "insert"} => Dirt(c, p) = {}
         /\ c.at \in {"dots", "link"} => Dirt(c, p) = {l \in Sectors : l[1] = c.new}
         /\ c.at = "clear" => Dirt(c, p) = {l \in Sectors : l[1] = c.new /\ l[2] >= c.n}
         /\ c.at = "wipe" =>
              Dirt(c, p) = {l \in Sectors : l[1] = c.new /\ (l[2] = 0 \/ l[2] >= c.n)}
         /\ c.at = "insert" => Dirt(c, p) = {p.lba}
BY DEF Dirt

\* A call returns.
LEMMA IdleClean ==
  ASSUME call' = Idle, Spotless({}, slots', fat')
  PROVE  CleanInv'
<1>1. call'.at = "" /\ call'.op = "idle"
  BY DEF Idle
<1>2. Dirt(call', pos') = {}
  BY <1>1, DirtIs
<1>3. Handled(call', pos', buf', slots', fat')
  BY <1>1 DEF Handled, Placed, Placing
<1> QED
  BY <1>2, <1>3 DEF CleanInv

\* The sector that a scan is on.
LEMMA ScanClean ==
  ASSUME Core, DirInv, CleanInv, Scanning, call.op # "list", pos.sect # -1
  PROVE  Clean(slots[pos.lba]) /\ Used(fat, pos.clust)
<1>1. call.at \in {"scan", "scanto", "empty"} /\ call.op # "idle"
      /\ Used(fat, pos.clust) /\ pos.lba[1] = pos.clust
  BY ScanStage
<1>2. Dirt(call, pos) = {}
  BY <1>1, DirtIs
<1>3. pos.lba \in Sectors
  BY DirFacts
<1> QED
  BY <1>1, <1>2, <1>3 DEF CleanInv, Spotless

\* The scan ends.
LEMMA NotThereClean ==
  ASSUME Core, DirInv, CleanInv, Scanning, UNCHANGED <<fat, slots>>,
         \E p : /\ p.lba = pos.lba /\ p.clust = pos.clust /\ DOMAIN p = PosFields
                /\ NotThere(p, buf),
         call.op # "list" => pos.sect # -1
  PROVE  CleanInv'
<1>0. /\ call \in CallRecords /\ call.at \in {"scan", "scanto", "empty"} /\ Kinds(call)
      /\ call.op # "idle"
  BY DirFacts, ScanStage
<1>1. PICK p : /\ p.lba = pos.lba /\ p.clust = pos.clust /\ DOMAIN p = PosFields
               /\ NotThere(p, buf)
  OBVIOUS
<1>2. Spotless({}, slots', fat')
  BY <1>0, DirtIs DEF CleanInv
<1>3. CASE call' = Idle
  BY <1>2, <1>3, IdleClean
<1>4. CASE Adding /\ Goto(IF call.op = "mkdir" THEN "alloc" ELSE "short") /\ pos' = p
  <2> DEFINE place == IF call.op = "mkdir" THEN "alloc" ELSE "short"
  <2>1. call' = [call EXCEPT !.at = place]
    BY <1>4 DEF Goto
  <2>2. place \in {"alloc", "short"}
    OBVIOUS
  <2> HIDE DEF place
  <2>3. call'.at = place /\ call'.op = call.op /\ call'.lba = call.lba
    BY <1>0, <2>1 DEF CallRecords
  <2>4. call.op # "list" /\ (call.op = "rename" => call.at = "scanto")
    BY <1>0, <1>4 DEF Adding, Kinds
  <2>5. Clean(slots[pos.lba]) /\ Used(fat, pos.clust)
    BY <2>4, ScanClean
  <2>6. call.op = "rename" => Clean(slots[call.lba])
    BY <2>4 DEF CleanInv, Handled
  <2>7. Handled(call', pos', buf', slots', fat')
    BY <1>1, <1>4, <2>2, <2>3, <2>5, <2>6 DEF Handled
  <2>8. Dirt(call', pos') = {}
    BY <2>2, <2>3, DirtIs
  <2> QED
    BY <1>2, <2>7, <2>8 DEF CleanInv
<1>5. CASE call.at = "empty" /\ Goto("reload") /\ pos' = [p EXCEPT !.lba = call.lba]
  <2>1. /\ call'.at = "reload" /\ call'.op = call.op /\ pos'.lba = call.lba
    BY <1>0, <1>1, <1>5 DEF Goto, CallRecords, PosFields
  <2>2. Clean(slots[call.lba]) /\ call.op = "rmdir"
    BY <1>0, <1>5 DEF CleanInv, Handled, Kinds
  <2>3. Handled(call', pos', buf', slots', fat')
    BY <2>1, <2>2 DEF Handled, Placed, Placing
  <2>4. Dirt(call', pos') = {}
    BY <2>1, DirtIs
  <2> QED
    BY <1>2, <2>3, <2>4 DEF CleanInv
<1> QED
  BY <1>1, <1>3, <1>4, <1>5 DEF NotThere, Return, Fails

\* Scanning.
LEMMA ScanTidy ==
  ASSUME Core, DirInv, CleanInv, Quiet, Quiet',
         Load \/ PassSector \/ ScanEnds \/ ScanFails
  PROVE  CleanInv'
<1>0. /\ Scanning /\ UNCHANGED <<fat, slots>> /\ PosIn(pos, 0)
      /\ call.at \in {"scan", "scanto", "empty"} /\ Kinds(call)
      /\ call.op \notin {"idle", "list"} =>
           /\ pos.sect = -1 => pos.eleft = 0
  <2>1. Scanning /\ UNCHANGED <<fat, slots>>
    BY DEF Load, PassSector, ScanEnds, ScanFails
  <2> QED
    BY <2>1, ScanFacts, ScanStage
<1>1. CASE Load \/ PassSector
  <2>1. call' = call
    BY <1>1 DEF Load, PassSector
  <2>2. Dirt(call', pos') = {} /\ Dirt(call, pos) = {}
    BY <1>0, <2>1, DirtIs
  <2>3. Handled(call', pos', buf', slots', fat')
    <3>1. call.op # "rename" \/ call.at \notin Placed
      BY <1>0 DEF Placed, Placing
    <3>2. Handled(call, pos, buf, slots, fat)
      BY DEF CleanInv
    <3> QED
      BY <1>0, <2>1, <3>1, <3>2 DEF Handled
  <2> QED
    BY <1>0, <2>2, <2>3 DEF CleanInv
<1>2. CASE ScanEnds
  <2>1. CASE EndsHere # {} /\ NotThere(At(Min(EndsHere)), buf)
    <3> DEFINE i == Min(EndsHere)
    <3>1. i \in Places /\ pos.eleft # 0
      <4>1. WorkOK
        BY WorkFacts
      <4> QED
        BY <2>1, <4>1, EndIs
    <3>2. i \in 0 .. DirEntPerSec
      BY <3>1, Places0 DEF Places
    <3> HIDE DEF i
    <3> DEFINE p == At(i)
    <3>3. p.lba = pos.lba /\ p.clust = pos.clust /\ DOMAIN p = PosFields
      BY <1>0, <3>2, AtIn DEF PosIn
    <3>4. NotThere(p, buf)
      BY <2>1 DEF i
    <3>5. call.op # "list" => pos.sect # -1
      BY <1>0, <3>1, ScanFacts
    <3> HIDE DEF p
    <3> QED
      BY <1>0, <3>3, <3>4, <3>5, NotThereClean
  <2>2. CASE NoMore(pos) /\ NotThere([pos EXCEPT !.sect = @ + 1], buf)
    <3> DEFINE p == [pos EXCEPT !.sect = @ + 1]
    <3>1. DOMAIN p = PosFields /\ p.lba = pos.lba /\ p.clust = pos.clust
      BY <1>0 DEF PosIn, PosFields
    <3>2. pos.sect # -1
      BY <2>2, Places0 DEF NoMore, ClusterDone
    <3>3. NotThere(p, buf)
      BY <2>2
    <3> HIDE DEF p
    <3> QED
      BY <1>0, <3>1, <3>2, <3>3, NotThereClean
  <2> QED
    BY <1>2, <2>1, <2>2 DEF ScanEnds
<1>3. CASE ScanFails
  <2>1. faults \in Counts
    BY DEF Core
  <2> QED
    BY <1>3, <2>1 DEF ScanFails, ReadFault, Quiet, NoFaults, Counts
<1> QED
  BY <1>1, <1>2, <1>3

\* An entry is found.
LEMMA FoundTidy ==
  ASSUME Core, DirInv, CleanInv,
         FoundAnswers \/ FoundNext \/ FoundToChange \/ FoundToRemove
         \/ FoundToRename \/ FoundRefused
  PROVE  CleanInv'
<1>0. call \in CallRecords
  BY DirFacts
<1>1. ScanHits /\ Scanning /\ UNCHANGED <<fat, slots>>
  BY DEF FoundAnswers, FoundNext, FoundToChange, FoundToRemove, FoundToRename,
         FoundRefused, ScanHits
<1>2. Kinds(call) /\ call.op # "idle" /\ call.at \in {"scan", "scanto", "empty"}
  BY <1>1, ScanStage
<1>3. Spotless({}, slots', fat')
  BY <1>1, <1>2, DirtIs DEF CleanInv
<1>4. CASE FoundAnswers \/ FoundNext \/ FoundRefused
  <2>1. call' = Idle
    BY <1>4 DEF FoundAnswers, FoundNext, FoundRefused, Return, Fails
  <2> QED
    BY <1>3, <2>1, IdleClean
<1>5. CASE FoundToChange \/ FoundToRemove \/ FoundToRename
  <2>1. call.op # "list" /\ call.at = "scan"
    BY <1>5 DEF FoundToChange, FoundToRemove, FoundToRename
  <2>2. pos.eleft # 0
    BY <1>1 DEF ScanHits, Hits
  <2>3. Clean(slots[pos.lba])
    BY <1>1, <1>2, <2>1, <2>2, ScanStage, ScanClean
  <2>4. PICK place \in {"store", "mark", "empty", "scanto"} :
          /\ call'.at = place /\ call'.op = call.op /\ call'.lba = pos.lba
          /\ place \in {"store", "mark"} => pos' = pos
          /\ place \in {"store", "mark"} => call.op # "rename"
    <3>1. \A place : /\ Keep(place).at = place /\ Keep(place).op = call.op
                     /\ Keep(place).lba = pos.lba /\ DOMAIN Keep(place) = DOMAIN call
      BY <1>0 DEF Keep, CallRecords
    <3>2. CASE FoundToChange
      <4>1. PICK place \in {"store", "mark"} :
              call' = Keep(place) /\ pos' = pos /\ call.op # "rename"
        BY <3>2 DEF FoundToChange
      <4> QED
        BY <3>1, <4>1
    <3>3. CASE FoundToRemove
      <4>1. call' = Keep("empty")
        BY <3>3 DEF FoundToRemove
      <4> QED
        BY <3>1, <4>1
    <3>4. CASE FoundToRename
      <4> DEFINE k == Keep("scanto")
      <4>1. call' = [k EXCEPT !.name = call.other, !.other = call.name]
        BY <3>4 DEF FoundToRename
      <4>2. /\ k.at = "scanto" /\ k.op = call.op /\ k.lba = pos.lba
        BY <3>1
      <4> HIDE DEF k
      <4>3. call'.at = k.at /\ call'.op = k.op /\ call'.lba = k.lba
        BY <4>1
      <4> QED
        BY <4>2, <4>3
    <3> QED
      BY <1>5, <3>2, <3>3, <3>4
  <2>5. Handled(call', pos', buf', slots', fat')
    BY <1>1, <2>3, <2>4 DEF Handled, Placed, Placing
  <2>6. Dirt(call', pos') = {}
    BY <2>4, DirtIs
  <2> QED
    BY <1>3, <2>5, <2>6 DEF CleanInv
<1> QED
  BY <1>4, <1>5

\* A sector that is in the buffer is changed, or read.
LEMMA ChangeTidy ==
  ASSUME Core, DirInv, CleanInv, Quiet, Quiet',
         Store \/ MarkDeleted \/ Reload \/ Restore \/ TransferFails
  PROVE  CleanInv'
<1>0. /\ call \in CallRecords /\ Progress(call, pos, buf, slots, fat)
      /\ slots \in [Sectors -> Sheets] /\ buf \in Sheets
      /\ faults \in Counts
  BY DirFacts DEF Core
<1>1. CASE Store \/ MarkDeleted
  <2>1. call.at \in {"store", "mark"} /\ fat' = fat
    BY <1>1 DEF Store, MarkDeleted, Write, Unread
  <2>2. Clean(buf) /\ Spotless({}, slots, fat)
    BY <1>0, <2>1, DirtIs DEF Progress, Removing, CleanInv, Handled
  <2>3. PICK b : Clean(b) /\ slots' = [slots EXCEPT ![pos.lba] = b]
    <3>1. CASE Store
      <4>1. PICK ro \in BOOLEAN :
              slots' = [slots EXCEPT ![pos.lba] = [buf EXCEPT ![call.entry.off].ro = ro]]
        BY <3>1 DEF Store, Write
      <4>2. Clean([buf EXCEPT ![call.entry.off].ro = ro])
        BY <1>0, <2>2, StillClean
      <4> QED
        BY <4>1, <4>2
    <3>2. CASE MarkDeleted
      <4>1. slots' = [slots EXCEPT ![pos.lba] = Marked(buf, call.entry.off)]
        BY <3>2 DEF MarkDeleted, Write
      <4>2. Clean(Marked(buf, call.entry.off))
        BY <1>0, <2>2, StillClean
      <4> QED
        BY <4>1, <4>2
    <3> QED
      BY <1>1, <3>1, <3>2
  <2>4. {} \subseteq {} \cup {pos.lba}
    OBVIOUS
  <2>5. Spotless({}, slots', fat')
    BY <1>0, <2>1, <2>2, <2>3, <2>4, WriteClean
  <2>6. CASE call' = Idle
    BY <2>5, <2>6, IdleClean
  <2>7. CASE call.op # "rename"
             /\ call' = [call EXCEPT !.new = call.entry.clust,
                           !.at = IF call.entry.clust = 0 THEN "flush" ELSE "free"]
    <3>1. call'.at \in {"flush", "free"}
      BY <1>0, <2>7 DEF CallRecords
    <3>2. Dirt(call', pos') = {}
      BY <3>1, DirtIs
    <3>3. Handled(call', pos', buf', slots', fat')
      BY <3>1 DEF Handled, Placed, Placing
    <3> QED
      BY <2>5, <3>2, <3>3 DEF CleanInv
  <2> QED
    BY <1>1, <2>6, <2>7 DEF Store, MarkDeleted, Return
<1>2. CASE Reload
  <2>1. /\ call' = [call EXCEPT !.at = IF call.op = "mkdir" THEN "short" ELSE "mark"]
        /\ call.at = "reload" /\ UNCHANGED <<fat, slots, pos>>
    BY <1>2 DEF Reload, Goto
  <2>2. /\ call'.at \in {"short", "mark"} /\ call'.op = call.op
        /\ call'.at = "short" => call.op = "mkdir"
    BY <1>0, <2>1 DEF CallRecords
  <2>3. Dirt(call', pos') = {} /\ Dirt(call, pos) = {}
    BY <2>1, <2>2, DirtIs
  <2>4. Handled(call', pos', buf', slots', fat')
    BY <2>1, <2>2 DEF CleanInv, Handled, Placed, Placing
  <2> QED
    BY <2>1, <2>3, <2>4 DEF CleanInv
<1>3. CASE Restore
  <2>1. /\ call' = [call EXCEPT !.at = "scan"] /\ call.at = "restore"
        /\ UNCHANGED <<fat, slots>>
    BY <1>3 DEF Restore, Goto
  <2>2. call'.at = "scan"
    BY <1>0, <2>1 DEF CallRecords
  <2>3. Dirt(call', pos') = {} /\ Dirt(call, pos) = {}
    BY <2>1, <2>2, DirtIs
  <2>4. Handled(call', pos', buf', slots', fat')
    BY <2>2 DEF Handled, Placed, Placing
  <2> QED
    BY <2>1, <2>3, <2>4 DEF CleanInv
<1>4. CASE TransferFails
  <2>1. ReadFault \/ WriteFault
    BY <1>4 DEF TransferFails, Fault
  <2> QED
    BY <1>0, <2>1 DEF ReadFault, WriteFault, Quiet, NoFaults, Counts
<1> QED
  BY <1>1, <1>2, <1>3, <1>4

\* What a placing call needs to go on.
LEMMA PlaceClean ==
  ASSUME CleanInv, call.at \in Placed, call'.op = call.op, call'.lba = call.lba,
         \A m \in Sectors : Clean(slots[m]) => Clean(slots'[m]), call.lba \in Sectors
  PROVE  call'.op = "rename" => Clean(slots'[call'.lba])
BY DEF CleanInv, Handled

\* The short name is chosen; the rest of a sector is marked deleted.
LEMMA ChooseTidy ==
  ASSUME Core, DirInv, CleanInv, ChooseShort \/ Fill
  PROVE  CleanInv'
<1>0. /\ call \in CallRecords /\ Progress(call, pos, buf, slots, fat)
      /\ call.at \in {"short", "fill"} /\ fat' = fat
      /\ slots \in [Sectors -> Sheets] /\ buf \in Sheets /\ pos.lba \in Sectors
      /\ call.lba \in Sectors
  BY DirFacts DEF ChooseShort, Fill, Write, Unread, CallRecords
<1>1. /\ Clean(slots[pos.lba]) /\ buf = slots[pos.lba] /\ Used(fat, pos.clust)
      /\ Spotless({}, slots, fat) /\ call.at \in Placed
  BY <1>0, DirtIs DEF CleanInv, Handled, Progress, Room, Placed, Placing
<1>2. CASE Fill
  <2> DEFINE b == [i \in Places |-> IF i < pos.eptr THEN buf[i] ELSE Deleted]
  <2>1. /\ slots' = [slots EXCEPT ![pos.lba] = b] /\ call' = [call EXCEPT !.at = "next"]
        /\ pos' = pos
    BY <1>2 DEF Fill, Write, Goto
  <2>2. Clean(b)
    BY <1>0, <1>1, StillClean
  <2> HIDE DEF b
  <2>3. call'.at = "next" /\ call'.op = call.op /\ call'.lba = call.lba
    BY <1>0, <2>1 DEF CallRecords
  <2>4. {} \subseteq {} \cup {pos.lba}
    OBVIOUS
  <2>5. /\ Spotless({}, slots', fat)
        /\ \A m \in Sectors : Clean(slots[m]) => Clean(slots'[m])
    BY <1>0, <1>1, <2>1, <2>2, <2>4, WriteClean
  <2>6. call'.op = "rename" => Clean(slots'[call'.lba])
    BY <1>0, <1>1, <2>3, <2>5, PlaceClean
  <2>7. Handled(call', pos', buf', slots', fat')
    BY <1>0, <1>1, <2>1, <2>3, <2>6 DEF Handled
  <2>8. Dirt(call', pos') = {}
    BY <2>3, DirtIs
  <2> QED
    BY <1>0, <2>5, <2>7, <2>8 DEF CleanInv
<1>3. CASE ChooseShort
  <2>0. slots' = slots /\ call.at = "short"
    BY <1>3 DEF ChooseShort
  <2>1. CASE call' = Idle
    BY <1>0, <1>1, <2>0, <2>1, IdleClean
  <2>2. CASE call' # Idle
    <3>1. PICK place \in {"short", "fill", "insert"} :
            /\ call'.at = place /\ call'.op = call.op /\ call'.lba = call.lba
            /\ pos' = pos /\ buf' = slots[pos.lba]
      <4>1. CASE TakeShort /\ pos' = pos /\ (buf' = buf \/ buf' = slots[pos.lba])
        <5>1. PICK place \in {"fill", "insert"} :
                call' = [call EXCEPT !.short = Candidate, !.off = pos.eptr, !.at = place]
          BY <4>1 DEF TakeShort
        <5>2. call'.at = place /\ call'.op = call.op /\ call'.lba = call.lba
          BY <1>0, <5>1 DEF CallRecords
        <5> QED
          BY <1>1, <4>1, <5>2
      <4>2. CASE TryNext /\ buf' = slots[pos.lba]
        <5>1. call' = [call EXCEPT !.n = @ + 1] /\ pos' = pos
          BY <2>2, <4>2 DEF TryNext
        <5>2. call'.at = "short" /\ call'.op = call.op /\ call'.lba = call.lba
          BY <1>0, <2>0, <5>1 DEF CallRecords
        <5> QED
          BY <4>2, <5>1, <5>2
      <4> QED
        BY <1>3, <4>1, <4>2 DEF ChooseShort
    <3>2. call'.op = "rename" => Clean(slots'[call'.lba])
      BY <1>0, <1>1, <2>0, <3>1, PlaceClean
    <3>3. Handled(call', pos', buf', slots', fat')
      BY <1>0, <1>1, <2>0, <3>1, <3>2 DEF Handled
    <3>4. Spotless(Dirt(call', pos'), slots', fat')
      <4>1. {} \subseteq Dirt(call', pos')
        OBVIOUS
      <4> QED
        BY <1>0, <1>1, <2>0, <4>1, MoreDirt
    <3> QED
      BY <3>3, <3>4 DEF CleanInv
  <2> QED
    BY <2>1, <2>2
<1> QED
  BY <1>2, <1>3

\* The next sector, or none.
LEMMA NextTidy ==
  ASSUME Core, DirInv, CleanInv, Quiet, Quiet',
         NextHasRoom \/ NextIsNone \/ NextFails \/ NoCluster \/ ChooseFails
  PROVE  CleanInv'
<1>0. /\ call \in CallRecords /\ faults \in Counts /\ fat' = fat /\ slots' = slots
      /\ fat \in [Clusters -> Links] /\ DOMAIN pos = PosFields /\ pos.clust \in Dirs
      /\ Volumes(slots, fat, fat_dur, NewOf(call)) /\ PosIn(pos, Over(call.at))
      /\ call.lba \in Sectors
  BY DirFacts, WorkFacts DEF Core, NextHasRoom, NextIsNone, NextFails, NoCluster,
     ChooseFails, CallRecords
<1>1. CASE NextFails \/ ChooseFails
  BY <1>0, <1>1 DEF NextFails, ChooseFails, ReadFault, Quiet, NoFaults, Counts
<1>2. CASE NextHasRoom
  <2>1. /\ call.at = "next" /\ ~NoMore(pos) /\ pos' = NextSector(pos)
        /\ buf' = slots[NextSector(pos).lba]
        /\ call' = [call EXCEPT !.at = "insert", !.off = 0]
    BY <1>2 DEF NextHasRoom
  <2>2. call'.at = "insert" /\ call'.op = call.op /\ call'.lba = call.lba
    BY <1>0, <2>1 DEF CallRecords
  <2>3. Used(fat, pos.clust) /\ Spotless({}, slots, fat) /\ call.at \in Placed
    BY <2>1, DirtIs DEF CleanInv, Handled, Placed, Placing
  <2> DEFINE q == NextSector(pos)
  <2>4. q.lba \in Sectors /\ q.lba = <<q.clust, q.sect>>
    BY <1>0, <2>1, NextIn
  <2>5. q.clust = IF ClusterDone(pos) THEN Link(fat, pos.clust) ELSE pos.clust
    BY <1>0 DEF NextSector, PosFields
  <2>6. Used(fat, q.clust)
    <3>1. CASE ClusterDone(pos)
      <4>1. pos.clust \in Clusters /\ q.clust = fat[pos.clust]
        BY <1>0, <2>5, <3>1 DEF ClusterDone, Dirs, Link
      <4>2. fat[pos.clust] # 0 /\ fat[pos.clust] # Eoc
        BY <2>1, <2>3, <3>1, <4>1, Places0 DEF Used, NoMore, Link, ClusterDone
      <4>3. q.clust \in Clusters /\ fat[q.clust] # 0
        BY <1>0, <4>1, <4>2 DEF Links, Volumes, Chains
      <4> QED
        BY <4>3 DEF Used
    <3>2. CASE ~ClusterDone(pos)
      BY <2>3, <2>5, <3>2
    <3> QED
      BY <3>1, <3>2
  <2>7. q.lba[1] = q.clust
    BY <2>4
  <2>8. Clean(slots[q.lba])
    BY <2>3, <2>4, <2>6, <2>7 DEF Spotless
  <2>9. call'.op = "rename" => Clean(slots'[call'.lba])
    BY <1>0, <2>2, <2>3, PlaceClean
  <2>10. Handled(call', pos', buf', slots', fat')
    BY <2>1, <2>2, <2>8, <2>9 DEF Handled
  <2>11. Spotless(Dirt(call', pos'), slots', fat')
    <3>1. {} \subseteq Dirt(call', pos')
      OBVIOUS
    <3> QED
      BY <1>0, <2>3, <3>1, MoreDirt
  <2> QED
    BY <2>10, <2>11 DEF CleanInv
<1>3. CASE NextIsNone \/ NoCluster
  <2>1. call.at \in {"next", "alloc", "grow"} /\ Spotless({}, slots, fat)
    BY <1>3, DirtIs DEF NextIsNone, NoCluster, CleanInv
  <2>2. CASE call' = Idle
    BY <1>0, <2>1, <2>2, IdleClean
  <2>3. CASE /\ call.at = "next" /\ call' = [call EXCEPT !.at = "grow"]
             /\ pos' = [pos EXCEPT !.sect = @ + 1]
    <3>1. call'.at = "grow" /\ call'.op = call.op /\ call'.lba = call.lba
          /\ pos'.clust = pos.clust
      BY <1>0, <2>3 DEF CallRecords, PosFields
    <3>2. call.at \in Placed /\ Used(fat, pos.clust)
      BY <2>3 DEF CleanInv, Handled, Placed, Placing
    <3>3. call'.op = "rename" => Clean(slots'[call'.lba])
      BY <1>0, <3>1, <3>2, PlaceClean
    <3>4. Handled(call', pos', buf', slots', fat')
      BY <1>0, <3>1, <3>2, <3>3 DEF Handled
    <3>5. Dirt(call', pos') = {}
      BY <3>1, DirtIs
    <3> QED
      BY <1>0, <2>1, <3>4, <3>5 DEF CleanInv
  <2> QED
    BY <1>3, <2>2, <2>3 DEF NextIsNone, NoCluster, GrowFrom, Fails, Return, Goto
<1> QED
  BY <1>1, <1>2, <1>3

\* A cluster is marked used: it is dirty.
LEMMA AllocClean ==
  ASSUME NEW sl, NEW f \in [Clusters -> Links], NEW c \in Clusters, Spotless({}, sl, f)
  PROVE  /\ Spotless({l \in Sectors : l[1] = c}, sl, [f EXCEPT ![c] = Eoc])
         /\ \A d : Used(f, d) => Used([f EXCEPT ![c] = Eoc], d)
<1> DEFINE h == [f EXCEPT ![c] = Eoc]
<1>1. \A d \in Clusters : h[d] = IF d = c THEN Eoc ELSE f[d]
  OBVIOUS
<1> HIDE DEF h
<1>2. \A d : Used(f, d) => Used(h, d)
  <2>1. Eoc # 0
    BY Places0 DEF Eoc
  <2> QED
    BY <1>1, <2>1 DEF Used
<1>3. \A d : Used(h, d) => d = c \/ Used(f, d)
  BY <1>1 DEF Used
<1>4. Spotless({l \in Sectors : l[1] = c}, sl, h)
  BY <1>3 DEF Spotless
<1> QED
  BY <1>2, <1>4 DEF h

\* A cluster for a directory, to grow it or to make it.
LEMMA AllocTidy ==
  ASSUME Core, DirInv, CleanInv, Quiet, Quiet', Grow \/ MakeAlloc \/ MakeUnflushed
  PROVE  CleanInv'
<1>0. /\ call \in CallRecords /\ faults \in Counts /\ fat \in [Clusters -> Links]
      /\ call.lba \in Sectors /\ Kinds(call)
  BY DirFacts DEF Core, CallRecords, Progress
<1>1. CASE MakeUnflushed
  BY <1>0, <1>1 DEF MakeUnflushed, WriteFault, Quiet, NoFaults, Counts
<1>2. CASE Grow \/ MakeAlloc
  <2>1. PICK c \in Clusters, place \in {"link", "dots"} :
          /\ fat' = [fat EXCEPT ![c] = Eoc] /\ slots' = slots /\ pos' = pos
          /\ call'.at = place /\ call'.op = call.op /\ call'.lba = call.lba
          /\ call'.new = c
          /\ place = "link" => call.at = "grow"
          /\ place = "dots" => call.at = "alloc"
    <3>1. CASE Grow
      <4>1. PICK c \in Clusters :
              Alloc(c) /\ call' = [call EXCEPT !.at = "link", !.new = c]
        BY <3>1 DEF Grow
      <4>2. /\ call'.at = "link" /\ call'.op = call.op /\ call'.lba = call.lba
            /\ call'.new = c
        BY <1>0, <4>1 DEF CallRecords
      <4> QED
        BY <3>1, <4>1, <4>2 DEF Grow, Alloc
    <3>2. CASE MakeAlloc
      <4>1. PICK c \in Clusters : NewCluster(c)
        BY <3>2 DEF MakeAlloc
      <4>2. /\ Alloc(c)
            /\ call' = [call EXCEPT !.at = "dots", !.new = c,
                                    !.entry = [NoEntry EXCEPT !.dir = TRUE, !.clust = c]]
        BY <4>1 DEF NewCluster
      <4>3. /\ call'.at = "dots" /\ call'.op = call.op /\ call'.lba = call.lba
            /\ call'.new = c
        BY <1>0, <4>2 DEF CallRecords
      <4> QED
        BY <3>2, <4>2, <4>3 DEF MakeAlloc, Alloc
    <3> QED
      BY <1>2, <3>1, <3>2
  <2>2. call.at \in {"grow", "alloc"} /\ Spotless({}, slots, fat) /\ Used(fat, pos.clust)
    BY <2>1, DirtIs DEF CleanInv, Handled
  <2>3. /\ Spotless({l \in Sectors : l[1] = c}, slots, fat')
        /\ Used(fat', pos.clust)
    BY <1>0, <2>1, <2>2, AllocClean
  <2>4. Dirt(call', pos') = {l \in Sectors : l[1] = c}
    BY <2>1, DirtIs
  <2>5. call'.op = "rename" => Clean(slots'[call'.lba])
    <3>1. call.op = "rename" => call.at \in Placed
      BY <1>0, <2>2 DEF Kinds, Placed, Placing
    <3> QED
      BY <2>1, <3>1 DEF CleanInv, Handled
  <2>6. call.at = "alloc" => Clean(slots[pos.lba])
    BY DEF CleanInv, Handled
  <2>7. Handled(call', pos', buf', slots', fat')
    BY <2>1, <2>3, <2>5, <2>6 DEF Handled
  <2> QED
    BY <2>1, <2>3, <2>4, <2>7 DEF CleanInv
<1> QED
  BY <1>1, <1>2

\* The cluster is linked in.
LEMMA LinkTidy ==
  ASSUME Core, DirInv, CleanInv, Quiet, Quiet', LinkNew \/ LinkUnflushed
  PROVE  CleanInv'
<1>0. /\ call \in CallRecords /\ faults \in Counts /\ fat \in [Clusters -> Links]
      /\ call.lba \in Sectors /\ Progress(call, pos, buf, slots, fat)
  BY DirFacts DEF Core, CallRecords
<1>1. CASE LinkUnflushed
  BY <1>0, <1>1 DEF LinkUnflushed, WriteFault, Quiet, NoFaults, Counts
<1>2. CASE LinkNew
  <2>1. /\ call.at = "link" /\ fat' = [fat EXCEPT ![pos.clust] = call.new]
        /\ slots' = slots /\ call' = [call EXCEPT !.at = "wipe", !.n = 1]
    BY <1>2 DEF LinkNew, LinkIn
  <2>2. /\ call'.at = "wipe" /\ call'.op = call.op /\ call'.lba = call.lba
        /\ call'.new = call.new /\ call'.n = 1
    BY <1>0, <2>1 DEF CallRecords
  <2>3. call.new \in Clusters /\ Used(fat, pos.clust) /\ call.at \in Placed
    BY <1>0, <2>1 DEF Progress, Fresh, First, CleanInv, Handled, Placed, Placing
  <2>4. \A d : Used(fat', d) => Used(fat, d)
    BY <1>0, <2>1, <2>3 DEF Used
  <2>5. Dirt(call, pos) \subseteq Dirt(call', pos')
    <3> SUFFICES ASSUME NEW l \in Dirt(call, pos) PROVE l \in Dirt(call', pos')
      OBVIOUS
    <3>1. l \in Sectors /\ l[1] = call.new
      BY <2>1, DirtIs
    <3>2. l[2] = 0 \/ l[2] >= 1
      BY <3>1, SectorIs
    <3> QED
      BY <2>2, <3>1, <3>2, DirtIs
  <2>6. Spotless(Dirt(call', pos'), slots', fat')
    BY <2>1, <2>4, <2>5 DEF CleanInv, Spotless
  <2>7. call'.op = "rename" => Clean(slots'[call'.lba])
    BY <1>0, <2>1, <2>2, <2>3, PlaceClean
  <2>8. Handled(call', pos', buf', slots', fat')
    BY <2>2, <2>3, <2>7 DEF Handled
  <2> QED
    BY <2>6, <2>8 DEF CleanInv
<1> QED
  BY <1>1, <1>2

\* A sector of a new cluster is cleared.
LEMMA ClearTidy ==
  ASSUME Core, DirInv, CleanInv, ClearSector \/ MakeDots
  PROVE  CleanInv'
<1>0. /\ call \in CallRecords /\ call.lba \in Sectors /\ Kinds(call) /\ call.n \in Nat
      /\ slots \in [Sectors -> Sheets] /\ pos.lba \in Sectors
      /\ Spotless(Dirt(call, pos), slots, fat)
      /\ Handled(call, pos, buf, slots, fat)
  BY DirFacts DEF CallRecords, Progress, CleanInv
<1>1. PICK s \in Nat : \E b :
        /\ Clean(b) /\ slots' = [slots EXCEPT ![<<call.new, s>>] = b]
        /\ fat' = fat /\ pos' = pos
        /\ call'.op = call.op /\ call'.lba = call.lba /\ call'.new = call.new
        /\ call'.n = s + 1
        /\ \/ call.at = "dots" /\ s = 0 /\ call'.at = "clear"
           \/ call.at \in {"clear", "wipe"} /\ s = call.n /\ call'.at = call.at
  <2>1. CASE ClearSector
    <3>1. /\ slots' = [slots EXCEPT ![<<call.new, call.n>>] = Filled(End)]
          /\ fat' = fat /\ pos' = pos /\ call' = [call EXCEPT !.n = @ + 1]
          /\ call.at \in {"clear", "wipe"}
      BY <2>1 DEF ClearSector, Write, Unread
    <3>2. /\ call'.op = call.op /\ call'.lba = call.lba /\ call'.new = call.new
          /\ call'.at = call.at /\ call'.n = call.n + 1
      BY <1>0, <3>1 DEF CallRecords
    <3> QED
      BY <1>0, <3>1, <3>2, NowClean
  <2>2. CASE MakeDots
    <3> DEFINE b == [i \in Places |-> IF i < 2 THEN Dot ELSE End]
    <3>1. /\ slots' = [slots EXCEPT ![<<call.new, 0>>] = b]
          /\ fat' = fat /\ pos' = pos /\ call' = [call EXCEPT !.at = "clear", !.n = 1]
          /\ call.at = "dots"
      BY <2>2 DEF MakeDots, Write, Unread
    <3>2. /\ call'.op = call.op /\ call'.lba = call.lba /\ call'.new = call.new
          /\ call'.at = "clear" /\ call'.n = 0 + 1
      BY <1>0, <3>1 DEF CallRecords
    <3>3. Clean(b)
      BY NowClean
    <3> HIDE DEF b
    <3> QED
      BY <3>1, <3>2, <3>3
  <2> QED
    BY <2>1, <2>2
<1>2. Dirt(call, pos) \subseteq Dirt(call', pos') \cup {<<call.new, s>>}
  <2> SUFFICES ASSUME NEW l \in Dirt(call, pos)
               PROVE  l \in Dirt(call', pos') \cup {<<call.new, s>>}
    OBVIOUS
  <2>1. /\ l \in Sectors /\ l[1] = call.new
        /\ call.at = "clear" => l[2] >= call.n
        /\ call.at = "wipe" => l[2] = 0 \/ l[2] >= call.n
    BY <1>1, DirtIs
  <2>2. l[2] \in Nat /\ l = <<l[1], l[2]>>
    BY <2>1, SectorIs
  <2>3. l[2] = s \/ ((call'.at = "wipe" /\ l[2] = 0) \/ l[2] >= s + 1)
    BY <1>0, <1>1, <2>1, <2>2
  <2> QED
    BY <1>1, <2>1, <2>2, <2>3, DirtIs
<1>3. /\ Spotless(Dirt(call', pos'), slots', fat)
      /\ \A m \in Sectors : Clean(slots[m]) => Clean(slots'[m])
  <2>1. PICK b : Clean(b) /\ slots' = [slots EXCEPT ![<<call.new, s>>] = b]
    BY <1>1
  <2> QED
    BY <1>0, <1>2, <2>1, WriteClean
<1>4. call'.op = "rename" /\ call'.at \in Placed => Clean(slots'[call'.lba])
  BY <1>0, <1>1, <1>3 DEF Handled, Placed, Placing
<1>5. Handled(call', pos', buf', slots', fat')
  BY <1>0, <1>1, <1>3, <1>4 DEF Handled
<1> QED
  BY <1>1, <1>3, <1>5 DEF CleanInv

\* A new cluster is clear.
LEMMA ClearedTidy ==
  ASSUME Core, DirInv, CleanInv, Wiped \/ Cleared
  PROVE  CleanInv'
<1>0. /\ call \in CallRecords /\ call.lba \in Sectors /\ Progress(call, pos, buf, slots, fat)
      /\ UNCHANGED <<fat, slots, pos>> /\ call.n \in Nat /\ call.n >= Spc
      /\ Volumes(slots, fat, fat_dur, NewOf(call))
      /\ Spotless(Dirt(call, pos), slots, fat)
      /\ Handled(call, pos, buf, slots, fat)
  BY DirFacts DEF CallRecords, Wiped, Cleared, CleanInv
<1>1. call.new \in Clusters => \A l \in Sectors : l[1] = call.new => ~(l[2] >= call.n)
  BY <1>0, SectorIs, Places0 DEF SectorsOf
<1>2. CASE Wiped
  <2>1. /\ call.at = "wipe" /\ buf' = Filled(End)
        /\ call' = [call EXCEPT !.at = "insert", !.off = 0]
    BY <1>2 DEF Wiped
  <2>2. call'.at = "insert" /\ call'.op = call.op /\ call'.lba = call.lba
    BY <1>0, <2>1 DEF CallRecords
  <2>3. call.new \in Clusters /\ pos.lba = <<call.new, 0>> /\ call.at \in Placed
    BY <1>0, <2>1 DEF Handled, Progress, Fresh, Placed, Placing
  <2>4. Dirt(call, pos) \subseteq Dirt(call', pos')
    <3> SUFFICES ASSUME NEW l \in Dirt(call, pos) PROVE l \in Dirt(call', pos')
      OBVIOUS
    <3>1. l \in Sectors /\ l[1] = call.new /\ l[2] = 0
      BY <1>1, <2>1, <2>3, DirtIs
    <3>2. l = pos.lba
      BY <2>3, <3>1, SectorIs
    <3> QED
      BY <1>0, <2>2, <3>2, DirtIs
  <2>5. Spotless(Dirt(call', pos'), slots', fat')
    BY <1>0, <2>4, MoreDirt
  <2>6. call'.op = "rename" => Clean(slots'[call'.lba])
    BY <1>0, <2>2, <2>3, PlaceClean
  <2>7. Handled(call', pos', buf', slots', fat')
    BY <2>1, <2>2, <2>6, NowClean DEF Handled
  <2> QED
    BY <2>5, <2>7 DEF CleanInv
<1>3. CASE Cleared
  <2>1. call.at = "clear" /\ call' = [call EXCEPT !.at = "reload", !.n = 0]
    BY <1>3 DEF Cleared
  <2>2. call'.at = "reload" /\ call'.op = call.op /\ call.op = "mkdir"
    BY <1>0, <2>1 DEF CallRecords, Progress, Kinds
  <2>3. call.new \in Clusters
    BY <1>0, <2>1, <2>2 DEF Progress, Fresh, NewOf, Making, Volumes, First
  <2>4. Dirt(call, pos) = {} /\ Dirt(call', pos') = {}
    BY <1>1, <2>1, <2>2, <2>3, DirtIs
  <2>5. Handled(call', pos', buf', slots', fat')
    BY <1>0, <2>1, <2>2 DEF Handled, Placed, Placing
  <2> QED
    BY <1>0, <2>4, <2>5 DEF CleanInv
<1> QED
  BY <1>2, <1>3

\* The entry is written.
LEMMA InsertTidy ==
  ASSUME Core, DirInv, CleanInv, Insert
  PROVE  CleanInv'
<1>0. /\ call \in CallRecords /\ call.lba \in Sectors /\ fat' = fat /\ call.at = "insert"
      /\ slots \in [Sectors -> Sheets] /\ Clean(buf) /\ call.at \in Placed
      /\ Spotless({pos.lba}, slots, fat) /\ DOMAIN pos = PosFields
      /\ slots' = [slots EXCEPT ![pos.lba] = WithEntry]
      /\ Handled(call, pos, buf, slots, fat)
  BY DirFacts, DirtIs DEF CallRecords, Insert, Write, Unread, CleanInv, Handled, Placed,
     Placing
<1>1. Clean(WithEntry)
  BY <1>0 DEF WithEntry, Clean, LfnSlot, ShortSlot, End
<1>2. {pos.lba} \subseteq {} \cup {pos.lba}
  OBVIOUS
<1>3. /\ Spotless({}, slots', fat)
      /\ \A m \in Sectors : Clean(slots[m]) => Clean(slots'[m])
  <2> DEFINE b == WithEntry
  <2>1. Clean(b)
    BY <1>1
  <2> HIDE DEF b
  <2>2. /\ Spotless({}, [slots EXCEPT ![pos.lba] = b], fat)
        /\ \A m \in Sectors : Clean(slots[m]) => Clean([slots EXCEPT ![pos.lba] = b][m])
    BY <1>0, <1>2, <2>1, WriteClean
  <2> QED
    BY <1>0, <2>2 DEF b
<1>4. CASE call' = Idle
  BY <1>0, <1>3, <1>4, IdleClean
<1>5. CASE /\ call.op = "rename" /\ call' = [call EXCEPT !.at = "reload"]
           /\ pos' = [pos EXCEPT !.lba = call.lba]
  <2>1. call'.at = "reload" /\ call'.op = "rename" /\ pos'.lba = call.lba
    BY <1>0, <1>5 DEF CallRecords, PosFields
  <2>2. Clean(slots'[call.lba])
    BY <1>0, <1>3, <1>5 DEF Handled
  <2>3. Handled(call', pos', buf', slots', fat')
    BY <2>1, <2>2 DEF Handled, Placed, Placing
  <2>4. Dirt(call', pos') = {}
    BY <2>1, DirtIs
  <2> QED
    BY <1>0, <1>3, <2>3, <2>4 DEF CleanInv
<1> QED
  BY <1>4, <1>5 DEF Insert, Goto, Return

\* A cluster is freed: it is not in use.
LEMMA FreeTidy ==
  ASSUME Core, DirInv, CleanInv, FreeOne \/ FlushLast
  PROVE  CleanInv'
<1>0. /\ call \in CallRecords /\ fat \in [Clusters -> Links]
      /\ slots \in [Sectors -> Sheets] /\ Progress(call, pos, buf, slots, fat)
      /\ call.at \in {"free", "flush"} /\ Spotless({}, slots, fat)
  BY DirFacts, DirtIs DEF CleanInv, FreeOne, FlushLast
<1>1. CASE FlushLast
  <2>1. call' = Idle /\ fat' = fat /\ slots' = slots
    BY <1>1 DEF FlushLast, Return
  <2> QED
    BY <1>0, <2>1, IdleClean
<1>2. CASE FreeOne
  <2>1. /\ fat' = [fat EXCEPT ![call.new] = 0] /\ call.at = "free"
        /\ slots' = [l \in Sectors |-> IF l[1] = call.new THEN Filled(Junk) ELSE slots[l]]
        /\ \/ call' = [call EXCEPT !.new = fat[call.new]]
           \/ call' = [call EXCEPT !.at = "flush"]
    BY <1>2 DEF FreeOne
  <2>2. call.new \in Clusters
    BY <1>0, <2>1 DEF Progress, Removing, First
  <2>3. \A d : Used(fat', d) => Used(fat, d) /\ d # call.new
    BY <1>0, <2>1, <2>2, Places0 DEF Used
  <2>4. Spotless({}, slots', fat')
    BY <1>0, <2>1, <2>3 DEF Spotless
  <2>5. call'.at \in {"free", "flush"}
    BY <1>0, <2>1 DEF CallRecords
  <2>6. Dirt(call', pos') = {}
    BY <2>5, DirtIs
  <2>7. Handled(call', pos', buf', slots', fat')
    BY <2>5 DEF Handled, Placed, Placing
  <2> QED
    BY <2>4, <2>6, <2>7 DEF CleanInv
<1> QED
  BY <1>1, <1>2

\* A program makes a call: nothing is changed yet.
LEMMA CallerTidy ==
  ASSUME Core, CleanInv, Caller
  PROVE  CleanInv'
<1>1. call.at = ""
  BY WorkFacts DEF Caller, CallIn
<1>2. Spotless({}, slots, fat)
  BY <1>1, DirtIs DEF CleanInv
<1>3. UNCHANGED <<fat, slots>>
  BY DEF Caller, NameCall, RenameCall, ListCall, ListNext, Start
<1>4. call'.at \in {"scan", "restore"}
  <2>1. \A op, d, n, m : Start(op, d, n, m) => call'.at = "scan"
    BY DEF Start, Idle
  <2>2. ListNext => call'.at = "restore"
    BY DEF ListNext, Idle
  <2> QED
    BY <2>1, <2>2 DEF Caller, NameCall, RenameCall, ListCall
<1>5. Dirt(call', pos') = {}
  BY <1>4, DirtIs
<1>6. Handled(call', pos', buf', slots', fat')
  BY <1>4 DEF Handled, Placed, Placing
<1> QED
  BY <1>2, <1>3, <1>5, <1>6 DEF CleanInv

\* An empty volume: the root is clear, and no cluster is in use.
LEMMA InitClean == Init => CleanInv
<1> SUFFICES ASSUME Init PROVE CleanInv
  OBVIOUS
<1>1. call.at = "" /\ call.op = "idle"
  BY DEF Init, Idle
<1>2. \A l \in Sectors : l[1] = Root => slots[l] = Filled(End)
  BY DEF Init
<1>3. \A c : Used(fat, c) => c = Root
  BY DEF Init, Used
<1>4. Spotless({}, slots, fat)
  BY <1>2, <1>3, NowClean DEF Spotless
<1>5. Dirt(call, pos) = {}
  BY <1>1, DirtIs
<1>6. Handled(call, pos, buf, slots, fat)
  BY <1>1 DEF Handled, Placed, Placing
<1> QED
  BY <1>4, <1>5, <1>6 DEF CleanInv

\* What has failed has failed, and a restart is one.
LEMMA QuietBefore ==
  ASSUME faults \in Counts, Quiet', scenario' = scenario,
         Crash \/ ReadFault \/ WriteFault \/ faults' = faults
  PROVE  Quiet /\ faults' = faults /\ ~Crash
<1>1. ~Crash /\ ~ReadFault /\ ~WriteFault
  BY DEF Crash, ReadFault, WriteFault, Quiet, NoFaults, Counts
<1> QED
  BY <1>1 DEF Quiet

\* Every step keeps clean what is in use, as long as nothing fails.
LEMMA NextClean ==
  Core /\ (Calm => DirInv) /\ (Quiet => CleanInv) /\ [Next]_vars
    => (Quiet => CleanInv)'
<1> SUFFICES ASSUME Core, Calm => DirInv, Quiet => CleanInv, [Next]_vars, Quiet'
             PROVE  CleanInv'
  OBVIOUS
<1>1. CASE UNCHANGED vars
  BY <1>1 DEF vars, Quiet, CleanInv
<1>2. CASE ~exposed /\ (Caller \/ Kernel \/ Sync \/ Crash) /\ Watch
  <2>1. scenario' = scenario /\ (Caller \/ Kernel \/ Sync \/ Crash)
    BY <1>2 DEF Watch
  <2>2. Crash \/ ReadFault \/ WriteFault \/ faults' = faults
    <3>1. CASE Caller \/ Sync
      BY <3>1 DEF Caller, NameCall, RenameCall, ListCall, ListNext, Start, Sync
    <3> QED
      BY SMTT(30), <2>1, <3>1, KernelFaults
  <2>3. Quiet /\ ~Crash
    BY <2>1, <2>2, QuietBefore DEF Core
  <2>4. CleanInv /\ DirInv
    BY <2>3 DEF Quiet, Calm, NoFaults
  <2>5. CASE Caller
    BY <2>4, <2>5, CallerTidy
  <2>6. CASE Sync
    BY <2>4, <2>6 DEF Sync, CleanInv
  <2>7. CASE Kernel
    BY <2>3, <2>4, <2>7, ScanTidy, FoundTidy, ChangeTidy, ChooseTidy, NextTidy,
       AllocTidy, LinkTidy, ClearTidy, ClearedTidy, InsertTidy, FreeTidy DEF Kernel
  <2> QED
    BY <2>1, <2>3, <2>5, <2>6, <2>7
<1>3. CASE Unfollowed
  BY <1>1, <1>3 DEF Unfollowed
<1> QED
  BY <1>1, <1>2, <1>3 DEF Next

\* The clusters of a chain are in use, from a first one that is.
LEMMA ChainUsed ==
  ASSUME Chains(fat), NEW c \in Clusters, fat[c] # 0,
         NEW n \in Nat, Nth(fat, c, n) \in Clusters
  PROVE  Used(fat, Nth(fat, c, n))
<1>1. CASE n = 0
  <2>1. Nth(fat, c, 0) = c
    BY NthStep
  <2> QED
    BY <1>1, <2>1 DEF Used
<1>2. CASE n # 0
  <2> DEFINE m == n - 1
  <2>1. m \in Nat /\ n = m + 1
    BY <1>2
  <2> HIDE DEF m
  <2>2. Nth(fat, c, m) \in Clusters /\ fat[Nth(fat, c, m)] = Nth(fat, c, n)
    BY <2>1, NthNext
  <2> QED
    BY <2>2 DEF Chains, Used
<1> QED
  BY <1>1, <1>2

\* Between calls, what a scan reaches is clean.
LEMMA JunkNow ==
  ASSUME Core, DirInv, CleanInv
  PROVE  NoJunk
<1> SUFFICES ASSUME call.op = "idle", NEW d \in LiveDirs, NEW k \in Reached(d),
                    NEW i \in Places
             PROVE  SectorAt(d, k)[i] # Junk
  BY DEF NoJunk, JunkShows
<1>0. /\ Volumes(slots, fat, fat_dur, NewOf(call)) /\ StoreOK
      /\ CallIn(call, scenario)
  BY WorkFacts DEF DirInv
<1>1. Spotless({}, slots, fat)
  <2>1. call.at = ""
    BY <1>0 DEF CallIn
  <2> QED
    BY <2>1, DirtIs DEF CleanInv
<1>2. d \in Dirs /\ (d # Root => First(fat, d)) /\ Chains(fat)
  BY <1>0, LiveNamed, LiveAreDirs DEF Volumes
<1>3. /\ SectorOf(d, k) \in Sectors /\ SectorAt(d, k) = slots[SectorOf(d, k)]
      /\ d # Root => k \div Spc \in Nat /\ Nth(fat, d, k \div Spc) \in Clusters
  BY <1>2, SectorAtIs DEF Reached
<1>4. Used(fat, SectorOf(d, k)[1])
  <2>1. CASE d = Root
    BY <2>1 DEF SectorOf, Used
  <2>2. CASE d # Root
    <3> DEFINE n == k \div Spc
    <3>1. n \in Nat /\ Nth(fat, d, n) \in Clusters /\ SectorOf(d, k)[1] = Nth(fat, d, n)
      BY <1>3, <2>2 DEF SectorOf
    <3>2. d \in Clusters /\ fat[d] # 0
      BY <1>2, <2>2 DEF First
    <3> HIDE DEF n
    <3> QED
      BY <1>0, <1>2, <3>1, <3>2, ChainUsed
  <2> QED
    BY <2>1, <2>2
<1>5. Clean(SectorAt(d, k))
  BY <1>1, <1>3, <1>4 DEF Spotless
<1> QED
  BY <1>5 DEF Clean, Junk

\* As long as nothing fails and the machine is not restarted, no scan meets
\* what a former owner of a cluster left: dir_create clears a cluster before it
\* names it, _file_create clears one it grows a directory by before the entry
\* leads past it, a removed directory's chain is out of use when its sectors
\* go, and all other writes put back a sector that was clean.  This does not
\* rest on the End that stops a scan: there is no junk behind it either.
THEOREM NoJunkAlways ==
  Spec => [](faults = NoFaults /\ ~({"mkdir", "rename"} \subseteq scenario.calls)
               => NoJunk)
<1>1. Init => Core /\ (Calm => DirInv) /\ (Quiet => CleanInv)
  BY InitTypes, InitDir, InitClean DEF Types
<1>2. Core /\ (Calm => DirInv) /\ (Quiet => CleanInv)
        => (faults = NoFaults /\ ~({"mkdir", "rename"} \subseteq scenario.calls)
              => NoJunk)
  <2> SUFFICES ASSUME Core, Calm => DirInv, Quiet => CleanInv, Quiet
               PROVE  NoJunk
    BY DEF Quiet
  <2>1. DirInv /\ CleanInv
    BY DEF Quiet, Calm, NoFaults
  <2> QED
    BY <2>1, JunkNow
<1> QED
  BY <1>1, <1>2, NextCore, NextDir, NextClean, PTL DEF Spec

-----------------------------------------------------------------------------
(* Names are unique.                                                       *)

\* The name dir_read gives the short entry in slot i.
NameAt(b, i) == NameOf(b[i], LfnAt(b, 0, NoLfn, i))

\* A sector without an entry of name n.
Lacks(b, n) == \A i \in Places : b[i].kind = "short" => NameAt(b, i) # n

\* Nothing of an entry.
Blank(x) == x.kind \notin {"short", "lfn"}
Bare(b) == \A i \in Places : Blank(b[i])

\* An LFN slot is followed by the rest of its entry, and nothing of an entry is
\* behind an End.
Whole(b) ==
  /\ \A i \in Places : b[i].kind = "lfn" =>
       /\ i + 1 \in Places /\ ~Blank(b[i + 1])
       /\ b[i + 1].kind = "lfn" => b[i + 1].sum = b[i].sum
       /\ b[i + 1].kind = "short" => Chksum[b[i + 1].short] = b[i].sum
  /\ \A i, j \in Places : i < j /\ b[i] = End => Blank(b[j])

\* The recursive function in LfnAt, for a sector that is read from its start.
IsRun(b, n, f) ==
  f = [j \in 0 .. n |-> IF j = 0 THEN NoLfn ELSE LfnAfter(f[j - 1], b[j - 1])]

\* LfnAt is a value of that function.
LEMMA LfnIs ==
  ASSUME NEW b, NEW n \in Nat
  PROVE  LfnAt(b, 0, NoLfn, n) = (CHOOSE f : IsRun(b, n, f))[n]
BY DEF LfnAt, IsRun

\* There is such a function, however long the run.
LEMMA RunExists ==
  ASSUME NEW b
  PROVE  \A n \in Nat : \E f : IsRun(b, n, f)
<1> DEFINE Bad == {n \in Nat : ~\E f : IsRun(b, n, f)}
<1>1. SUFFICES ASSUME Bad # {} PROVE FALSE
  OBVIOUS
<1>2. PICK m \in Bad : \A y \in Bad : m <= y
  <2> HIDE DEF Bad
  <2>1. Bad \in SUBSET Nat
    BY DEF Bad
  <2> QED
    BY <1>1, <2>1, Least
<1>3. m \in Nat /\ ~\E f : IsRun(b, m, f)
  OBVIOUS
<1>4. m # 0
  <2> SUFFICES ASSUME m = 0 PROVE FALSE
    OBVIOUS
  <2> DEFINE f == [j \in 0 .. 0 |-> NoLfn]
  <2>1. f = [j \in 0 .. 0 |-> IF j = 0 THEN NoLfn ELSE LfnAfter(f[j - 1], b[j - 1])]
    OBVIOUS
  <2>2. IsRun(b, 0, f)
    BY <2>1 DEF IsRun
  <2> QED
    BY <1>3, <2>2
<1>5. PICK f : IsRun(b, m - 1, f)
  <2>1. m - 1 \in Nat /\ ~(m <= m - 1)
    BY <1>3, <1>4
  <2> QED
    BY <1>2, <2>1
<1> DEFINE g == [j \in 0 .. m |-> IF j = 0 THEN NoLfn ELSE LfnAfter(f[j - 1], b[j - 1])]
<1>6. \A j \in 0 .. m - 1 : f[j] = g[j]
  BY <1>3, <1>5 DEF IsRun
<1>7. g = [j \in 0 .. m |-> IF j = 0 THEN NoLfn ELSE LfnAfter(g[j - 1], b[j - 1])]
  <2>1. \A j \in 0 .. m : j # 0 => j - 1 \in 0 .. m - 1
    BY <1>3
  <2> HIDE DEF g
  <2>2. \A j \in 0 .. m : (IF j = 0 THEN NoLfn ELSE LfnAfter(f[j - 1], b[j - 1]))
                          = (IF j = 0 THEN NoLfn ELSE LfnAfter(g[j - 1], b[j - 1]))
    BY <1>6, <2>1
  <2>3. g = [j \in 0 .. m |-> IF j = 0 THEN NoLfn ELSE LfnAfter(f[j - 1], b[j - 1])]
    BY DEF g
  <2> QED
    BY <2>2, <2>3
<1>8. IsRun(b, m, g)
  BY <1>7 DEF IsRun
<1> QED
  BY <1>3, <1>8

\* Two sectors have the same slots up to n.
Alike(b, bb, n) == \A j \in 0 .. n - 1 : b[j] = bb[j]

\* Two runs over the same slots agree.
LEMMA RunsAgree ==
  ASSUME NEW b, NEW bb, NEW n \in Nat, NEW m \in Nat, n <= m,
         Alike(b, bb, n),
         NEW f, IsRun(b, n, f), NEW g, IsRun(bb, m, g)
  PROVE  \A j \in 0 .. n : f[j] = g[j]
<1> DEFINE Bad == {j \in 0 .. n : f[j] # g[j]}
<1> SUFFICES ASSUME Bad # {} PROVE FALSE
  OBVIOUS
<1>1. PICK k \in Bad : \A y \in Bad : k <= y
  <2>1. Bad \in SUBSET Nat
    OBVIOUS
  <2> HIDE DEF Bad
  <2> QED
    BY <2>1, Least
<1>2. /\ f[k] = IF k = 0 THEN NoLfn ELSE LfnAfter(f[k - 1], b[k - 1])
      /\ g[k] = IF k = 0 THEN NoLfn ELSE LfnAfter(g[k - 1], bb[k - 1])
  BY DEF IsRun
<1>3. k # 0
  BY <1>2
<1>4. k - 1 \in 0 .. n - 1 /\ k - 1 \in 0 .. n /\ ~(k <= k - 1)
  BY <1>3
<1>5. f[k - 1] = g[k - 1] /\ b[k - 1] = bb[k - 1]
  BY <1>1, <1>4 DEF Alike
<1>6. LfnAfter(f[k - 1], b[k - 1]) = LfnAfter(g[k - 1], bb[k - 1])
  BY <1>5
<1> QED
  BY <1>2, <1>3, <1>6

\* What LfnAt computes: the slots are taken one after the other, and only
\* those before the one asked for count.
LEMMA LfnStep ==
  ASSUME NEW b
  PROVE  /\ LfnAt(b, 0, NoLfn, 0) = NoLfn
         /\ \A n \in Nat : LfnAt(b, 0, NoLfn, n + 1)
                             = LfnAfter(LfnAt(b, 0, NoLfn, n), b[n])
         /\ \A bb : \A n \in Nat :
              Alike(b, bb, n) => LfnAt(b, 0, NoLfn, n) = LfnAt(bb, 0, NoLfn, n)
<1> DEFINE F(c, n) == CHOOSE f : IsRun(c, n, f)
<1>1. \A c : \A n \in Nat : IsRun(c, n, F(c, n)) /\ LfnAt(c, 0, NoLfn, n) = F(c, n)[n]
  BY RunExists, LfnIs
<1> HIDE DEF F
<1>2. LfnAt(b, 0, NoLfn, 0) = NoLfn
  BY <1>1 DEF IsRun
<1>3. ASSUME NEW n \in Nat
      PROVE  LfnAt(b, 0, NoLfn, n + 1) = LfnAfter(LfnAt(b, 0, NoLfn, n), b[n])
  <2>1. IsRun(b, n, F(b, n)) /\ IsRun(b, n + 1, F(b, n + 1))
    BY <1>1
  <2>2. F(b, n)[n] = F(b, n + 1)[n]
    <3>1. n + 1 \in Nat /\ n <= n + 1 /\ n \in 0 .. n
      OBVIOUS
    <3>2. Alike(b, b, n)
      BY DEF Alike
    <3>3. \A j \in 0 .. n : F(b, n)[j] = F(b, n + 1)[j]
      BY <2>1, <3>1, <3>2, RunsAgree
    <3> QED
      BY <3>1, <3>3
  <2>3. F(b, n + 1)[n + 1] = LfnAfter(F(b, n + 1)[n], b[n])
    BY <2>1 DEF IsRun
  <2> QED
    BY <1>1, <2>2, <2>3
<1>4. ASSUME NEW bb, NEW n \in Nat, Alike(b, bb, n)
      PROVE  LfnAt(b, 0, NoLfn, n) = LfnAt(bb, 0, NoLfn, n)
  <2>1. IsRun(b, n, F(b, n)) /\ IsRun(bb, n, F(bb, n))
    BY <1>1
  <2>2. F(b, n)[n] = F(bb, n)[n]
    BY <1>4, <2>1, RunsAgree
  <2> QED
    BY <1>1, <2>2
<1> QED
  BY <1>2, <1>3, <1>4

\* After a slot that is no LFN slot, it does not matter what was before.
LEMMA LfnCut ==
  ASSUME NEW b, NEW bb, NEW o \in Nat, b[o].kind # "lfn", bb[o].kind # "lfn",
         NEW n \in Nat, o < n, \A j \in o + 1 .. n - 1 : b[j] = bb[j]
  PROVE  LfnAt(b, 0, NoLfn, n) = LfnAt(bb, 0, NoLfn, n)
<1> DEFINE L(c, k) == LfnAt(c, 0, NoLfn, k)
<1>0. /\ \A k \in Nat : L(b, k + 1) = LfnAfter(L(b, k), b[k])
      /\ \A k \in Nat : L(bb, k + 1) = LfnAfter(L(bb, k), bb[k])
  BY LfnStep
<1> HIDE DEF L
<1> DEFINE Bad == {k \in o + 1 .. n : L(b, k) # L(bb, k)}
<1> SUFFICES ASSUME Bad # {} PROVE FALSE
  <2> HIDE DEF Bad
  <2>1. n \in o + 1 .. n
    OBVIOUS
  <2>2. L(b, n) = L(bb, n)
    BY <2>1 DEF Bad
  <2> QED
    BY <2>2 DEF L
<1>1. PICK k \in Bad : \A y \in Bad : k <= y
  <2>1. Bad \in SUBSET Nat
    OBVIOUS
  <2> HIDE DEF Bad
  <2> QED
    BY <2>1, Least
<1>2. k \in o + 1 .. n /\ L(b, k) # L(bb, k)
  OBVIOUS
<1>3. L(b, o + 1) = NoLfn /\ L(bb, o + 1) = NoLfn
  BY <1>0 DEF LfnAfter
<1>4. k # o + 1
  BY <1>2, <1>3
<1>5. k - 1 \in o + 1 .. n - 1 /\ k - 1 \in Nat /\ (k - 1) + 1 = k /\ ~(k <= k - 1)
      /\ k - 1 \in o + 1 .. n
  BY <1>2, <1>4
<1>6. L(b, k - 1) = L(bb, k - 1)
  BY <1>1, <1>5
<1>7. b[k - 1] = bb[k - 1]
  BY <1>5
<1>8. LfnAfter(L(b, k - 1), b[k - 1]) = LfnAfter(L(bb, k - 1), bb[k - 1])
  BY <1>6, <1>7
<1>9. L(b, k) = LfnAfter(L(b, k - 1), b[k - 1]) /\ L(bb, k) = LfnAfter(L(bb, k - 1), bb[k - 1])
  BY <1>0, <1>5
<1> QED
  BY <1>2, <1>8, <1>9

\* Room for an entry from slot off on.
Open(b, off) == \A i \in Places : IF i < off THEN b[i] # End ELSE Blank(b[i])

\* bb has no other names than b, nor an End that b has not.
Fewer(b, bb) ==
  /\ Whole(bb) /\ (HasEnd(bb) => HasEnd(b))
  /\ \A i \in Places : /\ ~Blank(bb[i]) => ~Blank(b[i])
                       /\ bb[i].kind = "short" =>
                            b[i].kind = "short" /\ NameAt(bb, i) = NameAt(b, i)

\* A name depends on the slots up to the short entry's.
LEMMA NameBelow ==
  ASSUME NEW b, NEW bb, NEW i \in Places, Alike(b, bb, i), b[i].short = bb[i].short
  PROVE  NameAt(b, i) = NameAt(bb, i)
<1>1. i \in Nat
  BY DEF Places
<1>2. LfnAt(b, 0, NoLfn, i) = LfnAt(bb, 0, NoLfn, i)
  BY <1>1, LfnStep
<1> QED
  BY <1>2 DEF NameAt, NameOf

\* And on none that an earlier short entry is behind.
LEMMA NameBehind ==
  ASSUME NEW b, NEW bb, NEW i \in Places, NEW o \in Nat, o < i,
         b[o].kind # "lfn", bb[o].kind # "lfn", \A j \in o + 1 .. i : b[j] = bb[j]
  PROVE  NameAt(b, i) = NameAt(bb, i)
<1>1. i \in Nat /\ i \in o + 1 .. i /\ \A j \in o + 1 .. i - 1 : j \in o + 1 .. i
  BY DEF Places
<1>2. b[i] = bb[i] /\ \A j \in o + 1 .. i - 1 : b[j] = bb[j]
  BY <1>1
<1>3. LfnAt(b, 0, NoLfn, i) = LfnAt(bb, 0, NoLfn, i)
  BY <1>1, <1>2, LfnCut
<1> QED
  BY <1>2, <1>3 DEF NameAt

\* A slot's read-only bit is changed: only that of a short entry changes anything.
LEMMA RoKeeps ==
  ASSUME NEW x \in Slots, NEW ro \in BOOLEAN
  PROVE  IF x.kind = "short"
           THEN /\ [x EXCEPT !.ro = ro].kind = "short"
                /\ [x EXCEPT !.ro = ro].short = x.short
           ELSE [x EXCEPT !.ro = ro] = x
<1>1. CASE x \in {End, Deleted, Dot, Junk}
  BY <1>1 DEF End, Deleted, Dot, Junk
<1>2. CASE \E n \in Names, i \in 1 .. DirEntPerSec, s \in ShortNames :
             x = LfnSlot(n, i, Chksum[s])
  BY <1>2 DEF LfnSlot
<1>3. CASE \E s \in ShortNames, dir \in BOOLEAN, r \in BOOLEAN, c \in Dirs :
             x = ShortSlot(s, dir, r, c)
  <2>1. PICK s \in ShortNames, dir \in BOOLEAN, r \in BOOLEAN, c \in Dirs :
             x = ShortSlot(s, dir, r, c)
    BY <1>3
  <2>2. [x EXCEPT !.ro = ro] = ShortSlot(s, dir, ro, c)
    BY <2>1 DEF ShortSlot
  <2> QED
    BY <2>1, <2>2 DEF ShortSlot
<1> QED
  BY <1>1, <1>2, <1>3 DEF Slots

\* Nothing changed.
LEMMA SameFewer ==
  ASSUME NEW b, Whole(b)
  PROVE  Fewer(b, b)
BY DEF Fewer

\* What file_setattr writes has the names there were.
LEMMA StoreFewer ==
  ASSUME NEW b \in Sheets, Whole(b), NEW o, NEW ro \in BOOLEAN
  PROVE  Fewer(b, [b EXCEPT ![o].ro = ro])
<1> DEFINE y == [b[o] EXCEPT !.ro = ro]
           m == [b EXCEPT ![o] = y]
<1>1. m = [b EXCEPT ![o].ro = ro]
  OBVIOUS
<1>2. o \in Places => IF b[o].kind = "short" THEN y.kind = "short" /\ y.short = b[o].short
                                             ELSE y = b[o]
  BY RoKeeps DEF Sheets
<1> HIDE DEF y
<1>3. \A i \in Places : m[i] = IF i = o THEN y ELSE b[i]
  BY DEF Sheets
<1>4. CASE o \notin Places \/ y = b[o]
  <2>1. m = b
    BY <1>4 DEF Sheets
  <2> QED
    BY <1>1, <2>1, SameFewer
<1>5. CASE o \in Places /\ b[o].kind = "short" /\ y.kind = "short" /\ y.short = b[o].short
  <2> HIDE DEF m
  <2>1. /\ \A i \in Places : m[i].kind = b[i].kind /\ m[i].short = b[i].short
        /\ \A i \in Places : i # o => m[i] = b[i]
        /\ m[o].kind = "short" /\ m[o] # End /\ b[o] # End
    <3>1. \A i \in Places : i # o => m[i] = b[i]
      BY <1>3
    <3>2. m[o] = y
      BY <1>3, <1>5
    <3>3. \A i \in Places : m[i].kind = b[i].kind /\ m[i].short = b[i].short
      BY <1>5, <3>1, <3>2
    <3> QED
      BY <1>5, <3>1, <3>2, <3>3 DEF End
  <2>2. Whole(m)
    <3>1. \A i \in Places : m[i].kind = "lfn" => m[i] = b[i]
      BY <1>5, <2>1
    <3>2. \A i \in Places : Blank(m[i]) <=> Blank(b[i])
      BY <2>1 DEF Blank
    <3>3. ASSUME NEW i \in Places, m[i].kind = "lfn"
          PROVE  /\ i + 1 \in Places /\ ~Blank(m[i + 1])
                 /\ m[i + 1].kind = "lfn" => m[i + 1].sum = m[i].sum
                 /\ m[i + 1].kind = "short" => Chksum[m[i + 1].short] = m[i].sum
      BY <2>1, <3>1, <3>2, <3>3 DEF Whole
    <3>4. ASSUME NEW i \in Places, NEW j \in Places, i < j, m[i] = End
          PROVE  Blank(m[j])
      BY <2>1, <3>2, <3>4 DEF Whole
    <3> QED
      BY <3>3, <3>4 DEF Whole
  <2>3. HasEnd(m) => HasEnd(b)
    BY <2>1 DEF HasEnd
  <2>4. ASSUME NEW i \in Places
        PROVE  NameAt(m, i) = NameAt(b, i)
    <3>1. CASE i <= o
      <4>1. \A j \in 0 .. i - 1 : j \in Places /\ j # o
        BY <1>5, <3>1, Places0 DEF Places
      <4>2. Alike(m, b, i)
        BY <2>1, <4>1 DEF Alike
      <4> QED
        BY <2>1, <4>2, NameBelow
    <3>2. CASE i > o
      <4>1. /\ o \in Nat /\ o < i /\ m[o].kind # "lfn" /\ b[o].kind # "lfn"
            /\ \A j \in o + 1 .. i : j \in Places /\ j # o
        BY <1>5, <2>1, <3>2, Places0 DEF Places
      <4>2. \A j \in o + 1 .. i : m[j] = b[j]
        BY <2>1, <4>1
      <4> QED
        BY <4>1, <4>2, NameBehind
    <3> QED
      BY <1>5, <3>1, <3>2 DEF Places
  <2>5. Fewer(b, m)
    BY <2>1, <2>2, <2>3, <2>4 DEF Fewer, Blank
  <2> QED
    BY <1>1, <2>5
<1> QED
  BY <1>2, <1>4, <1>5

\* What _mark_entry_deleted writes is without one entry, and all of that.
LEMMA MarkFewer ==
  ASSUME NEW b \in Sheets, Whole(b), NEW o \in Places, b[o].kind = "short"
  PROVE  Fewer(b, Marked(b, o))
<1> DEFINE mine(i) == \A j \in i .. o - 1 : b[j].kind = "lfn" /\ b[j].sum = Chksum[b[o].short]
           m == Marked(b, o)
<1>1. \A i \in Places : m[i] = IF i <= o /\ mine(i) THEN Deleted ELSE b[i]
  BY DEF Marked, SumOf
<1>2. o \in Nat /\ mine(o)
  BY DEF Places
<1> HIDE DEF m
<1>3. m[o] = Deleted /\ m[o].kind = "deleted" /\ Deleted # End /\ Blank(Deleted)
  BY <1>1, <1>2 DEF Deleted, End, Blank
<1>4. \A i \in Places : ~Blank(m[i]) \/ m[i] = End => m[i] = b[i] /\ ~(i <= o /\ mine(i))
  BY <1>1, <1>3
<1>5. ASSUME NEW i \in Places, b[i].kind = "lfn", i + 1 <= o, mine(i + 1)
      PROVE  mine(i)
  <2> SUFFICES ASSUME NEW j \in i .. o - 1
               PROVE  b[j].kind = "lfn" /\ b[j].sum = Chksum[b[o].short]
    OBVIOUS
  <2>1. CASE j # i
    <3>1. j \in i + 1 .. o - 1
      BY <2>1, <1>2 DEF Places
    <3> QED
      BY <1>5, <3>1
  <2>2. CASE j = i
    <3>1. /\ b[i + 1].kind = "lfn" => b[i + 1].sum = b[i].sum
          /\ b[i + 1].kind = "short" => Chksum[b[i + 1].short] = b[i].sum
      BY <1>5 DEF Whole
    <3>2. CASE i + 1 = o
      BY <1>5, <2>2, <3>1, <3>2
    <3>3. CASE i + 1 # o
      <4>1. i + 1 \in i + 1 .. o - 1
        BY <1>2, <1>5, <3>3 DEF Places
      <4> QED
        BY <1>5, <2>2, <3>1, <4>1
    <3> QED
      BY <3>2, <3>3
  <2> QED
    BY <2>1, <2>2
<1>6. Whole(m)
  <2>1. ASSUME NEW i \in Places, m[i].kind = "lfn"
        PROVE  /\ i + 1 \in Places /\ ~Blank(m[i + 1])
               /\ m[i + 1].kind = "lfn" => m[i + 1].sum = m[i].sum
               /\ m[i + 1].kind = "short" => Chksum[m[i + 1].short] = m[i].sum
    <3>1. m[i] = b[i] /\ ~(i <= o /\ mine(i))
      BY <1>4, <2>1 DEF Blank
    <3>2. i + 1 \in Places
      BY <2>1, <3>1 DEF Whole
    <3>3. m[i + 1] = b[i + 1]
      <4>1. ~(i + 1 <= o /\ mine(i + 1))
        <5>1. i + 1 <= o => i <= o
          BY <1>2 DEF Places
        <5> HIDE DEF mine
        <5> QED
          BY <1>5, <2>1, <3>1, <5>1
      <4> HIDE DEF mine
      <4> QED
        BY <1>1, <3>2, <4>1
    <3> QED
      BY <2>1, <3>1, <3>2, <3>3 DEF Whole
  <2>2. ASSUME NEW i \in Places, NEW j \in Places, i < j, m[i] = End
        PROVE  Blank(m[j])
    <3>1. b[i] = End
      BY <1>4, <2>2
    <3>2. Blank(b[j])
      BY <2>2, <3>1 DEF Whole
    <3> QED
      BY <1>4, <3>2
  <2> QED
    BY <2>1, <2>2 DEF Whole
<1>7. HasEnd(m) => HasEnd(b)
  BY <1>4 DEF HasEnd
<1>8. ASSUME NEW i \in Places, m[i].kind = "short"
      PROVE  b[i].kind = "short" /\ NameAt(m, i) = NameAt(b, i)
  <2>1. m[i] = b[i]
    BY <1>4, <1>8 DEF Blank
  <2>2. i # o /\ i \in Nat
    BY <1>3, <1>8 DEF Places
  <2>3. CASE i < o
    <3>1. \A j \in 0 .. i - 1 : j \in Places /\ m[j] = b[j]
      <4> SUFFICES ASSUME NEW j \in 0 .. i - 1
                   PROVE  j \in Places /\ m[j] = b[j]
        OBVIOUS
      <4>1. j \in Places /\ i \in j .. o - 1
        BY <1>2, <2>2, <2>3, Places0 DEF Places
      <4>2. ~mine(j)
        BY <1>8, <2>1, <4>1
      <4> HIDE DEF mine
      <4> QED
        BY <1>1, <4>1, <4>2
    <3>2. Alike(m, b, i)
      BY <3>1 DEF Alike
    <3> QED
      BY <1>8, <2>1, <3>2, NameBelow
  <2>4. CASE o < i
    <3>1. \A j \in o + 1 .. i : j \in Places /\ ~(j <= o)
      BY <1>2, <2>2, Places0 DEF Places
    <3>2. \A j \in o + 1 .. i : m[j] = b[j]
      BY <1>1, <3>1
    <3>3. m[o].kind # "lfn" /\ b[o].kind # "lfn"
      BY <1>3
    <3> QED
      BY <1>2, <1>8, <2>1, <2>4, <3>2, <3>3, NameBehind
  <2> QED
    BY <1>2, <2>2, <2>3, <2>4
<1> QED
  BY <1>4, <1>6, <1>7, <1>8 DEF Fewer, m

\* What _file_create writes where there is no room has the names there were.
LEMMA FillFewer ==
  ASSUME NEW b \in Sheets, Whole(b), NEW o \in Nat, Open(b, o)
  PROVE  /\ Fewer(b, [i \in Places |-> IF i < o THEN b[i] ELSE Deleted])
         /\ ~HasEnd([i \in Places |-> IF i < o THEN b[i] ELSE Deleted])
<1> DEFINE m == [i \in Places |-> IF i < o THEN b[i] ELSE Deleted]
<1>1. \A i \in Places : m[i] = IF i < o THEN b[i] ELSE Deleted
  OBVIOUS
<1> HIDE DEF m
<1>2. Deleted # End /\ Blank(Deleted) /\ Deleted.kind = "deleted"
  BY DEF Deleted, End, Blank
<1>3. ~HasEnd(m)
  BY <1>1, <1>2 DEF HasEnd, Open
<1>4. \A i \in Places : ~Blank(m[i]) => i < o /\ m[i] = b[i]
  BY <1>1, <1>2
<1>5. Whole(m)
  <2>1. ASSUME NEW i \in Places, m[i].kind = "lfn"
        PROVE  /\ i + 1 \in Places /\ ~Blank(m[i + 1])
               /\ m[i + 1].kind = "lfn" => m[i + 1].sum = m[i].sum
               /\ m[i + 1].kind = "short" => Chksum[m[i + 1].short] = m[i].sum
    <3>1. m[i] = b[i] /\ b[i].kind = "lfn"
      BY <1>4, <2>1 DEF Blank
    <3>2. i + 1 \in Places /\ ~Blank(b[i + 1])
      BY <3>1 DEF Whole
    <3>3. i + 1 < o
      BY <3>2 DEF Open
    <3>4. m[i + 1] = b[i + 1]
      BY <1>1, <3>2, <3>3
    <3> QED
      BY <3>1, <3>2, <3>4 DEF Whole
  <2> QED
    BY <1>3, <2>1 DEF Whole, HasEnd
<1>6. ASSUME NEW i \in Places, m[i].kind = "short"
      PROVE  b[i].kind = "short" /\ NameAt(m, i) = NameAt(b, i)
  <2>1. i < o /\ m[i] = b[i]
    BY <1>4, <1>6 DEF Blank
  <2>2. \A j \in 0 .. i - 1 : j \in Places /\ j < o
    BY <2>1, Places0 DEF Places
  <2>3. Alike(m, b, i)
    BY <1>1, <2>2 DEF Alike
  <2> QED
    BY <1>6, <2>1, <2>3, NameBelow
<1>7. Fewer(b, m)
  BY <1>3, <1>4, <1>5, <1>6 DEF Fewer
<1> QED
  BY <1>3, <1>7 DEF m

\* The sector b with an entry of name n from slot o on, and x its short entry.
Put(b, o, n, x) ==
  [i \in Places |->
     IF i \in o .. o + Parts[n] - 1
       THEN LfnSlot(n, Parts[n] - (i - o), Chksum[x.short])
     ELSE IF i = o + Parts[n] THEN x
     ELSE IF i = o + Parts[n] + 1 THEN End
     ELSE b[i]]

\* What the LFN slots of an entry spell so far.
Spelt(n, k) == {n} \X (Parts[n] - k + 1 .. Parts[n])

\* Its LFN slots, from slot o on.
Spells(w, o, n, sum) ==
  \A i \in o .. o + Parts[n] - 1 : w[i] = LfnSlot(n, Parts[n] - (i - o), sum)

\* LFN slots, last one first, are put together.
LEMMA LfnBuilds ==
  ASSUME NEW w, NEW o \in Nat, NEW n \in Names, NEW sum,
         Spells(w, o, n, sum)
  PROVE  \A k \in 1 .. Parts[n] :
           LfnAt(w, 0, NoLfn, o + k) = [ok |-> TRUE, sum |-> sum, pieces |-> Spelt(n, k)]
<1>0. Parts[n] \in Nat
  BY DirectoryConstants
<1> DEFINE L(k) == LfnAt(w, 0, NoLfn, k)
           R(k) == [ok |-> TRUE, sum |-> sum, pieces |-> Spelt(n, k)]
<1>1. \A k \in Nat : L(k + 1) = LfnAfter(L(k), w[k])
  BY LfnStep
<1> HIDE DEF L
<1> DEFINE Bad == {k \in 1 .. Parts[n] : L(o + k) # R(k)}
<1> SUFFICES ASSUME Bad # {} PROVE FALSE
  BY DEF L
<1>2. PICK k \in Bad : \A y \in Bad : k <= y
  <2>1. Bad \in SUBSET Nat
    OBVIOUS
  <2> HIDE DEF Bad
  <2> QED
    BY <2>1, Least
<1>3. k \in 1 .. Parts[n] /\ L(o + k) # R(k)
  OBVIOUS
<1>4. /\ o + k - 1 \in o .. o + Parts[n] - 1 /\ o + k - 1 \in Nat
      /\ (o + k - 1) + 1 = o + k /\ Parts[n] - ((o + k - 1) - o) = Parts[n] - k + 1
  BY <1>0, <1>3
<1>5. w[o + k - 1] = LfnSlot(n, Parts[n] - k + 1, sum)
  BY <1>4 DEF Spells
<1>6. L(o + k) = LfnAfter(L(o + k - 1), LfnSlot(n, Parts[n] - k + 1, sum))
  BY <1>1, <1>4, <1>5
<1> DEFINE s == LfnSlot(n, Parts[n] - k + 1, sum)
<1>7. /\ s.kind = "lfn" /\ s.name = n /\ s.seq = Parts[n] - k + 1 /\ s.sum = sum
      /\ s.last <=> Parts[n] - k + 1 = Parts[n]
  BY DEF LfnSlot
<1> HIDE DEF s
<1>10. L(o + k) = LfnAfter(L(o + k - 1), s)
  BY <1>6 DEF s
<1>8. CASE k = 1
  <2>1. s.last /\ s.seq = Parts[n]
    BY <1>0, <1>7, <1>8
  <2>2. L(o + k) = [ok |-> TRUE, sum |-> sum, pieces |-> {<<n, Parts[n]>>}]
    BY <1>7, <1>10, <2>1 DEF LfnAfter
  <2>3. Parts[n] - k + 1 .. Parts[n] = {Parts[n]}
    BY <1>0, <1>8
  <2>4. Spelt(n, k) = {<<n, Parts[n]>>}
    BY <2>3 DEF Spelt
  <2> QED
    BY <1>3, <2>2, <2>4
<1>9. CASE k # 1
  <2>1. k - 1 \in 1 .. Parts[n] /\ ~(k <= k - 1) /\ o + (k - 1) = o + k - 1
    BY <1>0, <1>3, <1>9
  <2>2. L(o + k - 1) = R(k - 1)
    BY <1>2, <2>1
  <2>3. ~s.last
    BY <1>0, <1>3, <1>7, <1>9
  <2> DEFINE r == R(k - 1)
  <2>4. L(o + k) = [r EXCEPT !.pieces = @ \cup {<<n, Parts[n] - k + 1>>}]
    <3>1. r.ok
      OBVIOUS
    <3> HIDE DEF r
    <3>2. L(o + k - 1) = r
      BY <2>2 DEF r
    <3> QED
      BY <1>7, <1>10, <2>3, <3>1, <3>2 DEF LfnAfter
  <2>5. L(o + k) = [ok |-> TRUE, sum |-> sum,
                    pieces |-> Spelt(n, k - 1) \cup {<<n, Parts[n] - k + 1>>}]
    BY <2>4
  <2>6. Spelt(n, k) = Spelt(n, k - 1) \cup {<<n, Parts[n] - k + 1>>}
    <3>1. Parts[n] - k + 1 .. Parts[n]
            = (Parts[n] - (k - 1) + 1 .. Parts[n]) \cup {Parts[n] - k + 1}
      BY <1>0, <1>3, <1>9
    <3> QED
      BY <3>1 DEF Spelt
  <2> QED
    BY <1>3, <2>5, <2>6
<1> QED
  BY <1>8, <1>9

\* All of them spell the name.
LEMMA SpeltWhole ==
  ASSUME NEW n \in Names, Parts[n] > 0
  PROVE  Assembled(Spelt(n, Parts[n])) = n
<1>0. Parts[n] \in Nat
  BY DirectoryConstants
<1>1. Spelt(n, Parts[n]) = {n} \X (1 .. Parts[n])
  <2>1. Parts[n] - Parts[n] + 1 = 1
    BY <1>0
  <2> QED
    BY <2>1 DEF Spelt
<1> DEFINE P == Spelt(n, Parts[n])
<1>2. \A m \in Names : P = {m} \X (1 .. Parts[m]) => m = n
  <2> SUFFICES ASSUME NEW m \in Names, P = {m} \X (1 .. Parts[m]) PROVE m = n
    OBVIOUS
  <2>1. 1 \in 1 .. Parts[n]
    BY <1>0
  <2>2. <<n, 1>> \in P
    BY <1>1, <2>1
  <2>3. <<n, 1>> \in {m} \X (1 .. Parts[m])
    BY <2>2
  <2> QED
    BY <2>3
<1>3. P = {n} \X (1 .. Parts[n])
  BY <1>1
<1> HIDE DEF P
<1>4. \E m \in Names : P = {m} \X (1 .. Parts[m])
  BY <1>3
<1>5. Assembled(P) = CHOOSE m \in Names : P = {m} \X (1 .. Parts[m])
  BY <1>4, Zenon DEF Assembled
<1>6. Assembled(P) \in Names /\ P = {Assembled(P)} \X (1 .. Parts[Assembled(P)])
  BY <1>4, <1>5
<1> QED
  BY <1>2, <1>6 DEF P

\* An entry that is put in has its name, and the others have theirs.
LEMMA PutNames ==
  ASSUME NEW b \in Sheets, NEW u \in Sheets, Whole(b), NEW o \in Nat,
         Open(b, o), Open(u, o), \A i \in Places : i < o => u[i] = b[i],
         NEW n \in Names, o + Parts[n] < DirEntPerSec,
         NEW x, x.kind = "short", Parts[n] = 0 => Shown[x.short] = n
  PROVE  /\ Whole(Put(u, o, n, x))
         /\ \A i \in Places : Put(u, o, n, x)[i].kind = "short" =>
              \/ /\ b[i].kind = "short" /\ NameAt(Put(u, o, n, x), i) = NameAt(b, i)
              \/ i = o + Parts[n] /\ NameAt(Put(u, o, n, x), i) = n
         /\ \A i \in Places : b[i].kind = "short" => Put(u, o, n, x)[i] = b[i]
<1> DEFINE p == Parts[n]
           w == Put(u, o, n, x)
<1>0. p \in Nat /\ o + p \in Places /\ Places = 0 .. DirEntPerSec - 1 /\ DirEntPerSec \in Nat
  BY DirectoryConstants, Places0 DEF Places
<1>1. \A i \in Places : w[i] = IF i \in o .. o + p - 1
                                 THEN LfnSlot(n, p - (i - o), Chksum[x.short])
                               ELSE IF i = o + p THEN x
                               ELSE IF i = o + p + 1 THEN End ELSE u[i]
  BY DEF Put
<1> HIDE DEF w, p
<1>2. \A i \in Places : i < o => w[i] = b[i]
  BY <1>0, <1>1
<1>3. w[o + p] = x /\ x.kind # "lfn" /\ ~Blank(x) /\ x # End
  BY <1>0, <1>1 DEF Blank, End
<1>4. \A i \in Places : i >= o /\ i < o + p =>
        w[i] = LfnSlot(n, p - (i - o), Chksum[x.short])
  BY <1>0, <1>1
<1>5. \A i \in Places : i > o + p => Blank(w[i])
  <2>1. Blank(End)
    BY DEF Blank, End
  <2>2. \A i \in Places : i > o + p => w[i] = End \/ w[i] = u[i]
    BY <1>0, <1>1
  <2>3. \A i \in Places : i > o + p => Blank(u[i])
    BY <1>0 DEF Open
  <2> QED
    BY <2>1, <2>2, <2>3
<1>6. \A k \in Nat : LET s == LfnSlot(n, k, Chksum[x.short])
                     IN  s.kind = "lfn" /\ s.sum = Chksum[x.short] /\ ~Blank(s) /\ s # End
  BY DEF LfnSlot, Blank, End
<1>7. \A i \in Places : i < o => w[i] # End
  BY <1>2 DEF Open
<1>8. \A i \in Places : i < o /\ b[i].kind = "lfn" => i + 1 < o
  BY DEF Whole, Open
<1>9. Whole(w)
  <2>1. ASSUME NEW i \in Places, w[i].kind = "lfn"
        PROVE  /\ i + 1 \in Places /\ ~Blank(w[i + 1])
               /\ w[i + 1].kind = "lfn" => w[i + 1].sum = w[i].sum
               /\ w[i + 1].kind = "short" => Chksum[w[i + 1].short] = w[i].sum
    <3>1. CASE i < o
      <4>1. w[i] = b[i] /\ i + 1 < o /\ i + 1 \in Places
        BY <1>2, <1>8, <2>1, <3>1 DEF Whole
      <4>2. w[i + 1] = b[i + 1]
        BY <1>2, <4>1
      <4> QED
        BY <2>1, <4>1, <4>2 DEF Whole
    <3>2. CASE i >= o /\ i < o + p
      <4>1. p - (i - o) \in Nat
        BY <1>0, <3>2
      <4>2. w[i].sum = Chksum[x.short]
        BY <1>4, <1>6, <3>2, <4>1
      <4>3. CASE i + 1 = o + p
        BY <1>0, <1>3, <4>2, <4>3
      <4>4. CASE i + 1 # o + p
        <5>1. /\ i + 1 \in Places /\ i + 1 >= o /\ i + 1 < o + p
              /\ p - ((i + 1) - o) \in Nat
          BY <1>0, <3>2, <4>4
        <5>2. w[i + 1].kind = "lfn" /\ w[i + 1].sum = Chksum[x.short] /\ ~Blank(w[i + 1])
          BY <1>4, <1>6, <5>1
        <5> QED
          BY <4>2, <5>1, <5>2
      <4> QED
        BY <4>3, <4>4
    <3>3. CASE i = o + p
      BY <1>3, <2>1, <3>3
    <3>4. CASE i > o + p
      BY <1>5, <2>1, <3>4 DEF Blank
    <3> QED
      BY <1>0, <3>1, <3>2, <3>3, <3>4
  <2>2. ASSUME NEW i \in Places, NEW j \in Places, i < j, w[i] = End
        PROVE  Blank(w[j])
    <3>1. ~(i < o)
      BY <1>7, <2>2
    <3>2. ~(i >= o /\ i < o + p)
      <4> SUFFICES ASSUME i >= o, i < o + p PROVE FALSE
        OBVIOUS
      <4>1. p - (i - o) \in Nat
        BY <1>0
      <4> QED
        BY <1>4, <1>6, <2>2, <4>1
    <3>3. i # o + p
      BY <1>3, <2>2
    <3>4. j > o + p
      BY <1>0, <2>2, <3>1, <3>2, <3>3
    <3> QED
      BY <1>5, <3>4
  <2> QED
    BY <2>1, <2>2 DEF Whole
<1>10. ASSUME NEW i \in Places, b[i].kind = "short" PROVE i < o /\ w[i] = b[i]
  <2>1. i < o
    BY <1>10 DEF Open, Blank
  <2> QED
    BY <1>2, <2>1
<1>11. NameAt(w, o + p) = n
  <2>1. CASE p = 0
    <3>1. LfnAt(w, 0, NoLfn, o) = NoLfn
      <4>1. CASE o = 0
        BY <4>1, LfnStep
      <4>2. CASE o # 0
        <5>1. o - 1 \in Nat /\ (o - 1) + 1 = o /\ o - 1 \in Places /\ o - 1 < o
              /\ ~((o - 1) + 1 < o)
          BY <1>0, <2>1, <4>2
        <5>2. w[o - 1] = b[o - 1] /\ b[o - 1].kind # "lfn"
          BY <1>2, <1>8, <5>1
        <5>3. LfnAt(w, 0, NoLfn, (o - 1) + 1)
                = LfnAfter(LfnAt(w, 0, NoLfn, o - 1), w[o - 1])
          BY <5>1, LfnStep
        <5>4. LfnAfter(LfnAt(w, 0, NoLfn, o - 1), w[o - 1]) = NoLfn
          BY <5>2 DEF LfnAfter
        <5> QED
          BY <5>1, <5>3, <5>4
      <4> QED
        BY <4>1, <4>2
    <3>2. w[o] = x /\ o + p = o /\ ~NoLfn.ok
      BY <1>0, <1>3, <2>1 DEF NoLfn
    <3>3. NameOf(x, NoLfn) = Shown[x.short]
      BY <3>2 DEF NameOf
    <3> QED
      BY <2>1, <3>1, <3>2, <3>3 DEF NameAt, p
  <2>2. CASE p # 0
    <3>1. p \in 1 .. p /\ p > 0
      BY <1>0, <2>2
    <3>2. \A i \in o .. o + p - 1 : i \in Places /\ i >= o /\ i < o + p
      BY <1>0
    <3>3. \A i \in o .. o + p - 1 : w[i] = LfnSlot(n, p - (i - o), Chksum[x.short])
      BY <1>4, <3>2
    <3>4. LfnAt(w, 0, NoLfn, o + p)
            = [ok |-> TRUE, sum |-> Chksum[x.short], pieces |-> Spelt(n, p)]
      <4> DEFINE sum == Chksum[x.short]
      <4>1. Spells(w, o, n, sum)
        BY <3>3 DEF p, Spells
      <4> HIDE DEF sum
      <4>2. \A k \in 1 .. Parts[n] :
              LfnAt(w, 0, NoLfn, o + k) = [ok |-> TRUE, sum |-> sum, pieces |-> Spelt(n, k)]
        BY <4>1, LfnBuilds
      <4> QED
        BY <3>1, <4>2 DEF sum, p
    <3>5. Assembled(Spelt(n, p)) = n
      BY <3>1, SpeltWhole DEF p
    <3> QED
      BY <1>3, <3>4, <3>5 DEF NameAt, NameOf
  <2> QED
    BY <2>1, <2>2
<1>12. ASSUME NEW i \in Places, w[i].kind = "short"
       PROVE  \/ b[i].kind = "short" /\ NameAt(w, i) = NameAt(b, i)
              \/ i = o + p /\ NameAt(w, i) = n
  <2>1. CASE i < o
    <3>1. w[i] = b[i] /\ \A j \in 0 .. i - 1 : j \in Places /\ j < o
      BY <1>0, <1>2, <2>1
    <3>2. Alike(w, b, i)
      BY <1>2, <3>1 DEF Alike
    <3> QED
      BY <1>12, <3>1, <3>2, NameBelow
  <2>2. CASE i >= o /\ i < o + p
    <3>1. p - (i - o) \in Nat
      BY <1>0, <2>2
    <3> QED
      BY <1>4, <1>6, <1>12, <2>2, <3>1
  <2>3. CASE i = o + p
    BY <1>11, <2>3
  <2>4. CASE i > o + p
    BY <1>5, <1>12, <2>4 DEF Blank
  <2> QED
    BY <1>0, <2>1, <2>2, <2>3, <2>4
<1> QED
  BY <1>9, <1>10, <1>12 DEF w, p

\* The clusters whose links lead to c, and c: what any set has that is closed
\* against the links and has c.
Closed(f, S) == \A x \in Clusters : f[x] \in Clusters /\ f[x] \in S => x \in S
LeadTo(f, c) == {x \in Dirs : \A S \in SUBSET Dirs : c \in S /\ Closed(f, S) => x \in S}

\* Sector l comes before sector m in their directory.
Before(f, l, m) == \/ l[1] = m[1] /\ l[2] < m[2]
                   \/ l[1] # m[1] /\ l[1] \in LeadTo(f, m[1])

\* No chain of clusters comes back to where it was.
Endless(f) == \E c \in Clusters : f[c] \in Clusters /\ f[c] \in LeadTo(f, c)

\* No two entries of a directory have one name.
Distinct(sl, f) ==
  \A l, m \in Sectors : \A i, j \in Places :
    /\ l = m \/ Before(f, l, m)
    /\ sl[l][i].kind = "short" /\ sl[m][j].kind = "short"
    /\ NameAt(sl[l], i) = NameAt(sl[m], j)
    => l = m /\ i = j

\* The sectors behind an End have nothing of an entry.
Ended(sl, f) == \A l, m \in Sectors : Before(f, l, m) /\ HasEnd(sl[l]) => Bare(sl[m])

\* How entries lie on the volume.
Entered(sl, f) ==
  /\ \A l \in Sectors : Whole(sl[l])
  /\ ~Endless(f)
  /\ \A l \in Sectors : l[1] # Root /\ f[l[1]] = 0 => Bare(sl[l])
  /\ Distinct(sl, f) /\ Ended(sl, f)

\* The first cluster of a directory.
Begins(f, d) == d = Root \/ First(f, d)

\* What leads to a cluster.
LEMMA LeadIs ==
  ASSUME NEW f, NEW c \in Dirs
  PROVE  /\ c \in LeadTo(f, c) /\ LeadTo(f, c) \subseteq Dirs
         /\ Closed(f, LeadTo(f, c))
         /\ \A S \in SUBSET Dirs : c \in S /\ Closed(f, S) => LeadTo(f, c) \subseteq S
<1>1. c \in LeadTo(f, c) /\ LeadTo(f, c) \subseteq Dirs
  BY DEF LeadTo
<1>2. Closed(f, LeadTo(f, c))
  <2> SUFFICES ASSUME NEW x \in Clusters, f[x] \in Clusters, f[x] \in LeadTo(f, c)
               PROVE  x \in LeadTo(f, c)
    BY DEF Closed
  <2>1. ASSUME NEW S \in SUBSET Dirs, c \in S, Closed(f, S)
        PROVE  x \in S
    <3>1. f[x] \in S
      BY <2>1 DEF LeadTo
    <3> QED
      BY <2>1, <3>1 DEF Closed
  <2>2. x \in Dirs
    BY Places0
  <2> QED
    BY <2>1, <2>2 DEF LeadTo
<1>3. \A S \in SUBSET Dirs : c \in S /\ Closed(f, S) => LeadTo(f, c) \subseteq S
  BY DEF LeadTo
<1> QED
  BY <1>1, <1>2, <1>3

\* Nothing leads to where a directory begins.
LEMMA LeadFirst ==
  ASSUME NEW f, NEW d \in Dirs, Begins(f, d)
  PROVE  LeadTo(f, d) = {d}
<1>1. Closed(f, {d})
  BY Places0 DEF Closed, Begins, First
<1>2. {d} \in SUBSET Dirs /\ d \in {d}
  OBVIOUS
<1> QED
  BY <1>1, <1>2, LeadIs

\* What leads to the cluster a cluster links to.
LEMMA LeadNext ==
  ASSUME NEW f, Chains(f), NEW c \in Clusters, f[c] \in Clusters
  PROVE  LeadTo(f, f[c]) = LeadTo(f, c) \cup {f[c]}
<1> DEFINE e == f[c]
           T == LeadTo(f, c) \cup {e}
<1>1. c \in Dirs /\ e \in Dirs
  BY Places0
<1>2. /\ c \in LeadTo(f, c) /\ Closed(f, LeadTo(f, c)) /\ LeadTo(f, c) \subseteq Dirs
      /\ e \in LeadTo(f, e) /\ Closed(f, LeadTo(f, e)) /\ LeadTo(f, e) \subseteq Dirs
  BY <1>1, LeadIs
<1>3. Closed(f, T)
  <2> SUFFICES ASSUME NEW x \in Clusters, f[x] \in Clusters, f[x] \in T
               PROVE  x \in T
    BY DEF Closed
  <2>1. CASE f[x] = e
    <3>1. x = c
      BY <2>1 DEF Chains
    <3> QED
      BY <1>2, <3>1
  <2>2. CASE f[x] # e
    BY <1>2, <2>2 DEF Closed
  <2> QED
    BY <2>1, <2>2
<1>4. LeadTo(f, e) \subseteq T
  <2>1. T \in SUBSET Dirs /\ e \in T
    BY <1>1, <1>2
  <2> HIDE DEF T, e
  <2> QED
    BY <1>1, <1>3, <2>1, LeadIs
<1>5. c \in LeadTo(f, e)
  BY <1>2 DEF Closed
<1>6. LeadTo(f, c) \subseteq LeadTo(f, e)
  <2> HIDE DEF T, e
  <2> QED
    BY <1>1, <1>2, <1>5, LeadIs
<1> QED
  BY <1>2, <1>4, <1>6

\* A cluster at the end of a chain leads to none but itself.
LEMMA LeadLast ==
  ASSUME NEW f, NEW n \in Clusters, f[n] \notin Clusters,
         NEW m \in Dirs, n \in LeadTo(f, m)
  PROVE  m = n
<1> SUFFICES ASSUME m # n PROVE FALSE
  OBVIOUS
<1> DEFINE S == LeadTo(f, m) \ {n}
<1>1. m \in LeadTo(f, m) /\ Closed(f, LeadTo(f, m)) /\ LeadTo(f, m) \subseteq Dirs
  BY LeadIs
<1>2. Closed(f, S)
  BY <1>1 DEF Closed
<1>3. S \in SUBSET Dirs /\ m \in S
  BY <1>1
<1>4. LeadTo(f, m) \subseteq S
  <2> HIDE DEF S
  <2> QED
    BY <1>2, <1>3, LeadIs
<1> QED
  BY <1>4

\* To mark a cluster used leads nowhere.
LEMMA LeadAlloc ==
  ASSUME NEW f \in [Clusters -> Links], NEW c \in Clusters, f[c] = 0
  PROVE  \A m : LeadTo([f EXCEPT ![c] = Eoc], m) = LeadTo(f, m)
<1> DEFINE g == [f EXCEPT ![c] = Eoc]
<1>1. \A x \in Clusters : g[x] = IF x = c THEN Eoc ELSE f[x]
  OBVIOUS
<1> HIDE DEF g
<1>2. 0 \notin Clusters /\ Eoc \notin Clusters
  BY Places0
<1>3. \A S : Closed(g, S) <=> Closed(f, S)
  BY <1>1, <1>2 DEF Closed
<1>4. \A m : LeadTo(g, m) = LeadTo(f, m)
  BY <1>3 DEF LeadTo
<1> QED
  BY <1>4 DEF g

\* To free one leads less far.
LEMMA LeadFree ==
  ASSUME NEW f \in [Clusters -> Links], NEW c \in Clusters
  PROVE  \A m : LeadTo([f EXCEPT ![c] = 0], m) \subseteq LeadTo(f, m)
<1> DEFINE g == [f EXCEPT ![c] = 0]
<1>1. \A x \in Clusters : g[x] = IF x = c THEN 0 ELSE f[x]
  OBVIOUS
<1> HIDE DEF g
<1>2. 0 \notin Clusters
  BY Places0
<1>3. \A S : Closed(f, S) => Closed(g, S)
  BY <1>1, <1>2 DEF Closed
<1>4. \A m : LeadTo(g, m) \subseteq LeadTo(f, m)
  BY <1>3 DEF LeadTo
<1> QED
  BY <1>4 DEF g

\* To link in a new cluster leads to that one only.
LEMMA LeadLink ==
  ASSUME NEW f \in [Clusters -> Links], NEW c \in Clusters, f[c] = Eoc,
         NEW n, First(f, n), f[n] = Eoc, n # c
  PROVE  /\ \A m \in Dirs \ {n} : LeadTo([f EXCEPT ![c] = n], m) \subseteq LeadTo(f, m)
         /\ LeadTo([f EXCEPT ![c] = n], n) \subseteq LeadTo(f, c) \cup {n}
<1> DEFINE g == [f EXCEPT ![c] = n]
<1>1. \A x \in Clusters : g[x] = IF x = c THEN n ELSE f[x]
  OBVIOUS
<1> HIDE DEF g
<1>2. n \in Clusters /\ n \in Dirs /\ c \in Dirs /\ Eoc \notin Clusters
  BY Places0 DEF First
<1>3. ASSUME NEW m \in Dirs, m # n
      PROVE  LeadTo(g, m) \subseteq LeadTo(f, m)
  <2>1. /\ m \in LeadTo(f, m) /\ Closed(f, LeadTo(f, m)) /\ LeadTo(f, m) \in SUBSET Dirs
    BY LeadIs
  <2>2. n \notin LeadTo(f, m)
    BY <1>2, <1>3, LeadLast
  <2>3. Closed(g, LeadTo(f, m))
    BY <1>1, <2>1, <2>2 DEF Closed
  <2> QED
    BY <2>1, <2>3, LeadIs
<1>4. LeadTo(g, n) \subseteq LeadTo(f, c) \cup {n}
  <2> DEFINE T == LeadTo(f, c) \cup {n}
  <2>1. /\ c \in LeadTo(f, c) /\ Closed(f, LeadTo(f, c)) /\ LeadTo(f, c) \in SUBSET Dirs
    BY <1>2, LeadIs
  <2>2. Closed(g, T)
    BY <1>1, <2>1 DEF Closed, First
  <2>3. T \in SUBSET Dirs /\ n \in T
    BY <1>2, <2>1
  <2> HIDE DEF T
  <2>4. LeadTo(g, n) \subseteq T
    BY <1>2, <2>2, <2>3, LeadIs
  <2> QED
    BY <2>4 DEF T
<1> QED
  BY <1>3, <1>4 DEF g

\* Where the sectors of one directory are.
LEMMA BeforeIs ==
  ASSUME NEW f, NEW l \in Sectors, NEW m \in Sectors
  PROVE  /\ ~Before(f, l, l)
         /\ Before(f, l, m) => l[1] \in LeadTo(f, m[1]) /\ l # m
<1>1. l[1] \in Dirs /\ m[1] \in Dirs /\ l[2] \in Nat /\ m[2] \in Nat
  BY SectorIs
<1>2. m[1] \in LeadTo(f, m[1])
  BY <1>1, LeadIs
<1> QED
  BY <1>1, <1>2 DEF Before

-----------------------------------------------------------------------------

\* Some names less.
LEMMA EnteredFewer ==
  ASSUME NEW sl, NEW f, Entered(sl, f), NEW sm,
         \A l \in Sectors : Fewer(sl[l], sm[l])
  PROVE  Entered(sm, f)
<1>1. \A l \in Sectors : Whole(sm[l])
  BY DEF Fewer
<1>2. \A l \in Sectors : Bare(sl[l]) => Bare(sm[l])
  BY DEF Fewer, Bare
<1>3. \A l \in Sectors : l[1] # Root /\ f[l[1]] = 0 => Bare(sm[l])
  BY <1>2 DEF Entered
<1>4. Ended(sm, f)
  BY <1>2 DEF Entered, Ended, Fewer
<1>5. Distinct(sm, f)
  BY DEF Entered, Distinct, Fewer
<1> QED
  BY <1>1, <1>3, <1>4, <1>5 DEF Entered

\* One sector has some names less.
LEMMA WriteFewer ==
  ASSUME NEW sl \in [Sectors -> Sheets], NEW f, Entered(sl, f), NEW l, NEW b,
         l \in Sectors => Fewer(sl[l], b)
  PROVE  Entered([sl EXCEPT ![l] = b], f)
<1> DEFINE sm == [sl EXCEPT ![l] = b]
<1>1. \A m \in Sectors : sm[m] = IF m = l THEN b ELSE sl[m]
  OBVIOUS
<1>2. \A m \in Sectors : Fewer(sl[m], sl[m])
  BY SameFewer DEF Entered
<1> HIDE DEF sm
<1>3. \A m \in Sectors : Fewer(sl[m], sm[m])
  BY <1>1, <1>2
<1>4. Entered(sm, f)
  BY <1>3, EnteredFewer
<1> QED
  BY <1>4 DEF sm

\* A sector with nothing of an entry.
LEMMA BareIs ==
  ASSUME NEW b, Bare(b)
  PROVE  Whole(b) /\ \A n : Lacks(b, n)
BY DEF Bare, Blank, Whole, Lacks

\* What clears a sector, and what frees one.
LEMMA BareSheets ==
  /\ Bare(Filled(End)) /\ Bare(Filled(Junk)) /\ ~HasEnd(Filled(Junk))
  /\ Bare([i \in Places |-> IF i < 2 THEN Dot ELSE End])
BY DEF Bare, Blank, Filled, End, Junk, Dot, HasEnd

\* A sector is cleared that nothing of an entry is behind.
LEMMA WriteBare ==
  ASSUME NEW sl \in [Sectors -> Sheets], NEW f, Entered(sl, f), NEW l \in Sectors,
         NEW b, Bare(b), \A m \in Sectors : Before(f, l, m) => Bare(sl[m])
  PROVE  Entered([sl EXCEPT ![l] = b], f)
<1> DEFINE sm == [sl EXCEPT ![l] = b]
<1>1. \A m \in Sectors : sm[m] = IF m = l THEN b ELSE sl[m]
  OBVIOUS
<1> HIDE DEF sm
<1>2. \A m \in Sectors : Whole(sm[m])
  BY <1>1, BareIs DEF Entered
<1>3. \A m \in Sectors : Bare(sl[m]) => Bare(sm[m])
  BY <1>1
<1>4. \A m \in Sectors : m[1] # Root /\ f[m[1]] = 0 => Bare(sm[m])
  BY <1>3 DEF Entered
<1>5. Ended(sm, f)
  <2> SUFFICES ASSUME NEW k \in Sectors, NEW m \in Sectors, Before(f, k, m), HasEnd(sm[k])
               PROVE  Bare(sm[m])
    BY DEF Ended
  <2>1. CASE k = l
    BY <1>3, <2>1
  <2>2. CASE k # l
    BY <1>1, <1>3, <2>2 DEF Entered, Ended
  <2> QED
    BY <2>1, <2>2
<1>6. Distinct(sm, f)
  <2>1. \A m \in Sectors, i \in Places : sm[m][i].kind = "short" => m # l
    BY <1>1 DEF Bare, Blank
  <2> QED
    BY <1>1, <2>1 DEF Entered, Distinct
<1>7. Entered(sm, f)
  BY <1>2, <1>4, <1>5, <1>6 DEF Entered
<1> QED
  BY <1>7 DEF sm

\* The FAT is changed: no sector with something of an entry has others before
\* it than it had.
LEMMA FatEntered ==
  ASSUME NEW sl, NEW f, Entered(sl, f), NEW g, ~Endless(g),
         \A l \in Sectors : l[1] # Root /\ g[l[1]] = 0 => Bare(sl[l]),
         \A l, m \in Sectors : Before(g, l, m) => Before(f, l, m) \/ Bare(sl[m])
  PROVE  Entered(sl, g)
<1>1. Ended(sl, g)
  BY DEF Ended, Entered
<1>2. Distinct(sl, g)
  <2> SUFFICES ASSUME NEW l \in Sectors, NEW m \in Sectors, NEW i \in Places,
                      NEW j \in Places, l = m \/ Before(g, l, m),
                      sl[l][i].kind = "short", sl[m][j].kind = "short",
                      NameAt(sl[l], i) = NameAt(sl[m], j)
               PROVE  l = m /\ i = j
    BY DEF Distinct
  <2>1. ~Bare(sl[m])
    BY DEF Bare, Blank
  <2>2. l = m \/ Before(f, l, m)
    BY <2>1
  <2> QED
    BY <2>2 DEF Entered, Distinct
<1> QED
  BY <1>1, <1>2 DEF Entered

\* A scan for n goes on behind this sector.
Passed(b, n) == ~HasEnd(b) /\ Lacks(b, n)
PassedTo(sl, f, l, n) == \A m \in Sectors : Before(f, m, l) => Passed(sl[m], n)

\* Sector l is the one of its directory, without the name n, where a new entry
\* may go.
Here(sl, f, l, n) ==
  /\ PassedTo(sl, f, l, n) /\ Lacks(sl[l], n) /\ Used(f, l[1])
  /\ \A m \in Sectors : Before(f, l, m) => Bare(sl[m])

\* A cluster is marked used.
LEMMA AllocEntered ==
  ASSUME NEW sl, NEW f \in [Clusters -> Links], Entered(sl, f),
         NEW c \in Clusters, f[c] = 0
  PROVE  /\ Entered(sl, [f EXCEPT ![c] = Eoc])
         /\ \A l, m : Before([f EXCEPT ![c] = Eoc], l, m) <=> Before(f, l, m)
<1> DEFINE g == [f EXCEPT ![c] = Eoc]
<1>1. \A x \in Clusters : g[x] = IF x = c THEN Eoc ELSE f[x]
  OBVIOUS
<1>2. \A m : LeadTo(g, m) = LeadTo(f, m)
  BY LeadAlloc
<1> HIDE DEF g
<1>3. \A l, m : Before(g, l, m) <=> Before(f, l, m)
  BY <1>2 DEF Before
<1>4. ~Endless(g)
  BY <1>1, <1>2, Places0 DEF Endless, Entered
<1>5. ASSUME NEW l \in Sectors, l[1] # Root, g[l[1]] = 0
      PROVE  Bare(sl[l])
  <2>1. l[1] \in Clusters /\ Eoc # 0
    BY <1>5, SectorIs, Places0 DEF Dirs, Eoc
  <2>2. f[l[1]] = 0
    BY <1>1, <1>5, <2>1
  <2> QED
    BY <1>5, <2>2 DEF Entered
<1>6. Entered(sl, g)
  BY <1>3, <1>4, <1>5, FatEntered
<1> QED
  BY <1>3, <1>6 DEF g

\* One that has nothing of an entry is freed.
LEMMA FreeEntered ==
  ASSUME NEW sl, NEW f \in [Clusters -> Links], Entered(sl, f),
         NEW c \in Clusters, \A l \in Sectors : l[1] = c => Bare(sl[l])
  PROVE  Entered(sl, [f EXCEPT ![c] = 0])
<1> DEFINE g == [f EXCEPT ![c] = 0]
<1>1. \A x \in Clusters : g[x] = IF x = c THEN 0 ELSE f[x]
  OBVIOUS
<1>2. \A m : LeadTo(g, m) \subseteq LeadTo(f, m)
  BY LeadFree
<1> HIDE DEF g
<1>3. \A l, m : Before(g, l, m) => Before(f, l, m)
  BY <1>2 DEF Before
<1>4. ~Endless(g)
  BY <1>1, <1>2, Places0 DEF Endless, Entered
<1>5. ASSUME NEW l \in Sectors, l[1] # Root, g[l[1]] = 0
      PROVE  Bare(sl[l])
  <2>1. l[1] \in Clusters
    BY <1>5, SectorIs, Places0 DEF Dirs
  <2>2. f[l[1]] = 0 \/ l[1] = c
    BY <1>1, <1>5, <2>1
  <2> QED
    BY <1>5, <2>2 DEF Entered
<1>6. Entered(sl, g)
  BY <1>3, <1>4, <1>5, FatEntered
<1> QED
  BY <1>6 DEF g

\* A new cluster that has nothing of an entry is linked in.
LEMMA LinkEntered ==
  ASSUME NEW sl, NEW f \in [Clusters -> Links], Entered(sl, f),
         NEW c \in Clusters, f[c] = Eoc,
         NEW n, First(f, n), f[n] = Eoc, n # c,
         \A l \in Sectors : l[1] = n => Bare(sl[l])
  PROVE  /\ Entered(sl, [f EXCEPT ![c] = n])
         /\ \A l \in Sectors : ~Before([f EXCEPT ![c] = n], <<n, 0>>, l) \/ l[1] = n
         /\ \A l \in Sectors : Before([f EXCEPT ![c] = n], l, <<n, 0>>)
                                 => l[1] \in LeadTo(f, c)
<1> DEFINE g == [f EXCEPT ![c] = n]
<1>1. \A x \in Clusters : g[x] = IF x = c THEN n ELSE f[x]
  OBVIOUS
<1>2. /\ \A m \in Dirs \ {n} : LeadTo(g, m) \subseteq LeadTo(f, m)
      /\ LeadTo(g, n) \subseteq LeadTo(f, c) \cup {n}
  BY LeadLink
<1> HIDE DEF g
<1>3. n \in Clusters /\ n # 0 /\ Eoc \notin Clusters /\ Eoc # 0 /\ 0 \notin Clusters
      /\ Clusters \subseteq Dirs /\ Root \notin Clusters
  BY Places0 DEF First, Eoc
<1>4. \A m \in Dirs : n \in LeadTo(f, m) => m = n
  BY <1>3, LeadLast
<1>5. ~Endless(g)
  <2> SUFFICES ASSUME NEW x \in Clusters, g[x] \in Clusters, g[x] \in LeadTo(g, x)
               PROVE  FALSE
    BY DEF Endless
  <2>1. x # n
    BY <1>1, <1>3
  <2>2. g[x] \in LeadTo(f, x)
    BY <1>2, <1>3, <2>1
  <2>3. CASE x = c
    BY <1>1, <1>3, <1>4, <2>2, <2>3
  <2>4. CASE x # c
    BY <1>1, <2>2, <2>4 DEF Entered, Endless
  <2> QED
    BY <2>3, <2>4
<1>6. ASSUME NEW l \in Sectors, l[1] # Root, g[l[1]] = 0
      PROVE  Bare(sl[l])
  <2>1. l[1] \in Clusters
    BY <1>6, SectorIs, Places0 DEF Dirs
  <2>2. f[l[1]] = 0
    BY <1>1, <1>3, <1>6, <2>1
  <2> QED
    BY <1>6, <2>2 DEF Entered
<1>7. ASSUME NEW l \in Sectors, NEW m \in Sectors, Before(g, l, m)
      PROVE  Before(f, l, m) \/ Bare(sl[m])
  <2>1. m[1] \in Dirs
    BY SectorIs
  <2>2. m[1] # n => LeadTo(g, m[1]) \subseteq LeadTo(f, m[1])
    BY <1>2, <2>1
  <2> QED
    BY <1>7, <2>2 DEF Before
<1>8. Entered(sl, g)
  BY <1>5, <1>6, <1>7, FatEntered
<1>9. ASSUME NEW l \in Sectors, l[1] # n
      PROVE  ~Before(g, <<n, 0>>, l)
  <2>1. l[1] \in Dirs
    BY SectorIs
  <2>2. n \notin LeadTo(g, l[1])
    BY <1>2, <1>4, <1>9, <2>1
  <2> QED
    BY <1>9, <2>2 DEF Before
<1>10. ASSUME NEW l \in Sectors, Before(g, l, <<n, 0>>)
       PROVE  l[1] \in LeadTo(f, c)
  <2>1. l[2] \in Nat
    BY SectorIs
  <2>2. l[1] # n /\ l[1] \in LeadTo(g, n)
    BY <1>10, <2>1 DEF Before
  <2> QED
    BY <1>2, <2>2
<1> QED
  BY <1>8, <1>9, <1>10 DEF g

\* The sector b has no other names than the sector old, but for n in slot k.
Joined(old, b, k, n) ==
  \A i \in Places : b[i].kind = "short" =>
    \/ old[i].kind = "short" /\ NameAt(b, i) = NameAt(old, i)
    \/ i = k /\ NameAt(b, i) = n

\* An entry with a new name is put in, where the scan has ended.
LEMMA PutEntered ==
  ASSUME NEW sl \in [Sectors -> Sheets], NEW f, Entered(sl, f), NEW l \in Sectors,
         NEW n, Here(sl, f, l, n), NEW b, Whole(b), NEW k,
         Joined(sl[l], b, k, n)
  PROVE  Entered([sl EXCEPT ![l] = b], f)
<1> DEFINE sm == [sl EXCEPT ![l] = b]
<1>1. \A m \in Sectors : sm[m] = IF m = l THEN b ELSE sl[m]
  OBVIOUS
<1> HIDE DEF sm
<1>2. \A m \in Sectors : Whole(sm[m])
  BY <1>1 DEF Entered
<1>3. \A m \in Sectors : m[1] # Root /\ f[m[1]] = 0 => m # l /\ Bare(sl[m])
  BY DEF Here, Used, Entered
<1>4. \A m \in Sectors : m[1] # Root /\ f[m[1]] = 0 => Bare(sm[m])
  BY <1>1, <1>3
<1>5. ~Before(f, l, l)
  BY BeforeIs
<1>6. Ended(sm, f)
  <2> SUFFICES ASSUME NEW i \in Sectors, NEW m \in Sectors, Before(f, i, m), HasEnd(sm[i])
               PROVE  Bare(sm[m])
    BY DEF Ended
  <2>1. CASE i = l
    <3>1. m # l /\ Bare(sl[m])
      BY <1>5, <2>1 DEF Here
    <3> QED
      BY <1>1, <3>1
  <2>2. CASE i # l
    <3>1. HasEnd(sl[i])
      BY <1>1, <2>2
    <3>2. m # l
      BY <3>1 DEF Here, PassedTo, Passed
    <3>3. Bare(sl[m])
      BY <3>1 DEF Entered, Ended
    <3> QED
      BY <1>1, <3>2, <3>3
  <2> QED
    BY <2>1, <2>2
<1>7. Distinct(sm, f)
  <2> SUFFICES ASSUME NEW p \in Sectors, NEW m \in Sectors, NEW i \in Places,
                      NEW j \in Places, p = m \/ Before(f, p, m),
                      sm[p][i].kind = "short", sm[m][j].kind = "short",
                      NameAt(sm[p], i) = NameAt(sm[m], j)
               PROVE  p = m /\ i = j
    BY DEF Distinct
  <2> DEFINE old(q, h) == sl[q][h].kind = "short" /\ NameAt(sm[q], h) = NameAt(sl[q], h)
             new(q, h) == q = l /\ h = k /\ NameAt(sm[q], h) = n
  <2>1. (old(p, i) \/ new(p, i)) /\ (old(m, j) \/ new(m, j))
    BY <1>1 DEF Joined
  <2>2. CASE old(p, i) /\ old(m, j)
    <3>1. /\ sl[p][i].kind = "short" /\ sl[m][j].kind = "short"
          /\ NameAt(sl[p], i) = NameAt(sl[m], j)
      BY <2>2
    <3>2. Distinct(sl, f)
      BY DEF Entered
    <3> HIDE DEF old, new
    <3> QED
      BY <3>1, <3>2 DEF Distinct
  <2>3. CASE new(p, i) /\ new(m, j)
    BY <2>3
  <2>4. CASE new(p, i) /\ old(m, j)
    <3>1. NameAt(sl[m], j) = n /\ sl[m][j].kind = "short" /\ p = l
      BY <2>4
    <3>2. ~Lacks(sl[m], n) /\ ~Bare(sl[m])
      BY <3>1 DEF Lacks, Bare, Blank
    <3> QED
      BY <3>1, <3>2 DEF Here
  <2>5. CASE old(p, i) /\ new(m, j)
    <3>1. NameAt(sl[p], i) = n /\ sl[p][i].kind = "short" /\ m = l
      BY <2>5
    <3>2. ~Lacks(sl[p], n)
      BY <3>1 DEF Lacks
    <3> QED
      BY <3>1, <3>2 DEF Here, PassedTo, Passed
  <2> QED
    BY <2>1, <2>2, <2>3, <2>4, <2>5
<1>8. Entered(sm, f)
  BY <1>2, <1>4, <1>6, <1>7 DEF Entered
<1> QED
  BY <1>8 DEF sm

-----------------------------------------------------------------------------

\* A call that looks where its new entry may go.
Seeks(c) == c.at = "scanto" \/ (c.at = "scan" /\ c.op \in {"create", "mkdir"})

\* Its scan begins where the directory does, and has met no entry of that name.
Seeking(c, p, sl, f) ==
  /\ c.at \in {"scan", "scanto"} /\ c.op \in {"create", "mkdir", "rename"}
       => Begins(f, c.dir)
  /\ Seeks(c) => p.lfn = NoLfn /\ (p.sect = -1 => p.clust = c.dir)
  /\ Seeks(c) /\ p.sect # -1 =>
       /\ p.lba = <<p.clust, p.sect>> /\ PassedTo(sl, f, p.lba, c.name)
       /\ p.eleft # 0 => p.eptr = 0
       /\ p.eleft = 0 => Passed(sl[p.lba], c.name)

\* The iterator is on its sector, or has just left the last one.
Onto(p, f) ==
  \/ p.lba = <<p.clust, p.sect>>
  \/ /\ p.lba = <<p.clust, SectorsOf(p.clust) - 1>> /\ p.sect = SectorsOf(p.clust)
     /\ p.clust = Root \/ f[p.clust] = Eoc

\* The scan has ended, and nothing is written there yet.
Ready(c) == c.at \in {"alloc", "dots", "clear", "short", "fill"}
            \/ (c.at = "reload" /\ c.op = "mkdir")

\* A cluster a directory may grow from, without the name n.
Last(sl, f, c, n) ==
  /\ c \in Clusters /\ f[c] = Eoc
  /\ \A l \in Sectors : l[1] \in LeadTo(f, c) => Passed(sl[l], n)

\* The sector b may be written with an entry of name n from slot off on, at l.
Fitting(sl, l, b, off, n) ==
  /\ Open(sl[l], off) /\ Open(b, off)
  /\ \A i \in Places : i < off => b[i] = sl[l][i]
  /\ off + Parts[n] < DirEntPerSec

\* Where the new entry goes.
Landing(c, p, b, sl, f) ==
  /\ Ready(c) \/ c.at = "next" => Onto(p, f) /\ Here(sl, f, p.lba, c.name)
  /\ Ready(c) => Open(sl[p.lba], p.eptr)
  /\ c.at = "next" => ~HasEnd(sl[p.lba])
  /\ c.at \in {"grow", "link"} => Last(sl, f, p.clust, c.name)
  /\ c.at = "wipe" => p.lba = <<c.new, 0>> /\ PassedTo(sl, f, p.lba, c.name)
  /\ c.at = "insert" => /\ Here(sl, f, p.lba, c.name)
                        /\ Fitting(sl, p.lba, b, c.off, c.name)

\* A cluster that a call has allocated, and has nothing of an entry in it.
Unused(sl, f, c) == /\ c \in Clusters /\ f[c] = Eoc
                    /\ \A l \in Sectors : l[1] = c => Bare(sl[l])

Newest(c, p, sl, f) ==
  /\ c.at \in {"dots", "clear", "link", "wipe"} => Unused(sl, f, c.new)
  /\ c.at \in {"dots", "clear"} => p.lba[1] # c.new
  /\ c.at = "link" => p.clust # c.new

\* The old entry of a rename stays where it is.
Kept(c, p, sl) ==
  /\ c.op = "rename" /\ c.at \in {"scanto", "reload", "mark"} \cup Placed
       => sl[c.lba][c.entry.off].kind = "short"
  /\ c.op = "rename" /\ c.at \in {"reload", "mark"} => p.lba = c.lba

\* A clean name is its short one.
Cleanly(c) ==
  /\ c.at = "short" /\ Parts[c.name] = 0 => c.n = 0
  /\ c.at \in Placing /\ Parts[c.name] = 0 => Shown[c.short] = c.name

NamesInv == /\ Entered(slots, fat)
            /\ Seeking(call, pos, slots, fat)
            /\ Landing(call, pos, buf, slots, fat)
            /\ Newest(call, pos, slots, fat)
            /\ Kept(call, pos, slots)
            /\ Cleanly(call)

\* No read has failed, the machine was not restarted, and no directory is
\* renamed.
Smooth == Calm /\ faults.crash = 0

\* A call that adds no entry, or does not now.
LEMMA ElsewhereNames ==
  ASSUME Entered(slots', fat'),
         \/ call'.at \in {"", "empty", "restore", "store", "free", "flush"}
         \/ call'.op \notin {"create", "mkdir", "rename"} /\ Kinds(call')
  PROVE  NamesInv'
<1>1. /\ ~Seeks(call') /\ ~Ready(call')
      /\ call'.at \notin {"next", "grow", "link", "wipe", "insert", "dots", "clear"}
      /\ call'.at \notin {"short"} \cup Placing
      /\ ~(/\ call'.at \in {"scan", "scanto"}
           /\ call'.op \in {"create", "mkdir", "rename"})
      /\ ~(/\ call'.op = "rename"
           /\ call'.at \in {"scanto", "reload", "mark"} \cup Placed)
  BY DEF Kinds, Seeks, Ready, Placing, Placed
<1>2. Seeking(call', pos', slots', fat')
  BY <1>1 DEF Seeking
<1>3. Landing(call', pos', buf', slots', fat')
  BY <1>1 DEF Landing
<1>4. Newest(call', pos', slots', fat')
  BY <1>1 DEF Newest
<1>5. Kept(call', pos', slots') /\ Cleanly(call')
  BY <1>1 DEF Kept, Cleanly, Placed
<1> QED
  BY <1>2, <1>3, <1>4, <1>5 DEF NamesInv

\* A call returns.
LEMMA IdleNames ==
  ASSUME call' = Idle, Entered(slots', fat')
  PROVE  NamesInv'
  BY ElsewhereNames DEF Idle

\* The sector after one that a scan for a name has passed.
LEMMA NextBefore ==
  ASSUME fat \in [Clusters -> Links], Chains(fat), ~Endless(fat),
         NEW p, PosIn(p, 1), Used(fat, p.clust), ~NoMore(p),
         p.sect # -1, Onto(p, fat),
         NEW l \in Sectors
  PROVE  LET q == NextSector(p).lba
         IN  /\ Used(fat, NextSector(p).clust)
             /\ Before(fat, p.lba, q)
             /\ Before(fat, l, q) => l = p.lba \/ Before(fat, l, p.lba)
             /\ Before(fat, q, l) => Before(fat, p.lba, l)
<1> DEFINE q == NextSector(p).lba
<1>0. /\ p.clust \in Dirs /\ p.sect \in Nat /\ DOMAIN p = PosFields
      /\ p.lba \in Sectors /\ q \in Sectors
  <2>1. q \in Sectors
    BY NextIn
  <2> QED BY <2>1 DEF PosIn
<1>1. p.lba = <<p.clust, p.sect>> /\ p.sect < SectorsOf(p.clust)
  <2>1. CASE p.lba = <<p.clust, p.sect>>
    BY <2>1, <1>0, SectorIs
  <2>2. CASE /\ p.sect = SectorsOf(p.clust)
             /\ p.clust = Root \/ fat[p.clust] = Eoc
    <3>1. NoMore(p)
      BY <2>2, <1>0, Places0 DEF NoMore, ClusterDone, SectorsOf, Link, Dirs
    <3> QED BY <3>1
  <2> QED BY <2>1, <2>2 DEF Onto
<1>2. l[1] \in Dirs /\ l[2] \in Nat /\ l[2] < SectorsOf(l[1]) /\ l = <<l[1], l[2]>>
  BY SectorIs
<1>3. CASE ~ClusterDone(p)
  <2>1. q = <<p.clust, p.sect + 1>> /\ NextSector(p).clust = p.clust
    BY <1>3, <1>0 DEF NextSector, PosFields
  <2>2. Before(fat, p.lba, q)
    BY <2>1, <1>1, <1>0 DEF Before
  <2>3. Before(fat, l, q) => l = p.lba \/ Before(fat, l, p.lba)
    BY <2>1, <1>1, <1>0, <1>2 DEF Before
  <2>4. Before(fat, q, l) => Before(fat, p.lba, l)
    BY <2>1, <1>1, <1>0, <1>2 DEF Before
  <2> QED BY <2>1, <2>2, <2>3, <2>4
<1>4. CASE ClusterDone(p)
  <2>1. /\ p.clust \in Clusters /\ p.sect + 1 >= Spc
        /\ fat[p.clust] \in Clusters
    BY <1>4, <1>0, Places0 DEF ClusterDone, NoMore, Link, Used, Dirs, Links
  <2> DEFINE c == p.clust
             d == fat[p.clust]
  <2>2. q = <<d, 0>> /\ NextSector(p).clust = d /\ d # 0 /\ fat[d] # 0
    BY <1>4, <2>1, <1>0, Places0 DEF NextSector, PosFields, Link, Chains
  <2>3. LeadTo(fat, d) = LeadTo(fat, c) \cup {d}
    BY <2>1, LeadNext
  <2>4. d \notin LeadTo(fat, c) /\ c \in LeadTo(fat, c) /\ c # d
    BY <2>1, LeadIs, Places0 DEF Endless
  <2>5. Before(fat, p.lba, q)
    BY <2>2, <2>3, <2>4, <1>1 DEF Before
  <2>6. ASSUME Before(fat, l, q) PROVE l = p.lba \/ Before(fat, l, p.lba)
    <3>1. l[1] # d /\ l[1] \in LeadTo(fat, c)
      BY <2>6, <2>2, <2>3, <1>2 DEF Before
    <3>2. CASE l[1] = c
      <4>1. l[2] <= p.sect
        BY <3>2, <2>1, <1>2, <1>0, Places0 DEF SectorsOf
      <4> QED BY <4>1, <3>2, <1>1, <1>2, <1>0 DEF Before
    <3>3. CASE l[1] # c
      BY <3>3, <3>1, <1>1 DEF Before
    <3> QED BY <3>2, <3>3
  <2>7. ASSUME Before(fat, q, l) PROVE Before(fat, p.lba, l)
    <3>1. d \in LeadTo(fat, l[1])
      BY <2>7, <2>2, <1>2, LeadIs DEF Before
    <3>2. c \in LeadTo(fat, l[1])
      BY <3>1, <2>1, <1>2, LeadIs DEF Closed
    <3>3. l[1] # c
      BY <3>1, <2>4
    <3> QED BY <3>2, <3>3, <1>1 DEF Before
  <2>8. Used(fat, NextSector(p).clust)
    BY <2>2, <2>1 DEF Used
  <2> QED BY <2>5, <2>6, <2>7, <2>8
<1> QED BY <1>3, <1>4

\* Nothing is before the first sector of a directory.
LEMMA FirstBefore ==
  ASSUME NEW p, PosIn(p, 0), p.sect = -1, Begins(fat, p.clust), NEW l \in Sectors
  PROVE  /\ NextSector(p).clust = p.clust /\ NextSector(p).lba = <<p.clust, 0>>
         /\ ~Before(fat, l, NextSector(p).lba)
<1>1. /\ p.clust \in Dirs /\ DOMAIN p = PosFields
  BY DEF PosIn
<1>2. ~ClusterDone(p)
  BY Places0 DEF ClusterDone
<1>3. NextSector(p).clust = p.clust /\ NextSector(p).lba = <<p.clust, 0>>
  BY <1>1, <1>2 DEF NextSector, PosFields
<1>4. LeadTo(fat, p.clust) = {p.clust}
  BY <1>1, LeadFirst
<1>5. l[2] \in Nat
  BY SectorIs
<1> QED BY <1>3, <1>4, <1>5 DEF Before

\* And nothing behind the last.
LEMMA LastBehind ==
  ASSUME NEW p, PosIn(p, 1), NoMore(p), p.sect # -1, Onto(p, fat),
         fat \in [Clusters -> Links], NEW l \in Sectors
  PROVE  /\ p.lba = <<p.clust, SectorsOf(p.clust) - 1>>
         /\ ~Before(fat, p.lba, l)
         /\ p.clust # Root => p.clust \in Clusters /\ fat[p.clust] = Eoc
         /\ l[1] = p.clust => l = p.lba \/ Before(fat, l, p.lba)
<1>0. /\ p.clust \in Dirs /\ p.sect \in Int /\ p.lba \in Sectors
  BY DEF PosIn
<1>1. l[1] \in Dirs /\ l[2] \in Nat /\ l[2] < SectorsOf(l[1]) /\ l = <<l[1], l[2]>>
  BY SectorIs
<1>2. p.clust # Root => p.clust \in Clusters /\ fat[p.clust] = Eoc
  BY <1>0, Places0 DEF NoMore, Link, Dirs
<1>3. p.lba = <<p.clust, SectorsOf(p.clust) - 1>>
  <2>1. CASE p.lba = <<p.clust, p.sect>>
    <3>1. p.sect < SectorsOf(p.clust) /\ p.sect \in Nat
      BY <2>1, <1>0, SectorIs
    <3>2. p.sect + 1 >= SectorsOf(p.clust)
      BY <1>0 DEF NoMore, ClusterDone, SectorsOf
    <3>3. p.sect = SectorsOf(p.clust) - 1
      BY <3>1, <3>2, <1>0, SectorIs
    <3> QED BY <3>3, <2>1
  <2> QED BY <2>1 DEF Onto
<1>4. SectorsOf(p.clust) \in Nat
  BY <1>0, SectorIs
<1>5. ASSUME Before(fat, p.lba, l) PROVE FALSE
  <2>1. CASE l[1] = p.clust
    BY <2>1, <1>5, <1>3, <1>1, <1>4 DEF Before
  <2>2. CASE l[1] # p.clust
    <3>1. p.clust \in LeadTo(fat, l[1])
      BY <2>2, <1>5, <1>3 DEF Before
    <3>2. CASE p.clust = Root
      <4>1. l[1] \in Clusters
        BY <3>2, <2>2, <1>1 DEF Dirs
      <4>2. Closed(fat, Clusters) /\ Clusters \in SUBSET Dirs
        BY Places0 DEF Closed
      <4>3. LeadTo(fat, l[1]) \subseteq Clusters
        BY <4>1, <4>2, <1>1, LeadIs
      <4> QED BY <4>3, <3>1, <3>2, Places0
    <3>3. CASE p.clust # Root
      <4>1. p.clust \in Clusters /\ fat[p.clust] \notin Clusters
        BY <3>3, <1>2, Places0
      <4> QED BY <4>1, <3>1, <2>2, <1>1, LeadLast
    <3> QED BY <3>2, <3>3
  <2> QED BY <2>1, <2>2
<1>6. l[1] = p.clust => l = p.lba \/ Before(fat, l, p.lba)
  BY <1>1, <1>3, <1>4 DEF Before
<1> QED BY <1>2, <1>3, <1>5, <1>6

\* A scan goes on.
LEMMA ScanOnNames ==
  ASSUME NamesInv, Scanning, call' = call, UNCHANGED <<fat, slots>>,
         Seeking(call, pos', slots, fat)
  PROVE  NamesInv'
<1>1. /\ ~Ready(call) /\ call.at \notin {"next", "grow", "link", "wipe", "insert",
                                         "dots", "clear", "short", "reload", "mark"}
      /\ call.at \notin Placing
  BY DEF Scanning, Ready, Placing
<1>2. Landing(call, pos', buf', slots, fat) /\ Newest(call, pos', slots, fat)
  BY <1>1 DEF Landing, Newest
<1>3. Kept(call, pos', slots) /\ Cleanly(call)
  BY <1>1 DEF Kept, Cleanly, NamesInv
<1> QED BY <1>2, <1>3 DEF NamesInv

\* The scan for a place ends.
LEMMA SeekEnds ==
  ASSUME Core, NamesInv, Scanning, UNCHANGED <<fat, slots>>,
         NEW place \in {"alloc", "short"}, call' = [call EXCEPT !.at = place],
         Onto(pos', fat), Here(slots, fat, pos'.lba, call.name),
         Open(slots[pos'.lba], pos'.eptr),
         call.op = "rename" => call.at = "scanto"
  PROVE  NamesInv'
<1>1. /\ call'.at = place /\ call'.op = call.op /\ call'.name = call.name
      /\ call'.n = call.n /\ call.n = 0 /\ call'.lba = call.lba
      /\ call'.entry = call.entry
  BY WorkFacts, ScanFacts
<1>2. Seeking(call', pos', slots', fat')
  BY <1>1 DEF Seeking, Seeks
<1>3. Landing(call', pos', buf', slots', fat')
  BY <1>1 DEF Landing, Ready
<1>4. Newest(call', pos', slots', fat')
  BY <1>1 DEF Newest
<1>5. Kept(call', pos', slots')
  BY <1>1 DEF Kept, NamesInv
<1>6. Cleanly(call')
  BY <1>1 DEF Cleanly, Placing
<1> QED
  BY <1>2, <1>3, <1>4, <1>5, <1>6 DEF NamesInv

\* What a seeking call is at.
LEMMA SeekFacts ==
  ASSUME Core, DirInv, NamesInv, Scanning, Seeks(call)
  PROVE  /\ PosIn(pos, 0) /\ PosIn(pos, 1) /\ call.op \in {"create", "mkdir", "rename"}
         /\ DOMAIN pos = PosFields /\ pos.lba \in Sectors
         /\ Used(fat, pos.clust) /\ pos.lfn = NoLfn
         /\ pos.sect = -1 => /\ pos.eleft = 0 /\ Begins(fat, pos.clust)
         /\ pos.sect # -1 =>
              /\ buf = slots[pos.lba] /\ pos.eleft = DirEntPerSec - pos.eptr
              /\ pos.lba = <<pos.clust, pos.sect>> /\ Onto(pos, fat)
              /\ PassedTo(slots, fat, pos.lba, call.name)
              /\ pos.eleft # 0 => pos.eptr = 0
              /\ pos.eleft = 0 => Passed(slots[pos.lba], call.name)
         /\ Entered(slots, fat) /\ Chains(fat)
         /\ fat \in [Clusters -> Links] /\ slots \in [Sectors -> Sheets]
         /\ \A e : Wanted(e) <=> e.name = call.name
<1>1. PosIn(pos, 0) /\ call.op # "idle"
  BY ScanFacts
<1>2. PosIn(pos, 1)
  BY <1>1, PosWider
<1>3. call.op \in {"create", "mkdir", "rename"}
  BY DirFacts DEF Progress, Kinds, Seeks
<1>4. /\ Used(fat, pos.clust)
      /\ pos.sect = -1 => pos.eleft = 0
      /\ pos.sect # -1 => buf = slots[pos.lba] /\ pos.eleft = DirEntPerSec - pos.eptr
  BY <1>3, ScanStage
<1>5. Seeking(call, pos, slots, fat) /\ Entered(slots, fat)
  BY DEF NamesInv
<1>6. call.at \in {"scan", "scanto"} /\ call.at # "empty"
  BY DEF Seeks
<1>7. Begins(fat, call.dir)
  BY <1>5, <1>6, <1>3 DEF Seeking
<1>8. \A e : Wanted(e) <=> e.name = call.name
  BY <1>3, <1>6 DEF Wanted
<1>9. /\ Chains(fat) /\ fat \in [Clusters -> Links] /\ slots \in [Sectors -> Sheets]
  BY DirFacts DEF Volumes
<1>10. DOMAIN pos = PosFields /\ pos.lba \in Sectors
  BY <1>1 DEF PosIn
<1> QED
  BY <1>1, <1>2, <1>3, <1>4, <1>5, <1>7, <1>8, <1>9, <1>10 DEF Seeking, Onto

\* The names in a sector, up to an End, are those a scan of it finds.
LEMMA ScanLooks ==
  ASSUME NEW b \in Sheets, Whole(b), NEW i \in Places, b[i].kind = "short"
  PROVE  /\ \A j \in 0 .. i : b[j] # End
         /\ \E e \in EntriesOf(b, 0, NoLfn) : e.name = NameAt(b, i)
<1>1. \A j \in 0 .. i : b[j] # End
  <2> SUFFICES ASSUME NEW j \in 0 .. i, b[j] = End PROVE FALSE
    OBVIOUS
  <2>1. j \in Places /\ j <= i
    BY Places0 DEF Places
  <2>2. j # i
    BY DEF End
  <2>3. j < i
    BY <2>1, <2>2 DEF Places
  <2>4. Blank(b[i])
    BY <2>1, <2>3 DEF Whole
  <2> QED BY <2>4 DEF Blank
<1>2. i \in Shortly(b, 0)
  BY <1>1 DEF Shortly, Places
<1>3. \E e \in EntriesOf(b, 0, NoLfn) : e.name = NameOf(b[i], LfnAt(b, 0, NoLfn, i))
  <2> DEFINE e == [off |-> i, name |-> NameOf(b[i], LfnAt(b, 0, NoLfn, i)),
                   dir |-> b[i].dir, ro |-> b[i].ro, clust |-> b[i].clust]
  <2>1. e \in EntriesOf(b, 0, NoLfn)
    BY <1>2 DEF EntriesOf
  <2>2. e.name = NameOf(b[i], LfnAt(b, 0, NoLfn, i))
    OBVIOUS
  <2> QED BY <2>1, <2>2
<1> QED BY <1>1, <1>3 DEF NameAt

\* A scan of a whole sector that finds nothing.
LEMMA ScanLacks ==
  ASSUME Core, DirInv, NamesInv, Scanning, Seeks(call), Hits = {}, pos.eleft # 0
  PROVE  /\ pos.sect # -1 /\ buf = slots[pos.lba] /\ pos.eptr = 0
         /\ Lacks(slots[pos.lba], call.name)
<1>1. /\ pos.sect # -1 /\ buf = slots[pos.lba] /\ pos.eptr = 0 /\ pos.lfn = NoLfn
      /\ pos.lba \in Sectors /\ Whole(buf) /\ buf \in Sheets
  BY SeekFacts DEF Entered
<1>2. \A e \in EntriesOf(buf, 0, NoLfn) : e.name # call.name
  BY <1>1, SeekFacts DEF Hits
<1>3. ASSUME NEW i \in Places, buf[i].kind = "short" PROVE NameAt(buf, i) # call.name
  BY <1>1, <1>2, <1>3, ScanLooks
<1> QED BY <1>1, <1>3 DEF Lacks

\* The next sector is loaded.
LEMMA LoadNames ==
  ASSUME Core, DirInv, NamesInv, Load
  PROVE  NamesInv'
<1>1. /\ Scanning /\ pos.eleft = 0 /\ ~NoMore(pos) /\ call' = call
      /\ pos' = [NextSector(pos) EXCEPT !.eptr = 0, !.eleft = DirEntPerSec]
      /\ UNCHANGED <<fat, slots>>
  BY DEF Load
<1>2. CASE ~Seeks(call)
  <2>1. Seeking(call, pos', slots, fat)
    BY <1>2 DEF NamesInv, Seeking
  <2> QED BY <2>1, <1>1, ScanOnNames
<1>3. CASE Seeks(call)
  <2> DEFINE q == NextSector(pos)
  <2>1. PosIn(q, 0) /\ q.lba = <<q.clust, q.sect>> /\ q.sect \in Nat /\ q.lba \in Sectors
    BY <1>1, <1>3, SeekFacts, NextIn
  <2>2. DOMAIN q = PosFields
    BY <2>1 DEF PosIn
  <2>3. q.lfn = pos.lfn
    BY <1>3, SeekFacts DEF NextSector, PosFields
  <2>4. /\ pos'.lfn = NoLfn /\ pos'.sect # -1 /\ pos'.lba = q.lba
        /\ pos'.lba = <<pos'.clust, pos'.sect>> /\ pos'.eptr = 0
        /\ pos'.eleft # 0
    BY <2>1, <2>2, <2>3, <1>1, <1>3, SeekFacts, Places0 DEF PosFields
  <2>5. PassedTo(slots, fat, q.lba, call.name)
    <3> SUFFICES ASSUME NEW m \in Sectors, Before(fat, m, q.lba)
                 PROVE  Passed(slots[m], call.name)
      BY DEF PassedTo
    <3>1. CASE pos.sect = -1
      <4>1. PosIn(pos, 0) /\ Begins(fat, pos.clust)
        BY <3>1, <1>1, <1>3, SeekFacts
      <4> QED BY <4>1, <3>1, FirstBefore
    <3>2. CASE pos.sect # -1
      <4>1. m = pos.lba \/ Before(fat, m, pos.lba)
        BY <3>2, <1>1, <1>3, SeekFacts, NextBefore DEF Entered
      <4> QED BY <4>1, <3>2, <1>1, <1>3, SeekFacts DEF PassedTo
    <3> QED BY <3>1, <3>2
  <2>6. Seeking(call, pos', slots, fat)
    BY <2>4, <2>5, <1>3, SeekFacts DEF Seeking, NamesInv
  <2> QED BY <2>6, <1>1, ScanOnNames
<1> QED BY <1>2, <1>3

\* A sector is passed.
LEMMA PassNames ==
  ASSUME Core, DirInv, NamesInv, PassSector
  PROVE  NamesInv'
<1>1. /\ Scanning /\ pos.eleft > 0 /\ Hits = {} /\ EndsHere = {} /\ call' = call
      /\ pos' = [At(DirEntPerSec) EXCEPT
                   !.lfn = LfnAt(buf, pos.eptr, pos.lfn, DirEntPerSec)]
      /\ UNCHANGED <<fat, slots>>
  BY DEF PassSector
<1>2. CASE ~Seeks(call)
  <2>1. Seeking(call, pos', slots, fat)
    BY <1>2 DEF NamesInv, Seeking
  <2> QED BY <2>1, <1>1, ScanOnNames
<1>3. CASE Seeks(call)
  <2>1. /\ pos.sect # -1 /\ buf = slots[pos.lba] /\ pos.eptr = 0
        /\ Lacks(slots[pos.lba], call.name)
    BY <1>1, <1>3, ScanLacks
  <2>2. /\ buf \in Sheets /\ Whole(buf) /\ pos.lfn = NoLfn /\ pos.lba \in Sectors
        /\ DOMAIN pos = PosFields
    BY <2>1, <1>1, <1>3, SeekFacts DEF Entered
  <2>3. ~HasEnd(slots[pos.lba])
    BY <1>1, <2>1 DEF EndsHere, HasEnd, Places
  <2>4. LfnAt(buf, 0, NoLfn, DirEntPerSec) = NoLfn
    <3>1. DirEntPerSec - 1 \in Nat /\ (DirEntPerSec - 1) + 1 = DirEntPerSec
          /\ DirEntPerSec - 1 \in Places /\ DirEntPerSec \notin Places
      BY Places0 DEF Places
    <3>2. LfnAt(buf, 0, NoLfn, DirEntPerSec)
            = LfnAfter(LfnAt(buf, 0, NoLfn, DirEntPerSec - 1), buf[DirEntPerSec - 1])
      BY <3>1, LfnStep
    <3>3. buf[DirEntPerSec - 1].kind # "lfn"
      BY <3>1, <2>2 DEF Whole
    <3> QED BY <3>2, <3>3 DEF LfnAfter
  <2>5. /\ pos'.lfn = NoLfn /\ pos'.sect = pos.sect /\ pos'.lba = pos.lba
        /\ pos'.clust = pos.clust /\ pos'.eleft = 0
    BY <2>1, <2>2, <2>4, <1>1, Places0 DEF At, PosFields
  <2>6. /\ pos.lba = <<pos.clust, pos.sect>>
        /\ PassedTo(slots, fat, pos.lba, call.name)
    BY <2>1, <1>1, <1>3, SeekFacts
  <2>7. Seeking(call, pos', slots, fat)
    BY <2>1, <2>3, <2>5, <2>6 DEF Seeking, NamesInv, Passed
  <2> QED BY <2>7, <1>1, ScanOnNames
<1> QED BY <1>2, <1>3

\* A scan ends where a new entry may go.
LEMMA EndNames ==
  ASSUME Core, DirInv, NamesInv, Scanning, Hits = {}, UNCHANGED <<fat, slots>>,
         NEW p, NotThere(p, buf),
         Seeks(call) => /\ Onto(p, fat) /\ Here(slots, fat, p.lba, call.name)
                        /\ Open(slots[p.lba], p.eptr)
  PROVE  NamesInv'
<1>1. /\ Entered(slots', fat') /\ call.op # "idle"
      /\ Kinds(call) /\ call \in CallRecords
      /\ call.at \in {"scan", "scanto", "empty"}
  BY ScanStage, WorkFacts DEF NamesInv
<1>2. CASE /\ Adding /\ pos' = p
           /\ call' = [call EXCEPT !.at = IF call.op = "mkdir" THEN "alloc" ELSE "short"]
  <2>1. Seeks(call) /\ (call.op = "rename" => call.at = "scanto")
    BY <1>2, <1>1 DEF Adding, Seeks, Kinds
  <2>2. PICK place \in {"alloc", "short"} : call' = [call EXCEPT !.at = place]
    BY <1>2
  <2> QED
    BY <2>1, <2>2, <1>2, SeekEnds
<1>3. CASE call.at = "empty" /\ call' = [call EXCEPT !.at = "reload"]
  <2>1. call.op = "rmdir"
    BY <1>3, <1>1 DEF Kinds
  <2>2. call'.op = "rmdir" /\ call'.at = "reload" /\ call'.entry = call.entry
    BY <2>1, <1>3, WorkFacts
  <2>3. Kinds(call')
    BY <2>2 DEF Kinds, Placing, Making
  <2> QED BY <2>2, <2>3, <1>1, ElsewhereNames
<1>4. CASE call' = Idle
  BY <1>4, <1>1, IdleNames
<1> QED
  BY <1>2, <1>3, <1>4 DEF NotThere, Goto, Return, Fails

\* A scan that finds no such entry ends.
LEMMA ScanEndsNames ==
  ASSUME Core, DirInv, NamesInv, ScanEnds
  PROVE  NamesInv'
<1>1. /\ Scanning /\ Hits = {} /\ UNCHANGED <<fat, slots>>
      /\ \/ EndsHere # {} /\ NotThere(At(Min(EndsHere)), buf)
         \/ pos.eleft = 0 /\ NoMore(pos) /\ NotThere([pos EXCEPT !.sect = @ + 1], buf)
  BY DEF ScanEnds
<1>2. CASE EndsHere # {} /\ NotThere(At(Min(EndsHere)), buf)
  <2> DEFINE m == Min(EndsHere)
  <2>1. /\ m \in EndsHere /\ m \in Places /\ buf[m] = End /\ pos.eleft # 0
    BY <1>2, EndIs, WorkFacts
  <2>2. ASSUME Seeks(call)
        PROVE  /\ Onto(At(m), fat) /\ Here(slots, fat, At(m).lba, call.name)
               /\ Open(slots[At(m).lba], At(m).eptr)
    <3>1. /\ pos.sect # -1 /\ buf = slots[pos.lba] /\ pos.eptr = 0
          /\ Lacks(slots[pos.lba], call.name)
      BY <2>1, <2>2, <1>1, ScanLacks
    <3>2. /\ PosIn(pos, 0) /\ Used(fat, pos.clust) /\ pos.lba \in Sectors
          /\ pos.lba = <<pos.clust, pos.sect>>
          /\ PassedTo(slots, fat, pos.lba, call.name)
          /\ Entered(slots, fat) /\ Whole(buf)
      BY <3>1, <2>2, <1>1, SeekFacts DEF Entered
    <3>3. /\ At(m).eptr = m /\ At(m).clust = pos.clust /\ At(m).sect = pos.sect
          /\ At(m).lba = pos.lba
      <4>1. m \in 0 .. DirEntPerSec
        BY <2>1, Places0 DEF Places
      <4> HIDE DEF m
      <4> QED BY <3>2, <4>1, AtIn
    <3>4. Onto(At(m), fat)
      BY <3>2, <3>3 DEF Onto
    <3>5. HasEnd(slots[pos.lba])
      BY <2>1, <3>1 DEF HasEnd
    <3>6. Here(slots, fat, pos.lba, call.name)
      BY <3>1, <3>2, <3>5 DEF Here, Entered, Ended
    <3>7. Open(buf, m)
      <4>1. ASSUME NEW i \in Places, i < m PROVE buf[i] # End
        <5>1. EndsHere = {j \in Places : buf[j] = End}
          BY <2>1, <3>1 DEF EndsHere, Places
        <5>2. EndsHere \in SUBSET Nat
          BY <5>1, Places0 DEF Places
        <5>3. \A y \in EndsHere : m <= y
          <6>1. \E x \in EndsHere : \A y \in EndsHere : x <= y
            BY <5>2, <1>2, Least
          <6> QED BY <6>1 DEF Min
        <5> QED BY <5>1, <5>3, <4>1, <2>1 DEF Places
      <4>2. ASSUME NEW i \in Places, ~(i < m) PROVE Blank(buf[i])
        <5>1. CASE i = m
          BY <5>1, <2>1 DEF Blank, End
        <5>2. CASE m < i
          BY <5>2, <2>1, <3>2 DEF Whole
        <5> QED BY <5>1, <5>2, <4>2, <2>1 DEF Places
      <4> QED BY <4>1, <4>2 DEF Open
    <3> QED BY <3>1, <3>3, <3>4, <3>6, <3>7
  <2> QED BY <2>2, <1>1, <1>2, EndNames
<1>3. CASE pos.eleft = 0 /\ NoMore(pos) /\ NotThere([pos EXCEPT !.sect = @ + 1], buf)
  <2> DEFINE p == [pos EXCEPT !.sect = @ + 1]
  <2>1. ASSUME Seeks(call)
        PROVE  /\ Onto(p, fat) /\ Here(slots, fat, p.lba, call.name)
               /\ Open(slots[p.lba], p.eptr)
    <3>1. PosIn(pos, 0) /\ PosIn(pos, 1) /\ DOMAIN pos = PosFields
      BY <2>1, <1>1, SeekFacts
    <3>2. pos.sect # -1
      BY <3>1, <1>3, Places0 DEF NoMore, ClusterDone
    <3>3. /\ pos.eleft = DirEntPerSec - pos.eptr /\ pos.lba = <<pos.clust, pos.sect>>
          /\ PassedTo(slots, fat, pos.lba, call.name) /\ Onto(pos, fat)
          /\ Passed(slots[pos.lba], call.name)
          /\ Used(fat, pos.clust) /\ pos.lba \in Sectors
          /\ fat \in [Clusters -> Links]
      BY <3>2, <2>1, <1>1, <1>3, SeekFacts
    <3>4. pos.eptr = DirEntPerSec
      BY <3>1, <3>3, <1>3, Places0 DEF PosIn
    <3>5. /\ pos.lba = <<pos.clust, SectorsOf(pos.clust) - 1>>
          /\ \A l \in Sectors : ~Before(fat, pos.lba, l)
          /\ pos.clust # Root => fat[pos.clust] = Eoc
      BY <3>1, <3>2, <3>3, <1>3, LastBehind
    <3>6. /\ p.lba = pos.lba /\ p.clust = pos.clust /\ p.eptr = pos.eptr
          /\ p.sect = pos.sect + 1
      BY <3>1 DEF PosFields
    <3>7. Onto(p, fat)
      <4>1. pos.sect = SectorsOf(pos.clust) - 1
        BY <3>3, <3>5
      <4>2. SectorsOf(pos.clust) \in Nat
        BY <3>1, SectorIs DEF PosIn
      <4>3. p.sect = SectorsOf(pos.clust)
        BY <4>1, <4>2, <3>6
      <4> QED BY <4>3, <3>5, <3>6 DEF Onto
    <3>8. Here(slots, fat, pos.lba, call.name)
      BY <3>3, <3>5 DEF Here, Passed
    <3>9. Open(slots[pos.lba], DirEntPerSec)
      BY <3>3, Places0 DEF Open, Passed, HasEnd, Places
    <3> QED BY <3>4, <3>6, <3>7, <3>8, <3>9
  <2> QED BY <2>1, <1>1, <1>3, EndNames
<1> QED BY <1>1, <1>2, <1>3

\* An entry is found.
LEMMA FoundNames ==
  ASSUME Core, DirInv, NamesInv,
         FoundAnswers \/ FoundNext \/ FoundToChange \/ FoundToRemove
         \/ FoundToRename \/ FoundRefused
  PROVE  NamesInv'
<1>1. /\ UNCHANGED <<fat, slots>> /\ ScanHits /\ Scanning
      /\ Entered(slots', fat')
  BY DEF FoundAnswers, FoundNext, FoundToChange, FoundToRemove, FoundToRename,
         FoundRefused, ScanHits, NamesInv
<1>2. Kinds(call) /\ call.op # "idle" /\ call \in CallRecords
      /\ DOMAIN call = {"op", "at", "dir", "name", "other", "entry", "lba",
                        "short", "off", "n", "new"}
  BY <1>1, ScanStage, WorkFacts
<1>3. CASE FoundAnswers \/ FoundNext \/ FoundRefused
  <2>1. call' = Idle
    BY <1>3 DEF FoundAnswers, FoundNext, FoundRefused, Return, Fails
  <2> QED BY <2>1, <1>1, IdleNames
<1>4. CASE FoundToChange
  <2>1. \/ call.op = "setattr" /\ call' = Keep("store")
        \/ call.op = "delete" /\ call' = Keep("mark")
    BY <1>4 DEF FoundToChange
  <2>2. /\ call'.op = call.op
        /\ call'.at \in {"store", "mark"} /\ (call'.at = "mark" => call.op = "delete")
    BY <2>1, <1>2 DEF Keep
  <2>3. Kinds(call') /\ call'.op \notin {"create", "mkdir", "rename"}
    BY <2>1, <2>2 DEF Kinds, Placing, Making
  <2> QED BY <2>3, <1>1, ElsewhereNames
<1>5. CASE FoundToRemove
  <2>1. call'.at = "empty"
    BY <1>5, <1>2 DEF FoundToRemove, Keep
  <2> QED BY <2>1, <1>1, ElsewhereNames
<1>6. CASE FoundToRename
  <2>1. /\ call.at = "scan" /\ call.op = "rename"
        /\ call' = [Keep("scanto") EXCEPT !.name = call.other, !.other = call.name]
        /\ pos' = DirOpen(At(Hit.off + 1), call.dir)
    BY <1>6 DEF FoundToRename
  <2>2. /\ call'.at = "scanto" /\ call'.op = "rename" /\ call'.dir = call.dir
        /\ call'.lba = pos.lba /\ call'.entry = Hit
    BY <2>1, <1>2 DEF Keep
  <2>3. slots[pos.lba][Hit.off].kind = "short"
    BY <2>1, <1>1, HitSlot
  <2>4. pos'.sect = -1 /\ pos'.clust = call.dir /\ pos'.lfn = NoLfn
    <3>1. PosIn(At(Hit.off + 1), 0)
      BY <1>1, HitFacts
    <3>2. DOMAIN At(Hit.off + 1) = PosFields
      BY <3>1 DEF PosIn
    <3> QED BY <3>2, <2>1 DEF DirOpen, PosFields
  <2>5. Begins(fat, call.dir)
    BY <2>1 DEF NamesInv, Seeking
  <2>6. Seeking(call', pos', slots', fat')
    BY <2>2, <2>4, <2>5, <1>1 DEF Seeking
  <2>7. Landing(call', pos', buf', slots', fat')
    BY <2>2 DEF Landing, Ready
  <2>8. Newest(call', pos', slots', fat') /\ Cleanly(call')
    BY <2>2 DEF Newest, Cleanly, Placing
  <2>9. Kept(call', pos', slots')
    BY <2>2, <2>3, <1>1 DEF Kept
  <2> QED BY <2>6, <2>7, <2>8, <2>9, <1>1 DEF NamesInv
<1> QED BY <1>3, <1>4, <1>5, <1>6

\* A sector that is in the buffer is changed, or read.
LEMMA ChangeNames ==
  ASSUME Core, DirInv, NamesInv, faults'.read = 0, faults.read = 0,
         Store \/ MarkDeleted \/ Reload \/ Restore \/ TransferFails
  PROVE  NamesInv'
<1>1. /\ Entered(slots, fat) /\ slots \in [Sectors -> Sheets] /\ buf \in Sheets
      /\ Kinds(call) /\ Removing(call, pos, buf, slots, fat) /\ call.at # ""
      /\ call.entry \in Entries /\ pos.lba \in Sectors
      /\ DOMAIN call = {"op", "at", "dir", "name", "other", "entry", "lba",
                        "short", "off", "n", "new"}
  BY DirFacts, WorkFacts DEF NamesInv, Progress, Store, MarkDeleted, Reload, Restore,
     TransferFails
<1>2. CASE Store
  <2>1. /\ call.at = "store" /\ call' = Idle /\ fat' = fat
        /\ \E ro \in BOOLEAN :
             slots' = [slots EXCEPT ![pos.lba] = [buf EXCEPT ![call.entry.off].ro = ro]]
    BY <1>2 DEF Store, Write, Unread, Return
  <2>2. buf = slots[pos.lba] /\ Whole(buf)
    BY <2>1, <1>1 DEF Removing, Entered
  <2>3. Entered(slots', fat')
    <3>1. PICK ro \in BOOLEAN :
            slots' = [slots EXCEPT ![pos.lba] = [buf EXCEPT ![call.entry.off].ro = ro]]
      BY <2>1
    <3>2. Fewer(slots[pos.lba], [buf EXCEPT ![call.entry.off].ro = ro])
      BY <2>2, <1>1, StoreFewer
    <3>3. Entered([slots EXCEPT ![pos.lba] = [buf EXCEPT ![call.entry.off].ro = ro]], fat)
      BY <3>2, <1>1, WriteFewer
    <3> QED BY <3>1, <3>3, <2>1
  <2> QED BY <2>1, <2>3, IdleNames
<1>3. CASE MarkDeleted
  <2>1. /\ call.at = "mark" /\ fat' = fat
        /\ slots' = [slots EXCEPT ![pos.lba] = Marked(buf, call.entry.off)]
        /\ \/ call' = Idle
           \/ call'.at \in {"free", "flush"}
    BY <1>3, <1>1 DEF MarkDeleted, Write, Unread, Return
  <2>2. buf = slots[pos.lba] /\ Whole(buf)
    BY <2>1, <1>1 DEF Removing, Entered
  <2>3. call.op \in {"delete", "rmdir", "rename"}
    BY <2>1, <1>1 DEF Kinds
  <2>4. buf[call.entry.off].kind = "short"
    <3>1. CASE call.op = "delete"
      BY <3>1, <2>1, <1>1 DEF Removing
    <3>2. CASE call.op = "rmdir"
      BY <3>2, <2>1, <2>2, <1>1 DEF Removing, DirPlaces, Slot, NamesDir
    <3>3. CASE call.op = "rename"
      BY <3>3, <2>1, <2>2 DEF NamesInv, Kept
    <3> QED BY <3>1, <3>2, <3>3, <2>3
  <2>5. call.entry.off \in Places
    BY <1>1 DEF Entries
  <2>6. Entered(slots', fat')
    BY <2>1, <2>2, <2>4, <2>5, <1>1, MarkFewer, WriteFewer
  <2> QED BY <2>1, <2>6, IdleNames, ElsewhereNames
<1>4. CASE Reload
  <2>1. /\ call.at = "reload" /\ UNCHANGED <<fat, slots, pos>>
        /\ call' = [call EXCEPT !.at = IF call.op = "mkdir" THEN "short" ELSE "mark"]
    BY <1>4 DEF Reload, Goto
  <2>2. call.op \in {"mkdir", "rmdir", "rename"}
    BY <2>1, <1>1 DEF Kinds
  <2>3. /\ call'.op = call.op /\ call'.name = call.name /\ call'.n = call.n
        /\ call'.lba = call.lba /\ call'.entry = call.entry
    BY <2>1, <1>1
  <2>4. CASE call.op = "mkdir"
    <3>1. call'.at = "short" /\ Ready(call) /\ Ready(call') /\ call.n = 0
      BY <2>4, <2>1, <1>1, WorkFacts DEF Ready, CallIn
    <3>2. Seeking(call', pos', slots', fat')
      BY <3>1 DEF Seeking, Seeks
    <3>3. Landing(call', pos', buf', slots', fat')
      BY <3>1, <2>1, <2>3 DEF Landing, NamesInv
    <3>4. Newest(call', pos', slots', fat')
      BY <3>1 DEF Newest
    <3>5. Kept(call', pos', slots') /\ Cleanly(call')
      BY <3>1, <2>3, <2>4 DEF Kept, Cleanly, Placing
    <3> QED BY <3>2, <3>3, <3>4, <3>5, <2>1, <1>1 DEF NamesInv
  <2>5. CASE call.op = "rmdir"
    <3>1. call'.op = "rmdir" /\ call'.at = "mark"
      BY <2>5, <2>1, <2>3, <1>1
    <3>2. Kinds(call')
      BY <3>1 DEF Kinds, Placing, Making
    <3> QED BY <3>1, <3>2, <2>1, <1>1, ElsewhereNames
  <2>6. CASE call.op = "rename"
    <3>1. call'.at = "mark" /\ call'.op = "rename"
      BY <2>6, <2>1, <2>3, <1>1
    <3>2. Seeking(call', pos', slots', fat')
      BY <3>1 DEF Seeking, Seeks
    <3>3. Landing(call', pos', buf', slots', fat')
      BY <3>1 DEF Landing, Ready
    <3>4. Newest(call', pos', slots', fat') /\ Cleanly(call')
      BY <3>1 DEF Newest, Cleanly, Placing
    <3>5. Kept(call', pos', slots')
      BY <3>1, <2>1, <2>3, <2>6 DEF Kept, NamesInv
    <3> QED BY <3>2, <3>3, <3>4, <3>5, <2>1, <1>1 DEF NamesInv
  <2> QED BY <2>2, <2>4, <2>5, <2>6
<1>5. CASE Restore
  <2>1. /\ call.at = "restore" /\ UNCHANGED <<fat, slots>>
        /\ call' = [call EXCEPT !.at = "scan"]
    BY <1>5 DEF Restore, Goto
  <2>2. call'.op = "list" /\ call'.at = "scan"
    BY <2>1, <1>1 DEF Kinds
  <2>3. Kinds(call')
    BY <2>2 DEF Kinds, Placing, Making
  <2> QED BY <2>1, <2>2, <2>3, <1>1, ElsewhereNames
<1>6. CASE TransferFails
  <2>1. call' = Idle /\ UNCHANGED <<fat, slots>>
    BY <1>6 DEF TransferFails, Return
  <2> QED BY <2>1, <1>1, IdleNames
<1> QED BY <1>2, <1>3, <1>4, <1>5, <1>6

\* A call that makes room for an entry goes on.
LEMMA PlaceOnNames ==
  ASSUME NamesInv, call.at \in Placed, call'.at \in Placed,
         call'.op = call.op, call'.entry = call.entry, call'.lba = call.lba,
         call'.name = call.name,
         Entered(slots', fat'), Landing(call', pos', buf', slots', fat'),
         Newest(call', pos', slots', fat'),
         slots' = slots \/ (slots[call.lba][call.entry.off].kind = "short"
                              => slots'[call.lba][call.entry.off].kind = "short"),
         \/ Cleanly(call')
         \/ call.at \in Placing /\ call'.at \in Placing /\ call'.short = call.short
  PROVE  NamesInv'
<1>1. call'.at \notin {"scan", "scanto", "reload", "mark"}
  BY DEF Placed, Placing
<1>2. Seeking(call', pos', slots', fat')
  BY <1>1 DEF Seeking, Seeks
<1>3. Kept(call', pos', slots')
  BY <1>1 DEF Kept, NamesInv
<1>4. Cleanly(call')
  BY DEF Cleanly, NamesInv, Placing
<1> QED BY <1>2, <1>3, <1>4 DEF NamesInv

\* What is known of it.
LEMMA PlaceFacts ==
  ASSUME Core, DirInv, NamesInv, call.at \in Placed
  PROVE  /\ Entered(slots, fat) /\ slots \in [Sectors -> Sheets] /\ buf \in Sheets
         /\ fat \in [Clusters -> Links] /\ Chains(fat) /\ pos.lba \in Sectors
         /\ pos.clust \in Dirs /\ pos.eptr \in 0 .. DirEntPerSec
         /\ DOMAIN pos = PosFields /\ call.op \in {"create", "mkdir", "rename"}
         /\ call.name \in Names /\ Parts[call.name] \in 0 .. DirEntPerSec - 1
         /\ call.entry.off \in Places /\ call.lba \in Sectors
         /\ Landing(call, pos, buf, slots, fat) /\ Newest(call, pos, slots, fat)
         /\ Kept(call, pos, slots) /\ Cleanly(call)
         /\ DOMAIN call = {"op", "at", "dir", "name", "other", "entry", "lba",
                           "short", "off", "n", "new"}
         /\ PosIn(pos, Over(call.at))
<1>1. call.op \in {"create", "mkdir", "rename"}
  BY DirFacts DEF Progress, Kinds, Placed
<1>2. call.name \in Names
  BY <1>1, WorkFacts DEF CallIn
<1>3. Parts[call.name] \in 0 .. DirEntPerSec - 1
  BY <1>2, DirectoryConstants
<1>4. call.entry.off \in Places /\ call.lba \in Sectors
  BY DirFacts DEF Entries, CallRecords
<1> QED
  BY <1>1, <1>2, <1>3, <1>4, DirFacts, WorkFacts DEF NamesInv, Volumes

\* The short name is chosen.
LEMMA ChooseNames ==
  ASSUME Core, DirInv, NamesInv, ChooseShort
  PROVE  NamesInv'
<1>1. /\ call.at = "short" /\ UNCHANGED <<fat, slots>> /\ call.at \in Placed /\ Ready(call)
  BY DEF ChooseShort, Placed, Ready
<1>2. buf = slots[pos.lba]
  BY <1>1, DirFacts DEF Progress, Room
<1>3. /\ Onto(pos, fat) /\ Here(slots, fat, pos.lba, call.name)
      /\ Open(slots[pos.lba], pos.eptr)
  BY <1>1 DEF NamesInv, Landing
<1>4. ASSUME TakeShort, pos' = pos, buf' = slots[pos.lba] PROVE NamesInv'
  <2>1. /\ call'.short = Candidate /\ call'.off = pos.eptr /\ call'.op = call.op
        /\ call'.entry = call.entry /\ call'.lba = call.lba /\ call'.name = call.name
        /\ call'.at = IF Fits THEN "insert" ELSE "fill"
    BY <1>4, <1>1, PlaceFacts DEF TakeShort
  <2>2. call'.at \in {"insert", "fill"} /\ call'.at \in Placed
    BY <2>1 DEF Placed, Placing
  <2>3. Parts[call.name] = 0 => Shown[call'.short] = call.name
    <3>1. Parts[call.name] = 0 => call.n = 0
      BY <1>1 DEF NamesInv, Cleanly
    <3>2. Parts[call.name] = 0 => Shown[ShortName[call.name][0]] = call.name
      BY <1>1, PlaceFacts, DirectoryConstants
    <3> QED BY <3>1, <3>2, <2>1 DEF Candidate
  <2>4. Cleanly(call')
    BY <2>1, <2>2, <2>3 DEF Cleanly
  <2>5. Landing(call', pos', buf', slots', fat')
    <3>1. CASE call'.at = "insert"
      <4>1. Fits
        BY <3>1, <2>1
      <4>2. Fitting(slots, pos.lba, buf', call'.off, call.name)
        BY <4>1, <2>1, <1>3, <1>4 DEF Fitting, Fits
      <4> QED BY <3>1, <4>2, <2>1, <1>1, <1>3, <1>4 DEF Landing, Ready
    <3>2. CASE call'.at = "fill"
      BY <3>2, <2>1, <1>1, <1>3, <1>4 DEF Landing, Ready
    <3> QED BY <3>1, <3>2, <2>2
  <2>6. Newest(call', pos', slots', fat')
    BY <2>2 DEF Newest
  <2>7. Entered(slots', fat')
    BY <1>1 DEF NamesInv
  <2> QED BY <2>1, <2>2, <2>4, <2>5, <2>6, <2>7, <1>1, PlaceOnNames
<1>5. ASSUME TryNext, Parts[call.name] > 0, Taken(Candidate) PROVE NamesInv'
  <2>1. CASE call' = [call EXCEPT !.n = @ + 1] /\ pos' = pos
    <3>1. /\ call'.op = call.op /\ call'.at = "short"
          /\ call'.entry = call.entry /\ call'.lba = call.lba /\ call'.name = call.name
      BY <2>1, <1>1, PlaceFacts
    <3>2. Cleanly(call')
      BY <3>1, <1>5 DEF Cleanly, Placing
    <3>3. Landing(call', pos', buf', slots', fat')
      BY <3>1, <2>1, <1>1, <1>3 DEF Landing, Ready
    <3>4. Newest(call', pos', slots', fat')
      BY <3>1 DEF Newest
    <3>5. Entered(slots', fat')
      BY <1>1 DEF NamesInv
    <3> QED BY <3>1, <3>2, <3>3, <3>4, <3>5, <1>1, PlaceOnNames DEF Placed
  <2>2. CASE call' = Idle
    BY <2>2, <1>1, IdleNames DEF NamesInv
  <2> QED BY <2>1, <2>2, <1>5 DEF TryNext
<1> QED
  BY <1>2, <1>4, <1>5 DEF ChooseShort

\* The rest of a sector is marked deleted.
LEMMA FillNames ==
  ASSUME Core, DirInv, NamesInv, Fill
  PROVE  NamesInv'
<1> DEFINE l == pos.lba
           b == [i \in Places |-> IF i < pos.eptr THEN buf[i] ELSE Deleted]
<1>1. /\ call.at = "fill" /\ slots' = [slots EXCEPT ![l] = b] /\ fat' = fat
      /\ call' = [call EXCEPT !.at = "next"] /\ pos' = pos
      /\ call.at \in Placed /\ call.at \in Placing
  BY DEF Fill, Write, Unread, Goto, Placed, Placing
<1>2. /\ Onto(pos, fat) /\ Here(slots, fat, l, call.name)
      /\ Open(slots[l], pos.eptr)
  BY <1>1 DEF NamesInv, Landing, Ready
<1>3. buf = slots[l]
  BY <1>1, DirFacts DEF Progress, Room
<1>4. Fewer(slots[l], b) /\ ~HasEnd(b)
  <2>1. pos.eptr \in Nat /\ Whole(buf) /\ buf \in Sheets /\ Open(buf, pos.eptr)
    BY <1>1, <1>2, <1>3, PlaceFacts DEF Entered
  <2> QED BY <2>1, <1>3, FillFewer
<1> HIDE DEF b
<1>5. Entered(slots', fat')
  BY <1>1, <1>4, PlaceFacts, WriteFewer
<1>6. slots'[l] = b /\ \A m \in Sectors : m # l => slots'[m] = slots[m]
  BY <1>1, PlaceFacts
<1>7. /\ call'.op = call.op /\ call'.entry = call.entry /\ call'.lba = call.lba
      /\ call'.name = call.name /\ call'.at = "next" /\ call'.short = call.short
      /\ call'.at \in Placed /\ call'.at \in Placing
  BY <1>1, PlaceFacts DEF Placed, Placing
<1>8. Here(slots', fat, l, call.name)
  <2>1. PassedTo(slots', fat, l, call.name)
    BY <1>2, <1>6, BeforeIs DEF Here, PassedTo
  <2>2. Lacks(b, call.name)
    BY <1>2, <1>4 DEF Fewer, Here, Lacks
  <2>3. \A m \in Sectors : Before(fat, l, m) => Bare(slots'[m])
    BY <1>2, <1>6, <1>1, PlaceFacts, BeforeIs DEF Here
  <2> QED BY <2>1, <2>2, <2>3, <1>2, <1>6 DEF Here
<1>9. Landing(call', pos', buf', slots', fat')
  BY <1>1, <1>2, <1>4, <1>6, <1>7, <1>8 DEF Landing, Ready
<1>10. Newest(call', pos', slots', fat')
  BY <1>7 DEF Newest
<1>11. slots[call.lba][call.entry.off].kind = "short"
         => slots'[call.lba][call.entry.off].kind = "short"
  <2>1. CASE call.lba # l
    BY <2>1, <1>6, <1>1, PlaceFacts
  <2>2. CASE call.lba = l
    <3> SUFFICES ASSUME slots[l][call.entry.off].kind = "short"
                 PROVE  b[call.entry.off].kind = "short"
      BY <2>2, <1>6
    <3>1. call.entry.off < pos.eptr
      BY <1>2, <1>1, PlaceFacts DEF Open, Blank
    <3> QED BY <3>1, <1>3, <1>1, PlaceFacts DEF b
  <2> QED BY <2>1, <2>2
<1> QED
  BY <1>1, <1>5, <1>7, <1>9, <1>10, <1>11, PlaceOnNames

\* The next sector, or none.
LEMMA NextNames ==
  ASSUME Core, DirInv, NamesInv, NextHasRoom \/ NextIsNone
  PROVE  NamesInv'
<1>1. /\ call.at = "next" /\ call.at \in Placed /\ call.at \in Placing
      /\ UNCHANGED <<fat, slots>>
  BY DEF NextHasRoom, NextIsNone, Placed, Placing
<1>2. /\ Onto(pos, fat) /\ Here(slots, fat, pos.lba, call.name)
      /\ ~HasEnd(slots[pos.lba])
  BY <1>1 DEF NamesInv, Landing
<1>3. pos.sect # -1
  BY <1>1, DirFacts DEF Progress, Room
<1>4. PosIn(pos, 1)
  BY <1>1, PlaceFacts, OverIs DEF Steps
<1>5. Used(fat, pos.clust)
  <2>1. pos.lba[1] = pos.clust
    BY <1>2 DEF Onto
  <2> QED BY <2>1, <1>2 DEF Here
<1>6. Passed(slots[pos.lba], call.name)
  BY <1>2 DEF Here, Passed
<1>7. Entered(slots', fat')
  BY <1>1 DEF NamesInv
<1>8. CASE NextHasRoom
  <2> DEFINE q == NextSector(pos)
  <2>1. /\ ~NoMore(pos) /\ pos' = q /\ buf' = slots[q.lba]
        /\ call' = [call EXCEPT !.at = "insert", !.off = 0]
    BY <1>8 DEF NextHasRoom
  <2>2. /\ call'.op = call.op /\ call'.entry = call.entry /\ call'.lba = call.lba
        /\ call'.name = call.name /\ call'.at = "insert" /\ call'.short = call.short
        /\ call'.at \in Placed /\ call'.at \in Placing /\ call'.off = 0
    BY <1>1, <2>1, PlaceFacts DEF Placed, Placing
  <2>3. q.lba \in Sectors /\ q.lba = <<q.clust, q.sect>>
    BY <1>4, <2>1, <1>1, PlaceFacts, NextIn
  <2>4. \A l \in Sectors :
          /\ Used(fat, q.clust) /\ Before(fat, pos.lba, q.lba)
          /\ Before(fat, l, q.lba) => l = pos.lba \/ Before(fat, l, pos.lba)
          /\ Before(fat, q.lba, l) => Before(fat, pos.lba, l)
    <3> TAKE l \in Sectors
    <3> QED BY <1>1, <1>2, <1>3, <1>4, <1>5, <2>1, PlaceFacts, NextBefore DEF Entered
  <2>5. Bare(slots[q.lba])
    BY <2>3, <2>4, <1>2 DEF Here
  <2>6. Here(slots, fat, q.lba, call.name)
    <3>1. PassedTo(slots, fat, q.lba, call.name)
      BY <2>4, <1>2, <1>6 DEF Here, PassedTo
    <3>2. Lacks(slots[q.lba], call.name)
      BY <2>5, BareIs
    <3>3. q.lba[1] = q.clust
      BY <2>3
    <3> QED BY <3>1, <3>2, <3>3, <2>3, <2>4, <1>2 DEF Here
  <2>7. Fitting(slots, q.lba, buf', 0, call.name)
    <3>1. Open(slots[q.lba], 0)
      BY <2>5 DEF Open, Bare, Places
    <3> QED BY <3>1, <2>1, <1>1, PlaceFacts, Places0 DEF Fitting, Places
  <2>8. Landing(call', pos', buf', slots', fat')
    BY <2>1, <2>2, <2>6, <2>7, <1>1 DEF Landing, Ready
  <2>9. Newest(call', pos', slots', fat')
    BY <2>2 DEF Newest
  <2> QED BY <2>2, <2>8, <2>9, <1>1, <1>7, PlaceOnNames
<1>9. CASE NextIsNone
  <2>1. NoMore(pos)
    BY <1>9 DEF NextIsNone
  <2>2. CASE call' = Idle
    BY <2>2, <1>7, IdleNames
  <2>3. CASE /\ pos.clust # Root
             /\ call' = [call EXCEPT !.at = "grow"]
             /\ pos' = [pos EXCEPT !.sect = @ + 1]
    <3>1. /\ call'.op = call.op /\ call'.entry = call.entry /\ call'.lba = call.lba
          /\ call'.name = call.name /\ call'.at = "grow" /\ call'.short = call.short
          /\ call'.at \in Placed /\ call'.at \in Placing
          /\ pos'.clust = pos.clust
      BY <1>1, <2>3, PlaceFacts DEF Placed, Placing, PosFields
    <3>2. \A l \in Sectors :
            /\ pos.clust \in Clusters /\ fat[pos.clust] = Eoc
            /\ pos.lba = <<pos.clust, SectorsOf(pos.clust) - 1>>
            /\ l[1] = pos.clust => l = pos.lba \/ Before(fat, l, pos.lba)
      BY <1>1, <1>2, <1>3, <1>4, <2>1, <2>3, PlaceFacts, LastBehind
    <3>3. \A l \in Sectors : l[1] \in LeadTo(fat, pos.clust) =>
            l = pos.lba \/ Before(fat, l, pos.lba)
      BY <3>2 DEF Before
    <3>4. Last(slots, fat, pos.clust, call.name)
      <4>1. Nowhere \in Sectors
        BY Places0
      <4> QED BY <4>1, <3>2, <3>3, <1>2, <1>6 DEF Last, Here, PassedTo
    <3>5. Landing(call', pos', buf', slots', fat')
      BY <3>1, <3>4, <1>1 DEF Landing, Ready
    <3>6. Newest(call', pos', slots', fat')
      BY <3>1 DEF Newest
    <3> QED BY <3>1, <3>5, <3>6, <1>1, <1>7, PlaceOnNames
  <2> QED BY <2>2, <2>3, <1>9 DEF NextIsNone, GrowFrom, Goto, Fails, Return
<1> QED BY <1>8, <1>9

\* A cluster that is marked used is unused otherwise, and what leads where is
\* as before.
LEMMA AllocUnused ==
  ASSUME fat \in [Clusters -> Links], Entered(slots, fat), NEW c \in Clusters, Alloc(c)
  PROVE  /\ Entered(slots, fat') /\ Unused(slots, fat', c)
         /\ \A l, m : Before(fat', l, m) <=> Before(fat, l, m)
         /\ \A m : LeadTo(fat', m) = LeadTo(fat, m)
         /\ \A x : Used(fat, x) => Used(fat', x) /\ x # c
         /\ \A x \in Clusters : fat[x] = Eoc => fat'[x] = Eoc
<1>1. fat[c] = 0 /\ fat' = [fat EXCEPT ![c] = Eoc]
  BY DEF Alloc
<1>2. /\ Entered(slots, fat')
      /\ \A l, m : Before(fat', l, m) <=> Before(fat, l, m)
  BY <1>1, AllocEntered
<1>3. \A m : LeadTo(fat', m) = LeadTo(fat, m)
  BY <1>1, LeadAlloc
<1>4. Unused(slots, fat', c)
  <2>1. \A l \in Sectors : l[1] = c => Bare(slots[l])
    BY <1>1, Places0 DEF Entered
  <2> QED BY <1>1, <2>1 DEF Unused
<1>5. \A x : Used(fat, x) => Used(fat', x) /\ x # c
  BY <1>1, Places0 DEF Used
<1>6. \A x \in Clusters : fat[x] = Eoc => fat'[x] = Eoc
  BY <1>1
<1> QED BY <1>2, <1>3, <1>4, <1>5, <1>6

\* A place for an entry stays one when a cluster is marked used.
LEMMA AllocHere ==
  ASSUME fat \in [Clusters -> Links], Entered(slots, fat), NEW c \in Clusters, Alloc(c),
         NEW l \in Sectors, NEW n, Here(slots, fat, l, n)
  PROVE  Here(slots, fat', l, n) /\ l[1] # c
<1>1. Used(fat', l[1]) /\ l[1] # c
  BY AllocUnused DEF Here
<1>2. PassedTo(slots, fat', l, n)
  BY AllocUnused DEF Here, PassedTo
<1>3. \A m \in Sectors : Before(fat', l, m) => Bare(slots[m])
  BY AllocUnused DEF Here
<1> QED BY <1>1, <1>2, <1>3 DEF Here

\* A cluster is found to grow a directory by.
LEMMA GrowNames ==
  ASSUME Core, DirInv, NamesInv, Grow
  PROVE  NamesInv'
<1>1. PICK c \in Clusters : Alloc(c) /\ call' = [call EXCEPT !.at = "link", !.new = c]
  BY DEF Grow
<1>2. /\ call.at = "grow" /\ call.at \in Placed /\ call.at \in Placing
      /\ UNCHANGED <<slots, pos>>
  BY DEF Grow, Placed, Placing
<1>3. /\ call'.op = call.op /\ call'.entry = call.entry /\ call'.lba = call.lba
      /\ call'.name = call.name /\ call'.at = "link" /\ call'.short = call.short
      /\ call'.at \in Placed /\ call'.at \in Placing /\ call'.new = c
  BY <1>1, <1>2, PlaceFacts DEF Placed, Placing
<1>4. Last(slots, fat, pos.clust, call.name)
  BY <1>2 DEF NamesInv, Landing
<1>5. Entered(slots, fat) /\ fat \in [Clusters -> Links]
  BY <1>2, PlaceFacts
<1>6. Last(slots, fat', pos.clust, call.name)
  BY <1>1, <1>4, <1>5, AllocUnused DEF Last
<1>7. pos.clust # c
  BY <1>1, <1>4, Places0 DEF Last, Alloc, Links, Eoc
<1>8. Landing(call', pos', buf', slots', fat')
  BY <1>2, <1>3, <1>6 DEF Landing, Ready
<1>9. Newest(call', pos', slots', fat') /\ Entered(slots', fat')
  BY <1>1, <1>2, <1>3, <1>5, <1>7, AllocUnused DEF Newest
<1> QED BY <1>2, <1>3, <1>8, <1>9, PlaceOnNames

\* The cluster is linked in.
LEMMA LinkNames ==
  ASSUME Core, DirInv, NamesInv, LinkNew \/ LinkUnflushed
  PROVE  NamesInv'
<1> DEFINE c == pos.clust
           n == call.new
<1>1. /\ call.at = "link" /\ call.at \in Placed /\ call.at \in Placing
      /\ slots' = slots /\ fat' = [fat EXCEPT ![c] = n]
  BY DEF LinkNew, LinkUnflushed, LinkIn, Placed, Placing
<1>2. /\ Last(slots, fat, c, call.name) /\ Unused(slots, fat, n) /\ c # n
  BY <1>1 DEF NamesInv, Landing, Newest
<1>3. First(fat, n)
  BY <1>1, DirFacts DEF Progress, Fresh
<1>4. /\ Entered(slots, fat')
      /\ \A l \in Sectors : ~Before(fat', <<n, 0>>, l) \/ l[1] = n
      /\ \A l \in Sectors : Before(fat', l, <<n, 0>>) => l[1] \in LeadTo(fat, c)
  <2>1. /\ c \in Clusters /\ fat[c] = Eoc /\ fat[n] = Eoc /\ n # c
        /\ \A l \in Sectors : l[1] = n => Bare(slots[l])
    BY <1>2 DEF Last, Unused
  <2>2. Entered(slots, fat) /\ fat \in [Clusters -> Links]
    BY <1>1, PlaceFacts
  <2> DEFINE g == [fat EXCEPT ![c] = n]
  <2>3. /\ Entered(slots, g)
        /\ \A l \in Sectors : ~Before(g, <<n, 0>>, l) \/ l[1] = n
        /\ \A l \in Sectors : Before(g, l, <<n, 0>>) => l[1] \in LeadTo(fat, c)
    BY <2>1, <2>2, <1>3, LinkEntered
  <2> QED BY <2>3, <1>1
<1>5. CASE LinkUnflushed
  <2>1. call' = Idle
    BY <1>5 DEF LinkUnflushed, Fails, Return
  <2> QED BY <2>1, <1>1, <1>4, IdleNames
<1>6. CASE LinkNew
  <2>1. /\ call' = [call EXCEPT !.at = "wipe", !.n = 1]
        /\ pos' = [pos EXCEPT !.clust = n, !.sect = 0, !.lba = <<n, 0>>]
    BY <1>6 DEF LinkNew
  <2>2. /\ call'.op = call.op /\ call'.entry = call.entry /\ call'.lba = call.lba
        /\ call'.name = call.name /\ call'.at = "wipe" /\ call'.short = call.short
        /\ call'.at \in Placed /\ call'.at \in Placing /\ call'.new = n
        /\ pos'.lba = <<n, 0>>
    BY <1>1, <2>1, PlaceFacts DEF Placed, Placing, PosFields
  <2>3. PassedTo(slots, fat', <<n, 0>>, call.name)
    BY <1>2, <1>4 DEF PassedTo, Last
  <2>4. Landing(call', pos', buf', slots', fat')
    BY <1>1, <2>2, <2>3 DEF Landing, Ready
  <2>5. Unused(slots, fat', n)
    BY <1>1, <1>2, PlaceFacts DEF Unused
  <2>6. Newest(call', pos', slots', fat')
    BY <1>1, <2>2, <2>5 DEF Newest
  <2> QED BY <1>1, <1>4, <2>2, <2>4, <2>6, PlaceOnNames
<1> QED BY <1>5, <1>6

\* A sector of a cluster with nothing of an entry is cleared.
LEMMA ClearUnused ==
  ASSUME slots \in [Sectors -> Sheets], Entered(slots, fat),
         NEW n, Unused(slots, fat, n), NEW s \in Nat, s < Spc,
         NEW b, Bare(b), slots' = [slots EXCEPT ![<<n, s>>] = b]
  PROVE  /\ Entered(slots', fat) /\ Unused(slots', fat, n)
         /\ \A l \in Sectors : \A x : l[1] # n /\ PassedTo(slots, fat, l, x)
                                 => PassedTo(slots', fat, l, x)
         /\ \A x : PassedTo(slots, fat, <<n, 0>>, x) => PassedTo(slots', fat, <<n, 0>>, x)
         /\ \A l \in Sectors : l[1] # n => slots'[l] = slots[l]
         /\ \A l \in Sectors : Bare(slots[l]) => Bare(slots'[l])
<1>1. n \in Clusters /\ fat[n] = Eoc /\ fat[n] \notin Clusters /\ n \in Dirs
  BY Places0 DEF Unused
<1>2. <<n, s>> \in Sectors /\ <<n, 0>> \in Sectors
  BY <1>1, Places0, SectorIs DEF SectorsOf
<1>3. \A m \in Sectors : n \in LeadTo(fat, m[1]) => m[1] = n
  BY <1>1, LeadLast, SectorIs
<1>4. \A m \in Sectors : Before(fat, <<n, s>>, m) => Bare(slots[m])
  BY <1>3 DEF Before, Unused
<1>5. Entered(slots', fat)
  BY <1>2, <1>4, WriteBare
<1>6. /\ slots'[<<n, s>>] = b
      /\ \A m \in Sectors : m # <<n, s>> => slots'[m] = slots[m]
  BY <1>2
<1>7. \A l \in Sectors : Bare(slots[l]) => Bare(slots'[l])
  BY <1>6
<1>8. Unused(slots', fat, n)
  BY <1>7 DEF Unused
<1>9. \A l \in Sectors : l[1] # n => slots'[l] = slots[l]
  BY <1>6
<1>10. \A l, m \in Sectors : Before(fat, m, l) /\ l[1] # n => m[1] # n
  BY <1>3 DEF Before
<1>11. \A m \in Sectors : Before(fat, m, <<n, 0>>) => m[1] # n
  BY SectorIs DEF Before
<1> QED
  BY <1>5, <1>7, <1>8, <1>9, <1>10, <1>11 DEF PassedTo

\* A place for an entry stays one.
LEMMA ClearHere ==
  ASSUME slots \in [Sectors -> Sheets], Entered(slots, fat),
         NEW n, Unused(slots, fat, n), NEW s \in Nat, s < Spc,
         NEW b, Bare(b), slots' = [slots EXCEPT ![<<n, s>>] = b],
         NEW l \in Sectors, l[1] # n, NEW x, Here(slots, fat, l, x)
  PROVE  Here(slots', fat, l, x) /\ slots'[l] = slots[l]
<1>1. slots'[l] = slots[l] /\ PassedTo(slots', fat, l, x)
  BY ClearUnused DEF Here
<1>2. \A m \in Sectors : Bare(slots[m]) => Bare(slots'[m])
  BY ClearUnused
<1> QED BY <1>1, <1>2 DEF Here

\* A call that makes a directory goes on.
LEMMA MakeOnNames ==
  ASSUME NamesInv, call.op = "mkdir", call'.op = "mkdir",
         call'.at \in {"dots", "clear", "reload"}, Ready(call),
         call'.name = call.name, pos' = pos,
         Entered(slots', fat'), Onto(pos, fat'), Here(slots', fat', pos.lba, call.name),
         slots'[pos.lba] = slots[pos.lba],
         call'.at # "reload" => Unused(slots', fat', call'.new) /\ pos.lba[1] # call'.new
  PROVE  NamesInv'
<1>1. /\ Ready(call') /\ call'.at \notin {"next", "grow", "link", "wipe", "insert", "scan",
                                          "scanto", "short"}
      /\ call'.at \notin Placing
  BY DEF Ready, Placing
<1>2. Seeking(call', pos', slots', fat')
  BY <1>1 DEF Seeking, Seeks
<1>3. Open(slots'[pos.lba], pos.eptr)
  BY DEF NamesInv, Landing
<1>4. Landing(call', pos', buf', slots', fat')
  BY <1>1, <1>3 DEF Landing
<1>5. Newest(call', pos', slots', fat')
  BY <1>1 DEF Newest
<1>6. Kept(call', pos', slots') /\ Cleanly(call')
  BY <1>1 DEF Kept, Cleanly
<1> QED BY <1>2, <1>4, <1>5, <1>6 DEF NamesInv

\* What is known of such a call.
LEMMA MakeFacts ==
  ASSUME Core, DirInv, NamesInv, call.at \in {"alloc", "dots", "clear"}
  PROVE  /\ call.op = "mkdir" /\ Ready(call) /\ Onto(pos, fat)
         /\ Here(slots, fat, pos.lba, call.name) /\ Entered(slots, fat)
         /\ fat \in [Clusters -> Links] /\ slots \in [Sectors -> Sheets]
         /\ pos.lba \in Sectors /\ pos.clust \in Dirs
         /\ call.at # "alloc" => Unused(slots, fat, call.new) /\ pos.lba[1] # call.new
         /\ DOMAIN call = {"op", "at", "dir", "name", "other", "entry", "lba",
                           "short", "off", "n", "new"}
<1>1. call.op = "mkdir"
  BY DirFacts DEF Progress, Kinds
<1>2. Ready(call) /\ Onto(pos, fat) /\ Here(slots, fat, pos.lba, call.name)
  BY DEF Ready, NamesInv, Landing
<1> QED BY <1>1, <1>2, DirFacts, WorkFacts DEF NamesInv, Newest

\* A cluster for a new directory.
LEMMA MakeAllocNames ==
  ASSUME Core, DirInv, NamesInv, MakeAlloc \/ MakeUnflushed
  PROVE  NamesInv'
<1>1. call.at = "alloc" /\ slots' = slots
  BY DEF MakeAlloc, MakeUnflushed
<1>2. CASE MakeUnflushed
  <2>1. PICK c \in Clusters : Alloc(c)
    BY <1>2 DEF MakeUnflushed
  <2>2. call' = Idle /\ Entered(slots', fat')
    BY <1>1, <1>2, <2>1, MakeFacts, AllocUnused DEF MakeUnflushed, Fails, Return
  <2> QED BY <2>2, IdleNames
<1>3. CASE MakeAlloc
  <2>1. PICK c \in Clusters : NewCluster(c)
    BY <1>3 DEF MakeAlloc
  <2>2. /\ Alloc(c) /\ pos' = pos
        /\ call'.op = "mkdir" /\ call'.at = "dots" /\ call'.new = c
        /\ call'.name = call.name
    BY <1>1, <1>3, <2>1, MakeFacts DEF NewCluster, MakeAlloc
  <2>3. /\ Entered(slots, fat') /\ Unused(slots, fat', c)
        /\ Here(slots, fat', pos.lba, call.name) /\ pos.lba[1] # c
    BY <1>1, <2>2, MakeFacts, AllocUnused, AllocHere
  <2>4. Onto(pos, fat')
    <3>1. \A x \in Clusters : fat[x] = Eoc => fat'[x] = Eoc
      BY <1>1, <2>2, MakeFacts, AllocUnused
    <3> QED BY <1>1, <3>1, MakeFacts DEF Onto, Dirs
  <2> QED BY <1>1, <2>2, <2>3, <2>4, MakeFacts, MakeOnNames
<1> QED BY <1>2, <1>3

\* Its first sector, and the others.
LEMMA MakeClearNames ==
  ASSUME Core, DirInv, NamesInv,
         MakeDots \/ (ClearSector /\ call.at = "clear") \/ Cleared
  PROVE  NamesInv'
<1>1. call.at \in {"dots", "clear"} /\ fat' = fat /\ pos' = pos
  BY DEF MakeDots, ClearSector, Cleared, Write, Unread
<1>2. /\ call'.op = "mkdir" /\ call'.at \in {"clear", "reload"} /\ call'.name = call.name
      /\ call'.new = call.new
  BY <1>1, MakeFacts DEF MakeDots, ClearSector, Cleared
<1>3. CASE Cleared
  <2>1. slots' = slots /\ call'.at = "reload"
    BY <1>1, <1>3, MakeFacts DEF Cleared
  <2> QED BY <1>1, <1>2, <2>1, MakeFacts, MakeOnNames
<1>4. CASE MakeDots \/ (ClearSector /\ call.at = "clear")
  <2>1. PICK s, b : /\ s \in Nat /\ s < Spc /\ Bare(b)
                    /\ slots' = [slots EXCEPT ![<<call.new, s>>] = b]
    <3>1. CASE MakeDots
      <4> DEFINE d == [i \in Places |-> IF i < 2 THEN Dot ELSE End]
      <4>1. slots' = [slots EXCEPT ![<<call.new, 0>>] = d] /\ Bare(d)
        BY <3>1, BareSheets DEF MakeDots, Write
      <4>2. 0 \in Nat /\ 0 < Spc
        BY Places0
      <4> HIDE DEF d
      <4> QED BY <4>1, <4>2, Zenon
    <3>2. CASE ClearSector
      <4>1. call.n \in Nat
        BY WorkFacts DEF CallRecords
      <4> QED BY <4>1, <3>2, BareSheets DEF ClearSector, Write
    <3> QED BY <3>1, <3>2, <1>4
  <2>2. /\ Entered(slots', fat) /\ Unused(slots', fat, call.new)
        /\ Here(slots', fat, pos.lba, call.name) /\ slots'[pos.lba] = slots[pos.lba]
    BY <1>1, <2>1, MakeFacts, ClearUnused, ClearHere
  <2> QED BY <1>1, <1>2, <2>2, MakeFacts, MakeOnNames
<1> QED BY <1>3, <1>4

\* The cluster a directory grows by is cleared.
LEMMA WipeNames ==
  ASSUME Core, DirInv, NamesInv, (ClearSector /\ call.at = "wipe") \/ Wiped
  PROVE  NamesInv'
<1>1. /\ call.at = "wipe" /\ call.at \in Placed /\ call.at \in Placing
      /\ fat' = fat /\ pos' = pos
  BY DEF ClearSector, Wiped, Write, Unread, Placed, Placing
<1>2. /\ pos.lba = <<call.new, 0>> /\ PassedTo(slots, fat, pos.lba, call.name)
      /\ Unused(slots, fat, call.new)
  BY <1>1 DEF NamesInv, Landing, Newest
<1>3. /\ call'.op = call.op /\ call'.entry = call.entry /\ call'.lba = call.lba
      /\ call'.name = call.name /\ call'.short = call.short
      /\ call'.at \in {"wipe", "insert"} /\ call'.at \in Placed /\ call'.at \in Placing
      /\ call'.new = call.new
  BY <1>1, PlaceFacts DEF ClearSector, Wiped, Placed, Placing
<1>4. CASE ClearSector
  <2>1. /\ call.n \in Nat /\ call.n < Spc /\ call'.at = "wipe"
        /\ slots' = [slots EXCEPT ![<<call.new, call.n>>] = Filled(End)]
    BY <1>1, <1>4, WorkFacts, PlaceFacts DEF ClearSector, Write, CallRecords
  <2>2. /\ Entered(slots', fat) /\ Unused(slots', fat, call.new)
        /\ PassedTo(slots', fat, pos.lba, call.name)
        /\ \A l \in Sectors : l[1] # call.new => slots'[l] = slots[l]
    <3>1. /\ slots \in [Sectors -> Sheets] /\ Entered(slots, fat) /\ Bare(Filled(End))
      BY <1>1, PlaceFacts, BareSheets
    <3>2. /\ Entered(slots', fat) /\ Unused(slots', fat, call.new)
          /\ \A x : PassedTo(slots, fat, <<call.new, 0>>, x)
                    => PassedTo(slots', fat, <<call.new, 0>>, x)
          /\ \A l \in Sectors : l[1] # call.new => slots'[l] = slots[l]
      BY <1>2, <2>1, <3>1, ClearUnused
    <3> QED BY <3>2, <1>2
  <2>3. slots[call.lba][call.entry.off].kind = "short"
          => slots'[call.lba][call.entry.off].kind = "short"
    <3>1. CASE call.lba[1] = call.new
      BY <3>1, <1>1, <1>2, PlaceFacts DEF Unused, Bare, Blank
    <3>2. CASE call.lba[1] # call.new
      BY <3>2, <1>1, <2>2, PlaceFacts
    <3> QED BY <3>1, <3>2
  <2>4. Landing(call', pos', buf', slots', fat')
    BY <1>1, <1>2, <1>3, <2>1, <2>2 DEF Landing, Ready
  <2>5. Newest(call', pos', slots', fat')
    BY <1>1, <1>3, <2>1, <2>2 DEF Newest
  <2> QED BY <1>1, <1>3, <2>2, <2>3, <2>4, <2>5, PlaceOnNames
<1>5. CASE Wiped
  <2>1. /\ buf' = Filled(End) /\ slots' = slots /\ call'.at = "insert" /\ call'.off = 0
    BY <1>1, <1>5, PlaceFacts DEF Wiped
  <2>2. Bare(slots[pos.lba]) /\ pos.lba \in Sectors /\ pos.lba[1] = call.new
    BY <1>1, <1>2, PlaceFacts DEF Unused
  <2>3. \A m \in Sectors : Before(fat, pos.lba, m) => Bare(slots[m])
    <3>1. /\ call.new \in Clusters /\ fat[call.new] \notin Clusters
      BY <1>2, Places0 DEF Unused
    <3>2. \A m \in Sectors : call.new \in LeadTo(fat, m[1]) => m[1] = call.new
      BY <3>1, LeadLast, SectorIs
    <3> QED BY <3>2, <2>2, <1>2 DEF Before, Unused
  <2>4. Used(fat, call.new)
    BY <1>2, Places0 DEF Unused, Used, Eoc, Links
  <2>5. Here(slots, fat, pos.lba, call.name)
    BY <1>2, <2>2, <2>3, <2>4, BareIs DEF Here
  <2>6. Fitting(slots, pos.lba, buf', 0, call.name)
    <3>1. Open(slots[pos.lba], 0) /\ Open(Filled(End), 0)
      BY <2>2, BareSheets DEF Open, Bare, Places
    <3> QED BY <3>1, <2>1, <1>1, PlaceFacts, Places0 DEF Fitting, Places
  <2>7. Landing(call', pos', buf', slots', fat')
    BY <1>1, <1>3, <2>1, <2>5, <2>6 DEF Landing, Ready
  <2>8. Newest(call', pos', slots', fat')
    BY <2>1 DEF Newest
  <2>9. Entered(slots', fat')
    BY <1>1, <2>1, PlaceFacts
  <2> QED BY <1>1, <1>3, <2>1, <2>7, <2>8, <2>9, PlaceOnNames
<1> QED BY <1>4, <1>5

\* The entry is written.
LEMMA InsertNames ==
  ASSUME Core, DirInv, NamesInv, Insert
  PROVE  NamesInv'
<1> DEFINE l == pos.lba
           o == call.off
           n == call.name
           x == ShortSlot(call.short, call.entry.dir, call.entry.ro, call.entry.clust)
           b == Put(buf, o, n, x)
<1>1. /\ call.at = "insert" /\ call.at \in Placed /\ call.at \in Placing
      /\ slots' = [slots EXCEPT ![l] = WithEntry] /\ fat' = fat
  BY DEF Insert, Write, Unread, Placed, Placing
<1>2. x.kind = "short" /\ x.short = call.short
  BY DEF ShortSlot
<1>3. WithEntry = b
  <2> HIDE DEF x
  <2> QED BY <1>2 DEF WithEntry, Put, x
<1>4. /\ Here(slots, fat, l, n) /\ Fitting(slots, l, buf, o, n)
  BY <1>1 DEF NamesInv, Landing
<1>5. Parts[n] = 0 => Shown[x.short] = n
  BY <1>1, <1>2 DEF NamesInv, Cleanly
<1>6. /\ slots[l] \in Sheets /\ Whole(slots[l]) /\ o \in Nat
  BY <1>1, PlaceFacts, WorkFacts, Places0 DEF Entered, CallRecords
<1> HIDE DEF x, b
<1>7. /\ Whole(b)
      /\ \A i \in Places : b[i].kind = "short" =>
           \/ /\ slots[l][i].kind = "short" /\ NameAt(b, i) = NameAt(slots[l], i)
           \/ i = o + Parts[n] /\ NameAt(b, i) = n
      /\ \A i \in Places : slots[l][i].kind = "short" => b[i] = slots[l][i]
  <2>1. /\ buf \in Sheets /\ n \in Names
        /\ Open(slots[l], o) /\ Open(buf, o) /\ o + Parts[n] < DirEntPerSec
        /\ \A i \in Places : i < o => buf[i] = slots[l][i]
    BY <1>1, <1>4, PlaceFacts DEF Fitting
  <2>2. /\ Whole(Put(buf, o, n, x))
        /\ \A i \in Places : Put(buf, o, n, x)[i].kind = "short" =>
             \/ /\ slots[l][i].kind = "short"
                /\ NameAt(Put(buf, o, n, x), i) = NameAt(slots[l], i)
             \/ i = o + Parts[n] /\ NameAt(Put(buf, o, n, x), i) = n
        /\ \A i \in Places : slots[l][i].kind = "short"
                               => Put(buf, o, n, x)[i] = slots[l][i]
    BY <2>1, <1>2, <1>5, <1>6, PutNames
  <2> QED BY <2>2 DEF b
<1>8. Entered(slots', fat')
  <2>1. Entered([slots EXCEPT ![l] = b], fat)
    <3>1. Joined(slots[l], b, o + Parts[n], n)
      BY <1>7 DEF Joined
    <3>2. /\ slots \in [Sectors -> Sheets] /\ Entered(slots, fat) /\ l \in Sectors
      BY <1>1, PlaceFacts
    <3> HIDE DEF l, o, n
    <3> QED BY <1>4, <1>7, <3>1, <3>2, PutEntered
  <2> QED BY <2>1, <1>1, <1>3
<1>9. CASE call' = Idle
  BY <1>8, <1>9, IdleNames
<1>10. CASE /\ call.op = "rename" /\ call' = [call EXCEPT !.at = "reload"]
            /\ pos' = [pos EXCEPT !.lba = call.lba]
  <2>1. /\ call'.op = "rename" /\ call'.entry = call.entry /\ call'.lba = call.lba
        /\ call'.at = "reload" /\ pos'.lba = call.lba
    BY <1>1, <1>10, PlaceFacts DEF PosFields
  <2>2. slots[call.lba][call.entry.off].kind = "short"
    BY <1>1, <1>10, PlaceFacts DEF Kept
  <2>3. slots'[call.lba][call.entry.off].kind = "short"
    <3>1. CASE call.lba = l
      BY <3>1, <2>2, <1>1, <1>3, <1>7, PlaceFacts
    <3>2. CASE call.lba # l
      BY <3>2, <2>2, <1>1, PlaceFacts
    <3> QED BY <3>1, <3>2
  <2>4. Seeking(call', pos', slots', fat')
    BY <2>1 DEF Seeking, Seeks
  <2>5. Landing(call', pos', buf', slots', fat')
    BY <2>1 DEF Landing, Ready
  <2>6. Newest(call', pos', slots', fat') /\ Cleanly(call')
    BY <2>1 DEF Newest, Cleanly, Placing
  <2>7. Kept(call', pos', slots')
    BY <2>1, <2>3 DEF Kept
  <2> QED BY <1>8, <2>4, <2>5, <2>6, <2>7 DEF NamesInv
<1> QED BY <1>9, <1>10 DEF Insert, Goto, Return

\* A cluster is freed.
LEMMA FreeNames ==
  ASSUME Core, DirInv, NamesInv, FreeOne \/ FlushLast
  PROVE  NamesInv'
<1>1. CASE FlushLast
  <2>1. call' = Idle /\ UNCHANGED <<fat, slots>>
    BY <1>1 DEF FlushLast, Return
  <2> QED BY <2>1, IdleNames DEF NamesInv
<1>2. CASE FreeOne
  <2> DEFINE c == call.new
  <2>1. /\ call.at = "free" /\ fat' = [fat EXCEPT ![c] = 0]
        /\ slots' = [l \in Sectors |-> IF l[1] = c THEN Filled(Junk) ELSE slots[l]]
    BY <1>2 DEF FreeOne
  <2>2. First(fat, c) /\ Entered(slots, fat) /\ fat \in [Clusters -> Links]
    BY <2>1, DirFacts DEF Progress, Removing, NamesInv
  <2>3. \A l \in Sectors : Fewer(slots[l], slots'[l])
    <3> SUFFICES ASSUME NEW l \in Sectors PROVE Fewer(slots[l], slots'[l])
      OBVIOUS
    <3>1. CASE l[1] = c
      <4>1. /\ slots'[l] = Filled(Junk) /\ Bare(Filled(Junk)) /\ ~HasEnd(Filled(Junk))
            /\ Whole(Filled(Junk))
        BY <2>1, <3>1, BareSheets, BareIs
      <4>2. \A i \in Places : Blank(Filled(Junk)[i]) /\ Filled(Junk)[i].kind # "short"
        BY <4>1 DEF Bare, Blank
      <4> QED BY <4>1, <4>2 DEF Fewer
    <3>2. CASE l[1] # c
      BY <3>2, <2>1, <2>2, SameFewer DEF Entered
    <3> QED BY <3>1, <3>2
  <2>4. Entered(slots', fat)
    BY <2>2, <2>3, EnteredFewer
  <2>5. \A l \in Sectors : l[1] = c => Bare(slots'[l])
    BY <2>1, BareSheets
  <2>6. Entered(slots', [fat EXCEPT ![c] = 0])
    BY <2>2, <2>4, <2>5, FreeEntered DEF First
  <2>7. call'.at \in {"free", "flush"}
    BY <1>2, <2>1, WorkFacts DEF FreeOne
  <2> QED BY <2>1, <2>6, <2>7, ElsewhereNames
<1> QED BY <1>1, <1>2

\* A program makes a call.
LEMMA CallerNames ==
  ASSUME Core, DirInv, NamesInv, Caller
  PROVE  NamesInv'
<1>1. UNCHANGED <<fat, slots>>
  BY DEF Caller, NameCall, RenameCall, ListCall, ListNext, Start
<1>2. Entered(slots', fat')
  BY <1>1 DEF NamesInv
<1>3. \A d \in LiveDirs : Begins(fat, d)
  <2>1. /\ Volumes(slots, fat, fat_dur, NewOf(call)) /\ StoreOK
    BY DirFacts, WorkFacts
  <2>2. LiveDirs \subseteq {Root} \cup Named(slots)
    BY SMTT(30), <2>1, LiveNamed
  <2> QED BY <2>1, <2>2 DEF Begins, Volumes
<1>4. ASSUME NEW op, NEW d \in LiveDirs, NEW n, NEW m, Start(op, d, n, m)
      PROVE  NamesInv'
  <2>1. /\ call' = [Idle EXCEPT !.op = op, !.at = "scan", !.dir = d, !.name = n,
                                !.other = m]
        /\ pos' = DirOpen(pos, d)
    BY <1>4 DEF Start
  <2>2. /\ call'.op = op /\ call'.at = "scan" /\ call'.dir = d
    BY <2>1 DEF Idle
  <2>3. pos'.clust = d /\ pos'.sect = -1 /\ pos'.lfn = NoLfn
    <3>1. DOMAIN pos = PosFields
      BY DirFacts
    <3> QED BY <3>1, <2>1 DEF DirOpen, PosFields
  <2>4. Seeking(call', pos', slots', fat')
    BY <1>1, <1>3, <2>2, <2>3 DEF Seeking
  <2>5. Landing(call', pos', buf', slots', fat')
    BY <2>2 DEF Landing, Ready
  <2>6. Newest(call', pos', slots', fat')
    BY <2>2 DEF Newest
  <2>7. Kept(call', pos', slots') /\ Cleanly(call')
    BY <2>2 DEF Kept, Cleanly, Placed, Placing
  <2> QED BY <1>2, <2>4, <2>5, <2>6, <2>7 DEF NamesInv
<1>5. CASE ListNext
  <2>1. call'.at = "restore"
    BY <1>5 DEF ListNext, Idle
  <2> QED BY <2>1, <1>2, ElsewhereNames
<1> QED
  BY <1>4, <1>5 DEF Caller, NameCall, RenameCall, ListCall

\* An empty volume.
LEMMA InitNames == Init => NamesInv
<1> SUFFICES ASSUME Init PROVE NamesInv
  OBVIOUS
<1>1. call.at = "" /\ call.op = "idle"
  BY DEF Init, Idle
<1>2. \A l \in Sectors : Bare(slots[l])
  BY BareSheets DEF Init
<1>3. \A l \in Sectors : Whole(slots[l])
  BY <1>2, BareIs
<1>4. ~Endless(fat)
  BY Places0 DEF Init, Endless
<1>5. Distinct(slots, fat)
  BY <1>2 DEF Distinct, Bare, Blank
<1>6. Entered(slots, fat)
  BY <1>2, <1>3, <1>4, <1>5 DEF Entered, Ended
<1>7. Seeking(call, pos, slots, fat)
  BY <1>1 DEF Seeking, Seeks
<1>8. Landing(call, pos, buf, slots, fat)
  BY <1>1 DEF Landing, Ready
<1>9. Newest(call, pos, slots, fat) /\ Kept(call, pos, slots) /\ Cleanly(call)
  BY <1>1 DEF Newest, Kept, Cleanly, Placed, Placing
<1> QED BY <1>6, <1>7, <1>8, <1>9 DEF NamesInv

\* What has failed has failed, and a restart is one.
LEMMA SmoothBefore ==
  ASSUME faults \in Counts, Smooth', scenario' = scenario,
         Crash \/ ReadFault \/ WriteFault \/ faults' = faults
  PROVE  Smooth /\ ~ReadFault /\ ~Crash
<1>1. ~Crash /\ ~ReadFault
  BY DEF Crash, ReadFault, Smooth, Calm, Counts
<1>2. faults.read = 0 /\ faults.crash = 0
  BY <1>1 DEF WriteFault, Smooth, Calm, Counts
<1> QED BY <1>1, <1>2 DEF Smooth, Calm

\* Every step keeps names apart, as long as all reads succeed and the machine is
\* not restarted.
LEMMA NextNamesInv ==
  Core /\ (Calm => DirInv) /\ (Smooth => NamesInv) /\ [Next]_vars
    => (Smooth => NamesInv)'
<1> SUFFICES ASSUME Core, Calm => DirInv, Smooth => NamesInv, [Next]_vars, Smooth'
             PROVE  NamesInv'
  OBVIOUS
<1>1. CASE UNCHANGED vars
  BY <1>1 DEF vars, Smooth, Calm, NamesInv
<1>2. CASE ~exposed /\ (Caller \/ Kernel \/ Sync \/ Crash) /\ Watch
  <2>1. scenario' = scenario /\ (Caller \/ Kernel \/ Sync \/ Crash)
    BY <1>2 DEF Watch
  <2>2. Crash \/ ReadFault \/ WriteFault \/ faults' = faults
    <3>1. CASE Caller \/ Sync
      BY <3>1 DEF Caller, NameCall, RenameCall, ListCall, ListNext, Start, Sync
    <3> QED
      BY SMTT(30), <2>1, <3>1, KernelFaults
  <2>3. Smooth /\ ~ReadFault /\ ~Crash
    BY <2>1, <2>2, SmoothBefore DEF Core
  <2>4. NamesInv /\ DirInv /\ faults.read = 0 /\ faults'.read = 0
    BY <2>3 DEF Smooth, Calm
  <2>5. CASE Caller
    BY <2>4, <2>5, CallerNames
  <2>6. CASE Sync
    BY <2>4, <2>6 DEF Sync, NamesInv
  <2>7. CASE Kernel
    <3>1. ~ScanFails /\ ~ChooseFails /\ ~NextFails
      BY <2>3 DEF ScanFails, ChooseFails, NextFails
    <3>2. CASE Load \/ PassSector \/ ScanEnds
      BY <2>4, <3>2, LoadNames, PassNames, ScanEndsNames
    <3>3. CASE FoundAnswers \/ FoundNext \/ FoundToChange \/ FoundToRemove
               \/ FoundToRename \/ FoundRefused
      BY <2>4, <3>3, FoundNames
    <3>4. CASE Store \/ MarkDeleted \/ Reload \/ Restore \/ TransferFails
      BY <2>4, <3>4, ChangeNames
    <3>5. CASE ChooseShort \/ Fill \/ NextHasRoom \/ NextIsNone
      BY <2>4, <3>5, ChooseNames, FillNames, NextNames
    <3>6. CASE NoCluster
      <4>1. call' = Idle /\ UNCHANGED <<fat, slots>>
        BY <3>6 DEF NoCluster, Fails, Return
      <4> QED BY <4>1, <2>4, IdleNames DEF NamesInv
    <3>7. CASE Grow \/ LinkNew \/ LinkUnflushed
      BY <2>4, <3>7, GrowNames, LinkNames
    <3>8. CASE ClearSector
      <4>1. call.at \in {"clear", "wipe"}
        BY <3>8 DEF ClearSector
      <4> QED BY <4>1, <2>4, <3>8, MakeClearNames, WipeNames
    <3>9. CASE Wiped \/ Insert
      BY <2>4, <3>9, WipeNames, InsertNames
    <3>10. CASE MakeAlloc \/ MakeUnflushed \/ MakeDots \/ Cleared
      BY <2>4, <3>10, MakeAllocNames, MakeClearNames
    <3>11. CASE FreeOne \/ FlushLast
      BY <2>4, <3>11, FreeNames
    <3> QED
      BY <2>7, <3>1, <3>2, <3>3, <3>4, <3>5, <3>6, <3>7, <3>8, <3>9, <3>10, <3>11
         DEF Kernel
  <2> QED
    BY <2>1, <2>3, <2>5, <2>6, <2>7
<1>3. CASE Unfollowed
  BY <1>1, <1>3 DEF Unfollowed
<1> QED
  BY <1>1, <1>2, <1>3 DEF Next

\* The clusters of a chain lead to those behind them, and are others.
LEMMA NthLeads ==
  ASSUME NEW f, Chains(f), ~Endless(f), NEW c, NEW a \in Nat, NEW n \in Nat,
         Nth(f, c, a + n) \in Clusters
  PROVE  /\ Nth(f, c, a) \in LeadTo(f, Nth(f, c, a + n))
         /\ n # 0 => Nth(f, c, a) # Nth(f, c, a + n)
<1> DEFINE Bad == {m \in Nat : m <= n /\ Nth(f, c, a) \notin LeadTo(f, Nth(f, c, a + m))}
<1>0. \A m \in Nat : m <= n => Nth(f, c, a + m) \in Clusters
  <2> TAKE m \in Nat
  <2> HAVE m <= n
  <2>1. a + n \in Nat /\ a + m \in 0 .. a + n
    OBVIOUS
  <2> QED BY <2>1, ChainPrefix
<1>1. \A m \in Nat : m + 1 <= n =>
        /\ Nth(f, c, a + m) \in Clusters
        /\ f[Nth(f, c, a + m)] = Nth(f, c, a + (m + 1))
  <2> TAKE m \in Nat
  <2> HAVE m + 1 <= n
  <2>1. a + m \in Nat /\ a + (m + 1) = (a + m) + 1 /\ m + 1 \in Nat
    OBVIOUS
  <2>2. Nth(f, c, (a + m) + 1) \in Clusters
    BY <1>0, <2>1
  <2> QED BY <2>1, <2>2, NthNext
<1>2. CASE Bad # {}
  <2>1. PICK m \in Bad : \A y \in Bad : m <= y
    <3>1. Bad \in SUBSET Nat
      OBVIOUS
    <3> HIDE DEF Bad
    <3> QED BY <1>2, <3>1, Least
  <2>2. m \in Nat /\ m <= n /\ Nth(f, c, a) \notin LeadTo(f, Nth(f, c, a + m))
    OBVIOUS
  <2> HIDE DEF Bad
  <2>3. m # 0
    <3>1. a + 0 = a /\ Nth(f, c, a) \in Dirs
      BY <1>0, Places0
    <3> QED BY <2>2, <3>1, LeadIs
  <2> DEFINE k == m - 1
  <2>4. k \in Nat /\ k + 1 = m /\ k + 1 <= n /\ k <= n /\ ~(m <= k)
    BY <2>2, <2>3
  <2> HIDE DEF k
  <2>5. Nth(f, c, a) \in LeadTo(f, Nth(f, c, a + k))
    BY <2>1, <2>4 DEF Bad
  <2>6. /\ Nth(f, c, a + k) \in Clusters
        /\ f[Nth(f, c, a + k)] = Nth(f, c, a + m) /\ Nth(f, c, a + m) \in Clusters
    BY <1>0, <1>1, <2>2, <2>4
  <2>7. LeadTo(f, Nth(f, c, a + m))
          = LeadTo(f, Nth(f, c, a + k)) \cup {Nth(f, c, a + m)}
    BY <2>6, LeadNext
  <2> QED BY <2>2, <2>5, <2>7
<1>3. CASE Bad = {}
  <2>1. \A m \in Nat : m <= n => Nth(f, c, a) \in LeadTo(f, Nth(f, c, a + m))
    BY <1>3
  <2> HIDE DEF Bad
  <2>2. ASSUME n # 0, Nth(f, c, a) = Nth(f, c, a + n) PROVE FALSE
    <3> DEFINE k == n - 1
    <3>1. k \in Nat /\ k + 1 = n /\ k <= n
      BY <2>2
    <3> HIDE DEF k
    <3>2. /\ Nth(f, c, a + k) \in Clusters
          /\ f[Nth(f, c, a + k)] = Nth(f, c, a + n)
      BY <1>1, <3>1
    <3>3. f[Nth(f, c, a + k)] \in LeadTo(f, Nth(f, c, a + k))
      BY <2>1, <2>2, <3>1, <3>2
    <3> QED BY <3>2, <3>3 DEF Endless
  <2> QED BY <2>1, <2>2
<1> QED BY <1>2, <1>3

\* Sector numbers go up along a directory.
LEMMA SectorOrder ==
  ASSUME NEW k \in Nat, NEW m \in Nat, k < m
  PROVE  /\ k \div Spc \in Int /\ m \div Spc \in Int
         /\ k \div Spc <= m \div Spc
         /\ k \div Spc = m \div Spc => k % Spc < m % Spc
<1> DEFINE a == k \div Spc
           b == m \div Spc
           r == k % Spc
           s == m % Spc
<1>1. /\ a \in Int /\ r \in 0 .. Spc - 1 /\ k = Spc * a + r
      /\ b \in Int /\ s \in 0 .. Spc - 1 /\ m = Spc * b + s
  BY Places0
<1> HIDE DEF a, b, r, s
<1>2. ASSUME b < a PROVE FALSE
  <2>1. Spc * (a - b) >= Spc
    <3>1. a - b \in Nat /\ a - b >= 1
      BY <1>1, <1>2
    <3> QED BY <3>1, Places0
  <2>2. Spc * (a - b) = Spc * a - Spc * b
    BY <1>1, Places0
  <2>3. Spc * a \in Int /\ Spc * b \in Int
    BY <1>1, Places0
  <2> QED BY <1>1, <2>1, <2>2, <2>3, Places0
<1>3. a = b => r < s
  <2>1. Spc * a \in Int
    BY <1>1, Places0
  <2> QED BY <1>1, <2>1, Places0
<1>4. a <= b
  BY <1>1, <1>2
<1> QED BY <1>1, <1>3, <1>4 DEF a, b, r, s

\* The sectors of a directory come one before the other.
LEMMA SectorsInOrder ==
  ASSUME Chains(fat), ~Endless(fat), NEW d \in Dirs,
         NEW k \in 0 .. SectorCount(d) - 1, NEW m \in 0 .. SectorCount(d) - 1, k < m
  PROVE  Before(fat, SectorOf(d, k), SectorOf(d, m))
<1>1. CASE d = Root
  BY <1>1 DEF SectorOf, Before
<1>2. CASE d # Root
  <2> DEFINE a == k \div Spc
             b == m \div Spc
  <2>1. k \in Nat /\ m \in Nat
    OBVIOUS
  <2>2. /\ a \in Nat /\ Nth(fat, d, a) \in Clusters
        /\ b \in Nat /\ Nth(fat, d, b) \in Clusters
    BY <1>2, SectorAtIs
  <2>3. a <= b /\ (a = b => k % Spc < m % Spc)
    BY <2>1, SectorOrder
  <2>4. SectorOf(d, k) = <<Nth(fat, d, a), k % Spc>>
        /\ SectorOf(d, m) = <<Nth(fat, d, b), m % Spc>>
    BY <1>2 DEF SectorOf
  <2> HIDE DEF a, b
  <2>5. CASE a = b
    BY <2>3, <2>4, <2>5 DEF Before
  <2>6. CASE a # b
    <3> DEFINE n == b - a
    <3>1. n \in Nat /\ n # 0 /\ a + n = b
      BY <2>2, <2>3, <2>6
    <3> HIDE DEF n
    <3>2. Nth(fat, d, a) \in LeadTo(fat, Nth(fat, d, b)) /\ Nth(fat, d, a) # Nth(fat, d, b)
      BY <2>2, <3>1, NthLeads
    <3> QED BY <3>2, <2>4 DEF Before
  <2> QED BY <2>5, <2>6
<1> QED BY <1>1, <1>2

\* A directory's sectors are counted.
LEMMA CountIs ==
  ASSUME NEW d \in Dirs
  PROVE  SectorCount(d) \in Nat
<1>1. ChainLength(d) \in Nat
  <2>1. IsFiniteSet(0 .. LastCluster - 2)
    BY Places0, FS_Interval
  <2>2. {i \in 0 .. LastCluster - 2 : Nth(fat, d, i) \in Clusters}
          \subseteq 0 .. LastCluster - 2
    OBVIOUS
  <2> QED
    BY <2>1, <2>2, FS_Subset, FS_CardinalityType DEF ChainLength
<1> QED BY <1>1, Places0 DEF SectorCount

\* Where a directory has short entries.
LEMMA ShortsAre ==
  ASSUME NEW d \in Dirs
  PROVE  /\ IsFiniteSet(ShortsAt(d))
         /\ \A at \in ShortsAt(d) :
              /\ at = <<at[1], at[2]>> /\ at[1] \in Reached(d) /\ at[2] \in Places
              /\ SectorOf(d, at[1]) \in Sectors
              /\ SectorAt(d, at[1]) = slots[SectorOf(d, at[1])]
              /\ slots[SectorOf(d, at[1])][at[2]].kind = "short"
<1>1. \A at \in ShortsAt(d) :
        /\ at = <<at[1], at[2]>> /\ at[1] \in Reached(d)
        /\ at[2] \in Shortly(SectorAt(d, at[1]), 0)
  BY DEF ShortsAt
<1>2. Reached(d) \subseteq 0 .. SectorCount(d) - 1
  BY DEF Reached
<1>3. \A at \in ShortsAt(d) :
        /\ at[2] \in Places /\ SectorAt(d, at[1])[at[2]].kind = "short"
  BY <1>1 DEF Shortly, Places
<1>4. \A at \in ShortsAt(d) : /\ SectorOf(d, at[1]) \in Sectors
                              /\ SectorAt(d, at[1]) = slots[SectorOf(d, at[1])]
  BY <1>1, <1>2, SectorAtIs
<1>5. IsFiniteSet(ShortsAt(d))
  <2>1. ShortsAt(d) \subseteq (0 .. SectorCount(d) - 1) \X Places
    BY <1>1, <1>2, <1>3
  <2>2. IsFiniteSet(0 .. SectorCount(d) - 1) /\ IsFiniteSet(Places)
    <3>1. SectorCount(d) - 1 \in Int /\ DirEntPerSec - 1 \in Int /\ 0 \in Int
      BY CountIs, Places0
    <3> QED BY <3>1, FS_Interval DEF Places
  <2>3. IsFiniteSet((0 .. SectorCount(d) - 1) \X Places)
    BY <2>2, FS_Product
  <2> QED BY <2>1, <2>3, FS_Subset
<1> QED BY <1>1, <1>3, <1>4, <1>5

\* What dir_read lists of a directory are the names of its short entries.
LEMMA ListedAre ==
  ASSUME NEW d \in Dirs
  PROVE  ListedIn(d) = {NameAt(SectorAt(d, at[1]), at[2]) : at \in ShortsAt(d)}
<1> DEFINE nm(at) == NameAt(SectorAt(d, at[1]), at[2])
<1>1. ASSUME NEW at \in ShortsAt(d) PROVE nm(at) \in ListedIn(d)
  <2>1. at[1] \in Reached(d) /\ at[2] \in Shortly(SectorAt(d, at[1]), 0)
    BY DEF ShortsAt
  <2> DEFINE k == at[1]
             i == at[2]
             b == SectorAt(d, k)
             e == [off |-> i, name |-> NameOf(b[i], LfnAt(b, 0, NoLfn, i)),
                   dir |-> b[i].dir, ro |-> b[i].ro, clust |-> b[i].clust]
  <2>2. e \in EntriesOf(b, 0, NoLfn)
    BY <2>1 DEF EntriesOf
  <2>3. e \in Listing(d)
    <3> HIDE DEF e
    <3> QED BY <2>1, <2>2 DEF Listing
  <2>4. e.name = nm(at)
    BY DEF NameAt
  <2> HIDE DEF e
  <2> QED BY <2>3, <2>4 DEF ListedIn
<1>2. ASSUME NEW n \in ListedIn(d) PROVE \E at \in ShortsAt(d) : n = nm(at)
  <2>0. PICK k \in Reached(d) : \E e \in EntriesOf(SectorAt(d, k), 0, NoLfn) : n = e.name
    BY DEF ListedIn, Listing
  <2>1. PICK e \in EntriesOf(SectorAt(d, k), 0, NoLfn) : n = e.name
    BY <2>0
  <2> DEFINE b == SectorAt(d, k)
  <2>2. PICK i \in Shortly(b, 0) : e.name = NameOf(b[i], LfnAt(b, 0, NoLfn, i))
    BY <2>1 DEF EntriesOf
  <2>3. <<k, i>> \in ShortsAt(d)
    BY <2>2 DEF ShortsAt
  <2>4. n = nm(<<k, i>>)
    BY <2>1, <2>2 DEF NameAt
  <2> HIDE DEF nm
  <2> QED BY <2>3, <2>4
<1> QED BY <1>1, <1>2

\* The names of a directory are as many as its short entries.
LEMMA NamesNow ==
  ASSUME Core, DirInv, NamesInv
  PROVE  NamesUnique
<1> SUFFICES ASSUME NEW d \in LiveDirs
             PROVE  Cardinality(ListedIn(d)) = Cardinality(ShortsAt(d))
  BY DEF NamesUnique
<1>1. /\ StoreOK /\ Chains(fat) /\ Distinct(slots, fat) /\ ~Endless(fat)
  BY WorkFacts, DirFacts DEF NamesInv, Entered, Volumes
<1>2. d \in Dirs
  BY <1>1, LiveAreDirs
<1> DEFINE S == ShortsAt(d)
           T == ListedIn(d)
           g == [at \in S |-> NameAt(SectorAt(d, at[1]), at[2])]
<1>3. ASSUME NEW at \in S, NEW to \in S, at[1] <= to[1], g[at] = g[to]
      PROVE  at = to
  <2> DEFINE l == SectorOf(d, at[1])
             m == SectorOf(d, to[1])
  <2>1. /\ l \in Sectors /\ m \in Sectors /\ at[2] \in Places /\ to[2] \in Places
        /\ slots[l][at[2]].kind = "short" /\ slots[m][to[2]].kind = "short"
        /\ NameAt(slots[l], at[2]) = NameAt(slots[m], to[2])
        /\ at = <<at[1], at[2]>> /\ to = <<to[1], to[2]>>
    BY <1>2, <1>3, ShortsAre
  <2>2. /\ at[1] \in 0 .. SectorCount(d) - 1 /\ to[1] \in 0 .. SectorCount(d) - 1
    BY <1>2, ShortsAre DEF Reached
  <2>3. at[1] = to[1] \/ Before(fat, l, m)
    <3>1. CASE at[1] < to[1]
      BY <1>1, <1>2, <2>2, <3>1, SectorsInOrder
    <3> QED BY <1>3, <2>2, <3>1
  <2> HIDE DEF l, m, S, g
  <2>4. at[1] = to[1] => l = m
    BY DEF l, m
  <2>5. l = m /\ at[2] = to[2]
    BY <1>1, <2>1, <2>3, <2>4 DEF Distinct
  <2>6. at[1] = to[1]
    BY <2>1, <2>3, <2>5, BeforeIs
  <2> QED BY <2>1, <2>5, <2>6
<1>4. \A at, to \in S : g[at] = g[to] => at = to
  <2>1. \A at \in S : at[1] \in Int
    BY <1>2, ShortsAre DEF Reached
  <2> HIDE DEF S, g
  <2>2. \A at, to \in S : at[1] <= to[1] \/ to[1] <= at[1]
    BY <2>1
  <2> QED BY <1>3, <2>2
<1>5. T = {g[at] : at \in S}
  BY <1>2, ListedAre
<1>6. g \in Bijection(S, T)
  <2>1. g \in [S -> T] /\ \A t \in T : \E s \in S : g[s] = t
    <3>1. DOMAIN g = S /\ g = [at \in S |-> g[at]]
      OBVIOUS
    <3> HIDE DEF g, S, T
    <3> QED BY <1>5, <3>1
  <2> HIDE DEF g, S, T
  <2> QED BY <1>4, <2>1 DEF Bijection, Injection, Surjection, IsInjective
<1>7. ExistsBijection(S, T)
  BY <1>6 DEF ExistsBijection
<1>8. IsFiniteSet(S)
  BY <1>2, ShortsAre
<1> HIDE DEF S, T, g
<1>9. Cardinality(T) = Cardinality(S)
  BY <1>7, <1>8, FS_Bijection
<1> QED BY <1>9 DEF S, T

\* As long as all reads succeed and the machine is not restarted, and until a
\* write that fails leaves a cluster uncleared in a directory (dir_read would take
\* what is there for entries), dir_read never finds two entries of one name in a
\* directory, also while a call is under way: the scan of
\* _file_create, dir_create and file_rename has seen every sector up to where
\* the entry goes, there is nothing of an entry behind it, a cluster is clear of
\* entries when it is linked in, and what marks entries deleted gives no other
\* entry a new name.
THEOREM NamesUniqueAlways ==
  Spec => [](~exposed /\ faults.read = 0 /\ faults.crash = 0
               /\ ~({"mkdir", "rename"} \subseteq scenario.calls)
                 => NamesUnique)
<1>1. Init => Core /\ (Calm => DirInv) /\ (Smooth => NamesInv)
  BY InitTypes, InitDir, InitNames DEF Types
<1>2. Core /\ (Calm => DirInv) /\ (Smooth => NamesInv)
        => (~exposed /\ faults.read = 0 /\ faults.crash = 0
              /\ ~({"mkdir", "rename"} \subseteq scenario.calls)
                => NamesUnique)
  <2> SUFFICES ASSUME Core, Calm => DirInv, Smooth => NamesInv,
                      faults.read = 0, faults.crash = 0,
                      ~({"mkdir", "rename"} \subseteq scenario.calls)
               PROVE  NamesUnique
    OBVIOUS
  <2>1. DirInv /\ NamesInv
    BY DEF Smooth, Calm
  <2> QED
    BY <2>1, NamesNow
<1> QED
  BY <1>1, <1>2, NextCore, NextDir, NextNamesInv, PTL DEF Spec
=============================================================================
