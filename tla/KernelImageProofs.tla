------------------------- MODULE KernelImageProofs -------------------------
(***************************************************************************)
(* check_kernel_margin.py does what it is for, with any sources, any map   *)
(* of memory, page size and threshold: an image built from sources that    *)
(* have passed is laid out safely (MarginHolds).  And the counts that      *)
(* split_kernel.py puts into krnboot's header are those of the image.      *)
(***************************************************************************)
EXTENDS KernelImage, SequenceTheorems, WellFoundedInduction, TLAPS

---------------------------------------------------------------------------
\* Division by any positive number.
LEMMA DivMod ==
  ASSUME NEW p \in Nat, p > 0, NEW a \in Nat
  PROVE  /\ a \div p \in Nat /\ a % p \in Nat /\ a % p < p
         /\ a = p * (a \div p) + (a % p)
         /\ a < p => a % p = a
<1>1. a \div p \in Nat
  BY SMT
<1>2. a % p \in Nat
  BY SMT
<1>3. a % p < p
  BY SMT
<1>4. a = p * (a \div p) + (a % p)
  BY SMT
<1>5. a < p => a % p = a
  BY SMT
<1> QED
  BY <1>1, <1>2, <1>3, <1>4, <1>5

\* Where file.asm, which adds to the low byte of a block's address only, looks
\* for a field: in its place if the block does not go over the end of a page.
LEMMA FieldInPlace ==
  ASSUME NEW a \in Nat, NEW f \in Nat, NEW l \in Int, f < l,
         PageSize \in Nat, PageSize > 0, a % PageSize <= PageSize - l
  PROVE  FieldAt(a, f) = a + f
<1> DEFINE p == PageSize
           q == a \div p
           r == a % p
<1>1. q \in Nat /\ r \in Nat /\ a = p * q + r
  BY DivMod
<1>2. r + f \in Nat /\ r + f < p
  <2> HIDE DEF q
  <2> QED BY <1>1
<1>3. (r + f) % p = r + f
  <2> HIDE DEF r
  <2> QED BY <1>2, DivMod
<1>4. FieldAt(a, f) = q * p + ((r + f) % p)
  BY DEF FieldAt
<1> HIDE DEF q, r, p
<1>5. q * p = p * q
  BY <1>1 DEF p
<1> QED
  BY <1>1, <1>3, <1>4, <1>5 DEF p

\* A set of numbers has a smallest one.
LEMMA Smallest ==
  ASSUME NEW S \in SUBSET Nat, S # {}
  PROVE  \E m \in S : \A y \in S : m <= y
<1>1. PICK m \in S : \A y \in S : ~(<<y, m>> \in OpToRel(<, Nat))
  BY NatLessThanWellFounded, WFMin
<1>2. \A y \in S : m <= y
  <2> TAKE y \in S
  <2>1. y \in Nat /\ m \in Nat
    BY <1>1
  <2>2. ~(y < m)
    BY <1>1, <2>1 DEF OpToRel
  <2> QED BY <2>1, <2>2
<1> QED
  BY <1>2

\* The smallest of a set of addresses is below or equal to each of them.
LEMMA MinIs ==
  ASSUME NEW S \in SUBSET Nat, NEW x \in S
  PROVE  Min(S) \in S /\ Min(S) <= x
<1>1. PICK m \in S : \A y \in S : m <= y
  BY Smallest
<1> QED
  BY <1>1 DEF Min

\* A table has what it was made of.
LEMMA EachIs ==
  ASSUME NEW T, NEW f \in [Names -> T]
  PROVE  \A n \in Names : Each(f)[n] = f[n]
<1>1. Len(Sources) \in Nat /\ Names = 1 .. Len(Sources)
  BY SourceAssumption, LenProperties DEF Names
<1>2. f \in Seq(T) /\ Len(f) = Len(Sources)
  BY <1>1, IsASeq
<1>3. ASSUME NEW n \in Names
      PROVE  Each(f)[n] = f[n]
  BY <1>1, <1>2, SubSeqProperties DEF Each
<1> QED
  BY <1>3

\* The four tables.
LEMMA Tables ==
  ASSUME NEW n \in Names
  PROVE  /\ Out[n] = Linked(Sources[n])
         /\ Passes[n] = MarginOK(Sources[n], Out[n])
         /\ Halves[n] = Slices(Sources[n], Out[n])
         /\ Protected[n] = (Halves[n] # None => LaidOut(Sources[n], Out[n]))
<1>1. Out[n] = Linked(Sources[n])
  <2> DEFINE f == [s \in Names |-> Linked(Sources[s])]
  <2>1. f \in [Names -> {Linked(Sources[s]) : s \in Names}]
    OBVIOUS
  <2>2. Each(f)[n] = f[n]
    <3> HIDE DEF f
    <3> QED BY <2>1, EachIs
  <2> QED BY <2>2 DEF Out
<1>2. Passes[n] = MarginOK(Sources[n], Out[n])
  <2> DEFINE f == [s \in Names |-> MarginOK(Sources[s], Out[s])]
  <2>1. f \in [Names -> {MarginOK(Sources[s], Out[s]) : s \in Names}]
    OBVIOUS
  <2>2. Each(f)[n] = f[n]
    <3> HIDE DEF f
    <3> QED BY <2>1, EachIs
  <2> QED BY <2>2 DEF Passes
<1>3. Halves[n] = Slices(Sources[n], Out[n])
  <2> DEFINE f == [s \in Names |-> Slices(Sources[s], Out[s])]
  <2>1. f \in [Names -> {Slices(Sources[s], Out[s]) : s \in Names}]
    OBVIOUS
  <2>2. Each(f)[n] = f[n]
    <3> HIDE DEF f
    <3> QED BY <2>1, EachIs
  <2> QED BY <2>2 DEF Halves
<1>4. Protected[n] = (Halves[n] # None => LaidOut(Sources[n], Out[n]))
  <2> DEFINE f == [s \in Names |-> Halves[s] # None => LaidOut(Sources[s], Out[s])]
  <2>1. f \in [Names -> {(Halves[s] # None => LaidOut(Sources[s], Out[s])) : s \in Names}]
    OBVIOUS
  <2>2. Each(f)[n] = f[n]
    <3> HIDE DEF f
    <3> QED BY <2>1, EachIs
  <2> QED BY <2>2 DEF Protected
<1> QED
  BY <1>1, <1>2, <1>3, <1>4

---------------------------------------------------------------------------
\* A public name is listed with the address of its object.
LEMMA SymbolIs ==
  ASSUME NEW src, Agree(src), NEW k \in DOMAIN src.objs, src.objs[k].public
  PROVE  Linked(src).symbols[src.objs[k].name] = Placed(src)[k]
<1> DEFINE c == src.objs[k].name
           at == Placed(src)
           listed == {d \in {src.objs[l].name : l \in DOMAIN src.objs} : Public(src, d) # {}}
<1>1. k \in Public(src, c)
  BY DEF Public
<1>2. \A l \in Public(src, c) : l = k
  BY DEF Public, Agree
<1>3. c \in listed
  BY <1>1
<1>4. (CHOOSE l \in Public(src, c) : TRUE) = k
  BY <1>1, <1>2
<1>5. Linked(src).symbols = [d \in listed |-> at[CHOOSE l \in Public(src, d) : TRUE]]
  BY DEF Linked, Output
<1> QED
  BY <1>3, <1>4, <1>5

LEMMA ListedIs ==
  ASSUME NEW src, Agree(src), NEW c \in DOMAIN Linked(src).symbols
  PROVE  Linked(src).symbols[c] \in Nat
<1>1. Public(src, c) # {}
  BY DEF Linked, Output
<1>2. PICK k \in DOMAIN src.objs : src.objs[k].public /\ src.objs[k].name = c
  BY <1>1 DEF Public
<1>3. Linked(src).symbols[src.objs[k].name] = Placed(src)[k]
  BY <1>2, SymbolIs
<1> QED
  BY <1>2, <1>3 DEF Agree

\* What has passed check_kernel_margin is laid out safely.
LEMMA MarginRight ==
  ASSUME NEW src, Agree(src), MarginOK(src, Linked(src))
  PROVE  LaidOut(src, Linked(src))
<1> DEFINE out == Linked(src)
           at == Placed(src)
           end == out.symbols["kvol_end"]
           base == Value(src, "NVK_BASE")[1]
<1>1. Threshold \in Nat /\ Threshold > 0 /\ PageSize \in Nat /\ PageSize > 0
  BY SizeAssumption
<1>2. Known(src, out) /\ FloorClear(src, out) /\ FcbsInPage(src, out)
      /\ \A k \in Measured(src) : BufferFits(src, out, k)
  BY DEF MarginOK
<1>3. end \in Nat
  BY <1>2, ListedIs DEF Known
<1>4. base \in Nat /\ Assembled(src, "NVK_BASE") = base
  BY <1>2 DEF Known, Agree
<1>5. out.highest \in Nat
  BY DEF Agree
<1>6. ASSUME NEW k \in Measured(src)
      PROVE  /\ k \in DOMAIN src.objs /\ out.symbols[src.objs[k].name] = at[k]
             /\ at[k] \in Nat /\ src.objs[k].bytes \in Nat /\ SizeOf(src, k) = src.objs[k].bytes
  <2>1. k \in DOMAIN src.objs /\ src.objs[k].public
    BY DEF Measured, Buffers
  <2> QED BY <2>1, SymbolIs DEF Agree
<1>7. ASSUME NEW k \in Measured(src)
      PROVE  EndsBy(src, k, end)
             \/ (at[k] >= Assembled(src, "NVK_BASE") /\ EndsBy(src, k, out.highest))
  <2> DEFINE a == at[k]
             b == src.objs[k].bytes
  <2>1. a \in Nat /\ b \in Nat
    BY <1>6
  <2>2. IF a < base THEN a + b - 1 <= end ELSE out.highest - (a + b - 1) >= Threshold
    BY <1>2, <1>6 DEF BufferFits
  <2>3. \A x : EndsBy(src, k, x) <=> a + b - 1 <= x
    BY DEF EndsBy
  <2> HIDE DEF a, b, base, end, out
  <2>4. a + b - 1 <= end \/ (a >= base /\ a + b - 1 <= out.highest)
    BY <1>1, <1>3, <1>4, <1>5, <2>1, <2>2 DEF base, out
  <2>5. EndsBy(src, k, end) \/ (a >= base /\ EndsBy(src, k, out.highest))
    BY <2>3, <2>4
  <2> QED BY <1>4, <2>5 DEF a, base, out
<1>8. ASSUME NEW c \in Relative(src)
      PROVE  Assembled(src, c) > end
  <2> DEFINE S == {Value(src, d)[1] : d \in Relative(src)}
             v == Value(src, c)[1]
  <2>1. S \in SUBSET Nat /\ v \in S /\ Assembled(src, c) = v
    BY DEF Relative, Agree
  <2>2. Min(S) - end >= Threshold
    BY <1>2 DEF FloorClear
  <2> HIDE DEF S, v, end
  <2>3. Min(S) \in S /\ Min(S) <= v
    BY <2>1, MinIs
  <2>4. Min(S) \in Nat /\ v \in Nat
    BY <2>1, <2>3
  <2>5. v > end
    BY <1>1, <1>3, <2>2, <2>3, <2>4
  <2> QED BY <2>1, <2>5
<1>9. ASSUME NEW k \in Fcbs(src), NEW f \in 0 .. FcbLen(src) - 1
      PROVE  FieldAt(at[k], f) = at[k] + f
  <2>1. k \in Measured(src)
    BY DEF Fcbs
  <2>2. at[k] \in Nat /\ out.symbols[src.objs[k].name] = at[k]
    BY <1>6, <2>1
  <2>3. at[k] % PageSize <= PageSize - FcbLen(src)
    BY <1>2, <2>2 DEF FcbsInPage
  <2>4. FcbLen(src) \in Int
    <3>1. CASE "FCB_LEN" \in DOMAIN src.equs
      BY <1>2, <3>1 DEF Known, Agree, FcbLen
    <3>2. CASE "FCB_LEN" \notin DOMAIN src.equs
      BY <3>2 DEF FcbLen
    <3> QED BY <3>1, <3>2
  <2>5. f \in Nat /\ f < FcbLen(src)
    BY <2>4
  <2> QED BY <1>1, <2>2, <2>3, <2>4, <2>5, FieldInPlace
<1> QED
  BY <1>7, <1>8, <1>9 DEF LaidOut

---------------------------------------------------------------------------
\* kernel-full.bin is None or made from the halves of one of the sources.
FullOK == full = None \/ \E s \in Names : Halves[s] # None /\ full = <<Image(s, Halves[s][1])>>
IInv == source \in Names /\ FullOK

LEMMA InitIInv == Init => IInv
BY DEF Init, FullOK, IInv

LEMMA NextIInv == IInv /\ [Next]_vars => IInv'
<1> SUFFICES ASSUME FullOK, source \in Names, [Next]_vars
             PROVE  FullOK' /\ source' \in Names
  BY DEF IInv
<1>1. CASE MakeFull
  BY <1>1 DEF MakeFull, FullOK
<1>2. ASSUME NEW s \in Names, Edit(s)
      PROVE  FullOK' /\ source' \in Names
  BY <1>2 DEF Edit, FullOK
<1>3. CASE UNCHANGED <<source, full>>
  BY <1>3 DEF FullOK
<1>4. ASSUME MakeKernel \/ Install \/ Burn \/ Reset \/ PowerOff \/ Krnboot \/ UNCHANGED vars
      PROVE  UNCHANGED <<source, full>>
  <2>1. CASE MakeKernel \/ Install \/ Burn \/ Reset \/ PowerOff \/ UNCHANGED vars
    BY <2>1 DEF MakeKernel, Install, Burn, Reset, PowerOff, Stays, buildVars, vars
  <2>2. CASE Krnboot
    BY <2>2 DEF Krnboot, LoadSector, VolLoaded, TestRam, TestRom, Waited, LoadLast, CopyLast,
                CheckSig, Init2, Init2Fails, ReadError, Hang, Halt, Stays, buildVars
  <2> QED BY <1>4, <2>1, <2>2
<1> QED
  BY <1>1, <1>2, <1>3, <1>4 DEF Next

\* MarginHolds for any sources: whatever order the developer edits and builds in,
\* an image whose sources passed the check has its buffers, its end and its file
\* control blocks where the kernel and the programs need them.
THEOREM MarginAlways == Spec => []MarginHolds
<1>1. IInv => MarginHolds
  <2> SUFFICES ASSUME FullOK, NEW i \in ToSet(full), Passes[i.of]
               PROVE  Protected[i.of]
    BY DEF MarginHolds, IInv
  <2>1. full # None
    BY DEF ToSet, None
  <2>2. PICK s \in Names : Halves[s] # None /\ full = <<Image(s, Halves[s][1])>>
    BY <2>1 DEF FullOK
  <2>3. i = Image(s, Halves[s][1])
    BY <2>2 DEF ToSet
  <2>4. i.of = s
    BY <2>3 DEF Image
  <2>5. MarginOK(Sources[s], Linked(Sources[s]))
    BY <2>4, Tables
  <2>6. LaidOut(Sources[s], Out[s])
    BY <2>5, MarginRight, SourceAssumption, Tables DEF Names
  <2> QED BY <2>4, <2>6, Tables
<1> QED
  BY <1>1, InitIInv, NextIInv, PTL DEF Spec

---------------------------------------------------------------------------
\* The sectors of a half and the bytes of the last: krnboot loads all sectors but
\* one, copies LastBytes from a buffer, and has the image, for any length.
THEOREM CountsRight ==
  ASSUME SectorSize \in Nat, SectorSize > 0, NEW n \in Nat, n > 0
  PROVE  /\ LastBytes(n) \in 1 .. SectorSize
         /\ Sectors(n) \in Nat \ {0}
         /\ (Sectors(n) - 1) * SectorSize + LastBytes(n) = n
<1> DEFINE z == SectorSize
           a == n + z - 1
           q == a \div z
           r == a % z
           m == (q - 1) * z
<1>1. a \in Nat /\ a >= z
  OBVIOUS
<1>2. q \in Nat /\ r \in Nat /\ r < z /\ a = z * q + r
  <2> HIDE DEF a
  <2> QED BY <1>1, DivMod
<1>3. Sectors(n) = q /\ LastBytes(n) = n - m
  BY DEF Sectors, LastBytes
<1> HIDE DEF q, r
<1>4. q > 0
  <2>1. q # 0
    BY <1>1, <1>2
  <2> QED BY <1>2, <2>1
<1>5. m = z * q - z /\ m \in Int
  BY <1>2
<1> DEFINE p == z * q
<1>6. p \in Int /\ m = p - z /\ n + z - 1 = p + r
  BY <1>2, <1>5
<1> HIDE DEF p, m, z
<1>7. n - m \in 1 .. z
  BY <1>2, <1>6 DEF z
<1>8. m + (n - m) = n
  BY <1>6 DEF z
<1> QED
  BY <1>2, <1>3, <1>4, <1>7, <1>8 DEF z, m
---------------------------------------------------------------------------
(* What the linker wrote and what split_kernel makes of it.                *)

\* The recursive function in Placed.
Follows(src, n, f) ==
  f = [k \in 1 .. n |->
        IF src.objs[k].kind = "hdr" THEN Assembled(src, "NVK_BASE")
        ELSE IF k = 1 THEN KernBase
        ELSE f[k - 1] + src.objs[k - 1].bytes]

\* There is such a function, however many objects are linked.
LEMMA FollowsExists ==
  ASSUME NEW src
  PROVE  \A n \in Nat : \E f : Follows(src, n, f)
<1> DEFINE Hdr0(k) == src.objs[k].kind = "hdr"
           Base0 == Assembled(src, "NVK_BASE")
           Size(k) == src.objs[k].bytes
<1>0. \A n, f : Follows(src, n, f) <=>
        f = [k \in 1 .. n |-> IF Hdr0(k) THEN Base0 ELSE IF k = 1 THEN KernBase
                              ELSE f[k - 1] + Size(k - 1)]
  BY DEF Follows
<1> HIDE DEF Hdr0, Base0, Size
<1> DEFINE Bad == {n \in Nat : ~\E f : Follows(src, n, f)}
<1>1. SUFFICES ASSUME Bad # {} PROVE FALSE
  OBVIOUS
<1>3. PICK m \in Bad : \A y \in Bad : m <= y
  <2> HIDE DEF Bad
  <2>1. Bad \in SUBSET Nat
    BY DEF Bad
  <2> QED
    BY <1>1, <2>1, Smallest
<1>4. m \in Nat /\ ~\E f : Follows(src, m, f)
  OBVIOUS
<1>5. m # 0
  <2> SUFFICES ASSUME m = 0 PROVE FALSE
    OBVIOUS
  <2> DEFINE f == [k \in 1 .. 0 |-> 0]
  <2>1. f = [k \in 1 .. 0 |-> IF Hdr0(k) THEN Base0 ELSE IF k = 1 THEN KernBase
                              ELSE f[k - 1] + Size(k - 1)]
    OBVIOUS
  <2>2. Follows(src, 0, f)
    BY <1>0, <2>1
  <2> QED
    BY <1>4, <2>2
<1>6. PICK f : Follows(src, m - 1, f)
  <2>1. m - 1 \in Nat /\ ~(m <= m - 1)
    BY <1>4, <1>5
  <2> QED
    BY <1>3, <2>1
<1> DEFINE g == [k \in 1 .. m |-> IF Hdr0(k) THEN Base0 ELSE IF k = 1 THEN KernBase
                                  ELSE f[k - 1] + Size(k - 1)]
<1>7. \A k \in 1 .. m - 1 : f[k] = g[k]
  BY <1>0, <1>4, <1>6
<1>8. g = [k \in 1 .. m |-> IF Hdr0(k) THEN Base0 ELSE IF k = 1 THEN KernBase
                            ELSE g[k - 1] + Size(k - 1)]
  <2>1. \A k \in 1 .. m : k # 1 => k - 1 \in 1 .. m - 1
    BY <1>4
  <2>3. g = [k \in 1 .. m |-> IF Hdr0(k) THEN Base0 ELSE IF k = 1 THEN KernBase
                              ELSE f[k - 1] + Size(k - 1)]
    OBVIOUS
  <2> HIDE DEF g
  <2>2. \A k \in 1 .. m : (IF Hdr0(k) THEN Base0 ELSE IF k = 1 THEN KernBase
                                  ELSE f[k - 1] + Size(k - 1))
                          = (IF Hdr0(k) THEN Base0 ELSE IF k = 1 THEN KernBase
                                  ELSE g[k - 1] + Size(k - 1))
    BY <1>7, <2>1
  <2> QED
    BY <2>2, <2>3
<1>9. Follows(src, m, g)
  <2> HIDE DEF g
  <2> QED BY <1>0, <1>8
<1> QED
  BY <1>4, <1>9

\* The signature is put where the assembler has NVK_BASE.
LEMMA HeaderAt ==
  ASSUME NEW src, Agree(src), NEW k \in DOMAIN src.objs, src.objs[k].kind = "hdr"
  PROVE  Placed(src)[k] = Assembled(src, "NVK_BASE")
<1> DEFINE n == Len(src.objs)
           at == CHOOSE f : Follows(src, n, f)
<1>1. n \in Nat /\ k \in 1 .. n
  BY LenProperties DEF Agree
<1>2. Follows(src, n, at)
  <2> HIDE DEF n
  <2> QED BY <1>1, FollowsExists
<1>3. Placed(src) = at
  BY DEF Placed, Follows
<1>6. at[k] = Assembled(src, "NVK_BASE")
  <2> HIDE DEF at
  <2> QED BY <1>1, <1>2 DEF Follows
<1> QED
  BY <1>3, <1>6

\* The largest of a set of positions in a sequence.
LEMMA MaxIs ==
  ASSUME NEW n \in Nat, NEW S \in SUBSET (1 .. n), S # {}
  PROVE  Max(S) \in S
<1> DEFINE R == {n - x : x \in S}
<1>1. R \in SUBSET Nat /\ R # {}
  <2>1. PICK y \in S : TRUE
    OBVIOUS
  <2>2. n - y \in R
    OBVIOUS
  <2>3. \A x \in S : n - x \in Nat
    OBVIOUS
  <2> QED BY <2>2, <2>3
<1>2. PICK m \in R : \A y \in R : m <= y
  <2> HIDE DEF R
  <2> QED BY <1>1, Smallest
<1>3. PICK x \in S : m = n - x
  OBVIOUS
<1>4. \A y \in S : x >= y
  <2> TAKE y \in S
  <2>1. n - y \in R
    OBVIOUS
  <2>2. m <= n - y
    BY <1>2, <2>1
  <2> QED BY <1>3, <2>2
<1> QED
  BY <1>4 DEF Max

\* The first byte of the signature is nowhere else.
LEMMA MagicAt ==
  ASSUME NEW src, Agree(src), NEW a \in KernBase .. Linked(src).highest,
         Linked(src).bytes[a] = Magic
  PROVE  a = Assembled(src, "NVK_BASE")
<1> DEFINE at == Placed(src)
           ks == {k \in Written(src) : a \in Within(src, at, k)}
           f == [b \in KernBase .. Linked(src).highest |->
                   ByteOf(src, at, {k \in Written(src) : b \in Within(src, at, k)}, b)]
<1>1. Linked(src).bytes = f
  BY DEF Linked, Output
<1>3. ByteOf(src, at, ks, a) = Magic
  BY <1>1
<1>4. a \in Nat /\ a > 0
  BY MapAssumption DEF Agree
<1>5. ks # {}
  BY <1>3 DEF ByteOf, Zero, Magic, Cell
<1>6. Max(ks) \in ks
  <2>1. Len(src.objs) \in Nat /\ ks \in SUBSET (1 .. Len(src.objs))
    BY LenProperties DEF Agree, Written
  <2> HIDE DEF ks
  <2> QED BY <1>5, <2>1, MaxIs
<1>7. PICK k \in DOMAIN src.objs : k = Max(ks)
  BY <1>6 DEF Written
<1>8. IF src.objs[k].kind = "hdr" THEN Cell("NVK", a - at[k]) = Magic ELSE Cell(src.id, a) = Magic
  <2> HIDE DEF ks
  <2> QED BY <1>3, <1>5, <1>7 DEF ByteOf
<1>9. src.objs[k].kind = "hdr"
  BY <1>4, <1>8 DEF Magic, Cell
<1>10. a - at[k] = 0
  BY <1>8, <1>9 DEF Magic, Cell
<1>11. at[k] \in Nat
  BY DEF Agree
<1> QED
  BY <1>4, <1>9, <1>10, <1>11, HeaderAt

---------------------------------------------------------------------------
(* The image in sectors.                                                   *)

Half(s) == Halves[s][1]
EndOf(s) == Out[s].symbols["kvol_end"]
Highest(s) == Out[s].highest
Byte(s, a) == Out[s].bytes[a]
BaseOf(s) == Assembled(Sources[s], "NVK_BASE")
RelayAt(s) == Assembled(Sources[s], "IO_NBREAD_TARGET")
RelayIn(s) == RelayAt(s) .. RelayAt(s) + RelayLen - 1
Filled(s) == BootData(Sources[s])
Vols(s) == Sectors(Len(Half(s).vol))
Nvs(s) == Sectors(Len(Half(s).nv))
LastOf(s) == LastBytes(Len(Half(s).nv))

\* A function on 1 .. n is a sequence of that length.
LEMMA ListIs ==
  ASSUME NEW S, NEW n \in Nat, NEW f \in [1 .. n -> S]
  PROVE  f \in Seq(S) /\ Len(f) = n /\ (n = 0 => f = <<>>)
<1>1. f = [i \in 1 .. n |-> f[i]] /\ \A i \in 1 .. n : f[i] \in S
  OBVIOUS
<1>2. f \in Seq(S)
  BY <1>1, IsASeq
<1>3. Len(f) \in Nat /\ DOMAIN f = 1 .. Len(f)
  BY <1>2, LenProperties
<1>4. Len(f) = n
  <2>1. 1 .. Len(f) = 1 .. n
    BY <1>3
  <2> QED BY <1>3, <2>1
<1>5. n = 0 => f = <<>>
  BY <1>2, <1>4, EmptySeq
<1> QED
  BY <1>2, <1>4, <1>5

\* Only what is in memmap.inc has a value for split_kernel.
LEMMA EquKnown ==
  ASSUME NEW words, NEW c, EvalEqu(words, c) # None
  PROVE  c \in DOMAIN words
<1> SUFFICES ASSUME c \notin DOMAIN words PROVE EvalEqu(words, c) = None
  OBVIOUS
<1> QED
  BY DEF EvalEqu

\* What the sources agree on.
LEMMA SourceOK ==
  ASSUME NEW s \in Names
  PROVE  Agree(Sources[s]) /\ InOrder(Sources[s]) /\ Out[s] = Linked(Sources[s])
BY SourceAssumption, MapAssumption, Tables DEF Names

\* The halves are what was linked, from KernBase to the marker and from NVK_BASE
\* as split_kernel reads it.
LEMMA HalvesAre ==
  ASSUME NEW s \in Names, Halves[s] # None
  PROVE  /\ EndOf(s) \in Nat /\ Highest(s) \in Nat /\ Half(s).base \in Nat
         /\ EndOf(s) < Half(s).base /\ Half(s).base <= Highest(s) /\ Highest(s) <= Top
         /\ Half(s).vol = [n \in 1 .. EndOf(s) - KernBase + 1 |-> Byte(s, KernBase + n - 1)]
         /\ Half(s).nv = [n \in 1 .. Highest(s) - Half(s).base + 1 |-> Byte(s, Half(s).base + n - 1)]
         /\ Byte(s, Half(s).base) = Magic
<1> DEFINE out == Out[s]
           words == ReadEqus(Sources[s])
           base == EvalEqu(words, "NVK_BASE")
           top == EvalEqu(words, "NVK_TOP")
           end == EndOf(s)
           vol == [n \in 1 .. end - KernBase + 1 |-> out.bytes[KernBase + n - 1]]
           nv == [n \in 1 .. out.highest - base[1] + 1 |-> out.bytes[base[1] + n - 1]]
<1>1. Agree(Sources[s]) /\ InOrder(Sources[s]) /\ out = Linked(Sources[s])
      /\ Halves[s] = Slices(Sources[s], out)
  BY SourceOK, Tables
<1>2. /\ base # None /\ "kvol_end" \in DOMAIN out.symbols
      /\ ~(end >= base[1]) /\ nv # <<>> /\ nv[1] = Magic
      /\ Halves[s] = <<[base |-> base[1], vol |-> vol, nv |-> nv]>>
  <2>1. Slices(Sources[s], out) # None
    BY <1>1
  <2> QED BY <1>1, <2>1 DEF Slices, EndOf
<1>3. /\ Half(s).base = base[1] /\ Half(s).vol = vol /\ Half(s).nv = nv
  <2> HIDE DEF vol, nv, base
  <2> QED BY <1>2 DEF Half
<1>4. "NVK_BASE" \in DOMAIN words
  BY <1>2, EquKnown
<1>5. base[1] \in Nat
  BY <1>1, <1>2, <1>4 DEF Agree, ReadEqus
<1>6. end \in Nat /\ out.highest \in Nat /\ out.highest <= Top
  BY <1>1, <1>2, ListedIs DEF Agree, InOrder, EndOf
<1> HIDE DEF base, end, out
<1>7. base[1] <= out.highest
  <2> SUFFICES ASSUME out.highest < base[1] PROVE FALSE
    BY <1>5, <1>6
  <2>1. 1 .. out.highest - base[1] + 1 = 1 .. 0
    BY <1>5, <1>6
  <2>2. nv \in [1 .. 0 -> {}]
    BY <2>1
  <2>3. nv = <<>>
    <3> HIDE DEF nv
    <3> QED BY <2>2, ListIs
  <2> QED BY <1>2, <2>3
<1>8. nv[1] = out.bytes[base[1]]
  BY <1>5, <1>6, <1>7
<1>9. Byte(s, base[1]) = Magic
  BY <1>2, <1>8 DEF Byte, out
<1>10. end < base[1]
  BY <1>2, <1>5, <1>6
<1> QED
  BY <1>3, <1>5, <1>6, <1>7, <1>9, <1>10 DEF out, end, Byte, Highest

\* No bytes, no sectors.
LEMMA NoSectors == Sectors(0) = 0
<1>1. SectorSize \in Nat /\ SectorSize > 0
  BY MapAssumption
<1> DEFINE z == SectorSize
           a == z - 1
           q == a \div z
           r == a % z
<1>2. a \in Nat /\ a < z
  BY <1>1
<1>3. r = a /\ a = z * q + r /\ q \in Nat
  <2> HIDE DEF a
  <2> QED BY <1>1, <1>2, DivMod
<1>4. z * q = 0
  <2> DEFINE p == z * q
  <2>1. a = p + a
    <3> HIDE DEF a, q, z, r
    <3> QED BY <1>3
  <2>2. p \in Int
    <3> HIDE DEF q
    <3> QED BY <1>1, <1>3
  <2> HIDE DEF p, a
  <2>3. p = 0
    BY <1>2, <2>1, <2>2
  <2> QED BY <2>3 DEF p
<1>5. q = 0
  <2> HIDE DEF q
  <2> QED BY <1>1, <1>3, <1>4
<1>6. 0 + z - 1 = a
  BY <1>1
<1> QED
  BY <1>5, <1>6 DEF Sectors

\* An image that can be installed.
Whole(s) == s \in Names /\ Halves[s] # None /\ Vols(s) # 0

LEMMA ImageIs ==
  ASSUME NEW s, Whole(s)
  PROVE  /\ EndOf(s) \in Nat /\ Highest(s) \in Nat /\ BaseOf(s) \in Nat
         /\ KernBase <= EndOf(s) /\ EndOf(s) < BaseOf(s) /\ BaseOf(s) <= Highest(s)
         /\ Highest(s) <= Top
         /\ Half(s).base = BaseOf(s)
         /\ Len(Half(s).vol) = EndOf(s) - KernBase + 1
         /\ Half(s).vol \in Seq({Byte(s, a) : a \in Int})
         /\ \A i \in 1 .. EndOf(s) - KernBase + 1 : Half(s).vol[i] = Byte(s, KernBase + i - 1)
         /\ Len(Half(s).nv) = Highest(s) - BaseOf(s) + 1
         /\ Half(s).nv \in Seq({Byte(s, a) : a \in Int})
         /\ \A i \in 1 .. Highest(s) - BaseOf(s) + 1 : Half(s).nv[i] = Byte(s, BaseOf(s) + i - 1)
<1> DEFINE h == Half(s)
           B == {Byte(s, a) : a \in Int}
           end == EndOf(s)
           high == Highest(s)
<1>1. s \in Names /\ Halves[s] # None /\ Vols(s) # 0
  BY DEF Whole
<1>2. /\ end \in Nat /\ high \in Nat /\ h.base \in Nat
      /\ end < h.base /\ h.base <= high /\ high <= Top
      /\ h.vol = [n \in 1 .. end - KernBase + 1 |-> Byte(s, KernBase + n - 1)]
      /\ h.nv = [n \in 1 .. high - h.base + 1 |-> Byte(s, h.base + n - 1)]
      /\ Byte(s, h.base) = Magic
  BY <1>1, HalvesAre
<1>3. KernBase \in Nat
  BY MapAssumption
<1> HIDE DEF h, end, high
<1>4. KernBase <= end
  <2> SUFFICES ASSUME end < KernBase PROVE FALSE
    BY <1>2, <1>3
  <2>1. 1 .. end - KernBase + 1 = 1 .. 0
    BY <1>2, <1>3
  <2>2. h.vol \in [1 .. 0 -> {}]
    BY <1>2, <2>1
  <2>3. Len(h.vol) = 0
    BY <2>2, ListIs
  <2> QED BY <1>1, <2>3, NoSectors DEF Vols, h
<1>5. h.vol \in Seq(B) /\ Len(h.vol) = end - KernBase + 1
  <2> DEFINE n == end - KernBase + 1
  <2>1. n \in Nat
    BY <1>2, <1>3, <1>4
  <2>2. h.vol \in [1 .. n -> B]
    <3>1. \A i \in 1 .. n : KernBase + i - 1 \in Int
      BY <1>3, <2>1
    <3> QED BY <1>2, <3>1
  <2> HIDE DEF n, B
  <2>3. h.vol \in Seq(B) /\ Len(h.vol) = n
    BY <2>1, <2>2, ListIs
  <2> QED BY <2>3 DEF n
<1>6. h.nv \in Seq(B) /\ Len(h.nv) = high - h.base + 1
  <2> DEFINE n == high - h.base + 1
  <2>1. n \in Nat
    BY <1>2
  <2>2. h.nv \in [1 .. n -> B]
    <3>1. \A i \in 1 .. n : h.base + i - 1 \in Int
      BY <1>2, <2>1
    <3> QED BY <1>2, <3>1
  <2> HIDE DEF n, B
  <2>3. h.nv \in Seq(B) /\ Len(h.nv) = n
    BY <2>1, <2>2, ListIs
  <2> QED BY <2>3 DEF n
<1>7. h.base = BaseOf(s)
  <2>1. Agree(Sources[s]) /\ Out[s] = Linked(Sources[s])
    BY <1>1, SourceOK
  <2>2. h.base \in KernBase .. Linked(Sources[s]).highest
    BY <1>2, <1>3, <1>4, <2>1 DEF high, Highest
  <2>3. Linked(Sources[s]).bytes[h.base] = Magic
    BY <1>2, <2>1 DEF Byte
  <2> QED BY <2>1, <2>2, <2>3, MagicAt DEF BaseOf
<1>8. \A i \in 1 .. end - KernBase + 1 : h.vol[i] = Byte(s, KernBase + i - 1)
  BY <1>2
<1>9. \A i \in 1 .. high - h.base + 1 : h.nv[i] = Byte(s, h.base + i - 1)
  BY <1>2
<1> QED
  BY <1>2, <1>4, <1>5, <1>6, <1>7, <1>8, <1>9 DEF h, end, high

\* Whole sectors.
LEMMA Times ==
  ASSUME NEW j \in Int, NEW k \in Int
  PROVE  /\ j * SectorSize \in Int
         /\ (j + k) * SectorSize = j * SectorSize + k * SectorSize
         /\ (j + 1) * SectorSize = j * SectorSize + SectorSize
         /\ (j - 1) * SectorSize = j * SectorSize - SectorSize
         /\ j <= k => j * SectorSize <= k * SectorSize
         /\ j >= 0 => j * SectorSize >= 0
<1> DEFINE z == SectorSize
<1>1. z \in Nat /\ z > 0
  BY MapAssumption
<1>2. j * z \in Int
  BY <1>1
<1>3. (j + k) * z = j * z + k * z
  BY <1>1
<1>4. (j + 1) * z = j * z + z
  BY <1>1
<1>5. (j - 1) * z = j * z - z
  BY <1>1
<1>6. j <= k => j * z <= k * z
  <2> SUFFICES ASSUME j <= k PROVE j * z <= k * z
    OBVIOUS
  <2> DEFINE d == k - j
  <2>1. d \in Nat /\ k = j + d
    OBVIOUS
  <2> HIDE DEF d
  <2>2. d * z \in Nat
    BY <1>1, <2>1
  <2>3. (j + d) * z = j * z + d * z
    BY <1>1, <2>1
  <2> DEFINE p == j * z
             q == d * z
  <2>4. p \in Int /\ q \in Nat /\ k * z = p + q
    BY <1>2, <2>1, <2>2, <2>3
  <2> HIDE DEF p, q
  <2>5. p <= p + q
    BY <2>4
  <2> QED BY <2>4, <2>5 DEF p
<1>7. j >= 0 => j * z >= 0
  BY <1>1
<1> QED
  BY <1>2, <1>3, <1>4, <1>5, <1>6, <1>7

\* Sectors and the bytes of the last, by CountsRight.
LEMMA CountsAre ==
  ASSUME NEW n \in Nat, n > 0
  PROVE  /\ LastBytes(n) \in 1 .. SectorSize /\ Sectors(n) \in Nat /\ Sectors(n) > 0
         /\ n = Sectors(n) * SectorSize - SectorSize + LastBytes(n)
         /\ n <= Sectors(n) * SectorSize
<1> DEFINE q == Sectors(n)
           l == LastBytes(n)
           p == q * SectorSize
<1>0. SectorSize \in Nat /\ SectorSize > 0
  BY MapAssumption
<1>1. l \in 1 .. SectorSize /\ q \in Nat /\ q > 0 /\ (q - 1) * SectorSize + l = n
  BY <1>0, CountsRight
<1>2. (q - 1) * SectorSize = p - SectorSize /\ p \in Int
  <2> HIDE DEF q
  <2> QED BY <1>1, Times DEF q
<1> HIDE DEF q, l, p
<1>3. n = p - SectorSize + l
  BY <1>0, <1>1, <1>2
<1>4. n <= p
  BY <1>0, <1>1, <1>2, <1>3
<1> QED
  BY <1>1, <1>3, <1>4 DEF q, l, p

\* A half padded to whole sectors begins with the half.
LEMMA PaddedIs ==
  ASSUME NEW S, NEW q \in Seq(S), Len(q) > 0
  PROVE  /\ PaddedToSector(q) \in Seq(S \cup {Zero})
         /\ Len(PaddedToSector(q)) = Sectors(Len(q)) * SectorSize
         /\ \A i \in 1 .. Len(q) : PaddedToSector(q)[i] = q[i]
<1> DEFINE n == Len(q)
           m == Sectors(n) * SectorSize
           f == [i \in 1 .. m |-> IF i <= n THEN q[i] ELSE Zero]
           T == S \cup {Zero}
<1>1. n \in Nat /\ \A i \in 1 .. n : q[i] \in S
  BY ElementOfSeq, LenProperties
<1>2. m \in Nat /\ n <= m
  <2>1. Sectors(n) \in Nat /\ n <= m
    BY <1>1, CountsAre
  <2>2. m \in Int
    <3> DEFINE k == Sectors(n)
    <3> HIDE DEF k
    <3>1. k * SectorSize \in Int
      BY <2>1, Times DEF k
    <3> QED BY <3>1 DEF k
  <2> HIDE DEF m, n
  <2> QED BY <1>1, <2>1, <2>2
<1>3. PaddedToSector(q) = f
  BY DEF PaddedToSector
<1> HIDE DEF n, m
<1>4. f \in [1 .. m -> T]
  <2>1. \A i \in 1 .. m : i <= n => i \in 1 .. n
    BY <1>1
  <2> QED BY <1>1, <2>1
<1>5. \A i \in 1 .. n : f[i] = q[i]
  BY <1>1, <1>2
<1> HIDE DEF f, T
<1>6. f \in Seq(T) /\ Len(f) = m
  BY <1>2, <1>4, ListIs
<1> QED
  BY <1>3, <1>5, <1>6 DEF n, m, T

\* The bytes of an image behind krnboot.
Bytes(s) == PaddedToSector(Half(s).vol) \o Half(s).nv

LEMMA BytesAre ==
  ASSUME NEW s, Whole(s)
  PROVE  /\ Bytes(s) \in Seq({Byte(s, a) : a \in Int} \cup {Zero})
         /\ Vols(s) \in Nat /\ Vols(s) > 0 /\ Nvs(s) \in Nat /\ Nvs(s) > 0
         /\ Len(Bytes(s)) = Vols(s) * SectorSize + (Highest(s) - BaseOf(s) + 1)
         /\ EndOf(s) - KernBase + 1 <= Vols(s) * SectorSize
         /\ Vols(s) * SectorSize < EndOf(s) - KernBase + 1 + SectorSize
         /\ LastOf(s) \in 1 .. SectorSize
         /\ Highest(s) - BaseOf(s) + 1 = Nvs(s) * SectorSize - SectorSize + LastOf(s)
         /\ \A i \in 1 .. EndOf(s) - KernBase + 1 : Bytes(s)[i] = Byte(s, KernBase + i - 1)
         /\ \A i \in 1 .. Highest(s) - BaseOf(s) + 1 :
              Bytes(s)[Vols(s) * SectorSize + i] = Byte(s, BaseOf(s) + i - 1)
<1> DEFINE B == {Byte(s, a) : a \in Int}
           v == Half(s).vol
           w == Half(s).nv
           p == PaddedToSector(v)
           lv == EndOf(s) - KernBase + 1
           lw == Highest(s) - BaseOf(s) + 1
           V == Vols(s) * SectorSize
<1>1. /\ EndOf(s) \in Nat /\ Highest(s) \in Nat /\ BaseOf(s) \in Nat /\ KernBase \in Nat
      /\ KernBase <= EndOf(s) /\ BaseOf(s) <= Highest(s)
      /\ v \in Seq(B) /\ Len(v) = lv
      /\ w \in Seq(B) /\ Len(w) = lw
      /\ \A i \in 1 .. lv : v[i] = Byte(s, KernBase + i - 1)
      /\ \A i \in 1 .. lw : w[i] = Byte(s, BaseOf(s) + i - 1)
  <2> HIDE DEF B
  <2> QED BY ImageIs, MapAssumption DEF B
<1>2. lv \in Nat /\ lv > 0 /\ lw \in Nat /\ lw > 0
  <2> HIDE DEF v, w, B
  <2> QED BY <1>1
<1>3. /\ Vols(s) \in Nat /\ Vols(s) > 0 /\ lv <= V
      /\ LastBytes(lv) \in 1 .. SectorSize /\ lv = V - SectorSize + LastBytes(lv)
  <2>1. Vols(s) = Sectors(lv)
    BY <1>1 DEF Vols
  <2> HIDE DEF lv
  <2> QED BY <1>2, <2>1, CountsAre
<1>4. /\ Nvs(s) \in Nat /\ Nvs(s) > 0 /\ LastOf(s) \in 1 .. SectorSize
      /\ lw = Nvs(s) * SectorSize - SectorSize + LastOf(s)
  <2>1. Nvs(s) = Sectors(lw) /\ LastOf(s) = LastBytes(lw)
    BY <1>1 DEF Nvs, LastOf
  <2> HIDE DEF lw
  <2> QED BY <1>2, <2>1, CountsAre
<1>5. V \in Int
  BY <1>3, Times
<1>6. V < lv + SectorSize
  <2>1. SectorSize \in Nat
    BY MapAssumption
  <2> DEFINE l == LastBytes(lv)
  <2>2. l \in 1 .. SectorSize /\ lv = V - SectorSize + l
    BY <1>3
  <2> HIDE DEF l, lv, V
  <2> QED BY <1>2, <1>5, <2>1, <2>2
<1>7. /\ p \in Seq(B \cup {Zero}) /\ Len(p) = V
      /\ \A i \in 1 .. lv : p[i] = v[i]
  <2> HIDE DEF B, v, lv
  <2>1. Len(v) > 0 /\ Sectors(Len(v)) = Vols(s)
    BY <1>1, <1>2 DEF Vols, v
  <2> QED BY <1>1, <2>1, PaddedIs
<1>8. w \in Seq(B \cup {Zero})
  <2> HIDE DEF B, w
  <2> QED BY <1>1, SeqMonotonic
<1> HIDE DEF p, w, B, lv, lw, V, v
<1>9. /\ p \o w \in Seq(B \cup {Zero}) /\ Len(p \o w) = V + lw
      /\ \A i \in 1 .. V + lw : (p \o w)[i] = IF i <= V THEN p[i] ELSE w[i - V]
  BY <1>1, <1>7, <1>8, ConcatProperties
<1>10. Bytes(s) = p \o w
  BY DEF Bytes, p, v, w
<1>11. \A i \in 1 .. lv : Bytes(s)[i] = Byte(s, KernBase + i - 1)
  <2> TAKE i \in 1 .. lv
  <2>1. i \in 1 .. V + lw /\ i <= V
    BY <1>2, <1>3, <1>5
  <2> QED BY <1>1, <1>7, <1>9, <1>10, <2>1
<1>12. \A i \in 1 .. lw : Bytes(s)[V + i] = Byte(s, BaseOf(s) + i - 1)
  <2> TAKE i \in 1 .. lw
  <2>1. V >= 0
    BY <1>2, <1>3, <1>5
  <2>2. V + i \in 1 .. V + lw /\ ~(V + i <= V) /\ (V + i) - V = i
    BY <1>2, <1>5, <2>1
  <2> QED BY <1>1, <1>9, <1>10, <2>2
<1> QED
  BY <1>3, <1>4, <1>6, <1>9, <1>10, <1>11, <1>12 DEF B, lv, lw, V

\* The card has the image of s.
Installed(s) == Whole(s) /\ card = <<Image(s, Half(s))>>

LEMMA OnCard ==
  ASSUME NEW s, Installed(s)
  PROVE  /\ card # None /\ card[1].of = s /\ card[1].bytes = Bytes(s)
         /\ Base = BaseOf(s) /\ Relay = RelayIn(s)
         /\ ProgBase = Assembled(Sources[s], "PROG_BASE")
         /\ Hdr.vol = Vols(s) /\ Hdr.nv = Nvs(s) /\ Hdr.last = LastOf(s)
BY DEF Installed, Image, HeaderWords, None, Bytes, Base, Relay, ProgBase, Hdr,
       BaseOf, RelayAt, RelayIn, Vols, Nvs, LastOf

\* A sector of the card, as long as it is within the image.
LEMMA SectorIs ==
  ASSUME NEW s, Installed(s), NEW j \in Nat, NEW n \in 1 .. SectorSize,
         j * SectorSize + n <= Len(Bytes(s))
  PROVE  Sector(KrnSectors + 1 + j)[n] = Bytes(s)[j * SectorSize + n]
<1> DEFINE S == {Byte(s, a) : a \in Int} \cup {Zero}
           q == Bytes(s)
           b == PaddedToSector(q)
           from == j * SectorSize
<1>1. q \in Seq(S) /\ Whole(s)
  BY BytesAre DEF Installed
<1>2. from \in Nat
  BY Times
<1>3. Len(q) \in Nat
  <2> HIDE DEF q, S
  <2> QED BY <1>1, LenProperties
<1>4. from + n \in 1 .. Len(q)
  <2> HIDE DEF q, from
  <2>1. n \in Nat /\ n > 0
    OBVIOUS
  <2>2. from + n <= Len(q)
    BY DEF q, from
  <2> QED BY <1>2, <1>3, <2>1, <2>2
<1>5. /\ b \in Seq(S \cup {Zero}) /\ Len(b) = Sectors(Len(q)) * SectorSize
      /\ b[from + n] = q[from + n] /\ Len(q) <= Len(b)
  <2> HIDE DEF q, S, from
  <2>1. Len(q) > 0
    BY <1>3, <1>4
  <2>2. Len(q) <= Sectors(Len(q)) * SectorSize
    BY <1>3, <2>1, CountsAre
  <2> QED BY <1>1, <1>4, <2>1, <2>2, PaddedIs
<1>6. Len(b) \in Nat /\ DOMAIN b = 1 .. Len(b)
  <2> HIDE DEF b, S
  <2> QED BY <1>5, LenProperties
<1>7. from + n \in DOMAIN b
  <2> HIDE DEF b, q, from
  <2> QED BY <1>3, <1>4, <1>5, <1>6
<1>9. card[1].bytes = q
  BY OnCard
<1>10. Sector(KrnSectors + 1 + j)[n] = IF from + n \in DOMAIN b THEN b[from + n] ELSE Cell("disk", 0)
  <2> DEFINE L == KrnSectors + 1 + j
             g == (L - KrnSectors - 1) * SectorSize
             d == PaddedToSector(card[1].bytes)
  <2>1. Sector(L)[n] = IF g + n \in DOMAIN d THEN d[g + n] ELSE Cell("disk", 0)
    <3> HIDE DEF L
    <3> QED BY DEF Sector
  <2>2. L - KrnSectors - 1 = j
    BY MapAssumption
  <2>3. g = from
    BY <2>2
  <2>4. d = b
    BY <1>9
  <2> HIDE DEF b, g, d, from, L
  <2> QED BY <2>1, <2>3, <2>4 DEF L
<1> QED
  BY <1>5, <1>7, <1>10

\* The sectors of the two halves.
LEMMA VolSector ==
  ASSUME NEW s, Installed(s), NEW j \in Nat, NEW n \in 1 .. SectorSize,
         KernBase + j * SectorSize + n - 1 <= EndOf(s)
  PROVE  Sector(KrnSectors + 1 + j)[n] = Byte(s, KernBase + j * SectorSize + n - 1)
<1> DEFINE p == j * SectorSize
           i == p + n
           V == Vols(s) * SectorSize
<1>1. p \in Nat /\ KernBase \in Nat
  BY Times, MapAssumption
<1>2. /\ EndOf(s) \in Nat /\ Highest(s) \in Nat /\ BaseOf(s) \in Nat /\ BaseOf(s) <= Highest(s)
      /\ Len(Bytes(s)) = V + (Highest(s) - BaseOf(s) + 1)
      /\ EndOf(s) - KernBase + 1 <= V /\ Vols(s) \in Nat
      /\ \A k \in 1 .. EndOf(s) - KernBase + 1 : Bytes(s)[k] = Byte(s, KernBase + k - 1)
  BY ImageIs, BytesAre DEF Installed
<1>3. V \in Int
  BY <1>2, Times
<1>4. KernBase + p + n - 1 <= EndOf(s)
  OBVIOUS
<1> HIDE DEF p, V
<1>5. i \in 1 .. EndOf(s) - KernBase + 1 /\ i <= Len(Bytes(s)) /\ KernBase + i - 1 = KernBase + p + n - 1
  BY <1>1, <1>2, <1>3, <1>4
<1>6. Sector(KrnSectors + 1 + j)[n] = Bytes(s)[i]
  BY <1>5, SectorIs DEF p
<1>7. Bytes(s)[i] = Byte(s, KernBase + i - 1)
  <2> HIDE DEF i
  <2> QED BY <1>2, <1>5
<1> QED
  BY <1>5, <1>6, <1>7 DEF p

LEMMA NvSector ==
  ASSUME NEW s, Installed(s), NEW j \in Nat, NEW n \in 1 .. SectorSize,
         BaseOf(s) + j * SectorSize + n - 1 <= Highest(s)
  PROVE  Sector(KrnSectors + 1 + Vols(s) + j)[n] = Byte(s, BaseOf(s) + j * SectorSize + n - 1)
<1> DEFINE p == j * SectorSize
           i == p + n
           V == Vols(s) * SectorSize
           m == Vols(s) + j
<1>1. p \in Nat
  BY Times
<1>2. /\ Highest(s) \in Nat /\ BaseOf(s) \in Nat /\ BaseOf(s) <= Highest(s)
      /\ Len(Bytes(s)) = V + (Highest(s) - BaseOf(s) + 1) /\ Vols(s) \in Nat
      /\ \A k \in 1 .. Highest(s) - BaseOf(s) + 1 : Bytes(s)[V + k] = Byte(s, BaseOf(s) + k - 1)
  BY ImageIs, BytesAre DEF Installed
<1>3. V \in Int /\ m \in Nat /\ m * SectorSize = V + p
  <2> DEFINE v == Vols(s)
  <2>1. v \in Int /\ j \in Int /\ m \in Nat
    BY <1>2
  <2> HIDE DEF v
  <2>2. v * SectorSize \in Int /\ (v + j) * SectorSize = v * SectorSize + j * SectorSize
    BY <2>1, Times
  <2> QED BY <2>1, <2>2 DEF v
<1>4. BaseOf(s) + p + n - 1 <= Highest(s)
  OBVIOUS
<1>5. KrnSectors + 1 + Vols(s) + j = KrnSectors + 1 + m
  BY <1>2, MapAssumption
<1> HIDE DEF p, V, m
<1>6. /\ i \in 1 .. Highest(s) - BaseOf(s) + 1 /\ m * SectorSize + n = V + i
      /\ V + i <= Len(Bytes(s)) /\ BaseOf(s) + i - 1 = BaseOf(s) + p + n - 1
  BY <1>1, <1>2, <1>3, <1>4
<1>7. Sector(KrnSectors + 1 + m)[n] = Bytes(s)[V + i]
  <2> HIDE DEF i
  <2>1. m * SectorSize + n <= Len(Bytes(s))
    BY <1>6
  <2> QED BY <1>3, <1>6, <2>1, SectorIs
<1>8. Bytes(s)[V + i] = Byte(s, BaseOf(s) + i - 1)
  <2> HIDE DEF i
  <2> QED BY <1>2, <1>6
<1> QED
  BY <1>5, <1>6, <1>7, <1>8 DEF p

---------------------------------------------------------------------------
(* Where things are.                                                       *)

\* The end of the volatile sectors, and of krnboot, with what passed the check.
VolEndOf(s) == KernBase + Vols(s) * SectorSize - 1

LEMMA MapIs ==
  ASSUME NEW s, Whole(s)
  PROVE  /\ KernBase \in Nat /\ KernBase > 0 /\ SectorSize \in Nat /\ SectorSize > 0 /\ Top \in Nat
         /\ KrnLoad \in Nat /\ Scratch \in Nat /\ KrnEnd \in Nat
         /\ KrnLoad <= Scratch /\ Scratch + SectorSize = KrnEnd
         /\ EndOf(s) \in Nat /\ Highest(s) \in Nat /\ BaseOf(s) \in Nat /\ RelayAt(s) \in Nat
         /\ KernBase <= EndOf(s) /\ EndOf(s) <= VolEndOf(s) /\ VolEndOf(s) \in Nat
         /\ VolEndOf(s) < EndOf(s) + SectorSize
         /\ EndOf(s) < BaseOf(s) /\ BaseOf(s) <= Highest(s) /\ Highest(s) <= Top
         /\ VolEndOf(s) <= Top
         /\ RelayAt(s) + SectorSize < KrnLoad /\ KrnEnd + 1 < BaseOf(s)
         /\ RelayLen \in Nat /\ RelayAt(s) + RelayLen <= KrnLoad
<1>1. /\ RelayLen \in Nat /\ KernBase \in Nat /\ KernBase > 0 /\ SectorSize \in Nat /\ SectorSize > 0 /\ Top \in Nat
      /\ KrnLoad \in Nat /\ KrnSectors \in Nat /\ KrnSectors > 0
  BY MapAssumption
<1>2. /\ KrnEnd \in Nat /\ Scratch \in Nat /\ KrnLoad <= Scratch /\ Scratch + SectorSize = KrnEnd
  <2> DEFINE p == (KrnSectors - 1) * SectorSize
             q == KrnSectors * SectorSize
  <2>1. p \in Int /\ q \in Int /\ p >= 0 /\ p = q - SectorSize
    <3>1. KrnSectors - 1 \in Int /\ KrnSectors \in Int /\ KrnSectors - 1 >= 0
      BY <1>1
    <3> QED BY <3>1, Times
  <2>2. Scratch = KrnLoad + p /\ KrnEnd = KrnLoad + q
    BY DEF Scratch, KrnEnd
  <2> HIDE DEF p, q
  <2> QED BY <1>1, <2>1, <2>2
<1>3. /\ EndOf(s) \in Nat /\ Highest(s) \in Nat /\ BaseOf(s) \in Nat
      /\ KernBase <= EndOf(s) /\ EndOf(s) < BaseOf(s) /\ BaseOf(s) <= Highest(s) /\ Highest(s) <= Top
  BY ImageIs
<1>4. /\ RelayAt(s) \in Nat /\ RelayAt(s) + SectorSize < KrnLoad /\ KrnEnd + 1 < BaseOf(s)
      /\ RelayAt(s) + RelayLen <= KrnLoad
      /\ BaseOf(s) + SectorSize <= Top + 1
  <2>1. s \in Names
    BY DEF Whole
  <2> QED BY <2>1, SourceOK DEF InOrder, RelayAt, BaseOf
<1>5. EndOf(s) <= VolEndOf(s) /\ VolEndOf(s) \in Nat /\ VolEndOf(s) < EndOf(s) + SectorSize
  <2> DEFINE p == Vols(s) * SectorSize
  <2>1. Vols(s) \in Nat /\ EndOf(s) - KernBase + 1 <= p /\ p < EndOf(s) - KernBase + 1 + SectorSize
    BY BytesAre
  <2>2. p \in Int
    BY <2>1, Times
  <2>3. VolEndOf(s) = KernBase + p - 1
    BY DEF VolEndOf
  <2> HIDE DEF p
  <2> QED BY <1>1, <1>3, <2>1, <2>2, <2>3
<1>6. VolEndOf(s) <= Top
  BY <1>1, <1>3, <1>4, <1>5
<1> QED
  BY <1>1, <1>2, <1>3, <1>4, <1>5, <1>6

\* What passed the check leaves what krnboot sets up, krnboot and its stack alone.
LEMMA PassedIs ==
  ASSUME NEW s, Whole(s), Passes[s]
  PROVE  /\ EndOf(s) < RelayAt(s) /\ VolEndOf(s) + 2 < KrnLoad
         /\ Assembled(Sources[s], "NVK_TOP") \in Nat
         /\ Highest(s) <= Assembled(Sources[s], "NVK_TOP")
<1> DEFINE src == Sources[s]
           out == Out[s]
<1>1. s \in Names /\ Agree(src) /\ InOrder(src) /\ out = Linked(src) /\ MarginOK(src, out)
  <2>1. s \in Names
    BY DEF Whole
  <2> QED BY <2>1, SourceOK, Tables
<1>2. "IO_NBREAD_TARGET" \in Relative(src)
  BY <1>1 DEF MarginOK, FloorClear, InOrder
<1>3. EndOf(s) < RelayAt(s)
  <2>1. LaidOut(src, out)
    BY <1>1, MarginRight
  <2>2. Assembled(src, "IO_NBREAD_TARGET") > out.symbols["kvol_end"]
    BY <1>2, <2>1 DEF LaidOut
  <2> HIDE DEF src, out
  <2>3. RelayAt(s) > EndOf(s)
    BY <2>2 DEF RelayAt, EndOf, src, out
  <2> QED BY <2>3, MapIs
<1>4. Assembled(src, "NVK_TOP") \in Nat /\ out.highest <= Assembled(src, "NVK_TOP")
  BY <1>1 DEF MarginOK, Known, UnderCeiling, Agree
<1> QED
  BY <1>3, <1>4, MapIs DEF Highest

\* A remainder of a negative number.
LEMMA ModBelow ==
  ASSUME NEW p \in Nat, p > 0, NEW x \in Int, x < 0, x >= -p
  PROVE  x % p = x + p
<1> DEFINE q == x \div p
           r == x % p
<1>1. q \in Int
  BY SMT
<1>2. r \in Int /\ 0 <= r /\ r < p
  BY SMT
<1>3. x = p * q + r
  BY SMT
<1> HIDE DEF q, r
<1> DEFINE d == p * q
<1>4. d \in Int /\ x = d + r
  BY <1>1, <1>3
<1>5. q < 0
  <2> SUFFICES ASSUME q >= 0 PROVE FALSE
    BY <1>1
  <2>1. d >= 0
    BY <1>1
  <2> HIDE DEF d
  <2> QED BY <1>2, <1>4, <2>1
<1>6. q > -2
  <2> SUFFICES ASSUME q <= -2 PROVE FALSE
    BY <1>1
  <2> DEFINE e == -2 - q
  <2>1. e \in Nat /\ q = -2 - e
    BY <1>1
  <2> HIDE DEF e
  <2>2. p * e \in Nat /\ d = -2 * p - p * e
    BY <2>1
  <2> DEFINE f == p * e
  <2>3. f \in Nat /\ d = -2 * p - f
    BY <2>2
  <2> HIDE DEF d, f
  <2>4. x < -2 * p + p
    BY <1>2, <1>4, <2>3
  <2>5. -2 * p + p = -p
    OBVIOUS
  <2> QED BY <2>4, <2>5
<1>7. q = -1
  BY <1>1, <1>5, <1>6
<1>8. d = -p
  BY <1>7
<1> HIDE DEF d
<1> QED
  BY <1>2, <1>4, <1>8 DEF r

\* What Write does to a memory m with ROM from rom on.
Reach(m, a, n) ==
  LET at == [b \in DOMAIN m |-> (b - a) % (Top + 1)]
  IN  {b \in DOMAIN m : at[b] < n}
Over(m, a, bytes, n, rom) ==
  LET at == [b \in DOMAIN m |-> (b - a) % (Top + 1)]
      to == {b \in DOMAIN m : at[b] < n}
  IN  [b \in DOMAIN m |-> IF b \in to /\ ~(b >= rom) THEN bytes[at[b] + 1] ELSE m[b]]

\* It is what it should be.
Only(m, a, bytes, n, rom) ==
  /\ DOMAIN Over(m, a, bytes, n, rom) = 0 .. Top
  /\ Reach(m, a, n) = a .. a + n - 1
  /\ \A b \in 0 .. Top : b \notin a .. a + n - 1 \/ b >= rom => Over(m, a, bytes, n, rom)[b] = m[b]
  /\ \A b \in a .. a + n - 1 : ~(b >= rom) => Over(m, a, bytes, n, rom)[b] = bytes[b - a + 1]

\* Bytes written within memory.
LEMMA WriteDoes ==
  ASSUME NEW m, DOMAIN m = 0 .. Top, NEW a \in Nat, NEW n \in Nat, n > 0, a + n - 1 <= Top,
         NEW bytes, NEW rom
  PROVE  Only(m, a, bytes, n, rom)
<1> DEFINE at == [b \in DOMAIN m |-> (b - a) % (Top + 1)]
           to == {b \in DOMAIN m : at[b] < n}
<1>1. Top \in Nat
  BY MapAssumption
<1>2. ASSUME NEW b \in 0 .. Top
      PROVE  /\ b >= a => (b - a) % (Top + 1) = b - a
             /\ b < a => (b - a) % (Top + 1) = b - a + (Top + 1)
  <2> DEFINE p == Top + 1
             x == b - a
  <2>1. p \in Nat /\ p > 0 /\ x \in Int /\ x < p
    BY <1>1
  <2>2. x >= 0 => x \in Nat
    OBVIOUS
  <2>3. x >= -p
    BY <1>1
  <2> HIDE DEF p, x
  <2>4. x >= 0 => x % p = x
    BY <2>1, <2>2, DivMod
  <2>5. x < 0 => x % p = x + p
    BY <2>1, <2>3, ModBelow
  <2>6. (b >= a => x >= 0) /\ (b < a => x < 0)
    BY DEF x
  <2> QED BY <2>4, <2>5, <2>6 DEF p, x
<1>3. ASSUME NEW b \in 0 .. Top
      PROVE  /\ b \in to <=> b \in a .. a + n - 1
             /\ b \in to => at[b] = b - a
  <2> DEFINE v == (b - a) % (Top + 1)
  <2>1. at[b] = v /\ (b \in to <=> v < n)
    OBVIOUS
  <2>2. (b >= a => v = b - a) /\ (b < a => v = b - a + (Top + 1))
    BY <1>2
  <2> HIDE DEF v, at, to
  <2> QED BY <1>1, <2>1, <2>2
<1>4. to = a .. a + n - 1
  <2>1. \A b \in a .. a + n - 1 : b \in 0 .. Top
    BY <1>1
  <2>2. \A b \in to : b \in 0 .. Top
    OBVIOUS
  <2> HIDE DEF to, at
  <2> QED BY <1>3, <2>1, <2>2
<1>5. /\ Over(m, a, bytes, n, rom) =
           [b \in DOMAIN m |-> IF b \in to /\ ~(b >= rom) THEN bytes[at[b] + 1] ELSE m[b]]
      /\ Reach(m, a, n) = to
  BY DEF Over, Reach
<1> DEFINE w == Over(m, a, bytes, n, rom)
<1> HIDE DEF at, to, w
<1>6. DOMAIN w = 0 .. Top
  BY <1>5 DEF w
<1>7. \A b \in 0 .. Top : b \notin a .. a + n - 1 \/ b >= rom => w[b] = m[b]
  BY <1>4, <1>5 DEF w
<1>8. \A b \in a .. a + n - 1 : ~(b >= rom) => w[b] = bytes[b - a + 1]
  <2> SUFFICES ASSUME NEW b \in a .. a + n - 1, ~(b >= rom) PROVE w[b] = bytes[b - a + 1]
    OBVIOUS
  <2>1. b \in 0 .. Top
    BY <1>1
  <2>2. at[b] = b - a /\ b \in to
    BY <1>3, <1>4, <2>1
  <2> QED BY <1>5, <2>1, <2>2 DEF w
<1> QED
  BY <1>4, <1>5, <1>6, <1>7, <1>8 DEF w, Only

---------------------------------------------------------------------------
(* What holds while krnboot runs: s is the sources of the image on the     *)
(* card.  Its loops, as far as they have come; the bytes it has put in     *)
(* memory; what it has written to; and, with sources that passed the check *)
(* on a machine that is ROM or RAM from NVK_BASE on, that it goes on.      *)

Loops(s) ==
  /\ pc = "vol" => \E k \in 0 .. Vols(s) :
       /\ cpu.ra = KernBase + k * SectorSize /\ cpu.rc = Vols(s) - k
       /\ cpu.r7 = KrnSectors + 1 + k
  /\ pc = "test" => cpu.r7 = KrnSectors + 1 + Vols(s)
  /\ pc \in {"nv", "last"} => ~IsRom(BaseOf(s)) /\ \E k \in 0 .. Nvs(s) - 1 :
       /\ cpu.ra = BaseOf(s) + k * SectorSize /\ cpu.rc = Nvs(s) - 1 - k
       /\ cpu.r7 = KrnSectors + 1 + Vols(s) + k
  /\ pc = "last" => cpu.rc = 0

\* The bytes loaded so far.
VolIn(s) ==
  \A a \in KernBase .. EndOf(s) :
    (pc = "vol" => a < cpu.ra) /\ (pc = "running" => a \notin Filled(s)) => mem[a] = Byte(s, a)
NvIn(s) ==
  \A a \in BaseOf(s) .. Highest(s) : (pc \in {"nv", "last"} => a < cpu.ra) => mem[a] = Byte(s, a)
LastAt(s) == BaseOf(s) + (Nvs(s) - 1) * SectorSize
Contents(s) ==
  /\ pc \in {"vol", "test", "wait", "nv", "last", "sig", "init", "running"} /\ Passes[s] => VolIn(s)
  /\ pc \in {"nv", "last", "sig", "init", "running"} /\ ~IsRom(BaseOf(s)) =>
       NvIn(s) \/ (busy /\ pc # "running")
  /\ pc = "last" => \A n \in 1 .. LastOf(s) : mem[Scratch + n - 1] = Byte(s, LastAt(s) + n - 1)
  /\ pc = "running" => \A a \in RelayIn(s) : mem[a] = Cell("boot", 0)

Writable(s) ==
  (KernBase .. VolEndOf(s)) \cup (BaseOf(s) .. Highest(s))
    \cup InBuffer \cup RelayIn(s)
Touches(s) ==
  /\ pc # "off" => touched \subseteq Writable(s)
  /\ pc \in {"vol", "test", "wait"} => touched \subseteq KernBase .. VolEndOf(s)

Going == {"vol", "test", "nv", "last", "sig", "init"}
Good(s) == Passes[s] /\ (IsRom(BaseOf(s)) \/ machine.rom > Assembled(Sources[s], "NVK_TOP"))
GoesOn(s) ==
  /\ pc # "hung" /\ (pc \in Going => ~busy) /\ (pc \in Going \cup {"wait"} => Intact)
  /\ pc \in {"vol", "test"} => cpu.sp = KrnLoad - 1
  /\ pc \in {"nv", "last", "sig", "init"} => cpu.sp \in Nat /\ cpu.sp > KrnEnd /\ cpu.sp < BaseOf(s)
WaitsAt(s) ==
  pc = "wait" =>
    /\ IsRom(BaseOf(s))
    /\ cpu.sp = IF machine.ramtop < BaseOf(s) THEN machine.ramtop ELSE Scratch + SectorSize - 1

Boot(s) == Loops(s) /\ Contents(s) /\ Touches(s) /\ (Good(s) => GoesOn(s)) /\ WaitsAt(s)
Frame ==
  DOMAIN mem = 0 .. Top /\ machine \in Machines /\ DOMAIN cpu = {"ra", "rc", "r7", "sp"}

\* What is burned is there, and stays.
RomKept == \A b \in 0 .. Top : IsRom(b) => mem'[b] = mem[b]
Same == card' = card /\ machine' = machine

\* Nothing is asked of a machine that is off.
LEMMA OffOK ==
  ASSUME NEW s, pc = "off"
  PROVE  Boot(s)
BY DEF Boot, Loops, Contents, Touches, GoesOn, WaitsAt, Going

\* krnboot is in RAM.
LEMMA MachineIs ==
  ASSUME Frame, NEW s, Whole(s)
  PROVE  /\ machine.rom \in Nat /\ KrnEnd <= machine.rom /\ machine.ramtop \in Nat
         /\ machine.ramtop > KrnEnd \/
              machine.ramtop \div PageSize < Assembled(Sources[s], "PROG_BASE") \div PageSize
<1>1. s \in DOMAIN Sources
  BY DEF Whole, Names
<1> QED
  BY <1>1, MachineAssumption DEF Frame

\* Where krnboot goes on, it can: the chip can be read, and neither krnboot nor
\* its stack has been written to.
LEMMA AliveIs ==
  ASSUME Frame, NEW s, Installed(s), Boot(s), Good(s), pc \in Going
  PROVE  Alive
<1>1. Whole(s) /\ Passes[s]
  BY DEF Installed, Good
<1>2. ~busy /\ Intact
  BY DEF Boot, GoesOn
<1>3. CASE pc \in {"vol", "test"}
  <2>1. cpu.sp = KrnLoad - 1 /\ touched \subseteq KernBase .. VolEndOf(s)
    BY <1>3 DEF Boot, GoesOn, Touches
  <2>2. VolEndOf(s) + 2 < KrnLoad /\ VolEndOf(s) \in Nat /\ KrnLoad \in Nat
    BY <1>1, PassedIs, MapIs
  <2>3. \A a \in touched : a # cpu.sp /\ a # cpu.sp - 1
    BY <2>1, <2>2
  <2> QED BY <1>2, <2>3 DEF Alive, StackFree
<1>4. CASE pc \in {"nv", "last", "sig", "init"}
  <2>1. cpu.sp \in Nat /\ cpu.sp > KrnEnd /\ cpu.sp < BaseOf(s) /\ touched \subseteq Writable(s)
    BY <1>4 DEF Boot, GoesOn, Touches
  <2>2. /\ VolEndOf(s) + 2 < KrnLoad /\ VolEndOf(s) \in Nat /\ KrnLoad \in Nat
        /\ RelayAt(s) + RelayLen <= KrnLoad /\ RelayAt(s) \in Nat /\ SectorSize \in Nat /\ RelayLen \in Nat
        /\ KrnLoad <= Scratch /\ Scratch + SectorSize = KrnEnd /\ Scratch \in Nat
        /\ BaseOf(s) \in Nat /\ KrnEnd \in Nat /\ Highest(s) \in Nat /\ KernBase \in Nat
    BY <1>1, PassedIs, MapIs
  <2>3. \A a \in Writable(s) : a \in Nat /\ (a < KrnEnd \/ a >= BaseOf(s))
    BY <2>2 DEF Writable, InBuffer, RelayIn
  <2>4. \A a \in touched : a # cpu.sp /\ a # cpu.sp - 1
    <3> SUFFICES ASSUME NEW a \in touched, a = cpu.sp \/ a = cpu.sp - 1 PROVE FALSE
      OBVIOUS
    <3>1. a \in Nat /\ (a < KrnEnd \/ a >= BaseOf(s))
      BY <2>1, <2>3
    <3>2. CASE a = cpu.sp
      BY <2>1, <2>2, <3>1, <3>2
    <3>3. CASE a = cpu.sp - 1
      BY <2>1, <2>2, <3>1, <3>3
    <3> QED BY <3>2, <3>3
  <2> QED BY <1>2, <2>4 DEF Alive, StackFree
<1> QED
  BY <1>3, <1>4 DEF Going

\* Where everything is, in one place.
LEMMA Geometry ==
  ASSUME NEW s, Whole(s)
  PROVE  /\ KernBase \in Nat /\ SectorSize \in Nat /\ SectorSize > 0 /\ Top \in Nat
         /\ EndOf(s) \in Nat /\ VolEndOf(s) \in Nat /\ EndOf(s) <= VolEndOf(s)
         /\ VolEndOf(s) <= Top /\ RelayAt(s) \in Nat /\ RelayAt(s) + SectorSize < KrnLoad
         /\ RelayLen \in Nat /\ RelayAt(s) + RelayLen <= KrnLoad
         /\ KrnLoad \in Nat /\ Scratch \in Nat /\ KrnLoad <= Scratch /\ Scratch + SectorSize = KrnEnd
         /\ KrnEnd \in Nat /\ KrnEnd + 1 < BaseOf(s) /\ EndOf(s) < BaseOf(s)
         /\ BaseOf(s) \in Nat /\ BaseOf(s) <= Highest(s) /\ Highest(s) \in Nat /\ Highest(s) <= Top
         /\ Vols(s) \in Nat /\ VolEndOf(s) = KernBase + Vols(s) * SectorSize - 1
         /\ Nvs(s) \in Nat /\ Nvs(s) > 0 /\ KrnSectors \in Nat
         /\ LastOf(s) \in 1 .. SectorSize /\ LastAt(s) \in Nat /\ BaseOf(s) <= LastAt(s)
         /\ Highest(s) = LastAt(s) + LastOf(s) - 1
<1>1. Nvs(s) \in Nat /\ Nvs(s) > 0 /\ LastOf(s) \in 1 .. SectorSize
      /\ Highest(s) - BaseOf(s) + 1 = Nvs(s) * SectorSize - SectorSize + LastOf(s)
  BY BytesAre
<1>2. Highest(s) \in Nat /\ BaseOf(s) \in Nat /\ SectorSize \in Nat
  BY MapIs
<1>3. LastAt(s) \in Nat /\ BaseOf(s) <= LastAt(s) /\ Highest(s) = LastAt(s) + LastOf(s) - 1
  <2> DEFINE p == Nvs(s) * SectorSize
             q == (Nvs(s) - 1) * SectorSize
             l == LastOf(s)
  <2>1. p \in Int /\ q = p - SectorSize
    BY <1>1, Times
  <2>2. q \in Int /\ q >= 0
    <3>1. Nvs(s) - 1 \in Int /\ Nvs(s) - 1 >= 0
      BY <1>1
    <3> QED BY <3>1, Times
  <2>3. LastAt(s) = BaseOf(s) + q /\ Highest(s) - BaseOf(s) + 1 = p - SectorSize + l /\ l \in Nat
    BY <1>1 DEF LastAt
  <2> HIDE DEF p, q, l
  <2>4. Highest(s) = LastAt(s) + l - 1
    BY <1>2, <2>1, <2>2, <2>3
  <2> QED BY <1>2, <2>2, <2>3, <2>4 DEF l
<1> QED
  BY <1>1, <1>3, MapIs, BytesAre, MapAssumption DEF VolEndOf

\* The memory after bytes were written within it.
LEMMA Wrote ==
  ASSUME Frame, NEW a \in Nat, NEW n \in Nat, n > 0, a + n - 1 <= Top, NEW bytes,
         mem' = Over(mem, a, bytes, n, machine.rom),
         touched' = touched \cup Reach(mem, a, n),
         busy' = (busy \/ \E b \in Reach(mem, a, n) : b >= machine.rom)
  PROVE  /\ DOMAIN mem' = 0 .. Top /\ touched' = touched \cup (a .. a + n - 1)
         /\ \A b \in 0 .. Top : b \notin a .. a + n - 1 \/ IsRom(b) => mem'[b] = mem[b]
         /\ \A b \in a .. a + n - 1 : ~IsRom(b) => mem'[b] = bytes[b - a + 1]
         /\ busy' = (busy \/ \E b \in a .. a + n - 1 : IsRom(b))
<1>1. DOMAIN mem = 0 .. Top
  BY DEF Frame
<1>2. /\ DOMAIN mem' = 0 .. Top /\ Reach(mem, a, n) = a .. a + n - 1
      /\ \A b \in 0 .. Top : b \notin a .. a + n - 1 \/ b >= machine.rom => mem'[b] = mem[b]
      /\ \A b \in a .. a + n - 1 : ~(b >= machine.rom) => mem'[b] = bytes[b - a + 1]
  <2> DEFINE w == Over(mem, a, bytes, n, machine.rom)
  <2>1. /\ DOMAIN w = 0 .. Top /\ Reach(mem, a, n) = a .. a + n - 1
        /\ \A b \in 0 .. Top : b \notin a .. a + n - 1 \/ b >= machine.rom => w[b] = mem[b]
        /\ \A b \in a .. a + n - 1 : ~(b >= machine.rom) => w[b] = bytes[b - a + 1]
    <3>1. Only(mem, a, bytes, n, machine.rom)
      BY ONLY <1>1, WriteDoes, n > 0, a + n - 1 <= Top
    <3> QED BY ONLY <3>1 DEF Only
  <2>2. mem' = w
    OBVIOUS
  <2> HIDE DEF w
  <2> QED BY <2>1, <2>2
<1>3. /\ touched' = touched \cup (a .. a + n - 1)
      /\ busy' = (busy \/ \E b \in a .. a + n - 1 : b >= machine.rom)
  BY <1>2, Zenon
<1>4. busy' = (busy \/ \E b \in a .. a + n - 1 : IsRom(b))
  BY <1>3 DEF IsRom
<1> QED
  BY <1>2, <1>3, <1>4 DEF IsRom

\* A sector of the volatile half, at its place.
LEMMA LoadVolOK ==
  ASSUME Frame, NEW s, Installed(s), Boot(s), LoadSector, pc = "vol"
  PROVE  Frame' /\ RomKept /\ Boot(s)'
<1>1. /\ Whole(s) /\ Same /\ pc' = "vol" /\ Alive
      /\ Write(cpu.ra, Sector(cpu.r7), SectorSize)
      /\ cpu' = [cpu EXCEPT !.ra = @ + SectorSize, !.rc = @ - 1, !.r7 = @ + 1] /\ cpu.rc > 0
  BY DEF LoadSector, Installed, Stays, Same
<1>2. /\ KernBase \in Nat /\ SectorSize \in Nat /\ SectorSize > 0 /\ Top \in Nat /\ VolEndOf(s) \in Nat
      /\ EndOf(s) \in Nat /\ EndOf(s) <= VolEndOf(s) /\ VolEndOf(s) <= Top
      /\ KrnLoad \in Nat /\ Scratch \in Nat /\ KrnLoad <= Scratch /\ Scratch + SectorSize = KrnEnd
      /\ KrnEnd \in Nat /\ BaseOf(s) \in Nat /\ KrnEnd + 1 < BaseOf(s) /\ BaseOf(s) <= Highest(s)
      /\ Highest(s) \in Nat /\ Highest(s) <= Top
      /\ Vols(s) \in Nat /\ VolEndOf(s) = KernBase + Vols(s) * SectorSize - 1
      /\ KrnSectors \in Nat
  BY <1>1, Geometry
<1>3. PICK k \in 0 .. Vols(s) :
        /\ cpu.ra = KernBase + k * SectorSize /\ cpu.rc = Vols(s) - k
        /\ cpu.r7 = KrnSectors + 1 + k
  BY DEF Boot, Loops
<1> DEFINE p == k * SectorSize
           e == KernBase + p
<1>4. /\ k + 1 \in 0 .. Vols(s) /\ p \in Nat /\ (k + 1) * SectorSize = p + SectorSize
      /\ p + SectorSize <= Vols(s) * SectorSize
  <2>1. k + 1 <= Vols(s) /\ k \in Nat
    BY <1>1, <1>2, <1>3
  <2>2. p \in Int /\ p >= 0 /\ (k + 1) * SectorSize = p + SectorSize
    BY <2>1, Times
  <2>3. (k + 1) * SectorSize <= Vols(s) * SectorSize
    <3>1. k + 1 \in Int /\ Vols(s) \in Int
      BY <1>2, <2>1
    <3> QED BY <2>1, <3>1, Times
  <2> HIDE DEF p
  <2> QED BY <1>2, <2>1, <2>2, <2>3
<1>5. cpu.ra = e /\ e \in Nat /\ e >= KernBase /\ e + SectorSize - 1 <= VolEndOf(s)
  <2> DEFINE V == Vols(s) * SectorSize
  <2>1. V \in Int
    BY <1>2, Times
  <2>2. p + SectorSize <= V /\ VolEndOf(s) = KernBase + V - 1
    BY <1>2, <1>4
  <2>3. cpu.ra = e
    BY <1>3
  <2> HIDE DEF V, p
  <2>4. p \in Nat
    BY <1>4 DEF p
  <2> QED BY <1>2, <2>1, <2>2, <2>3, <2>4
<1>6. cpu'.ra = e + SectorSize /\ cpu'.rc = Vols(s) - (k + 1) /\ cpu'.r7 = KrnSectors + 1 + (k + 1)
      /\ cpu'.sp = cpu.sp /\ DOMAIN cpu' = DOMAIN cpu
  <2>1. cpu'.ra = cpu.ra + SectorSize /\ cpu'.rc = cpu.rc - 1 /\ cpu'.r7 = cpu.r7 + 1
        /\ cpu'.sp = cpu.sp /\ DOMAIN cpu' = DOMAIN cpu
    BY <1>1 DEF Frame
  <2>2. cpu.rc - 1 = Vols(s) - (k + 1) /\ cpu.r7 + 1 = KrnSectors + 1 + (k + 1)
    BY <1>2, <1>3
  <2> QED BY <1>5, <2>1, <2>2
<1> HIDE DEF e
<1>7. /\ DOMAIN mem' = 0 .. Top /\ touched' = touched \cup (e .. e + SectorSize - 1)
      /\ \A b \in 0 .. Top : b \notin e .. e + SectorSize - 1 \/ IsRom(b) => mem'[b] = mem[b]
      /\ \A b \in e .. e + SectorSize - 1 : ~IsRom(b) => mem'[b] = Sector(cpu.r7)[b - e + 1]
      /\ busy' = (busy \/ \E b \in e .. e + SectorSize - 1 : IsRom(b))
  <2>1. e + SectorSize - 1 <= Top
    BY <1>2, <1>5
  <2> HIDE DEF p
  <2>2. /\ mem' = Over(mem, e, Sector(cpu.r7), SectorSize, machine.rom)
        /\ touched' = touched \cup Reach(mem, e, SectorSize)
        /\ busy' = (busy \/ \E b \in Reach(mem, e, SectorSize) : b >= machine.rom)
    <3>1. cpu.ra = e
      BY <1>5
    <3> QED BY <1>1, <3>1 DEF Write, Over, Reach, IsRom
  <2> QED BY <1>2, <1>5, <2>1, <2>2, Wrote
<1>8. ASSUME Passes[s]
      PROVE  /\ \A b \in e .. e + SectorSize - 1 : ~IsRom(b)
             /\ VolEndOf(s) + 2 < KrnLoad
  <2>1. VolEndOf(s) + 2 < KrnLoad
    BY <1>1, <1>8, PassedIs
  <2>2. machine.rom \in Nat /\ KrnEnd <= machine.rom
    BY <1>1, MachineIs
  <2> QED BY <1>2, <1>5, <2>1, <2>2 DEF IsRom
<1>9. Loops(s)'
  <2>1. cpu'.ra = KernBase + (k + 1) * SectorSize
    <3>1. e + SectorSize = KernBase + (p + SectorSize)
      <4> HIDE DEF p
      <4>1. p \in Nat
        BY <1>4 DEF p
      <4> QED BY <1>2, <4>1 DEF e
    <3> QED BY <1>4, <1>6, <3>1
  <2> QED BY <1>1, <1>4, <1>6, <2>1 DEF Loops
<1>10. Contents(s)'
  <2> SUFFICES ASSUME Passes[s], NEW a \in KernBase .. EndOf(s), a < cpu'.ra
               PROVE  mem'[a] = Byte(s, a)
    BY <1>1 DEF Contents, VolIn
  <2>1. a \in 0 .. Top /\ a \in Nat
    BY <1>2
  <2>2. CASE a < e
    <3>1. mem[a] = Byte(s, a)
      BY <1>5, <2>2 DEF Boot, Contents, VolIn
    <3>2. a \notin e .. e + SectorSize - 1
      BY <1>5, <2>1, <2>2
    <3> QED BY <1>7, <2>1, <3>1, <3>2
  <2>3. CASE a >= e
    <3> DEFINE n == a - e + 1
    <3>1. a \in e .. e + SectorSize - 1 /\ n \in 1 .. SectorSize /\ e + n - 1 = a /\ a <= EndOf(s)
      BY <1>2, <1>5, <1>6, <2>1, <2>3
    <3>2. mem'[a] = Sector(cpu.r7)[n]
      BY <1>7, <1>8, <3>1
    <3> HIDE DEF n
    <3>3. KernBase + k * SectorSize + n - 1 = a
      BY <3>1 DEF e
    <3>4. Sector(KrnSectors + 1 + k)[n] = Byte(s, a)
      <4>1. k \in Nat
        OBVIOUS
      <4> HIDE DEF p
      <4>2. KernBase + k * SectorSize + n - 1 <= EndOf(s)
        BY <3>1, <3>3
      <4> QED BY <3>1, <3>3, <4>1, <4>2, VolSector
    <3> QED BY <1>3, <3>2, <3>4
  <2> QED BY <1>5, <2>1, <2>2, <2>3
<1>11. Touches(s)'
  <2>1. touched \subseteq KernBase .. VolEndOf(s)
    BY DEF Boot, Touches
  <2>2. e .. e + SectorSize - 1 \subseteq KernBase .. VolEndOf(s)
    BY <1>2, <1>5
  <2>3. touched' \subseteq KernBase .. VolEndOf(s)
    BY <1>7, <2>1, <2>2
  <2> QED BY <1>1, <2>3 DEF Touches, Writable
<1>12. Good(s)' => GoesOn(s)'
  <2> SUFFICES ASSUME Good(s) PROVE GoesOn(s)'
    BY <1>1 DEF Good, Same, IsRom
  <2>1. GoesOn(s) /\ Passes[s]
    BY DEF Boot, Good
  <2>2. ~busy'
    BY <1>7, <1>8, <2>1 DEF GoesOn, Going
  <2>3. Intact'
    <3> SUFFICES ASSUME NEW a \in KrnLoad .. Scratch - 1 PROVE mem'[a] = Cell("krn", a)
      BY DEF Intact
    <3>1. a \in 0 .. Top /\ a \notin e .. e + SectorSize - 1
      BY <1>2, <1>5, <1>8, <2>1
    <3> QED BY <1>7, <2>1, <3>1 DEF GoesOn, Going, Intact
  <2>4. cpu'.sp = KrnLoad - 1
    BY <1>6, <2>1 DEF GoesOn
  <2> QED BY <1>1, <2>2, <2>3, <2>4 DEF GoesOn
<1>13. Frame' /\ RomKept
  BY <1>1, <1>6, <1>7 DEF Frame, RomKept, Same
<1>14. WaitsAt(s)'
  BY <1>1 DEF WaitsAt
<1> QED
  BY <1>9, <1>10, <1>11, <1>12, <1>13, <1>14 DEF Boot

\* From NVK_BASE on there is RAM, with sources and a machine that fit.
LEMMA NoRom ==
  ASSUME Frame, NEW s, Whole(s), Good(s), ~IsRom(BaseOf(s))
  PROVE  \A b \in BaseOf(s) .. Highest(s) : ~IsRom(b)
<1>1. machine.rom \in Nat /\ machine.rom > Assembled(Sources[s], "NVK_TOP")
      /\ Assembled(Sources[s], "NVK_TOP") \in Nat /\ Highest(s) <= Assembled(Sources[s], "NVK_TOP")
  BY MachineIs, PassedIs DEF Good
<1>2. BaseOf(s) \in Nat /\ Highest(s) \in Nat
  BY Geometry
<1> DEFINE top == Assembled(Sources[s], "NVK_TOP")
<1> HIDE DEF top
<1>3. machine.rom > top /\ top \in Nat /\ Highest(s) <= top
  BY <1>1 DEF top
<1> QED
  BY <1>1, <1>2, <1>3 DEF IsRom

\* A sector of the non-volatile half, at its place.
LEMMA LoadNvOK ==
  ASSUME Frame, NEW s, Installed(s), Boot(s), LoadSector, pc = "nv"
  PROVE  Frame' /\ RomKept /\ Boot(s)'
<1>1. /\ Whole(s) /\ Same /\ pc' = "nv"
      /\ Write(cpu.ra, Sector(cpu.r7), SectorSize)
      /\ cpu' = [cpu EXCEPT !.ra = @ + SectorSize, !.rc = @ - 1, !.r7 = @ + 1] /\ cpu.rc > 0
  BY DEF LoadSector, Installed, Stays, Same
<1>2. /\ SectorSize \in Nat /\ SectorSize > 0 /\ Top \in Nat
      /\ EndOf(s) \in Nat /\ KernBase \in Nat /\ EndOf(s) < BaseOf(s)
      /\ KrnLoad \in Nat /\ Scratch \in Nat /\ Scratch + SectorSize = KrnEnd
      /\ KrnEnd \in Nat /\ BaseOf(s) \in Nat /\ KrnEnd + 1 < BaseOf(s) /\ BaseOf(s) <= Highest(s)
      /\ Highest(s) \in Nat /\ Highest(s) <= Top
      /\ Vols(s) \in Nat /\ Nvs(s) \in Nat /\ Nvs(s) > 0 /\ KrnSectors \in Nat
      /\ LastOf(s) \in 1 .. SectorSize /\ LastAt(s) = BaseOf(s) + (Nvs(s) - 1) * SectorSize
      /\ Highest(s) = LastAt(s) + LastOf(s) - 1 /\ LastAt(s) \in Nat
  BY <1>1, Geometry DEF LastAt
<1>3. PICK k \in 0 .. Nvs(s) - 1 :
        /\ cpu.ra = BaseOf(s) + k * SectorSize /\ cpu.rc = Nvs(s) - 1 - k
        /\ cpu.r7 = KrnSectors + 1 + Vols(s) + k
  BY DEF Boot, Loops
<1> DEFINE p == k * SectorSize
           e == BaseOf(s) + p
<1>4. /\ k + 1 \in 0 .. Nvs(s) - 1 /\ k \in Nat /\ p \in Nat /\ (k + 1) * SectorSize = p + SectorSize
      /\ p + SectorSize <= (Nvs(s) - 1) * SectorSize
  <2>1. k + 1 <= Nvs(s) - 1 /\ k \in Nat
    BY <1>1, <1>2, <1>3
  <2>2. p \in Int /\ p >= 0 /\ (k + 1) * SectorSize = p + SectorSize
    BY <2>1, Times
  <2>3. (k + 1) * SectorSize <= (Nvs(s) - 1) * SectorSize
    <3>1. k + 1 \in Int /\ Nvs(s) - 1 \in Int
      BY <1>2, <2>1
    <3> QED BY <2>1, <3>1, Times
  <2> HIDE DEF p
  <2> QED BY <1>2, <2>1, <2>2, <2>3
<1>5. cpu.ra = e /\ e \in Nat /\ e >= BaseOf(s) /\ e + SectorSize - 1 <= Highest(s)
  <2> DEFINE V == (Nvs(s) - 1) * SectorSize
  <2>1. V \in Int
    <3>1. Nvs(s) - 1 \in Int
      BY <1>2
    <3> QED BY <3>1, Times
  <2>2. p + SectorSize <= V /\ LastAt(s) = BaseOf(s) + V
    BY <1>2, <1>4
  <2>3. cpu.ra = e
    BY <1>3
  <2> HIDE DEF V, p
  <2>4. p \in Nat
    BY <1>4 DEF p
  <2> QED BY <1>2, <2>1, <2>2, <2>3, <2>4
<1>6. cpu'.ra = e + SectorSize /\ cpu'.rc = Nvs(s) - 1 - (k + 1)
      /\ cpu'.r7 = KrnSectors + 1 + Vols(s) + (k + 1)
      /\ cpu'.sp = cpu.sp /\ DOMAIN cpu' = DOMAIN cpu
  <2>1. cpu'.ra = cpu.ra + SectorSize /\ cpu'.rc = cpu.rc - 1 /\ cpu'.r7 = cpu.r7 + 1
        /\ cpu'.sp = cpu.sp /\ DOMAIN cpu' = DOMAIN cpu
    BY <1>1 DEF Frame
  <2>2. cpu.rc - 1 = Nvs(s) - 1 - (k + 1) /\ cpu.r7 + 1 = KrnSectors + 1 + Vols(s) + (k + 1)
    BY <1>2, <1>3
  <2> QED BY <1>5, <2>1, <2>2
<1> HIDE DEF e
<1>7. /\ DOMAIN mem' = 0 .. Top /\ touched' = touched \cup (e .. e + SectorSize - 1)
      /\ \A b \in 0 .. Top : b \notin e .. e + SectorSize - 1 \/ IsRom(b) => mem'[b] = mem[b]
      /\ \A b \in e .. e + SectorSize - 1 : ~IsRom(b) => mem'[b] = Sector(cpu.r7)[b - e + 1]
      /\ busy' = (busy \/ \E b \in e .. e + SectorSize - 1 : IsRom(b))
  <2>1. e + SectorSize - 1 <= Top
    BY <1>2, <1>5
  <2> HIDE DEF p
  <2>2. /\ mem' = Over(mem, e, Sector(cpu.r7), SectorSize, machine.rom)
        /\ touched' = touched \cup Reach(mem, e, SectorSize)
        /\ busy' = (busy \/ \E b \in Reach(mem, e, SectorSize) : b >= machine.rom)
    <3>1. cpu.ra = e
      BY <1>5
    <3> QED BY <1>1, <3>1 DEF Write, Over, Reach, IsRom
  <2> QED BY <1>2, <1>5, <2>1, <2>2, Wrote
<1>8. ~IsRom(BaseOf(s)) /\ ~IsRom(BaseOf(s))'
  BY <1>1 DEF Boot, Loops, IsRom, Same
<1>9. Loops(s)'
  <2>1. cpu'.ra = BaseOf(s) + (k + 1) * SectorSize
    <3>1. e + SectorSize = BaseOf(s) + (p + SectorSize)
      <4> HIDE DEF p
      <4>1. p \in Nat
        BY <1>4 DEF p
      <4> QED BY <1>2, <4>1 DEF e
    <3> QED BY <1>4, <1>6, <3>1
  <2> QED BY <1>1, <1>4, <1>6, <1>8, <2>1 DEF Loops
<1>10. Contents(s)'
  <2>1. Passes[s] => VolIn(s)'
    <3> SUFFICES ASSUME Passes[s], NEW a \in KernBase .. EndOf(s) PROVE mem'[a] = Byte(s, a)
      BY DEF VolIn
    <3>1. a \in 0 .. Top /\ a \notin e .. e + SectorSize - 1
      BY <1>2, <1>5
    <3> QED BY <1>7, <3>1 DEF Boot, Contents, VolIn
  <2>2. ~busy' => NvIn(s)'
    <3> SUFFICES ASSUME ~busy', NEW a \in BaseOf(s) .. Highest(s), a < cpu'.ra
                 PROVE  mem'[a] = Byte(s, a)
      BY <1>1 DEF NvIn
    <3>1. a \in 0 .. Top /\ a \in Nat
      BY <1>2
    <3>2. CASE a < e
      <4>1. mem[a] = Byte(s, a)
        BY <1>5, <1>7, <1>8, <3>2 DEF Boot, Contents, NvIn
      <4>2. a \notin e .. e + SectorSize - 1
        BY <1>5, <3>1, <3>2
      <4> QED BY <1>7, <3>1, <4>1, <4>2
    <3>3. CASE a >= e
      <4> DEFINE n == a - e + 1
      <4>1. a \in e .. e + SectorSize - 1 /\ n \in 1 .. SectorSize /\ e + n - 1 = a /\ a <= Highest(s)
        BY <1>2, <1>5, <1>6, <3>1, <3>3
      <4>2. mem'[a] = Sector(cpu.r7)[n]
        BY <1>7, <4>1
      <4> HIDE DEF n
      <4>3. BaseOf(s) + k * SectorSize + n - 1 = a
        BY <4>1 DEF e
      <4>4. Sector(KrnSectors + 1 + Vols(s) + k)[n] = Byte(s, a)
        <5> HIDE DEF p
        <5>2. BaseOf(s) + k * SectorSize + n - 1 <= Highest(s)
          BY <4>1, <4>3
        <5> QED BY <1>4, <4>1, <4>3, <5>2, NvSector
      <4> QED BY <1>3, <4>2, <4>4
    <3> QED BY <1>5, <3>1, <3>2, <3>3
  <2> QED BY <1>1, <2>1, <2>2 DEF Contents
<1>11. Touches(s)'
  <2>1. touched \subseteq Writable(s)
    BY DEF Boot, Touches
  <2>2. e .. e + SectorSize - 1 \subseteq BaseOf(s) .. Highest(s)
    BY <1>2, <1>5
  <2>3. touched' \subseteq Writable(s)
    BY <1>7, <2>1, <2>2 DEF Writable
  <2> QED BY <1>1, <2>3 DEF Touches, Writable
<1>12. Good(s)' => GoesOn(s)'
  <2> SUFFICES ASSUME Good(s) PROVE GoesOn(s)'
    BY <1>1 DEF Good, Same, IsRom
  <2>1. GoesOn(s)
    BY DEF Boot
  <2>2. ~busy'
    <3>1. \A b \in BaseOf(s) .. Highest(s) : ~IsRom(b)
      BY <1>1, <1>8, NoRom
    <3>2. \A b \in e .. e + SectorSize - 1 : b \in BaseOf(s) .. Highest(s)
      BY <1>2, <1>5
    <3> QED BY <1>7, <2>1, <3>1, <3>2 DEF GoesOn, Going
  <2>3. Intact'
    <3> SUFFICES ASSUME NEW a \in KrnLoad .. Scratch - 1 PROVE mem'[a] = Cell("krn", a)
      BY DEF Intact
    <3>1. a \in 0 .. Top /\ a \notin e .. e + SectorSize - 1
      BY <1>2, <1>5
    <3> QED BY <1>7, <2>1, <3>1 DEF GoesOn, Going, Intact
  <2>4. cpu'.sp \in Nat /\ cpu'.sp > KrnEnd /\ cpu'.sp < BaseOf(s)
    BY <1>6, <2>1 DEF GoesOn
  <2> QED BY <1>1, <2>2, <2>3, <2>4 DEF GoesOn
<1>13. Frame' /\ RomKept
  BY <1>1, <1>6, <1>7 DEF Frame, RomKept, Same
<1>14. WaitsAt(s)'
  BY <1>1 DEF WaitsAt
<1> QED
  BY <1>9, <1>10, <1>11, <1>12, <1>13, <1>14 DEF Boot

\* Where the loop for the non-volatile half ends.
LEMMA LoopEnd ==
  ASSUME NEW s, Whole(s), Boot(s), pc \in {"nv", "last"}, cpu.rc = 0
  PROVE  cpu.ra = LastAt(s) /\ cpu.r7 = KrnSectors + 1 + Vols(s) + (Nvs(s) - 1)
         /\ ~IsRom(BaseOf(s)) /\ Nvs(s) - 1 \in Nat
<1>1. PICK k \in 0 .. Nvs(s) - 1 :
        /\ cpu.ra = BaseOf(s) + k * SectorSize /\ cpu.rc = Nvs(s) - 1 - k
        /\ cpu.r7 = KrnSectors + 1 + Vols(s) + k
  BY DEF Boot, Loops
<1>2. Nvs(s) \in Nat /\ Nvs(s) > 0
  BY Geometry
<1>3. k = Nvs(s) - 1 /\ Nvs(s) - 1 \in Nat
  BY <1>1, <1>2
<1> QED
  BY <1>1, <1>3 DEF LastAt, Boot, Loops

\* The last sector, into the buffer.
LEMMA LoadLastOK ==
  ASSUME Frame, NEW s, Installed(s), Boot(s), LoadLast
  PROVE  Frame' /\ RomKept /\ Boot(s)'
<1>1. /\ Whole(s) /\ Same /\ pc = "nv" /\ pc' = "last" /\ cpu' = cpu /\ cpu.rc = 0
      /\ Write(Scratch, Sector(cpu.r7), SectorSize)
  BY DEF LoadLast, Installed, Stays, Same
<1>2. /\ SectorSize \in Nat /\ SectorSize > 0 /\ Top \in Nat /\ KernBase \in Nat
      /\ EndOf(s) \in Nat /\ VolEndOf(s) \in Nat /\ EndOf(s) <= VolEndOf(s) /\ VolEndOf(s) <= Top
      /\ KrnLoad \in Nat /\ Scratch \in Nat /\ KrnLoad <= Scratch /\ Scratch + SectorSize = KrnEnd
      /\ KrnEnd \in Nat /\ BaseOf(s) \in Nat /\ KrnEnd + 1 < BaseOf(s) /\ BaseOf(s) <= Highest(s)
      /\ Highest(s) \in Nat /\ Highest(s) <= Top
      /\ LastOf(s) \in 1 .. SectorSize /\ Highest(s) = LastAt(s) + LastOf(s) - 1 /\ LastAt(s) \in Nat
  BY <1>1, Geometry
<1>3. cpu.ra = LastAt(s) /\ cpu.r7 = KrnSectors + 1 + Vols(s) + (Nvs(s) - 1)
      /\ ~IsRom(BaseOf(s)) /\ Nvs(s) - 1 \in Nat
  BY <1>1, LoopEnd
<1>4. /\ DOMAIN mem' = 0 .. Top /\ touched' = touched \cup (Scratch .. Scratch + SectorSize - 1)
      /\ \A b \in 0 .. Top : b \notin Scratch .. Scratch + SectorSize - 1 \/ IsRom(b) => mem'[b] = mem[b]
      /\ \A b \in Scratch .. Scratch + SectorSize - 1 : ~IsRom(b) =>
           mem'[b] = Sector(cpu.r7)[b - Scratch + 1]
      /\ busy' = (busy \/ \E b \in Scratch .. Scratch + SectorSize - 1 : IsRom(b))
  <2>1. Scratch + SectorSize - 1 <= Top
    BY <1>2
  <2>2. /\ mem' = Over(mem, Scratch, Sector(cpu.r7), SectorSize, machine.rom)
        /\ touched' = touched \cup Reach(mem, Scratch, SectorSize)
        /\ busy' = (busy \/ \E b \in Reach(mem, Scratch, SectorSize) : b >= machine.rom)
    BY <1>1 DEF Write, Over, Reach, IsRom
  <2> QED BY <1>2, <2>1, <2>2, Wrote
<1>5. \A b \in Scratch .. Scratch + SectorSize - 1 : ~IsRom(b)
  <2>1. machine.rom \in Nat /\ KrnEnd <= machine.rom
    BY <1>1, MachineIs
  <2> QED BY <1>2, <2>1 DEF IsRom
<1>6. busy' <=> busy
  BY <1>4, <1>5
<1>7. Loops(s)'
  BY <1>1 DEF Boot, Loops, IsRom, Same
<1>8. Contents(s)'
  <2>1. Passes[s] => VolIn(s)'
    <3> SUFFICES ASSUME Passes[s], NEW a \in KernBase .. EndOf(s) PROVE mem'[a] = Byte(s, a)
      BY DEF VolIn
    <3>1. VolEndOf(s) + 2 < KrnLoad
      BY <1>1, PassedIs
    <3>2. a \in 0 .. Top /\ a \notin Scratch .. Scratch + SectorSize - 1
      BY <1>2, <3>1
    <3> QED BY <1>1, <1>4, <3>2 DEF Boot, Contents, VolIn
  <2>2. ~busy' => NvIn(s)'
    <3> SUFFICES ASSUME ~busy, NEW a \in BaseOf(s) .. Highest(s), a < cpu.ra
                 PROVE  mem'[a] = Byte(s, a)
      BY <1>1, <1>6 DEF NvIn
    <3>1. a \in 0 .. Top /\ a \notin Scratch .. Scratch + SectorSize - 1
      BY <1>2
    <3> QED BY <1>1, <1>3, <1>4, <3>1 DEF Boot, Contents, NvIn
  <2>3. \A n \in 1 .. LastOf(s) : mem'[Scratch + n - 1] = Byte(s, LastAt(s) + n - 1)
    <3> SUFFICES ASSUME NEW n \in 1 .. LastOf(s)
                 PROVE  mem'[Scratch + n - 1] = Byte(s, LastAt(s) + n - 1)
      OBVIOUS
    <3> DEFINE b == Scratch + n - 1
    <3>1. b \in Scratch .. Scratch + SectorSize - 1 /\ b - Scratch + 1 = n /\ n \in 1 .. SectorSize
      BY <1>2
    <3>2. mem'[b] = Sector(cpu.r7)[n]
      <4> HIDE DEF b
      <4> QED BY <1>4, <1>5, <3>1
    <3>3. LastAt(s) + n - 1 <= Highest(s)
      BY <1>2
    <3> DEFINE j == Nvs(s) - 1
    <3>4. LastAt(s) = BaseOf(s) + j * SectorSize
      BY DEF LastAt
    <3>5. j \in Nat /\ cpu.r7 = KrnSectors + 1 + Vols(s) + j
      BY <1>3
    <3> HIDE DEF j
    <3>6. Sector(KrnSectors + 1 + Vols(s) + j)[n] = Byte(s, BaseOf(s) + j * SectorSize + n - 1)
      BY <3>1, <3>3, <3>4, <3>5, NvSector
    <3> QED BY <3>2, <3>4, <3>5, <3>6
  <2>4. ~IsRom(BaseOf(s))' => NvIn(s)' \/ busy'
    BY <2>2
  <2> QED BY <1>1, <2>1, <2>3, <2>4 DEF Contents
<1>9. Touches(s)'
  <2>1. touched' \subseteq Writable(s)
    BY <1>1, <1>4 DEF Writable, InBuffer, Boot, Touches
  <2> QED BY <1>1, <2>1 DEF Touches, Writable
<1>10. Good(s)' => GoesOn(s)'
  <2> SUFFICES ASSUME Good(s) PROVE GoesOn(s)'
    BY <1>1 DEF Good, Same, IsRom
  <2>1. GoesOn(s)
    BY DEF Boot
  <2>2. Intact'
    <3> SUFFICES ASSUME NEW a \in KrnLoad .. Scratch - 1 PROVE mem'[a] = Cell("krn", a)
      BY DEF Intact
    <3>1. a \in 0 .. Top /\ a \notin Scratch .. Scratch + SectorSize - 1
      BY <1>2
    <3> QED BY <1>1, <1>4, <2>1, <3>1 DEF GoesOn, Going, Intact
  <2> QED BY <1>1, <1>6, <2>1, <2>2 DEF GoesOn, Going
<1>11. Frame' /\ RomKept
  BY <1>1, <1>4 DEF Frame, RomKept, Same
<1>12. WaitsAt(s)'
  BY <1>1 DEF WaitsAt
<1> QED
  BY <1>7, <1>8, <1>9, <1>10, <1>11, <1>12 DEF Boot

\* The bytes of the image in the buffer, at their place.
LEMMA CopyLastOK ==
  ASSUME Frame, NEW s, Installed(s), Boot(s), CopyLast
  PROVE  Frame' /\ RomKept /\ Boot(s)'
<1>1. /\ Whole(s) /\ Same /\ pc = "last" /\ pc' = "sig" /\ cpu' = cpu
      /\ Write(cpu.ra, Buffered, LastOf(s))
  BY OnCard DEF CopyLast, Installed, Stays, Same
<1>2. /\ SectorSize \in Nat /\ SectorSize > 0 /\ Top \in Nat /\ KernBase \in Nat
      /\ EndOf(s) \in Nat /\ EndOf(s) < BaseOf(s)
      /\ KrnLoad \in Nat /\ Scratch \in Nat /\ KrnLoad <= Scratch /\ Scratch + SectorSize = KrnEnd
      /\ KrnEnd \in Nat /\ BaseOf(s) \in Nat /\ KrnEnd + 1 < BaseOf(s) /\ BaseOf(s) <= LastAt(s)
      /\ Highest(s) \in Nat /\ Highest(s) <= Top
      /\ LastOf(s) \in 1 .. SectorSize /\ Highest(s) = LastAt(s) + LastOf(s) - 1 /\ LastAt(s) \in Nat
  BY <1>1, Geometry
<1>3. cpu.ra = LastAt(s) /\ ~IsRom(BaseOf(s))
  BY <1>1, LoopEnd DEF Boot, Loops
<1> DEFINE e == LastAt(s)
           n == LastOf(s)
<1>4. /\ DOMAIN mem' = 0 .. Top /\ touched' = touched \cup (e .. e + n - 1)
      /\ \A b \in 0 .. Top : b \notin e .. e + n - 1 \/ IsRom(b) => mem'[b] = mem[b]
      /\ \A b \in e .. e + n - 1 : ~IsRom(b) => mem'[b] = Buffered[b - e + 1]
      /\ busy' = (busy \/ \E b \in e .. e + n - 1 : IsRom(b))
  <2>1. e + n - 1 <= Top /\ n \in Nat /\ n > 0 /\ e \in Nat
    BY <1>2
  <2> HIDE DEF e, n
  <2>2. /\ mem' = Over(mem, e, Buffered, n, machine.rom)
        /\ touched' = touched \cup Reach(mem, e, n)
        /\ busy' = (busy \/ \E b \in Reach(mem, e, n) : b >= machine.rom)
    <3>1. cpu.ra = e /\ n = LastOf(s)
      BY <1>3 DEF e, n
    <3> QED BY <1>1, <3>1 DEF Write, Over, Reach, IsRom
  <2> QED BY <2>1, <2>2, Wrote
<1>5. e \in Nat /\ n \in 1 .. SectorSize /\ Highest(s) = e + n - 1 /\ BaseOf(s) <= e /\ cpu.ra = e
  BY <1>2, <1>3
<1>6. \A i \in 1 .. n : mem[Scratch + i - 1] = Byte(s, e + i - 1)
  BY <1>1 DEF Boot, Contents
<1> HIDE DEF e, n
<1>7. Loops(s)' /\ WaitsAt(s)'
  BY <1>1 DEF Loops, WaitsAt
<1>8. Contents(s)'
  <2>1. Passes[s] => VolIn(s)'
    <3> SUFFICES ASSUME Passes[s], NEW a \in KernBase .. EndOf(s) PROVE mem'[a] = Byte(s, a)
      BY DEF VolIn
    <3>1. a \in 0 .. Top /\ a \notin e .. e + n - 1
      BY <1>2, <1>5
    <3> QED BY <1>1, <1>4, <3>1 DEF Boot, Contents, VolIn
  <2>2. ~busy' => NvIn(s)'
    <3> SUFFICES ASSUME ~busy', NEW a \in BaseOf(s) .. Highest(s) PROVE mem'[a] = Byte(s, a)
      BY DEF NvIn
    <3>1. a \in 0 .. Top /\ a \in Nat
      BY <1>2
    <3>2. CASE a < e
      <4>1. mem[a] = Byte(s, a)
        BY <1>1, <1>3, <1>4, <1>5, <3>2 DEF Boot, Contents, NvIn
      <4>2. a \notin e .. e + n - 1
        BY <1>5, <3>1, <3>2
      <4> QED BY <1>4, <3>1, <4>1, <4>2
    <3>3. CASE a >= e
      <4> DEFINE i == a - e + 1
      <4>1. a \in e .. e + n - 1 /\ i \in 1 .. n /\ i \in 1 .. SectorSize /\ e + i - 1 = a
        BY <1>2, <1>5, <3>1, <3>3
      <4>2. mem'[a] = Buffered[i]
        BY <1>4, <4>1
      <4> HIDE DEF i
      <4>3. Buffered[i] = mem[Scratch + i - 1]
        BY <4>1 DEF Buffered
      <4> QED BY <1>6, <4>1, <4>2, <4>3
    <3> QED BY <1>5, <3>1, <3>2, <3>3
  <2> QED BY <1>1, <2>1, <2>2 DEF Contents
<1>9. Touches(s)'
  <2>1. e .. e + n - 1 \subseteq BaseOf(s) .. Highest(s)
    BY <1>2, <1>5
  <2>2. touched' \subseteq Writable(s)
    BY <1>1, <1>4, <2>1 DEF Writable, Boot, Touches
  <2> QED BY <1>1, <2>2 DEF Touches, Writable
<1>10. Good(s)' => GoesOn(s)'
  <2> SUFFICES ASSUME Good(s) PROVE GoesOn(s)'
    BY <1>1 DEF Good, Same, IsRom
  <2>1. GoesOn(s)
    BY DEF Boot
  <2>2. ~busy'
    <3>1. \A b \in BaseOf(s) .. Highest(s) : ~IsRom(b)
      BY <1>1, <1>3, NoRom
    <3>2. \A b \in e .. e + n - 1 : b \in BaseOf(s) .. Highest(s)
      BY <1>2, <1>5
    <3> QED BY <1>1, <1>4, <2>1, <3>1, <3>2 DEF GoesOn, Going
  <2>3. Intact'
    <3> SUFFICES ASSUME NEW a \in KrnLoad .. Scratch - 1 PROVE mem'[a] = Cell("krn", a)
      BY DEF Intact
    <3>1. a \in 0 .. Top /\ a \notin e .. e + n - 1
      BY <1>2, <1>5
    <3> QED BY <1>1, <1>4, <2>1, <3>1 DEF GoesOn, Going, Intact
  <2> QED BY <1>1, <2>1, <2>2, <2>3 DEF GoesOn, Going
<1>11. Frame' /\ RomKept
  BY <1>1, <1>4 DEF Frame, RomKept, Same
<1> QED
  BY <1>7, <1>8, <1>9, <1>10, <1>11 DEF Boot

\* What boot_init2 writes to is where the kernel keeps it.
LEMMA FilledIs ==
  ASSUME NEW s, Whole(s)
  PROVE  Filled(s) \subseteq KernBase .. EndOf(s)
<1>1. s \in Names /\ Halves[s] = Slices(Sources[s], Out[s]) /\ Halves[s] # None
      /\ Out[s] = Linked(Sources[s])
  BY Tables DEF Whole
<1>2. "kvol_end" \in DOMAIN Out[s].symbols
  BY <1>1 DEF Slices
<1>3. InOrder(Sources[s])
  BY <1>1, SourceOK
<1> QED
  BY <1>1, <1>2, <1>3 DEF InOrder, Filled, EndOf

\* Memory after boot_init2: where it has written, what it has set up.
LEMMA SetUpDoes ==
  ASSUME Frame, NEW to, to \subseteq 0 .. Top, SetUp(to)
  PROVE  /\ DOMAIN mem' = 0 .. Top /\ touched' = touched \cup to
         /\ \A b \in 0 .. Top : b \notin to \/ IsRom(b) => mem'[b] = mem[b]
         /\ \A b \in to : ~IsRom(b) => mem'[b] = Cell("boot", 0)
BY DEF SetUp, Frame

\* What boot_init2 may write to: no byte of krnboot, none of the other half.
LEMMA SetUpIn ==
  ASSUME NEW s, Whole(s), NEW to \in SUBSET Filled(s)
  PROVE  /\ InBuffer \cup to \cup RelayIn(s) \subseteq 0 .. Top
         /\ \A b \in InBuffer \cup to \cup RelayIn(s) : b \in Writable(s) /\ b \notin BaseOf(s) .. Highest(s)
         /\ Passes[s] => \A b \in InBuffer \cup RelayIn(s) : b \notin KernBase .. EndOf(s)
         /\ \A b \in RelayIn(s) : b \in Nat /\ b < KrnEnd
<1>1. /\ SectorSize \in Nat /\ Top \in Nat /\ KernBase \in Nat
      /\ EndOf(s) \in Nat /\ EndOf(s) < BaseOf(s) /\ EndOf(s) <= VolEndOf(s) /\ VolEndOf(s) \in Nat
      /\ RelayAt(s) \in Nat /\ RelayLen \in Nat /\ RelayAt(s) + RelayLen <= KrnLoad
      /\ KrnLoad \in Nat /\ Scratch \in Nat /\ KrnLoad <= Scratch /\ Scratch + SectorSize = KrnEnd
      /\ KrnEnd \in Nat /\ BaseOf(s) \in Nat /\ KrnEnd + 1 < BaseOf(s) /\ BaseOf(s) <= Highest(s)
      /\ Highest(s) \in Nat /\ Highest(s) <= Top
  BY Geometry
<1>2. \A b \in InBuffer : b \in Nat /\ b < BaseOf(s) /\ b <= Top /\ b >= KrnLoad /\ b < KrnEnd
  BY <1>1 DEF InBuffer
<1>3. \A b \in RelayIn(s) : b \in Nat /\ b < KrnLoad /\ b < BaseOf(s) /\ b <= Top /\ b >= RelayAt(s)
                            /\ b < KrnEnd
  BY <1>1 DEF RelayIn
<1>4. \A b \in to : b \in KernBase .. EndOf(s) /\ b \in Nat /\ b < BaseOf(s) /\ b <= Top
                    /\ b \in KernBase .. VolEndOf(s)
  <2> SUFFICES ASSUME NEW b \in to
               PROVE  b \in KernBase .. EndOf(s) /\ b \in Nat /\ b < BaseOf(s) /\ b <= Top
                      /\ b \in KernBase .. VolEndOf(s)
    OBVIOUS
  <2>1. b \in KernBase .. EndOf(s)
    BY FilledIs
  <2> QED BY <1>1, <2>1
<1>5. InBuffer \cup to \cup RelayIn(s) \subseteq 0 .. Top
  BY <1>1, <1>2, <1>3, <1>4
<1>6. \A b \in InBuffer \cup to \cup RelayIn(s) : b \in Writable(s) /\ b \notin BaseOf(s) .. Highest(s)
  <2> TAKE b \in InBuffer \cup to \cup RelayIn(s)
  <2>1. b \in Writable(s)
    BY <1>4 DEF Writable
  <2>2. b \in Nat /\ b < BaseOf(s)
    BY <1>2, <1>3, <1>4
  <2> QED BY <1>1, <2>1, <2>2
<1>7. ASSUME Passes[s], NEW b \in InBuffer \cup RelayIn(s)
      PROVE  b \notin KernBase .. EndOf(s)
  <2>1. EndOf(s) < RelayAt(s)
    BY <1>7, PassedIs
  <2>2. b \in Nat /\ b > EndOf(s)
    BY <1>1, <1>2, <1>3, <2>1
  <2> QED BY <1>1, <2>2
<1> QED
  BY <1>3, <1>5, <1>6, <1>7

\* The kernel's tables and slots, and what programs find below PROG_BASE.
LEMMA Init2OK ==
  ASSUME Frame, NEW s, Installed(s), Boot(s), Init2
  PROVE  Frame' /\ RomKept /\ Boot(s)'
<1>1. PICK to \in SUBSET Filled(s) :
        /\ Whole(s) /\ Same /\ pc = "init" /\ pc' = "running" /\ cpu' = cpu /\ ~busy
        /\ SetUp(InBuffer \cup to \cup RelayIn(s))
  BY OnCard DEF Init2, Installed, Stays, Same, Alive, InTables, Filled
<1> DEFINE all == InBuffer \cup to \cup RelayIn(s)
<1>2. /\ all \subseteq 0 .. Top
      /\ \A b \in all : b \in Writable(s) /\ b \notin BaseOf(s) .. Highest(s)
      /\ Passes[s] => \A b \in InBuffer \cup RelayIn(s) : b \notin KernBase .. EndOf(s)
      /\ \A b \in RelayIn(s) : b \in Nat /\ b < KrnEnd
  BY <1>1, SetUpIn
<1>3. /\ KernBase \in Nat /\ EndOf(s) \in Nat /\ EndOf(s) <= Top /\ Top \in Nat
      /\ BaseOf(s) \in Nat /\ Highest(s) \in Nat /\ Highest(s) <= Top
  BY <1>1, Geometry
<1> HIDE DEF all
<1>4. /\ DOMAIN mem' = 0 .. Top /\ touched' = touched \cup all
      /\ \A b \in 0 .. Top : b \notin all \/ IsRom(b) => mem'[b] = mem[b]
      /\ \A b \in all : ~IsRom(b) => mem'[b] = Cell("boot", 0)
  <2>1. SetUp(all)
    BY <1>1 DEF all
  <2> QED BY <1>2, <2>1, SetUpDoes
<1>5. \A b \in RelayIn(s) : ~IsRom(b) /\ b \in all
  <2> TAKE b \in RelayIn(s)
  <2>1. machine.rom \in Nat /\ KrnEnd <= machine.rom /\ KrnEnd \in Nat
    BY <1>1, MachineIs, MapIs
  <2>2. b \in Nat /\ b < KrnEnd
    BY <1>2
  <2> QED BY <2>1, <2>2 DEF IsRom, all
<1>6. Contents(s)'
  <2>1. Passes[s] => VolIn(s)'
    <3> SUFFICES ASSUME Passes[s], NEW a \in KernBase .. EndOf(s), a \notin Filled(s)
                 PROVE  mem'[a] = Byte(s, a)
      BY <1>1 DEF VolIn
    <3>1. a \in 0 .. Top
      BY <1>3
    <3>2. a \notin all
      BY <1>1, <1>2 DEF all
    <3> QED BY <1>1, <1>4, <3>1, <3>2 DEF Boot, Contents, VolIn
  <2>2. ~IsRom(BaseOf(s)) => NvIn(s)'
    <3> SUFFICES ASSUME ~IsRom(BaseOf(s)), NEW a \in BaseOf(s) .. Highest(s)
                 PROVE  mem'[a] = Byte(s, a)
      BY DEF NvIn
    <3>1. a \in 0 .. Top /\ a \notin all
      BY <1>2, <1>3
    <3> QED BY <1>1, <1>4, <3>1 DEF Boot, Contents, NvIn
  <2>3. IsRom(BaseOf(s))' = IsRom(BaseOf(s))
    BY <1>1 DEF IsRom, Same
  <2>4. \A a \in RelayIn(s) : mem'[a] = Cell("boot", 0)
    BY <1>4, <1>5
  <2> QED BY <1>1, <2>1, <2>2, <2>3, <2>4 DEF Contents
<1>7. Touches(s)'
  <2>1. touched' \subseteq Writable(s)
    BY <1>1, <1>2, <1>4 DEF Boot, Touches
  <2>2. Writable(s)' = Writable(s)
    BY DEF Writable
  <2> QED BY <1>1, <2>1, <2>2 DEF Touches
<1>8. Frame' /\ RomKept
  BY <1>1, <1>4 DEF Frame, RomKept, Same
<1>9. Loops(s)' /\ WaitsAt(s)' /\ GoesOn(s)'
  BY <1>1 DEF Loops, WaitsAt, GoesOn, Going
<1> QED
  BY <1>6, <1>7, <1>8, <1>9 DEF Boot

\* boot_init2 stops before it is done: what it has written to is no less its own.
LEMMA Init2FailsOK ==
  ASSUME Frame, NEW s, Installed(s), Boot(s), Init2Fails
  PROVE  Frame' /\ RomKept /\ Boot(s)'
<1>1. PICK to \in SUBSET Filled(s) :
        /\ Whole(s) /\ Same /\ pc = "init" /\ pc' = "halted" /\ cpu' = cpu
        /\ SetUp(InBuffer \cup to)
  BY OnCard DEF Init2Fails, Installed, Stays, Same, InTables, Filled
<1> DEFINE all == InBuffer \cup to
<1>2. all \subseteq 0 .. Top /\ \A b \in all : b \in Writable(s)
  BY <1>1, SetUpIn
<1> HIDE DEF all
<1>3. /\ DOMAIN mem' = 0 .. Top /\ touched' = touched \cup all
      /\ \A b \in 0 .. Top : b \notin all \/ IsRom(b) => mem'[b] = mem[b]
  <2>1. SetUp(all)
    BY <1>1 DEF all
  <2> QED BY <1>2, <2>1, SetUpDoes
<1>4. Touches(s)'
  <2>1. touched' \subseteq Writable(s)
    BY <1>1, <1>2, <1>3 DEF Boot, Touches
  <2>2. Writable(s)' = Writable(s)
    BY DEF Writable
  <2> QED BY <1>1, <2>1, <2>2 DEF Touches
<1>5. Frame' /\ RomKept
  BY <1>1, <1>3 DEF Frame, RomKept, Same
<1> QED
  BY <1>1, <1>4, <1>5 DEF Boot, Loops, Contents, GoesOn, Going, WaitsAt

\* krnboot stops with a message.
LEMMA HaltOK ==
  ASSUME Frame, NEW s, Installed(s), Boot(s), Halt, Same, pc # "off"
  PROVE  Frame' /\ RomKept /\ Boot(s)'
BY DEF Frame, RomKept, Boot, Halt, Same, Loops, Contents, Touches, Writable, GoesOn, Going, WaitsAt

\* The volatile half is there.
LEMMA VolLoadedOK ==
  ASSUME Frame, NEW s, Installed(s), Boot(s), VolLoaded
  PROVE  Frame' /\ RomKept /\ Boot(s)'
<1>1. /\ Whole(s) /\ Same /\ pc = "vol" /\ pc' = "test" /\ cpu.rc = 0
      /\ UNCHANGED <<mem, cpu, busy, touched>>
  BY DEF VolLoaded, Installed, Stays, Same
<1>2. /\ Vols(s) \in Nat /\ VolEndOf(s) = KernBase + Vols(s) * SectorSize - 1
      /\ EndOf(s) \in Nat /\ VolEndOf(s) \in Nat /\ EndOf(s) <= VolEndOf(s) /\ KernBase \in Nat
      /\ KrnSectors \in Nat
  BY <1>1, Geometry
<1>3. PICK k \in 0 .. Vols(s) :
        /\ cpu.ra = KernBase + k * SectorSize /\ cpu.rc = Vols(s) - k
        /\ cpu.r7 = KrnSectors + 1 + k
  BY <1>1 DEF Boot, Loops
<1>4. k = Vols(s)
  BY <1>1, <1>2, <1>3
<1>5. cpu.ra = VolEndOf(s) + 1
  <2> DEFINE V == Vols(s) * SectorSize
  <2>1. V \in Int
    BY <1>2, Times
  <2>2. cpu.ra = KernBase + V /\ VolEndOf(s) = KernBase + V - 1
    BY <1>2, <1>3, <1>4
  <2> HIDE DEF V
  <2> QED BY <1>2, <2>1, <2>2
<1>6. Contents(s)'
  <2> SUFFICES ASSUME Passes[s], NEW a \in KernBase .. EndOf(s) PROVE mem[a] = Byte(s, a)
    BY <1>1 DEF Contents, VolIn
  <2>1. a < cpu.ra
    BY <1>2, <1>5
  <2> QED BY <1>1, <2>1 DEF Boot, Contents, VolIn
<1>7. Loops(s)'
  BY <1>1, <1>3, <1>4 DEF Loops
<1>8. (Good(s)' => GoesOn(s)') /\ Touches(s)' /\ WaitsAt(s)'
  BY <1>1 DEF Boot, Good, GoesOn, Going, Intact, Touches, Writable, WaitsAt, Same, IsRom
<1>9. Frame' /\ RomKept
  BY <1>1 DEF Frame, RomKept, Same
<1> QED
  BY <1>6, <1>7, <1>8, <1>9 DEF Boot

\* The loop for the non-volatile half begins, its stack below the image.
LEMMA TestRamOK ==
  ASSUME Frame, NEW s, Installed(s), Boot(s), TestRam
  PROVE  Frame' /\ RomKept /\ Boot(s)'
<1> DEFINE sp == Min({machine.ramtop, BaseOf(s) - 1})
<1>1. /\ Whole(s) /\ Same /\ pc = "test" /\ ~IsRom(BaseOf(s)) /\ Base = BaseOf(s)
      /\ ProgBase = Assembled(Sources[s], "PROG_BASE") /\ Hdr.nv = Nvs(s)
  BY OnCard DEF TestRam, Installed, Stays, Same
<1>2. CASE sp \div PageSize < ProgBase \div PageSize
  <2>1. Halt
    BY <1>1, <1>2 DEF TestRam
  <2> QED BY <1>1, <2>1, HaltOK
<1>3. CASE ~(sp \div PageSize < ProgBase \div PageSize)
  <2>1. /\ cpu' = [cpu EXCEPT !.sp = sp, !.rc = Nvs(s) - 1, !.ra = BaseOf(s)]
        /\ pc' = IF Nvs(s) = 0 THEN "halted" ELSE "nv"
        /\ UNCHANGED <<mem, busy, touched>>
    BY <1>1, <1>3 DEF TestRam
  <2>2. /\ Nvs(s) \in Nat /\ Nvs(s) > 0 /\ BaseOf(s) \in Nat /\ KrnEnd \in Nat /\ KrnEnd + 1 < BaseOf(s)
        /\ Vols(s) \in Nat /\ KrnSectors \in Nat /\ Highest(s) \in Nat
    BY <1>1, Geometry
  <2>3. machine.ramtop \in Nat
        /\ (machine.ramtop > KrnEnd \/ machine.ramtop \div PageSize < ProgBase \div PageSize)
    BY <1>1, MachineIs
  <2>4. sp \in Nat /\ sp <= BaseOf(s) - 1 /\ sp <= machine.ramtop
        /\ (sp = machine.ramtop \/ sp = BaseOf(s) - 1)
    <3> DEFINE S == {machine.ramtop, BaseOf(s) - 1}
    <3>1. S \in SUBSET Nat /\ machine.ramtop \in S /\ BaseOf(s) - 1 \in S
      BY <2>2, <2>3
    <3>2. Min(S) \in S /\ Min(S) <= machine.ramtop /\ Min(S) <= BaseOf(s) - 1
      <4> HIDE DEF S
      <4> QED BY <3>1, MinIs
    <3> QED BY <3>1, <3>2
  <2> HIDE DEF sp
  <2>5. sp > KrnEnd /\ sp < BaseOf(s)
    <3>1. CASE sp = BaseOf(s) - 1
      BY <2>2, <3>1
    <3>2. CASE sp = machine.ramtop
      BY <1>3, <2>2, <2>3, <2>4, <3>2
    <3> QED BY <2>4, <3>1, <3>2
  <2>6. pc' = "nv" /\ cpu'.sp = sp /\ cpu'.rc = Nvs(s) - 1 /\ cpu'.ra = BaseOf(s)
        /\ cpu'.r7 = KrnSectors + 1 + Vols(s) /\ DOMAIN cpu' = DOMAIN cpu
    BY <1>1, <2>1, <2>2 DEF Frame, Boot, Loops
  <2>7. Loops(s)'
    <3>1. ~IsRom(BaseOf(s))'
      BY <1>1 DEF IsRom, Same
    <3>2. /\ 0 \in 0 .. Nvs(s) - 1 /\ cpu'.ra = BaseOf(s) + 0 * SectorSize /\ cpu'.rc = Nvs(s) - 1 - 0
          /\ cpu'.r7 = KrnSectors + 1 + Vols(s) + 0
      <4>1. 0 * SectorSize = 0
        BY MapAssumption
      <4> DEFINE z == 0 * SectorSize
      <4>2. z = 0
        BY <4>1
      <4> HIDE DEF z
      <4>3. cpu'.ra = BaseOf(s) + z
        BY <2>2, <2>6, <4>2
      <4> QED BY <2>2, <2>6, <4>3 DEF z
    <3> QED BY <2>6, <3>1, <3>2 DEF Loops
  <2>8. Contents(s)'
    <3>1. Passes[s] => VolIn(s)'
      BY <1>1, <2>1, <2>6 DEF Boot, Contents, VolIn
    <3>2. NvIn(s)'
      BY <2>2, <2>6 DEF NvIn
    <3> QED BY <2>6, <3>1, <3>2 DEF Contents
  <2>9. Touches(s)' /\ WaitsAt(s)'
    BY <1>1, <2>1, <2>6 DEF Boot, Touches, Writable, WaitsAt
  <2>10. Good(s)' => GoesOn(s)'
    BY <1>1, <2>1, <2>4, <2>5, <2>6 DEF Boot, Good, GoesOn, Going, Intact, Same, IsRom
  <2>11. Frame' /\ RomKept
    BY <1>1, <2>1, <2>6 DEF Frame, RomKept, Same
  <2> QED BY <2>7, <2>8, <2>9, <2>10, <2>11 DEF Boot
<1> QED
  BY <1>2, <1>3

\* The kernel is in ROM: what the test has written is waited for.
LEMMA TestRomOK ==
  ASSUME Frame, NEW s, Installed(s), Boot(s), TestRom
  PROVE  Frame' /\ RomKept /\ Boot(s)'
<1>1. /\ Whole(s) /\ Same /\ pc = "test" /\ pc' = "wait" /\ IsRom(BaseOf(s))
      /\ UNCHANGED <<mem, touched>>
      /\ cpu' = [cpu EXCEPT !.sp = IF machine.ramtop < BaseOf(s) THEN machine.ramtop
                                   ELSE Scratch + SectorSize - 1]
  BY OnCard DEF TestRom, Installed, Stays, Same
<1>2. /\ cpu'.sp = (IF machine.ramtop < BaseOf(s) THEN machine.ramtop ELSE Scratch + SectorSize - 1)
      /\ DOMAIN cpu' = DOMAIN cpu
  BY <1>1 DEF Frame
<1>3. Loops(s)' /\ Touches(s)' /\ (Good(s)' => GoesOn(s)')
  BY <1>1 DEF Loops, Boot, Touches, Writable, Good, GoesOn, Going, Intact, IsRom, Same
<1>4. WaitsAt(s)'
  BY <1>1, <1>2 DEF WaitsAt, IsRom, Same
<1>5. Contents(s)'
  BY <1>1 DEF Boot, Contents, VolIn
<1>6. Frame' /\ RomKept
  BY <1>1, <1>2 DEF Frame, RomKept, Same
<1> QED
  BY <1>3, <1>4, <1>5, <1>6 DEF Boot

\* After that the stack is where the BIOS says RAM ends, above krnboot.
LEMMA WaitedOK ==
  ASSUME Frame, NEW s, Installed(s), Boot(s), Waited
  PROVE  Frame' /\ RomKept /\ Boot(s)'
<1>1. /\ Whole(s) /\ Same /\ pc = "wait" /\ ~busy' /\ UNCHANGED <<mem, cpu, touched>>
      /\ pc' = IF machine.ramtop >= BaseOf(s)
                    \/ cpu.sp \div PageSize < Assembled(Sources[s], "PROG_BASE") \div PageSize
               THEN "halted" ELSE "sig"
  BY OnCard DEF Waited, Installed, Stays, Same
<1>2. IsRom(BaseOf(s))
      /\ cpu.sp = IF machine.ramtop < BaseOf(s) THEN machine.ramtop ELSE Scratch + SectorSize - 1
  BY <1>1 DEF Boot, WaitsAt
<1>3. /\ machine.ramtop \in Nat
      /\ machine.ramtop > KrnEnd \/
           machine.ramtop \div PageSize < Assembled(Sources[s], "PROG_BASE") \div PageSize
  BY <1>1, MachineIs
<1>4. BaseOf(s) \in Nat /\ KrnEnd \in Nat
  BY <1>1, Geometry
<1>5. Frame' /\ RomKept /\ Loops(s)' /\ WaitsAt(s)'
  BY <1>1 DEF Frame, RomKept, Same, Loops, WaitsAt
<1>6. Touches(s)'
  BY <1>1 DEF Boot, Touches, Writable
<1>7. Contents(s)'
  BY <1>1, <1>2 DEF Boot, Contents, VolIn, IsRom, Same
<1>8. pc' = "sig" => cpu.sp \in Nat /\ cpu.sp > KrnEnd /\ cpu.sp < BaseOf(s)
  <2> SUFFICES ASSUME pc' = "sig" PROVE cpu.sp \in Nat /\ cpu.sp > KrnEnd /\ cpu.sp < BaseOf(s)
    OBVIOUS
  <2>1. ~(machine.ramtop >= BaseOf(s))
        /\ ~(cpu.sp \div PageSize < Assembled(Sources[s], "PROG_BASE") \div PageSize)
    BY <1>1
  <2>2. cpu.sp = machine.ramtop
    BY <1>2, <1>3, <1>4, <2>1
  <2>3. machine.ramtop > KrnEnd
    BY <1>3, <2>1, <2>2
  <2> QED BY <1>3, <1>4, <2>1, <2>2, <2>3
<1>9. Good(s)' => GoesOn(s)'
  <2> SUFFICES ASSUME Good(s) PROVE GoesOn(s)'
    BY <1>1 DEF Good, Same, IsRom
  <2>1. Intact
    BY <1>1 DEF Boot, GoesOn, Going
  <2>2. pc' \in {"sig", "halted"}
    BY <1>1
  <2> QED BY <1>1, <1>8, <2>1, <2>2 DEF GoesOn, Going, Intact
<1> QED
  BY <1>5, <1>6, <1>7, <1>9 DEF Boot

\* The signature is looked for.
LEMMA CheckSigOK ==
  ASSUME Frame, NEW s, Installed(s), Boot(s), CheckSig
  PROVE  Frame' /\ RomKept /\ Boot(s)'
<1>1. /\ Same /\ pc = "sig" /\ pc' \in {"init", "halted"} /\ UNCHANGED <<mem, cpu, busy, touched>>
  BY DEF CheckSig, Stays, Same
<1>2. CASE pc' = "halted"
  <2>1. Halt
    BY <1>1, <1>2 DEF Halt
  <2> QED BY <1>1, <2>1, HaltOK
<1>3. CASE pc' = "init"
  <2>1. Frame' /\ RomKept /\ Loops(s)' /\ WaitsAt(s)'
    BY <1>1, <1>3 DEF Frame, RomKept, Same, Loops, WaitsAt
  <2>2. Touches(s)' /\ (Good(s)' => GoesOn(s)')
    BY <1>1, <1>3 DEF Boot, Touches, Writable, Good, GoesOn, Going, Intact, IsRom, Same
  <2>3. Contents(s)'
    BY <1>1, <1>3 DEF Boot, Contents, VolIn, NvIn, IsRom, Same
  <2> QED BY <2>1, <2>2, <2>3 DEF Boot
<1> QED
  BY <1>1, <1>2, <1>3

\* krnboot hangs only with sources that failed the check or in a chip that is in
\* part RAM.
LEMMA HangOK ==
  ASSUME Frame, NEW s, Installed(s), Boot(s), Hang
  PROVE  Frame' /\ RomKept /\ Boot(s)'
<1>1. /\ Same /\ pc \in Going /\ ~Alive /\ pc' = "hung" /\ UNCHANGED <<mem, cpu, busy, touched>>
  BY DEF Hang, Stays, Same, Going
<1>2. ~Good(s)'
  <2>1. ~Good(s)
    BY <1>1, AliveIs
  <2> QED BY <1>1, <2>1 DEF Good, Same, IsRom
<1>3. Frame' /\ RomKept /\ Loops(s)' /\ WaitsAt(s)' /\ Contents(s)'
  BY <1>1 DEF Frame, RomKept, Same, Loops, WaitsAt, Contents
<1>4. Touches(s)'
  BY <1>1 DEF Boot, Touches, Writable, Going
<1> QED
  BY <1>2, <1>3, <1>4 DEF Boot

\* The MBR loads krnboot.
LEMMA ResetOK ==
  ASSUME Frame, NEW s, Installed(s), Reset
  PROVE  Frame' /\ RomKept /\ Boot(s)'
<1>1. /\ Whole(s) /\ Same /\ pc = "off" /\ pc' = (IF Vols(s) = 0 THEN "halted" ELSE "vol")
      /\ cpu' = [ra |-> KernBase, rc |-> Vols(s), r7 |-> KrnSectors + 1, sp |-> KrnLoad - 1]
      /\ mem' = [a \in DOMAIN mem |->
                   IF a \in KrnLoad .. KrnEnd - 1 THEN Cell("krn", a) ELSE mem[a]]
      /\ ~busy' /\ touched' = {}
  <2>1. Whole(s) /\ Hdr.vol = Vols(s)
    BY OnCard DEF Installed
  <2>2. Same /\ pc = "off" /\ ~busy' /\ touched' = {}
    BY DEF Reset, Stays, Same
  <2>3. pc' = (IF Vols(s) = 0 THEN "halted" ELSE "vol")
        /\ cpu' = [ra |-> KernBase, rc |-> Vols(s), r7 |-> KrnSectors + 1, sp |-> KrnLoad - 1]
    BY <2>1 DEF Reset
  <2>4. mem' = [a \in DOMAIN mem |->
                  IF a \in KrnLoad .. KrnEnd - 1 THEN Cell("krn", a) ELSE mem[a]]
    <3> DEFINE p == KrnSectors * SectorSize
    <3>1. p \in Int /\ KrnLoad \in Int
      BY Times, MapAssumption
    <3> HIDE DEF p
    <3>2. KrnLoad + (p - 1) = (KrnLoad + p) - 1
      BY <3>1
    <3> QED BY <3>2 DEF Reset, KrnEnd, p
  <2> QED BY <2>1, <2>2, <2>3, <2>4
<1>2. /\ Vols(s) \in Nat /\ Vols(s) > 0 /\ KernBase \in Nat /\ KrnSectors \in Nat /\ EndOf(s) \in Nat
      /\ KrnLoad \in Nat /\ Scratch \in Nat /\ Scratch + SectorSize = KrnEnd /\ SectorSize \in Nat
      /\ SectorSize > 0 /\ KrnEnd \in Nat /\ KrnEnd + 1 < BaseOf(s) /\ BaseOf(s) \in Nat
      /\ BaseOf(s) <= Highest(s) /\ Highest(s) \in Nat /\ Highest(s) <= Top /\ Top \in Nat
  BY <1>1, Geometry, BytesAre
<1>3. pc' = "vol"
  BY <1>1, <1>2
<1>4. Loops(s)'
  <2> DEFINE z == 0 * SectorSize
  <2>1. z = 0
    BY <1>2
  <2> HIDE DEF z
  <2>2. 0 \in 0 .. Vols(s) /\ cpu'.ra = KernBase + z /\ cpu'.rc = Vols(s) - 0
        /\ cpu'.r7 = KrnSectors + 1 + 0
    BY <1>1, <1>2, <2>1
  <2> QED BY <1>3, <2>2 DEF Loops, z
<1>5. Contents(s)'
  <2>1. VolIn(s)'
    <3> SUFFICES ASSUME NEW a \in KernBase .. EndOf(s), a < KernBase PROVE FALSE
      BY <1>1, <1>3 DEF VolIn
    <3> QED BY <1>2
  <2> QED BY <1>3, <2>1 DEF Contents
<1>6. Intact'
  <2> SUFFICES ASSUME NEW a \in KrnLoad .. Scratch - 1 PROVE mem'[a] = Cell("krn", a)
    BY DEF Intact
  <2>1. a \in 0 .. Top /\ a \in KrnLoad .. KrnEnd - 1
    BY <1>2
  <2> QED BY <1>1, <2>1 DEF Frame
<1>7. Touches(s)' /\ WaitsAt(s)' /\ GoesOn(s)'
  BY <1>1, <1>3, <1>6 DEF Touches, WaitsAt, GoesOn, Going
<1>8. RomKept
  <2> SUFFICES ASSUME NEW b \in 0 .. Top, IsRom(b) PROVE mem'[b] = mem[b]
    BY DEF RomKept
  <2>1. machine.rom \in Nat /\ KrnEnd <= machine.rom
    BY <1>1, MachineIs
  <2>2. b \notin KrnLoad .. KrnEnd - 1
    BY <1>2, <2>1 DEF IsRom
  <2> QED BY <1>1, <2>2 DEF Frame
<1>9. Frame'
  BY <1>1 DEF Frame, Same
<1> QED
  BY <1>4, <1>5, <1>7, <1>8, <1>9 DEF Boot

\* Whatever krnboot does.
LEMMA KrnbootOK ==
  ASSUME Frame, NEW s, Installed(s), Boot(s), Krnboot
  PROVE  Frame' /\ RomKept /\ Boot(s)'
<1>1. CASE LoadSector
  BY <1>1, LoadVolOK, LoadNvOK DEF LoadSector
<1>2. CASE VolLoaded
  BY <1>2, VolLoadedOK
<1>3. CASE TestRam
  BY <1>3, TestRamOK
<1>4. CASE TestRom
  BY <1>4, TestRomOK
<1>5. CASE Waited
  BY <1>5, WaitedOK
<1>6. CASE LoadLast
  BY <1>6, LoadLastOK
<1>7. CASE CopyLast
  BY <1>7, CopyLastOK
<1>8. CASE CheckSig
  BY <1>8, CheckSigOK
<1>9. CASE Init2
  BY <1>9, Init2OK
<1>12. CASE Init2Fails
  BY <1>12, Init2FailsOK
<1>10. CASE ReadError
  <2>1. Halt /\ Same /\ pc # "off"
    BY <1>10 DEF ReadError, Stays, Same
  <2> QED BY <2>1, HaltOK
<1>11. CASE Hang
  BY <1>11, HangOK
<1> QED
  BY <1>1, <1>2, <1>3, <1>4, <1>5, <1>6, <1>7, <1>8, <1>9, <1>10, <1>11, <1>12 DEF Krnboot

---------------------------------------------------------------------------
(* What is burned.                                                         *)

\* Records of the hex file, wherever they are cut.
LEMMA Quotient ==
  ASSUME NEW n \in Nat, NEW k \in Nat
  PROVE  /\ k * PerLine \in Nat /\ (k + 1) * PerLine = k * PerLine + PerLine
         /\ k <= n \div PerLine <=> k * PerLine <= n
         /\ n \div PerLine \in Nat /\ n < (n \div PerLine) * PerLine + PerLine
<1> DEFINE z == PerLine
           q == n \div z
           r == n % z
<1>1. z \in Nat /\ z > 0
  BY MapAssumption
<1>2. q \in Nat /\ r \in Nat /\ r < z /\ n = z * q + r
  BY <1>1, DivMod
<1> HIDE DEF z, q, r
<1>3. k * z \in Nat /\ (k + 1) * z = k * z + z
  BY <1>1
<1>4. z * q = q * z /\ q * z \in Nat
  BY <1>1, <1>2
<1> DEFINE Q == q * z
           K == k * z
<1>5. n = Q + r /\ Q \in Nat /\ K \in Nat
  BY <1>2, <1>3, <1>4
<1>6. ASSUME k <= q PROVE K <= n
  <2> DEFINE d == q - k
  <2>1. d \in Nat /\ q = k + d
    BY <1>2, <1>6
  <2> HIDE DEF d
  <2>2. d * z \in Nat /\ Q = K + d * z
    BY <1>1, <2>1
  <2> DEFINE D == d * z
  <2>3. D \in Nat /\ Q = K + D
    BY <2>2
  <2> HIDE DEF D, Q, K
  <2> QED BY <1>2, <1>5, <2>3
<1>7. ASSUME k > q PROVE K > n
  <2> DEFINE d == k - q - 1
  <2>1. d \in Nat /\ k = q + 1 + d
    BY <1>2, <1>7
  <2> HIDE DEF d
  <2>2. d * z \in Nat /\ K = Q + z + d * z
    BY <1>1, <1>2, <2>1
  <2> DEFINE D == d * z
  <2>3. D \in Nat /\ K = Q + z + D
    BY <2>2
  <2> HIDE DEF D, Q, K
  <2> QED BY <1>1, <1>2, <1>5, <2>3
<1>8. k <= q <=> K <= n
  <2> HIDE DEF K
  <2> QED BY <1>2, <1>5, <1>6, <1>7
<1>9. n < Q + z
  <2> HIDE DEF Q
  <2> QED BY <1>1, <1>2, <1>5
<1> QED
  BY <1>2, <1>3, <1>8, <1>9 DEF z, q

\* The records of a half have its bytes, each with its address.
LEMMA RecordIs ==
  ASSUME NEW S, NEW q \in Seq(S), Len(q) > 0, NEW base \in Nat, base + Len(q) - 1 <= Top,
         NEW k \in 0 .. (Len(q) - 1) \div PerLine
  PROVE  LET data == SubSeq(q, k * PerLine + 1, Min({(k + 1) * PerLine, Len(q)}))
         IN  /\ k * PerLine \in Nat /\ (base + k * PerLine) % (Top + 1) = base + k * PerLine
             /\ Len(data) \in Nat /\ k * PerLine + Len(data) <= Len(q)
             /\ Len(data) = PerLine \/ k * PerLine + Len(data) = Len(q)
             /\ \A j \in 1 .. Len(data) : data[j] = q[k * PerLine + j]
<1> DEFINE n == Len(q) - 1
           L == Len(q)
           K == k * PerLine
           E == {(k + 1) * PerLine, L}
           e == Min(E)
           data == SubSeq(q, K + 1, e)
<1>1. n \in Nat /\ L = n + 1 /\ L \in Nat /\ \A i \in 1 .. L : q[i] \in S
  BY LenProperties, ElementOfSeq
<1>2. PerLine \in Nat /\ PerLine > 0 /\ Top \in Nat
  BY MapAssumption
<1> HIDE DEF n, L
<1>3. n \div PerLine \in Nat
  BY <1>1, Quotient
<1>4. k \in Nat /\ k <= n \div PerLine
  BY <1>3 DEF n
<1>5. K \in Nat /\ (k + 1) * PerLine = K + PerLine /\ K <= n
  BY <1>1, <1>4, Quotient
<1>6. e \in E /\ e <= K + PerLine /\ e <= L
  <2>1. E \in SUBSET Nat /\ K + PerLine \in E /\ L \in E
    BY <1>1, <1>2, <1>5
  <2> HIDE DEF E
  <2> QED BY <2>1, MinIs
<1>7. e \in Nat /\ K + 1 <= e /\ (e = K + PerLine \/ e = L)
  <2>1. e = K + PerLine \/ e = L
    BY <1>5, <1>6
  <2> HIDE DEF e, K
  <2> QED BY <1>1, <1>2, <1>5, <2>1
<1> HIDE DEF e, K, E
<1>8. /\ Len(data) = e - K /\ \A j \in 1 .. e - K : data[j] = q[K + j]
  <2>1. \A i \in K + 1 .. e : q[i] \in S
    <3>1. \A i \in K + 1 .. e : i \in 1 .. L
      BY <1>1, <1>5, <1>6, <1>7
    <3> QED BY <1>1, <3>1
  <2>2. K + 1 \in Int /\ e \in Int
    BY <1>5, <1>7
  <2>3. /\ Len(data) = IF K + 1 <= e THEN e - (K + 1) + 1 ELSE 0
        /\ \A i \in 1 .. e - (K + 1) + 1 : data[i] = q[K + 1 + i - 1]
    BY <2>1, <2>2, SubSeqProperties
  <2>4. e - (K + 1) + 1 = e - K /\ \A i \in 1 .. e - K : K + 1 + i - 1 = K + i
    BY <1>5, <1>7
  <2> HIDE DEF data
  <2> QED BY <1>7, <2>3, <2>4
<1> HIDE DEF data
<1>9. Len(data) \in Nat /\ K + Len(data) <= L /\ (Len(data) = PerLine \/ K + Len(data) = L)
  <2> DEFINE l == Len(data)
  <2>1. l = e - K /\ e \in Nat /\ K \in Nat /\ K + 1 <= e /\ e <= L /\ (e = K + PerLine \/ e = L)
    BY <1>5, <1>6, <1>7, <1>8
  <2> HIDE DEF l
  <2>2. l \in Nat /\ K + l = e
    BY <2>1
  <2>3. e = K + PerLine => l = PerLine
    BY <1>2, <2>1
  <2> QED BY <2>1, <2>2, <2>3 DEF l
<1>10. (base + K) % (Top + 1) = base + K
  <2> DEFINE p == Top + 1
             x == base + K
  <2>1. p \in Nat /\ p > 0 /\ x \in Nat /\ x < p
    <3>1. base + L - 1 <= Top
      BY DEF L
    <3> QED BY <1>1, <1>2, <1>5, <3>1
  <2> HIDE DEF p, x
  <2>2. x % p = x
    BY <2>1, DivMod
  <2> QED BY <2>2 DEF p, x
<1> QED
  BY <1>5, <1>8, <1>9, <1>10 DEF K, L, E, e, data

\* A byte of the half is burned at its address.
LEMMA BurntIs ==
  ASSUME NEW S, NEW q \in Seq(S), Len(q) > 0, NEW base \in Nat, base + Len(q) - 1 <= Top,
         NEW a \in base .. base + Len(q) - 1
  PROVE  Burnt(HexRecords(q, base), a) = q[a - base + 1]
<1> DEFINE L == Len(q)
           Ks == 0 .. (L - 1) \div PerLine
           Data(k) == SubSeq(q, k * PerLine + 1, Min({(k + 1) * PerLine, L}))
           At(k) == (base + k * PerLine) % (Top + 1)
           recs == {[addr |-> At(k), data |-> Data(k)] : k \in Ks}
           of == {r \in recs : a \in r.addr .. r.addr + Len(r.data) - 1}
<1>1. L \in Nat /\ L > 0 /\ PerLine \in Nat /\ PerLine > 0
  BY LenProperties, MapAssumption
<1>2. \A k \in Ks : /\ k * PerLine \in Nat /\ At(k) = base + k * PerLine
                    /\ Len(Data(k)) \in Nat
                    /\ Len(Data(k)) = PerLine \/ k * PerLine + Len(Data(k)) = L
                    /\ \A j \in 1 .. Len(Data(k)) : Data(k)[j] = q[k * PerLine + j]
  BY RecordIs
<1>3. Burnt(HexRecords(q, base), a) =
        IF of = {} THEN mem[a] ELSE LET r == CHOOSE r \in of : TRUE IN r.data[a - r.addr + 1]
  BY DEF Burnt, HexRecords
<1> HIDE DEF L, Data, At
<1>4. ASSUME NEW r \in of PROVE r.data[a - r.addr + 1] = q[a - base + 1]
  <2>1. PICK k \in Ks : r = [addr |-> At(k), data |-> Data(k)]
    OBVIOUS
  <2> DEFINE K == k * PerLine
             d == Data(k)
             j == a - r.addr + 1
  <2>2. K \in Nat /\ r.addr = base + K /\ r.data = d /\ Len(d) \in Nat
        /\ \A i \in 1 .. Len(d) : d[i] = q[K + i]
    BY <1>2, <2>1
  <2>3. a \in r.addr .. r.addr + Len(d) - 1
    BY <2>2
  <2> HIDE DEF K, d
  <2>4. j \in 1 .. Len(d) /\ K + j = a - base + 1
    BY <2>2, <2>3
  <2> HIDE DEF j
  <2>5. r.data[j] = q[K + j]
    BY <2>2, <2>4
  <2> QED BY <2>4, <2>5 DEF j
<1>5. of # {}
  <2> DEFINE x == a - base
             k == x \div PerLine
             K == k * PerLine
             r == [addr |-> At(k), data |-> Data(k)]
  <2>1. x \in Nat /\ x <= L - 1 /\ a = base + x
    BY <1>1 DEF L
  <2> HIDE DEF x
  <2>2. k \in Nat /\ x < K + PerLine
    BY <2>1, Quotient
  <2>3. K \in Nat /\ K <= x
    <3> HIDE DEF k
    <3>1. k <= x \div PerLine
      BY <2>2 DEF k
    <3> QED BY <2>1, <2>2, <3>1, Quotient
  <2>4. k \in Ks
    <3> HIDE DEF k
    <3>1. K <= L - 1 /\ L - 1 \in Nat
      <4> HIDE DEF K
      <4> QED BY <1>1, <2>1, <2>3
    <3>2. k <= (L - 1) \div PerLine /\ (L - 1) \div PerLine \in Nat
      BY <2>2, <3>1, Quotient
    <3> QED BY <2>2, <3>2
  <2>5. r \in recs /\ r.addr = At(k) /\ r.data = Data(k)
    <3> HIDE DEF k
    <3> QED BY <2>4
  <2>6. At(k) = base + K /\ Len(Data(k)) \in Nat /\ (Len(Data(k)) = PerLine \/ K + Len(Data(k)) = L)
    BY <1>2, <2>4
  <2> DEFINE l == Len(Data(k))
  <2>7. a \in base + K .. base + K + l - 1
    <3>1. l \in Nat /\ (l = PerLine \/ K + l = L)
      BY <2>6
    <3> HIDE DEF l, K, k
    <3> QED BY <1>1, <2>1, <2>2, <2>3, <3>1
  <2>8. a \in r.addr .. r.addr + Len(r.data) - 1
    <3> HIDE DEF K, k, r
    <3>1. base + K + l - 1 = base + (K + l - 1)
      BY <2>3, <2>6
    <3> QED BY <2>5, <2>6, <2>7
  <2> HIDE DEF k, r, recs
  <2> QED BY <2>5, <2>8
<1> DEFINE c == CHOOSE r \in of : TRUE
<1>6. c \in of
  BY <1>5
<1> HIDE DEF of
<1>7. Burnt(HexRecords(q, base), a) = c.data[a - c.addr + 1]
  BY <1>3, <1>5
<1> HIDE DEF c
<1> QED
  BY <1>4, <1>6, <1>7

\* What is in ROM, and in the file for the burner.
BurnedIs(s) ==
  /\ Halves[s] # None /\ machine.rom <= Half(s).base
  /\ \A a \in Half(s).base .. Highest(s) : mem[a] = Byte(s, a)
BurnOK == burned = None \/ \E s \in Names : burned = <<s>> /\ BurnedIs(s)
KnvOK ==
  knv = None \/ \E s \in Names :
    Halves[s] # None /\ knv = <<[of |-> s, base |-> Half(s).base, nv |-> Half(s).nv]>>

\* What is in ROM stays there.
LEMMA BurnKept ==
  ASSUME Frame, BurnOK, RomKept, machine' = machine, burned' = burned
  PROVE  BurnOK'
<1>1. CASE burned = None
  BY <1>1 DEF BurnOK
<1>2. ASSUME NEW s \in Names, burned = <<s>>, BurnedIs(s)
      PROVE  BurnOK'
  <2>1. Halves[s] # None /\ machine.rom <= Half(s).base
        /\ \A a \in Half(s).base .. Highest(s) : mem[a] = Byte(s, a)
    BY <1>2 DEF BurnedIs
  <2>2. Half(s).base \in Nat /\ Highest(s) \in Nat /\ Highest(s) <= Top
    BY <2>1, HalvesAre
  <2>3. machine.rom \in Nat /\ Top \in Nat
    BY MachineAssumption, MapAssumption DEF Frame
  <2>4. ASSUME NEW a \in Half(s).base .. Highest(s) PROVE mem'[a] = Byte(s, a)
    <3>1. a \in 0 .. Top /\ IsRom(a)
      BY <2>1, <2>2, <2>3 DEF IsRom
    <3> QED BY <2>1, <3>1 DEF RomKept
  <2> QED BY <1>2, <2>1, <2>4 DEF BurnOK, BurnedIs
<1> QED
  BY <1>1, <1>2 DEF BurnOK

\* rom_info and the burner put the half of its sources at its place.
LEMMA BurnedOK ==
  ASSUME Frame, KnvOK, Burn
  PROVE  BurnOK' /\ Frame' /\ pc' = "off" /\ card' = card
<1>1. /\ pc = "off" /\ knv # None /\ knv[1].of = source /\ machine.rom <= knv[1].base
      /\ mem' = [a \in DOMAIN mem |-> Burnt(HexRecords(knv[1].nv, knv[1].base), a)]
      /\ burned' = <<source>> /\ UNCHANGED <<card, machine, pc, cpu>>
  BY DEF Burn
<1>2. PICK s \in Names :
        Halves[s] # None /\ knv = <<[of |-> s, base |-> Half(s).base, nv |-> Half(s).nv]>>
  BY <1>1 DEF KnvOK
<1> DEFINE q == Half(s).nv
           base == Half(s).base
           n == Highest(s) - base + 1
           B == {Byte(s, a) : a \in Int}
<1>3. source = s /\ knv[1].nv = q /\ knv[1].base = base
  BY <1>1, <1>2
<1>4. /\ base \in Nat /\ Highest(s) \in Nat /\ base <= Highest(s) /\ Highest(s) <= Top
      /\ q = [i \in 1 .. n |-> Byte(s, base + i - 1)]
  BY <1>2, HalvesAre
<1>5. n \in Nat /\ n > 0
  BY <1>4
<1>6. q \in [1 .. n -> B]
  <2>1. \A i \in 1 .. n : base + i - 1 \in Int
    BY <1>4
  <2> QED BY <1>4, <2>1
<1>7. Top \in Nat
  BY MapAssumption
<1> HIDE DEF q, B
<1>8. q \in Seq(B) /\ Len(q) = n
  <2> HIDE DEF n
  <2> QED BY <1>5, <1>6, ListIs
<1>9. ASSUME NEW a \in base .. Highest(s)
      PROVE  mem'[a] = Byte(s, a)
  <2>1. a \in DOMAIN mem
    BY <1>4, <1>7 DEF Frame
  <2>2. base + Len(q) - 1 <= Top /\ Len(q) > 0 /\ a \in base .. base + Len(q) - 1
    BY <1>4, <1>5, <1>8
  <2>3. Burnt(HexRecords(q, base), a) = q[a - base + 1]
    <3> HIDE DEF base
    <3> QED BY <1>4, <1>8, <2>2, BurntIs
  <2>4. a - base + 1 \in 1 .. n /\ base + (a - base + 1) - 1 = a
    BY <1>4
  <2>5. q[a - base + 1] = Byte(s, a)
    <3> DEFINE i == a - base + 1
    <3>1. i \in 1 .. n /\ base + i - 1 = a
      BY <2>4
    <3> HIDE DEF i, n, base
    <3>2. q[i] = Byte(s, base + i - 1)
      BY <1>4, <3>1
    <3> QED BY <3>1, <3>2 DEF i
  <2> QED BY <1>1, <1>3, <2>1, <2>3, <2>5
<1>10. BurnedIs(s)'
  BY <1>1, <1>2, <1>3, <1>9 DEF BurnedIs
<1> QED
  BY <1>1, <1>3, <1>10 DEF BurnOK, Frame

\* The invariant.
KInv ==
  /\ Frame /\ IInv /\ KnvOK /\ BurnOK
  /\ card # None => \E s \in Names : Installed(s)
  /\ pc # "off" => card # None
  /\ \A s \in Names : Installed(s) => Boot(s)

LEMMA InitKInv == Init => KInv
<1> SUFFICES ASSUME Init PROVE KInv
  OBVIOUS
<1>1. pc = "off" /\ knv = None /\ burned = None /\ card = None
  BY DEF Init
<1>2. Frame
  BY DEF Init, Frame
<1> QED
  BY <1>1, <1>2, InitIInv, OffOK DEF KInv, KnvOK, BurnOK

\* A step that leaves the machine and the disk alone.
LEMMA OtherOK ==
  ASSUME KInv, IInv', KnvOK', UNCHANGED <<card, machine, burned, bootVars>>
  PROVE  KInv'
<1>1. /\ UNCHANGED <<card, machine, burned, mem, pc, cpu, busy, touched>>
  BY DEF bootVars
<1>2. Frame'
  BY <1>1 DEF KInv, Frame
<1>3. BurnOK'
  BY <1>1 DEF KInv, BurnOK, BurnedIs
<1>4. ASSUME NEW s \in Names PROVE Installed(s)' = Installed(s)
  BY <1>1 DEF Installed
<1>5. ASSUME NEW s \in Names, Installed(s) PROVE Boot(s)'
  <2>1. Loops(s)' /\ Contents(s)'
    BY <1>1, <1>5 DEF KInv, Boot, Loops, Contents, VolIn, NvIn, IsRom
  <2>2. Touches(s)' /\ WaitsAt(s)' /\ (Good(s)' => GoesOn(s)')
    BY <1>1, <1>5 DEF KInv, Boot, Touches, Writable, WaitsAt, Good, GoesOn, Intact, IsRom
  <2> QED BY <2>1, <2>2 DEF Boot
<1> QED
  BY <1>1, <1>2, <1>3, <1>4, <1>5 DEF KInv

\* A step of a machine that has its card.
LEMMA BootOK ==
  ASSUME KInv, IInv', Same, UNCHANGED <<buildVars, burned>>, card # None,
         NEW s \in Names, Installed(s), Frame', RomKept, Boot(s)'
  PROVE  KInv'
<1>1. Frame' /\ IInv' /\ KnvOK' /\ BurnOK'
  BY BurnKept DEF KInv, KnvOK, buildVars, Same
<1>2. card' = card /\ Installed(s)'
  BY DEF Same, Installed
<1>3. ASSUME NEW t \in Names, Installed(t)' PROVE t = s
  <2>1. card[1].of = s /\ card[1].of = t
    BY <1>2, <1>3 DEF Installed, Image
  <2> QED BY <2>1
<1> QED
  BY <1>1, <1>2, <1>3 DEF KInv

LEMMA NextKInv == KInv /\ [Next]_vars => KInv'
<1> SUFFICES ASSUME KInv, [Next]_vars
             PROVE  KInv'
  OBVIOUS
<1>0. IInv'
  BY NextIInv DEF KInv
<1>1. ASSUME NEW s \in Names, Edit(s) PROVE KInv'
  <2>1. KnvOK' /\ UNCHANGED <<card, machine, burned, bootVars>>
    BY <1>1 DEF Edit, KInv, KnvOK
  <2> QED BY <1>0, <2>1, OtherOK
<1>2. CASE MakeKernel \/ UNCHANGED vars
  <2>1. KnvOK' /\ UNCHANGED <<card, machine, burned, bootVars>>
    BY <1>2 DEF MakeKernel, KInv, KnvOK, vars, buildVars
  <2> QED BY <1>0, <2>1, OtherOK
<1>3. CASE MakeFull
  <2>1. UNCHANGED <<card, machine, burned, bootVars>>
    BY <1>3 DEF MakeFull
  <2>2. KnvOK'
    <3>1. source \in Names /\ Halves[source] # None
          /\ knv' = <<[of |-> source, base |-> Half(source).base, nv |-> Half(source).nv]>>
      BY <1>3 DEF MakeFull, KInv, IInv, Half
    <3> QED BY <3>1 DEF KnvOK
  <2> QED BY <1>0, <2>1, <2>2, OtherOK
<1>4. CASE Install
  <2>1. /\ pc = "off" /\ full # None /\ card' = full
        /\ \A i \in ToSet(full) : i.hdr.vol # 0
        /\ UNCHANGED <<buildVars, machine, burned, mem, pc, cpu, busy, touched>>
    BY <1>4 DEF Install, bootVars
  <2>2. PICK s \in Names : Halves[s] # None /\ full = <<Image(s, Halves[s][1])>>
    BY <2>1 DEF KInv, IInv, FullOK
  <2>3. Installed(s)'
    <3>1. Image(s, Halves[s][1]) \in ToSet(full)
      BY <2>2 DEF ToSet
    <3>2. Vols(s) # 0
      BY <2>1, <3>1 DEF Image, HeaderWords, Vols, Half
    <3> QED BY <2>1, <2>2, <3>2 DEF Installed, Whole, Half
  <2>4. KnvOK' /\ BurnOK' /\ Frame'
    BY <2>1 DEF KInv, KnvOK, BurnOK, BurnedIs, Frame, buildVars
  <2>5. \A t \in Names : Boot(t)'
    BY <2>1 DEF Boot, Loops, Contents, Touches, GoesOn, WaitsAt, Going
  <2> QED BY <1>0, <2>1, <2>3, <2>4, <2>5 DEF KInv
<1>5. CASE Burn
  <2>1. BurnOK' /\ Frame' /\ pc' = "off" /\ card' = card
    BY <1>5, BurnedOK DEF KInv
  <2>2. KnvOK'
    BY <1>5 DEF Burn, KInv, KnvOK, buildVars
  <2>3. \A t \in Names : Boot(t)' /\ Installed(t)' = Installed(t)
    BY <2>1 DEF Boot, Loops, Contents, Touches, GoesOn, WaitsAt, Going, Installed
  <2> QED BY <1>0, <2>1, <2>2, <2>3 DEF KInv
<1>6. CASE Reset
  <2>1. Same /\ UNCHANGED <<buildVars, burned>> /\ card # None
    BY <1>6 DEF Reset, Stays, Same
  <2>2. PICK s \in Names : Installed(s)
    BY <2>1 DEF KInv
  <2>3. Frame' /\ RomKept /\ Boot(s)'
    BY <1>6, <2>2, ResetOK DEF KInv
  <2> QED BY <1>0, <2>1, <2>2, <2>3, BootOK
<1>7. CASE PowerOff
  <2>1. Same /\ UNCHANGED <<buildVars, burned, mem, cpu>> /\ pc' = "off"
    BY <1>7 DEF PowerOff, Stays, Same
  <2>2. KnvOK' /\ BurnOK' /\ Frame'
    BY <2>1 DEF KInv, KnvOK, BurnOK, BurnedIs, Frame, buildVars, Same
  <2>3. \A t \in Names : Boot(t)' /\ Installed(t)' = Installed(t)
    BY <2>1 DEF Boot, Loops, Contents, Touches, GoesOn, WaitsAt, Going, Installed, Same
  <2> QED BY <1>0, <2>1, <2>2, <2>3 DEF KInv, Same
<1>8. CASE Krnboot
  <2>1. Same /\ UNCHANGED <<buildVars, burned>>
    BY <1>8 DEF Krnboot, LoadSector, VolLoaded, TestRam, TestRom, Waited, LoadLast, CopyLast,
                CheckSig, Init2, Init2Fails, ReadError, Hang, Stays, Same
  <2>2. pc # "off"
    BY <1>8 DEF Krnboot, LoadSector, VolLoaded, TestRam, TestRom, Waited, LoadLast, CopyLast,
                CheckSig, Init2, Init2Fails, ReadError, Hang
  <2>3. PICK s \in Names : Installed(s)
    BY <2>2 DEF KInv
  <2>4. Frame' /\ RomKept /\ Boot(s)'
    BY <1>8, <2>3, KrnbootOK DEF KInv
  <2> QED BY <1>0, <2>1, <2>2, <2>3, <2>4, BootOK DEF KInv
<1> QED
  BY <1>1, <1>2, <1>3, <1>4, <1>5, <1>6, <1>7, <1>8 DEF Next

\* Whenever the kernel starts, memory holds what the linker wrote, every byte but
\* those of the tables and slots that boot_init2 fills at its own address, and the
\* words krnboot sets up for programs are there, with any sources, any map of
\* memory that is in order, and any order of edits, builds, installs, burns,
\* resets and read errors.
THEOREM LoadedAlways == Spec => []LoadedAsLinked
<1>1. KInv => LoadedAsLinked
  <2> SUFFICES ASSUME KInv, pc = "running" PROVE LoadedAsLinked
    BY DEF LoadedAsLinked
  <2>1. PICK s \in Names : Installed(s)
    BY DEF KInv
  <2>2. Whole(s) /\ card[1].of = s /\ Base = BaseOf(s) /\ Relay = RelayIn(s)
    BY <2>1, OnCard DEF Installed
  <2>3. Contents(s)
    BY <2>1 DEF KInv, Boot
  <2>4. ASSUME ~IsRom(BaseOf(s)) \/ burned = <<s>>, NEW a \in BaseOf(s) .. Highest(s)
        PROVE  mem[a] = Byte(s, a)
    <3>1. CASE ~IsRom(BaseOf(s))
      BY <2>3, <2>4, <3>1 DEF Contents, NvIn
    <3>2. CASE burned = <<s>>
      <4>1. PICK t \in Names : burned = <<t>> /\ BurnedIs(t)
        BY <3>2 DEF KInv, BurnOK, None
      <4>2. t = s
        BY <3>2, <4>1
      <4>3. Half(s).base = BaseOf(s)
        BY <2>2, ImageIs
      <4> QED BY <2>4, <4>1, <4>2, <4>3 DEF BurnedIs
    <3> QED BY <2>4, <3>1, <3>2
  <2>5. ASSUME Passes[s]
        PROVE  /\ \A a \in (KernBase .. EndOf(s)) \ Filled(s) : mem[a] = Byte(s, a)
               /\ \A a \in RelayIn(s) : mem[a] = Cell("boot", 0)
    BY <2>3, <2>5 DEF Contents, VolIn
  <2>6. InTables = Filled(s)
    BY <2>2 DEF InTables, Filled
  <2> QED BY <2>2, <2>4, <2>5, <2>6 DEF LoadedAsLinked, Highest, EndOf, Byte
<1> QED
  BY <1>1, InitKInv, NextKInv, PTL DEF Spec

\* A boot writes to the two regions, to krnboot's buffer and to the words it sets up
\* below PROG_BASE only, whether it ends in the kernel or in a message; and
\* with sources that passed the check it never hangs on a machine whose memory is
\* ROM or RAM from NVK_BASE on: neither krnboot nor its stack is written over, and
\* no EEPROM is left in a write cycle.
THEOREM WritesAlways == Spec => []NothingElseWritten
<1>1. KInv => NothingElseWritten
  <2> SUFFICES ASSUME KInv, pc # "off" PROVE NothingElseWritten
    BY DEF NothingElseWritten
  <2>1. PICK s \in Names : Installed(s)
    BY DEF KInv
  <2>2. card[1].of = s /\ Base = BaseOf(s) /\ Relay = RelayIn(s) /\ VolEnd = VolEndOf(s)
    BY <2>1, OnCard DEF VolEnd, VolEndOf
  <2>3. touched \subseteq Writable(s) /\ (Good(s) => GoesOn(s))
    BY <2>1 DEF KInv, Boot, Touches
  <2>4. Passes[s] /\ Fits => Good(s)
    BY <2>2 DEF Fits, Good
  <2> QED BY <2>2, <2>3, <2>4 DEF NothingElseWritten, Writable, Highest, GoesOn
<1> QED
  BY <1>1, InitKInv, NextKInv, PTL DEF Spec

=============================================================================
