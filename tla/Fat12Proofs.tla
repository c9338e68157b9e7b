---------------------------- MODULE Fat12Proofs ----------------------------
(* What fat12-proto/sim12.py tests with random clusters and values, for all *)
(* of them: the kernel's reading and writing of FAT entries through sectors *)
(* does what the tools' does in the whole FAT; and what the allocator and   *)
(* the file layer rely on: an entry written is the entry read, and the      *)
(* others are as they were.                                                 *)
EXTENDS Fat12, TLAPS

---------------------------------------------------------------------------
\* Numbers of the size of a FAT12 volume fit the registers.
LEMMA OffsetFits ==
  ASSUME NEW c \in Nat, c <= 4095
  PROVE  /\ Offset(c) \in Nat /\ Offset(c) <= 6142
         /\ R7(c) = Offset(c)
BY DEF Offset, R7

\* The addresses that the kernel computes are those of the entry's two bytes.
LEMMA FirstIs ==
  ASSUME NEW c \in Nat, c <= 4095
  PROVE  /\ First(c).sector \in Nat /\ First(c).sector <= 11 /\ First(c).at \in 0 .. SEC - 1
         /\ First(c).sector * SEC + First(c).at = Offset(c)
<1>1. R7(c) = Offset(c) /\ Offset(c) \in Nat /\ Offset(c) <= 6142
  BY OffsetFits
<1>2. First(c).sector = Offset(c) \div SEC /\ First(c).at = Offset(c) % SEC
  BY <1>1 DEF First
<1> QED
  BY <1>1, <1>2 DEF SEC

LEMMA SecondIs ==
  ASSUME NEW c \in Nat, c <= 4095
  PROVE  /\ Second(c).sector \in Nat /\ Second(c).sector <= 12 /\ Second(c).at \in 0 .. SEC - 1
         /\ Second(c).sector * SEC + Second(c).at = Offset(c) + 1
<1> DEFINE s == First(c).sector
           p == First(c).at
<1>1. s \in Nat /\ s <= 11 /\ p \in 0 .. SEC - 1 /\ s * SEC + p = Offset(c)
  BY FirstIs
<1>2. CASE p = SEC - 1
  <2>1. Second(c).sector = (s + 1) % 256 /\ Second(c).at = 0
    BY <1>2 DEF Second
  <2> HIDE DEF s, p
  <2> QED
    BY <1>1, <1>2, <2>1 DEF SEC
<1>3. CASE p # SEC - 1
  <2>1. Second(c).sector = s /\ Second(c).at = p + 1
    BY <1>3 DEF Second
  <2> HIDE DEF s, p
  <2> QED
    BY <1>1, <1>3, <2>1 DEF SEC, Offset
<1> QED
  BY <1>2, <1>3

\* A byte of a FAT by its sector and offset is the byte of the flat FAT.
LEMMA FlatAt ==
  ASSUME NEW spf \in Nat, NEW disk \in FatSectors(spf),
         NEW s \in Nat, NEW p \in 0 .. SEC - 1, s * SEC + p < spf * SEC
  PROVE  /\ s \in 0 .. spf - 1
         /\ Flat(disk, spf)[s * SEC + p] = disk[s][p]
         /\ disk[s][p] \in Byte
<1>1. s \in 0 .. spf - 1
  BY DEF SEC
<1>2. s * SEC + p \in 0 .. spf * SEC - 1
  BY <1>1 DEF SEC
<1>3. (s * SEC + p) \div SEC = s /\ (s * SEC + p) % SEC = p
  BY DEF SEC
<1>4. disk[s] \in [0 .. SEC - 1 -> Byte]
  BY <1>1 DEF FatSectors
<1> QED
  BY <1>1, <1>2, <1>3, <1>4 DEF Flat

\* Two places in a FAT are the same address only if they are the same place.
LEMMA PlaceOf ==
  ASSUME NEW spf \in Nat, NEW a \in 0 .. spf * SEC - 1,
         NEW s \in Nat, NEW p \in 0 .. SEC - 1
  PROVE  /\ a \div SEC \in 0 .. spf - 1 /\ a % SEC \in 0 .. SEC - 1
         /\ a = s * SEC + p <=> (a \div SEC = s /\ a % SEC = p)
BY DEF SEC

\* Writing one byte in its sector writes one byte of the flat FAT.
LEMMA FlatPut ==
  ASSUME NEW spf \in Nat, NEW disk \in FatSectors(spf), NEW b \in Byte, NEW q,
         q.sector \in Nat, q.at \in 0 .. SEC - 1, q.sector * SEC + q.at < spf * SEC
  PROVE  /\ Put(disk, q, b) \in FatSectors(spf)
         /\ Flat(Put(disk, q, b), spf) = [Flat(disk, spf) EXCEPT ![q.sector * SEC + q.at] = b]
<1> DEFINE s == q.sector
           p == q.at
           new == Put(disk, q, b)
<1>1. s \in 0 .. spf - 1 /\ p \in 0 .. SEC - 1
  BY FlatAt
<1>2. disk \in [0 .. spf - 1 -> [0 .. SEC - 1 -> Byte]]
  BY DEF FatSectors
<1>3. new = [disk EXCEPT ![s] = [@ EXCEPT ![p] = b]]
  BY DEF Put
<1>4. new \in [0 .. spf - 1 -> [0 .. SEC - 1 -> Byte]]
  BY <1>1, <1>2, <1>3
<1>5. \A a \in 0 .. spf * SEC - 1 :
        Flat(new, spf)[a] = [Flat(disk, spf) EXCEPT ![s * SEC + p] = b][a]
  <2> TAKE a \in 0 .. spf * SEC - 1
  <2>1. a \div SEC \in 0 .. spf - 1 /\ a % SEC \in 0 .. SEC - 1
    BY PlaceOf, <1>1
  <2>2. a = s * SEC + p <=> (a \div SEC = s /\ a % SEC = p)
    BY PlaceOf, <1>1
  <2>3. Flat(new, spf)[a] = new[a \div SEC][a % SEC]
    BY DEF Flat
  <2>4. [Flat(disk, spf) EXCEPT ![s * SEC + p] = b][a]
          = IF a = s * SEC + p THEN b ELSE disk[a \div SEC][a % SEC]
    BY DEF Flat
  <2> DEFINE x == a \div SEC
             y == a % SEC
  <2>5. new[x][y] = IF x = s /\ y = p THEN b ELSE disk[x][y]
    <3> HIDE DEF x, y, s, p, new
    <3> QED BY <1>1, <1>2, <1>3, <2>1 DEF x, y
  <2> QED
    BY <2>2, <2>3, <2>4, <2>5
<1> QED
  BY <1>4, <1>5 DEF Flat, FatSectors

---------------------------------------------------------------------------
\* The registers' arithmetic on a pair of bytes is the arithmetic on a word.
LEMMA EntryIs ==
  ASSUME NEW lo \in Byte, NEW hi \in Byte, NEW odd \in BOOLEAN
  PROVE  Entry(odd, lo, hi)
           = Widened(IF odd THEN (lo + 256 * hi) \div 16 ELSE (lo + 256 * hi) % 4096)
<1>1. CASE odd
  <2> DEFINE v == (lo + 256 * hi) \div 16
             r0 == lo \div 16 + ((hi * 16) % 256)
             r1 == (hi \div 16) % 16
  <2>1. /\ r0 \in 0 .. 255 /\ r1 \in 0 .. 15 /\ v = r0 + 256 * r1
    BY DEF Byte
  <2>2. Entry(odd, lo, hi) = r0 + 256 * (IF r1 = 15 /\ r0 >= 247 THEN 255 ELSE r1)
    BY <1>1 DEF Entry
  <2> HIDE DEF v, r0, r1
  <2>3. Entry(odd, lo, hi) = Widened(v)
    BY <2>1, <2>2 DEF Widened
  <2> QED
    BY <1>1, <2>3 DEF v
<1>2. CASE ~odd
  <2> DEFINE v == (lo + 256 * hi) % 4096
             r1 == hi % 16
  <2>1. /\ r1 \in 0 .. 15 /\ v = lo + 256 * r1
    BY DEF Byte
  <2>2. Entry(odd, lo, hi) = lo + 256 * (IF r1 = 15 /\ lo >= 247 THEN 255 ELSE r1)
    BY <1>2 DEF Entry
  <2> HIDE DEF v, r1
  <2>3. Entry(odd, lo, hi) = Widened(v)
    BY <2>1, <2>2 DEF Widened, Byte
  <2> QED
    BY <1>2, <2>3 DEF v
<1> QED
  BY <1>1, <1>2

\* fat_get of a FAT12 volume (fat.asm) reads, from one sector or from two, what
\* sim12's ref_get reads in the whole FAT.
THEOREM GetRight ==
  ASSUME NEW spf \in Nat, NEW disk \in FatSectors(spf),
         NEW c \in Nat, c <= 4095, Offset(c) + 1 < spf * SEC
  PROVE  KernelGet(disk, c) = RefGet(Flat(disk, spf), c)
<1> DEFINE lo == ByteAt(disk, First(c))
           hi == ByteAt(disk, Second(c))
<1>1. lo = Flat(disk, spf)[Offset(c)] /\ lo \in Byte
  <2>1. First(c).sector \in Nat /\ First(c).at \in 0 .. SEC - 1
        /\ First(c).sector * SEC + First(c).at = Offset(c)
    BY FirstIs
  <2>2. Offset(c) < spf * SEC
    BY OffsetFits DEF SEC
  <2> QED
    BY <2>1, <2>2, FlatAt DEF ByteAt
<1>2. hi = Flat(disk, spf)[Offset(c) + 1] /\ hi \in Byte
  <2>1. Second(c).sector \in Nat /\ Second(c).at \in 0 .. SEC - 1
        /\ Second(c).sector * SEC + Second(c).at = Offset(c) + 1
    BY SecondIs
  <2> QED
    BY <2>1, FlatAt DEF ByteAt
<1>3. Odd(c) \in BOOLEAN
  BY DEF Odd
<1>4. KernelGet(disk, c) = Entry(Odd(c), lo, hi)
  BY DEF KernelGet
<1> HIDE DEF lo, hi
<1>5. Entry(Odd(c), lo, hi)
        = Widened(IF Odd(c) THEN (lo + 256 * hi) \div 16 ELSE (lo + 256 * hi) % 4096)
  BY <1>1, <1>2, <1>3, EntryIs
<1> QED
  BY <1>1, <1>2, <1>4, <1>5 DEF RefGet, Get12

\* A value's twelve bits w, as fat_set's shifts leave them in RB's two halves.
LEMMA LowIs ==
  ASSUME NEW v \in Nat, v <= 65535
  PROVE  /\ v % 4096 \in Nat /\ v % 4096 <= 4095
         /\ (v * 16) % 256 = ((v % 4096) % 16) * 16
         /\ v % 256 = (v % 4096) % 256
         /\ (v \div 256) % 16 = (v % 4096) \div 256
         /\ (v % 256) \div 16 + (((v \div 256) * 16) % 256) = (v % 4096) \div 16
<1> DEFINE w == v % 4096
<1>1. w \in Nat /\ w <= 4095
  OBVIOUS
<1>2. (v * 16) % 256 = (w % 16) * 16
  OBVIOUS
<1>3. v % 256 = w % 256
  OBVIOUS
<1>4. (v \div 256) % 16 = w \div 256
  OBVIOUS
<1>5. (v % 256) \div 16 + (((v \div 256) * 16) % 256) = w \div 16
  OBVIOUS
<1> QED BY <1>1, <1>2, <1>3, <1>4, <1>5

\* A byte with one half of its own and the other of w, and the other bytes of w.
LEMMA BytesIn ==
  ASSUME NEW w \in Nat, w <= 4095, NEW b \in Byte
  PROVE  /\ (b % 16) + (w % 16) * 16 \in Byte
         /\ w % 256 \in Byte /\ w \div 16 \in Byte
         /\ (b \div 16) * 16 + w \div 256 \in Byte
<1>1. (b % 16) + (w % 16) * 16 \in Byte
  BY DEF Byte
<1>2. w % 256 \in Byte
  BY DEF Byte
<1>3. w \div 16 \in Byte
  BY DEF Byte
<1>4. (b \div 16) * 16 + w \div 256 \in Byte
  BY DEF Byte
<1> QED BY <1>1, <1>2, <1>3, <1>4

\* w comes back from the two bytes of an odd entry, and of an even one.
LEMMA OddBack ==
  ASSUME NEW w \in Nat, w <= 4095, NEW lo \in Byte
  PROVE  (((lo % 16) + (w % 16) * 16) + 256 * (w \div 16)) \div 16 = w
  BY DEF Byte

LEMMA EvenBack ==
  ASSUME NEW w \in Nat, w <= 4095, NEW hi \in Byte
  PROVE  ((w % 256) + 256 * ((hi \div 16) * 16 + w \div 256)) % 4096 = w
  BY DEF Byte
\* The neighbour's twelve bits, when the half it does not use is overwritten.
LEMMA HighKept ==
  ASSUME NEW w \in Nat, w <= 4095, NEW lo \in Byte, NEW hi \in Byte
  PROVE ((lo \div 16) * 16 + w \div 256 + 256 * hi) \div 16 = (lo + 256 * hi) \div 16
  BY DEF Byte

LEMMA LowKept ==
  ASSUME NEW w \in Nat, w <= 4095, NEW lo \in Byte, NEW hi \in Byte
  PROVE (lo + 256 * ((hi % 16) + (w % 16) * 16)) % 4096 = (lo + 256 * hi) % 4096
  BY DEF Byte

\* fat_set of a FAT12 volume (fat.asm), which changes half of one byte and all of
\* another, in one sector or in two, changes what sim12's ref_set changes.
THEOREM SetRight ==
  ASSUME NEW spf \in Nat, NEW disk \in FatSectors(spf), NEW v \in Word,
         NEW c \in Nat, c <= 4095, Offset(c) + 1 < spf * SEC
  PROVE  /\ KernelSet(disk, c, v) \in FatSectors(spf)
         /\ Flat(KernelSet(disk, c, v), spf) = RefSet(Flat(disk, spf), c, v)
<1> DEFINE o == Offset(c)
           fat == Flat(disk, spf)
           rb == OnDisk(Odd(c), v)
           first == (IF Odd(c) THEN ByteAt(disk, First(c)) % 16 ELSE 0) + rb.lo
           half == Put(disk, First(c), first)
           second == (IF Odd(c) THEN 0 ELSE (ByteAt(half, Second(c)) \div 16) * 16) + rb.hi
           w == v % 4096
<1>1. /\ First(c).sector \in Nat /\ First(c).at \in 0 .. SEC - 1
      /\ First(c).sector * SEC + First(c).at = o /\ o < spf * SEC
      /\ Second(c).sector \in Nat /\ Second(c).at \in 0 .. SEC - 1
      /\ Second(c).sector * SEC + Second(c).at = o + 1
  BY FirstIs, SecondIs, OffsetFits DEF SEC
<1>2. Odd(c) \in BOOLEAN /\ o \in Nat
  BY OffsetFits DEF Odd
<1>3. ByteAt(disk, First(c)) = fat[o] /\ fat[o] \in Byte /\ fat[o + 1] \in Byte
  BY <1>1, FlatAt DEF ByteAt
<1>r. /\ w \in Nat /\ w <= 4095
      /\ Odd(c) => rb.lo = (w % 16) * 16 /\ rb.hi = w \div 16
      /\ ~Odd(c) => rb.lo = w % 256 /\ rb.hi = w \div 256
  <2>1. v \in Nat /\ v <= 65535
    BY DEF Word
  <2>2. w \in Nat /\ w <= 4095 /\ (v * 16) % 256 = (w % 16) * 16 /\ v % 256 = w % 256
        /\ (v \div 256) % 16 = w \div 256
        /\ (v % 256) \div 16 + (((v \div 256) * 16) % 256) = w \div 16
    BY <2>1, LowIs
  <2>3. Odd(c) => rb.lo = (v * 16) % 256
                  /\ rb.hi = (v % 256) \div 16 + (((v \div 256) * 16) % 256)
    BY DEF OnDisk
  <2>4. ~Odd(c) => rb.lo = v % 256 /\ rb.hi = (v \div 256) % 16
    BY DEF OnDisk
  <2> HIDE DEF rb, w
  <2> QED BY <2>2, <2>3, <2>4
<1>4. first \in Byte /\ first = (IF Odd(c) THEN (fat[o] % 16) + (w % 16) * 16 ELSE w % 256)
  <2>1. w \in Nat /\ w <= 4095
    BY <1>r
  <2>2. CASE Odd(c)
    <3>1. rb.lo = (w % 16) * 16
      <4> HIDE DEF second, half, first, rb, w, o, fat
      <4> QED BY <1>r, <2>2
    <3>2. first = (fat[o] % 16) + rb.lo
      BY <1>3, <2>2
    <3> HIDE DEF first, rb, w, o, fat
    <3>3. (fat[o] % 16) + (w % 16) * 16 \in Byte
      BY <1>3, <2>1, BytesIn
    <3> QED BY <2>2, <3>1, <3>2, <3>3
  <2>3. CASE ~Odd(c)
    <3>1. rb.lo = w % 256
      <4> HIDE DEF second, half, first, rb, w, o, fat
      <4> QED BY <1>r, <2>3
    <3>2. first = 0 + rb.lo
      BY <2>3
    <3> HIDE DEF first, rb, w, o, fat
    <3>3. w % 256 \in Byte /\ 0 + (w % 256) = w % 256
      BY <1>3, <2>1, BytesIn
    <3>4. first = w % 256
      BY <2>1, <3>1, <3>2, <3>3
    <3> QED BY <2>3, <3>3, <3>4
  <2> QED BY <2>2, <2>3
<1>5. half \in FatSectors(spf) /\ Flat(half, spf) = [fat EXCEPT ![o] = first]
  <2> HIDE DEF first
  <2> QED BY <1>1, <1>4, FlatPut
<1>6. ByteAt(half, Second(c)) = fat[o + 1]
  <2>1. ByteAt(half, Second(c)) = Flat(half, spf)[o + 1]
    <3> DEFINE s == Second(c).sector
               p == Second(c).at
    <3> HIDE DEF half, s, p
    <3>1. half \in FatSectors(spf) /\ s \in Nat /\ p \in 0 .. SEC - 1 /\ s * SEC + p < spf * SEC
          /\ s * SEC + p = o + 1
      BY <1>1, <1>5 DEF s, p
    <3>2. Flat(half, spf)[s * SEC + p] = half[s][p]
      BY <3>1, FlatAt
    <3> QED BY <3>1, <3>2 DEF ByteAt, s, p
  <2>2. Flat(half, spf)[o + 1] = fat[o + 1]
    <3>1. o + 1 \in DOMAIN fat /\ o # o + 1
      BY <1>1, <1>2 DEF Flat, SEC
    <3> HIDE DEF half, first, fat, o
    <3> QED BY <1>5, <3>1
  <2> QED BY <2>1, <2>2
<1>7. second \in Byte /\ second = (IF Odd(c) THEN w \div 16 ELSE (fat[o + 1] \div 16) * 16 + w \div 256)
  <2>1. w \in Nat /\ w <= 4095
    BY <1>r
  <2>2. CASE Odd(c)
    <3>1. rb.hi = w \div 16
      <4> HIDE DEF second, half, first, rb, w, o, fat
      <4> QED BY <1>r, <2>2
    <3>2. second = 0 + rb.hi
      BY <2>2
    <3> HIDE DEF second, half, first, rb, w, o, fat
    <3>3. w \div 16 \in Byte /\ 0 + w \div 16 = w \div 16
      BY <1>3, <2>1, BytesIn
    <3> QED BY <2>2, <3>1, <3>2, <3>3
  <2>3. CASE ~Odd(c)
    <3>1. rb.hi = w \div 256
      <4> HIDE DEF second, half, first, rb, w, o, fat
      <4> QED BY <1>r, <2>3
    <3>2. second = (fat[o + 1] \div 16) * 16 + rb.hi
      BY <1>6, <2>3
    <3> HIDE DEF second, half, first, rb, w, o, fat
    <3>3. (fat[o + 1] \div 16) * 16 + w \div 256 \in Byte
      BY <1>3, <2>1, BytesIn
    <3> QED BY <2>3, <3>1, <3>2, <3>3
  <2> QED BY <2>2, <2>3
<1>8. KernelSet(disk, c, v) = Put(half, Second(c), second)
  BY DEF KernelSet
<1>9. /\ Put(half, Second(c), second) \in FatSectors(spf)
      /\ Flat(Put(half, Second(c), second), spf) = [Flat(half, spf) EXCEPT ![o + 1] = second]
  <2> DEFINE q == Second(c)
  <2>1. q.sector \in Nat /\ q.at \in 0 .. SEC - 1 /\ q.sector * SEC + q.at = o + 1
        /\ q.sector * SEC + q.at < spf * SEC
    BY <1>1
  <2> HIDE DEF half, second, first, rb, w, o, fat, q
  <2>2. /\ Put(half, q, second) \in FatSectors(spf)
        /\ Flat(Put(half, q, second), spf) = [Flat(half, spf) EXCEPT ![q.sector * SEC + q.at] = second]
    <3>1. half \in FatSectors(spf)
      BY <1>5
    <3>2. second \in Byte
      BY <1>7
    <3> QED BY <2>1, <3>1, <3>2, FlatPut
  <2>3. q = Second(c)
    BY DEF q
  <2> QED BY <2>1, <2>2, <2>3
<1>10. [[fat EXCEPT ![o] = first] EXCEPT ![o + 1] = second] = RefSet(fat, c, v)
  <2> HIDE DEF first, second
  <2>1. CASE Odd(c)
    BY <2>1, <1>2, <1>4, <1>7 DEF RefSet
  <2>2. CASE ~Odd(c)
    BY <2>2, <1>2, <1>4, <1>7 DEF RefSet
  <2> QED BY <2>1, <2>2
<1> HIDE DEF half, second, first, rb, w, o, fat
<1>11. Flat(Put(half, Second(c), second), spf) = RefSet(fat, c, v)
  BY <1>5, <1>9, <1>10
<1> QED
  BY <1>8, <1>9, <1>11 DEF fat

---------------------------------------------------------------------------
\* The bytes of a FAT after RefSet: bytes, and those of no other entry changed.
LEMMA SetBytes ==
  ASSUME NEW spf \in Nat, NEW fat \in FatBytes(spf), NEW v \in Word,
         NEW c \in Nat, Offset(c) + 1 < spf * SEC
  PROVE  LET o == Offset(c)
             w == v % 4096
             new == RefSet(fat, c, v)
         IN  /\ new \in FatBytes(spf)
             /\ new[o] = (IF Odd(c) THEN (fat[o] % 16) + (w % 16) * 16 ELSE w % 256)
             /\ new[o + 1] = (IF Odd(c) THEN w \div 16 ELSE (fat[o + 1] \div 16) * 16 + w \div 256)
             /\ \A a \in 0 .. spf * SEC - 1 : a \notin {o, o + 1} => new[a] = fat[a]
<1> DEFINE o == Offset(c)
           w == v % 4096
<1>1. o \in 0 .. spf * SEC - 1 /\ o + 1 \in 0 .. spf * SEC - 1 /\ o # o + 1
  BY DEF Offset, SEC
<1>2. fat[o] \in Byte /\ fat[o + 1] \in Byte
  BY <1>1 DEF FatBytes
<1> v \in Nat /\ v <= 65535
  BY DEF Word
<1>3. w \in Nat /\ w <= 4095
  BY LowIs
<1>4. /\ w % 256 \in Byte /\ w \div 16 \in Byte /\ (fat[o] % 16) + (w % 16) * 16 \in Byte
      /\ (fat[o + 1] \div 16) * 16 + w \div 256 \in Byte
  <2> HIDE DEF o, w
  <2>1. w % 256 \in Byte /\ w \div 16 \in Byte
    BY <1>2, <1>3, BytesIn
  <2>2. (fat[o] % 16) + (w % 16) * 16 \in Byte
    BY <1>2, <1>3, BytesIn
  <2>3. (fat[o + 1] \div 16) * 16 + w \div 256 \in Byte
    BY <1>2, <1>3, BytesIn
  <2> QED BY <2>1, <2>2, <2>3
<1> HIDE DEF o, w
<1>5. CASE Odd(c)
  <2>1. RefSet(fat, c, v) = [fat EXCEPT ![o] = (fat[o] % 16) + (w % 16) * 16, ![o + 1] = w \div 16]
    BY <1>5 DEF RefSet, o, w
  <2> QED BY <1>1, <1>4, <1>5, <2>1 DEF FatBytes, o, w
<1>6. CASE ~Odd(c)
  <2>1. RefSet(fat, c, v)
          = [fat EXCEPT ![o] = w % 256, ![o + 1] = (fat[o + 1] \div 16) * 16 + w \div 256]
    BY <1>1, <1>6 DEF RefSet, o, w, FatBytes
  <2> QED BY <1>1, <1>4, <1>6, <2>1 DEF FatBytes, o, w
<1> QED
  BY <1>5, <1>6

\* An entry written is the entry read, but for the bits above the twelfth.
THEOREM EntryKept ==
  ASSUME NEW spf \in Nat, NEW fat \in FatBytes(spf), NEW v \in Word,
         NEW c \in Nat, Offset(c) + 1 < spf * SEC
  PROVE  Get12(RefSet(fat, c, v), c) = v % 4096
<1> DEFINE o == Offset(c)
           w == v % 4096
           new == RefSet(fat, c, v)
<1>1. /\ new[o] = (IF Odd(c) THEN (fat[o] % 16) + (w % 16) * 16 ELSE w % 256)
      /\ new[o + 1] = (IF Odd(c) THEN w \div 16 ELSE (fat[o + 1] \div 16) * 16 + w \div 256)
  BY SetBytes
<1>2. fat[o] \in Byte /\ fat[o + 1] \in Byte
  BY DEF FatBytes, Offset, SEC
<1> v \in Nat /\ v <= 65535
  BY DEF Word
<1>w. w \in Nat /\ w <= 4095
  BY LowIs
<1>3. Get12(new, c) = IF Odd(c) THEN (new[o] + 256 * new[o + 1]) \div 16
                      ELSE (new[o] + 256 * new[o + 1]) % 4096
  BY DEF Get12
<1> DEFINE lo == fat[o]
           hi == fat[o + 1]
<1>4. CASE Odd(c)
  <2>1. Get12(new, c) = (((lo % 16) + (w % 16) * 16) + 256 * (w \div 16)) \div 16
    BY <1>1, <1>3, <1>4
  <2>2. lo \in Byte /\ w \in Nat /\ w <= 4095
    BY <1>2, <1>w
  <2> HIDE DEF lo, w
  <2>3. (((lo % 16) + (w % 16) * 16) + 256 * (w \div 16)) \div 16 = w
    BY <2>2, OddBack
  <2> QED BY <2>1, <2>3 DEF w, new
<1>5. CASE ~Odd(c)
  <2>1. Get12(new, c) = ((w % 256) + 256 * ((hi \div 16) * 16 + w \div 256)) % 4096
    BY <1>1, <1>3, <1>5
  <2>2. hi \in Byte /\ w \in Nat /\ w <= 4095
    BY <1>2, <1>w
  <2> HIDE DEF hi, w
  <2>3. ((w % 256) + 256 * ((hi \div 16) * 16 + w \div 256)) % 4096 = w
    BY <2>2, EvenBack
  <2> QED BY <2>1, <2>3 DEF w, new
<1> QED
  BY <1>4, <1>5

\* Every other entry is as it was, also the one that shares a byte with it.
THEOREM OthersKept ==
  ASSUME NEW spf \in Nat, NEW fat \in FatBytes(spf), NEW v \in Word,
         NEW c \in Nat, Offset(c) + 1 < spf * SEC,
         NEW d \in Nat, Offset(d) + 1 < spf * SEC, d # c
  PROVE  Get12(RefSet(fat, c, v), d) = Get12(fat, d)
<1> DEFINE o == Offset(c)
           p == Offset(d)
           w == v % 4096
           new == RefSet(fat, c, v)
<1>1. /\ new[o] = (IF Odd(c) THEN (fat[o] % 16) + (w % 16) * 16 ELSE w % 256)
      /\ new[o + 1] = (IF Odd(c) THEN w \div 16 ELSE (fat[o + 1] \div 16) * 16 + w \div 256)
      /\ \A a \in 0 .. spf * SEC - 1 : a \notin {o, o + 1} => new[a] = fat[a]
  BY SetBytes
<1>2. /\ p \in 0 .. spf * SEC - 1 /\ p + 1 \in 0 .. spf * SEC - 1
      /\ fat[p] \in Byte /\ fat[p + 1] \in Byte
  BY DEF FatBytes, Offset, SEC
<1> v \in Nat /\ v <= 65535
  BY DEF Word
<1>w. w \in Nat /\ w <= 4095
  BY LowIs
<1>3. \/ p \notin {o, o + 1} /\ p + 1 \notin {o, o + 1}
      \/ p = o + 1 /\ Odd(d) /\ ~Odd(c)
      \/ p + 1 = o /\ ~Odd(d) /\ Odd(c)
  BY DEF Offset, Odd
<1>4. CASE p \notin {o, o + 1} /\ p + 1 \notin {o, o + 1}
  BY <1>1, <1>2, <1>4 DEF Get12
<1>5. CASE p = o + 1 /\ Odd(d) /\ ~Odd(c)
  <2> DEFINE lo == fat[p]
             hi == fat[p + 1]
  <2>1. new[p] = (lo \div 16) * 16 + w \div 256
    BY <1>1, <1>5
  <2>2. new[p + 1] = hi
    BY <1>1, <1>2, <1>5 DEF Offset
  <2>3. Get12(new, d) = ((lo \div 16) * 16 + w \div 256 + 256 * hi) \div 16
        /\ Get12(fat, d) = (lo + 256 * hi) \div 16
    BY <1>5, <2>1, <2>2 DEF Get12
  <2>4. lo \in Byte /\ hi \in Byte /\ w \in Nat /\ w <= 4095
    BY <1>2, <1>w
  <2> HIDE DEF lo, hi, w
  <2>5. ((lo \div 16) * 16 + w \div 256 + 256 * hi) \div 16 = (lo + 256 * hi) \div 16
    BY <2>4, HighKept
  <2> QED BY <2>3, <2>5 DEF new
<1>6. CASE p + 1 = o /\ ~Odd(d) /\ Odd(c)
  <2> DEFINE lo == fat[p]
             hi == fat[p + 1]
  <2>1. new[p + 1] = (hi % 16) + (w % 16) * 16
    BY <1>1, <1>6
  <2>2. new[p] = lo
    BY <1>1, <1>2, <1>6 DEF Offset
  <2>3. Get12(new, d) = (lo + 256 * ((hi % 16) + (w % 16) * 16)) % 4096
        /\ Get12(fat, d) = (lo + 256 * hi) % 4096
    BY <1>6, <2>1, <2>2 DEF Get12
  <2>4. lo \in Byte /\ hi \in Byte /\ w \in Nat /\ w <= 4095
    BY <1>2, <1>w
  <2> HIDE DEF lo, hi, w
  <2>5. (lo + 256 * ((hi % 16) + (w % 16) * 16)) % 4096 = (lo + 256 * hi) % 4096
    BY <2>4, LowKept
  <2> QED BY <2>3, <2>5 DEF new
<1> QED
  BY <1>3, <1>4, <1>5, <1>6
---------------------------------------------------------------------------
LEMMA FlatIn ==
  ASSUME NEW spf \in Nat, NEW disk \in FatSectors(spf)
  PROVE  Flat(disk, spf) \in FatBytes(spf)
<1> SUFFICES ASSUME NEW a \in 0 .. spf * SEC - 1
             PROVE  disk[a \div SEC][a % SEC] \in Byte
  BY DEF Flat, FatBytes
<1>1. a \div SEC \in 0 .. spf - 1 /\ a % SEC \in 0 .. SEC - 1
  BY DEF SEC
<1> QED
  BY <1>1 DEF FatSectors

\* What the allocator and the file layer rely on (fat_append, fat_free_chain,
\* file.asm's walks along a chain): a cluster number or a mark that fat_set has
\* written on a FAT12 volume is what fat_get reads.
THEOREM LinkKept ==
  ASSUME NEW spf \in Nat, NEW disk \in FatSectors(spf),
         NEW v \in Word, v <= 4086 \/ v >= 65527,
         NEW c \in Nat, c <= 4095, Offset(c) + 1 < spf * SEC
  PROVE  KernelGet(KernelSet(disk, c, v), c) = v
<1> DEFINE new == KernelSet(disk, c, v)
<1>1. new \in FatSectors(spf) /\ Flat(new, spf) = RefSet(Flat(disk, spf), c, v)
  BY SetRight
<1>2. KernelGet(new, c) = Widened(Get12(Flat(new, spf), c))
  <2> HIDE DEF new
  <2> QED BY <1>1, GetRight DEF RefGet
<1>3. Get12(RefSet(Flat(disk, spf), c, v), c) = v % 4096
  BY FlatIn, EntryKept
<1>4. Widened(v % 4096) = v
  <2>1. v \in Nat /\ v <= 65535
    BY DEF Word
  <2>2. CASE v <= 4086
    <3>1. v % 4096 = v
      BY <2>1, <2>2
    <3> QED BY <2>1, <2>2, <3>1 DEF Widened
  <2>3. CASE v >= 65527
    <3>1. v % 4096 = v - 61440
      BY <2>1, <2>3
    <3> QED BY <2>1, <2>3, <3>1 DEF Widened
  <2> QED BY <2>2, <2>3
<1> QED
  BY <1>1, <1>2, <1>3, <1>4

\* And every other entry is read as before, though two entries share a byte.
THEOREM NeighbourKept ==
  ASSUME NEW spf \in Nat, NEW disk \in FatSectors(spf), NEW v \in Word,
         NEW c \in Nat, c <= 4095, Offset(c) + 1 < spf * SEC,
         NEW d \in Nat, d <= 4095, Offset(d) + 1 < spf * SEC, d # c
  PROVE  KernelGet(KernelSet(disk, c, v), d) = KernelGet(disk, d)
<1> DEFINE new == KernelSet(disk, c, v)
<1>1. new \in FatSectors(spf) /\ Flat(new, spf) = RefSet(Flat(disk, spf), c, v)
  BY SetRight
<1>2. KernelGet(new, d) = Widened(Get12(Flat(new, spf), d))
  <2> HIDE DEF new
  <2> QED BY <1>1, GetRight DEF RefGet
<1>3. KernelGet(disk, d) = Widened(Get12(Flat(disk, spf), d))
  BY GetRight DEF RefGet
<1>4. Get12(RefSet(Flat(disk, spf), c, v), d) = Get12(Flat(disk, spf), d)
  BY FlatIn, OthersKept
<1> QED
  BY <1>1, <1>2, <1>3, <1>4

---------------------------------------------------------------------------
\* The sector and the offset of a FAT16 entry.
LEMMA Kernel16Is ==
  ASSUME NEW c \in Nat, NEW spf \in Nat, 2 * c + 1 < spf * SEC
  PROVE  LET p == Kernel16(c)
             q == [p EXCEPT !.at = @ + 1]
         IN  /\ p.sector \in Nat /\ p.at \in 0 .. SEC - 1 /\ p.sector * SEC + p.at = 2 * c
             /\ p.sector * SEC + p.at < spf * SEC
             /\ q.sector \in Nat /\ q.at \in 0 .. SEC - 1 /\ q.sector * SEC + q.at = 2 * c + 1
<1> DEFINE s == c \div 256
           a == 2 * (c % 256)
<1>1. /\ s \in Nat /\ a \in 0 .. SEC - 1 /\ a + 1 \in 0 .. SEC - 1 /\ s * SEC + a = 2 * c
      /\ s * SEC + (a + 1) = 2 * c + 1 /\ 2 * c < spf * SEC
  BY DEF SEC
<1>2. Kernel16(c) = [sector |-> s, at |-> a]
  BY DEF Kernel16
<1> HIDE DEF s, a
<1>3. [Kernel16(c) EXCEPT !.at = @ + 1] = [sector |-> s, at |-> a + 1]
  BY <1>2
<1> QED
  BY <1>1, <1>2, <1>3

\* fat_get and fat_set of a FAT16 volume, by the two bytes of the cluster number,
\* are the tools' word at twice the number.
THEOREM Fat16Right ==
  ASSUME NEW spf \in Nat, NEW disk \in FatSectors(spf), NEW v \in Word,
         NEW c \in Nat, 2 * c + 1 < spf * SEC
  PROVE  /\ KernelGet16(disk, c) = Get16(Flat(disk, spf), c)
         /\ KernelSet16(disk, c, v) \in FatSectors(spf)
         /\ Flat(KernelSet16(disk, c, v), spf) = Set16(Flat(disk, spf), c, v)
<1> DEFINE p == Kernel16(c)
           q == [p EXCEPT !.at = @ + 1]
           fat == Flat(disk, spf)
           lo == v % 256
           hi == v \div 256
           half == Put(disk, p, lo)
<1>1. /\ p.sector \in Nat /\ p.at \in 0 .. SEC - 1 /\ p.sector * SEC + p.at = 2 * c
      /\ p.sector * SEC + p.at < spf * SEC
      /\ q.sector \in Nat /\ q.at \in 0 .. SEC - 1 /\ q.sector * SEC + q.at = 2 * c + 1
  BY Kernel16Is
<1>2. lo \in Byte /\ hi \in Byte
  <2>1. v \in Nat /\ v <= 65535
    BY DEF Word
  <2>2. v % 256 \in Byte
    BY <2>1 DEF Byte
  <2>3. v \div 256 \in Byte
    BY <2>1 DEF Byte
  <2> QED BY <2>2, <2>3
<1>3. KernelGet16(disk, c) = ByteAt(disk, p) + 256 * ByteAt(disk, q)
  BY DEF KernelGet16
<1>4. /\ KernelSet16(disk, c, v) = Put(half, q, hi)
  BY DEF KernelSet16
<1>5. Set16(fat, c, v) = [[fat EXCEPT ![2 * c] = lo] EXCEPT ![2 * c + 1] = hi]
  BY DEF Set16
<1> HIDE DEF p, q, lo, hi
<1>6. ByteAt(disk, p) = fat[2 * c] /\ ByteAt(disk, q) = fat[2 * c + 1]
  BY <1>1, FlatAt DEF ByteAt
<1>7. half \in FatSectors(spf) /\ Flat(half, spf) = [fat EXCEPT ![2 * c] = lo]
  BY <1>1, <1>2, FlatPut
<1> HIDE DEF half, fat
<1>8. /\ Put(half, q, hi) \in FatSectors(spf)
      /\ Flat(Put(half, q, hi), spf) = [Flat(half, spf) EXCEPT ![2 * c + 1] = hi]
  BY <1>1, <1>2, <1>7, FlatPut
<1>9. KernelGet16(disk, c) = Get16(fat, c)
  BY <1>3, <1>6 DEF Get16
<1>10. Flat(KernelSet16(disk, c, v), spf) = Set16(fat, c, v)
  BY <1>4, <1>5, <1>7, <1>8
<1> QED
  BY <1>4, <1>8, <1>9, <1>10 DEF fat

---------------------------------------------------------------------------
LEMMA BpbIs ==
  ASSUME NEW b \in Bpb
  PROVE  /\ b.nfats \in Nat /\ b.spf \in Nat /\ b.rsvd \in Nat /\ b.rootents \in Nat
         /\ b.tot16 \in Nat /\ b.tot32 \in Nat /\ b.spc \in Nat \ {0}
<1>1. \A x \in Word : x \in Nat
  BY DEF Word
<1>2. b.nfats \in Nat
  BY DEF Bpb, Byte
<1>3. b.spf \in Word /\ b.rsvd \in Word /\ b.rootents \in Word /\ b.tot16 \in Word
  BY DEF Bpb
<1>4. b.spf \in Nat
  BY <1>1, <1>3
<1>5. b.rsvd \in Nat
  BY <1>1, <1>3
<1>6. b.rootents \in Nat
  BY <1>1, <1>3
<1>7. b.tot16 \in Nat
  BY <1>1, <1>3
<1>8. b.tot32 \in Nat
  BY DEF Bpb
<1>9. b.spc \in {1, 2, 4, 8, 16, 32, 64, 128}
  BY DEF Bpb
<1>10. b.spc \in Nat \ {0}
  BY <1>9
<1> QED
  BY <1>2, <1>4, <1>5, <1>6, <1>7, <1>8, <1>10

\* krnboot's count of a volume's clusters, in words of 16, 24 and 32 bits, is
\* fatx.py's where the root directory is whole sectors, the sectors before the
\* data fit a word and the volume ends below sector 2^24: then the kernel and the
\* tools agree which volumes are FAT12, and none of their cluster numbers is one
\* that fat_get would show as a mark.
THEOREM KindRight ==
  ASSUME NEW b \in Bpb, NEW part \in Nat,
         part + Total(b) < Bits24, b.rootents % 16 = 0, Data0(b) < 65536, Data0(b) <= Total(b)
  PROVE  /\ KernelCount(b, part) = Count(b)
         /\ BpbFat16(b, part) <=> ~IsFat12(b)
         /\ IsFat12(b) => \A c \in 2 .. MaxClust(b, part) : Widened(c) = c
<1> DEFINE n == b.nfats * b.spf
           r == b.rsvd
           e == b.rootents \div 16
           t == Total(b)
           d == r + n + e
<1>1. n \in Nat /\ r \in Nat /\ e \in Nat /\ t \in Nat /\ b.rootents \in Nat /\ b.spc \in Nat \ {0}
  <2>1. b.nfats \in Nat /\ b.spf \in Nat /\ b.rsvd \in Nat /\ b.rootents \in Nat
        /\ b.tot16 \in Nat /\ b.tot32 \in Nat /\ b.spc \in Nat \ {0}
    BY BpbIs
  <2> QED BY <2>1 DEF Total
<1>2. (b.rootents * 32 + SEC - 1) \div SEC = e
  <2> DEFINE m == b.rootents
  <2>1. m \in Nat /\ m % 16 = 0 /\ e = m \div 16
    BY <1>1
  <2> HIDE DEF m, e
  <2>2. (m * 32 + SEC - 1) \div SEC = e
    BY <2>1 DEF SEC
  <2> QED BY <2>2 DEF m
<1>3. Data0(b) = d
  BY <1>2 DEF Data0, RootSec
<1>4. part + t < Bits24 /\ d < 65536 /\ d <= t
  BY <1>3
<1>5. /\ FatLba(b, part) = (part + r) % Bits24
      /\ RootLba(b, part) = (FatLba(b, part) + (n % 65536)) % Bits24
      /\ DataLba(b, part) = (RootLba(b, part) + e) % Bits24
  BY DEF DataLba, RootLba, FatLba
<1>6. KernelCount(b, part) = ((t - Before(b, part)) % Bits32) \div b.spc
  BY DEF KernelCount
<1>7. Count(b) = (t - d) \div b.spc
  BY <1>3 DEF Count
<1>8. BpbFat16(b, part) <=> KernelCount(b, part) + 1 >= 4086
  BY DEF BpbFat16, MaxClust
<1> HIDE DEF n, r, e, t
<1>9. DataLba(b, part) = part + d
  <2>1. FatLba(b, part) = part + r
    <3>1. (part + r) % Bits24 = part + r
      BY SMT, <1>1, <1>4 DEF Bits24
    <3> QED BY <1>5, <3>1
  <2>2. RootLba(b, part) = part + r + n
    <3>1. n % 65536 = n
      BY SMT, <1>1, <1>4
    <3>2. (part + r + n) % Bits24 = part + r + n
      BY SMT, <1>1, <1>4 DEF Bits24
    <3> QED BY <1>5, <2>1, <3>1, <3>2
  <2>3. DataLba(b, part) = part + r + n + e
    <3>1. (part + r + n + e) % Bits24 = part + r + n + e
      BY SMT, <1>1, <1>4 DEF Bits24
    <3> QED BY <1>5, <2>2, <3>1
  <2> QED BY <1>1, <2>3
<1> d \in Nat
  BY <1>1
<1> HIDE DEF d
<1>10. Before(b, part) = d
  BY <1>4, <1>9 DEF Before
<1>11. (t - d) % Bits32 = t - d
  BY SMT, <1>1, <1>4 DEF Bits24, Bits32
<1>12. KernelCount(b, part) = Count(b)
  BY <1>6, <1>7, <1>10, <1>11
<1>13. Count(b) \in Nat
  <2>1. t - d \in Nat
    BY <1>1, <1>4
  <2> QED BY <1>1, <1>7, <2>1
<1>14. BpbFat16(b, part) <=> ~IsFat12(b)
  BY <1>8, <1>12, <1>13 DEF IsFat12
<1>15. IsFat12(b) => \A c \in 2 .. MaxClust(b, part) : Widened(c) = c
  BY <1>12, <1>13 DEF IsFat12, MaxClust, Widened
<1> QED
  BY <1>12, <1>14, <1>15
=============================================================================
