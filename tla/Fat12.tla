------------------------------- MODULE Fat12 -------------------------------
(* The bytes of a FAT, for FAT12's entries of a byte and a half and FAT16's *)
(* of two: as the kernel reads and writes them through its cache of one     *)
(* sector (kernel/fat.asm), and as the tools of tools/fat12-proto do in the *)
(* whole FAT (fatx.py, sim12.py, which compare the two on random clusters). *)
(* Also which of the two a volume is: krnboot's arithmetic in words of 16,  *)
(* 24 and 32 bits against fatx.py's in integers.                            *)
(* FatCache's entries in two halves, and the marks fat_get shows, are these.*)
EXTENDS Integers

Byte == 0 .. 255
Word == 0 .. 65535
SEC == 512

\* A FAT as the sequence of its bytes, from 0; as sectors of SEC bytes.
FatBytes(spf) == [0 .. spf * SEC - 1 -> Byte]
FatSectors(spf) == [0 .. spf - 1 -> [0 .. SEC - 1 -> Byte]]
Flat(disk, spf) == [a \in 0 .. spf * SEC - 1 |-> disk[a \div SEC][a % SEC]]

---------------------------------------------------------------------------
\* The tools: where an entry begins, and its value of 12 bits or of 16.
Offset(c) == c + c \div 2
Odd(c) == c % 2 = 1

Get12(fat, c) ==
  LET w == fat[Offset(c)] + 256 * fat[Offset(c) + 1]
  IN  IF Odd(c) THEN w \div 16 ELSE w % 4096

\* Marks of 12 bits are shown as those of 16.
Widened(v) == IF v >= 4087 THEN v + 61440 ELSE v
RefGet(fat, c) == Widened(Get12(fat, c))

RefSet(fat, c, value) ==
  LET o == Offset(c)
      v == value % 4096
  IN  IF Odd(c)
      THEN [fat EXCEPT ![o] = (@ % 16) + (v % 16) * 16, ![o + 1] = v \div 16]
      ELSE [fat EXCEPT ![o] = v % 256, ![o + 1] = (@ \div 16) * 16 + v \div 256]

Get16(fat, c) == fat[2 * c] + 256 * fat[2 * c + 1]
Set16(fat, c, v) == [fat EXCEPT ![2 * c] = v % 256, ![2 * c + 1] = v \div 256]

---------------------------------------------------------------------------
\* The kernel.  _f12_locate: the sector and the offset of an entry's first byte,
\* in registers of 16 bits; _f12_second: those of its second byte, the sector
\* number counted in 8 bits.
R7(c) == (c \div 2 + c) % 65536
First(c) == [sector |-> R7(c) \div SEC, at |-> R7(c) % SEC]
Second(c) ==
  IF First(c).at = SEC - 1 THEN [sector |-> (First(c).sector + 1) % 256, at |-> 0]
  ELSE [sector |-> First(c).sector, at |-> First(c).at + 1]
ByteAt(disk, p) == disk[p.sector][p.at]

\* fat_get of a FAT12 entry: the bytes lo and hi, shifted in register R8.
Entry(odd, lo, hi) ==
  LET r0 == IF odd THEN lo \div 16 + ((hi * 16) % 256) ELSE lo
      r1 == (IF odd THEN hi \div 16 ELSE hi) % 16
  IN  r0 + 256 * (IF r1 = 15 /\ r0 >= 247 THEN 255 ELSE r1)
KernelGet(disk, c) == Entry(Odd(c), ByteAt(disk, First(c)), ByteAt(disk, Second(c)))

\* fat_set: the value as it lies on the disk, in register RB; of the first byte
\* an odd cluster keeps the low half, of the second an even one the high half.
OnDisk(odd, v) ==
  IF odd THEN [hi |-> (v % 256) \div 16 + (((v \div 256) * 16) % 256), lo |-> (v * 16) % 256]
  ELSE [hi |-> (v \div 256) % 16, lo |-> v % 256]
Put(disk, p, b) == [disk EXCEPT ![p.sector] = [@ EXCEPT ![p.at] = b]]
KernelSet(disk, c, v) ==
  LET rb == OnDisk(Odd(c), v)
      first == (IF Odd(c) THEN ByteAt(disk, First(c)) % 16 ELSE 0) + rb.lo
      half == Put(disk, First(c), first)
      kept == IF Odd(c) THEN 0 ELSE (ByteAt(half, Second(c)) \div 16) * 16
  IN  Put(half, Second(c), kept + rb.hi)

\* FAT16: the high byte of the cluster is the sector, twice the low one the offset.
Kernel16(c) == [sector |-> c \div 256, at |-> 2 * (c % 256)]
KernelGet16(disk, c) ==
  LET p == Kernel16(c)
  IN  ByteAt(disk, p) + 256 * ByteAt(disk, [p EXCEPT !.at = @ + 1])
KernelSet16(disk, c, v) ==
  LET p == Kernel16(c)
  IN  Put(Put(disk, p, v % 256), [p EXCEPT !.at = @ + 1], v \div 256)

---------------------------------------------------------------------------
\* A volume's boot sector.
Bpb == [spc : {1, 2, 4, 8, 16, 32, 64, 128}, rsvd : Word, nfats : Byte, rootents : Word,
        spf : Word, tot16 : Word, tot32 : Nat]
Total(b) == IF b.tot16 # 0 THEN b.tot16 ELSE b.tot32

\* fatx.py: the root directory, the first sector of the data, the clusters.
RootSec(b) == b.rsvd + b.nfats * b.spf
Data0(b) == RootSec(b) + (b.rootents * 32 + SEC - 1) \div SEC
Count(b) == (Total(b) - Data0(b)) \div b.spc
IsFat12(b) == Count(b) < 4085

\* krnboot: sector numbers of 24 bits from the partition's, the product of the
\* FATs in 16 bits; the sectors before the data in 16 bits, the rest in 32.
Bits24 == 16777216
Bits32 == 4294967296
FatLba(b, part) == (part + b.rsvd) % Bits24
RootLba(b, part) == (FatLba(b, part) + ((b.nfats * b.spf) % 65536)) % Bits24
DataLba(b, part) == (RootLba(b, part) + b.rootents \div 16) % Bits24
Before(b, part) == (DataLba(b, part) - part) % 65536
KernelCount(b, part) == ((Total(b) - Before(b, part)) % Bits32) \div b.spc

\* A volume with too many clusters is left absent; of the others the count says
\* which kind they are (_switch_drive).
Absent(b, part) == KernelCount(b, part) >= 65525
MaxClust(b, part) == KernelCount(b, part) + 1
BpbFat16(b, part) == MaxClust(b, part) >= 4086
=============================================================================
