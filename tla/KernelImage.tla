----------------------------- MODULE KernelImage -----------------------------
(* From the kernel's sources to the running kernel: make links, checks and    *)
(* splits (tools/split_kernel.py), the image is installed on the card or the  *)
(* non-volatile half is burned into ROM (tools/rom_info.py), and krnboot      *)
(* loads what is needed at every reset.  RAM keeps its contents over a reset, *)
(* ROM holds whatever was burned last, make may be run again after it failed. *)
EXTENDS KernelLink

CONSTANTS
  Sources,       \* what the developer may edit the sources into, a sequence
  KrnLoad,       \* where krnboot is loaded ($4400)
  KrnSectors,    \* KRNBOOT_SECTORS (5); its buffer is the last of them here
  Top,           \* the highest address ($FFFF)
  PerLine,       \* bytes of a record of the hex file (16)
  RelayLen,      \* bytes krnboot sets up below PROG_BASE, from IO_NBREAD_TARGET on (7)
  BootTables,    \* names of the kernel's objects that boot_init2 writes to
  Machines,      \* [rom |-> the first address of ROM, ramtop |-> what the BIOS reports]
  MaxEdits       \* bound: how often the sources are edited

\* What the tools rely on: the linker has one object for a public name and puts
\* each at an address, and the assembler and check_kernel_margin agree on every
\* constant, which is a number, and on every length that is checked.
Agree(src) ==
  /\ src.objs \in Seq({src.objs[k] : k \in DOMAIN src.objs})
  /\ \A k, l \in DOMAIN src.objs :
       src.objs[k].public /\ src.objs[l].public /\ src.objs[k].name = src.objs[l].name => k = l
  /\ \A k \in DOMAIN src.objs : Placed(src)[k] \in Nat /\ src.objs[k].bytes \in Nat
  /\ Linked(src).highest \in Nat
  /\ \A k \in Measured(src) : SizeOf(src, k) = src.objs[k].bytes
  /\ \A c \in DOMAIN src.equs :
       Value(src, c) # None => /\ Value(src, c)[1] \in Nat
                               /\ Assembled(src, c) = Value(src, c)[1]
  /\ \A c \in src.memmap :
       EvalEqu(ReadEqus(src), c) # None => EvalEqu(ReadEqus(src), c)[1] \in Nat
ASSUME SourceAssumption ==
  /\ Sources \in Seq({Sources[n] : n \in DOMAIN Sources})
  /\ \A n \in DOMAIN Sources : Agree(Sources[n])
ASSUME SizeAssumption == Threshold \in Nat \ {0} /\ PageSize \in Nat \ {0}

\* What boot_init2 writes to in the kernel: the tables of drives, which it finds
\* through DRIVE_DATA_PTR, the slots of K_TYPE, K_READ and K_NBREAD, and what
\* K_FAT_INIT and K_SHELL_INIT keep.
BootData(src) ==
  UNION {Within(src, Placed(src), k) :
           k \in {l \in DOMAIN src.objs : src.objs[l].name \in BootTables}}

\* What krnboot relies on in include/memmap.inc, kernel.inc and the kernel: the words
\* and BOOT_UNIT that it sets up, which are defined with PROG_BASE, are below krnboot
\* by more than a sector, NVK_BASE above it, addresses have 16 bits, and what
\* boot_init2 writes to is in the volatile region.
KrnEnd == KrnLoad + KrnSectors * SectorSize
InOrder(src) ==
  LET base == Assembled(src, "NVK_BASE")
      relay == Assembled(src, "IO_NBREAD_TARGET")
      out == Linked(src)
  IN  /\ base \in Nat /\ relay \in Nat
      /\ relay + SectorSize < KrnLoad /\ relay + RelayLen <= KrnLoad
      /\ KrnEnd + 1 < base /\ base + SectorSize <= Top + 1
      /\ out.highest <= Top
      /\ Relative(src) # {} => "IO_NBREAD_TARGET" \in Relative(src)
      /\ "kvol_end" \in DOMAIN out.symbols =>
           BootData(src) \subseteq KernBase .. out.symbols["kvol_end"]
ASSUME MapAssumption ==
  /\ KernBase \in Nat \ {0} /\ SectorSize \in Nat \ {0} /\ PerLine \in Nat \ {0}
  /\ RelayLen \in Nat
  /\ KrnLoad \in Nat /\ KrnSectors \in Nat \ {0} /\ Top \in Nat
  /\ \A n \in DOMAIN Sources : InOrder(Sources[n])

\* krnboot is in RAM, and the BIOS counts that; or it counts so little that krnboot
\* does not go on.
ASSUME MachineAssumption ==
  \A m \in Machines :
    /\ m.rom \in Nat /\ KrnEnd <= m.rom
    /\ m.ramtop \in Nat
    /\ m.ramtop > KrnEnd \/ \A n \in DOMAIN Sources :
         m.ramtop \div PageSize < Assembled(Sources[n], "PROG_BASE") \div PageSize

\* pc: off, vol, test, wait, nv, last, sig, init, running, halted (with a message), hung
VARIABLES
  source,        \* which of the sources there are now
  edits,         \* how often they were edited
  bin,           \* kernel.bin: the sources it was linked from, None before
  knv,           \* kernel-rom.bin and .hex, None before
  full,          \* kernel-full.bin, None before
  card,          \* what is in the sectors of the disk from LBA 1 on, None before
  machine,       \* the machine, one of Machines
  mem,           \* its memory, RAM and ROM
  burned,        \* history: what is in ROM, None at first
  pc,            \* what krnboot is about to do
  cpu,           \* its registers: ra, rc, r7, sp
  busy,          \* the EEPROM is in a write cycle
  touched        \* history: addresses written since the reset, but for the test

buildVars == <<source, edits, bin, knv, full>>
bootVars == <<mem, pc, cpu, busy, touched>>
vars == <<buildVars, card, machine, burned, bootVars>>

---------------------------------------------------------------------------
\* split_kernel.  sectors(n); the bytes used in the last of them.
Sectors(n) == (n + SectorSize - 1) \div SectorSize

LastBytes(n) == n - (Sectors(n) - 1) * SectorSize

\* The two halves of what was linked; None if split_kernel refuses it.
Slices(s, out) ==
  LET words == ReadEqus(s)
      base == EvalEqu(words, "NVK_BASE")
      top == EvalEqu(words, "NVK_TOP")
  IN  IF \/ base = None \/ top = None
         \/ "kvol_end" \notin DOMAIN out.symbols
         \/ out.symbols["kvol_end"] >= base[1]
         \/ out.highest > top[1]
      THEN None
      ELSE LET From(a, b) == [n \in 1 .. b - a + 1 |-> out.bytes[a + n - 1]]
               vol == From(KernBase, out.symbols["kvol_end"])
               nv == From(base[1], out.highest)
           IN  IF nv # <<>> /\ nv[1] = Magic THEN <<[base |-> base[1], vol |-> vol, nv |-> nv]>> ELSE None

\* The words patched into krnboot's first sector.
HeaderWords(h) ==
  [vol |-> Sectors(Len(h.vol)), nv |-> Sectors(Len(h.nv)), last |-> LastBytes(Len(h.nv))]

\* A half padded to whole sectors.
PaddedToSector(s) ==
  [n \in 1 .. Sectors(Len(s)) * SectorSize |-> IF n <= Len(s) THEN s[n] ELSE Zero]

\* kernel-full.bin: krnboot, assembled with the constants of the same sources and
\* patched with the header; the volatile image; the non-volatile image.
Image(n, h) ==
  [of |-> n, hdr |-> HeaderWords(h), bytes |-> PaddedToSector(h.vol) \o h.nv,
   at |-> [c \in {"NVK_BASE", "PROG_BASE", "IO_NBREAD_TARGET"} |-> Assembled(Sources[n], c)]]

\* intel_hex: records of PerLine bytes, each with its address.
HexRecords(data, base) ==
  {[addr |-> (base + k * PerLine) % (Top + 1),
    data |-> SubSeq(data, k * PerLine + 1, Min({(k + 1) * PerLine, Len(data)}))] :
   k \in 0 .. (Len(data) - 1) \div PerLine}

---------------------------------------------------------------------------
\* What the tools make of each of the sources, once for all.
Names == DOMAIN Sources
Each(f) == SubSeq(f, 1, Len(Sources))
Out == Each([s \in Names |-> Linked(Sources[s])])
Passes == Each([s \in Names |-> MarginOK(Sources[s], Out[s])])
Halves == Each([s \in Names |-> Slices(Sources[s], Out[s])])

\* The developer's side.
Edit(s) ==
  /\ edits < MaxEdits /\ s # source
  /\ source' = s /\ edits' = edits + 1
  /\ UNCHANGED <<bin, knv, full, card, machine, burned, bootVars>>

\* make kernel.bin: the link writes the file, then it is checked; a failed check
\* (not Passes[source]) stops make, and leaves the file.
MakeKernel ==
  /\ bin # <<source>>
  /\ bin' = <<source>>
  /\ UNCHANGED <<source, edits, knv, full, card, machine, burned, bootVars>>

\* make kernel-full.bin: kernel.bin is newer, whatever became of its check.  A
\* krnboot of another length ends the tool after the half for ROM is written.
MakeFull ==
  /\ bin = <<source>> /\ source \notin {i.of : i \in ToSet(full)} /\ Halves[source] # None
  /\ knv' = <<[of |-> source, base |-> Halves[source][1].base, nv |-> Halves[source][1].nv]>>
  /\ full' = IF Sources[source].boot = KrnSectors * SectorSize
             THEN <<Image(source, Halves[source][1])>> ELSE full
  /\ UNCHANGED <<source, edits, bin, card, machine, burned, bootVars>>

\* elfdos-sys.sh: the header must add up with the file's sectors.
Install ==
  /\ pc = "off" /\ full # None /\ card # full
  /\ \A i \in ToSet(full) :
       i.hdr.vol # 0 /\ i.hdr.nv # 0 /\ i.hdr.vol + i.hdr.nv = Sectors(Len(i.bytes))
  /\ card' = full
  /\ UNCHANGED <<buildVars, machine, burned, bootVars>>

\* rom_info says where the image belongs; the hex file carries the address.
RomInfoOK(nv) ==
  LET words == ReadEqus(Sources[source])
      top == EvalEqu(words, "NVK_TOP")
      base == EvalEqu(words, "NVK_BASE")
  IN  /\ base # None /\ top # None /\ EvalEqu(words, "NVK_SIG_LEN") # None
      /\ nv[1] = Magic
      /\ base[1] + Len(nv) - 1 <= top[1]
Burnt(recs, a) ==
  LET of == {r \in recs : a \in r.addr .. r.addr + Len(r.data) - 1}
  IN  IF of = {} THEN mem[a] ELSE LET r == CHOOSE r \in of : TRUE IN r.data[a - r.addr + 1]
Burn ==
  /\ pc = "off" /\ knv # None /\ knv[1].of = source /\ burned # <<source>>
  /\ RomInfoOK(knv[1].nv) /\ machine.rom <= knv[1].base
  /\ mem' = [a \in DOMAIN mem |-> Burnt(HexRecords(knv[1].nv, knv[1].base), a)]
  /\ burned' = <<source>>
  /\ UNCHANGED <<buildVars, card, machine, pc, cpu, busy, touched>>

---------------------------------------------------------------------------
\* krnboot.  Its constants are those of the sources it was built from.
Base == card[1].at["NVK_BASE"]
ProgBase == card[1].at["PROG_BASE"]
Relay == card[1].at["IO_NBREAD_TARGET"] .. card[1].at["IO_NBREAD_TARGET"] + RelayLen - 1
Hdr == card[1].hdr
Scratch == KrnLoad + (KrnSectors - 1) * SectorSize
IsRom(a) == a >= machine.rom

\* Sector lba of the card; krnboot's own come first.
Sector(lba) ==
  LET b == PaddedToSector(card[1].bytes)
      from == (lba - KrnSectors - 1) * SectorSize
  IN  [n \in 1 .. SectorSize |-> IF from + n \in DOMAIN b THEN b[from + n] ELSE Cell("disk", 0)]

\* n bytes written to memory from address a on: ROM keeps what it holds, and an
\* EEPROM starts a write cycle.
Write(a, bytes, n) ==
  LET at == [b \in DOMAIN mem |-> (b - a) % (Top + 1)]
      to == {b \in DOMAIN mem : at[b] < n}
  IN  /\ mem' = [b \in DOMAIN mem |-> IF b \in to /\ ~IsRom(b) THEN bytes[at[b] + 1] ELSE mem[b]]
      /\ touched' = touched \cup to
      /\ busy' = (busy \/ \E b \in to : IsRom(b))

\* The BIOS can be called and will return; krnboot has not been overwritten.
Intact == \A a \in KrnLoad .. Scratch - 1 : mem[a] = Cell("krn", a)
StackFree == touched \cap {cpu.sp - 1, cpu.sp} = {}
Alive == ~busy /\ Intact /\ StackFree

Halt == pc' = "halted" /\ UNCHANGED <<mem, cpu, busy, touched>>
Stays == UNCHANGED <<buildVars, card, machine, burned>>

\* krnboot goes on in a chip that cannot be read, or where it or its stack was
\* written over.
Hang ==
  /\ pc \in {"vol", "test", "nv", "last", "sig", "init"} /\ ~Alive
  /\ pc' = "hung" /\ UNCHANGED <<mem, cpu, busy, touched>> /\ Stays

\* The MBR has loaded krnboot, and its stack is below it.
Reset ==
  /\ pc = "off" /\ card # None
  /\ pc' = IF Hdr.vol = 0 THEN "halted" ELSE "vol"
  /\ cpu' = [ra |-> KernBase, rc |-> Hdr.vol, r7 |-> KrnSectors + 1, sp |-> KrnLoad - 1]
  /\ mem' = [a \in DOMAIN mem |->
               IF a \in KrnLoad .. KrnLoad + KrnSectors * SectorSize - 1 THEN Cell("krn", a) ELSE mem[a]]
  /\ busy' = FALSE /\ touched' = {}
  /\ Stays

PowerOff ==
  /\ pc \in {"running", "halted", "hung"}
  /\ pc' = "off" /\ UNCHANGED <<mem, cpu, busy, touched>> /\ Stays

ReadError ==                                     \* f_ideread, DF = 1: load_err
  /\ Alive /\ pc \in {"vol", "nv"} /\ (pc = "vol" => cpu.rc > 0) /\ Halt /\ Stays

\* load_sectors: rc sectors from r7 to memory at ra.
LoadSector ==
  /\ Alive /\ pc \in {"vol", "nv"} /\ cpu.rc > 0
  /\ Write(cpu.ra, Sector(cpu.r7), SectorSize)
  /\ cpu' = [cpu EXCEPT !.ra = @ + SectorSize, !.rc = @ - 1, !.r7 = @ + 1]
  /\ UNCHANGED pc /\ Stays

VolLoaded ==
  /\ Alive /\ pc = "vol" /\ cpu.rc = 0
  /\ pc' = "test" /\ UNCHANGED <<mem, cpu, busy, touched>> /\ Stays

\* Mutant: an image already in RAM is believed.
TestRamSig ==
  /\ Alive /\ pc = "test" /\ ~IsRom(Base)
  /\ LET sp == Min({machine.ramtop, Base - 1})
     IN  IF sp \div PageSize < ProgBase \div PageSize THEN Halt
         ELSE /\ cpu' = [cpu EXCEPT !.sp = sp, !.rc = Hdr.nv - 1, !.ra = Base]
              /\ pc' = IF mem[Base] = Magic /\ mem[Base + 1] = Version THEN "init" ELSE "nv"
              /\ UNCHANGED <<mem, busy, touched>>
  /\ Stays

\* NVK_BASE takes what is written: RAM.  The stack goes below the image that is
\* about to be loaded, whatever was there.
TestRam ==
  /\ Alive /\ pc = "test" /\ ~IsRom(Base)
  /\ LET sp == Min({machine.ramtop, Base - 1})
     IN  IF sp \div PageSize < ProgBase \div PageSize THEN Halt
         ELSE /\ cpu' = [cpu EXCEPT !.sp = sp, !.rc = Hdr.nv - 1, !.ra = Base]
              /\ pc' = IF Hdr.nv = 0 THEN "halted" ELSE "nv"
              /\ UNCHANGED <<mem, busy, touched>>
  /\ Stays

\* It does not: ROM, and the test may have started a write cycle, which is
\* waited for before the BIOS is called.
TestRom ==
  /\ Alive /\ pc = "test" /\ IsRom(Base)
  /\ pc' = "wait" /\ busy' = TRUE
  /\ cpu' = [cpu EXCEPT !.sp = IF machine.ramtop < Base THEN machine.ramtop ELSE Scratch + SectorSize - 1]
  /\ UNCHANGED <<mem, touched>> /\ Stays
Waited ==
  /\ pc = "wait" /\ busy' = FALSE
  /\ pc' = IF machine.ramtop >= Base \/ cpu.sp \div PageSize < ProgBase \div PageSize
           THEN "halted" ELSE "sig"
  /\ UNCHANGED <<mem, cpu, touched>> /\ Stays

\* The last sector is read into a buffer, and the bytes of the image are copied.
LoadLast ==
  /\ Alive /\ pc = "nv" /\ cpu.rc = 0
  /\ Write(Scratch, Sector(cpu.r7), SectorSize)
  /\ pc' = "last" /\ UNCHANGED cpu /\ Stays
Buffered == [n \in 1 .. SectorSize |-> mem[Scratch + n - 1]]

\* Mutant: all of the buffer is copied.
CopyWhole ==
  /\ Alive /\ pc = "last"
  /\ Write(cpu.ra, Buffered, SectorSize)
  /\ pc' = "sig" /\ UNCHANGED cpu /\ Stays

CopyLast ==
  /\ Alive /\ pc = "last"
  /\ Write(cpu.ra, Buffered, Hdr.last)
  /\ pc' = "sig" /\ UNCHANGED cpu /\ Stays

CheckSig ==                                      \* check_nvk_sig
  /\ Alive /\ pc = "sig"
  /\ pc' = IF mem[Base] = Magic /\ mem[Base + 1] = Version THEN "init" ELSE "halted"
  /\ UNCHANGED <<mem, cpu, busy, touched>> /\ Stays

\* boot_init2 reads the partition table and the volumes into its buffer, and writes
\* to those of the kernel's tables and slots that the disk and the BIOS ask for;
\* a disk that cannot be read or that has no shell stops it.
SetUp(to) ==
  /\ mem' = [b \in DOMAIN mem |-> IF b \in to /\ ~IsRom(b) THEN Cell("boot", 0) ELSE mem[b]]
  /\ touched' = touched \cup to
  /\ busy' = (busy \/ \E b \in to : IsRom(b))
InTables == BootData(Sources[card[1].of])
InBuffer == Scratch .. Scratch + SectorSize - 1
Init2Fails ==                                    \* boot_kern_err, boot_no_shell_err
  /\ Alive /\ pc = "init"
  /\ \E to \in SUBSET InTables : SetUp(InBuffer \cup to)
  /\ pc' = "halted" /\ UNCHANGED cpu /\ Stays

\* What programs will find below PROG_BASE is written last: the last volatile
\* sector may reach there.
Init2 ==
  /\ Alive /\ pc = "init"
  /\ \E to \in SUBSET InTables : SetUp(InBuffer \cup to \cup Relay)
  /\ pc' = "running" /\ UNCHANGED cpu /\ Stays

Krnboot ==
  \/ LoadSector \/ VolLoaded \/ TestRam \/ TestRom \/ Waited \/ LoadLast \/ CopyLast
  \/ CheckSig \/ Init2 \/ Init2Fails \/ ReadError \/ Hang

Init ==
  /\ source \in Names /\ edits = 0 /\ bin = None /\ knv = None /\ full = None
  /\ card = None /\ machine \in Machines /\ burned = None
  /\ mem = [a \in 0 .. Top |-> Zero]
  /\ pc = "off" /\ cpu = [ra |-> 0, rc |-> 0, r7 |-> 0, sp |-> 0] /\ busy = FALSE /\ touched = {}

Next ==
  \/ \E s \in Names : Edit(s)
  \/ MakeKernel \/ MakeFull \/ Install \/ Burn \/ Reset \/ PowerOff \/ Krnboot

Spec == Init /\ [][Next]_vars

---------------------------------------------------------------------------
\* What check_kernel_margin is for: in an image made from sources it has passed,
\* every buffer that it can measure is inside what the tools take for the
\* kernel, nothing of the volatile region is where the shell and the programs
\* write, and the fields of every file control block are where file.asm, which
\* adds to the low byte of the address only, looks for them.
FieldAt(a, f) == (a \div PageSize) * PageSize + (((a % PageSize) + f) % PageSize)
EndsBy(src, k, a) == Placed(src)[k] + src.objs[k].bytes - 1 <= a
LaidOut(src, out) ==
  LET at == Placed(src)
      end == out.symbols["kvol_end"]
  IN  /\ \A k \in Measured(src) :
           \/ EndsBy(src, k, end)
           \/ at[k] >= Assembled(src, "NVK_BASE") /\ EndsBy(src, k, out.highest)
      /\ \A c \in Relative(src) : Assembled(src, c) > end
      /\ \A k \in Fcbs(src), f \in 0 .. FcbLen(src) - 1 : FieldAt(at[k], f) = at[k] + f
Protected == Each([n \in Names |-> Halves[n] # None => LaidOut(Sources[n], Out[n])])
MarginHolds == \A i \in ToSet(full) : Passes[i.of] => Protected[i.of]

\* When the kernel starts, memory holds what the linker wrote, every byte of it
\* at its own address, whatever an earlier kernel has left in RAM, but for the
\* tables and slots that boot_init2 has filled; and what krnboot has set up for
\* the programs is there (split_kernel's slices and counts, the installer,
\* load_sectors, nv_copy, boot_init2).  A kernel in ROM is the one on the card only
\* if it was burned from the same sources; sources that failed the check may have
\* the words below PROG_BASE in the volatile region.
LoadedAsLinked ==
  pc = "running" =>
    LET out == Out[card[1].of]
    IN  /\ ~IsRom(Base) \/ burned = <<card[1].of>> =>
             \A a \in Base .. out.highest : mem[a] = out.bytes[a]
        /\ Passes[card[1].of] =>
             /\ \A a \in (KernBase .. out.symbols["kvol_end"]) \ InTables : mem[a] = out.bytes[a]
             /\ \A a \in Relay : mem[a] = Cell("boot", 0)

\* A boot writes to the two regions, to krnboot's buffer and to the words it sets
\* up below PROG_BASE (krnboot's variables and stack apart), and never above the
\* last byte of the image, where an EEPROM would stop the machine (nv_copy,
\* load_sectors, boot_init2, the test of NVK_BASE and the delay).  With sources
\* that passed the check it does not hang, on a machine with all of the region
\* in ROM or all of it in RAM.
VolEnd == KernBase + Hdr.vol * SectorSize - 1
Fits == IsRom(Base) \/ machine.rom > Assembled(Sources[card[1].of], "NVK_TOP")
NothingElseWritten ==
  pc # "off" =>
    /\ touched \subseteq (KernBase .. VolEnd) \cup (Base .. Out[card[1].of].highest)
                          \cup InBuffer \cup Relay
    /\ Passes[card[1].of] /\ Fits => pc # "hung"
==============================================================================
