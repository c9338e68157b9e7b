--------------------------- MODULE MCKernelImage ---------------------------
(* Sources, machines and a scaled memory map for KernelImage: 64 addresses,   *)
(* sectors of four bytes, pages of eight.                                     *)
(*   4 .. 20 volatile   22 .. 24 relay words   26 PROG_BASE   32 .. 39 krnboot *)
(*   44 .. 55 non-volatile   56 .. 63 the BIOS's ROM                          *)
EXTENDS KernelImage

Equs ==
  [NVK_BASE |-> Text(<<Num(44)>>), NVK_TOP |-> Text(<<Num(55)>>),
   NVK_SIG_LEN |-> Text(<<Num(2)>>),
   PROG_BASE |-> Text(<<Num(26)>>),
   IO_NBREAD_TARGET |-> Text(<<Name("PROG_BASE"), Oper("-"), Num(4)>>),
   RUN_ARGC |-> Text(<<Name("PROG_BASE"), Oper("-"), Num(1)>>),
   FCB_LEN |-> Text(<<Num(4)>>), ITEMS |-> Text(<<Num(1)>>)]
Memmap == {"NVK_BASE", "NVK_TOP", "NVK_SIG_LEN"}

Db(c, n) == [name |-> c, public |-> FALSE, kind |-> "db", size |-> Text(<<Num(n)>>), bytes |-> n]
Ds(c, text, n) == [name |-> c, public |-> TRUE, kind |-> "ds", size |-> text, bytes |-> n]
Fcb == Ds("prog_fcb", Text(<<Name("FCB_LEN")>>), 4)
End == [Db("kvol_end", 1) EXCEPT !.public = TRUE]
Items(n) == Ds("items", Text(<<Name("ITEMS"), Oper("*"), Num(n)>>), n)

\* The jump table, the operands that krnboot fills, the tables of drives.
Vectors(n) == <<Db("jumps", n), Db("slots", 1), Db("drives", 1)>>

\* A kernel of so many bytes of code and data in each region.
Kernel(id, vol, nv) ==
  [id |-> id, equs |-> Equs, memmap |-> Memmap, boot |-> KrnSectors * SectorSize,
   objs |-> Vectors(2) \o <<Fcb, Items(2), Db("data", vol), End, Header, Db("code", nv)>>]
With(s, c, text) == [s EXCEPT !.equs = c :> text @@ @]

Unlisted(buf) == [buf EXCEPT !.public = FALSE]
Objects(s, objs) == [s EXCEPT !.objs = objs]
Spaced(n) == [toks |-> <<Num(n + 4), Oper("-"), Num(4)>>, first |-> 1]

MCSources ==
  LET k == Kernel("A", 3, 4)                     \* two sectors, the last half full
  IN  <<k,
       \* two whole ones, and a volatile region that ends where it may
       Kernel("B", 6, 6),
       \* moved up; its ceiling is another constant
       [With(With(Kernel("C", 3, 7), "NVK_BASE", Text(<<Num(46)>>)), "NVK_TOP", Text(<<Name("RAM_END")>>))
          EXCEPT !.equs = "RAM_END" :> Text(<<Num(55)>>) @@ @, !.memmap = @ \cup {"RAM_END"}],
       \* a volatile region over what programs use; over krnboot; over the other
       Kernel("D", 8, 4), Kernel("E", 20, 4), Kernel("F", 30, 4),
       \* a byte past NVK_TOP, which is written in two ways
       Kernel("G", 3, 11), With(Kernel("H", 3, 11), "NVK_TOP", Spaced(55)),
       \* an expression only one of the tools can evaluate
       With(Kernel("I", 3, 4), "NVK_TOP", Text(<<Num(51), Oper("+"), Num(4)>>)),
       \* nothing is defined with PROG_BASE
       With(With(Kernel("J", 3, 4), "IO_NBREAD_TARGET", Text(<<Num(22)>>)), "RUN_ARGC", Text(<<Num(25)>>)),
       \* file control block over the end of a page
       Objects(Kernel("K", 3, 4), Vectors(7) \o <<Fcb, End, Header, Db("code", 4)>>),
       \* a buffer after the marker, listed and not; at the end of the other region
       Objects(Kernel("L", 3, 4), Vectors(2) \o <<Fcb, End, Items(2), Header, Db("code", 4)>>),
       Objects(Kernel("M", 3, 4), Vectors(2) \o <<Fcb, End, Unlisted(Items(2)), Header, Db("code", 4)>>),
       Objects(Kernel("N", 3, 4), Vectors(2) \o <<Fcb, End, Header, Db("code", 4), Items(3)>>),
       \* no signature; no marker among the symbols; krnboot has grown
       Objects(Kernel("O", 3, 4), Vectors(2) \o <<Fcb, End, Db("code", 36)>>),
       Objects(Kernel("P", 3, 4), Vectors(2) \o <<Fcb, Db("kvol_end", 1), Header, Db("code", 4)>>),
       [Kernel("Q", 3, 4) EXCEPT !.boot = @ + SectorSize]>>

\* RAM below the BIOS; the kernel in ROM; RAM up to the middle of its place; a
\* BIOS that takes ROM for RAM, and one that finds too little of it.
MCMachines ==
  {[rom |-> 56, ramtop |-> 55], [rom |-> 44, ramtop |-> 43], [rom |-> 48, ramtop |-> 47],
   [rom |-> 44, ramtop |-> 60], [rom |-> 56, ramtop |-> 12]}
=============================================================================
