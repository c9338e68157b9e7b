----------------------------- MODULE KernelLink -----------------------------
(* The build of the kernel as its tools see it.  One link places two regions: *)
(* volatile objects from KernBase up to the marker kvol_end, and non-volatile *)
(* ones from NVK_BASE.  tools/check_kernel_margin.py reads the constants and  *)
(* the buffers from the sources, the addresses from the linker, and decides   *)
(* whether make goes on.                                                      *)
(*                                                                            *)
(* A source is what a developer edits:                                        *)
(*   equs    constants, each an expression as it is written;                  *)
(*   memmap  the names of those defined in include/memmap.inc;                *)
(*   objs    what is linked, in order: a name, whether it is public, written  *)
(*           bytes (db) or a reservation (ds), its size as it is written and  *)
(*           in bytes; "hdr" is the signature placed at NVK_BASE;             *)
(*   boot    the length of krnboot.bin.                                       *)
EXTENDS Integers, Sequences, FiniteSets, FiniteSetsExt, SequencesExt, TLC

CONSTANTS
  KernBase,      \* where the volatile image is placed ($0100)
  SectorSize,    \* 512
  PageSize,      \* 256: addresses are added to in their low byte only
  Threshold      \* --threshold: the margin asked for (16)

None == <<>>

---------------------------------------------------------------------------
\* Expressions: tokens, and how many of them come before the first blank.
Num(n) == [k |-> "num", n |-> n, s |-> ""]
Name(c) == [k |-> "name", n |-> 0, s |-> c]
Oper(o) == [k |-> "op", n |-> 0, s |-> o]
Text(toks) == [toks |-> toks, first |-> Len(toks)]

\* The value of tokens combined from left to right; None: the evaluation fails.
Combined(toks, ValueOf(_)) ==
  LET Operand(tok) == IF tok.k = "num" THEN <<tok.n>> ELSE ValueOf(tok.s)
      Apply(acc, k) ==
        LET o == toks[2 * k].s
            v == Operand(toks[2 * k + 1])
        IN  IF acc = None \/ v = None \/ o \notin {"*", "+", "-"} THEN None
            ELSE IF o = "*" THEN <<acc[1] * v[1]>>
            ELSE IF o = "+" THEN <<acc[1] + v[1]>> ELSE <<acc[1] - v[1]>>
  IN  FoldLeft(Apply, Operand(toks[1]), [k \in 1 .. Len(toks) \div 2 |-> k])

\* eval_expr: a name stands for its constant, unless that is being evaluated.
EvalExpr(equs, text) ==
  LET value[seen \in SUBSET DOMAIN equs, c \in STRING] ==
        IF c \in seen \/ c \notin DOMAIN equs THEN None
        ELSE Combined(equs[c].toks, LAMBDA d : value[seen \cup {c}, d])
  IN  Combined(text.toks, LAMBDA c : value[{}, c])

\* read_equs: only memmap.inc, and of each expression only the first word.
ReadEqus(src) ==
  [c \in src.memmap |-> SubSeq(src.equs[c].toks, 1, src.equs[c].first)]

\* eval_equ: a number or another constant, and nothing else.
EvalEqu(words, c) ==
  LET value[seen \in SUBSET DOMAIN words, d \in DOMAIN words] ==
        LET w == words[d]
        IN  IF Len(w) # 1 THEN None
            ELSE IF w[1].k = "num" THEN <<w[1].n>>
            ELSE IF w[1].k = "name" /\ w[1].s \in DOMAIN words \ seen
                 THEN value[seen \cup {w[1].s}, w[1].s]
            ELSE None
  IN  IF c \in DOMAIN words THEN value[{}, c] ELSE None

---------------------------------------------------------------------------
\* The link: an object follows the one before; "hdr" moves to NVK_BASE.  What
\* the assembler makes of the constants is what EvalExpr does.
Assembled(src, c) == EvalExpr(src.equs, Text(<<Name(c)>>))[1]

Header == [name |-> "nvk_sig", public |-> FALSE, kind |-> "hdr", size |-> Text(<<Num(2)>>), bytes |-> 2]

Placed(src) ==
  LET at[k \in 1 .. Len(src.objs)] ==
        IF src.objs[k].kind = "hdr" THEN Assembled(src, "NVK_BASE")
        ELSE IF k = 1 THEN KernBase
        ELSE at[k - 1] + src.objs[k - 1].bytes
  IN  at

\* A byte of memory or of a file: what wrote it, and a number.
Cell(of, at) == [of |-> of, at |-> at]
Zero == Cell("zero", 0)
Magic == Cell("NVK", 0)
Version == Cell("NVK", 1)

\* link02: the file written, from the lowest to the highest address written to
\* (reservations write nothing), and the addresses of the public names.
Written(src) == {k \in DOMAIN src.objs : src.objs[k].kind # "ds" /\ src.objs[k].bytes > 0}
Within(src, at, k) == at[k] .. at[k] + src.objs[k].bytes - 1
ByteOf(src, at, ks, a) ==
  IF ks = {} THEN Zero
  ELSE LET k == Max(ks)
       IN  IF src.objs[k].kind = "hdr" THEN Cell("NVK", a - at[k]) ELSE Cell(src.id, a)
Public(src, c) == {k \in DOMAIN src.objs : src.objs[k].public /\ src.objs[k].name = c}
Output(src, at) ==
  LET highest == Max(UNION {Within(src, at, k) : k \in Written(src)})
      listed == {c \in {src.objs[k].name : k \in DOMAIN src.objs} : Public(src, c) # {}}
  IN  [highest |-> highest,
       bytes |-> [a \in KernBase .. highest |->
                   ByteOf(src, at, {k \in Written(src) : a \in Within(src, at, k)}, a)],
       symbols |-> [c \in listed |-> at[CHOOSE k \in Public(src, c) : TRUE]]]
Linked(src) == Output(src, Placed(src))

---------------------------------------------------------------------------
\* check_kernel_margin, of the sources and what the linker made of them.  The
\* buffers whose addresses and sizes it knows; of the others it warns.
Buffers(src) == {k \in DOMAIN src.objs : src.objs[k].kind = "ds"}
Measured(src) ==
  {k \in Buffers(src) : src.objs[k].public /\ EvalExpr(src.equs, src.objs[k].size) # None}
SizeOf(src, k) == EvalExpr(src.equs, src.objs[k].size)[1]
Value(src, c) == EvalExpr(src.equs, src.equs[c])

\* (1) A buffer ends before the marker of the volatile region, or well before
\* the last byte written to the other one.
BufferFits(src, out, k) ==
  LET start == out.symbols[src.objs[k].name]
      end == start + SizeOf(src, k) - 1
  IN  IF start < Value(src, "NVK_BASE")[1]
      THEN end <= out.symbols["kvol_end"]
      ELSE out.highest - end >= Threshold

\* (2) The volatile region ends below the lowest of the addresses that the
\* shell and the programs share, those defined with PROG_BASE.
Relative(src) ==
  {c \in DOMAIN src.equs \ {"PROG_BASE"} :
     Name("PROG_BASE") \in ToSet(src.equs[c].toks) /\ Value(src, c) # None}

\* Mutant: the floor is PROG_BASE, not the addresses below it.
FloorAtProgBase(src, out) ==
  Value(src, "PROG_BASE")[1] - out.symbols["kvol_end"] >= Threshold

FloorClear(src, out) ==
  /\ Relative(src) # {}
  /\ Min({Value(src, c)[1] : c \in Relative(src)}) - out.symbols["kvol_end"] >= Threshold

\* (3) No file control block goes over the end of a page.
FcbLen(src) == IF "FCB_LEN" \in DOMAIN src.equs THEN Value(src, "FCB_LEN")[1] ELSE 32
Fcbs(src) == {k \in Measured(src) : SizeOf(src, k) = FcbLen(src)}
FcbsInPage(src, out) ==
  \A k \in Fcbs(src) : out.symbols[src.objs[k].name] % PageSize <= PageSize - FcbLen(src)

\* (4) The non-volatile region ends at or below its ceiling.
UnderCeiling(src, out) == out.highest <= Value(src, "NVK_TOP")[1]

\* main: whether make goes on.
Known(src, out) ==
  /\ {"NVK_BASE", "NVK_TOP"} \subseteq DOMAIN src.equs
  /\ \A c \in {"NVK_BASE", "NVK_TOP", "FCB_LEN"} \cap DOMAIN src.equs : Value(src, c) # None
  /\ "kvol_end" \in DOMAIN out.symbols
MarginOK(src, out) ==
  /\ Known(src, out)
  /\ \A k \in Measured(src) : BufferFits(src, out, k)
  /\ FloorClear(src, out) /\ FcbsInPage(src, out) /\ UnderCeiling(src, out)
=============================================================================
