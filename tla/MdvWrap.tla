------------------------------ MODULE MdvWrap ------------------------------
(* The row builder of MDV, the Markdown viewer (tools/mdvref.py, classes   *)
(* Out and Wrap): characters with a wanted style become rows of at most W  *)
(* columns.  A row is a sequence of cells: a glyph, or an escape sequence  *)
(* that sets the terminal's style to exactly `sty' (None: the reset).  The *)
(* bytes of an escape sequence are left out, its length is kept.  n is the *)
(* number of a text glyph in `said' (0: prefix), so that what the reader   *)
(* sees can be compared with what was to be shown.                         *)
EXTENDS Integers, Sequences, FiniteSets, FiniteSetsExt

CONSTANTS
  W,           \* columns of a row: the terminal's width less one
  Plain,       \* -p: no escape sequences
  RowBytes     \* a row with more bytes is broken (900 in the code)

VARIABLES
  rows,        \* Out.rows: the rows printed; Out.any_out is rows # <<>>
  needBlank,   \* Out.need_blank: a blank row comes before the next row
  frame,       \* the block's parameters: words, fp, cp, base
  started,     \* a row is being built
  row,         \* that row: rb, col, pcol, rstyle, brk
  said         \* history: each character given to put, and its style

wrapVars == <<rows, needBlank, frame, started, row, said>>

None == <<>>                                    \* a Python None

Space == " "
Tab == "tab"
Pipe == "pipe"                                  \* a vertical bar
Ctl == "ctl"                                    \* a control character or DEL
Cont == "cont"                                  \* a UTF-8 continuation byte

Glyph(c, n) == [k |-> "glyph", c |-> c, sty |-> None, n |-> n]
Esc(sty) == [k |-> "esc", c |-> "", sty |-> sty, n |-> 0]

\* What the escape functions write: nothing at all in plain mode.
StyleBytes(base, st) == IF Plain THEN <<>> ELSE <<Esc(<<[base |-> base, st |-> st]>>)>>
ResetBytes == IF Plain THEN <<>> ELSE <<Esc(None)>>

Visible(cell) == cell.k = "glyph" /\ cell.c # Cont
VisAt(r) == {i \in DOMAIN r : Visible(r[i])}
Vis(r) == Cardinality(VisAt(r))

BaseLen == [none |-> 0, h1 |-> 7, h2 |-> 5, h3 |-> 5, h4 |-> 2, mark |-> 1, bar |-> 1]
BitLen == [B |-> 2, I |-> 2, L |-> 2, C |-> 3, U |-> 3]
CellLen(cell) ==
  IF cell.k = "glyph" THEN 1
  ELSE IF cell.sty = None THEN 4
  ELSE 4 + BaseLen[cell.sty[1].base] + MapThenSumSet(LAMBDA b : BitLen[b], cell.sty[1].st)
Bytes(r) == MapThenSumSet(LAMBDA i : CellLen(r[i]), DOMAIN r)

---------------------------------------------------------------------------
\* Prefixes: the cells of a row's beginning, and their columns.
Spaces(k) == [cells |-> [i \in 1 .. k |-> Glyph(Space, 0)], cols |-> k]
Marked(m, marker) ==
  [cells |-> Spaces(m).cells \o StyleBytes("mark", {})
               \o [i \in 1 .. Len(marker) |-> Glyph(marker[i], 0)] \o ResetBytes
               \o <<Glyph(Space, 0)>>,
   cols |-> m + Len(marker) + 1]
BarCells == StyleBytes("bar", {}) \o <<Glyph(Pipe, 0)>> \o ResetBytes
Bar == [cells |-> BarCells \o <<Glyph(Space, 0)>>, cols |-> 2]

FreshRow(p) == [rb |-> p.cells, col |-> p.cols, pcol |-> p.cols, rstyle |-> None, brk |-> None]

\* The rows before a new one is begun: a pending blank row is printed first.
Opened(rs) == IF needBlank /\ rs # <<>> THEN Append(rs, <<>>) ELSE rs

\* A row as it is printed, reset at its end if a style is in effect.
Ended(r) == r.rb \o IF r.rstyle # None THEN ResetBytes ELSE <<>>

\* The wanted style st put into effect before a visible byte.
Styled(r, st) ==
  IF st # {} \/ frame.base # "none"
  THEN IF r.rstyle = <<st>> THEN r
       ELSE [r EXCEPT !.rb = @ \o StyleBytes(frame.base, st), !.rstyle = <<st>>]
  ELSE IF r.rstyle = None THEN r
       ELSE [r EXCEPT !.rb = @ \o ResetBytes, !.rstyle = None]

Added(r, cell, cols) == [r EXCEPT !.rb = Append(@, cell), !.col = @ + cols]

\* Mutant: the style at the break is not put into effect again.
MovedUnstyled(r) ==
  LET rest == SubSeq(r.rb, r.brk[1].at + 1, Len(r.rb))
      new == FreshRow(frame.cp)
  IN  [new EXCEPT !.rb = @ \o rest, !.rstyle = r.rstyle, !.col = @ + Vis(rest)]

\* The row that goes on after a break at the last space: what followed it,
\* in the style it was in.
Moved(r) ==
  LET b == r.brk[1]
      rest == SubSeq(r.rb, b.at + 1, Len(r.rb))
      new == FreshRow(frame.cp)
  IN  [new EXCEPT !.rb = @ \o (IF b.style = None THEN <<>> ELSE StyleBytes(frame.base, b.style[1]))
                           \o rest,
                  !.rstyle = r.rstyle,
                  !.col = @ + Vis(rest)]

\* Mutant: the style of the row's end is taken for the style at the break.
BeforeBreakAtEnd(r) == [r EXCEPT !.rb = SubSeq(@, 1, r.brk[1].at - 1)]

BeforeBreak(r) ==
  [r EXCEPT !.rb = SubSeq(@, 1, r.brk[1].at - 1), !.rstyle = r.brk[1].style]

---------------------------------------------------------------------------
\* The first row of a block, begun by the first put or by finish.
Row0 == IF started THEN row ELSE FreshRow(frame.fp)
Rows0 == IF started THEN rows ELSE Opened(rows)

\* Mutant: one column too many.
FullLate(r) == r.col > W \/ Bytes(r.rb) > RowBytes

Full(r) == r.col >= W \/ Bytes(r.rb) > RowBytes

\* Wrap.put: one character c in style st; its outcome depends on the kind of
\* character and on the room left.
PutNothing(c) ==                     \* control characters; leading spaces
  /\ \/ c = Ctl
     \/ c = Space /\ frame.words /\ Row0.col = Row0.pcol
  /\ row' = Row0 /\ rows' = Rows0

PutZeroWidth(c, n) ==
  /\ c = Cont
  /\ row' = Added(Row0, Glyph(c, n), 0) /\ rows' = Rows0

PutSpaceAtEnd(c) ==
  /\ c = Space /\ frame.words /\ Row0.col # Row0.pcol /\ Row0.col >= W
  /\ rows' = Append(Rows0, Ended(Row0)) /\ row' = FreshRow(frame.cp)

\* Mutant: the space is not remembered as a place to break at.
PutSpaceUnmarked(c, st, n) ==
  /\ c = Space /\ frame.words /\ Row0.col # Row0.pcol /\ Row0.col < W
  /\ row' = Added(Styled(Row0, st), Glyph(c, n), 1) /\ rows' = Rows0

PutSpace(c, st, n) ==
  /\ c = Space /\ frame.words /\ Row0.col # Row0.pcol /\ Row0.col < W
  /\ LET r == Styled(Row0, st)
     IN  row' = [Added(r, Glyph(c, n), 1)
                   EXCEPT !.brk = <<[at |-> Len(r.rb) + 1, style |-> r.rstyle]>>]
  /\ rows' = Rows0

Solid(c) == c \notin {Ctl, Cont} /\ ~(c = Space /\ frame.words)

PutInRow(c, st, n) ==
  /\ Solid(c) /\ ~Full(Row0)
  /\ row' = Added(Styled(Row0, st), Glyph(c, n), 1) /\ rows' = Rows0

PutAfterBreak(c, st, n) ==           \* the last word goes to the next row
  /\ Solid(c) /\ Full(Row0) /\ frame.words /\ Row0.brk # None
  /\ rows' = Append(Rows0, Ended(BeforeBreak(Row0)))
  /\ row' = Added(Styled(Moved(Row0), st), Glyph(c, n), 1)

PutAfterSplit(c, st, n) ==           \* a word longer than a row is split
  /\ Solid(c) /\ Full(Row0) /\ ~(frame.words /\ Row0.brk # None)
  /\ rows' = Append(Rows0, Ended(Row0))
  /\ row' = Added(Styled(FreshRow(frame.cp), st), Glyph(c, n), 1)

Wanted(st) == IF st # {} \/ frame.base # "none" THEN <<[base |-> frame.base, st |-> st]>> ELSE None

Put(ch, st) ==
  LET c == IF ch = Tab THEN Space ELSE ch
      n == Len(said) + 1
  IN  /\ \/ PutNothing(c)
         \/ PutZeroWidth(c, n)
         \/ PutSpaceAtEnd(c)
         \/ PutSpace(c, st, n)
         \/ PutInRow(c, st, n)
         \/ PutAfterBreak(c, st, n)
         \/ PutAfterSplit(c, st, n)
      /\ started' = TRUE
      /\ needBlank' = FALSE
      /\ said' = Append(said, [c |-> c, want |-> Wanted(st), first |-> ~started,
                               words |-> frame.words])
      /\ UNCHANGED frame

\* Wrap.finish: the block's last row; a block without text is an empty row.
Finish ==
  /\ rows' = Append(Rows0, Ended(Row0))
  /\ started' = FALSE
  /\ needBlank' = FALSE
  /\ UNCHANGED <<frame, row, said>>

\* A Wrap made for a new block.
NewWrap(words, fp, cp, base) ==
  /\ frame' = [words |-> words, fp |-> fp, cp |-> cp, base |-> base]
  /\ started' = FALSE
  /\ UNCHANGED <<rows, needBlank, row, said>>

\* A row printed as it is: a rule, or the bar of an empty quote line.
PrintRow(cells) ==
  /\ rows' = Append(Opened(rows), cells)
  /\ needBlank' = FALSE
  /\ UNCHANGED <<frame, started, row, said>>

WrapInit ==
  /\ rows = <<>> /\ needBlank = FALSE /\ started = FALSE /\ said = <<>>
  /\ frame = [words |-> TRUE, fp |-> Spaces(0), cp |-> Spaces(0), base |-> "none"]
  /\ row = FreshRow(Spaces(0))
=============================================================================
