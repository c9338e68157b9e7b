-------------------------------- MODULE Mdv --------------------------------
(* MDV, the Markdown viewer (tools/mdvref.py, class Doc and render): lines *)
(* are read one by one; each adds to the block being gathered, or ends it  *)
(* and begins another.  What a line makes MDV print is put into `todo': a  *)
(* block to be rendered, a row of code, a rule, a bar, a blank row.        *)
EXTENDS MdvInline, SequencesExt

CONSTANTS
  Docs,        \* the documents: sequences of lines
  MaxIndent,   \* a list's indentation shown at most (8 in the code)
  MaxDigits    \* digits of a list number (9 in the code)

\* A prefix leaves at least one column: with 8 and 9 this is W >= 20, the
\* least width that MDV takes from its -w argument.
ASSUME WidthAssumption ==
  /\ MaxIndent \in Nat /\ MaxDigits \in Nat \ {0} /\ W \in Nat
  /\ W > MaxIndent + MaxDigits + 2

VARIABLES
  doc,         \* the fields of Doc
  lines,       \* the lines of the document not yet read
  ended,       \* Doc.end has been called
  todo         \* what is to be printed, in order

docVars == <<doc, lines, ended, todo>>
vars == <<wrapVars, inlineVars, docVars>>

NoKind == "none"
StartDoc ==
  [kind |-> NoKind, blk |-> <<>>, margin |-> 0, marker |-> <<>>, cont |-> 0, level |-> 0,
   inList |-> FALSE, listCont |-> 0, inFence |-> FALSE, fch |-> Nul, flen |-> 0, find |-> 0]

\* A line's parts: its indentation in columns, tabs to multiples of four, and
\* the rest.
Indented(L, p) == \A n \in 1 .. p : L[n] \in {Space, Tab}
Margin(L) == Max({p \in 0 .. Len(L) : Indented(L, p)})
Col4(L) ==
  LET col[p \in 0 .. Len(L)] ==
        IF p = 0 THEN 0 ELSE IF L[p] = Tab THEN ((col[p - 1] + 4) \div 4) * 4 ELSE col[p - 1] + 1
  IN  col
Indent(L) == Col4(L)[Margin(L)]
Strip(L) == SubSeq(L, Margin(L) + 1, Len(L))
RStrip(s) == SubSeq(s, 1, Max({0} \cup {n \in DOMAIN s : s[n] \notin {Space, Tab}}))
AllIn(s, S) == \A n \in DOMAIN s : s[n] \in S
Run(s) == IF s = <<>> THEN 0 ELSE RunLen(s \o <<Nul>>, 1, s[1])
Rest(s, k) == SubSeq(s, k + 1, Len(s))
BlankAt(s, k) == k > Len(s) \/ s[k] \in {Space, Tab}

---------------------------------------------------------------------------
\* What line L is, given the state d of the document, in the order in which
\* Doc.line asks.
FenceEnds(d, L) ==
  LET s == Strip(L)
  IN  /\ Indent(L) < 4 /\ s # <<>> /\ s[1] = d.fch
      /\ Run(s) >= d.flen /\ AllIn(Rest(s, Run(s)), {Space, Tab})

FenceOpens(L) ==
  LET s == Strip(L)
  IN  /\ Indent(L) < 4 /\ s[1] \in {Tick, "~"} /\ Run(s) >= 3
      /\ ~(s[1] = Tick /\ \E n \in Run(s) + 1 .. Len(s) : s[n] = Tick)

Underlines(d, L) ==
  LET s == Strip(L)
  IN  Indent(L) < 4 /\ d.kind = "para" /\ s[1] \in {"=", "-"} /\ AllIn(RStrip(s), {s[1]})

IsRule(L) ==
  LET s == Strip(L)
  IN  /\ Indent(L) < 4 /\ s[1] \in {"-", "*", "_"} /\ AllIn(s, {s[1], Space, Tab})
      /\ Cardinality({n \in DOMAIN s : s[n] = s[1]}) >= 3

IsAtx(L) ==
  LET s == Strip(L) IN Indent(L) < 4 /\ s[1] = "#" /\ Run(s) <= 6 /\ BlankAt(s, Run(s) + 1)

\* The marker of a list item and the length of what stands for it; None.
Bullet(L) ==
  LET s == Strip(L)
  IN  IF s[1] \in {"-", "*", "+"} /\ BlankAt(s, 2)
      THEN <<[mk |-> IF Indent(L) = 0 THEN <<"*">> ELSE <<"-">>, len |-> 1]>> ELSE None
Number(L) ==
  LET s == Strip(L)
      ends == {q \in 1 .. MaxDigits : /\ q < Len(s) /\ AllIn(SubSeq(s, 1, q), Digits)
                                     /\ s[q + 1] \in {".", ")"} /\ BlankAt(s, q + 2)}
  IN  IF ends = {} THEN None
      ELSE LET q == CHOOSE e \in ends : TRUE
           IN  <<[mk |-> SubSeq(s, 1, q + 1), len |-> q + 1]>>
ListMarker(d, L) ==
  IF Indent(L) >= (IF d.inList THEN 64 ELSE 4) THEN None
  ELSE IF Bullet(L) # None THEN Bullet(L) ELSE Number(L)

\* A quoted line's text: each mark and one space after it go, then blanks.
QuoteText(s) ==
  LET past[q \in 0 .. Len(s)] ==
        IF q < Len(s) /\ s[q + 1] = ">"
        THEN past[IF q + 1 < Len(s) /\ s[q + 2] = Space THEN q + 2 ELSE q + 1] ELSE q
  IN  Strip(Rest(s, past[0]))

LineKind(d, L) ==
  LET s == Strip(L)
      c == s[1]
  IN  CASE d.inFence /\ FenceEnds(d, L)  -> "fence end"
        [] d.inFence /\ ~FenceEnds(d, L) -> "fence text"
        [] ~d.inFence /\ s = <<>>        -> "blank"
        [] OTHER ->
     IF FenceOpens(L) THEN "fence"
     ELSE IF Underlines(d, L) THEN "underline"
     ELSE IF IsRule(L) THEN "rule"
     ELSE IF IsAtx(L) THEN "heading"
     ELSE IF ListMarker(d, L) # None THEN "item"
     ELSE IF Indent(L) < 4 /\ c = ">" THEN IF QuoteText(s) = <<>> THEN "bar" ELSE "quote"
     ELSE IF Indent(L) < 4 /\ c = Pipe THEN "table"
     ELSE IF Indent(L) >= 4 /\ ~d.inList /\ d.kind = NoKind THEN "code"
     ELSE IF d.kind \in {"para", "list", "quote"} THEN "more text"
     ELSE "text"

---------------------------------------------------------------------------
\* Doc.flush: the block gathered is to be rendered as it is now.
Flushed(d) == [d EXCEPT !.kind = NoKind, !.blk = <<>>]
Flush(d) == IF d.kind = NoKind THEN <<>> ELSE <<[op |-> "block", d |-> d]>>

Op(o) == [op |-> o, d |-> StartDoc]
CodeRow(s) == [op |-> "code", d |-> [StartDoc EXCEPT !.blk = s]]

\* Doc.start: the block before is flushed, one of this kind begins with s.
Started(d, kind, s) == [d EXCEPT !.kind = kind, !.blk = s]

\* Code: at most the fence's indentation, or four columns, is taken off.
CodeText(L, k, S) ==
  Rest(L, Max({p \in 0 .. Len(L) : (p = 0 \/ Col4(L)[p - 1] < k) /\ AllIn(SubSeq(L, 1, p), S)}))

\* A heading's text without the closing number signs.
Heading(s) ==
  LET c == RStrip(Strip(Rest(s, Run(s))))
      e == Max({0} \cup {n \in DOMAIN c : c[n] # "#"})
  IN  IF e = 0 \/ c[e] \in {Space, Tab} THEN RStrip(SubSeq(c, 1, e)) ELSE c

\* One line of a kind: the document's new state and what is to be printed.
Ready == todo = <<>> /\ ~ended
Line(L, kind, d, ops) ==
  /\ LineKind(doc, L) = kind
  /\ doc' = d /\ todo' = ops /\ lines' = Tail(lines)
  /\ UNCHANGED <<ended, wrapVars, inlineVars>>

NotInList(d) == [d EXCEPT !.inList = FALSE]

FenceEnd(L) == Line(L, "fence end", [doc EXCEPT !.inFence = FALSE], <<>>)
FenceText(L) == Line(L, "fence text", doc, <<CodeRow(CodeText(L, doc.find, {Space}))>>)
BlankLine(L) == Line(L, "blank", Flushed(doc), Flush(doc) \o <<Op("blank")>>)
FenceOpen(L) ==
  LET s == Strip(L)
  IN  Line(L, "fence", [NotInList(Flushed(doc)) EXCEPT !.inFence = TRUE, !.fch = s[1],
                          !.flen = Run(s), !.find = Indent(L)], Flush(doc))
Underline(L) ==
  LET d == [doc EXCEPT !.kind = "head", !.level = IF Strip(L)[1] = "=" THEN 1 ELSE 2]
  IN  Line(L, "underline", NotInList(Flushed(d)), Flush(d))
RuleLine(L) == Line(L, "rule", NotInList(Flushed(doc)), Flush(doc) \o <<Op("rule")>>)
HeadingLine(L) ==
  LET s == Strip(L)
      d == [Started(doc, "head", Heading(s)) EXCEPT !.level = Run(s)]
  IN  Line(L, "heading", NotInList(Flushed(d)), Flush(doc) \o Flush(d))
ListItem(L) ==
  LET s == Strip(L)
      m == ListMarker(doc, L)[1]
      margin == IF Indent(L) \in 0 .. MaxIndent THEN Indent(L) ELSE MaxIndent
      cont == margin + Len(m.mk) + 1
  IN  Line(L, "item", [Started(doc, "list", Strip(Rest(s, m.len))) EXCEPT
             !.margin = margin, !.marker = m.mk, !.cont = cont,
             !.inList = TRUE, !.listCont = cont], Flush(doc))
QuoteBar(L) == Line(L, "bar", Flushed(doc), Flush(doc) \o <<Op("bar")>>)
QuoteLine(L) ==
  LET c == QuoteText(Strip(L))
  IN  IF doc.kind = "quote"
      THEN Line(L, "quote", NotInList([doc EXCEPT !.blk = @ \o <<Space>> \o c]), <<>>)
      ELSE Line(L, "quote", NotInList(Started(doc, "quote", c)), Flush(doc))
TableRow(L) ==
  LET d == Started(doc, "table", Strip(L))
  IN  Line(L, "table", NotInList(Flushed(d)), Flush(doc) \o Flush(d))
CodeLine(L) == Line(L, "code", doc, <<CodeRow(CodeText(L, 4, {Space, Tab}))>>)
MoreText(L) ==
  Line(L, "more text",
       [doc EXCEPT !.blk = (IF @ = <<>> THEN <<>> ELSE @ \o <<Space>>) \o Strip(L)], <<>>)
TextLine(L) ==
  LET d == Started(IF Indent(L) = 0 THEN NotInList(doc) ELSE doc, "para", Strip(L))
  IN  Line(L, "text", [d EXCEPT !.margin = IF d.inList THEN d.listCont ELSE 0], Flush(doc))

ReadLine ==
  /\ Ready /\ lines # <<>>
  /\ LET L == Head(lines)
     IN  \/ FenceEnd(L) \/ FenceText(L) \/ BlankLine(L) \/ FenceOpen(L) \/ Underline(L)
         \/ RuleLine(L) \/ HeadingLine(L) \/ ListItem(L) \/ QuoteBar(L) \/ QuoteLine(L)
         \/ TableRow(L) \/ CodeLine(L) \/ MoreText(L) \/ TextLine(L)

\* Doc.end, after the last line.
End ==
  /\ Ready /\ lines = <<>> /\ ended' = TRUE
  /\ doc' = Flushed(doc) /\ todo' = Flush(doc)
  /\ UNCHANGED <<lines, wrapVars, inlineVars>>

---------------------------------------------------------------------------
HeadBase(level) == IF level = 1 THEN "h1" ELSE IF level = 2 THEN "h2"
                   ELSE IF level = 3 THEN "h3" ELSE "h4"

\* What is to be printed next; no block is under way.
Next1(op) == i = 0 /\ todo # <<>> /\ Head(todo).op = op

\* flush makes a Wrap for the block and has its text rendered.
BeginBlock ==
  /\ Next1("block")
  /\ LET d == Head(todo).d
     IN  /\ CASE d.kind = "para"  -> NewWrap(TRUE, Spaces(d.margin), Spaces(d.margin), "none")
              [] d.kind = "list"  -> NewWrap(TRUE, Marked(d.margin, d.marker), Spaces(d.cont), "none")
              [] d.kind = "quote" -> NewWrap(TRUE, Bar, Bar, "none")
              [] d.kind = "head"  -> NewWrap(TRUE, Spaces(0), Spaces(0), HeadBase(d.level))
              [] d.kind = "table" -> NewWrap(TRUE, Spaces(0), Spaces(0), "none")
         /\ Begin(d.blk)
  /\ UNCHANGED docVars

\* code_row: a row kept as it is but for tabs, which reach multiples of eight
\* columns of the text.
Expanded(s) ==
  LET col[p \in 0 .. Len(s)] ==
        IF p = 0 THEN 0
        ELSE IF s[p] = Tab THEN ((col[p - 1] + 8) \div 8) * 8
        ELSE IF s[p] \in {Ctl, Cont} THEN col[p - 1] ELSE col[p - 1] + 1
  IN  FlattenSeq([p \in DOMAIN s |->
        IF s[p] = Tab THEN Repeat(Space, col[p] - col[p - 1]) ELSE <<s[p]>>])

BeginCode ==
  /\ Next1("code")
  /\ NewWrap(FALSE, Spaces(2), Spaces(2), "none")
  /\ t' = <<Nul>> /\ i' = 1 /\ cur' = {"C"} /\ link' = None /\ UNCHANGED emph
  /\ queue' = Shown(Expanded(Head(todo).d.blk), {"C"})
  /\ UNCHANGED docVars

\* render_inline has come to the end of the text: cur is cleared, the last
\* row printed.
EndBlock ==
  /\ i > 0 /\ queue = <<>> /\ t[i] = Nul
  /\ Finish
  /\ i' = 0 /\ cur' = {} /\ UNCHANGED <<t, emph, link, queue>>
  /\ todo' = Tail(todo) /\ UNCHANGED <<doc, lines, ended>>

\* A step of the block under way.
Render == (Inline \/ PutNext) /\ UNCHANGED docVars

RuleCells == StyleBytes("mark", {}) \o [n \in 1 .. W |-> Glyph("-", 0)] \o ResetBytes

PrintRule == Next1("rule") /\ PrintRow(RuleCells)
PrintBar == Next1("bar") /\ PrintRow(BarCells)
PrintBlank ==
  /\ Next1("blank")
  /\ needBlank' = (needBlank \/ rows # <<>>)
  /\ UNCHANGED <<rows, frame, started, row, said>>
PrintOther ==
  /\ PrintRule \/ PrintBar \/ PrintBlank
  /\ todo' = Tail(todo) /\ UNCHANGED <<doc, lines, ended, inlineVars>>

Init ==
  /\ WrapInit /\ InlineInit
  /\ doc = StartDoc /\ lines \in Docs /\ ended = FALSE /\ todo = <<>>

Work == BeginBlock \/ BeginCode \/ Render \/ EndBlock \/ PrintOther
Next == ReadLine \/ End \/ Work

Spec == Init /\ [][Next]_vars
FairSpec == Spec /\ WF_vars(Work)                \* the program goes on while it has work

---------------------------------------------------------------------------
AllRows == IF started THEN Append(rows, row.rb) ELSE rows
Told(r) == SelectSeq(r, LAMBDA cell : cell.n > 0)       \* the text of a row
AtEnd == i > 0 /\ queue = <<>> /\ t[i] = Nul             \* a text has been rendered

\* The style that the terminal has at cell p of row r, if r is shown alone.
StyleAt(r, p) ==
  LET es == {q \in 1 .. p : r[q].k = "esc"} IN IF es = {} THEN None ELSE r[Max(es)].sty

\* No row, and no row under way, has more than W columns, whatever the text,
\* the prefixes and the escape sequences (Wrap.put, Doc.flush, hr).
RowsFit == \A k \in DOMAIN AllRows : Vis(AllRows[k]) <= W

\* Nothing but blanks and control characters is lost, doubled or put in another
\* order by the wrapping, and every character is seen in the style it was put
\* with, however rows are broken within styled text (Wrap.put and _apply).
TextFaithful ==
  LET shown == FlattenSeq([k \in DOMAIN AllRows |-> Told(AllRows[k])])
  IN  /\ \A p \in 1 .. Len(shown) - 1 : shown[p].n < shown[p + 1].n
      /\ \A n \in DOMAIN said :
           said[n].c \notin {Space, Ctl} => \E p \in DOMAIN shown : shown[p].n = n
      /\ \A k \in DOMAIN AllRows : \A p \in DOMAIN AllRows[k] :
           LET cell == AllRows[k][p]
           IN  cell.n > 0 => /\ cell.c = said[cell.n].c
                             /\ Plain \/ ~Visible(cell) \/ StyleAt(AllRows[k], p) = said[cell.n].want

\* Every row can be shown without the rows before it and leaves the terminal
\* reset ("Every row starts from a reset and ends with ESC[0m", mdv.asm), which
\* is what lets the pager stop between any two rows.
RowsStandAlone == \A k \in DOMAIN rows : StyleAt(rows[k], Len(rows[k])) = None

\* A word is divided between two rows only if it fills the first of them, by its
\* columns or by the bytes of a row (Wrap.put).
WordsWhole ==
  \A k \in 1 .. Len(AllRows) - 1 :
    LET a == Told(AllRows[k])
        b == Told(AllRows[k + 1])
        n == b[1].n
        divided == /\ a # <<>> /\ b # <<>> /\ n = a[Len(a)].n + 1
                   /\ ~said[n].first /\ said[n].words
                   /\ said[n].c # Space /\ said[n - 1].c # Space
    IN  divided => /\ \A p \in DOMAIN a : a[p].c # Space
                   /\ Vis(AllRows[k]) = W \/ Bytes(AllRows[k]) > RowBytes

\* Without links, whose addresses may be left out, a text's letters are all
\* put, once and in order, however its marks nest or fail to (render_inline).
HasAny(s, S) == \E p \in DOMAIN s : s[p] \in S
IsLetter(c) == c \in Letters
LettersKept ==
  AtEnd /\ frame.words /\ ~(\E p \in 1 .. Len(t) - 1 : t[p] = "]" /\ t[p + 1] \in {"(", "["}) =>
    LET from == Max({0} \cup {n \in DOMAIN said : said[n].first})
        put == SelectSeq(Rest(said, from - 1), LAMBDA g : IsLetter(g.c))
        written == SelectSeq(t, IsLetter)
    IN  IF from = 0 \/ ~started THEN written = <<>>
        ELSE [p \in DOMAIN put |-> put[p].c] = written

\* One or two marks open emphasis only if it is closed again before the end of
\* the block ("an unmatched * or _ stays literal", mdv.asm), however they are
\* nested or cross and whatever code spans and escapes lie between.  It does not
\* hold with links and addresses in the text, for the mark that closes may be in
\* one; nor with three marks in a row: in ***a*a*** the mark in the middle closes
\* the half of what was opened, and the last three are no match for the other.
ThreeMarks(s) == \E p \in 1 .. Len(s) - 2 : s[p] \in {"*", "_"} /\ s[p + 1] = s[p] /\ s[p + 2] = s[p]
EmphasisCloses ==
  AtEnd /\ ~HasAny(t, {"[", "<"}) /\ ~ThreeMarks(t) => cur \ {"C"} = {}

\* Whatever the text, the rendering of it comes to an end (render_inline, put).
Printed == todo # <<>> ~> todo = <<>>
=============================================================================
