----------------------------- MODULE MdvInline -----------------------------
(* render_inline of tools/mdvref.py: the text of one block, a sequence of   *)
(* characters ended by Nul, is read from left to right; each step handles  *)
(* the construct at position i and leaves in `queue' the characters it     *)
(* shows, each with its style, which put then takes one by one.            *)
EXTENDS MdvWrap

VARIABLES
  t,           \* the text, with its Nul
  i,           \* the position reached, from 1; 0: no text is being rendered
  cur,         \* Wrap.cur: the wanted style, a set of the bits B I L C U
  emph,        \* it_ch, bo_ch: the characters that opened the emphasis
  link,        \* link_end, link_after, url while a link is open, else None
  queue        \* characters not yet put

inlineVars == <<t, i, cur, emph, link, queue>>

Nul == "nul"
Tick == "tick"                                  \* a backtick
BackSlash == "back"
Letters == {"a", "b", "c", "d", "e"}            \* stands for all word characters
Digits == {"1", "2"}
Punct == {"*", "_", Tick, BackSlash, "[", "]", "(", ")", "!", "<", ">", ":", "#", "-",
          "=", "+", Pipe, "~", "."}
Blank == {Nul, Space, Tab}
Opener == [x \in {"[", "("} |-> IF x = "[" THEN "]" ELSE ")"]

\* The number of characters ch from position j on.
RunLen(s, j, ch) ==
  Min({k \in 0 .. Len(s) - j : s[j + k] # ch})

\* find_code_close: the first run of exactly k backticks after those at j.
FindCodeClose(s, j, k) ==
  LET ends == {e \in j + k .. Len(s) :
                 /\ s[e] = Tick /\ s[e - 1] # Tick /\ RunLen(s, e, Tick) = k}
  IN  IF ends = {} THEN 0 ELSE Min(ends)

\* CommonMark's flanking rules for the run of k characters at j.
Flank(s, j, k) ==
  LET prev == IF j > 1 THEN s[j - 1] ELSE Space
      next == s[j + k]
      pp == prev \in Punct
      np == next \in Punct
  IN  [left  |-> next \notin Blank /\ (~np \/ prev \in Blank \/ pp),
       right |-> prev \notin Blank /\ (~pp \/ next \in Blank \/ np),
       pp |-> pp, np |-> np]
CanOpen(s, j, k, ch) ==
  LET f == Flank(s, j, k) IN f.left /\ (ch = "*" \/ ~f.right \/ f.pp)
CanClose(s, j, k, ch) ==
  LET f == Flank(s, j, k) IN f.right /\ (ch = "*" \/ ~f.left \/ f.np)

\* find_emph_close: the next run of exactly k that can close, code spans and
\* escaped characters left out; 0: none.
FindEmphClose(s, j, k, ch) ==
  LET look[p \in j .. Len(s)] ==
        IF s[p] = Nul THEN 0
        ELSE IF s[p] = BackSlash /\ s[p + 1] # Nul THEN look[p + 2]
        ELSE IF s[p] = Tick
          THEN LET m == RunLen(s, p, Tick)
                   e == FindCodeClose(s, p, m)
               IN  look[IF e # 0 THEN e + m ELSE p + m]
        ELSE IF s[p] = ch
          THEN LET m == RunLen(s, p, ch)
               IN  IF m = k /\ CanClose(s, p, k, ch) THEN p ELSE look[p + m]
        ELSE look[p + 1]
  IN  look[j + k]

\* find_bracket, find_paren: what matches the opening character at j; 0: nothing.
FindMatch(s, j) ==
  LET look[p \in j .. Len(s), d \in 1 .. Len(s)] ==
        IF s[p] = Nul THEN 0
        ELSE IF s[p] = BackSlash /\ s[p + 1] # Nul THEN look[p + 2, d]
        ELSE IF s[p] = s[j] THEN look[p + 1, d + 1]
        ELSE IF s[p] # Opener[s[j]] THEN look[p + 1, d]
        ELSE IF d = 1 THEN p ELSE look[p + 1, d - 1]
  IN  look[j + 1, 1]

---------------------------------------------------------------------------
Shown(s, st) == [n \in 1 .. Len(s) |-> [c |-> s[n], st |-> st]]
Repeat(c, k) == [n \in 1 .. k |-> c]

\* One turn of the loop shows s in style st and goes on at j.
Turn(s, st, j) == queue' = Shown(s, st) /\ i' = j /\ UNCHANGED <<t, wrapVars>>

Here == i > 0 /\ queue = <<>> /\ t[i] # Nul
AtLinkEnd == link # None /\ i = link[1].end
At(c) == Here /\ ~AtLinkEnd /\ t[i] = c

LinkEnd ==
  /\ Here /\ AtLinkEnd
  /\ LET url == link[1].url
     IN  Turn(IF url = None THEN <<>> ELSE <<Space, "(">> \o url[1] \o <<")">>,
              (cur \ {"L"}) \cup {"U"}, link[1].after)
  /\ cur' = cur \ {"L"} /\ link' = None /\ UNCHANGED emph

Escape ==
  /\ At(BackSlash)
  /\ IF t[i + 1] \in Punct THEN Turn(<<t[i + 1]>>, cur, i + 2) ELSE Turn(<<BackSlash>>, cur, i + 1)
  /\ UNCHANGED <<cur, emph, link>>

\* Mutant: a character is taken off both ends of a code span, blank or not.
PaddedAlways(s) == Len(s) >= 2

\* A blank is taken off both ends, unless there is nothing else.
Padded(s) ==
  /\ Len(s) >= 2 /\ s[1] = Space /\ s[Len(s)] = Space
  /\ \E n \in DOMAIN s : s[n] # Space

CodeSpan ==
  /\ At(Tick)
  /\ LET k == RunLen(t, i, Tick)
         e == FindCodeClose(t, i, k)
         s == SubSeq(t, i + k, e - 1)
     IN  IF e = 0 THEN Turn(Repeat(Tick, k), cur, i + k)
         ELSE Turn(IF Padded(s) THEN SubSeq(s, 2, Len(s) - 1) ELSE s, cur \cup {"C"}, e + k)
  /\ cur' = cur \ {"C"}
  /\ UNCHANGED <<emph, link>>

\* A run of k = 1 to 3 asterisks or underscores: italic, bold, or both.
Need(k) == (IF k \in {1, 3} THEN {"I"} ELSE {}) \cup (IF k \in {2, 3} THEN {"B"} ELSE {})
Closes(c, k) ==
  k \in 1 .. 3 /\ Need(k) \subseteq cur /\ (\A b \in Need(k) : emph[b] = c) /\ CanClose(t, i, k, c)
\* Mutant: emphasis is opened without looking for its end.
OpensAnyway(c, k) == k \in 1 .. 3 /\ cur \cap Need(k) = {} /\ CanOpen(t, i, k, c)

Opens(c, k) ==
  /\ k \in 1 .. 3 /\ cur \cap Need(k) = {}
  /\ CanOpen(t, i, k, c) /\ FindEmphClose(t, i, k, c) # 0

Emphasis(c) ==
  /\ At(c)
  /\ LET k == RunLen(t, i, c)
     IN  \/ /\ Closes(c, k)
            /\ cur' = cur \ Need(k) /\ UNCHANGED emph /\ Turn(<<>>, cur, i + k)
         \/ /\ ~Closes(c, k) /\ Opens(c, k)
            /\ cur' = cur \cup Need(k)
            /\ emph' = [b \in DOMAIN emph |-> IF b \in Need(k) THEN c ELSE emph[b]]
            /\ Turn(<<>>, cur, i + k)
         \/ /\ ~Closes(c, k) /\ ~Opens(c, k)
            /\ UNCHANGED <<cur, emph>> /\ Turn(Repeat(c, k), cur, i + k)
  /\ UNCHANGED link

\* A link whose text ends at j and whose destination or label ends at e.
Open(j, e, url) ==
  /\ cur' = cur \cup {"L"}
  /\ link' = <<[end |-> j, after |-> e + 1, url |-> url]>>
  /\ Turn(<<>>, cur, i + 1)
  /\ UNCHANGED emph

Literal(c) == Turn(<<c>>, cur, i + 1) /\ UNCHANGED <<cur, emph, link>>

\* Mutant: the mark of an image is not passed.
ImageStays ==
  /\ At("!")
  /\ LET j == IF t[i + 1] = "[" /\ "L" \notin cur THEN FindMatch(t, i + 1) ELSE 0
     IN  IF j # 0 /\ t[j + 1] \in {"(", "["}
         THEN Turn(<<>>, cur, i) /\ UNCHANGED <<cur, emph, link>>
         ELSE Literal("!")

Image ==
  /\ At("!")
  /\ LET j == IF t[i + 1] = "[" /\ "L" \notin cur THEN FindMatch(t, i + 1) ELSE 0
     IN  IF j # 0 /\ t[j + 1] \in {"(", "["}
         THEN Turn(<<>>, cur, i + 1) /\ UNCHANGED <<cur, emph, link>>
         ELSE Literal("!")

\* The address in the parentheses at p, up to a space; None if it is empty or
\* the same as the link's text.
Address(p, e, text) ==
  LET u == SubSeq(t, p + 1, Min({e} \cup {n \in p + 1 .. e : t[n] \in {Space, Tab}}) - 1)
  IN  IF u = <<>> \/ u = text THEN None ELSE <<u>>

Link ==
  /\ At("[")
  /\ LET j == IF "L" \in cur THEN 0 ELSE FindMatch(t, i)
         next == IF j = 0 THEN Nul ELSE t[j + 1]
         e == IF next \in {"(", "["} THEN FindMatch(t, j + 1) ELSE 0
     IN  IF e = 0 THEN Literal("[")
         ELSE Open(j, e, IF next = "(" THEN Address(j + 1, e, SubSeq(t, i + 1, j - 1)) ELSE None)

Autolink ==
  /\ At("<")
  /\ LET j == Min({n \in i + 1 .. Len(t) : t[n] \in Blank \cup {Ctl, "<", ">"}})
         s == SubSeq(t, i + 1, j - 1)
     IN  IF t[j] = ">" /\ \E n \in DOMAIN s : s[n] = ":"
         THEN /\ Turn(s, cur \cup {"L"}, j + 1)
              /\ cur' = cur \ {"L"} /\ UNCHANGED <<emph, link>>
         ELSE Literal("<")

PlainText ==
  /\ Here /\ ~AtLinkEnd /\ t[i] \notin {BackSlash, Tick, "*", "_", "!", "[", "<"}
  /\ Literal(t[i])

Inline ==
  \/ LinkEnd \/ Escape \/ CodeSpan \/ Emphasis("*") \/ Emphasis("_")
  \/ Image \/ Link \/ Autolink \/ PlainText

PutNext ==
  /\ queue # <<>>
  /\ Put(Head(queue).c, Head(queue).st)
  /\ queue' = Tail(queue)
  /\ UNCHANGED <<t, i, cur, emph, link>>

\* render_inline begins with text s.
Begin(s) ==
  /\ t' = s \o <<Nul>> /\ i' = 1 /\ cur' = {} /\ emph' = [b \in {"I", "B"} |-> Nul]
  /\ link' = None /\ queue' = <<>>

InlineInit ==
  /\ t = <<Nul>> /\ i = 0 /\ cur = {} /\ emph = [b \in {"I", "B"} |-> Nul]
  /\ link = None /\ queue = <<>>
=============================================================================
