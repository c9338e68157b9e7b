------------------------------ MODULE MdvProofs ------------------------------
(***************************************************************************)
(* No row that MDV prints has more than W columns (RowsFit), for every     *)
(* document, every W that leaves a column beside a prefix, and any limit   *)
(* on a row's bytes, in colour and in plain mode.                          *)
(*                                                                         *)
(* What counts is the number of visible cells of a sequence, Vis, which is *)
(* additive: the row builder's own count, col, is always the Vis of the    *)
(* row, and the break it remembers is a visible cell after the prefix, so  *)
(* that what is moved to the next row is short enough for it.              *)
(***************************************************************************)
EXTENDS Mdv, SequenceTheorems, FiniteSetTheorems, TLAPS

\* A sequence of anything: the cells, texts and lines need no other type.
IsSeq(s) == \E S : s \in Seq(S)

\* What the sequence operators do to sequences of anything.
LEMMA SeqOfAnything ==
  ASSUME NEW s, IsSeq(s)
  PROVE  /\ Len(s) \in Nat /\ DOMAIN s = 1 .. Len(s)
         /\ \A k \in Nat : IsSeq(SubSeq(s, 1, k)) \/ k > Len(s)
<1>1. PICK S : s \in Seq(S)
  BY DEF IsSeq
<1>2. Len(s) \in Nat /\ DOMAIN s = 1 .. Len(s)
  BY <1>1, LenProperties
<1>3. ASSUME NEW k \in Nat, k <= Len(s) PROVE IsSeq(SubSeq(s, 1, k))
  <2>1. \A p \in 1 .. k : s[p] \in S
    BY <1>1, <1>2, <1>3, ElementOfSeq
  <2>2. SubSeq(s, 1, k) \in Seq(S)
    BY <2>1, SubSeqProperties
  <2> QED  BY <2>2 DEF IsSeq
<1> QED  BY <1>2, <1>3

LEMMA ConcatOfAnything ==
  ASSUME NEW s, IsSeq(s), NEW u, IsSeq(u)
  PROVE  /\ IsSeq(s \o u) /\ Len(s \o u) = Len(s) + Len(u)
         /\ \A p \in 1 .. Len(s) + Len(u) :
              (s \o u)[p] = IF p <= Len(s) THEN s[p] ELSE u[p - Len(s)]
<1>1. PICK S : s \in Seq(S)
  BY DEF IsSeq
<1>2. PICK T : u \in Seq(T)
  BY DEF IsSeq
<1> DEFINE U == S \cup T
<1>3. s \in Seq(U) /\ u \in Seq(U)
  BY <1>1, <1>2, SeqMonotonic
<1> HIDE DEF U
<1> QED  BY <1>3, ConcatProperties DEF IsSeq

LEMMA AppendOfAnything ==
  ASSUME NEW s, IsSeq(s), NEW e
  PROVE  /\ IsSeq(Append(s, e)) /\ Len(Append(s, e)) = Len(s) + 1
         /\ \A p \in 1 .. Len(s) + 1 : Append(s, e)[p] = IF p <= Len(s) THEN s[p] ELSE e
<1>1. PICK S : s \in Seq(S)
  BY DEF IsSeq
<1> DEFINE U == S \cup {e}
<1>2. s \in Seq(U) /\ e \in U
  BY <1>1, SeqMonotonic
<1> HIDE DEF U
<1>3. Append(s, e) \in Seq(U)
  BY <1>2, AppendProperties
<1>4. Len(s) \in Nat /\ DOMAIN s = 1 .. Len(s)
  BY <1>2, LenProperties
<1>5. /\ Len(Append(s, e)) = Len(s) + 1
      /\ \A p \in 1 .. Len(s) + 1 : Append(s, e)[p] = IF p <= Len(s) THEN s[p] ELSE e
  BY <1>2, <1>4, AppendProperties
<1> QED  BY <1>3, <1>5 DEF IsSeq

LEMMA AppendIsConcatAny ==
  ASSUME NEW s, IsSeq(s), NEW e
  PROVE  Append(s, e) = s \o <<e>>
<1>1. PICK S : s \in Seq(S)
  BY DEF IsSeq
<1> DEFINE U == S \cup {e}
<1>2. s \in Seq(U) /\ e \in U
  BY <1>1, SeqMonotonic
<1> HIDE DEF U
<1> QED  BY <1>2, AppendIsConcat

LEMMA SubSeqOfAnything ==
  ASSUME NEW s, IsSeq(s), NEW m \in 1 .. Len(s) + 1, NEW n \in 0 .. Len(s)
  PROVE  /\ IsSeq(SubSeq(s, m, n)) /\ Len(SubSeq(s, m, n)) = IF m <= n THEN n - m + 1 ELSE 0
         /\ \A p \in 1 .. n - m + 1 : SubSeq(s, m, n)[p] = s[m + p - 1]
<1>1. PICK S : s \in Seq(S)
  BY DEF IsSeq
<1>2. Len(s) \in Nat
  BY <1>1, LenProperties
<1>3. \A p \in m .. n : s[p] \in S
  BY <1>1, <1>2, ElementOfSeq
<1> QED  BY <1>2, <1>3, SubSeqProperties DEF IsSeq

---------------------------------------------------------------------------
LEMMA FirstOfAnything ==
  ASSUME NEW s, NEW n \in Nat
  PROVE  /\ IsSeq(SubSeq(s, 1, n)) /\ Len(SubSeq(s, 1, n)) = n
         /\ \A p \in 1 .. n : SubSeq(s, 1, n)[p] = s[p]
<1> DEFINE S == {s[p] : p \in 1 .. n}
           a == SubSeq(s, 1, n)
<1>1. \A p \in 1 .. n : s[p] \in S
  OBVIOUS
<1> HIDE DEF S
<1>2. /\ a \in Seq(S) /\ Len(a) = (IF 1 <= n THEN n - 1 + 1 ELSE 0)
      /\ \A p \in 1 .. n - 1 + 1 : a[p] = s[1 + p - 1]
  BY <1>1, SubSeqProperties
<1> HIDE DEF a
<1>3. Len(a) = n
  BY <1>2
<1>4. ASSUME NEW p \in 1 .. n PROVE a[p] = s[p]
  <2>1. p \in 1 .. n - 1 + 1 /\ 1 + p - 1 = p
    OBVIOUS
  <2> QED  BY <1>2, <2>1
<1> QED  BY <1>2, <1>3, <1>4 DEF IsSeq, a

LEMMA VisFinite ==
  ASSUME NEW s, IsSeq(s)
  PROVE  IsFiniteSet(VisAt(s)) /\ Cardinality(VisAt(s)) \in Nat
<1>1. Len(s) \in Nat /\ VisAt(s) \subseteq 1 .. Len(s)
  BY SeqOfAnything DEF VisAt
<1>2. IsFiniteSet(1 .. Len(s))
  BY <1>1, FS_Interval
<1>3. IsFiniteSet(VisAt(s))
  BY <1>1, <1>2, FS_Subset
<1> QED  BY <1>3, FS_CardinalityType

\* The visible cells of sequences put together.
LEMMA VisConcat ==
  ASSUME NEW s, IsSeq(s), NEW u, IsSeq(u)
  PROVE  Vis(s) \in Nat /\ Vis(u) \in Nat /\ Vis(s \o u) = Vis(s) + Vis(u)
<1> DEFINE r == s \o u
           B == {p \in Len(s) + 1 .. Len(s) + Len(u) : Visible(u[p - Len(s)])}
<1>1. /\ Len(s) \in Nat /\ Len(u) \in Nat
      /\ DOMAIN s = 1 .. Len(s) /\ DOMAIN u = 1 .. Len(u)
  BY SeqOfAnything
<1>2. DOMAIN r = 1 .. Len(s) + Len(u)
  BY ConcatOfAnything, SeqOfAnything
<1>3. \A p \in 1 .. Len(s) + Len(u) : r[p] = IF p <= Len(s) THEN s[p] ELSE u[p - Len(s)]
  BY ConcatOfAnything
<1>4. VisAt(r) = VisAt(s) \cup B /\ VisAt(s) \cap B = {}
  <2> HIDE DEF r
  <2> QED  BY <1>1, <1>2, <1>3 DEF VisAt
<1>5. /\ IsFiniteSet(VisAt(s)) /\ Cardinality(VisAt(s)) \in Nat
      /\ IsFiniteSet(VisAt(u)) /\ Cardinality(VisAt(u)) \in Nat
  BY VisFinite
<1>6. IsFiniteSet(B) /\ Cardinality(B) = Cardinality(VisAt(u))
  <2> DEFINE f == [q \in VisAt(u) |-> q + Len(s)]
  <2>1. f \in Bijection(VisAt(u), B)
    <3>1. f \in [VisAt(u) -> B]
      BY <1>1 DEF VisAt
    <3>2. \A a, b \in VisAt(u) : f[a] = f[b] => a = b
      BY <1>1 DEF VisAt
    <3>3. \A b \in B : \E a \in VisAt(u) : f[a] = b
      <4> TAKE b \in B
      <4>1. b - Len(s) \in VisAt(u) /\ f[b - Len(s)] = b
        BY <1>1 DEF VisAt
      <4> QED  BY <4>1
    <3> HIDE DEF f, B
    <3> QED  BY <3>1, <3>2, <3>3 DEF Bijection, Injection, Surjection, IsInjective
  <2>2. ExistsBijection(VisAt(u), B)
    BY <2>1 DEF ExistsBijection
  <2> QED  BY <1>5, <2>2, FS_Bijection
<1> HIDE DEF B, r
<1>7. Cardinality(VisAt(r)) = Cardinality(VisAt(s)) + Cardinality(B)
  BY <1>4, <1>5, <1>6, FS_Union, FS_EmptySet
<1> QED  BY <1>5, <1>6, <1>7 DEF Vis, r

\* A sequence cut in two.
LEMMA VisCut ==
  ASSUME NEW s, IsSeq(s), NEW k \in 0 .. Len(s)
  PROVE  /\ Vis(SubSeq(s, 1, k)) \in Nat /\ Vis(SubSeq(s, k + 1, Len(s))) \in Nat
         /\ Vis(s) = Vis(SubSeq(s, 1, k)) + Vis(SubSeq(s, k + 1, Len(s)))
<1> DEFINE a == SubSeq(s, 1, k)
           b == SubSeq(s, k + 1, Len(s))
<1>0. Len(s) \in Nat
  BY SeqOfAnything
<1>1. k \in Nat /\ k <= Len(s)
  BY <1>0
<1>2. IsSeq(a) /\ Len(a) = k /\ \A p \in 1 .. k : a[p] = s[p]
  BY <1>0, <1>1, SubSeqOfAnything
<1>3. IsSeq(b) /\ Len(b) = Len(s) - k /\ \A p \in 1 .. Len(s) - k : b[p] = s[k + p]
  <2>1. k + 1 \in 1 .. Len(s) + 1 /\ Len(s) \in 0 .. Len(s)
    BY <1>0, <1>1
  <2>2. /\ IsSeq(b) /\ Len(b) = IF k + 1 <= Len(s) THEN Len(s) - (k + 1) + 1 ELSE 0
        /\ \A p \in 1 .. Len(s) - (k + 1) + 1 : b[p] = s[(k + 1) + p - 1]
    BY <2>1, SubSeqOfAnything
  <2> HIDE DEF b
  <2>3. Len(b) = Len(s) - k
    <3>1. Len(b) = IF k + 1 <= Len(s) THEN Len(s) - (k + 1) + 1 ELSE 0
      BY <2>2
    <3>2. (IF k + 1 <= Len(s) THEN Len(s) - (k + 1) + 1 ELSE 0) = Len(s) - k
      BY <1>0, <1>1
    <3> QED  BY <3>1, <3>2
  <2>4. ASSUME NEW p \in 1 .. Len(s) - k PROVE b[p] = s[k + p]
    <3>1. p \in 1 .. Len(s) - (k + 1) + 1 /\ (k + 1) + p - 1 = k + p
      BY <1>0, <1>1
    <3> QED  BY <2>2, <3>1
  <2> QED  BY <2>2, <2>3, <2>4
<1> HIDE DEF a, b
<1>4. /\ IsSeq(a \o b) /\ Len(a \o b) = Len(s)
      /\ \A p \in 1 .. Len(s) : (a \o b)[p] = s[p]
  <2>1. /\ IsSeq(a \o b) /\ Len(a \o b) = Len(a) + Len(b)
        /\ \A p \in 1 .. Len(a) + Len(b) : (a \o b)[p] = IF p <= Len(a) THEN a[p] ELSE b[p - Len(a)]
    BY <1>2, <1>3, ConcatOfAnything
  <2>2. Len(a) + Len(b) = Len(s)
    BY <1>0, <1>1, <1>2, <1>3
  <2>3. ASSUME NEW p \in 1 .. Len(s) PROVE (a \o b)[p] = s[p]
    <3>1. CASE p <= k
      BY <1>0, <1>1, <1>2, <2>1, <2>2, <3>1
    <3>2. CASE p > k
      <4>1. p - k \in 1 .. Len(s) - k /\ k + (p - k) = p
        BY <1>0, <1>1, <3>2
      <4>2. b[p - k] = s[k + (p - k)]
        BY <1>3, <4>1
      <4>3. p \in 1 .. Len(a) + Len(b) /\ ~(p <= Len(a)) /\ Len(a) = k
        BY <1>0, <1>1, <1>2, <2>2, <3>2
      <4>4. (a \o b)[p] = b[p - k]
        BY <2>1, <4>3
      <4>5. k + (p - k) = p
        BY <4>1
      <4> QED  BY <4>2, <4>4, <4>5, Zenon
    <3>3. p <= k \/ p > k
      BY <1>0, <1>1
    <3> QED  BY <3>1, <3>2, <3>3
  <2> QED  BY <2>1, <2>2, <2>3
<1>5. VisAt(a \o b) = VisAt(s)
  BY <1>0, <1>1, <1>4, SeqOfAnything DEF VisAt
<1>6. Vis(a \o b) = Vis(s)
  BY <1>5 DEF Vis
<1> QED  BY <1>2, <1>3, <1>6, VisConcat DEF a, b

\* One more cell.
LEMMA VisAppend ==
  ASSUME NEW s, IsSeq(s), NEW e
  PROVE  Vis(Append(s, e)) = Vis(s) + (IF Visible(e) THEN 1 ELSE 0) /\ Vis(s) \in Nat
<1> DEFINE r == Append(s, e)
<1>1. Len(s) \in Nat /\ DOMAIN s = 1 .. Len(s)
  BY SeqOfAnything
<1>2. DOMAIN r = 1 .. Len(s) + 1 /\ \A p \in 1 .. Len(s) + 1 : r[p] = IF p <= Len(s) THEN s[p] ELSE e
  BY AppendOfAnything, SeqOfAnything
<1> HIDE DEF r
<1>3. IsFiniteSet(VisAt(s)) /\ Cardinality(VisAt(s)) \in Nat
  BY VisFinite
<1>4. CASE Visible(e)
  <2>1. VisAt(r) = VisAt(s) \cup {Len(s) + 1} /\ Len(s) + 1 \notin VisAt(s)
    BY <1>1, <1>2, <1>4 DEF VisAt
  <2> QED  BY <1>3, <1>4, <2>1, FS_AddElement DEF Vis, r
<1>5. CASE ~Visible(e)
  <2>1. VisAt(r) = VisAt(s)
    BY <1>1, <1>2, <1>5 DEF VisAt
  <2> QED  BY <1>3, <1>5, <2>1 DEF Vis, r
<1> QED  BY <1>4, <1>5

\* The visible cells among the first k of a sequence.
VisTo(s, k) == Cardinality({p \in 1 .. k : Visible(s[p])})

LEMMA VisOfFirst ==
  ASSUME NEW s, IsSeq(s), NEW k \in 0 .. Len(s)
  PROVE  Vis(SubSeq(s, 1, k)) = VisTo(s, k)
<1>0. Len(s) \in Nat
  BY SeqOfAnything
<1>1. k \in Nat /\ 1 \in 1 .. Len(s) + 1
  BY <1>0
<1> DEFINE a == SubSeq(s, 1, k)
<1>2. /\ IsSeq(a) /\ Len(a) = (IF 1 <= k THEN k - 1 + 1 ELSE 0)
      /\ \A p \in 1 .. k - 1 + 1 : a[p] = s[1 + p - 1]
  BY <1>1, SubSeqOfAnything
<1> HIDE DEF a
<1>3. Len(a) = k
  BY <1>1, <1>2
<1>4. ASSUME NEW p \in 1 .. k PROVE a[p] = s[p]
  <2>1. p \in 1 .. k - 1 + 1 /\ 1 + p - 1 = p
    BY <1>1
  <2> QED  BY <1>2, <2>1
<1>5. DOMAIN a = 1 .. k
  BY <1>2, <1>3, SeqOfAnything
<1>6. VisAt(a) = {p \in 1 .. k : Visible(s[p])}
  BY <1>4, <1>5 DEF VisAt
<1> QED  BY <1>6 DEF Vis, VisTo, a

\* Sequences of glyphs with a width, and escape sequences.
LEMMA VisGlyphs ==
  ASSUME NEW s, IsSeq(s), \A p \in DOMAIN s : Visible(s[p])
  PROVE  Vis(s) = Len(s) /\ Len(s) \in Nat
<1>1. Len(s) \in Nat
  BY SeqOfAnything
<1>2. VisAt(s) = 1 .. Len(s)
  BY SeqOfAnything DEF VisAt
<1>3. Cardinality(1 .. Len(s)) = Len(s)
  <2>1. Cardinality(1 .. Len(s)) = IF 1 > Len(s) THEN 0 ELSE Len(s) - 1 + 1
    BY <1>1, FS_Interval
  <2> QED  BY <1>1, <2>1
<1> QED  BY <1>1, <1>2, <1>3 DEF Vis

LEMMA GlyphSeq ==
  ASSUME NEW n \in Nat, NEW m, \A p \in 1 .. n : m[p] # Cont
  PROVE  LET s == [p \in 1 .. n |-> Glyph(m[p], 0)] IN IsSeq(s) /\ Vis(s) = n /\ Len(s) = n
<1> DEFINE s == [p \in 1 .. n |-> Glyph(m[p], 0)]
           S == {Glyph(m[p], 0) : p \in 1 .. n}
<1>1. s \in [1 .. n -> S]
  OBVIOUS
<1>2. s \in Seq(S)
  BY <1>1, SeqDef
<1>3. \A p \in DOMAIN s : Visible(s[p])
  BY DEF Visible, Glyph
<1>4. DOMAIN s = 1 .. n
  OBVIOUS
<1> HIDE DEF s, S
<1>5. Len(s) = n
  BY <1>2, <1>4, LenProperties
<1>6. IsSeq(s)
  BY <1>2 DEF IsSeq
<1> QED  BY <1>3, <1>5, <1>6, VisGlyphs DEF s

LEMMA VisOne ==
  ASSUME NEW e
  PROVE  IsSeq(<<e>>) /\ Vis(<<e>>) = IF Visible(e) THEN 1 ELSE 0
<1>1. <<e>> \in Seq({e})
  OBVIOUS
<1>2. VisAt(<<e>>) = IF Visible(e) THEN {1} ELSE {}
  BY DEF VisAt
<1> QED  BY <1>1, <1>2, FS_Singleton, FS_EmptySet DEF IsSeq, Vis

LEMMA VisEmpty == IsSeq(<<>>) /\ Vis(<<>>) = 0
BY FS_EmptySet DEF Vis, VisAt, IsSeq

LEMMA VisEscapes ==
  /\ IsSeq(ResetBytes) /\ Vis(ResetBytes) = 0
  /\ \A base, st : IsSeq(StyleBytes(base, st)) /\ Vis(StyleBytes(base, st)) = 0
<1>1. \A sty : ~Visible(Esc(sty))
  BY DEF Visible, Esc
<1> QED  BY <1>1, VisOne, VisEmpty DEF ResetBytes, StyleBytes

LEMMA VisPlain ==
  ASSUME NEW c, NEW n, c # Cont
  PROVE  IsSeq(<<Glyph(c, n)>>) /\ Vis(<<Glyph(c, n)>>) = 1
<1>1. Visible(Glyph(c, n))
  BY DEF Visible, Glyph
<1> QED  BY <1>1, VisOne

LEMMA PrefixGlyphs == Pipe # Cont /\ Space # Cont /\ "-" # Cont
BY DEF Pipe, Space, Cont

---------------------------------------------------------------------------
\* A prefix counts its columns and leaves one.
PrefixOK(p) == IsSeq(p.cells) /\ p.cols \in Nat /\ p.cols < W /\ Vis(p.cells) = p.cols

LEMMA SpacesOK ==
  ASSUME NEW k \in Nat, k < W
  PROVE  PrefixOK(Spaces(k)) /\ Spaces(k).cols = k
<1> DEFINE m == [p \in 1 .. k |-> Space]
<1>1. \A p \in 1 .. k : m[p] # Cont /\ m[p] = Space
  BY DEF Space, Cont
<1>2. [p \in 1 .. k |-> Glyph(m[p], 0)] = [p \in 1 .. k |-> Glyph(Space, 0)]
  BY <1>1
<1> HIDE DEF m
<1>3. LET s == [p \in 1 .. k |-> Glyph(m[p], 0)] IN IsSeq(s) /\ Vis(s) = k /\ Len(s) = k
  BY <1>1, GlyphSeq
<1> QED  BY <1>2, <1>3 DEF PrefixOK, Spaces

LEMMA BarOK == W > 2 => PrefixOK(Bar) /\ Bar.cols = 2 /\ IsSeq(BarCells) /\ Vis(BarCells) = 1
<1> DEFINE g == <<Glyph(Pipe, 0)>>
           sp == <<Glyph(Space, 0)>>
<1>1. IsSeq(g) /\ Vis(g) = 1 /\ IsSeq(sp) /\ Vis(sp) = 1
  BY VisPlain, PrefixGlyphs
<1>2. IsSeq(ResetBytes) /\ Vis(ResetBytes) = 0 /\ IsSeq(StyleBytes("bar", {})) /\ Vis(StyleBytes("bar", {})) = 0
  BY VisEscapes
<1> DEFINE u == StyleBytes("bar", {})
           a == u \o g
           b == a \o ResetBytes
<1>3. BarCells = b /\ Bar = [cells |-> b \o sp, cols |-> 2]
  BY DEF BarCells, Bar
<1> HIDE DEF g, sp, u
<1>4. IsSeq(a) /\ Vis(a) = 1
  <2>1. IsSeq(u) /\ Vis(u) = 0
    BY <1>2 DEF u
  <2> QED  BY <1>1, <2>1, VisConcat, ConcatOfAnything
<1> HIDE DEF a
<1>5. IsSeq(b) /\ Vis(b) = 1
  BY <1>2, <1>4, VisConcat, ConcatOfAnything
<1> HIDE DEF b
<1>6. IsSeq(b \o sp) /\ Vis(b \o sp) = 2
  BY <1>1, <1>5, VisConcat, ConcatOfAnything
<1> QED  BY <1>3, <1>5, <1>6 DEF PrefixOK

LEMMA MarkedOK ==
  ASSUME NEW m \in Nat, NEW marker, IsSeq(marker), m + Len(marker) + 1 < W,
         \A p \in DOMAIN marker : marker[p] # Cont
  PROVE  PrefixOK(Marked(m, marker)) /\ Marked(m, marker).cols = m + Len(marker) + 1
<1> DEFINE n == Len(marker)
           u == StyleBytes("mark", {})
           g == [p \in 1 .. n |-> Glyph(marker[p], 0)]
           sp == <<Glyph(Space, 0)>>
           a == Spaces(m).cells \o u
           b == a \o g
           c == b \o ResetBytes
<1>0. n \in Nat /\ DOMAIN marker = 1 .. n
  BY SeqOfAnything
<1>1. IsSeq(Spaces(m).cells) /\ Vis(Spaces(m).cells) = m
  <2>1. m < W
    BY <1>0, WidthAssumption
  <2> QED  BY <2>1, SpacesOK DEF PrefixOK
<1>2. IsSeq(u) /\ Vis(u) = 0 /\ IsSeq(ResetBytes) /\ Vis(ResetBytes) = 0
  BY VisEscapes
<1>3. IsSeq(sp) /\ Vis(sp) = 1
  BY VisPlain, PrefixGlyphs
<1>4. IsSeq(g) /\ Vis(g) = n
  <2>1. \A p \in 1 .. n : marker[p] # Cont
    BY <1>0
  <2> HIDE DEF n
  <2> QED  BY <1>0, <2>1, GlyphSeq
<1>5. Marked(m, marker) = [cells |-> c \o sp, cols |-> m + n + 1]
  BY DEF Marked
<1> HIDE DEF n, u, g, sp
<1>6. IsSeq(a) /\ Vis(a) = m
  BY <1>1, <1>2, VisConcat, ConcatOfAnything
<1> HIDE DEF a
<1>7. IsSeq(b) /\ Vis(b) = m + n
  BY <1>4, <1>6, VisConcat, ConcatOfAnything
<1> HIDE DEF b
<1>8. IsSeq(c) /\ Vis(c) = m + n
  BY <1>0, <1>2, <1>7, VisConcat, ConcatOfAnything
<1> HIDE DEF c
<1>9. IsSeq(c \o sp) /\ Vis(c \o sp) = m + n + 1
  BY <1>3, <1>8, VisConcat, ConcatOfAnything
<1>10. m + n + 1 < W /\ m + n + 1 \in Nat
  BY <1>0 DEF n
<1> QED  BY <1>5, <1>9, <1>10 DEF PrefixOK, n

---------------------------------------------------------------------------
\* A row under way: c columns of prefix, its own count of columns right, and
\* what it would break at a visible cell after the prefix.
IsRowRec(r) == DOMAIN r = {"rb", "col", "pcol", "rstyle", "brk"}
BreakOK(rb, brk, c) ==
  brk # None => /\ brk[1].at \in 1 .. Len(rb) /\ Visible(rb[brk[1].at])
                /\ VisTo(rb, brk[1].at - 1) >= c
RowOK(r, c) ==
  /\ IsRowRec(r) /\ IsSeq(r.rb)
  /\ r.col \in Nat /\ Vis(r.rb) = r.col /\ c <= r.col
  /\ BreakOK(r.rb, r.brk, c)

LEMMA FreshOK ==
  ASSUME NEW p, PrefixOK(p)
  PROVE  /\ RowOK(FreshRow(p), p.cols) /\ FreshRow(p).col = p.cols /\ FreshRow(p).col < W
         /\ FreshRow(p).rb = p.cells /\ FreshRow(p).brk = None
<1> DEFINE r == FreshRow(p)
<1>1. r = [rb |-> p.cells, col |-> p.cols, pcol |-> p.cols, rstyle |-> None, brk |-> None]
  BY DEF FreshRow
<1> HIDE DEF r
<1>2. IsRowRec(r)
  BY <1>1 DEF IsRowRec
<1>3. r.rb = p.cells /\ r.col = p.cols /\ r.brk = None
  BY <1>1
<1> QED  BY <1>2, <1>3 DEF RowOK, PrefixOK, BreakOK, r

\* A break stays right when the row grows.
LEMMA BreakKept ==
  ASSUME NEW s, IsSeq(s), NEW u, IsSeq(u), NEW brk, NEW c, BreakOK(s, brk, c)
  PROVE  BreakOK(s \o u, brk, c)
<1>1. Len(s) \in Nat /\ Len(u) \in Nat
  BY SeqOfAnything
<1>2. /\ Len(s \o u) = Len(s) + Len(u)
      /\ \A p \in 1 .. Len(s) + Len(u) : (s \o u)[p] = IF p <= Len(s) THEN s[p] ELSE u[p - Len(s)]
  BY ConcatOfAnything
<1> DEFINE r == s \o u
<1>3. \A p \in 1 .. Len(s) : r[p] = s[p]
  BY <1>1, <1>2
<1> HIDE DEF r
<1>4. ASSUME brk # None
      PROVE  /\ brk[1].at \in 1 .. Len(r) /\ Visible(r[brk[1].at])
             /\ VisTo(r, brk[1].at - 1) >= c
  <2> DEFINE k == brk[1].at
  <2>1. k \in 1 .. Len(s) /\ Visible(s[k]) /\ VisTo(s, k - 1) >= c
    BY <1>4 DEF BreakOK
  <2> HIDE DEF k
  <2>2. {p \in 1 .. k - 1 : Visible(r[p])} = {p \in 1 .. k - 1 : Visible(s[p])}
    BY <1>1, <1>3, <2>1
  <2>3. VisTo(r, k - 1) = VisTo(s, k - 1)
    BY <2>2 DEF VisTo
  <2>4. k \in 1 .. Len(r)
    BY <1>1, <1>2, <2>1 DEF r
  <2>5. Visible(r[k])
    BY <1>3, <2>1
  <2> QED  BY <2>1, <2>3, <2>4, <2>5 DEF k
<1> QED  BY <1>4 DEF BreakOK, r

\* More cells at the end of a row.
LEMMA RowGrown ==
  ASSUME NEW r, NEW c \in Nat, RowOK(r, c), NEW x, IsSeq(x),
         NEW q, IsRowRec(q), q.rb = r.rb \o x, q.col = r.col + Vis(x), q.brk = r.brk
  PROVE  RowOK(q, c)
<1>1. IsSeq(q.rb) /\ Vis(q.rb) = r.col + Vis(x) /\ Vis(x) \in Nat
  BY VisConcat, ConcatOfAnything DEF RowOK
<1>2. BreakOK(q.rb, q.brk, c)
  BY BreakKept DEF RowOK
<1> QED  BY <1>1, <1>2 DEF RowOK

LEMMA StyledOK ==
  ASSUME NEW r, NEW c \in Nat, RowOK(r, c), NEW st
  PROVE  /\ RowOK(Styled(r, st), c) /\ Styled(r, st).col = r.col
         /\ Styled(r, st).pcol = r.pcol /\ Styled(r, st).brk = r.brk
<1> DEFINE u == StyleBytes(frame.base, st)
           q == [r EXCEPT !.rb = @ \o u, !.rstyle = <<st>>]
           z == [r EXCEPT !.rb = @ \o ResetBytes, !.rstyle = None]
<1>1. IsSeq(u) /\ Vis(u) = 0 /\ IsSeq(ResetBytes) /\ Vis(ResetBytes) = 0
  BY VisEscapes
<1> HIDE DEF u
<1>2. /\ IsRowRec(q) /\ q.rb = r.rb \o u /\ q.col = r.col /\ q.brk = r.brk /\ q.pcol = r.pcol
      /\ IsRowRec(z) /\ z.rb = r.rb \o ResetBytes /\ z.col = r.col /\ z.brk = r.brk /\ z.pcol = r.pcol
  <2>1. IsRowRec(r)
    BY DEF RowOK
  <2> DEFINE ru == r.rb \o u
             rz == r.rb \o ResetBytes
  <2>2. /\ q = [r EXCEPT !.rb = ru, !.rstyle = <<st>>] /\ z = [r EXCEPT !.rb = rz, !.rstyle = None]
    OBVIOUS
  <2> HIDE DEF ru, rz, q, z
  <2>4. /\ IsRowRec(q) /\ q.rb = ru /\ q.col = r.col /\ q.brk = r.brk /\ q.pcol = r.pcol
        /\ IsRowRec(z) /\ z.rb = rz /\ z.col = r.col /\ z.brk = r.brk /\ z.pcol = r.pcol
    BY <2>1, <2>2 DEF IsRowRec
  <2> QED  BY <2>4 DEF ru, rz
<1> HIDE DEF q, z
<1>3. r.col = r.col + 0
  BY DEF RowOK
<1>4. RowOK(q, c)
  BY <1>1, <1>2, <1>3, RowGrown
<1>5. RowOK(z, c)
  BY <1>1, <1>2, <1>3, RowGrown
<1>6. Styled(r, st) \in {r, q, z}
  BY DEF Styled, q, z, u
<1> QED  BY <1>2, <1>4, <1>5, <1>6

LEMMA AddedOK ==
  ASSUME NEW r, NEW c \in Nat, RowOK(r, c), NEW e, NEW n, n = (IF Visible(e) THEN 1 ELSE 0)
  PROVE  /\ RowOK(Added(r, e, n), c) /\ Added(r, e, n).col = r.col + n
         /\ Added(r, e, n).rb = Append(r.rb, e)
<1> DEFINE q == Added(r, e, n)
<1>1. /\ IsRowRec(q) /\ q.rb = Append(r.rb, e) /\ q.col = r.col + n /\ q.brk = r.brk
  <2> DEFINE ra == Append(r.rb, e)
             rn == r.col + n
  <2>1. q = [r EXCEPT !.rb = ra, !.col = rn] /\ IsRowRec(r)
    BY DEF Added, RowOK
  <2> HIDE DEF ra, rn, q
  <2>3. /\ IsRowRec(q) /\ q.rb = ra /\ q.col = rn /\ q.brk = r.brk
    BY <2>1 DEF IsRowRec
  <2> QED  BY <2>3 DEF ra, rn
<1>2. Append(r.rb, e) = r.rb \o <<e>>
  BY AppendIsConcatAny DEF RowOK
<1>3. IsSeq(<<e>>) /\ Vis(<<e>>) = n
  BY VisOne
<1> HIDE DEF q
<1>4. RowOK(q, c)
  BY <1>1, <1>2, <1>3, RowGrown
<1> QED  BY <1>1, <1>4 DEF q

\* A visible cell after the prefix is a place to break at.
LEMMA BreakAtEnd ==
  ASSUME NEW s, IsSeq(s), NEW e, Visible(e), NEW c \in Nat, c <= Vis(s),
         NEW brk, brk[1].at = Len(s) + 1
  PROVE  BreakOK(Append(s, e), brk, c)
<1>1. Len(s) \in Nat /\ DOMAIN s = 1 .. Len(s)
  BY SeqOfAnything
<1> DEFINE r == Append(s, e)
<1>2. /\ Len(r) = Len(s) + 1
      /\ \A p \in 1 .. Len(s) + 1 : r[p] = IF p <= Len(s) THEN s[p] ELSE e
  BY AppendOfAnything
<1> HIDE DEF r
<1>3. brk[1].at \in 1 .. Len(r) /\ r[Len(s) + 1] = e
  BY <1>1, <1>2
<1>4. {p \in 1 .. Len(s) : Visible(r[p])} = VisAt(s)
  BY <1>1, <1>2 DEF VisAt
<1>5. VisTo(r, Len(s)) = Vis(s)
  BY <1>4 DEF VisTo, Vis
<1>6. brk[1].at - 1 = Len(s)
  BY <1>1
<1> QED  BY <1>3, <1>5, <1>6 DEF BreakOK, r

\* A printed row has the visible cells of the row under way.
LEMMA EndedVis ==
  ASSUME NEW r, IsSeq(r.rb)
  PROVE  Vis(Ended(r)) = Vis(r.rb)
<1>1. /\ IsSeq(ResetBytes) /\ Vis(ResetBytes) = 0 /\ IsSeq(<<>>) /\ Vis(<<>>) = 0
  BY VisEscapes, VisEmpty
<1> DEFINE x == IF r.rstyle # None THEN ResetBytes ELSE <<>>
<1>2. IsSeq(x) /\ Vis(x) = 0
  BY <1>1
<1>3. Ended(r) = r.rb \o x
  BY DEF Ended
<1> HIDE DEF x
<1>4. Vis(r.rb \o x) = Vis(r.rb) + 0 /\ Vis(r.rb) \in Nat
  BY <1>2, VisConcat
<1> QED  BY <1>3, <1>4

\* The two halves of a row broken at its last space.
LEMMA BreakHalves ==
  ASSUME NEW r, NEW c \in Nat, RowOK(r, c), r.brk # None
  PROVE  LET k == r.brk[1].at
         IN  /\ IsSeq(SubSeq(r.rb, 1, k - 1)) /\ Vis(SubSeq(r.rb, 1, k - 1)) <= r.col
             /\ IsSeq(SubSeq(r.rb, k + 1, Len(r.rb)))
             /\ Vis(SubSeq(r.rb, k + 1, Len(r.rb))) \in Nat
             /\ c + Vis(SubSeq(r.rb, k + 1, Len(r.rb))) < r.col
<1> DEFINE s == r.rb
           k == r.brk[1].at
           a == SubSeq(s, 1, k - 1)
           b == SubSeq(s, k, Len(s))
           rest == SubSeq(s, k + 1, Len(s))
<1>1. IsSeq(s) /\ r.col \in Nat /\ Vis(s) = r.col
  BY DEF RowOK
<1>2. k \in 1 .. Len(s) /\ Visible(s[k]) /\ VisTo(s, k - 1) >= c
  BY DEF RowOK, BreakOK
<1> HIDE DEF s, k
<1>3. Len(s) \in Nat
  BY <1>1, SeqOfAnything
<1>4. /\ k \in Nat /\ k <= Len(s) /\ k - 1 \in 0 .. Len(s) /\ k \in 0 .. Len(s)
      /\ (k - 1) + 1 = k /\ k + 1 \in 1 .. Len(s) + 1 /\ k \in 1 .. Len(s) + 1
      /\ Len(s) \in 0 .. Len(s)
  BY <1>2, <1>3
<1>5. Vis(a) \in Nat /\ Vis(a) = VisTo(s, k - 1)
  BY <1>1, <1>4, VisOfFirst, VisCut
<1>6. Vis(SubSeq(s, 1, k)) \in Nat /\ Vis(rest) \in Nat /\ Vis(s) = Vis(SubSeq(s, 1, k)) + Vis(rest)
  BY <1>1, <1>4, VisCut
<1>7. Vis(SubSeq(s, 1, k)) = Vis(a) + 1
  <2>1. Vis(SubSeq(s, 1, k)) = VisTo(s, k)
    BY <1>1, <1>4, VisOfFirst
  <2> DEFINE A == {p \in 1 .. k - 1 : Visible(s[p])}
  <2>2. {p \in 1 .. k : Visible(s[p])} = A \cup {k} /\ k \notin A
    BY <1>2, <1>4
  <2>3. IsFiniteSet(1 .. k - 1) /\ A \subseteq 1 .. k - 1
    <3>1. 1 \in Int /\ k - 1 \in Int
      BY <1>4
    <3>2. IsFiniteSet(1 .. k - 1)
      BY <3>1, FS_Interval, Zenon
    <3> QED  BY <3>2
  <2> HIDE DEF A
  <2>4. IsFiniteSet(A)
    BY <2>3, FS_Subset
  <2>5. Cardinality(A \cup {k}) = Cardinality(A) + 1
    BY <2>2, <2>4, FS_AddElement
  <2> QED  BY <1>5, <2>1, <2>2, <2>5 DEF VisTo, A
<1>8. IsSeq(a) /\ IsSeq(rest)
  <2>1. 1 \in 1 .. Len(s) + 1
    BY <1>3
  <2> QED  BY <1>1, <1>4, <2>1, SubSeqOfAnything
<1> HIDE DEF a, b, rest
<1>9. Vis(a) <= r.col /\ c + Vis(rest) < r.col
  BY <1>1, <1>2, <1>5, <1>6, <1>7
<1> QED  BY <1>6, <1>8, <1>9 DEF a, rest, s, k

LEMMA BeforeBreakOK ==
  ASSUME NEW r, NEW c \in Nat, RowOK(r, c), r.brk # None
  PROVE  IsSeq(BeforeBreak(r).rb) /\ Vis(BeforeBreak(r).rb) <= r.col
<1> DEFINE a == SubSeq(r.rb, 1, r.brk[1].at - 1)
<1>1. BeforeBreak(r) = [r EXCEPT !.rb = a, !.rstyle = r.brk[1].style]
  BY DEF BeforeBreak
<1>2. IsSeq(a) /\ Vis(a) <= r.col
  BY BreakHalves
<1> HIDE DEF a
<1>3. BeforeBreak(r).rb = a
  BY <1>1 DEF RowOK, IsRowRec
<1> QED  BY <1>2, <1>3

LEMMA MovedOK ==
  ASSUME NEW r, PrefixOK(frame.cp), RowOK(r, frame.cp.cols), r.brk # None
  PROVE  RowOK(Moved(r), frame.cp.cols) /\ Moved(r).col < r.col
<1> DEFINE c == frame.cp.cols
           new == FreshRow(frame.cp)
           rest == SubSeq(r.rb, r.brk[1].at + 1, Len(r.rb))
           sty == IF r.brk[1].style = None THEN <<>> ELSE StyleBytes(frame.base, r.brk[1].style[1])
           q == Moved(r)
<1>0. c \in Nat
  BY DEF PrefixOK
<1>1. IsSeq(rest) /\ Vis(rest) \in Nat /\ c + Vis(rest) < r.col
  BY <1>0, BreakHalves
<1>2. IsSeq(sty) /\ Vis(sty) = 0
  BY VisEscapes, VisEmpty
<1>3. RowOK(new, c) /\ new.col = c
  BY FreshOK
<1> DEFINE rb == new.rb \o sty \o rest
           col == new.col + Vis(rest)
<1>4. q = [new EXCEPT !.rb = rb, !.rstyle = r.rstyle, !.col = col]
  BY DEF Moved
<1> HIDE DEF rb, col, q, new
<1>5. IsRowRec(q) /\ q.rb = rb /\ q.col = col /\ q.brk = new.brk
  BY <1>3, <1>4 DEF RowOK, IsRowRec
<1> HIDE DEF rest, sty
<1>6. IsSeq(rb) /\ Vis(rb) = col
  <2> DEFINE nr == new.rb
             u == nr \o sty
  <2>1. IsSeq(nr) /\ Vis(nr) = new.col /\ new.col \in Nat
    BY <1>3 DEF RowOK
  <2> HIDE DEF nr
  <2>2. IsSeq(u) /\ Vis(u) = new.col
    <3>1. IsSeq(sty) /\ Vis(sty) = 0
      BY <1>2
    <3>2. IsSeq(u)
      BY <2>1, <3>1, ConcatOfAnything
    <3>3. Vis(u) = Vis(nr) + Vis(sty)
      BY <2>1, <3>1, VisConcat
    <3> QED  BY <2>1, <3>1, <3>2, <3>3
  <2> HIDE DEF u
  <2>3. IsSeq(u \o rest) /\ Vis(u \o rest) = new.col + Vis(rest)
    BY <1>1, <2>2, VisConcat, ConcatOfAnything
  <2> QED  BY <2>3 DEF u, nr, rb, col
<1>7. new.brk = None /\ col \in Nat /\ c <= col
  BY <1>0, <1>1, <1>3, FreshOK DEF col, new
<1>8. RowOK(q, c)
  BY <1>5, <1>6, <1>7 DEF RowOK, BreakOK
<1>9. q.col < r.col
  BY <1>1, <1>3, <1>5 DEF col
<1> QED  BY <1>8, <1>9 DEF q

---------------------------------------------------------------------------
\* The invariant: the row builder's part.
WrapInv ==
  /\ PrefixOK(frame.fp) /\ PrefixOK(frame.cp) /\ frame.fp.cols = frame.cp.cols
  /\ IsSeq(rows) /\ \A k \in DOMAIN rows : Vis(rows[k]) <= W
  /\ started => RowOK(row, frame.cp.cols) /\ row.col <= W

\* The document's part: what a block's prefix will be made from.
DocOK(d) ==
  /\ DOMAIN d = DOMAIN StartDoc
  /\ d.kind \in {NoKind, "para", "list", "quote", "head", "table"}
  /\ d.listCont \in Nat /\ d.listCont < W
  /\ d.kind = "para" => d.margin \in Nat /\ d.margin < W
  /\ d.kind = "list" => /\ d.margin \in Nat /\ IsSeq(d.marker)
                        /\ d.cont = d.margin + Len(d.marker) + 1 /\ d.cont < W
                        /\ \A p \in DOMAIN d.marker : d.marker[p] # Cont
OpsOK(s) ==
  IsSeq(s) /\ \A k \in DOMAIN s : s[k].op = "block" => DocOK(s[k].d) /\ s[k].d.kind # NoKind

IInv == WrapInv /\ DocOK(doc) /\ OpsOK(todo) /\ (todo # <<>> \/ i = 0)

\* The row being built, or the one about to be begun.
LEMMA Row0OK ==
  ASSUME WrapInv
  PROVE  RowOK(Row0, frame.cp.cols) /\ Row0.col <= W /\ frame.cp.cols \in Nat /\ W \in Nat
<1>1. CASE started
  BY <1>1, WidthAssumption DEF WrapInv, Row0, PrefixOK
<1>2. CASE ~started
  <2>1. RowOK(FreshRow(frame.fp), frame.fp.cols) /\ FreshRow(frame.fp).col < W
    BY FreshOK DEF WrapInv
  <2>2. FreshRow(frame.fp).col \in Nat
    BY <2>1 DEF RowOK
  <2> QED  BY <1>2, <2>1, <2>2, WidthAssumption DEF WrapInv, Row0, PrefixOK
<1> QED  BY <1>1, <1>2

\* A list of rows with one more that fits.
RowsOK(rs) == IsSeq(rs) /\ \A k \in DOMAIN rs : Vis(rs[k]) <= W

LEMMA OneMoreRow ==
  ASSUME NEW rs, RowsOK(rs), NEW r, Vis(r) <= W
  PROVE  RowsOK(Append(rs, r))
<1>1. IsSeq(Append(rs, r)) /\ Len(Append(rs, r)) = Len(rs) + 1
      /\ \A p \in 1 .. Len(rs) + 1 : Append(rs, r)[p] = IF p <= Len(rs) THEN rs[p] ELSE r
  BY AppendOfAnything DEF RowsOK
<1> DEFINE u == Append(rs, r)
<1> HIDE DEF u
<1>2. Len(rs) \in Nat /\ DOMAIN rs = 1 .. Len(rs) /\ DOMAIN u = 1 .. Len(rs) + 1
  BY <1>1, SeqOfAnything DEF RowsOK, u
<1>3. ASSUME NEW k \in DOMAIN u PROVE Vis(u[k]) <= W
  <2>1. k \in 1 .. Len(rs) + 1
    BY <1>2
  <2>2. u[k] = IF k <= Len(rs) THEN rs[k] ELSE r
    BY <1>1, <2>1 DEF u
  <2>3. k <= Len(rs) => k \in DOMAIN rs
    BY <1>2, <2>1
  <2> QED  BY <2>2, <2>3 DEF RowsOK
<1> QED  BY <1>1, <1>3 DEF RowsOK, u

LEMMA OpenedOK ==
  ASSUME WrapInv
  PROVE  RowsOK(Opened(rows)) /\ RowsOK(Rows0) /\ RowsOK(rows)
<1>1. RowsOK(rows)
  BY DEF WrapInv, RowsOK
<1>2. Vis(<<>>) <= W
  BY VisEmpty, WidthAssumption
<1>3. RowsOK(Opened(rows))
  BY <1>1, <1>2, OneMoreRow DEF Opened
<1> QED  BY <1>1, <1>3 DEF Rows0

\* A row begun after a break or a split takes one more character.
LEMMA AfterFull ==
  ASSUME NEW r, NEW c \in Nat, RowOK(r, c), r.col < W, NEW st, NEW e, Visible(e)
  PROVE  LET q == Added(Styled(r, st), e, 1) IN RowOK(q, c) /\ q.col <= W
<1>1. RowOK(Styled(r, st), c) /\ Styled(r, st).col = r.col
  BY StyledOK
<1>2. /\ RowOK(Added(Styled(r, st), e, 1), c)
      /\ Added(Styled(r, st), e, 1).col = r.col + 1
  BY <1>1, AddedOK
<1>3. r.col + 1 <= W
  BY WidthAssumption DEF RowOK
<1> QED  BY <1>2, <1>3

\* Wrap.put.
LEMMA PutKeeps ==
  ASSUME WrapInv, NEW ch, NEW st, Put(ch, st)
  PROVE  WrapInv'
<1> DEFINE c == IF ch = Tab THEN Space ELSE ch
           n == Len(said) + 1
           k == frame.cp.cols
<1>1. /\ \/ PutNothing(c) \/ PutZeroWidth(c, n) \/ PutSpaceAtEnd(c) \/ PutSpace(c, st, n)
         \/ PutInRow(c, st, n) \/ PutAfterBreak(c, st, n) \/ PutAfterSplit(c, st, n)
      /\ started' = TRUE /\ frame' = frame
  BY DEF Put
<1> HIDE DEF c, n
<1>2. /\ RowOK(Row0, k) /\ Row0.col <= W /\ k \in Nat /\ W \in Nat
      /\ RowsOK(Rows0) /\ Row0.col \in Nat
  BY Row0OK, OpenedOK DEF RowOK
<1>3. SUFFICES RowOK(row', k) /\ row'.col <= W /\ RowsOK(rows')
  BY <1>1 DEF WrapInv, RowsOK, PrefixOK
<1>4. PrefixOK(frame.cp)
  BY DEF WrapInv
<1>5. RowOK(FreshRow(frame.cp), k) /\ FreshRow(frame.cp).col < W /\ FreshRow(frame.cp).col \in Nat
  <2>1. RowOK(FreshRow(frame.cp), k) /\ FreshRow(frame.cp).col < W
    BY <1>4, FreshOK
  <2> QED  BY <2>1 DEF RowOK
<1>6. Vis(Ended(Row0)) <= W
  BY <1>2, EndedVis DEF RowOK
<1>7. Solid(c) => Visible(Glyph(c, n))
  BY DEF Solid, Visible, Glyph
<1>8. CASE PutNothing(c)
  BY <1>2, <1>8 DEF PutNothing
<1>9. CASE PutZeroWidth(c, n)
  <2>1. ~Visible(Glyph(c, n))
    BY <1>9 DEF PutZeroWidth, Visible, Glyph
  <2>2. RowOK(Added(Row0, Glyph(c, n), 0), k) /\ Added(Row0, Glyph(c, n), 0).col = Row0.col + 0
    BY <1>2, <2>1, AddedOK
  <2> QED  BY <1>2, <1>9, <2>2 DEF PutZeroWidth
<1>10. CASE PutSpaceAtEnd(c)
  BY <1>2, <1>5, <1>6, <1>10, OneMoreRow DEF PutSpaceAtEnd
<1>11. CASE PutSpace(c, st, n)
  <2> DEFINE r == Styled(Row0, st)
             a == Added(r, Glyph(c, n), 1)
             b == [at |-> Len(r.rb) + 1, style |-> r.rstyle]
  <2>1. c = Space /\ Row0.col < W /\ row' = [a EXCEPT !.brk = <<b>>] /\ rows' = Rows0
    BY <1>11 DEF PutSpace
  <2>2. RowOK(r, k) /\ r.col = Row0.col
    BY <1>2, StyledOK
  <2>3. Visible(Glyph(c, n))
    BY <2>1 DEF Visible, Glyph, Space, Cont
  <2>4. RowOK(a, k) /\ a.col = Row0.col + 1 /\ a.rb = Append(r.rb, Glyph(c, n))
    BY <1>2, <2>2, <2>3, AddedOK
  <2>5. b.at = Len(r.rb) + 1 /\ <<b>>[1] = b
    OBVIOUS
  <2> HIDE DEF r, a, b
  <2>6. IsRowRec(row') /\ row'.rb = a.rb /\ row'.col = a.col /\ row'.brk = <<b>>
    BY <2>1, <2>4 DEF RowOK, IsRowRec
  <2>7. BreakOK(a.rb, <<b>>, k)
    BY <1>2, <2>2, <2>3, <2>4, <2>5, BreakAtEnd DEF RowOK
  <2>8. RowOK(row', k)
    BY <2>4, <2>6, <2>7 DEF RowOK
  <2>9. row'.col <= W
    BY <1>2, <2>1, <2>4, <2>6
  <2> QED  BY <1>2, <2>1, <2>8, <2>9
<1>12. CASE PutInRow(c, st, n)
  <2>1. Row0.col < W
    BY <1>2, <1>12 DEF PutInRow, Full
  <2> QED  BY <1>2, <1>7, <1>12, <2>1, AfterFull DEF PutInRow
<1>13. CASE PutAfterBreak(c, st, n)
  <2>1. Row0.brk # None
    BY <1>13 DEF PutAfterBreak
  <2>2. RowOK(Moved(Row0), k) /\ Moved(Row0).col < Row0.col
    BY <1>2, <1>4, <2>1, MovedOK
  <2>3. Moved(Row0).col < W
    BY <1>2, <2>2 DEF RowOK
  <2>4. RowOK(row', k) /\ row'.col <= W
    BY <1>2, <1>7, <1>13, <2>2, <2>3, AfterFull DEF PutAfterBreak
  <2>5. IsSeq(BeforeBreak(Row0).rb) /\ Vis(BeforeBreak(Row0).rb) <= Row0.col
    BY <1>2, <2>1, BeforeBreakOK
  <2>6. Vis(Ended(BeforeBreak(Row0))) <= W
    <3>1. Vis(BeforeBreak(Row0).rb) \in Nat
      BY <2>5, VisFinite DEF Vis
    <3> QED  BY <1>2, <2>5, <3>1, EndedVis
  <2> QED  BY <1>2, <1>13, <2>4, <2>6, OneMoreRow DEF PutAfterBreak
<1>14. CASE PutAfterSplit(c, st, n)
  BY <1>2, <1>5, <1>6, <1>7, <1>14, AfterFull, OneMoreRow DEF PutAfterSplit
<1> QED  BY <1>1, <1>8, <1>9, <1>10, <1>11, <1>12, <1>13, <1>14

\* Wrap.finish.
LEMMA FinishKeeps ==
  ASSUME WrapInv, Finish
  PROVE  WrapInv'
<1>1. rows' = Append(Rows0, Ended(Row0)) /\ started' = FALSE /\ frame' = frame
  BY DEF Finish
<1>2. Vis(Ended(Row0)) <= W
  BY Row0OK, EndedVis DEF RowOK
<1>3. RowsOK(rows')
  BY <1>1, <1>2, OpenedOK, OneMoreRow
<1> QED  BY <1>1, <1>3 DEF WrapInv, RowsOK, PrefixOK

\* A Wrap made for a new block.
LEMMA NewWrapKeeps ==
  ASSUME WrapInv, NEW words, NEW fp, NEW cp, NEW base, NewWrap(words, fp, cp, base),
         PrefixOK(fp), PrefixOK(cp), fp.cols = cp.cols
  PROVE  WrapInv'
<1>1. frame'.fp = fp /\ frame'.cp = cp /\ started' = FALSE /\ rows' = rows
  BY DEF NewWrap
<1> QED  BY <1>1 DEF WrapInv, PrefixOK

\* hr, quote_blank.
LEMMA PrintRowKeeps ==
  ASSUME WrapInv, NEW cells, PrintRow(cells), Vis(cells) <= W
  PROVE  WrapInv'
<1>1. rows' = Append(Opened(rows), cells) /\ UNCHANGED <<frame, started, row>>
  BY DEF PrintRow
<1>2. RowsOK(rows')
  BY <1>1, OpenedOK, OneMoreRow
<1> QED  BY <1>1, <1>2 DEF WrapInv, RowsOK, PrefixOK, RowOK

LEMMA RuleVis == Vis(RuleCells) = W
<1> DEFINE m == [p \in 1 .. W |-> "-"]
           g == [p \in 1 .. W |-> Glyph("-", 0)]
           u == StyleBytes("mark", {})
           a == u \o g
<1>1. \A p \in 1 .. W : m[p] # Cont /\ m[p] = "-"
  BY PrefixGlyphs
<1>2. [p \in 1 .. W |-> Glyph(m[p], 0)] = g
  BY <1>1
<1>3. IsSeq(g) /\ Vis(g) = W /\ W \in Nat
  <2> HIDE DEF m
  <2>1. LET s == [p \in 1 .. W |-> Glyph(m[p], 0)] IN IsSeq(s) /\ Vis(s) = W /\ Len(s) = W
    BY <1>1, GlyphSeq, WidthAssumption
  <2> QED  BY <1>2, <2>1, WidthAssumption
<1>4. IsSeq(u) /\ Vis(u) = 0 /\ IsSeq(ResetBytes) /\ Vis(ResetBytes) = 0
  BY VisEscapes
<1>5. RuleCells = a \o ResetBytes
  BY DEF RuleCells
<1> HIDE DEF g, u
<1>6. IsSeq(a) /\ Vis(a) = W
  BY <1>3, <1>4, VisConcat, ConcatOfAnything
<1> HIDE DEF a
<1>7. Vis(a \o ResetBytes) = W + 0
  BY <1>4, <1>6, VisConcat
<1> QED  BY <1>3, <1>5, <1>7

---------------------------------------------------------------------------
\* What is to be printed: lists of operations put together.
LEMMA OpsConcat ==
  ASSUME NEW s, OpsOK(s), NEW u, OpsOK(u)
  PROVE  OpsOK(s \o u)
<1>1. /\ Len(s) \in Nat /\ DOMAIN s = 1 .. Len(s)
      /\ Len(u) \in Nat /\ DOMAIN u = 1 .. Len(u)
  BY SeqOfAnything DEF OpsOK
<1>2. /\ IsSeq(s \o u) /\ Len(s \o u) = Len(s) + Len(u)
      /\ \A p \in 1 .. Len(s) + Len(u) : (s \o u)[p] = IF p <= Len(s) THEN s[p] ELSE u[p - Len(s)]
  BY ConcatOfAnything DEF OpsOK
<1> DEFINE r == s \o u
<1>3. DOMAIN r = 1 .. Len(s) + Len(u)
  BY <1>2, SeqOfAnything
<1> HIDE DEF r
<1>4. ASSUME NEW p \in DOMAIN r
      PROVE  (\E q \in DOMAIN s : r[p] = s[q]) \/ (\E q \in DOMAIN u : r[p] = u[q])
  <2>1. p \in 1 .. Len(s) + Len(u)
    BY <1>3
  <2>2. r[p] = IF p <= Len(s) THEN s[p] ELSE u[p - Len(s)]
    BY <1>2, <2>1 DEF r
  <2>3. CASE p <= Len(s)
    <3>1. p \in DOMAIN s
      BY <1>1, <2>1, <2>3
    <3> QED  BY <2>2, <2>3, <3>1
  <2>4. CASE ~(p <= Len(s))
    <3>1. p - Len(s) \in DOMAIN u
      BY <1>1, <2>1, <2>4
    <3> QED  BY <2>2, <2>4, <3>1
  <2> QED  BY <2>3, <2>4
<1>5. IsSeq(r)
  BY <1>2 DEF r
<1> QED  BY <1>4, <1>5 DEF OpsOK, r

LEMMA OpsOne ==
  ASSUME NEW e, e.op = "block" => DocOK(e.d) /\ e.d.kind # NoKind
  PROVE  OpsOK(<<e>>) /\ OpsOK(<<>>)
<1>1. IsSeq(<<e>>) /\ IsSeq(<<>>)
  BY VisOne, VisEmpty
<1>2. DOMAIN <<e>> = {1} /\ <<e>>[1] = e /\ DOMAIN <<>> = {}
  OBVIOUS
<1> QED  BY <1>1, <1>2 DEF OpsOK

LEMMA OpsTail ==
  ASSUME NEW s, OpsOK(s), s # <<>>
  PROVE  /\ OpsOK(Tail(s))
         /\ Head(s).op = "block" => DocOK(Head(s).d) /\ Head(s).d.kind # NoKind
<1>1. PICK S : s \in Seq(S)
  BY DEF OpsOK, IsSeq
<1>2. Len(s) \in Nat /\ DOMAIN s = 1 .. Len(s) /\ Len(s) # 0
  BY <1>1, LenProperties, EmptySeq
<1>3. /\ Tail(s) \in Seq(S) /\ Len(Tail(s)) = Len(s) - 1
      /\ \A p \in 1 .. Len(Tail(s)) : Tail(s)[p] = s[p + 1]
  BY <1>1, HeadTailProperties
<1>4. DOMAIN Tail(s) = 1 .. Len(s) - 1
  BY <1>3, LenProperties
<1>5. \A p \in DOMAIN Tail(s) : \E q \in DOMAIN s : Tail(s)[p] = s[q]
  BY <1>2, <1>3, <1>4
<1>6. OpsOK(Tail(s))
  BY <1>3, <1>5 DEF OpsOK, IsSeq
<1>7. Head(s) = s[1] /\ 1 \in DOMAIN s
  BY <1>1, <1>2
<1> QED  BY <1>6, <1>7 DEF OpsOK

LEMMA FlushOK ==
  ASSUME NEW d, DocOK(d)
  PROVE  OpsOK(Flush(d)) /\ DocOK(Flushed(d)) /\ OpsOK(<<>>)
<1>1. OpsOK(<<>>)
  BY VisEmpty DEF OpsOK
<1>2. d.kind # NoKind => OpsOK(Flush(d))
  <2> DEFINE e == [op |-> "block", d |-> d]
  <2>1. e.op = "block" /\ e.d = d
    OBVIOUS
  <2> HIDE DEF e
  <2>2. d.kind # NoKind => OpsOK(<<e>>)
    BY <2>1, OpsOne
  <2> QED  BY <2>2 DEF Flush, e
<1>3. DocOK(Flushed(d))
  BY DEF DocOK, Flushed, StartDoc, NoKind
<1> QED  BY <1>1, <1>2, <1>3 DEF Flush

---------------------------------------------------------------------------
\* What a line may make of the document's fields.
LEMMA DocSteps ==
  ASSUME NEW d, DocOK(d), NEW s, NEW v, NEW w, NEW x
  PROVE  /\ DocOK(NotInList(d)) /\ NotInList(d).kind = d.kind
         /\ DocOK([d EXCEPT !.inFence = s])
         /\ DocOK([d EXCEPT !.inFence = s, !.fch = v, !.flen = w, !.find = x])
         /\ DocOK([d EXCEPT !.blk = s])
         /\ DocOK([d EXCEPT !.level = s]) /\ [d EXCEPT !.level = s].kind = d.kind
         /\ DocOK([d EXCEPT !.kind = "head", !.level = s])
         /\ \A k \in {"quote", "head", "table"} : DocOK(Started(d, k, s)) /\ Started(d, k, s).kind = k
<1>1. DocOK(NotInList(d)) /\ NotInList(d).kind = d.kind
  BY DEF DocOK, NotInList, StartDoc, NoKind
<1>2. DocOK([d EXCEPT !.inFence = s])
  BY DEF DocOK, StartDoc, NoKind
<1>3. DocOK([d EXCEPT !.inFence = s, !.fch = v, !.flen = w, !.find = x])
  BY DEF DocOK, StartDoc, NoKind
<1>4. DocOK([d EXCEPT !.blk = s])
  BY DEF DocOK, StartDoc, NoKind
<1>5. DocOK([d EXCEPT !.level = s]) /\ [d EXCEPT !.level = s].kind = d.kind
  BY DEF DocOK, StartDoc, NoKind
<1>6. DocOK([d EXCEPT !.kind = "head", !.level = s])
  BY DEF DocOK, StartDoc, NoKind
<1>7. \A k \in {"quote", "head", "table"} : DocOK(Started(d, k, s)) /\ Started(d, k, s).kind = k
  BY DEF DocOK, Started, StartDoc, NoKind
<1> QED  BY <1>1, <1>2, <1>3, <1>4, <1>5, <1>6, <1>7

\* A list's marker has at most MaxDigits digits and a delimiter.
LEMMA MarkerOK ==
  ASSUME NEW d, NEW L, ListMarker(d, L) # None
  PROVE  LET mk == ListMarker(d, L)[1].mk
         IN  /\ IsSeq(mk) /\ Len(mk) \in Nat /\ Len(mk) <= MaxDigits + 1
             /\ \A p \in DOMAIN mk : mk[p] # Cont
<1> DEFINE OK(mk) == /\ IsSeq(mk) /\ Len(mk) \in Nat /\ Len(mk) <= MaxDigits + 1
                     /\ \A p \in DOMAIN mk : mk[p] # Cont
<1>1. ListMarker(d, L) \in {Bullet(L), Number(L)}
  BY DEF ListMarker
<1>2. ASSUME Bullet(L) # None PROVE OK(Bullet(L)[1].mk)
  <2> DEFINE b == IF Indent(L) = 0 THEN <<"*">> ELSE <<"-">>
  <2>1. Bullet(L) = <<[mk |-> b, len |-> 1]>>
    BY <1>2 DEF Bullet
  <2>2. OK(<<"*">>) /\ OK(<<"-">>)
    <3>1. Len(<<"*">>) = 1 /\ Len(<<"-">>) = 1 /\ DOMAIN <<"*">> = {1} /\ DOMAIN <<"-">> = {1}
      OBVIOUS
    <3>2. 1 <= MaxDigits + 1
      BY WidthAssumption
    <3> QED  BY <3>1, <3>2, VisOne DEF Cont
  <2>3. b \in {<<"*">>, <<"-">>}
    OBVIOUS
  <2> HIDE DEF b
  <2>4. Bullet(L)[1].mk = b
    BY <2>1
  <2> QED  BY <2>2, <2>3, <2>4
<1>3. ASSUME Number(L) # None PROVE OK(Number(L)[1].mk)
  <2> DEFINE s == Strip(L)
             ends == {q \in 1 .. MaxDigits : /\ q < Len(s) /\ AllIn(SubSeq(s, 1, q), Digits)
                                            /\ s[q + 1] \in {".", ")"} /\ BlankAt(s, q + 2)}
             e == CHOOSE z \in ends : TRUE
             mk == SubSeq(s, 1, e + 1)
  <2>1. ends # {} /\ Number(L) = <<[mk |-> mk, len |-> e + 1]>>
    BY <1>3 DEF Number
  <2>2. e \in ends
    BY <2>1
  <2> HIDE DEF s, e
  <2>3. e \in 1 .. MaxDigits /\ AllIn(SubSeq(s, 1, e), Digits) /\ s[e + 1] \in {".", ")"}
    BY <2>2
  <2>4. e \in Nat /\ 1 <= e /\ e <= MaxDigits /\ MaxDigits \in Nat
    BY <2>3, WidthAssumption
  <2>5. IsSeq(mk) /\ Len(mk) = e + 1 /\ \A p \in 1 .. e + 1 : mk[p] = s[p]
    BY <2>4, FirstOfAnything
  <2>6. /\ IsSeq(SubSeq(s, 1, e)) /\ Len(SubSeq(s, 1, e)) = e
        /\ \A p \in 1 .. e : SubSeq(s, 1, e)[p] = s[p]
    BY <2>4, FirstOfAnything
  <2>7. \A p \in 1 .. e : s[p] \in Digits
    <3>1. DOMAIN SubSeq(s, 1, e) = 1 .. e
      BY <2>6, SeqOfAnything
    <3> QED  BY <2>3, <2>6, <3>1 DEF AllIn
  <2>8. DOMAIN mk = 1 .. e + 1
    BY <2>5, SeqOfAnything
  <2>9. ASSUME NEW p \in DOMAIN mk PROVE mk[p] # Cont
    <3>1. p \in 1 .. e + 1 /\ mk[p] = s[p]
      BY <2>5, <2>8
    <3>2. p = e + 1 \/ p \in 1 .. e
      BY <2>4, <3>1
    <3>3. s[p] \in Digits \cup {".", ")"}
      BY <2>3, <2>7, <3>2
    <3> QED  BY <3>1, <3>3 DEF Digits, Cont
  <2>10. Number(L)[1].mk = mk
    BY <2>1
  <2> HIDE DEF mk
  <2>11. e + 1 \in Nat /\ e + 1 <= MaxDigits + 1
    BY <2>4
  <2> QED  BY <2>5, <2>9, <2>10, <2>11
<1> HIDE DEF OK
<1>4. OK(ListMarker(d, L)[1].mk)
  BY <1>1, <1>2, <1>3
<1> QED  BY <1>4 DEF OK

---------------------------------------------------------------------------
\* Doc.line: one line of any kind.
LEMMA LineKeeps ==
  ASSUME IInv, Ready, NEW L, NEW kind, NEW d, NEW ops, Line(L, kind, d, ops), DocOK(d), OpsOK(ops)
  PROVE  IInv'
<1>1. doc' = d /\ todo' = ops /\ UNCHANGED wrapVars /\ i' = i /\ i = 0
  BY DEF Line, Ready, inlineVars, IInv
<1>2. WrapInv'
  BY <1>1 DEF IInv, WrapInv, wrapVars, PrefixOK, RowOK
<1> QED  BY <1>1, <1>2 DEF IInv

LEMMA OpOK == \A o \in {"blank", "rule", "bar"} : OpsOK(<<Op(o)>>)
<1>1. ASSUME NEW o \in {"blank", "rule", "bar"} PROVE Op(o).op # "block"
  BY DEF Op
<1> QED  BY <1>1, OpsOne

LEMMA CodeOK == \A s : OpsOK(<<CodeRow(s)>>)
<1>1. ASSUME NEW s PROVE CodeRow(s).op # "block"
  BY DEF CodeRow
<1> QED  BY <1>1, OpsOne

\* A list item: its text will begin before the last column.
LEMMA ListItemKeeps ==
  ASSUME IInv, Ready, NEW L, ListItem(L)
  PROVE  IInv'
<1> DEFINE s == Strip(L)
           m == ListMarker(doc, L)[1]
           margin == IF Indent(L) \in 0 .. MaxIndent THEN Indent(L) ELSE MaxIndent
           cont == margin + Len(m.mk) + 1
           text == Strip(Rest(s, m.len))
           d == [Started(doc, "list", text) EXCEPT
                   !.margin = margin, !.marker = m.mk, !.cont = cont,
                   !.inList = TRUE, !.listCont = cont]
<1>1. Line(L, "item", d, Flush(doc)) /\ DocOK(doc)
  BY DEF ListItem, IInv
<1>2. LineKind(doc, L) = "item"
  BY <1>1 DEF Line
<1>3. ListMarker(doc, L) # None
  BY <1>2 DEF LineKind
<1>4. /\ IsSeq(m.mk) /\ Len(m.mk) \in Nat /\ Len(m.mk) <= MaxDigits + 1
      /\ \A p \in DOMAIN m.mk : m.mk[p] # Cont
  BY <1>3, MarkerOK
<1>5. margin \in Nat /\ margin <= MaxIndent
  BY WidthAssumption
<1> HIDE DEF margin, m, text
<1>6. cont \in Nat /\ cont < W
  BY <1>4, <1>5, WidthAssumption
<1> DEFINE mk == m.mk
<1>7. /\ DOMAIN d = DOMAIN StartDoc /\ d.kind = "list" /\ d.margin = margin /\ d.marker = mk
      /\ d.cont = cont /\ d.listCont = cont
  <2> HIDE DEF mk, cont
  <2>1. DOMAIN doc = DOMAIN StartDoc
    BY <1>1 DEF DocOK
  <2>2. d = [Started(doc, "list", text) EXCEPT
               !.margin = margin, !.marker = mk, !.cont = cont,
               !.inList = TRUE, !.listCont = cont]
    BY DEF mk
  <2> HIDE DEF d
  <2> QED  BY <2>1, <2>2 DEF Started, StartDoc
<1> HIDE DEF d
<1>8. DocOK(d)
  BY <1>4, <1>5, <1>6, <1>7 DEF DocOK
<1> QED  BY <1>1, <1>8, FlushOK, LineKeeps

\* A paragraph in a list is indented like the item's text.
LEMMA TextLineKeeps ==
  ASSUME IInv, Ready, NEW L, TextLine(L)
  PROVE  IInv'
<1> DEFINE b == IF Indent(L) = 0 THEN NotInList(doc) ELSE doc
           s == Strip(L)
           d == Started(b, "para", s)
           margin == IF d.inList THEN d.listCont ELSE 0
           e == [d EXCEPT !.margin = margin]
<1>1. Line(L, "text", e, Flush(doc)) /\ DocOK(doc)
  BY DEF TextLine, IInv
<1>2. DocOK(b)
  BY <1>1, DocSteps
<1> HIDE DEF b, s
<1>3. /\ DOMAIN d = DOMAIN StartDoc /\ d.kind = "para"
      /\ d.listCont \in Nat /\ d.listCont < W
  BY <1>2 DEF DocOK, Started, StartDoc
<1> HIDE DEF d
<1>4. margin \in Nat /\ margin < W
  BY <1>3, WidthAssumption
<1> HIDE DEF margin
<1>5. DocOK(e)
  BY <1>3, <1>4 DEF DocOK, StartDoc
<1> HIDE DEF e
<1> QED  BY <1>1, <1>5, FlushOK, LineKeeps

LEMMA ReadLineKeeps ==
  ASSUME IInv, ReadLine
  PROVE  IInv'
<1> DEFINE L == Head(lines)
<1>1. DocOK(doc) /\ Ready
  BY DEF IInv, ReadLine
<1>2. DocOK(Flushed(doc)) /\ OpsOK(Flush(doc)) /\ OpsOK(<<>>)
  BY <1>1, FlushOK
<1>3. DocOK(NotInList(Flushed(doc)))
  BY <1>2, DocSteps
<1> HIDE DEF L
<1>4. CASE FenceEnd(L)
  <2>1. DocOK([doc EXCEPT !.inFence = FALSE])
    BY <1>1, DocSteps
  <2> QED  BY <1>1, <1>2, <1>4, <2>1, LineKeeps DEF FenceEnd
<1>5. CASE FenceText(L)
  BY <1>1, <1>5, CodeOK, LineKeeps DEF FenceText
<1>6. CASE BlankLine(L)
  <2>1. OpsOK(Flush(doc) \o <<Op("blank")>>)
    BY <1>2, OpOK, OpsConcat
  <2> QED  BY <1>1, <1>2, <1>6, <2>1, LineKeeps DEF BlankLine
<1>7. CASE FenceOpen(L)
  <2> DEFINE s == Strip(L)
             d == [NotInList(Flushed(doc)) EXCEPT !.inFence = TRUE, !.fch = s[1],
                     !.flen = Run(s), !.find = Indent(L)]
  <2>1. DocOK(d)
    BY <1>3, DocSteps
  <2> HIDE DEF d
  <2>2. Line(L, "fence", d, Flush(doc))
    BY <1>7 DEF FenceOpen, d
  <2> QED  BY <1>1, <1>2, <2>1, <2>2, LineKeeps
<1>8. CASE Underline(L)
  <2> DEFINE d == [doc EXCEPT !.kind = "head", !.level = IF Strip(L)[1] = "=" THEN 1 ELSE 2]
  <2>1. DocOK(d)
    BY <1>1, DocSteps
  <2> HIDE DEF d
  <2>2. DocOK(NotInList(Flushed(d))) /\ OpsOK(Flush(d))
    BY <2>1, FlushOK, DocSteps
  <2>3. Line(L, "underline", NotInList(Flushed(d)), Flush(d))
    BY <1>8 DEF Underline, d
  <2> QED  BY <1>1, <2>2, <2>3, LineKeeps
<1>9. CASE RuleLine(L)
  <2>1. OpsOK(Flush(doc) \o <<Op("rule")>>)
    BY <1>2, OpOK, OpsConcat
  <2> QED  BY <1>1, <1>3, <1>9, <2>1, LineKeeps DEF RuleLine
<1>10. CASE HeadingLine(L)
  <2> DEFINE s == Strip(L)
             d == [Started(doc, "head", Heading(s)) EXCEPT !.level = Run(s)]
  <2>1. DocOK(Started(doc, "head", Heading(s)))
    BY <1>1, DocSteps
  <2>2. DocOK(d)
    BY <2>1, DocSteps
  <2> HIDE DEF d
  <2>3. DocOK(NotInList(Flushed(d))) /\ OpsOK(Flush(doc) \o Flush(d))
    BY <1>2, <2>2, FlushOK, DocSteps, OpsConcat
  <2>4. Line(L, "heading", NotInList(Flushed(d)), Flush(doc) \o Flush(d))
    BY <1>10 DEF HeadingLine, d
  <2> QED  BY <1>1, <2>3, <2>4, LineKeeps
<1>11. CASE ListItem(L)
  BY <1>1, <1>2, <1>11, ListItemKeeps
<1>12. CASE QuoteBar(L)
  <2>1. OpsOK(Flush(doc) \o <<Op("bar")>>)
    BY <1>2, OpOK, OpsConcat
  <2> QED  BY <1>1, <1>2, <1>12, <2>1, LineKeeps DEF QuoteBar
<1>13. CASE QuoteLine(L)
  <2> DEFINE c == QuoteText(Strip(L))
             d == [doc EXCEPT !.blk = @ \o <<Space>> \o c]
             e == Started(doc, "quote", c)
  <2>1. DocOK(d)
    BY <1>1, DocSteps
  <2>2. DocOK(e)
    BY <1>1, DocSteps
  <2>3. \/ Line(L, "quote", NotInList(d), <<>>)
        \/ Line(L, "quote", NotInList(e), Flush(doc))
    BY <1>13 DEF QuoteLine
  <2> HIDE DEF d, e
  <2>4. DocOK(NotInList(d)) /\ DocOK(NotInList(e))
    BY <2>1, <2>2, DocSteps
  <2> QED  BY <1>1, <1>2, <2>3, <2>4, LineKeeps
<1>14. CASE TableRow(L)
  <2> DEFINE d == Started(doc, "table", Strip(L))
  <2>1. DocOK(d)
    BY <1>1, DocSteps
  <2> HIDE DEF d
  <2>2. DocOK(NotInList(Flushed(d))) /\ OpsOK(Flush(doc) \o Flush(d))
    BY <1>2, <2>1, FlushOK, DocSteps, OpsConcat
  <2>3. Line(L, "table", NotInList(Flushed(d)), Flush(doc) \o Flush(d))
    BY <1>14 DEF TableRow, d
  <2> QED  BY <1>1, <2>2, <2>3, LineKeeps
<1>15. CASE CodeLine(L)
  BY <1>1, <1>15, CodeOK, LineKeeps DEF CodeLine
<1>16. CASE MoreText(L)
  <2> DEFINE b == (IF doc.blk = <<>> THEN <<>> ELSE doc.blk \o <<Space>>) \o Strip(L)
             d == [doc EXCEPT !.blk = b]
  <2>1. Line(L, "more text", d, <<>>)
    BY <1>16 DEF MoreText
  <2> HIDE DEF b
  <2>2. DocOK(d)
    BY <1>1, DocSteps
  <2> HIDE DEF d
  <2> QED  BY <1>1, <1>2, <2>1, <2>2, LineKeeps
<1>17. CASE TextLine(L)
  BY <1>1, <1>2, <1>17, TextLineKeeps
<1> QED
  BY <1>4, <1>5, <1>6, <1>7, <1>8, <1>9, <1>10, <1>11, <1>12, <1>13, <1>14, <1>15, <1>16, <1>17
  DEF ReadLine, L

---------------------------------------------------------------------------
\* The other steps: what concerns the wrapping, and what concerns the lists.
LEMMA Stays ==
  ASSUME IInv, UNCHANGED <<frame, rows, started, row>>
  PROVE  WrapInv'
BY DEF IInv, WrapInv, PrefixOK, RowOK

LEMMA EndKeeps ==
  ASSUME IInv, End
  PROVE  IInv'
<1>1. DocOK(doc)' /\ OpsOK(todo)'
  BY FlushOK DEF IInv, End
<1>2. i' = 0
  BY DEF IInv, End, Ready, inlineVars
<1>3. WrapInv'
  BY Stays DEF End, wrapVars
<1> QED  BY <1>1, <1>2, <1>3 DEF IInv

\* The Wrap of a block has prefixes that leave a column.
LEMMA BeginBlockKeeps ==
  ASSUME IInv, BeginBlock
  PROVE  IInv'
<1> DEFINE d == Head(todo).d
<1>1. todo # <<>> /\ DocOK(d) /\ d.kind # NoKind
  BY OpsTail DEF IInv, BeginBlock, Next1
<1>2. W > 2 /\ W \in Nat /\ 0 < W
  BY WidthAssumption
<1>3. /\ CASE d.kind = "para"  -> NewWrap(TRUE, Spaces(d.margin), Spaces(d.margin), "none")
           [] d.kind = "list"  -> NewWrap(TRUE, Marked(d.margin, d.marker), Spaces(d.cont), "none")
           [] d.kind = "quote" -> NewWrap(TRUE, Bar, Bar, "none")
           [] d.kind = "head"  -> NewWrap(TRUE, Spaces(0), Spaces(0), HeadBase(d.level))
           [] d.kind = "table" -> NewWrap(TRUE, Spaces(0), Spaces(0), "none")
      /\ UNCHANGED docVars
  BY DEF BeginBlock
<1>4. d.kind \in {"para", "list", "quote", "head", "table"}
  BY <1>1 DEF DocOK, NoKind
<1> HIDE DEF d
<1>5. PrefixOK(Spaces(0))
  BY <1>2, SpacesOK
<1>6. WrapInv
  BY DEF IInv
<1>7. CASE d.kind = "para"
  <2>1. PrefixOK(Spaces(d.margin))
    BY <1>1, <1>7, SpacesOK DEF DocOK
  <2>2. NewWrap(TRUE, Spaces(d.margin), Spaces(d.margin), "none")
    BY <1>3, <1>7
  <2>3. WrapInv'
    BY <1>6, <2>1, <2>2, NewWrapKeeps
  <2> QED  BY <1>1, <1>3, <2>3 DEF IInv, docVars
<1>8. CASE d.kind = "list"
  <2>1. /\ d.margin \in Nat /\ IsSeq(d.marker) /\ d.cont = d.margin + Len(d.marker) + 1
        /\ d.cont < W /\ \A p \in DOMAIN d.marker : d.marker[p] # Cont
    BY <1>1, <1>8 DEF DocOK
  <2>2. Len(d.marker) \in Nat
    BY <2>1, SeqOfAnything
  <2>3. d.cont \in Nat /\ d.margin + Len(d.marker) + 1 < W
    BY <2>1, <2>2
  <2>4. PrefixOK(Spaces(d.cont)) /\ Spaces(d.cont).cols = d.cont
    BY <2>1, <2>3, SpacesOK
  <2>5. PrefixOK(Marked(d.margin, d.marker)) /\ Marked(d.margin, d.marker).cols = d.cont
    BY <2>1, <2>3, MarkedOK
  <2>6. NewWrap(TRUE, Marked(d.margin, d.marker), Spaces(d.cont), "none")
    BY <1>3, <1>8
  <2>7. WrapInv'
    BY <1>6, <2>4, <2>5, <2>6, NewWrapKeeps
  <2> QED  BY <1>1, <1>3, <2>7 DEF IInv, docVars
<1>9. CASE d.kind = "quote"
  <2>1. NewWrap(TRUE, Bar, Bar, "none") /\ PrefixOK(Bar)
    BY <1>2, <1>3, <1>9, BarOK
  <2>2. WrapInv'
    BY <1>6, <2>1, NewWrapKeeps
  <2> QED  BY <1>1, <1>3, <2>2 DEF IInv, docVars
<1>10. CASE d.kind = "head"
  <2>1. NewWrap(TRUE, Spaces(0), Spaces(0), HeadBase(d.level))
    BY <1>3, <1>10
  <2>2. WrapInv'
    BY <1>5, <1>6, <2>1, NewWrapKeeps
  <2> QED  BY <1>1, <1>3, <2>2 DEF IInv, docVars
<1>11. CASE d.kind = "table"
  <2>1. NewWrap(TRUE, Spaces(0), Spaces(0), "none")
    BY <1>3, <1>11
  <2>2. WrapInv'
    BY <1>5, <1>6, <2>1, NewWrapKeeps
  <2> QED  BY <1>1, <1>3, <2>2 DEF IInv, docVars
<1> QED  BY <1>4, <1>7, <1>8, <1>9, <1>10, <1>11

LEMMA BeginCodeKeeps ==
  ASSUME IInv, BeginCode
  PROVE  IInv'
<1>1. NewWrap(FALSE, Spaces(2), Spaces(2), "none") /\ UNCHANGED docVars /\ todo # <<>>
  BY DEF BeginCode, Next1
<1>2. PrefixOK(Spaces(2))
  <2>1. 2 \in Nat /\ 2 < W
    BY WidthAssumption
  <2> QED  BY <2>1, SpacesOK
<1>3. WrapInv'
  BY <1>1, <1>2, NewWrapKeeps DEF IInv
<1> QED  BY <1>1, <1>3 DEF IInv, docVars

\* A turn of render_inline prints nothing; what it shows is put later.
LEMMA InlineTurns == Inline => UNCHANGED wrapVars /\ i > 0
<1>1. \A s, st, j : Turn(s, st, j) => UNCHANGED wrapVars
  BY DEF Turn
<1>2. \A c : Literal(c) => UNCHANGED wrapVars
  BY <1>1 DEF Literal
<1>3. \A j, e, url : Open(j, e, url) => UNCHANGED wrapVars
  BY <1>1 DEF Open
<1>4. LinkEnd => UNCHANGED wrapVars /\ i > 0
  BY <1>1 DEF LinkEnd, Here
<1>5. Escape => UNCHANGED wrapVars /\ i > 0
  BY <1>1 DEF Escape, At, Here
<1>6. CodeSpan => UNCHANGED wrapVars /\ i > 0
  BY <1>1 DEF CodeSpan, At, Here
<1>7. \A c : Emphasis(c) => UNCHANGED wrapVars /\ i > 0
  BY <1>1 DEF Emphasis, At, Here
<1>8. Image => UNCHANGED wrapVars /\ i > 0
  BY <1>1, <1>2 DEF Image, At, Here
<1>9. Link => UNCHANGED wrapVars /\ i > 0
  BY <1>2, <1>3 DEF Link, At, Here
<1>10. Autolink => UNCHANGED wrapVars /\ i > 0
  BY <1>1, <1>2 DEF Autolink, At, Here
<1>11. PlainText => UNCHANGED wrapVars /\ i > 0
  BY <1>2 DEF PlainText, Here
<1> QED  BY <1>4, <1>5, <1>6, <1>7, <1>8, <1>9, <1>10, <1>11 DEF Inline

LEMMA RenderKeeps ==
  ASSUME IInv, Render
  PROVE  IInv'
<1>1. UNCHANGED docVars
  BY DEF Render
<1>2. CASE Inline
  <2>1. WrapInv' /\ todo # <<>>
    BY <1>2, InlineTurns, Stays DEF IInv, wrapVars
  <2> QED  BY <1>1, <2>1 DEF IInv, docVars
<1>3. CASE PutNext
  <2>1. WrapInv' /\ i' = i
    BY <1>3, PutKeeps DEF IInv, PutNext
  <2> QED  BY <1>1, <2>1 DEF IInv, docVars
<1> QED  BY <1>2, <1>3 DEF Render

LEMMA EndBlockKeeps ==
  ASSUME IInv, EndBlock
  PROVE  IInv'
<1>1. WrapInv'
  BY FinishKeeps DEF IInv, EndBlock
<1>2. OpsOK(todo)'
  <2>1. todo # <<>> /\ todo' = Tail(todo)
    BY DEF IInv, EndBlock
  <2> QED  BY <2>1, OpsTail DEF IInv
<1> QED  BY <1>1, <1>2 DEF IInv, EndBlock

LEMMA PrintOtherKeeps ==
  ASSUME IInv, PrintOther
  PROVE  IInv'
<1>1. todo' = Tail(todo) /\ doc' = doc /\ i' = i
  BY DEF PrintOther, inlineVars
<1>2. todo # <<>> /\ i = 0
  BY DEF PrintOther, PrintRule, PrintBar, PrintBlank, Next1
<1>3. CASE PrintRow(RuleCells) \/ PrintRow(BarCells)
  <2>1. Vis(RuleCells) <= W /\ Vis(BarCells) <= W
    BY RuleVis, BarOK, WidthAssumption
  <2> QED  BY <1>3, <2>1, PrintRowKeeps, <1>1, <1>2, OpsTail DEF IInv
<1>4. CASE PrintBlank
  <2>1. WrapInv'
    BY <1>4, Stays DEF PrintBlank
  <2> QED  BY <1>1, <1>2, <2>1, OpsTail DEF IInv
<1> QED  BY <1>3, <1>4 DEF PrintOther, PrintRule, PrintBar

---------------------------------------------------------------------------
LEMMA InitOK == Init => IInv
<1> SUFFICES ASSUME Init PROVE IInv
  OBVIOUS
<1>1. PrefixOK(Spaces(0)) /\ W \in Nat
  <2>1. 0 \in Nat /\ 0 < W
    BY WidthAssumption
  <2> QED  BY <2>1, SpacesOK, WidthAssumption
<1>2. WrapInv
  <2>1. frame.fp = Spaces(0) /\ frame.cp = Spaces(0) /\ rows = <<>> /\ ~started
    BY DEF Init, WrapInit
  <2> QED  BY <1>1, <2>1, VisEmpty DEF WrapInv
<1>3. DocOK(doc)
  BY WidthAssumption DEF Init, DocOK, StartDoc, NoKind
<1>4. OpsOK(todo) /\ i = 0
  BY VisEmpty DEF Init, InlineInit, OpsOK
<1> QED  BY <1>2, <1>3, <1>4 DEF IInv

LEMMA NextKeeps == IInv /\ [Next]_vars => IInv'
<1> SUFFICES ASSUME IInv, [Next]_vars PROVE IInv'
  OBVIOUS
<1>1. CASE UNCHANGED vars
  BY <1>1 DEF vars, wrapVars, inlineVars, docVars, IInv, WrapInv, PrefixOK, RowOK
<1>2. CASE Work
  BY <1>2, BeginBlockKeeps, BeginCodeKeeps, RenderKeeps, EndBlockKeeps, PrintOtherKeeps DEF Work
<1> QED  BY <1>1, <1>2, ReadLineKeeps, EndKeeps DEF Next

LEMMA InvFits == IInv => RowsFit
<1> SUFFICES ASSUME IInv PROVE RowsFit
  OBVIOUS
<1>1. RowsOK(rows)
  BY DEF IInv, WrapInv, RowsOK
<1>2. started => RowsOK(Append(rows, row.rb))
  BY <1>1, OneMoreRow DEF IInv, WrapInv, RowOK
<1> QED  BY <1>1, <1>2 DEF RowsFit, RowsOK, AllRows

\* No row of any document has more columns than the terminal leaves (RowsFit).
THEOREM MdvRowsFit == Spec => []RowsFit
<1>1. Spec => []IInv
  BY InitOK, NextKeeps, PTL DEF Spec
<1> QED  BY <1>1, InvFits, PTL
=============================================================================
