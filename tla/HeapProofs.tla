----------------------------- MODULE HeapProofs -----------------------------
(***************************************************************************)
(* The heap of lib/heap_malloc.asm, for every arena and whatever a program *)
(* asks for, up to the moment a block of 0 or 1 bytes is cut off (tiny):   *)
(* its blocks stay apart (Apart), a call leaves their bytes alone          *)
(* (DataKept), nothing is refused that would fit (FailsRightly), and       *)
(* freeing everything, in any order, gives back the one block of the       *)
(* beginning (AllJoined).                                                  *)
(***************************************************************************)
EXTENDS Heap, TLAPS

---------------------------------------------------------------------------
\* A word is a number of 16 bits.
LEMMA Words ==
  /\ \A w \in Word : w \in Nat /\ w < 65536
  /\ \A w \in Nat : w < 65536 => w \in Word
<1>1. MaxWord \in Nat /\ MaxWord + 1 = 65536
  BY DEF MaxWord
<1>2. \A w \in Word : w \in Nat /\ w <= MaxWord
  BY <1>1 DEF Word
<1>3. \A w \in Nat : w <= MaxWord => w \in Word
  BY <1>1 DEF Word
<1> QED
  BY <1>1, <1>2, <1>3

\* Arithmetic of 16 bits, where nothing goes over the end.
LEMMA Sums ==
  ASSUME NEW a \in Nat, NEW b \in Nat
  PROVE  /\ a + b < 65536 => Add(a, b) = a + b
         /\ b <= a /\ a < 65536 => Sub(a, b) = a - b
         /\ a + b = 65536 => Add(a, b) = 0
         /\ Add(a, b) \in Word
<1>1. MaxWord + 1 = 65536
  BY DEF MaxWord
<1>2. Add(a, b) = (a + b) % 65536 /\ Sub(a, b) = (a - b) % 65536
  BY <1>1 DEF Add, Sub
<1>3. (a + b) % 65536 \in Nat /\ (a + b) % 65536 < 65536
  BY SMT
<1>4. a + b < 65536 => (a + b) % 65536 = a + b
  BY SMT
<1>5. b <= a /\ a < 65536 => (a - b) % 65536 = a - b
  BY SMT
<1>6. a + b = 65536 => (a + b) % 65536 = 0
  BY SMT
<1> QED
  BY <1>2, <1>3, <1>4, <1>5, <1>6, Words

\* A word's two bytes.
LEMMA TwoBytes ==
  ASSUME NEW w \in Word
  PROVE  /\ w \div 256 \in Byte /\ w % 256 \in Byte
         /\ (w \div 256) * 256 + (w % 256) = w
<1>1. w \in Nat /\ w < 65536
  BY Words
<1>2. w \div 256 \in Int /\ 0 <= w \div 256 /\ w \div 256 <= 255
  BY <1>1, SMT
<1>3. w % 256 \in Int /\ 0 <= w % 256 /\ w % 256 <= 255
  BY <1>1, SMT
<1>4. (w \div 256) * 256 + (w % 256) = w
  BY <1>1, SMT
<1>5. \A x \in Int : 0 <= x /\ x <= 255 => x \in Byte
  BY DEF Byte
<1> QED
  BY <1>2, <1>3, <1>4, <1>5

LEMMA OneWord ==
  ASSUME NEW p \in Byte, NEW q \in Byte PROVE p * 256 + q \in Word
<1>1. p \in Nat /\ q \in Nat /\ p <= 255 /\ q <= 255
  BY DEF Byte
<1>2. p * 256 + q \in Nat /\ p * 256 + q < 65536
  BY <1>1
<1> QED
  BY <1>2, Words

LEMMA AskedFor ==
  ASSUME ArenaOK, NEW n \in Requests
  PROVE  n \in Nat /\ n < 65536
BY Words DEF ArenaOK

LEMMA ArenaInt == ASSUME ArenaOK PROVE Arena \subseteq Int
BY DEF Arena, ArenaOK

LEMMA ReadRight ==
  ASSUME ArenaOK, NEW m \in Memory, NEW a \in Arena, a + 1 \in Arena
  PROVE  WordAt(m, a) \in Word
<1>1. m[a] \in Byte /\ m[a + 1] \in Byte
  BY DEF Memory
<1> QED
  BY <1>1, OneWord DEF WordAt

LEMMA PutRight ==
  ASSUME ArenaOK, NEW m \in Memory, NEW a \in Arena, a + 1 \in Arena, NEW w \in Word
  PROVE  /\ PutWord(m, a, w) \in Memory
         /\ WordAt(PutWord(m, a, w), a) = w
         /\ \A x \in Arena : x # a /\ x # a + 1 => PutWord(m, a, w)[x] = m[x]
         /\ \A x \in Arena : x + 1 \in Arena /\ (x + 1 < a \/ a + 1 < x) =>
              WordAt(PutWord(m, a, w), x) = WordAt(m, x)
<1> DEFINE n == PutWord(m, a, w)
<1>0. a \in Int /\ a + 1 # a /\ Arena \subseteq Int
  BY DEF Arena, ArenaOK
<1>1. w \div 256 \in Byte /\ w % 256 \in Byte /\ (w \div 256) * 256 + (w % 256) = w
  BY TwoBytes
<1>2. n \in Memory
  BY <1>1 DEF PutWord, Memory
<1>3. n[a] = w \div 256 /\ n[a + 1] = w % 256
  BY <1>0 DEF PutWord, Memory
<1>4. \A x \in Arena : x # a /\ x # a + 1 => n[x] = m[x]
  BY DEF PutWord, Memory
<1>5. WordAt(n, a) = w
  BY <1>1, <1>3 DEF WordAt
<1>6. ASSUME NEW x \in Arena, x + 1 \in Arena, x + 1 < a \/ a + 1 < x
      PROVE  WordAt(n, x) = WordAt(m, x)
  <2>1. x # a /\ x # a + 1 /\ x + 1 # a /\ x + 1 # a + 1
    BY <1>0, <1>6
  <2>2. n[x] = m[x] /\ n[x + 1] = m[x + 1]
    BY <1>4, <1>6, <2>1
  <2> QED BY <2>2 DEF WordAt
<1> HIDE DEF n
<1> QED
  BY <1>2, <1>4, <1>5, <1>6 DEF n

---------------------------------------------------------------------------
\* Places of blocks, which have room for SIZE and NEXT before the next.
Place == Base .. Last - 3
Spaced(B) == B \subseteq Place /\ \A x, y \in B : x < y => x + 4 <= y

LEMMA Ends ==
  ASSUME ArenaOK
  PROVE  Base \in Nat /\ Last \in Nat /\ 0 < Base /\ Base + 3 <= Last /\ Last <= 65535
BY DEF ArenaOK, MaxWord

LEMMA Places ==
  ASSUME ArenaOK
  PROVE  \A x \in Place : x \in Int /\ x \in Nat /\ 0 < x /\ Base <= x /\ x + 3 <= Last
                          /\ x < 65536
BY Ends DEF Place

LEMMA InPlace ==
  ASSUME ArenaOK, NEW B, Spaced(B), NEW x \in B
  PROVE  /\ x \in Int /\ x \in Arena /\ x + 1 \in Arena /\ x + 2 \in Arena
         /\ x + 2 + 1 \in Arena
<1>1. x \in Place
  BY DEF Spaced
<1>2. Base \in Int /\ Last \in Int
  BY DEF ArenaOK
<1>3. x \in Int /\ Base <= x /\ x + 3 <= Last
  BY <1>1, <1>2 DEF Place
<1> QED
  BY <1>2, <1>3 DEF Arena

\* A write to one field changes nothing else.
LEMMA SizeSet ==
  ASSUME ArenaOK, NEW m \in Memory, NEW B, Spaced(B), NEW b \in B, NEW w \in Word
  PROVE  LET n == SetSize(m, b, w)
         IN  /\ n \in Memory
             /\ Size(n, b) = w
             /\ \A x \in B : x # b => Size(n, x) = Size(m, x)
             /\ \A x \in B : Next(n, x) = Next(m, x)
             /\ \A a \in Arena : a \notin b .. b + 3 => n[a] = m[a]
<1> DEFINE n == SetSize(m, b, w)
<1>1. \A x \in B : x \in Int /\ x \in Arena /\ x + 1 \in Arena /\ x + 2 \in Arena
                   /\ x + 2 + 1 \in Arena
  BY InPlace
<1>2. /\ n \in Memory /\ WordAt(n, b) = w
      /\ \A x \in Arena : x # b /\ x # b + 1 => n[x] = m[x]
      /\ \A x \in Arena : x + 1 \in Arena /\ (x + 1 < b \/ b + 1 < x) =>
           WordAt(n, x) = WordAt(m, x)
  BY <1>1, PutRight DEF SetSize
<1>3. \A x \in B : x # b => Size(n, x) = Size(m, x)
  <2> TAKE x \in B
  <2> HAVE x # b
  <2>1. x + 1 < b \/ b + 1 < x
    BY <1>1 DEF Spaced
  <2> QED BY <1>1, <1>2, <2>1 DEF Size
<1>4. \A x \in B : Next(n, x) = Next(m, x)
  <2> TAKE x \in B
  <2>1. x + 2 + 1 < b \/ b + 1 < x + 2
    BY <1>1 DEF Spaced
  <2> HIDE DEF n
  <2> QED BY <1>1, <1>2, <2>1 DEF Next
<1>5. \A a \in Arena : a \notin b .. b + 3 => n[a] = m[a]
  BY <1>1, <1>2, ArenaInt
<1> HIDE DEF n
<1> QED BY <1>2, <1>3, <1>4, <1>5 DEF n, Size

LEMMA NextSet ==
  ASSUME ArenaOK, NEW m \in Memory, NEW B, Spaced(B), NEW b \in B, NEW w \in Word
  PROVE  LET n == SetNext(m, b, w)
         IN  /\ n \in Memory
             /\ Next(n, b) = w
             /\ \A x \in B : x # b => Next(n, x) = Next(m, x)
             /\ \A x \in B : Size(n, x) = Size(m, x)
             /\ \A a \in Arena : a \notin b .. b + 3 => n[a] = m[a]
<1> DEFINE n == SetNext(m, b, w)
<1>1. \A x \in B : x \in Int /\ x \in Arena /\ x + 1 \in Arena /\ x + 2 \in Arena
                   /\ x + 2 + 1 \in Arena
  BY InPlace
<1>2. /\ n \in Memory /\ WordAt(n, b + 2) = w
      /\ \A x \in Arena : x # b + 2 /\ x # b + 2 + 1 => n[x] = m[x]
      /\ \A x \in Arena : x + 1 \in Arena /\ (x + 1 < b + 2 \/ b + 2 + 1 < x) =>
           WordAt(n, x) = WordAt(m, x)
  BY <1>1, PutRight DEF SetNext
<1>3. \A x \in B : x # b => Next(n, x) = Next(m, x)
  <2> TAKE x \in B
  <2> HAVE x # b
  <2>1. x + 2 + 1 < b + 2 \/ b + 2 + 1 < x + 2
    BY <1>1 DEF Spaced
  <2> HIDE DEF n
  <2> QED BY <1>1, <1>2, <2>1 DEF Next
<1>4. \A x \in B : Size(n, x) = Size(m, x)
  <2> TAKE x \in B
  <2>1. x + 1 < b + 2 \/ b + 2 + 1 < x
    BY <1>1 DEF Spaced
  <2> HIDE DEF n
  <2> QED BY <1>1, <1>2, <2>1 DEF Size
<1>5. \A a \in Arena : a \notin b .. b + 3 => n[a] = m[a]
  BY <1>1, <1>2, ArenaInt
<1> HIDE DEF n
<1> QED BY <1>2, <1>3, <1>4, <1>5 DEF n, Next

\* The head or a block's NEXT is changed.
LEMMA LinkSet ==
  ASSUME ArenaOK, NEW m \in Memory, NEW B, Spaced(B), NEW prev \in B \cup {Nil}, NEW w \in Word
  PROVE  LET n == LinkMem(m, prev, w)
         IN  /\ n \in Memory
             /\ prev # Nil => Next(n, prev) = w
             /\ \A x \in B : x # prev => Next(n, x) = Next(m, x)
             /\ \A x \in B : Size(n, x) = Size(m, x)
             /\ \A a \in Arena : a \notin prev .. prev + 3 \/ prev = Nil => n[a] = m[a]
<1>1. CASE prev = Nil
  BY <1>1 DEF LinkMem
<1>2. CASE prev # Nil
  <2>1. prev \in B /\ LinkMem(m, prev, w) = SetNext(m, prev, w)
    BY <1>2 DEF LinkMem
  <2> QED BY <2>1, <1>2, NextSet
<1> QED
  BY <1>1, <1>2

---------------------------------------------------------------------------
\* x is the next of the blocks F behind lo; the list of F begins with h.
IsNext(x, F, lo) ==
  IF x = Nil THEN \A f \in F : f <= lo
  ELSE x \in F /\ lo < x /\ \A f \in F : lo < f => x <= f
Chain(m, F, h) == IsNext(h, F, Nil) /\ \A f \in F : IsNext(Next(m, f), F, f)

LEMMA NextMinus ==
  ASSUME NEW F, NEW c, NEW x, NEW lo, IsNext(x, F, lo), x # c
  PROVE  IsNext(x, F \ {c}, lo)
BY DEF IsNext

LEMMA NextIn ==
  ASSUME NEW F, \A f \in F : f \in Int, NEW g \in F, NEW x, NEW lo, lo < g, lo \in Int,
         IsNext(x, F, lo)
  PROVE  x # Nil /\ x \in F /\ x \in Int /\ lo < x /\ x <= g
<1>1. x # Nil
  BY DEF IsNext
<1> QED
  BY <1>1 DEF IsNext

LEMMA NextPlus ==
  ASSUME NEW F, \A f \in F : f \in Int, NEW a \in Int, NEW lo \in Int, NEW x,
         IsNext(x, F, lo), a <= lo \/ (x # Nil /\ x <= a)
  PROVE  IsNext(x, F \cup {a}, lo)
<1>1. CASE x = Nil
  BY <1>1 DEF IsNext
<1>2. CASE x # Nil
  <2>1. x \in F /\ x \in Int /\ lo < x /\ \A f \in F : lo < f => x <= f
    BY <1>2 DEF IsNext
  <2>2. lo < a => x <= a
    BY <1>2, <2>1
  <2> QED BY <1>2, <2>1, <2>2 DEF IsNext
<1> QED
  BY <1>1, <1>2

\* The next behind lo is the next behind lo2, if there is no other in between.
LEMMA NextFrom ==
  ASSUME NEW F, \A f \in F : f \in Int, NEW lo \in Int, NEW lo2 \in Int, NEW x,
         IsNext(x, F, lo), x = Nil \/ lo2 < x, lo <= lo2
  PROVE  IsNext(x, F, lo2)
<1>1. CASE x = Nil
  BY <1>1 DEF IsNext
<1>2. CASE x # Nil
  <2>1. x \in F /\ x \in Int /\ lo < x /\ \A f \in F : lo < f => x <= f
    BY <1>2 DEF IsNext
  <2>2. \A f \in F : lo2 < f => x <= f
    BY <2>1
  <2> QED BY <1>2, <2>1, <2>2 DEF IsNext
<1> QED
  BY <1>1, <1>2

\* A block is taken out of the list.
LEMMA ListWithout ==
  ASSUME ArenaOK, NEW F \in SUBSET Place, NEW c \in F, NEW prev \in F \cup {Nil},
         NEW h, NEW m, NEW m2, Chain(m, F, h), IsNext(c, F, prev),
         \A x \in F \ {c} : Next(m2, x) = IF x = prev THEN Next(m, c) ELSE Next(m, x)
  PROVE  Chain(m2, F \ {c}, IF prev = Nil THEN Next(m, c) ELSE h)
<1> DEFINE G == F \ {c}
           h2 == IF prev = Nil THEN Next(m, c) ELSE h
<1>1. \A f \in F : f \in Int /\ 0 < f
  BY Places
<1>2. c \in Int /\ prev < c /\ (\A f \in F : prev < f => c <= f) /\ c # Nil /\ prev \in Int
  BY <1>1 DEF IsNext, Nil
<1>3. IsNext(Next(m, c), G, c)
  BY <1>1 DEF Chain, IsNext
<1>4. IsNext(Next(m, c), G, prev)
  <2> DEFINE x == Next(m, c)
  <2>1. \A f \in G : f \in Int /\ (f <= prev \/ c < f)
    BY <1>1, <1>2
  <2>2. IsNext(x, G, c)
    BY <1>3
  <2> HIDE DEF x, G
  <2>3. IsNext(x, G, prev)
    <3>1. CASE x = Nil
      <4>1. \A f \in G : f <= c
        BY <2>2, <3>1 DEF IsNext
      <4>2. \A f \in G : f <= prev
        BY <4>1, <2>1, <1>2
      <4> QED BY <3>1, <4>2 DEF IsNext
    <3>2. CASE x # Nil
      <4>1. x \in G /\ c < x /\ \A f \in G : c < f => x <= f
        BY <2>2, <3>2 DEF IsNext
      <4>2. prev < x /\ \A f \in G : prev < f => x <= f
        BY <4>1, <2>1, <1>2
      <4> QED BY <3>2, <4>1, <4>2 DEF IsNext
    <3> QED BY <3>1, <3>2
  <2> QED BY <2>3 DEF x, G
<1>5. ASSUME NEW f \in G PROVE IsNext(Next(m2, f), G, f)
  <2>1. CASE f = prev
    BY <2>1, <1>4
  <2>2. CASE f # prev
    <3>1. Next(m2, f) = Next(m, f) /\ IsNext(Next(m, f), F, f)
      BY <2>2 DEF Chain
    <3>2. Next(m, f) # c
      <4> SUFFICES ASSUME Next(m, f) = c PROVE FALSE
        OBVIOUS
      <4>1. f < c /\ \A g \in F : f < g => c <= g
        BY <3>1, <1>2 DEF IsNext, Nil
      <4>2. prev < f \/ f < prev
        BY <2>2, <1>1, <1>2
      <4>3. f < prev => c <= prev
        BY <4>1, <1>1 DEF Nil
      <4> QED BY <4>1, <4>2, <4>3, <1>1, <1>2
    <3> QED BY <3>1, <3>2 DEF IsNext, Nil
  <2> QED BY <2>1, <2>2
<1>6. IsNext(h2, G, Nil)
  <2>1. CASE prev = Nil
    BY <2>1, <1>4
  <2>2. CASE prev # Nil
    <3>1. IsNext(h, F, Nil) /\ h2 = h
      BY <2>2 DEF Chain
    <3>2. h # c
      BY <3>1, <2>2, <1>1, <1>2 DEF IsNext, Nil
    <3> QED BY <3>1, <3>2 DEF IsNext, Nil
  <2> QED BY <2>1, <2>2
<1> QED
  BY <1>5, <1>6 DEF Chain

\* A block is put into the list where it belongs.
LEMMA ListWith ==
  ASSUME ArenaOK, NEW F \in SUBSET Place, NEW a \in Place \ F, NEW prev \in F \cup {Nil},
         NEW c, NEW h, NEW m, NEW m2, Chain(m, F, h), IsNext(c, F, prev),
         prev < a, c = Nil \/ a < c,
         Next(m2, a) = c,
         \A x \in F : Next(m2, x) = IF x = prev THEN a ELSE Next(m, x)
  PROVE  /\ Chain(m2, F \cup {a}, IF prev = Nil THEN a ELSE h)
         /\ IsNext(a, F \cup {a}, prev) /\ IsNext(c, F \cup {a}, a)
<1> DEFINE G == F \cup {a}
           h2 == IF prev = Nil THEN a ELSE h
<1>1. (\A f \in F : f \in Int /\ 0 < f) /\ a \in Int /\ 0 < a
  BY Places
<1>2. prev \in Int /\ 0 <= prev
  BY <1>1 DEF Nil
<1>3. \A f \in F : f <= prev \/ a < f
  <2>1. CASE c = Nil
    BY <2>1 DEF IsNext
  <2>2. CASE c # Nil
    <3>1. c \in Int /\ a < c /\ \A f \in F : prev < f => c <= f
      BY <2>2, <1>1 DEF IsNext
    <3> QED BY <3>1, <1>1, <1>2
  <2> QED BY <2>1, <2>2
<1>4. IsNext(c, G, a)
  <2>0. prev <= a /\ a <= a
    BY <1>1, <1>2
  <2>1. IsNext(c, F, a)
    BY <2>0, <1>1, <1>2, NextFrom
  <2> QED BY <2>0, <2>1, <1>1, NextPlus
<1>5. IsNext(a, G, prev)
  BY <1>1, <1>2, <1>3 DEF IsNext, Nil
<1>6. ASSUME NEW f \in F, f # prev PROVE IsNext(Next(m2, f), G, f)
  <2>1. Next(m2, f) = Next(m, f) /\ IsNext(Next(m, f), F, f)
    BY <1>6 DEF Chain
  <2>2. CASE f < prev
    <3>0. prev \in F
      BY <2>2, <1>1 DEF Nil
    <3>1. Next(m, f) # Nil /\ Next(m, f) \in Int /\ Next(m, f) <= prev
      BY <2>1, <2>2, <3>0, <1>1, NextIn
    <3>2. Next(m, f) <= a
      BY <3>1, <1>1, <1>2
    <3> QED BY <2>1, <3>1, <3>2, <1>1, NextPlus
  <2>3. CASE prev < f
    <3>1. a <= f
      BY <2>3, <1>1, <1>2, <1>3
    <3> QED BY <2>1, <3>1, <1>1, NextPlus
  <2> QED BY <2>2, <2>3, <1>6, <1>1, <1>2
<1>7. ASSUME NEW f \in G PROVE IsNext(Next(m2, f), G, f)
  <2>1. CASE f = a
    BY <2>1, <1>4
  <2>2. CASE f \in F /\ f = prev
    BY <2>2, <1>5
  <2> QED BY <2>1, <2>2, <1>6
<1>8. IsNext(h2, G, Nil)
  <2>1. CASE prev = Nil
    BY <2>1, <1>5
  <2>2. CASE prev # Nil
    <3>1. IsNext(h, F, Nil) /\ h2 = h /\ prev \in F
      BY <2>2 DEF Chain
    <3>2. h # Nil /\ h \in Int /\ h <= prev
      <4>1. Nil \in Int /\ Nil < prev
        BY <3>1, <1>1 DEF Nil
      <4> QED BY <4>1, <3>1, <1>1, NextIn
    <3>3. h <= a
      BY <3>2, <1>1, <1>2
    <3>4. Nil \in Int
      BY DEF Nil
    <3>5. IsNext(h, G, Nil)
      BY <3>1, <3>2, <3>3, <3>4, <1>1, NextPlus
    <3> QED BY <3>1, <3>5
  <2> QED BY <2>1, <2>2
<1> HIDE DEF h2
<1>9. Chain(m2, G, h2)
  BY <1>7, <1>8 DEF Chain
<1> QED
  BY <1>4, <1>5, <1>9 DEF h2

\* A block is replaced by one behind it and before the next.
LEMMA ListSwap ==
  ASSUME ArenaOK, NEW F \in SUBSET Place, NEW c \in F, NEW prev \in F \cup {Nil},
         NEW r \in Place, c < r, \A f \in F : c < f => r < f,
         NEW h, NEW m, NEW m2, Chain(m, F, h), IsNext(c, F, prev),
         Next(m2, r) = Next(m, c),
         \A x \in F \ {c} : Next(m2, x) = IF x = prev THEN r ELSE Next(m, x)
  PROVE  Chain(m2, (F \ {c}) \cup {r}, IF prev = Nil THEN r ELSE h)
<1> DEFINE E == F \ {c}
           G == E \cup {r}
           h2 == IF prev = Nil THEN r ELSE h
<1>1. (\A f \in F : f \in Int /\ 0 < f) /\ r \in Int /\ \A f \in E : f \in Int
  BY Places
<1>2. c \in Int /\ prev < c /\ (\A f \in F : prev < f => c <= f) /\ prev \in Int
  BY <1>1 DEF IsNext, Nil
<1>3. IsNext(Next(m, c), G, r)
  <2> DEFINE x == Next(m, c)
  <2>1. IsNext(x, F, c)
    BY DEF Chain
  <2> HIDE DEF x
  <2>2. x # c /\ (x = Nil \/ r < x)
    <3>1. CASE x = Nil
      BY <3>1, <1>1 DEF Nil
    <3>2. CASE x # Nil
      <4>1. x \in F /\ c < x
        BY <3>2, <2>1 DEF IsNext
      <4> QED BY <4>1, <1>1, <1>2
    <3> QED BY <3>1, <3>2
  <2>3. IsNext(x, E, c)
    BY <2>1, <2>2, NextMinus
  <2> HIDE DEF E
  <2>4. IsNext(x, E, r)
    BY <2>2, <2>3, <1>1, <1>2, NextFrom
  <2>5. IsNext(x, G, r)
    BY <2>4, <1>1, NextPlus
  <2> QED BY <2>5 DEF x
<1>4. IsNext(r, G, prev)
  BY <1>1, <1>2 DEF IsNext, Nil
<1>5. ASSUME NEW f \in F, f # c, f # prev PROVE IsNext(Next(m2, f), G, f)
  <2>1. Next(m2, f) = Next(m, f) /\ IsNext(Next(m, f), F, f)
    BY <1>5 DEF Chain
  <2>2. CASE f < prev
    <3>0. prev \in F
      BY <2>2, <1>1 DEF Nil
    <3>1. Next(m, f) # Nil /\ Next(m, f) \in Int /\ Next(m, f) <= prev
      BY <2>1, <2>2, <3>0, <1>1, NextIn
    <3>2. Next(m, f) <= r /\ Next(m, f) # c
      BY <3>1, <1>1, <1>2
    <3>3. IsNext(Next(m, f), E, f)
      BY <2>1, <3>2, NextMinus
    <3> HIDE DEF E
    <3>4. IsNext(Next(m, f), G, f)
      BY <3>1, <3>2, <3>3, <1>1, NextPlus
    <3> QED BY <2>1, <3>4
  <2>3. CASE prev < f
    <3>1. c < f /\ r <= f
      BY <2>3, <1>1, <1>2, <1>5
    <3>2. Next(m, f) # c
      BY <2>1, <3>1, <1>1, <1>2 DEF IsNext, Nil
    <3>3. IsNext(Next(m, f), E, f)
      BY <2>1, <3>2, NextMinus
    <3> HIDE DEF E
    <3>4. IsNext(Next(m, f), G, f)
      BY <3>1, <3>3, <1>1, NextPlus
    <3> QED BY <2>1, <3>4
  <2> QED BY <2>2, <2>3, <1>5, <1>1, <1>2
<1>6. ASSUME NEW f \in G PROVE IsNext(Next(m2, f), G, f)
  <2>1. CASE f = r
    BY <2>1, <1>3
  <2>2. CASE f # r /\ f = prev
    BY <2>2, <1>4
  <2> QED BY <2>1, <2>2, <1>5
<1>7. IsNext(h2, G, Nil)
  <2>1. CASE prev = Nil
    BY <2>1, <1>4
  <2>2. CASE prev # Nil
    <3>1. IsNext(h, F, Nil) /\ h2 = h /\ prev \in F
      BY <2>2 DEF Chain
    <3>2. h # Nil /\ h \in Int /\ h <= prev
      <4>1. Nil \in Int /\ Nil < prev
        BY <3>1, <1>1 DEF Nil
      <4> QED BY <4>1, <3>1, <1>1, NextIn
    <3>3. h <= r /\ h # c
      BY <3>2, <1>1, <1>2
    <3> HIDE DEF h2
    <3>4. IsNext(h, E, Nil)
      BY <3>1, <3>3, NextMinus
    <3>5. Nil \in Int
      BY DEF Nil
    <3> HIDE DEF E
    <3>6. IsNext(h, G, Nil)
      BY <3>2, <3>3, <3>4, <3>5, <1>1, NextPlus
    <3> QED BY <3>1, <3>6
  <2> QED BY <2>1, <2>2
<1> HIDE DEF h2
<1>8. Chain(m2, G, h2)
  BY <1>6, <1>7 DEF Chain
<1> QED
  BY <1>8 DEF h2

---------------------------------------------------------------------------
\* The blocks B lie one behind the other and fill the arena.
Stop(m, b) == b + 2 + Size(m, b)
Tiled(m, B) ==
  /\ Base \in B /\ B \subseteq Place
  /\ \A b \in B : Size(m, b) \in Nat /\ 2 <= Size(m, b) /\ Stop(m, b) <= Last + 1
  /\ \A b \in B : Stop(m, b) = Last + 1 \/ Stop(m, b) \in B
  /\ \A a, b \in B : a < b => Stop(m, a) <= b

LEMMA TiledSpaced ==
  ASSUME ArenaOK, NEW m, NEW B, Tiled(m, B)
  PROVE  Spaced(B)
<1>1. \A b \in B : b \in Int /\ Size(m, b) \in Nat /\ 2 <= Size(m, b)
  BY Places DEF Tiled
<1>2. \A a, b \in B : a < b => a + 2 + Size(m, a) <= b
  BY DEF Tiled, Stop
<1>3. \A a, b \in B : a < b => a + 4 <= b
  BY <1>1, <1>2
<1> QED
  BY <1>3 DEF Spaced, Tiled

\* The end of a block in 16 bits, if it is asked for another's address.
LEMMA EndIs ==
  ASSUME ArenaOK, NEW m, NEW B, Tiled(m, B), NEW b \in B, NEW c \in Place
  PROVE  /\ (End(m, b) = c) <=> (Stop(m, b) = c)
         /\ Add(b, 2) = b + 2
<1>1. b \in Nat /\ 0 < c /\ c \in Int /\ Size(m, b) \in Nat
  BY Places DEF Tiled
<1>2. b + 2 + Size(m, b) <= Last + 1 /\ Last \in Nat /\ Last <= 65535
  BY Ends DEF Tiled, Stop
<1> DEFINE z == Size(m, b)
<1> HIDE DEF z
<1>3. z \in Nat /\ b + 2 + z <= 65536
  BY <1>1, <1>2 DEF z
<1>4. CASE b + 2 < 65536
  <2>1. Add(b, 2) = b + 2
    BY <1>1, <1>4, Sums
  <2>2. b + 2 + z < 65536 => Add(b + 2, z) = b + 2 + z
    BY <1>1, <1>3, Sums
  <2>3. b + 2 + z = 65536 => Add(b + 2, z) = 0
    BY <1>1, <1>3, Sums
  <2>4. c < 65536
    BY Places
  <2> QED BY <2>1, <2>2, <2>3, <2>4, <1>1, <1>3 DEF z, End, Stop
<1>5. 2 <= z
  BY DEF Tiled, z
<1> QED
  BY <1>1, <1>3, <1>4, <1>5

\* Two neighbours become one.
LEMMA Merge ==
  ASSUME ArenaOK, NEW m, NEW m2, NEW B, Tiled(m, B), NEW a \in B, NEW c \in B,
         Stop(m, a) = c, Size(m2, a) = Size(m, a) + 2 + Size(m, c),
         \A x \in B \ {a, c} : Size(m2, x) = Size(m, x)
  PROVE  Tiled(m2, B \ {c}) /\ Stop(m2, a) = Stop(m, c) /\ a < c
<1> DEFINE G == B \ {c}
<1>1. \A x \in B : x \in Int /\ Size(m, x) \in Nat /\ 2 <= Size(m, x)
                   /\ Stop(m, x) = x + 2 + Size(m, x)
  BY Places DEF Tiled, Stop
<1>2. a < c /\ a # c
  BY <1>1
<1>3. Stop(m2, a) = Stop(m, c) /\ Stop(m, c) = c + 2 + Size(m, c)
  BY <1>1 DEF Stop
<1>4. \A x \in G : x # a => Stop(m2, x) = Stop(m, x) /\ Stop(m, x) # c
  <2> SUFFICES ASSUME NEW x \in G, x # a
               PROVE  Stop(m2, x) = Stop(m, x) /\ Stop(m, x) # c
    OBVIOUS
  <2>1. Stop(m2, x) = Stop(m, x)
    BY DEF Stop
  <2>2. x < a => Stop(m, x) <= a
    BY DEF Tiled
  <2>3. a < x => c <= x
    BY DEF Tiled
  <2>4. x \in Int /\ Stop(m, x) \in Int /\ a \in Int /\ c \in Int /\ x < Stop(m, x)
    BY <1>1
  <2> QED BY <2>1, <2>2, <2>3, <2>4, <1>2
<1>5. Base \in G /\ G \subseteq Place
  <2>1. Base <= a /\ Base \in Int /\ a \in Int /\ c \in Int
    BY <1>1, Ends, Places DEF Tiled
  <2>2. Base # c
    BY <2>1, <1>2
  <2> QED BY <2>2 DEF Tiled
<1>6. \A b \in G : Size(m2, b) \in Nat /\ 2 <= Size(m2, b) /\ Stop(m2, b) <= Last + 1
  <2> TAKE b \in G
  <2>1. CASE b = a
    BY <2>1, <1>1, <1>3 DEF Tiled
  <2>2. CASE b # a
    BY <2>2, <1>1, <1>4 DEF Tiled
  <2> QED BY <2>1, <2>2
<1>7. \A b \in G : Stop(m2, b) = Last + 1 \/ Stop(m2, b) \in G
  <2> TAKE b \in G
  <2>1. CASE b = a
    <3>1. Stop(m, c) # c
      BY <1>1, <1>3
    <3> QED BY <2>1, <3>1, <1>3 DEF Tiled
  <2>2. CASE b # a
    BY <2>2, <1>4 DEF Tiled
  <2> QED BY <2>1, <2>2
<1>8. \A x, b \in G : x < b => Stop(m2, x) <= b
  <2> TAKE x, b \in G
  <2> HAVE x < b
  <2>1. CASE x = a
    <3>1. c <= b
      BY <2>1 DEF Tiled
    <3>2. c < b
      BY <3>1, <1>1
    <3> QED BY <2>1, <3>2, <1>3 DEF Tiled
  <2>2. CASE x # a
    BY <2>2, <1>4 DEF Tiled
  <2> QED BY <2>1, <2>2
<1> QED
  BY <1>2, <1>3, <1>5, <1>6, <1>7, <1>8 DEF Tiled

\* Where a block's rest begins.
LEMMA CutPlace ==
  ASSUME ArenaOK, NEW m, NEW B, Tiled(m, B), NEW c \in B, NEW n \in Nat, 2 <= n,
         n + 4 <= Size(m, c), NEW r, r = c + 2 + n
  PROVE  /\ r \in Place /\ r \notin B /\ c < r /\ Spaced(B \cup {r})
         /\ \A x \in B : c < x => r < x
<1>1. \A x \in B : x \in Int /\ Size(m, x) \in Nat /\ 2 <= Size(m, x)
                   /\ Stop(m, x) = x + 2 + Size(m, x)
  BY Places DEF Tiled, Stop
<1>2. r \in Int /\ c + 4 <= r /\ r + 4 <= Stop(m, c)
  BY <1>1
<1>3. \A x \in B : c < x => r + 4 <= x
  <2> SUFFICES ASSUME NEW x \in B, c < x PROVE r + 4 <= x
    OBVIOUS
  <2>1. Stop(m, c) <= x
    BY DEF Tiled
  <2> QED BY <2>1, <1>1, <1>2
<1>4. r \in Place
  <2>1. Stop(m, c) <= Last + 1 /\ Last \in Int /\ Base \in Int /\ Base <= c
    BY Ends, Places DEF Tiled
  <2> QED BY <2>1, <1>1, <1>2 DEF Place
<1>5. Spaced(B)
  BY TiledSpaced
<1>6. \A x \in B : x <= c => x + 4 <= r
  <2> TAKE x \in B
  <2>1. x < c => x + 4 <= c
    BY <1>5 DEF Spaced
  <2> QED BY <2>1, <1>1, <1>2
<1>7. \A x, y \in B \cup {r} : x < y => x + 4 <= y
  <2> TAKE x, y \in B \cup {r}
  <2> HAVE x < y
  <2>1. CASE x \in B /\ y \in B
    BY <2>1, <1>5 DEF Spaced
  <2>2. CASE x = r
    <3>1. y \in B /\ c < y
      BY <2>2, <1>1, <1>2
    <3> QED BY <2>2, <3>1, <1>3
  <2>3. CASE x \in B /\ y = r
    <3>1. x <= c
      BY <2>3, <1>1, <1>2, <1>3
    <3> QED BY <2>3, <3>1, <1>6
  <2> QED BY <2>1, <2>2, <2>3
<1> QED
  BY <1>1, <1>2, <1>3, <1>4, <1>5, <1>7 DEF Spaced

\* One block becomes two.
LEMMA Cut ==
  ASSUME ArenaOK, NEW m, NEW m2, NEW B, Tiled(m, B), NEW c \in B, NEW n \in Nat, 2 <= n,
         n + 4 <= Size(m, c), NEW r, r = c + 2 + n,
         r \in Place, r \notin B, \A x \in B : c < x => r < x,
         Size(m2, c) = n, Size(m2, r) = Size(m, c) - n - 2,
         \A x \in B \ {c} : Size(m2, x) = Size(m, x)
  PROVE  Tiled(m2, B \cup {r}) /\ Stop(m2, r) = Stop(m, c)
<1> DEFINE G == B \cup {r}
<1>1. \A x \in B : x \in Int /\ Size(m, x) \in Nat /\ 2 <= Size(m, x)
                   /\ Stop(m, x) = x + 2 + Size(m, x)
  BY Places DEF Tiled, Stop
<1>2. r \in Int /\ c < r /\ r + 4 <= Stop(m, c)
  BY <1>1
<1>3. Stop(m2, c) = r /\ Stop(m2, r) = Stop(m, c)
  BY <1>1 DEF Stop
<1>4. r \in Place /\ r \notin B /\ \A x \in B : c < x => r < x
  OBVIOUS
<1>7. \A x \in B : x # c => Stop(m2, x) = Stop(m, x)
  BY DEF Stop
<1>8. Base \in G /\ G \subseteq Place
  BY <1>4 DEF Tiled
<1>9. \A b \in G : Size(m2, b) \in Nat /\ 2 <= Size(m2, b) /\ Stop(m2, b) <= Last + 1
  <2> TAKE b \in G
  <2>1. CASE b = r
    BY <2>1, <1>1, <1>3 DEF Tiled
  <2>2. CASE b = c
    <3>1. r <= Last + 1
      BY <1>2, <1>4, Places, Ends
    <3> QED BY <2>2, <3>1, <1>3
  <2>3. CASE b \in B \ {c}
    BY <2>3, <1>1, <1>7 DEF Tiled
  <2> QED BY <2>1, <2>2, <2>3
<1>10. \A b \in G : Stop(m2, b) = Last + 1 \/ Stop(m2, b) \in G
  <2> TAKE b \in G
  <2>1. CASE b = r
    BY <2>1, <1>3 DEF Tiled
  <2>2. CASE b = c
    BY <2>2, <1>3
  <2>3. CASE b \in B \ {c}
    BY <2>3, <1>7 DEF Tiled
  <2> QED BY <2>1, <2>2, <2>3
<1>11. \A x, b \in G : x < b => Stop(m2, x) <= b
  <2> TAKE x, b \in G
  <2> HAVE x < b
  <2>0. x \in Int /\ b \in Int /\ c \in Int
    BY <1>1, <1>2
  <2>1. CASE x = r
    <3>1. b \in B /\ c < b
      BY <2>0, <2>1, <1>2
    <3> QED BY <2>1, <3>1, <1>3 DEF Tiled
  <2>2. CASE x = c
    <3>1. CASE b = r
      BY <2>2, <3>1, <1>2, <1>3
    <3>2. CASE b \in B
      <4>1. r < b
        BY <2>2, <3>2, <1>4
      <4> QED BY <2>2, <4>1, <2>0, <1>2, <1>3
    <3> QED BY <3>1, <3>2
  <2>3. CASE x \in B \ {c}
    <3>0. Stop(m2, x) = Stop(m, x) /\ Stop(m, x) \in Int
      BY <2>3, <1>1, <1>7
    <3>1. CASE b = r
      <4>1. x < c
        BY <2>0, <2>3, <3>1, <1>2, <1>4
      <4>2. Stop(m, x) <= c
        BY <4>1, <2>3 DEF Tiled
      <4> QED BY <4>2, <3>0, <3>1, <2>0, <1>2
    <3>2. CASE b \in B
      BY <3>0, <3>2, <2>3 DEF Tiled
    <3> QED BY <3>1, <3>2
  <2> QED BY <2>1, <2>2, <2>3
<1> QED
  BY <1>3, <1>8, <1>9, <1>10, <1>11 DEF Tiled

---------------------------------------------------------------------------
\* The invariant.  Every block is free, given to the program or being freed.
Given == {b \in Place : b + 2 \in DOMAIN live}
Freeing == IF call.op = "free" THEN {call.at} ELSE {}
Blocks == free \cup Given \cup Freeing

\* A free block ends where none begins, or they would have been joined.
NotAdjacent == \A f \in free : Stop(mem, f) \notin free
LiveOK ==
  \A p \in DOMAIN live :
    /\ p \in Int /\ p - 2 \in Place /\ p - 2 \notin free
    /\ live[p] \in Requests /\ live[p] <= Size(mem, p - 2)

\* What the search has established.
AllocOK ==
  \E n \in Requests, prev \in free \cup {Nil}, cur \in Word :
    /\ call = AllocRegs(n, prev, cur)
    /\ IsNext(cur, free, prev)
    /\ \A f \in free : f <= prev => Size(mem, f) < n
FreeOK ==
  \E at \in Place, prev \in free \cup {Nil}, cur \in Word :
    /\ call = FreeRegs(at, prev, cur)
    /\ IsNext(cur, free, prev) /\ prev < at
    /\ at \notin free /\ at + 2 \notin DOMAIN live
CallOK == call = Idle \/ AllocOK \/ FreeOK

IInv ==
  /\ mem \in Memory
  /\ Tiled(mem, Blocks)
  /\ Chain(mem, free, heap_free_head)
  /\ NotAdjacent
  /\ LiveOK
  /\ CallOK

LEMMA NextWord ==
  ASSUME ArenaOK, NEW F \in SUBSET Place, NEW x, NEW lo, IsNext(x, F, lo)
  PROVE  x \in Word
<1>1. CASE x = Nil
  BY <1>1, Words DEF Nil
<1>2. CASE x # Nil
  <2>1. x \in Place
    BY <1>2 DEF IsNext
  <2>2. x \in Nat /\ x < 65536
    BY <2>1, Places
  <2> QED BY <2>2, Words
<1> QED
  BY <1>1, <1>2

LEMMA SizeWord ==
  ASSUME ArenaOK, NEW m \in Memory, NEW b \in Place
  PROVE  Size(m, b) \in Word /\ Size(m, b) \in Nat /\ Size(m, b) < 65536
<1>1. Spaced({b})
  BY Places DEF Spaced
<1>2. b \in Arena /\ b + 1 \in Arena
  BY <1>1, InPlace
<1>3. Size(m, b) \in Word
  BY <1>2, ReadRight DEF Size
<1> QED
  BY <1>3, Words

LEMMA Sets ==
  ASSUME IInv
  PROVE  /\ free \subseteq Place /\ Given \subseteq Place /\ Freeing \subseteq Place
         /\ free \subseteq Blocks /\ Given \subseteq Blocks /\ Freeing \subseteq Blocks
         /\ \A p \in DOMAIN live : p - 2 \in Given /\ p \in Int
         /\ Blocks \subseteq Place
<1>1. Blocks \subseteq Place
  BY DEF IInv, Tiled
<1>2. \A p \in DOMAIN live : p - 2 \in Given /\ p \in Int
  <2> TAKE p \in DOMAIN live
  <2>1. p \in Int /\ p - 2 \in Place
    BY DEF IInv, LiveOK
  <2>2. (p - 2) + 2 = p
    BY <2>1
  <2> QED BY <2>1, <2>2 DEF Given
<1> QED
  BY <1>1, <1>2 DEF Blocks

LEMMA AllocFacts ==
  ASSUME ArenaOK, IInv, call.op = "alloc"
  PROVE  /\ call.n \in Requests /\ call.n \in Nat /\ call.n < 65536
         /\ call.prev \in free \cup {Nil}
         /\ call.cur \in Word /\ (call.cur # Nil => call.cur \in free)
         /\ IsNext(call.cur, free, call.prev)
         /\ \A f \in free : f <= call.prev => Size(mem, f) < call.n
         /\ Freeing = {} /\ call = AllocRegs(call.n, call.prev, call.cur)
<1>1. call # Idle /\ ~FreeOK
  BY DEF Idle, FreeOK, FreeRegs
<1>2. AllocOK
  BY <1>1 DEF IInv, CallOK
<1>3. PICK n \in Requests, prev \in free \cup {Nil}, cur \in Word :
        /\ call = AllocRegs(n, prev, cur)
        /\ IsNext(cur, free, prev)
        /\ \A f \in free : f <= prev => Size(mem, f) < n
  BY <1>2 DEF AllocOK
<1>4. call.n = n /\ call.prev = prev /\ call.cur = cur
  BY <1>3 DEF AllocRegs
<1>5. n \in Nat /\ n < 65536
  BY AskedFor
<1>6. cur # Nil => cur \in free
  BY <1>3 DEF IsNext
<1> QED
  BY <1>3, <1>4, <1>5, <1>6 DEF Freeing

LEMMA FreeFacts ==
  ASSUME IInv, call.op = "free"
  PROVE  /\ call.at \in Place /\ call.prev \in free \cup {Nil}
         /\ call.cur \in Word /\ (call.cur # Nil => call.cur \in free)
         /\ IsNext(call.cur, free, call.prev) /\ call.prev < call.at
         /\ call.at \notin free /\ call.at + 2 \notin DOMAIN live
         /\ Freeing = {call.at} /\ call.at \in Blocks
<1>1. call # Idle /\ ~AllocOK
  BY DEF Idle, AllocOK, AllocRegs
<1>2. FreeOK
  BY <1>1 DEF IInv, CallOK
<1>3. PICK at \in Place, prev \in free \cup {Nil}, cur \in Word :
        /\ call = FreeRegs(at, prev, cur)
        /\ IsNext(cur, free, prev) /\ prev < at
        /\ at \notin free /\ at + 2 \notin DOMAIN live
  BY <1>2 DEF FreeOK
<1>4. call.at = at /\ call.prev = prev /\ call.cur = cur
  BY <1>3 DEF FreeRegs
<1>5. cur # Nil => cur \in free
  BY <1>3 DEF IsNext
<1>6. Freeing = {call.at}
  BY DEF Freeing
<1> QED
  BY <1>3, <1>4, <1>5, <1>6 DEF Blocks

\* A byte of the program's is in no header and in no other block.
LEMMA ByteApart ==
  ASSUME ArenaOK, IInv, NEW p \in DOMAIN live, NEW a \in Bytes(p)
  PROVE  /\ a \in Arena /\ p <= a /\ a < Stop(mem, p - 2)
         /\ \A b \in Blocks : b # p - 2 => a \notin b .. b + 3
<1> DEFINE q == p - 2
<1>1. q \in Blocks /\ p \in Int /\ q \in Int /\ Base <= q /\ p = q + 2
  BY Sets, Places
<1>2. live[p] \in Nat /\ live[p] <= Size(mem, q)
  BY AskedFor DEF IInv, LiveOK
<1>3. Size(mem, q) \in Nat /\ Stop(mem, q) = q + 2 + Size(mem, q) /\ Stop(mem, q) <= Last + 1
  BY <1>1 DEF IInv, Tiled, Stop
<1>4. a \in Int /\ p <= a /\ a <= p + live[p] - 1
  BY <1>1, <1>2 DEF Bytes
<1> HIDE DEF q
<1>5. a < Stop(mem, q)
  BY <1>1, <1>2, <1>3, <1>4
<1>6. a \in Arena
  BY <1>1, <1>3, <1>4, <1>5, Ends DEF Arena
<1>7. ASSUME NEW b \in Blocks, b # q PROVE a \notin b .. b + 3
  <2>0. b \in Int /\ Size(mem, b) \in Nat /\ 2 <= Size(mem, b) /\ Stop(mem, b) = b + 2 + Size(mem, b)
    BY Sets, Places DEF IInv, Tiled, Stop
  <2>1. CASE b < q
    <3>1. Stop(mem, b) <= q
      BY <2>1, <1>1 DEF IInv, Tiled
    <3> QED BY <3>1, <2>0, <1>1, <1>4
  <2>2. CASE q < b
    <3>1. Stop(mem, q) <= b
      BY <2>2, <1>1 DEF IInv, Tiled
    <3> QED BY <3>1, <2>0, <1>1, <1>3, <1>4, <1>5
  <2> QED BY <2>0, <2>1, <2>2, <1>7, <1>1
<1> QED
  BY <1>4, <1>5, <1>6, <1>7 DEF q

LEMMA TiledSame ==
  ASSUME NEW m, NEW m2, NEW B, Tiled(m, B), \A x \in B : Size(m2, x) = Size(m, x)
  PROVE  Tiled(m2, B) /\ \A x \in B : Stop(m2, x) = Stop(m, x)
<1>1. \A x \in B : Stop(m2, x) = Stop(m, x)
  BY DEF Stop
<1> QED
  BY <1>1 DEF Tiled

---------------------------------------------------------------------------
\* Steps that leave the memory as it is.
Kept == \A p \in DOMAIN live \cap DOMAIN live' : \A a \in Bytes(p) : mem'[a] = mem[a]

LEMMA InitRight ==
  ASSUME ArenaOK, Init
  PROVE  IInv
<1>1. PICK m \in [Arena -> Data] : mem = SetNext(SetSize(m, Base, FirstSize), Base, Nil)
  BY DEF Init
<1>2. m \in Memory
  BY DEF Memory, ArenaOK, Byte
<1>3. Base \in Place /\ Base \in Nat /\ Last \in Nat /\ Last < 65536 /\ Base + 3 <= Last /\ 0 < Base
  BY Ends DEF Place
<1>4. Spaced({Base})
  BY <1>3 DEF Spaced
<1>5. FirstSize = Last - Base - 1
  <2> DEFINE d == Last - Base
  <2>1. Sub(Last, Base) = d
    <3>1. Base <= Last
      BY <1>3
    <3> QED BY <3>1, <1>3, Sums
  <2>2. d \in Nat /\ d + 1 < 65536 /\ 2 <= d + 1
    BY <1>3
  <2> HIDE DEF d
  <2>3. Add(d, 1) = d + 1
    BY <2>2, Sums
  <2>4. Sub(d + 1, 2) = d + 1 - 2
    BY <2>2, Sums
  <2>5. FirstSize = d - 1
    BY <2>1, <2>2, <2>3, <2>4 DEF FirstSize
  <2> QED BY <2>5 DEF d
<1>6. FirstSize \in Word /\ Nil \in Word
  <2>1. Last - Base - 1 \in Nat /\ Last - Base - 1 < 65536
    BY <1>3
  <2> QED BY <2>1, <1>5, Words DEF Nil
<1> DEFINE m1 == SetSize(m, Base, FirstSize)
<1>7. m1 \in Memory /\ Size(m1, Base) = FirstSize
  BY <1>2, <1>4, <1>6, SizeSet
<1> HIDE DEF m1
<1>8. mem \in Memory /\ Next(mem, Base) = Nil /\ Size(mem, Base) = FirstSize
  BY <1>1, <1>4, <1>6, <1>7, NextSet DEF m1
<1>9. free = {Base} /\ DOMAIN live = {} /\ call = Idle /\ heap_free_head = Base
  BY DEF Init
<1>10. Blocks = {Base}
  BY <1>9 DEF Blocks, Given, Freeing, Idle
<1>11. Stop(mem, Base) = Last + 1 /\ Size(mem, Base) \in Nat /\ 2 <= Size(mem, Base)
  BY <1>3, <1>5, <1>8 DEF Stop
<1>12. Tiled(mem, {Base})
  BY <1>3, <1>11 DEF Tiled
<1>13. Chain(mem, free, heap_free_head)
  BY <1>3, <1>8, <1>9 DEF Chain, IsNext, Nil
<1>14. NotAdjacent
  BY <1>3, <1>9, <1>11 DEF NotAdjacent
<1> QED
  BY <1>8, <1>9, <1>10, <1>12, <1>13, <1>14 DEF IInv, LiveOK, CallOK

LEMMA UseStep ==
  ASSUME ArenaOK, IInv, NEW p \in DOMAIN live, NEW k \in 0 .. live[p] - 1, NEW b \in Data,
         Use(p, k, b)
  PROVE  IInv'
<1> DEFINE x == p + k
<1>1. x \in Bytes(p)
  <2>1. p \in Int /\ live[p] \in Int
    BY Sets, AskedFor DEF IInv, LiveOK
  <2> QED BY <2>1 DEF Bytes
<1> HIDE DEF x
<1>2. /\ x \in Arena /\ p <= x /\ p \in Int /\ x \in Int
      /\ \A c \in Blocks : c # p - 2 => x \notin c .. c + 3
  BY <1>1, ByteApart, Sets, ArenaInt
<1>3. mem' = [mem EXCEPT ![x] = b] /\ b \in Byte
  BY DEF Use, x, ArenaOK, Byte
<1>4. mem' \in Memory /\ \A a \in Arena : a # x => mem'[a] = mem[a]
  BY <1>3 DEF IInv, Memory
<1>5. Spaced(Blocks) /\ Blocks \subseteq Place
  BY TiledSpaced, Sets DEF IInv
<1>6. ASSUME NEW c \in Blocks PROVE Size(mem', c) = Size(mem, c)
  <2>1. c \in Int /\ c \in Arena /\ c + 1 \in Arena
    BY <1>5, InPlace
  <2>2. x # c /\ x # c + 1
    BY <2>1, <1>2
  <2> QED BY <2>1, <2>2, <1>4 DEF Size, WordAt
<1>7. ASSUME NEW f \in free PROVE Next(mem', f) = Next(mem, f)
  <2>1. f \in Blocks /\ f # p - 2
    BY Sets DEF IInv, LiveOK
  <2>2. f \in Int /\ f + 2 \in Arena /\ f + 2 + 1 \in Arena
    BY <2>1, <1>5, InPlace
  <2>3. x # f + 2 /\ x # f + 2 + 1
    BY <2>1, <2>2, <1>2
  <2> QED BY <2>2, <2>3, <1>4 DEF Next, WordAt
<1>8. UNCHANGED <<heap_free_head, call, live, free>> /\ call.op = "idle"
  BY DEF Use
<1>9. Blocks' = Blocks
  BY <1>8 DEF Blocks, Given, Freeing
<1>10. Tiled(mem', Blocks) /\ \A c \in Blocks : Stop(mem', c) = Stop(mem, c)
  BY <1>6, TiledSame DEF IInv
<1>11. Chain(mem', free, heap_free_head)
  BY <1>7 DEF Chain, IInv
<1>12. NotAdjacent'
  BY <1>8, <1>10, Sets DEF NotAdjacent, IInv
<1>13. LiveOK'
  <2>1. \A q \in DOMAIN live : Size(mem', q - 2) = Size(mem, q - 2)
    BY <1>6, Sets
  <2> QED BY <2>1, <1>8 DEF LiveOK, IInv
<1>14. CallOK'
  <2>1. call = Idle
    BY <1>8 DEF IInv, CallOK, AllocOK, FreeOK, AllocRegs, FreeRegs
  <2> QED BY <2>1, <1>8 DEF CallOK
<1> QED
  BY <1>4, <1>8, <1>9, <1>10, <1>11, <1>12, <1>13, <1>14 DEF IInv

\* A call begins or its search goes on.
LEMMA SameMemory ==
  ASSUME IInv, UNCHANGED <<mem, heap_free_head, free>>, Blocks' = Blocks, CallOK',
         \A p \in DOMAIN live' : p \in DOMAIN live /\ live'[p] = live[p]
  PROVE  IInv'
<1>1. LiveOK'
  BY DEF LiveOK, IInv
<1>2. NotAdjacent' /\ Chain(mem, free, heap_free_head)'
  BY DEF NotAdjacent, IInv
<1> QED
  BY <1>1, <1>2 DEF IInv

LEMMA AllocCallStep ==
  ASSUME ArenaOK, IInv, NEW n \in Requests, AllocCall(n)
  PROVE  IInv'
<1>1. /\ UNCHANGED <<mem, heap_free_head, live, free>>
      /\ call.op = "idle" /\ call' = AllocRegs(n, Nil, heap_free_head)
  BY DEF AllocCall
<1>2. Blocks' = Blocks
  BY <1>1 DEF Blocks, Given, Freeing, AllocRegs
<1>3. IsNext(heap_free_head, free, Nil) /\ free \subseteq Place
  BY Sets DEF IInv, Chain
<1>4. heap_free_head \in Word
  BY <1>3, NextWord
<1>5. \A f \in free : ~(f <= Nil)
  BY <1>3, Places DEF Nil
<1>6. AllocOK'
  BY <1>1, <1>3, <1>4, <1>5 DEF AllocOK
<1> QED
  BY <1>1, <1>2, <1>6, SameMemory DEF CallOK

LEMMA TooSmallStep ==
  ASSUME ArenaOK, IInv, TooSmall
  PROVE  IInv'
<1> DEFINE c == call.cur
           x == Next(mem, c)
<1>1. /\ UNCHANGED <<mem, heap_free_head, live, free>> /\ call.op = "alloc"
      /\ c # Nil /\ ~(Size(mem, c) >= call.n) /\ call' = AllocRegs(call.n, c, x)
  BY DEF TooSmall, Fits
<1>2. /\ c \in free /\ call.n \in Requests /\ call.n \in Nat /\ call.prev \in free \cup {Nil}
      /\ IsNext(c, free, call.prev)
      /\ \A f \in free : f <= call.prev => Size(mem, f) < call.n
      /\ Freeing = {}
  BY <1>1, AllocFacts
<1>3. Blocks' = Blocks
  BY <1>1, <1>2 DEF Blocks, Given, Freeing, AllocRegs
<1>4. IsNext(x, free, c) /\ free \subseteq Place
  BY <1>2, Sets DEF IInv, Chain
<1>5. x \in Word
  BY <1>4, NextWord
<1>6. ASSUME NEW f \in free, f <= c PROVE Size(mem, f) < call.n
  <2>1. /\ f \in Int /\ c \in Int /\ call.prev \in Int
        /\ Size(mem, c) \in Nat /\ Size(mem, f) \in Nat
    BY <1>2, <1>4, Places, SizeWord DEF IInv, Nil
  <2>2. f <= call.prev \/ c <= f
    BY <2>1, <1>1, <1>2 DEF IsNext
  <2>3. f <= call.prev \/ f = c
    BY <2>1, <2>2, <1>6
  <2> QED BY <2>1, <2>3, <1>1, <1>2
<1> HIDE DEF c, x
<1>7. AllocOK'
  BY <1>1, <1>2, <1>4, <1>5, <1>6 DEF AllocOK
<1> QED
  BY <1>1, <1>3, <1>7, SameMemory DEF CallOK

LEMMA FailStep ==
  ASSUME ArenaOK, IInv, Fail
  PROVE  IInv'
<1>1. UNCHANGED <<mem, heap_free_head, live, free>> /\ call.op = "alloc" /\ call' = Idle
  BY DEF Fail
<1>2. Blocks' = Blocks
  BY <1>1, AllocFacts DEF Blocks, Given, Freeing, Idle
<1> QED
  BY <1>1, <1>2, SameMemory DEF CallOK

LEMMA FreeCallStep ==
  ASSUME ArenaOK, IInv, NEW p \in DOMAIN live, FreeCall(p)
  PROVE  IInv'
<1> DEFINE at == p - 2
<1>1. /\ UNCHANGED <<mem, heap_free_head, free>> /\ call.op = "idle"
      /\ call' = FreeRegs(Sub(p, 2), Nil, heap_free_head)
      /\ live' = [q \in DOMAIN live \ {p} |-> live[q]]
  BY DEF FreeCall
<1>2. at \in Place /\ at \notin free /\ p \in Int /\ at \in Nat /\ at + 3 <= Last /\ 0 < at
  BY Places DEF IInv, LiveOK
<1>3. Sub(p, 2) = at
  <2>1. p \in Nat /\ p < 65536 /\ 2 <= p
    BY <1>2, Ends
  <2> QED BY <2>1, Sums
<1>4. DOMAIN live' = DOMAIN live \ {p} /\ \A q \in DOMAIN live' : live'[q] = live[q]
  BY <1>1
<1>5. at + 2 = p
  BY <1>2
<1> HIDE DEF at
<1>6. Freeing = {} /\ Freeing' = {at}
  BY <1>1, <1>3 DEF Freeing, FreeRegs
<1>7. Given = Given' \cup {at}
  <2>1. \A b \in Place : b + 2 = p => b = at
    BY <1>2, <1>5, Places
  <2> QED BY <2>1, <1>2, <1>4, <1>5 DEF Given
<1>8. Blocks' = Blocks
  BY <1>1, <1>6, <1>7 DEF Blocks
<1>9. IsNext(heap_free_head, free, Nil) /\ free \subseteq Place
  BY Sets DEF IInv, Chain
<1>10. heap_free_head \in Word
  BY <1>9, NextWord
<1>11. FreeOK'
  <2>1. Nil < at /\ at + 2 \notin DOMAIN live'
    BY <1>2, <1>4, <1>5 DEF Nil
  <2> QED BY <2>1, <1>1, <1>2, <1>3, <1>9, <1>10 DEF FreeOK
<1> QED
  BY <1>1, <1>4, <1>8, <1>11, SameMemory DEF CallOK

LEMMA BelowStep ==
  ASSUME ArenaOK, IInv, Below
  PROVE  IInv'
<1> DEFINE c == call.cur
           x == Next(mem, c)
<1>1. /\ UNCHANGED <<mem, heap_free_head, live, free>> /\ call.op = "free"
      /\ c # Nil /\ ~(c >= call.at) /\ call' = FreeRegs(call.at, c, x)
  BY DEF Below, HerePlace
<1>2. /\ c \in free /\ call.at \in Place /\ call.at \notin free
      /\ call.at + 2 \notin DOMAIN live /\ Freeing = {call.at}
  BY <1>1, FreeFacts
<1>3. Blocks' = Blocks
  BY <1>1, <1>2 DEF Blocks, Given, Freeing, FreeRegs
<1>4. IsNext(x, free, c) /\ free \subseteq Place
  BY <1>2, Sets DEF IInv, Chain
<1>5. x \in Word
  BY <1>4, NextWord
<1>6. c < call.at
  BY <1>1, <1>2, <1>4, Places
<1> HIDE DEF c, x
<1>7. FreeOK'
  BY <1>1, <1>2, <1>4, <1>5, <1>6 DEF FreeOK
<1> QED
  BY <1>1, <1>3, <1>7, SameMemory DEF CallOK

---------------------------------------------------------------------------
\* Steps that change the list.

\* The program gets the block at c.
LEMMA Giving ==
  ASSUME ArenaOK, IInv, Fits, Give, call' = Idle
  PROVE  LET c == call.cur
         IN  /\ DOMAIN live' = DOMAIN live \cup {c + 2} /\ c + 2 \notin DOMAIN live
             /\ live'[c + 2] = call.n /\ \A p \in DOMAIN live : live'[p] = live[p]
             /\ Given' = Given \cup {c} /\ Freeing' = {}
             /\ c \in free /\ c \notin Given /\ c \in Place /\ c \in Blocks
<1> DEFINE c == call.cur
<1>1. c \in free /\ c \in Place /\ c \in Blocks /\ c \in Int /\ c \in Nat /\ c + 3 <= Last
  BY AllocFacts, Sets, Places DEF Fits
<1>2. Add(c, 2) = c + 2
  <2>1. c + 2 < 65536
    BY <1>1, Ends
  <2> QED BY <2>1, <1>1, Sums
<1>3. c \notin Given /\ c + 2 \notin DOMAIN live
  <2>1. \A p \in DOMAIN live : p \in Int /\ p - 2 \notin free
    BY DEF IInv, LiveOK
  <2>2. (c + 2) - 2 = c
    BY <1>1
  <2> QED BY <2>1, <2>2, <1>1 DEF Given
<1>4. live' = [p \in DOMAIN live \cup {c + 2} |-> IF p = c + 2 THEN call.n ELSE live[p]]
  BY <1>2 DEF Give
<1>5. Given' = Given \cup {c}
  <2>1. \A b \in Place : b + 2 = c + 2 => b = c
    BY <1>1, Places
  <2>2. DOMAIN live' = DOMAIN live \cup {c + 2}
    BY <1>4
  <2> QED BY <2>1, <2>2, <1>1 DEF Given
<1>6. Freeing' = {}
  BY DEF Freeing, Idle
<1> HIDE DEF c
<1> QED
  BY <1>1, <1>3, <1>4, <1>5, <1>6 DEF c

LEMMA SplitStep ==
  ASSUME ArenaOK, IInv, Split, 2 <= call.n
  PROVE  IInv' /\ Kept
<1> DEFINE c == call.cur
           n == call.n
           prev == call.prev
           s == Size(mem, c)
           r == c + 2 + n
           B == Blocks \cup {r}
           G == (free \ {c}) \cup {r}
<1>1. /\ Fits /\ Remainder >= HEAP_MIN_SPLIT /\ Give /\ call' = Idle
      /\ mem' = SplitMem /\ heap_free_head' = LinkHead(prev, Rest)
      /\ free' = (free \ {c}) \cup {Rest}
  BY DEF Split
<1>2. /\ n \in Requests /\ n \in Nat /\ 2 <= n /\ n < 65536 /\ prev \in free \cup {Nil}
      /\ c \in free /\ IsNext(c, free, prev) /\ Freeing = {} /\ n <= s
      /\ s \in Nat /\ s < 65536 /\ c \in Place /\ c \in Blocks /\ c \in Nat
  <2>1. c \in free /\ c \in Place /\ n \in Nat
    BY <1>1, AllocFacts, Sets DEF Fits
  <2>2. s \in Nat /\ s < 65536
    BY <2>1, SizeWord DEF IInv
  <2> QED BY <1>1, <2>1, <2>2, AllocFacts, Sets, Places DEF Fits
<1>3. Remainder = s - n /\ n + 4 <= s
  <2>1. Remainder = s - n
    BY <1>2, Sums DEF Remainder
  <2> QED BY <2>1, <1>1, <1>2 DEF HEAP_MIN_SPLIT
<1>4. /\ r \in Place /\ r \notin Blocks /\ c < r /\ Spaced(B)
      /\ \A x \in Blocks : c < x => r < x
  <2> HIDE DEF n
  <2>1. Tiled(mem, Blocks) /\ n + 4 <= Size(mem, c)
    BY <1>3 DEF IInv
  <2> HIDE DEF c
  <2> QED BY <2>1, <1>2, CutPlace
<1>5. Rest = r
  <2>1. r \in Nat /\ r < 65536 /\ c + 2 \in Nat /\ c + 2 < 65536
    BY <1>2, <1>4, Places
  <2>2. Add(c, 2) = c + 2
    BY <2>1, <1>2, Sums
  <2>3. Add(c + 2, n) = c + 2 + n
    BY <2>1, <1>2, Sums
  <2> QED BY <2>2, <2>3 DEF Rest
<1> DEFINE w == Sub(Remainder, 2)
           m1 == SetSize(mem, r, w)
           m2 == SetNext(m1, r, Next(m1, c))
           m3 == SetSize(m2, c, n)
<1>6. w = s - n - 2 /\ w \in Word /\ n \in Word
  <2>1. Sub(s - n, 2) = s - n - 2
    <3>1. s - n \in Nat /\ s - n < 65536 /\ 2 <= s - n
      BY <1>2, <1>3
    <3> QED BY <3>1, Sums
  <2>2. s - n - 2 \in Nat /\ s - n - 2 < 65536
    BY <1>2, <1>3
  <2> QED BY <2>1, <2>2, <1>2, <1>3, Words
<1>7. mem' = LinkMem(m3, prev, r) /\ free' = G /\ heap_free_head' = LinkHead(prev, r)
  BY <1>1, <1>5 DEF SplitMem
<1>8. r \in Word /\ Next(mem, c) \in Word /\ free \subseteq Blocks /\ free \subseteq Place
  <2>1. IsNext(Next(mem, c), free, c) /\ free \subseteq Place /\ free \subseteq Blocks
    BY <1>2, Sets DEF IInv, Chain
  <2>2. r \in Nat /\ r < 65536
    BY <1>4, Places
  <2> QED BY <2>1, <2>2, NextWord, Words
<1>9. mem \in Memory /\ r \in B /\ c \in B /\ prev \in B \cup {Nil}
  BY <1>2, <1>8 DEF IInv
<1>10. prev # c /\ prev # r /\ c # r
  <2>0. c # Nil
    BY <1>2, Places DEF Nil
  <2>1. prev < c
    BY <2>0, <1>2 DEF IsNext
  <2>2. prev \in Int /\ c \in Int /\ r \in Int
    BY <1>2, <1>4, <1>8, Places DEF Nil
  <2> QED BY <2>1, <2>2, <1>4
<1> HIDE DEF c, n, prev, s, r, w, B
<1>11. /\ m1 \in Memory /\ Size(m1, r) = w
       /\ \A x \in B : x # r => Size(m1, x) = Size(mem, x)
       /\ \A x \in B : Next(m1, x) = Next(mem, x)
       /\ \A a \in Arena : a \notin r .. r + 3 => m1[a] = mem[a]
  BY <1>4, <1>6, <1>9, SizeSet
<1> HIDE DEF m1
<1>12. /\ m2 \in Memory /\ Next(m2, r) = Next(mem, c)
       /\ \A x \in B : x # r => Next(m2, x) = Next(mem, x)
       /\ \A x \in B : Size(m2, x) = Size(m1, x)
       /\ \A a \in Arena : a \notin r .. r + 3 => m2[a] = m1[a]
  <2>1. Next(m1, c) = Next(mem, c)
    BY <1>9, <1>11
  <2>2. m2 = SetNext(m1, r, Next(mem, c))
    BY <2>1
  <2> HIDE DEF m2
  <2>3. /\ m2 \in Memory /\ Next(m2, r) = Next(mem, c)
        /\ \A x \in B : x # r => Next(m2, x) = Next(m1, x)
        /\ \A x \in B : Size(m2, x) = Size(m1, x)
        /\ \A a \in Arena : a \notin r .. r + 3 => m2[a] = m1[a]
    BY <2>2, <1>4, <1>8, <1>9, <1>11, NextSet
  <2> QED BY <2>3, <1>11
<1> HIDE DEF m2
<1>13. /\ m3 \in Memory /\ Size(m3, c) = n
       /\ \A x \in B : x # c => Size(m3, x) = Size(m2, x)
       /\ \A x \in B : Next(m3, x) = Next(m2, x)
       /\ \A a \in Arena : a \notin c .. c + 3 => m3[a] = m2[a]
  BY <1>4, <1>6, <1>9, <1>12, SizeSet
<1> HIDE DEF m3
<1>14. /\ mem' \in Memory
       /\ prev # Nil => Next(mem', prev) = r
       /\ \A x \in B : x # prev => Next(mem', x) = Next(m3, x)
       /\ \A x \in B : Size(mem', x) = Size(m3, x)
       /\ \A a \in Arena : a \notin prev .. prev + 3 \/ prev = Nil => mem'[a] = m3[a]
  BY <1>4, <1>7, <1>8, <1>9, <1>13, LinkSet
<1>15. /\ Size(mem', c) = n /\ Size(mem', r) = w
       /\ \A x \in Blocks \ {c} : Size(mem', x) = Size(mem, x)
       /\ Next(mem', r) = Next(mem, c)
       /\ \A x \in free \ {c} : Next(mem', x) = IF x = prev THEN r ELSE Next(mem, x)
  <2>0. Blocks \subseteq B /\ (\A x \in free : x \in B /\ x # r /\ x # Nil)
    BY <1>4, <1>8, Places DEF B, Nil
  <2>1. Size(mem', c) = n /\ Size(mem', r) = w /\ Next(mem', r) = Next(mem, c)
    BY <1>9, <1>10, <1>11, <1>12, <1>13, <1>14
  <2>2. \A x \in Blocks \ {c} : Size(mem', x) = Size(mem, x)
    BY <2>0, <1>4, <1>9, <1>10, <1>11, <1>12, <1>13, <1>14
  <2>3. \A x \in free \ {c} : Next(mem', x) = IF x = prev THEN r ELSE Next(mem, x)
    BY <2>0, <1>9, <1>10, <1>11, <1>12, <1>13, <1>14
  <2> QED BY <2>1, <2>2, <2>3
<1>16. Tiled(mem', B) /\ Stop(mem', r) = Stop(mem, c)
  <2>1. Tiled(mem, Blocks) /\ Size(mem, c) = s /\ r = c + 2 + n
    BY DEF IInv, s, r
  <2>2. /\ Size(mem', r) = Size(mem, c) - n - 2 /\ n + 4 <= Size(mem, c)
        /\ Size(mem', c) = n /\ \A x \in Blocks \ {c} : Size(mem', x) = Size(mem, x)
    BY <2>1, <1>3, <1>6, <1>15
  <2>3. /\ c \in Blocks /\ n \in Nat /\ 2 <= n /\ r \in Place /\ r \notin Blocks
        /\ \A x \in Blocks : c < x => r < x
    BY <1>2, <1>4
  <2>4. Tiled(mem', Blocks \cup {r}) /\ Stop(mem', r) = Stop(mem, c)
    <3> DEFINE m == mem
               k == mem'
               D == Blocks
    <3> HIDE DEF m, k, D
    <3>1. Tiled(m, D) /\ c \in D /\ n \in Nat /\ 2 <= n
      BY <2>1, <2>3 DEF m, D
    <3> QED BY <3>1, <2>1, <2>2, <2>3, Cut, SMTT(60) DEF m, k, D
  <2> QED BY <2>4 DEF B
<1>17. Chain(mem', G, IF prev = Nil THEN r ELSE heap_free_head)
  <2>1. Chain(mem, free, heap_free_head) /\ \A f \in free : c < f => r < f
    BY <1>4, <1>8 DEF IInv
  <2> QED BY <2>1, <1>2, <1>4, <1>8, <1>15, ListSwap
<1>18. /\ DOMAIN live' = DOMAIN live \cup {c + 2} /\ c + 2 \notin DOMAIN live
       /\ live'[c + 2] = n /\ \A p \in DOMAIN live : live'[p] = live[p]
       /\ Given' = Given \cup {c} /\ Freeing' = {} /\ c \notin Given
  BY <1>1, Giving DEF c, n
<1>19. Blocks' = B
  BY <1>2, <1>7, <1>18 DEF Blocks, B
<1>20. NotAdjacent'
  <2>0. \A x \in Blocks : x # c => Stop(mem', x) = Stop(mem, x)
    BY <1>15 DEF Stop
  <2>1. ASSUME NEW f \in free, f # c PROVE Stop(mem', f) \notin G
    <3>1. Stop(mem', f) = Stop(mem, f) /\ Stop(mem, f) \notin free
      BY <2>0, <2>1, <1>8 DEF IInv, NotAdjacent
    <3>2. Stop(mem, f) \in Blocks \/ Stop(mem, f) = Last + 1
      BY <1>8 DEF IInv, Tiled
    <3>3. Stop(mem, f) # r
      BY <3>2, <1>4, Places, Ends
    <3> QED BY <3>1, <3>3
  <2>2. Stop(mem', r) \notin G
    <3>1. Stop(mem, c) \notin free
      BY <1>2 DEF IInv, NotAdjacent
    <3>2. Stop(mem, c) \in Blocks \/ Stop(mem, c) = Last + 1
      BY <1>2 DEF IInv, Tiled
    <3>3. Stop(mem, c) # r
      BY <3>2, <1>4, Places, Ends
    <3> QED BY <3>1, <3>3, <1>16
  <2> QED BY <2>1, <2>2, <1>7 DEF NotAdjacent
<1>21. LiveOK'
  <2>1. ASSUME NEW p \in DOMAIN live
        PROVE  p \in Int /\ p - 2 \in Place /\ p - 2 \notin G /\ live'[p] \in Requests
               /\ live'[p] <= Size(mem', p - 2)
    <3>1. /\ p \in Int /\ p - 2 \in Place /\ p - 2 \notin free /\ p - 2 \in Blocks
          /\ live[p] \in Requests /\ live[p] <= Size(mem, p - 2)
      BY Sets DEF IInv, LiveOK
    <3>2. p - 2 # r /\ Size(mem', p - 2) = Size(mem, p - 2)
      BY <3>1, <1>2, <1>4, <1>15
    <3> QED BY <3>1, <3>2, <1>18
  <2>2. (c + 2) - 2 = c /\ c + 2 \in Int /\ n <= n
    BY <1>2
  <2>3. c \notin G
    BY <1>10
  <2> QED BY <2>1, <2>2, <2>3, <1>2, <1>7, <1>15, <1>18 DEF LiveOK
<1>22. IInv'
  <2>1. Chain(mem', free', heap_free_head')
    BY <1>7, <1>17 DEF LinkHead
  <2> QED BY <2>1, <1>1, <1>14, <1>16, <1>19, <1>20, <1>21 DEF IInv, CallOK
<1>23. Kept
  <2> SUFFICES ASSUME NEW p \in DOMAIN live, NEW a \in Bytes(p) PROVE mem'[a] = mem[a]
    BY DEF Kept
  <2>1. /\ a \in Arena /\ \A b \in Blocks : b # p - 2 => a \notin b .. b + 3
        /\ p - 2 \notin free /\ p - 2 \in Blocks /\ p - 2 \in Int
    BY ByteApart, Sets, Places DEF IInv, LiveOK
  <2>2. a \notin c .. c + 3 /\ (prev # Nil => a \notin prev .. prev + 3)
    BY <2>1, <1>2, <1>8
  <2>3. a \notin r .. r + 3
    <3>1. p <= a /\ a < Stop(mem, p - 2) /\ a \in Int /\ p \in Int
      BY ByteApart, ArenaInt, Sets
    <3>2. Stop(mem, c) = c + 2 + s /\ r = c + 2 + n
      BY DEF Stop, s, r
    <3>3. p - 2 < c => Stop(mem, p - 2) <= c
      BY <2>1, <1>2 DEF IInv, Tiled
    <3>4. c < p - 2 => Stop(mem, c) <= p - 2
      BY <2>1, <1>2 DEF IInv, Tiled
    <3>5. p - 2 # c /\ Stop(mem, p - 2) \in Int
      <4>1. Size(mem, p - 2) \in Nat
        BY <2>1 DEF IInv, Tiled
      <4> QED BY <4>1, <2>1, <1>2 DEF Stop
    <3>6. CASE p - 2 < c
      BY <3>1, <3>2, <3>3, <3>5, <3>6, <1>2
    <3>7. CASE c < p - 2
      BY <3>1, <3>2, <3>4, <3>5, <3>7, <1>2, <1>3
    <3> QED BY <3>5, <3>6, <3>7, <2>1, <1>2
  <2> QED BY <2>1, <2>2, <2>3, <1>11, <1>12, <1>13, <1>14
<1> QED
  BY <1>22, <1>23

LEMMA HandOverStep ==
  ASSUME ArenaOK, IInv, HandOver
  PROVE  IInv' /\ Kept
<1> DEFINE c == call.cur
           prev == call.prev
           w == Next(mem, c)
<1>1. /\ Fits /\ Give /\ call' = Idle
      /\ mem' = LinkMem(mem, prev, w) /\ heap_free_head' = LinkHead(prev, w)
      /\ free' = free \ {c}
  BY DEF HandOver
<1>2. /\ call.n \in Requests /\ prev \in free \cup {Nil} /\ c \in free
      /\ IsNext(c, free, prev) /\ Freeing = {} /\ call.n <= Size(mem, c)
  BY <1>1, AllocFacts DEF Fits
<1>3. /\ DOMAIN live' = DOMAIN live \cup {c + 2} /\ c + 2 \notin DOMAIN live
      /\ live'[c + 2] = call.n /\ \A p \in DOMAIN live : live'[p] = live[p]
      /\ Given' = Given \cup {c} /\ Freeing' = {} /\ c \notin Given
      /\ c \in Place /\ c \in Int
  BY <1>1, Giving, Places
<1>4. Spaced(Blocks) /\ free \subseteq Blocks /\ free \subseteq Place /\ mem \in Memory
  BY TiledSpaced, Sets DEF IInv
<1>5. IsNext(w, free, c) /\ w \in Word
  <2>1. IsNext(w, free, c)
    BY <1>2 DEF IInv, Chain
  <2> QED BY <2>1, <1>4, NextWord
<1>6. Blocks' = Blocks
  BY <1>1, <1>2, <1>3 DEF Blocks
<1> HIDE DEF c, prev, w
<1>7. /\ mem' \in Memory /\ prev \in Blocks \cup {Nil}
      /\ prev # Nil => Next(mem', prev) = w
      /\ \A x \in Blocks : x # prev => Next(mem', x) = Next(mem, x)
      /\ \A x \in Blocks : Size(mem', x) = Size(mem, x)
      /\ \A a \in Arena : a \notin prev .. prev + 3 \/ prev = Nil => mem'[a] = mem[a]
  <2>1. prev \in Blocks \cup {Nil}
    BY <1>2, <1>4
  <2> QED BY <2>1, <1>1, <1>4, <1>5, LinkSet
<1>8. Tiled(mem', Blocks) /\ \A x \in Blocks : Stop(mem', x) = Stop(mem, x)
  BY <1>7, TiledSame DEF IInv
<1>9. \A x \in free \ {c} : Next(mem', x) = IF x = prev THEN Next(mem, c) ELSE Next(mem, x)
  <2>1. \A x \in free : x \in Blocks /\ x # Nil
    BY <1>4, Places DEF Nil
  <2> QED BY <2>1, <1>7 DEF w
<1>10. Chain(mem', free \ {c}, IF prev = Nil THEN w ELSE heap_free_head)
  <2>1. Chain(mem, free, heap_free_head) /\ free \in SUBSET Place /\ w = Next(mem, c)
    BY <1>4 DEF IInv, w
  <2> QED BY <2>1, <1>2, <1>9, ListWithout
<1>11. NotAdjacent'
  BY <1>1, <1>4, <1>8 DEF NotAdjacent, IInv
<1>12. LiveOK'
  <2>1. ASSUME NEW p \in DOMAIN live
        PROVE  p \in Int /\ p - 2 \in Place /\ p - 2 \notin free' /\ live'[p] \in Requests
               /\ live'[p] <= Size(mem', p - 2)
    BY <1>1, <1>3, <1>7, Sets DEF IInv, LiveOK
  <2>2. (c + 2) - 2 = c /\ c + 2 \in Int
    BY <1>3
  <2>3. c \notin free' /\ call.n <= Size(mem', c)
    BY <1>1, <1>2, <1>4, <1>7
  <2> QED BY <2>1, <2>2, <2>3, <1>2, <1>3 DEF LiveOK
<1>13. IInv'
  <2>1. Chain(mem', free', heap_free_head')
    BY <1>1, <1>10 DEF LinkHead
  <2> QED BY <2>1, <1>1, <1>6, <1>7, <1>8, <1>11, <1>12 DEF IInv, CallOK
<1>14. Kept
  <2> SUFFICES ASSUME NEW p \in DOMAIN live, NEW a \in Bytes(p) PROVE mem'[a] = mem[a]
    BY DEF Kept
  <2>1. /\ a \in Arena /\ \A b \in Blocks : b # p - 2 => a \notin b .. b + 3
        /\ p - 2 \notin free
    BY ByteApart DEF IInv, LiveOK
  <2> QED BY <2>1, <1>2, <1>4, <1>7
<1> QED
  BY <1>13, <1>14

---------------------------------------------------------------------------
\* A block a goes into the list F between prev and c.
OneMore(m, k, B, F, h, a, prev, c) ==
  /\ k \in Memory /\ Tiled(k, B)
  /\ Chain(k, F \cup {a}, IF prev = Nil THEN a ELSE h)
  /\ IsNext(a, F \cup {a}, prev) /\ IsNext(c, F \cup {a}, a)
  /\ \A x \in B : Size(k, x) = Size(m, x) /\ Stop(k, x) = Stop(m, x)
  /\ \A y \in Arena : (\A x \in F \cup {a} : y \notin x .. x + 3) => k[y] = m[y]

LEMMA Linking ==
  ASSUME ArenaOK, NEW m \in Memory, NEW B, Tiled(m, B), NEW F \in SUBSET B, NEW h,
         Chain(m, F, h), NEW a \in B, a \notin F, NEW prev \in F \cup {Nil}, NEW c,
         IsNext(c, F, prev), prev < a, c = Nil \/ a < c,
         NEW k, k = LinkMem(SetNext(m, a, c), prev, a)
  PROVE  OneMore(m, k, B, F, h, a, prev, c)
<1> DEFINE m1 == SetNext(m, a, c)
<1>1. Spaced(B) /\ B \subseteq Place /\ F \in SUBSET Place /\ a \in Place \ F
  BY TiledSpaced DEF Tiled
<1>2. c \in Word /\ a \in Word
  <2>1. a \in Nat /\ a < 65536
    BY <1>1, Places
  <2> QED BY <2>1, <1>1, NextWord, Words
<1>3. /\ m1 \in Memory /\ Next(m1, a) = c
      /\ \A x \in B : x # a => Next(m1, x) = Next(m, x)
      /\ \A x \in B : Size(m1, x) = Size(m, x)
      /\ \A y \in Arena : y \notin a .. a + 3 => m1[y] = m[y]
  BY <1>1, <1>2, NextSet
<1>4. k = LinkMem(m1, prev, a) /\ prev \in B \cup {Nil}
  OBVIOUS
<1> HIDE DEF m1
<1>5. /\ k \in Memory
      /\ prev # Nil => Next(k, prev) = a
      /\ \A x \in B : x # prev => Next(k, x) = Next(m1, x)
      /\ \A x \in B : Size(k, x) = Size(m1, x)
      /\ \A y \in Arena : y \notin prev .. prev + 3 \/ prev = Nil => k[y] = m1[y]
  BY <1>1, <1>2, <1>3, <1>4, LinkSet
<1>6. a # prev /\ \A x \in F : x # Nil /\ x # a /\ x \in B
  <2>1. prev \in Int /\ a \in Int /\ \A x \in F : x # Nil
    BY <1>1, Places DEF Nil
  <2> QED BY <2>1
<1>7. Next(k, a) = c /\ \A x \in F : Next(k, x) = IF x = prev THEN a ELSE Next(m, x)
  BY <1>3, <1>5, <1>6
<1>8. /\ Chain(k, F \cup {a}, IF prev = Nil THEN a ELSE h)
      /\ IsNext(a, F \cup {a}, prev) /\ IsNext(c, F \cup {a}, a)
  BY <1>1, <1>7, ListWith
<1>9. \A x \in B : Size(k, x) = Size(m, x)
  BY <1>3, <1>5
<1>10. Tiled(k, B) /\ \A x \in B : Stop(k, x) = Stop(m, x)
  BY <1>9, TiledSame
<1>11. \A y \in Arena : (\A x \in F \cup {a} : y \notin x .. x + 3) => k[y] = m[y]
  BY <1>3, <1>5
<1> QED
  BY <1>5, <1>8, <1>9, <1>10, <1>11 DEF OneMore

\* Two blocks next to each other, and in the list, become one.
OneLess(m, k, B, F, h, a, c) ==
  /\ k \in Memory /\ Tiled(k, B \ {c}) /\ Chain(k, F \ {c}, h)
  /\ Stop(k, a) = Stop(m, c)
  /\ \A x \in B \ {a, c} : Size(k, x) = Size(m, x) /\ Stop(k, x) = Stop(m, x)
  /\ \A y \in Arena : y \notin a .. a + 3 => k[y] = m[y]

LEMMA Joining ==
  ASSUME ArenaOK, NEW m \in Memory, NEW B, Tiled(m, B), NEW F \in SUBSET B, NEW h,
         Chain(m, F, h), NEW a \in F, NEW c \in F, IsNext(c, F, a), Stop(m, a) = c,
         NEW k, k = SetSize(SetNext(m, a, Next(m, c)), a,
                            Add(Size(m, a), Add(Size(m, c), 2)))
  PROVE  OneLess(m, k, B, F, h, a, c)
<1> DEFINE m1 == SetNext(m, a, Next(m, c))
           w == Add(Size(m, a), Add(Size(m, c), 2))
<1>1. Spaced(B) /\ B \subseteq Place /\ F \in SUBSET Place
  BY TiledSpaced DEF Tiled
<1>2. Next(m, c) \in Word
  <2>1. IsNext(Next(m, c), F, c)
    BY DEF Chain
  <2> QED BY <2>1, <1>1, NextWord
<1>3. w = Size(m, a) + 2 + Size(m, c) /\ w \in Word
  <2>1. /\ Size(m, a) \in Nat /\ Size(m, c) \in Nat /\ a + 2 + Size(m, a) = c
        /\ c + 2 + Size(m, c) <= Last + 1 /\ a \in Nat /\ c \in Nat /\ 0 < a
    BY <1>1, Places DEF Tiled, Stop
  <2>2. Last + 1 <= 65536 /\ Last \in Int
    BY Ends
  <2>3. Size(m, c) + 2 < 65536 /\ Size(m, c) + 2 \in Nat
        /\ Size(m, a) + (Size(m, c) + 2) < 65536
    BY <2>1, <2>2
  <2>4. Add(Size(m, c), 2) = Size(m, c) + 2
    BY <2>1, <2>3, Sums
  <2>5. Add(Size(m, a), Size(m, c) + 2) = Size(m, a) + (Size(m, c) + 2)
    BY <2>1, <2>3, Sums
  <2>6. w = Size(m, a) + 2 + Size(m, c)
    BY <2>1, <2>4, <2>5
  <2> HIDE DEF w
  <2>7. w \in Nat /\ w < 65536
    BY <2>1, <2>3, <2>6
  <2> QED BY <2>6, <2>7, Words
<1>4. /\ m1 \in Memory /\ Next(m1, a) = Next(m, c)
      /\ \A x \in B : x # a => Next(m1, x) = Next(m, x)
      /\ \A x \in B : Size(m1, x) = Size(m, x)
      /\ \A y \in Arena : y \notin a .. a + 3 => m1[y] = m[y]
  BY <1>1, <1>2, NextSet
<1>5. k = SetSize(m1, a, w)
  OBVIOUS
<1> HIDE DEF m1, w
<1>6. /\ k \in Memory /\ Size(k, a) = w
      /\ \A x \in B : x # a => Size(k, x) = Size(m1, x)
      /\ \A x \in B : Next(k, x) = Next(m1, x)
      /\ \A y \in Arena : y \notin a .. a + 3 => k[y] = m1[y]
  BY <1>1, <1>3, <1>4, <1>5, SizeSet
<1>7. Size(k, a) = Size(m, a) + 2 + Size(m, c)
  BY <1>3, <1>6
<1>8. \A x \in B \ {a, c} : Size(k, x) = Size(m, x)
  BY <1>4, <1>6
<1>9. Tiled(k, B \ {c}) /\ Stop(k, a) = Stop(m, c)
  BY <1>7, <1>8, Merge
<1>10. \A x \in B \ {a, c} : Stop(k, x) = Stop(m, x)
  BY <1>8 DEF Stop
<1>11. \A x \in F \ {c} : Next(k, x) = IF x = a THEN Next(m, c) ELSE Next(m, x)
  BY <1>4, <1>6
<1>12. Chain(k, F \ {c}, h)
  <2>1. a # Nil
    BY <1>1, Places DEF Nil
  <2>2. Chain(k, F \ {c}, IF a = Nil THEN Next(m, c) ELSE h)
    BY <1>1, <1>11, ListWithout
  <2> QED BY <2>1, <2>2
<1> QED
  BY <1>4, <1>6, <1>8, <1>9, <1>10, <1>12 DEF OneLess

LEMMA InsertStep ==
  ASSUME ArenaOK, IInv, Insert
  PROVE  IInv' /\ Kept
<1> DEFINE at == call.at
           cur == call.cur
           prev == call.prev
           h == LinkHead(prev, at)
           B1 == Blocks
           F1 == free \cup {at}
           R2 == IF JoinsNext THEN {cur} ELSE {}
           B2 == B1 \ R2
           F2 == F1 \ R2
           R3 == IF JoinsPrev THEN {at} ELSE {}
           B3 == B2 \ R3
           F3 == F2 \ R3
           Far(y) == \A x \in F1 : y \notin x .. x + 3
<1>1. /\ call.op = "free" /\ HerePlace /\ mem' = FreedMem
      /\ heap_free_head' = h /\ call' = Idle /\ live' = live
      /\ free' = F1 \ (R2 \cup R3)
  BY DEF Insert
<1>2. /\ at \in Place /\ prev \in free \cup {Nil} /\ (cur # Nil => cur \in free)
      /\ IsNext(cur, free, prev) /\ prev < at /\ at \notin free
      /\ at + 2 \notin DOMAIN live /\ Freeing = {at} /\ at \in Blocks
  BY <1>1, FreeFacts
<1>3. /\ mem \in Memory /\ Tiled(mem, Blocks) /\ Chain(mem, free, heap_free_head)
      /\ free \in SUBSET Blocks /\ Blocks \subseteq Place /\ Spaced(Blocks)
  BY Sets, TiledSpaced DEF IInv
<1>4. /\ at \in Int /\ prev \in Int /\ at # Nil
      /\ \A x \in Blocks : x \in Int /\ x # Nil
  BY <1>2, <1>3, Places DEF Nil
<1>5. cur = Nil \/ at < cur
  <2>1. cur # Nil => cur \in Int /\ cur # at /\ cur >= at
    BY <1>1, <1>2, <1>3, <1>4 DEF HerePlace
  <2> QED BY <2>1, <1>4
<1>6. Linked = LinkMem(SetNext(mem, at, cur), prev, at)
  BY DEF Linked
<1> HIDE DEF at, cur, prev
<1>7. /\ Linked \in Memory /\ Tiled(Linked, B1)
      /\ Chain(Linked, F1, h)
      /\ IsNext(at, F1, prev) /\ IsNext(cur, F1, at)
      /\ \A x \in B1 : Size(Linked, x) = Size(mem, x) /\ Stop(Linked, x) = Stop(mem, x)
      /\ \A y \in Arena : Far(y) => Linked[y] = mem[y]
  <2> DEFINE hh == heap_free_head
             k == Linked
             m == mem
             F == free
  <2>1. /\ m \in Memory /\ Tiled(m, B1) /\ F \in SUBSET B1 /\ Chain(m, F, hh)
        /\ at \in B1 /\ at \notin F /\ prev \in F \cup {Nil} /\ IsNext(cur, F, prev)
        /\ prev < at /\ (cur = Nil \/ at < cur) /\ k = LinkMem(SetNext(m, at, cur), prev, at)
    BY <1>2, <1>3, <1>5, <1>6
  <2> HIDE DEF hh, k, m, F, B1, Far
  <2>2. OneMore(m, k, B1, F, hh, at, prev, cur)
    BY <2>1, Linking
  <2>3. h = IF prev = Nil THEN at ELSE hh
    BY DEF LinkHead, hh
  <2> HIDE DEF h
  <2> QED BY <2>2, <2>3 DEF OneMore, k, m, F, Far
\* No two free blocks next to each other but the new one and its neighbours.
<1>8. ASSUME NEW f \in free, Stop(mem, f) \in F1 PROVE f = prev /\ Stop(mem, f) = at
  <2>1. Stop(mem, f) = at
    BY <1>8 DEF IInv, NotAdjacent
  <2>2. /\ f \in Blocks /\ f \in Int /\ Size(mem, f) \in Nat
        /\ f + 2 + Size(mem, f) = at
    BY <2>1, <1>3, <1>4 DEF Tiled, Stop
  <2>3. f < at
    BY <2>2, <1>4
  <2>4. f <= prev
    <3>1. CASE cur = Nil
      BY <3>1, <1>2 DEF IsNext
    <3>2. CASE cur # Nil
      <4>1. cur \in Int /\ at < cur /\ (prev < f => cur <= f)
        BY <3>2, <1>2, <1>3, <1>4, <1>5 DEF IsNext
      <4> QED BY <4>1, <2>2, <2>3, <1>4
    <3> QED BY <3>1, <3>2
  <2>5. f < prev => Stop(mem, f) <= prev
    <3>1. f < prev => prev \in Blocks
      <4>1. f \in Place
        BY <2>2, <1>3
      <4>2. f < prev => prev # Nil
        BY <4>1, Places DEF Nil
      <4> QED BY <4>2, <1>2, <1>3
    <3> QED BY <3>1, <2>2, <1>3 DEF Tiled
  <2> QED BY <2>1, <2>2, <2>4, <2>5, <1>2, <1>4
<1>9. ASSUME Stop(mem, at) \in F1 PROVE cur # Nil /\ Stop(mem, at) = cur
  <2>1. Size(mem, at) \in Nat /\ Stop(mem, at) = at + 2 + Size(mem, at)
    BY <1>2, <1>3 DEF Tiled, Stop
  <2>2. Stop(mem, at) \in free /\ at < Stop(mem, at) /\ Stop(mem, at) \in Int
    BY <2>1, <1>4, <1>9
  <2> DEFINE g == Stop(mem, at)
  <2>3. g \in free /\ at < g /\ g \in Int
    BY <2>2
  <2>4. \A b \in Blocks : at < b => g <= b
    BY <1>2, <1>3 DEF Tiled
  <2> HIDE DEF g
  <2>5. CASE cur = Nil
    <3>1. g <= prev
      BY <2>3, <2>5, <1>2 DEF IsNext
    <3> QED BY <3>1, <2>3, <1>2, <1>4
  <2>6. CASE cur # Nil
    <3>1. cur \in free /\ cur \in Blocks /\ cur \in Int /\ at < cur
      BY <2>6, <1>2, <1>3, <1>4, <1>5
    <3>2. prev < g => cur <= g
      BY <2>3, <2>6, <1>2 DEF IsNext
    <3>3. g <= cur
      BY <3>1, <2>4
    <3>4. cur = g
      BY <3>1, <3>2, <3>3, <2>3, <1>2, <1>4
    <3> QED BY <3>4, <2>6 DEF g
  <2> QED BY <2>5, <2>6
\* Behind the new block.
<1>10. JoinsNext <=> (cur # Nil /\ Stop(mem, at) = cur)
  <2>1. JoinsNext <=> (cur # Nil /\ End(Linked, at) = cur)
    BY DEF JoinsNext, at, cur
  <2>2. CASE cur # Nil
    <3>1. cur \in Place
      BY <2>2, <1>2, <1>3
    <3>2. End(Linked, at) = cur <=> Stop(Linked, at) = cur
      BY <3>1, <1>2, <1>7, EndIs
    <3> QED BY <3>2, <2>1, <1>2, <1>7
  <2> QED BY <2>1, <2>2
<1>11. /\ Joined \in Memory /\ Tiled(Joined, B2) /\ Chain(Joined, F2, h)
       /\ F2 \in SUBSET B2 /\ at \in F2 /\ prev \in F2 \cup {Nil} /\ IsNext(at, F2, prev)
       /\ Stop(Joined, at) \notin F2
       /\ \A x \in B2 \ {at} : Size(Joined, x) = Size(mem, x) /\ Stop(Joined, x) = Stop(mem, x)
       /\ \A y \in Arena : Far(y) => Joined[y] = mem[y]
  <2>0. F1 \in SUBSET B1 /\ at \in F1 /\ prev \in F1 \cup {Nil} /\ at \in B1
    BY <1>2, <1>3
  <2>1. CASE ~JoinsNext
    <3>1. Joined = Linked /\ B2 = B1 /\ F2 = F1
      BY <2>1 DEF Joined
    <3>2. Stop(Linked, at) \notin F1
      BY <2>0, <2>1, <1>7, <1>9, <1>10
    <3> HIDE DEF B1, B2, F1, F2, Far
    <3> QED BY <2>0, <3>1, <3>2, <1>7
  <2>2. CASE JoinsNext
    <3>1. cur # Nil /\ cur \in F1 /\ Stop(Linked, at) = cur /\ at < cur /\ cur \in free
          /\ cur \in Int /\ cur \in B1
      BY <2>0, <2>2, <1>2, <1>3, <1>4, <1>5, <1>7, <1>10
    <3>2. Joined = SetSize(SetNext(Linked, at, Next(Linked, cur)), at,
                           Add(Size(Linked, at), Add(Size(Linked, cur), 2)))
      BY <2>2 DEF Joined, at, cur
    <3>3. B2 = B1 \ {cur} /\ F2 = F1 \ {cur} /\ at # cur
      BY <2>2, <3>1, <1>4
    <3> HIDE DEF R2, B2, F2, F1, B1, h, Far
    <3>4. /\ Joined \in Memory /\ Tiled(Joined, B1 \ {cur}) /\ Chain(Joined, F1 \ {cur}, h)
          /\ Stop(Joined, at) = Stop(Linked, cur)
          /\ \A x \in B1 \ {at, cur} : Size(Joined, x) = Size(Linked, x)
                                       /\ Stop(Joined, x) = Stop(Linked, x)
          /\ \A y \in Arena : y \notin at .. at + 3 => Joined[y] = Linked[y]
      <4> DEFINE l == Linked
                 k == Joined
      <4>1. /\ l \in Memory /\ Tiled(l, B1) /\ F1 \in SUBSET B1 /\ Chain(l, F1, h)
            /\ at \in F1 /\ cur \in F1 /\ IsNext(cur, F1, at) /\ Stop(l, at) = cur
            /\ k = SetSize(SetNext(l, at, Next(l, cur)), at,
                           Add(Size(l, at), Add(Size(l, cur), 2)))
        BY <2>0, <3>1, <3>2, <1>7
      <4> HIDE DEF l, k
      <4>2. OneLess(l, k, B1, F1, h, at, cur)
        BY <4>1, Joining
      <4> QED BY <4>2 DEF OneLess, l, k
    <3>5. IsNext(at, F2, prev)
      BY <3>3, <1>7, NextMinus
    <3>6. Stop(Joined, at) = Stop(mem, cur)
      BY <3>1, <3>4, <1>7
    <3>7. Stop(mem, cur) \notin F1
      <4>1. cur # prev
        BY <3>1, <1>2, <1>4
      <4> QED BY <4>1, <3>1, <1>8
    <3>8. prev \in F2 \cup {Nil}
      BY <2>0, <3>1, <3>3, <1>2, <1>4
    <3>9. \A x \in B2 \ {at} : Size(Joined, x) = Size(mem, x) /\ Stop(Joined, x) = Stop(mem, x)
      BY <3>3, <3>4, <1>7
    <3>10. \A y \in Arena : Far(y) => y \notin at .. at + 3
      BY <2>0 DEF Far
    <3> QED BY <2>0, <3>3, <3>4, <3>5, <3>6, <3>7, <3>8, <3>9, <3>10, <1>7
  <2> QED BY <2>1, <2>2
<1>12. \A f \in F2 : Stop(Joined, f) \in F2 => f = prev /\ Stop(Joined, f) = at
  <2> TAKE f \in F2
  <2> HAVE Stop(Joined, f) \in F2
  <2>1. f # at /\ f \in free /\ f \in B2
    BY <1>11
  <2>2. Stop(Joined, f) = Stop(mem, f)
    BY <2>1, <1>11
  <2> QED BY <2>1, <2>2, <1>8
<1> HIDE DEF R2, B2, F2
\* Before the new block.
<1>13. JoinsPrev <=> (prev # Nil /\ Stop(Joined, prev) = at)
  <2>1. JoinsPrev <=> (prev # Nil /\ End(Joined, prev) = at)
    BY DEF JoinsPrev, at, prev
  <2>2. CASE prev # Nil
    <3>1. prev \in B2
      BY <2>2, <1>11
    <3>2. End(Joined, prev) = at <=> Stop(Joined, prev) = at
      BY <3>1, <1>2, <1>11, EndIs
    <3> QED BY <3>2, <2>1
  <2> QED BY <2>1, <2>2
<1>14. /\ FreedMem \in Memory /\ Tiled(FreedMem, B3) /\ Chain(FreedMem, F3, h)
       /\ \A f \in F3 : Stop(FreedMem, f) \notin F3
       /\ \A x \in B2 \ {at, prev} : Size(FreedMem, x) = Size(mem, x)
       /\ \A y \in Arena : Far(y) => FreedMem[y] = mem[y]
  <2>0. prev # at
    BY <1>2, <1>4
  <2>1. CASE ~JoinsPrev
    <3>1. FreedMem = Joined /\ B3 = B2 /\ F3 = F2
      BY <2>1 DEF FreedMem
    <3>2. \A f \in F2 : Stop(Joined, f) \notin F2
      <4>1. \A f \in F2 : f # Nil
        BY <1>4, <1>11 DEF B2
      <4> QED BY <4>1, <2>1, <1>12, <1>13
    <3> HIDE DEF B3, F3, Far
    <3> QED BY <3>1, <3>2, <1>11
  <2>2. CASE JoinsPrev
    <3>1. prev # Nil /\ Stop(Joined, prev) = at /\ prev \in F2 /\ prev \in F1
      BY <2>2, <1>2, <1>11, <1>13
    <3>2. FreedMem = SetSize(SetNext(Joined, prev, Next(Joined, at)), prev,
                             Add(Size(Joined, prev), Add(Size(Joined, at), 2)))
      BY <2>2 DEF FreedMem, at, prev
    <3>3. B3 = B2 \ {at} /\ F3 = F2 \ {at}
      BY <2>2
    <3>4. \A y \in Arena : Far(y) => y \notin prev .. prev + 3
      BY <3>1
    <3> HIDE DEF R3, B3, F3, F1, h, Far
    <3>5. /\ FreedMem \in Memory /\ Tiled(FreedMem, B2 \ {at}) /\ Chain(FreedMem, F2 \ {at}, h)
          /\ Stop(FreedMem, prev) = Stop(Joined, at)
          /\ \A x \in B2 \ {prev, at} : Size(FreedMem, x) = Size(Joined, x)
                                        /\ Stop(FreedMem, x) = Stop(Joined, x)
          /\ \A y \in Arena : y \notin prev .. prev + 3 => FreedMem[y] = Joined[y]
      <4> DEFINE l == Joined
                 k == FreedMem
      <4>1. /\ l \in Memory /\ Tiled(l, B2) /\ F2 \in SUBSET B2 /\ Chain(l, F2, h)
            /\ prev \in F2 /\ at \in F2 /\ IsNext(at, F2, prev) /\ Stop(l, prev) = at
            /\ k = SetSize(SetNext(l, prev, Next(l, at)), prev,
                           Add(Size(l, prev), Add(Size(l, at), 2)))
        BY <3>1, <3>2, <1>11
      <4> HIDE DEF l, k
      <4>2. OneLess(l, k, B2, F2, h, prev, at)
        BY <4>1, Joining
      <4> QED BY <4>2 DEF OneLess, l, k
    <3>6. ASSUME NEW f \in F3 PROVE Stop(FreedMem, f) \notin F3
      <4>1. CASE f = prev
        BY <4>1, <3>3, <3>5, <1>11
      <4>2. CASE f # prev
        <5>1. f \in F2 /\ f \in B2 \ {prev, at}
          BY <4>2, <3>3, <1>11
        <5> QED BY <4>2, <5>1, <3>3, <3>5, <1>12
      <4> QED BY <4>1, <4>2
    <3> QED BY <3>3, <3>4, <3>5, <3>6, <1>11
  <2> QED BY <2>1, <2>2
<1>15. free' = F3 /\ mem' = FreedMem
  BY <1>1 DEF F2
<1>16. Given \cap (free \cup {at}) = {} /\ Given' = Given
  <2>1. ASSUME NEW b \in Given PROVE b \notin free /\ b # at
    <3>1. b \in Int /\ b + 2 \in DOMAIN live
      BY Sets, Places DEF Given
    <3>2. (b + 2) - 2 = b
      BY <3>1
    <3> QED BY <3>1, <3>2, <1>2 DEF IInv, LiveOK
  <2> QED BY <2>1, <1>1 DEF Given
<1>17. Blocks' = B3
  <2>1. Freeing' = {}
    BY <1>1 DEF Freeing, Idle
  <2>2. R2 \subseteq free /\ R3 \subseteq {at}
    BY <1>2, <1>10 DEF R2
  <2>3. Blocks = free \cup Given \cup {at}
    BY <1>2 DEF Blocks
  <2>4. Blocks' = F3 \cup Given
    BY <2>1, <1>15, <1>16 DEF Blocks
  <2> HIDE DEF R3
  <2>5. B3 = F3 \cup Given
    BY <2>2, <2>3, <1>16 DEF B2, F2
  <2> QED BY <2>4, <2>5
<1>18. \A p \in DOMAIN live : /\ p - 2 \in B2 \ {at, prev} /\ p - 2 \notin F3 /\ p \in Int
  <2> TAKE p \in DOMAIN live
  <2>1. p - 2 \in Given /\ p - 2 \in Blocks /\ p \in Int
    BY Sets
  <2>2. p - 2 \notin F1 /\ (prev # Nil => p - 2 # prev) /\ p - 2 # Nil
    BY <2>1, <1>2, <1>4, <1>16
  <2>3. R2 \subseteq F1
    BY <1>2, <1>10 DEF R2
  <2> QED BY <2>1, <2>2, <2>3, <1>2 DEF B2, F2
<1>19. LiveOK'
  BY <1>1, <1>14, <1>15, <1>18 DEF IInv, LiveOK
<1>20. IInv'
  BY <1>1, <1>14, <1>15, <1>17, <1>19 DEF IInv, CallOK, NotAdjacent
<1>21. Kept
  <2> SUFFICES ASSUME NEW p \in DOMAIN live, NEW a \in Bytes(p) PROVE mem'[a] = mem[a]
    BY DEF Kept
  <2>1. a \in Arena /\ \A b \in Blocks : b # p - 2 => a \notin b .. b + 3
    BY ByteApart
  <2>2. p - 2 \notin free /\ p - 2 # at
    BY <1>18 DEF IInv, LiveOK
  <2>3. Far(a)
    BY <2>1, <2>2, <1>2, <1>3
  <2> QED BY <2>1, <2>3, <1>14, <1>15
<1> QED
  BY <1>20, <1>21

---------------------------------------------------------------------------
LEMMA StepRight ==
  ASSUME ArenaOK, IInv, [Program \/ Heap]_vars, ~tiny'
  PROVE  IInv' /\ (call # Idle \/ call' # Idle => Kept)
<1>1. ASSUME NEW p \in DOMAIN live, NEW k \in 0 .. live[p] - 1, NEW b \in Data, Use(p, k, b)
      PROVE  IInv' /\ call = Idle /\ call' = Idle
  <2>1. call.op = "idle" /\ call' = call
    BY <1>1 DEF Use
  <2>2. call = Idle
    BY <2>1 DEF IInv, CallOK, AllocOK, FreeOK, AllocRegs, FreeRegs
  <2> QED BY <2>1, <2>2, <1>1, UseStep
<1>2. ASSUME mem' = mem PROVE Kept
  BY <1>2 DEF Kept
<1>3. CASE \E p \in DOMAIN live : \E k \in 0 .. live[p] - 1, b \in Data : Use(p, k, b)
  BY <1>1, <1>3
<1>4. CASE \E n \in Requests : AllocCall(n)
  <2>1. mem' = mem
    BY <1>4 DEF AllocCall
  <2> QED BY <2>1, <1>2, <1>4, AllocCallStep
<1>5. CASE \E p \in DOMAIN live : FreeCall(p)
  <2>1. mem' = mem
    BY <1>5 DEF FreeCall
  <2> QED BY <2>1, <1>2, <1>5, FreeCallStep
<1>6. CASE TooSmall
  <2>1. mem' = mem
    BY <1>6 DEF TooSmall
  <2> QED BY <2>1, <1>2, <1>6, TooSmallStep
<1>7. CASE Fail
  <2>1. mem' = mem
    BY <1>7 DEF Fail
  <2> QED BY <2>1, <1>2, <1>7, FailStep
<1>8. CASE Split
  <2>1. tiny' = (tiny \/ call.n < 2)
    BY <1>8, Zenon DEF Split
  <2>2. ~(call.n < 2)
    BY <2>1, Zenon
  <2>3. call.n \in Nat
    BY <1>8, AllocFacts DEF Split, Fits
  <2>4. 2 <= call.n
    BY <2>2, <2>3
  <2> QED BY <2>4, <1>8, SplitStep
<1>9. CASE HandOver
  BY <1>9, HandOverStep
<1>10. CASE Below
  <2>1. mem' = mem
    BY <1>10 DEF Below
  <2> QED BY <2>1, <1>2, <1>10, BelowStep
<1>11. CASE Insert
  BY <1>11, InsertStep
<1>12. CASE UNCHANGED vars
  <2>1. UNCHANGED <<mem, heap_free_head, call, live, free>>
    BY <1>12 DEF vars
  <2>2. Blocks' = Blocks /\ CallOK'
    BY <2>1 DEF Blocks, Given, Freeing, IInv, CallOK, AllocOK, FreeOK
  <2> QED BY <2>1, <2>2, <1>2, SameMemory
<1> QED
  BY <1>3, <1>4, <1>5, <1>6, <1>7, <1>8, <1>9, <1>10, <1>11, <1>12 DEF Program, Heap

\* A block that has been cut off stays in the history.
LEMMA TinyStays ==
  ASSUME tiny \in BOOLEAN, [Program \/ Heap]_vars
  PROVE  tiny' \in BOOLEAN /\ (tiny => tiny')
BY DEF Program, Heap, Use, AllocCall, FreeCall, TooSmall, Fail, Split, HandOver,
       Below, Insert, vars

LEMMA Always ==
  ASSUME ArenaOK
  PROVE  Spec => [](tiny \in BOOLEAN /\ (~tiny => IInv))
<1> DEFINE I == tiny \in BOOLEAN /\ (~tiny => IInv)
<1>1. Init => I
  BY InitRight DEF Init
<1>2. I /\ [Program \/ Heap]_vars => I'
  BY StepRight, TinyStays
<1> QED
  BY <1>1, <1>2, PTL DEF Spec

\* What the program has lies in its block.
LEMMA Extent ==
  ASSUME ArenaOK, IInv, NEW p \in DOMAIN live, NEW a \in Bytes(p) \cup Header(p)
  PROVE  a \in Arena /\ a \in Int /\ p - 2 <= a /\ a < Stop(mem, p - 2)
<1> DEFINE q == p - 2
<1>1. q \in Blocks /\ q \in Int /\ p \in Int /\ Base <= q /\ p = q + 2 /\ Base \in Int
  BY Sets, Places, Ends
<1>2. Size(mem, q) \in Nat /\ 2 <= Size(mem, q) /\ Stop(mem, q) = q + 2 + Size(mem, q)
      /\ Stop(mem, q) <= Last + 1 /\ Last \in Int
  BY <1>1, Ends DEF IInv, Tiled, Stop
<1>3. CASE a \in Bytes(p)
  <2>1. a \in Arena /\ p <= a /\ a < Stop(mem, p - 2)
    BY <1>3, ByteApart
  <2> QED BY <2>1, <1>1, ArenaInt
<1>4. CASE a \in Header(p)
  <2>1. a = q \/ a = q + 1
    BY <1>1, <1>4 DEF Header
  <2> HIDE DEF q
  <2>2. a \in Int /\ q <= a /\ a < Stop(mem, q)
    BY <2>1, <1>1, <1>2
  <2>3. a \in Arena
    BY <2>2, <1>1, <1>2 DEF Arena
  <2> QED BY <2>2, <2>3 DEF q
<1> QED
  BY <1>3, <1>4

LEMMA ApartNow ==
  ASSUME ArenaOK, IInv
  PROVE  Apart
<1>1. ASSUME NEW p \in DOMAIN live, NEW b \in Blocks, b # p - 2,
             NEW a \in Bytes(p) \cup Header(p)
      PROVE  a < b \/ Stop(mem, b) <= a
  <2>1. p - 2 \in Blocks /\ p - 2 \in Int /\ b \in Int /\ p \in Int
    BY Sets, Places
  <2>2. a \in Int /\ p - 2 <= a /\ a < Stop(mem, p - 2)
    BY Extent
  <2>3. Size(mem, b) \in Nat /\ Size(mem, p - 2) \in Nat
    BY <2>1 DEF IInv, Tiled
  <2> DEFINE u == Stop(mem, b)
             v == Stop(mem, p - 2)
             q == p - 2
  <2>4. u \in Int /\ v \in Int /\ q \in Int
    BY <2>1, <2>3 DEF Stop
  <2>5. (b < q => u <= q) /\ (q < b => v <= b)
    BY <2>1 DEF IInv, Tiled
  <2>6. q <= a /\ a < v /\ b # q
    BY <2>2, <1>1
  <2> HIDE DEF u, v, q
  <2>7. a < b \/ u <= a
    BY <2>1, <2>2, <2>4, <2>5, <2>6
  <2> QED BY <2>7 DEF u
<1>2. \A p \in DOMAIN live : Bytes(p) \cup Header(p) \subseteq Arena
  BY Extent
<1>3. ASSUME NEW p \in DOMAIN live, NEW q \in DOMAIN live, p # q,
             NEW a \in Bytes(p) \cup Header(p), a \in Bytes(q) \cup Header(q)
      PROVE  FALSE
  <2>1. q - 2 \in Blocks /\ q - 2 # p - 2 /\ q - 2 \in Int
    BY <1>3, Sets
  <2>2. a < q - 2 \/ Stop(mem, q - 2) <= a
    BY <2>1, <1>1
  <2>3. a \in Int /\ q - 2 <= a /\ a < Stop(mem, q - 2)
    BY <1>3, Extent
  <2>4. Size(mem, q - 2) \in Nat
    BY <2>1 DEF IInv, Tiled
  <2>5. Stop(mem, q - 2) \in Int
    BY <2>1, <2>4 DEF Stop
  <2> QED BY <2>1, <2>2, <2>3, <2>5
<1>4. ASSUME NEW p \in DOMAIN live, NEW f \in free,
             NEW a \in Bytes(p) \cup Header(p), a \in f .. f + 3
      PROVE  FALSE
  <2>1. f \in Blocks /\ f \in Int /\ f # p - 2
    BY Sets, Places DEF IInv, LiveOK
  <2>2. a < f \/ Stop(mem, f) <= a
    BY <2>1, <1>1
  <2>3. Size(mem, f) \in Nat /\ 2 <= Size(mem, f) /\ Stop(mem, f) = f + 2 + Size(mem, f)
    BY <2>1 DEF IInv, Tiled, Stop
  <2>4. a \in Int /\ f <= a /\ a <= f + 3
    BY <2>1, <1>4
  <2> QED BY <2>1, <2>2, <2>3, <2>4
<1> QED
  BY <1>2, <1>3, <1>4 DEF Apart

LEMMA JoinedNow ==
  ASSUME ArenaOK, IInv
  PROVE  AllJoined
<1> SUFFICES ASSUME call.op = "idle", live = [p \in {} |-> 0]
             PROVE  /\ free = {Base} /\ heap_free_head = Base
                    /\ Size(mem, Base) = Last - Base - 1 /\ Next(mem, Base) = Nil
  BY DEF AllJoined
<1>1. DOMAIN live = {} /\ Freeing = {}
  BY DEF Freeing
<1>2. Blocks = free
  BY <1>1 DEF Blocks, Given
<1>3. Tiled(mem, free) /\ Chain(mem, free, heap_free_head) /\ NotAdjacent
  BY <1>2 DEF IInv
<1>4. Base \in free /\ Base \in Int /\ Last \in Int /\ Base > 0
  BY <1>3, Ends DEF Tiled
<1>5. Stop(mem, Base) = Last + 1
  BY <1>3, <1>4 DEF Tiled, NotAdjacent
<1>6. free = {Base}
  <2> SUFFICES ASSUME NEW f \in free, f # Base PROVE FALSE
    BY <1>4
  <2>1. f \in Int /\ Base <= f /\ f + 3 <= Last
    BY <1>3, Places DEF Tiled
  <2>2. Stop(mem, Base) <= f
    BY <2>1, <1>3, <1>4 DEF Tiled
  <2> QED BY <2>1, <2>2, <1>4, <1>5
<1>7. heap_free_head = Base /\ Next(mem, Base) = Nil
  <2>1. IsNext(heap_free_head, {Base}, Nil) /\ IsNext(Next(mem, Base), {Base}, Base)
    BY <1>3, <1>6 DEF Chain
  <2> QED BY <2>1, <1>4 DEF IsNext, Nil
<1>8. Size(mem, Base) = Last - Base - 1
  <2>1. Size(mem, Base) \in Nat
    BY <1>3, <1>4 DEF Tiled
  <2> QED BY <2>1, <1>4, <1>5 DEF Stop
<1> QED
  BY <1>6, <1>7, <1>8

LEMMA FailsNow ==
  ASSUME ArenaOK, IInv
  PROVE  FailsRightly
<1> SUFFICES ASSUME call.op = "alloc", call.cur = Nil, NEW f \in free
             PROVE  Size(mem, f) < call.n
  BY DEF FailsRightly
<1>1. IsNext(Nil, free, call.prev) /\ (f <= call.prev => Size(mem, f) < call.n)
  BY AllocFacts
<1> QED
  BY <1>1 DEF IsNext

---------------------------------------------------------------------------
\* Until a block of 0 or 1 bytes has been cut off: what heap_alloc has given out
\* and not got back shares no byte with another block's data or header, or with
\* the list of free blocks, in every arena.
THEOREM HeapApart ==
  ASSUME ArenaOK
  PROVE  Spec => [](~tiny => Apart)
<1>1. tiny \in BOOLEAN /\ (~tiny => IInv) => (~tiny => Apart)
  BY ApartNow
<1> QED
  BY <1>1, Always, PTL

\* Until then: when everything has been freed, the arena is one free block again,
\* as heap_init made it; heap_free misses no neighbour.
THEOREM HeapJoined ==
  ASSUME ArenaOK
  PROVE  Spec => [](~tiny => AllJoined)
<1>1. tiny \in BOOLEAN /\ (~tiny => IInv) => (~tiny => AllJoined)
  BY JoinedNow
<1> QED
  BY <1>1, Always, PTL

\* Until then: heap_alloc fails only when no free block is as large as the
\* request, which may be for 0 bytes.
THEOREM HeapFails ==
  ASSUME ArenaOK
  PROVE  Spec => [](~tiny => FailsRightly)
<1>1. tiny \in BOOLEAN /\ (~tiny => IInv) => (~tiny => FailsRightly)
  BY FailsNow
<1> QED
  BY <1>1, Always, PTL

\* Until then: no step of heap_alloc or heap_free changes a byte of a block that
\* the program has before and after it.
THEOREM HeapKeeps ==
  ASSUME ArenaOK
  PROVE  Spec => DataKept
<1>1. /\ tiny \in BOOLEAN /\ (~tiny => IInv)
      /\ [Program \/ Heap]_vars
      => [(call # Idle \/ call' # Idle) /\ ~tiny' =>
            \A p \in DOMAIN live \cap DOMAIN live' : \A a \in Bytes(p) : mem'[a] = mem[a]]_vars
  BY StepRight, TinyStays DEF Kept
<1> QED
  BY <1>1, Always, PTL DEF Spec, DataKept
=============================================================================
