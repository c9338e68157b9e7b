-------------------------------- MODULE Heap --------------------------------
(* The general-purpose heap (lib/heap_malloc.asm): blocks lie one behind the *)
(* other in the arena, each with its SIZE in front; a free one has the       *)
(* address of the next free one, NEXT, in its first two bytes.  The headers  *)
(* are in the same memory the program writes its data to.                    *)
EXTENDS Integers

CONSTANTS
  Base, Last,    \* the arena's first and last byte (mem_base, mem_top)
  Requests,      \* how many bytes a program asks for
  Data           \* what bytes a program writes; what is in the arena at first

HEAP_MIN_SPLIT == 4
Nil == 0
Arena == Base .. Last
Byte == 0 .. 255
MaxWord == 65535
Word == 0 .. MaxWord
Memory == [Arena -> Byte]

\* An arena that holds a block, and below it the address that stands for none.
ArenaOK ==
  /\ Base \in Nat /\ Last \in Nat /\ 0 < Base /\ Base + 3 <= Last /\ Last <= MaxWord
  /\ Requests \subseteq Word
  /\ Data \subseteq 0 .. 255

\* Sums and differences in registers of 16 bits.
Add(a, b) == (a + b) % (MaxWord + 1)
Sub(a, b) == (a - b) % (MaxWord + 1)

VARIABLES
  mem,              \* the arena's bytes
  heap_free_head,   \* the first free block
  call,             \* the registers of the call in progress: candidate and the block before it
  live,             \* history: the bytes asked for, by the pointer the program got
  free,             \* history: the blocks in the list of free ones
  tiny              \* history: a block without room for NEXT has been cut off

vars == <<mem, heap_free_head, call, live, free, tiny>>

Idle == [op |-> "idle"]
AllocRegs(n, prev, cur) == [op |-> "alloc", n |-> n, prev |-> prev, cur |-> cur]
FreeRegs(at, prev, cur) == [op |-> "free", at |-> at, prev |-> prev, cur |-> cur]

---------------------------------------------------------------------------
\* Words in memory, the high byte first; a block's two fields.
WordAt(m, a) == m[a] * 256 + m[a + 1]
PutWord(m, a, w) == [m EXCEPT ![a] = w \div 256, ![a + 1] = w % 256]
Size(m, b) == WordAt(m, b)
Next(m, b) == WordAt(m, b + 2)
SetSize(m, b, w) == PutWord(m, b, w)
SetNext(m, b, w) == PutWord(m, b + 2, w)
End(m, b) == Add(Add(b, 2), Size(m, b))

\* What pointed at the block after prev points at b: the head, or prev's NEXT.
LinkHead(prev, b) == IF prev = Nil THEN b ELSE heap_free_head
LinkMem(m, prev, b) == IF prev = Nil THEN m ELSE SetNext(m, prev, b)

---------------------------------------------------------------------------
\* heap_init: one free block.
FirstSize == Sub(Add(Sub(Last, Base), 1), 2)
Init ==
  /\ \E m \in [Arena -> Data] : mem = SetNext(SetSize(m, Base, FirstSize), Base, Nil)
  /\ heap_free_head = Base
  /\ call = Idle
  /\ live = [p \in {} |-> 0]
  /\ free = {Base}
  /\ tiny = FALSE

\* The program writes a byte of a block it has.
Use(p, k, b) ==
  /\ call.op = "idle"
  /\ mem' = [mem EXCEPT ![p + k] = b]
  /\ UNCHANGED <<heap_free_head, call, live, free, tiny>>

---------------------------------------------------------------------------
\* heap_alloc: the first free block that is large enough.
AllocCall(n) ==
  /\ call.op = "idle"
  /\ call' = AllocRegs(n, Nil, heap_free_head)
  /\ UNCHANGED <<mem, heap_free_head, live, free, tiny>>

Fits == call.op = "alloc" /\ call.cur # Nil /\ Size(mem, call.cur) >= call.n
Remainder == Sub(Size(mem, call.cur), call.n)

TooSmall ==
  /\ call.op = "alloc" /\ call.cur # Nil /\ ~Fits
  /\ call' = AllocRegs(call.n, call.cur, Next(mem, call.cur))
  /\ UNCHANGED <<mem, heap_free_head, live, free, tiny>>

Fail ==
  /\ call.op = "alloc" /\ call.cur = Nil
  /\ call' = Idle
  /\ UNCHANGED <<mem, heap_free_head, live, free, tiny>>

\* The program gets the bytes behind the block's SIZE.
Give == live' = [p \in DOMAIN live \cup {Add(call.cur, 2)} |->
                   IF p = Add(call.cur, 2) THEN call.n ELSE live[p]]

\* The block's front part, the rest becomes a free block in its place.  A front
\* part of 0 or 1 bytes can be had; its NEXT would lie in the block behind it.
Rest == Add(Add(call.cur, 2), call.n)
SplitMem ==
  LET m1 == SetSize(mem, Rest, Sub(Remainder, 2))
      m2 == SetNext(m1, Rest, Next(m1, call.cur))
      m3 == SetSize(m2, call.cur, call.n)
  IN  LinkMem(m3, call.prev, Rest)
Split ==
  /\ Fits /\ Remainder >= HEAP_MIN_SPLIT
  /\ mem' = SplitMem
  /\ heap_free_head' = LinkHead(call.prev, Rest)
  /\ free' = (free \ {call.cur}) \cup {Rest}
  /\ tiny' = (tiny \/ call.n < 2)
  /\ Give
  /\ call' = Idle

\* The whole block, if the rest could not be a block.
HandOver ==
  /\ Fits /\ Remainder < HEAP_MIN_SPLIT
  /\ mem' = LinkMem(mem, call.prev, Next(mem, call.cur))
  /\ heap_free_head' = LinkHead(call.prev, Next(mem, call.cur))
  /\ free' = free \ {call.cur}
  /\ Give
  /\ call' = Idle
  /\ UNCHANGED tiny

---------------------------------------------------------------------------
\* heap_free: the block's place in the list, which is in the order of addresses.
FreeCall(p) ==
  /\ call.op = "idle"
  /\ call' = FreeRegs(Sub(p, 2), Nil, heap_free_head)
  /\ live' = [q \in DOMAIN live \ {p} |-> live[q]]
  /\ UNCHANGED <<mem, heap_free_head, free, tiny>>

HerePlace == call.cur = Nil \/ call.cur >= call.at
Below ==
  /\ call.op = "free" /\ ~HerePlace
  /\ call' = FreeRegs(call.at, call.cur, Next(mem, call.cur))
  /\ UNCHANGED <<mem, heap_free_head, live, free, tiny>>

\* Linked in, joined with the free block behind it, then with the one before it.
Linked == LinkMem(SetNext(mem, call.at, call.cur), call.prev, call.at)
JoinsNext == call.cur # Nil /\ End(Linked, call.at) = call.cur
Joined ==
  IF ~JoinsNext THEN Linked
  ELSE LET m1 == SetNext(Linked, call.at, Next(Linked, call.cur))
       IN  SetSize(m1, call.at,
                   Add(Size(Linked, call.at), Add(Size(Linked, call.cur), 2)))
JoinsPrev == call.prev # Nil /\ End(Joined, call.prev) = call.at
FreedMem ==
  IF ~JoinsPrev THEN Joined
  ELSE LET m1 == SetNext(Joined, call.prev, Next(Joined, call.at))
       IN  SetSize(m1, call.prev,
                   Add(Size(Joined, call.prev), Add(Size(Joined, call.at), 2)))
Insert ==
  /\ call.op = "free" /\ HerePlace
  /\ mem' = FreedMem
  /\ heap_free_head' = LinkHead(call.prev, call.at)
  /\ free' = (free \cup {call.at}) \ ((IF JoinsNext THEN {call.cur} ELSE {})
                                       \cup (IF JoinsPrev THEN {call.at} ELSE {}))
  /\ call' = Idle
  /\ UNCHANGED <<live, tiny>>

---------------------------------------------------------------------------
Program ==
  \/ \E p \in DOMAIN live : \E k \in 0 .. live[p] - 1, b \in Data : Use(p, k, b)
  \/ \E n \in Requests : AllocCall(n)
  \/ \E p \in DOMAIN live : FreeCall(p)
Heap == TooSmall \/ Fail \/ Split \/ HandOver \/ Below \/ Insert
Spec == Init /\ [][Program \/ Heap]_vars

---------------------------------------------------------------------------
\* The bytes of the block at p, and those of its header.
Bytes(p) == p .. p + live[p] - 1
Header(p) == {p - 2, p - 1}

\* heap_free writes NEXT into a block's first two bytes.  Once a block of fewer has
\* been cut off (heap_alloc lets a program ask for 0) the list can be lost, and
\* nothing is said of the heap from then on; up to then the following holds.

\* What the program has got lies in the arena, apart from whatever else it has,
\* headers included, and from the fields of the free blocks.
Apart ==
  /\ \A p \in DOMAIN live : Bytes(p) \cup Header(p) \subseteq Arena
  /\ \A p, q \in DOMAIN live :
       p # q => (Bytes(p) \cup Header(p)) \cap (Bytes(q) \cup Header(q)) = {}
  /\ \A p \in DOMAIN live, f \in free : (Bytes(p) \cup Header(p)) \cap (f .. f + 3) = {}

\* Between calls, a program that has freed all it had finds one free block of
\* the first size: whatever the order, the blocks have been joined again.
AllJoined ==
  call.op = "idle" /\ live = [p \in {} |-> 0] =>
    /\ free = {Base} /\ heap_free_head = Base
    /\ Size(mem, Base) = Last - Base - 1 /\ Next(mem, Base) = Nil

\* No block is said to be missing while a free one is large enough.
FailsRightly ==
  call.op = "alloc" /\ call.cur = Nil => \A f \in free : Size(mem, f) < call.n

\* A call leaves the bytes of the program's blocks as they are.
DataKept ==
  [][(call # Idle \/ call' # Idle) /\ ~tiny' =>
       \A p \in DOMAIN live \cap DOMAIN live' : \A a \in Bytes(p) : mem'[a] = mem[a]]_vars
=============================================================================
