---------------------------- MODULE SessionProofs ----------------------------
(* For every size of RAM, of the module, of the shell and of the programs,  *)
(* and every sequence of lines, batch files and failures: the reservations  *)
(* at the top of memory nest (HimemSafe), console calls lead where the line *)
(* says (VectorsMatch), and the whole implements Streams.                   *)
EXTENDS Session, SequenceTheorems, TLAPS

---------------------------------------------------------------------------
(* Rounding *)

LEMMA ClearedRange ==
  ASSUME NEW n \in Int, NEW unit \in Nat \ {0}
  PROVE  /\ Cleared(n, unit) \in Int
         /\ Cleared(n, unit) <= n
         /\ n - unit < Cleared(n, unit)
<1>1. n % unit \in 0 .. unit - 1
  OBVIOUS
<1> QED
  BY <1>1 DEF Cleared

LEMMA AlignUpRange ==
  ASSUME NEW raw \in Int
  PROVE  AlignUp(raw) \in raw .. raw + MOD_RESERVE_PAD
<1> DEFINE n == raw + MOD_RESERVE_PAD
<1>1. Page \in Nat \ {0} /\ MOD_RESERVE_PAD = Page - 1
  BY Layout DEF MOD_RESERVE_PAD
<1>2. n \in Int
  BY <1>1
<1>3. Cleared(n, Page) \in Int /\ Cleared(n, Page) <= n /\ n - Page < Cleared(n, Page)
  BY <1>1, <1>2, ClearedRange
<1> QED
  BY <1>1, <1>3 DEF AlignUp

LEMMA RoundUpRange ==
  ASSUME NEW n \in Int
  PROVE  RoundUp(n) \in Int /\ n <= RoundUp(n)
<1> DEFINE m == n + (ParaSize - 1)
<1>1. ParaSize \in Nat \ {0}
  BY Layout
<1>2. m \in Int
  BY <1>1
<1>3. RoundUp(n) = Cleared(m, ParaSize)
  BY DEF RoundUp
<1>4. Cleared(m, ParaSize) \in Int /\ m - ParaSize < Cleared(m, ParaSize)
  BY <1>1, <1>2, ClearedRange
<1> QED
  BY <1>1, <1>3, <1>4

---------------------------------------------------------------------------
(* The invariant.  Each reservation lies where mem_top stood when it was     *)
(* made, and those made before it are all still held: they are released in   *)
(* the order opposite to the one they are made in.                           *)

UnderModule == RamTop - (IF batch_mod_active THEN ModReserve ELSE 0)
UnderArgs == UnderModule - ArgsLen
UnderSecond == UnderArgs - (IF redir_stack_reserved THEN REDIR_RESERVE_LEN ELSE 0)

MemoryTypes ==
  /\ mem_top \in Int /\ mem_base \in Int /\ prog_size \in Nat /\ args_top \in Int
  /\ runs_shell \in BOOLEAN
  /\ batch_mod_active \in BOOLEAN /\ batch_args_reserved \in BOOLEAN
  /\ redir_stack_reserved \in BOOLEAN
  /\ redir_in \in [active : BOOLEAN, null : BOOLEAN, handle : Int]
  /\ own \in [at : Int, len : Nat]
  /\ relay \in [out : {NoRedir, NUL} \cup Files, append : BOOLEAN,
                in : {NoRedir, NUL} \cup Files]

BatchOnTop ==
  /\ batch_mod_active => /\ batch_mod_reserve_size = ModReserve
                         /\ batch_mod_base = AlignUp(UnderModule + 1)
  /\ batch_args_reserved => batch_mod_active /\ args_at = UnderArgs + 1

Nested ==
  /\ BatchOnTop
  /\ mem_top = UnderSecond - own.len
  /\ redir_stack_reserved => /\ pc \in {"child", "returned"}
                             /\ redir_in.handle = UnderSecond + 1
  /\ own # Nothing => pc = "child" /\ own.at = mem_top + 1

\* What is loaded lies below mem_base while reservations can be made.
Below ==
  /\ PROG_BASE + prog_size <= mem_top
  /\ pc \in {"redir_out", "redir_in", "shell", "child"} =>
       PROG_BASE + prog_size <= mem_base /\ args_top <= mem_top
  /\ pc = "boot" => mem_top = RamTop /\ prog_size = 0 /\ ~batch_mod_active

\* The shell is never redirected: nothing of the last line's is left for it.
ShellPlain ==
  runs_shell /\ pc \in {"prog_run", "redir_out", "redir_in"} =>
    relay.out = NoRedir /\ relay.in = NoRedir

IInv == MemoryTypes /\ Nested /\ Below /\ ShellPlain

LEMMA Sizes0 ==
  /\ RamTop \in Int /\ PROG_BASE \in Nat /\ ModSize \in Nat /\ prog_fcb \in Int
  /\ MOD_RESERVE_PAD \in Nat /\ ModReserve \in Nat /\ ModReserve = ModSize + MOD_RESERVE_PAD
  /\ REDIR_RESERVE_LEN \in Nat
  /\ BATCH_ARGS_RESERVE_LEN \in Nat /\ BATCH_ARGS_RESERVE_LEN > 0
BY Layout DEF MOD_RESERVE_PAD, ModReserve, REDIR_RESERVE_LEN

LEMMA InitIInv == Init => IInv
<1> SUFFICES ASSUME Init PROVE IInv
  OBVIOUS
<1>0. /\ pc = "boot" /\ mem_top = RamTop /\ mem_base = 0 /\ prog_size = 0 /\ args_top = 0
      /\ runs_shell = FALSE /\ batch_mod_active = FALSE /\ batch_args_reserved = FALSE
      /\ redir_stack_reserved = FALSE
      /\ redir_in = [active |-> FALSE, null |-> FALSE, handle |-> 0]
      /\ own = [at |-> 0, len |-> 0]
      /\ relay = [out |-> NoRedir, append |-> FALSE, in |-> NoRedir]
  BY DEF Init, Closed, Nothing
<1>1. MemoryTypes
  <2>1. redir_in \in [active : BOOLEAN, null : BOOLEAN, handle : Int] /\ own \in [at : Int, len : Nat]
    BY <1>0
  <2>2. relay \in [out : {NoRedir, NUL} \cup Files, append : BOOLEAN, in : {NoRedir, NUL} \cup Files]
    BY <1>0
  <2> QED
    BY <1>0, <2>1, <2>2, Sizes0 DEF MemoryTypes
<1>2. Nested
  BY <1>0, Sizes0 DEF Nested, BatchOnTop, UnderSecond, UnderArgs, UnderModule, ArgsLen, Nothing
<1>3. Below
  BY <1>0, Sizes0, Machine DEF Below
<1>4. ShellPlain
  BY DEF Init, ShellPlain
<1> QED
  BY <1>1, <1>2, <1>3, <1>4 DEF IInv

\* What the loader does keeps the program below mem_base.
LEMMA FinishLoads ==
  ASSUME IInv, NEW n \in Nat, Finish(n)
  PROVE  /\ prog_size' \in Nat /\ mem_base' \in Int /\ args_top' = mem_top /\ mem_top' = mem_top
         /\ PROG_BASE + prog_size' <= mem_top
         /\ PROG_BASE + prog_size' <= mem_base'
<1>1. mem_top \in Int /\ PROG_BASE <= mem_top /\ PROG_BASE \in Nat
  BY Sizes0 DEF IInv, MemoryTypes, Below
<1>2. Loaded(n) \in Nat /\ Loaded(n) <= mem_top - PROG_BASE
  BY <1>1 DEF Loaded
<1>3. RoundUp(Loaded(n)) \in Int /\ Loaded(n) <= RoundUp(Loaded(n))
  BY <1>2, RoundUpRange
<1> QED
  BY <1>1, <1>2, <1>3 DEF Finish

LEMMA FinishFailsLoads ==
  ASSUME IInv, NEW n \in Nat, FinishFails(n)
  PROVE  /\ prog_size' \in Nat /\ mem_base' = mem_base /\ args_top' = args_top /\ mem_top' = mem_top
         /\ PROG_BASE + prog_size' <= mem_top
<1>1. mem_top \in Int /\ PROG_BASE <= mem_top /\ PROG_BASE \in Nat
  BY Sizes0 DEF IInv, MemoryTypes, Below
<1>2. Loaded(n) \in Nat /\ Loaded(n) <= mem_top - PROG_BASE
  BY <1>1 DEF Loaded
<1>3. /\ prog_size \in Nat /\ PROG_BASE + prog_size <= mem_top
      /\ prog_size' \in {prog_size, Loaded(n)} /\ mem_base' = mem_base
      /\ args_top' = args_top /\ mem_top' = mem_top
  BY DEF FinishFails, IInv, MemoryTypes, Below
<1>4. CASE prog_size' = prog_size
  BY <1>3, <1>4
<1>5. CASE prog_size' = Loaded(n)
  <2>1. PROG_BASE + Loaded(n) <= mem_top
    BY <1>1, <1>2
  <2> QED
    BY <1>2, <1>3, <1>5, <2>1
<1> QED
  BY <1>3, <1>4, <1>5

LEMMA RunLoopIInv == IInv /\ RunLoop => IInv'
<1> SUFFICES ASSUME IInv, RunLoop PROVE IInv'
  OBVIOUS
<1> USE Sizes0
<1>1. PICK n \in ShellSizes : \/ pc' = "shell" /\ Finish(n) /\ UNCHANGED runs_shell
                              \/ pc' = "prog_run" /\ FinishFails(n) /\ runs_shell' = TRUE
  BY DEF RunLoop
<1>2. n \in Nat
  BY Layout
<1>3. /\ prog_size' \in Nat /\ mem_base' \in Int /\ args_top' \in Int /\ mem_top' = mem_top
      /\ PROG_BASE + prog_size' <= mem_top
      /\ pc' = "shell" => PROG_BASE + prog_size' <= mem_base' /\ args_top' <= mem_top
  BY <1>1, <1>2, FinishLoads, FinishFailsLoads DEF IInv, MemoryTypes
<1>4. /\ pc = "run_loop" /\ pc' \in {"shell", "prog_run"} /\ runs_shell' \in BOOLEAN
      /\ UNCHANGED <<batch, redirection, own>> /\ relay' = ClearedRelay
  BY <1>1 DEF RunLoop, IInv, MemoryTypes
<1>5. /\ relay'.out = NoRedir /\ relay'.in = NoRedir
      /\ relay' \in [out : {NoRedir, NUL} \cup Files, append : BOOLEAN,
                    in : {NoRedir, NUL} \cup Files]
  BY <1>4 DEF ClearedRelay, IInv, MemoryTypes
<1>6. MemoryTypes'
  BY <1>3, <1>4, <1>5 DEF IInv, MemoryTypes, batch, redirection
<1>7. Nested'
  BY <1>3, <1>4 DEF IInv, MemoryTypes, Nested, BatchOnTop, UnderSecond, UnderArgs, UnderModule, ArgsLen,
                    batch, redirection
<1>8. Below'
  BY <1>3, <1>4 DEF Below
<1>9. ShellPlain'
  BY <1>5 DEF ShellPlain
<1> QED
  BY <1>6, <1>7, <1>8, <1>9 DEF IInv

LEMMA ProgRunIInv == IInv /\ ProgRun => IInv'
<1> SUFFICES ASSUME IInv, ProgRun PROVE IInv'
  OBVIOUS
<1> USE Sizes0
<1>1. PICK n \in Sizes : \/ pc' = "redir_out" /\ Finish(n)
                         \/ pc' = "failed" /\ FinishFails(n)
  BY DEF ProgRun
<1>2. n \in Nat
  BY Layout DEF Sizes
<1>3. /\ prog_size' \in Nat /\ mem_base' \in Int /\ args_top' \in Int /\ mem_top' = mem_top
      /\ PROG_BASE + prog_size' <= mem_top
      /\ pc' = "redir_out" => PROG_BASE + prog_size' <= mem_base' /\ args_top' <= mem_top
  BY <1>1, <1>2, FinishLoads, FinishFailsLoads DEF IInv, MemoryTypes
<1>4. /\ pc = "prog_run" /\ pc' \in {"redir_out", "failed"}
      /\ UNCHANGED <<batch, redirection, own, relay, runs_shell>>
  BY <1>1 DEF ProgRun
<1>5. MemoryTypes'
  BY <1>3, <1>4 DEF IInv, MemoryTypes, batch, redirection
<1>6. Nested'
  BY <1>3, <1>4 DEF IInv, MemoryTypes, Nested, BatchOnTop, UnderSecond, UnderArgs, UnderModule, ArgsLen,
                    batch, redirection
<1>7. Below'
  BY <1>3, <1>4 DEF Below
<1>8. ShellPlain'
  BY <1>4 DEF ShellPlain, IInv
<1> QED
  BY <1>5, <1>6, <1>7, <1>8 DEF IInv

\* Opening what the line names, but for a second file control block, moves
\* nothing in memory.
LEMMA OpeningIInv ==
  ASSUME IInv, pc \in {"redir_out", "redir_in"}, pc' \in {"redir_in", "failed", "shell", "child"},
         UNCHANGED <<memory, runs_shell, relay, batch, redir_stack_reserved, own>>,
         redir_in' \in [active : BOOLEAN, null : BOOLEAN, handle : Int]
  PROVE  IInv'
<1>1. /\ UNCHANGED <<mem_top, mem_base, prog_size, args_top, runs_shell, relay, own>>
      /\ UNCHANGED <<batch_mod_active, batch_mod_base, batch_mod_reserve_size,
                     batch_args_reserved, args_at, redir_stack_reserved>>
  BY DEF memory, batch
<1>2. MemoryTypes'
  BY <1>1 DEF IInv, MemoryTypes
<1>3. ~redir_stack_reserved /\ own = Nothing
  BY DEF IInv, Nested, BatchOnTop
<1>4. Nested'
  BY <1>1, <1>3 DEF IInv, Nested, BatchOnTop, UnderSecond, UnderArgs, UnderModule, ArgsLen
<1>5. Below'
  BY <1>1 DEF IInv, Below
<1>6. ShellPlain'
  BY <1>1 DEF IInv, ShellPlain
<1> QED
  BY <1>2, <1>4, <1>5, <1>6 DEF IInv

LEMMA RedirectIInv ==
  ASSUME IInv, OpenOut \/ OutToNul \/ NoOut \/ OpenIn \/ OpenInFails \/ InFromNul \/ NoIn
  PROVE  IInv'
<1>1. redir_in \in [active : BOOLEAN, null : BOOLEAN, handle : Int] /\ prog_fcb \in Int
  BY Sizes0 DEF IInv, MemoryTypes
<1>2. redir_in' \in [active : BOOLEAN, null : BOOLEAN, handle : Int]
  BY <1>1 DEF OpenOut, OutToNul, NoOut, OpenIn, OpenInFails, InFromNul, NoIn, redirection
<1>3. pc \in {"redir_out", "redir_in"} /\ pc' \in {"redir_in", "failed", "shell", "child"}
  BY DEF OpenOut, OutToNul, NoOut, OpenIn, OpenInFails, InFromNul, NoIn, Execute
<1>4. UNCHANGED <<memory, runs_shell, relay, batch, redir_stack_reserved, own>>
  BY DEF OpenOut, OutToNul, NoOut, OpenIn, OpenInFails, InFromNul, NoIn, redirection
<1> QED
  BY <1>2, <1>3, <1>4, OpeningIInv

\* Only a program that is not the shell can have two file control blocks.
LEMMA OpenSecondIInv == IInv /\ OpenSecond => IInv'
<1> SUFFICES ASSUME IInv, OpenSecond PROVE IInv'
  OBVIOUS
<1> USE Sizes0
<1>1. /\ pc = "redir_in" /\ relay.in \in Files
      /\ redir_stack_reserved' = TRUE
      /\ redir_in' = [redir_in EXCEPT !.active = TRUE, !.handle = Second]
      /\ UNCHANGED <<mem_base, prog_size, runs_shell, relay, batch, own>>
  BY DEF OpenSecond
<1>2. /\ mem_base <= mem_top - REDIR_RESERVE_LEN
      /\ mem_top' = mem_top - REDIR_RESERVE_LEN /\ args_top' = mem_top - REDIR_RESERVE_LEN
  BY DEF OpenSecond, himem_reserve, Fits
<1>3. ~runs_shell
  BY <1>1, Devices DEF IInv, ShellPlain
<1>4. pc' = "child"
  BY <1>3 DEF OpenSecond, Execute
<1>5. ~redir_stack_reserved /\ own = Nothing
  BY <1>1 DEF IInv, Nested, BatchOnTop
<1>6. /\ redir_in'.handle = mem_top' + 1
      /\ redir_in' \in [active : BOOLEAN, null : BOOLEAN, handle : Int]
  <2>1. /\ mem_top \in Int /\ redir_in \in [active : BOOLEAN, null : BOOLEAN, handle : Int]
    BY DEF IInv, MemoryTypes
  <2>2. Second = mem_top' + 1 /\ Second \in Int
    BY <1>2, <2>1 DEF Second
  <2> QED
    BY <1>1, <2>1, <2>2
<1>7. MemoryTypes'
  BY <1>1, <1>2, <1>6 DEF IInv, MemoryTypes, batch
<1>8. Nested'
  <2>1. mem_top = UnderArgs /\ UnderArgs' = UnderArgs /\ UnderModule' = UnderModule
    BY <1>1, <1>5 DEF IInv, MemoryTypes, Nested, BatchOnTop, UnderSecond, UnderArgs, UnderModule, ArgsLen,
                      batch, Nothing
  <2>2. UnderSecond' = UnderArgs - REDIR_RESERVE_LEN /\ UnderArgs - REDIR_RESERVE_LEN = mem_top'
    BY <1>1, <1>2, <2>1 DEF UnderSecond
  <2>3. own' = Nothing /\ mem_top' = UnderSecond' - own'.len
    BY <1>1, <1>2, <1>5, <2>2 DEF Nothing, IInv, MemoryTypes
  <2>4. batch_args_reserved' = batch_args_reserved /\ args_at' = args_at
        /\ batch_mod_active' = batch_mod_active
        /\ batch_mod_base' = batch_mod_base /\ batch_mod_reserve_size' = batch_mod_reserve_size
    BY <1>1 DEF batch
  <2> QED
    BY <1>1, <1>4, <1>6, <2>1, <2>2, <2>3, <2>4 DEF IInv, Nested, BatchOnTop
<1>9. Below'
  BY <1>1, <1>2, <1>4 DEF IInv, MemoryTypes, Below
<1>10. ShellPlain'
  BY <1>4 DEF ShellPlain
<1> QED
  BY <1>7, <1>8, <1>9, <1>10 DEF IInv

LEMMA OpenSecondFailsIInv == IInv /\ OpenSecondFails => IInv'
<1> SUFFICES ASSUME IInv, OpenSecondFails PROVE IInv'
  OBVIOUS
<1> USE Sizes0
<1>1. /\ pc = "redir_in" /\ pc' = "failed"
      /\ UNCHANGED <<mem_top, mem_base, prog_size, runs_shell, relay, batch,
                     redir_stack_reserved, own>>
  BY DEF OpenSecondFails
<1>2. args_top' \in Int /\ redir_in' \in [active : BOOLEAN, null : BOOLEAN, handle : Int]
  BY DEF OpenSecondFails, Second, IInv, MemoryTypes
<1>3. ~redir_stack_reserved
  BY <1>1 DEF IInv, Nested, BatchOnTop
<1>4. MemoryTypes'
  BY <1>1, <1>2 DEF IInv, MemoryTypes, batch
<1>5. Nested'
  BY <1>1, <1>3 DEF IInv, Nested, BatchOnTop, UnderSecond, UnderArgs, UnderModule, ArgsLen, batch
<1>6. Below'
  BY <1>1 DEF IInv, Below
<1>7. ShellPlain'
  BY <1>1 DEF ShellPlain
<1> QED
  BY <1>4, <1>5, <1>6, <1>7 DEF IInv

LEMMA TeardownIInv == IInv /\ Teardown => IInv'
<1> SUFFICES ASSUME IInv, Teardown PROVE IInv'
  OBVIOUS
<1> USE Sizes0
<1>1. /\ pc \in {"returned", "failed"} /\ pc' = "run_loop" /\ redir_stack_reserved' = FALSE
      /\ mem_top' = mem_top + (IF redir_stack_reserved THEN REDIR_RESERVE_LEN ELSE 0)
      /\ redir_in' = [redir_in EXCEPT !.active = FALSE, !.null = FALSE]
      /\ UNCHANGED <<mem_base, prog_size, args_top, runs_shell, relay, batch, own>>
  BY DEF Teardown, himem_release
<1>2. /\ mem_top \in Int /\ mem_top' \in Int /\ mem_top <= mem_top'
      /\ redir_in' \in [active : BOOLEAN, null : BOOLEAN, handle : Int]
  <2>1. mem_top \in Int /\ redir_in \in [active : BOOLEAN, null : BOOLEAN, handle : Int]
    BY DEF IInv, MemoryTypes
  <2>2. mem_top' \in Int /\ mem_top <= mem_top'
    BY <1>1, <2>1
  <2> QED
    BY <1>1, <2>1, <2>2
<1>3. own = Nothing /\ UnderArgs' = UnderArgs
  BY <1>1 DEF IInv, Nested, BatchOnTop, UnderArgs, UnderModule, ArgsLen, batch
<1>4. MemoryTypes'
  BY <1>1, <1>2 DEF IInv, MemoryTypes, batch
<1>5. Nested'
  <2>1. UnderArgs \in Int /\ UnderSecond' = UnderArgs
    BY <1>1, <1>3 DEF UnderSecond, UnderArgs, UnderModule, ArgsLen
  <2>2. mem_top' = UnderArgs
    BY <1>1, <1>3, <2>1 DEF UnderSecond, IInv, MemoryTypes, Nested, Nothing
  <2>3. mem_top' = UnderSecond' - own'.len
    BY <1>1, <1>3, <2>1, <2>2 DEF Nothing
  <2>4. /\ UNCHANGED <<batch_mod_active, batch_mod_base, batch_mod_reserve_size,
                       batch_args_reserved, args_at>>
        /\ UnderModule' = UnderModule
    BY <1>1 DEF batch, UnderModule
  <2> QED
    BY <1>1, <1>3, <2>3, <2>4 DEF IInv, Nested, BatchOnTop
<1>6. Below'
  BY <1>1, <1>2 DEF IInv, MemoryTypes, Below
<1>7. ShellPlain'
  BY <1>1 DEF ShellPlain
<1> QED
  BY <1>4, <1>5, <1>6, <1>7 DEF IInv

\* The module is reserved when nothing else is, with the arguments below it.
LEMMA ModuleInNested ==
  ASSUME IInv, NEW more \in Nat, ModuleIn(more), own = Nothing, ~redir_stack_reserved
  PROVE  /\ mem_top = RamTop
         /\ mem_top' = RamTop - ModReserve - more /\ args_top' = mem_top'
         /\ mem_base <= mem_top'
         /\ batch_mod_active' = TRUE /\ batch_mod_reserve_size' = ModReserve
         /\ batch_mod_base' = AlignUp(RamTop - ModReserve + 1)
         /\ ~batch_mod_active /\ ~batch_args_reserved
<1> USE Sizes0
<1>1. ~batch_mod_active /\ ~batch_args_reserved
  BY DEF ModuleIn, IInv, Nested, BatchOnTop
<1>2. mem_top = RamTop
  BY <1>1 DEF IInv, Nested, BatchOnTop, UnderSecond, UnderArgs, UnderModule, ArgsLen, Nothing
<1>3. /\ mem_base <= mem_top - (ModReserve + more)
      /\ mem_top' = mem_top - (ModReserve + more) /\ args_top' = mem_top - (ModReserve + more)
      /\ batch_mod_active' = TRUE /\ batch_mod_reserve_size' = ModReserve
      /\ batch_mod_base' = AlignUp(mem_top - ModReserve + 1)
  BY DEF ModuleIn, himem_reserve, Fits
<1> QED
  BY <1>1, <1>2, <1>3

LEMMA MinusNothing == ASSUME NEW x \in Int PROVE x - 0 = x
OBVIOUS

\* What a batch file's beginning and its end leave behind.
BatchMoves ==
  /\ own = Nothing /\ ~redir_stack_reserved /\ (pc' = pc \/ pc' = "run_loop")
  /\ UNCHANGED <<mem_base, prog_size, runs_shell, relay, redirection, own>>
  /\ mem_top' \in Int /\ args_top' \in Int
  /\ batch_mod_active' \in BOOLEAN /\ batch_args_reserved' \in BOOLEAN
  /\ mem_top' = UnderArgs'
  /\ BatchOnTop'
  /\ Below'

LEMMA BatchIInv == IInv /\ BatchMoves => IInv'
<1> SUFFICES ASSUME IInv, BatchMoves PROVE IInv'
  OBVIOUS
<1>1. redir_stack_reserved' = FALSE /\ redir_in' = redir_in
  BY DEF BatchMoves, redirection
<1>2. MemoryTypes'
  BY <1>1 DEF BatchMoves, IInv, MemoryTypes
<1>3. Nested'
  <2>1. own' = Nothing /\ own'.len = 0
    BY DEF BatchMoves, Nothing
  <2>2. mem_top' \in Int /\ mem_top' = UnderArgs'
    BY DEF BatchMoves
  <2>3. UnderSecond' = UnderArgs' - 0
    BY <1>1, Zenon DEF UnderSecond
  <2>4. UnderArgs' - 0 = mem_top'
    BY <2>2, MinusNothing
  <2>5. mem_top' - 0 = mem_top'
    BY <2>2, MinusNothing
  <2>6. mem_top' = UnderSecond' - own'.len
    BY <2>1, <2>3, <2>4, <2>5, Zenon
  <2>7. BatchOnTop'
    BY DEF BatchMoves
  <2> QED
    BY <1>1, <2>1, <2>6, <2>7 DEF Nested
<1>4. ShellPlain'
  BY DEF BatchMoves, IInv, ShellPlain
<1>5. Below'
  BY DEF BatchMoves
<1> QED
  BY <1>2, <1>3, <1>4, <1>5 DEF IInv

\* Neither a start that is refused nor one that is undone moves mem_top.
LEMMA NotStartedMoves ==
  ASSUME IInv, NotStarted, own = Nothing, ~redir_stack_reserved,
         UNCHANGED <<mem_base, prog_size, runs_shell, relay, redirection, own>>,
         pc \in {"boot", "shell"}, pc' = pc \/ pc' = "run_loop"
  PROVE  IInv'
<1> USE Sizes0
<1>1. /\ mem_top' = mem_top /\ UNCHANGED batch
      /\ args_top' \in {args_top, mem_top - ModReserve}
  BY DEF NotStarted
<1>2. mem_top \in Int /\ args_top \in Int
  BY DEF IInv, MemoryTypes
<1>3. args_top' \in Int /\ (args_top <= mem_top => args_top' <= mem_top)
  BY <1>1, <1>2
<1>4. /\ redir_stack_reserved' = FALSE /\ redir_in' = redir_in
  BY DEF redirection
<1>5. MemoryTypes'
  BY <1>1, <1>3, <1>4 DEF IInv, MemoryTypes, batch
<1>6. Nested'
  BY <1>1, <1>4 DEF IInv, Nested, BatchOnTop, UnderSecond, UnderArgs, UnderModule, ArgsLen, batch
<1>7. Below'
  BY <1>1, <1>3 DEF IInv, Below, batch
<1>8. ShellPlain'
  BY DEF IInv, ShellPlain
<1> QED
  BY <1>5, <1>6, <1>7, <1>8 DEF IInv

\* The program in memory lies below what a batch file reserves, although before
\* the first program mem_base says nothing.
LEMMA ProgramBelow ==
  ASSUME IInv, pc \in {"boot", "shell"}, NEW top \in Int, mem_base <= top,
         mem_top = RamTop, NEW more \in Nat, top = RamTop - ModReserve - more,
         pc = "boot" => more = 0
  PROVE  PROG_BASE + prog_size <= top
<1> USE Sizes0
<1>1. mem_base \in Int /\ prog_size \in Nat
  BY DEF IInv, MemoryTypes
<1>2. CASE pc = "shell"
  <2>1. PROG_BASE + prog_size <= mem_base
    BY <1>2 DEF IInv, Below
  <2> QED
    BY <1>1, <2>1
<1>3. CASE pc = "boot"
  <2>1. prog_size = 0 /\ more = 0
    BY <1>3 DEF IInv, Below
  <2>2. PROG_BASE <= RamTop - ModReserve
    BY Machine
  <2> QED
    BY <1>1, <2>1, <2>2
<1> QED
  BY <1>2, <1>3

LEMMA ModuleAloneIInv ==
  ASSUME IInv, ModuleIn(0), own = Nothing, ~redir_stack_reserved,
         UNCHANGED <<mem_base, prog_size, runs_shell, relay, redirection, own,
                     batch_args_reserved, args_at>>,
         pc \in {"boot", "shell"}, pc' \in {"shell", "run_loop"}, pc' = "shell" => pc = "shell"
  PROVE  IInv'
<1> USE Sizes0
<1>1. /\ mem_top = RamTop
      /\ mem_top' = RamTop - ModReserve - 0 /\ args_top' = mem_top' /\ mem_base <= mem_top'
      /\ batch_mod_active' = TRUE /\ batch_mod_reserve_size' = ModReserve
      /\ batch_mod_base' = AlignUp(RamTop - ModReserve + 1)
      /\ ~batch_mod_active /\ ~batch_args_reserved
  BY ModuleInNested
<1>2. mem_top' = RamTop - ModReserve /\ mem_top' \in Int
  BY <1>1
<1>3. UnderModule' = RamTop - ModReserve
  BY <1>1 DEF UnderModule
<1>4. batch_args_reserved' = FALSE
  BY <1>1 DEF IInv, MemoryTypes
<1>5. UnderArgs' = mem_top'
  <2>1. UnderArgs' = UnderModule' - 0
    BY <1>4, Zenon DEF UnderArgs, ArgsLen
  <2>2. UnderModule' \in Int
    BY <1>3
  <2> QED
    BY <2>1, <2>2, <1>2, <1>3, MinusNothing
<1>6. BatchOnTop'
  BY <1>1, <1>3, <1>4 DEF BatchOnTop
<1>7. PROG_BASE + prog_size <= mem_top'
  BY <1>1, <1>2, ProgramBelow
<1>8. Below'
  <2>1. pc = "shell" => PROG_BASE + prog_size <= mem_base
    BY DEF IInv, Below
  <2>2. args_top' <= mem_top'
    BY <1>1, <1>2
  <2> QED
    BY <1>7, <2>1, <2>2 DEF Below
<1>9. BatchMoves
  BY <1>1, <1>2, <1>4, <1>5, <1>6, <1>8 DEF BatchMoves
<1> QED
  BY <1>9, BatchIInv

LEMMA BootIInv == IInv /\ Boot => IInv'
<1> SUFFICES ASSUME IInv, Boot PROVE IInv'
  OBVIOUS
<1>1. /\ pc = "boot" /\ pc' = "run_loop"
      /\ UNCHANGED <<mem_base, prog_size, runs_shell, relay, redirection, own>>
      /\ NotStarted \/ (ModuleIn(0) /\ UNCHANGED <<batch_args_reserved, args_at>>)
  BY DEF Boot
<1>2. own = Nothing /\ ~redir_stack_reserved
  BY <1>1 DEF IInv, Nested
<1>3. CASE NotStarted
  BY <1>1, <1>2, <1>3, NotStartedMoves
<1>4. CASE ModuleIn(0) /\ UNCHANGED <<batch_args_reserved, args_at>>
  BY <1>1, <1>2, <1>4, ModuleAloneIInv
<1> QED
  BY <1>1, <1>3, <1>4

LEMMA InShellFacts ==
  ASSUME IInv, InShell
  PROVE  /\ pc = "shell" /\ own = Nothing /\ ~redir_stack_reserved
         /\ UNCHANGED <<mem_base, prog_size, redirection, own>>
         /\ PROG_BASE + prog_size <= mem_base
BY DEF IInv, Nested, Below, InShell

\* The end of a batch file finds mem_top where its beginning left it.
LEMMA LastLineIInv == IInv /\ LastLine => IInv'
<1> SUFFICES ASSUME IInv, LastLine PROVE IInv'
  OBVIOUS
<1> USE Sizes0
<1>1. /\ pc = "shell" /\ own = Nothing /\ ~redir_stack_reserved
      /\ UNCHANGED <<mem_base, prog_size, redirection, own>>
      /\ PROG_BASE + prog_size <= mem_base
  BY InShellFacts DEF LastLine
<1>2. /\ batch_mod_active /\ UNCHANGED <<pc, runs_shell, relay, args_top>>
      /\ mem_top' = mem_top + (batch_mod_reserve_size + ArgsLen)
      /\ batch_mod_active' = FALSE /\ batch_args_reserved' = FALSE
  BY DEF LastLine, BatchEnds, himem_release
<1>3. /\ mem_top \in Int /\ args_top \in Int /\ args_top <= mem_top /\ ArgsLen \in Nat
      /\ PROG_BASE + prog_size <= mem_top /\ prog_size \in Nat
  BY <1>1 DEF IInv, MemoryTypes, Below, ArgsLen
<1>4. batch_mod_reserve_size = ModReserve
  BY <1>2 DEF IInv, Nested, BatchOnTop
<1>5. mem_top = RamTop - ModReserve - ArgsLen
  BY <1>1, <1>2, <1>3 DEF IInv, Nested, UnderSecond, UnderArgs, UnderModule, Nothing
<1>6. mem_top' = RamTop
  BY <1>2, <1>3, <1>4, <1>5
<1>7. UnderArgs' = mem_top'
  <2>1. UnderArgs' = (RamTop - 0) - 0
    BY <1>2, Zenon DEF UnderArgs, UnderModule, ArgsLen
  <2> QED
    BY <2>1, <1>6, MinusNothing
<1>8. BatchOnTop'
  BY <1>2 DEF BatchOnTop
<1>9. mem_top <= mem_top'
  BY <1>2, <1>3, <1>4
<1>10. Below'
  <2>1. PROG_BASE + prog_size <= mem_top' /\ args_top <= mem_top'
    BY <1>3, <1>6, <1>9
  <2> QED
    BY <1>1, <1>2, <2>1 DEF Below
<1>11. BatchMoves
  BY <1>1, <1>2, <1>3, <1>6, <1>7, <1>8, <1>10 DEF BatchMoves
<1> QED
  BY <1>11, BatchIInv

LEMMA StartBatchIInv == IInv /\ StartBatch => IInv'
<1> SUFFICES ASSUME IInv, StartBatch PROVE IInv'
  OBVIOUS
<1> USE Sizes0
<1>1. /\ pc = "shell" /\ own = Nothing /\ ~redir_stack_reserved
      /\ UNCHANGED <<mem_base, prog_size, redirection, own>>
      /\ PROG_BASE + prog_size <= mem_base
  BY InShellFacts DEF StartBatch
<1>2. UNCHANGED <<pc, runs_shell, relay>>
  BY DEF StartBatch
<1>3. CASE NotStarted
  BY <1>1, <1>2, <1>3, NotStartedMoves
<1>4. CASE ModuleIn(0) /\ UNCHANGED <<batch_args_reserved, args_at>>
  BY <1>1, <1>2, <1>4, ModuleAloneIInv
<1>5. CASE /\ ModuleIn(BATCH_ARGS_RESERVE_LEN)
           /\ batch_args_reserved' = TRUE
           /\ args_at' = mem_top - ModReserve - BATCH_ARGS_RESERVE_LEN + 1
  <2>1. /\ mem_top = RamTop
        /\ mem_top' = RamTop - ModReserve - BATCH_ARGS_RESERVE_LEN
        /\ args_top' = mem_top' /\ mem_base <= mem_top'
        /\ batch_mod_active' = TRUE /\ batch_mod_reserve_size' = ModReserve
        /\ batch_mod_base' = AlignUp(RamTop - ModReserve + 1)
    BY <1>1, <1>5, ModuleInNested
  <2>2. mem_top' \in Int
    BY <2>1
  <2>3. UnderModule' = RamTop - ModReserve
    BY <2>1 DEF UnderModule
  <2>4. ArgsLen' = BATCH_ARGS_RESERVE_LEN
    BY <1>5 DEF ArgsLen
  <2>5. UnderArgs' = mem_top'
    BY <2>1, <2>3, <2>4 DEF UnderArgs
  <2>6. args_at' = UnderArgs' + 1
    BY <1>5, <2>1, <2>5
  <2>7. BatchOnTop'
    BY <2>1, <2>3, <2>6 DEF BatchOnTop
  <2>8. PROG_BASE + prog_size <= mem_top'
    BY <1>1, <2>1, <2>2, ProgramBelow
  <2>9. Below'
    <3>1. args_top' <= mem_top'
      BY <2>1, <2>2
    <3> QED
      BY <1>1, <1>2, <2>8, <3>1 DEF Below
  <2>10. BatchMoves
    BY <1>1, <1>2, <1>5, <2>1, <2>2, <2>5, <2>7, <2>9 DEF BatchMoves
  <2> QED
    BY <2>10, BatchIInv
<1> QED
  BY <1>3, <1>4, <1>5 DEF StartBatch

LEMMA ShellReturnsIInv == IInv /\ ShellReturns => IInv'
<1> SUFFICES ASSUME IInv, ShellReturns PROVE IInv'
  OBVIOUS
<1>1. /\ pc = "shell" /\ own = Nothing /\ ~redir_stack_reserved
      /\ UNCHANGED <<mem_base, prog_size, redirection, own>>
  BY InShellFacts DEF ShellReturns
<1>2. /\ pc' = "prog_run" /\ runs_shell' = FALSE /\ UNCHANGED <<mem_top, args_top, batch>>
      /\ relay' \in [out : {NoRedir, NUL} \cup Files, append : BOOLEAN,
                     in : {NoRedir, NUL} \cup Files]
  BY DEF ShellReturns
<1>3. MemoryTypes'
  BY <1>1, <1>2 DEF IInv, MemoryTypes, batch, redirection
<1>4. Nested'
  BY <1>1, <1>2 DEF IInv, Nested, BatchOnTop, UnderSecond, UnderArgs, UnderModule, ArgsLen,
                    batch, redirection
<1>5. Below'
  BY <1>1, <1>2 DEF IInv, Below
<1>6. ShellPlain'
  BY <1>2 DEF ShellPlain
<1> QED
  BY <1>3, <1>4, <1>5, <1>6 DEF IInv

---------------------------------------------------------------------------
(* The program *)

InChildUnchanged ==
  UNCHANGED <<mem_base, prog_size, runs_shell, relay, batch, redir_in, redir_stack_reserved>>

LEMMA ChildSame ==
  ASSUME IInv, pc = "child", InChildUnchanged, UNCHANGED <<mem_top, args_top, own>>,
         pc' = "child" \/ (pc' = "returned" /\ own = Nothing)
  PROVE  IInv'
<1>1. MemoryTypes'
  BY DEF IInv, MemoryTypes, InChildUnchanged, batch
<1>2. Nested'
  BY DEF IInv, Nested, BatchOnTop, UnderSecond, UnderArgs, UnderModule, ArgsLen,
         InChildUnchanged, batch
<1>3. Below'
  BY DEF IInv, Below, InChildUnchanged
<1>4. ShellPlain'
  BY DEF ShellPlain
<1> QED
  BY <1>1, <1>2, <1>3, <1>4 DEF IInv

LEMMA ReserveIInv ==
  ASSUME IInv, NEW n \in Requests, Reserve(n)
  PROVE  IInv'
<1> USE Sizes0
<1>1. /\ pc = "child" /\ pc' = pc /\ InChildUnchanged /\ own = Nothing
      /\ mem_base <= mem_top - n /\ mem_top' = mem_top - n /\ args_top' = mem_top - n
      /\ own' = [at |-> mem_top - n + 1, len |-> n]
  BY DEF Reserve, InChild, InChildUnchanged, himem_reserve, Fits
<1>2. n \in Nat \ {0} /\ mem_top \in Int
  BY Layout DEF IInv, MemoryTypes
<1>3. /\ mem_top' \in Int /\ args_top' = mem_top' /\ own'.len = n /\ own'.at = mem_top' + 1
      /\ own' \in [at : Int, len : Nat]
  BY <1>1, <1>2
<1>4. MemoryTypes'
  BY <1>1, <1>3 DEF IInv, MemoryTypes, InChildUnchanged, batch
<1>5. Nested'
  <2>1. UNCHANGED <<batch_mod_active, batch_mod_base, batch_mod_reserve_size, args_at,
                    batch_args_reserved, redir_in, redir_stack_reserved>>
    BY <1>1 DEF InChildUnchanged, batch
  <2>2. UnderSecond' = UnderSecond /\ UnderSecond \in Int /\ BatchOnTop'
    BY <2>1 DEF IInv, Nested, BatchOnTop, UnderSecond, UnderArgs, UnderModule, ArgsLen
  <2>3. mem_top = UnderSecond
    BY <1>1, <2>2, MinusNothing DEF IInv, Nested, Nothing
  <2>4. mem_top' = UnderSecond' - own'.len
    BY <1>1, <1>3, <2>2, <2>3
  <2>5. redir_stack_reserved' => redir_in'.handle = UnderSecond' + 1
    BY <2>1, <2>2 DEF IInv, Nested
  <2> QED
    BY <1>1, <1>3, <2>2, <2>4, <2>5 DEF Nested
<1>6. Below'
  <2>1. PROG_BASE + prog_size <= mem_base /\ prog_size \in Nat /\ mem_base \in Int
    BY <1>1 DEF IInv, MemoryTypes, Below
  <2>2. PROG_BASE + prog_size <= mem_top' /\ args_top' <= mem_top'
    BY <1>1, <1>2, <1>3, <2>1
  <2> QED
    BY <1>1, <2>1, <2>2 DEF Below, InChildUnchanged
<1>7. ShellPlain'
  BY <1>1 DEF ShellPlain
<1> QED
  BY <1>4, <1>5, <1>6, <1>7 DEF IInv

LEMMA ReleaseIInv == IInv /\ Release => IInv'
<1> SUFFICES ASSUME IInv, Release PROVE IInv'
  OBVIOUS
<1> USE Sizes0
<1>1. /\ pc = "child" /\ pc' = pc /\ InChildUnchanged /\ own' = Nothing
      /\ mem_top' = mem_top + own.len /\ args_top' = args_top
  BY DEF Release, InChild, InChildUnchanged, himem_release
<1>2. mem_top \in Int /\ own.len \in Nat /\ args_top \in Int /\ args_top <= mem_top
  BY <1>1 DEF IInv, MemoryTypes, Below
<1>3. mem_top' \in Int /\ mem_top <= mem_top'
  BY <1>1, <1>2
<1>4. MemoryTypes'
  <2>1. own' \in [at : Int, len : Nat]
    BY <1>1 DEF Nothing
  <2> QED
    BY <1>1, <1>3, <2>1 DEF IInv, MemoryTypes, InChildUnchanged, batch
<1>5. Nested'
  <2>1. UNCHANGED <<batch_mod_active, batch_mod_base, batch_mod_reserve_size, args_at,
                    batch_args_reserved, redir_in, redir_stack_reserved>>
    BY <1>1 DEF InChildUnchanged, batch
  <2>2. UnderSecond' = UnderSecond /\ UnderSecond \in Int /\ BatchOnTop'
    BY <2>1 DEF IInv, Nested, BatchOnTop, UnderSecond, UnderArgs, UnderModule, ArgsLen
  <2>3. mem_top' = UnderSecond
    BY <1>1, <1>2, <2>2 DEF IInv, Nested
  <2>4. mem_top' = UnderSecond' - own'.len
    BY <1>1, <2>2, <2>3, MinusNothing DEF Nothing
  <2>5. redir_stack_reserved' => redir_in'.handle = UnderSecond' + 1
    BY <2>1, <2>2 DEF IInv, Nested
  <2> QED
    BY <1>1, <2>2, <2>4, <2>5 DEF Nested
<1>6. Below'
  <2>1. /\ PROG_BASE + prog_size <= mem_base /\ prog_size \in Nat
        /\ PROG_BASE + prog_size <= mem_top
    BY <1>1 DEF IInv, MemoryTypes, Below
  <2>2. PROG_BASE + prog_size <= mem_top' /\ args_top' <= mem_top'
    BY <1>1, <1>2, <1>3, <2>1
  <2> QED
    BY <1>1, <2>1, <2>2 DEF Below, InChildUnchanged
<1>7. ShellPlain'
  BY <1>1 DEF ShellPlain
<1> QED
  BY <1>4, <1>5, <1>6, <1>7 DEF IInv

LEMMA ChildIInv == IInv /\ Child => IInv'
<1> SUFFICES ASSUME IInv, Child PROVE IInv'
  OBVIOUS
<1>1. ASSUME InChild, UNCHANGED <<mem_top, args_top, own>>,
             pc' = pc \/ (pc' = "returned" /\ own = Nothing)
      PROVE  IInv'
  <2>1. pc = "child" /\ InChildUnchanged
    BY <1>1 DEF InChild, InChildUnchanged
  <2> QED
    BY <1>1, <2>1, ChildSame
<1>2. ASSUME NEW c \in Chars, TypeOnScreen(c) \/ TypeToFile(c) PROVE IInv'
  BY <1>1, <1>2 DEF TypeOnScreen, TypeToFile
<1>3. CASE TypeNowhere \/ ReadFile \/ ReadElsewhere
  BY <1>1, <1>3 DEF TypeNowhere, ReadFile, ReadElsewhere
<1>4. ASSUME NEW n \in Requests, Reserve(n) PROVE IInv'
  BY <1>4, ReserveIInv
<1>5. CASE Release
  BY <1>5, ReleaseIInv
<1>6. CASE Return
  BY <1>1, <1>6 DEF Return
<1> QED
  BY <1>2, <1>3, <1>4, <1>5, <1>6 DEF Child

LEMMA NextIInv == IInv /\ [Next]_vars => IInv'
<1> SUFFICES ASSUME IInv, [Next]_vars PROVE IInv'
  OBVIOUS
<1>1. CASE Boot \/ RunLoop \/ ProgRun \/ Teardown
  BY <1>1, BootIInv, RunLoopIInv, ProgRunIInv, TeardownIInv
<1>2. CASE Redirect
  BY <1>2, RedirectIInv, OpenSecondIInv, OpenSecondFailsIInv DEF Redirect
<1>3. CASE Shell
  BY <1>3, LastLineIInv, StartBatchIInv, ShellReturnsIInv DEF Shell
<1>4. CASE Child
  BY <1>4, ChildIInv
<1>5. CASE UNCHANGED vars
  <2>1. UNCHANGED <<pc, mem_top, mem_base, prog_size, args_top, runs_shell, relay,
                    batch_mod_active, batch_mod_base, batch_mod_reserve_size,
                    batch_args_reserved, args_at, redir_in, redir_stack_reserved, own>>
    BY <1>5 DEF vars, memory, batch, redirection
  <2> QED
    BY <2>1 DEF IInv, MemoryTypes, Nested, BatchOnTop, Below, ShellPlain,
                UnderSecond, UnderArgs, UnderModule, ArgsLen
<1>6. Halt => UNCHANGED vars
  BY DEF Halt
<1> QED
  BY <1>1, <1>2, <1>3, <1>4, <1>5, <1>6 DEF Next, Kernel

---------------------------------------------------------------------------
(* What the invariant says of the addresses in use *)

\* From the top of memory down: module, arguments, second block, the program's
\* own reservation, and the program below mem_top.
LEMMA Levels ==
  ASSUME IInv
  PROVE  /\ mem_top \in Int /\ UnderSecond \in Int /\ UnderArgs \in Int /\ UnderModule \in Int
         /\ mem_top <= UnderSecond /\ UnderSecond <= UnderArgs /\ UnderArgs <= UnderModule
         /\ UnderModule <= RamTop
         /\ mem_top = UnderSecond - own.len
<1> USE Sizes0
<1>1. mem_top \in Int /\ own.len \in Nat /\ mem_top = UnderSecond - own.len
  BY DEF IInv, MemoryTypes, Nested
<1>2. UnderModule \in Int /\ UnderModule <= RamTop
  BY DEF UnderModule
<1>3. UnderArgs \in Int /\ UnderArgs <= UnderModule
  BY <1>2 DEF UnderArgs, ArgsLen
<1>4. UnderSecond \in Int /\ UnderSecond <= UnderArgs
  BY <1>3 DEF UnderSecond
<1> QED
  BY <1>1, <1>2, <1>3, <1>4

LEMMA HeldFields ==
  /\ DOMAIN Held = {"program", "module", "args", "second", "own"}
  /\ Held["program"] = Span(PROG_BASE, prog_size)
  /\ Held["module"] = IF batch_mod_active THEN Span(batch_mod_base, ModSize) ELSE {}
  /\ Held["args"] = IF batch_args_reserved THEN Span(args_at, BATCH_ARGS_RESERVE_LEN) ELSE {}
  /\ Held["second"] = IF redir_stack_reserved THEN Span(redir_in.handle, REDIR_RESERVE_LEN) ELSE {}
  /\ Held["own"] = Span(own.at, own.len)
BY DEF Held

LEMMA HeldWhere ==
  ASSUME IInv
  PROVE  /\ Held["program"] \subseteq PROG_BASE .. mem_top
         /\ Held["own"] \subseteq mem_top + 1 .. UnderSecond
         /\ Held["second"] \subseteq UnderSecond + 1 .. UnderArgs
         /\ Held["args"] \subseteq UnderArgs + 1 .. UnderModule
         /\ Held["module"] \subseteq UnderModule + 1 .. RamTop
<1> USE Sizes0, Levels
<1>1. Held["program"] \subseteq PROG_BASE .. mem_top
  <2>1. prog_size \in Nat /\ PROG_BASE + prog_size <= mem_top
    BY DEF IInv, MemoryTypes, Below
  <2> QED
    BY <2>1, HeldFields DEF Span
<1>2. Held["own"] \subseteq mem_top + 1 .. UnderSecond
  <2>1. CASE own = Nothing
    BY <2>1, HeldFields DEF Span, Nothing
  <2>2. CASE own # Nothing
    <3>1. own.at = mem_top + 1 /\ own.len \in Nat
      BY <2>2 DEF IInv, MemoryTypes, Nested
    <3> QED
      BY <3>1, HeldFields DEF Span
  <2> QED
    BY <2>1, <2>2
<1>3. Held["second"] \subseteq UnderSecond + 1 .. UnderArgs
  <2>1. CASE ~redir_stack_reserved
    BY <2>1, HeldFields
  <2>2. CASE redir_stack_reserved
    <3>1. redir_in.handle = UnderSecond + 1 /\ UnderSecond = UnderArgs - REDIR_RESERVE_LEN
      BY <2>2 DEF IInv, Nested, UnderSecond
    <3> QED
      BY <2>2, <3>1, HeldFields DEF Span
  <2> QED
    BY <2>1, <2>2
<1>4. Held["args"] \subseteq UnderArgs + 1 .. UnderModule
  <2>1. CASE ~batch_args_reserved
    BY <2>1, HeldFields
  <2>2. CASE batch_args_reserved
    <3>1. args_at = UnderArgs + 1 /\ UnderArgs = UnderModule - BATCH_ARGS_RESERVE_LEN
      BY <2>2 DEF IInv, Nested, BatchOnTop, UnderArgs, ArgsLen
    <3> QED
      BY <2>2, <3>1, HeldFields DEF Span
  <2> QED
    BY <2>1, <2>2
<1>5. Held["module"] \subseteq UnderModule + 1 .. RamTop
  <2>1. CASE ~batch_mod_active
    BY <2>1, HeldFields
  <2>2. CASE batch_mod_active
    <3>1. batch_mod_base = AlignUp(UnderModule + 1) /\ UnderModule = RamTop - ModReserve
      BY <2>2 DEF IInv, Nested, BatchOnTop, UnderModule
    <3>2. batch_mod_base \in UnderModule + 1 .. UnderModule + 1 + MOD_RESERVE_PAD
      BY <3>1, AlignUpRange
    <3> QED
      BY <2>2, <3>1, <3>2, HeldFields DEF Span
  <2> QED
    BY <2>1, <2>2
<1> QED
  BY <1>1, <1>2, <1>3, <1>4, <1>5

LEMMA IInvSafe == IInv => HimemSafe
<1> SUFFICES ASSUME IInv PROVE HimemSafe
  OBVIOUS
<1> USE Sizes0
<1>1. mem_top = RamTop - Taken
  <2>1. own.len \in Nat /\ mem_top = UnderSecond - own.len
    BY DEF IInv, MemoryTypes, Nested
  <2> QED
    BY <2>1 DEF UnderSecond, UnderArgs, UnderModule, ArgsLen, Taken
<1>2. \A a, b \in DOMAIN Held : a # b => Held[a] \cap Held[b] = {}
  <2>1. /\ \A x \in Held["program"] : x \in Int /\ x <= mem_top
        /\ \A x \in Held["own"] : x \in Int /\ mem_top < x /\ x <= UnderSecond
        /\ \A x \in Held["second"] : x \in Int /\ UnderSecond < x /\ x <= UnderArgs
        /\ \A x \in Held["args"] : x \in Int /\ UnderArgs < x /\ x <= UnderModule
        /\ \A x \in Held["module"] : x \in Int /\ UnderModule < x
    BY HeldWhere, Levels
  <2> SUFFICES ASSUME NEW a \in DOMAIN Held, NEW b \in DOMAIN Held, a # b,
                      NEW x, x \in Held[a], x \in Held[b]
               PROVE  FALSE
    OBVIOUS
  <2>2. a \in {"program", "module", "args", "second", "own"}
        /\ b \in {"program", "module", "args", "second", "own"}
    BY HeldFields
  <2>3. CASE a = "program"
    BY <2>1, <2>2, <2>3, Levels
  <2>4. CASE a = "own"
    BY <2>1, <2>2, <2>4, Levels
  <2>5. CASE a = "second"
    BY <2>1, <2>2, <2>5, Levels
  <2>6. CASE a = "args"
    BY <2>1, <2>2, <2>6, Levels
  <2>7. CASE a = "module"
    BY <2>1, <2>2, <2>7, Levels
  <2> QED
    BY <2>2, <2>3, <2>4, <2>5, <2>6, <2>7
<1>3. Held.program \subseteq PROG_BASE .. mem_top
  BY HeldWhere
<1>4. \A a \in DOMAIN Held \ {"program"} : Held[a] \subseteq mem_top + 1 .. RamTop
  <2>1. /\ mem_top + 1 .. UnderSecond \subseteq mem_top + 1 .. RamTop
        /\ UnderSecond + 1 .. UnderArgs \subseteq mem_top + 1 .. RamTop
        /\ UnderArgs + 1 .. UnderModule \subseteq mem_top + 1 .. RamTop
        /\ UnderModule + 1 .. RamTop \subseteq mem_top + 1 .. RamTop
    BY Levels
  <2> QED
    BY <2>1, HeldFields, HeldWhere
<1>5. pc \in {"shell", "child"} => args_top <= mem_top
  BY DEF IInv, Below
<1>6. pc = "shell" /\ batch_args_reserved => args_at = mem_top + 1
  <2> SUFFICES ASSUME pc = "shell", batch_args_reserved PROVE args_at = mem_top + 1
    OBVIOUS
  <2>1. own.len = 0 /\ ~redir_stack_reserved /\ args_at = UnderArgs + 1
    BY DEF IInv, Nested, BatchOnTop, Nothing
  <2>2. UnderSecond = UnderArgs /\ mem_top = UnderSecond
    BY <2>1, Levels, MinusNothing DEF UnderSecond
  <2> QED
    BY <2>1, <2>2
<1> QED
  BY <1>1, <1>2, <1>3, <1>4, <1>5, <1>6 DEF HimemSafe

\* Whatever lines, batch files and failures there are and however large memory,
\* module, shell and programs: what is reserved at the top of memory never meets
\* the program or another reservation, and is given back in full (redir.asm's
\* _himem_reserve and _himem_release as loader, redir, batch and modload use them).
THEOREM HimemAlways == Spec => []HimemSafe
<1>1. Init => IInv
  BY InitIInv
<1>2. IInv /\ [Next]_vars => IInv'
  BY NextIInv
<1> QED
  BY <1>1, <1>2, IInvSafe, PTL DEF Spec

---------------------------------------------------------------------------
(* Where console calls lead.  _redir_setup goes from plain slots, closed     *)
(* directions and no open file to what the line asks for, output first;      *)
(* _redir_teardown goes back from wherever it got to.                        *)

Direction == [active : BOOLEAN, null : BOOLEAN, handle : Int]

DeviceTypes ==
  /\ redir_out \in Direction /\ redir_in \in Direction
  /\ \A h \in DOMAIN fcbs : fcbs[h] \in [file : Files, pos : Nat]
  /\ redir_obuf \in Seq(Chars) /\ Len(redir_obuf) < REDIR_OBUF_LEN
  /\ disk \in [Files -> Seq(Chars)] /\ screen \in Seq(Chars)
  /\ {batch_mod_base, batch_mod_reserve_size, args_at} \subseteq Int

PlainOut == ~redir_out.active /\ ~redir_out.null /\ K_TYPE = "console"
PlainIn == /\ ~redir_in.active /\ ~redir_in.null
           /\ K_READ = "console" /\ K_NBREAD = "console"

OutAsAsked ==
  /\ redir_out.active <=> relay.out # NoRedir
  /\ redir_out.null <=> relay.out = NUL
  /\ K_TYPE = Leads(relay.out, "discard")
  /\ relay.out \in Files => /\ redir_out.handle = prog_fcb
                            /\ prog_fcb \in DOMAIN fcbs
                            /\ fcbs[prog_fcb].file = relay.out
InAsAsked ==
  /\ redir_in.active <=> relay.in # NoRedir
  /\ redir_in.null <=> relay.in = NUL
  /\ K_READ = Leads(relay.in, "eof") /\ K_NBREAD = K_READ
  /\ relay.in \in Files => /\ redir_in.handle \in DOMAIN fcbs
                           /\ fcbs[redir_in.handle].file = relay.in
                           /\ relay.out \in Files => redir_in.handle # prog_fcb

\* The file control blocks that are open on what the line asks for.
OutFcb == IF relay.out \in Files THEN {prog_fcb} ELSE {}
InFcb == IF relay.in \in Files THEN {redir_in.handle} ELSE {}

Routed ==
  /\ pc \in {"boot", "run_loop", "prog_run", "redir_out", "shell"} =>
       PlainOut /\ PlainIn /\ DOMAIN fcbs = {}
  /\ pc = "redir_in" => OutAsAsked /\ PlainIn /\ DOMAIN fcbs = OutFcb
  /\ pc \in {"child", "returned"} =>
       OutAsAsked /\ InAsAsked /\ DOMAIN fcbs = OutFcb \cup InFcb
  /\ pc = "failed" => ~OutOpen /\ ~redir_in.active /\ DOMAIN fcbs = {}

\* Nothing is typed, read or buffered between lines, nor in a line that has no
\* output file; a line's input is not its output.
Quiet ==
  /\ ~Running => redir_obuf = <<>> /\ screen = <<>> /\ got = "console"
  /\ ~OutOpen => redir_obuf = <<>>
  /\ relay.out \in Files => relay.in # relay.out
  /\ pc \in {"boot", "run_loop", "prog_run", "redir_out", "redir_in", "failed", "shell",
             "child", "returned"}

RInv == DeviceTypes /\ Routed /\ Quiet

LEMMA LeadsWhere ==
  /\ \A d : Leads(NoRedir, d) = "console"
  /\ \A d : Leads(NUL, d) = d
  /\ \A f \in Files : \A d : Leads(f, d) = "file"
BY Devices DEF Leads

LEMMA InitRInv == Init => RInv
<1> SUFFICES ASSUME Init PROVE RInv
  OBVIOUS
<1>1. DeviceTypes
  <2>1. <<>> \in Seq(Chars) /\ Len(<<>>) < REDIR_OBUF_LEN
    BY Layout
  <2>2. redir_out \in Direction /\ redir_in \in Direction
    BY DEF Init, Closed, Direction
  <2>3. DOMAIN fcbs = {}
    BY DEF Init
  <2>4. {batch_mod_base, batch_mod_reserve_size, args_at} \subseteq Int
    BY DEF Init
  <2>5. disk \in [Files -> Seq(Chars)] /\ screen \in Seq(Chars)
    BY <2>1 DEF Init
  <2> QED
    BY <2>1, <2>2, <2>3, <2>4, <2>5 DEF DeviceTypes, Init
<1>2. Routed
  BY DEF Init, Routed, PlainOut, PlainIn, Closed
<1>3. Quiet
  BY Devices DEF Init, Quiet
<1> QED
  BY <1>1, <1>2, <1>3 DEF RInv

\* While nothing is open and nothing redirected, a step that touches neither
\* keeps it so.
LEMMA PlainRInv ==
  ASSUME RInv, pc \in {"boot", "run_loop", "prog_run", "redir_out", "shell"},
         pc' \in {"run_loop", "prog_run", "redir_out", "failed", "shell"},
         UNCHANGED <<redirection, slots, fcbs, disk, screen, got>>,
         {batch_mod_base', batch_mod_reserve_size', args_at'} \subseteq Int,
         relay'.out \in Files => relay'.in # relay'.out
  PROVE  RInv'
<1>1. DeviceTypes'
  BY DEF RInv, DeviceTypes, redirection
<1>2. PlainOut /\ PlainIn /\ DOMAIN fcbs = {}
  BY DEF RInv, Routed
<1>3. PlainOut' /\ PlainIn' /\ DOMAIN fcbs' = {} /\ ~OutOpen'
  BY <1>2 DEF PlainOut, PlainIn, redirection, slots, OutOpen
<1>4. Routed'
  BY <1>3 DEF Routed, PlainIn
<1>5. Quiet'
  BY DEF RInv, Quiet, Running, redirection
<1> QED
  BY <1>1, <1>4, <1>5 DEF RInv

LEMMA BatchInts ==
  ASSUME RInv, mem_top \in Int,
         UNCHANGED <<batch_mod_base, batch_mod_reserve_size, args_at>> \/
         \E more : ModuleIn(more) /\
            (UNCHANGED args_at \/ args_at' = mem_top - ModReserve - BATCH_ARGS_RESERVE_LEN + 1)
  PROVE  {batch_mod_base', batch_mod_reserve_size', args_at'} \subseteq Int
<1>1. {batch_mod_base, batch_mod_reserve_size, args_at} \subseteq Int
  BY DEF RInv, DeviceTypes
<1>2. ASSUME NEW more, ModuleIn(more) PROVE {batch_mod_base', batch_mod_reserve_size'} \subseteq Int
  <2>1. mem_top - ModReserve + 1 \in Int /\ ModReserve \in Int
    BY Sizes0
  <2>2. AlignUp(mem_top - ModReserve + 1) \in Int
    BY <2>1, AlignUpRange, Sizes0
  <2> QED
    BY <1>2, <2>1, <2>2 DEF ModuleIn
<1> QED
  BY <1>1, <1>2, Sizes0

LEMMA PlainStepsRInv ==
  ASSUME IInv, RInv,
         Boot \/ RunLoop \/ ProgRun \/ LastLine \/ StartBatch \/ ShellReturns
  PROVE  RInv'
<1> USE DEF io
<1>1. mem_top \in Int
  BY DEF IInv, MemoryTypes
<1>2. CASE Boot
  <2>1. {batch_mod_base', batch_mod_reserve_size', args_at'} \subseteq Int
    BY <1>1, <1>2, BatchInts DEF Boot, NotStarted, batch
  <2> QED
    BY <1>2, <2>1, PlainRInv DEF Boot, RInv, Quiet
<1>3. CASE RunLoop
  <2>1. {batch_mod_base', batch_mod_reserve_size', args_at'} \subseteq Int
    BY <1>1, <1>3, BatchInts DEF RunLoop, batch
  <2>2. relay'.out = NoRedir
    BY <1>3 DEF RunLoop, ClearedRelay, IInv, MemoryTypes
  <2>3. pc = "run_loop" /\ pc' \in {"shell", "prog_run"} /\ UNCHANGED <<redirection, slots, fcbs, disk, screen, got>>
    BY <1>3 DEF RunLoop
  <2>4. NoRedir \notin Files
    BY Devices
  <2> QED
    BY <2>1, <2>2, <2>3, <2>4, PlainRInv
<1>4. CASE ProgRun
  <2>1. {batch_mod_base', batch_mod_reserve_size', args_at'} \subseteq Int
    BY <1>1, <1>4, BatchInts DEF ProgRun, batch
  <2> QED
    BY <1>4, <2>1, PlainRInv DEF ProgRun, RInv, Quiet
<1>5. CASE LastLine
  <2>1. {batch_mod_base', batch_mod_reserve_size', args_at'} \subseteq Int
    BY <1>1, <1>5, BatchInts DEF LastLine, BatchEnds
  <2> QED
    BY <1>5, <2>1, PlainRInv DEF LastLine, InShell, RInv, Quiet
<1>6. CASE StartBatch
  <2>1. {batch_mod_base', batch_mod_reserve_size', args_at'} \subseteq Int
    BY <1>1, <1>6, BatchInts DEF StartBatch, NotStarted, batch
  <2> QED
    BY <1>6, <2>1, PlainRInv DEF StartBatch, InShell, RInv, Quiet
<1>7. CASE ShellReturns
  <2>1. {batch_mod_base', batch_mod_reserve_size', args_at'} \subseteq Int
    BY <1>1, <1>7, BatchInts DEF ShellReturns, batch
  <2>2. relay'.out \in Files => relay'.in # relay'.out
    BY <1>7 DEF ShellReturns
  <2> QED
    BY <1>7, <2>1, <2>2, PlainRInv DEF ShellReturns, InShell
<1> QED
  BY <1>2, <1>3, <1>4, <1>5, <1>6, <1>7

LEMMA OpenGives ==
  ASSUME NEW h, NEW f, Open(h, f)
  PROVE  /\ DOMAIN fcbs' = DOMAIN fcbs \cup {h}
         /\ fcbs'[h] = [file |-> f, pos |-> 0]
         /\ fcbs'[h].file = f /\ fcbs'[h].pos = 0
         /\ \A a \in DOMAIN fcbs : a # h => fcbs'[a] = fcbs[a]
<1>1. /\ DOMAIN fcbs' = DOMAIN fcbs \cup {h}
      /\ fcbs'[h] = [file |-> f, pos |-> 0]
      /\ \A a \in DOMAIN fcbs : a # h => fcbs'[a] = fcbs[a]
  BY DEF Open
<1>2. [file |-> f, pos |-> 0].file = f /\ [file |-> f, pos |-> 0].pos = 0
  OBVIOUS
<1> QED
  BY <1>1, <1>2

LEMMA OpenTypes ==
  ASSUME RInv, NEW h, NEW f \in Files, Open(h, f)
  PROVE  \A a \in DOMAIN fcbs' : fcbs'[a] \in [file : Files, pos : Nat]
<1>1. [file |-> f, pos |-> 0] \in [file : Files, pos : Nat]
  OBVIOUS
<1>2. /\ DOMAIN fcbs' = DOMAIN fcbs \cup {h} /\ fcbs'[h] = [file |-> f, pos |-> 0]
      /\ \A a \in DOMAIN fcbs : a # h => fcbs'[a] = fcbs[a]
  BY OpenGives
<1>3. \A a \in DOMAIN fcbs : fcbs[a] \in [file : Files, pos : Nat]
  BY DEF RInv, DeviceTypes
<1>4. fcbs'[h] \in [file : Files, pos : Nat]
  BY <1>1, <1>2
<1> QED
  BY <1>2, <1>3, <1>4

LEMMA OutStepsRInv ==
  ASSUME IInv, RInv, OpenOut \/ OutToNul \/ NoOut
  PROVE  RInv'
<1> USE DEF io
<1>1. /\ pc = "redir_out"
      /\ UNCHANGED <<relay, redir_in, redir_obuf, K_READ, K_NBREAD, screen, got>>
      /\ UNCHANGED <<batch_mod_base, batch_mod_reserve_size, args_at>>
  BY DEF OpenOut, OutToNul, NoOut, redirection, slots, batch
<1>2. PlainOut /\ PlainIn /\ DOMAIN fcbs = {}
  BY <1>1 DEF RInv, Routed
<1>3. PlainIn'
  BY <1>1, <1>2 DEF PlainIn
<1>4. redir_out \in Direction
  BY DEF RInv, DeviceTypes
<1>5. ~Running /\ redir_obuf = <<>> /\ screen = <<>> /\ got = "console"
  BY <1>1 DEF RInv, Quiet, Running
<1>6. ASSUME pc' \in {"redir_in", "failed"} PROVE Quiet'
  BY <1>1, <1>5, <1>6 DEF RInv, Quiet, Running
<1>7. CASE OpenOut
  <2>1. relay.out \in Files /\ relay.out # NoRedir /\ relay.out # NUL
    BY <1>7, Devices DEF OpenOut
  <2>2. CASE pc' = "failed" /\ UNCHANGED <<disk, fcbs, redir_out, K_TYPE>>
    <3>1. DeviceTypes'
      BY <1>1, <2>2 DEF RInv, DeviceTypes
    <3>2. Routed'
      BY <1>2, <1>3, <2>2 DEF Routed, PlainOut, PlainIn, OutOpen
    <3> QED
      BY <1>6, <2>2, <3>1, <3>2 DEF RInv
  <2>3. CASE /\ pc' = "redir_in"
             /\ disk' = IF relay.append THEN disk ELSE [disk EXCEPT ![relay.out] = <<>>]
             /\ Open(prog_fcb, relay.out)
             /\ redir_out' = [redir_out EXCEPT !.active = TRUE, !.handle = prog_fcb]
             /\ K_TYPE' = "file"
    <3>1. disk' \in [Files -> Seq(Chars)]
      <4>1. disk \in [Files -> Seq(Chars)] /\ <<>> \in Seq(Chars)
        BY DEF RInv, DeviceTypes
      <4> QED
        BY <2>1, <2>3, <4>1
    <3>2. /\ redir_out' \in Direction /\ redir_out'.active = TRUE
          /\ redir_out'.null = redir_out.null /\ redir_out'.handle = prog_fcb
      BY <1>4, <2>3, Sizes0 DEF Direction
    <3>3. \A a \in DOMAIN fcbs' : fcbs'[a] \in [file : Files, pos : Nat]
      BY <2>1, <2>3, OpenTypes
    <3>4. DeviceTypes'
      BY <1>1, <3>1, <3>2, <3>3 DEF RInv, DeviceTypes
    <3>5. DOMAIN fcbs' = {prog_fcb} /\ fcbs'[prog_fcb].file = relay.out
      BY <1>2, <2>3, OpenGives
    <3>6. OutAsAsked'
      BY <1>1, <1>2, <2>1, <2>3, <3>2, <3>5, LeadsWhere DEF OutAsAsked, PlainOut
    <3>7. OutFcb' = {prog_fcb}
      BY <1>1, <2>1 DEF OutFcb
    <3>8. Routed'
      BY <1>3, <2>3, <3>5, <3>6, <3>7 DEF Routed
    <3> QED
      BY <1>6, <2>3, <3>4, <3>8 DEF RInv
  <2> QED
    BY <1>7, <2>2, <2>3 DEF OpenOut
<1>8. CASE OutToNul \/ NoOut
  <2>1. relay.out \in {NUL, NoRedir} /\ relay.out \notin Files /\ NUL # NoRedir
    BY <1>8, Devices DEF OutToNul, NoOut
  <2>2. pc' = "redir_in" /\ UNCHANGED <<fcbs, disk>>
    BY <1>8 DEF OutToNul, NoOut
  <2>3. /\ redir_out' \in Direction
        /\ redir_out'.active <=> relay.out # NoRedir
        /\ redir_out'.null <=> relay.out = NUL
        /\ K_TYPE' = Leads(relay.out, "discard")
    <3>1. CASE OutToNul
      BY <1>4, <2>1, <3>1, LeadsWhere DEF OutToNul, Direction
    <3>2. CASE NoOut
      BY <1>2, <1>4, <2>1, <3>2, LeadsWhere DEF NoOut, Direction, PlainOut, redirection, slots
    <3> QED
      BY <1>8, <3>1, <3>2
  <2>4. DeviceTypes'
    BY <1>1, <2>2, <2>3 DEF RInv, DeviceTypes
  <2>5. OutAsAsked' /\ OutFcb' = {}
    <3>1. K_TYPE' = Leads(relay', "discard") \/ K_TYPE' = Leads(relay'.out, "discard")
      BY <1>1, <2>3
    <3> QED
      BY <1>1, <2>1, <2>3, <3>1 DEF OutAsAsked, OutFcb
  <2>6. Routed'
    BY <1>2, <1>3, <2>2, <2>5 DEF Routed
  <2> QED
    BY <1>6, <2>2, <2>4, <2>6 DEF RInv
<1> QED
  BY <1>7, <1>8

\* What the line's input is set to, whichever file control block it is: the
\* line's own program starts (or the shell, which has no redirection).
LEMMA InputSet ==
  ASSUME IInv, RInv, pc = "redir_in", Execute,
         UNCHANGED <<relay, redir_out, redir_obuf, K_TYPE, disk, screen, got, runs_shell>>,
         UNCHANGED <<batch_mod_base, batch_mod_reserve_size, args_at>>,
         redir_in' \in Direction,
         \A a \in DOMAIN fcbs' : fcbs'[a] \in [file : Files, pos : Nat],
         DOMAIN fcbs' = DOMAIN fcbs \cup InFcb',
         \A a \in DOMAIN fcbs : fcbs'[a] = fcbs[a],
         InAsAsked',
         runs_shell => PlainIn'
  PROVE  RInv'
<1>1. OutAsAsked /\ DOMAIN fcbs = OutFcb
  BY DEF RInv, Routed
<1>2. DeviceTypes'
  BY DEF RInv, DeviceTypes
<1>3. OutFcb' = OutFcb
  BY DEF OutFcb
<1>4. OutAsAsked'
  <2>1. relay.out \in Files => prog_fcb \in DOMAIN fcbs /\ fcbs'[prog_fcb] = fcbs[prog_fcb]
    BY <1>1 DEF OutAsAsked
  <2> QED
    BY <1>1, <2>1 DEF OutAsAsked
<1>5. CASE runs_shell
  <2>1. relay.out = NoRedir /\ relay.in = NoRedir /\ pc' = "shell"
    BY <1>5 DEF IInv, ShellPlain, Execute
  <2>2. PlainOut' /\ ~OutOpen'
    BY <1>4, <2>1, Devices, LeadsWhere DEF OutAsAsked, PlainOut, OutOpen
  <2>3. DOMAIN fcbs' = {}
    BY <1>1, <2>1, Devices DEF OutFcb, InFcb
  <2>4. Routed'
    BY <1>5, <2>1, <2>2, <2>3 DEF Routed
  <2>5. Quiet'
    BY <2>1 DEF RInv, Quiet, Running
  <2> QED
    BY <1>2, <2>4, <2>5 DEF RInv
<1>6. CASE ~runs_shell
  <2>1. pc' = "child"
    BY <1>6 DEF Execute
  <2>2. Routed'
    BY <1>1, <1>3, <1>4, <2>1 DEF Routed
  <2>3. Quiet'
    BY <2>1 DEF RInv, Quiet, Running, OutOpen
  <2> QED
    BY <1>2, <2>2, <2>3 DEF RInv
<1> QED
  BY <1>5, <1>6

LEMMA OpenInRInv == IInv /\ RInv /\ OpenIn => RInv'
<1> SUFFICES ASSUME IInv, RInv, OpenIn PROVE RInv'
  OBVIOUS
<1> USE DEF io
<1>1. /\ pc = "redir_in" /\ relay.in \in Files /\ ~OutOpen /\ Execute
      /\ K_READ' = "file" /\ K_NBREAD' = "file" /\ Open(prog_fcb, relay.in)
      /\ redir_in' = [redir_in EXCEPT !.active = TRUE, !.handle = prog_fcb]
      /\ UNCHANGED <<relay, redir_out, redir_obuf, K_TYPE, disk, screen, got, runs_shell>>
      /\ UNCHANGED <<batch_mod_base, batch_mod_reserve_size, args_at>>
  BY DEF OpenIn, PatchReads, batch
<1>2. OutAsAsked /\ PlainIn /\ DOMAIN fcbs = OutFcb /\ redir_in \in Direction
  BY <1>1 DEF RInv, Routed, DeviceTypes
<1>3. relay.out \notin Files
  BY <1>1, <1>2, Devices DEF OutAsAsked, OutOpen
<1>4. DOMAIN fcbs = {}
  BY <1>2, <1>3 DEF OutFcb
<1>5. /\ redir_in' \in Direction /\ redir_in'.active = TRUE /\ redir_in'.null = redir_in.null
      /\ redir_in'.handle = prog_fcb
  BY <1>1, <1>2, Sizes0 DEF Direction
<1>6. \A a \in DOMAIN fcbs' : fcbs'[a] \in [file : Files, pos : Nat]
  BY <1>1, OpenTypes
<1>7. DOMAIN fcbs' = {prog_fcb} /\ fcbs'[prog_fcb].file = relay.in
  BY <1>1, <1>4, OpenGives
<1>8. DOMAIN fcbs' = DOMAIN fcbs \cup InFcb'
  BY <1>1, <1>4, <1>5, <1>7 DEF InFcb
<1>9. InAsAsked'
  BY <1>1, <1>2, <1>3, <1>5, <1>7, Devices, LeadsWhere DEF InAsAsked, PlainIn
<1>10. ~runs_shell
  BY <1>1, Devices DEF IInv, ShellPlain
<1> QED
  BY <1>1, <1>4, <1>5, <1>6, <1>8, <1>9, <1>10, InputSet

\* The second file control block lies above the program, prog_fcb below it.
LEMMA SecondIsOther ==
  ASSUME IInv, pc = "redir_in", Fits(REDIR_RESERVE_LEN)
  PROVE  Second \in Int /\ Second # prog_fcb
<1>1. /\ mem_top \in Int /\ mem_base \in Int /\ prog_size \in Nat
      /\ PROG_BASE + prog_size <= mem_base
  BY DEF IInv, MemoryTypes, Below
<1>2. mem_base <= mem_top - REDIR_RESERVE_LEN
  BY DEF Fits
<1>3. prog_fcb \in Nat /\ FCB_LEN \in Nat \ {0} /\ prog_fcb + FCB_LEN <= PROG_BASE
  BY Layout
<1> QED
  BY <1>1, <1>2, <1>3, Sizes0 DEF Second

LEMMA OpenSecondRInv == IInv /\ RInv /\ OpenSecond => RInv'
<1> SUFFICES ASSUME IInv, RInv, OpenSecond PROVE RInv'
  OBVIOUS
<1> USE DEF io
<1>1. /\ pc = "redir_in" /\ relay.in \in Files /\ OutOpen /\ Execute
      /\ Fits(REDIR_RESERVE_LEN)
      /\ K_READ' = "file" /\ K_NBREAD' = "file" /\ Open(Second, relay.in)
      /\ redir_in' = [redir_in EXCEPT !.active = TRUE, !.handle = Second]
      /\ UNCHANGED <<relay, redir_out, redir_obuf, K_TYPE, disk, screen, got, runs_shell>>
      /\ UNCHANGED <<batch_mod_base, batch_mod_reserve_size, args_at>>
  BY DEF OpenSecond, PatchReads, himem_reserve, batch
<1>2. OutAsAsked /\ PlainIn /\ DOMAIN fcbs = OutFcb /\ redir_in \in Direction
  BY <1>1 DEF RInv, Routed, DeviceTypes
<1>3. Second \in Int /\ Second # prog_fcb
  BY <1>1, SecondIsOther
<1>4. Second \notin DOMAIN fcbs
  BY <1>2, <1>3 DEF OutFcb
<1>5. /\ redir_in' \in Direction /\ redir_in'.active = TRUE /\ redir_in'.null = redir_in.null
      /\ redir_in'.handle = Second
  BY <1>1, <1>2, <1>3 DEF Direction
<1>6. \A a \in DOMAIN fcbs' : fcbs'[a] \in [file : Files, pos : Nat]
  BY <1>1, OpenTypes
<1>7. /\ DOMAIN fcbs' = DOMAIN fcbs \cup {Second} /\ fcbs'[Second].file = relay.in
      /\ \A a \in DOMAIN fcbs : fcbs'[a] = fcbs[a]
  BY <1>1, <1>4, OpenGives
<1>8. DOMAIN fcbs' = DOMAIN fcbs \cup InFcb'
  BY <1>1, <1>5, <1>7 DEF InFcb
<1>9. InAsAsked'
  BY <1>1, <1>2, <1>3, <1>5, <1>7, Devices, LeadsWhere DEF InAsAsked, PlainIn
<1>10. ~runs_shell
  BY <1>1, Devices DEF IInv, ShellPlain
<1> QED
  BY <1>1, <1>5, <1>6, <1>7, <1>8, <1>9, <1>10, InputSet

LEMMA NoFileInRInv == IInv /\ RInv /\ (InFromNul \/ NoIn) => RInv'
<1> SUFFICES ASSUME IInv, RInv, InFromNul \/ NoIn PROVE RInv'
  OBVIOUS
<1> USE DEF io
<1>1. /\ pc = "redir_in" /\ Execute /\ UNCHANGED fcbs
      /\ UNCHANGED <<relay, redir_out, redir_obuf, K_TYPE, disk, screen, got, runs_shell>>
      /\ UNCHANGED <<batch_mod_base, batch_mod_reserve_size, args_at>>
  BY DEF InFromNul, NoIn, batch, redirection, slots
<1>2. PlainIn /\ redir_in \in Direction
  BY <1>1 DEF RInv, Routed, DeviceTypes
<1>3. relay.in \in {NUL, NoRedir} /\ relay.in \notin Files /\ NUL # NoRedir
  BY Devices DEF InFromNul, NoIn
<1>4. redir_in' \in Direction /\ InAsAsked' /\ (runs_shell => PlainIn')
  <2>1. CASE InFromNul
    <3>1. /\ redir_in' \in Direction /\ redir_in'.active = TRUE /\ redir_in'.null = TRUE
          /\ K_READ' = "eof" /\ K_NBREAD' = "eof" /\ relay.in = NUL
      BY <1>2, <2>1 DEF InFromNul, Direction, PatchReads
    <3>2. ~runs_shell
      BY <1>1, <3>1, Devices DEF IInv, ShellPlain
    <3> QED
      BY <1>1, <1>3, <3>1, <3>2, LeadsWhere DEF InAsAsked
  <2>2. CASE NoIn
    <3>1. UNCHANGED <<redir_in, K_READ, K_NBREAD>> /\ relay.in = NoRedir
      BY <2>2 DEF NoIn, redirection, slots
    <3> QED
      BY <1>1, <1>2, <1>3, <3>1, LeadsWhere DEF InAsAsked, PlainIn
  <2> QED
    BY <2>1, <2>2
<1>5. InFcb' = {}
  BY <1>1, <1>3 DEF InFcb
<1>6. \A a \in DOMAIN fcbs' : fcbs'[a] \in [file : Files, pos : Nat]
  BY <1>1 DEF RInv, DeviceTypes
<1> QED
  BY <1>1, <1>4, <1>5, <1>6, InputSet

---------------------------------------------------------------------------
(* The end of a line *)

LEMMA FlushTypes ==
  ASSUME RInv, NEW text \in Seq(Chars), NEW n \in 0 .. Len(text), Flush(text, n)
  PROVE  disk' \in [Files -> Seq(Chars)]
<1> DEFINE h == redir_out.handle
<1>1. disk \in [Files -> Seq(Chars)]
  BY DEF RInv, DeviceTypes
<1>2. SubSeq(text, 1, n) \in Seq(Chars)
  OBVIOUS
<1>3. CASE h \in DOMAIN fcbs
  <2>1. fcbs[h].file \in Files
    BY <1>3 DEF RInv, DeviceTypes
  <2>2. disk[fcbs[h].file] \o SubSeq(text, 1, n) \in Seq(Chars)
    BY <1>1, <1>2, <2>1
  <2>3. disk' = [disk EXCEPT ![fcbs[h].file] = @ \o SubSeq(text, 1, n)]
    BY <1>3 DEF Flush
  <2> QED
    BY <1>1, <2>1, <2>2, <2>3
<1>4. CASE h \notin DOMAIN fcbs
  BY <1>1, <1>4 DEF Flush
<1> QED
  BY <1>3, <1>4

LEMMA CloseOutGives ==
  ASSUME RInv, NEW n \in 0 .. Len(redir_obuf), CloseOut(n)
  PROVE  /\ redir_out' \in Direction /\ ~redir_out'.active /\ ~redir_out'.null
         /\ redir_obuf' = <<>>
         /\ disk' \in [Files -> Seq(Chars)]
<1>1. redir_out \in Direction /\ redir_obuf \in Seq(Chars) /\ disk \in [Files -> Seq(Chars)]
  BY DEF RInv, DeviceTypes
<1>2. redir_out' \in Direction /\ ~redir_out'.active /\ ~redir_out'.null
  BY <1>1 DEF CloseOut, Direction
<1>3. CASE OutOpen
  <2>1. Flush(redir_obuf, n) /\ redir_obuf' = <<>>
    BY <1>3 DEF CloseOut
  <2> QED
    BY <1>1, <1>2, <2>1, FlushTypes
<1>4. CASE ~OutOpen
  BY <1>1, <1>2, <1>4 DEF CloseOut, RInv, Quiet
<1> QED
  BY <1>3, <1>4

LEMMA WithoutGives ==
  ASSUME NEW open, NEW h
  PROVE  /\ DOMAIN Without(open, h) = DOMAIN open \ {h}
         /\ \A a \in DOMAIN open : a # h => Without(open, h)[a] = open[a]
BY DEF Without

\* Nothing is left open of a line that ended here.
LEMMA ClosedRInv ==
  ASSUME RInv, pc' \in {"failed", "run_loop"}, NEW n \in 0 .. Len(redir_obuf), CloseOut(n),
         redir_in' \in Direction, ~redir_in'.active, DOMAIN fcbs' = {},
         screen' = <<>>, got' = "console", UNCHANGED relay,
         UNCHANGED <<batch_mod_base, batch_mod_reserve_size, args_at>>,
         pc' = "run_loop" => K_TYPE' = "console" /\ PlainIn'
  PROVE  RInv'
<1>1. /\ redir_out' \in Direction /\ ~redir_out'.active /\ ~redir_out'.null
      /\ redir_obuf' = <<>> /\ disk' \in [Files -> Seq(Chars)]
  BY CloseOutGives
<1>2. <<>> \in Seq(Chars) /\ Len(<<>>) < REDIR_OBUF_LEN
  BY Layout
<1>3. DeviceTypes'
  BY <1>1, <1>2 DEF RInv, DeviceTypes
<1>4. ~OutOpen' /\ (pc' = "run_loop" => PlainOut')
  BY <1>1 DEF OutOpen, PlainOut
<1>5. Routed'
  BY <1>4 DEF Routed
<1>6. Quiet'
  BY <1>1 DEF RInv, Quiet, Running
<1> QED
  BY <1>3, <1>5, <1>6 DEF RInv

LEMMA OutClosedDomain ==
  ASSUME IInv, OutAsAsked
  PROVE  DOMAIN OutClosed = DOMAIN fcbs \ OutFcb
<1>1. CASE relay.out \in Files
  <2>1. OutOpen /\ redir_out.handle = prog_fcb
    BY <1>1, Devices DEF OutAsAsked, OutOpen
  <2> QED
    BY <1>1, <2>1, WithoutGives DEF OutClosed, OutFcb
<1>2. CASE relay.out \notin Files
  <2>1. relay.out \in {NoRedir, NUL}
    BY <1>2 DEF IInv, MemoryTypes
  <2>2. ~OutOpen
    BY <2>1 DEF OutAsAsked, OutOpen
  <2> QED
    BY <1>2, <2>2 DEF OutClosed, OutFcb
<1> QED
  BY <1>1, <1>2

LEMMA OpenSecondFailsRInv == IInv /\ RInv /\ OpenSecondFails => RInv'
<1> SUFFICES ASSUME IInv, RInv, OpenSecondFails PROVE RInv'
  OBVIOUS
<1> USE DEF io
<1>1. /\ pc = "redir_in" /\ pc' = "failed" /\ CloseOut(0) /\ fcbs' = OutClosed
      /\ UNCHANGED <<relay, screen, got>>
      /\ UNCHANGED <<batch_mod_base, batch_mod_reserve_size, args_at>>
  BY DEF OpenSecondFails, batch
<1>2. OutAsAsked /\ PlainIn /\ DOMAIN fcbs = OutFcb /\ redir_in \in Direction
  BY <1>1 DEF RInv, Routed, DeviceTypes
<1>3. redir_in' \in Direction /\ ~redir_in'.active
  <2>1. CASE Fits(REDIR_RESERVE_LEN)
    <3>1. redir_in' = [redir_in EXCEPT !.handle = Second] /\ Second \in Int
      BY <1>1, <2>1, SecondIsOther DEF OpenSecondFails
    <3> QED
      BY <1>2, <3>1 DEF PlainIn, Direction
  <2>2. CASE ~Fits(REDIR_RESERVE_LEN)
    BY <1>2, <2>2 DEF OpenSecondFails, PlainIn
  <2> QED
    BY <2>1, <2>2
<1>4. DOMAIN fcbs' = {}
  BY <1>1, <1>2, OutClosedDomain
<1>5. 0 \in 0 .. Len(redir_obuf)
  BY DEF RInv, DeviceTypes
<1>6. screen' = <<>> /\ got' = "console"
  BY <1>1 DEF RInv, Quiet, Running
<1> QED
  BY <1>1, <1>3, <1>4, <1>5, <1>6, ClosedRInv

LEMMA OpenInFailsRInv == IInv /\ RInv /\ OpenInFails => RInv'
<1> SUFFICES ASSUME IInv, RInv, OpenInFails PROVE RInv'
  OBVIOUS
<1> USE DEF io
<1>1. /\ pc = "redir_in" /\ pc' = "failed" /\ ~OutOpen /\ relay.in \in Files
      /\ UNCHANGED <<relay, redirection, slots, fcbs, disk, screen, got>>
      /\ UNCHANGED <<batch_mod_base, batch_mod_reserve_size, args_at>>
  BY DEF OpenInFails, batch
<1>2. OutAsAsked /\ PlainIn /\ DOMAIN fcbs = OutFcb
  BY <1>1 DEF RInv, Routed
<1>3. relay.out \notin Files
  BY <1>1, <1>2, Devices DEF OutAsAsked, OutOpen
<1>4. DOMAIN fcbs' = {} /\ ~OutOpen' /\ ~redir_in'.active
  BY <1>1, <1>2, <1>3 DEF OutFcb, OutOpen, PlainIn, redirection
<1>5. DeviceTypes'
  BY <1>1 DEF RInv, DeviceTypes, redirection
<1>6. Routed'
  BY <1>1, <1>4 DEF Routed
<1>7. Quiet'
  BY <1>1 DEF RInv, Quiet, Running, redirection
<1> QED
  BY <1>5, <1>6, <1>7 DEF RInv

LEMMA TeardownRInv == IInv /\ RInv /\ Teardown => RInv'
<1> SUFFICES ASSUME IInv, RInv, Teardown PROVE RInv'
  OBVIOUS
<1>1. /\ pc' = "run_loop" /\ UNCHANGED relay
      /\ UNCHANGED <<batch_mod_base, batch_mod_reserve_size, args_at>>
      /\ redir_in' = [redir_in EXCEPT !.active = FALSE, !.null = FALSE]
      /\ fcbs' = IF redir_in.active /\ ~redir_in.null
                 THEN Without(OutClosed, redir_in.handle) ELSE OutClosed
      /\ K_TYPE' = "console" /\ K_READ' = "console" /\ K_NBREAD' = "console"
      /\ screen' = <<>> /\ got' = "console"
  BY DEF Teardown, PatchReads, batch
<1>2. PICK n \in 0 .. Len(redir_obuf) : CloseOut(n)
  BY DEF Teardown
<1>3. redir_in \in Direction
  BY DEF RInv, DeviceTypes
<1>4. redir_in' \in Direction /\ ~redir_in'.active /\ PlainIn'
  BY <1>1, <1>3 DEF Direction, PlainIn
<1>5. DOMAIN fcbs' = {}
  <2>1. CASE pc = "returned"
    <3>1. OutAsAsked /\ InAsAsked /\ DOMAIN fcbs = OutFcb \cup InFcb
      BY <2>1 DEF RInv, Routed
    <3>2. DOMAIN OutClosed = DOMAIN fcbs \ OutFcb
      BY <3>1, OutClosedDomain
    <3>3. CASE relay.in \in Files
      <4>1. redir_in.active /\ ~redir_in.null
        BY <3>1, <3>3, Devices DEF InAsAsked
      <4>2. DOMAIN fcbs' = DOMAIN OutClosed \ {redir_in.handle}
        BY <1>1, <4>1, WithoutGives
      <4> QED
        BY <3>1, <3>2, <3>3, <4>2 DEF InFcb
    <3>4. CASE relay.in \notin Files
      <4>1. relay.in \in {NoRedir, NUL}
        BY <3>4 DEF IInv, MemoryTypes
      <4>2. ~(redir_in.active /\ ~redir_in.null)
        BY <3>1, <4>1 DEF InAsAsked
      <4> QED
        BY <1>1, <3>1, <3>2, <3>4, <4>2 DEF InFcb
    <3> QED
      BY <3>3, <3>4
  <2>2. CASE pc = "failed"
    <3>1. ~OutOpen /\ ~redir_in.active /\ DOMAIN fcbs = {}
      BY <2>2 DEF RInv, Routed
    <3> QED
      BY <1>1, <3>1 DEF OutClosed
  <2> QED
    BY <2>1, <2>2 DEF Teardown
<1> QED
  BY <1>1, <1>2, <1>4, <1>5, ClosedRInv

---------------------------------------------------------------------------
(* A program types and reads. *)

LEMMA ChildKeeps ==
  ASSUME IInv, RInv, pc = "child", pc' \in {"child", "returned"},
         UNCHANGED <<relay, redir_out, redir_in, K_TYPE, K_READ, K_NBREAD>>,
         UNCHANGED <<batch_mod_base, batch_mod_reserve_size, args_at>>,
         DOMAIN fcbs' = DOMAIN fcbs,
         \A h \in DOMAIN fcbs : fcbs'[h].file = fcbs[h].file,
         DeviceTypes',
         ~OutOpen => redir_obuf' = redir_obuf
  PROVE  RInv'
<1>1. OutAsAsked /\ InAsAsked /\ DOMAIN fcbs = OutFcb \cup InFcb
  BY DEF RInv, Routed
<1>2. OutAsAsked'
  BY <1>1 DEF OutAsAsked
<1>3. InAsAsked'
  BY <1>1 DEF InAsAsked
<1>4. OutFcb' = OutFcb /\ InFcb' = InFcb
  BY DEF OutFcb, InFcb
<1>5. Routed'
  BY <1>1, <1>2, <1>3, <1>4 DEF Routed
<1>6. Quiet'
  BY DEF RInv, Quiet, Running, OutOpen
<1> QED
  BY <1>5, <1>6 DEF RInv

InChildSame ==
  /\ pc = "child"
  /\ UNCHANGED <<relay, redir_out, redir_in, K_TYPE, K_READ, K_NBREAD>>
  /\ UNCHANGED <<batch_mod_base, batch_mod_reserve_size, args_at>>

LEMMA InChildIs == InChild => InChildSame
BY DEF InChild, InChildSame, batch, slots

LEMMA ScreenRInv ==
  ASSUME IInv, RInv, NEW c \in Chars, TypeOnScreen(c)
  PROVE  RInv'
<1>1. /\ InChildSame /\ pc' = pc /\ screen' = Append(screen, c)
      /\ UNCHANGED <<redir_obuf, fcbs, disk>>
  BY InChildIs DEF TypeOnScreen
<1>2. DeviceTypes'
  <2>1. Append(screen, c) \in Seq(Chars)
    BY DEF RInv, DeviceTypes
  <2> QED
    BY <1>1, <2>1 DEF InChildSame, RInv, DeviceTypes
<1> QED
  BY <1>1, <1>2, ChildKeeps DEF InChildSame

LEMMA TypeToFileRInv ==
  ASSUME IInv, RInv, NEW c \in Chars, TypeToFile(c)
  PROVE  RInv'
<1> DEFINE text == Append(redir_obuf, c)
<1>1. /\ InChildSame /\ pc' = pc /\ K_TYPE = "file"
      /\ UNCHANGED <<fcbs, screen>>
  BY InChildIs DEF TypeToFile
<1>2. /\ redir_obuf \in Seq(Chars) /\ Len(redir_obuf) < REDIR_OBUF_LEN
      /\ disk \in [Files -> Seq(Chars)] /\ screen \in Seq(Chars)
      /\ REDIR_OBUF_LEN \in Nat \ {0}
  BY Layout DEF RInv, DeviceTypes
<1>3. text \in Seq(Chars) /\ Len(text) = Len(redir_obuf) + 1
  BY <1>2
<1>4. /\ redir_obuf' \in Seq(Chars) /\ Len(redir_obuf') < REDIR_OBUF_LEN
      /\ disk' \in [Files -> Seq(Chars)]
  <2>1. CASE Full(text)
    <3>1. PICK n \in 0 .. Len(text) : Flush(text, n)
      BY <2>1 DEF TypeToFile
    <3>2. redir_obuf' = <<>>
      BY <2>1 DEF TypeToFile
    <3>3. <<>> \in Seq(Chars) /\ Len(<<>>) = 0
      OBVIOUS
    <3>4. disk' \in [Files -> Seq(Chars)]
      BY <1>3, <3>1, FlushTypes
    <3> QED
      BY <1>2, <3>2, <3>3, <3>4
  <2>2. CASE ~Full(text)
    <3>1. redir_obuf' = text /\ disk' = disk
      BY <2>2 DEF TypeToFile
    <3>2. Len(text) < REDIR_OBUF_LEN
      <4>1. Len(text) # REDIR_OBUF_LEN
        BY <2>2 DEF Full
      <4>2. Len(redir_obuf) \in Nat
        BY <1>2
      <4> HIDE DEF text
      <4> QED
        BY <1>2, <1>3, <4>1, <4>2
    <3> QED
      BY <1>2, <1>3, <3>1, <3>2
  <2> QED
    BY <2>1, <2>2
<1>5. DeviceTypes'
  BY <1>1, <1>4 DEF InChildSame, RInv, DeviceTypes
<1>6. OutOpen
  <2>1. OutAsAsked
    BY <1>1 DEF InChildSame, RInv, Routed
  <2>2. relay.out \in {NoRedir, NUL} \cup Files
    BY DEF IInv, MemoryTypes
  <2>3. relay.out # NoRedir /\ relay.out # NUL
    BY <1>1, <2>1, LeadsWhere DEF OutAsAsked
  <2> QED
    BY <2>1, <2>3 DEF OutAsAsked, OutOpen
<1> QED
  BY <1>1, <1>5, <1>6, ChildKeeps DEF InChildSame

LEMMA ReadFileRInv == IInv /\ RInv /\ ReadFile => RInv'
<1> SUFFICES ASSUME IInv, RInv, ReadFile PROVE RInv'
  OBVIOUS
<1> DEFINE h == redir_in.handle
<1>1. /\ InChildSame /\ pc' = pc /\ UNCHANGED <<redir_obuf, disk, screen>>
  BY InChildIs DEF ReadFile
<1>2. \A a \in DOMAIN fcbs : fcbs[a] \in [file : Files, pos : Nat]
  BY DEF RInv, DeviceTypes
<1>3. /\ DOMAIN fcbs' = DOMAIN fcbs
      /\ \A a \in DOMAIN fcbs : fcbs'[a].file = fcbs[a].file
      /\ \A a \in DOMAIN fcbs : fcbs'[a] \in [file : Files, pos : Nat]
  <2>1. CASE UNCHANGED fcbs
    BY <1>2, <2>1
  <2>2. CASE fcbs' = [fcbs EXCEPT ![h].pos = @ + 1] /\ h \in DOMAIN fcbs
    <3>1. fcbs[h] \in [file : Files, pos : Nat]
      BY <1>2, <2>2
    <3>2. fcbs'[h] = [fcbs[h] EXCEPT !.pos = @ + 1]
      BY <2>2
    <3>3. fcbs'[h] \in [file : Files, pos : Nat] /\ fcbs'[h].file = fcbs[h].file
      BY <3>1, <3>2
    <3>4. \A a \in DOMAIN fcbs : a # h => fcbs'[a] = fcbs[a]
      BY <2>2
    <3> QED
      BY <1>2, <2>2, <3>3, <3>4
  <2>3. h \notin DOMAIN fcbs => UNCHANGED fcbs
    BY DEF ReadFile
  <2> QED
    BY <2>1, <2>2, <2>3 DEF ReadFile
<1>4. DeviceTypes'
  BY <1>1, <1>3 DEF InChildSame, RInv, DeviceTypes
<1> QED
  BY <1>1, <1>3, <1>4, ChildKeeps DEF InChildSame

LEMMA OtherChildRInv ==
  ASSUME IInv, RInv,
         \/ TypeNowhere \/ ReadElsewhere \/ Release \/ Return
         \/ \E n \in Requests : Reserve(n)
  PROVE  RInv'
<1>1. InChildSame /\ pc' \in {"child", "returned"} /\ UNCHANGED <<redir_obuf, fcbs, disk, screen>>
  BY InChildIs DEF TypeNowhere, ReadElsewhere, Release, Return, Reserve, io, InChild
<1>2. DeviceTypes'
  BY <1>1 DEF InChildSame, RInv, DeviceTypes
<1> QED
  BY <1>1, <1>2, ChildKeeps DEF InChildSame

LEMMA NextRInv == IInv /\ RInv /\ [Next]_vars => RInv'
<1> SUFFICES ASSUME IInv, RInv, [Next]_vars PROVE RInv'
  OBVIOUS
<1>1. CASE Boot \/ RunLoop \/ ProgRun \/ Teardown
  BY <1>1, PlainStepsRInv, TeardownRInv
<1>2. CASE Redirect
  BY <1>2, OutStepsRInv, OpenInRInv, OpenSecondRInv, OpenSecondFailsRInv, NoFileInRInv,
     OpenInFailsRInv DEF Redirect
<1>3. CASE Shell
  BY <1>3, PlainStepsRInv DEF Shell
<1>4. CASE Child
  BY <1>4, ScreenRInv, TypeToFileRInv, ReadFileRInv, OtherChildRInv DEF Child
<1>5. CASE UNCHANGED vars
  <2>1. /\ UNCHANGED <<pc, relay, redirection, slots, fcbs, io>>
        /\ UNCHANGED <<batch_mod_base, batch_mod_reserve_size, args_at>>
    BY <1>5 DEF vars, batch
  <2> QED
    BY <2>1 DEF redirection, slots, io, RInv, DeviceTypes, Routed, Quiet, PlainOut, PlainIn,
       OutAsAsked, InAsAsked, OutFcb, InFcb, Running, OutOpen
<1>6. Halt => UNCHANGED vars
  BY DEF Halt
<1> QED
  BY <1>1, <1>2, <1>3, <1>4, <1>5, <1>6 DEF Next, Kernel

---------------------------------------------------------------------------
(* What follows *)

LEMMA RInvMatches == IInv /\ RInv => VectorsMatch
<1> SUFFICES ASSUME IInv, RInv PROVE VectorsMatch
  OBVIOUS
<1>1. ASSUME pc = "child"
      PROVE  /\ K_TYPE = Leads(relay.out, "discard")
             /\ K_READ = Leads(relay.in, "eof") /\ K_NBREAD = K_READ
             /\ relay.out \in Files => /\ redir_out.handle \in DOMAIN fcbs
                                       /\ fcbs[redir_out.handle].file = relay.out
             /\ relay.in \in Files => /\ redir_in.handle \in DOMAIN fcbs
                                      /\ fcbs[redir_in.handle].file = relay.in
  BY <1>1 DEF RInv, Routed, OutAsAsked, InAsAsked
<1>2. ASSUME pc = "shell"
      PROVE  /\ {K_TYPE, K_READ, K_NBREAD} = {"console"}
             /\ ~redir_out.active /\ ~redir_in.active /\ ~redir_stack_reserved
             /\ redir_obuf = <<>> /\ DOMAIN fcbs = {}
  <2>1. PlainOut /\ PlainIn /\ DOMAIN fcbs = {} /\ redir_obuf = <<>>
    BY <1>2 DEF RInv, Routed, Quiet, Running
  <2>2. ~redir_stack_reserved
    BY <1>2 DEF IInv, Nested
  <2> QED
    BY <2>1, <2>2 DEF PlainOut, PlainIn
<1> QED
  BY <1>1, <1>2 DEF VectorsMatch

LEMMA RInvTypes == IInv /\ RInv => TypeOK
BY DEF IInv, MemoryTypes, RInv, DeviceTypes, Quiet, Direction, TypeOK

\* What every later theorem of this module starts from.
THEOREM Routing == Spec => [](IInv /\ RInv)
<1>1. Init => IInv /\ RInv
  BY InitIInv, InitRInv
<1>2. (IInv /\ RInv) /\ [Next]_vars => (IInv /\ RInv)'
  BY NextIInv, NextRInv
<1> QED
  BY <1>1, <1>2, PTL DEF Spec

\* However a line is redirected, whichever of its files cannot be opened, and
\* after whatever lines: a program's three patched jump-table slots lead to the
\* files the line names, through file control blocks open on them, and the shell
\* finds nothing redirected, buffered or open (redir.asm's _redir_setup,
\* _redir_teardown and the rs_err paths).
THEOREM VectorsAlways == Spec => []VectorsMatch
BY Routing, RInvMatches, PTL

\* Every variable keeps its type, and redir_obuf, of REDIR_OBUF_LEN characters,
\* is never full when a character comes (redir.asm's _type_to_file).
THEOREM TypesAlways == Spec => []TypeOK
BY Routing, RInvTypes, PTL

---------------------------------------------------------------------------
(* Streams: buffered text is text of the file already, and what is cut off   *)
(* the buffer is cut off the file's end.                                     *)

LEMMA CatPrefix ==
  ASSUME NEW s \in Seq(Chars), NEW t \in Seq(Chars), NEW n \in 0 .. Len(t)
  PROVE  s \o SubSeq(t, 1, n) = SubSeq(s \o t, 1, Len(s \o t) - (Len(t) - n))
<1> DEFINE u == SubSeq(t, 1, n)
           v == SubSeq(s \o t, 1, Len(s) + n)
<1>1. /\ Len(s) \in Nat /\ Len(t) \in Nat /\ n \in Nat /\ n <= Len(t)
      /\ s \o t \in Seq(Chars) /\ Len(s \o t) = Len(s) + Len(t)
      /\ \A i \in 1 .. Len(s) + Len(t) :
            (s \o t)[i] = IF i <= Len(s) THEN s[i] ELSE t[i - Len(s)]
  BY ConcatProperties
<1>2. u \in Seq(Chars) /\ Len(u) = n /\ \A i \in 1 .. n : u[i] = t[i]
  <2>1. \A i \in 1 .. n : t[i] \in Chars
    BY <1>1
  <2>2. u \in Seq(Chars) /\ Len(u) = (IF 1 <= n THEN n - 1 + 1 ELSE 0)
        /\ \A i \in 1 .. n - 1 + 1 : u[i] = t[1 + i - 1]
    BY <1>1, <2>1, SubSeqProperties
  <2> QED
    BY <1>1, <2>2
<1>3. v \in Seq(Chars) /\ Len(v) = Len(s) + n /\ \A i \in 1 .. Len(s) + n : v[i] = (s \o t)[i]
  <2> DEFINE m == Len(s) + n
  <2>1. m \in Nat /\ m <= Len(s \o t)
    BY <1>1
  <2>2. \A i \in 1 .. m : (s \o t)[i] \in Chars
    BY <1>1, <2>1, ElementOfSeq
  <2>3. v \in Seq(Chars) /\ Len(v) = (IF 1 <= m THEN m - 1 + 1 ELSE 0)
        /\ \A i \in 1 .. m - 1 + 1 : v[i] = (s \o t)[1 + i - 1]
    BY <2>1, <2>2, SubSeqProperties
  <2> QED
    BY <2>1, <2>3
<1>4. s \o u \in Seq(Chars) /\ Len(s \o u) = Len(s) + n
      /\ \A i \in 1 .. Len(s) + n : (s \o u)[i] = IF i <= Len(s) THEN s[i] ELSE u[i - Len(s)]
  BY <1>2, ConcatProperties
<1>5. ASSUME NEW i \in 1 .. Len(s) + n PROVE (s \o u)[i] = v[i]
  <2>1. CASE i <= Len(s)
    BY <1>1, <1>3, <1>4, <2>1
  <2>2. CASE i > Len(s)
    <3>1. i - Len(s) \in 1 .. n /\ i \in 1 .. Len(s) + Len(t)
      BY <1>1, <2>2
    <3> HIDE DEF u, v
    <3>2. (s \o u)[i] = t[i - Len(s)]
      BY <1>1, <1>2, <1>4, <2>2, <3>1
    <3>3. v[i] = t[i - Len(s)]
      BY <1>1, <1>3, <2>2, <3>1
    <3> QED
      BY <3>2, <3>3
  <2> QED
    BY <1>1, <2>1, <2>2
<1>6. s \o u = v
  <2> HIDE DEF u, v
  <2> QED
    BY <1>3, <1>4, <1>5, SeqEqual
<1>7. Len(s \o t) - (Len(t) - n) = Len(s) + n
  BY <1>1
<1> QED
  BY <1>6, <1>7

LEMMA CatAppend ==
  ASSUME NEW s \in Seq(Chars), NEW t \in Seq(Chars), NEW c \in Chars
  PROVE  s \o Append(t, c) = Append(s \o t, c)
<1>1. <<c>> \in Seq(Chars) /\ s \o t \in Seq(Chars)
  BY ConcatProperties
<1>2. s \o (t \o <<c>>) = (s \o t) \o <<c>>
  BY <1>1, ConcatAssociative
<1> QED
  BY <1>1, <1>2, AppendIsConcat

LEMMA AppendPrefix ==
  ASSUME NEW t \in Seq(Chars), NEW c \in Chars, NEW n \in 0 .. Len(t)
  PROVE  SubSeq(Append(t, c), 1, n) = SubSeq(t, 1, n)
<1>1. Append(t, c) = t \o <<c>> /\ <<c>> \in Seq(Chars) /\ Len(t) \in Nat /\ n \in Int
  BY AppendIsConcat
<1>2. CASE n = 0
  BY <1>2, SubSeqEmpty
<1>3. CASE n # 0
  <2>1. 1 \in 1 .. Len(t) /\ n \in 1 .. Len(t)
    BY <1>1, <1>3
  <2> QED
    BY <1>1, <2>1, SubSeqOfConcat1
<1> QED
  BY <1>2, <1>3

\* The files as the line sees them.
OutIs == OutOpen => /\ relay.out \in Files /\ redir_out.handle = prog_fcb
                    /\ prog_fcb \in DOMAIN fcbs /\ fcbs[prog_fcb].file = relay.out

LEMMA WhereOut == IInv /\ RInv => OutIs
<1> SUFFICES ASSUME IInv, RInv, OutOpen
             PROVE  /\ relay.out \in Files /\ redir_out.handle = prog_fcb
                    /\ prog_fcb \in DOMAIN fcbs /\ fcbs[prog_fcb].file = relay.out
  BY DEF OutIs
<1>1. OutAsAsked
  BY DEF RInv, Routed, Quiet, PlainOut, OutOpen
<1>2. relay.out \in {NoRedir, NUL} \cup Files
  BY DEF IInv, MemoryTypes
<1> QED
  BY <1>1, <1>2 DEF OutAsAsked, OutOpen

LEMMA WhereOutNext == IInv' /\ RInv' => OutIs'
BY WhereOut, PTL

LEMMA OutWithFile ==
  ASSUME OutAsAsked, relay.out \in Files
  PROVE  OutOpen
BY Devices DEF OutAsAsked, OutOpen

TextsFollow ==
  /\ ~OutOpen => Texts = disk
  /\ redir_obuf = <<>> => Texts = disk
  /\ OutOpen => Texts = [disk EXCEPT ![relay.out] = @ \o redir_obuf]
  /\ Texts \in [Files -> Seq(Chars)]

LEMMA TextsAre == RInv /\ OutIs => TextsFollow
<1> SUFFICES ASSUME RInv, OutIs PROVE TextsFollow
  OBVIOUS
<1>1. disk \in [Files -> Seq(Chars)] /\ redir_obuf \in Seq(Chars)
  BY DEF RInv, DeviceTypes
<1>2. ASSUME ~OutOpen PROVE Texts = disk
  BY <1>1, <1>2 DEF Texts, Text
<1>3. ASSUME OutOpen PROVE Texts = [disk EXCEPT ![relay.out] = @ \o redir_obuf]
  BY <1>1, <1>3 DEF OutIs, Texts, Text
<1>4. ASSUME redir_obuf = <<>> PROVE Texts = disk
  <2>1. \A f \in Files : disk[f] \o <<>> = disk[f]
    BY <1>1, ConcatEmptySeq
  <2> QED
    BY <1>1, <1>4, <2>1 DEF Texts, Text
<1>5. Texts \in [Files -> Seq(Chars)]
  <2>1. \A f \in Files : disk[f] \o redir_obuf \in Seq(Chars)
    BY <1>1, ConcatProperties
  <2> QED
    BY <1>1, <2>1 DEF Texts, Text
<1> QED
  BY <1>2, <1>3, <1>4, <1>5 DEF TextsFollow

LEMMA TextsAreNext == RInv' /\ OutIs' => TextsFollow'
BY TextsAre, PTL

LEMMA LineIs ==
  /\ Running => Line = [out |-> relay.out, in |-> relay.in]
  /\ Running => Line.out = relay.out /\ Line.in = relay.in
  /\ Line = NoLine <=> ~Running
<1>1. DOMAIN NoLine = {"idle"} /\ DOMAIN [out |-> relay.out, in |-> relay.in] = {"out", "in"}
  BY DEF NoLine
<1>2. NoLine # [out |-> relay.out, in |-> relay.in]
  BY <1>1
<1> QED
  BY <1>2 DEF Line

LEMMA PosIs ==
  /\ ~redir_in.active => Pos = 0
  /\ InAsAsked /\ relay.in \in Files => Pos = fcbs[redir_in.handle].pos
  /\ InAsAsked /\ relay.in \in {NUL, NoRedir} => Pos = 0
BY Devices DEF Pos, InHandle, InAsAsked

LEMMA InitStreams == Init => S!Init
<1> SUFFICES ASSUME Init PROVE S!Init
  OBVIOUS
<1>1. ~OutOpen /\ ~redir_in.active /\ ~Running
  BY DEF Init, Closed, OutOpen, Running
<1>2. Texts = [f \in Files |-> <<>>]
  BY <1>1 DEF Texts, Text, Init
<1>3. Pos = 0 /\ Line = NoLine
  BY <1>1, LineIs, PosIs
<1> QED
  BY <1>2, <1>3 DEF S!Init, Init

Seen == <<Texts, screen, Line, Pos, got, faults>>

\* Between the ends of two lines, as long as no file is touched.
LEMMA BetweenLines ==
  ASSUME RInv, RInv', OutIs, OutIs', ~Running, ~Running',
         ~redir_in.active, ~redir_in'.active, UNCHANGED <<disk, faults>>
  PROVE  UNCHANGED Seen
<1>1. /\ redir_obuf = <<>> /\ screen = <<>> /\ got = "console"
      /\ redir_obuf' = <<>> /\ screen' = <<>> /\ got' = "console"
  BY DEF RInv, Quiet
<1>2. Texts = disk /\ Texts' = disk'
  <2>1. Texts = disk
    BY <1>1, TextsAre DEF TextsFollow
  <2>2. Texts' = disk'
    BY <1>1, TextsAreNext DEF TextsFollow
  <2> QED
    BY <2>1, <2>2
<1>3. Line = NoLine /\ Line' = NoLine'
  BY DEF Line
<1>4. Pos = 0 /\ Pos' = 0
  BY DEF Pos, InHandle
<1> QED
  BY <1>1, <1>2, <1>3, <1>4 DEF Seen, NoLine

LEMMA InClosed ==
  ASSUME RInv, ~Running
  PROVE  ~redir_in.active
BY DEF RInv, Quiet, Routed, Running, PlainIn

LEMMA QuietSteps ==
  ASSUME IInv, RInv, IInv', RInv',
         Boot \/ RunLoop \/ ProgRun \/ Shell \/ OpenInFails \/ OutToNul \/ NoOut
  PROVE  UNCHANGED Seen
<1> USE DEF io, redirection
<1>1. OutIs /\ OutIs'
  BY WhereOut, WhereOutNext
<1>2. /\ pc \in {"boot", "run_loop", "prog_run", "shell", "redir_in", "redir_out"}
      /\ pc' \in {"run_loop", "prog_run", "shell", "redir_out", "redir_in", "failed"}
      /\ UNCHANGED <<disk, faults, redir_in>>
  BY DEF Boot, RunLoop, ProgRun, Shell, LastLine, StartBatch, ShellReturns, InShell,
     OpenInFails, OutToNul, NoOut
<1>3. ~Running /\ ~Running'
  BY <1>2 DEF Running
<1> QED
  BY <1>1, <1>2, <1>3, InClosed, BetweenLines

LEMMA OpenOutStreams ==
  ASSUME IInv, RInv, OutIs, IInv', RInv', OutIs', OpenOut
  PROVE  (S!Empty(relay.out) /\ relay.out \in Files) \/ UNCHANGED Seen
<1>1. /\ pc = "redir_out" /\ pc' \in {"failed", "redir_in"} /\ relay.out \in Files
      /\ UNCHANGED <<redir_in, redir_obuf, screen, got, faults>>
  BY DEF OpenOut
<1>2. ~Running /\ ~Running' /\ ~redir_in.active /\ ~redir_in'.active
  <2>1. ~Running /\ ~Running'
    BY <1>1 DEF Running
  <2> QED
    BY <1>1, <2>1, InClosed
<1>3. CASE disk' = disk
  BY <1>1, <1>2, <1>3, BetweenLines
<1>4. CASE disk' = [disk EXCEPT ![relay.out] = <<>>]
  <2>1. Texts = disk /\ Texts' = disk'
    <3>1. redir_obuf = <<>> /\ redir_obuf' = <<>>
      BY <1>2 DEF RInv, Quiet
    <3> QED
      BY <3>1, TextsAre, TextsAreNext DEF TextsFollow
  <2>2. Line = NoLine /\ Line' = Line
    BY <1>2 DEF Line, NoLine
  <2>3. Pos = 0 /\ Pos' = 0
    BY <1>2 DEF Pos, InHandle
  <2> QED
    BY <1>1, <1>4, <2>1, <2>2, <2>3 DEF S!Empty
<1> QED
  BY <1>3, <1>4 DEF OpenOut

LEMMA OpenSecondFailsStreams ==
  ASSUME IInv, RInv, OutIs, IInv', RInv', OutIs', OpenSecondFails
  PROVE  UNCHANGED Seen
<1>1. pc = "redir_in" /\ pc' = "failed" /\ OutOpen /\ CloseOut(0)
  BY DEF OpenSecondFails
<1>2. ~Running /\ ~Running'
  BY <1>1 DEF Running
<1>3. redir_obuf = <<>> /\ disk \in [Files -> Seq(Chars)]
  BY <1>2 DEF RInv, Quiet, DeviceTypes
<1>4. Flush(<<>>, 0)
  BY <1>1, <1>3 DEF CloseOut
<1>5. faults' = faults
  <2>1. Len(<<>>) = 0
    OBVIOUS
  <2> QED
    BY <1>4, <2>1 DEF Flush
<1>6. disk' = disk
  <2>1. disk' = [disk EXCEPT ![relay.out] = @ \o SubSeq(<<>>, 1, 0)]
    BY <1>1, <1>4 DEF Flush, OutIs
  <2>2. SubSeq(<<>>, 1, 0) = <<>>
    BY SubSeqEmpty
  <2>3. relay.out \in Files /\ disk[relay.out] \o <<>> = disk[relay.out]
    BY <1>1, <1>3, ConcatEmptySeq DEF OutIs
  <2> QED
    BY <1>3, <2>1, <2>2, <2>3
<1>7. ~redir_in.active /\ ~redir_in'.active
  BY <1>2, InClosed DEF RInv, Routed, Quiet, Running, PlainIn
<1> QED
  BY <1>2, <1>5, <1>6, <1>7, BetweenLines

\* A line begins when its program does.
LEMMA BeginStreams ==
  ASSUME IInv, RInv, OutIs, IInv', RInv', OutIs',
         OpenIn \/ OpenSecond \/ InFromNul \/ NoIn
  PROVE  S!Begin(relay.out, relay.in) \/ UNCHANGED Seen
<1> USE DEF io, redirection
<1>1. /\ pc = "redir_in" /\ pc' \in {"shell", "child"}
      /\ UNCHANGED <<relay, redir_out, redir_obuf, disk, screen, got, faults>>
  BY DEF OpenIn, OpenSecond, InFromNul, NoIn, Execute
<1>2. ~Running /\ ~redir_in.active
  <2>1. ~Running
    BY <1>1 DEF Running
  <2> QED
    BY <2>1, InClosed
<1>3. redir_obuf = <<>> /\ redir_obuf' = <<>>
  BY <1>1, <1>2 DEF RInv, Quiet
<1>4. Texts' = Texts
  BY <1>1, <1>3, TextsAre, TextsAreNext DEF TextsFollow
<1>5. Pos = 0
  BY <1>2 DEF Pos, InHandle
<1>6. Line = NoLine
  BY <1>2, LineIs
<1>7. CASE pc' = "child"
  <2>1. Line' = [out |-> relay.out, in |-> relay.in]
    BY <1>1, <1>7 DEF Line, Running
  <2>2. Pos' = 0
    <3>1. InAsAsked' /\ relay' = relay
      BY <1>1, <1>7 DEF RInv, Routed
    <3>2. CASE relay.in \in Files
      <4>1. fcbs'[redir_in'.handle].pos = 0
        <5>1. redir_in \in Direction
          BY DEF RInv, DeviceTypes
        <5>2. CASE OpenIn
          <6>1. redir_in'.handle = prog_fcb /\ Open(prog_fcb, relay.in)
            BY <5>1, <5>2 DEF OpenIn, Direction
          <6> QED
            BY <6>1, OpenGives
        <5>3. CASE OpenSecond
          <6>1. redir_in'.handle = Second /\ Open(Second, relay.in)
            BY <5>1, <5>3 DEF OpenSecond, Direction
          <6> QED
            BY <6>1, OpenGives
        <5> QED
          BY <3>2, <5>2, <5>3, Devices DEF InFromNul, NoIn
      <4> QED
        BY <3>1, <3>2, <4>1, Devices DEF InAsAsked, Pos, InHandle
    <3>3. CASE relay.in \notin Files
      <4>1. relay.in \in {NoRedir, NUL}
        BY <3>3 DEF IInv, MemoryTypes
      <4> QED
        BY <3>1, <4>1 DEF InAsAsked, Pos, InHandle
    <3> QED
      BY <3>2, <3>3
  <2> QED
    BY <1>1, <1>4, <1>5, <1>6, <2>1, <2>2 DEF S!Begin
<1>8. CASE pc' = "shell"
  <2>1. ~Running'
    BY <1>8 DEF Running
  <2>2. ~redir_in'.active
    BY <1>8 DEF RInv, Routed, PlainIn
  <2> QED
    BY <1>1, <1>2, <2>1, <2>2, BetweenLines
<1> QED
  BY <1>1, <1>7, <1>8

\* While the program runs.
LEMMA LineRuns ==
  ASSUME RInv, pc = "child", pc' \in {"child", "returned"},
         UNCHANGED <<relay, redir_out, redir_in>>
  PROVE  /\ Line # NoLine /\ Line' = Line
         /\ Line.out = relay.out /\ Line.in = relay.in
         /\ UNCHANGED fcbs => Pos' = Pos
<1>1. Running /\ Running'
  BY DEF Running
<1>2. Line' = Line
  BY <1>1 DEF Line
<1>3. UNCHANGED fcbs => Pos' = Pos
  BY DEF Pos, InHandle
<1> QED
  BY <1>1, <1>2, <1>3, LineIs

LEMMA OtherChildStreams ==
  ASSUME IInv, RInv, OutIs, IInv', RInv', OutIs',
         \/ TypeNowhere \/ Release \/ Return
         \/ \E n \in Requests : Reserve(n)
  PROVE  UNCHANGED Seen
<1>1. InChildSame /\ pc' \in {"child", "returned"}
      /\ UNCHANGED <<redir_obuf, fcbs, disk, screen, got, faults>>
  BY InChildIs DEF TypeNowhere, Release, Return, Reserve, io, InChild
<1>2. Line' = Line /\ Pos' = Pos
  BY <1>1, LineRuns DEF InChildSame
<1>3. Texts' = Texts
  BY <1>1 DEF InChildSame, Texts, Text, OutOpen
<1> QED
  BY <1>1, <1>2, <1>3 DEF Seen

LEMMA ReadElsewhereStreams ==
  ASSUME IInv, RInv, OutIs, IInv', RInv', OutIs', ReadElsewhere
  PROVE  S!Read
<1>1. /\ InChildSame /\ pc' = pc /\ K_READ # "file"
      /\ got' = IF K_READ = "eof" THEN "end" ELSE "console"
      /\ UNCHANGED <<redir_obuf, fcbs, disk, screen, faults>>
  BY InChildIs DEF ReadElsewhere, InChild
<1>2. Line # NoLine /\ Line' = Line /\ Line.in = relay.in /\ Pos' = Pos
  BY <1>1, LineRuns DEF InChildSame
<1>3. Texts' = Texts
  BY <1>1 DEF InChildSame, Texts, Text, OutOpen
<1>4. InAsAsked /\ relay.in \in {NoRedir, NUL} \cup Files
  BY <1>1 DEF InChildSame, RInv, Routed, IInv, MemoryTypes
<1>5. relay.in \in {NoRedir, NUL} /\ relay.in \notin Files
  BY <1>1, <1>4, LeadsWhere, Devices DEF InAsAsked
<1>6. got' = IF relay.in = NoRedir THEN "console" ELSE "end"
  BY <1>1, <1>4, <1>5, LeadsWhere, Devices DEF InAsAsked
<1> QED
  BY <1>1, <1>2, <1>3, <1>5, <1>6 DEF S!Read

LEMMA BufferTypes ==
  ASSUME RInv
  PROVE  /\ redir_obuf \in Seq(Chars) /\ disk \in [Files -> Seq(Chars)]
         /\ Len(redir_obuf) \in Nat /\ Len(redir_obuf) < REDIR_OBUF_LEN /\ REDIR_OBUF_LEN \in Nat
<1>1. redir_obuf \in Seq(Chars) /\ disk \in [Files -> Seq(Chars)] /\ Len(redir_obuf) < REDIR_OBUF_LEN
  BY DEF RInv, DeviceTypes
<1>2. Len(redir_obuf) \in Nat
  BY <1>1
<1>3. REDIR_OBUF_LEN \in Nat
  BY Layout
<1> QED
  BY <1>1, <1>2, <1>3

LEMMA TypeOnScreenStreams ==
  ASSUME IInv, RInv, OutIs, IInv', RInv', OutIs', NEW c \in Chars, TypeOnScreen(c)
  PROVE  S!Type(c)
<1>1. /\ InChildSame /\ pc' = pc /\ K_TYPE = "console" /\ screen' = Append(screen, c)
      /\ UNCHANGED <<redir_obuf, fcbs, disk, got, faults>>
  BY InChildIs DEF TypeOnScreen, InChild
<1>2. Line # NoLine /\ Line' = Line /\ Line.out = relay.out /\ Pos' = Pos
  BY <1>1, LineRuns DEF InChildSame
<1>3. Texts' = Texts
  BY <1>1 DEF InChildSame, Texts, Text, OutOpen
<1>4. OutAsAsked /\ relay.out \in {NoRedir, NUL} \cup Files
  BY <1>1 DEF InChildSame, RInv, Routed, IInv, MemoryTypes
<1>5. relay.out = NoRedir
  BY <1>1, <1>4, LeadsWhere DEF OutAsAsked
<1> QED
  BY <1>1, <1>2, <1>3, <1>5, Devices DEF S!Type

\* What Flush leaves in the files, when the line's output is a file.
LEMMA FlushGives ==
  ASSUME RInv, OutIs, OutOpen, NEW text \in Seq(Chars), NEW n \in 0 .. Len(text), Flush(text, n)
  PROVE  /\ disk' = [disk EXCEPT ![relay.out] = @ \o SubSeq(text, 1, n)]
         /\ \/ n = Len(text) /\ faults' = faults
            \/ n < Len(text) /\ faults' = faults + 1
BY DEF Flush, OutIs

LEMMA LessOf ==
  ASSUME NEW f \in Files, Texts \in [Files -> Seq(Chars)], NEW m \in 0 .. REDIR_OBUF_LEN,
         m <= Len(Texts[f]),
         Texts' = [Texts EXCEPT ![f] = SubSeq(@, 1, Len(@) - m)]
  PROVE  S!Less(f)
BY DEF S!Less

LEMMA TypeToFileStreams ==
  ASSUME IInv, RInv, OutIs, IInv', RInv', OutIs', NEW c \in Chars, TypeToFile(c)
  PROVE  S!Type(c) \/ S!Lose
<1> DEFINE text == Append(redir_obuf, c)
           o == relay.out
<1>1. /\ InChildSame /\ pc' = pc /\ K_TYPE = "file"
      /\ UNCHANGED <<fcbs, screen, got>>
  BY InChildIs DEF TypeToFile, InChild
<1>2. Line # NoLine /\ Line' = Line /\ Line.out = o /\ Pos' = Pos
  BY <1>1, LineRuns DEF InChildSame
<1>3. OutOpen /\ OutOpen' /\ o \in Files /\ relay' = relay /\ o # NoRedir
  <2>1. OutAsAsked /\ o \in {NoRedir, NUL} \cup Files
    BY <1>1 DEF InChildSame, RInv, Routed, IInv, MemoryTypes
  <2>2. o \in Files
    BY <1>1, <2>1, LeadsWhere DEF OutAsAsked
  <2>3. OutOpen
    BY <2>1, <2>2, OutWithFile
  <2> QED
    BY <1>1, <2>2, <2>3, Devices DEF InChildSame, OutOpen
<1>4. /\ redir_obuf \in Seq(Chars) /\ Len(redir_obuf) < REDIR_OBUF_LEN
      /\ disk \in [Files -> Seq(Chars)] /\ REDIR_OBUF_LEN \in Nat
      /\ Len(redir_obuf) \in Nat
  BY BufferTypes
<1>5. text \in Seq(Chars) /\ Len(text) = Len(redir_obuf) + 1
  BY <1>4
<1>6. /\ Texts = [disk EXCEPT ![o] = @ \o redir_obuf]
      /\ Texts' = [disk' EXCEPT ![o] = @ \o redir_obuf']
      /\ Texts \in [Files -> Seq(Chars)]
  BY <1>3, TextsAre, TextsAreNext DEF TextsFollow
<1>7. Texts[o] = disk[o] \o redir_obuf /\ disk[o] \in Seq(Chars)
  BY <1>3, <1>4, <1>6
<1>8. disk[o] \o text = Append(Texts[o], c)
  BY <1>4, <1>7, CatAppend
<1>9. ASSUME Texts' = [disk EXCEPT ![o] = @ \o text], faults' = faults
      PROVE  S!Type(c)
  <2>1. Texts' = [Texts EXCEPT ![o] = Append(@, c)]
    <3>1. Texts' = [disk EXCEPT ![o] = Append(Texts[o], c)]
      BY <1>7, <1>8, <1>9
    <3> HIDE DEF text
    <3> QED
      BY <1>3, <1>4, <1>6, <3>1
  <2> QED
    BY <1>1, <1>2, <1>3, <1>9, <2>1 DEF S!Type
<1>10. CASE ~Full(text)
  <2>1. redir_obuf' = text /\ disk' = disk /\ faults' = faults
    BY <1>10 DEF TypeToFile
  <2> QED
    BY <1>6, <1>9, <2>1
<1>11. CASE Full(text)
  <2>1. PICK n \in 0 .. Len(text) : Flush(text, n)
    BY <1>11 DEF TypeToFile
  <2>2. redir_obuf' = <<>>
    BY <1>11 DEF TypeToFile
  <2>3. Texts' = disk'
    BY <2>2, TextsAreNext DEF TextsFollow
  <2>4. /\ disk' = [disk EXCEPT ![o] = @ \o SubSeq(text, 1, n)]
        /\ \/ n = Len(text) /\ faults' = faults
           \/ n < Len(text) /\ faults' = faults + 1
    BY <1>3, <1>5, <2>1, FlushGives
  <2>5. CASE n = Len(text) /\ faults' = faults
    <3>1. SubSeq(text, 1, n) = text
      BY <1>5, <2>5, SubSeqFull
    <3> QED
      BY <1>9, <2>3, <2>4, <2>5, <3>1
  <2>6. CASE n < Len(text) /\ faults' = faults + 1
    <3> DEFINE m == Len(redir_obuf) - n
    <3>1. n \in 0 .. Len(redir_obuf)
      BY <1>4, <1>5, <2>6
    <3>2. SubSeq(text, 1, n) = SubSeq(redir_obuf, 1, n)
      BY <1>4, <3>1, AppendPrefix
    <3>3. disk[o] \o SubSeq(redir_obuf, 1, n) = SubSeq(Texts[o], 1, Len(Texts[o]) - m)
      BY <1>4, <1>7, <3>1, CatPrefix
    <3>4. m \in 0 .. REDIR_OBUF_LEN /\ m <= Len(Texts[o])
      <4>1. Len(Texts[o]) = Len(disk[o]) + Len(redir_obuf) /\ Len(disk[o]) \in Nat
        BY <1>4, <1>7, ConcatProperties
      <4> QED
        BY <1>4, <3>1, <4>1
    <3>5. Texts' = [Texts EXCEPT ![o] = SubSeq(@, 1, Len(@) - m)]
      <4>1. Texts' = [disk EXCEPT ![o] = SubSeq(Texts[o], 1, Len(Texts[o]) - m)]
        BY <2>3, <2>4, <3>2, <3>3
      <4> HIDE DEF m, text
      <4> QED
        BY <1>3, <1>4, <1>6, <4>1
    <3>6. S!Less(o)
      BY <1>3, <1>6, <3>4, <3>5, LessOf
    <3> QED
      BY <1>1, <1>2, <1>3, <2>6, <3>6 DEF S!Lose
  <2> QED
    BY <2>4, <2>5, <2>6
<1> QED
  BY <1>10, <1>11

LEMMA ReadFileStreams ==
  ASSUME IInv, RInv, OutIs, IInv', RInv', OutIs', ReadFile
  PROVE  S!Read \/ S!ReadFails
<1> DEFINE h == redir_in.handle
           i == relay.in
<1>1. /\ InChildSame /\ pc' = pc /\ K_READ = "file"
      /\ UNCHANGED <<redir_obuf, disk, screen>>
  BY InChildIs DEF ReadFile, InChild
<1>2. Line # NoLine /\ Line' = Line /\ Line.in = i /\ (UNCHANGED fcbs => Pos' = Pos)
  BY <1>1, LineRuns DEF InChildSame
<1>3. InAsAsked /\ InAsAsked' /\ i \in {NoRedir, NUL} \cup Files
  BY <1>1 DEF InChildSame, RInv, Routed, IInv, MemoryTypes
<1>4. i \in Files
  BY <1>1, <1>3, LeadsWhere DEF InAsAsked
<1>5. /\ h \in DOMAIN fcbs /\ fcbs[h].file = i /\ Pos = fcbs[h].pos
      /\ Pos' = fcbs'[h].pos /\ i # relay.out
  <2>1. relay.out \in Files => relay.in # relay.out
    BY DEF RInv, Quiet
  <2>2. redir_in' = redir_in /\ relay' = relay
    BY <1>1 DEF InChildSame
  <2>3. h \in DOMAIN fcbs /\ fcbs[h].file = i /\ i # relay.out
    BY <1>3, <1>4, <2>1 DEF InAsAsked
  <2>4. InHandle /\ InHandle'
    BY <1>3, <1>4, <2>2, Devices DEF InAsAsked, InHandle
  <2> QED
    BY <2>2, <2>3, <2>4 DEF Pos
<1>6. disk \in [Files -> Seq(Chars)] /\ fcbs[h] \in [file : Files, pos : Nat]
  BY <1>5 DEF RInv, DeviceTypes
<1>7. Texts[i] = disk[i]
  <2>1. Texts = disk \/ Texts = [disk EXCEPT ![relay.out] = @ \o redir_obuf]
    BY TextsAre DEF TextsFollow
  <2> QED
    BY <1>4, <1>5, <1>6, <2>1
<1>8. disk' = disk /\ UNCHANGED <<redir_out, redir_obuf, relay>>
  BY <1>1 DEF InChildSame
<1>9. Texts' = Texts
  <2>1. CASE OutOpen
    <3>1. OutOpen' /\ relay' = relay
      BY <1>8, <2>1 DEF OutOpen
    <3> QED
      BY <1>8, <2>1, <3>1, TextsAre, TextsAreNext DEF TextsFollow
  <2>2. CASE ~OutOpen
    <3>1. ~OutOpen'
      BY <1>8, <2>2 DEF OutOpen
    <3> QED
      BY <1>8, <2>2, <3>1, TextsAre, TextsAreNext DEF TextsFollow
  <2> QED
    BY <2>1, <2>2
<1> DEFINE rest == Len(disk[i]) - Pos
<1>10. Len(disk[i]) \in Nat /\ Pos \in Nat
  BY <1>4, <1>5, <1>6
<1>11. \/ /\ rest > 0 /\ got' = disk[i][Pos + 1]
          /\ fcbs' = [fcbs EXCEPT ![h].pos = @ + 1] /\ UNCHANGED faults
       \/ rest = 0 /\ got' = "end" /\ UNCHANGED <<fcbs, faults>>
       \/ faults' = faults + 1 /\ got' = "end" /\ UNCHANGED fcbs
  BY <1>5 DEF ReadFile
<1>12. CASE /\ rest > 0 /\ got' = disk[i][Pos + 1]
            /\ fcbs' = [fcbs EXCEPT ![h].pos = @ + 1] /\ UNCHANGED faults
  <2>1. Pos' = Pos + 1
    <3>1. fcbs'[h] = [fcbs[h] EXCEPT !.pos = @ + 1]
      BY <1>5, <1>12
    <3> QED
      BY <1>5, <1>6, <3>1
  <2>2. Pos < Len(Texts[i])
    BY <1>7, <1>10, <1>12
  <2> QED
    BY <1>1, <1>2, <1>4, <1>7, <1>9, <1>12, <2>1, <2>2 DEF S!Read
<1>13. CASE rest = 0 /\ got' = "end" /\ UNCHANGED <<fcbs, faults>>
  <2>1. ~(Pos < Len(Texts[i]))
    BY <1>7, <1>10, <1>13
  <2> QED
    BY <1>1, <1>2, <1>4, <1>9, <1>13, <2>1, Devices DEF S!Read
<1>14. CASE faults' = faults + 1 /\ got' = "end" /\ UNCHANGED fcbs
  BY <1>1, <1>2, <1>4, <1>9, <1>14 DEF S!ReadFails
<1> QED
  BY <1>11, <1>12, <1>13, <1>14

LEMMA TeardownStreams ==
  ASSUME IInv, RInv, OutIs, IInv', RInv', OutIs', Teardown
  PROVE  S!End \/ UNCHANGED Seen
<1>1. pc \in {"returned", "failed"} /\ pc' = "run_loop" /\ screen' = <<>> /\ got' = "console"
  BY DEF Teardown
<1>2. ~Running' /\ ~redir_in'.active
  <2>1. ~Running'
    BY <1>1 DEF Running
  <2> QED
    BY <1>1, <2>1 DEF RInv, Routed, PlainIn
<1>3. PICK n \in 0 .. Len(redir_obuf) : CloseOut(n)
  BY DEF Teardown
<1>4. redir_obuf \in Seq(Chars) /\ disk \in [Files -> Seq(Chars)] /\ Len(redir_obuf) \in Nat
      /\ Len(redir_obuf) < REDIR_OBUF_LEN /\ REDIR_OBUF_LEN \in Nat
  BY BufferTypes
<1>5. Texts' = disk'
  <2>1. redir_obuf' = <<>>
    BY <1>2 DEF RInv, Quiet
  <2> QED
    BY <2>1, TextsAreNext DEF TextsFollow
<1>6. CASE pc = "failed"
  <2>1. ~Running /\ ~redir_in.active /\ ~OutOpen
    BY <1>6 DEF RInv, Routed, Running
  <2>2. UNCHANGED <<disk, faults>>
    BY <1>3, <2>1 DEF CloseOut
  <2> QED
    BY <1>2, <2>1, <2>2, BetweenLines
<1>7. CASE pc = "returned"
  <2>1. Line # NoLine /\ Line.out = relay.out /\ Line' = NoLine
    BY <1>2, <1>7, LineIs DEF Running, Line, NoLine
  <2>2. Pos' = 0
    BY <1>2 DEF Pos, InHandle
  <2>3. CASE ~OutOpen
    <3>1. UNCHANGED <<disk, faults>> /\ Texts = disk
      BY <1>3, <2>3, TextsAre DEF CloseOut, TextsFollow
    <3> QED
      BY <1>1, <1>5, <2>1, <2>2, <3>1 DEF S!End
  <2>4. CASE OutOpen
    <3> DEFINE o == relay.out
    <3>1. o \in Files
      BY <2>4 DEF OutIs
    <3>2. Texts = [disk EXCEPT ![o] = @ \o redir_obuf] /\ Texts \in [Files -> Seq(Chars)]
      BY <2>4, TextsAre DEF TextsFollow
    <3>3. Texts[o] = disk[o] \o redir_obuf /\ disk[o] \in Seq(Chars)
      BY <1>4, <3>1, <3>2
    <3>4. /\ disk' = [disk EXCEPT ![o] = @ \o SubSeq(redir_obuf, 1, n)]
          /\ \/ n = Len(redir_obuf) /\ faults' = faults
             \/ n < Len(redir_obuf) /\ faults' = faults + 1
      <4>1. Flush(redir_obuf, n)
        BY <1>3, <2>4 DEF CloseOut
      <4> QED
        BY <1>4, <2>4, <4>1, FlushGives
    <3>5. CASE n = Len(redir_obuf) /\ faults' = faults
      <4>1. SubSeq(redir_obuf, 1, n) = redir_obuf
        BY <1>4, <3>5, SubSeqFull
      <4>2. Texts' = Texts
        BY <1>5, <3>2, <3>4, <4>1
      <4> QED
        BY <1>1, <2>1, <2>2, <3>5, <4>2 DEF S!End
    <3>6. CASE n < Len(redir_obuf) /\ faults' = faults + 1
      <4> DEFINE m == Len(redir_obuf) - n
      <4>1. disk[o] \o SubSeq(redir_obuf, 1, n) = SubSeq(Texts[o], 1, Len(Texts[o]) - m)
        BY <1>4, <3>3, CatPrefix
      <4>2. m \in 0 .. REDIR_OBUF_LEN /\ m <= Len(Texts[o])
        <5>1. Len(Texts[o]) = Len(disk[o]) + Len(redir_obuf) /\ Len(disk[o]) \in Nat
          BY <1>4, <3>3, ConcatProperties
        <5> QED
          BY <1>4, <3>6, <5>1
      <4>3. Texts' = [Texts EXCEPT ![o] = SubSeq(@, 1, Len(@) - m)]
        <5>1. Texts' = [disk EXCEPT ![o] = SubSeq(Texts[o], 1, Len(Texts[o]) - m)]
          BY <1>5, <3>4, <4>1
        <5> HIDE DEF m
        <5> QED
          BY <1>4, <3>1, <3>2, <5>1
      <4>4. S!Less(o)
        BY <3>1, <3>2, <4>2, <4>3, LessOf
      <4> QED
        BY <1>1, <2>1, <2>2, <3>1, <3>6, <4>4 DEF S!End
    <3> QED
      BY <3>4, <3>5, <3>6
  <2> QED
    BY <2>3, <2>4
<1> QED
  BY <1>1, <1>6, <1>7

LEMMA NextStreams ==
  ASSUME IInv, RInv, IInv', RInv', [Next]_vars
  PROVE  [S!Next]_(S!vars)
<1> USE WhereOut, WhereOutNext
<1>1. UNCHANGED Seen => [S!Next]_(S!vars)
  BY DEF Seen, S!vars
<1>2. CASE Boot \/ RunLoop \/ ProgRun \/ Shell
  BY <1>1, <1>2, QuietSteps
<1>3. CASE Teardown
  BY <1>1, <1>3, TeardownStreams DEF S!Next
<1>4. CASE Redirect
  <2>1. relay.in \in S!Sources /\ relay.out \in S!Sources
    BY DEF S!Sources, IInv, MemoryTypes
  <2>2. CASE OpenInFails \/ OutToNul \/ NoOut
    BY <1>1, <2>2, QuietSteps
  <2>3. CASE OpenOut
    BY <1>1, <2>3, OpenOutStreams DEF S!Next
  <2>4. CASE OpenSecondFails
    BY <1>1, <2>4, OpenSecondFailsStreams
  <2>5. CASE OpenIn \/ OpenSecond \/ InFromNul \/ NoIn
    BY <1>1, <2>1, <2>5, BeginStreams DEF S!Next
  <2> QED
    BY <1>4, <2>2, <2>3, <2>4, <2>5 DEF Redirect
<1>5. CASE Child
  <2>1. ASSUME NEW c \in Chars, TypeOnScreen(c) \/ TypeToFile(c)
        PROVE  [S!Next]_(S!vars)
    BY <2>1, TypeOnScreenStreams, TypeToFileStreams DEF S!Next
  <2>2. CASE ReadFile \/ ReadElsewhere
    BY <2>2, ReadFileStreams, ReadElsewhereStreams DEF S!Next
  <2>3. CASE TypeNowhere \/ Release \/ Return \/ \E n \in Requests : Reserve(n)
    BY <1>1, <2>3, OtherChildStreams
  <2> QED
    BY <1>5, <2>1, <2>2, <2>3 DEF Child
<1>6. CASE UNCHANGED vars
  <2>1. UNCHANGED <<pc, relay, redirection, fcbs, io>>
    BY <1>6 DEF vars
  <2>2. UNCHANGED Seen
    BY <2>1 DEF redirection, io, Seen, Texts, Text, OutOpen, Line, Running, NoLine, Pos, InHandle
  <2> QED
    BY <1>1, <2>2
<1>7. Halt => UNCHANGED vars
  BY DEF Halt
<1> QED
  BY <1>2, <1>3, <1>4, <1>5, <1>6, <1>7 DEF Next, Kernel

\* The patched slots, the character buffer and the two file control blocks do
\* what a line with > >> < promises: what it types reaches its file once and in
\* order, what it reads is the text of its file, and a write that fails costs at
\* most one buffer of the end, for every size of buffer and number of files.
THEOREM ImplementsStreams == Spec => IsStreams
<1>1. Init => S!Init
  BY InitStreams
<1>2. (IInv /\ RInv) /\ (IInv /\ RInv)' /\ [Next]_vars => [S!Next]_(S!vars)
  BY NextStreams
<1> QED
  BY <1>1, <1>2, Routing, PTL DEF Spec, IsStreams, S!Spec
=============================================================================
