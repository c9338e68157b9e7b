------------------------------- MODULE Session -------------------------------
(***************************************************************************)
(* From one command line to the next: run_loop loads the shell, the shell  *)
(* reads a line (from the keyboard or from the batch file under way) and   *)
(* returns, and run_loop loads what the line names and runs it with its    *)
(* output and input redirected (kernel/kinit.asm, loader.asm, redir.asm,   *)
(* batch.asm, lib/modload.asm).  One processor runs all of this, one       *)
(* routine at a time; what is hard is that the routines share the memory   *)
(* between the program and the stack, one file control block, one buffer   *)
(* and the console's jump-table slots, and that each may fail half way.    *)
(*                                                                         *)
(* Memory is a line of addresses.  mem_top starts at RamTop, goes down by  *)
(* what is reserved for the batch module, its arguments, a second file     *)
(* control block and the program itself, and comes back.  Where each lies  *)
(* is kept as the code keeps it; what the bytes hold is left out.  Files   *)
(* are sequences of characters (FileIO models what is below); whether a    *)
(* path leads to a file that can be opened is left open at each use.       *)
(***************************************************************************)
EXTENDS Integers, Sequences

CONSTANTS
  RamTop,           \* mem_top after kernel_init: programs below, the stack above
  PROG_BASE,        \* where programs are loaded
  Page,             \* 256: no file control block may cross a multiple of it
  ParaSize,         \* 16: mem_base is rounded up to a multiple of it
  FCB_LEN, SECTOR_SIZE, REDIR_OBUF_LEN, BATCH_ARGS_RESERVE_LEN,
  ModSize,          \* code_size of batch.mod
  prog_fcb,         \* the address of the loader's file control block
  ShellSizes,       \* bytes that C:/bin/shell may have
  ProgSizes,        \* bytes that a program may have
  Requests,         \* what programs ask of K_HIMEM_RESERVE
  Files, Chars, NUL, NoRedir,
  MaxText,          \* bound: length of two files together
  MaxScreen,        \* bound: length of what a line types on the screen
  MaxFaults         \* bound: transfers of redirected text that fail

ASSUME Layout ==
  /\ {RamTop, PROG_BASE, ModSize, SECTOR_SIZE, prog_fcb} \subseteq Nat
  /\ {Page, ParaSize, FCB_LEN, REDIR_OBUF_LEN, BATCH_ARGS_RESERVE_LEN} \subseteq Nat \ {0}
  /\ ShellSizes \subseteq Nat /\ ProgSizes \subseteq Nat /\ Requests \subseteq Nat \ {0}
  /\ prog_fcb + FCB_LEN <= PROG_BASE
ASSUME Devices == NUL # NoRedir /\ {NUL, NoRedir} \cap Files = {}

MOD_RESERVE_PAD == Page - 1
ModReserve == ModSize + MOD_RESERVE_PAD
REDIR_RESERVE_LEN == FCB_LEN + SECTOR_SIZE

\* kernel_init starts autoexec.bat while mem_base is still 0, so that no test
\* keeps the module above PROG_BASE: the machine has to have the memory.
ASSUME Machine == PROG_BASE <= RamTop - ModReserve

VARIABLES
  pc,                       \* the routine that runs
  mem_top, mem_base, prog_size,
  args_top,                 \* LOADER_ARGS+2: mem_top as programs see it
  runs_shell,               \* prog_run has been called by prog_run_shell
  relay,                    \* RUN_REDIR_OUT, RUN_REDIR_OUT_APPEND, RUN_REDIR_IN
  batch_mod_active, batch_mod_base, batch_mod_reserve_size,
  batch_args_reserved,
  args_at,                  \* where the shell put the batch file's arguments
  redir_out, redir_in,      \* redir_out_active, _null, _handle; the same for _in
  redir_stack_reserved,
  redir_obuf,               \* the redir_ocount characters waiting in redir_obuf
  K_TYPE, K_READ, K_NBREAD, \* where the three jump-table slots lead
  fcbs,                     \* the open file control blocks, by address
  own,                      \* what the program has reserved: [at, len]
  disk, screen, got,        \* the files; what the line typed, what K_READ gave it
  faults

memory == <<mem_top, mem_base, prog_size, args_top>>
batch == <<batch_mod_active, batch_mod_base, batch_mod_reserve_size, batch_args_reserved, args_at>>
redirection == <<redir_out, redir_in, redir_stack_reserved, redir_obuf>>
slots == <<K_TYPE, K_READ, K_NBREAD>>
io == <<disk, screen, got, faults>>
vars == <<pc, memory, runs_shell, relay, batch, redirection, slots, fcbs, own, io>>

Closed == [active |-> FALSE, null |-> FALSE, handle |-> 0]
Nothing == [at |-> 0, len |-> 0]

-----------------------------------------------------------------------------
(* Memory *)

\* _himem_reserve: refused if the subtraction borrows or leads below mem_base.
\* LOADER_ARGS follows mem_top down; _himem_release does not take it up again.
Fits(n) == n <= mem_top /\ mem_base <= mem_top - n
himem_reserve(n) ==
  /\ Fits(n)
  /\ mem_top' = mem_top - n /\ args_top' = mem_top - n
himem_release(n) == mem_top' = mem_top + n

\* Both add what is missing at most, then clear the low bits.
Cleared(n, unit) == n - (n % unit)
AlignUp(raw) == Cleared(raw + MOD_RESERVE_PAD, Page)
RoundUp(n) == Cleared(n + (ParaSize - 1), ParaSize)

-----------------------------------------------------------------------------
(* The loader *)

\* _prog_finish_load reads as much of the file as there is room for.
Loaded(n) == IF n <= mem_top - PROG_BASE THEN n ELSE mem_top - PROG_BASE
Finish(n) ==
  /\ prog_size' = Loaded(n)
  /\ mem_base' = PROG_BASE + RoundUp(Loaded(n))
  /\ args_top' = mem_top /\ UNCHANGED mem_top

\* A file that cannot be opened or read, or that has been read and does not
\* begin with "EDF".
FinishFails(n) ==
  /\ prog_size' \in {prog_size, Loaded(n)}
  /\ UNCHANGED <<mem_top, mem_base, args_top>>

\* Mutant: the tokenizer's clearing is held to be enough.
RelayAsItWas == relay

\* run_loop clears what the last line left, then prog_run_shell tries the
\* cached directory entry and, if that does not lead to a program, the path.
\* RUN_REDIR_OUT_APPEND says nothing without an output.
ClearedRelay == [relay EXCEPT !.out = NoRedir, !.append = FALSE, !.in = NoRedir]
RunLoop ==
  /\ pc = "run_loop" /\ relay' = ClearedRelay
  /\ \E n \in ShellSizes :
       \/ pc' = "shell" /\ Finish(n) /\ UNCHANGED runs_shell
       \/ pc' = "prog_run" /\ FinishFails(n) /\ runs_shell' = TRUE
  /\ UNCHANGED <<batch, redirection, slots, fcbs, own, io>>

Sizes == IF runs_shell THEN ShellSizes ELSE ProgSizes
ProgRun ==
  /\ pc = "prog_run"
  /\ \E n \in Sizes : \/ pc' = "redir_out" /\ Finish(n)
                      \/ pc' = "failed" /\ FinishFails(n)
  /\ UNCHANGED <<runs_shell, relay, batch, redirection, slots, fcbs, own, io>>

\* Without a shell run_loop ends in a loop of its own.
Halt == pc = "failed" /\ runs_shell /\ UNCHANGED vars

\* _prog_exec_now
Execute == pc' = IF runs_shell THEN "shell" ELSE "child"

-----------------------------------------------------------------------------
(* Redirection *)

Open(h, f) == fcbs' = [a \in DOMAIN fcbs \cup {h} |->
                         IF a = h THEN [file |-> f, pos |-> 0] ELSE fcbs[a]]
Without(open, h) == [a \in DOMAIN open \ {h} |-> open[a]]
Straddles(h) == (h % Page) + FCB_LEN > Page

\* _redir_flush_out, of which the file keeps the first n characters.
Flush(text, n) ==
  LET h == redir_out.handle IN
  /\ \/ n = Len(text) /\ UNCHANGED faults
     \/ n < Len(text) /\ faults < MaxFaults /\ faults' = faults + 1
  /\ disk' = IF h \in DOMAIN fcbs
             THEN [disk EXCEPT ![fcbs[h].file] = @ \o SubSeq(text, 1, n)] ELSE disk

\* The output: prog_fcb, opened to be written (from the start or at the end).
OpenOut ==
  /\ pc = "redir_out" /\ relay.out \in Files
  /\ \/ pc' = "failed" /\ UNCHANGED <<disk, fcbs, redir_out, K_TYPE>>
     \/ /\ pc' = "redir_in"
        /\ disk' = IF relay.append THEN disk ELSE [disk EXCEPT ![relay.out] = <<>>]
        /\ Open(prog_fcb, relay.out)
        /\ redir_out' = [redir_out EXCEPT !.active = TRUE, !.handle = prog_fcb]
        /\ K_TYPE' = "file"
  /\ UNCHANGED <<memory, runs_shell, relay, batch, redir_in, redir_stack_reserved,
                 redir_obuf, K_READ, K_NBREAD, own, screen, got, faults>>

OutToNul ==
  /\ pc = "redir_out" /\ relay.out = NUL
  /\ pc' = "redir_in" /\ K_TYPE' = "discard"
  /\ redir_out' = [redir_out EXCEPT !.active = TRUE, !.null = TRUE]
  /\ UNCHANGED <<memory, runs_shell, relay, batch, redir_in, redir_stack_reserved,
                 redir_obuf, K_READ, K_NBREAD, fcbs, own, io>>

NoOut ==
  /\ pc = "redir_out" /\ relay.out = NoRedir
  /\ pc' = "redir_in"
  /\ UNCHANGED <<memory, runs_shell, relay, batch, redirection, slots, fcbs, own, io>>

\* _patch_read_vectors
PatchReads(target) == K_READ' = target /\ K_NBREAD' = target

\* rs_in_single: the input may have prog_fcb unless the output has it.
OutOpen == redir_out.active /\ ~redir_out.null
OpenIn ==
  /\ pc = "redir_in" /\ relay.in \in Files /\ ~OutOpen
  /\ Execute /\ PatchReads("file")
  /\ Open(prog_fcb, relay.in)
  /\ redir_in' = [redir_in EXCEPT !.active = TRUE, !.handle = prog_fcb]
  /\ UNCHANGED <<memory, runs_shell, relay, batch, redir_out, redir_stack_reserved,
                 redir_obuf, K_TYPE, own, io>>

OpenInFails ==
  /\ pc = "redir_in" /\ relay.in \in Files /\ ~OutOpen
  /\ pc' = "failed"
  /\ UNCHANGED <<memory, runs_shell, relay, batch, redirection, slots, fcbs, own, io>>

\* rs_in_dual: a second one, with its buffer, below mem_top.  file_open refuses
\* one that crosses a page.
Second == mem_top - REDIR_RESERVE_LEN + 1
OpenSecond ==
  /\ pc = "redir_in" /\ relay.in \in Files /\ OutOpen
  /\ himem_reserve(REDIR_RESERVE_LEN) /\ redir_stack_reserved' = TRUE
  /\ ~Straddles(Second)
  /\ Execute /\ PatchReads("file")
  /\ Open(Second, relay.in)
  /\ redir_in' = [redir_in EXCEPT !.active = TRUE, !.handle = Second]
  /\ UNCHANGED <<mem_base, prog_size, runs_shell, relay, batch, redir_out,
                 redir_obuf, K_TYPE, own, io>>

\* Mutant: what is in the buffer stays there.
CloseOutUnflushed(n) ==
  /\ redir_out' = [redir_out EXCEPT !.active = FALSE, !.null = FALSE]
  /\ UNCHANGED <<disk, faults, redir_obuf>>

\* _redir_close_out_if_open, with the file keeping n of what is in the buffer.
CloseOut(n) ==
  /\ redir_out' = [redir_out EXCEPT !.active = FALSE, !.null = FALSE]
  /\ IF OutOpen THEN Flush(redir_obuf, n) /\ redir_obuf' = <<>>
                ELSE UNCHANGED <<disk, faults, redir_obuf>>
OutClosed == IF OutOpen THEN Without(fcbs, redir_out.handle) ELSE fcbs

\* rs_err_undo_reserve and rs_err_maybe_close_out.  The slots stay patched, and
\* LOADER_ARGS low, until the line is over.
OpenSecondFails ==
  /\ pc = "redir_in" /\ relay.in \in Files /\ OutOpen
  /\ pc' = "failed"
  /\ IF Fits(REDIR_RESERVE_LEN)
     THEN /\ args_top' = mem_top - REDIR_RESERVE_LEN
          /\ redir_in' = [redir_in EXCEPT !.handle = Second]
     ELSE UNCHANGED <<args_top, redir_in>>
  /\ CloseOut(0) /\ fcbs' = OutClosed
  /\ UNCHANGED <<mem_top, mem_base, prog_size, runs_shell, relay, batch,
                 redir_stack_reserved, slots, own, screen, got>>

InFromNul ==
  /\ pc = "redir_in" /\ relay.in = NUL
  /\ Execute /\ PatchReads("eof")
  /\ redir_in' = [redir_in EXCEPT !.active = TRUE, !.null = TRUE]
  /\ UNCHANGED <<memory, runs_shell, relay, batch, redir_out, redir_stack_reserved,
                 redir_obuf, K_TYPE, fcbs, own, io>>

NoIn ==
  /\ pc = "redir_in" /\ relay.in = NoRedir
  /\ Execute
  /\ UNCHANGED <<memory, runs_shell, relay, batch, redirection, slots, fcbs, own, io>>

\* _redir_teardown, whatever came of the line.  What was typed on the screen and
\* read last are kept for as long as the line runs.
Teardown ==
  /\ pc = "returned" \/ (pc = "failed" /\ ~runs_shell)
  /\ pc' = "run_loop"
  /\ \E n \in 0 .. Len(redir_obuf) : CloseOut(n)
  /\ redir_in' = [redir_in EXCEPT !.active = FALSE, !.null = FALSE]
  /\ fcbs' = IF redir_in.active /\ ~redir_in.null
             THEN Without(OutClosed, redir_in.handle) ELSE OutClosed
  /\ himem_release(IF redir_stack_reserved THEN REDIR_RESERVE_LEN ELSE 0)
  /\ redir_stack_reserved' = FALSE
  /\ K_TYPE' = "console" /\ PatchReads("console")
  /\ screen' = <<>> /\ got' = "console"
  /\ UNCHANGED <<mem_base, prog_size, args_top, runs_shell, relay, batch, own>>

-----------------------------------------------------------------------------
(* Batch files *)

\* batch_start: mod_load reserves and reads the module, the module opens the
\* batch file; more is what the shell reserves next.
ModuleIn(more) ==
  /\ ~batch_mod_active /\ Fits(ModReserve) /\ himem_reserve(ModReserve + more)
  /\ batch_mod_active' = TRUE /\ batch_mod_reserve_size' = ModReserve
  /\ batch_mod_base' = AlignUp(mem_top - ModReserve + 1)

\* Refused (a batch file is active, there is no memory or no module), or undone
\* because the module or the batch file cannot be read.
NotStarted ==
  /\ \/ UNCHANGED args_top
     \/ ~batch_mod_active /\ Fits(ModReserve) /\ args_top' = mem_top - ModReserve
  /\ UNCHANGED <<mem_top, batch>>

ArgsLen == IF batch_args_reserved THEN BATCH_ARGS_RESERVE_LEN ELSE 0

\* Mutant: the flag is cleared before it is looked at.
BatchEndsKeepingArgs ==
  /\ himem_release(batch_mod_reserve_size)
  /\ batch_mod_active' = FALSE /\ batch_args_reserved' = FALSE
  /\ UNCHANGED <<args_top, batch_mod_base, batch_mod_reserve_size, args_at>>

\* batch_mod_teardown
BatchEnds ==
  /\ himem_release(batch_mod_reserve_size + ArgsLen)
  /\ batch_mod_active' = FALSE /\ batch_args_reserved' = FALSE
  /\ UNCHANGED <<args_top, batch_mod_base, batch_mod_reserve_size, args_at>>

\* kernel_init: /autoexec.bat, without arguments.
Boot ==
  /\ pc = "boot" /\ pc' = "run_loop"
  /\ NotStarted \/ (ModuleIn(0) /\ UNCHANGED <<batch_args_reserved, args_at>>)
  /\ UNCHANGED <<mem_base, prog_size, runs_shell, relay, redirection, slots, fcbs, own, io>>

-----------------------------------------------------------------------------
(* The shell, from the line it has read to its return.  It asks for a line   *)
(* of the batch file first, and again after a line it has done itself.       *)

InShell == pc = "shell" /\ UNCHANGED <<mem_base, prog_size, redirection, slots, fcbs, own, io>>

\* batch_readline finds the end of the file, or batch_goto no such label.
LastLine == InShell /\ batch_mod_active /\ BatchEnds /\ UNCHANGED <<pc, runs_shell, relay>>

\* is_batch: K_BATCH_START, then K_BATCH_ARGS_RESERVE, which may fail on its own.
StartBatch ==
  /\ InShell /\ UNCHANGED <<pc, runs_shell, relay>>
  /\ \/ NotStarted
     \/ /\ ModuleIn(BATCH_ARGS_RESERVE_LEN)
        /\ batch_args_reserved' = TRUE
        /\ args_at' = mem_top - ModReserve - BATCH_ARGS_RESERVE_LEN + 1
     \/ /\ ~Fits(ModReserve + BATCH_ARGS_RESERVE_LEN)
        /\ ModuleIn(0) /\ UNCHANGED <<batch_args_reserved, args_at>>

\* The line names a program; the tokenizer sets the relay slots.  The text a
\* line reads and the text it writes are kept apart here.
ShellReturns ==
  /\ InShell /\ UNCHANGED <<mem_top, args_top, batch>>
  /\ pc' = "prog_run" /\ runs_shell' = FALSE
  /\ \E o, i \in {NoRedir, NUL} \cup Files, more \in BOOLEAN :
       /\ o \in Files => i # o
       /\ more => o \in Files
       /\ relay' = [out |-> o, append |-> more, in |-> i]

-----------------------------------------------------------------------------
(* The program types, reads and uses high memory, and gives that back before *)
(* it returns.                                                               *)

InChild == pc = "child" /\ UNCHANGED <<mem_base, prog_size, runs_shell, relay, batch,
                                       redir_out, redir_in, redir_stack_reserved, slots>>

TypeOnScreen(c) ==
  /\ InChild /\ K_TYPE = "console" /\ Len(screen) < MaxScreen
  /\ screen' = Append(screen, c)
  /\ UNCHANGED <<pc, mem_top, args_top, redir_obuf, fcbs, own, disk, got, faults>>

TypeNowhere ==
  /\ InChild /\ K_TYPE = "discard"
  /\ UNCHANGED <<pc, mem_top, args_top, redir_obuf, fcbs, own, io>>

\* Mutant: the buffer is written when the character after it comes.
FullLate(text) == Len(text) > REDIR_OBUF_LEN

\* _type_to_file
Room == \A f, g \in Files :
          f # g => Len(disk[f]) + Len(disk[g]) + Len(redir_obuf) < MaxText
Full(text) == Len(text) = REDIR_OBUF_LEN
TypeToFile(c) ==
  LET text == Append(redir_obuf, c) IN
  /\ InChild /\ K_TYPE = "file" /\ Room
  /\ IF Full(text)
     THEN redir_obuf' = <<>> /\ \E n \in 0 .. Len(text) : Flush(text, n)
     ELSE redir_obuf' = text /\ UNCHANGED <<disk, faults>>
  /\ UNCHANGED <<pc, mem_top, args_top, fcbs, own, screen, got>>

\* _read_from_file: the next character; "end" behind the last one and when
\* file_read fails.
ReadFile ==
  /\ InChild /\ K_READ = "file"
  /\ LET h == redir_in.handle
         rest == IF h \in DOMAIN fcbs THEN Len(disk[fcbs[h].file]) - fcbs[h].pos ELSE 0
     IN  \/ /\ rest > 0 /\ got' = disk[fcbs[h].file][fcbs[h].pos + 1]
            /\ fcbs' = [fcbs EXCEPT ![h].pos = @ + 1] /\ UNCHANGED faults
         \/ rest = 0 /\ got' = "end" /\ UNCHANGED <<fcbs, faults>>
         \/ /\ faults < MaxFaults /\ faults' = faults + 1
            /\ got' = "end" /\ UNCHANGED fcbs
  /\ UNCHANGED <<pc, mem_top, args_top, redir_obuf, own, disk, screen>>

\* _read_eof_immediate, or the BIOS's routine
ReadElsewhere ==
  /\ InChild /\ K_READ # "file"
  /\ got' = IF K_READ = "eof" THEN "end" ELSE "console"
  /\ UNCHANGED <<pc, mem_top, args_top, redir_obuf, fcbs, own, disk, screen, faults>>

\* kernel_himem_reserve, kernel_himem_release
Reserve(n) ==
  /\ InChild /\ own = Nothing /\ himem_reserve(n)
  /\ own' = [at |-> mem_top - n + 1, len |-> n]
  /\ UNCHANGED <<pc, redir_obuf, fcbs, io>>
Release ==
  /\ InChild /\ own # Nothing /\ himem_release(own.len) /\ own' = Nothing
  /\ UNCHANGED <<pc, args_top, redir_obuf, fcbs, io>>

Return ==
  /\ InChild /\ own = Nothing /\ pc' = "returned"
  /\ UNCHANGED <<mem_top, args_top, redir_obuf, fcbs, own, io>>

-----------------------------------------------------------------------------
Init ==
  /\ pc = "boot"
  /\ mem_top = RamTop /\ mem_base = 0 /\ prog_size = 0 /\ args_top = 0
  /\ runs_shell = FALSE
  /\ relay = [out |-> NoRedir, append |-> FALSE, in |-> NoRedir]
  /\ batch_mod_active = FALSE /\ batch_mod_base = 0 /\ batch_mod_reserve_size = 0
  /\ batch_args_reserved = FALSE /\ args_at = 0
  /\ redir_out = Closed /\ redir_in = Closed /\ redir_stack_reserved = FALSE /\ redir_obuf = <<>>
  /\ K_TYPE = "console" /\ K_READ = "console" /\ K_NBREAD = "console"
  /\ fcbs = [a \in {} |-> Closed] /\ own = Nothing
  /\ disk = [f \in Files |-> <<>>] /\ screen = <<>> /\ got = "console" /\ faults = 0

Redirect == OpenOut \/ OutToNul \/ NoOut \/ OpenIn \/ OpenInFails \/ OpenSecond
            \/ OpenSecondFails \/ InFromNul \/ NoIn
Kernel == Boot \/ RunLoop \/ ProgRun \/ Redirect \/ Teardown \/ Halt
Shell == LastLine \/ StartBatch \/ ShellReturns
Child == \/ \E c \in Chars : TypeOnScreen(c) \/ TypeToFile(c)
         \/ TypeNowhere \/ ReadFile \/ ReadElsewhere
         \/ \E n \in Requests : Reserve(n)
         \/ Release \/ Return
Next == Kernel \/ Shell \/ Child

Spec == Init /\ [][Next]_vars

-----------------------------------------------------------------------------
(* What has to hold *)

TypeOK ==
  /\ pc \in {"boot", "run_loop", "prog_run", "redir_out", "redir_in", "failed",
             "shell", "child", "returned"}
  /\ {mem_top, mem_base, prog_size, args_top, batch_mod_base, batch_mod_reserve_size,
      args_at} \subseteq Int
  /\ {runs_shell, batch_mod_active, batch_args_reserved, redir_stack_reserved} \subseteq BOOLEAN
  /\ relay \in [out : {NoRedir, NUL} \cup Files, append : BOOLEAN,
                in : {NoRedir, NUL} \cup Files]
  /\ {redir_out, redir_in} \subseteq [active : BOOLEAN, null : BOOLEAN, handle : Int]
  /\ own \in [at : Int, len : Nat]
  /\ redir_obuf \in Seq(Chars) /\ Len(redir_obuf) < REDIR_OBUF_LEN
  /\ disk \in [Files -> Seq(Chars)] /\ screen \in Seq(Chars)

\* The addresses that hold something, by what they hold.
Span(at, len) == at .. at + len - 1
Held == [program |-> Span(PROG_BASE, prog_size),
         module  |-> IF batch_mod_active THEN Span(batch_mod_base, ModSize) ELSE {},
         args    |-> IF batch_args_reserved THEN Span(args_at, BATCH_ARGS_RESERVE_LEN) ELSE {},
         second  |-> IF redir_stack_reserved THEN Span(redir_in.handle, REDIR_RESERVE_LEN) ELSE {},
         own     |-> Span(own.at, own.len)]

\* What is reserved, and so what mem_top lacks.
Taken == (IF batch_mod_active THEN ModReserve ELSE 0) + ArgsLen
         + (IF redir_stack_reserved THEN REDIR_RESERVE_LEN ELSE 0) + own.len

\* No two things share an address and the reservations lie above mem_top, the
\* program below it; every reservation is given back in full, by whichever way
\* its owner ends (a line that fails half way, a batch file that runs out while
\* its arguments are kept); no program is told of more memory than there is; and
\* the shell finds a batch file's arguments where kernel_batch_args_getarg looks
\* for them, at mem_top + 1, although mem_top has been elsewhere since.
HimemSafe ==
  /\ mem_top = RamTop - Taken
  /\ \A a, b \in DOMAIN Held : a # b => Held[a] \cap Held[b] = {}
  /\ Held.program \subseteq PROG_BASE .. mem_top
  /\ \A a \in DOMAIN Held \ {"program"} : Held[a] \subseteq mem_top + 1 .. RamTop
  /\ pc \in {"shell", "child"} => args_top <= mem_top
  /\ pc = "shell" /\ batch_args_reserved => args_at = mem_top + 1

\* A program's console calls lead where its line says, through file control
\* blocks that are open on that file; and the shell's lead to the console, with
\* no redirection, buffered character or open file left over from the line before.
Leads(device, file) ==
  IF device = NoRedir THEN "console" ELSE IF device = NUL THEN file ELSE "file"
VectorsMatch ==
  /\ pc = "child" =>
       /\ K_TYPE = Leads(relay.out, "discard")
       /\ K_READ = Leads(relay.in, "eof") /\ K_NBREAD = K_READ
       /\ relay.out \in Files => /\ redir_out.handle \in DOMAIN fcbs
                                 /\ fcbs[redir_out.handle].file = relay.out
       /\ relay.in \in Files => /\ redir_in.handle \in DOMAIN fcbs
                                /\ fcbs[redir_in.handle].file = relay.in
  /\ pc = "shell" =>
       /\ {K_TYPE, K_READ, K_NBREAD} = {"console"}
       /\ ~redir_out.active /\ ~redir_in.active /\ ~redir_stack_reserved
       /\ redir_obuf = <<>> /\ DOMAIN fcbs = {}

\* A line begins when its program does and is over when _redir_teardown is.
Running == pc \in {"child", "returned"}
NoLine == [idle |-> TRUE]
Line == IF Running THEN [out |-> relay.out, in |-> relay.in] ELSE NoLine
Text(f) == IF OutOpen /\ redir_out.handle \in DOMAIN fcbs /\ fcbs[redir_out.handle].file = f
           THEN disk[f] \o redir_obuf ELSE disk[f]
Texts == [f \in Files |-> Text(f)]
InHandle == redir_in.active /\ ~redir_in.null /\ redir_in.handle \in DOMAIN fcbs
Pos == IF InHandle THEN fcbs[redir_in.handle].pos ELSE 0

S == INSTANCE Streams WITH
       Nul <- NUL, Console <- NoRedir, Keyboard <- "console", EndOfText <- "end",
       Idle <- NoLine, Buffer <- REDIR_OBUF_LEN, text <- Texts, line <- Line, pos <- Pos

\* Through the buffer, the patched slots and the shared file control block, what
\* a line types reaches its file once and in order, what it reads is the text of
\* its file, and a transfer that fails costs at most one buffer of the end.
IsStreams == S!Spec
=============================================================================
