------------------------------- MODULE Streams -------------------------------
(***************************************************************************)
(* What a command line with > >> < promises, with no buffer, no file       *)
(* control block, no patched vector and no memory in sight: what the       *)
(* command types goes, in order and once, to the file the line names (or   *)
(* to the screen, or nowhere), what it reads is the text of the file the   *)
(* line names, and the next command finds the files as they were left.     *)
(***************************************************************************)
EXTENDS Naturals, Sequences

CONSTANTS Files, Chars,
          Nul,        \* the null device
          Console,    \* what is not redirected
          Keyboard,   \* the result of reading from the console
          EndOfText,  \* the result of reading behind the end
          Idle,       \* no command is running
          Buffer      \* the most that one failing write may lose

VARIABLES
  text,     \* text[f]: what file f holds
  screen,   \* what the line has typed on the screen
  line,     \* what runs: Idle or [out, in], each in {Console, Nul} \cup Files
  pos,      \* characters read of the line's input file
  got,      \* what the line's last read gave
  faults    \* transfers that have failed

vars == <<text, screen, line, pos, got, faults>>

Init == /\ text = [f \in Files |-> <<>>] /\ screen = <<>>
        /\ line = Idle /\ pos = 0 /\ got = Keyboard /\ faults = 0

\* The output file of a line is emptied before its input file is looked for, so
\* it stays empty if that is missing and the line does not run.
Empty(f) == /\ line = Idle
            /\ text' = [text EXCEPT ![f] = <<>>]
            /\ UNCHANGED <<screen, line, pos, got, faults>>

Begin(o, i) == /\ line = Idle /\ line' = [out |-> o, in |-> i]
               /\ UNCHANGED <<text, screen, pos, got, faults>>

Type(c) == /\ line # Idle
           /\ text' = IF line.out \in Files THEN [text EXCEPT ![line.out] = Append(@, c)] ELSE text
           /\ screen' = IF line.out = Console THEN Append(screen, c) ELSE screen
           /\ UNCHANGED <<line, pos, got, faults>>

\* What f loses of its end when a write fails.
Less(f) == \E n \in 0 .. Buffer :
             /\ n <= Len(text[f])
             /\ text' = [text EXCEPT ![f] = SubSeq(@, 1, Len(@) - n)]

Lose == /\ line # Idle /\ line.out \in Files /\ Less(line.out)
        /\ faults' = faults + 1
        /\ UNCHANGED <<screen, line, pos, got>>

Read == /\ line # Idle
        /\ IF line.in \in Files /\ pos < Len(text[line.in])
           THEN got' = text[line.in][pos + 1] /\ pos' = pos + 1
           ELSE got' = (IF line.in = Console THEN Keyboard ELSE EndOfText) /\ pos' = pos
        /\ UNCHANGED <<text, screen, line, faults>>

ReadFails == /\ line # Idle /\ line.in \in Files
             /\ got' = EndOfText /\ faults' = faults + 1
             /\ UNCHANGED <<text, screen, line, pos>>

End == /\ line # Idle /\ line' = Idle
       /\ \/ UNCHANGED <<text, faults>>
          \/ line.out \in Files /\ Less(line.out) /\ faults' = faults + 1
       /\ screen' = <<>> /\ pos' = 0 /\ got' = Keyboard

Sources == {Console, Nul} \cup Files
Next == \/ \E f \in Files : Empty(f)
        \/ \E o, i \in Sources : Begin(o, i)
        \/ \E c \in Chars : Type(c)
        \/ Lose \/ Read \/ ReadFails \/ End

Spec == Init /\ [][Next]_vars
=============================================================================
