----------------------------- MODULE MCSession -----------------------------
(* A scaled memory map for Session: 20 addresses, pages of four, paragraphs  *)
(* of two.                                                                   *)
(*   0 prog_fcb   4 .. 19 programs and reservations                          *)
(* The module takes five addresses, its arguments one, a second file control *)
(* block three.  The small shell leaves room for all of it, the large one    *)
(* none for the arguments; the small program runs under every reservation,   *)
(* the large one leaves room for a second file control block only without a  *)
(* batch file, and does not fit under one.                                   *)
EXTENDS Session, TLC

Symmetric == Permutations(Files) \cup Permutations(Chars)
=============================================================================
