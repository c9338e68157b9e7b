------------------------------ MODULE MCFileIO ------------------------------
(* Instances of FileIO for TLC.                                            *)
EXTENDS FileIO, TLC

Symmetric == Permutations(Files) \cup Permutations(Fcbs)
=============================================================================
