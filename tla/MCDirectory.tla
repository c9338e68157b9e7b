----------------------------- MODULE MCDirectory -----------------------------
(* Instances of Directory for TLC.                                         *)
EXTENDS Directory

\* A clean 8.3 name; two long names cut to the same short name; and a clean
\* name that is this short name.
AllNames == {"A.TXT", "program.cfg", "program.log", "PROGRAM"}
NameParts == [n \in AllNames |-> IF n \in {"A.TXT", "PROGRAM"} THEN 0 ELSE 1]
NameShort ==
  [n \in AllNames |->
     [i \in 0 .. MaxTail |-> IF n = "A.TXT" THEN "A       TXT"
                             ELSE IF i = 0 THEN "PROGRAM    "
                             ELSE IF i = 1 THEN "PROGRA~1   "
                             ELSE "PROGRA~2   "]]
ShortShown == [s \in {NameShort[n][i] : n \in AllNames, i \in 0 .. MaxTail} |->
                 CASE s = "A       TXT" -> "A.TXT"
                   [] s = "PROGRAM    " -> "PROGRAM"
                   [] s = "PROGRA~1   " -> "PROGRA~1"
                   [] s = "PROGRA~2   " -> "PROGRA~2"]
ShortSum == [s \in DOMAIN ShortShown |->
               CASE s = "A       TXT" -> 1
                 [] s = "PROGRAM    " -> 2
                 [] s = "PROGRA~1   " -> 3
                 [] s = "PROGRA~2   " -> 4]

Undisturbed(calls, names) ==
  [calls |-> calls, names |-> names, reads |-> 0, writes |-> 0, crashes |-> 0]

\* Directories in directories; files; a listing while the directory changes.
UndisturbedCalls ==
  LET three == {"A.TXT", "program.cfg", "program.log"}
  IN  {Undisturbed({"create", "mkdir", "rmdir"}, {"A.TXT", "program.cfg"}),
       Undisturbed({"create", "delete", "stat", "setattr", "rename"}, three),
       Undisturbed({"create", "delete", "rename", "list"}, three)}

\* A restart among directories, and among files and directories of one name;
\* transfers that fail there, and in renames, long names and listings.
Mishaps ==
  {[Undisturbed({"mkdir", "rmdir"}, {"A.TXT", "PROGRAM"}) EXCEPT !.crashes = 1],
   [Undisturbed({"create", "delete", "mkdir", "rmdir"}, {"A.TXT"})
      EXCEPT !.crashes = 1],
   [Undisturbed({"create", "mkdir", "rmdir"}, {"A.TXT"})
      EXCEPT !.reads = 1, !.writes = 1],
   [Undisturbed({"create", "delete", "rename"}, {"A.TXT", "program.cfg"})
      EXCEPT !.writes = 1, !.crashes = 1],
   [Undisturbed({"create", "open", "setattr", "rename", "list"},
                {"program.cfg", "program.log"}) EXCEPT !.reads = 1]}

LongNamesInADirectory ==
  {Undisturbed({"create", "mkdir"}, {"A.TXT", "program.cfg", "program.log"})}

RenamesAndAReadFault ==
  {[Undisturbed({"create", "rename"}, {"A.TXT", "PROGRAM"}) EXCEPT !.reads = 1]}
=============================================================================
