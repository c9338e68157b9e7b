-------------------------------- MODULE MCMdv --------------------------------
(* The documents that TLC renders with Mdv: rows of five columns, so that   *)
(* short texts are broken in every way.                                    *)
EXTENDS Mdv

\* Every text of `min' to `max' characters of an alphabet.
Texts(alphabet, min, max) == UNION {[1 .. k -> alphabet] : k \in min .. max}

\* One line with every use of blanks, of emphasis, of code spans, of links and
\* images, of addresses in angle brackets and of characters without width.
Inlines ==
  Texts({"a", Space}, 6, 11)
  \cup Texts({"a", Space, "*"}, 0, 7) \cup Texts({"a", "*", "_"}, 4, 6)
  \cup Texts({"a", "*"}, 8, 9) \cup Texts({"a", "*", Tick, BackSlash}, 3, 5)
  \cup {s \o x : s \in {<<"[">>, <<"!", "[">>, <<"a", Space, "[", "*">>},
                 x \in Texts({"a", "[", "]", "(", ")"}, 3, 5)}
  \cup {<<"[", "a", "b">> \o x \o <<")", "c">> :
          x \in Texts({"a", Space, "]", "(", "b"}, 2, 4)}
  \cup {<<"a", "<">> \o x : x \in Texts({"a", ":", ">", Space}, 3, 4)}
  \cup {<<"-", Space, "*", "a">> \o x : x \in Texts({"a", Tab, Ctl, Cont, "*"}, 3, 5)}

\* Lines of every kind, with words that fill or overflow a row.
Blocks ==
  {<<>>, <<"a">>, <<"a", "b", Space, "c", "d", "e", "a", "b", "c">>,
   <<"-", Space, "a", Space, "b", "c", "d">>, <<"1", ".", Space, "*", "a", "*">>,
   <<Space, Space, Space, "*", Space, "b">>,
   <<Tab, "a", Tab, "b">>, <<">">>, <<">", Space, "*", "*", "a", "b", "*", "*">>,
   <<"#", "#", Space, "a", Space, "#">>, <<"=">>, <<"-", "-", "-">>,
   <<Tick, Tick, Tick>>, <<Space, "~", "~", "~", "~">>, <<Pipe, "a", Space, "b">>}

Documents == {<<L>> : L \in Inlines} \cup [1 .. 3 -> Blocks]
=============================================================================
