----------------------------- MODULE MCKeySpace -----------------------------
(***************************************************************************)
(* Values of the constants of KeySpace for model checking: bytes 0 .. 4,   *)
(* so that 4 plays 255; ids may hold it, names, being UTF-8, never do.     *)
(***************************************************************************)
EXTENDS KeySpace

\* Both ids of a basin are next to each other under <<1>>, the second last.
MCBasinIds == {<<3>>, <<4>>}
MCStreamIds == {<<0>>, <<4>>}
\* A name that is the prefix of another, one below both.
MCNames == {<<0>>, <<3>>, <<3, 0>>}

\* The same low byte twice, and the greatest number.
MCSeqNums == {0, 5, 24}

\* No data, and data that looks like a number.
MCPayloads == {<< >>, <<0, 4>>}
=============================================================================
