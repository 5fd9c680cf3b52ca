---------------------------- MODULE MCBatchGroup ----------------------------
(***************************************************************************)
(* Four rows: a whole group of three and a partial one of a single row.    *)
(***************************************************************************)
EXTENDS BatchGroup, TLC

MCByte == {0, 1, 2}

\* A word stored through every selector up to one past the count, one that
\* straddles the protected cell, and one loaded from a neighbour.
Stops   == [kind : {"HALT"}]
Loads   == [kind : {"LDM"}, mb : {1}, at : {0}, len : {2}]
Words   == [kind : {"STM"}, mb : 1 .. NBanks, at : {0}, len : {2}, put : {1}]
Edges   == [kind : {"STM"}, mb : {1}, at : {PageSize - 2}, len : {2}, put : {1}]

MCProgram == Stops \cup Loads \cup Words \cup Edges

\* For the run that looks into one launch of several ticks.
Waiting == [kind : {"NOP", "HALT"}] \cup Words
=============================================================================
