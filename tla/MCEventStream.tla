---------------------------- MODULE MCEventStream ----------------------------
(***************************************************************************)
(* Instances of EventStream for TLC.                                       *)
(***************************************************************************)
EXTENDS EventStream

\* With RowCap = 1: a file that is empty, one that ends in the middle of a row
\* after a text and a call, and one that ends inside a row that is too large.
MCContents == {<<>>, <<"t", "n", "c", "n">>, <<"t", "n", "t", "x">>}
=============================================================================
