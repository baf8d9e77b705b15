------------------------------ MODULE MCFileIO ------------------------------
(* FileIO on a regular file and a pipe, slots of two bytes. *)
EXTENDS FileIO

MCTexts == {<<CH>>}
TwoLines == {[f \in Files |-> <<LF, CH>>]}
WriteLines == {[f \in Files |-> IF f \in Pipes THEN <<>> ELSE <<LF, CH>>]}
=============================================================================
