----------------------------- MODULE MCExtract -----------------------------
(***************************************************************************)
(* Extract on an archive of three blocks and two files: one in all of      *)
(* them, with zeros in the middle; and one that goes back to an earlier    *)
(* block and ends with the zeros.  The second block takes more than the    *)
(* budget.                                                                 *)
(***************************************************************************)
EXTENDS Extract

MCStart == <<1, 3, 4>>
MCPtr   == << <<1, 2, 3, 4>>, <<4, 2>> >>
MCZero  == {2}
MCRam   == <<1, 3, 1>>
=============================================================================
