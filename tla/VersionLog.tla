----------------------------- MODULE VersionLog -----------------------------
(***************************************************************************)
(* What the archive promises to its user: a log of versions that only      *)
(* grows.  An add stores one new version or, if anything goes wrong, none  *)
(* at all; a version once stored never changes.                            *)
(***************************************************************************)
EXTENDS Integers, Sequences

CONSTANTS
  Names,                \* the files are 1..Names
  Data                  \* what a version may store for them; <<>> deletes

VARIABLE log            \* per version, what each file holds

Nothing == [n \in 1..Names |-> <<>>]

Latest == IF log = <<>> THEN Nothing ELSE log[Len(log)]

Init == log = <<>>

\* A version rewrites the files 1..n of those before it, all with the same data.
Rewritten(n, content) == [k \in 1..Names |-> IF k <= n THEN content ELSE Latest[k]]

Add == log' \in {Append(log, Rewritten(n, content)) : n \in 0..Names, content \in Data}

Spec == Init /\ [][Add]_log
=============================================================================
