------------------------------ MODULE MCDedup ------------------------------
(***************************************************************************)
(* Dedup on four hashes, two of which collide until the table has grown    *)
(* twice, in an archive with a fragment whose size is not known.           *)
(***************************************************************************)
EXTENDS Dedup

CONSTANTS a, b, c, d

MCShas   == {a, b, c, d}
MCPrefix == [s \in MCShas |-> IF s = a THEN 1 ELSE IF s = b THEN 5 ELSE IF s = c THEN 4 ELSE 9]
MCOldHt  == <<[sha |-> a, known |-> FALSE], [sha |-> b, known |-> TRUE]>>
=============================================================================
