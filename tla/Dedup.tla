------------------------------- MODULE Dedup -------------------------------
(***************************************************************************)
(* add: fragments, the index of those the archive has, and the blocks.     *)
(*                                                                         *)
(* HTIndex is a hash table with open addressing that grows, and is filled  *)
(* again, while the fragments arrive.  A fragment that it does not find is *)
(* put in the block being filled and in ht: its number there is what files *)
(* point to, and the number of the first fragment of a block, written in   *)
(* the index, is all that says where the block's data belong.              *)
(***************************************************************************)
EXTENDS Integers, Sequences, FiniteSets, FiniteSetsExt, SequencesExt

CONSTANTS
  Shas,         \* the hashes of the fragments: as many different data
  Prefix,       \* per hash: its first 32 bits
  OldHt,        \* the fragments the archive has: the hash, and if the size is known
  Estimate,     \* how many fragments HTIndex is told to expect
  MaxHt,        \* bound: the fragments of the archive at the end
  MaxRead       \* bound: the fragments read from the files

ASSUME DedupAssumption ==
  /\ Prefix \in [Shas -> Nat]
  /\ OldHt \in Seq([sha : Shas, known : BOOLEAN])
  /\ Estimate \in Nat \ {0} /\ MaxHt \in Nat /\ MaxRead \in Nat

VARIABLES
  ht,       \* the fragments; ht[0] is not used, so that ht.size() is Len(ht) + 1
  index,    \* HTIndex: the table t and htsize
  sb,       \* the data of the block being filled
  frags,    \* how many fragments that is
  blocks,   \* the blocks ended: their first fragment (blocklist) and their data
  ptr,      \* DT::ptr: the fragments of the files, one after the other
  read,     \* what was read from the files
  ended     \* the files are over, and the last block is ended

vars == <<ht, index, sb, frags, blocks, ptr, read, ended>>

HtSize(fragments) == Len(fragments) + 1

-----------------------------------------------------------------------------
(* HTIndex.  The table is a function from 0..size-1, 0 for a free slot.    *)

Empty(size) == [slot \in 0..size - 1 |-> 0]

Size(t) == Cardinality(DOMAIN t)

\* (*(const unsigned *)sha1) & (t.size() - 1)
Hash(t, sha) == Prefix[sha] % Size(t)

\* h ^ i of numbers of k binary digits.
Xor[k \in Nat] ==
  [h \in Nat |-> [i \in Nat |->
     IF k = 0 THEN 0 ELSE ((h + i) % 2) + 2 * Xor[k - 1][h \div 2][i \div 2]]]

\* The slots in the order they are looked at: h ^ 0, h ^ 1, ...  A slot of the table
\* has no more digits than the table has slots.
Probe(t, sha, i) == Xor[Size(t)][Hash(t, sha)][i]

\* The search stops at a free slot, or at the hash.
Stops(t, sha, slot) == t[slot] = 0 \/ ht[t[slot]].sha = sha

Find(sha) ==
  LET t    == index.t
      stop == {i \in 0..Size(t) - 1 : Stops(t, sha, Probe(t, sha, i))}
  IN  IF stop = {} THEN 0 ELSE t[Probe(t, sha, Min(stop))]

\* Fragment n goes to the first free slot, if there is one.
Put(t, sha, n) ==
  LET free == {i \in 0..Size(t) - 1 : t[Probe(t, sha, i)] = 0}
  IN  IF free = {} THEN t ELSE [t EXCEPT ![Probe(t, sha, Min(free))] = n]

\* Mutant: the table does not grow.
Crowded_Never(t, n) == FALSE

Crowded(t, n) == n >= (Size(t) \div 4) * 3

\* Mutant: a table that has grown is filled from where the old one was.
From_Here(n) == n

\* A table that has grown is filled from the first fragment.
From(n) == 1

\* A turn of update(): fragment htsize, unless its size or its hash is not known.
Turn(r, fragments) ==
  LET full  == Crowded(r.t, r.htsize)
      table == IF full THEN Empty(2 * Size(r.t)) ELSE r.t
      n     == IF full THEN From(r.htsize) ELSE r.htsize
  IN  [t      |-> IF fragments[n].known THEN Put(table, fragments[n].sha, n) ELSE table,
       htsize |-> n + 1]

\* Enough for a pass over the fragments in every table that can be too small for them.
Turns(fragments) == (Len(fragments) + 3) * HtSize(fragments)

\* update(): turns, until there is no fragment left.
Update(r, fragments) ==
  LET Step(x) == IF x.htsize >= HtSize(fragments) THEN x ELSE Turn(x, fragments)
      after[k \in 0..Turns(fragments)] ==
        IF k = 0 THEN r ELSE CHOOSE y \in {Step(x) : x \in {after[k - 1]}} : TRUE
  IN  after[Turns(fragments)]

\* sz << k
Shift[k \in Nat] == IF k = 0 THEN 1 ELSE 2 * Shift[k - 1]

\* The largest power of two that is not above three times the fragments expected.
FirstSize == Shift[Max({k \in 0..3 * Estimate : Shift[k] <= 3 * Estimate})]

-----------------------------------------------------------------------------
Init ==
  /\ ht = OldHt
  /\ index = Update([t |-> Empty(FirstSize), htsize |-> 1], OldHt)
  /\ sb = <<>> /\ frags = 0 /\ blocks = <<>>
  /\ ptr = <<>> /\ read = <<>> /\ ended = FALSE

\* Mutant: the fragment that begins the next block is counted.
BlockStart_AndNext == HtSize(ht) + 1 - frags

\* The first fragment of the block being filled.
BlockStart == HtSize(ht) - frags

Block == [start |-> BlockStart, data |-> sb]

\* A fragment that is new, or that -sa stores whatever the archive has: the block
\* being filled may end before it.
Store(sha, newblock) ==
  /\ newblock => frags > 0
  /\ blocks' = IF newblock THEN Append(blocks, Block) ELSE blocks
  /\ sb' = IF newblock THEN <<sha>> ELSE Append(sb, sha)
  /\ frags' = IF newblock THEN 1 ELSE frags + 1
  /\ ht' = Append(ht, [sha |-> sha, known |-> TRUE])
  /\ index' = Update(index, ht')
  /\ ptr' = Append(ptr, HtSize(ht))

Fragment(sha, sa_force, newblock) ==
  /\ ~ended /\ Len(ht) < MaxHt /\ Len(read) < MaxRead
  /\ read' = Append(read, sha)
  /\ LET htptr == IF sa_force THEN 0 ELSE Find(sha)
     IN  IF htptr = 0 THEN Store(sha, newblock)
         ELSE ~newblock /\ ptr' = Append(ptr, htptr) /\ UNCHANGED <<ht, index, sb, frags, blocks>>
  /\ UNCHANGED ended

\* After the last file the block being filled ends.
EndOfFiles ==
  /\ ~ended /\ ended' = TRUE
  /\ IF frags > 0 THEN blocks' = Append(blocks, Block) /\ sb' = <<>> /\ frags' = 0
                  ELSE UNCHANGED <<blocks, sb, frags>>
  /\ UNCHANGED <<ht, index, ptr, read>>

Next ==
  \/ \E sha \in Shas, sa_force, newblock \in BOOLEAN : Fragment(sha, sa_force, newblock)
  \/ EndOfFiles

Spec == Init /\ [][Next]_vars

-----------------------------------------------------------------------------
\* The table is a power of two, with a free slot, and knows every fragment.
TypeOK ==
  /\ ht \in Seq([sha : Shas, known : BOOLEAN])
  /\ \E k \in 0..Len(ht) + Estimate : Size(index.t) = Shift[k]
  /\ index.t \in [0..Size(index.t) - 1 -> 0..Len(ht)]
  /\ \E slot \in DOMAIN index.t : index.t[slot] = 0
  /\ index.htsize = HtSize(ht)
  /\ sb \in Seq(Shas) /\ frags = Len(sb)
  /\ blocks \in Seq([start : Nat, data : Seq(Shas)])
  /\ ptr \in Seq(1..Len(ht)) /\ read \in Seq(Shas) /\ ended \in BOOLEAN

Known(sha) == {n \in 1..Len(ht) : ht[n].known /\ ht[n].sha = sha}

\* However the table has grown and whatever collides in it, find() gives the first
\* fragment with that hash, and 0 only if there is none: nothing is stored twice.
FindsFirst ==
  \A sha \in Shas : Find(sha) = IF Known(sha) = {} THEN 0 ELSE Min(Known(sha))

Having(n) == {b \in ToSet(blocks) \cup {Block} : n - b.start + 1 \in DOMAIN b.data}

\* The data a reader finds for fragment n, by the first fragments of the blocks.
InArchive(n) ==
  IF n <= Len(OldHt) THEN {OldHt[n].sha} ELSE {b.data[n - b.start + 1] : b \in Having(n)}

\* The fragments a file points to are, in the blocks, the data read from it, and
\* no block claims to have other data for them.
ReadsBack ==
  /\ Len(ptr) = Len(read)
  /\ \A k \in 1..Len(ptr) : InArchive(ptr[k]) = {read[k]}
=============================================================================
