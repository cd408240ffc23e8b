--------------------------- MODULE ArchiveFormat ---------------------------
(***************************************************************************)
(* A .zpaq archive in the journaling format, and read_archive: what a      *)
(* reader makes of the bytes that are there.                               *)
(*                                                                         *)
(* A file is a sequence of cells.  A block is two cells, its 16-byte tag   *)
(* and its body, so that a write can stop inside it, and so that the rest  *)
(* of an older block can follow a newer one.  A version is a c block (its  *)
(* header, with the size of the data to jump over), its d blocks (data),   *)
(* an h block per d block (the table of its fragments, here one) and its i *)
(* blocks (the index: a file and its fragments, or a deletion).            *)
(***************************************************************************)
EXTENDS Integers, Sequences

CONSTANT Names          \* how many file names there are: 1..Names

ASSUME NamesAssumption == Names \in Nat \ {0}

Incomplete == -1        \* the jump of a transaction that is being written

\* A block: its type, the date and the number in its name, and its content.
Block(type, date, num, jmp, sha, name, ptr) ==
  [type |-> type, date |-> date, num |-> num, jmp |-> jmp, sha |-> sha,
   name |-> name, ptr |-> ptr]

CBlock(date, htsize, jmp)    == Block("c", date, htsize, jmp, 0, 0, <<>>)
DBlock(date, num, sha)       == Block("d", date, num, 0, sha, 0, <<>>)
HBlock(date, num, sha)       == Block("h", date, num, 0, sha, 0, <<>>)
IBlock(date, num, name, ptr) == Block("i", date, num, 0, 0, name, ptr)

Cells(b) == <<[block |-> b, part |-> "tag"], [block |-> b, part |-> "body"]>>

NoFile == <<>>          \* the content of a name that is deleted or never seen

(***************************************************************************)
(* The state of read_archive: where it is in the file (0-based), where it  *)
(* would append, and the tables it has filled so far.                      *)
(***************************************************************************)
ReaderInit ==
  [pos |-> 0, block_offset |-> 0, ver |-> <<>>, ht |-> <<>>,
   dt |-> [n \in 1..Names |-> <<>>], expected |-> 1, hseen |-> 0, iseen |-> 0,
   skipped |-> FALSE, errors |-> 0, incomplete |-> FALSE, done |-> FALSE]

\* ht.size(): fragment 0 is not used.
HtSize(r) == Len(r.ht) + 1

\* seq_versionebucata: data without tables, or tables without index.
VersionHole(r) ==
  /\ r.ver # <<>>
  /\ ~r.skipped
  /\ \/ r.ver[Len(r.ver)] > 0 /\ r.hseen = 0
     \/ (r.ver[Len(r.ver)] > 0 \/ r.hseen > 0) /\ r.iseen = 0

Count(condition) == IF condition THEN 1 ELSE 0

\* A damaged block: read_archive goes on just after its tag.
SkipBlock(r, o) == [r EXCEPT !.errors = @ + 1, !.skipped = TRUE, !.pos = o + 1,
                             !.block_offset = o + 1]

\* Mutant: a negative jump is taken as an empty version.
StopsAt_IgnoresIncomplete(r, b, limit) == Len(r.ver) >= limit

\* A transaction never finished, or a version after the one asked for.
StopsAt(r, b, limit) == b.jmp < 0 \/ Len(r.ver) >= limit

\* Transaction header: stop here, or jump over the data.
ReadC(r, o, b, limit) ==
  IF StopsAt(r, b, limit)
  THEN [r EXCEPT !.done = TRUE, !.incomplete = b.jmp < 0]
  ELSE [r EXCEPT
          !.errors = @ + Count(VersionHole(r) \/ (~r.skipped /\ b.num > HtSize(r))),
          !.expected = 1, !.hseen = 0, !.iseen = 0, !.skipped = FALSE,
          !.ver = Append(@, b.jmp),
          !.pos = o + 2 + b.jmp, !.block_offset = o + 2 + b.jmp]

\* A fragment table fills ht from its own number on, wherever that is.
ReadH(r, o, b) ==
  [r EXCEPT
     !.errors = @ + Count(HtSize(r) > b.num \/ (HtSize(r) < b.num /\ ~r.skipped)),
     !.ht = [k \in 1..(IF b.num > Len(@) THEN b.num ELSE Len(@)) |->
               IF k = b.num THEN b.sha ELSE IF k <= Len(@) THEN @[k] ELSE 0],
     !.hseen = @ + 1, !.pos = o + 2, !.block_offset = o + 2]

\* An index block is applied even where its number is not the expected one.
ReadI(r, o, b) ==
  [r EXCEPT
     !.errors = @ + Count(b.num # r.expected /\ ~r.skipped /\ r.ver # <<>>),
     !.expected = b.num + 1, !.iseen = @ + 1,
     !.dt = [@ EXCEPT ![b.name] = b.ptr], !.pos = o + 2, !.block_offset = o + 2]

TagsFrom(file, pos) == {o \in pos..Len(file) - 1 : file[o + 1].part = "tag"}

\* findBlock, then the block found: a d block is never met but by mistake.
ReadBlock(file, r, limit) ==
  IF TagsFrom(file, r.pos) = {}
  THEN [r EXCEPT !.done = TRUE, !.errors = @ + Count(VersionHole(r))]
  ELSE LET o == CHOOSE t \in TagsFrom(file, r.pos) :
                  \A u \in TagsFrom(file, r.pos) : t <= u
           b == file[o + 1].block
       IN  IF o + 2 > Len(file) \/ file[o + 2] # [block |-> b, part |-> "body"]
           THEN SkipBlock(r, o)
           ELSE CASE b.type = "c" -> ReadC(r, o, b, limit)
                  [] b.type = "h" -> ReadH(r, o, b)
                  [] b.type = "i" -> ReadI(r, o, b)
                  [] OTHER        -> SkipBlock(r, o)

ReadStep(file, limit, r) == IF r.done THEN r ELSE ReadBlock(file, r, limit)

\* read_archive, up to version limit (-until): every step passes a tag.  (A state
\* is picked from a set of one so that TLC evaluates it once.)
ReadUntil(file, limit) ==
  LET after[n \in 0..Len(file) + 1] ==
        IF n = 0 THEN ReaderInit
        ELSE CHOOSE s \in {ReadStep(file, limit, r) : r \in {after[n - 1]}} : TRUE
  IN  after[Len(file) + 1]

Read(file) == ReadUntil(file, Len(file))

\* What x would extract of every file: the content of its fragments.
Contents(r) ==
  [n \in 1..Names |->
     [k \in DOMAIN r.dt[n] |->
        IF r.dt[n][k] \in DOMAIN r.ht THEN r.ht[r.dt[n][k]] ELSE 0]]

\* What is in a version (-until), or in the last one.
Version(file, v) ==
  CHOOSE c \in {Contents(r) : r \in {ReadUntil(file, v)}} : TRUE

\* The versions of the archive, each as a reader of it finds it: the last one is
\* read without a limit, to the end of the file.
History(file) ==
  LET last == Len(Read(file).ver)
  IN  [v \in 1..last |-> Version(file, IF v = last THEN Len(file) ELSE v)]
=============================================================================
