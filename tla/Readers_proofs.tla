--------------------------- MODULE Readers_proofs ---------------------------
(***************************************************************************)
(* What the two readers of an archive find in it.                          *)
(*                                                                         *)
(* Of two archives that are the same up to where it would append,          *)
(* read_archive finds the versions of the first in the second.  Its loop   *)
(* is a sequence of states, one per tag it passes (ReaderRuns); the two    *)
(* readers go through the same states up to that offset, and from there on *)
(* neither changes its tables.  Then, what it makes of a whole version     *)
(* behind them: an archive that is ReadSound for some versions and gets    *)
(* one more is ReadSound for those and that one (ReadSoundNext).           *)
(*                                                                         *)
(* The walk of a mount is a sequence of states as well, one per block      *)
(* (ScanRuns), and comes through the same states in two archives that are  *)
(* the same up to there.  Where the versions end it knows the place of     *)
(* every fragment and shows the versions (Mounted); a whole version behind *)
(* them is one it shows more (MountedNext).  An archive is Sound for some  *)
(* versions if both its readers find them.                                 *)
(***************************************************************************)
EXTENDS MountScan, SumLemmas

BlockSet ==
  [type : {"c", "d", "h", "i"}, date : Nat, num : Nat, jmp : Nat \cup {Incomplete},
   sha : Nat, name : Nat, ptr : Seq(Nat)]

CellSet  == [block : BlockSet, part : {"tag", "body", "zero"}]
Archives == Seq(CellSet)

Readers ==
  [pos : Nat, block_offset : Nat, ver : Seq(Nat), ht : Seq(Nat),
   dt : [1..Names -> Seq(Nat)], expected : Nat, hseen : Nat, iseen : Nat,
   skipped : BOOLEAN, errors : Nat, incomplete : BOOLEAN, done : BOOLEAN]

\* Beyond the end of a file there is nothing to be read, as in the zeros of a gap.
ZeroCell == [block |-> CBlock(0, 0, 0), part |-> "zero"]

CellAt(file, k) == IF k \in 1..Len(file) THEN file[k] ELSE ZeroCell

IsTag(file, o)   == CellAt(file, o + 1).part = "tag"
IsWhole(file, o) == CellAt(file, o + 2) = [block |-> CellAt(file, o + 1).block, part |-> "body"]

NoTags(file, p)   == \A u \in Nat : u >= p => ~IsTag(file, u)
FirstTag(file, p, o) == o >= p /\ IsTag(file, o) /\ \A u \in p..o - 1 : ~IsTag(file, u)

LEMMA ReaderTypes ==
  ASSUME NEW r \in Readers
  PROVE  /\ r.pos \in Nat /\ r.block_offset \in Nat /\ r.ver \in Seq(Nat) /\ Len(r.ver) \in Nat
         /\ r.done \in BOOLEAN
<1>1. r.pos \in Nat /\ r.block_offset \in Nat /\ r.ver \in Seq(Nat) /\ r.done \in BOOLEAN
  BY DEF Readers
<1>2. QED
  BY <1>1

LEMMA CellTypes ==
  ASSUME NEW file \in Archives, NEW k
  PROVE  CellAt(file, k) \in CellSet
<1>1. ZeroCell \in CellSet
  BY DEF ZeroCell, CellSet, BlockSet, CBlock, Block
<1>2. QED
  BY <1>1 DEF CellAt, Archives

LEMMA TagsAre ==
  ASSUME NEW file \in Archives, NEW p \in Nat
  PROVE  /\ TagsFrom(file, p) = {o \in Nat : o >= p /\ IsTag(file, o)}
         /\ Len(file) \in Nat
<1>1. Len(file) \in Nat
  BY DEF Archives
<1>2. ZeroCell.part # "tag"
  BY DEF ZeroCell
<1>3. ASSUME NEW o \in TagsFrom(file, p) PROVE o \in Nat /\ o >= p /\ IsTag(file, o)
  <2>1. o \in p..Len(file) - 1 /\ file[o + 1].part = "tag"
    BY DEF TagsFrom
  <2>2. o \in Nat /\ o >= p /\ o + 1 \in 1..Len(file)
    BY <1>1, <2>1
  <2>3. QED
    BY <2>1, <2>2 DEF IsTag, CellAt
<1>4. ASSUME NEW o \in Nat, o >= p, IsTag(file, o) PROVE o \in TagsFrom(file, p)
  <2>1. o + 1 \in 1..Len(file) /\ file[o + 1].part = "tag"
    BY <1>2, <1>4 DEF IsTag, CellAt
  <2>2. o \in p..Len(file) - 1
    BY <1>1, <1>4, <2>1
  <2>3. QED
    BY <2>1, <2>2 DEF TagsFrom
<1>5. QED
  BY <1>1, <1>3, <1>4

LEMMA TagOrNot ==
  ASSUME NEW file \in Archives, NEW p \in Nat
  PROVE  NoTags(file, p) \/ \E o \in Nat : FirstTag(file, p, o)
<1> SUFFICES ASSUME ~NoTags(file, p) PROVE \E o \in Nat : FirstTag(file, p, o)
  OBVIOUS
<1> DEFINE T == {o \in Nat : o >= p /\ IsTag(file, o)}
<1>1. T # {} /\ T \subseteq Nat
  BY DEF NoTags
<1>2. PICK o \in T : \A u \in T : o <= u
  <2> HIDE DEF T
  <2>1. QED
    BY <1>1, LeastNat
<1>3. \A u \in p..o - 1 : u \in Nat /\ u >= p /\ ~(o <= u)
  BY <1>2
<1>4. QED
  BY <1>2, <1>3 DEF FirstTag

-----------------------------------------------------------------------------
(* One step of the reader.                                                 *)

TagRead(r, o, b, whole, limit) ==
  IF ~whole THEN SkipBlock(r, o)
  ELSE CASE b.type = "c" -> ReadC(r, o, b, limit)
         [] b.type = "h" -> ReadH(r, o, b)
         [] b.type = "i" -> ReadI(r, o, b)
         [] OTHER        -> SkipBlock(r, o)

EndRead(r) == [r EXCEPT !.done = TRUE, !.errors = @ + Count(VersionHole(r))]

LEMMA StepIs ==
  ASSUME NEW file \in Archives, NEW limit, NEW r, r.pos \in Nat, ~r.done
  PROVE  /\ NoTags(file, r.pos) => ReadStep(file, limit, r) = EndRead(r)
         /\ \A o \in Nat : FirstTag(file, r.pos, o) =>
              ReadStep(file, limit, r)
                = TagRead(r, o, CellAt(file, o + 1).block, IsWhole(file, o), limit)
<1>1. PICK p \in Nat : p = r.pos
  OBVIOUS
<1>2. PICK tags : tags = TagsFrom(file, p)
  OBVIOUS
<1>3. tags = {o \in Nat : o >= p /\ IsTag(file, o)} /\ Len(file) \in Nat
  BY <1>2, TagsAre
<1>4. ReadStep(file, limit, r) = ReadBlock(file, r, limit)
  BY DEF ReadStep
<1>5. ASSUME NoTags(file, p) PROVE ReadStep(file, limit, r) = EndRead(r)
  <2>1. tags = {}
    BY <1>3, <1>5 DEF NoTags
  <2>2. QED
    BY <1>1, <1>2, <1>4, <2>1 DEF ReadBlock, EndRead
<1>6. ASSUME NEW o \in Nat, FirstTag(file, p, o)
      PROVE  ReadStep(file, limit, r)
               = TagRead(r, o, CellAt(file, o + 1).block, IsWhole(file, o), limit)
  <2>1. o \in tags
    BY <1>3, <1>6 DEF FirstTag
  <2>2. \A u \in tags : o <= u
    <3> SUFFICES ASSUME NEW u \in tags, ~(o <= u) PROVE FALSE
      OBVIOUS
    <3>1. u \in p..o - 1 /\ IsTag(file, u)
      BY <1>3
    <3>2. QED
      BY <1>6, <3>1 DEF FirstTag
  <2>3. o = CHOOSE t \in tags : \A u \in tags : t <= u
    <3>1. \A t \in tags : (\A u \in tags : t <= u) => t = o
      BY <1>3, <2>1, <2>2
    <3>2. QED
      BY <2>1, <2>2, <3>1
  <2>4. PICK b : b = CellAt(file, o + 1).block
    OBVIOUS
  <2>5. o + 1 \in 1..Len(file) /\ b = file[o + 1].block
    <3>1. ZeroCell.part # "tag"
      BY DEF ZeroCell
    <3>2. QED
      BY <1>3, <1>6, <2>4, <3>1 DEF FirstTag, IsTag, CellAt
  <2>6. IsWhole(file, o) <=> ~(o + 2 > Len(file) \/ file[o + 2] # [block |-> b, part |-> "body"])
    <3>1. ZeroCell.part # "body"
      BY DEF ZeroCell
    <3>2. o + 2 \in 1..Len(file) <=> ~(o + 2 > Len(file))
      BY <1>3
    <3>3. CASE o + 2 \in 1..Len(file)
      BY <2>4, <3>2, <3>3 DEF IsWhole, CellAt
    <3>4. CASE ~(o + 2 \in 1..Len(file))
      BY <2>4, <3>1, <3>2, <3>4 DEF IsWhole, CellAt
    <3>5. QED
      BY <3>3, <3>4
  <2>7. ReadBlock(file, r, limit)
          = IF o + 2 > Len(file) \/ file[o + 2] # [block |-> b, part |-> "body"]
            THEN SkipBlock(r, o)
            ELSE CASE b.type = "c" -> ReadC(r, o, b, limit)
                   [] b.type = "h" -> ReadH(r, o, b)
                   [] b.type = "i" -> ReadI(r, o, b)
                   [] OTHER        -> SkipBlock(r, o)
    BY <1>1, <1>2, <2>1, <2>3, <2>5 DEF ReadBlock
  <2>8. QED
    BY <1>4, <2>4, <2>6, <2>7 DEF TagRead
<1>7. QED
  BY <1>1, <1>5, <1>6

SameTables(r, s) == s.ver = r.ver /\ s.ht = r.ht /\ s.dt = r.dt

LEMMA CountIs == ASSUME NEW c PROVE Count(c) \in Nat
BY DEF Count

LEMMA SkipIs ==
  ASSUME NEW r \in Readers, NEW o \in Nat, ~r.done
  PROVE  /\ SkipBlock(r, o) \in Readers /\ ~SkipBlock(r, o).done
         /\ SkipBlock(r, o).pos = o + 1 /\ SkipBlock(r, o).block_offset = o + 1
         /\ SameTables(r, SkipBlock(r, o))
<1>1. PICK e, p : e = r.errors + 1 /\ p = o + 1
  OBVIOUS
<1>2. e \in Nat /\ p \in Nat
  BY <1>1 DEF Readers
<1>3. SkipBlock(r, o) = [r EXCEPT !.errors = e, !.skipped = TRUE, !.pos = p, !.block_offset = p]
  BY <1>1 DEF SkipBlock, Readers
<1>4. SkipBlock(r, o) \in Readers
  BY <1>2, <1>3 DEF Readers
<1>5. QED
  BY <1>1, <1>3, <1>4 DEF Readers, SameTables

LEMMA EndIs ==
  ASSUME NEW r \in Readers
  PROVE  /\ EndRead(r) \in Readers /\ EndRead(r).done
         /\ EndRead(r).pos = r.pos /\ EndRead(r).block_offset = r.block_offset
         /\ SameTables(r, EndRead(r))
<1>1. PICK c : c = Count(VersionHole(r))
  OBVIOUS
<1>2. PICK e : e = r.errors + c
  OBVIOUS
<1>3. c \in Nat /\ r.errors \in Nat
  BY <1>1, CountIs DEF Readers
<1>4. e \in Nat
  BY <1>2, <1>3
<1>5. EndRead(r) = [r EXCEPT !.done = TRUE, !.errors = e]
  BY <1>1, <1>2 DEF EndRead, Readers
<1>6. EndRead(r) \in Readers
  BY <1>4, <1>5 DEF Readers
<1>7. QED
  BY <1>5, <1>6 DEF Readers, SameTables

LEMMA ReadCIs ==
  ASSUME NEW r \in Readers, NEW o \in Nat, NEW b \in BlockSet, NEW limit \in Nat, ~r.done
  PROVE  /\ ReadC(r, o, b, limit) \in Readers
         /\ StopsAt(r, b, limit) =>
              /\ ReadC(r, o, b, limit).done
              /\ ReadC(r, o, b, limit).pos = r.pos
              /\ ReadC(r, o, b, limit).block_offset = r.block_offset
              /\ SameTables(r, ReadC(r, o, b, limit))
         /\ ~StopsAt(r, b, limit) =>
              /\ ~ReadC(r, o, b, limit).done
              /\ ReadC(r, o, b, limit).pos >= o + 2
              /\ ReadC(r, o, b, limit).block_offset = ReadC(r, o, b, limit).pos
              /\ Len(ReadC(r, o, b, limit).ver) = Len(r.ver) + 1
<1>1. PICK n : n = Count(VersionHole(r) \/ (~r.skipped /\ b.num > HtSize(r)))
  OBVIOUS
<1>2. n \in Nat
  BY <1>1, CountIs
<1>3. CASE StopsAt(r, b, limit)
  <2>1. ReadC(r, o, b, limit) = [r EXCEPT !.done = TRUE, !.incomplete = b.jmp < 0]
    BY <1>3 DEF ReadC
  <2>2. (b.jmp < 0) \in BOOLEAN
    OBVIOUS
  <2>3. QED
    BY <1>3, <2>1, <2>2 DEF Readers, SameTables
<1>4. CASE ~StopsAt(r, b, limit)
  <2>1. b.jmp \in Nat
    BY <1>4 DEF StopsAt, BlockSet, Incomplete
  <2>2. ReadC(r, o, b, limit) = [r EXCEPT
          !.errors = @ + n, !.expected = 1, !.hseen = 0, !.iseen = 0, !.skipped = FALSE,
          !.ver = Append(@, b.jmp),
          !.pos = o + 2 + b.jmp, !.block_offset = o + 2 + b.jmp]
    BY <1>1, <1>4 DEF ReadC
  <2>3. PICK p, v : p = o + 2 + b.jmp /\ v = Append(r.ver, b.jmp)
    OBVIOUS
  <2>4. p \in Nat /\ p >= o + 2 /\ v \in Seq(Nat) /\ Len(v) = Len(r.ver) + 1
    BY <2>1, <2>3 DEF Readers
  <2>5. ReadC(r, o, b, limit) = [r EXCEPT
          !.errors = r.errors + n, !.expected = 1, !.hseen = 0, !.iseen = 0, !.skipped = FALSE,
          !.ver = v, !.pos = p, !.block_offset = p]
    BY <2>2, <2>3
  <2>6. PICK e : e = r.errors + n
    OBVIOUS
  <2>7. e \in Nat
    BY <1>2, <2>6 DEF Readers
  <2>8. PICK s : s = ReadC(r, o, b, limit)
    OBVIOUS
  <2>9. s = [r EXCEPT !.errors = e, !.expected = 1, !.hseen = 0, !.iseen = 0,
                      !.skipped = FALSE, !.ver = v, !.pos = p, !.block_offset = p]
    BY <2>5, <2>6, <2>8
  <2>10. s \in Readers
    BY <2>4, <2>7, <2>9 DEF Readers
  <2>11. s.pos = p /\ s.block_offset = p /\ s.ver = v /\ s.done = r.done
    BY <2>9 DEF Readers
  <2>12. QED
    BY <1>4, <2>4, <2>8, <2>10, <2>11
<1>5. QED
  BY <1>3, <1>4

LEMMA ReadHIs ==
  ASSUME NEW r \in Readers, NEW o \in Nat, NEW b \in BlockSet, ~r.done
  PROVE  /\ ReadH(r, o, b) \in Readers /\ ~ReadH(r, o, b).done
         /\ ReadH(r, o, b).pos = o + 2 /\ ReadH(r, o, b).block_offset = o + 2
         /\ ReadH(r, o, b).ver = r.ver
<1>1. PICK n : n = Count(HtSize(r) > b.num \/ (HtSize(r) < b.num /\ ~r.skipped))
  OBVIOUS
<1>2. PICK m : m = IF b.num > Len(r.ht) THEN b.num ELSE Len(r.ht)
  OBVIOUS
<1>3. PICK t : t = [k \in 1..m |-> IF k = b.num THEN b.sha ELSE IF k <= Len(r.ht) THEN r.ht[k] ELSE 0]
  OBVIOUS
<1>4. n \in Nat /\ m \in Nat /\ r.ht \in Seq(Nat) /\ b.sha \in Nat
  BY <1>1, <1>2, CountIs DEF Readers, BlockSet
<1>5. t \in Seq(Nat)
  <2>1. \A k \in 1..m : (IF k = b.num THEN b.sha ELSE IF k <= Len(r.ht) THEN r.ht[k] ELSE 0) \in Nat
    <3> SUFFICES ASSUME NEW k \in 1..m PROVE k <= Len(r.ht) => r.ht[k] \in Nat
      BY <1>4
    <3>1. k <= Len(r.ht) => k \in 1..Len(r.ht)
      BY <1>4
    <3>2. QED
      BY <1>4, <3>1
  <2>2. t \in [1..m -> Nat]
    BY <1>3, <2>1
  <2>3. QED
    BY <1>4, <2>2
<1>6. ReadH(r, o, b) = [r EXCEPT !.errors = @ + n, !.ht = t, !.hseen = @ + 1, !.pos = o + 2,
                                 !.block_offset = o + 2]
  BY <1>1, <1>2, <1>3 DEF ReadH
<1>7. r.errors + n \in Nat /\ r.hseen + 1 \in Nat /\ o + 2 \in Nat
  BY <1>4 DEF Readers
<1>8. QED
  BY <1>5, <1>6, <1>7 DEF Readers

LEMMA ReadIIs ==
  ASSUME NEW r \in Readers, NEW o \in Nat, NEW b \in BlockSet, ~r.done
  PROVE  /\ ReadI(r, o, b) \in Readers /\ ~ReadI(r, o, b).done
         /\ ReadI(r, o, b).pos = o + 2 /\ ReadI(r, o, b).block_offset = o + 2
         /\ ReadI(r, o, b).ver = r.ver
<1>0. b.num \in Nat /\ r.errors \in Nat /\ r.iseen \in Nat
  BY DEF Readers, BlockSet
<1>1. PICK n : n = Count(b.num # r.expected /\ ~r.skipped /\ r.ver # <<>>)
  OBVIOUS
<1>2. PICK d : d = [r.dt EXCEPT ![b.name] = b.ptr]
  OBVIOUS
<1>3. n \in Nat /\ d \in [1..Names -> Seq(Nat)]
  <2>1. b.ptr \in Seq(Nat) /\ r.dt \in [1..Names -> Seq(Nat)]
    BY DEF Readers, BlockSet
  <2>2. QED
    BY <1>1, <1>2, <2>1, CountIs
<1>4. ReadI(r, o, b) = [r EXCEPT !.errors = r.errors + n, !.expected = b.num + 1,
                                 !.iseen = r.iseen + 1, !.dt = d, !.pos = o + 2, !.block_offset = o + 2]
  BY <1>1, <1>2 DEF ReadI
<1>5. r.errors + n \in Nat /\ r.iseen + 1 \in Nat /\ b.num + 1 \in Nat /\ o + 2 \in Nat
  BY <1>0, <1>3
<1>6. QED
  BY <1>3, <1>4, <1>5 DEF Readers

\* A step over the tag at o goes past it, or stops the reader where it was.
LEMMA TagReadIs ==
  ASSUME NEW r \in Readers, NEW o \in Nat, o >= r.pos, NEW b \in BlockSet, NEW whole \in BOOLEAN,
         NEW limit \in Nat, ~r.done, r.block_offset = r.pos,
         NEW s, s = TagRead(r, o, b, whole, limit)
  PROVE  /\ s \in Readers /\ s.block_offset = s.pos
         /\ s.done => s.pos = r.pos /\ SameTables(r, s)
         /\ ~s.done => /\ s.pos >= o + 1 /\ (whole /\ b.type # "d" => s.pos >= o + 2)
                       /\ Len(r.ver) <= Len(s.ver)
                       /\ 2 * Len(r.ver) <= r.pos => 2 * Len(s.ver) <= s.pos
         /\ ~whole => ~s.done /\ s.pos = o + 1 /\ SameTables(r, s)
         /\ whole /\ b.type = "c" =>
              (s.done <=> StopsAt(r, b, limit))
<1>0. r.pos \in Nat /\ Len(r.ver) \in Nat
  BY DEF Readers
<1>1. CASE ~whole \/ b.type = "d"
  <2>1. s = SkipBlock(r, o)
    BY <1>1 DEF TagRead
  <2>2. s \in Readers /\ ~s.done /\ s.pos = o + 1 /\ s.block_offset = o + 1 /\ SameTables(r, s)
    BY <2>1, SkipIs
  <2>3. s.ver = r.ver /\ o + 1 >= r.pos
    BY <1>0, <2>2 DEF SameTables
  <2>4. PICK n, p : n = Len(r.ver) /\ p = r.pos
    OBVIOUS
  <2>5. n \in Nat /\ (2 * n <= p => 2 * n <= o + 1)
    BY <1>0, <2>4
  <2>6. b.type = "d" => b.type # "c"
    OBVIOUS
  <2>7. QED
    BY <1>0, <1>1, <2>2, <2>3, <2>4, <2>5, <2>6
<1>2. CASE whole /\ b.type = "c"
  <2>1. s = ReadC(r, o, b, limit)
    BY <1>2 DEF TagRead
  <2>2. CASE StopsAt(r, b, limit)
    <3>1. s \in Readers /\ s.done /\ s.pos = r.pos /\ s.block_offset = r.block_offset /\ SameTables(r, s)
      BY <2>1, <2>2, ReadCIs
    <3>2. QED
      BY <1>2, <2>2, <3>1
  <2>3. CASE ~StopsAt(r, b, limit)
    <3>1. s \in Readers /\ ~s.done /\ s.pos >= o + 2 /\ s.block_offset = s.pos /\ Len(s.ver) = Len(r.ver) + 1
      BY <2>1, <2>3, ReadCIs
    <3>2. PICK n, p, m, q : n = Len(r.ver) /\ p = r.pos /\ m = Len(s.ver) /\ q = s.pos
      OBVIOUS
    <3>3. n \in Nat /\ p \in Nat /\ q \in Nat /\ m = n + 1 /\ q >= o + 2
      BY <1>0, <3>1, <3>2 DEF Readers
    <3>4. n <= m /\ (2 * n <= p => 2 * m <= q) /\ q >= o + 1
      BY <3>3, <3>2
    <3>5. QED
      BY <1>2, <2>3, <3>1, <3>2, <3>3, <3>4
  <2>4. QED
    BY <2>2, <2>3
<1>3. CASE whole /\ b.type \in {"h", "i"}
  <2>1. s = ReadH(r, o, b) \/ s = ReadI(r, o, b)
    BY <1>3 DEF TagRead
  <2>2. s = ReadH(r, o, b) =>
          s \in Readers /\ ~s.done /\ s.pos = o + 2 /\ s.block_offset = o + 2 /\ s.ver = r.ver
    BY ReadHIs
  <2>3. s = ReadI(r, o, b) =>
          s \in Readers /\ ~s.done /\ s.pos = o + 2 /\ s.block_offset = o + 2 /\ s.ver = r.ver
    BY ReadIIs
  <2>4. s \in Readers /\ ~s.done /\ s.pos = o + 2 /\ s.block_offset = o + 2 /\ s.ver = r.ver
    BY <2>1, <2>2, <2>3
  <2>5. PICK n, p : n = Len(r.ver) /\ p = r.pos
    OBVIOUS
  <2>6. n \in Nat /\ (2 * n <= p => 2 * n <= o + 2) /\ n <= n
    BY <1>0, <2>5
  <2>7. b.type # "c" /\ whole
    BY <1>3
  <2>8. s.pos >= o + 1 /\ s.pos >= o + 2 /\ s.block_offset = s.pos
    BY <2>4
  <2>9. QED
    BY <2>4, <2>5, <2>6, <2>7, <2>8
<1>4. QED
  BY <1>1, <1>2, <1>3 DEF BlockSet

LEMMA StepTypes ==
  ASSUME NEW file \in Archives, NEW limit \in Nat, NEW r \in Readers, r.block_offset = r.pos,
         NEW s, s = ReadStep(file, limit, r)
  PROVE  /\ s \in Readers /\ s.block_offset = s.pos
         /\ r.done => s = r
         /\ s.done => s.pos = r.pos /\ SameTables(r, s)
         /\ ~s.done => s.pos >= r.pos + 1 /\ Len(r.ver) <= Len(s.ver) /\ r.pos < Len(file)
         /\ 2 * Len(r.ver) <= r.pos => 2 * Len(s.ver) <= s.pos
<1>0. r.pos \in Nat
  BY DEF Readers
<1>1. CASE r.done
  BY <1>1 DEF ReadStep, SameTables
<1>2. CASE ~r.done /\ NoTags(file, r.pos)
  <2>1. s = EndRead(r)
    BY <1>0, <1>2, StepIs
  <2>2. s \in Readers /\ s.done /\ s.pos = r.pos /\ s.block_offset = r.block_offset /\ SameTables(r, s)
    BY <2>1, EndIs
  <2>3. QED
    BY <1>2, <2>2 DEF SameTables
<1>3. ASSUME ~r.done, NEW o \in Nat, FirstTag(file, r.pos, o)
      PROVE  /\ s \in Readers /\ s.block_offset = s.pos
             /\ s.done => s.pos = r.pos /\ SameTables(r, s)
             /\ ~s.done => s.pos >= r.pos + 1 /\ Len(r.ver) <= Len(s.ver) /\ r.pos < Len(file)
             /\ 2 * Len(r.ver) <= r.pos => 2 * Len(s.ver) <= s.pos
  <2>1. PICK b, whole : b = CellAt(file, o + 1).block /\ whole = IsWhole(file, o)
    OBVIOUS
  <2>2. b \in BlockSet /\ whole \in BOOLEAN /\ o >= r.pos
    BY <1>3, <2>1, CellTypes DEF CellSet, IsWhole, FirstTag
  <2>3. s = TagRead(r, o, b, whole, limit)
    BY <1>0, <1>3, <2>1, StepIs
  <2>4. /\ s \in Readers /\ s.block_offset = s.pos
        /\ s.done => s.pos = r.pos /\ SameTables(r, s)
        /\ ~s.done => /\ s.pos >= o + 1
                      /\ Len(r.ver) <= Len(s.ver)
                      /\ 2 * Len(r.ver) <= r.pos => 2 * Len(s.ver) <= s.pos
    BY <1>3, <2>2, <2>3, TagReadIs
  <2>5. s.pos \in Nat
    BY <2>4 DEF Readers
  <2>6. r.pos < Len(file)
    <3>1. o \in TagsFrom(file, r.pos) /\ Len(file) \in Nat
      BY <1>0, <1>3, TagsAre DEF FirstTag
    <3>2. QED
      BY <1>0, <2>2, <3>1 DEF TagsFrom
  <2>7. QED
    BY <1>0, <2>2, <2>4, <2>5, <2>6 DEF SameTables
<1>4. QED
  BY <1>0, <1>1, <1>2, <1>3, TagOrNot

-----------------------------------------------------------------------------
(* The loop of read_archive as a sequence of states without an end: once   *)
(* it is done, the state stays.                                            *)

IsAfter(file, limit, N, a) ==
  a = [n \in 0..N |-> IF n = 0 THEN ReaderInit ELSE ReadStep(file, limit, a[n - 1])]

After(file, limit, N) == CHOOSE a : IsAfter(file, limit, N, a)

Runs(file, limit) ==
  {s \in [Nat -> Readers] :
     s[0] = ReaderInit /\ \A n \in Nat : s[n + 1] = ReadStep(file, limit, s[n])}

LEMMA AfterIs ==
  ASSUME NEW file, NEW limit, NEW N \in Nat
  PROVE  IsAfter(file, limit, N, After(file, limit, N))
<1> DEFINE T == {n \in Nat : \E a : IsAfter(file, limit, n, a)}
<1>1. 0 \in T
  <2> DEFINE a == [n \in 0..0 |-> ReaderInit]
  <2>1. a = [n \in 0..0 |-> IF n = 0 THEN ReaderInit ELSE ReadStep(file, limit, a[n - 1])]
    <3>1. \A n \in 0..0 : n = 0
      OBVIOUS
    <3>2. \A n \in 0..0 :
            (IF n = 0 THEN ReaderInit ELSE ReadStep(file, limit, a[n - 1])) = ReaderInit
      BY <3>1
    <3>3. QED
      BY <3>2
  <2>2. IsAfter(file, limit, 0, a)
    BY <2>1 DEF IsAfter
  <2>3. QED
    BY <2>2
<1>2. ASSUME NEW m \in Nat, m \in T PROVE m + 1 \in T
  <2>1. PICK a : IsAfter(file, limit, m, a)
    BY <1>2
  <2> DEFINE b == [n \in 0..m + 1 |-> IF n = 0 THEN ReaderInit ELSE ReadStep(file, limit, a[n - 1])]
  <2>2. \A n \in 0..m : b[n] = a[n]
    <3>1. \A n \in 0..m : n \in 0..m + 1
      OBVIOUS
    <3>2. QED
      BY <2>1, <3>1 DEF IsAfter
  <2>3. \A n \in 0..m + 1 : n # 0 => b[n - 1] = a[n - 1]
    <3>1. \A n \in 0..m + 1 : n # 0 => n - 1 \in 0..m
      OBVIOUS
    <3> HIDE DEF b
    <3>2. QED
      BY <2>2, <3>1
  <2>4. \A n \in 0..m + 1 :
          (IF n = 0 THEN ReaderInit ELSE ReadStep(file, limit, a[n - 1]))
            = IF n = 0 THEN ReaderInit ELSE ReadStep(file, limit, b[n - 1])
    <3> HIDE DEF b
    <3>1. QED
      BY <2>3
  <2>5. IsAfter(file, limit, m + 1, b)
    BY <2>4 DEF IsAfter
  <2>6. QED
    BY <2>5
<1>3. N \in T
  <2> HIDE DEF T
  <2>1. QED
    BY <1>1, <1>2, NatByInduction
<1>4. QED
  BY <1>3 DEF After

LEMMA AfterAgrees ==
  ASSUME NEW file, NEW limit, NEW N \in Nat, NEW M \in Nat, NEW a, NEW b,
         IsAfter(file, limit, N, a), IsAfter(file, limit, M, b), N <= M
  PROVE  \A n \in 0..N : a[n] = b[n]
<1> DEFINE T == {n \in Nat : n <= N => a[n] = b[n]}
<1>1. \A n \in 0..N : a[n] = IF n = 0 THEN ReaderInit ELSE ReadStep(file, limit, a[n - 1])
  BY DEF IsAfter
<1>2. \A n \in 0..N : b[n] = IF n = 0 THEN ReaderInit ELSE ReadStep(file, limit, b[n - 1])
  <2>1. \A n \in 0..N : n \in 0..M
    OBVIOUS
  <2>2. QED
    BY <2>1 DEF IsAfter
<1>3. 0 \in T
  <2>1. 0 \in 0..N
    OBVIOUS
  <2>2. QED
    BY <1>1, <1>2, <2>1
<1>4. ASSUME NEW n \in Nat, n \in T PROVE n + 1 \in T
  <2> SUFFICES ASSUME n + 1 <= N PROVE a[n + 1] = b[n + 1]
    OBVIOUS
  <2>1. a[n] = b[n] /\ n + 1 \in 0..N /\ n + 1 # 0 /\ (n + 1) - 1 = n
    BY <1>4
  <2>2. a[n + 1] = ReadStep(file, limit, a[n])
    BY <1>1, <2>1
  <2>3. b[n + 1] = ReadStep(file, limit, b[n])
    BY <1>2, <2>1
  <2>4. QED
    BY <2>1, <2>2, <2>3
<1>5. \A n \in Nat : n \in T
  <2> HIDE DEF T
  <2>1. QED
    BY <1>3, <1>4, NatByInduction
<1>6. QED
  BY <1>5

LEMMA ReadUntilIs ==
  ASSUME NEW file \in Archives, NEW limit
  PROVE  ReadUntil(file, limit) = After(file, limit, Len(file) + 1)[Len(file) + 1]
<1>1. \A x : (CHOOSE s \in {ReadStep(file, limit, r) : r \in {x}} : TRUE) = ReadStep(file, limit, x)
  OBVIOUS
<1>2. \A a : (a = [n \in 0..Len(file) + 1 |->
                     IF n = 0 THEN ReaderInit
                     ELSE CHOOSE s \in {ReadStep(file, limit, r) : r \in {a[n - 1]}} : TRUE])
              <=> IsAfter(file, limit, Len(file) + 1, a)
  BY <1>1, Zenon DEF IsAfter
<1>3. (CHOOSE a : a = [n \in 0..Len(file) + 1 |->
                     IF n = 0 THEN ReaderInit
                     ELSE CHOOSE s \in {ReadStep(file, limit, r) : r \in {a[n - 1]}} : TRUE])
         = After(file, limit, Len(file) + 1)
  BY <1>2 DEF After
<1>4. QED
  BY <1>3 DEF ReadUntil

LEMMA ReaderInitIs ==
  /\ ReaderInit \in Readers /\ ReaderInit.pos = 0 /\ ReaderInit.block_offset = 0
  /\ ReaderInit.ver = <<>> /\ ~ReaderInit.done
<1>1. <<>> \in Seq(Nat)
  OBVIOUS
<1>2. [n \in 1..Names |-> <<>>] \in [1..Names -> Seq(Nat)]
  BY <1>1
<1>3. QED
  BY <1>1, <1>2 DEF ReaderInit, Readers

LEMMA RunExists ==
  ASSUME NEW file \in Archives, NEW limit \in Nat
  PROVE  \E s \in Runs(file, limit) : ReadUntil(file, limit) = s[Len(file) + 1]
<1> DEFINE s == [n \in Nat |-> After(file, limit, n)[n]]
<1>1. s[0] = ReaderInit
  <2>1. IsAfter(file, limit, 0, After(file, limit, 0))
    BY AfterIs
  <2>2. 0 \in 0..0
    OBVIOUS
  <2>3. QED
    BY <2>1, <2>2 DEF IsAfter
<1>2. ASSUME NEW n \in Nat PROVE s[n + 1] = ReadStep(file, limit, s[n])
  <2>1. PICK a, b : a = After(file, limit, n) /\ b = After(file, limit, n + 1)
    OBVIOUS
  <2>2. IsAfter(file, limit, n, a)
    BY <2>1, AfterIs
  <2>3. IsAfter(file, limit, n + 1, b)
    BY <2>1, AfterIs
  <2>4. a[n] = b[n]
    <3>1. n <= n + 1 /\ n \in 0..n /\ n + 1 \in Nat
      OBVIOUS
    <3>2. QED
      BY <2>2, <2>3, <3>1, AfterAgrees
  <2>5. b[n + 1] = ReadStep(file, limit, b[n])
    <3>1. n + 1 \in 0..n + 1 /\ n + 1 # 0 /\ (n + 1) - 1 = n
      OBVIOUS
    <3>2. b[n + 1] = IF n + 1 = 0 THEN ReaderInit ELSE ReadStep(file, limit, b[(n + 1) - 1])
      BY <2>3, <3>1 DEF IsAfter
    <3>3. QED
      BY <3>1, <3>2
  <2>6. QED
    BY <2>1, <2>4, <2>5
<1>3. \A n \in Nat : s[n] \in Readers /\ s[n].block_offset = s[n].pos
  <2> DEFINE T == {n \in Nat : s[n] \in Readers /\ s[n].block_offset = s[n].pos}
  <2> HIDE DEF s
  <2>1. 0 \in T
    BY <1>1, ReaderInitIs
  <2>2. ASSUME NEW n \in Nat, n \in T PROVE n + 1 \in T
    <3>1. PICK r, t : r = s[n] /\ t = s[n + 1]
      OBVIOUS
    <3>2. t = ReadStep(file, limit, r) /\ r \in Readers /\ r.block_offset = r.pos
      BY <1>2, <2>2, <3>1
    <3>3. t \in Readers /\ t.block_offset = t.pos
      BY <3>2, StepTypes
    <3>4. QED
      BY <3>1, <3>3
  <2>3. \A n \in Nat : n \in T
    <3> HIDE DEF T
    <3>1. QED
      BY <2>1, <2>2, NatByInduction
  <2>4. QED
    BY <2>3
<1>4. s \in [Nat -> Readers]
  BY <1>3
<1>5. ReadUntil(file, limit) = s[Len(file) + 1]
  <2>1. Len(file) + 1 \in Nat
    BY DEF Archives
  <2>2. QED
    BY <2>1, ReadUntilIs
<1> HIDE DEF s
<1>6. s \in Runs(file, limit)
  BY <1>1, <1>2, <1>4 DEF Runs
<1>7. QED
  BY <1>5, <1>6

\* What holds of every state of a run.
Good(r) == r.block_offset = r.pos /\ 2 * Len(r.ver) <= r.pos

LEMMA RunTypes ==
  ASSUME NEW file \in Archives, NEW limit \in Nat, NEW s \in Runs(file, limit)
  PROVE  /\ \A n \in Nat : s[n] \in Readers /\ Good(s[n]) /\ s[n + 1] = ReadStep(file, limit, s[n])
         /\ s[0] = ReaderInit
<1>1. \A n \in Nat : s[n] \in Readers /\ s[n + 1] = ReadStep(file, limit, s[n])
  BY DEF Runs
<1>2. s[0] = ReaderInit
  BY DEF Runs
<1> DEFINE T == {n \in Nat : Good(s[n])}
<1>3. 0 \in T
  <2>1. Len(<<>>) = 0
    OBVIOUS
  <2>2. QED
    BY <1>2, <2>1, ReaderInitIs DEF Good
<1>4. ASSUME NEW n \in Nat, n \in T PROVE n + 1 \in T
  <2>1. PICK r, t : r = s[n] /\ t = s[n + 1]
    OBVIOUS
  <2>2. r \in Readers /\ t = ReadStep(file, limit, r) /\ r.block_offset = r.pos /\ 2 * Len(r.ver) <= r.pos
    BY <1>1, <1>4, <2>1 DEF Good
  <2>3. t \in Readers /\ t.block_offset = t.pos
    BY <2>2, StepTypes
  <2>4. 2 * Len(r.ver) <= r.pos => 2 * Len(t.ver) <= t.pos
    BY <2>2, StepTypes
  <2>5. 2 * Len(t.ver) <= t.pos
    BY <2>2, <2>4
  <2>6. QED
    BY <2>1, <2>3, <2>5 DEF Good
<1>5. \A n \in Nat : n \in T
  <2> HIDE DEF T
  <2>1. QED
    BY <1>3, <1>4, NatByInduction
<1>6. QED
  BY <1>1, <1>2, <1>5

\* The offset and the versions only grow; the reader is done in time, for good.
Later(r, t) ==
  /\ r.pos <= t.pos /\ Len(r.ver) <= Len(t.ver)
  /\ r.done => t = r
  /\ t.pos = r.pos => SameTables(r, t)

LEMMA LaterStep ==
  ASSUME NEW file \in Archives, NEW limit \in Nat, NEW r \in Readers, Good(r),
         NEW t, t = ReadStep(file, limit, r)
  PROVE  /\ Later(r, t) /\ t \in Readers
         /\ ~t.done => t.pos >= r.pos + 1 /\ r.pos < Len(file) /\ ~r.done
         /\ t.done => t.pos = r.pos
<1>1. r.block_offset = r.pos
  BY DEF Good
<1>2. /\ t \in Readers
      /\ r.done => t = r
      /\ t.done => t.pos = r.pos /\ SameTables(r, t)
      /\ ~t.done => t.pos >= r.pos + 1 /\ Len(r.ver) <= Len(t.ver) /\ r.pos < Len(file)
  BY <1>1, StepTypes
<1>3. r.pos \in Nat /\ t.pos \in Nat /\ Len(r.ver) \in Nat /\ r.done \in BOOLEAN /\ t.done \in BOOLEAN
  BY <1>2 DEF Readers
<1>4. CASE t.done
  <2>1. t.ver = r.ver
    BY <1>2, <1>4 DEF SameTables
  <2>2. QED
    BY <1>2, <1>3, <1>4, <2>1 DEF Later
<1>5. CASE ~t.done
  <2>1. t.pos >= r.pos + 1 /\ t.pos # r.pos /\ r.pos <= t.pos /\ ~r.done
    BY <1>2, <1>3, <1>5
  <2>2. QED
    BY <1>2, <1>5, <2>1 DEF Later
<1>6. QED
  BY <1>4, <1>5

LEMMA LaterTrans ==
  ASSUME NEW r \in Readers, NEW t \in Readers, NEW u \in Readers, Later(r, t), Later(t, u)
  PROVE  Later(r, u)
<1>1. r.pos \in Nat /\ t.pos \in Nat /\ u.pos \in Nat
  BY ReaderTypes
<1>2. Len(r.ver) \in Nat /\ Len(t.ver) \in Nat /\ Len(u.ver) \in Nat
  BY ReaderTypes
<1>3. r.pos <= u.pos
  BY <1>1 DEF Later
<1>4. Len(r.ver) <= Len(u.ver)
  BY <1>2 DEF Later
<1>5. u.pos = r.pos => t.pos = r.pos /\ u.pos = t.pos
  BY <1>1 DEF Later
<1>6. u.pos = r.pos => SameTables(r, u)
  BY <1>5 DEF Later, SameTables
<1>7. r.done => u = r
  BY DEF Later
<1>8. QED
  BY <1>3, <1>4, <1>6, <1>7 DEF Later

LEMMA RunGrows ==
  ASSUME NEW file \in Archives, NEW limit \in Nat, NEW s \in Runs(file, limit), NEW n \in Nat
  PROVE  \A m \in Nat : Later(s[n], s[n + m])
<1> DEFINE T == {m \in Nat : Later(s[n], s[n + m])}
<1>1. \A m \in Nat : s[m] \in Readers /\ Good(s[m]) /\ s[m + 1] = ReadStep(file, limit, s[m])
  BY RunTypes
<1>2. 0 \in T
  <2>1. n + 0 = n
    OBVIOUS
  <2>2. PICK r : r = s[n]
    OBVIOUS
  <2>3. r.pos \in Nat /\ Len(r.ver) \in Nat
    BY <1>1, <2>2, ReaderTypes
  <2>4. Later(r, r)
    BY <2>3 DEF Later, SameTables
  <2>5. QED
    BY <2>1, <2>2, <2>4
<1>3. ASSUME NEW m \in Nat, m \in T PROVE m + 1 \in T
  <2>1. PICK r, t, u : r = s[n] /\ t = s[n + m] /\ u = s[(n + m) + 1]
    OBVIOUS
  <2>2. n + m \in Nat /\ n + (m + 1) = (n + m) + 1
    OBVIOUS
  <2>3. Later(r, t) /\ r \in Readers /\ t \in Readers /\ Good(t) /\ u = ReadStep(file, limit, t)
    BY <1>1, <1>3, <2>1, <2>2
  <2>4. Later(t, u) /\ u \in Readers
    BY <2>3, LaterStep
  <2>5. Later(r, u)
    BY <2>3, <2>4, LaterTrans
  <2>6. QED
    BY <2>1, <2>2, <2>5
<1>4. QED
  <2> HIDE DEF T
  <2>1. \A m \in Nat : m \in T
    BY <1>2, <1>3, NatByInduction
  <2>2. QED
    BY <2>1 DEF T

LEMMA RunLater ==
  ASSUME NEW file \in Archives, NEW limit \in Nat, NEW s \in Runs(file, limit),
         NEW n \in Nat, NEW m \in Nat, n <= m
  PROVE  Later(s[n], s[m])
<1>1. PICK d \in Nat : m = n + d
  <2>1. m - n \in Nat /\ m = n + (m - n)
    OBVIOUS
  <2>2. QED
    BY <2>1
<1>2. QED
  BY <1>1, RunGrows

LEMMA RunEnds ==
  ASSUME NEW file \in Archives, NEW limit \in Nat, NEW s \in Runs(file, limit), NEW n \in Nat
  PROVE  /\ n > Len(file) => s[n].done
         /\ ~s[n].done => s[n].pos >= n
<1> DEFINE T == {m \in Nat : ~s[m].done => s[m].pos >= m}
<1>1. \A m \in Nat : s[m] \in Readers /\ Good(s[m]) /\ s[m + 1] = ReadStep(file, limit, s[m])
  BY RunTypes
<1>2. 0 \in T
  BY <1>1 DEF Readers
<1>3. ASSUME NEW m \in Nat, m \in T PROVE m + 1 \in T
  <2>1. PICK r, t : r = s[m] /\ t = s[m + 1]
    OBVIOUS
  <2>2. r \in Readers /\ Good(r) /\ t = ReadStep(file, limit, r) /\ (~r.done => r.pos >= m)
    BY <1>1, <1>3, <2>1
  <2>3. ~t.done => t.pos >= r.pos + 1 /\ ~r.done
    BY <2>2, LaterStep
  <2>4. r.pos \in Nat /\ t \in Readers
    BY <2>2, ReaderTypes, LaterStep
  <2>5. t.pos \in Nat
    BY <2>4, ReaderTypes
  <2>6. ~t.done => t.pos >= m + 1
    BY <2>2, <2>3, <2>4, <2>5
  <2>7. QED
    BY <2>1, <2>6
<1>4. \A m \in Nat : m \in T
  <2> HIDE DEF T
  <2>1. QED
    BY <1>2, <1>3, NatByInduction
<1>5. ASSUME n > Len(file) PROVE s[n].done
  <2>1. PICK m \in Nat : n = m + 1
    <3>1. Len(file) \in Nat
      BY DEF Archives
    <3>2. n - 1 \in Nat /\ n = (n - 1) + 1
      BY <1>5, <3>1
    <3>3. QED
      BY <3>2
  <2>2. PICK r, t : r = s[m] /\ t = s[m + 1]
    OBVIOUS
  <2>3. r \in Readers /\ Good(r) /\ t = ReadStep(file, limit, r) /\ (~r.done => r.pos >= m)
    BY <1>1, <1>4, <2>2
  <2>4. ~t.done => r.pos < Len(file) /\ ~r.done
    BY <2>3, LaterStep
  <2>5. r.pos \in Nat /\ Len(file) \in Nat
    BY <2>3 DEF Readers, Archives
  <2>6. t.done
    BY <1>5, <2>1, <2>3, <2>4, <2>5
  <2>7. QED
    BY <2>1, <2>2, <2>6
<1>6. QED
  BY <1>4, <1>5

-----------------------------------------------------------------------------
(* Two archives that are the same up to an offset.                         *)

SameUpTo(f, g, h) == \A k \in 1..h : CellAt(g, k) = CellAt(f, k)

\* What follows does not make whole a block that was cut at the offset.
NoJoin(f, g, h) == CellAt(g, h + 1) = CellAt(f, h + 1) \/ CellAt(g, h + 1).part # "body"

WholeC(g, o)  == IsTag(g, o) /\ CellAt(g, o + 1).block.type = "c" /\ IsWhole(g, o)
Torn(g, o)    == IsTag(g, o) => ~IsWhole(g, o)
AllTorn(g, h) == \A o \in Nat : o >= h => Torn(g, o)

\* Beyond the offset a reader finds damaged blocks only, or first of all the header
\* of a version.
TailSafe(g, h) == AllTorn(g, h) \/ \E o \in Nat : FirstTag(g, h, o) /\ WholeC(g, o)

\* A reader whose limit is reached changes no table any more.
Settled(g, h, r) == r.done \/ r.pos = h \/ (r.pos >= h /\ AllTorn(g, h))

LEMMA SettledStep ==
  ASSUME NEW g \in Archives, NEW h \in Nat, TailSafe(g, h), NEW v \in Nat,
         NEW r \in Readers, Good(r), v <= Len(r.ver), Settled(g, h, r),
         NEW t, t = ReadStep(g, v, r)
  PROVE  SameTables(r, t) /\ Settled(g, h, t)
<1>0. r.pos \in Nat /\ r.block_offset = r.pos
  BY ReaderTypes DEF Good
<1>1. CASE r.done
  BY <1>1 DEF ReadStep, SameTables, Settled
<1>2. CASE ~r.done /\ NoTags(g, r.pos)
  <2>1. t = EndRead(r)
    BY <1>0, <1>2, StepIs
  <2>2. t.done /\ SameTables(r, t)
    BY <2>1, EndIs
  <2>3. QED
    BY <2>2 DEF Settled
<1>3. ASSUME ~r.done, NEW o \in Nat, FirstTag(g, r.pos, o) PROVE SameTables(r, t) /\ Settled(g, h, t)
  <2>1. PICK b, whole : b = CellAt(g, o + 1).block /\ whole = IsWhole(g, o)
    OBVIOUS
  <2>2. b \in BlockSet /\ whole \in BOOLEAN /\ o >= r.pos /\ IsTag(g, o)
    BY <1>3, <2>1, CellTypes DEF CellSet, IsWhole, FirstTag
  <2>3. t = TagRead(r, o, b, whole, v)
    BY <1>0, <1>3, <2>1, StepIs
  <2>4. r.pos >= h
    BY <1>0, <1>3 DEF Settled
  <2>5. /\ ~whole => ~t.done /\ t.pos = o + 1 /\ SameTables(r, t)
        /\ whole /\ b.type = "c" => (t.done <=> StopsAt(r, b, v))
        /\ t.done => SameTables(r, t)
    BY <1>0, <1>3, <2>2, <2>3, TagReadIs
  <2>6. CASE AllTorn(g, h)
    <3>1. o >= h
      BY <1>0, <2>2, <2>4
    <3>2. ~whole
      BY <2>1, <2>2, <2>6, <3>1 DEF AllTorn, Torn
    <3>3. t.pos >= h
      BY <2>5, <3>1, <3>2
    <3>4. QED
      BY <2>5, <2>6, <3>2, <3>3 DEF Settled
  <2>7. CASE ~AllTorn(g, h)
    <3>1. r.pos = h
      BY <1>3, <2>7 DEF Settled
    <3>2. PICK u \in Nat : FirstTag(g, h, u) /\ WholeC(g, u)
      BY <2>7 DEF TailSafe
    <3>3. u = o
      <4>1. ~(u < o)
        <5>1. u < o => u \in h..o - 1
          BY <3>2 DEF FirstTag
        <5>2. QED
          BY <1>3, <3>1, <3>2, <5>1 DEF FirstTag
      <4>2. ~(o < u)
        <5>1. o < u => o \in h..u - 1
          BY <2>2, <3>1
        <5>2. QED
          BY <2>2, <3>2, <5>1 DEF FirstTag
      <4>3. QED
        BY <4>1, <4>2
    <3>4. whole /\ b.type = "c"
      BY <2>1, <3>2, <3>3 DEF WholeC
    <3>5. StopsAt(r, b, v)
      BY ReaderTypes DEF StopsAt
    <3>6. t.done /\ SameTables(r, t)
      BY <2>5, <3>4, <3>5
    <3>7. QED
      BY <3>6 DEF Settled
  <2>8. QED
    BY <2>6, <2>7
<1>4. QED
  BY <1>0, <1>1, <1>2, <1>3, TagOrNot

LEMMA SameTag ==
  ASSUME NEW f \in Archives, NEW g \in Archives, NEW h \in Nat, SameUpTo(f, g, h),
         NEW p \in Nat, NEW o \in Nat, o + 1 <= h, FirstTag(f, p, o)
  PROVE  FirstTag(g, p, o) /\ CellAt(g, o + 1) = CellAt(f, o + 1)
<1>1. \A u \in Nat : u <= o => CellAt(g, u + 1) = CellAt(f, u + 1)
  <2>1. \A u \in Nat : u <= o => u + 1 \in 1..h
    OBVIOUS
  <2>2. QED
    BY <2>1 DEF SameUpTo
<1>2. \A u \in p..o - 1 : u \in Nat /\ u <= o
  OBVIOUS
<1>3. QED
  BY <1>1, <1>2 DEF FirstTag, IsTag

\* Where the reader of the first goes on, up to the offset, so does the other.
LEMMA SameStep ==
  ASSUME NEW f \in Archives, NEW g \in Archives, NEW h \in Nat,
         SameUpTo(f, g, h), NoJoin(f, g, h), NEW limit \in Nat, NEW v \in Nat,
         NEW r \in Readers, Good(r), ~r.done,
         NEW s, s = ReadStep(f, limit, r), ~s.done, s.pos <= h
  PROVE  ReadStep(g, v, r) = ReadStep(f, v, r)
<1>0. r.pos \in Nat /\ r.block_offset = r.pos
  BY ReaderTypes DEF Good
<1>1. PICK o \in Nat : FirstTag(f, r.pos, o)
  <2>1. NoTags(f, r.pos) => s = EndRead(r)
    BY <1>0, StepIs
  <2>2. EndRead(r).done
    BY EndIs
  <2>3. QED
    BY <1>0, <2>1, <2>2, TagOrNot
<1>2. PICK b, whole : b = CellAt(f, o + 1).block /\ whole = IsWhole(f, o)
  OBVIOUS
<1>3. b \in BlockSet /\ whole \in BOOLEAN /\ o >= r.pos /\ IsTag(f, o)
  BY <1>1, <1>2, CellTypes DEF CellSet, IsWhole, FirstTag
<1>4. s = TagRead(r, o, b, whole, limit) /\ ReadStep(f, v, r) = TagRead(r, o, b, whole, v)
  BY <1>0, <1>1, <1>2, StepIs
<1>5. s \in Readers /\ s.pos >= o + 1 /\ (whole /\ b.type # "d" => s.pos >= o + 2)
  BY <1>0, <1>3, <1>4, TagReadIs
<1>6. s.pos \in Nat
  BY <1>5, ReaderTypes
<1>7. o + 1 <= h
  BY <1>5, <1>6
<1>8. FirstTag(g, r.pos, o) /\ CellAt(g, o + 1) = CellAt(f, o + 1)
  BY <1>0, <1>1, <1>7, SameTag
<1>9. ReadStep(g, v, r) = TagRead(r, o, b, IsWhole(g, o), v)
  BY <1>0, <1>2, <1>8, StepIs
<1>10. CASE b.type = "d"
  BY <1>4, <1>9, <1>10 DEF TagRead
<1>11. CASE b.type # "d"
  <2>1. IsWhole(g, o) = whole
    <3>1. CASE CellAt(g, o + 2) = CellAt(f, o + 2)
      BY <1>2, <1>8, <3>1 DEF IsWhole
    <3>2. CASE CellAt(g, o + 2) # CellAt(f, o + 2)
      <4>1. ~(o + 2 \in 1..h)
        BY <3>2 DEF SameUpTo
      <4>2. o + 2 = h + 1
        BY <1>7, <4>1
      <4>3. CellAt(g, o + 2).part # "body"
        BY <3>2, <4>2 DEF NoJoin
      <4>4. ~IsWhole(g, o)
        BY <4>3 DEF IsWhole
      <4>5. ~whole
        BY <1>3, <1>5, <1>6, <1>11, <4>2
      <4>6. QED
        BY <1>3, <4>4, <4>5 DEF IsWhole
    <3>3. QED
      BY <3>1, <3>2
  <2>2. QED
    BY <1>4, <1>9, <2>1
<1>12. QED
  BY <1>10, <1>11

\* The limit makes a difference only where it stops the reader, at a whole header.
LEMMA LimitOnly ==
  ASSUME NEW f \in Archives, NEW limit \in Nat, NEW v \in Nat,
         NEW r \in Readers, Good(r), ~r.done,
         NEW s, s = ReadStep(f, limit, r), ~s.done, NEW t, t = ReadStep(f, v, r)
  PROVE  \/ t = s
         \/ t.done /\ SameTables(r, t) /\ v <= Len(r.ver) /\ r.pos + 2 <= Len(f)
<1>0. r.pos \in Nat /\ r.block_offset = r.pos /\ Len(f) \in Nat
  BY ReaderTypes DEF Good, Archives
<1>1. PICK o \in Nat : FirstTag(f, r.pos, o)
  <2>1. NoTags(f, r.pos) => s = EndRead(r)
    BY <1>0, StepIs
  <2>2. EndRead(r).done
    BY EndIs
  <2>3. QED
    BY <1>0, <2>1, <2>2, TagOrNot
<1>2. PICK b, whole : b = CellAt(f, o + 1).block /\ whole = IsWhole(f, o)
  OBVIOUS
<1>3. b \in BlockSet /\ whole \in BOOLEAN /\ o >= r.pos /\ IsTag(f, o)
  BY <1>1, <1>2, CellTypes DEF CellSet, IsWhole, FirstTag
<1>4. s = TagRead(r, o, b, whole, limit) /\ t = TagRead(r, o, b, whole, v)
  BY <1>0, <1>1, <1>2, StepIs
<1>5. CASE ~(whole /\ b.type = "c")
  BY <1>4, <1>5 DEF TagRead
<1>6. CASE whole /\ b.type = "c"
  <2>1. s = ReadC(r, o, b, limit) /\ t = ReadC(r, o, b, v)
    BY <1>4, <1>6 DEF TagRead
  <2>2. ~StopsAt(r, b, limit)
    BY <1>3, <2>1, ReadCIs
  <2>3. CASE ~StopsAt(r, b, v)
    BY <2>1, <2>2, <2>3 DEF ReadC
  <2>4. CASE StopsAt(r, b, v)
    <3>1. t.done /\ SameTables(r, t)
      BY <1>3, <2>1, <2>4, ReadCIs
    <3>2. v <= Len(r.ver)
      BY <2>2, <2>4, ReaderTypes DEF StopsAt
    <3>3. o + 2 <= Len(f)
      <4>1. ZeroCell.part # "body"
        BY DEF ZeroCell
      <4>2. IsWhole(f, o)
        BY <1>2, <1>6
      <4>3. CellAt(f, o + 2).part = "body"
        BY <4>2 DEF IsWhole
      <4>4. QED
        BY <1>0, <4>1, <4>3 DEF CellAt
    <3>4. QED
      BY <1>0, <1>3, <3>1, <3>2, <3>3
  <2>5. QED
    BY <2>3, <2>4
<1>7. QED
  BY <1>5, <1>6

-----------------------------------------------------------------------------
(* The two readers, from their first states to their last.                 *)

LEMMA RunReaches ==
  ASSUME NEW f \in Archives, NEW limit \in Nat, NEW F \in Runs(f, limit), NEW n \in Nat, ~F[n].done,
         NEW last, last = F[Len(f) + 1]
  PROVE  /\ n <= Len(f) /\ F[n].pos <= last.pos
         /\ F[n + 1].done => last = F[n + 1]
<1>0. Len(f) \in Nat
  BY DEF Archives
<1>1. n <= Len(f)
  BY <1>0, RunEnds
<1>2. n <= Len(f) + 1 /\ n + 1 <= Len(f) + 1 /\ n + 1 \in Nat /\ Len(f) + 1 \in Nat
  BY <1>0, <1>1
<1>3. Later(F[n], last)
  BY <1>2, RunLater
<1>4. Later(F[n + 1], last)
  BY <1>2, RunLater
<1>5. QED
  BY <1>1, <1>3, <1>4 DEF Later

LEMMA FullRun ==
  ASSUME NEW f \in Archives
  PROVE  \E F \in Runs(f, Len(f)) : Read(f) = F[Len(f) + 1]
<1>1. Len(f) \in Nat
  BY DEF Archives
<1>2. QED
  BY <1>1, RunExists DEF Read

\* Where a reader stops, it has met nothing more, damaged blocks, or the header
\* of a version that was never finished.
LEMMA EndIsSafe ==
  ASSUME NEW f \in Archives
  PROVE  Read(f) \in Readers /\ Good(Read(f)) /\ TailSafe(f, Read(f).block_offset)
<1>0. Len(f) \in Nat
  BY DEF Archives
<1>1. PICK F \in Runs(f, Len(f)) : Read(f) = F[Len(f) + 1]
  BY FullRun
<1>2. \A n \in Nat : F[n] \in Readers /\ Good(F[n]) /\ F[n + 1] = ReadStep(f, Len(f), F[n])
  BY <1>0, RunTypes
<1>3. F[0] = ReaderInit
  BY <1>0, RunTypes
<1>4. PICK n \in Nat : ~F[n].done /\ F[n + 1].done
  <2> DEFINE D == {n \in Nat : F[n].done}
  <2>1. Len(f) + 1 \in D
    <3>1. Len(f) + 1 \in Nat /\ Len(f) + 1 > Len(f)
      BY <1>0
    <3>2. QED
      BY <1>0, <3>1, RunEnds
  <2>2. PICK m \in D : \A k \in D : m <= k
    <3>1. D \subseteq Nat
      OBVIOUS
    <3> HIDE DEF D
    <3>2. QED
      BY <2>1, <3>1, LeastNat
  <2>3. m # 0
    BY <1>3, ReaderInitIs
  <2>4. m - 1 \in Nat /\ ~(m <= m - 1) /\ (m - 1) + 1 = m
    BY <2>3
  <2>5. ~F[m - 1].done
    BY <2>2, <2>4
  <2>6. QED
    BY <2>4, <2>5
<1>5. PICK r, s : r = F[n] /\ s = F[n + 1]
  OBVIOUS
<1>6. r \in Readers /\ Good(r) /\ s = ReadStep(f, Len(f), r) /\ ~r.done /\ s.done
  BY <1>2, <1>4, <1>5
<1>7. Read(f) = s
  BY <1>0, <1>1, <1>4, <1>5, RunReaches
<1>8. s \in Readers /\ Good(s) /\ s.pos = r.pos
  <2>1. s \in Readers /\ Good(s)
    BY <1>2, <1>5
  <2>2. s.pos = r.pos
    BY <1>0, <1>6, LaterStep
  <2>3. QED
    BY <2>1, <2>2
<1>9. PICK h : h = r.pos
  OBVIOUS
<1>10. h \in Nat /\ r.block_offset = h /\ s.block_offset = h
  BY <1>6, <1>8, <1>9, ReaderTypes DEF Good
<1>11. TailSafe(f, h)
  <2>1. CASE NoTags(f, h)
    BY <2>1 DEF TailSafe, AllTorn, Torn, NoTags
  <2>2. ASSUME NEW o \in Nat, FirstTag(f, h, o) PROVE TailSafe(f, h)
    <3>1. PICK b, whole : b = CellAt(f, o + 1).block /\ whole = IsWhole(f, o)
      OBVIOUS
    <3>2. b \in BlockSet /\ whole \in BOOLEAN /\ o >= r.pos /\ IsTag(f, o)
      BY <1>9, <2>2, <3>1, CellTypes DEF CellSet, IsWhole, FirstTag
    <3>3. s = TagRead(r, o, b, whole, Len(f))
      BY <1>6, <1>9, <1>10, <2>2, <3>1, StepIs
    <3>4. whole
      BY <1>0, <1>6, <1>9, <1>10, <3>2, <3>3, TagReadIs
    <3>5. b.type # "d" /\ b.type # "h" /\ b.type # "i"
      <4>1. b.type = "d" => s = SkipBlock(r, o)
        BY <3>3, <3>4 DEF TagRead
      <4>2. b.type = "h" => s = ReadH(r, o, b)
        BY <3>3, <3>4 DEF TagRead
      <4>3. b.type = "i" => s = ReadI(r, o, b)
        BY <3>3, <3>4 DEF TagRead
      <4>4. ~SkipBlock(r, o).done
        BY <1>6, SkipIs
      <4>5. ~ReadH(r, o, b).done
        BY <1>6, <3>2, ReadHIs
      <4>6. ~ReadI(r, o, b).done
        BY <1>6, <3>2, ReadIIs
      <4>7. QED
        BY <1>6, <4>1, <4>2, <4>3, <4>4, <4>5, <4>6
    <3>6. b.type = "c"
      BY <3>2, <3>5 DEF BlockSet
    <3>7. QED
      BY <2>2, <3>1, <3>2, <3>4, <3>6 DEF TailSafe, WholeC
  <2>3. QED
    BY <1>10, <2>1, <2>2, TagOrNot
<1>12. QED
  BY <1>7, <1>8, <1>10, <1>11

\* Both readers are in the state of the full run of the first, or both have all that
\* was asked for.
InStep(F, a, b, h, n) == ~F[n].done /\ F[n].pos <= h /\ a[n] = F[n] /\ b[n] = F[n]

Finished(f, g, a, b, h, v, n) ==
  /\ v <= Len(a[n].ver) /\ SameTables(a[n], b[n])
  /\ Settled(f, h, a[n]) /\ Settled(g, h, b[n])

LEMMA SameRuns ==
  ASSUME NEW f \in Archives, NEW g \in Archives, NEW F \in Runs(f, Len(f)),
         NEW last, last = F[Len(f) + 1], NEW h \in Nat, h = last.pos,
         SameUpTo(f, g, h), NoJoin(f, g, h), TailSafe(f, h), TailSafe(g, h),
         NEW v \in Nat, v <= Len(last.ver),
         NEW a \in Runs(f, v), NEW b \in Runs(g, v)
  PROVE  \A n \in Nat : InStep(F, a, b, h, n) \/ Finished(f, g, a, b, h, v, n)
<1>0. Len(f) \in Nat
  BY DEF Archives
<1>1. \A n \in Nat : F[n] \in Readers /\ Good(F[n]) /\ F[n + 1] = ReadStep(f, Len(f), F[n])
  BY <1>0, RunTypes
<1>2. \A n \in Nat : a[n] \in Readers /\ Good(a[n]) /\ a[n + 1] = ReadStep(f, v, a[n])
  BY RunTypes
<1>3. \A n \in Nat : b[n] \in Readers /\ Good(b[n]) /\ b[n + 1] = ReadStep(g, v, b[n])
  BY RunTypes
<1>4. F[0] = ReaderInit /\ a[0] = ReaderInit /\ b[0] = ReaderInit
  BY <1>0, RunTypes
<1> DEFINE T == {n \in Nat : InStep(F, a, b, h, n) \/ Finished(f, g, a, b, h, v, n)}
<1>5. 0 \in T
  BY <1>4, ReaderInitIs DEF InStep
<1>6. ASSUME NEW n \in Nat, Finished(f, g, a, b, h, v, n)
      PROVE  Finished(f, g, a, b, h, v, n + 1)
  <2>1. PICK r, s : r = a[n] /\ s = a[n + 1]
    OBVIOUS
  <2>2. PICK x, y : x = b[n] /\ y = b[n + 1]
    OBVIOUS
  <2>3. r \in Readers /\ Good(r) /\ s = ReadStep(f, v, r) /\ x \in Readers /\ Good(x)
        /\ y = ReadStep(g, v, x)
    BY <1>2, <1>3, <2>1, <2>2
  <2>4. v <= Len(r.ver) /\ SameTables(r, x) /\ Settled(f, h, r) /\ Settled(g, h, x)
    BY <1>6, <2>1, <2>2 DEF Finished
  <2>5. SameTables(r, s) /\ Settled(f, h, s)
    BY <2>3, <2>4, SettledStep
  <2>6. v <= Len(x.ver)
    BY <2>4 DEF SameTables
  <2>7. SameTables(x, y) /\ Settled(g, h, y)
    BY <2>3, <2>4, <2>6, SettledStep
  <2>8. v <= Len(s.ver) /\ SameTables(s, y)
    BY <2>4, <2>5, <2>7 DEF SameTables
  <2>9. QED
    BY <2>1, <2>2, <2>5, <2>7, <2>8 DEF Finished
<1>7. ASSUME NEW n \in Nat, InStep(F, a, b, h, n)
      PROVE  InStep(F, a, b, h, n + 1) \/ Finished(f, g, a, b, h, v, n + 1)
  <2>1. PICK r, s : r = F[n] /\ s = F[n + 1]
    OBVIOUS
  <2>2. r \in Readers /\ Good(r) /\ s = ReadStep(f, Len(f), r) /\ ~r.done /\ r.pos <= h
        /\ a[n] = r /\ b[n] = r
    BY <1>1, <1>7, <2>1 DEF InStep
  <2>3. CASE s.done
    <3>1. last = s
      <4>1. ~F[n].done /\ F[n + 1].done
        BY <2>1, <2>2, <2>3
      <4>2. last = F[n + 1]
        BY <1>0, <4>1, RunReaches
      <4>3. QED
        BY <2>1, <4>2
    <3>2. s.pos = r.pos /\ Later(r, s)
      BY <1>0, <2>2, <2>3, LaterStep
    <3>3. r.pos = h /\ s.ver = r.ver
      BY <3>1, <3>2 DEF Later, SameTables
    <3>4. v <= Len(r.ver)
      BY <3>1, <3>3
    <3>5. Finished(f, g, a, b, h, v, n)
      BY <2>2, <3>3, <3>4 DEF Finished, Settled, SameTables
    <3>6. QED
      BY <1>6, <3>5
  <2>4. CASE ~s.done
    <3>1. s.pos <= h
      <4>1. n + 1 \in Nat
        OBVIOUS
      <4>2. F[n + 1].pos <= last.pos
        BY <1>0, <2>1, <2>4, <4>1, RunReaches
      <4>3. QED
        BY <2>1, <4>2
    <3>2. PICK t : t = ReadStep(f, v, r)
      OBVIOUS
    <3>3. ReadStep(g, v, r) = t
      BY <1>0, <2>2, <2>4, <3>1, <3>2, SameStep
    <3>4. a[n + 1] = t /\ b[n + 1] = t
      BY <1>2, <1>3, <2>2, <3>2, <3>3
    <3>5. t = s \/ (t.done /\ SameTables(r, t) /\ v <= Len(r.ver))
      BY <1>0, <2>2, <2>4, <3>2, LimitOnly
    <3>6. CASE t = s
      BY <2>1, <2>4, <3>1, <3>4, <3>6 DEF InStep
    <3>7. CASE t.done /\ SameTables(r, t) /\ v <= Len(r.ver)
      BY <3>4, <3>7 DEF Finished, Settled, SameTables
    <3>8. QED
      BY <3>5, <3>6, <3>7
  <2>5. QED
    BY <2>3, <2>4
<1>8. ASSUME NEW n \in Nat, n \in T PROVE n + 1 \in T
  BY <1>6, <1>7, <1>8
<1>9. \A n \in Nat : n \in T
  <2> HIDE DEF T
  <2>1. QED
    BY <1>5, <1>8, NatByInduction
<1>10. QED
  BY <1>9

LEMMA VersionIs ==
  ASSUME NEW f, NEW v PROVE Version(f, v) = Contents(ReadUntil(f, v))
BY DEF Version

LEMMA SameContents ==
  ASSUME NEW r, NEW s, SameTables(r, s) PROVE Contents(r) = Contents(s)
BY DEF SameTables, Contents

\* The versions a reader finds in an archive are in every other that is the same up
\* to where the first one's good part ends, and has nothing new just after it but
\* damaged blocks, or one transaction header first.
LEMMA SameVersion ==
  ASSUME NEW f \in Archives, NEW g \in Archives, NEW h, h = Read(f).block_offset,
         SameUpTo(f, g, h), NoJoin(f, g, h), TailSafe(g, h),
         NEW v \in Nat, v <= Len(Read(f).ver)
  PROVE  Version(g, v) = Version(f, v)
<1>0. Len(f) \in Nat /\ Len(g) \in Nat
  BY DEF Archives
<1>1. PICK F \in Runs(f, Len(f)) : Read(f) = F[Len(f) + 1]
  BY FullRun
<1>2. PICK last : last = F[Len(f) + 1]
  OBVIOUS
<1>3. Read(f) \in Readers /\ Good(Read(f)) /\ TailSafe(f, h)
  BY EndIsSafe
<1>4. h \in Nat /\ h = last.pos /\ v <= Len(last.ver)
  BY <1>1, <1>2, <1>3, ReaderTypes DEF Good
<1>5. PICK a \in Runs(f, v) : ReadUntil(f, v) = a[Len(f) + 1]
  BY RunExists
<1>6. PICK b \in Runs(g, v) : ReadUntil(g, v) = b[Len(g) + 1]
  BY RunExists
<1>7. PICK N \in Nat : N >= Len(f) + 1 /\ N >= Len(g) + 1
  <2>1. Len(f) + Len(g) + 1 \in Nat /\ Len(f) + Len(g) + 1 >= Len(f) + 1
        /\ Len(f) + Len(g) + 1 >= Len(g) + 1
    BY <1>0
  <2>2. QED
    BY <2>1
<1>8. InStep(F, a, b, h, N) \/ Finished(f, g, a, b, h, v, N)
  BY <1>2, <1>3, <1>4, SameRuns
<1>9. F[N].done
  <2>1. N > Len(f)
    BY <1>0, <1>7
  <2>2. QED
    BY <1>0, <2>1, RunEnds
<1>10. SameTables(a[N], b[N])
  BY <1>8, <1>9 DEF InStep, Finished
<1>11. a[N] = a[Len(f) + 1]
  <2>1. Len(f) + 1 \in Nat /\ Len(f) + 1 > Len(f) /\ Len(f) + 1 <= N
    BY <1>0, <1>7
  <2>2. a[Len(f) + 1].done
    BY <2>1, RunEnds
  <2>3. Later(a[Len(f) + 1], a[N])
    BY <2>1, RunLater
  <2>4. QED
    BY <2>2, <2>3 DEF Later
<1>12. b[N] = b[Len(g) + 1]
  <2>1. Len(g) + 1 \in Nat /\ Len(g) + 1 > Len(g) /\ Len(g) + 1 <= N
    BY <1>0, <1>7
  <2>2. b[Len(g) + 1].done
    BY <2>1, RunEnds
  <2>3. Later(b[Len(g) + 1], b[N])
    BY <2>1, RunLater
  <2>4. QED
    BY <2>2, <2>3 DEF Later
<1>13. SameTables(ReadUntil(f, v), ReadUntil(g, v))
  BY <1>5, <1>6, <1>10, <1>11, <1>12
<1>14. Contents(ReadUntil(f, v)) = Contents(ReadUntil(g, v))
  BY <1>13, SameContents
<1>15. QED
  BY <1>14, VersionIs

\* Full readers of the two: the second finds at least as many versions.
AsMany(F, G, last, h, n) ==
  (~F[n].done /\ F[n].pos <= h /\ G[n] = F[n]) \/ Len(last.ver) <= Len(G[n].ver)

LEMMA NotFewer ==
  ASSUME NEW f \in Archives, NEW g \in Archives, NEW h, h = Read(f).block_offset,
         SameUpTo(f, g, h), NoJoin(f, g, h)
  PROVE  Len(Read(f).ver) <= Len(Read(g).ver)
<1>0. Len(f) \in Nat /\ Len(g) \in Nat
  BY DEF Archives
<1>1. PICK F \in Runs(f, Len(f)) : Read(f) = F[Len(f) + 1]
  BY FullRun
<1>2. PICK G \in Runs(g, Len(g)) : Read(g) = G[Len(g) + 1]
  BY FullRun
<1>3. PICK last : last = F[Len(f) + 1]
  OBVIOUS
<1>4. Read(f) \in Readers /\ Good(Read(f))
  BY EndIsSafe
<1>5. h \in Nat /\ h = last.pos /\ Len(last.ver) \in Nat
  BY <1>1, <1>3, <1>4, ReaderTypes DEF Good
<1>6. \A n \in Nat : F[n] \in Readers /\ Good(F[n]) /\ F[n + 1] = ReadStep(f, Len(f), F[n])
  BY <1>0, RunTypes
<1>7. \A n \in Nat : G[n] \in Readers /\ Good(G[n]) /\ G[n + 1] = ReadStep(g, Len(g), G[n])
  BY <1>0, RunTypes
<1>8. F[0] = ReaderInit /\ G[0] = ReaderInit
  BY <1>0, RunTypes
<1> DEFINE T == {n \in Nat : AsMany(F, G, last, h, n)}
<1>9. 0 \in T
  BY <1>5, <1>8, ReaderInitIs DEF AsMany
<1>10. ASSUME NEW n \in Nat, Len(last.ver) <= Len(G[n].ver)
       PROVE  AsMany(F, G, last, h, n + 1)
  <2>1. PICK r, s : r = G[n] /\ s = G[n + 1]
    OBVIOUS
  <2>0. n + 1 \in Nat
    OBVIOUS
  <2>2. r \in Readers /\ Good(r) /\ s = ReadStep(g, Len(g), r) /\ s \in Readers
    BY <1>7, <2>0, <2>1
  <2>3. Len(r.ver) <= Len(s.ver)
    BY <1>0, <2>2, LaterStep DEF Later
  <2>4. Len(r.ver) \in Nat /\ Len(s.ver) \in Nat
    BY <2>2, ReaderTypes
  <2>5. Len(last.ver) <= Len(s.ver)
    <3>1. PICK x, y, z : x = Len(last.ver) /\ y = Len(r.ver) /\ z = Len(s.ver)
      OBVIOUS
    <3>2. x \in Nat /\ y \in Nat /\ z \in Nat
      BY <1>5, <2>4, <3>1
    <3>3. x <= y /\ y <= z
      BY <1>10, <2>1, <2>3, <3>1
    <3>4. x <= z
      BY <3>2, <3>3
    <3>5. QED
      BY <3>1, <3>4
  <2>6. QED
    BY <2>1, <2>5 DEF AsMany
<1>11. ASSUME NEW n \in Nat, ~F[n].done, F[n].pos <= h, G[n] = F[n]
       PROVE  AsMany(F, G, last, h, n + 1)
  <2>1. PICK r, s : r = F[n] /\ s = F[n + 1]
    OBVIOUS
  <2>2. r \in Readers /\ Good(r) /\ s = ReadStep(f, Len(f), r) /\ ~r.done /\ r.pos <= h /\ G[n] = r
    BY <1>6, <1>11, <2>1
  <2>3. CASE s.done
    <3>1. last = s
      <4>1. ~F[n].done /\ F[n + 1].done
        BY <2>1, <2>2, <2>3
      <4>2. last = F[n + 1]
        BY <1>0, <1>3, <4>1, RunReaches
      <4>3. QED
        BY <2>1, <4>2
    <3>2. s.pos = r.pos /\ Later(r, s)
      BY <1>0, <2>2, <2>3, LaterStep
    <3>3. s.ver = r.ver
      BY <3>2 DEF Later, SameTables
    <3>4. Len(last.ver) <= Len(G[n].ver)
      BY <1>5, <2>2, <3>1, <3>3
    <3>5. QED
      BY <1>10, <3>4
  <2>4. CASE ~s.done
    <3>1. s.pos <= h
      <4>1. n + 1 \in Nat
        OBVIOUS
      <4>2. F[n + 1].pos <= last.pos
        BY <1>0, <1>3, <2>1, <2>4, <4>1, RunReaches
      <4>3. QED
        BY <1>5, <2>1, <4>2
    <3>2. PICK t : t = ReadStep(g, Len(g), r)
      OBVIOUS
    <3>3. ReadStep(g, Len(f), r) = s
      <4>1. PICK v \in Nat : v = Len(f)
        BY <1>0
      <4>2. s = ReadStep(f, v, r)
        BY <2>2, <4>1
      <4>3. ReadStep(g, v, r) = ReadStep(f, v, r)
        BY <1>5, <2>2, <2>4, <3>1, <4>2, SameStep
      <4>4. QED
        BY <4>1, <4>2, <4>3
    <3>4. t = s \/ (Len(g) <= Len(r.ver) /\ r.pos + 2 <= Len(g))
      BY <1>0, <2>2, <2>4, <3>2, <3>3, LimitOnly
    <3>5. 2 * Len(r.ver) <= r.pos /\ Len(r.ver) \in Nat /\ r.pos \in Nat
      BY <2>2, ReaderTypes DEF Good
    <3>6. t = s
      <4>1. PICK l, m, p : l = Len(r.ver) /\ m = Len(g) /\ p = r.pos
        OBVIOUS
      <4>2. l \in Nat /\ m \in Nat /\ p \in Nat /\ 2 * l <= p
        BY <1>0, <3>5, <4>1
      <4>3. ~(m <= l /\ p + 2 <= m)
        BY <4>2
      <4>4. QED
        BY <3>4, <4>1, <4>3
    <3>7. G[n + 1] = s
      BY <1>7, <2>2, <3>2, <3>6
    <3>8. QED
      BY <2>1, <2>4, <3>1, <3>7 DEF AsMany
  <2>5. QED
    BY <2>3, <2>4
<1>12. ASSUME NEW n \in Nat, n \in T PROVE n + 1 \in T
  BY <1>10, <1>11, <1>12 DEF AsMany
<1>13. \A n \in Nat : n \in T
  <2> HIDE DEF T
  <2>1. QED
    BY <1>9, <1>12, NatByInduction
<1>14. PICK N \in Nat : N >= Len(f) + 1 /\ N >= Len(g) + 1
  <2>1. Len(f) + Len(g) + 1 \in Nat /\ Len(f) + Len(g) + 1 >= Len(f) + 1
        /\ Len(f) + Len(g) + 1 >= Len(g) + 1
    BY <1>0
  <2>2. QED
    BY <2>1
<1>15. F[N].done
  <2>1. N > Len(f)
    BY <1>0, <1>14
  <2>2. QED
    BY <1>0, <2>1, RunEnds
<1>16. Len(last.ver) <= Len(G[N].ver)
  BY <1>13, <1>15 DEF AsMany
<1>17. G[N] = G[Len(g) + 1]
  <2>1. Len(g) + 1 \in Nat /\ Len(g) + 1 > Len(g) /\ Len(g) + 1 <= N
    BY <1>0, <1>14
  <2>2. G[Len(g) + 1].done
    BY <1>0, <2>1, RunEnds
  <2>3. Later(G[Len(g) + 1], G[N])
    BY <1>0, <2>1, RunLater
  <2>4. QED
    BY <2>2, <2>3 DEF Later
<1>18. QED
  BY <1>1, <1>2, <1>3, <1>16, <1>17

-----------------------------------------------------------------------------
(* The states a reader comes through.                                      *)

Arrives(file, limit, r) ==
  \E s \in Runs(file, limit) : /\ ReadUntil(file, limit) = s[Len(file) + 1]
                               /\ \E n \in Nat : s[n] = r

LEMMA ArriveStep ==
  ASSUME NEW file \in Archives, NEW limit \in Nat, NEW r, Arrives(file, limit, r),
         NEW t, t = ReadStep(file, limit, r)
  PROVE  r \in Readers /\ Good(r) /\ Arrives(file, limit, t)
<1>1. PICK s \in Runs(file, limit) : /\ ReadUntil(file, limit) = s[Len(file) + 1]
                                     /\ \E n \in Nat : s[n] = r
  BY DEF Arrives
<1>2. PICK n \in Nat : s[n] = r
  BY <1>1
<1>3. r \in Readers /\ Good(r) /\ s[n + 1] = t
  BY <1>2, RunTypes
<1>4. n + 1 \in Nat
  OBVIOUS
<1>5. QED
  BY <1>1, <1>3, <1>4 DEF Arrives

\* Once it is done, it has read what there was.
LEMMA ArriveDone ==
  ASSUME NEW file \in Archives, NEW limit \in Nat, NEW r, Arrives(file, limit, r), r.done
  PROVE  ReadUntil(file, limit) = r
<1>0. Len(file) + 1 \in Nat /\ Len(file) + 1 > Len(file)
  BY DEF Archives
<1>1. PICK s \in Runs(file, limit) : /\ ReadUntil(file, limit) = s[Len(file) + 1]
                                     /\ \E n \in Nat : s[n] = r
  BY DEF Arrives
<1>2. PICK n \in Nat : s[n] = r
  BY <1>1
<1>3. CASE n <= Len(file) + 1
  <2>1. Later(s[n], s[Len(file) + 1])
    BY <1>0, <1>3, RunLater
  <2>2. QED
    BY <1>1, <1>2, <2>1 DEF Later
<1>4. CASE ~(n <= Len(file) + 1)
  <2>1. Later(s[Len(file) + 1], s[n])
    BY <1>0, <1>4, RunLater
  <2>2. s[Len(file) + 1].done
    BY <1>0, RunEnds
  <2>3. QED
    BY <1>1, <1>2, <2>1, <2>2 DEF Later
<1>5. QED
  BY <1>3, <1>4

\* A reader of another archive comes through the same state, if the two are the same up
\* to there and it is not to stop before.
LEMMA SameArrives ==
  ASSUME NEW f \in Archives, NEW g \in Archives, NEW r, Arrives(f, Len(f), r), ~r.done,
         SameUpTo(f, g, r.pos), NoJoin(f, g, r.pos), NEW limit \in Nat,
         Len(r.ver) < limit \/ r.pos <= limit
  PROVE  Arrives(g, limit, r)
<1>0. Len(f) \in Nat
  BY DEF Archives
<1>1. PICK F \in Runs(f, Len(f)) : \E n \in Nat : F[n] = r
  BY DEF Arrives
<1>2. PICK n \in Nat : F[n] = r
  BY <1>1
<1>3. PICK G \in Runs(g, limit) : ReadUntil(g, limit) = G[Len(g) + 1]
  BY RunExists
<1>4. \A m \in Nat : F[m] \in Readers /\ Good(F[m]) /\ F[m + 1] = ReadStep(f, Len(f), F[m])
  BY <1>0, RunTypes
<1>5. \A m \in Nat : G[m] \in Readers /\ Good(G[m]) /\ G[m + 1] = ReadStep(g, limit, G[m])
  BY RunTypes
<1>6. F[0] = ReaderInit /\ G[0] = ReaderInit
  BY <1>0, RunTypes
<1>7. r \in Readers /\ r.pos \in Nat /\ Len(r.ver) \in Nat
  BY <1>2, <1>4, ReaderTypes
<1>8. ASSUME NEW m \in Nat, m <= n
      PROVE  /\ ~F[m].done /\ F[m].pos <= r.pos /\ Len(F[m].ver) <= Len(r.ver)
  <2>1. Later(F[m], F[n])
    BY <1>0, <1>8, RunLater
  <2>2. QED
    BY <1>2, <2>1 DEF Later
<1> DEFINE T == {m \in Nat : m <= n => G[m] = F[m]}
<1>9. 0 \in T
  BY <1>6
<1>10. ASSUME NEW m \in Nat, m \in T PROVE m + 1 \in T
  <2> SUFFICES ASSUME m + 1 <= n PROVE G[m + 1] = F[m + 1]
    OBVIOUS
  <2>1. m <= n /\ m + 1 \in Nat
    OBVIOUS
  <2>2. PICK x, y : x = F[m] /\ y = F[m + 1]
    OBVIOUS
  <2>3. /\ x \in Readers /\ Good(x) /\ ~x.done /\ y = ReadStep(f, Len(f), x) /\ G[m] = x
        /\ Len(x.ver) <= Len(r.ver) /\ Len(x.ver) \in Nat
    BY <1>4, <1>8, <1>10, <2>1, <2>2, ReaderTypes
  <2>4. ~y.done /\ y.pos <= r.pos
    BY <1>8, <2>1, <2>2
  <2>5. PICK t : t = ReadStep(f, limit, x)
    OBVIOUS
  <2>6. ReadStep(g, limit, x) = t
    BY <1>0, <1>7, <2>3, <2>4, <2>5, SameStep
  <2>7. t = y \/ (t.done /\ SameTables(x, t) /\ limit <= Len(x.ver) /\ x.pos + 2 <= Len(f))
    BY <1>0, <2>3, <2>4, <2>5, LimitOnly
  <2>8. ~(limit <= Len(x.ver))
    <3>2. y.pos >= x.pos + 1 /\ x.pos \in Nat /\ y.pos \in Nat
      BY <1>0, <2>3, <2>4, LaterStep, ReaderTypes
    <3>3. 2 * Len(x.ver) <= x.pos
      BY <2>3 DEF Good
    <3>4. PICK a, b, c, d : a = Len(x.ver) /\ b = Len(r.ver) /\ c = x.pos /\ d = r.pos
      OBVIOUS
    <3>5. a \in Nat /\ b \in Nat /\ c \in Nat /\ d \in Nat /\ a <= b /\ 2 * a <= c
      BY <1>7, <2>3, <3>2, <3>3, <3>4
    <3>6. c < d
      BY <1>7, <2>4, <3>2, <3>4
    <3>7. b < limit \/ d <= limit
      BY <3>4
    <3>8. ~(limit <= a)
      BY <3>5, <3>6, <3>7
    <3>9. QED
      BY <3>4, <3>8
  <2>9. QED
    BY <1>5, <2>2, <2>3, <2>6, <2>7, <2>8
<1>11. \A m \in Nat : m \in T
  <2> HIDE DEF T
  <2>1. QED
    BY <1>9, <1>10, NatByInduction
<1>12. G[n] = r
  BY <1>2, <1>11
<1>13. QED
  BY <1>3, <1>12 DEF Arrives

-----------------------------------------------------------------------------
(* A version that is whole, read from where the versions before it end.    *)

BlockAt(file, o, b) == /\ CellAt(file, o + 1) = [block |-> b, part |-> "tag"]
                       /\ CellAt(file, o + 2) = [block |-> b, part |-> "body"]

LEMMA StepOver ==
  ASSUME NEW file \in Archives, NEW limit \in Nat, NEW r \in Readers, ~r.done,
         NEW b, BlockAt(file, r.pos, b)
  PROVE  ReadStep(file, limit, r) = TagRead(r, r.pos, b, TRUE, limit)
<1>1. PICK o \in Nat : o = r.pos
  BY ReaderTypes
<1>2. IsTag(file, o) /\ CellAt(file, o + 1).block = b
  BY <1>1 DEF BlockAt, IsTag
<1>3. IsWhole(file, o)
  BY <1>1, <1>2 DEF BlockAt, IsWhole
<1>4. FirstTag(file, o, o)
  BY <1>2 DEF FirstTag
<1>5. PICK w : w = IsWhole(file, o)
  OBVIOUS
<1>6. ReadStep(file, limit, r) = TagRead(r, o, b, w, limit)
  BY <1>1, <1>2, <1>4, <1>5, StepIs
<1>7. w = TRUE
  BY <1>3, <1>5 DEF IsWhole
<1>8. QED
  BY <1>1, <1>6, <1>7

\* The reader r was at the end of the good versions; it is in the next one now: its jump
\* jmp, k of its tables (the hashes sha) and l of its files (the fragments ptr) are read.
Reading(r, s, jmp, sha, ptr, k, l) ==
  /\ s \in Readers /\ ~s.done /\ s.errors = 0 /\ ~s.skipped
  /\ s.ver = Append(r.ver, jmp) /\ s.pos = r.pos + 2 + jmp + 2 * k + 2 * l
  /\ s.hseen = k /\ Len(s.ht) = Len(r.ht) + k
  /\ \A j \in 1..Len(r.ht) : s.ht[j] = r.ht[j]
  /\ \A j \in 1..k : s.ht[Len(r.ht) + j] = sha[j]
  /\ s.iseen = l /\ s.expected = l + 1
  /\ \A n \in 1..Names : s.dt[n] = IF n <= l THEN ptr ELSE r.dt[n]

LEMMA Onward ==
  ASSUME NEW u \in Nat, NEW jmp \in Nat, NEW k \in Nat, NEW l \in Nat
  PROVE  /\ (u + 2 + jmp + 2 * k + 2 * l) + 2 = u + 2 + jmp + 2 * k + 2 * (l + 1)
         /\ l + 2 = (l + 1) + 1
OBVIOUS

LEMMA NewHeader ==
  ASSUME NEW r \in Readers, Good(r), ~r.done, r.errors = 0, ~r.skipped, ~VersionHole(r),
         NEW date \in Nat, NEW jmp \in Nat, NEW limit \in Nat, Len(r.ver) < limit,
         NEW b, b = CBlock(date, HtSize(r), jmp), NEW sha, NEW ptr,
         NEW s, s = TagRead(r, r.pos, b, TRUE, limit)
  PROVE  Reading(r, s, jmp, sha, ptr, 0, 0)
<1>0. Len(r.ver) \in Nat /\ r.pos \in Nat /\ Len(r.ht) \in Nat /\ r.ver \in Seq(Nat)
  BY DEF Readers
<1>1. b.type = "c" /\ b.num = HtSize(r) /\ b.jmp = jmp
  BY DEF CBlock, Block
<1>2. s = ReadC(r, r.pos, b, limit)
  BY <1>1 DEF TagRead
<1>3. ~StopsAt(r, b, limit)
  BY <1>0, <1>1 DEF StopsAt
<1>4. ~(b.num > HtSize(r))
  BY <1>0, <1>1 DEF HtSize
<1>5. Count(VersionHole(r) \/ (~r.skipped /\ b.num > HtSize(r))) = 0
  BY <1>4 DEF Count
<1>6. PICK v, p : v = Append(r.ver, jmp) /\ p = r.pos + 2 + jmp
  OBVIOUS
<1>c. PICK c, e : c = Count(VersionHole(r) \/ (~r.skipped /\ b.num > HtSize(r))) /\ e = r.errors + c
  OBVIOUS
<1>e. e = 0
  BY <1>5, <1>c
<1>7. s = [r EXCEPT !.errors = e, !.expected = 1, !.hseen = 0, !.iseen = 0, !.skipped = FALSE,
                    !.ver = v, !.pos = p, !.block_offset = p]
  <2>1. s = [r EXCEPT
          !.errors = @ + c,
          !.expected = 1, !.hseen = 0, !.iseen = 0, !.skipped = FALSE,
          !.ver = Append(@, b.jmp),
          !.pos = r.pos + 2 + b.jmp, !.block_offset = r.pos + 2 + b.jmp]
    BY <1>2, <1>3, <1>c DEF ReadC
  <2>2. s = [r EXCEPT
          !.errors = e,
          !.expected = 1, !.hseen = 0, !.iseen = 0, !.skipped = FALSE,
          !.ver = Append(r.ver, b.jmp),
          !.pos = r.pos + 2 + b.jmp, !.block_offset = r.pos + 2 + b.jmp]
    BY <1>c, <2>1
  <2>3. QED
    BY <1>1, <1>6, <2>2
<1>8. v \in Seq(Nat) /\ p \in Nat /\ e \in Nat
  BY <1>0, <1>6, <1>e
<1>9. s \in Readers
  <2>1. HtSize(r) \in Nat
    BY <1>0 DEF HtSize
  <2>2. b \in BlockSet
    BY <2>1 DEF CBlock, Block, BlockSet
  <2>3. PICK o \in Nat : o = r.pos
    BY <1>0
  <2>4. ReadC(r, o, b, limit) \in Readers
    BY <2>2, ReadCIs
  <2>5. QED
    BY <1>2, <2>3, <2>4
<1>10. /\ ~s.done /\ s.errors = 0 /\ ~s.skipped /\ s.ver = v /\ s.pos = p /\ s.hseen = 0
       /\ s.iseen = 0 /\ s.expected = 1 /\ s.ht = r.ht /\ s.dt = r.dt
  BY <1>7, <1>e DEF Readers
<1>11. p = r.pos + 2 + jmp + 2 * 0 + 2 * 0 /\ Len(r.ht) = Len(r.ht) + 0 /\ 1 = 0 + 1
  BY <1>0, <1>6
<1>12. \A n \in 1..Names : ~(n <= 0)
  BY NamesAssumption
<1>13. s.pos = r.pos + 2 + jmp + 2 * 0 + 2 * 0 /\ Len(s.ht) = Len(r.ht) + 0 /\ s.expected = 0 + 1
  BY <1>6, <1>10, <1>11
<1>14. \A j \in 1..0 : s.ht[Len(r.ht) + j] = sha[j]
  OBVIOUS
<1>15. QED
  BY <1>6, <1>9, <1>10, <1>12, <1>13, <1>14 DEF Reading

LEMMA NewTable ==
  ASSUME NEW r \in Readers, NEW jmp \in Nat, NEW sha, NEW ptr, NEW k \in Nat, NEW date \in Nat,
         NEW s, Reading(r, s, jmp, sha, ptr, k, 0), NEW limit, sha[k + 1] \in Nat,
         NEW b, b = HBlock(date, HtSize(r) + k, sha[k + 1]),
         NEW t, t = TagRead(s, s.pos, b, TRUE, limit)
  PROVE  Reading(r, t, jmp, sha, ptr, k + 1, 0)
<1>0. r.pos \in Nat /\ Len(r.ht) \in Nat /\ s \in Readers /\ Len(s.ht) = Len(r.ht) + k
  <2>1. r.pos \in Nat /\ r.ht \in Seq(Nat)
    BY DEF Readers
  <2>2. s \in Readers /\ Len(s.ht) = Len(r.ht) + k
    BY DEF Reading
  <2>3. QED
    BY <2>1, <2>2
<1>1. PICK L \in Nat : L = Len(r.ht)
  BY <1>0
<1>2. PICK p \in Nat : p = s.pos
  BY <1>0, ReaderTypes
<1>3. /\ b.type = "h" /\ b.num = L + k + 1 /\ b.sha = sha[k + 1] /\ HtSize(s) = L + k + 1
      /\ Len(s.ht) = L + k
  BY <1>0, <1>1 DEF HBlock, Block, HtSize
<1>4. t = ReadH(s, p, b)
  BY <1>2, <1>3 DEF TagRead
<1>5. Count(HtSize(s) > b.num \/ (HtSize(s) < b.num /\ ~s.skipped)) = 0
  BY <1>3 DEF Count
<1>6. PICK ht : ht = [j \in 1..L + k + 1 |-> IF j = L + k + 1 THEN sha[k + 1]
                                             ELSE IF j <= L + k THEN s.ht[j] ELSE 0]
  OBVIOUS
<1>7. [j \in 1..(IF b.num > Len(s.ht) THEN b.num ELSE Len(s.ht)) |->
               IF j = b.num THEN b.sha ELSE IF j <= Len(s.ht) THEN s.ht[j] ELSE 0] = ht
  <2>1. (IF b.num > Len(s.ht) THEN b.num ELSE Len(s.ht)) = L + k + 1
    BY <1>3
  <2>2. QED
    BY <1>3, <1>6, <2>1
<1>c. PICK c, e, h, q : /\ c = Count(HtSize(s) > b.num \/ (HtSize(s) < b.num /\ ~s.skipped))
                        /\ e = s.errors + c /\ h = s.hseen + 1 /\ q = p + 2
  OBVIOUS
<1>e. e = 0 /\ h = k + 1 /\ q = p + 2 /\ e \in Nat /\ h \in Nat /\ q \in Nat
  <2>1. s.errors = 0 /\ s.hseen = k
    BY DEF Reading
  <2>2. QED
    BY <1>5, <1>c, <2>1
<1>8. t = [s EXCEPT !.errors = e, !.ht = ht, !.hseen = h, !.pos = q, !.block_offset = q]
  <2>2. t = [s EXCEPT !.errors = @ + c, !.ht = ht, !.hseen = @ + 1, !.pos = p + 2, !.block_offset = p + 2]
    BY <1>4, <1>7, <1>c DEF ReadH
  <2>3. QED
    BY <1>c, <2>2
<1>9. \A j \in 1..L + k : ht[j] = s.ht[j] /\ ht[j] \in Nat
  <2> SUFFICES ASSUME NEW j \in 1..L + k PROVE ht[j] = s.ht[j] /\ ht[j] \in Nat
    OBVIOUS
  <2>1. j \in 1..L + k + 1 /\ j # L + k + 1 /\ j <= L + k /\ j \in 1..Len(s.ht)
    BY <1>3
  <2>2. s.ht[j] \in Nat
    <3>1. s.ht \in Seq(Nat)
      BY <1>0 DEF Readers
    <3>2. QED
      BY <2>1, <3>1
  <2>3. QED
    BY <1>6, <2>1, <2>2
<1>10. ht[L + k + 1] = sha[k + 1]
  BY <1>6
<1>11. ht \in Seq(Nat) /\ Len(ht) = L + (k + 1)
  <2>1. \A j \in 1..L + k + 1 : ht[j] \in Nat
    <3> SUFFICES ASSUME NEW j \in 1..L + k + 1 PROVE ht[j] \in Nat
      OBVIOUS
    <3>1. j \in 1..L + k \/ j = L + k + 1
      OBVIOUS
    <3>2. QED
      BY <1>9, <1>10, <3>1
  <2>2. ht \in [1..L + k + 1 -> Nat]
    BY <1>6, <2>1
  <2>3. QED
    BY <2>2
<1>12. t \in Readers
  BY <1>0, <1>8, <1>11, <1>e DEF Readers
<1>13. /\ t.done = s.done /\ t.errors = 0 /\ t.skipped = s.skipped /\ t.ver = s.ver /\ t.pos = p + 2
       /\ t.hseen = k + 1 /\ t.iseen = s.iseen /\ t.expected = s.expected /\ t.ht = ht /\ t.dt = s.dt
  BY <1>0, <1>8, <1>e DEF Readers
<1>14. \A j \in 1..k + 1 : ht[L + j] = sha[j]
  <2> SUFFICES ASSUME NEW j \in 1..k + 1 PROVE ht[L + j] = sha[j]
    OBVIOUS
  <2>1. CASE j = k + 1
    <3>1. L + j = L + k + 1
      BY <2>1
    <3>2. QED
      BY <1>10, <2>1, <3>1
  <2>2. CASE j # k + 1
    <3>1. j \in 1..k /\ L + j \in 1..L + k
      BY <2>2
    <3>2. QED
      BY <1>1, <1>9, <3>1 DEF Reading
  <2>3. QED
    BY <2>1, <2>2
<1>15. \A j \in 1..L : ht[j] = r.ht[j]
  <2>1. \A j \in 1..L : j \in 1..L + k
    OBVIOUS
  <2>2. QED
    BY <1>1, <1>9, <2>1 DEF Reading
<1>16. p + 2 = r.pos + 2 + jmp + 2 * (k + 1) + 2 * 0
  <2>1. PICK x \in Nat : x = r.pos
    BY <1>0
  <2>2. p = x + 2 + jmp + 2 * k + 2 * 0
    BY <1>2, <2>1 DEF Reading
  <2>3. p + 2 = x + 2 + jmp + 2 * (k + 1) + 2 * 0
    BY <2>2
  <2>4. QED
    BY <2>1, <2>3
<1>17. QED
  BY <1>1, <1>11, <1>12, <1>13, <1>14, <1>15, <1>16 DEF Reading

LEMMA NewFile ==
  ASSUME NEW r \in Readers, NEW jmp \in Nat, NEW sha, NEW ptr \in Seq(Nat), NEW k \in Nat,
         NEW l \in Nat, l < Names, NEW date \in Nat,
         NEW s, Reading(r, s, jmp, sha, ptr, k, l), NEW limit,
         NEW b, b = IBlock(date, l + 1, l + 1, ptr),
         NEW t, t = TagRead(s, s.pos, b, TRUE, limit)
  PROVE  Reading(r, t, jmp, sha, ptr, k, l + 1)
<1>0. r.pos \in Nat /\ s \in Readers /\ Names \in Nat
  BY NamesAssumption DEF Readers, Reading
<1>2. PICK p \in Nat : p = s.pos
  BY <1>0, ReaderTypes
<1>3. b.type = "i" /\ b.num = l + 1 /\ b.name = l + 1 /\ b.ptr = ptr
  BY DEF IBlock, Block
<1>4. t = ReadI(s, p, b)
  BY <1>2, <1>3 DEF TagRead
<1>5. s.expected = l + 1 /\ s.errors = 0 /\ s.iseen = l
  BY DEF Reading
<1>6. Count(b.num # s.expected /\ ~s.skipped /\ s.ver # <<>>) = 0
  BY <1>3, <1>5 DEF Count
<1>7. PICK d : d = [s.dt EXCEPT ![l + 1] = ptr]
  OBVIOUS
<1>c. PICK c, e, m, q : /\ c = Count(b.num # s.expected /\ ~s.skipped /\ s.ver # <<>>)
                        /\ e = s.errors + c /\ m = s.iseen + 1 /\ q = p + 2
  OBVIOUS
<1>x. PICK x : x = b.num + 1
  OBVIOUS
<1>e. /\ e = 0 /\ m = l + 1 /\ q = p + 2 /\ x = l + 2
      /\ e \in Nat /\ m \in Nat /\ q \in Nat /\ x \in Nat
  BY <1>3, <1>5, <1>6, <1>c, <1>x
<1>8. t = [s EXCEPT !.errors = e, !.expected = x, !.iseen = m, !.dt = d, !.pos = q,
                    !.block_offset = q]
  <2>1. t = [s EXCEPT
     !.errors = @ + c, !.expected = b.num + 1, !.iseen = @ + 1,
     !.dt = [@ EXCEPT ![b.name] = b.ptr], !.pos = p + 2, !.block_offset = p + 2]
    BY <1>4, <1>c DEF ReadI
  <2>2. t = [s EXCEPT
     !.errors = e, !.expected = x, !.iseen = m,
     !.dt = [s.dt EXCEPT ![b.name] = b.ptr], !.pos = q, !.block_offset = q]
    BY <1>c, <1>x, <2>1
  <2>3. QED
    BY <1>3, <1>7, <2>2
<1>9. s.dt \in [1..Names -> Seq(Nat)] /\ l + 1 \in 1..Names
  BY <1>0 DEF Readers
<1>10. d \in [1..Names -> Seq(Nat)] /\ \A n \in 1..Names : d[n] = IF n = l + 1 THEN ptr ELSE s.dt[n]
  BY <1>7, <1>9
<1>11. t \in Readers
  BY <1>0, <1>8, <1>10, <1>e DEF Readers
<1>12. /\ t.done = s.done /\ t.errors = 0 /\ t.skipped = s.skipped /\ t.ver = s.ver /\ t.pos = p + 2
       /\ t.hseen = s.hseen /\ t.iseen = l + 1 /\ t.expected = l + 2 /\ t.ht = s.ht /\ t.dt = d
  BY <1>0, <1>8, <1>e DEF Readers
<1>13. \A n \in 1..Names : d[n] = IF n <= l + 1 THEN ptr ELSE r.dt[n]
  <2> SUFFICES ASSUME NEW n \in 1..Names PROVE d[n] = IF n <= l + 1 THEN ptr ELSE r.dt[n]
    OBVIOUS
  <2>1. s.dt[n] = IF n <= l THEN ptr ELSE r.dt[n]
    BY DEF Reading
  <2>2. n <= l + 1 <=> (n <= l \/ n = l + 1)
    OBVIOUS
  <2>3. QED
    BY <1>10, <2>1, <2>2
<1>14. p + 2 = r.pos + 2 + jmp + 2 * k + 2 * (l + 1) /\ l + 2 = (l + 1) + 1
  <2>1. PICK u \in Nat : u = r.pos
    BY <1>0
  <2>2. p = u + 2 + jmp + 2 * k + 2 * l
    BY <1>2, <2>1 DEF Reading
  <2>3. p + 2 = u + 2 + jmp + 2 * k + 2 * (l + 1) /\ l + 2 = (l + 1) + 1
    BY <2>2, Onward
  <2>4. QED
    BY <2>1, <2>3
<1>15. /\ t \in Readers /\ ~t.done /\ t.errors = 0 /\ ~t.skipped /\ t.ver = Append(r.ver, jmp)
       /\ t.hseen = k /\ Len(t.ht) = Len(r.ht) + k
       /\ \A j \in 1..Len(r.ht) : t.ht[j] = r.ht[j]
       /\ \A j \in 1..k : t.ht[Len(r.ht) + j] = sha[j]
  BY <1>11, <1>12 DEF Reading
<1>16. /\ t.pos = r.pos + 2 + jmp + 2 * k + 2 * (l + 1) /\ t.iseen = l + 1
       /\ t.expected = (l + 1) + 1
       /\ \A n \in 1..Names : t.dt[n] = IF n <= l + 1 THEN ptr ELSE r.dt[n]
  BY <1>12, <1>13, <1>14
<1>17. QED
  BY <1>15, <1>16 DEF Reading

\* A whole version at offset h, the last of the file: its header, its tables after the
\* data, and its files.
VersionAt(file, h, date, htsize, sha, ptr, data, index) ==
  /\ BlockAt(file, h, CBlock(date, htsize, 2 * data))
  /\ \A k \in 0..data - 1 :
       BlockAt(file, h + 2 + 2 * data + 2 * k + 2 * 0, HBlock(date, htsize + k, sha[k + 1]))
  /\ \A l \in 0..index - 1 :
       BlockAt(file, h + 2 + 2 * data + 2 * data + 2 * l, IBlock(date, l + 1, l + 1, ptr))
  /\ NoTags(file, h + 2 + 2 * data + 2 * data + 2 * index)

\* A reader that has met no error up to here, and is where it would append.
Fresh(r) == ~r.done /\ r.errors = 0 /\ ~r.skipped /\ ~VersionHole(r)

Comes(file, limit, r, jmp, sha, ptr, k, l) ==
  \E s \in Readers : Arrives(file, limit, s) /\ Reading(r, s, jmp, sha, ptr, k, l)

LEMMA VersionRead ==
  ASSUME NEW file \in Archives, NEW limit \in Nat, NEW r, Arrives(file, limit, r), Fresh(r),
         Len(r.ver) < limit, NEW date \in Nat, NEW sha, NEW ptr \in Seq(Nat),
         NEW data \in Nat, NEW index \in 0..Names, \A k \in 1..data : sha[k] \in Nat,
         VersionAt(file, r.pos, date, HtSize(r), sha, ptr, data, index)
  PROVE  Comes(file, limit, r, 2 * data, sha, ptr, data, index)
<1>1. r \in Readers /\ Good(r) /\ ~r.done
  BY ArriveStep DEF Fresh
<1>2. PICK jmp \in Nat : jmp = 2 * data
  OBVIOUS
<1>3. PICK h \in Nat : h = r.pos
  BY <1>1, ReaderTypes
<1>n. Names \in Nat /\ index \in Nat /\ index <= Names
  BY NamesAssumption
<1>4. Comes(file, limit, r, jmp, sha, ptr, 0, 0)
  <2>1. PICK b, s : b = CBlock(date, HtSize(r), jmp) /\ s = TagRead(r, r.pos, b, TRUE, limit)
    OBVIOUS
  <2>2. Reading(r, s, jmp, sha, ptr, 0, 0)
    BY <1>1, <2>1, NewHeader DEF Fresh
  <2>3. BlockAt(file, r.pos, b)
    BY <1>2, <2>1 DEF VersionAt
  <2>4. ReadStep(file, limit, r) = s
    BY <1>1, <2>1, <2>3, StepOver
  <2>5. Arrives(file, limit, s)
    BY <2>4, ArriveStep
  <2>6. QED
    BY <2>2, <2>5 DEF Comes, Reading
<1> DEFINE T == {k \in Nat : k <= data => Comes(file, limit, r, jmp, sha, ptr, k, 0)}
<1>5. 0 \in T
  BY <1>4
<1>6. ASSUME NEW k \in Nat, k \in T PROVE k + 1 \in T
  <2> SUFFICES ASSUME k + 1 <= data PROVE Comes(file, limit, r, jmp, sha, ptr, k + 1, 0)
    OBVIOUS
  <2>0. k <= data /\ k \in 0..data - 1 /\ k + 1 \in 1..data
    OBVIOUS
  <2>1. PICK s \in Readers : Arrives(file, limit, s) /\ Reading(r, s, jmp, sha, ptr, k, 0)
    BY <1>6, <2>0 DEF Comes
  <2>2. PICK b, t : b = HBlock(date, HtSize(r) + k, sha[k + 1]) /\ t = TagRead(s, s.pos, b, TRUE, limit)
    OBVIOUS
  <2>3. Reading(r, t, jmp, sha, ptr, k + 1, 0)
    BY <1>1, <2>0, <2>1, <2>2, NewTable
  <2>4. ~s.done /\ s.pos = r.pos + 2 + jmp + 2 * k + 2 * 0
    BY <2>1 DEF Reading
  <2>5. BlockAt(file, s.pos, b)
    BY <1>2, <2>0, <2>2, <2>4 DEF VersionAt
  <2>6. ReadStep(file, limit, s) = t
    BY <2>2, <2>4, <2>5, StepOver
  <2>7. Arrives(file, limit, t)
    BY <2>1, <2>6, ArriveStep
  <2>8. QED
    BY <2>3, <2>7 DEF Comes, Reading
<1>7. Comes(file, limit, r, jmp, sha, ptr, data, 0)
  <2>1. \A k \in Nat : k \in T
    <3> HIDE DEF T
    <3>1. QED
      BY <1>5, <1>6, NatByInduction
  <2>2. QED
    BY <2>1
<1> DEFINE U == {l \in Nat : l <= index => Comes(file, limit, r, jmp, sha, ptr, data, l)}
<1>8. 0 \in U
  BY <1>7
<1>9. ASSUME NEW l \in Nat, l \in U PROVE l + 1 \in U
  <2> SUFFICES ASSUME l + 1 <= index PROVE Comes(file, limit, r, jmp, sha, ptr, data, l + 1)
    OBVIOUS
  <2>0. l <= index /\ l \in 0..index - 1 /\ l < Names
    BY <1>n
  <2>1. PICK s \in Readers : Arrives(file, limit, s) /\ Reading(r, s, jmp, sha, ptr, data, l)
    BY <1>9, <2>0 DEF Comes
  <2>2. PICK b, t : b = IBlock(date, l + 1, l + 1, ptr) /\ t = TagRead(s, s.pos, b, TRUE, limit)
    OBVIOUS
  <2>3. Reading(r, t, jmp, sha, ptr, data, l + 1)
    BY <1>1, <2>0, <2>1, <2>2, NewFile
  <2>4. ~s.done /\ s.pos = r.pos + 2 + jmp + 2 * data + 2 * l
    BY <2>1 DEF Reading
  <2>5. BlockAt(file, s.pos, b)
    BY <1>2, <2>0, <2>2, <2>4 DEF VersionAt
  <2>6. ReadStep(file, limit, s) = t
    BY <2>2, <2>4, <2>5, StepOver
  <2>7. Arrives(file, limit, t)
    BY <2>1, <2>6, ArriveStep
  <2>8. QED
    BY <2>3, <2>7 DEF Comes, Reading
<1>10. Comes(file, limit, r, jmp, sha, ptr, data, index)
  <2>1. \A l \in Nat : l \in U
    <3> HIDE DEF U
    <3>1. QED
      BY <1>8, <1>9, NatByInduction
  <2>2. QED
    BY <1>n, <2>1
<1>11. QED
  BY <1>2, <1>10

\* The reader ends there, without an error.
LEMMA FreshEnd ==
  ASSUME NEW file \in Archives, NEW limit \in Nat, NEW s, Arrives(file, limit, s), Fresh(s),
         NoTags(file, s.pos)
  PROVE  /\ ReadUntil(file, limit) = EndRead(s) /\ EndRead(s).errors = 0
         /\ SameTables(s, EndRead(s)) /\ EndRead(s).block_offset = s.pos
<1>1. s \in Readers /\ Good(s)
  BY ArriveStep
<1>2. ReadStep(file, limit, s) = EndRead(s)
  BY <1>1, StepIs, ReaderTypes DEF Fresh
<1>3. Arrives(file, limit, EndRead(s))
  BY <1>2, ArriveStep
<1>4. /\ EndRead(s).done /\ SameTables(s, EndRead(s))
      /\ EndRead(s).block_offset = s.block_offset
  BY <1>1, EndIs
<1>5. EndRead(s).errors = 0
  <2>1. PICK c : c = Count(VersionHole(s))
    OBVIOUS
  <2>2. c = 0
    BY <2>1 DEF Count, Fresh
  <2>3. EndRead(s) = [s EXCEPT !.done = TRUE, !.errors = @ + c]
    BY <2>1 DEF EndRead
  <2>4. EndRead(s).errors = s.errors + c
    BY <1>1, <2>3 DEF Readers
  <2>5. QED
    BY <2>2, <2>4 DEF Fresh
<1>6. QED
  BY <1>1, <1>3, <1>4, <1>5, ArriveDone DEF Good

\* Or it stops at the header of a version that was not finished.
UnfinishedAt(file, o) == \E b \in BlockSet : b.type = "c" /\ b.jmp = Incomplete /\ BlockAt(file, o, b)

LEMMA FreshStop ==
  ASSUME NEW file \in Archives, NEW limit \in Nat, NEW s, Arrives(file, limit, s), Fresh(s),
         UnfinishedAt(file, s.pos)
  PROVE  \E t : /\ ReadUntil(file, limit) = t /\ t.errors = 0
                /\ SameTables(s, t) /\ t.block_offset = s.pos
<1>1. s \in Readers /\ Good(s) /\ ~s.done /\ s.errors = 0
  BY ArriveStep DEF Fresh
<1>2. PICK b \in BlockSet : b.type = "c" /\ b.jmp = Incomplete /\ BlockAt(file, s.pos, b)
  BY DEF UnfinishedAt
<1>3. PICK t : t = ReadC(s, s.pos, b, limit)
  OBVIOUS
<1>4. ReadStep(file, limit, s) = t
  BY <1>1, <1>2, <1>3, StepOver DEF TagRead
<1>5. StopsAt(s, b, limit)
  BY <1>2 DEF StopsAt, Incomplete
<1>6. t = [s EXCEPT !.done = TRUE, !.incomplete = b.jmp < 0]
  BY <1>3, <1>5 DEF ReadC
<1>7. t.done /\ t.errors = s.errors /\ SameTables(s, t) /\ t.block_offset = s.block_offset
  BY <1>1, <1>6 DEF Readers, SameTables
<1>8. Arrives(file, limit, t)
  BY <1>4, ArriveStep
<1>9. ReadUntil(file, limit) = t
  BY <1>7, <1>8, ArriveDone
<1>10. QED
  BY <1>1, <1>7, <1>9 DEF Good

-----------------------------------------------------------------------------
(* Archives in order: what a reader finds in them is known, it meets no    *)
(* error, and behind their versions is nothing but an unfinished one.      *)

Pointers(r) == \A n \in 1..Names : \A k \in DOMAIN r.dt[n] : r.dt[n][k] \in 1..Len(r.ht)

LastOf(vs) == IF vs = <<>> THEN [n \in 1..Names |-> NoFile] ELSE vs[Len(vs)]

Holds(f, vs) ==
  /\ Len(Read(f).ver) = Len(vs)
  /\ \A v \in 1..Len(vs) : Version(f, v) = vs[v]
  /\ Contents(Read(f)) = LastOf(vs)

CleanTail(f, h) == Len(f) = h \/ UnfinishedAt(f, h)

EndsAt(f, r) == Arrives(f, Len(f), r) /\ Fresh(r) /\ Pointers(r) /\ CleanTail(f, r.pos)

ReadSound(f, vs) == Holds(f, vs) /\ \E r \in Readers : EndsAt(f, r)

LEMMA TailIs ==
  ASSUME NEW f \in Archives, NEW h \in Nat, CleanTail(f, h)
  PROVE  /\ TailSafe(f, h) /\ CellAt(f, h + 1).part # "body" /\ Len(f) >= h
         /\ Len(f) = h => NoTags(f, h)
<1>0. Len(f) \in Nat /\ ZeroCell.part = "zero"
  BY DEF Archives, ZeroCell
<1>1. CASE Len(f) = h
  <2>1. \A u \in Nat : u >= h => CellAt(f, u + 1) = ZeroCell
    <3> SUFFICES ASSUME NEW u \in Nat, u >= h PROVE u + 1 \notin 1..Len(f)
      BY DEF CellAt
    <3>1. QED
      BY <1>1
  <2>2. NoTags(f, h)
    BY <1>0, <2>1 DEF NoTags, IsTag
  <2>3. CellAt(f, h + 1) = ZeroCell
    BY <2>1
  <2>4. QED
    BY <1>0, <1>1, <2>2, <2>3 DEF TailSafe, AllTorn, Torn, NoTags
<1>2. CASE UnfinishedAt(f, h)
  <2>1. PICK b \in BlockSet : b.type = "c" /\ b.jmp = Incomplete /\ BlockAt(f, h, b)
    BY <1>2 DEF UnfinishedAt
  <2>2. IsTag(f, h) /\ IsWhole(f, h) /\ CellAt(f, h + 1).block = b
    BY <2>1 DEF BlockAt, IsTag, IsWhole
  <2>3. FirstTag(f, h, h) /\ WholeC(f, h)
    BY <2>1, <2>2 DEF FirstTag, WholeC
  <2>4. TailSafe(f, h)
    BY <2>3 DEF TailSafe
  <2>5. CellAt(f, h + 1).part = "tag"
    BY <2>2 DEF IsTag
  <2>6. h + 1 \in 1..Len(f)
    BY <1>0, <2>5 DEF CellAt
  <2>7. Len(f) >= h /\ Len(f) # h
    BY <1>0, <2>6
  <2>8. QED
    BY <2>4, <2>5, <2>7
<1>3. QED
  BY <1>1, <1>2 DEF CleanTail

\* Where such a reader ends, and with what.
LEMMA EndOf ==
  ASSUME NEW f \in Archives, NEW limit \in Nat, NEW r, Arrives(f, limit, r), Fresh(r),
         CleanTail(f, r.pos)
  PROVE  /\ ReadUntil(f, limit).errors = 0 /\ ReadUntil(f, limit).block_offset = r.pos
         /\ SameTables(r, ReadUntil(f, limit))
<1>1. r \in Readers /\ r.pos \in Nat
  BY ArriveStep, ReaderTypes
<1>2. CASE Len(f) = r.pos
  <2>1. NoTags(f, r.pos)
    BY <1>1, <1>2, TailIs
  <2>2. QED
    BY <2>1, FreshEnd
<1>3. CASE UnfinishedAt(f, r.pos)
  BY <1>3, FreshStop
<1>4. QED
  BY <1>2, <1>3 DEF CleanTail

LEMMA ReadSoundIs ==
  ASSUME NEW f \in Archives, NEW X, NEW vs \in Seq(X), ReadSound(f, vs)
  PROVE  /\ Read(f).errors = 0 /\ History(f) = vs /\ Contents(Read(f)) = LastOf(vs)
         /\ CleanTail(f, Read(f).block_offset)
         /\ \E r \in Readers : /\ EndsAt(f, r) /\ r.pos = Read(f).block_offset
                               /\ SameTables(r, Read(f))
<1>0. Len(f) \in Nat /\ Len(vs) \in Nat
  BY DEF Archives
<1>1. PICK r \in Readers : EndsAt(f, r)
  BY DEF ReadSound
<1>2. Read(f) = ReadUntil(f, Len(f))
  BY DEF Read
<1>3. Read(f).errors = 0 /\ r.pos = Read(f).block_offset /\ SameTables(r, Read(f))
  BY <1>0, <1>1, <1>2, EndOf DEF EndsAt
<1>4. PICK last : last = Len(vs)
  OBVIOUS
<1>5. History(f) = [v \in 1..last |-> Version(f, IF v = last THEN Len(f) ELSE v)]
  BY <1>4 DEF History, ReadSound, Holds
<1>6. \A v \in 1..last : Version(f, IF v = last THEN Len(f) ELSE v) = vs[v]
  <2> SUFFICES ASSUME NEW v \in 1..last PROVE Version(f, IF v = last THEN Len(f) ELSE v) = vs[v]
    OBVIOUS
  <2>1. CASE v = last
    <3>1. Version(f, Len(f)) = Contents(Read(f))
      BY <1>2, VersionIs
    <3>2. vs # <<>>
      BY <1>0, <1>4, <2>1
    <3>3. QED
      BY <1>4, <2>1, <3>1, <3>2 DEF ReadSound, Holds, LastOf
  <2>2. CASE v # last
    BY <1>4, <2>2 DEF ReadSound, Holds
  <2>3. QED
    BY <2>1, <2>2
<1>7. vs = [v \in 1..last |-> vs[v]]
  BY <1>4
<1>8. History(f) = vs
  BY <1>5, <1>6, <1>7
<1>9. QED
  BY <1>1, <1>3, <1>8 DEF ReadSound, Holds, EndsAt

\* The reader comes to the end of the good versions in g as it did in f.
LEMMA SameEnd ==
  ASSUME NEW f \in Archives, NEW g \in Archives, NEW r \in Readers, EndsAt(f, r),
         SameUpTo(f, g, r.pos), CellAt(g, r.pos + 1).part # "body",
         NEW limit \in Nat, Len(r.ver) < limit \/ r.pos <= limit
  PROVE  Arrives(g, limit, r) /\ Fresh(r) /\ Pointers(r)
BY SameArrives DEF EndsAt, Fresh, NoJoin

LEMMA ReadSoundSame ==
  ASSUME NEW f \in Archives, NEW g \in Archives, NEW X, NEW vs \in Seq(X), ReadSound(f, vs),
         NEW h, h = Read(f).block_offset, SameUpTo(f, g, h), CleanTail(g, h)
  PROVE  ReadSound(g, vs) /\ Read(g).block_offset = h /\ SameTables(Read(f), Read(g))
<1>0. Len(g) \in Nat /\ Len(vs) \in Nat
  BY DEF Archives
<1>1. PICK r \in Readers : /\ EndsAt(f, r) /\ r.pos = Read(f).block_offset
                           /\ SameTables(r, Read(f))
  BY ReadSoundIs
<1>2. h \in Nat /\ r.pos = h
  BY <1>1, ReaderTypes
<1>3. TailSafe(g, h) /\ CellAt(g, h + 1).part # "body" /\ Len(g) >= h
  BY <1>2, TailIs
<1>4. r.pos <= Len(g)
  BY <1>0, <1>2, <1>3
<1>5. Arrives(g, Len(g), r) /\ Fresh(r) /\ Pointers(r)
  BY <1>0, <1>1, <1>2, <1>3, <1>4, SameEnd
<1>6. EndsAt(g, r)
  BY <1>2, <1>5 DEF EndsAt
<1>7. SameTables(r, Read(g)) /\ Read(g).block_offset = h
  BY <1>0, <1>2, <1>5, EndOf DEF Read
<1>8. SameTables(Read(f), Read(g))
  BY <1>1, <1>7 DEF SameTables
<1>9. Contents(Read(g)) = LastOf(vs) /\ Len(Read(g).ver) = Len(vs)
  BY <1>8, SameContents DEF ReadSound, Holds, SameTables
<1>10. \A v \in 1..Len(vs) : Version(g, v) = vs[v]
  <2> SUFFICES ASSUME NEW v \in 1..Len(vs) PROVE Version(g, v) = vs[v]
    OBVIOUS
  <2>1. v \in Nat /\ v <= Len(Read(f).ver)
    BY <1>0 DEF ReadSound, Holds
  <2>2. NoJoin(f, g, h)
    BY <1>3 DEF NoJoin
  <2>3. Version(g, v) = Version(f, v)
    BY <1>3, <2>1, <2>2, SameVersion
  <2>4. QED
    BY <2>3 DEF ReadSound, Holds
<1>11. QED
  BY <1>6, <1>7, <1>8, <1>9, <1>10 DEF ReadSound, Holds

-----------------------------------------------------------------------------
(* One version more.                                                       *)

\* The fragments of a version that begins with the table at htsize, and what its files
\* and the others are then.
Numbered(htsize, data) == [k \in 1..data |-> htsize + k - 1]

Stored(old, index, data, sha) ==
  [n \in 1..Names |-> IF n <= index THEN [k \in 1..data |-> sha[k]] ELSE old[n]]

\* What the new version holds: its files have its data, and the others what they had.
LEMMA ReadingContents ==
  ASSUME NEW r \in Readers, Pointers(r), NEW jmp, NEW sha, NEW ptr, NEW data \in Nat,
         NEW index \in Nat, NEW s, Reading(r, s, jmp, sha, ptr, data, index),
         ptr = Numbered(HtSize(r), data)
  PROVE  Contents(s) = Stored(Contents(r), index, data, sha) /\ Pointers(s)
<1>p. ptr = [k \in 1..data |-> HtSize(r) + k - 1]
  BY DEF Numbered
<1>1. PICK L \in Nat : L = Len(r.ht)
  BY DEF Readers
<1>2. \A k \in 1..data : ptr[k] = L + k
  <2>1. \A k \in 1..data : ptr[k] = L + 1 + k - 1
    BY <1>1, <1>p DEF HtSize
  <2>2. QED
    BY <2>1
<1>3. DOMAIN ptr = 1..data
  BY <1>p
<1>4. s \in Readers /\ Len(s.ht) = L + data
  BY <1>1 DEF Reading
<1>5. DOMAIN s.ht = 1..L + data /\ DOMAIN r.ht = 1..L
  BY <1>1, <1>4 DEF Readers
<1>6. ASSUME NEW n \in 1..Names
      PROVE  /\ s.dt[n] = IF n <= index THEN ptr ELSE r.dt[n]
             /\ n <= index => [k \in DOMAIN s.dt[n] |->
                   IF s.dt[n][k] \in DOMAIN s.ht THEN s.ht[s.dt[n][k]] ELSE 0] = [k \in 1..data |-> sha[k]]
             /\ ~(n <= index) => [k \in DOMAIN s.dt[n] |->
                   IF s.dt[n][k] \in DOMAIN s.ht THEN s.ht[s.dt[n][k]] ELSE 0]
                 = [k \in DOMAIN r.dt[n] |->
                   IF r.dt[n][k] \in DOMAIN r.ht THEN r.ht[r.dt[n][k]] ELSE 0]
             /\ \A k \in DOMAIN s.dt[n] : s.dt[n][k] \in 1..Len(s.ht)
  <2>1. s.dt[n] = IF n <= index THEN ptr ELSE r.dt[n]
    BY DEF Reading
  <2>2. CASE n <= index
    <3>0. \A k \in 1..data : s.ht[L + k] = sha[k]
      BY <1>1 DEF Reading
    <3>1. \A k \in 1..data : ptr[k] = L + k /\ ptr[k] \in 1..L + data /\ s.ht[ptr[k]] = sha[k]
      BY <1>2, <3>0
    <3>2. s.dt[n] = ptr
      BY <2>1, <2>2
    <3>3. QED
      BY <1>3, <1>4, <1>5, <2>2, <3>1, <3>2
  <2>3. CASE ~(n <= index)
    <3>1. \A k \in DOMAIN r.dt[n] : r.dt[n][k] \in 1..L
      BY <1>1 DEF Pointers
    <3>2. \A j \in 1..L : j \in 1..L + data /\ s.ht[j] = r.ht[j]
      BY <1>1 DEF Reading
    <3>3. s.dt[n] = r.dt[n]
      BY <2>1, <2>3
    <3>4. QED
      BY <1>4, <1>5, <2>3, <3>1, <3>2, <3>3
  <2>4. QED
    BY <2>1, <2>2, <2>3
<1>7. Pointers(s)
  BY <1>6 DEF Pointers
<1>8. \A n \in 1..Names : Contents(r)[n] = [k \in DOMAIN r.dt[n] |->
                   IF r.dt[n][k] \in DOMAIN r.ht THEN r.ht[r.dt[n][k]] ELSE 0]
  BY DEF Contents
<1>9. Contents(s) = [n \in 1..Names |-> IF n <= index THEN [k \in 1..data |-> sha[k]]
                                                      ELSE Contents(r)[n]]
  BY <1>6, <1>8 DEF Contents
<1>10. QED
  BY <1>7, <1>9 DEF Stored

LEMMA ReadingEnds ==
  ASSUME NEW r \in Readers, NEW sha, NEW ptr, NEW data \in Nat, NEW index \in Nat,
         data > 0 => index > 0, NEW s, Reading(r, s, 2 * data, sha, ptr, data, index)
  PROVE  /\ Fresh(s) /\ Len(s.ver) = Len(r.ver) + 1
         /\ s.pos = r.pos + 2 + 2 * data + 2 * data + 2 * index
<1>1. r.ver \in Seq(Nat)
  BY DEF Readers
<1>2. PICK v : v = Append(r.ver, 2 * data)
  OBVIOUS
<1>3. v # <<>> /\ Len(v) = Len(r.ver) + 1 /\ v[Len(v)] = 2 * data
  BY <1>1, <1>2
<1>4. s.ver = v /\ s.hseen = data /\ s.iseen = index /\ ~s.skipped
  BY <1>2 DEF Reading
<1>5. ~VersionHole(s)
  <2>1. ~(2 * data > 0 /\ data = 0)
    OBVIOUS
  <2>2. ~((2 * data > 0 \/ data > 0) /\ index = 0)
    OBVIOUS
  <2>3. QED
    BY <1>3, <1>4, <2>1, <2>2 DEF VersionHole
<1>6. QED
  BY <1>3, <1>4, <1>5 DEF Reading, Fresh

LEMMA FirstHere ==
  ASSUME NEW file, NEW h \in Nat, IsTag(file, h)
  PROVE  FirstTag(file, h, h)
<1>1. \A u \in h..h - 1 : ~IsTag(file, u)
  OBVIOUS
<1>2. QED
  BY <1>1 DEF FirstTag

LEMMA FewerThanCells ==
  ASSUME NEW n \in Nat, NEW h \in Nat, NEW data \in Nat, NEW index \in Nat, 2 * n <= h
  PROVE  n < h + 2 + 2 * data + 2 * data + 2 * index
OBVIOUS

LEMMA ReadSoundNext ==
  ASSUME NEW f \in Archives, NEW g \in Archives, NEW X, NEW vs \in Seq(X), ReadSound(f, vs),
         NEW h, h = Read(f).block_offset, SameUpTo(f, g, h),
         NEW date \in Nat, NEW data \in Nat, NEW index \in 0..Names, data > 0 => index > 0,
         NEW sha, \A k \in 1..data : sha[k] \in Nat,
         NEW ptr, ptr = Numbered(HtSize(Read(f)), data),
         VersionAt(g, h, date, HtSize(Read(f)), sha, ptr, data, index),
         Len(g) = h + 2 + 2 * data + 2 * data + 2 * index,
         NEW new \in X, new = Stored(LastOf(vs), index, data, sha)
  PROVE  /\ ReadSound(g, Append(vs, new)) /\ Read(g).block_offset = Len(g)
         /\ Len(Read(g).ht) = Len(Read(f).ht) + data
<1>0. Len(g) \in Nat /\ Len(vs) \in Nat /\ index \in Nat
  BY DEF Archives
<1>1. PICK r \in Readers : /\ EndsAt(f, r) /\ r.pos = Read(f).block_offset
                           /\ SameTables(r, Read(f))
  BY ReadSoundIs
<1>2. h \in Nat /\ r.pos = h /\ HtSize(Read(f)) = HtSize(r) /\ Contents(r) = LastOf(vs)
  BY <1>1, ReaderTypes, SameContents DEF SameTables, HtSize, ReadSound, Holds
<1>3. Len(r.ver) = Len(vs)
  BY <1>1 DEF SameTables, ReadSound, Holds
<1>4. ptr \in Seq(Nat)
  <2>0. r.ht \in Seq(Nat)
    BY DEF Readers
  <2>1. PICK L \in Nat : L = Len(r.ht)
    BY <2>0
  <2>2. PICK z \in Nat : z = HtSize(Read(f)) /\ z >= 1
    BY <1>2, <2>1 DEF HtSize
  <2>3. ptr = [k \in 1..data |-> z + k - 1]
    BY <2>2 DEF Numbered
  <2>4. \A k \in 1..data : z + k - 1 \in Nat
    BY <2>2
  <2>5. ptr \in [1..data -> Nat]
    BY <2>3, <2>4
  <2>6. QED
    BY <2>5
<1>5. /\ CellAt(g, h + 1).part # "body"
      /\ FirstTag(g, h, h) /\ WholeC(g, h)
  <2>1. PICK b : b = CBlock(date, HtSize(Read(f)), 2 * data)
    OBVIOUS
  <2>2. BlockAt(g, h, b) /\ b.type = "c"
    BY <2>1 DEF VersionAt, CBlock, Block
  <2>3. IsTag(g, h) /\ IsWhole(g, h) /\ CellAt(g, h + 1).block = b
    BY <2>2 DEF BlockAt, IsTag, IsWhole
  <2>4. FirstTag(g, h, h) /\ WholeC(g, h)
    <3>1. h \in Nat
      BY <1>2
    <3>2. FirstTag(g, h, h)
      BY <2>3, <3>1, FirstHere
    <3>3. QED
      BY <2>2, <2>3, <3>2 DEF WholeC
  <2>5. CellAt(g, h + 1).part = "tag"
    BY <2>3 DEF IsTag
  <2>6. QED
    BY <2>4, <2>5
<1>6. ASSUME NEW limit \in Nat, Len(r.ver) < limit
      PROVE  \E s \in Readers : /\ EndsAt(g, s) \/ limit # Len(g)
                                /\ SameTables(s, ReadUntil(g, limit))
                                /\ ReadUntil(g, limit).block_offset = Len(g)
                                /\ Len(s.ver) = Len(vs) + 1 /\ Contents(s) = new
                                /\ Len(s.ht) = Len(r.ht) + data
  <2>1. Arrives(g, limit, r) /\ Fresh(r) /\ Pointers(r)
    BY <1>1, <1>2, <1>5, <1>6, SameEnd
  <2>2. Comes(g, limit, r, 2 * data, sha, ptr, data, index)
    BY <1>2, <1>4, <1>6, <2>1, VersionRead
  <2>3. PICK s \in Readers : Arrives(g, limit, s) /\ Reading(r, s, 2 * data, sha, ptr, data, index)
    BY <2>2 DEF Comes
  <2>4. /\ Fresh(s) /\ Len(s.ver) = Len(r.ver) + 1
        /\ s.pos = r.pos + 2 + 2 * data + 2 * data + 2 * index
    BY <1>0, <2>3, ReadingEnds
  <2>5. CleanTail(g, s.pos)
    BY <1>2, <2>4 DEF CleanTail
  <2>6. Contents(s) = Stored(Contents(r), index, data, sha) /\ Pointers(s)
    <3>1. ptr = Numbered(HtSize(r), data)
      BY <1>2
    <3>2. Pointers(r) /\ Reading(r, s, 2 * data, sha, ptr, data, index)
      BY <2>1, <2>3
    <3>3. QED
      BY <1>0, <3>1, <3>2, ReadingContents
  <2>7. SameTables(s, ReadUntil(g, limit)) /\ ReadUntil(g, limit).block_offset = Len(g)
    <3>1. s.pos = Len(g)
      BY <1>2, <2>4
    <3>2. QED
      BY <2>3, <2>4, <2>5, <3>1, EndOf
  <2>8. Len(s.ht) = Len(r.ht) + data
    BY <2>3 DEF Reading
  <2>9. QED
    BY <1>2, <1>3, <2>3, <2>4, <2>5, <2>6, <2>7, <2>8 DEF EndsAt
<1>7. Len(r.ver) < Len(g) /\ Len(r.ver) < Len(vs) + 1 /\ Len(vs) + 1 \in Nat
  <2>1. 2 * Len(r.ver) <= r.pos
    <3>1. Arrives(f, Len(f), r)
      BY <1>1 DEF EndsAt
    <3>2. Len(f) \in Nat
      BY DEF Archives
    <3>3. QED
      BY <3>1, <3>2, ArriveStep DEF Good
  <2>2. PICK n \in Nat : n = Len(r.ver)
    BY <1>0, <1>3
  <2>3. 2 * n <= h
    <3>1. 2 * Len(r.ver) <= h
      BY <1>2, <2>1
    <3>2. QED
      BY <2>2, <3>1
  <2>4. n < h + 2 + 2 * data + 2 * data + 2 * index
    <3>1. h \in Nat /\ index \in Nat
      BY <1>0, <1>2
    <3>2. QED
      BY <2>3, <3>1, FewerThanCells
  <2>5. QED
    BY <1>0, <1>3, <2>2, <2>4
<1>8. PICK s \in Readers : /\ EndsAt(g, s) /\ SameTables(s, Read(g))
                           /\ Read(g).block_offset = Len(g)
                           /\ Len(s.ver) = Len(vs) + 1 /\ Contents(s) = new
                           /\ Len(s.ht) = Len(r.ht) + data
  BY <1>0, <1>6, <1>7 DEF Read
<1>9. PICK t \in Readers : /\ SameTables(t, ReadUntil(g, Len(vs) + 1)) /\ Contents(t) = new
  BY <1>6, <1>7
<1>10. PICK us : us = Append(vs, new)
  OBVIOUS
<1>11. /\ us \in Seq(X) /\ Len(us) = Len(vs) + 1 /\ us # <<>> /\ us[Len(vs) + 1] = new
       /\ \A v \in 1..Len(vs) : us[v] = vs[v]
  BY <1>10
<1>12. Contents(Read(g)) = LastOf(us) /\ Len(Read(g).ver) = Len(us)
  BY <1>8, <1>11, SameContents DEF LastOf, SameTables
<1>13. \A v \in 1..Len(us) : Version(g, v) = us[v]
  <2> SUFFICES ASSUME NEW v \in 1..Len(us) PROVE Version(g, v) = us[v]
    OBVIOUS
  <2>1. CASE v = Len(vs) + 1
    <3>1. Version(g, v) = Contents(ReadUntil(g, Len(vs) + 1))
      BY <2>1, VersionIs
    <3>2. QED
      BY <1>9, <1>11, <2>1, <3>1, SameContents
  <2>2. CASE v # Len(vs) + 1
    <3>1. v \in 1..Len(vs) /\ v \in Nat /\ v <= Len(Read(f).ver)
      BY <1>0, <1>11, <2>2 DEF ReadSound, Holds
    <3>2. NoJoin(f, g, h) /\ TailSafe(g, h)
      BY <1>2, <1>5 DEF NoJoin, TailSafe
    <3>3. Version(g, v) = Version(f, v)
      BY <3>1, <3>2, SameVersion
    <3>4. QED
      BY <1>11, <3>1, <3>3 DEF ReadSound, Holds
  <2>3. QED
    BY <2>1, <2>2
<1>14. Len(Read(g).ht) = Len(Read(f).ht) + data
  BY <1>1, <1>8 DEF SameTables
<1>15. QED
  BY <1>8, <1>10, <1>12, <1>13, <1>14 DEF ReadSound, Holds

-----------------------------------------------------------------------------
(* The other reader: the walk of a mount.                                  *)

LEMMA TagFound ==
  ASSUME NEW file \in Archives, NEW p \in Nat, NEW o \in Nat, FirstTag(file, p, o),
         NEW tags, tags = TagsFrom(file, p), NEW b, b = CellAt(file, o + 1).block
  PROVE  /\ tags # {} /\ o = CHOOSE t \in tags : \A u \in tags : t <= u
         /\ o + 1 \in 1..Len(file) /\ b = file[o + 1].block
         /\ IsWhole(file, o) <=> ~(o + 2 > Len(file) \/ file[o + 2] # [block |-> b, part |-> "body"])
<1>3. tags = {u \in Nat : u >= p /\ IsTag(file, u)} /\ Len(file) \in Nat
  BY TagsAre
<1>4. o \in tags
  BY <1>3 DEF FirstTag
<1>5. \A u \in tags : o <= u
  <2> SUFFICES ASSUME NEW u \in tags, ~(o <= u) PROVE FALSE
    OBVIOUS
  <2>1. u \in p..o - 1 /\ IsTag(file, u)
    BY <1>3
  <2>2. QED
    BY <2>1 DEF FirstTag
<1>6. o = CHOOSE t \in tags : \A u \in tags : t <= u
  <2>1. \A t \in tags : (\A u \in tags : t <= u) => t = o
    BY <1>3, <1>4, <1>5
  <2>2. QED
    BY <1>4, <1>5, <2>1
<1>7. o + 1 \in 1..Len(file) /\ b = file[o + 1].block
  <2>1. ZeroCell.part # "tag"
    BY DEF ZeroCell
  <2>2. QED
    BY <1>3, <2>1 DEF FirstTag, IsTag, CellAt
<1>8. IsWhole(file, o) <=> ~(o + 2 > Len(file) \/ file[o + 2] # [block |-> b, part |-> "body"])
  <2>1. ZeroCell.part # "body"
    BY DEF ZeroCell
  <2>2. o + 2 \in 1..Len(file) <=> ~(o + 2 > Len(file))
    BY <1>3
  <2>3. CASE o + 2 \in 1..Len(file)
    BY <2>2, <2>3 DEF IsWhole, CellAt
  <2>4. CASE ~(o + 2 \in 1..Len(file))
    BY <2>1, <2>2, <2>4 DEF IsWhole, CellAt
  <2>5. QED
    BY <2>3, <2>4
<1>9. QED
  BY <1>4, <1>6, <1>7, <1>8

Records == [version : Nat, ptr : Seq(Nat)]

BlockPlaces == [offset : Nat, start : Nat]

Scanners ==
  [pos : Nat, data_offset : Nat, nver : Nat, sessions : Nat,
   blocks : Seq(BlockPlaces), hist : [1..Names -> Seq(Records)],
   incomplete : BOOLEAN, truncated : BOOLEAN, done : BOOLEAN]

ScanStep(file, r) == IF r.done THEN r ELSE ScanBlock(file, r)

TagScan(r, o, b, whole) ==
  IF ~whole \/ (b.type \in {"h", "i"} /\ r.nver = 0) THEN ScanThrows(r)
  ELSE CASE b.type = "c" -> ScanC(r, o, b)
         [] b.type = "h" -> ScanH(r, o, b)
         [] b.type = "i" -> ScanI(r, o, b)
         [] OTHER        -> [r EXCEPT !.pos = o + 2]

LEMMA ScanStepIs ==
  ASSUME NEW file \in Archives, NEW r, r.pos \in Nat, ~r.done
  PROVE  /\ NoTags(file, r.pos) => ScanStep(file, r) = [r EXCEPT !.done = TRUE]
         /\ \A o \in Nat : FirstTag(file, r.pos, o) =>
              ScanStep(file, r) = TagScan(r, o, CellAt(file, o + 1).block, IsWhole(file, o))
<1>1. PICK p \in Nat : p = r.pos
  OBVIOUS
<1>2. PICK tags : tags = TagsFrom(file, p)
  OBVIOUS
<1>3. ScanStep(file, r) = ScanBlock(file, r)
  BY DEF ScanStep
<1>4. ASSUME NoTags(file, p) PROVE ScanStep(file, r) = [r EXCEPT !.done = TRUE]
  <2>1. tags = {}
    BY <1>2, <1>4, TagsAre DEF NoTags
  <2>2. QED
    BY <1>1, <1>2, <1>3, <2>1 DEF ScanBlock
<1>5. ASSUME NEW o \in Nat, FirstTag(file, p, o)
      PROVE  ScanStep(file, r) = TagScan(r, o, CellAt(file, o + 1).block, IsWhole(file, o))
  <2>1. PICK b : b = CellAt(file, o + 1).block
    OBVIOUS
  <2>2. /\ tags # {} /\ o = CHOOSE t \in tags : \A u \in tags : t <= u
        /\ b = file[o + 1].block
        /\ IsWhole(file, o) <=> ~(o + 2 > Len(file) \/ file[o + 2] # [block |-> b, part |-> "body"])
    BY <1>2, <1>5, <2>1, TagFound
  <2>3. ScanBlock(file, r)
          = IF \/ o + 2 > Len(file) \/ file[o + 2] # [block |-> b, part |-> "body"]
               \/ b.type \in {"h", "i"} /\ r.nver = 0
            THEN ScanThrows(r)
            ELSE CASE b.type = "c" -> ScanC(r, o, b)
                   [] b.type = "h" -> ScanH(r, o, b)
                   [] b.type = "i" -> ScanI(r, o, b)
                   [] OTHER        -> [r EXCEPT !.pos = o + 2]
    BY <1>1, <1>2, <2>2 DEF ScanBlock
  <2>4. QED
    BY <1>3, <2>1, <2>2, <2>3 DEF TagScan
<1>6. QED
  BY <1>1, <1>4, <1>5

LEMMA TouchIs ==
  ASSUME NEW h \in Seq(Records), NEW rec \in Records
  PROVE  Touch(h, rec) \in Seq(Records)
<1>1. CASE h # <<>> /\ h[Len(h)].version = rec.version
  BY <1>1 DEF Touch
<1>2. CASE ~(h # <<>> /\ h[Len(h)].version = rec.version)
  BY <1>2 DEF Touch
<1>3. QED
  BY <1>1, <1>2

LEMMA TagScanIs ==
  ASSUME NEW r \in Scanners, NEW o \in Nat, NEW b \in BlockSet, NEW whole \in BOOLEAN, ~r.done,
         NEW s, s = TagScan(r, o, b, whole)
  PROVE  /\ s \in Scanners
         /\ s.done => s.pos = r.pos
         /\ ~s.done => whole /\ s.pos >= o + 2
<1>0. /\ b.num \in Nat /\ b.ptr \in Seq(Nat) /\ b.type \in {"c", "h", "i", "d"}
      /\ r.nver \in Nat /\ r.sessions \in Nat /\ r.data_offset \in Nat
      /\ r.blocks \in Seq(BlockPlaces) /\ r.hist \in [1..Names -> Seq(Records)]
  BY DEF BlockSet, Scanners
<1>1. CASE s = ScanThrows(r)
  BY <1>1 DEF ScanThrows, Scanners
<1>2. CASE whole /\ b.type = "c" /\ s = ScanC(r, o, b)
  <2>1. CASE b.jmp < 0
    BY <1>2, <2>1 DEF ScanC, Scanners
  <2>2. CASE ~(b.jmp < 0)
    <3>1. b.jmp \in Nat
      BY <2>2 DEF BlockSet, Incomplete
    <3>2. PICK n, m, x, y : /\ n = (IF r.nver > 0 THEN r.sessions + 1 ELSE r.sessions)
                            /\ m = r.nver + 1 /\ x = o + 2 /\ y = o + 2 + b.jmp
      OBVIOUS
    <3>n. r.sessions + 1 \in Nat /\ r.sessions \in Nat
      BY <1>0
    <3>m. n \in Nat
      BY <3>2, <3>n
    <3>q. m = r.nver + 1 /\ x = o + 2 /\ y = o + 2 + b.jmp
      BY <3>2
    <3>p. m \in Nat /\ x \in Nat /\ y \in Nat /\ y >= o + 2
      BY <1>0, <3>1, <3>q
    <3>3. n \in Nat /\ m \in Nat /\ x \in Nat /\ y \in Nat /\ y >= o + 2
      BY <3>m, <3>p
    <3>4. s = [r EXCEPT !.sessions = n, !.nver = m, !.data_offset = x, !.pos = y]
      BY <1>2, <2>2, <3>2 DEF ScanC
    <3>5. s \in Scanners /\ s.pos = y /\ ~s.done
      BY <3>3, <3>4 DEF Scanners
    <3>6. QED
      BY <1>2, <3>3, <3>5
  <2>3. QED
    BY <2>1, <2>2
<1>3. CASE whole /\ s = ScanH(r, o, b)
  <2>1. PICK bs, x, y : /\ bs = Append(r.blocks, [offset |-> r.data_offset, start |-> b.num])
                        /\ x = r.data_offset + DataSize(b) /\ y = o + 2
    OBVIOUS
  <2>2. [offset |-> r.data_offset, start |-> b.num] \in BlockPlaces
    BY <1>0 DEF BlockPlaces
  <2>3. bs \in Seq(BlockPlaces) /\ x \in Nat /\ y \in Nat
    BY <1>0, <2>1, <2>2 DEF DataSize
  <2>4. s = [r EXCEPT !.blocks = bs, !.data_offset = x, !.pos = y]
    BY <1>3, <2>1 DEF ScanH
  <2>5. s \in Scanners /\ s.pos = y /\ ~s.done
    BY <2>3, <2>4 DEF Scanners
  <2>6. y >= o + 2
    BY <2>1
  <2>7. QED
    BY <1>3, <2>5, <2>6
<1>4. CASE whole /\ s = ScanI(r, o, b)
  <2>1. PICK new, hs, y : /\ new = (IF b.ptr = NoFile /\ r.hist[b.name] = <<>> THEN r.hist[b.name]
                                ELSE Touch(r.hist[b.name], [version |-> r.nver, ptr |-> b.ptr]))
                          /\ hs = [r.hist EXCEPT ![b.name] = new] /\ y = o + 2
    OBVIOUS
  <2>2. hs \in [1..Names -> Seq(Records)]
    <3>1. CASE b.name \in 1..Names
      <4>1. [version |-> r.nver, ptr |-> b.ptr] \in Records
        BY <1>0 DEF Records
      <4>2. r.hist[b.name] \in Seq(Records)
        BY <1>0, <3>1
      <4>3. Touch(r.hist[b.name], [version |-> r.nver, ptr |-> b.ptr]) \in Seq(Records)
        BY <4>1, <4>2, TouchIs
      <4>4. new \in Seq(Records)
        BY <2>1, <4>2, <4>3
      <4>5. QED
        BY <1>0, <2>1, <4>4
    <3>2. CASE b.name \notin 1..Names
      <4>1. hs = r.hist
        BY <1>0, <2>1, <3>2
      <4>2. QED
        BY <1>0, <4>1
    <3>3. QED
      BY <3>1, <3>2
  <2>3. s = [r EXCEPT !.hist = hs, !.pos = y]
    BY <1>4, <2>1 DEF ScanI
  <2>4. y \in Nat /\ y >= o + 2
    BY <2>1
  <2>5. s \in Scanners /\ s.pos = y /\ ~s.done
    BY <2>2, <2>3, <2>4 DEF Scanners
  <2>6. QED
    BY <1>4, <2>4, <2>5
<1>5. CASE whole /\ s = [r EXCEPT !.pos = o + 2]
  <2>1. PICK y \in Nat : y = o + 2 /\ y >= o + 2
    OBVIOUS
  <2>2. s = [r EXCEPT !.pos = y]
    BY <1>5, <2>1
  <2>3. s \in Scanners /\ s.pos = y /\ ~s.done
    BY <2>2 DEF Scanners
  <2>4. QED
    BY <1>5, <2>1, <2>3
<1>6. QED
  BY <1>0, <1>1, <1>2, <1>3, <1>4, <1>5 DEF TagScan

LEMMA ScanTypes ==
  ASSUME NEW file \in Archives, NEW r \in Scanners, NEW s, s = ScanStep(file, r)
  PROVE  /\ s \in Scanners
         /\ r.done => s = r
         /\ s.done => s.pos = r.pos
         /\ ~s.done => /\ ~r.done
                       /\ \E o \in Nat : /\ FirstTag(file, r.pos, o) /\ IsWhole(file, o)
                                         /\ s.pos >= o + 2 /\ o >= r.pos
<1>0. r.pos \in Nat
  BY DEF Scanners
<1>1. CASE r.done
  BY <1>1 DEF ScanStep
<1>2. CASE ~r.done /\ NoTags(file, r.pos)
  <2>1. s = [r EXCEPT !.done = TRUE]
    BY <1>0, <1>2, ScanStepIs
  <2>2. QED
    BY <1>2, <2>1 DEF Scanners
<1>3. ASSUME ~r.done, NEW o \in Nat, FirstTag(file, r.pos, o)
      PROVE  s \in Scanners /\ (s.done => s.pos = r.pos)
             /\ (~s.done => IsWhole(file, o) /\ s.pos >= o + 2 /\ o >= r.pos)
  <2>1. PICK b, whole : b = CellAt(file, o + 1).block /\ whole = IsWhole(file, o)
    OBVIOUS
  <2>2. b \in BlockSet /\ whole \in BOOLEAN /\ o >= r.pos
    BY <1>3, <2>1, CellTypes DEF CellSet, IsWhole, FirstTag
  <2>3. s = TagScan(r, o, b, whole)
    BY <1>0, <1>3, <2>1, ScanStepIs
  <2>4. s \in Scanners /\ (s.done => s.pos = r.pos) /\ (~s.done => whole /\ s.pos >= o + 2)
    BY <1>3, <2>2, <2>3, TagScanIs
  <2>5. QED
    BY <2>1, <2>2, <2>4
<1>4. QED
  BY <1>0, <1>1, <1>2, <1>3, TagOrNot

ScanRuns(file) ==
  {s \in [Nat -> Scanners] :
     s[0] = ScanInit /\ \A n \in Nat : s[n + 1] = ScanStep(file, s[n])}

LEMMA ScanInitIs ==
  /\ ScanInit \in Scanners /\ ~ScanInit.done
<1>1. <<>> \in Seq(Records) /\ <<>> \in Seq(BlockPlaces)
  OBVIOUS
<1>2. [n \in 1..Names |-> <<>>] \in [1..Names -> Seq(Records)]
  BY <1>1
<1>3. QED
  BY <1>1, <1>2 DEF ScanInit, Scanners

LEMMA ScanRunExists ==
  ASSUME NEW file \in Archives
  PROVE  \E s : s \in ScanRuns(file)
<1> DEFINE F == [r \in Scanners |-> ScanStep(file, r)]
<1>1. F \in [Scanners -> Scanners]
  <2>1. \A r \in Scanners : ScanStep(file, r) \in Scanners
    BY ScanTypes
  <2>2. QED
    BY <2>1
<1>2. PICK s \in [Nat -> Scanners] : IsLoop(F, ScanInit, s)
  BY <1>1, ScanInitIs, LoopExists
<1>3. \A n \in Nat : s[n + 1] = ScanStep(file, s[n])
  <2> SUFFICES ASSUME NEW n \in Nat PROVE s[n + 1] = ScanStep(file, s[n])
    OBVIOUS
  <2>1. s[n] \in Scanners /\ s[n + 1] = F[s[n]]
    BY <1>2 DEF IsLoop
  <2>2. QED
    BY <2>1
<1>4. s \in ScanRuns(file)
  BY <1>2, <1>3 DEF IsLoop, ScanRuns
<1>5. QED
  BY <1>4

\* The loop of Scan, as a function on the number of its steps.
ScanAfter(file, N, a) ==
  a = [n \in 0..N |-> IF n = 0 THEN ScanInit ELSE ScanStep(file, a[n - 1])]

\* What the walk ends with is in any of its runs.
LEMMA ScanIs ==
  ASSUME NEW file \in Archives, NEW s \in ScanRuns(file)
  PROVE  Scan(file) = LastSession(s[Len(file) + 1])
<1>0. Len(file) + 1 \in Nat
  BY DEF Archives
<1>1. PICK N \in Nat : N = Len(file) + 1
  BY <1>0
<1>2. \A x : (CHOOSE t \in {(IF r.done THEN r ELSE ScanBlock(file, r)) : r \in {x}} : TRUE)
               = ScanStep(file, x)
  BY DEF ScanStep
<1>3. \A a : (a = [n \in 0..Len(file) + 1 |->
                     IF n = 0 THEN ScanInit
                     ELSE CHOOSE t \in {(IF r.done THEN r ELSE ScanBlock(file, r)) : r \in {a[n - 1]}} : TRUE])
              <=> ScanAfter(file, N, a)
  BY <1>1, <1>2, Zenon DEF ScanAfter
<1>4. PICK c : c = CHOOSE a : ScanAfter(file, N, a)
  OBVIOUS
<1>5. Scan(file) = LastSession(c[N])
  <2>1. (CHOOSE a : a = [n \in 0..Len(file) + 1 |->
                     IF n = 0 THEN ScanInit
                     ELSE CHOOSE t \in {(IF r.done THEN r ELSE ScanBlock(file, r)) : r \in {a[n - 1]}} : TRUE])
          = c
    BY <1>3, <1>4
  <2>2. QED
    BY <1>1, <2>1 DEF Scan
<1>6. \E a : ScanAfter(file, N, a)
  <2> DEFINE a == [n \in 0..N |-> s[n]]
  <2>1. \A n \in 0..N : s[n] = IF n = 0 THEN ScanInit ELSE ScanStep(file, a[n - 1])
    <3> SUFFICES ASSUME NEW n \in 0..N
                 PROVE  s[n] = IF n = 0 THEN ScanInit ELSE ScanStep(file, a[n - 1])
      OBVIOUS
    <3>1. CASE n = 0
      BY <3>1 DEF ScanRuns
    <3>2. CASE n # 0
      <4>1. n - 1 \in Nat /\ n - 1 \in 0..N /\ (n - 1) + 1 = n
        BY <3>2
      <4>2. s[(n - 1) + 1] = ScanStep(file, s[n - 1])
        BY <4>1 DEF ScanRuns
      <4>3. QED
        BY <3>2, <4>1, <4>2
    <3>3. QED
      BY <3>1, <3>2
  <2>2. a = [n \in 0..N |-> IF n = 0 THEN ScanInit ELSE ScanStep(file, a[n - 1])]
    <3>1. \A n \in 0..N : a[n] = IF n = 0 THEN ScanInit ELSE ScanStep(file, a[n - 1])
      BY <2>1
    <3>2. QED
      BY <2>1
  <2>3. ScanAfter(file, N, a)
    BY <2>2 DEF ScanAfter
  <2>4. QED
    BY <2>3
<1>7. ScanAfter(file, N, c)
  BY <1>4, <1>6
<1>8. \A n \in 0..N : c[n] = IF n = 0 THEN ScanInit ELSE ScanStep(file, c[n - 1])
  BY <1>7 DEF ScanAfter
<1> DEFINE T == {n \in Nat : n <= N => c[n] = s[n]}
<1>9. 0 \in T
  <2>1. 0 \in 0..N
    OBVIOUS
  <2>2. QED
    BY <1>8, <2>1 DEF ScanRuns
<1>10. ASSUME NEW n \in Nat, n \in T PROVE n + 1 \in T
  <2> SUFFICES ASSUME n + 1 <= N PROVE c[n + 1] = s[n + 1]
    OBVIOUS
  <2>1. n <= N /\ n + 1 \in 0..N /\ n + 1 # 0 /\ (n + 1) - 1 = n
    OBVIOUS
  <2>2. c[n + 1] = ScanStep(file, c[n])
    BY <1>8, <2>1
  <2>3. s[n + 1] = ScanStep(file, s[n])
    BY DEF ScanRuns
  <2>4. QED
    BY <1>10, <2>1, <2>2, <2>3
<1>11. \A n \in Nat : n \in T
  <2> HIDE DEF T
  <2>1. QED
    BY <1>9, <1>10, NatByInduction
<1>12. QED
  BY <1>1, <1>5, <1>11

LEMMA ScanRunIs ==
  ASSUME NEW file \in Archives, NEW s \in ScanRuns(file), NEW n \in Nat
  PROVE  s[n] \in Scanners /\ s[n + 1] = ScanStep(file, s[n]) /\ s[n + 1] \in Scanners
<1>1. QED
  BY DEF ScanRuns

\* The walk goes forward, and stays where it is done.
LEMMA ScanGrows ==
  ASSUME NEW file \in Archives, NEW s \in ScanRuns(file), NEW n \in Nat, NEW m \in Nat, n <= m
  PROVE  s[n].pos <= s[m].pos /\ (s[n].done => s[m] = s[n])
<1> DEFINE T == {d \in Nat : s[n].pos <= s[n + d].pos /\ (s[n].done => s[n + d] = s[n])}
<1>1. 0 \in T
  <2>1. n + 0 = n /\ s[n].pos \in Nat
    BY ScanRunIs DEF Scanners
  <2>2. s[n].pos <= s[n].pos
    BY <2>1
  <2>3. QED
    BY <2>1, <2>2
<1>2. ASSUME NEW d \in Nat, d \in T PROVE d + 1 \in T
  <2>1. PICK x, y, z : x = s[n] /\ y = s[n + d] /\ z = s[(n + d) + 1]
    OBVIOUS
  <2>2. n + d \in Nat /\ n + (d + 1) = (n + d) + 1
    OBVIOUS
  <2>3. x \in Scanners /\ y \in Scanners /\ z = ScanStep(file, y) /\ z \in Scanners
    BY <2>1, <2>2, ScanRunIs
  <2>4. /\ y.done => z = y
        /\ z.done => z.pos = y.pos
        /\ ~z.done => \E o \in Nat : z.pos >= o + 2 /\ o >= y.pos
    BY <2>3, ScanTypes
  <2>5. x.pos \in Nat /\ y.pos \in Nat /\ z.pos \in Nat
    BY <2>3 DEF Scanners
  <2>6. y.pos <= z.pos
    BY <2>4, <2>5
  <2>7. x.pos <= y.pos /\ (x.done => y = x)
    BY <1>2, <2>1
  <2>8. x.pos <= z.pos
    BY <2>5, <2>6, <2>7
  <2>9. x.done => z = x
    BY <2>4, <2>7
  <2>10. QED
    BY <2>1, <2>2, <2>8, <2>9
<1>3. \A d \in Nat : d \in T
  <2> HIDE DEF T
  <2>1. QED
    BY <1>1, <1>2, NatByInduction
<1>4. PICK d \in Nat : m = n + d
  <2>1. m - n \in Nat /\ m = n + (m - n)
    OBVIOUS
  <2>2. QED
    BY <2>1
<1>5. QED
  BY <1>3, <1>4

\* The states it comes through.
ScanArrives(file, r) ==
  \E s \in ScanRuns(file) : \E n \in Nat : s[n] = r /\ n <= r.pos

LEMMA ScanArriveStep ==
  ASSUME NEW file \in Archives, NEW r, ScanArrives(file, r), NEW t, t = ScanStep(file, r),
         ~t.done
  PROVE  r \in Scanners /\ t \in Scanners /\ ScanArrives(file, t)
<1>1. PICK s \in ScanRuns(file), n \in Nat : s[n] = r /\ n <= r.pos
  BY DEF ScanArrives
<1>2. r \in Scanners /\ t \in Scanners /\ s[n + 1] = t
  BY <1>1, ScanRunIs
<1>3. n + 1 <= t.pos
  <2>1. PICK o \in Nat : t.pos >= o + 2 /\ o >= r.pos
    BY <1>2, ScanTypes
  <2>2. r.pos \in Nat /\ t.pos \in Nat
    BY <1>2 DEF Scanners
  <2>3. QED
    BY <1>1, <2>1, <2>2
<1>4. n + 1 \in Nat
  OBVIOUS
<1>5. QED
  BY <1>2, <1>3, <1>4 DEF ScanArrives

\* Where it is done it has found what there is.
LEMMA ScanArriveDone ==
  ASSUME NEW file \in Archives, NEW r, ScanArrives(file, r), r.pos <= Len(file),
         NEW t, t = ScanStep(file, r), t.done
  PROVE  Scan(file) = LastSession(t)
<1>1. PICK s \in ScanRuns(file), n \in Nat : s[n] = r /\ n <= r.pos
  BY DEF ScanArrives
<1>2. r \in Scanners /\ s[n + 1] = t
  <2>1. s[n] \in Scanners /\ s[n + 1] = ScanStep(file, s[n])
    BY <1>1 DEF ScanRuns
  <2>2. QED
    BY <1>1, <2>1
<1>3. n + 1 \in Nat /\ Len(file) + 1 \in Nat /\ n + 1 <= Len(file) + 1
  <2>1. r.pos \in Nat /\ Len(file) \in Nat
    BY <1>2 DEF Scanners, Archives
  <2>2. QED
    BY <1>1, <2>1
<1>4. s[Len(file) + 1] = s[n + 1]
  BY <1>2, <1>3, ScanGrows
<1>5. QED
  BY <1>2, <1>4, ScanIs

\* The walk of another archive comes through the same state, if the two are the same up
\* to there: it reads nothing in advance, and has met nothing but whole blocks.
LEMMA ScanSameStep ==
  ASSUME NEW f \in Archives, NEW g \in Archives, NEW h \in Nat, SameUpTo(f, g, h),
         NEW x \in Scanners, NEW y, y = ScanStep(f, x), ~y.done, y.pos <= h
  PROVE  ScanStep(g, x) = y
<1>1. y \in Scanners /\ ~x.done
  BY ScanTypes
<1>2. PICK o \in Nat : FirstTag(f, x.pos, o) /\ IsWhole(f, o) /\ y.pos >= o + 2 /\ o >= x.pos
  BY ScanTypes
<1>3. x.pos \in Nat /\ y.pos \in Nat
  BY <1>1 DEF Scanners
<1>4. o + 2 <= h
  BY <1>2, <1>3
<1>5. PICK p \in Nat : p = x.pos
  BY <1>3
<1>6. FirstTag(g, p, o) /\ CellAt(g, o + 1) = CellAt(f, o + 1)
  <2>1. o + 1 <= h
    BY <1>4
  <2>2. QED
    BY <1>2, <1>5, <2>1, SameTag
<1>7. CellAt(g, o + 2) = CellAt(f, o + 2)
  <2>1. o + 2 \in 1..h
    BY <1>4
  <2>2. QED
    BY <2>1 DEF SameUpTo
<1>8. IsWhole(g, o) = IsWhole(f, o)
  BY <1>6, <1>7 DEF IsWhole
<1>9. PICK b, w : b = CellAt(f, o + 1).block /\ w = IsWhole(f, o)
  OBVIOUS
<1>10. b = CellAt(g, o + 1).block /\ w = IsWhole(g, o)
  BY <1>6, <1>8, <1>9
<1>11. y = TagScan(x, o, b, w)
  <2>1. FirstTag(f, p, o)
    BY <1>2, <1>5
  <2>2. ScanStep(f, x) = TagScan(x, o, b, w)
    BY <1>1, <1>5, <1>9, <2>1, ScanStepIs
  <2>3. QED
    BY <2>2
<1>12. ScanStep(g, x) = TagScan(x, o, b, w)
  BY <1>1, <1>5, <1>6, <1>10, ScanStepIs
<1>13. QED
  BY <1>11, <1>12

LEMMA ScanSameArrives ==
  ASSUME NEW f \in Archives, NEW g \in Archives, NEW r, ScanArrives(f, r), ~r.done,
         SameUpTo(f, g, r.pos)
  PROVE  ScanArrives(g, r)
<1>1. PICK F \in ScanRuns(f), n \in Nat : F[n] = r /\ n <= r.pos
  BY DEF ScanArrives
<1>2. PICK G : G \in ScanRuns(g)
  BY ScanRunExists
<1>3. r \in Scanners /\ r.pos \in Nat
  BY <1>1, ScanRunIs DEF Scanners
<1> DEFINE T == {m \in Nat : m <= n => G[m] = F[m]}
<1>4. 0 \in T
  BY <1>1, <1>2 DEF ScanRuns
<1>5. ASSUME NEW m \in Nat, m \in T PROVE m + 1 \in T
  <2> SUFFICES ASSUME m + 1 <= n PROVE G[m + 1] = F[m + 1]
    OBVIOUS
  <2>1. m <= n /\ m + 1 \in Nat
    OBVIOUS
  <2>2. PICK x, y : x = F[m] /\ y = F[m + 1]
    OBVIOUS
  <2>3. x \in Scanners /\ y = ScanStep(f, x) /\ y \in Scanners /\ G[m] = x
    BY <1>5, <1>1, <2>1, <2>2, ScanRunIs
  <2>4. ~y.done /\ y.pos <= r.pos
    BY <1>1, <2>1, <2>2, ScanGrows
  <2>5. ScanStep(g, x) = y
    BY <1>3, <2>3, <2>4, ScanSameStep
  <2>6. G[m + 1] = ScanStep(g, G[m])
    BY <1>2, ScanRunIs
  <2>7. QED
    BY <2>2, <2>3, <2>5, <2>6
<1>6. \A m \in Nat : m \in T
  <2> HIDE DEF T
  <2>1. QED
    BY <1>4, <1>5, NatByInduction
<1>7. G[n] = r
  BY <1>1, <1>6
<1>8. QED
  BY <1>1, <1>2, <1>7 DEF ScanArrives

LEMMA ScanOver ==
  ASSUME NEW file \in Archives, NEW r \in Scanners, ~r.done, NEW b, BlockAt(file, r.pos, b)
  PROVE  ScanStep(file, r) = TagScan(r, r.pos, b, TRUE)
<1>1. PICK o \in Nat : o = r.pos
  BY DEF Scanners
<1>2. IsTag(file, o) /\ CellAt(file, o + 1).block = b
  BY <1>1 DEF BlockAt, IsTag
<1>3. IsWhole(file, o)
  BY <1>1, <1>2 DEF BlockAt, IsWhole
<1>4. FirstTag(file, o, o)
  BY <1>2 DEF FirstTag
<1>5. PICK w : w = IsWhole(file, o)
  OBVIOUS
<1>6. ScanStep(file, r) = TagScan(r, o, b, w)
  BY <1>1, <1>2, <1>4, <1>5, ScanStepIs
<1>7. w = TRUE
  BY <1>3, <1>5 DEF IsWhole
<1>8. QED
  BY <1>1, <1>6, <1>7

\* What the new version adds to the history of a file.
Changed(h, v, ptr) ==
  IF ptr = NoFile /\ h = <<>> THEN h ELSE Append(h, [version |-> v, ptr |-> ptr])

\* The walk r was at the end of the good versions; it is in the next one now, past its
\* header, k of its tables and l of its files.
Scanning(r, s, jmp, ptr, k, l) ==
  /\ s \in Scanners /\ ~s.done /\ ~s.truncated
  /\ s.nver = r.nver + 1 /\ s.sessions = (IF r.nver > 0 THEN r.sessions + 1 ELSE r.sessions)
  /\ s.pos = r.pos + 2 + jmp + 2 * k + 2 * l /\ s.data_offset = r.pos + 2 + 2 * k
  /\ Len(s.blocks) = Len(r.blocks) + k
  /\ \A j \in 1..Len(r.blocks) : s.blocks[j] = r.blocks[j]
  /\ \A j \in 1..k : s.blocks[Len(r.blocks) + j]
                       = [offset |-> r.pos + 2 + 2 * (j - 1), start |-> Len(r.blocks) + j]
  /\ \A n \in 1..Names : s.hist[n] = IF n <= l THEN Changed(r.hist[n], r.nver + 1, ptr)
                                               ELSE r.hist[n]

LEMMA ScanNewHeader ==
  ASSUME NEW r \in Scanners, ~r.done, ~r.truncated, NEW date, NEW htsize, NEW jmp \in Nat,
         NEW b, b = CBlock(date, htsize, jmp), NEW ptr,
         NEW s, s = TagScan(r, r.pos, b, TRUE)
  PROVE  Scanning(r, s, jmp, ptr, 0, 0)
<1>0. /\ r.pos \in Nat /\ r.nver \in Nat /\ r.sessions \in Nat
      /\ r.blocks \in Seq(BlockPlaces)
  BY DEF Scanners
<1>1. b.type = "c" /\ b.jmp = jmp /\ ~(b.jmp < 0)
  BY DEF CBlock, Block
<1>2. s = ScanC(r, r.pos, b)
  BY <1>1 DEF TagScan
<1>3. PICK n, m, x, y : /\ n = (IF r.nver > 0 THEN r.sessions + 1 ELSE r.sessions)
                        /\ m = r.nver + 1 /\ x = r.pos + 2 /\ y = r.pos + 2 + jmp
  OBVIOUS
<1>4. s = [r EXCEPT !.sessions = n, !.nver = m, !.data_offset = x, !.pos = y]
  BY <1>1, <1>2, <1>3 DEF ScanC
<1>n. n \in Nat
  <2>1. r.sessions + 1 \in Nat /\ r.sessions \in Nat
    BY <1>0
  <2>2. QED
    BY <1>3, <2>1
<1>5. m \in Nat /\ x \in Nat /\ y \in Nat
  <2>1. PICK p \in Nat, v \in Nat : p = r.pos /\ v = r.nver
    BY <1>0
  <2>2. m = v + 1 /\ x = p + 2 /\ y = p + 2 + jmp
    BY <1>3, <2>1
  <2>3. QED
    BY <2>2
<1>6. s \in Scanners
  BY <1>4, <1>n, <1>5 DEF Scanners
<1>7. /\ ~s.done /\ ~s.truncated /\ s.nver = m /\ s.sessions = n /\ s.pos = y /\ s.data_offset = x
      /\ s.blocks = r.blocks /\ s.hist = r.hist
  BY <1>4 DEF Scanners
<1>8. y = r.pos + 2 + jmp + 2 * 0 + 2 * 0 /\ x = r.pos + 2 + 2 * 0
  BY <1>0, <1>3
<1>9. Len(r.blocks) = Len(r.blocks) + 0
  BY <1>0
<1>10. \A k \in 1..Names : ~(k <= 0)
  BY NamesAssumption
<1>11. \A j \in 1..0 : s.blocks[Len(r.blocks) + j]
                       = [offset |-> r.pos + 2 + 2 * (j - 1), start |-> Len(r.blocks) + j]
  OBVIOUS
<1>12. QED
  BY <1>3, <1>6, <1>7, <1>8, <1>9, <1>10, <1>11 DEF Scanning

LEMMA ScanNewTable ==
  ASSUME NEW r \in Scanners, NEW jmp \in Nat, NEW ptr, NEW k \in Nat, NEW date, NEW sha,
         NEW s, Scanning(r, s, jmp, ptr, k, 0),
         NEW b, b = HBlock(date, Len(r.blocks) + 1 + k, sha),
         NEW t, t = TagScan(s, s.pos, b, TRUE)
  PROVE  Scanning(r, t, jmp, ptr, k + 1, 0)
<1>0. /\ r.pos \in Nat /\ r.nver \in Nat /\ r.blocks \in Seq(BlockPlaces)
      /\ s \in Scanners /\ s.blocks \in Seq(BlockPlaces)
      /\ s.pos \in Nat /\ s.data_offset \in Nat
  BY DEF Scanners, Scanning
<1>1. PICK L \in Nat, p \in Nat : L = Len(r.blocks) /\ p = r.pos
  BY <1>0
<1>2. /\ b.type = "h" /\ b.num = L + 1 + k
      /\ s.nver # 0
  <2>1. b.type = "h" /\ b.num = L + 1 + k
    BY <1>1 DEF HBlock, Block
  <2>2. s.nver = r.nver + 1
    BY DEF Scanning
  <2>3. QED
    BY <1>0, <2>1, <2>2
<1>3. t = ScanH(s, s.pos, b)
  BY <1>2 DEF TagScan
<1>4. PICK new, bs, x, y : /\ new = [offset |-> s.data_offset, start |-> b.num]
                           /\ bs = Append(s.blocks, new)
                           /\ x = s.data_offset + 2 /\ y = s.pos + 2
  OBVIOUS
<1>5. t = [s EXCEPT !.blocks = bs, !.data_offset = x, !.pos = y]
  BY <1>3, <1>4 DEF ScanH, DataSize
<1>6. new \in BlockPlaces
  BY <1>0, <1>2, <1>4 DEF BlockPlaces
<1>7. x \in Nat /\ y \in Nat
  <2>1. PICK p1 \in Nat, p2 \in Nat : p1 = s.data_offset /\ p2 = s.pos
    BY <1>0
  <2>2. x = p1 + 2 /\ y = p2 + 2
    BY <1>4, <2>1
  <2>3. QED
    BY <2>2
<1>8. bs \in Seq(BlockPlaces) /\ Len(bs) = Len(s.blocks) + 1
      /\ bs[Len(s.blocks) + 1] = new /\ \A j \in 1..Len(s.blocks) : bs[j] = s.blocks[j]
  BY <1>0, <1>4, <1>6
<1>9. t \in Scanners
  BY <1>0, <1>5, <1>7, <1>8 DEF Scanners
<1>10. /\ t.done = s.done /\ t.truncated = s.truncated /\ t.nver = s.nver /\ t.sessions = s.sessions
       /\ t.pos = y /\ t.data_offset = x /\ t.blocks = bs /\ t.hist = s.hist
  BY <1>0, <1>5 DEF Scanners
<1>11. s.pos = p + 2 + jmp + 2 * k + 2 * 0 /\ s.data_offset = p + 2 + 2 * k /\ Len(s.blocks) = L + k
  BY <1>1 DEF Scanning
<1>12. y = p + 2 + jmp + 2 * (k + 1) + 2 * 0 /\ x = p + 2 + 2 * (k + 1) /\ Len(bs) = L + (k + 1)
  <2>1. y = s.pos + 2 /\ x = s.data_offset + 2
    BY <1>4
  <2>2. y = p + 2 + jmp + 2 * (k + 1) + 2 * 0
    BY <1>11, <2>1
  <2>3. x = p + 2 + 2 * (k + 1)
    BY <1>11, <2>1
  <2>4. Len(bs) = L + (k + 1)
    BY <1>8, <1>11
  <2>5. QED
    BY <2>2, <2>3, <2>4
<1>13. \A j \in 1..L : bs[j] = r.blocks[j]
  <2>1. \A j \in 1..L : j \in 1..Len(s.blocks)
    BY <1>11
  <2>2. QED
    BY <1>1, <1>8, <2>1 DEF Scanning
<1>14. \A j \in 1..k + 1 : bs[L + j] = [offset |-> p + 2 + 2 * (j - 1), start |-> L + j]
  <2> SUFFICES ASSUME NEW j \in 1..k + 1
               PROVE  bs[L + j] = [offset |-> p + 2 + 2 * (j - 1), start |-> L + j]
    OBVIOUS
  <2>1. CASE j = k + 1
    <3>1. L + j = Len(s.blocks) + 1 /\ p + 2 + 2 * (j - 1) = s.data_offset /\ L + j = b.num
      BY <1>2, <1>11, <2>1
    <3>2. QED
      BY <1>4, <1>8, <3>1
  <2>2. CASE j # k + 1
    <3>1. j \in 1..k /\ L + j \in 1..Len(s.blocks)
      BY <1>11, <2>2
    <3>2. s.blocks[L + j] = [offset |-> p + 2 + 2 * (j - 1), start |-> L + j]
      BY <1>1, <3>1 DEF Scanning
    <3>3. QED
      BY <1>8, <3>1, <3>2
  <2>3. QED
    BY <2>1, <2>2
<1>15. /\ ~t.done /\ ~t.truncated /\ t.nver = r.nver + 1
       /\ t.sessions = (IF r.nver > 0 THEN r.sessions + 1 ELSE r.sessions)
       /\ \A n \in 1..Names : t.hist[n] = IF n <= 0 THEN Changed(r.hist[n], r.nver + 1, ptr)
                                                    ELSE r.hist[n]
  BY <1>10 DEF Scanning
<1>16. QED
  BY <1>1, <1>9, <1>10, <1>12, <1>13, <1>14, <1>15 DEF Scanning

\* No file was seen in a version that is yet to come.
Before(r) == \A n \in 1..Names : \A j \in DOMAIN r.hist[n] : r.hist[n][j].version \in 1..r.nver

LEMMA ScanNewFile ==
  ASSUME NEW r \in Scanners, Before(r), NEW jmp \in Nat, NEW ptr \in Seq(Nat), NEW k \in Nat,
         NEW l \in Nat, l < Names, NEW date, NEW num,
         NEW s, Scanning(r, s, jmp, ptr, k, l),
         NEW b, b = IBlock(date, num, l + 1, ptr),
         NEW t, t = TagScan(s, s.pos, b, TRUE)
  PROVE  Scanning(r, t, jmp, ptr, k, l + 1)
<1>0. /\ r.pos \in Nat /\ s \in Scanners /\ Names \in Nat /\ s.pos \in Nat /\ r.nver \in Nat
      /\ s.hist \in [1..Names -> Seq(Records)] /\ r.hist \in [1..Names -> Seq(Records)]
  BY NamesAssumption DEF Scanners, Scanning
<1>1. /\ b.type = "i" /\ b.name = l + 1 /\ b.ptr = ptr
      /\ s.nver = r.nver + 1 /\ s.nver # 0 /\ s.nver \in Nat /\ l + 1 \in 1..Names
  <2>1. b.type = "i" /\ b.name = l + 1 /\ b.ptr = ptr
    BY DEF IBlock, Block
  <2>2. s.nver = r.nver + 1
    BY DEF Scanning
  <2>3. s.nver # 0 /\ s.nver \in Nat
    BY <1>0, <2>2
  <2>4. l + 1 \in 1..Names
    BY <1>0
  <2>5. QED
    BY <2>1, <2>2, <2>3, <2>4
<1>2. t = ScanI(s, s.pos, b)
  BY <1>1 DEF TagScan
<1>3. PICK h : h = r.hist[l + 1]
  OBVIOUS
<1>4. PICK rec : rec = [version |-> r.nver + 1, ptr |-> ptr]
  OBVIOUS
<1>5. s.hist[l + 1] = h /\ h \in Seq(Records) /\ rec \in Records
  <2>1. ~(l + 1 <= l)
    OBVIOUS
  <2>2. s.hist[l + 1] = h
    BY <1>1, <1>3, <2>1 DEF Scanning
  <2>3. QED
    BY <1>0, <1>1, <1>3, <1>4, <2>2 DEF Records
<1>6. (IF ptr = NoFile /\ h = <<>> THEN h ELSE Touch(h, rec)) = Changed(h, r.nver + 1, ptr)
  <2>1. ASSUME h # <<>> PROVE h[Len(h)].version # rec.version
    <3>1. Len(h) \in DOMAIN h
      BY <1>5, <2>1
    <3>2. h[Len(h)].version \in 1..r.nver
      BY <1>1, <1>3, <3>1 DEF Before
    <3>3. rec.version = r.nver + 1
      BY <1>4
    <3>4. QED
      BY <1>0, <3>2, <3>3
  <2>2. Touch(h, rec) = Append(h, rec)
    BY <2>1 DEF Touch
  <2>3. QED
    BY <1>4, <2>2 DEF Changed
<1>7. PICK new, hs, y : /\ new = Changed(h, r.nver + 1, ptr)
                        /\ hs = [s.hist EXCEPT ![l + 1] = new] /\ y = s.pos + 2
  OBVIOUS
<1>8. t = [s EXCEPT !.hist = hs, !.pos = y]
  <2>1. t = [s EXCEPT !.hist = [s.hist EXCEPT ![l + 1] =
                    IF ptr = NoFile /\ h = <<>> THEN h ELSE Touch(h, rec)], !.pos = s.pos + 2]
    BY <1>1, <1>2, <1>4, <1>5 DEF ScanI
  <2>2. QED
    BY <1>6, <1>7, <2>1
<1>9. new \in Seq(Records)
  <2>1. Append(h, rec) \in Seq(Records)
    BY <1>5
  <2>2. QED
    BY <1>4, <1>5, <1>7, <2>1 DEF Changed
<1>10. hs \in [1..Names -> Seq(Records)] /\ \A n \in 1..Names : hs[n] = IF n = l + 1 THEN new ELSE s.hist[n]
  BY <1>0, <1>1, <1>7, <1>9
<1>11. y \in Nat
  BY <1>0, <1>7
<1>12. t \in Scanners
  BY <1>0, <1>8, <1>10, <1>11 DEF Scanners
<1>13. /\ t.done = s.done /\ t.truncated = s.truncated /\ t.nver = s.nver /\ t.sessions = s.sessions
       /\ t.pos = y /\ t.data_offset = s.data_offset /\ t.blocks = s.blocks /\ t.hist = hs
  BY <1>0, <1>8 DEF Scanners
<1>14. y = r.pos + 2 + jmp + 2 * k + 2 * (l + 1)
  <2>1. PICK p \in Nat, q \in Nat : p = r.pos /\ q = s.pos
    BY <1>0
  <2>2. q = p + 2 + jmp + 2 * k + 2 * l
    BY <2>1 DEF Scanning
  <2>3. q + 2 = p + 2 + jmp + 2 * k + 2 * (l + 1)
    BY <2>2, Onward
  <2>4. QED
    BY <1>7, <2>1, <2>3
<1>15. \A n \in 1..Names : hs[n] = IF n <= l + 1 THEN Changed(r.hist[n], r.nver + 1, ptr) ELSE r.hist[n]
  <2> SUFFICES ASSUME NEW n \in 1..Names
               PROVE  hs[n] = IF n <= l + 1 THEN Changed(r.hist[n], r.nver + 1, ptr) ELSE r.hist[n]
    OBVIOUS
  <2>1. s.hist[n] = IF n <= l THEN Changed(r.hist[n], r.nver + 1, ptr) ELSE r.hist[n]
    BY DEF Scanning
  <2>2. n <= l + 1 <=> (n <= l \/ n = l + 1)
    OBVIOUS
  <2>3. n = l + 1 => hs[n] = Changed(r.hist[n], r.nver + 1, ptr)
    BY <1>3, <1>7, <1>10
  <2>4. n # l + 1 => hs[n] = s.hist[n]
    BY <1>10
  <2>5. QED
    BY <2>1, <2>2, <2>3, <2>4
<1>16. /\ ~t.done /\ ~t.truncated /\ t.nver = r.nver + 1
       /\ t.sessions = (IF r.nver > 0 THEN r.sessions + 1 ELSE r.sessions)
       /\ t.data_offset = r.pos + 2 + 2 * k
       /\ Len(t.blocks) = Len(r.blocks) + k
       /\ \A j \in 1..Len(r.blocks) : t.blocks[j] = r.blocks[j]
       /\ \A j \in 1..k : t.blocks[Len(r.blocks) + j]
                       = [offset |-> r.pos + 2 + 2 * (j - 1), start |-> Len(r.blocks) + j]
  BY <1>13 DEF Scanning
<1>17. QED
  BY <1>12, <1>13, <1>14, <1>15, <1>16 DEF Scanning

-----------------------------------------------------------------------------
(* What a mount shows.                                                     *)

\* Each block it knows is there, with its fragment.
Readable(file, r) ==
  \A k \in 1..Len(r.blocks) : /\ r.blocks[k].start = k
                              /\ r.blocks[k].offset + 2 <= r.pos
                              /\ IsTag(file, r.blocks[k].offset)
                              /\ IsWhole(file, r.blocks[k].offset)

\* The files have only fragments whose blocks it knows.
Linked(r) == \A n \in 1..Names : \A j \in DOMAIN r.hist[n] :
               \A k \in DOMAIN r.hist[n][j].ptr : r.hist[n][j].ptr[k] \in 1..Len(r.blocks)

Shows(file, r, vs) ==
  /\ r.nver = Len(vs) /\ r.sessions = (IF r.nver = 0 THEN 0 ELSE r.nver - 1)
  /\ Readable(file, r) /\ Before(r) /\ Linked(r)
  /\ \A v \in 1..Len(vs) : Folder(file, r, v) = vs[v]

LEMMA ReadDataIs ==
  ASSUME NEW file \in Archives, NEW r \in Scanners, Readable(file, r), NEW f \in 1..Len(r.blocks)
  PROVE  ReadData(file, r, f) = CellAt(file, r.blocks[f].offset + 1).block.sha
<1>0. /\ Len(r.blocks) \in Nat /\ DOMAIN r.blocks = 1..Len(r.blocks)
      /\ r.blocks[f] \in BlockPlaces /\ Len(file) \in Nat
  <2>1. r.blocks \in Seq(BlockPlaces)
    BY DEF Scanners
  <2>2. Len(file) \in Nat
    BY DEF Archives
  <2>3. QED
    BY <2>1, <2>2
<1>1. PICK holds : holds = {k \in DOMAIN r.blocks : r.blocks[k].start = f}
  OBVIOUS
<1>2. holds = {f}
  BY <1>0, <1>1 DEF Readable
<1>3. f = CHOOSE k \in holds : \A j \in holds : j <= k
  BY <1>0, <1>2
<1>4. PICK o \in Nat : o = r.blocks[f].offset
  BY <1>0 DEF BlockPlaces
<1>5. IsTag(file, o) /\ IsWhole(file, o)
  BY <1>4 DEF Readable
<1>6. o + 1 \in 1..Len(file) /\ CellAt(file, o + 1) = file[o + 1] /\ file[o + 1].part = "tag"
  <2>1. ZeroCell.part # "tag"
    BY DEF ZeroCell
  <2>2. QED
    BY <1>5, <2>1 DEF IsTag, CellAt
<1>7. o + 2 \in 1..Len(file) /\ file[o + 2] = [block |-> file[o + 1].block, part |-> "body"]
  <2>1. ZeroCell.part # "body"
    BY DEF ZeroCell
  <2>2. CellAt(file, o + 2).part = "body"
    BY <1>5 DEF IsWhole
  <2>3. o + 2 \in 1..Len(file)
    BY <2>1, <2>2 DEF CellAt
  <2>4. QED
    BY <1>5, <1>6, <2>3 DEF IsWhole, CellAt
<1>8. ~(\/ holds = {} \/ o + 2 > Len(file)
        \/ file[o + 1].part # "tag" \/ file[o + 2] # [block |-> file[o + 1].block, part |-> "body"])
  BY <1>0, <1>2, <1>6, <1>7
<1>9. PICK last : last = CHOOSE k \in holds : \A j \in holds : j <= k
  OBVIOUS
<1>10. last = f
  BY <1>3, <1>9
<1>11. ReadData(file, r, f) = file[o + 1].block.sha
  BY <1>1, <1>4, <1>8, <1>9, <1>10 DEF ReadData
<1>12. QED
  BY <1>4, <1>6, <1>11

Till(h, v) == {k \in DOMAIN h : h[k].version <= v}

LEMMA AtIs ==
  ASSUME NEW h \in Seq(Records), NEW v \in Nat
  PROVE  /\ At(h, v) = IF Till(h, v) = {} THEN NoRecord
                       ELSE h[CHOOSE k \in Till(h, v) : \A j \in Till(h, v) : j <= k]
         /\ At(h, v) = NoRecord \/ \E j \in DOMAIN h : At(h, v) = h[j]
<1>1. PICK u : u = Till(h, v)
  OBVIOUS
<1>2. At(h, v) = IF u = {} THEN NoRecord ELSE h[CHOOSE k \in u : \A j \in u : j <= k]
  BY <1>1 DEF At, Till
<1>3. u # {} => \E k \in u : \A j \in u : j <= k
  <2>1. u \subseteq 1..Len(h) /\ Len(h) \in Nat
    BY <1>1 DEF Till
  <2>2. QED
    BY <2>1, GreatestNat
<1>4. u \subseteq DOMAIN h
  BY <1>1 DEF Till
<1>5. QED
  BY <1>1, <1>2, <1>3, <1>4

LEMMA AtSame ==
  ASSUME NEW h \in Seq(Records), NEW g \in Seq(Records), NEW v \in Nat, NEW w \in Nat,
         Till(h, v) = Till(g, w), \A k \in Till(h, v) : g[k] = h[k]
  PROVE  At(g, w) = At(h, v)
<1>1. PICK u : u = Till(h, v)
  OBVIOUS
<1>2. At(h, v) = IF u = {} THEN NoRecord ELSE h[CHOOSE k \in u : \A j \in u : j <= k]
  BY <1>1, AtIs
<1>3. At(g, w) = IF u = {} THEN NoRecord ELSE g[CHOOSE k \in u : \A j \in u : j <= k]
  BY <1>1, AtIs
<1>4. u # {} => \E k \in u : \A j \in u : j <= k
  <2>1. u \subseteq 1..Len(h) /\ Len(h) \in Nat
    BY <1>1 DEF Till
  <2>2. QED
    BY <2>1, GreatestNat
<1>5. QED
  BY <1>1, <1>2, <1>3, <1>4

LEMMA ChangedIs ==
  ASSUME NEW h \in Seq(Records), NEW v \in Nat, NEW ptr \in Seq(Nat),
         NEW g, g = Changed(h, v, ptr)
  PROVE  /\ g \in Seq(Records) /\ Len(h) <= Len(g) /\ Len(g) <= Len(h) + 1
         /\ \A k \in 1..Len(h) : g[k] = h[k]
         /\ \/ g = h /\ h = <<>> /\ ptr = NoFile
            \/ Len(g) = Len(h) + 1 /\ g[Len(g)] = [version |-> v, ptr |-> ptr]
<1>1. CASE ptr = NoFile /\ h = <<>>
  BY <1>1 DEF Changed
<1>2. CASE ~(ptr = NoFile /\ h = <<>>)
  <2>1. PICK rec : rec = [version |-> v, ptr |-> ptr]
    OBVIOUS
  <2>2. rec \in Records
    BY <2>1 DEF Records
  <2>3. g = Append(h, rec)
    BY <1>2, <2>1 DEF Changed
  <2>4. QED
    BY <2>1, <2>2, <2>3
<1>3. QED
  BY <1>1, <1>2

\* A history of versions before v.
Below(h, v) == \A k \in DOMAIN h : h[k].version < v

\* Versions before the new one see what they saw; the new one sees the change.
LEMMA AtChanged ==
  ASSUME NEW h \in Seq(Records), NEW v \in Nat, Below(h, v),
         NEW ptr \in Seq(Nat), NEW g, g = Changed(h, v, ptr)
  PROVE  /\ \A u \in Nat : u < v => At(g, u) = At(h, u)
         /\ At(g, v).ptr = ptr
<1>0. /\ g \in Seq(Records) /\ Len(h) \in Nat /\ \A k \in 1..Len(h) : g[k] = h[k]
      /\ \/ g = h /\ h = <<>> /\ ptr = NoFile
         \/ Len(g) = Len(h) + 1 /\ g[Len(g)] = [version |-> v, ptr |-> ptr]
  BY ChangedIs
<1>1. CASE g = h /\ h = <<>> /\ ptr = NoFile
  <2>1. Till(g, v) = {}
    BY <1>1 DEF Till
  <2>2. At(g, v) = NoRecord
    BY <1>0, <2>1, AtIs
  <2>3. QED
    BY <1>1, <2>2 DEF NoRecord, NoFile
<1>2. CASE Len(g) = Len(h) + 1 /\ g[Len(g)] = [version |-> v, ptr |-> ptr]
  <2>1. ASSUME NEW u \in Nat, u < v PROVE At(g, u) = At(h, u)
    <3>1. Till(h, u) = Till(g, u)
      <4>1. ASSUME NEW k \in DOMAIN g, g[k].version <= u PROVE k \in DOMAIN h /\ h[k].version <= u
        <5>1. k # Len(g)
          BY <1>2, <2>1, <4>1
        <5>2. k \in 1..Len(h)
          BY <1>0, <1>2, <5>1
        <5>3. QED
          BY <1>0, <4>1, <5>2
      <4>2. ASSUME NEW k \in DOMAIN h, h[k].version <= u PROVE k \in DOMAIN g /\ g[k].version <= u
        <5>1. k \in 1..Len(h) /\ k \in 1..Len(g) /\ DOMAIN g = 1..Len(g)
          BY <1>0, <1>2
        <5>2. QED
          BY <1>0, <4>2, <5>1
      <4>3. QED
        BY <4>1, <4>2 DEF Till
    <3>2. \A k \in Till(h, u) : g[k] = h[k]
      <4>1. Till(h, u) \subseteq 1..Len(h)
        BY <1>0 DEF Till
      <4>2. QED
        BY <1>0, <4>1
    <3>3. QED
      BY <1>0, <3>1, <3>2, AtSame
  <2>2. At(g, v).ptr = ptr
    <3>1. PICK up : up = Till(g, v)
      OBVIOUS
    <3>2. Len(g) \in up /\ up \subseteq 1..Len(g)
      BY <1>0, <1>2, <3>1 DEF Till
    <3>3. PICK n \in Nat : n = Len(g)
      BY <1>0
    <3>4. n = CHOOSE k \in up : \A j \in up : j <= k
      <4>1. \A k \in up : (\A j \in up : j <= k) => k = n
        BY <3>2, <3>3
      <4>2. \A j \in up : j <= n
        BY <3>2, <3>3
      <4>3. QED
        BY <3>2, <3>3, <4>1, <4>2
    <3>5. At(g, v) = IF up = {} THEN NoRecord ELSE g[CHOOSE k \in up : \A j \in up : j <= k]
      <4>1. g \in Seq(Records)
        BY <1>0
      <4>2. QED
        BY <3>1, <4>1, AtIs
    <3>6. At(g, v) = g[n]
      BY <3>2, <3>4, <3>5
    <3>7. QED
      BY <1>2, <3>3, <3>6
  <2>3. QED
    BY <2>1, <2>2
<1>3. QED
  BY <1>0, <1>1, <1>2

LEMMA AtNext ==
  ASSUME NEW h \in Seq(Records), NEW v \in Nat, \A k \in DOMAIN h : h[k].version <= v
  PROVE  At(h, v + 1) = At(h, v)
<1>1. v + 1 \in Nat
  OBVIOUS
<1>2. \A k \in DOMAIN h : h[k].version \in Nat
  <2>1. \A k \in DOMAIN h : h[k] \in Records
    OBVIOUS
  <2>2. QED
    BY <2>1 DEF Records
<1>3. Till(h, v) = Till(h, v + 1)
  BY <1>2 DEF Till
<1>4. QED
  BY <1>1, <1>3, AtSame

\* The content of one file, as it is at one of its changes.
Seen(file, r, c) == [k \in DOMAIN c.ptr |-> ReadData(file, r, c.ptr[k])]

LEMMA FolderIs ==
  ASSUME NEW file, NEW r, NEW v
  PROVE  Folder(file, r, v) = [n \in 1..Names |-> Seen(file, r, At(r.hist[n], v))]
BY DEF Folder, Seen

LEMMA LinkedAt ==
  ASSUME NEW r \in Scanners, Linked(r), NEW n \in 1..Names, NEW v \in Nat,
         NEW c, c = At(r.hist[n], v)
  PROVE  \A k \in DOMAIN c.ptr : c.ptr[k] \in 1..Len(r.blocks)
<1>1. PICK h : h = r.hist[n]
  OBVIOUS
<1>2. h \in Seq(Records)
  BY <1>1 DEF Scanners
<1>3. c = NoRecord \/ \E j \in DOMAIN h : c = h[j]
  BY <1>1, <1>2, AtIs
<1>4. CASE c = NoRecord
  BY <1>4 DEF NoRecord
<1>5. ASSUME NEW j \in DOMAIN h, c = h[j]
      PROVE  \A k \in DOMAIN c.ptr : c.ptr[k] \in 1..Len(r.blocks)
  BY <1>1, <1>5 DEF Linked
<1>6. QED
  BY <1>3, <1>4, <1>5

\* The walk s, of g, knows the blocks r knows, of f, in the same places.
Knows(r, s) == /\ Len(r.blocks) <= Len(s.blocks)
                    /\ \A j \in 1..Len(r.blocks) : s.blocks[j] = r.blocks[j]

LEMMA SeenSame ==
  ASSUME NEW f \in Archives, NEW g \in Archives, NEW r \in Scanners, NEW s \in Scanners,
         Readable(f, r), Readable(g, s), Knows(r, s), SameUpTo(f, g, r.pos),
         NEW c, \A k \in DOMAIN c.ptr : c.ptr[k] \in 1..Len(r.blocks)
  PROVE  Seen(g, s, c) = Seen(f, r, c)
<1>1. PICK L \in Nat, M \in Nat : L = Len(r.blocks) /\ M = Len(s.blocks)
  BY DEF Scanners
<1>2. ASSUME NEW k \in DOMAIN c.ptr PROVE ReadData(g, s, c.ptr[k]) = ReadData(f, r, c.ptr[k])
  <2>1. PICK q : q = c.ptr[k]
    OBVIOUS
  <2>2. q \in 1..L /\ q \in 1..M /\ s.blocks[q] = r.blocks[q]
    BY <1>1, <2>1 DEF Knows
  <2>3. PICK o : o = r.blocks[q].offset
    OBVIOUS
  <2>4. o \in Nat /\ r.pos \in Nat
    <3>1. r.blocks[q] \in BlockPlaces
      BY <1>1, <2>2 DEF Scanners
    <3>2. QED
      BY <2>3, <3>1 DEF BlockPlaces, Scanners
  <2>5. o + 2 <= r.pos
    BY <1>1, <2>2, <2>3 DEF Readable
  <2>6. CellAt(g, o + 1) = CellAt(f, o + 1)
    <3>1. o + 1 \in 1..r.pos
      BY <2>4, <2>5
    <3>2. QED
      BY <3>1 DEF SameUpTo
  <2>7. ReadData(f, r, q) = CellAt(f, o + 1).block.sha
    BY <1>1, <2>2, <2>3, ReadDataIs
  <2>8. ReadData(g, s, q) = CellAt(g, o + 1).block.sha
    BY <1>1, <2>2, <2>3, ReadDataIs
  <2>9. QED
    BY <2>1, <2>6, <2>7, <2>8
<1>3. QED
  BY <1>2 DEF Seen

LEMMA ReadableSame ==
  ASSUME NEW f \in Archives, NEW g \in Archives, NEW r \in Scanners, Readable(f, r),
         SameUpTo(f, g, r.pos), NEW k \in 1..Len(r.blocks)
  PROVE  IsTag(g, r.blocks[k].offset) /\ IsWhole(g, r.blocks[k].offset)
<1>1. PICK o : o = r.blocks[k].offset
  OBVIOUS
<1>2. r.blocks[k] \in BlockPlaces
  BY DEF Scanners
<1>3. o \in Nat /\ r.pos \in Nat
  BY <1>1, <1>2 DEF BlockPlaces, Scanners
<1>4. o + 2 <= r.pos /\ IsTag(f, o) /\ IsWhole(f, o)
  BY <1>1 DEF Readable
<1>5. o + 1 \in 1..r.pos /\ o + 2 \in 1..r.pos
  BY <1>3, <1>4
<1>6. CellAt(g, o + 1) = CellAt(f, o + 1) /\ CellAt(g, o + 2) = CellAt(f, o + 2)
  BY <1>5 DEF SameUpTo
<1>7. QED
  BY <1>1, <1>4, <1>6 DEF IsTag, IsWhole

LEMMA ShowsSame ==
  ASSUME NEW f \in Archives, NEW g \in Archives, NEW r \in Scanners, NEW X, NEW vs \in Seq(X),
         Shows(f, r, vs), SameUpTo(f, g, r.pos)
  PROVE  Shows(g, r, vs)
<1>1. Readable(f, r) /\ Linked(r)
  BY DEF Shows
<1>2. Readable(g, r)
  BY <1>1, ReadableSame DEF Readable
<1>3. Knows(r, r)
  <2>1. Len(r.blocks) \in Nat
    BY DEF Scanners
  <2>2. QED
    BY <2>1 DEF Knows
<1>4. ASSUME NEW v \in 1..Len(vs) PROVE Folder(g, r, v) = vs[v]
  <2>1. ASSUME NEW n \in 1..Names
        PROVE  Seen(g, r, At(r.hist[n], v)) = Seen(f, r, At(r.hist[n], v))
    <3>1. PICK c : c = At(r.hist[n], v)
      OBVIOUS
    <3>2. \A k \in DOMAIN c.ptr : c.ptr[k] \in 1..Len(r.blocks)
      BY <1>1, <3>1, LinkedAt
    <3>3. QED
      BY <1>1, <1>2, <1>3, <3>1, <3>2, SeenSame
  <2>2. Folder(g, r, v) = Folder(f, r, v)
    BY <2>1, FolderIs
  <2>3. QED
    BY <2>2 DEF Shows
<1>5. QED
  BY <1>2, <1>4 DEF Shows

\* What the walk ends with, behind the good versions, is what they hold.
LEMMA MountEnds ==
  ASSUME NEW f \in Archives, NEW X, NEW vs \in Seq(X), NEW r \in Scanners, ScanArrives(f, r),
         ~r.done, ~r.truncated, Shows(f, r, vs), CleanTail(f, r.pos)
  PROVE  Folders(f) = vs
<1>0. r.pos \in Nat /\ Len(f) \in Nat /\ r.nver \in Nat /\ r.sessions \in Nat /\ Len(vs) \in Nat
  BY DEF Scanners, Archives
<1>1. r.pos <= Len(f) /\ (Len(f) = r.pos => NoTags(f, r.pos))
  BY <1>0, TailIs
<1>2. PICK t : t = ScanStep(f, r)
  OBVIOUS
<1>3. /\ t.done /\ ~t.truncated /\ t.nver = r.nver /\ t.sessions = r.sessions
      /\ t.blocks = r.blocks /\ t.hist = r.hist /\ t \in Scanners
  <2>0. t \in Scanners
    BY <1>2, ScanTypes
  <2>1. CASE Len(f) = r.pos
    <3>1. t = [r EXCEPT !.done = TRUE]
      BY <1>0, <1>1, <1>2, <2>1, ScanStepIs
    <3>2. QED
      BY <2>0, <3>1 DEF Scanners
  <2>2. CASE UnfinishedAt(f, r.pos)
    <3>1. PICK b \in BlockSet : b.type = "c" /\ b.jmp = Incomplete /\ BlockAt(f, r.pos, b)
      BY <2>2 DEF UnfinishedAt
    <3>2. t = TagScan(r, r.pos, b, TRUE)
      BY <1>2, <3>1, ScanOver
    <3>3. t = ScanC(r, r.pos, b) /\ b.jmp < 0
      BY <3>1, <3>2 DEF TagScan, Incomplete
    <3>4. t = [r EXCEPT !.incomplete = TRUE, !.done = TRUE]
      BY <3>3 DEF ScanC
    <3>5. QED
      BY <2>0, <3>4 DEF Scanners
  <2>3. QED
    BY <2>1, <2>2 DEF CleanTail
<1>4. Scan(f) = LastSession(t)
  BY <1>1, <1>2, <1>3, ScanArriveDone
<1>5. PICK z : z = Scan(f)
  OBVIOUS
<1>6. z.sessions = Len(vs) /\ z.blocks = r.blocks /\ z.hist = r.hist
  <2>1. r.nver = Len(vs) /\ r.sessions = (IF r.nver = 0 THEN 0 ELSE r.nver - 1)
    BY DEF Shows
  <2>2. CASE r.nver = 0
    <3>1. ~(t.nver > 0)
      BY <1>3, <2>2
    <3>2. z = t
      BY <1>4, <1>5, <3>1 DEF LastSession
    <3>3. QED
      BY <1>3, <2>1, <2>2, <3>2
  <2>3. CASE r.nver # 0
    <3>1. t.nver > 0 /\ ~t.truncated
      BY <1>0, <1>3, <2>3
    <3>2. z = [t EXCEPT !.sessions = @ + 1]
      BY <1>4, <1>5, <3>1 DEF LastSession
    <3>3. z.sessions = t.sessions + 1 /\ z.blocks = t.blocks /\ z.hist = t.hist
      BY <1>3, <3>2 DEF Scanners
    <3>4. r.sessions = r.nver - 1
      BY <2>1, <2>3
    <3>5. r.sessions + 1 = Len(vs)
      BY <1>0, <2>1, <3>4
    <3>6. QED
      BY <1>3, <3>3, <3>5
  <2>4. QED
    BY <2>2, <2>3
<1>7. \A x, q : ReadData(f, z, q) = ReadData(f, r, q)
  BY <1>6 DEF ReadData
<1>8. \A v \in 1..Len(vs) : Folder(f, z, v) = vs[v]
  <2> SUFFICES ASSUME NEW v \in 1..Len(vs) PROVE Folder(f, z, v) = vs[v]
    OBVIOUS
  <2>1. Folder(f, z, v) = Folder(f, r, v)
    BY <1>6, <1>7 DEF Folder
  <2>2. QED
    BY <2>1 DEF Shows
<1>9. Folders(f) = [v \in 1..z.sessions |-> Folder(f, z, v)]
  BY <1>5 DEF Folders
<1>10. QED
  BY <1>6, <1>8, <1>9

\* The data of a version, behind its header at h.
DataAt(file, h, data, d, sha) ==
  \A k \in 1..data : BlockAt(file, h + 2 + 2 * (k - 1), d[k]) /\ d[k].sha = sha[k]

\* The walk r was at the end of the good versions; it is past the next one now.
Scanned(r, s, data, ptr, index) == Scanning(r, s, 2 * data, ptr, data, index)

\* It is in the archive g, which up to that end is as f was.
Passed(f, g, r, s, data, index, ptr, d, sha) ==
  /\ SameUpTo(f, g, r.pos) /\ DataAt(g, r.pos, data, d, sha)
  /\ Scanned(r, s, data, ptr, index)

LEMMA ScannerTypes ==
  ASSUME NEW r \in Scanners
  PROVE  /\ r.pos \in Nat /\ r.nver \in Nat /\ r.sessions \in Nat /\ Len(r.blocks) \in Nat
         /\ r.hist \in [1..Names -> Seq(Records)]
BY DEF Scanners

LEMMA ChangedHas ==
  ASSUME NEW h \in Seq(Records), NEW w \in Nat, NEW ptr \in Seq(Nat), NEW z, z = Changed(h, w, ptr)
  PROVE  \A j \in DOMAIN z : (j \in DOMAIN h /\ z[j] = h[j]) \/ z[j] = [version |-> w, ptr |-> ptr]
<1>1. /\ z \in Seq(Records) /\ \A k \in 1..Len(h) : z[k] = h[k]
      /\ \/ z = h /\ h = <<>> /\ ptr = NoFile
         \/ Len(z) = Len(h) + 1 /\ z[Len(z)] = [version |-> w, ptr |-> ptr]
  BY ChangedIs
<1>2. Len(h) \in Nat /\ DOMAIN h = 1..Len(h) /\ DOMAIN z = 1..Len(z)
  BY <1>1
<1>3. CASE z = h
  BY <1>3
<1>4. CASE Len(z) = Len(h) + 1 /\ z[Len(z)] = [version |-> w, ptr |-> ptr]
  <2>1. \A j \in 1..Len(z) : j \in 1..Len(h) \/ j = Len(z)
    BY <1>2, <1>4
  <2>2. QED
    BY <1>1, <1>2, <1>4, <2>1
<1>5. QED
  BY <1>1, <1>3, <1>4

\* A history up to version v.
Until(h, v) == \A j \in DOMAIN h : h[j].version \in 1..v

\* A history, with the change of the new version.
LEMMA HistoryGrows ==
  ASSUME NEW h \in Seq(Records), NEW V \in Nat, NEW w \in Nat, w = V + 1, Until(h, V),
         NEW ptr \in Seq(Nat), NEW z, z = Changed(h, w, ptr)
  PROVE  /\ \A v \in 1..V : At(z, v) = At(h, v)
         /\ At(z, w).ptr = ptr
<1>1. Below(h, w)
  BY DEF Below, Until
<1>2. /\ \A u \in Nat : u < w => At(z, u) = At(h, u)
      /\ At(z, w).ptr = ptr
  BY <1>1, AtChanged
<1>3. \A v \in 1..V : v \in Nat /\ v < w
  OBVIOUS
<1>4. QED
  BY <1>2, <1>3

\* A history that the new version does not change.
LEMMA HistoryStays ==
  ASSUME NEW h \in Seq(Records), NEW V \in Nat, Until(h, V)
  PROVE  /\ At(h, V + 1) = At(h, V)
         /\ V = 0 => At(h, V) = NoRecord
<1>1. \A j \in DOMAIN h : h[j].version <= V
  BY DEF Until
<1>2. At(h, V + 1) = At(h, V)
  BY <1>1, AtNext
<1>3. V = 0 => At(h, V) = NoRecord
  <2> SUFFICES ASSUME V = 0 PROVE At(h, V) = NoRecord
    OBVIOUS
  <2>1. Till(h, V) = {}
    BY DEF Till, Until
  <2>2. QED
    BY <2>1, AtIs
<1>4. QED
  BY <1>2, <1>3

\* The new version, once it is walked through, is in place; so are its data.
LEMMA ScannedReadable ==
  ASSUME NEW f \in Archives, NEW g \in Archives, NEW r \in Scanners, Readable(f, r),
         NEW data \in Nat, NEW index \in Nat, NEW ptr, NEW d, NEW sha, NEW s,
         Passed(f, g, r, s, data, index, ptr, d, sha)
  PROVE  /\ Readable(g, s) /\ Knows(r, s)
         /\ \A k \in 1..data : ReadData(g, s, Len(r.blocks) + k) = sha[k]
<1>0. /\ r.pos \in Nat /\ s \in Scanners /\ Len(r.blocks) \in Nat
      /\ s.pos = r.pos + 2 + 2 * data + 2 * data + 2 * index /\ Len(s.blocks) = Len(r.blocks) + data
      /\ \A j \in 1..Len(r.blocks) : s.blocks[j] = r.blocks[j]
      /\ \A j \in 1..data : s.blocks[Len(r.blocks) + j]
                              = [offset |-> r.pos + 2 + 2 * (j - 1), start |-> Len(r.blocks) + j]
  BY ScannerTypes DEF Passed, Scanned, Scanning
<1>s. SameUpTo(f, g, r.pos) /\ DataAt(g, r.pos, data, d, sha)
  BY DEF Passed
<1>1. PICK L \in Nat, p \in Nat, q \in Nat : L = Len(r.blocks) /\ p = r.pos /\ q = s.pos
  BY <1>0, ScannerTypes
<1>2. q = p + 2 + 2 * data + 2 * data + 2 * index /\ Len(s.blocks) = L + data
  BY <1>0, <1>1
<1>3. ASSUME NEW k \in 1..L
      PROVE  /\ s.blocks[k].start = k /\ s.blocks[k].offset + 2 <= q
             /\ IsTag(g, s.blocks[k].offset) /\ IsWhole(g, s.blocks[k].offset)
  <2>1. s.blocks[k] = r.blocks[k] /\ k \in 1..Len(r.blocks)
    BY <1>0, <1>1
  <2>2. r.blocks[k].start = k /\ r.blocks[k].offset + 2 <= p
    BY <1>1, <2>1 DEF Readable
  <2>3. IsTag(g, r.blocks[k].offset) /\ IsWhole(g, r.blocks[k].offset)
    BY <1>s, <2>1, ReadableSame
  <2>4. r.blocks[k].offset \in Nat
    <3>1. r.blocks[k] \in BlockPlaces
      BY <2>1 DEF Scanners
    <3>2. QED
      BY <3>1 DEF BlockPlaces
  <2>5. r.blocks[k].offset + 2 <= q
    BY <1>2, <2>2, <2>4
  <2>6. QED
    BY <2>1, <2>2, <2>3, <2>5
<1>4. ASSUME NEW k \in 1..data
      PROVE  /\ s.blocks[L + k].start = L + k /\ s.blocks[L + k].offset = p + 2 + 2 * (k - 1)
             /\ s.blocks[L + k].offset + 2 <= q
             /\ IsTag(g, s.blocks[L + k].offset) /\ IsWhole(g, s.blocks[L + k].offset)
             /\ CellAt(g, s.blocks[L + k].offset + 1).block = d[k]
  <2>1. PICK o : o = p + 2 + 2 * (k - 1)
    OBVIOUS
  <2>2. s.blocks[L + k] = [offset |-> o, start |-> L + k]
    BY <1>0, <1>1, <2>1
  <2>3. BlockAt(g, o, d[k])
    BY <1>1, <1>s, <2>1 DEF DataAt
  <2>4. IsTag(g, o) /\ IsWhole(g, o) /\ CellAt(g, o + 1).block = d[k]
    BY <2>3 DEF BlockAt, IsTag, IsWhole
  <2>5. o + 2 <= q
    BY <1>2, <2>1
  <2>6. QED
    BY <2>1, <2>2, <2>4, <2>5
<1>5. Readable(g, s)
  <2> SUFFICES ASSUME NEW k \in 1..L + data
               PROVE  /\ s.blocks[k].start = k /\ s.blocks[k].offset + 2 <= q
                      /\ IsTag(g, s.blocks[k].offset) /\ IsWhole(g, s.blocks[k].offset)
    BY <1>1, <1>2 DEF Readable
  <2>1. CASE k <= L
    <3>1. k \in 1..L
      BY <2>1
    <3>2. QED
      BY <1>3, <3>1
  <2>2. CASE ~(k <= L)
    <3>1. PICK j \in 1..data : k = L + j
      <4>1. k - L \in 1..data /\ k = L + (k - L)
        BY <2>2
      <4>2. QED
        BY <4>1
    <3>2. QED
      BY <1>4, <3>1
  <2>3. QED
    BY <2>1, <2>2
<1>6. Knows(r, s)
  BY <1>0, <1>1, <1>2 DEF Knows
<1>7. ASSUME NEW k \in 1..data PROVE ReadData(g, s, L + k) = sha[k]
  <2>1. PICK m : m = L + k
    OBVIOUS
  <2>2. m \in 1..Len(s.blocks)
    BY <1>2, <2>1
  <2>3. ReadData(g, s, m) = CellAt(g, s.blocks[m].offset + 1).block.sha
    BY <1>0, <1>5, <2>2, ReadDataIs
  <2>4. QED
    BY <1>1, <1>s, <1>4, <2>1, <2>3 DEF DataAt
<1>8. QED
  BY <1>1, <1>5, <1>6, <1>7

\* The fragments of a version, when there are L before it.
FragmentsFrom(L, data) == [k \in 1..data |-> L + k]

LEMMA NumbersAre ==
  ASSUME NEW L \in Nat, NEW data \in Nat, NEW ptr, ptr = FragmentsFrom(L, data)
  PROVE  ptr \in Seq(Nat) /\ DOMAIN ptr = 1..data /\ \A k \in 1..data : ptr[k] = L + k
<1>1. ptr \in [1..data -> Nat]
  BY DEF FragmentsFrom
<1>2. QED
  BY <1>1 DEF FragmentsFrom

LEMMA SessionsNext ==
  ASSUME NEW V \in Nat, NEW n, n = (IF V = 0 THEN 0 ELSE V - 1)
  PROVE  (IF V > 0 THEN n + 1 ELSE n) = IF V + 1 = 0 THEN 0 ELSE (V + 1) - 1
OBVIOUS

\* The files of the new version have its data, and the others are as they were.
LEMMA ShowsNext ==
  ASSUME NEW f \in Archives, NEW g \in Archives, NEW r \in Scanners, NEW X, NEW vs \in Seq(X),
         Shows(f, r, vs), NEW data \in Nat, NEW index \in 0..Names,
         NEW ptr, ptr = FragmentsFrom(Len(r.blocks), data), NEW d, NEW sha, NEW s,
         Passed(f, g, r, s, data, index, ptr, d, sha), NEW new \in X, new = Stored(LastOf(vs), index, data, sha)
  PROVE  Shows(g, s, Append(vs, new))
<1>0. /\ s \in Scanners /\ index \in Nat /\ Len(vs) \in Nat
      /\ Readable(f, r) /\ Before(r) /\ Linked(r) /\ r.nver = Len(vs)
      /\ r.sessions = (IF r.nver = 0 THEN 0 ELSE r.nver - 1)
      /\ \A v \in 1..Len(vs) : Folder(f, r, v) = vs[v]
  BY DEF Passed, Scanned, Scanning, Shows
<1>g. SameUpTo(f, g, r.pos)
  BY DEF Passed
<1>1. /\ Len(r.blocks) \in Nat /\ r.hist \in [1..Names -> Seq(Records)] /\ r.sessions \in Nat
  BY ScannerTypes
<1>2. /\ Readable(g, s) /\ Knows(r, s)
      /\ \A k \in 1..data : ReadData(g, s, Len(r.blocks) + k) = sha[k]
  <2>1. Readable(f, r)
    BY <1>0
  <2>2. index \in Nat
    BY <1>0
  <2>3. QED
    BY <2>1, <2>2, ScannedReadable
<1>3. PICK V \in Nat, L \in Nat : V = Len(vs) /\ L = Len(r.blocks)
  BY <1>0, <1>1
<1>4. s.nver = V + 1 /\ Len(s.blocks) = L + data
  BY <1>0, <1>3 DEF Passed, Scanned, Scanning
<1>5. ptr \in Seq(Nat) /\ DOMAIN ptr = 1..data /\ \A k \in 1..data : ptr[k] = L + k
  <2>1. ptr = FragmentsFrom(L, data)
    BY <1>3
  <2>2. QED
    BY <2>1, NumbersAre
<1>6. s.sessions = (IF s.nver = 0 THEN 0 ELSE s.nver - 1)
  BY <1>0, <1>1, <1>3, <1>4, SessionsNext DEF Passed, Scanned, Scanning
<1>w. PICK w \in Nat : w = V + 1
  OBVIOUS
<1>7. ASSUME NEW n \in 1..Names
      PROVE  /\ r.hist[n] \in Seq(Records) /\ Until(r.hist[n], V)
             /\ s.hist[n] = IF n <= index THEN Changed(r.hist[n], w, ptr) ELSE r.hist[n]
  <2>1. s.hist[n] = IF n <= index THEN Changed(r.hist[n], r.nver + 1, ptr) ELSE r.hist[n]
    BY DEF Passed, Scanned, Scanning
  <2>2. r.nver + 1 = w
    BY <1>0, <1>3, <1>w
  <2>3. \A j \in DOMAIN r.hist[n] : r.hist[n][j].version \in 1..V
    BY <1>0, <1>3 DEF Before
  <2>4. QED
    BY <1>1, <2>1, <2>2, <2>3 DEF Until
<1>8. ASSUME NEW n \in 1..Names, n <= index
      PROVE  /\ \A v \in 1..V : At(s.hist[n], v) = At(r.hist[n], v)
             /\ At(s.hist[n], w).ptr = ptr
             /\ \A j \in DOMAIN s.hist[n] :
                  \/ j \in DOMAIN r.hist[n] /\ s.hist[n][j] = r.hist[n][j]
                  \/ s.hist[n][j] = [version |-> w, ptr |-> ptr]
  <2>1. PICK h, z : h = r.hist[n] /\ z = s.hist[n]
    OBVIOUS
  <2>2. h \in Seq(Records) /\ Until(h, V) /\ z = Changed(h, w, ptr)
    BY <1>7, <1>8, <2>1
  <2>3. /\ \A v \in 1..V : At(z, v) = At(h, v)
        /\ At(z, w).ptr = ptr
    BY <1>w, <1>5, <2>2, HistoryGrows
  <2>4. \A j \in DOMAIN z : (j \in DOMAIN h /\ z[j] = h[j]) \/ z[j] = [version |-> w, ptr |-> ptr]
    BY <1>5, <2>2, ChangedHas
  <2>5. QED
    BY <2>1, <2>3, <2>4
<1>9. ASSUME NEW n \in 1..Names
      PROVE  /\ At(r.hist[n], V + 1) = At(r.hist[n], V)
             /\ V = 0 => At(r.hist[n], V) = NoRecord
  <2>1. PICK h : h = r.hist[n]
    OBVIOUS
  <2>2. h \in Seq(Records) /\ Until(h, V)
    BY <1>7, <2>1
  <2>3. /\ At(h, V + 1) = At(h, V)
        /\ V = 0 => At(h, V) = NoRecord
    BY <2>2, HistoryStays
  <2>4. QED
    BY <2>1, <2>3
<1>p. ASSUME NEW n \in 1..Names
      PROVE  \A j \in DOMAIN s.hist[n] : \/ j \in DOMAIN r.hist[n] /\ s.hist[n][j] = r.hist[n][j]
                                         \/ s.hist[n][j] = [version |-> w, ptr |-> ptr]
  <2>1. CASE n <= index
    BY <1>8, <2>1
  <2>2. CASE ~(n <= index)
    BY <1>7, <2>2
  <2>3. QED
    BY <2>1, <2>2
<1>a. ASSUME NEW n \in 1..Names, NEW v \in 1..V PROVE At(s.hist[n], v) = At(r.hist[n], v)
  <2>1. CASE n <= index
    BY <1>8, <2>1
  <2>2. CASE ~(n <= index)
    BY <1>7, <2>2
  <2>3. QED
    BY <2>1, <2>2
<1>b. ASSUME NEW n \in 1..Names PROVE n <= index => At(s.hist[n], w).ptr = ptr
  BY <1>8
<1>c. ASSUME NEW n \in 1..Names PROVE ~(n <= index) => At(s.hist[n], w) = At(r.hist[n], V)
  BY <1>7, <1>9, <1>w
<1>d. ASSUME NEW n \in 1..Names PROVE V = 0 => At(r.hist[n], V) = NoRecord
  BY <1>9
<1>e. ASSUME NEW n \in 1..Names, NEW j \in DOMAIN s.hist[n], NEW c, c = s.hist[n][j]
      PROVE  c.version \in 1..w /\ \A k \in DOMAIN c.ptr : c.ptr[k] \in 1..L + data
  <2>1. (j \in DOMAIN r.hist[n] /\ c = r.hist[n][j]) \/ c = [version |-> w, ptr |-> ptr]
    BY <1>p, <1>e
  <2>2. CASE j \in DOMAIN r.hist[n] /\ c = r.hist[n][j]
    <3>1. c.version \in 1..V
      BY <1>7, <2>2 DEF Until
    <3>2. \A k \in DOMAIN c.ptr : c.ptr[k] \in 1..L
      BY <1>0, <1>3, <2>2 DEF Linked
    <3>3. c.version \in 1..w
      BY <1>w, <3>1
    <3>4. \A x : x \in 1..L => x \in 1..L + data
      OBVIOUS
    <3>5. QED
      BY <3>2, <3>3, <3>4
  <2>3. CASE c = [version |-> w, ptr |-> ptr]
    <3>1. c.version \in 1..w
      BY <1>w, <2>3
    <3>2. c.ptr = ptr
      BY <2>3
    <3>3. \A k \in 1..data : L + k \in 1..L + data
      OBVIOUS
    <3>4. \A k \in DOMAIN ptr : ptr[k] \in 1..L + data
      BY <1>5, <3>3
    <3>5. QED
      BY <3>1, <3>2, <3>4
  <2>4. QED
    BY <2>1, <2>2, <2>3
<1>f. Before(s) /\ Linked(s)
  <2>1. s.nver = w
    BY <1>4, <1>w
  <2>2. QED
    BY <1>4, <1>e, <2>1 DEF Before, Linked
<1>s. ASSUME NEW n \in 1..Names, NEW v \in Nat, NEW c, c = At(r.hist[n], v)
      PROVE  Seen(g, s, c) = Seen(f, r, c)
  <2>1. \A k \in DOMAIN c.ptr : c.ptr[k] \in 1..Len(r.blocks)
    BY <1>0, <1>s, LinkedAt
  <2>2. QED
    BY <1>0, <1>g, <1>2, <2>1, SeenSame
<1>10. ASSUME NEW v \in 1..V, NEW n \in 1..Names
       PROVE  Seen(g, s, At(s.hist[n], v)) = Seen(f, r, At(r.hist[n], v))
  <2>1. PICK c : c = At(r.hist[n], v)
    OBVIOUS
  <2>2. At(s.hist[n], v) = c
    BY <1>a, <2>1
  <2>3. v \in Nat
    OBVIOUS
  <2>4. QED
    BY <1>s, <2>1, <2>2, <2>3
<1>11. ASSUME NEW n \in 1..Names PROVE Seen(g, s, At(s.hist[n], w)) = new[n]
  <2>1. new[n] = IF n <= index THEN [k \in 1..data |-> sha[k]] ELSE LastOf(vs)[n]
    BY DEF Stored
  <2>2. CASE n <= index
    <3>1. At(s.hist[n], w).ptr = ptr
      BY <1>b, <2>2
    <3>2. \A k \in 1..data : ReadData(g, s, ptr[k]) = sha[k]
      BY <1>2, <1>3, <1>5
    <3>3. Seen(g, s, At(s.hist[n], w)) = [k \in 1..data |-> sha[k]]
      BY <1>5, <3>1, <3>2 DEF Seen
    <3>4. QED
      BY <2>1, <2>2, <3>3
  <2>3. CASE ~(n <= index)
    <3>1. PICK c : c = At(r.hist[n], V)
      OBVIOUS
    <3>2. At(s.hist[n], w) = c
      BY <1>c, <2>3, <3>1
    <3>3. Seen(g, s, c) = Seen(f, r, c)
      BY <1>s, <3>1
    <3>4. Seen(f, r, c) = LastOf(vs)[n]
      <4>1. CASE V = 0
        <5>1. c = NoRecord
          BY <1>d, <3>1, <4>1
        <5>2. Seen(f, r, c) = <<>>
          BY <5>1 DEF Seen, NoRecord
        <5>3. vs = <<>>
          <6>1. Len(vs) = 0
            BY <1>3, <4>1
          <6>2. QED
            BY <6>1
        <5>4. QED
          BY <5>2, <5>3 DEF LastOf, NoFile
      <4>2. CASE V # 0
        <5>1. V \in 1..Len(vs) /\ vs # <<>>
          <6>1. V \in 1..V /\ Len(vs) # 0
            BY <1>3, <4>2
          <6>2. QED
            BY <1>3, <6>1
        <5>2. Folder(f, r, V) = LastOf(vs)
          BY <1>0, <1>3, <5>1 DEF LastOf
        <5>3. Folder(f, r, V)[n] = Seen(f, r, At(r.hist[n], V))
          BY FolderIs
        <5>4. QED
          BY <3>1, <5>2, <5>3
      <4>3. QED
        BY <4>1, <4>2
    <3>5. QED
      BY <2>1, <2>3, <3>2, <3>3, <3>4
  <2>4. QED
    BY <2>2, <2>3
<1>12. PICK us : us = Append(vs, new)
  OBVIOUS
<1>13. Len(us) = V + 1 /\ us[w] = new /\ \A v \in 1..V : us[v] = vs[v]
  BY <1>3, <1>12, <1>w
<1>14. ASSUME NEW v \in 1..V + 1 PROVE Folder(g, s, v) = us[v]
  <2>1. CASE v = w
    <3>1. Folder(g, s, w) = [n \in 1..Names |-> new[n]]
      BY <1>11, FolderIs
    <3>2. new = [n \in 1..Names |-> new[n]]
      BY DEF Stored
    <3>3. QED
      BY <1>13, <2>1, <3>1, <3>2
  <2>2. CASE v # w
    <3>1. v \in 1..V
      BY <1>w, <2>2
    <3>2. Folder(g, s, v) = Folder(f, r, v)
      BY <1>10, <3>1, FolderIs
    <3>3. QED
      BY <1>0, <1>3, <1>13, <3>1, <3>2
  <2>3. QED
    BY <2>1, <2>2
<1>15. QED
  BY <1>2, <1>4, <1>6, <1>f, <1>12, <1>13, <1>14 DEF Shows

ScanComes(file, r, jmp, ptr, k, l) ==
  \E s \in Scanners : ScanArrives(file, s) /\ Scanning(r, s, jmp, ptr, k, l)

LEMMA ScanArriveTypes ==
  ASSUME NEW file \in Archives, NEW r, ScanArrives(file, r)
  PROVE  r \in Scanners
<1>1. PICK s \in ScanRuns(file), n \in Nat : s[n] = r
  BY DEF ScanArrives
<1>2. QED
  BY <1>1, ScanRunIs

\* The walk through a whole version.
LEMMA VersionScanned ==
  ASSUME NEW file \in Archives, NEW r \in Scanners, ScanArrives(file, r), ~r.done, ~r.truncated,
         Before(r), NEW date, NEW sha, NEW ptr \in Seq(Nat), NEW data \in Nat,
         NEW index \in 0..Names, NEW htsize, htsize = Len(r.blocks) + 1,
         VersionAt(file, r.pos, date, htsize, sha, ptr, data, index)
  PROVE  ScanComes(file, r, 2 * data, ptr, data, index)
<1>2. PICK jmp \in Nat : jmp = 2 * data
  OBVIOUS
<1>n. Names \in Nat /\ index \in Nat /\ index <= Names
  BY NamesAssumption
<1>4. ScanComes(file, r, jmp, ptr, 0, 0)
  <2>1. PICK b, s : b = CBlock(date, htsize, jmp) /\ s = TagScan(r, r.pos, b, TRUE)
    OBVIOUS
  <2>2. Scanning(r, s, jmp, ptr, 0, 0)
    BY <2>1, ScanNewHeader
  <2>3. BlockAt(file, r.pos, b)
    BY <1>2, <2>1 DEF VersionAt
  <2>4. s = ScanStep(file, r)
    BY <2>1, <2>3, ScanOver
  <2>5. ~s.done
    BY <2>2 DEF Scanning
  <2>6. ScanArrives(file, s)
    BY <2>4, <2>5, ScanArriveStep
  <2>7. QED
    BY <2>2, <2>6 DEF ScanComes, Scanning
<1> DEFINE T == {k \in Nat : k <= data => ScanComes(file, r, jmp, ptr, k, 0)}
<1>5. 0 \in T
  BY <1>4
<1>6. ASSUME NEW k \in Nat, k \in T PROVE k + 1 \in T
  <2> SUFFICES ASSUME k + 1 <= data PROVE ScanComes(file, r, jmp, ptr, k + 1, 0)
    OBVIOUS
  <2>0. k <= data /\ k \in 0..data - 1
    OBVIOUS
  <2>1. PICK s \in Scanners : ScanArrives(file, s) /\ Scanning(r, s, jmp, ptr, k, 0)
    BY <1>6, <2>0 DEF ScanComes
  <2>2. PICK b, t : b = HBlock(date, Len(r.blocks) + 1 + k, sha[k + 1]) /\ t = TagScan(s, s.pos, b, TRUE)
    OBVIOUS
  <2>3. Scanning(r, t, jmp, ptr, k + 1, 0)
    BY <2>1, <2>2, ScanNewTable
  <2>4. ~s.done /\ s.pos = r.pos + 2 + jmp + 2 * k + 2 * 0
    BY <2>1 DEF Scanning
  <2>5. BlockAt(file, s.pos, b)
    BY <1>2, <2>0, <2>2, <2>4 DEF VersionAt
  <2>6. t = ScanStep(file, s) /\ ~t.done
    BY <2>2, <2>3, <2>4, <2>5, ScanOver DEF Scanning
  <2>7. ScanArrives(file, t)
    BY <2>1, <2>6, ScanArriveStep
  <2>8. QED
    BY <2>3, <2>7 DEF ScanComes, Scanning
<1>7. ScanComes(file, r, jmp, ptr, data, 0)
  <2>1. \A k \in Nat : k \in T
    <3> HIDE DEF T
    <3>1. QED
      BY <1>5, <1>6, NatByInduction
  <2>2. QED
    BY <2>1
<1> DEFINE U == {l \in Nat : l <= index => ScanComes(file, r, jmp, ptr, data, l)}
<1>8. 0 \in U
  BY <1>7
<1>9. ASSUME NEW l \in Nat, l \in U PROVE l + 1 \in U
  <2> SUFFICES ASSUME l + 1 <= index PROVE ScanComes(file, r, jmp, ptr, data, l + 1)
    OBVIOUS
  <2>0. l <= index /\ l \in 0..index - 1 /\ l < Names
    BY <1>n
  <2>1. PICK s \in Scanners : ScanArrives(file, s) /\ Scanning(r, s, jmp, ptr, data, l)
    BY <1>9, <2>0 DEF ScanComes
  <2>2. PICK b, t : b = IBlock(date, l + 1, l + 1, ptr) /\ t = TagScan(s, s.pos, b, TRUE)
    OBVIOUS
  <2>3. Scanning(r, t, jmp, ptr, data, l + 1)
    BY <2>0, <2>1, <2>2, ScanNewFile
  <2>4. ~s.done /\ s.pos = r.pos + 2 + jmp + 2 * data + 2 * l
    BY <2>1 DEF Scanning
  <2>5. BlockAt(file, s.pos, b)
    BY <1>2, <2>0, <2>2, <2>4 DEF VersionAt
  <2>6. t = ScanStep(file, s) /\ ~t.done
    BY <2>2, <2>3, <2>4, <2>5, ScanOver DEF Scanning
  <2>7. ScanArrives(file, t)
    BY <2>1, <2>6, ScanArriveStep
  <2>8. QED
    BY <2>3, <2>7 DEF ScanComes, Scanning
<1>10. ScanComes(file, r, jmp, ptr, data, index)
  <2>1. \A l \in Nat : l \in U
    <3> HIDE DEF U
    <3>1. QED
      BY <1>8, <1>9, NatByInduction
  <2>2. QED
    BY <1>n, <2>1
<1>11. QED
  BY <1>2, <1>10

-----------------------------------------------------------------------------
(* The walk of an archive, up to h, where its versions end: it knows their *)
(* m blocks, and shows them.                                               *)
Mounted(f, h, m, vs) ==
  \E r \in Scanners : /\ ScanArrives(f, r) /\ ~r.done /\ ~r.truncated
                      /\ r.pos = h /\ Len(r.blocks) = m /\ Shows(f, r, vs)

LEMMA MountedShows ==
  ASSUME NEW f \in Archives, NEW X, NEW vs \in Seq(X), NEW h, NEW m, Mounted(f, h, m, vs),
         CleanTail(f, h)
  PROVE  Folders(f) = vs
<1>1. PICK r \in Scanners : /\ ScanArrives(f, r) /\ ~r.done /\ ~r.truncated
                            /\ r.pos = h /\ Shows(f, r, vs)
  BY DEF Mounted
<1>2. QED
  BY <1>1, MountEnds

LEMMA MountedSame ==
  ASSUME NEW f \in Archives, NEW g \in Archives, NEW X, NEW vs \in Seq(X), NEW h, NEW m,
         Mounted(f, h, m, vs), SameUpTo(f, g, h)
  PROVE  Mounted(g, h, m, vs)
<1>1. PICK r \in Scanners : /\ ScanArrives(f, r) /\ ~r.done /\ ~r.truncated
                            /\ r.pos = h /\ Len(r.blocks) = m /\ Shows(f, r, vs)
  BY DEF Mounted
<1>2. ScanArrives(g, r)
  BY <1>1, ScanSameArrives
<1>3. Shows(g, r, vs)
  BY <1>1, ShowsSame
<1>4. QED
  BY <1>1, <1>2, <1>3 DEF Mounted

LEMMA NumberedAs ==
  ASSUME NEW L \in Nat, NEW data \in Nat
  PROVE  Numbered(L + 1, data) = FragmentsFrom(L, data)
<1>1. \A k \in 1..data : L + 1 + k - 1 = L + k
  OBVIOUS
<1>2. QED
  BY <1>1 DEF Numbered, FragmentsFrom

\* A whole version in the archive g, at h, behind versions with m fragments.
NextAt(g, h, m, date, data, index, sha, ptr, d) ==
  /\ VersionAt(g, h, date, m + 1, sha, ptr, data, index) /\ ptr = Numbered(m + 1, data)
  /\ DataAt(g, h, data, d, sha)

\* Behind it the walk shows one version more.
BehindIs(g, h, m, data, index, vs) ==
  \E p, n : /\ Mounted(g, p, n, vs)
            /\ p = h + 2 + 2 * data + 2 * data + 2 * index /\ n = m + data

LEMMA MountedNext ==
  ASSUME NEW f \in Archives, NEW g \in Archives, NEW X, NEW vs \in Seq(X), NEW h \in Nat,
         NEW m \in Nat, Mounted(f, h, m, vs), SameUpTo(f, g, h),
         NEW date, NEW data \in Nat, NEW index \in 0..Names, NEW sha, NEW ptr, NEW d,
         NextAt(g, h, m, date, data, index, sha, ptr, d),
         NEW new \in X, new = Stored(LastOf(vs), index, data, sha)
  PROVE  BehindIs(g, h, m, data, index, Append(vs, new))
<1>1. PICK r \in Scanners : /\ ScanArrives(f, r) /\ ~r.done /\ ~r.truncated
                            /\ r.pos = h /\ Len(r.blocks) = m /\ Shows(f, r, vs)
  BY DEF Mounted
<1>2. ScanArrives(g, r) /\ Before(r) /\ SameUpTo(f, g, r.pos)
  BY <1>1, ScanSameArrives DEF Shows
<1>3. ptr = FragmentsFrom(Len(r.blocks), data)
  <2>1. ptr = Numbered(m + 1, data)
    BY DEF NextAt
  <2>2. QED
    BY <1>1, <2>1, NumberedAs
<1>4. ptr \in Seq(Nat)
  BY <1>1, <1>3, NumbersAre
<1>5. ScanComes(g, r, 2 * data, ptr, data, index)
  <2>1. PICK htsize : htsize = m + 1
    OBVIOUS
  <2>2. VersionAt(g, r.pos, date, htsize, sha, ptr, data, index) /\ htsize = Len(r.blocks) + 1
    BY <1>1, <2>1 DEF NextAt
  <2>3. QED
    BY <1>1, <1>2, <1>4, <2>2, VersionScanned
<1>6. PICK s \in Scanners : ScanArrives(g, s) /\ Scanned(r, s, data, ptr, index)
  BY <1>5 DEF ScanComes, Scanned
<1>7. Passed(f, g, r, s, data, index, ptr, d, sha) /\ Shows(f, r, vs)
  BY <1>1, <1>2, <1>6 DEF Passed, NextAt
<1>8. Shows(g, s, Append(vs, new))
  BY <1>3, <1>7, ShowsNext
<1>9. PICK p, n : p = s.pos /\ n = Len(s.blocks)
  OBVIOUS
<1>10. ~s.done /\ ~s.truncated /\ n = m + data /\ p = h + 2 + 2 * data + 2 * data + 2 * index
  BY <1>1, <1>6, <1>9 DEF Scanned, Scanning
<1>11. Mounted(g, p, n, Append(vs, new))
  BY <1>6, <1>8, <1>9, <1>10 DEF Mounted
<1>12. QED
  BY <1>10, <1>11 DEF BehindIs

LEMMA NothingMounted ==
  ASSUME NEW f \in Archives
  PROVE  Mounted(f, 0, 0, <<>>)
<1>1. PICK r : r = ScanInit
  OBVIOUS
<1>2. /\ r.pos = 0 /\ r.nver = 0 /\ r.sessions = 0 /\ r.blocks = <<>> /\ ~r.done /\ ~r.truncated
      /\ r.hist = [n \in 1..Names |-> <<>>]
  BY <1>1 DEF ScanInit
<1>3. ScanArrives(f, r)
  <2>1. PICK s : s \in ScanRuns(f)
    BY ScanRunExists
  <2>2. s[0] = r /\ 0 \in Nat /\ 0 <= r.pos
    BY <1>1, <1>2, <2>1 DEF ScanRuns
  <2>3. QED
    BY <2>1, <2>2 DEF ScanArrives
<1>4. r \in Scanners
  BY <1>3, ScanArriveTypes
<1>5. \A n \in 1..Names : r.hist[n] = <<>>
  BY <1>2
<1>6. Readable(f, r) /\ Before(r) /\ Linked(r)
  BY <1>2, <1>5 DEF Readable, Before, Linked
<1>7. Shows(f, r, <<>>)
  BY <1>2, <1>6 DEF Shows
<1>8. QED
  BY <1>2, <1>3, <1>4, <1>7 DEF Mounted

-----------------------------------------------------------------------------
(* Archives in order, for both readers.                                    *)
Sound(f, vs) ==
  ReadSound(f, vs) /\ Mounted(f, Read(f).block_offset, Len(Read(f).ht), vs)

LEMMA SoundIs ==
  ASSUME NEW f \in Archives, NEW X, NEW vs \in Seq(X), Sound(f, vs)
  PROVE  /\ Read(f).errors = 0 /\ History(f) = vs /\ Folders(f) = vs
         /\ CleanTail(f, Read(f).block_offset)
<1>1. ReadSound(f, vs)
  BY DEF Sound
<1>2. Read(f).errors = 0 /\ History(f) = vs /\ CleanTail(f, Read(f).block_offset)
  BY <1>1, ReadSoundIs
<1>3. PICK h, m : h = Read(f).block_offset /\ m = Len(Read(f).ht)
  OBVIOUS
<1>4. Mounted(f, h, m, vs) /\ CleanTail(f, h)
  BY <1>2, <1>3 DEF Sound
<1>5. Folders(f) = vs
  BY <1>4, MountedShows
<1>6. QED
  BY <1>2, <1>5

LEMMA SoundSame ==
  ASSUME NEW f \in Archives, NEW g \in Archives, NEW X, NEW vs \in Seq(X), Sound(f, vs),
         NEW h, h = Read(f).block_offset, SameUpTo(f, g, h), CleanTail(g, h)
  PROVE  Sound(g, vs) /\ Read(g).block_offset = h
<1>1. PICK m : m = Len(Read(f).ht)
  OBVIOUS
<1>2. ReadSound(f, vs) /\ Mounted(f, h, m, vs)
  BY <1>1 DEF Sound
<1>3. ReadSound(g, vs) /\ Read(g).block_offset = h /\ SameTables(Read(f), Read(g))
  BY <1>2, ReadSoundSame
<1>4. Mounted(g, h, m, vs)
  BY <1>2, MountedSame
<1>5. QED
  BY <1>1, <1>3, <1>4 DEF Sound, SameTables

LEMMA SoundNext ==
  ASSUME NEW f \in Archives, NEW g \in Archives, NEW X, NEW vs \in Seq(X), Sound(f, vs),
         NEW h, h = Read(f).block_offset, SameUpTo(f, g, h),
         NEW date \in Nat, NEW data \in Nat, NEW index \in 0..Names, data > 0 => index > 0,
         NEW sha, \A k \in 1..data : sha[k] \in Nat,
         NEW ptr, NEW d, NextAt(g, h, Len(Read(f).ht), date, data, index, sha, ptr, d),
         Len(g) = h + 2 + 2 * data + 2 * data + 2 * index,
         NEW new \in X, new = Stored(LastOf(vs), index, data, sha)
  PROVE  Sound(g, Append(vs, new)) /\ Read(g).block_offset = Len(g)
<1>1. PICK m, htsize : m = Len(Read(f).ht) /\ htsize = m + 1
  OBVIOUS
<1>2. ReadSound(f, vs) /\ Mounted(f, h, m, vs)
  BY <1>1 DEF Sound
<1>3. h \in Nat /\ m \in Nat
  <2>1. Read(f) \in Readers
    BY EndIsSafe
  <2>2. QED
    BY <1>1, <2>1 DEF Readers
<1>4. NextAt(g, h, m, date, data, index, sha, ptr, d)
  BY <1>1
<1>5. HtSize(Read(f)) = htsize
  BY <1>1 DEF HtSize
<1>6. /\ ReadSound(g, Append(vs, new)) /\ Read(g).block_offset = Len(g)
      /\ Len(Read(g).ht) = m + data
  <2>1. /\ VersionAt(g, h, date, HtSize(Read(f)), sha, ptr, data, index)
        /\ ptr = Numbered(HtSize(Read(f)), data)
    BY <1>1, <1>4, <1>5 DEF NextAt
  <2>2. ReadSound(f, vs)
    BY <1>2
  <2>3. /\ ReadSound(g, Append(vs, new)) /\ Read(g).block_offset = Len(g)
        /\ Len(Read(g).ht) = Len(Read(f).ht) + data
    BY <2>1, <2>2, ReadSoundNext
  <2>4. QED
    BY <1>1, <2>3
<1>7. PICK p, n : /\ Mounted(g, p, n, Append(vs, new))
                  /\ p = h + 2 + 2 * data + 2 * data + 2 * index /\ n = m + data
  <2>1. PICK x, y : x = h /\ y = new
    OBVIOUS
  <2>2. /\ x \in Nat /\ Mounted(f, x, m, vs) /\ SameUpTo(f, g, x)
        /\ NextAt(g, x, m, date, data, index, sha, ptr, d)
        /\ y \in X /\ y = Stored(LastOf(vs), index, data, sha)
    BY <1>2, <1>3, <1>4, <2>1
  <2>3. BehindIs(g, x, m, data, index, Append(vs, y))
    BY <1>3, <2>2, MountedNext
  <2>4. QED
    BY <2>1, <2>3 DEF BehindIs
<1>8. p = Read(g).block_offset /\ n = Len(Read(g).ht)
  BY <1>6, <1>7
<1>9. QED
  BY <1>6, <1>7, <1>8 DEF Sound
=============================================================================
