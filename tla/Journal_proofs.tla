--------------------------- MODULE Journal_proofs ---------------------------
(***************************************************************************)
(* Proofs about Journal, for any adds, files and blocks, whatever kills,   *)
(* fills the disk or presses control-C: who closes the archive; that the   *)
(* versions an add has found stay; and the types.  Where the disk does not *)
(* fill up (Calm): that a reader finds the versions committed and nothing  *)
(* else, that a mount shows the same, and that the archive implements      *)
(* VersionLog.                                                             *)
(*                                                                         *)
(* For the old versions: what is on the disk Keeps what the add has found  *)
(* (the same cells up to where it writes, and nothing behind them that a   *)
(* reader of those versions would take in), and a block is written only    *)
(* where that is so again after it (PlaceInv, WriteInv).  For the new one: *)
(* every stage of the add says which of its blocks are in their place      *)
(* (StageInv), so that what it leaves is Sound, however it ends.           *)
(***************************************************************************)
EXTENDS Journal, Readers_proofs

(* The add has closed the archive once it is past close(); the handler     *)
(* closes it only while the add still has the handle, and then, on the     *)
(* main thread, never gives that thread back.                              *)
Closed == pc \in {"cut", "after", "done"}

CloseInv ==
  /\ closes \in {0, 1}
  /\ hpc # "none" => pc # "idle"
  /\ (pc # "idle" /\ hpc \in {"none", "waiting", "looking"}) =>
       /\ closes = IF Closed THEN 1 ELSE 0
       /\ (Closed \/ pc = "closing") => handle = "null"

LEMMA CloseInvFirst == Init => CloseInv
BY DEF Init, CloseInv

(* The steps of the add while no handler has interrupted it.               *)
LEMMA Add2Closes ==
  ASSUME CloseInv, Add2, ControlC # "other"
  PROVE  CloseInv'
<1>1. CASE FlushBegin
  BY <1>1 DEF FlushBegin, Flushing, CloseInv, Closed, hvars
<1>2. CASE FlushDiscard
  BY <1>2 DEF FlushDiscard, CloseInv, Closed, hvars
<1>3. CASE FlushEnd
  BY <1>3 DEF FlushEnd, CloseInv, Closed, hvars
<1>4. CASE EndBody \/ EndHeader
  BY <1>4 DEF EndBody, EndHeader, CloseInv, Closed, hvars
<1>5. CASE ReleaseHandle
  BY <1>5 DEF ReleaseHandle, Released, MainRuns, CloseInv, Closed, hvars
<1>6. CASE CloseArchive
  BY <1>6 DEF CloseArchive, MainRuns, CloseInv, Closed, hvars
<1>7. CASE Cut \/ Complete
  BY <1>7 DEF Cut, Complete, CloseInv, Closed, hvars, outvars
<1>8. CASE Exit
  BY <1>8 DEF Exit, Gone, CloseInv, Closed
<1>9. QED
  BY <1>1, <1>2, <1>3, <1>4, <1>5, <1>6, <1>7, <1>8 DEF Add2

LEMMA HandlerCloses == ASSUME CloseInv, Handler PROVE CloseInv'
<1>1. CASE HandlerWait
  BY <1>1 DEF HandlerWait, CloseInv, Closed, outvars
<1>2. CASE HandlerClose
  BY <1>2 DEF HandlerClose, CloseInv, Closed
<1>3. CASE HandlerRollback
  BY <1>3 DEF HandlerRollback, CloseInv, Closed, outvars
<1>4. CASE HandlerExit
  BY <1>4 DEF HandlerExit, Gone, CloseInv, Closed
<1>5. QED
  BY <1>1, <1>2, <1>3, <1>4 DEF Handler

LEMMA CloseInvKept ==
  ASSUME CloseInv, [Next]_vars, ControlC # "other"
  PROVE  CloseInv'
<1>1. CASE Add2
  BY <1>1, Add2Closes
<1>2. CASE Handler
  BY <1>2, HandlerCloses
<1>3. ASSUME NEW p \in Plans, Begin(p) PROVE CloseInv'
  BY <1>3 DEF Begin, CloseInv, Closed
<1>4. CASE Kill
  BY <1>4 DEF Kill, Gone, CloseInv, Closed
<1>5. CASE Trim
  BY <1>5 DEF Trim, CloseInv, Closed, outvars, hvars
<1>6. CASE PressControlC
  BY <1>6 DEF PressControlC, CloseInv, Closed, outvars
<1>7. CASE UNCHANGED vars
  BY <1>7 DEF vars, outvars, hvars, CloseInv, Closed
<1>8. QED
  BY <1>1, <1>2, <1>3, <1>4, <1>5, <1>6, <1>7 DEF Next

(* Where the handler of control-C interrupts the main thread (a signal),   *)
(* one side alone closes the archive: the add, or the handler.             *)
THEOREM ClosedOnceTheorem == ControlC # "other" => (Spec => []ClosedOnce)
<1> SUFFICES ASSUME ControlC # "other" PROVE Spec => []ClosedOnce
  OBVIOUS
<1>1. Init => CloseInv
  BY CloseInvFirst
<1>2. CloseInv /\ [Next]_vars => CloseInv'
  BY CloseInvKept
<1>3. CloseInv => ClosedOnce
  BY DEF CloseInv, ClosedOnce
<1>4. QED
  BY <1>1, <1>2, <1>3, PTL DEF Spec

-----------------------------------------------------------------------------
(* What is in the file after a write, or after it is cut.                  *)

CutAt(d, g, m) ==
  \A k \in Nat \ {0} : CellAt(g, k) = IF k <= m THEN CellAt(d, k) ELSE ZeroCell

LEMMA ZeroIs == Zero = ZeroCell /\ ZeroCell \in CellSet /\ ZeroCell.part = "zero"
BY DEF Zero, ZeroCell, CellSet, BlockSet, CBlock, Block

LEMMA ResizedIs ==
  ASSUME NEW d \in Archives, NEW m \in Nat, NEW g, g = Resized(d, m)
  PROVE  g \in Archives /\ Len(g) = m /\ CutAt(d, g, m)
<1>1. g = [k \in 1..m |-> IF k <= Len(d) THEN d[k] ELSE Zero] /\ Len(d) \in Nat
  BY DEF Resized, Archives
<1>2. \A k \in 1..m : g[k] = CellAt(d, k)
  <2>1. \A k \in 1..m : k <= Len(d) <=> k \in 1..Len(d)
    BY <1>1
  <2>2. QED
    BY <1>1, <2>1, ZeroIs DEF CellAt
<1>3. g \in [1..m -> CellSet]
  BY <1>1, <1>2, CellTypes
<1>4. g \in Seq(CellSet) /\ Len(g) = m
  BY <1>3
<1>5. CutAt(d, g, m)
  <2> SUFFICES ASSUME NEW k \in Nat \ {0}
               PROVE  CellAt(g, k) = IF k <= m THEN CellAt(d, k) ELSE ZeroCell
    BY DEF CutAt
  <2>1. k <= m <=> k \in 1..m
    OBVIOUS
  <2>2. QED
    BY <1>2, <1>4, <2>1 DEF CellAt
<1>6. QED
  BY <1>4, <1>5 DEF Archives

LEMMA PrefixIs ==
  ASSUME NEW d \in Archives, NEW m \in Nat, m <= Len(d), NEW g, g = SubSeq(d, 1, m)
  PROVE  g \in Archives /\ Len(g) = m /\ CutAt(d, g, m)
<1>1. Len(d) \in Nat /\ d \in Seq(CellSet)
  BY DEF Archives
<1>2. g \in Seq(CellSet) /\ Len(g) = m /\ \A k \in 1..m : g[k] = d[k]
  BY <1>1
<1>3. CutAt(d, g, m)
  <2> SUFFICES ASSUME NEW k \in Nat \ {0}
               PROVE  CellAt(g, k) = IF k <= m THEN CellAt(d, k) ELSE ZeroCell
    BY DEF CutAt
  <2>1. k <= m <=> k \in 1..m
    OBVIOUS
  <2>2. k <= m => k \in 1..Len(d)
    BY <1>1
  <2>3. QED
    BY <1>2, <2>1, <2>2 DEF CellAt
<1>4. QED
  BY <1>2, <1>3 DEF Archives

LEMMA CellsIs ==
  ASSUME NEW b \in BlockSet
  PROVE  /\ Cells(b) \in Seq(CellSet) /\ Len(Cells(b)) = 2
         /\ Cells(b)[1] = [block |-> b, part |-> "tag"]
         /\ Cells(b)[2] = [block |-> b, part |-> "body"]
<1>1. PICK t, u : t = [block |-> b, part |-> "tag"] /\ u = [block |-> b, part |-> "body"]
  OBVIOUS
<1>2. t \in CellSet /\ u \in CellSet
  BY <1>1 DEF CellSet
<1>3. Cells(b) = <<t, u>>
  BY <1>1 DEF Cells
<1>4. QED
  BY <1>1, <1>2, <1>3

\* n cells of b at offset o, and all the others as they were.
Written(d, g, o, b, n) ==
  \A k \in Nat \ {0} : CellAt(g, k) = IF o < k /\ k <= o + n THEN Cells(b)[k - o] ELSE CellAt(d, k)

\* A file is never shorter after a write, and reaches to the end of it.
Grown(d, g, m) == Len(g) = IF Len(d) > m THEN Len(d) ELSE m

LEMMA WriteIs ==
  ASSUME NEW d \in Archives, NEW o \in Nat, NEW b \in BlockSet, NEW n \in 0..2,
         NEW g, g = WriteAt(d, o, b, n)
  PROVE  /\ g \in Archives /\ Written(d, g, o, b, n)
         /\ Grown(d, g, o + n)
<1>1. PICK x, y, z : x = Resized(d, o) /\ y = SubSeq(Cells(b), 1, n) /\ z = SubSeq(d, o + n + 1, Len(d))
  OBVIOUS
<1>2. x \in Seq(CellSet) /\ Len(x) = o /\ CutAt(d, x, o)
  BY <1>1, ResizedIs DEF Archives
<1>3. d \in Seq(CellSet) /\ Len(d) \in Nat
  BY DEF Archives
<1>4. y \in Seq(CellSet) /\ Len(y) = n /\ \A k \in 1..n : y[k] = Cells(b)[k]
  <2>1. Cells(b) \in Seq(CellSet) /\ Len(Cells(b)) = 2
    BY CellsIs
  <2>2. PICK c : c = Cells(b)
    OBVIOUS
  <2>3. y \in Seq(CellSet) /\ Len(y) = n /\ \A k \in 1..n : y[k] = c[k]
    BY <1>1, <2>1, <2>2
  <2>4. QED
    BY <2>2, <2>3
<1>5. PICK l \in Nat : (Len(d) > o + n => Len(d) = o + n + l) /\ (~(Len(d) > o + n) => l = 0)
  <2>1. CASE Len(d) > o + n
    <3>1. Len(d) - (o + n) \in Nat /\ Len(d) = o + n + (Len(d) - (o + n))
      BY <1>3, <2>1
    <3>2. QED
      BY <2>1, <3>1
  <2>2. QED
    BY <2>1
<1>6. z \in Seq(CellSet) /\ Len(z) = l /\ \A k \in 1..l : z[k] = d[o + n + k]
  <2>1. PICK p, q : p = o + n + 1 /\ q = Len(d)
    OBVIOUS
  <2>2. z = SubSeq(d, p, q)
    BY <1>1, <2>1
  <2>3. CASE q > o + n
    <3>0. p \in Nat /\ p >= 1 /\ p <= q /\ q \in Nat /\ q = Len(d) /\ z = SubSeq(d, p, q)
      BY <1>1, <1>3, <2>1, <2>3
    <3>a. Len(z) = q - p + 1 /\ \A k \in 1..q - p + 1 : z[k] = d[p + k - 1]
      BY <1>3, <3>0
    <3>b. \A k \in p..q : d[k] \in CellSet
      BY <1>3, <3>0
    <3>c. z \in Seq(CellSet)
      BY <1>3, <3>0, <3>b
    <3>1. z \in Seq(CellSet) /\ Len(z) = q - p + 1 /\ \A k \in 1..q - p + 1 : z[k] = d[p + k - 1]
      BY <3>a, <3>c
    <3>2. q - p + 1 = l /\ \A k \in 1..l : p + k - 1 = o + n + k
      BY <1>3, <1>5, <2>1, <2>3
    <3>3. QED
      BY <3>1, <3>2
  <2>4. CASE ~(q > o + n)
    <3>1. z = <<>> /\ l = 0
      BY <1>3, <1>5, <2>1, <2>2, <2>4
    <3>2. QED
      BY <3>1
  <2>5. QED
    BY <2>3, <2>4
<1>7. g = (x \o y) \o z
  BY <1>1 DEF WriteAt
<1>8. PICK xy : xy = x \o y
  OBVIOUS
<1>9. /\ xy \in Seq(CellSet) /\ Len(xy) = o + n
      /\ \A k \in 1..o : xy[k] = x[k]
      /\ \A k \in o + 1..o + n : xy[k] = y[k - o]
  BY <1>2, <1>4, <1>8
<1>10. /\ g \in Seq(CellSet) /\ Len(g) = o + n + l
       /\ \A k \in 1..o + n : g[k] = xy[k]
       /\ \A k \in o + n + 1..o + n + l : g[k] = z[k - (o + n)]
  BY <1>6, <1>7, <1>8, <1>9
<1>11. Written(d, g, o, b, n)
  <2> SUFFICES ASSUME NEW k \in Nat \ {0}
               PROVE  CellAt(g, k) = IF o < k /\ k <= o + n THEN Cells(b)[k - o] ELSE CellAt(d, k)
    BY DEF Written
  <2>1. CASE k <= o
    <3>1. k \in 1..o /\ k \in 1..o + n /\ k \in 1..Len(g)
      BY <1>10, <2>1
    <3>2. g[k] = x[k]
      BY <1>9, <1>10, <3>1
    <3>3. x[k] = CellAt(d, k)
      BY <1>2, <2>1, <3>1 DEF CutAt, CellAt
    <3>4. QED
      BY <2>1, <3>1, <3>2, <3>3 DEF CellAt
  <2>2. CASE o < k /\ k <= o + n
    <3>1. k \in o + 1..o + n /\ k \in 1..o + n /\ k \in 1..Len(g) /\ k - o \in 1..n
      BY <1>10, <2>2
    <3>2. g[k] = y[k - o]
      BY <1>9, <1>10, <3>1
    <3>3. QED
      BY <1>4, <2>2, <3>1, <3>2 DEF CellAt
  <2>3. CASE o + n < k /\ k <= Len(d)
    <3>1. k \in o + n + 1..o + n + l /\ k \in 1..Len(g) /\ k - (o + n) \in 1..l
          /\ o + n + (k - (o + n)) = k /\ k \in 1..Len(d)
      BY <1>3, <1>5, <1>10, <2>3
    <3>2. g[k] = d[k]
      BY <1>6, <1>10, <3>1
    <3>3. QED
      BY <2>3, <3>1, <3>2 DEF CellAt
  <2>4. CASE o + n < k /\ Len(d) < k
    <3>1. k > o + n + l
      BY <1>3, <1>5, <2>4
    <3>2. ~(k \in 1..Len(g)) /\ ~(k \in 1..Len(d))
      BY <1>3, <1>10, <2>4, <3>1
    <3>3. QED
      BY <2>4, <3>2 DEF CellAt
  <2>5. QED
    BY <1>3, <2>1, <2>2, <2>3, <2>4
<1>12. Grown(d, g, o + n)
  <2>1. CASE Len(d) > o + n
    BY <1>5, <1>10, <2>1 DEF Grown
  <2>2. CASE ~(Len(d) > o + n)
    BY <1>5, <1>10, <2>2 DEF Grown
  <2>3. QED
    BY <2>1, <2>2
<1>13. QED
  BY <1>10, <1>11, <1>12 DEF Archives

-----------------------------------------------------------------------------
(* What a write, or a cut, at or after the append position h leaves: the   *)
(* versions the add has found in f (SameVersion).                          *)

Keeps(f, d, h) == SameUpTo(f, d, h) /\ NoJoin(f, d, h) /\ TailSafe(d, h)

\* Nothing after the cell at h.
Beyond(d, h) == \A k \in Nat : k > h + 1 => CellAt(d, k) = ZeroCell

LEMMA CutKeeps ==
  ASSUME NEW f \in Archives, NEW d \in Archives, NEW g \in Archives, NEW h \in Nat, NEW m \in Nat,
         Keeps(f, d, h), CutAt(d, g, m),
         m >= h \/ \A k \in Nat : k > m => CellAt(f, k) = ZeroCell
  PROVE  Keeps(f, g, h)
<1>z. ZeroCell.part # "tag" /\ ZeroCell.part # "body"
  BY ZeroIs
<1>c. \A k \in Nat \ {0} : CellAt(g, k) = IF k <= m THEN CellAt(d, k) ELSE ZeroCell
  BY DEF CutAt
<1>1. SameUpTo(f, g, h)
  <2> SUFFICES ASSUME NEW k \in 1..h PROVE CellAt(g, k) = CellAt(f, k)
    BY DEF SameUpTo
  <2>1. k \in Nat \ {0} /\ CellAt(d, k) = CellAt(f, k)
    BY DEF Keeps, SameUpTo
  <2>2. CASE k <= m
    BY <1>c, <2>1, <2>2
  <2>3. CASE ~(k <= m)
    <3>1. CellAt(f, k) = ZeroCell
      BY <2>1, <2>3
    <3>2. QED
      BY <1>c, <2>1, <2>3, <3>1
  <2>4. QED
    BY <2>2, <2>3
<1>2. NoJoin(f, g, h)
  <2>1. h + 1 \in Nat \ {0}
    OBVIOUS
  <2>2. CellAt(g, h + 1) = CellAt(d, h + 1) \/ CellAt(g, h + 1) = ZeroCell
    BY <1>c, <2>1
  <2>3. QED
    BY <1>z, <2>2 DEF Keeps, NoJoin
<1>3. \A u \in Nat : IsTag(g, u) => u + 1 <= m /\ IsTag(d, u) /\ CellAt(g, u + 1) = CellAt(d, u + 1)
  <2> SUFFICES ASSUME NEW u \in Nat, IsTag(g, u)
               PROVE  u + 1 <= m /\ IsTag(d, u) /\ CellAt(g, u + 1) = CellAt(d, u + 1)
    OBVIOUS
  <2>1. u + 1 \in Nat \ {0}
    OBVIOUS
  <2>2. u + 1 <= m
    BY <1>c, <1>z, <2>1 DEF IsTag
  <2>3. CellAt(g, u + 1) = CellAt(d, u + 1)
    BY <1>c, <2>1, <2>2
  <2>4. QED
    BY <2>2, <2>3 DEF IsTag
<1>4. \A u \in Nat : u + 2 \in Nat \ {0} /\ CellAt(g, u + 2) = IF u + 2 <= m THEN CellAt(d, u + 2) ELSE ZeroCell
  BY <1>c
<1>5. ASSUME NEW o \in Nat, FirstTag(d, h, o), WholeC(d, o)
      PROVE  TailSafe(g, h)
  <2>1. CASE o + 2 <= m
    <3>1. \A u \in Nat : u <= o + 1 => CellAt(g, u + 1) = CellAt(d, u + 1)
      <4> SUFFICES ASSUME NEW u \in Nat, u <= o + 1 PROVE CellAt(g, u + 1) = CellAt(d, u + 1)
        OBVIOUS
      <4>1. u + 1 \in Nat \ {0} /\ u + 1 <= m
        BY <2>1
      <4>2. QED
        BY <1>c, <4>1
    <3>2. \A u \in h..o - 1 : u \in Nat /\ u <= o + 1
      OBVIOUS
    <3>3. o <= o + 1 /\ CellAt(g, o + 2) = CellAt(d, o + 2)
      BY <1>4, <2>1
    <3>4. CellAt(g, o + 1) = CellAt(d, o + 1)
      BY <3>1, <3>3
    <3>5. FirstTag(g, h, o)
      BY <1>5, <3>1, <3>2, <3>4 DEF FirstTag, IsTag
    <3>6. WholeC(g, o)
      BY <1>5, <3>3, <3>4 DEF WholeC, IsTag, IsWhole
    <3>7. QED
      BY <3>5, <3>6 DEF TailSafe
  <2>2. CASE ~(o + 2 <= m)
    <3> SUFFICES ASSUME NEW u \in Nat, u >= h, IsTag(g, u) PROVE ~IsWhole(g, u)
      BY DEF TailSafe, AllTorn, Torn
    <3>1. IsTag(d, u) /\ u + 1 <= m
      BY <1>3
    <3>2. ~(u \in h..o - 1)
      BY <1>5, <3>1 DEF FirstTag
    <3>3. u >= o
      BY <1>5, <3>2 DEF FirstTag
    <3>4. ~(u + 2 <= m)
      BY <2>2, <3>3
    <3>5. CellAt(g, u + 2) = ZeroCell
      BY <1>4, <3>4
    <3>6. QED
      BY <1>z, <3>5 DEF IsWhole
  <2>3. QED
    BY <2>1, <2>2
<1>6. TailSafe(g, h)
  <2>1. CASE AllTorn(d, h)
    <3> SUFFICES ASSUME NEW u \in Nat, u >= h, IsTag(g, u) PROVE ~IsWhole(g, u)
      BY DEF TailSafe, AllTorn, Torn
    <3>1. IsTag(d, u) /\ CellAt(g, u + 1) = CellAt(d, u + 1)
      BY <1>3
    <3>2. ~IsWhole(d, u)
      BY <2>1, <3>1 DEF AllTorn, Torn
    <3>3. CASE u + 2 <= m
      BY <1>4, <3>1, <3>2, <3>3 DEF IsWhole
    <3>4. CASE ~(u + 2 <= m)
      <4>1. CellAt(g, u + 2) = ZeroCell
        BY <1>4, <3>4
      <4>2. QED
        BY <1>z, <4>1 DEF IsWhole
    <3>5. QED
      BY <3>3, <3>4
  <2>2. QED
    BY <1>5, <2>1 DEF Keeps, TailSafe
<1>7. QED
  BY <1>1, <1>2, <1>6 DEF Keeps

\* A header that is whole survives a cut behind it; one before leaves nothing.
LEMMA CutHeader ==
  ASSUME NEW d, NEW g, NEW h \in Nat, NEW m \in Nat, CutAt(d, g, m)
  PROVE  /\ m >= h + 2 /\ WholeC(d, h) => WholeC(g, h)
         /\ m <= h + 1 => Beyond(g, h)
         /\ Beyond(d, h) => Beyond(g, h)
<1>1. h + 1 \in Nat \ {0} /\ h + 2 \in Nat \ {0}
  OBVIOUS
<1>2. ASSUME m >= h + 2, WholeC(d, h) PROVE WholeC(g, h)
  <2>1. CellAt(g, h + 1) = CellAt(d, h + 1) /\ CellAt(g, h + 2) = CellAt(d, h + 2)
    BY <1>1, <1>2 DEF CutAt
  <2>2. QED
    BY <1>2, <2>1 DEF WholeC, IsTag, IsWhole
<1>3. \A k \in Nat : k > h + 1 => k \in Nat \ {0}
  OBVIOUS
<1>4. m <= h + 1 => Beyond(g, h)
  BY <1>3 DEF Beyond, CutAt
<1>5. Beyond(d, h) => Beyond(g, h)
  BY <1>3 DEF Beyond, CutAt
<1>6. QED
  BY <1>2, <1>4, <1>5

\* A write of no cells changes no cell.
LEMMA WriteNothing ==
  ASSUME NEW f \in Archives, NEW d \in Archives, NEW g \in Archives, NEW h \in Nat,
         Keeps(f, d, h), NEW o \in Nat, NEW b, Written(d, g, o, b, 0)
  PROVE  Keeps(f, g, h) /\ (WholeC(d, h) => WholeC(g, h)) /\ (Beyond(d, h) => Beyond(g, h))
<1>1. \A k \in Nat \ {0} : CellAt(g, k) = CellAt(d, k)
  BY DEF Written
<1>2. \A u \in Nat : u + 1 \in Nat \ {0} /\ u + 2 \in Nat \ {0}
  OBVIOUS
<1>3. \A u \in Nat : /\ CellAt(g, u + 1) = CellAt(d, u + 1)
                     /\ CellAt(g, u + 2) = CellAt(d, u + 2)
  BY <1>1, <1>2
<1>4. \A u \in Nat : (IsTag(g, u) <=> IsTag(d, u)) /\ (IsWhole(g, u) <=> IsWhole(d, u))
  BY <1>3 DEF IsTag, IsWhole
<1>5. \A u \in Nat : (WholeC(g, u) <=> WholeC(d, u)) /\ (Torn(g, u) <=> Torn(d, u))
  BY <1>3, <1>4 DEF WholeC, Torn
<1>6. \A u \in Nat : FirstTag(g, h, u) <=> FirstTag(d, h, u)
  <2>1. \A u \in Nat : \A w \in h..u - 1 : w \in Nat
    OBVIOUS
  <2>2. QED
    BY <1>4, <2>1 DEF FirstTag
<1>7. TailSafe(g, h)
  BY <1>5, <1>6 DEF Keeps, TailSafe, AllTorn
<1>8. SameUpTo(f, g, h)
  <2>1. \A k \in 1..h : k \in Nat \ {0}
    OBVIOUS
  <2>2. QED
    BY <1>1, <2>1 DEF Keeps, SameUpTo
<1>9. NoJoin(f, g, h)
  BY <1>3 DEF Keeps, NoJoin
<1>10. Beyond(d, h) => Beyond(g, h)
  <2>1. \A k \in Nat : k > h + 1 => k \in Nat \ {0}
    OBVIOUS
  <2>2. QED
    BY <1>1, <2>1 DEF Beyond
<1>11. QED
  BY <1>5, <1>7, <1>8, <1>9, <1>10 DEF Keeps

\* The header of a version is first after its append position.
LEMMA HeaderIsSafe ==
  ASSUME NEW g \in Archives, NEW h \in Nat, WholeC(g, h)
  PROVE  TailSafe(g, h)
<1>1. \A u \in h..h - 1 : ~IsTag(g, u)
  OBVIOUS
<1>2. FirstTag(g, h, h)
  BY <1>1 DEF FirstTag, WholeC
<1>3. QED
  BY <1>2 DEF TailSafe

\* The header, written at the append position.
LEMMA WriteHeader ==
  ASSUME NEW f \in Archives, NEW d \in Archives, NEW g \in Archives, NEW h \in Nat,
         Keeps(f, d, h), NEW b \in BlockSet, b.type = "c", Written(d, g, h, b, 2)
  PROVE  Keeps(f, g, h) /\ WholeC(g, h)
<1>1. /\ CellAt(g, h + 1) = [block |-> b, part |-> "tag"]
      /\ CellAt(g, h + 2) = [block |-> b, part |-> "body"]
  <2>1. h + 1 \in Nat \ {0} /\ h < h + 1 /\ h + 1 <= h + 2 /\ (h + 1) - h = 1
    OBVIOUS
  <2>2. h + 2 \in Nat \ {0} /\ h < h + 2 /\ h + 2 <= h + 2 /\ (h + 2) - h = 2
    OBVIOUS
  <2>3. CellAt(g, h + 1) = Cells(b)[1]
    BY <2>1 DEF Written
  <2>4. CellAt(g, h + 2) = Cells(b)[2]
    BY <2>2 DEF Written
  <2>5. QED
    BY <2>3, <2>4, CellsIs
<1>2. WholeC(g, h)
  BY <1>1 DEF WholeC, IsTag, IsWhole
<1>3. SameUpTo(f, g, h)
  <2>1. \A k \in 1..h : k \in Nat \ {0} /\ ~(h < k)
    OBVIOUS
  <2>2. \A k \in 1..h : CellAt(g, k) = CellAt(d, k)
    BY <2>1 DEF Written
  <2>3. QED
    BY <2>2 DEF Keeps, SameUpTo
<1>4. NoJoin(f, g, h)
  BY <1>1 DEF NoJoin
<1>5. TailSafe(g, h)
  BY <1>2, HeaderIsSafe
<1>6. QED
  BY <1>2, <1>3, <1>4, <1>5 DEF Keeps

\* Another block, or part of it, after a header that is whole.
LEMMA WriteAfterHeader ==
  ASSUME NEW f \in Archives, NEW d \in Archives, NEW g \in Archives, NEW h \in Nat,
         Keeps(f, d, h), WholeC(d, h), NEW o \in Nat, o >= h + 2, NEW b, NEW n \in Nat,
         Written(d, g, o, b, n)
  PROVE  Keeps(f, g, h) /\ WholeC(g, h)
<1>1. \A k \in 1..h + 2 : CellAt(g, k) = CellAt(d, k)
  <2>1. \A k \in 1..h + 2 : k \in Nat \ {0} /\ ~(o < k)
    OBVIOUS
  <2>2. QED
    BY <2>1 DEF Written
<1>2. h + 1 \in 1..h + 2 /\ h + 2 \in 1..h + 2 /\ \A k \in 1..h : k \in 1..h + 2
  OBVIOUS
<1>3. CellAt(g, h + 1) = CellAt(d, h + 1) /\ CellAt(g, h + 2) = CellAt(d, h + 2)
  BY <1>1, <1>2
<1>4. WholeC(g, h)
  BY <1>3 DEF WholeC, IsTag, IsWhole
<1>5. SameUpTo(f, g, h)
  BY <1>1, <1>2 DEF Keeps, SameUpTo
<1>6. NoJoin(f, g, h)
  BY <1>3 DEF Keeps, NoJoin
<1>7. QED
  BY <1>4, <1>5, <1>6, HeaderIsSafe DEF Keeps

\* The tag of a block, where nothing whole can follow.
LEMMA WriteTag ==
  ASSUME NEW f \in Archives, NEW d \in Archives, NEW g \in Archives, NEW h \in Nat,
         Keeps(f, d, h), Beyond(d, h), NEW o \in Nat, o >= h, NEW b \in BlockSet,
         Written(d, g, o, b, 1)
  PROVE  Keeps(f, g, h)
<1>z. ZeroCell.part # "tag" /\ ZeroCell.part # "body"
  BY ZeroIs
<1>1. CellAt(g, o + 1) = [block |-> b, part |-> "tag"]
  <2>1. o + 1 \in Nat \ {0} /\ o < o + 1 /\ o + 1 <= o + 1 /\ (o + 1) - o = 1
    OBVIOUS
  <2>2. CellAt(g, o + 1) = Cells(b)[1]
    BY <2>1 DEF Written
  <2>3. QED
    BY <2>2, CellsIs
<1>2. \A k \in Nat \ {0} : k # o + 1 => CellAt(g, k) = CellAt(d, k)
  <2>1. \A k \in Nat \ {0} : k # o + 1 => ~(o < k /\ k <= o + 1)
    OBVIOUS
  <2>2. QED
    BY <2>1 DEF Written
<1>3. SameUpTo(f, g, h)
  <2>1. \A k \in 1..h : k \in Nat \ {0} /\ k # o + 1
    OBVIOUS
  <2>2. QED
    BY <1>2, <2>1 DEF Keeps, SameUpTo
<1>4. NoJoin(f, g, h)
  <2>1. CASE o = h
    BY <1>1, <2>1 DEF NoJoin
  <2>2. CASE o # h
    <3>1. h + 1 \in Nat \ {0} /\ h + 1 # o + 1
      BY <2>2
    <3>2. QED
      BY <1>2, <3>1 DEF Keeps, NoJoin
  <2>3. QED
    BY <2>1, <2>2
<1>5. AllTorn(g, h)
  <2> SUFFICES ASSUME NEW u \in Nat, u >= h PROVE ~IsWhole(g, u)
    BY DEF AllTorn, Torn
  <2>1. CellAt(g, u + 2).part # "body"
    <3>1. u + 2 \in Nat \ {0} /\ u + 2 \in Nat /\ u + 2 > h + 1
      OBVIOUS
    <3>2. CASE u + 2 = o + 1
      BY <1>1, <3>2
    <3>3. CASE u + 2 # o + 1
      <4>1. CellAt(g, u + 2) = CellAt(d, u + 2)
        BY <1>2, <3>1, <3>3
      <4>2. CellAt(d, u + 2) = ZeroCell
        BY <3>1 DEF Beyond
      <4>3. QED
        BY <1>z, <4>1, <4>2
    <3>4. QED
      BY <3>2, <3>3
  <2>2. QED
    BY <2>1 DEF IsWhole
<1>6. QED
  BY <1>3, <1>4, <1>5 DEF Keeps, TailSafe

LEMMA ShortIs ==
  ASSUME NEW d \in Archives, NEW h \in Nat
  PROVE  /\ Len(d) <= h + 1 => Beyond(d, h)
         /\ WholeC(d, h) => Len(d) >= h + 2
<1>0. Len(d) \in Nat
  BY DEF Archives
<1>1. ASSUME Len(d) <= h + 1 PROVE Beyond(d, h)
  <2>1. \A k \in Nat : k > h + 1 => ~(k \in 1..Len(d))
    BY <1>0, <1>1
  <2>2. QED
    BY <2>1 DEF Beyond, CellAt
<1>2. ASSUME WholeC(d, h) PROVE Len(d) >= h + 2
  <2>1. CellAt(d, h + 2).part = "body"
    BY <1>2 DEF WholeC, IsWhole
  <2>2. h + 2 \in 1..Len(d)
    BY <2>1, ZeroIs DEF CellAt
  <2>3. QED
    BY <1>0, <2>2
<1>3. QED
  BY <1>1, <1>2

\* What a reader finds between adds, and what it finds all along.
LEMMA KeepsVersions ==
  ASSUME NEW f \in Archives, NEW d \in Archives, Keeps(f, d, Read(f).block_offset)
  PROVE  /\ \A v \in 1..Len(Read(f).ver) : Version(d, v) = Version(f, v)
         /\ Len(Read(f).ver) <= Len(Read(d).ver)
<1>1. SameUpTo(f, d, Read(f).block_offset) /\ NoJoin(f, d, Read(f).block_offset)
      /\ TailSafe(d, Read(f).block_offset)
  BY DEF Keeps
<1>2. ASSUME NEW v \in 1..Len(Read(f).ver) PROVE Version(d, v) = Version(f, v)
  <2>1. v \in Nat /\ v <= Len(Read(f).ver)
    BY EndIsSafe, ReaderTypes
  <2>2. QED
    BY <1>1, <2>1, SameVersion
<1>3. Len(Read(f).ver) <= Len(Read(d).ver)
  BY <1>1, NotFewer
<1>4. QED
  BY <1>2, <1>3

\* An archive cut where read_archive would append.
LEMMA TrimKeeps ==
  ASSUME NEW f \in Archives, NEW g, Read(f).block_offset < Len(f),
         g = SubSeq(f, 1, Read(f).block_offset)
  PROVE  g \in Archives /\ Keeps(f, g, Read(f).block_offset)
<1>1. PICK h : h = Read(f).block_offset
  OBVIOUS
<1>2. h \in Nat /\ TailSafe(f, h) /\ Len(f) \in Nat
  BY <1>1, EndIsSafe, ReaderTypes DEF Archives
<1>3. g \in Archives /\ CutAt(f, g, h)
  <2>1. h <= Len(f) /\ g = SubSeq(f, 1, h)
    BY <1>1, <1>2
  <2>2. QED
    BY <1>2, <2>1, PrefixIs
<1>4. Keeps(f, f, h)
  BY <1>2 DEF Keeps, SameUpTo, NoJoin
<1>5. Keeps(f, g, h)
  BY <1>2, <1>3, <1>4, CutKeeps
<1>6. QED
  BY <1>1, <1>3, <1>5

-----------------------------------------------------------------------------
(* Types.                                                                  *)

FileInv ==
  /\ disk \in Archives /\ before \in Archives /\ left \in Seq(BlockSet)
  /\ plan \in Plans /\ Len(left) <= 1 + 2 * plan.data + plan.index
  /\ date \in 0..MaxAdds
  /\ pos \in Nat /\ header_pos \in Nat /\ cdatasize \in Nat
  /\ archive_end \in Nat /\ archive_size \in Nat
  /\ busy => pc \in {"body", "header"} /\ left # <<>>

FlagInv ==
  /\ pc \in {"idle", "body", "header", "close", "closing", "cut", "after", "done"}
  /\ hpc \in {"none", "waiting", "looking", "rolling", "saying"}
  /\ full \in BOOLEAN /\ busy \in BOOLEAN /\ complete \in BOOLEAN /\ stop \in BOOLEAN
  /\ committed \in BOOLEAN
  /\ handle \in {"out", "null"} /\ banner \in {"none", "kept", "back"}
  /\ hpc # "none" => pc # "idle" /\ stop

\* One version more at most per add, and two closes at most.
CountInv ==
  /\ versions \in Seq([1..Names -> Seq(Nat)]) /\ Len(versions) <= date
  /\ pc # "idle" => Len(versions) < date
  /\ closes \in 0..2
  /\ pc # "idle" => closes <= (IF Closed THEN 1 ELSE 0)
                              + (IF hpc \in {"rolling", "saying"} THEN 1 ELSE 0)

TypeInv == FileInv /\ FlagInv /\ CountInv

LEMMA FlagInvKept == ASSUME FlagInv, [Next]_vars PROVE FlagInv'
<1>1. CASE FlushBegin
  BY <1>1 DEF FlagInv, FlushBegin, hvars
<1>2. CASE FlushDiscard
  BY <1>2 DEF FlagInv, FlushDiscard, hvars
<1>3. CASE FlushEnd
  <2>1. committed' \in BOOLEAN
    BY <1>3 DEF FlushEnd, Flushed
  <2>2. full' \in BOOLEAN
    BY <1>3 DEF FlushEnd, FlagInv
  <2>3. QED
    BY <1>3, <2>1, <2>2 DEF FlagInv, FlushEnd, hvars
<1>4. CASE EndBody
  BY <1>4 DEF FlagInv, EndBody, hvars
<1>5. CASE EndHeader
  BY <1>5 DEF FlagInv, EndHeader, hvars
<1>6. CASE ReleaseHandle
  BY <1>6 DEF FlagInv, ReleaseHandle, Released, hvars
<1>7. CASE CloseArchive
  BY <1>7 DEF FlagInv, CloseArchive, hvars
<1>8. CASE Cut
  BY <1>8 DEF FlagInv, Cut, hvars, outvars
<1>9. CASE Complete
  BY <1>9 DEF FlagInv, Complete, hvars, outvars
<1>10. CASE Exit
  BY <1>10 DEF FlagInv, Exit, Gone
<1>11. CASE Kill
  BY <1>11 DEF FlagInv, Kill, Gone
<1>12. CASE Trim
  BY <1>12 DEF FlagInv, Trim, hvars, outvars
<1>13. CASE PressControlC
  BY <1>13 DEF FlagInv, PressControlC, outvars
<1>14. CASE HandlerWait
  BY <1>14 DEF FlagInv, HandlerWait, outvars
<1>15. CASE HandlerClose
  BY <1>15 DEF FlagInv, HandlerClose
<1>16. CASE HandlerRollback
  BY <1>16 DEF FlagInv, HandlerRollback, outvars
<1>17. CASE HandlerExit
  BY <1>17 DEF FlagInv, HandlerExit, Gone
<1>18. ASSUME NEW p \in Plans, Begin(p) PROVE FlagInv'
  BY <1>18 DEF FlagInv, Begin
<1>19. CASE UNCHANGED vars
  BY <1>19 DEF FlagInv, vars, hvars, outvars
<1>20. QED
  BY <1>1, <1>2, <1>3, <1>4, <1>5, <1>6, <1>7, <1>8, <1>9, <1>10, <1>11, <1>12, <1>13, <1>14,
     <1>15, <1>16, <1>17, <1>18, <1>19 DEF Next, Add2, Handler

LEMMA PlanIs ==
  ASSUME NEW p \in Plans
  PROVE  p.data \in Nat /\ p.index \in Nat /\ p.data \in 0..MaxData /\ p.index \in 0..Names
BY JournalAssumption, NamesAssumption DEF Plans

LEMMA IntendedIs ==
  ASSUME FileInv, CountInv
  PROVE  Intended \in [1..Names -> Seq(Nat)]
<1>1. date \in Nat /\ plan.data \in Nat
  BY PlanIs, JournalAssumption DEF FileInv
<1>2. NewContent(date, plan) \in Seq(Nat)
  <2>1. \A k \in 1..plan.data : Sha(date, k) \in Nat
    BY <1>1 DEF Sha
  <2>2. NewContent(date, plan) \in [1..plan.data -> Nat]
    BY <2>1 DEF NewContent
  <2>3. QED
    BY <1>1, <2>2
<1>3. Previous \in [1..Names -> Seq(Nat)]
  <2>1. CASE versions = <<>>
    <3>1. NoFile \in Seq(Nat)
      BY DEF NoFile
    <3>2. QED
      BY <2>1, <3>1 DEF Previous
  <2>2. CASE versions # <<>>
    <3>1. versions \in Seq([1..Names -> Seq(Nat)])
      BY DEF CountInv
    <3>2. Len(versions) \in 1..Len(versions)
      BY <2>2, <3>1
    <3>3. versions[Len(versions)] \in [1..Names -> Seq(Nat)]
      BY <3>1, <3>2
    <3>4. QED
      BY <2>2, <3>3 DEF Previous
  <2>3. QED
    BY <2>1, <2>2
<1>4. \A n \in 1..Names : (IF n <= plan.index THEN NewContent(date, plan) ELSE Previous[n]) \in Seq(Nat)
  BY <1>2, <1>3
<1>5. QED
  BY <1>4 DEF Intended

LEMMA GoneCounts ==
  ASSUME FileInv, CountInv, pc # "idle", NEW stored, NEW said, Gone(stored, said)
  PROVE  CountInv'
<1>1. versions \in Seq([1..Names -> Seq(Nat)]) /\ Len(versions) < date /\ date \in Nat
  BY JournalAssumption DEF CountInv, FileInv
<1>2. Append(versions, Intended) \in Seq([1..Names -> Seq(Nat)])
      /\ Len(Append(versions, Intended)) = Len(versions) + 1
  BY <1>1, IntendedIs
<1>3. versions' \in Seq([1..Names -> Seq(Nat)]) /\ Len(versions') <= date
  BY <1>1, <1>2 DEF Gone
<1>4. date' = date /\ closes' = closes /\ pc' = "idle"
  BY DEF Gone
<1>5. QED
  BY <1>3, <1>4 DEF CountInv

LEMMA CountInvKept == ASSUME TypeInv, [Next]_vars PROVE CountInv'
<1> USE DEF TypeInv
<1>1. CASE FlushBegin
  BY <1>1 DEF CountInv, Closed, FlushBegin, hvars, addvars
<1>2. CASE FlushDiscard
  BY <1>2 DEF CountInv, Closed, FlushDiscard, hvars, addvars
<1>3. CASE FlushEnd
  BY <1>3 DEF CountInv, Closed, FlushEnd, hvars, addvars
<1>4. CASE EndBody
  BY <1>4 DEF CountInv, Closed, EndBody, hvars, addvars
<1>5. CASE EndHeader
  BY <1>5 DEF CountInv, Closed, EndHeader, hvars, addvars
<1>6. CASE ReleaseHandle
  BY <1>6 DEF CountInv, Closed, ReleaseHandle, hvars, addvars
<1>7. CASE CloseArchive
  BY <1>7 DEF CountInv, Closed, CloseArchive, hvars, addvars
<1>8. CASE Cut
  BY <1>8 DEF CountInv, Closed, Cut, hvars, outvars, addvars
<1>9. CASE Complete
  BY <1>9 DEF CountInv, Closed, Complete, hvars, outvars, addvars
<1>10. CASE Exit
  <2>1. pc # "idle" /\ \E x, y : Gone(x, y)
    BY <1>10 DEF Exit
  <2>2. QED
    BY <2>1, GoneCounts
<1>11. CASE Kill
  <2>1. pc # "idle" /\ \E x, y : Gone(x, y)
    BY <1>11 DEF Kill
  <2>2. QED
    BY <2>1, GoneCounts
<1>12. CASE Trim
  BY <1>12 DEF CountInv, Closed, Trim, hvars, outvars, addvars
<1>13. CASE PressControlC
  BY <1>13 DEF CountInv, Closed, PressControlC, outvars, addvars
<1>14. CASE HandlerWait
  BY <1>14 DEF CountInv, Closed, HandlerWait, outvars, addvars
<1>15. CASE HandlerClose
  BY <1>15 DEF CountInv, FlagInv, Closed, HandlerClose, addvars
<1>16. CASE HandlerRollback
  BY <1>16 DEF CountInv, Closed, HandlerRollback, outvars, addvars
<1>17. CASE HandlerExit
  <2>1. pc # "idle" /\ \E x, y : Gone(x, y)
    BY <1>17 DEF HandlerExit, FlagInv
  <2>2. QED
    BY <2>1, GoneCounts
<1>18. ASSUME NEW p \in Plans, Begin(p) PROVE CountInv'
  <2>1. Len(versions) \in Nat /\ Len(versions) <= date /\ date \in Nat
    BY JournalAssumption DEF CountInv, FileInv
  <2>2. versions' = versions /\ date' = date + 1 /\ closes' = 0
    BY <1>18 DEF Begin
  <2>3. Len(versions) <= date + 1 /\ Len(versions) < date + 1
    BY <2>1
  <2>4. pc' = "body" /\ hpc' = "none"
    BY <1>18 DEF Begin
  <2>5. QED
    BY <2>2, <2>3, <2>4 DEF CountInv, Closed
<1>19. CASE UNCHANGED vars
  BY <1>19 DEF CountInv, Closed, vars, hvars, outvars, addvars
<1>20. QED
  BY <1>1, <1>2, <1>3, <1>4, <1>5, <1>6, <1>7, <1>8, <1>9, <1>10, <1>11, <1>12, <1>13, <1>14,
     <1>15, <1>16, <1>17, <1>18, <1>19 DEF Next, Add2, Handler

-----------------------------------------------------------------------------
(* The blocks of an add, and the files.                                    *)

\* A sequence that a header begins, if anything does.
HeaderFirst(s) == \A k \in 2..Len(s) : s[k].type # "c"

LEMMA LongerBlocks ==
  ASSUME NEW x \in Seq(BlockSet), x # <<>>, HeaderFirst(x), NEW n \in Nat,
         NEW y \in [1..n -> BlockSet], \A k \in 1..n : y[k].type # "c"
  PROVE  /\ x \o y \in Seq(BlockSet) /\ x \o y # <<>> /\ HeaderFirst(x \o y)
         /\ Len(x \o y) = Len(x) + n /\ (x \o y)[1] = x[1]
<1>1. y \in Seq(BlockSet) /\ Len(y) = n /\ Len(x) \in Nat /\ Len(x) >= 1
  BY DEF HeaderFirst
<1>2. PICK z : z = x \o y
  OBVIOUS
<1>3. /\ z \in Seq(BlockSet) /\ Len(z) = Len(x) + n
      /\ \A k \in 1..Len(x) : z[k] = x[k]
      /\ \A k \in Len(x) + 1..Len(x) + n : z[k] = y[k - Len(x)]
  <2>1. z \in Seq(BlockSet)
    BY <1>1, <1>2
  <2>2. PICK m \in Nat : m = Len(x)
    BY <1>1
  <2>3. Len(z) = m + n
    <3>1. PICK w : w = y
      OBVIOUS
    <3>2. w \in Seq(BlockSet) /\ Len(w) = n
      BY <1>1, <3>1
    <3>3. Len(x \o w) = Len(x) + Len(w)
      BY <3>2
    <3>4. QED
      BY <1>2, <2>2, <3>1, <3>2, <3>3
  <2>4. \A k \in 1..m : z[k] = x[k]
    BY <1>1, <1>2, <2>2
  <2>5. \A k \in m + 1..m + n : z[k] = y[k - m]
    <3> SUFFICES ASSUME NEW k \in m + 1..m + n PROVE z[k] = y[k - m]
      OBVIOUS
    <3>1. k \in Len(x) + 1..Len(x) + Len(y) /\ k - m = k - Len(x)
      BY <1>1, <2>2
    <3>2. (x \o y)[k] = y[k - Len(x)]
      BY <1>1, <3>1
    <3>3. QED
      BY <1>2, <3>1, <3>2
  <2>6. QED
    BY <2>1, <2>2, <2>3, <2>4, <2>5
<1>4. HeaderFirst(z)
  <2> SUFFICES ASSUME NEW k \in 2..Len(z) PROVE z[k].type # "c"
    BY DEF HeaderFirst
  <2>1. CASE k <= Len(x)
    <3>1. k \in 2..Len(x) /\ k \in 1..Len(x)
      BY <1>1, <2>1
    <3>2. QED
      BY <1>3, <3>1 DEF HeaderFirst
  <2>2. CASE k > Len(x)
    <3>1. k \in Len(x) + 1..Len(x) + n /\ k - Len(x) \in 1..n
      BY <1>1, <1>3, <2>2
    <3>2. QED
      BY <1>3, <3>1
  <2>3. QED
    BY <1>1, <2>1, <2>2
<1>5. z # <<>> /\ z[1] = x[1]
  BY <1>1, <1>3
<1>6. QED
  BY <1>2, <1>3, <1>4, <1>5

LEMMA BlocksAre ==
  ASSUME NEW d \in Nat, NEW p \in Plans, NEW htsize \in Nat \ {0}, NEW s, s = BlocksOf(d, p, htsize)
  PROVE  /\ s \in Seq(BlockSet) /\ s # <<>> /\ HeaderFirst(s) /\ s[1].type = "c"
         /\ Len(s) = 1 + 2 * p.data + p.index
<1>0. PICK data, index : data = p.data /\ index = p.index
  OBVIOUS
<1>1. data \in Nat /\ index \in Nat
  BY <1>0, PlanIs
<1> DEFINE A == <<CBlock(d, htsize, Incomplete)>>
           D == [k \in 1..data |-> DBlock(d, htsize + k - 1, Sha(d, k))]
           H == [k \in 1..data |-> HBlock(d, htsize + k - 1, Sha(d, k))]
           I == [k \in 1..index |-> IBlock(d, k, k, [j \in 1..data |-> htsize + j - 1])]
<1>2. CBlock(d, htsize, Incomplete) \in BlockSet /\ CBlock(d, htsize, Incomplete).type = "c"
  BY DEF CBlock, Block, BlockSet
<1>3. A \in Seq(BlockSet) /\ Len(A) = 1 /\ A # <<>> /\ HeaderFirst(A) /\ A[1].type = "c"
  BY <1>2 DEF HeaderFirst
<1>4. \A k \in 1..data : htsize + k - 1 \in Nat /\ Sha(d, k) \in Nat
  BY <1>1 DEF Sha
<1>5. D \in [1..data -> BlockSet] /\ \A k \in 1..data : D[k].type # "c"
  <2>1. \A n \in Nat, m \in Nat : DBlock(d, n, m) \in BlockSet /\ DBlock(d, n, m).type # "c"
    BY DEF DBlock, Block, BlockSet
  <2>2. QED
    BY <1>4, <2>1
<1>6. H \in [1..data -> BlockSet] /\ \A k \in 1..data : H[k].type # "c"
  <2>1. \A n \in Nat, m \in Nat : HBlock(d, n, m) \in BlockSet /\ HBlock(d, n, m).type # "c"
    BY DEF HBlock, Block, BlockSet
  <2>2. QED
    BY <1>4, <2>1
<1>7. I \in [1..index -> BlockSet] /\ \A k \in 1..index : I[k].type # "c"
  <2>1. \A k \in Nat : \A t \in Seq(Nat) : IBlock(d, k, k, t) \in BlockSet /\ IBlock(d, k, k, t).type # "c"
    BY DEF IBlock, Block, BlockSet
  <2>2. PICK t : t = [j \in 1..data |-> htsize + j - 1]
    OBVIOUS
  <2>3. t \in Seq(Nat)
    BY <1>1, <1>4, <2>2
  <2>4. \A k \in 1..index : I[k] = IBlock(d, k, k, t) /\ k \in Nat
    BY <2>2
  <2>5. \A k \in 1..index : I[k] \in BlockSet /\ I[k].type # "c"
    <3> HIDE DEF I
    <3>1. QED
      BY <2>1, <2>3, <2>4
  <2>6. QED
    BY <2>5
<1>8. s = ((A \o D) \o H) \o I
  BY <1>0 DEF BlocksOf
<1> HIDE DEF A, D, H, I
<1>9. PICK x : x = A \o D
  OBVIOUS
<1>10. x \in Seq(BlockSet) /\ x # <<>> /\ HeaderFirst(x) /\ Len(x) = 1 + data /\ x[1].type = "c"
  BY <1>1, <1>3, <1>5, <1>9, LongerBlocks
<1>11. PICK y : y = x \o H
  OBVIOUS
<1>12. y \in Seq(BlockSet) /\ y # <<>> /\ HeaderFirst(y) /\ Len(y) = 1 + data + data /\ y[1].type = "c"
  BY <1>1, <1>6, <1>10, <1>11, LongerBlocks
<1>13. s = y \o I
  BY <1>8, <1>9, <1>11
<1>14. s \in Seq(BlockSet) /\ s # <<>> /\ HeaderFirst(s) /\ Len(s) = 1 + data + data + index
       /\ s[1].type = "c"
  <2>1. s \in Seq(BlockSet) /\ s # <<>> /\ HeaderFirst(s) /\ Len(s) = Len(y) + index /\ s[1] = y[1]
    BY <1>1, <1>7, <1>12, <1>13, LongerBlocks
  <2>2. QED
    BY <1>12, <2>1
<1>15. QED
  BY <1>0, <1>1, <1>14

LEMMA ReadIs ==
  ASSUME NEW d \in Archives
  PROVE  AppendPosition(Read(d)) \in Nat /\ HtSize(Read(d)) \in Nat \ {0}
<1>1. Read(d) \in Readers
  BY EndIsSafe
<1>2. Read(d).ht \in Seq(Nat) /\ Read(d).block_offset \in Nat
  BY <1>1 DEF Readers
<1>3. QED
  BY <1>2 DEF AppendPosition, HtSize

LEMMA HeadTail ==
  ASSUME NEW s \in Seq(BlockSet), s # <<>>
  PROVE  /\ Head(s) \in BlockSet /\ Head(s) = s[1] /\ Tail(s) \in Seq(BlockSet)
         /\ Len(s) \in Nat /\ Len(s) >= 1 /\ Len(Tail(s)) = Len(s) - 1
         /\ HeaderFirst(s) => HeaderFirst(Tail(s)) /\ (Tail(s) # <<>> => Head(Tail(s)).type # "c")
<1>1. /\ Head(s) \in BlockSet /\ Head(s) = s[1] /\ Tail(s) \in Seq(BlockSet)
      /\ Len(s) \in Nat /\ Len(s) >= 1 /\ Len(Tail(s)) = Len(s) - 1
      /\ \A k \in 1..Len(s) - 1 : Tail(s)[k] = s[k + 1]
  OBVIOUS
<1>2. ASSUME HeaderFirst(s) PROVE \A k \in 1..Len(s) - 1 : Tail(s)[k].type # "c"
  <2>1. \A k \in 1..Len(s) - 1 : k + 1 \in 2..Len(s)
    BY <1>1
  <2>2. QED
    BY <1>1, <1>2, <2>1 DEF HeaderFirst
<1>3. ASSUME HeaderFirst(s) PROVE HeaderFirst(Tail(s))
  <2>1. \A k \in 2..Len(Tail(s)) : k \in 1..Len(s) - 1
    BY <1>1
  <2>2. QED
    BY <1>2, <1>3, <2>1 DEF HeaderFirst
<1>4. ASSUME HeaderFirst(s), Tail(s) # <<>> PROVE Head(Tail(s)).type # "c"
  <2>1. PICK t : t = Tail(s)
    OBVIOUS
  <2>2. t \in Seq(BlockSet) /\ t # <<>> /\ Len(t) = Len(s) - 1
    BY <1>1, <1>4, <2>1
  <2>3. Head(t) = t[1] /\ 1 \in 1..Len(s) - 1
    BY <1>1, <2>2
  <2>4. QED
    BY <1>2, <1>4, <2>1, <2>3
<1>5. QED
  BY <1>1, <1>3, <1>4

LEMMA CutIs ==
  ASSUME FileInv
  PROVE  /\ FinalEnd \in Nat
         /\ CutTo \in Archives
         /\ CutTo = disk \/ CutAt(disk, CutTo, FinalEnd)
<1>1. FinalEnd \in Nat /\ disk \in Archives
  BY DEF FileInv, FinalEnd
<1>2. Resized(disk, FinalEnd) \in Archives /\ CutAt(disk, Resized(disk, FinalEnd), FinalEnd)
  BY <1>1, ResizedIs
<1>3. QED
  BY <1>1, <1>2 DEF CutTo

LEMMA RolledBackIs ==
  ASSUME FileInv
  PROVE  /\ Len(before) \in Nat /\ Len(disk) \in Nat
         /\ RolledBack \in Archives
         /\ RolledBack = disk \/ CutAt(disk, RolledBack, Len(before))
<1>1. Len(before) \in Nat /\ Len(disk) \in Nat /\ disk \in Archives
  BY DEF FileInv, Archives
<1>2. ASSUME Len(disk) > Len(before)
      PROVE  SubSeq(disk, 1, Len(before)) \in Archives
             /\ CutAt(disk, SubSeq(disk, 1, Len(before)), Len(before))
  <2>1. PICK m \in Nat : m = Len(before)
    BY <1>1
  <2>2. m <= Len(disk)
    BY <1>1, <1>2, <2>1
  <2>3. PICK g : g = SubSeq(disk, 1, m)
    OBVIOUS
  <2>4. g \in Archives /\ CutAt(disk, g, m)
    BY <1>1, <2>2, <2>3, PrefixIs
  <2>5. QED
    BY <2>1, <2>3, <2>4
<1>3. QED
  BY <1>1, <1>2 DEF RolledBack

LEMMA FlushedIs ==
  ASSUME FileInv, busy, NEW n \in 0..2, Flushed(n)
  PROVE  /\ Head(left) \in BlockSet /\ Tail(left) \in Seq(BlockSet) /\ left' = Tail(left)
         /\ Len(left) \in Nat /\ Len(left') = Len(left) - 1
         /\ pos' = pos + n /\ pos' \in Nat /\ cdatasize' \in Nat
         /\ disk' \in Archives /\ Written(disk, disk', pos, Head(left), n)
         /\ Len(disk') = Len(disk) \/ Len(disk') = pos + n
         /\ Len(disk') >= Len(disk) /\ Len(disk') >= pos'
<1>1. left \in Seq(BlockSet) /\ left # <<>> /\ disk \in Archives /\ pos \in Nat /\ cdatasize \in Nat
  BY DEF FileInv
<1>2. Head(left) \in BlockSet /\ Tail(left) \in Seq(BlockSet) /\ Len(left) \in Nat
      /\ Len(Tail(left)) = Len(left) - 1
  BY <1>1, HeadTail
<1>3. disk' = WriteAt(disk, pos, Head(left), n) /\ pos' = pos + n /\ left' = Tail(left)
  BY DEF Flushed
<1>4. PICK b, g, d, o : b = Head(left) /\ g = disk' /\ d = disk /\ o = pos
  OBVIOUS
<1>5. /\ g \in Archives /\ Written(d, g, o, b, n)
      /\ Len(g) = Len(d) \/ Len(g) = o + n
      /\ Len(g) >= Len(d) /\ Len(g) >= o + n
  <2>1. d \in Archives /\ o \in Nat /\ b \in BlockSet /\ g = WriteAt(d, o, b, n)
    BY <1>1, <1>2, <1>3, <1>4
  <2>2. g \in Archives /\ Written(d, g, o, b, n)
    BY <2>1, WriteIs
  <2>3. Grown(d, g, o + n)
    BY <2>1, WriteIs
  <2>4. Len(d) \in Nat
    BY <2>1 DEF Archives
  <2>5. QED
    BY <2>1, <2>2, <2>3, <2>4 DEF Grown
<1>6. pos' \in Nat /\ cdatasize' \in Nat
  BY <1>1, <1>3 DEF Flushed
<1>7. QED
  BY <1>2, <1>3, <1>4, <1>5, <1>6

LEMMA FileInvKept == ASSUME TypeInv, [Next]_vars PROVE FileInv'
<1> USE DEF TypeInv
<1>p. plan.data \in Nat /\ plan.index \in Nat
  BY PlanIs DEF FileInv
<1>1. CASE FlushBegin
  BY <1>1 DEF FileInv, FlushBegin, Flushing, addvars
<1>2. CASE FlushDiscard
  <2>1. left \in Seq(BlockSet) /\ left # <<>> /\ left' = Tail(left) /\ ~busy'
    BY <1>2 DEF FileInv, FlushDiscard, Flushing
  <2>2. Len(left) \in Nat /\ left' \in Seq(BlockSet) /\ Len(left') = Len(left) - 1
    BY <2>1, HeadTail
  <2>3. Len(left') <= 1 + 2 * plan.data + plan.index
    BY <1>p, <2>2 DEF FileInv
  <2>4. QED
    BY <1>2, <2>1, <2>2, <2>3 DEF FileInv, FlushDiscard, addvars
<1>3. CASE FlushEnd
  <2>1. PICK n \in 0..2 : Flushed(n)
    BY <1>3 DEF FlushEnd
  <2>2. busy
    BY <1>3 DEF FlushEnd
  <2>3. /\ Tail(left) \in Seq(BlockSet) /\ left' = Tail(left)
        /\ Len(left) \in Nat /\ Len(left') = Len(left) - 1
        /\ pos' \in Nat /\ cdatasize' \in Nat /\ disk' \in Archives
    BY <2>1, <2>2, FlushedIs
  <2>4. Len(left') <= 1 + 2 * plan.data + plan.index
    BY <1>p, <2>3 DEF FileInv
  <2>5. QED
    BY <1>3, <2>3, <2>4 DEF FileInv, FlushEnd, addvars
<1>4. CASE EndBody
  <2>1. HtSize(Read(before)) \in Nat
    BY ReadIs DEF FileInv
  <2>2. date \in Nat /\ cdatasize \in Nat
    BY JournalAssumption DEF FileInv
  <2>3. CBlock(date, HtSize(Read(before)), cdatasize) \in BlockSet
    BY <2>1, <2>2 DEF CBlock, Block, BlockSet
  <2>4. left' = <<CBlock(date, HtSize(Read(before)), cdatasize)>>
    BY <1>4 DEF EndBody
  <2>5. left' \in Seq(BlockSet) /\ Len(left') = 1
    BY <2>3, <2>4
  <2>6. Len(left') <= 1 + 2 * plan.data + plan.index
    BY <1>p, <2>5
  <2>7. QED
    BY <1>4, <2>5, <2>6 DEF FileInv, EndBody, addvars
<1>5. CASE EndHeader
  <2>1. Len(disk) \in Nat
    BY DEF FileInv, Archives
  <2>2. QED
    BY <1>5, <2>1 DEF FileInv, EndHeader, addvars
<1>6. CASE ReleaseHandle
  BY <1>6 DEF FileInv, ReleaseHandle, addvars
<1>7. CASE CloseArchive
  BY <1>7 DEF FileInv, CloseArchive, addvars
<1>8. CASE Cut
  <2>1. disk' \in Archives
    BY <1>8, CutIs DEF Cut
  <2>2. QED
    BY <1>8, <2>1 DEF FileInv, Cut, outvars, addvars
<1>9. CASE Complete
  BY <1>9 DEF FileInv, Complete, outvars, addvars
<1>e. <<>> \in Seq(BlockSet) /\ Len(<<>>) <= 1 + 2 * plan.data + plan.index
  BY <1>p
<1>10. CASE Exit
  BY <1>10, <1>e DEF FileInv, Exit, Gone
<1>11. CASE Kill
  <2>1. disk' \in Archives
    <3>1. CASE disk' = disk
      BY <3>1 DEF FileInv
    <3>2. CASE busy /\ disk' = WriteAt(disk, pos, Head(left), 1)
      <4>1. Head(left) \in BlockSet /\ disk \in Archives /\ pos \in Nat
        BY <3>2, HeadTail DEF FileInv
      <4>2. PICK g, b : g = disk' /\ b = Head(left)
        OBVIOUS
      <4>3. 1 \in 0..2
        OBVIOUS
      <4>4. g \in Archives
        BY <3>2, <4>1, <4>2, <4>3, WriteIs
      <4>5. QED
        BY <4>2, <4>4
    <3>3. QED
      BY <1>11, <3>1, <3>2 DEF Kill
  <2>2. QED
    BY <1>11, <1>e, <2>1 DEF FileInv, Kill, Gone
<1>12. CASE Trim
  <2>1. disk' \in Archives
    BY <1>12, TrimKeeps DEF Trim, AppendPosition, FileInv
  <2>2. QED
    BY <1>12, <2>1 DEF FileInv, Trim, outvars, addvars
<1>13. CASE PressControlC
  BY <1>13 DEF FileInv, PressControlC, outvars, addvars
<1>14. CASE HandlerWait
  BY <1>14 DEF FileInv, HandlerWait, outvars, addvars
<1>15. CASE HandlerClose
  BY <1>15 DEF FileInv, HandlerClose, addvars
<1>16. CASE HandlerRollback
  <2>1. disk' \in Archives
    BY <1>16, RolledBackIs DEF HandlerRollback
  <2>2. QED
    BY <1>16, <2>1 DEF FileInv, HandlerRollback, outvars, addvars
<1>17. CASE HandlerExit
  BY <1>17, <1>e DEF FileInv, HandlerExit, Gone
<1>18. ASSUME NEW p \in Plans, Begin(p) PROVE FileInv'
  <2>1. AppendPosition(Read(disk)) \in Nat /\ HtSize(Read(disk)) \in Nat \ {0}
    BY ReadIs DEF FileInv
  <2>2. date \in Nat /\ date + 1 \in Nat /\ MaxAdds \in Nat /\ date < MaxAdds
    BY <1>18, JournalAssumption DEF FileInv, Begin
  <2>3. date' = date + 1 /\ date + 1 \in 0..MaxAdds
    BY <1>18, <2>2 DEF Begin
  <2>4. left' = BlocksOf(date + 1, p, HtSize(Read(disk)))
    BY <1>18 DEF Begin
  <2>5. PICK d, htsize : d = date + 1 /\ htsize = HtSize(Read(disk))
    OBVIOUS
  <2>6. PICK s : s = left'
    OBVIOUS
  <2>7. s \in Seq(BlockSet) /\ Len(s) = 1 + 2 * p.data + p.index
    BY <2>1, <2>2, <2>4, <2>5, <2>6, BlocksAre
  <2>8. p.data \in Nat /\ p.index \in Nat
    BY PlanIs
  <2>9. plan' = p /\ ~busy'
    BY <1>18 DEF Begin
  <2>10. Len(left') <= 1 + 2 * plan'.data + plan'.index
    BY <2>6, <2>7, <2>8, <2>9
  <2>11. QED
    BY <1>18, <2>1, <2>3, <2>6, <2>7, <2>9, <2>10 DEF FileInv, Begin
<1>19. CASE UNCHANGED vars
  BY <1>19 DEF FileInv, vars, outvars, addvars
<1>20. QED
  BY <1>1, <1>2, <1>3, <1>4, <1>5, <1>6, <1>7, <1>8, <1>9, <1>10, <1>11, <1>12, <1>13, <1>14,
     <1>15, <1>16, <1>17, <1>18, <1>19 DEF Next, Add2, Handler

-----------------------------------------------------------------------------
(* One write of a flush.                                                   *)

LEMMA FlushKeeps ==
  ASSUME NEW f \in Archives, NEW d \in Archives, NEW g \in Archives,
         NEW h \in Nat, NEW o \in Nat, o >= h, NEW b \in BlockSet, NEW n \in 0..2,
         NEW wasfull \in BOOLEAN, NEW isfull \in BOOLEAN,
         Keeps(f, d, h), Written(d, g, o, b, n), Len(g) = Len(d) \/ Len(g) = o + n,
         \/ b.type = "c" /\ o = h
         \/ WholeC(d, h) /\ o >= h + 2
         \/ wasfull /\ Len(d) <= h + 1,
         \/ n = 2 /\ (~wasfull \/ o + 2 <= Len(d)) /\ isfull = wasfull
         \/ n <= 1 /\ ~(o + 2 <= Len(d)) /\ isfull /\ (~wasfull \/ o + n <= Len(d))
  PROVE  /\ Keeps(f, g, h)
         /\ (WholeC(g, h) /\ o + n >= h + 2) \/ (isfull /\ Len(g) <= h + 1)
<1>0. Len(d) \in Nat /\ n \in Nat /\ n <= 2
  BY DEF Archives
<1>1. ASSUME Len(d) <= h + 1, n <= 1 PROVE Keeps(f, g, h)
  <2>1. Beyond(d, h)
    BY <1>1, ShortIs
  <2>2. CASE n = 0
    BY <2>2, WriteNothing
  <2>3. CASE n = 1
    BY <2>1, <2>3, WriteTag
  <2>4. QED
    BY <1>0, <1>1, <2>2, <2>3
<1>2. CASE WholeC(d, h) /\ o >= h + 2
  <2>1. Keeps(f, g, h) /\ WholeC(g, h)
    BY <1>0, <1>2, WriteAfterHeader
  <2>2. o + n >= h + 2
    BY <1>0, <1>2
  <2>3. QED
    BY <2>1, <2>2
<1>3. CASE wasfull /\ Len(d) <= h + 1
  <2>1. ~(o + 2 <= Len(d))
    BY <1>0, <1>3
  <2>2. n <= 1 /\ isfull /\ o + n <= Len(d)
    BY <1>3, <2>1
  <2>3. Len(g) <= h + 1
    BY <1>0, <1>3, <2>2
  <2>4. QED
    BY <1>1, <1>3, <2>2, <2>3
<1>4. CASE b.type = "c" /\ o = h
  <2>1. CASE n = 2
    <3>1. Keeps(f, g, h) /\ WholeC(g, h)
      BY <1>4, <2>1, WriteHeader
    <3>2. o + n >= h + 2
      BY <1>4, <2>1
    <3>3. QED
      BY <3>1, <3>2
  <2>2. CASE n <= 1 /\ ~(o + 2 <= Len(d)) /\ isfull
    <3>1. Len(d) <= h + 1 /\ o + n <= h + 1
      BY <1>0, <1>4, <2>2
    <3>2. Len(g) <= h + 1
      BY <3>1
    <3>3. QED
      BY <1>1, <2>2, <3>1, <3>2
  <2>3. QED
    BY <2>1, <2>2
<1>5. QED
  BY <1>2, <1>3, <1>4

-----------------------------------------------------------------------------
(* Where the add and the handler are, and what the archive then is.        *)

\* The new version begins where the good ones end, and everything the add does to the
\* archive is from there on; no write is in progress when the handler cuts.
PlaceInv ==
  /\ pc # "idle" => header_pos = AppendPosition(Read(before))
  /\ pc \in {"body", "header"} => pos >= header_pos
  /\ pc \in {"header", "close", "closing", "cut"} => archive_end >= header_pos
  /\ pc = "body" => HeaderFirst(left)
  /\ pc = "header" => \/ left = <<>>
                      \/ Len(left) = 1 /\ Head(left).type = "c" /\ pos = header_pos
  /\ hpc \in {"looking", "rolling", "saying"} => ~(busy /\ FlusherRuns)

AtHeader == WholeC(disk, header_pos) /\ pos >= header_pos + 2
Short    == full /\ Len(disk) <= header_pos + 1

\* A block is written behind the header of its version, or where nothing follows: on a
\* full disk, or after the handler has cut the archive.
WriteInv ==
  /\ pc # "idle" => Keeps(before, disk, header_pos)
  /\ busy /\ Head(left).type # "c" => AtHeader \/ Beyond(disk, header_pos)
  /\ (~stop \/ (busy /\ FlusherRuns)) =>
       /\ (pc = "body" /\ left # <<>> /\ Head(left).type = "c") => pos = header_pos
       /\ (pc = "body" /\ ~(left # <<>> /\ Head(left).type = "c")) => AtHeader \/ Short
       /\ pc = "header" => WholeC(disk, header_pos) \/ Short

IdleInv ==
  pc = "idle" => FormerVersionsStay /\ Len(Read(before).ver) <= Len(Read(disk).ver)

LEMMA PlaceInvKept == ASSUME TypeInv, PlaceInv, [Next]_vars PROVE PlaceInv'
<1> USE DEF TypeInv
<1>h. header_pos \in Nat /\ pos \in Nat /\ archive_end \in Nat /\ left \in Seq(BlockSet)
  BY DEF FileInv
<1>1. CASE FlushBegin
  <2>1. hpc = "none" /\ hpc' = "none"
    BY <1>1 DEF FlushBegin, Stopped, FlagInv, hvars
  <2>2. QED
    BY <1>1, <2>1 DEF PlaceInv, FlushBegin, addvars
<1>2. CASE FlushDiscard
  <2>1. ~busy' /\ left' = Tail(left) /\ left # <<>> /\ pc \in {"body", "header"} /\ pc' = pc
    BY <1>2 DEF FlushDiscard, Flushing
  <2>2. pc = "body" => HeaderFirst(left')
    BY <1>h, <2>1, HeadTail DEF PlaceInv
  <2>3. pc = "header" => left' = <<>>
    <3>1. Len(left) = 1 => Tail(left) = <<>>
      BY <1>h, <2>1
    <3>2. QED
      BY <2>1, <3>1 DEF PlaceInv
  <2>4. QED
    BY <1>2, <2>1, <2>2, <2>3 DEF PlaceInv, FlushDiscard, addvars
<1>3. CASE FlushEnd
  <2>1. PICK n \in 0..2 : Flushed(n)
    BY <1>3 DEF FlushEnd
  <2>2. ~busy' /\ busy /\ left' = Tail(left) /\ left # <<>> /\ pc \in {"body", "header"} /\ pc' = pc
    BY <1>3, <2>1 DEF FlushEnd, Flushed, FileInv
  <2>3. pc = "body" => HeaderFirst(left')
    BY <1>h, <2>2, HeadTail DEF PlaceInv
  <2>4. pc = "header" => left' = <<>>
    <3>1. Len(left) = 1 => Tail(left) = <<>>
      BY <1>h, <2>2
    <3>2. QED
      BY <2>2, <3>1 DEF PlaceInv
  <2>5. pos' >= header_pos
    <3>1. pos' = pos + n
      BY <2>1 DEF Flushed
    <3>2. pos >= header_pos
      BY <2>2 DEF PlaceInv
    <3>3. QED
      BY <1>h, <3>1, <3>2
  <2>6. QED
    BY <1>3, <2>2, <2>3, <2>4, <2>5 DEF PlaceInv, FlushEnd, addvars
<1>4. CASE EndBody
  <2>1. ~busy' /\ pc' = "header" /\ pos' = header_pos /\ archive_end' = pos /\ pos >= header_pos
        /\ left' = <<CBlock(date, HtSize(Read(before)), cdatasize)>>
    BY <1>4 DEF EndBody, PlaceInv
  <2>2. Len(left') = 1 /\ Head(left').type = "c"
    BY <2>1 DEF CBlock, Block
  <2>3. QED
    BY <1>4, <1>h, <2>1, <2>2 DEF PlaceInv, EndBody, addvars
<1>5. CASE EndHeader
  BY <1>5 DEF PlaceInv, EndHeader, addvars
<1>6. CASE ReleaseHandle
  BY <1>6 DEF PlaceInv, ReleaseHandle, addvars, FileInv
<1>7. CASE CloseArchive
  BY <1>7 DEF PlaceInv, CloseArchive, addvars, FileInv
<1>8. CASE Cut
  BY <1>8 DEF PlaceInv, Cut, outvars, addvars, FileInv
<1>9. CASE Complete
  BY <1>9 DEF PlaceInv, Complete, outvars, addvars, FileInv
<1>10. CASE Exit
  BY <1>10 DEF PlaceInv, Exit, Gone
<1>11. CASE Kill
  BY <1>11 DEF PlaceInv, Kill, Gone
<1>12. CASE Trim
  BY <1>12 DEF PlaceInv, Trim, outvars, hvars, addvars, FlagInv
<1>13. CASE PressControlC
  BY <1>13 DEF PlaceInv, PressControlC, outvars, addvars
<1>14. CASE HandlerWait
  <2>1. hpc # "none" /\ hpc' # "none" /\ pc' = pc /\ left' = left /\ busy' = busy
    BY <1>14 DEF HandlerWait, outvars
  <2>2. ~(busy /\ FlusherRuns)
    BY <1>14 DEF HandlerWait, WriteOver
  <2>3. FlusherRuns' <=> FlusherRuns
    BY <2>1 DEF FlusherRuns, MainRuns
  <2>4. QED
    BY <1>14, <2>1, <2>2, <2>3 DEF PlaceInv, HandlerWait, outvars, addvars
<1>15. CASE HandlerClose
  <2>1. hpc # "none" /\ hpc' # "none" /\ pc' = pc /\ left' = left /\ busy' = busy /\ hpc = "looking"
    BY <1>15 DEF HandlerClose
  <2>2. FlusherRuns' <=> FlusherRuns
    BY <2>1 DEF FlusherRuns, MainRuns
  <2>3. QED
    BY <1>15, <2>1, <2>2 DEF PlaceInv, HandlerClose, addvars
<1>16. CASE HandlerRollback
  <2>1. hpc # "none" /\ hpc' # "none" /\ pc' = pc /\ left' = left /\ busy' = busy /\ hpc = "rolling"
    BY <1>16 DEF HandlerRollback, outvars
  <2>2. FlusherRuns' <=> FlusherRuns
    BY <2>1 DEF FlusherRuns, MainRuns
  <2>3. QED
    BY <1>16, <2>1, <2>2 DEF PlaceInv, HandlerRollback, outvars, addvars
<1>17. CASE HandlerExit
  BY <1>17 DEF PlaceInv, HandlerExit, Gone
<1>18. ASSUME NEW p \in Plans, Begin(p) PROVE PlaceInv'
  <2>1. AppendPosition(Read(disk)) \in Nat /\ HtSize(Read(disk)) \in Nat \ {0} /\ date + 1 \in Nat
    BY ReadIs, JournalAssumption DEF FileInv
  <2>2. left' = BlocksOf(date + 1, p, HtSize(Read(disk)))
    BY <1>18 DEF Begin
  <2>3. PICK d, htsize, s : d = date + 1 /\ htsize = HtSize(Read(disk)) /\ s = left'
    OBVIOUS
  <2>4. HeaderFirst(s)
    BY <2>1, <2>2, <2>3, BlocksAre
  <2>5. header_pos' = AppendPosition(Read(before')) /\ pos' = header_pos'
    BY <1>18 DEF Begin
  <2>6. pos' >= header_pos'
    BY <1>18, <2>1 DEF Begin
  <2>7. QED
    BY <1>18, <2>3, <2>4, <2>5, <2>6 DEF PlaceInv, Begin
<1>19. CASE UNCHANGED vars
  BY <1>19 DEF PlaceInv, FlusherRuns, MainRuns, vars, outvars, addvars, hvars
<1>20. QED
  BY <1>1, <1>2, <1>3, <1>4, <1>5, <1>6, <1>7, <1>8, <1>9, <1>10, <1>11, <1>12, <1>13, <1>14,
     <1>15, <1>16, <1>17, <1>18, <1>19 DEF Next, Add2, Handler

LEMMA FlushEndWrites ==
  ASSUME TypeInv, PlaceInv, WriteInv, FlushEnd
  PROVE  WriteInv'
<1> USE DEF TypeInv
<1>1. busy /\ FlusherRuns /\ pc \in {"body", "header"} /\ left # <<>> /\ ~busy' /\ pc' = pc
      /\ stop' = stop /\ header_pos' = header_pos /\ before' = before
  BY DEF FlushEnd, FileInv, hvars, addvars
<1>2. PICK n \in 0..2 : /\ Flushed(n)
                        /\ \/ n = 2 /\ (~full \/ Fits(2)) /\ full' = full
                           \/ n <= 1 /\ ~Fits(2) /\ full' /\ (~full \/ Fits(n))
  BY DEF FlushEnd
<1>3. /\ Head(left) \in BlockSet /\ left' = Tail(left) /\ pos' = pos + n /\ pos' \in Nat
      /\ disk' \in Archives /\ Written(disk, disk', pos, Head(left), n)
      /\ Len(disk') = Len(disk) \/ Len(disk') = pos + n
  BY <1>1, <1>2, FlushedIs
<1>4. PICK f, d, g, h, o, b : /\ f = before /\ d = disk /\ g = disk' /\ h = header_pos
                              /\ o = pos /\ b = Head(left)
  OBVIOUS
<1>5. PICK wasfull, isfull : wasfull = full /\ isfull = full'
  OBVIOUS
<1>6. /\ f \in Archives /\ d \in Archives /\ g \in Archives /\ h \in Nat /\ o \in Nat /\ b \in BlockSet
      /\ o >= h /\ Keeps(f, d, h) /\ Written(d, g, o, b, n) /\ (Len(g) = Len(d) \/ Len(g) = o + n)
  BY <1>1, <1>3, <1>4 DEF FileInv, PlaceInv, WriteInv
<1>7. wasfull \in BOOLEAN /\ isfull \in BOOLEAN
  BY <1>2, <1>5 DEF FlagInv
<1>8. \/ b.type = "c" /\ o = h
      \/ WholeC(d, h) /\ o >= h + 2
      \/ wasfull /\ Len(d) <= h + 1
  <2>1. CASE pc = "body" /\ b.type = "c"
    BY <1>1, <1>4, <2>1 DEF WriteInv
  <2>2. CASE pc = "body" /\ b.type # "c"
    <3>1. AtHeader \/ Short
      BY <1>1, <1>4, <2>2 DEF WriteInv
    <3>2. QED
      BY <1>4, <1>5, <3>1 DEF AtHeader, Short
  <2>3. CASE pc = "header"
    BY <1>1, <1>4, <2>3 DEF PlaceInv
  <2>4. QED
    BY <1>1, <2>1, <2>2, <2>3
<1>9. \/ n = 2 /\ (~wasfull \/ o + 2 <= Len(d)) /\ isfull = wasfull
      \/ n <= 1 /\ ~(o + 2 <= Len(d)) /\ isfull /\ (~wasfull \/ o + n <= Len(d))
  BY <1>2, <1>4, <1>5 DEF Fits
<1>10. Keeps(f, g, h) /\ ((WholeC(g, h) /\ o + n >= h + 2) \/ (isfull /\ Len(g) <= h + 1))
  BY <1>6, <1>7, <1>8, <1>9, FlushKeeps
<1>11. Keeps(before', disk', header_pos')
  BY <1>1, <1>4, <1>10
<1>12. AtHeader' \/ Short'
  <2>1. CASE WholeC(g, h) /\ o + n >= h + 2
    BY <1>1, <1>3, <1>4, <2>1 DEF AtHeader
  <2>2. CASE isfull /\ Len(g) <= h + 1
    BY <1>1, <1>4, <1>5, <2>2 DEF Short
  <2>3. QED
    BY <1>10, <2>1, <2>2
<1>13. pc = "body" => ~(left' # <<>> /\ Head(left').type = "c")
  <2>1. left \in Seq(BlockSet)
    BY DEF FileInv
  <2>2. pc = "body" => HeaderFirst(left)
    BY DEF PlaceInv
  <2>3. QED
    BY <1>1, <1>3, <2>1, <2>2, HeadTail
<1>14. WholeC(disk', header_pos') \/ Short'
  BY <1>12 DEF AtHeader
<1>15. QED
  BY <1>1, <1>11, <1>12, <1>13, <1>14 DEF WriteInv

LEMMA WriteInvKept == ASSUME TypeInv, PlaceInv, WriteInv, [Next]_vars PROVE WriteInv'
<1> USE DEF TypeInv
<1>h. header_pos \in Nat /\ disk \in Archives /\ before \in Archives
  BY DEF FileInv
<1>s. Short => Beyond(disk, header_pos)
  BY <1>h, ShortIs DEF Short
<1>1. CASE FlushBegin
  <2>1. ~stop /\ pc \in {"body", "header"} /\ left # <<>>
    BY <1>1 DEF FlushBegin, Stopped, Flushing
  <2>2. disk' = disk /\ full' = full /\ pc' = pc /\ left' = left /\ pos' = pos
        /\ header_pos' = header_pos /\ before' = before
    BY <1>1 DEF FlushBegin, addvars
  <2>3. (AtHeader' <=> AtHeader) /\ (Short' <=> Short)
    BY <2>2 DEF AtHeader, Short
  <2>4. Head(left').type # "c" => AtHeader' \/ Beyond(disk', header_pos')
    <3>1. pc = "header" => Head(left).type = "c"
      BY <2>1 DEF PlaceInv
    <3>2. pc = "body" /\ Head(left).type # "c" => AtHeader \/ Short
      BY <2>1 DEF WriteInv
    <3>3. QED
      BY <1>s, <2>1, <2>2, <2>3, <3>1, <3>2
  <2>5. QED
    BY <2>1, <2>2, <2>3, <2>4 DEF WriteInv
<1>2. CASE FlushDiscard
  BY <1>2 DEF WriteInv, FlushDiscard, Stopped, addvars, hvars
<1>3. CASE FlushEnd
  BY <1>3, FlushEndWrites
<1>4. CASE EndBody
  <2>1. ~busy /\ ~busy' /\ stop' = stop /\ pc = "body" /\ pc' = "header" /\ left = <<>>
    BY <1>4 DEF EndBody, hvars
  <2>2. disk' = disk /\ full' = full /\ header_pos' = header_pos /\ before' = before
    BY <1>4 DEF EndBody, addvars
  <2>3. ~stop => WholeC(disk, header_pos) \/ Short
    BY <2>1 DEF WriteInv, AtHeader
  <2>4. Short' <=> Short
    BY <2>2 DEF Short
  <2>5. QED
    BY <2>1, <2>2, <2>3, <2>4 DEF WriteInv
<1>5. CASE EndHeader
  BY <1>5 DEF WriteInv, EndHeader, addvars, hvars
<1>6. CASE ReleaseHandle
  BY <1>6 DEF WriteInv, ReleaseHandle, addvars, hvars, FileInv
<1>7. CASE CloseArchive
  BY <1>7 DEF WriteInv, CloseArchive, addvars, hvars, FileInv
<1>8. CASE Cut
  <2>1. pc = "cut" /\ ~busy' /\ pc' = "after" /\ disk' = CutTo /\ header_pos' = header_pos /\ before' = before
    BY <1>8 DEF Cut, FileInv, outvars, addvars
  <2>2. Keeps(before, disk, header_pos) /\ archive_end >= header_pos
    BY <2>1 DEF WriteInv, PlaceInv
  <2>3. FinalEnd \in Nat /\ CutTo \in Archives /\ (CutTo = disk \/ CutAt(disk, CutTo, FinalEnd))
    BY CutIs
  <2>4. FinalEnd >= header_pos
    BY <1>h, <2>2 DEF FinalEnd
  <2>5. Keeps(before, CutTo, header_pos)
    <3>1. CASE CutTo = disk
      BY <2>2, <3>1
    <3>2. CASE CutAt(disk, CutTo, FinalEnd)
      BY <1>h, <2>2, <2>3, <2>4, <3>2, CutKeeps
    <3>3. QED
      BY <2>3, <3>1, <3>2
  <2>6. QED
    BY <2>1, <2>5 DEF WriteInv
<1>9. CASE Complete
  BY <1>9 DEF WriteInv, Complete, outvars, addvars, hvars, FileInv
<1>10. CASE Exit
  BY <1>10 DEF WriteInv, Exit, Gone
<1>11. CASE Kill
  BY <1>11 DEF WriteInv, Kill, Gone
<1>12. CASE Trim
  BY <1>12 DEF WriteInv, Trim, outvars, addvars, hvars, FileInv
<1>13. CASE PressControlC
  <2>1. disk' = disk /\ full' = full /\ pc' = pc /\ left' = left /\ pos' = pos /\ busy' = busy
        /\ header_pos' = header_pos /\ before' = before /\ stop'
    BY <1>13 DEF PressControlC, outvars, addvars
  <2>2. (AtHeader' <=> AtHeader) /\ (Short' <=> Short)
    BY <2>1 DEF AtHeader, Short
  <2>3. FlusherRuns
    BY <1>13 DEF PressControlC, FlusherRuns, MainRuns
  <2>4. QED
    BY <2>1, <2>2, <2>3 DEF WriteInv
<1>14. CASE HandlerWait
  <2>1. disk' = disk /\ full' = full /\ pc' = pc /\ left' = left /\ pos' = pos /\ busy' = busy
        /\ header_pos' = header_pos /\ before' = before /\ stop' = stop
        /\ hpc # "none" /\ hpc' # "none"
    BY <1>14 DEF HandlerWait, outvars, addvars
  <2>2. (AtHeader' <=> AtHeader) /\ (Short' <=> Short)
    BY <2>1 DEF AtHeader, Short
  <2>3. FlusherRuns' <=> FlusherRuns
    BY <2>1 DEF FlusherRuns, MainRuns
  <2>4. QED
    BY <2>1, <2>2, <2>3 DEF WriteInv
<1>15. CASE HandlerClose
  <2>1. disk' = disk /\ full' = full /\ pc' = pc /\ left' = left /\ pos' = pos /\ busy' = busy
        /\ header_pos' = header_pos /\ before' = before /\ stop' = stop
        /\ hpc # "none" /\ hpc' # "none"
    BY <1>15 DEF HandlerClose, addvars
  <2>2. (AtHeader' <=> AtHeader) /\ (Short' <=> Short)
    BY <2>1 DEF AtHeader, Short
  <2>3. FlusherRuns' <=> FlusherRuns
    BY <2>1 DEF FlusherRuns, MainRuns
  <2>4. QED
    BY <2>1, <2>2, <2>3 DEF WriteInv
<1>16. CASE HandlerRollback
  <2>1. full' = full /\ pc' = pc /\ left' = left /\ pos' = pos /\ busy' = busy
        /\ header_pos' = header_pos /\ before' = before /\ stop' = stop /\ disk' = RolledBack
        /\ hpc # "none" /\ hpc' # "none" /\ stop /\ pc # "idle"
    BY <1>16 DEF HandlerRollback, outvars, addvars, FlagInv
  <2>2. ~(busy /\ FlusherRuns)
    BY <1>16 DEF HandlerRollback, PlaceInv
  <2>3. FlusherRuns' <=> FlusherRuns
    BY <2>1 DEF FlusherRuns, MainRuns
  <2>4. PICK g, d, f, h, m : g = disk' /\ d = disk /\ f = before /\ h = header_pos /\ m = Len(before)
    OBVIOUS
  <2>5. g \in Archives /\ d \in Archives /\ f \in Archives /\ h \in Nat /\ m \in Nat /\ m = Len(f)
        /\ (g = d \/ CutAt(d, g, m)) /\ Keeps(f, d, h)
    BY <1>h, <2>1, <2>4, RolledBackIs DEF WriteInv
  <2>6. Keeps(f, g, h)
    <3>1. \A k \in Nat : k > m => CellAt(f, k) = ZeroCell
      BY <2>5 DEF CellAt
    <3>2. CASE CutAt(d, g, m)
      BY <2>5, <3>1, <3>2, CutKeeps
    <3>3. QED
      BY <2>5, <3>2
  <2>7. (WholeC(d, h) => WholeC(g, h) \/ Beyond(g, h)) /\ (Beyond(d, h) => Beyond(g, h))
    <3>1. m >= h + 2 \/ m <= h + 1
      BY <2>5
    <3>2. CASE CutAt(d, g, m)
      BY <2>5, <3>1, <3>2, CutHeader
    <3>3. QED
      BY <2>5, <3>2
  <2>8. busy' /\ Head(left').type # "c" => AtHeader' \/ Beyond(disk', header_pos')
    <3> SUFFICES ASSUME busy', Head(left').type # "c" PROVE AtHeader' \/ Beyond(disk', header_pos')
      OBVIOUS
    <3>1. AtHeader \/ Beyond(disk, header_pos)
      BY <2>1 DEF WriteInv
    <3>2. CASE AtHeader
      <4>1. WholeC(d, h) /\ pos >= header_pos + 2
        BY <2>4, <3>2 DEF AtHeader
      <4>2. WholeC(g, h) \/ Beyond(g, h)
        BY <2>7, <4>1
      <4>3. QED
        BY <2>1, <2>4, <4>1, <4>2 DEF AtHeader
    <3>3. CASE Beyond(disk, header_pos)
      BY <2>1, <2>4, <2>7, <3>3
    <3>4. QED
      BY <3>1, <3>2, <3>3
  <2>9. Keeps(before', disk', header_pos')
    BY <2>1, <2>4, <2>6
  <2>10. stop' /\ ~(busy' /\ FlusherRuns')
    BY <2>1, <2>2, <2>3
  <2>11. QED
    BY <2>8, <2>9, <2>10 DEF WriteInv
<1>17. CASE HandlerExit
  BY <1>17 DEF WriteInv, HandlerExit, Gone
<1>18. ASSUME NEW p \in Plans, Begin(p) PROVE WriteInv'
  <2>1. AppendPosition(Read(disk)) \in Nat /\ HtSize(Read(disk)) \in Nat \ {0} /\ date + 1 \in Nat
    BY ReadIs, JournalAssumption DEF FileInv
  <2>2. left' = BlocksOf(date + 1, p, HtSize(Read(disk))) /\ ~busy' /\ pc' = "body"
        /\ before' = disk /\ disk' = disk /\ header_pos' = AppendPosition(Read(disk))
        /\ pos' = header_pos'
    BY <1>18 DEF Begin
  <2>3. PICK d, htsize, s : d = date + 1 /\ htsize = HtSize(Read(disk)) /\ s = left'
    OBVIOUS
  <2>4. s \in Seq(BlockSet) /\ s # <<>> /\ s[1].type = "c"
    BY <2>1, <2>2, <2>3, BlocksAre
  <2>5. left' # <<>> /\ Head(left').type = "c"
    BY <2>3, <2>4, HeadTail
  <2>6. Keeps(disk, disk, AppendPosition(Read(disk)))
    <3>1. TailSafe(disk, Read(disk).block_offset)
      BY <1>h, EndIsSafe
    <3>2. QED
      BY <3>1 DEF Keeps, SameUpTo, NoJoin, AppendPosition
  <2>7. QED
    BY <2>2, <2>5, <2>6 DEF WriteInv
<1>19. CASE UNCHANGED vars
  <2>1. disk' = disk /\ full' = full /\ pc' = pc /\ left' = left /\ pos' = pos /\ busy' = busy
        /\ header_pos' = header_pos /\ before' = before /\ stop' = stop /\ hpc' = hpc
    BY <1>19 DEF vars, outvars, addvars, hvars
  <2>2. (AtHeader' <=> AtHeader) /\ (Short' <=> Short) /\ (FlusherRuns' <=> FlusherRuns)
    BY <2>1 DEF AtHeader, Short, FlusherRuns, MainRuns
  <2>3. QED
    BY <2>1, <2>2 DEF WriteInv
<1>20. QED
  BY <1>1, <1>2, <1>3, <1>4, <1>5, <1>6, <1>7, <1>8, <1>9, <1>10, <1>11, <1>12, <1>13, <1>14,
     <1>15, <1>16, <1>17, <1>18, <1>19 DEF Next, Add2, Handler

-----------------------------------------------------------------------------
(* The versions from before the last add.                                  *)

JournalInv == TypeInv /\ PlaceInv /\ WriteInv /\ IdleInv

LEMMA GoneStays ==
  ASSUME TypeInv, NEW g \in Archives, Keeps(before, g, header_pos),
         header_pos = AppendPosition(Read(before)), disk' = g, before' = before
  PROVE  IdleInv'
<1>1. PICK f : f = before
  OBVIOUS
<1>2. f \in Archives /\ Keeps(f, g, Read(f).block_offset)
  BY <1>1 DEF TypeInv, FileInv, AppendPosition
<1>3. /\ \A v \in 1..Len(Read(f).ver) : Version(g, v) = Version(f, v)
      /\ Len(Read(f).ver) <= Len(Read(g).ver)
  BY <1>2, KeepsVersions
<1>4. QED
  BY <1>1, <1>3 DEF IdleInv, FormerVersionsStay

\* A write in progress, cut short by a kill.
LEMMA KillKeeps ==
  ASSUME JournalInv, pc # "idle",
         disk' = disk \/ (busy /\ Head(left).type # "c" /\ disk' = WriteAt(disk, pos, Head(left), 1))
  PROVE  disk' \in Archives /\ Keeps(before, disk', header_pos)
<1> USE DEF JournalInv, TypeInv
<1>h. header_pos \in Nat /\ disk \in Archives /\ before \in Archives /\ pos \in Nat
  BY DEF FileInv
<1>a. Keeps(before, disk, header_pos) /\ header_pos = AppendPosition(Read(before))
  BY DEF WriteInv, PlaceInv
<1>1. CASE disk' = disk
  BY <1>1, <1>a, <1>h
<1>2. CASE busy /\ Head(left).type # "c" /\ disk' = WriteAt(disk, pos, Head(left), 1)
  <2>1. PICK f, d, g, h, o, b : /\ f = before /\ d = disk /\ g = disk' /\ h = header_pos
                                /\ o = pos /\ b = Head(left)
    OBVIOUS
  <2>2. b \in BlockSet
    BY <1>2, <2>1, HeadTail DEF FileInv
  <2>3. 1 \in 0..2 /\ g = WriteAt(d, o, b, 1)
    BY <1>2, <2>1
  <2>4. g \in Archives /\ Written(d, g, o, b, 1)
    BY <1>h, <2>1, <2>2, <2>3, WriteIs
  <2>5. o >= h
    BY <1>2, <2>1 DEF FileInv, PlaceInv
  <2>6. Keeps(f, d, h) /\ h = AppendPosition(Read(f))
    BY <1>a, <2>1
  <2>7. (WholeC(d, h) /\ o >= h + 2) \/ Beyond(d, h)
    BY <1>2, <2>1 DEF WriteInv, AtHeader
  <2>8. Keeps(f, g, h)
    <3>1. CASE WholeC(d, h) /\ o >= h + 2
      BY <1>h, <2>1, <2>4, <2>6, <3>1, WriteAfterHeader
    <3>2. CASE Beyond(d, h)
      BY <1>h, <2>1, <2>2, <2>4, <2>5, <2>6, <3>2, WriteTag
    <3>3. QED
      BY <2>7, <3>1, <3>2
  <2>9. QED
    BY <2>1, <2>4, <2>8
<1>3. QED
  BY <1>1, <1>2

LEMMA IdleInvKept == ASSUME JournalInv, [Next]_vars PROVE IdleInv'
<1> USE DEF JournalInv, TypeInv
<1>h. header_pos \in Nat /\ disk \in Archives /\ before \in Archives /\ pos \in Nat
  BY DEF FileInv
<1>a. pc # "idle" => Keeps(before, disk, header_pos) /\ header_pos = AppendPosition(Read(before))
  BY DEF WriteInv, PlaceInv
<1>1. ASSUME pc # "idle", disk' = disk, before' = before PROVE IdleInv'
  BY <1>1, <1>a, <1>h, GoneStays
<1>2. CASE Exit \/ HandlerExit
  <2>1. disk' = disk /\ before' = before /\ pc # "idle"
    BY <1>2 DEF Exit, HandlerExit, Gone, FlagInv
  <2>2. QED
    BY <1>1, <2>1
<1>3. CASE Kill
  <2>1. pc # "idle" /\ before' = before
    BY <1>3 DEF Kill, Gone
  <2>2. PICK g : g = disk'
    OBVIOUS
  <2>3. g \in Archives /\ Keeps(before, g, header_pos)
    BY <1>3, <2>1, <2>2, KillKeeps DEF Kill
  <2>4. QED
    BY <1>a, <2>1, <2>2, <2>3, GoneStays
<1>4. CASE Trim
  <2>1. pc = "idle" /\ before' = before
    BY <1>4 DEF Trim, addvars
  <2>2. PICK f, d, g : f = before /\ d = disk /\ g = disk'
    OBVIOUS
  <2>3. g \in Archives /\ Keeps(d, g, Read(d).block_offset)
    BY <1>4, <1>h, <2>2, TrimKeeps DEF Trim, AppendPosition
  <2>4. /\ \A v \in 1..Len(Read(d).ver) : Version(g, v) = Version(d, v)
        /\ Len(Read(d).ver) <= Len(Read(g).ver)
    BY <1>h, <2>2, <2>3, KeepsVersions
  <2>5. /\ \A v \in 1..Len(Read(f).ver) : Version(d, v) = Version(f, v)
        /\ Len(Read(f).ver) <= Len(Read(d).ver)
    BY <2>1, <2>2 DEF IdleInv, FormerVersionsStay
  <2>6. PICK l, m, n : l = Len(Read(f).ver) /\ m = Len(Read(d).ver) /\ n = Len(Read(g).ver)
    OBVIOUS
  <2>7. l \in Nat /\ m \in Nat /\ n \in Nat
    BY <1>h, <2>2, <2>3, <2>6, EndIsSafe, ReaderTypes
  <2>8. l <= n /\ \A v \in 1..l : v \in 1..m
    BY <2>4, <2>5, <2>6, <2>7
  <2>9. \A v \in 1..l : Version(g, v) = Version(f, v)
    BY <2>4, <2>5, <2>6, <2>8
  <2>10. QED
    BY <2>1, <2>2, <2>6, <2>8, <2>9 DEF IdleInv, FormerVersionsStay
<1>5. CASE UNCHANGED vars
  <2>1. disk' = disk /\ before' = before /\ pc' = pc
    BY <1>5 DEF vars, addvars
  <2>2. QED
    BY <2>1 DEF IdleInv, FormerVersionsStay
<1>6. CASE FlushBegin \/ FlushDiscard \/ FlushEnd \/ EndBody \/ EndHeader \/ ReleaseHandle
           \/ CloseArchive \/ Cut \/ Complete
  <2>1. pc' # "idle"
    <3>1. FlushBegin \/ FlushDiscard \/ FlushEnd => pc' = pc /\ pc # "idle"
      BY DEF FlushBegin, FlushDiscard, FlushEnd, Flushing, FileInv
    <3>2. EndBody \/ EndHeader \/ ReleaseHandle \/ CloseArchive \/ Cut \/ Complete => pc' # "idle"
      BY DEF EndBody, EndHeader, ReleaseHandle, CloseArchive, Cut, Complete
    <3>3. QED
      BY <1>6, <3>1, <3>2
  <2>2. QED
    BY <2>1 DEF IdleInv
<1>7. CASE PressControlC \/ HandlerWait \/ HandlerClose \/ HandlerRollback
  <2>1. pc' # "idle"
    BY <1>7 DEF PressControlC, HandlerWait, HandlerClose, HandlerRollback, FlagInv
  <2>2. QED
    BY <2>1 DEF IdleInv
<1>8. ASSUME NEW p \in Plans, Begin(p) PROVE IdleInv'
  BY <1>8 DEF Begin, IdleInv
<1>9. QED
  BY <1>2, <1>3, <1>4, <1>5, <1>6, <1>7, <1>8 DEF Next, Add2, Handler

LEMMA JournalInvFirst == Init => JournalInv
<1> SUFFICES ASSUME Init PROVE JournalInv
  OBVIOUS
<1>1. <<>> \in Archives /\ <<>> \in Seq(BlockSet) /\ <<>> \in Seq([1..Names -> Seq(Nat)])
      /\ Len(<<>>) = 0
  BY DEF Archives
<1>2. 0 \in 0..MaxData /\ 0 \in 0..Names /\ 0 \in 0..MaxAdds
  BY JournalAssumption, NamesAssumption
<1>3. [data |-> 0, index |-> 0] \in Plans
  BY <1>2 DEF Plans
<1>4. FileInv
  <2>1. plan.data = 0 /\ plan.index = 0 /\ Len(left) = 0
    BY <1>1 DEF Init
  <2>2. Len(left) <= 1 + 2 * plan.data + plan.index
    BY <2>1
  <2>3. QED
    BY <1>1, <1>2, <1>3, <2>2 DEF Init, FileInv
<1>5. FlagInv
  BY DEF Init, FlagInv
<1>6. CountInv
  BY <1>1 DEF Init, CountInv
<1>7. PlaceInv /\ WriteInv
  BY DEF Init, PlaceInv, WriteInv
<1>8. IdleInv
  <2>1. disk = before /\ before \in Archives
    BY <1>4 DEF Init, FileInv
  <2>2. Len(Read(before).ver) \in Nat
    BY <2>1, EndIsSafe, ReaderTypes
  <2>3. QED
    BY <2>1, <2>2 DEF IdleInv, FormerVersionsStay
<1>9. QED
  BY <1>4, <1>5, <1>6, <1>7, <1>8 DEF JournalInv, TypeInv

LEMMA JournalInvKept == JournalInv /\ [Next]_vars => JournalInv'
<1> SUFFICES ASSUME JournalInv, [Next]_vars PROVE JournalInv'
  OBVIOUS
<1>1. TypeInv /\ PlaceInv /\ WriteInv
  BY DEF JournalInv
<1>2. FileInv' /\ FlagInv' /\ CountInv'
  BY <1>1, FileInvKept, FlagInvKept, CountInvKept DEF TypeInv
<1>3. PlaceInv' /\ WriteInv'
  BY <1>1, PlaceInvKept, WriteInvKept
<1>4. IdleInv'
  BY IdleInvKept
<1>5. QED
  BY <1>2, <1>3, <1>4 DEF JournalInv, TypeInv

LEMMA FormerVersionsAreThere == JournalInv => FormerVersionsStay
<1> SUFFICES ASSUME JournalInv PROVE FormerVersionsStay
  OBVIOUS
<1>1. CASE pc = "idle"
  BY <1>1 DEF JournalInv, IdleInv
<1>2. CASE pc # "idle"
  <2>1. PICK f, d : f = before /\ d = disk
    OBVIOUS
  <2>2. f \in Archives /\ d \in Archives /\ Keeps(f, d, Read(f).block_offset)
    BY <1>2, <2>1 DEF JournalInv, TypeInv, FileInv, PlaceInv, WriteInv, AppendPosition
  <2>3. \A v \in 1..Len(Read(f).ver) : Version(d, v) = Version(f, v)
    BY <2>2, KeepsVersions
  <2>4. QED
    BY <2>1, <2>3 DEF FormerVersionsStay
<1>3. QED
  BY <1>1, <1>2

(* Whatever befalls an add - killed between two writes or within one, out  *)
(* of space, stopped by control-C on either thread - and whatever the adds *)
(* before it have left, -until finds every version that was there when it  *)
(* began, with the content it had.                                         *)
THEOREM FormerTheorem == Spec => []FormerVersionsStay
<1>1. Init => JournalInv
  BY JournalInvFirst
<1>2. JournalInv /\ [Next]_vars => JournalInv'
  BY JournalInvKept
<1>3. JournalInv => FormerVersionsStay
  BY FormerVersionsAreThere
<1>4. QED
  BY <1>1, <1>2, <1>3, PTL DEF Spec

(* The variables keep their types: no more versions than adds, no more     *)
(* blocks left than planned, the handler only while an add runs.           *)
THEOREM TypeTheorem == Spec => []TypeOK
<1>1. Init => JournalInv
  BY JournalInvFirst
<1>2. JournalInv /\ [Next]_vars => JournalInv'
  BY JournalInvKept
<1>3. JournalInv => TypeOK
  <2> SUFFICES ASSUME JournalInv PROVE TypeOK
    OBVIOUS
  <2>1. FileInv /\ FlagInv /\ CountInv
    BY DEF JournalInv, TypeInv
  <2> DEFINE blocks == {c.block : c \in {disk[k] : k \in DOMAIN disk}}
  <2>2. disk \in Seq([block : blocks, part : {"tag", "body", "zero"}])
    <3>1. disk \in Seq(CellSet) /\ Len(disk) \in Nat /\ DOMAIN disk = 1..Len(disk)
      BY <2>1 DEF FileInv, Archives
    <3>2. \A k \in 1..Len(disk) : disk[k] \in [block : blocks, part : {"tag", "body", "zero"}]
      <4> SUFFICES ASSUME NEW k \in 1..Len(disk)
                   PROVE  disk[k] \in [block : blocks, part : {"tag", "body", "zero"}]
        OBVIOUS
      <4>1. disk[k] \in CellSet
        BY <3>1
      <4>2. disk[k].block \in blocks
        BY <3>1
      <4>3. disk[k] = [block |-> disk[k].block, part |-> disk[k].part]
            /\ disk[k].part \in {"tag", "body", "zero"}
        BY <4>1 DEF CellSet
      <4> HIDE DEF blocks
      <4>4. QED
        BY <4>2, <4>3
    <3> HIDE DEF blocks
    <3>3. PICK d, n, S : d = disk /\ n = Len(disk) /\ S = [block : blocks, part : {"tag", "body", "zero"}]
      OBVIOUS
    <3>4. d = [k \in 1..n |-> d[k]]
      BY <3>1, <3>3
    <3>5. d \in [1..n -> S]
      BY <3>2, <3>3, <3>4
    <3>6. n \in Nat
      BY <3>1, <3>3
    <3>7. d \in Seq(S)
      BY <3>5, <3>6
    <3>8. QED
      BY <3>3, <3>7
  <2>3. {pos, header_pos, archive_end, archive_size, cdatasize} \subseteq Nat
    BY <2>1 DEF FileInv
  <2>4. {full, busy, complete, stop, committed} \subseteq BOOLEAN
    BY <2>1 DEF FlagInv
  <2>5. QED
    BY <2>1, <2>2, <2>3, <2>4 DEF TypeOK, FileInv, FlagInv, CountInv
<1>4. QED
  BY <1>1, <1>2, <1>3, PTL DEF Spec

-----------------------------------------------------------------------------
(* What the add writes, block by block.                                    *)

JoinedAs(x, y, n, z) ==
  /\ z \in Seq(BlockSet) /\ Len(z) = Len(x) + n
  /\ \A k \in 1..Len(x) : z[k] = x[k]
  /\ \A k \in 1..n : z[Len(x) + k] = y[k]

LEMMA Joined ==
  ASSUME NEW x \in Seq(BlockSet), NEW n \in Nat, NEW y \in [1..n -> BlockSet],
         NEW z, z = x \o y
  PROVE  JoinedAs(x, y, n, z)
<1>1. y \in Seq(BlockSet) /\ Len(y) = n /\ Len(x) \in Nat
  OBVIOUS
<1>2. PICK w, m : w = y /\ m = Len(x)
  OBVIOUS
<1>3. w \in Seq(BlockSet) /\ Len(w) = n /\ z = x \o w /\ m \in Nat
  BY <1>1, <1>2
<1>4. z \in Seq(BlockSet) /\ Len(z) = Len(x) + Len(w)
  <2>0. w \in Seq(BlockSet) /\ Len(w) = n
    BY <1>3
  <2>1. Len(x \o w) = Len(x) + Len(w)
    BY <2>0
  <2>2. x \o w \in Seq(BlockSet)
    BY <2>0
  <2>3. QED
    BY <1>3, <2>1, <2>2
<1>5. \A k \in 1..Len(x) : z[k] = x[k]
  BY <1>3
<1>6. \A k \in 1..n : z[Len(x) + k] = y[k]
  <2> SUFFICES ASSUME NEW k \in 1..n PROVE z[Len(x) + k] = y[k]
    OBVIOUS
  <2>1. Len(x) + k \in Len(x) + 1..Len(x) + Len(w) /\ (Len(x) + k) - Len(x) = k
    BY <1>1, <1>3
  <2>2. z[Len(x) + k] = w[(Len(x) + k) - Len(x)]
    BY <1>1, <1>3, <2>1
  <2>3. QED
    BY <1>2, <2>1, <2>2
<1>7. QED
  BY <1>1, <1>2, <1>3, <1>4, <1>5, <1>6 DEF JoinedAs

\* Where each block is among those of the add.
PlannedAs(s, d, data, index, htsize) ==
  /\ s[1] = CBlock(d, htsize, Incomplete)
  /\ \A k \in 1..data : s[1 + k] = DBlock(d, htsize + k - 1, Sha(d, k))
  /\ \A k \in 1..data : s[1 + data + k] = HBlock(d, htsize + k - 1, Sha(d, k))
  /\ \A k \in 1..index : s[1 + data + data + k]
                            = IBlock(d, k, k, [j \in 1..data |-> htsize + j - 1])

LEMMA PlannedIs ==
  ASSUME NEW d \in Nat, NEW p \in Plans, NEW htsize \in Nat \ {0}, NEW s, s = BlocksOf(d, p, htsize),
         NEW data, data = p.data, NEW index, index = p.index
  PROVE  PlannedAs(s, d, data, index, htsize)
<1>1. data \in Nat /\ index \in Nat
  BY PlanIs
<1> DEFINE A == <<CBlock(d, htsize, Incomplete)>>
           D == [k \in 1..data |-> DBlock(d, htsize + k - 1, Sha(d, k))]
           H == [k \in 1..data |-> HBlock(d, htsize + k - 1, Sha(d, k))]
           I == [k \in 1..index |-> IBlock(d, k, k, [j \in 1..data |-> htsize + j - 1])]
<1>2. CBlock(d, htsize, Incomplete) \in BlockSet
  BY DEF CBlock, Block, BlockSet
<1>3. A \in Seq(BlockSet) /\ Len(A) = 1 /\ A[1] = CBlock(d, htsize, Incomplete)
  BY <1>2
<1>4. \A k \in 1..data : htsize + k - 1 \in Nat /\ Sha(d, k) \in Nat
  BY <1>1 DEF Sha
<1>5. D \in [1..data -> BlockSet]
  <2>1. \A n \in Nat, m \in Nat : DBlock(d, n, m) \in BlockSet
    BY DEF DBlock, Block, BlockSet
  <2>2. QED
    BY <1>4, <2>1
<1>6. H \in [1..data -> BlockSet]
  <2>1. \A n \in Nat, m \in Nat : HBlock(d, n, m) \in BlockSet
    BY DEF HBlock, Block, BlockSet
  <2>2. QED
    BY <1>4, <2>1
<1>7. I \in [1..index -> BlockSet]
  <2>1. \A k \in Nat : \A t \in Seq(Nat) : IBlock(d, k, k, t) \in BlockSet
    BY DEF IBlock, Block, BlockSet
  <2>2. PICK t : t = [j \in 1..data |-> htsize + j - 1]
    OBVIOUS
  <2>3. t \in Seq(Nat)
    BY <1>1, <1>4, <2>2
  <2>4. \A k \in 1..index : IBlock(d, k, k, t) \in BlockSet
    <3>1. \A k \in 1..index : k \in Nat
      BY <1>1
    <3>2. QED
      BY <2>1, <2>3, <3>1
  <2>5. I = [k \in 1..index |-> IBlock(d, k, k, t)]
    BY <2>2
  <2> HIDE DEF I
  <2>6. QED
    BY <2>4, <2>5
<1>8. s = ((A \o D) \o H) \o I
  BY DEF BlocksOf
<1>d. \A k \in 1..data : /\ D[k] = DBlock(d, htsize + k - 1, Sha(d, k))
                         /\ H[k] = HBlock(d, htsize + k - 1, Sha(d, k))
  OBVIOUS
<1>i. \A k \in 1..index : I[k] = IBlock(d, k, k, [j \in 1..data |-> htsize + j - 1])
  OBVIOUS
<1> HIDE DEF A, D, H, I
<1>9. PICK x, y : x = A \o D /\ y = x \o H
  OBVIOUS
<1>a. JoinedAs(A, D, data, x)
  BY <1>1, <1>3, <1>5, <1>9, Joined
<1>10. x \in Seq(BlockSet)
  BY <1>a DEF JoinedAs
<1>11. Len(x) = 1 + data /\ x[1] = A[1] /\ \A k \in 1..data : x[1 + k] = D[k]
  BY <1>3, <1>a DEF JoinedAs
<1>b. JoinedAs(x, H, data, y)
  BY <1>1, <1>6, <1>9, <1>10, Joined
<1>12. /\ y \in Seq(BlockSet) /\ Len(y) = Len(x) + data
       /\ \A k \in 1..Len(x) : y[k] = x[k]
       /\ \A k \in 1..data : y[Len(x) + k] = H[k]
  BY <1>b DEF JoinedAs
<1>13. /\ Len(y) = 1 + data + data /\ y[1] = A[1] /\ \A k \in 1..data : y[1 + k] = D[k]
       /\ \A k \in 1..data : y[1 + data + k] = H[k]
  <2>1. 1 \in 1..Len(x) /\ \A k \in 1..data : 1 + k \in 1..Len(x)
    BY <1>1, <1>11
  <2>2. QED
    BY <1>11, <1>12, <2>1
<1>c. JoinedAs(y, I, index, s)
  <2>1. s = y \o I
    BY <1>8, <1>9
  <2>2. QED
    BY <1>1, <1>7, <1>12, <2>1, Joined
<1>14. /\ \A k \in 1..Len(y) : s[k] = y[k]
       /\ \A k \in 1..index : s[Len(y) + k] = I[k]
  BY <1>c DEF JoinedAs
<1>15. /\ 1 \in 1..Len(y)
       /\ \A k \in 1..data : 1 + k \in 1..Len(y) /\ 1 + data + k \in 1..Len(y)
  <2>1. Len(y) = 1 + data + data
    BY <1>13
  <2>2. QED
    BY <1>1, <2>1
<1>16. s[1] = A[1]
  BY <1>13, <1>14, <1>15
<1>17. \A k \in 1..data : s[1 + k] = D[k] /\ s[1 + data + k] = H[k]
  BY <1>13, <1>14, <1>15
<1>18. \A k \in 1..index : s[1 + data + data + k] = I[k]
  BY <1>13, <1>14
<1>19. QED
  BY <1>3, <1>16, <1>17, <1>18, <1>d, <1>i DEF PlannedAs

\* A block that is written is there, and those that are elsewhere stay.
LEMMA WrittenBlock ==
  ASSUME NEW d, NEW g, NEW o \in Nat, NEW b \in BlockSet, Written(d, g, o, b, 2)
  PROVE  BlockAt(g, o, b)
<1>1. o + 1 \in Nat \ {0} /\ o < o + 1 /\ o + 1 <= o + 2 /\ (o + 1) - o = 1
  OBVIOUS
<1>2. o + 2 \in Nat \ {0} /\ o < o + 2 /\ o + 2 <= o + 2 /\ (o + 2) - o = 2
  OBVIOUS
<1>3. CellAt(g, o + 1) = Cells(b)[1]
  BY <1>1 DEF Written
<1>4. CellAt(g, o + 2) = Cells(b)[2]
  BY <1>2 DEF Written
<1>5. QED
  BY <1>3, <1>4, CellsIs DEF BlockAt

LEMMA OtherBlock ==
  ASSUME NEW d, NEW g, NEW o \in Nat, NEW b, NEW n \in Nat, Written(d, g, o, b, n),
         NEW u \in Nat, u + 2 <= o \/ u >= o + n, NEW c, BlockAt(d, u, c)
  PROVE  BlockAt(g, u, c)
<1>1. u + 1 \in Nat \ {0} /\ ~(o < u + 1 /\ u + 1 <= o + n)
  OBVIOUS
<1>2. u + 2 \in Nat \ {0} /\ ~(o < u + 2 /\ u + 2 <= o + n)
  OBVIOUS
<1>3. CellAt(g, u + 1) = CellAt(d, u + 1)
  BY <1>1 DEF Written
<1>4. CellAt(g, u + 2) = CellAt(d, u + 2)
  BY <1>2 DEF Written
<1>5. QED
  BY <1>3, <1>4 DEF BlockAt

\* So does a block before the end, where the file is cut.
LEMMA UncutBlock ==
  ASSUME NEW d, NEW g, NEW m \in Nat, CutAt(d, g, m), NEW u \in Nat, u + 2 <= m,
         NEW c, BlockAt(d, u, c)
  PROVE  BlockAt(g, u, c)
<1>1. u + 1 \in Nat \ {0} /\ u + 1 <= m /\ u + 2 \in Nat \ {0}
  OBVIOUS
<1>2. CellAt(g, u + 1) = CellAt(d, u + 1) /\ CellAt(g, u + 2) = CellAt(d, u + 2)
  BY <1>1 DEF CutAt
<1>3. QED
  BY <1>2 DEF BlockAt

-----------------------------------------------------------------------------
(* What the archive is at every moment of an add, where the disk does not  *)
(* fill up and the handler, if there is one, interrupts the main thread:   *)
(* the assumptions of the runs with kills and with control-C.              *)

Calm == ~MediaFull /\ ControlC # "other" /\ (Kills => ControlC = "never" /\ ~WindowKills)

Planned == BlocksOf(date, plan, HtSize(Read(before)))
Size    == 1 + 2 * plan.data + plan.index
Final   == CBlock(date, HtSize(Read(before)), 2 * plan.data)

\* How many of its blocks are out of the buffer, and block k is in its place.
Out      == Size - Len(left)
There(k) == BlockAt(disk, header_pos + 2 * (k - 1), Planned[k])

Tidy(f) == Len(f) = Read(f).block_offset

\* Between adds the archive is sound, and holds the versions; so does what an add began
\* with.  Where nothing is killed, nothing follows the versions.
SoundInv ==
  /\ pc = "idle" => Sound(disk, versions) /\ (~Kills => Tidy(disk))
  /\ pc # "idle" => Sound(before, versions) /\ (~Kills => Tidy(before)) /\ Len(disk) >= header_pos

\* Control-C has the main thread for good; when it has rolled back, the archive is as
\* it was.
StopInv ==
  /\ stop => ControlC = "main" /\ hpc # "none"
  /\ banner # "none" => ControlC = "main"
  /\ complete <=> pc = "done"
  /\ hpc = "rolling" => ~complete
  /\ (hpc = "saying" /\ ~complete) => disk = before
  /\ (pc = "idle" /\ banner = "back") => disk = before

\* The blocks go to the file in order, one behind the other, and the data is counted.
BodyInv ==
  (pc = "body" /\ ~stop) =>
    /\ ~committed
    /\ pos = header_pos + 2 * Out /\ Len(disk) >= pos
    /\ \A k \in 1..Len(left) : left[k] = Planned[Out + k]
    /\ \A k \in 1..Out : There(k)
    /\ cdatasize = IF Out = 0 THEN 0
                   ELSE IF Out <= 1 + plan.data THEN 2 * (Out - 1) ELSE 2 * plan.data
    /\ Out = 0 => disk = before

\* All that follows the header is there; and so is the header.
Laid  == /\ archive_end = header_pos + 2 * Size /\ Len(disk) >= archive_end
         /\ \A k \in 2..Size : There(k)
Whole == Laid /\ BlockAt(disk, header_pos, Final)

HeaderInv ==
  (pc = "header" /\ ~stop) =>
    /\ Laid
    /\ \/ left = <<Final>> /\ pos = header_pos /\ ~committed /\ There(1)
       \/ left = <<>> /\ committed /\ Whole

ShutInv ==
  (pc \in {"close", "closing", "cut"} /\ ~stop) =>
    committed /\ Whole /\ archive_size = Len(disk)

\* The older tail is cut, and so is a version with nothing in it.
DoneInv ==
  (pc \in {"after", "done"} /\ (~stop \/ complete)) =>
    IF Empty THEN ~committed /\ Len(disk) = header_pos
             ELSE committed /\ Whole /\ Len(disk) = archive_end

StageInv == BodyInv /\ HeaderInv /\ ShutInv /\ DoneInv

GoodInv == JournalInv /\ SoundInv /\ StopInv /\ StageInv

-----------------------------------------------------------------------------
(* The plan of an add, and its version when it is whole.                   *)

LEMMA PlanNow ==
  ASSUME FileInv
  PROVE  /\ plan \in Plans /\ plan.data \in Nat /\ plan.index \in 0..Names /\ plan.index \in Nat
         /\ plan.data > 0 => plan.index > 0
         /\ Size \in Nat /\ Size >= 1 /\ Size >= 1 + plan.data
         /\ date \in Nat /\ HtSize(Read(before)) \in Nat \ {0}
         /\ AppendPosition(Read(before)) \in Nat
         /\ Planned \in Seq(BlockSet) /\ Len(Planned) = Size
         /\ Final \in BlockSet
<1>1. plan \in Plans /\ date \in Nat /\ before \in Archives
  BY JournalAssumption DEF FileInv
<1>2. plan.data \in Nat /\ plan.index \in Nat /\ plan.index \in 0..Names
  BY <1>1, PlanIs
<1>3. plan.data > 0 => plan.index > 0
  BY <1>1, <1>2 DEF Plans
<1>4. HtSize(Read(before)) \in Nat \ {0} /\ AppendPosition(Read(before)) \in Nat
  BY <1>1, ReadIs
<1>5. PICK d, p, htsize, s : d = date /\ p = plan /\ htsize = HtSize(Read(before)) /\ s = Planned
  OBVIOUS
<1>6. s \in Seq(BlockSet) /\ Len(s) = 1 + 2 * p.data + p.index
  BY <1>1, <1>4, <1>5, BlocksAre DEF Planned
<1>7. Size \in Nat /\ Size >= 1 /\ Size >= 1 + plan.data
  BY <1>2 DEF Size
<1>8. Final \in BlockSet
  BY <1>1, <1>2, <1>4 DEF Final, CBlock, Block, BlockSet
<1>9. QED
  BY <1>1, <1>2, <1>3, <1>4, <1>5, <1>6, <1>7, <1>8 DEF Size

LEMMA PlannedNow ==
  ASSUME FileInv, NEW data, data = plan.data, NEW index, index = plan.index,
         NEW htsize, htsize = HtSize(Read(before))
  PROVE  PlannedAs(Planned, date, data, index, htsize)
<1>1. plan \in Plans /\ date \in Nat /\ htsize \in Nat \ {0}
  BY PlanNow
<1>2. Planned = BlocksOf(date, plan, htsize)
  BY DEF Planned
<1>3. PICK d, p, s : d = date /\ p = plan /\ s = Planned
  OBVIOUS
<1>4. PlannedAs(s, d, data, index, htsize)
  BY <1>1, <1>2, <1>3, PlannedIs
<1>5. QED
  BY <1>3, <1>4

\* The data blocks are those behind the header.
LEMMA DataAre ==
  ASSUME FileInv, NEW k \in 1..Size
  PROVE  /\ Planned[k] \in BlockSet
         /\ Planned[k].type = "d" <=> (k >= 2 /\ k <= 1 + plan.data)
<1>1. plan.data \in Nat /\ plan.index \in Nat /\ Size = 1 + plan.data + plan.data + plan.index
  BY PlanNow DEF Size
<1>2. PICK data, index, htsize : data = plan.data /\ index = plan.index /\ htsize = HtSize(Read(before))
  OBVIOUS
<1>3. Planned[k] \in BlockSet
  BY PlanNow
<1>p. PlannedAs(Planned, date, data, index, htsize)
  BY <1>2, PlannedNow
<1>4. CASE k = 1
  <2>1. Planned[k] = CBlock(date, htsize, Incomplete)
    BY <1>4, <1>p DEF PlannedAs
  <2>2. Planned[k].type = "c"
    BY <2>1 DEF CBlock, Block
  <2>3. QED
    BY <1>3, <1>4, <2>2
<1>5. CASE k >= 2 /\ k <= 1 + data
  <2>1. PICK j \in 1..data : k = 1 + j
    <3>1. k - 1 \in 1..data /\ k = 1 + (k - 1)
      BY <1>1, <1>2, <1>5
    <3>2. QED
      BY <3>1
  <2>2. Planned[k] = DBlock(date, htsize + j - 1, Sha(date, j))
    BY <2>1, <1>p DEF PlannedAs
  <2>3. QED
    BY <1>2, <1>3, <1>5, <2>2 DEF DBlock, Block
<1>6. CASE k > 1 + data /\ k <= 1 + data + data
  <2>1. PICK j \in 1..data : k = 1 + data + j
    <3>1. k - (1 + data) \in 1..data /\ k = 1 + data + (k - (1 + data))
      BY <1>1, <1>2, <1>6
    <3>2. QED
      BY <3>1
  <2>2. Planned[k] = HBlock(date, htsize + j - 1, Sha(date, j))
    BY <2>1, <1>p DEF PlannedAs
  <2>3. Planned[k].type = "h"
    BY <2>2 DEF HBlock, Block
  <2>4. ~(k <= 1 + plan.data)
    BY <1>1, <1>2, <1>6
  <2>5. QED
    BY <1>3, <2>3, <2>4
<1>7. CASE k > 1 + data + data
  <2>1. PICK j \in 1..index : k = 1 + data + data + j
    <3>1. k - (1 + data + data) \in 1..index /\ k = 1 + data + data + (k - (1 + data + data))
      BY <1>1, <1>2, <1>7
    <3>2. QED
      BY <3>1
  <2>2. Planned[k] = IBlock(date, j, j, [i \in 1..data |-> htsize + i - 1])
    BY <2>1, <1>p DEF PlannedAs
  <2>3. Planned[k].type = "i"
    BY <2>2 DEF IBlock, Block
  <2>4. ~(k <= 1 + plan.data)
    BY <1>1, <1>2, <1>7
  <2>5. QED
    BY <1>3, <2>3, <2>4
<1>8. QED
  BY <1>1, <1>2, <1>4, <1>5, <1>6, <1>7

\* The first of them leaves the version unfinished.
LEMMA FirstIsUnfinished ==
  ASSUME FileInv, header_pos \in Nat, NEW g, BlockAt(g, header_pos, Planned[1])
  PROVE  UnfinishedAt(g, header_pos)
<1>1. Planned[1] \in BlockSet
  <2>1. 1 \in 1..Size
    BY PlanNow
  <2>2. QED
    BY <2>1, DataAre
<1>2. Planned[1] = CBlock(date, HtSize(Read(before)), Incomplete)
  BY PlannedNow DEF PlannedAs
<1>3. Planned[1].type = "c" /\ Planned[1].jmp = Incomplete
  BY <1>2 DEF CBlock, Block
<1>4. QED
  BY <1>1, <1>3 DEF UnfinishedAt

\* What an add leaves behind what it has found is an unfinished version, or nothing.
LEMMA StillSound ==
  ASSUME TypeInv, Sound(before, versions), header_pos = AppendPosition(Read(before)),
         NEW g \in Archives, Keeps(before, g, header_pos), CleanTail(g, header_pos)
  PROVE  Sound(g, versions) /\ Read(g).block_offset = header_pos
<1>1. PICK f, vs, h, X : f = before /\ vs = versions /\ h = header_pos /\ X = [1..Names -> Seq(Nat)]
  OBVIOUS
<1>2. f \in Archives /\ vs \in Seq(X) /\ h = Read(f).block_offset /\ SameUpTo(f, g, h)
  BY <1>1 DEF TypeInv, FileInv, CountInv, AppendPosition, Keeps
<1>3. Sound(g, vs) /\ Read(g).block_offset = h
  BY <1>1, <1>2, SoundSame
<1>4. QED
  BY <1>1, <1>3

\* When it is whole, it is one version more.
LEMMA NewSound ==
  ASSUME TypeInv, Sound(before, versions), header_pos = AppendPosition(Read(before)),
         Keeps(before, disk, header_pos), Whole, Len(disk) = archive_end
  PROVE  Sound(disk, Append(versions, Intended)) /\ Tidy(disk)
<1>0. FileInv /\ CountInv
  BY DEF TypeInv
<1>1. PICK f, g, vs, h, X : /\ f = before /\ g = disk /\ vs = versions /\ h = header_pos
                            /\ X = [1..Names -> Seq(Nat)]
  OBVIOUS
<1>2. f \in Archives /\ g \in Archives /\ vs \in Seq(X) /\ h = Read(f).block_offset /\ SameUpTo(f, g, h)
  BY <1>0, <1>1 DEF FileInv, CountInv, AppendPosition, Keeps
<1>3. PICK d, data, index, htsize : /\ d = date /\ data = plan.data /\ index = plan.index
                                    /\ htsize = HtSize(Read(f))
  OBVIOUS
<1>4. /\ d \in Nat /\ data \in Nat /\ index \in 0..Names /\ (data > 0 => index > 0)
      /\ htsize \in Nat \ {0} /\ h \in Nat /\ index \in Nat
  BY <1>0, <1>1, <1>3, PlanNow
<1>5. PICK sha : sha = [k \in 1..data |-> Sha(d, k)]
  OBVIOUS
<1>6. \A k \in 1..data : sha[k] \in Nat /\ sha[k] = Sha(d, k)
  BY <1>4, <1>5 DEF Sha
<1>7. PICK ptr : ptr = [k \in 1..data |-> htsize + k - 1]
  OBVIOUS
<1>8. Size = 1 + data + data + index /\ Len(g) = h + 2 * Size
  BY <1>1, <1>3, <1>4 DEF Size, Whole, Laid
<1>9. \A k \in 2..Size : BlockAt(g, h + 2 * (k - 1), Planned[k])
  BY <1>1 DEF Whole, Laid, There
<1>p. PlannedAs(Planned, d, data, index, htsize)
  BY <1>0, <1>1, <1>3, PlannedNow
<1>10. VersionAt(g, h, d, htsize, sha, ptr, data, index)
  <2>1. BlockAt(g, h, CBlock(d, htsize, 2 * data))
    BY <1>1, <1>3 DEF Whole, Final
  <2>2. ASSUME NEW k \in 0..data - 1
        PROVE  BlockAt(g, h + 2 + 2 * data + 2 * k + 2 * 0, HBlock(d, htsize + k, sha[k + 1]))
    <3>1. PICK j, m : j = k + 1 /\ m = 1 + data + j
      OBVIOUS
    <3>2. j \in 1..data /\ m \in 2..Size
      BY <1>4, <1>8, <3>1
    <3>3. Planned[m] = HBlock(d, htsize + j - 1, Sha(d, j))
      BY <1>p, <3>1, <3>2 DEF PlannedAs
    <3>4. htsize + j - 1 = htsize + k /\ h + 2 * (m - 1) = h + 2 + 2 * data + 2 * k + 2 * 0
      BY <1>4, <3>1
    <3>5. BlockAt(g, h + 2 * (m - 1), Planned[m]) /\ Sha(d, j) = sha[k + 1]
      BY <1>6, <1>9, <3>1, <3>2
    <3>6. QED
      BY <3>3, <3>4, <3>5
  <2>3. ASSUME NEW l \in 0..index - 1
        PROVE  BlockAt(g, h + 2 + 2 * data + 2 * data + 2 * l, IBlock(d, l + 1, l + 1, ptr))
    <3>1. PICK j, m : j = l + 1 /\ m = 1 + data + data + j
      OBVIOUS
    <3>2. j \in 1..index /\ m \in 2..Size
      BY <1>4, <1>8, <3>1
    <3>3. Planned[m] = IBlock(d, j, j, ptr)
      BY <1>7, <1>p, <3>1, <3>2 DEF PlannedAs
    <3>4. h + 2 * (m - 1) = h + 2 + 2 * data + 2 * data + 2 * l
      BY <1>4, <3>1
    <3>5. BlockAt(g, h + 2 * (m - 1), Planned[m])
      BY <1>9, <3>2
    <3>6. QED
      BY <3>1, <3>3, <3>4, <3>5
  <2>4. NoTags(g, h + 2 + 2 * data + 2 * data + 2 * index)
    <3>1. h + 2 + 2 * data + 2 * data + 2 * index = Len(g)
      BY <1>4, <1>8
    <3>2. Len(g) \in Nat /\ CleanTail(g, Len(g))
      BY <1>2 DEF Archives, CleanTail
    <3>3. NoTags(g, Len(g))
      BY <1>2, <3>2, TailIs
    <3>4. QED
      BY <3>1, <3>3
  <2>5. QED
    BY <2>1, <2>2, <2>3, <2>4 DEF VersionAt
<1>11. PICK new : new = Intended
  OBVIOUS
<1>12. new \in X /\ new = Stored(LastOf(vs), index, data, sha)
  <2>1. new \in X
    BY <1>0, <1>1, <1>11, IntendedIs
  <2>2. LastOf(vs) = Previous
    BY <1>1 DEF LastOf, Previous
  <2>3. NewContent(date, plan) = [k \in 1..data |-> sha[k]]
    BY <1>3, <1>6 DEF NewContent
  <2>4. QED
    BY <1>3, <1>11, <2>1, <2>2, <2>3 DEF Intended, Stored
<1>13. Len(g) = h + 2 + 2 * data + 2 * data + 2 * index
  BY <1>4, <1>8
<1>14. Sound(g, Append(vs, new)) /\ Read(g).block_offset = Len(g)
  <2>1. Sound(f, vs)
    BY <1>1
  <2>2. \A k \in 1..data : sha[k] \in Nat
    BY <1>6
  <2>3. ptr = Numbered(HtSize(Read(f)), data)
    BY <1>3, <1>7 DEF Numbered
  <2>4. VersionAt(g, h, d, HtSize(Read(f)), sha, ptr, data, index)
    BY <1>3, <1>10
  <2>5. new \in X
    BY <1>12
  <2>6. new = Stored(LastOf(vs), index, data, sha)
    BY <1>12
  <2>7. PICK blocks : blocks = [k \in 1..data |-> Planned[1 + k]]
    OBVIOUS
  <2>8. DataAt(g, h, data, blocks, sha)
    <3>1. ASSUME NEW k \in 1..data
          PROVE  BlockAt(g, h + 2 + 2 * (k - 1), blocks[k]) /\ blocks[k].sha = sha[k]
      <4>1. PICK m : m = 1 + k
        OBVIOUS
      <4>2. m \in 2..Size /\ h + 2 * (m - 1) = h + 2 + 2 * (k - 1)
        BY <1>4, <1>8, <4>1
      <4>3. Planned[m] = DBlock(d, htsize + k - 1, Sha(d, k)) /\ blocks[k] = Planned[m]
        BY <2>7, <1>p, <4>1 DEF PlannedAs
      <4>4. BlockAt(g, h + 2 * (m - 1), Planned[m])
        BY <1>9, <4>2
      <4>5. blocks[k].sha = sha[k]
        BY <1>6, <4>3 DEF DBlock, Block
      <4>6. QED
        BY <4>2, <4>3, <4>4, <4>5
    <3>2. QED
      BY <3>1 DEF DataAt
  <2>9. PICK m : m = Len(Read(f).ht)
    OBVIOUS
  <2>10. NextAt(g, h, m, d, data, index, sha, ptr, blocks)
    BY <2>3, <2>4, <2>8, <2>9 DEF NextAt, HtSize
  <2>11. QED
    BY <1>2, <1>4, <1>13, <2>1, <2>2, <2>5, <2>6, <2>9, <2>10, SoundNext
<1>15. QED
  BY <1>1, <1>11, <1>14 DEF Tidy

-----------------------------------------------------------------------------
(* The stages of an add are kept.                                          *)

LEMMA SamePlan ==
  ASSUME date' = date, plan' = plan, before' = before
  PROVE  /\ Planned' = Planned /\ Size' = Size /\ Final' = Final /\ (Empty' <=> Empty)
BY DEF Planned, Size, Final, Empty

\* A step that leaves the archive and the plan alone.
LEMMA SameBlocks ==
  ASSUME date' = date, plan' = plan, before' = before, header_pos' = header_pos, disk' = disk
  PROVE  /\ Planned' = Planned /\ Size' = Size /\ Final' = Final /\ (Empty' <=> Empty)
         /\ \A k : There(k)' <=> There(k)
         /\ archive_end' = archive_end => (Laid' <=> Laid) /\ (Whole' <=> Whole)
<1>1. Planned' = Planned /\ Size' = Size /\ Final' = Final /\ (Empty' <=> Empty)
  BY SamePlan
<1>2. \A k : There(k)' <=> There(k)
  BY <1>1 DEF There
<1>3. ASSUME archive_end' = archive_end PROVE (Laid' <=> Laid) /\ (Whole' <=> Whole)
  <2>1. Laid' <=> Laid
    BY <1>1, <1>2, <1>3 DEF Laid
  <2>2. QED
    BY <1>1, <2>1 DEF Whole
<1>4. QED
  BY <1>1, <1>2, <1>3

LEMMA OutIs ==
  ASSUME FileInv
  PROVE  /\ Len(left) \in Nat /\ Out \in Nat /\ Len(left) = Size - Out /\ Out <= Size
         /\ Size \in Nat
<1>1. Len(left) \in Nat /\ Len(left) <= Size
  BY DEF FileInv, Size
<1>2. Size \in Nat
  BY PlanNow
<1>3. QED
  BY <1>1, <1>2 DEF Out

\* The main thread runs: nobody has pressed control-C.
LEMMA NotStopped ==
  ASSUME Calm, StopInv, MainRuns
  PROVE  hpc = "none" /\ ~stop
BY DEF Calm, StopInv, MainRuns

LEMMA BodyFlush ==
  ASSUME Calm, GoodInv, FlushEnd, pc = "body", ~stop
  PROVE  BodyInv'
<1>1. FileInv /\ BodyInv /\ busy /\ left # <<>> /\ left \in Seq(BlockSet)
  BY DEF GoodInv, JournalInv, TypeInv, FileInv, StageInv, FlushEnd
<1>2. Flushed(2)
  BY DEF FlushEnd, Calm
<1>3. /\ date' = date /\ plan' = plan /\ before' = before /\ header_pos' = header_pos
      /\ pc' = pc /\ stop' = stop
  BY DEF FlushEnd, addvars, hvars
<1>4. /\ Head(left) \in BlockSet /\ left' = Tail(left) /\ Len(left') = Len(left) - 1
      /\ pos' = pos + 2 /\ Written(disk, disk', pos, Head(left), 2) /\ Len(disk') >= pos'
  <2>1. 2 \in 0..2
    OBVIOUS
  <2>2. QED
    BY <1>1, <1>2, <2>1, FlushedIs
<1>5. /\ Len(left) \in Nat /\ Out \in Nat /\ Len(left) = Size - Out /\ Size \in Nat /\ Out <= Size
  BY <1>1, OutIs
<1>6. Planned' = Planned /\ Size' = Size
  BY <1>3, SamePlan
<1>7. header_pos \in Nat /\ pos \in Nat /\ plan.data \in Nat
  BY <1>1, PlanNow DEF FileInv
<1>8. Len(left) >= 1 /\ Head(left) = left[1] /\ \A k \in 1..Len(left) - 1 : Tail(left)[k] = left[k + 1]
  BY <1>1
<1>9. /\ ~committed /\ pos = header_pos + 2 * Out
      /\ \A k \in 1..Len(left) : left[k] = Planned[Out + k]
      /\ \A k \in 1..Out : There(k)
      /\ cdatasize = IF Out = 0 THEN 0
                     ELSE IF Out <= 1 + plan.data THEN 2 * (Out - 1) ELSE 2 * plan.data
  BY <1>1 DEF BodyInv
<1>10. PICK m \in Nat : m = Out
  BY <1>5
<1>11. Out' = m + 1 /\ m + 1 \in 1..Size
  <2>1. PICK l \in Nat : l = Len(left)
    BY <1>5
  <2>2. Out' = Size - (l - 1)
    BY <1>4, <1>6, <2>1 DEF Out
  <2>3. l >= 1 /\ l = Size - m /\ m <= Size
    BY <1>5, <1>8, <1>10, <2>1
  <2>4. QED
    BY <1>5, <2>2, <2>3
<1>12. Head(left) = Planned[m + 1]
  BY <1>8, <1>9, <1>10
<1>13. \A k \in 1..Len(left') : left'[k] = Planned'[Out' + k]
  <2> SUFFICES ASSUME NEW k \in 1..Len(left') PROVE left'[k] = Planned'[Out' + k]
    OBVIOUS
  <2>1. k \in 1..Len(left) - 1 /\ k + 1 \in 1..Len(left) /\ m + (k + 1) = (m + 1) + k
    BY <1>4, <1>5
  <2>2. left'[k] = left[k + 1]
    BY <1>4, <1>8, <2>1
  <2>3. left[k + 1] = Planned[m + (k + 1)]
    BY <1>9, <1>10, <2>1
  <2>4. QED
    BY <1>6, <1>11, <2>1, <2>2, <2>3
<1>14. \A k \in 1..Out' : There(k)'
  <2> SUFFICES ASSUME NEW k \in 1..m + 1
               PROVE  BlockAt(disk', header_pos + 2 * (k - 1), Planned[k])
    BY <1>3, <1>6, <1>11 DEF There
  <2>1. CASE k = m + 1
    <3>1. header_pos + 2 * (k - 1) = pos
      BY <1>7, <1>9, <1>10, <2>1
    <3>2. PICK g, d, b : g = disk' /\ d = disk /\ b = Head(left)
      OBVIOUS
    <3>3. BlockAt(g, pos, b)
      BY <1>4, <1>7, <3>2, WrittenBlock
    <3>4. QED
      BY <1>12, <2>1, <3>1, <3>2, <3>3
  <2>2. CASE k # m + 1
    <3>1. k \in 1..m
      BY <2>2
    <3>2. There(k)
      BY <1>9, <1>10, <3>1
    <3>3. PICK g, d, b, u, c : /\ g = disk' /\ d = disk /\ b = Head(left)
                               /\ u = header_pos + 2 * (k - 1) /\ c = Planned[k]
      OBVIOUS
    <3>4. u \in Nat /\ u + 2 <= pos
      BY <1>7, <1>9, <1>10, <3>1, <3>3
    <3>5. BlockAt(d, u, c) /\ Written(d, g, pos, b, 2)
      BY <1>4, <3>2, <3>3 DEF There
    <3>6. 2 \in Nat
      OBVIOUS
    <3>7. BlockAt(g, u, c)
      BY <1>7, <3>4, <3>5, <3>6, OtherBlock
    <3>8. QED
      BY <3>3, <3>7
  <2>3. QED
    BY <2>1, <2>2
<1>15. pos' = header_pos' + 2 * Out'
  BY <1>3, <1>4, <1>7, <1>9, <1>10, <1>11
<1>16. ~committed'
  BY <1>2, <1>9 DEF Flushed
<1>17. cdatasize' = IF Out' = 0 THEN 0
                    ELSE IF Out' <= 1 + plan'.data THEN 2 * (Out' - 1) ELSE 2 * plan'.data
  <2>1. Planned[m + 1].type = "d" <=> (m + 1 >= 2 /\ m + 1 <= 1 + plan.data)
    BY <1>1, <1>11, DataAre
  <2>2. cdatasize' = IF Planned[m + 1].type = "d" THEN cdatasize + 2 ELSE cdatasize
    BY <1>2, <1>12 DEF Flushed
  <2>3. PICK data \in Nat : data = plan.data
    BY <1>7
  <2>4. cdatasize = IF m = 0 THEN 0 ELSE IF m <= 1 + data THEN 2 * (m - 1) ELSE 2 * data
    BY <1>9, <1>10, <2>3
  <2>5. cdatasize' = IF m + 1 >= 2 /\ m + 1 <= 1 + data THEN cdatasize + 2 ELSE cdatasize
    BY <2>1, <2>2, <2>3
  <2>6. cdatasize' = IF m + 1 <= 1 + data THEN 2 * m ELSE 2 * data
    <3>1. CASE m = 0
      BY <2>4, <2>5, <3>1
    <3>2. CASE m > 0 /\ m + 1 <= 1 + data
      BY <2>4, <2>5, <3>2
    <3>3. CASE m > 0 /\ ~(m + 1 <= 1 + data)
      BY <2>4, <2>5, <3>3
    <3>4. QED
      BY <3>1, <3>2, <3>3
  <2>7. QED
    BY <1>3, <1>11, <2>3, <2>6
<1>18. QED
  BY <1>4, <1>11, <1>13, <1>14, <1>15, <1>16, <1>17 DEF BodyInv

LEMMA HeaderFlush ==
  ASSUME Calm, GoodInv, FlushEnd, pc = "header", ~stop
  PROVE  HeaderInv'
<1>1. FileInv /\ HeaderInv /\ busy /\ left # <<>>
  BY DEF GoodInv, JournalInv, TypeInv, FileInv, StageInv, FlushEnd
<1>2. Flushed(2)
  BY DEF FlushEnd, Calm
<1>3. /\ date' = date /\ plan' = plan /\ before' = before /\ header_pos' = header_pos
      /\ archive_end' = archive_end
  BY DEF FlushEnd, addvars
<1>4. left = <<Final>> /\ pos = header_pos /\ Laid
  BY <1>1 DEF HeaderInv
<1>5. Final \in BlockSet /\ header_pos \in Nat /\ Size \in Nat /\ archive_end \in Nat
      /\ Len(disk) \in Nat
  BY <1>1, PlanNow DEF FileInv, Archives
<1>6. Head(left) = Final /\ Tail(left) = <<>>
  BY <1>4
<1>7. /\ left' = <<>> /\ Written(disk, disk', header_pos, Final, 2) /\ Len(disk') >= Len(disk)
      /\ disk' \in Archives
  <2>1. 2 \in 0..2
    OBVIOUS
  <2>2. QED
    BY <1>1, <1>2, <1>4, <1>6, <2>1, FlushedIs
<1>8. Planned' = Planned /\ Size' = Size /\ Final' = Final
  BY <1>3, SamePlan
<1>9. committed'
  BY <1>2 DEF Flushed
<1>10. PICK g, d, b : g = disk' /\ d = disk /\ b = Final
  OBVIOUS
<1>11. BlockAt(g, header_pos, b)
  BY <1>5, <1>7, <1>10, WrittenBlock
<1>12. ASSUME NEW k \in 2..Size
       PROVE  BlockAt(g, header_pos + 2 * (k - 1), Planned[k])
  <2>1. PICK u, c : u = header_pos + 2 * (k - 1) /\ c = Planned[k]
    OBVIOUS
  <2>2. u \in Nat /\ u >= header_pos + 2 /\ 2 \in Nat
    BY <1>5, <2>1
  <2>3. BlockAt(d, u, c) /\ Written(d, g, header_pos, b, 2)
    BY <1>4, <1>7, <1>10, <2>1 DEF Laid, There
  <2>4. BlockAt(g, u, c)
    BY <1>5, <2>2, <2>3, OtherBlock
  <2>5. QED
    BY <2>1, <2>4
<1>13. Len(disk') >= archive_end
  <2>1. Len(disk') \in Nat
    BY <1>7 DEF Archives
  <2>2. Len(disk) >= archive_end
    BY <1>4 DEF Laid
  <2>3. QED
    BY <1>5, <1>7, <2>1, <2>2
<1>14. Laid'
  BY <1>3, <1>4, <1>8, <1>10, <1>12, <1>13 DEF Laid, There
<1>15. Whole'
  BY <1>3, <1>8, <1>10, <1>11, <1>14 DEF Whole
<1>16. QED
  BY <1>7, <1>9, <1>14, <1>15 DEF HeaderInv

LEMMA StageFlush == ASSUME Calm, GoodInv, FlushEnd PROVE StageInv'
<1>1. pc \in {"body", "header"} /\ pc' = pc /\ stop' = stop
  BY DEF FlushEnd, GoodInv, JournalInv, TypeInv, FileInv, hvars
<1>2. BodyInv'
  BY <1>1, BodyFlush DEF BodyInv
<1>3. HeaderInv'
  BY <1>1, HeaderFlush DEF HeaderInv
<1>4. QED
  BY <1>1, <1>2, <1>3 DEF StageInv, ShutInv, DoneInv

\* The end of the body: all its blocks are there, and the first of them again is left.
LEMMA StageEndBody == ASSUME Calm, GoodInv, EndBody PROVE StageInv'
<1>1. FileInv /\ BodyInv /\ StopInv
  BY DEF GoodInv, JournalInv, TypeInv, StageInv
<1>2. ~stop
  BY <1>1, NotStopped DEF EndBody
<1>3. pc = "body" /\ left = <<>>
  BY DEF EndBody
<1>4. /\ date' = date /\ plan' = plan /\ before' = before /\ header_pos' = header_pos
      /\ disk' = disk /\ committed' = committed /\ pc' = "header" /\ stop' = stop
      /\ archive_end' = pos /\ pos' = header_pos
      /\ left' = <<CBlock(date, HtSize(Read(before)), cdatasize)>>
  BY DEF EndBody, addvars, hvars
<1>5. Size \in Nat /\ Size >= 1 /\ Size >= 1 + plan.data /\ plan.data \in Nat /\ header_pos \in Nat
  BY <1>1, PlanNow DEF FileInv
<1>6. Out = Size
  BY <1>3, <1>5 DEF Out
<1>7. /\ ~committed /\ pos = header_pos + 2 * Size /\ Len(disk) >= pos
      /\ \A k \in 1..Size : There(k)
      /\ cdatasize = IF Size = 0 THEN 0
                     ELSE IF Size <= 1 + plan.data THEN 2 * (Size - 1) ELSE 2 * plan.data
  BY <1>1, <1>2, <1>3, <1>6 DEF BodyInv
<1>8. cdatasize = 2 * plan.data
  <2>1. PICK data, n \in Nat : data = plan.data /\ n = Size
    BY <1>5
  <2>2. n >= 1 /\ n >= 1 + data /\ data \in Nat
    BY <1>5, <2>1
  <2>3. cdatasize = IF n = 0 THEN 0 ELSE IF n <= 1 + data THEN 2 * (n - 1) ELSE 2 * data
    BY <1>7, <2>1
  <2>4. cdatasize = 2 * data
    BY <2>2, <2>3
  <2>5. QED
    BY <2>1, <2>4
<1>9. left' = <<Final>>
  BY <1>4, <1>8 DEF Final
<1>10. /\ Planned' = Planned /\ Size' = Size /\ Final' = Final
       /\ \A k : There(k)' <=> There(k)
  BY <1>4, SameBlocks
<1>11. \A k \in 2..Size : There(k)
  <2>1. \A k \in 2..Size : k \in 1..Size
    BY <1>5
  <2>2. QED
    BY <1>7, <2>1
<1>12. Laid'
  BY <1>4, <1>7, <1>10, <1>11 DEF Laid
<1>13. There(1)'
  <2>1. 1 \in 1..Size
    BY <1>5
  <2>2. QED
    BY <1>7, <1>10, <2>1
<1>14. HeaderInv'
  BY <1>4, <1>7, <1>9, <1>10, <1>12, <1>13 DEF HeaderInv
<1>15. QED
  BY <1>4, <1>14 DEF StageInv, BodyInv, ShutInv, DoneInv

LEMMA StageClose ==
  ASSUME Calm, GoodInv, EndHeader \/ ReleaseHandle \/ CloseArchive
  PROVE  StageInv'
<1>1. FileInv /\ HeaderInv /\ ShutInv /\ StopInv
  BY DEF GoodInv, JournalInv, TypeInv, StageInv
<1>2. ~stop
  BY <1>1, NotStopped DEF EndHeader, ReleaseHandle, CloseArchive
<1>3. /\ date' = date /\ plan' = plan /\ before' = before /\ header_pos' = header_pos
      /\ disk' = disk /\ committed' = committed /\ archive_end' = archive_end /\ stop' = stop
      /\ pc' \in {"close", "closing", "cut"}
  BY DEF EndHeader, ReleaseHandle, CloseArchive, addvars, hvars
<1>4. Whole' <=> Whole
  BY <1>3, SameBlocks
<1>5. CASE EndHeader
  <2>1. pc = "header" /\ left = <<>> /\ archive_size' = Len(disk)
    BY <1>5 DEF EndHeader
  <2>2. left # <<Final>>
    BY <2>1
  <2>3. committed /\ Whole
    BY <1>1, <1>2, <2>1, <2>2 DEF HeaderInv
  <2>4. QED
    BY <1>3, <1>4, <2>1, <2>3 DEF StageInv, BodyInv, HeaderInv, ShutInv, DoneInv
<1>6. CASE ReleaseHandle \/ CloseArchive
  <2>1. pc \in {"close", "closing"} /\ archive_size' = archive_size
    BY <1>6 DEF ReleaseHandle, CloseArchive
  <2>2. committed /\ Whole /\ archive_size = Len(disk)
    BY <1>1, <1>2, <2>1 DEF ShutInv
  <2>3. QED
    BY <1>3, <1>4, <2>1, <2>2 DEF StageInv, BodyInv, HeaderInv, ShutInv, DoneInv
<1>7. QED
  BY <1>5, <1>6

\* The older tail goes; of an empty version, all.
LEMMA StageCut == ASSUME Calm, GoodInv, Cut PROVE StageInv'
<1>1. FileInv /\ ShutInv /\ StopInv
  BY DEF GoodInv, JournalInv, TypeInv, StageInv
<1>2. ~stop
  BY <1>1, NotStopped DEF Cut
<1>3. /\ date' = date /\ plan' = plan /\ before' = before /\ header_pos' = header_pos
      /\ disk' = CutTo /\ committed' = (committed /\ ~Empty) /\ archive_end' = archive_end
      /\ stop' = stop /\ pc' = "after" /\ pc = "cut"
  BY DEF Cut, addvars, hvars, outvars
<1>4. committed /\ Whole /\ archive_size = Len(disk)
  BY <1>1, <1>2, <1>3 DEF ShutInv
<1>5. Size \in Nat /\ Size >= 1 /\ header_pos \in Nat /\ disk \in Archives /\ Len(disk) \in Nat
      /\ archive_end \in Nat /\ archive_end = header_pos + 2 * Size /\ Len(disk) >= archive_end
  BY <1>1, <1>4, PlanNow DEF FileInv, Archives, Whole, Laid
<1>6. Planned' = Planned /\ Size' = Size /\ Final' = Final /\ (Empty' <=> Empty)
  BY <1>3, SamePlan
<1>7. CASE Empty
  <2>1. Size = 1
    <3>1. plan.index = 0 /\ plan.data \in Nat
      BY <1>1, <1>7, PlanNow DEF Empty
    <3>2. plan.data = 0
      BY <1>1, <3>1, PlanNow
    <3>3. QED
      BY <3>1, <3>2 DEF Size
  <2>2. archive_end - header_pos = 2 /\ header_pos < archive_size
    BY <1>4, <1>5, <2>1
  <2>3. FinalEnd = header_pos
    BY <1>7, <2>2 DEF FinalEnd
  <2>4. disk' = Resized(disk, header_pos)
    BY <1>3, <2>2, <2>3 DEF CutTo
  <2>5. Len(disk') = header_pos
    <3>1. PICK g, d, m : g = disk' /\ d = disk /\ m = header_pos
      OBVIOUS
    <3>2. Len(g) = m
      BY <1>5, <2>4, <3>1, ResizedIs
    <3>3. QED
      BY <3>1, <3>2
  <2>6. QED
    BY <1>3, <1>6, <1>7, <2>5 DEF StageInv, BodyInv, HeaderInv, ShutInv, DoneInv
<1>8. CASE ~Empty
  <2>1. FinalEnd = archive_end
    BY <1>8 DEF FinalEnd
  <2>2. PICK g, d, m : g = disk' /\ d = disk /\ m = archive_end
    OBVIOUS
  <2>3. Len(g) = m /\ \A u \in Nat : \A c : (u + 2 <= m /\ BlockAt(d, u, c)) => BlockAt(g, u, c)
    <3>1. CASE m < archive_size
      <4>1. g = Resized(d, m)
        BY <1>3, <2>1, <2>2, <3>1 DEF CutTo
      <4>2. Len(g) = m /\ CutAt(d, g, m)
        BY <1>5, <2>2, <4>1, ResizedIs
      <4>3. m \in Nat
        BY <1>5, <2>2
      <4>4. QED
        BY <4>2, <4>3, UncutBlock
    <3>2. CASE ~(m < archive_size)
      <4>1. g = d
        BY <1>3, <2>1, <2>2, <3>2 DEF CutTo
      <4>2. Len(d) = m
        BY <1>4, <1>5, <2>2, <3>2
      <4>3. QED
        BY <4>1, <4>2
    <3>3. QED
      BY <3>1, <3>2
  <2>4. \A k \in 2..Size : BlockAt(g, header_pos + 2 * (k - 1), Planned[k])
    <3> SUFFICES ASSUME NEW k \in 2..Size
                 PROVE  BlockAt(g, header_pos + 2 * (k - 1), Planned[k])
      OBVIOUS
    <3>1. PICK u, c : u = header_pos + 2 * (k - 1) /\ c = Planned[k]
      OBVIOUS
    <3>2. u \in Nat /\ u + 2 <= m
      BY <1>5, <2>2, <3>1
    <3>3. BlockAt(d, u, c)
      BY <1>4, <2>2, <3>1 DEF Whole, Laid, There
    <3>4. BlockAt(g, u, c)
      BY <2>3, <3>2, <3>3
    <3>5. QED
      BY <3>1, <3>4
  <2>5. BlockAt(g, header_pos, Final)
    <3>1. header_pos + 2 <= m
      BY <1>5, <2>2
    <3>2. BlockAt(d, header_pos, Final)
      BY <1>4, <2>2 DEF Whole
    <3>3. QED
      BY <1>5, <2>3, <3>1, <3>2
  <2>6. Len(g) >= m
    BY <1>5, <2>2, <2>3
  <2>7. Laid'
    BY <1>3, <1>5, <1>6, <2>2, <2>4, <2>6 DEF Laid, There
  <2>8. Whole'
    BY <1>3, <1>6, <2>2, <2>5, <2>7 DEF Whole
  <2>9. QED
    BY <1>3, <1>4, <1>6, <1>8, <2>2, <2>3, <2>8 DEF StageInv, BodyInv, HeaderInv, ShutInv, DoneInv
<1>9. QED
  BY <1>7, <1>8

\* An add begins with all its blocks left, and the archive as it is.
LEMMA StageBegin ==
  ASSUME GoodInv, NEW p \in Plans, Begin(p)
  PROVE  StageInv' /\ Len(disk') >= header_pos'
<1>1. FileInv /\ CountInv /\ SoundInv
  BY DEF GoodInv, JournalInv, TypeInv
<1>2. /\ pc = "idle" /\ pc' = "body" /\ ~committed' /\ plan' = p /\ date' = date + 1
      /\ header_pos' = AppendPosition(Read(disk)) /\ pos' = header_pos' /\ before' = disk
      /\ disk' = disk /\ cdatasize' = 0 /\ left' = BlocksOf(date + 1, p, HtSize(Read(disk)))
  BY DEF Begin
<1>3. AppendPosition(Read(disk)) \in Nat /\ HtSize(Read(disk)) \in Nat \ {0} /\ date + 1 \in Nat
  BY <1>1, ReadIs, JournalAssumption DEF FileInv
<1>4. left' = Planned'
  BY <1>2 DEF Planned
<1>5. PICK d, htsize, s : d = date + 1 /\ htsize = HtSize(Read(disk)) /\ s = left'
  OBVIOUS
<1>6. s \in Seq(BlockSet) /\ Len(s) = 1 + 2 * p.data + p.index
  BY <1>2, <1>3, <1>5, BlocksAre
<1>7. Size' = Len(left') /\ Len(left') \in Nat
  BY <1>2, <1>5, <1>6 DEF Size
<1>8. Out' = 0
  BY <1>7 DEF Out
<1>9. Len(disk) >= AppendPosition(Read(disk))
  <2>1. PICK f, vs, X : f = disk /\ vs = versions /\ X = [1..Names -> Seq(Nat)]
    OBVIOUS
  <2>2. f \in Archives /\ vs \in Seq(X) /\ Sound(f, vs)
    BY <1>1, <1>2, <2>1 DEF FileInv, CountInv, SoundInv
  <2>3. CleanTail(f, Read(f).block_offset)
    BY <2>2, SoundIs
  <2>4. Len(f) >= Read(f).block_offset
    BY <1>3, <2>1, <2>2, <2>3, TailIs DEF AppendPosition
  <2>5. QED
    BY <2>1, <2>4 DEF AppendPosition
<1>10. \A k \in 1..Len(left') : left'[k] = Planned'[Out' + k]
  BY <1>4, <1>7, <1>8
<1>11. pos' = header_pos' + 2 * Out'
  BY <1>2, <1>3, <1>8
<1>12. \A k \in 1..Out' : There(k)'
  BY <1>8
<1>13. BodyInv'
  BY <1>2, <1>8, <1>9, <1>10, <1>11, <1>12 DEF BodyInv
<1>14. QED
  BY <1>2, <1>9, <1>13 DEF StageInv, HeaderInv, ShutInv, DoneInv

\* The stage is not disturbed where nothing of it changes but that control-C may stop it.
LEMMA StageStays ==
  ASSUME StageInv, UNCHANGED <<disk, pc, committed, left, pos, cdatasize, archive_end, archive_size,
                               date, plan, header_pos, before, complete>>, stop => stop'
  PROVE  StageInv'
<1>1. /\ disk' = disk /\ pc' = pc /\ committed' = committed /\ left' = left /\ pos' = pos
      /\ cdatasize' = cdatasize /\ archive_end' = archive_end /\ archive_size' = archive_size
      /\ date' = date /\ plan' = plan /\ header_pos' = header_pos /\ before' = before
      /\ complete' = complete
  OBVIOUS
<1>2. /\ Planned' = Planned /\ Size' = Size /\ Final' = Final /\ (Empty' <=> Empty)
      /\ (\A k : There(k)' <=> There(k)) /\ (Laid' <=> Laid) /\ (Whole' <=> Whole)
  BY <1>1, SameBlocks
<1>3. Out' = Out
  BY <1>1, <1>2 DEF Out
<1>4. BodyInv'
  BY <1>1, <1>2, <1>3 DEF StageInv, BodyInv
<1>5. HeaderInv'
  BY <1>1, <1>2 DEF StageInv, HeaderInv
<1>6. ShutInv'
  BY <1>1, <1>2 DEF StageInv, ShutInv
<1>7. DoneInv'
  BY <1>1, <1>2 DEF StageInv, DoneInv
<1>8. QED
  BY <1>4, <1>5, <1>6, <1>7 DEF StageInv

LEMMA StageInvKept == ASSUME Calm, GoodInv, [Next]_vars PROVE StageInv'
<1>1. FileInv /\ FlagInv /\ StopInv /\ StageInv
  BY DEF GoodInv, JournalInv, TypeInv
<1>2. CASE FlushBegin
  BY <1>1, <1>2, StageStays DEF FlushBegin, addvars, hvars
<1>3. CASE FlushDiscard
  <2>1. stop' /\ pc' = pc /\ complete' = complete /\ pc \in {"body", "header"}
    BY <1>3 DEF FlushDiscard, Flushing, Stopped, hvars
  <2>2. QED
    BY <2>1 DEF StageInv, BodyInv, HeaderInv, ShutInv, DoneInv
<1>4. CASE FlushEnd
  BY <1>4, StageFlush
<1>5. CASE EndBody
  BY <1>5, StageEndBody
<1>6. CASE EndHeader \/ ReleaseHandle \/ CloseArchive
  BY <1>6, StageClose
<1>7. CASE Cut
  BY <1>7, StageCut
<1>8. CASE Complete
  <2>1. ~stop
    BY <1>1, <1>8, NotStopped DEF Complete
  <2>2. /\ pc = "after" /\ pc' = "done" /\ disk' = disk /\ committed' = committed
        /\ archive_end' = archive_end /\ header_pos' = header_pos
        /\ date' = date /\ plan' = plan /\ before' = before
    BY <1>8 DEF Complete, outvars, addvars
  <2>3. (Whole' <=> Whole) /\ (Empty' <=> Empty)
    BY <2>2, SameBlocks
  <2>4. DoneInv'
    BY <1>1, <2>1, <2>2, <2>3 DEF StageInv, DoneInv
  <2>5. QED
    BY <2>2, <2>4 DEF StageInv, BodyInv, HeaderInv, ShutInv
<1>9. CASE Exit \/ Kill \/ HandlerExit
  <2>1. pc' = "idle"
    BY <1>9 DEF Exit, Kill, HandlerExit, Gone
  <2>2. QED
    BY <2>1 DEF StageInv, BodyInv, HeaderInv, ShutInv, DoneInv
<1>10. CASE Trim
  <2>1. pc' = "idle"
    BY <1>10 DEF Trim
  <2>2. QED
    BY <2>1 DEF StageInv, BodyInv, HeaderInv, ShutInv, DoneInv
<1>11. CASE PressControlC
  BY <1>1, <1>11, StageStays DEF PressControlC, outvars, addvars
<1>12. CASE HandlerWait
  BY <1>1, <1>12, StageStays DEF HandlerWait, outvars, addvars
<1>13. CASE HandlerClose
  BY <1>1, <1>13, StageStays DEF HandlerClose, addvars
<1>14. CASE HandlerRollback
  <2>1. stop' /\ ~complete'
    BY <1>1, <1>14 DEF HandlerRollback, FlagInv, StopInv
  <2>2. QED
    BY <2>1 DEF StageInv, BodyInv, HeaderInv, ShutInv, DoneInv
<1>15. ASSUME NEW p \in Plans, Begin(p) PROVE StageInv'
  BY <1>15, StageBegin
<1>16. CASE UNCHANGED vars
  BY <1>1, <1>16, StageStays DEF vars, outvars, addvars, hvars
<1>17. QED
  BY <1>2, <1>3, <1>4, <1>5, <1>6, <1>7, <1>8, <1>9, <1>10, <1>11, <1>12, <1>13, <1>14, <1>15,
     <1>16 DEF Next, Add2, Handler

-----------------------------------------------------------------------------
(* Control-C.                                                              *)

LEMMA SameFile ==
  ASSUME NEW f \in Archives, NEW g \in Archives, Len(f) = Len(g), SameUpTo(f, g, Len(f))
  PROVE  f = g
<1>1. Len(f) \in Nat /\ f \in Seq(CellSet) /\ g \in Seq(CellSet)
  BY DEF Archives
<1>2. \A k \in 1..Len(f) : f[k] = g[k]
  BY <1>1 DEF SameUpTo, CellAt
<1>3. QED
  BY <1>1, <1>2

\* Where nothing follows the versions, the handler puts back what the add has found.
LEMMA RollbackIs ==
  ASSUME TypeInv, Tidy(before), header_pos = AppendPosition(Read(before)),
         Keeps(before, disk, header_pos), Len(disk) >= header_pos
  PROVE  RolledBack = before
<1>1. before \in Archives /\ disk \in Archives /\ Len(before) \in Nat /\ Len(disk) \in Nat
  BY DEF TypeInv, FileInv, Archives
<1>2. PICK f, d, m : f = before /\ d = disk /\ m = Len(before)
  OBVIOUS
<1>3. m = header_pos /\ SameUpTo(f, d, m) /\ Len(d) >= m /\ m \in Nat
  BY <1>1, <1>2 DEF Tidy, AppendPosition, Keeps
<1>4. CASE Len(d) > m
  <2>1. PICK g : g = SubSeq(d, 1, m)
    OBVIOUS
  <2>2. m <= Len(d)
    BY <1>1, <1>2, <1>4
  <2>3. g \in Archives /\ Len(g) = m /\ CutAt(d, g, m)
    BY <1>1, <1>2, <1>3, <2>1, <2>2, PrefixIs
  <2>4. SameUpTo(f, g, m)
    <3>1. \A k \in 1..m : k \in Nat \ {0} /\ k <= m
      BY <1>3
    <3>2. \A k \in 1..m : CellAt(g, k) = CellAt(d, k)
      BY <2>3, <3>1 DEF CutAt
    <3>3. QED
      BY <1>3, <3>2 DEF SameUpTo
  <2>5. f = g
    BY <1>1, <1>2, <2>3, <2>4, SameFile
  <2>6. RolledBack = g
    BY <1>2, <1>4, <2>1 DEF RolledBack
  <2>7. QED
    BY <1>2, <2>5, <2>6
<1>5. CASE ~(Len(d) > m)
  <2>1. Len(d) = Len(f)
    BY <1>1, <1>2, <1>3, <1>5
  <2>2. f = d
    BY <1>1, <1>2, <1>3, <2>1, SameFile
  <2>3. QED
    BY <1>2, <1>5, <2>2 DEF RolledBack
<1>6. QED
  BY <1>4, <1>5

LEMMA StopInvKept == ASSUME Calm, GoodInv, [Next]_vars PROVE StopInv'
<1>1. FileInv /\ FlagInv /\ StopInv /\ PlaceInv /\ WriteInv /\ SoundInv
  BY DEF GoodInv, JournalInv, TypeInv
<1>2. CASE FlushBegin
  <2>1. pc # "idle" /\ pc # "done"
    BY <1>2 DEF FlushBegin, Flushing
  <2>2. QED
    BY <1>1, <1>2, <2>1 DEF FlushBegin, StopInv, addvars, hvars
<1>3. CASE FlushDiscard
  BY <1>1, <1>3 DEF FlushDiscard, StopInv, addvars, hvars
<1>4. CASE FlushEnd
  <2>1. pc # "idle" /\ pc' = pc /\ hpc' = hpc /\ complete' = complete /\ stop' = stop /\ banner' = banner
    BY <1>1, <1>4 DEF FlushEnd, FileInv, hvars
  <2>2. hpc # "saying"
    BY <1>1, <1>4 DEF FlushEnd, PlaceInv
  <2>3. QED
    BY <1>1, <2>1, <2>2 DEF StopInv
<1>5. CASE EndBody \/ EndHeader \/ ReleaseHandle \/ CloseArchive
  <2>1. hpc = "none" /\ ~stop
    BY <1>1, <1>5, NotStopped DEF EndBody, EndHeader, ReleaseHandle, CloseArchive
  <2>2. /\ pc # "done" /\ pc' \notin {"done", "idle"} /\ complete' = complete /\ hpc' = hpc
        /\ stop' = stop /\ banner' = banner
    BY <1>5 DEF EndBody, EndHeader, ReleaseHandle, CloseArchive, hvars
  <2>3. QED
    BY <1>1, <2>1, <2>2 DEF StopInv
<1>6. CASE Cut \/ Complete
  <2>1. hpc = "none" /\ ~stop
    BY <1>1, <1>6, NotStopped DEF Cut, Complete
  <2>2. /\ pc' # "idle" /\ hpc' = hpc /\ stop' = stop /\ banner' = banner
        /\ complete' <=> pc' = "done"
    BY <1>1, <1>6 DEF Cut, Complete, hvars, StopInv
  <2>3. QED
    BY <1>1, <2>1, <2>2 DEF StopInv
<1>7. CASE Exit \/ Kill
  <2>1. pc' = "idle" /\ hpc' = "none" /\ ~stop' /\ banner' = "none" /\ ~complete'
    BY <1>7 DEF Exit, Kill, Gone
  <2>2. QED
    BY <2>1 DEF StopInv
<1>8. CASE HandlerExit
  <2>1. /\ pc' = "idle" /\ hpc' = "none" /\ ~stop' /\ ~complete' /\ disk' = disk /\ before' = before
        /\ banner' = IF complete THEN "kept" ELSE "back"
        /\ hpc = "saying"
    BY <1>8 DEF HandlerExit, Gone
  <2>2. ControlC = "main"
    BY <1>1, <2>1 DEF FlagInv, StopInv
  <2>3. QED
    BY <1>1, <2>1, <2>2 DEF StopInv
<1>9. CASE Trim
  <2>1. pc = "idle" /\ pc' = pc /\ hpc' = hpc /\ stop' = stop /\ banner' = banner
        /\ complete' = complete /\ hpc = "none"
    BY <1>1, <1>9 DEF Trim, hvars, FlagInv
  <2>2. banner # "back"
    <3> SUFFICES ASSUME banner = "back" PROVE FALSE
      OBVIOUS
    <3>1. ~Kills
      BY <1>1 DEF StopInv, Calm
    <3>2. Len(disk) = AppendPosition(Read(disk)) /\ Len(disk) \in Nat
      BY <1>1, <2>1, <3>1 DEF SoundInv, Tidy, AppendPosition, FileInv, Archives
    <3>3. QED
      BY <1>9, <3>2 DEF Trim
  <2>3. QED
    BY <1>1, <2>1, <2>2 DEF StopInv
<1>10. CASE PressControlC
  <2>1. ControlC = "main"
    BY <1>10, JournalAssumption DEF PressControlC, Calm
  <2>2. QED
    BY <1>1, <1>10, <2>1 DEF PressControlC, StopInv, outvars, addvars
<1>11. CASE HandlerWait
  BY <1>1, <1>11 DEF HandlerWait, StopInv, FlagInv, outvars, addvars
<1>12. CASE HandlerClose
  BY <1>1, <1>12 DEF HandlerClose, StopInv, FlagInv, addvars
<1>13. CASE HandlerRollback
  <2>1. /\ hpc = "rolling" /\ hpc' = "saying" /\ pc' = pc /\ stop' = stop /\ banner' = banner
        /\ complete' = complete /\ disk' = RolledBack /\ before' = before
    BY <1>13 DEF HandlerRollback, outvars, addvars
  <2>2. pc # "idle" /\ stop
    BY <1>1, <2>1 DEF FlagInv
  <2>3. ~Kills
    BY <1>1, <2>2 DEF StopInv, Calm
  <2>4. RolledBack = before
    BY <1>1, <2>2, <2>3, RollbackIs DEF SoundInv, PlaceInv, WriteInv, GoodInv, JournalInv
  <2>5. QED
    BY <1>1, <2>1, <2>2, <2>4 DEF StopInv
<1>14. ASSUME NEW p \in Plans, Begin(p) PROVE StopInv'
  BY <1>14 DEF Begin, StopInv
<1>15. CASE UNCHANGED vars
  BY <1>1, <1>15 DEF vars, addvars, hvars, StopInv
<1>16. QED
  BY <1>2, <1>3, <1>4, <1>5, <1>6, <1>7, <1>8, <1>9, <1>10, <1>11, <1>12, <1>13, <1>14,
     <1>15 DEF Next, Add2, Handler

-----------------------------------------------------------------------------
(* What an add leaves, however it ends.                                    *)

\* Killed before the first block, nothing has changed; then the header, and the last
\* one of the two in the add's way, says incomplete.
LEMMA KilledInBody ==
  ASSUME GoodInv, pc = "body", ~stop,
         disk' = disk \/ (busy /\ Head(left).type # "c" /\ disk' = WriteAt(disk, pos, Head(left), 1))
  PROVE  Sound(disk', versions)
<1>1. /\ JournalInv /\ TypeInv /\ FileInv /\ BodyInv /\ Sound(before, versions)
      /\ header_pos = AppendPosition(Read(before))
  BY DEF GoodInv, JournalInv, TypeInv, StageInv, SoundInv, PlaceInv
<1>2. disk' \in Archives /\ Keeps(before, disk', header_pos)
  BY <1>1, KillKeeps
<1>3. /\ Len(left) \in Nat /\ Out \in Nat /\ Len(left) = Size - Out /\ Size \in Nat
      /\ header_pos \in Nat /\ pos \in Nat /\ Size >= 1
  BY <1>1, OutIs, PlanNow DEF FileInv
<1>4. CASE Out = 0
  <2>1. disk = before
    BY <1>1, <1>4 DEF BodyInv
  <2>2. left[1] = Planned[1]
    <3>1. 1 \in 1..Len(left) /\ Out + 1 = 1
      BY <1>3, <1>4
    <3>2. left[1] = Planned[Out + 1]
      BY <1>1, <3>1 DEF BodyInv
    <3>3. QED
      BY <3>1, <3>2
  <2>3. Planned[1].type = "c"
    <3>1. Planned[1] = CBlock(date, HtSize(Read(before)), Incomplete)
      BY <1>1, PlannedNow DEF PlannedAs
    <3>2. QED
      BY <3>1 DEF CBlock, Block
  <2>4. busy => Head(left).type = "c"
    <3>1. busy => Head(left) = left[1]
      BY <1>1, HeadTail DEF FileInv
    <3>2. QED
      BY <2>2, <2>3, <3>1
  <2>5. QED
    BY <1>1, <2>1, <2>4
<1>5. CASE Out # 0
  <2>1. 1 \in 1..Out
    BY <1>3, <1>5
  <2>2. There(1) /\ pos = header_pos + 2 * Out
    BY <1>1, <2>1 DEF BodyInv
  <2>3. BlockAt(disk, header_pos, Planned[1])
    <3>1. header_pos + 2 * (1 - 1) = header_pos
      BY <1>3
    <3>2. QED
      BY <2>2, <3>1 DEF There
  <2>4. BlockAt(disk', header_pos, Planned[1])
    <3>1. CASE busy /\ disk' = WriteAt(disk, pos, Head(left), 1)
      <4>1. PICK d, g, o, b, c : /\ d = disk /\ g = disk' /\ o = pos /\ b = Head(left)
                                 /\ c = Planned[1]
        OBVIOUS
      <4>2. b \in BlockSet /\ d \in Archives /\ o \in Nat
        BY <1>1, <3>1, <4>1, HeadTail DEF FileInv
      <4>3. 1 \in 0..2 /\ g = WriteAt(d, o, b, 1) /\ 1 \in Nat
        BY <3>1, <4>1
      <4>4. Written(d, g, o, b, 1)
        BY <4>2, <4>3, WriteIs
      <4>5. header_pos + 2 <= o
        BY <1>3, <1>5, <2>2, <4>1
      <4>6. BlockAt(g, header_pos, c)
        BY <1>3, <2>3, <4>1, <4>2, <4>3, <4>4, <4>5, OtherBlock
      <4>7. QED
        BY <4>1, <4>6
    <3>2. QED
      BY <2>3, <3>1
  <2>5. CleanTail(disk', header_pos)
    BY <1>1, <1>3, <2>4, FirstIsUnfinished DEF CleanTail
  <2>6. QED
    BY <1>1, <1>2, <2>5, StillSound
<1>6. QED
  BY <1>4, <1>5

\* The add is over, as far as the archive goes.
LEMMA AddIsOver ==
  ASSUME GoodInv, pc \in {"after", "done"}, ~stop \/ complete
  PROVE  /\ committed <=> ~Empty
         /\ Sound(disk, IF committed THEN Append(versions, Intended) ELSE versions) /\ Tidy(disk)
<1>1. /\ TypeInv /\ DoneInv /\ Sound(before, versions) /\ disk \in Archives
      /\ header_pos = AppendPosition(Read(before)) /\ Keeps(before, disk, header_pos)
  BY DEF GoodInv, JournalInv, TypeInv, StageInv, SoundInv, PlaceInv, WriteInv, FileInv
<1>2. CASE Empty
  <2>1. ~committed /\ Len(disk) = header_pos
    BY <1>1, <1>2 DEF DoneInv
  <2>2. CleanTail(disk, header_pos)
    BY <2>1 DEF CleanTail
  <2>3. Sound(disk, versions) /\ Read(disk).block_offset = header_pos
    BY <1>1, <2>2, StillSound
  <2>4. QED
    BY <1>2, <2>1, <2>3 DEF Tidy
<1>3. CASE ~Empty
  <2>1. committed /\ Whole /\ Len(disk) = archive_end
    BY <1>1, <1>3 DEF DoneInv
  <2>2. QED
    BY <1>1, <1>3, <2>1, NewSound
<1>4. QED
  BY <1>2, <1>3

LEMMA KilledSound ==
  ASSUME Calm, GoodInv, Kill
  PROVE  Sound(disk', IF committed THEN Append(versions, Intended) ELSE versions)
<1>1. /\ JournalInv /\ TypeInv /\ FileInv /\ FlagInv /\ StopInv /\ HeaderInv /\ ShutInv
  BY DEF GoodInv, JournalInv, TypeInv, StageInv
<1>2. pc # "idle" /\ ~stop
  BY <1>1 DEF Kill, Calm, StopInv
<1>3. /\ Sound(before, versions) /\ header_pos = AppendPosition(Read(before))
      /\ Keeps(before, disk, header_pos) /\ disk \in Archives /\ header_pos \in Nat
  BY <1>2 DEF GoodInv, JournalInv, SoundInv, PlaceInv, WriteInv, TypeInv, FileInv
<1>4. disk' = disk \/ (busy /\ Head(left).type # "c" /\ disk' = WriteAt(disk, pos, Head(left), 1))
  BY DEF Kill
<1>5. ~InWindow
  BY DEF Kill, Calm
<1>6. CASE pc = "body"
  <2>1. ~committed
    BY <1>2, <1>6 DEF GoodInv, StageInv, BodyInv
  <2>2. Sound(disk', versions)
    BY <1>2, <1>4, <1>6, KilledInBody
  <2>3. QED
    BY <2>1, <2>2
<1>7. ASSUME committed, Whole, pc \in {"header", "close", "closing", "cut"}
      PROVE  Sound(disk, Append(versions, Intended))
  <2>1. ~(archive_end < Len(disk))
    BY <1>5, <1>7 DEF InWindow
  <2>2. Len(disk) >= archive_end /\ Len(disk) \in Nat /\ archive_end \in Nat
    BY <1>1, <1>7 DEF Whole, Laid, FileInv, Archives
  <2>3. Len(disk) = archive_end
    BY <2>1, <2>2
  <2>4. QED
    BY <1>1, <1>3, <1>7, <2>3, NewSound
<1>8. CASE pc = "header"
  <2>1. CASE left = <<Final>> /\ ~committed /\ There(1)
    <3>1. Head(left).type = "c"
      BY <2>1 DEF Final, CBlock, Block
    <3>2. disk' = disk
      BY <1>4, <3>1
    <3>3. header_pos + 2 * (1 - 1) = header_pos
      BY <1>3
    <3>4. BlockAt(disk, header_pos, Planned[1])
      BY <2>1, <3>3 DEF There
    <3>5. CleanTail(disk, header_pos)
      BY <1>1, <1>3, <3>4, FirstIsUnfinished DEF CleanTail
    <3>6. Sound(disk, versions)
      BY <1>1, <1>3, <3>5, StillSound
    <3>7. QED
      BY <2>1, <3>2, <3>6
  <2>2. CASE left = <<>> /\ committed /\ Whole
    <3>1. disk' = disk
      BY <1>1, <1>4, <2>2 DEF FileInv
    <3>2. QED
      BY <1>7, <1>8, <2>2, <3>1
  <2>3. QED
    BY <1>1, <1>2, <1>8, <2>1, <2>2 DEF HeaderInv
<1>9. pc \notin {"body", "header"} => disk' = disk
  BY <1>1, <1>4 DEF FileInv
<1>10. CASE pc \in {"close", "closing", "cut"}
  <2>1. committed /\ Whole
    BY <1>1, <1>2, <1>10 DEF ShutInv
  <2>2. QED
    BY <1>7, <1>9, <1>10, <2>1
<1>11. CASE pc \in {"after", "done"}
  BY <1>2, <1>9, <1>11, AddIsOver
<1>12. QED
  BY <1>1, <1>2, <1>6, <1>8, <1>10, <1>11 DEF FlagInv

LEMMA ExitSound ==
  ASSUME Calm, GoodInv, Exit \/ HandlerExit
  PROVE  Sound(disk', versions') /\ (~Kills => Tidy(disk'))
<1>1. FlagInv /\ StopInv /\ SoundInv
  BY DEF GoodInv, JournalInv, TypeInv
<1>2. disk' = disk
  BY DEF Exit, HandlerExit
<1>3. CASE Exit
  <2>1. pc = "done" /\ complete /\ versions' = IF committed THEN Append(versions, Intended) ELSE versions
    BY <1>1, <1>3 DEF Exit, Gone, StopInv
  <2>2. QED
    BY <1>2, <2>1, AddIsOver
<1>4. CASE HandlerExit /\ complete
  <2>1. /\ pc = "done"
        /\ versions' = IF complete /\ ~Empty THEN Append(versions, Intended) ELSE versions
    BY <1>1, <1>4 DEF HandlerExit, Gone, StopInv
  <2>2. QED
    BY <1>2, <1>4, <2>1, AddIsOver
<1>5. CASE HandlerExit /\ ~complete
  <2>1. disk = before /\ pc # "idle" /\ versions' = versions
    BY <1>1, <1>5 DEF HandlerExit, Gone, StopInv, FlagInv
  <2>2. QED
    BY <1>1, <1>2, <2>1 DEF SoundInv
<1>6. QED
  BY <1>3, <1>4, <1>5

LEMMA TrimSound ==
  ASSUME GoodInv, Trim
  PROVE  Sound(disk', versions') /\ Tidy(disk')
<1>1. FileInv /\ CountInv /\ Sound(disk, versions) /\ versions' = versions
  BY DEF GoodInv, JournalInv, TypeInv, SoundInv, Trim, addvars
<1>2. PICK f, g, vs, X, h : /\ f = disk /\ g = disk' /\ vs = versions /\ X = [1..Names -> Seq(Nat)]
                            /\ h = Read(f).block_offset
  OBVIOUS
<1>3. /\ f \in Archives /\ vs \in Seq(X) /\ Sound(f, vs)
      /\ h < Len(f) /\ g = SubSeq(f, 1, h) /\ h \in Nat
  BY <1>1, <1>2, ReadIs DEF FileInv, CountInv, Trim, AppendPosition
<1>4. g \in Archives /\ Keeps(f, g, h)
  BY <1>2, <1>3, TrimKeeps
<1>5. Len(g) = h
  <2>1. Len(f) \in Nat
    BY <1>3 DEF Archives
  <2>2. h <= Len(f)
    BY <1>3, <2>1
  <2>3. QED
    BY <1>3, <2>2, PrefixIs
<1>6. SameUpTo(f, g, h) /\ CleanTail(g, h)
  BY <1>4, <1>5 DEF Keeps, CleanTail
<1>7. Sound(g, vs) /\ Read(g).block_offset = h
  BY <1>2, <1>3, <1>4, <1>6, SoundSame
<1>8. QED
  BY <1>1, <1>2, <1>5, <1>7 DEF Tidy

LEMMA SoundInvKept == ASSUME Calm, GoodInv, [Next]_vars PROVE SoundInv'
<1>1. FileInv /\ FlagInv /\ StopInv /\ PlaceInv /\ WriteInv /\ SoundInv /\ ShutInv
  BY DEF GoodInv, JournalInv, TypeInv, StageInv
<1>h. disk \in Archives /\ Len(disk) \in Nat /\ header_pos \in Nat /\ archive_end \in Nat
  BY <1>1 DEF FileInv, Archives
\* The steps of an add that leave it running.
<1>a. ASSUME pc # "idle", pc' # "idle", before' = before, versions' = versions,
             header_pos' = header_pos, Len(disk') >= header_pos
      PROVE  SoundInv'
  BY <1>1, <1>a DEF SoundInv
<1>2. CASE FlushBegin \/ FlushDiscard
  <2>1. pc # "idle" /\ pc' = pc /\ disk' = disk /\ before' = before /\ versions' = versions
        /\ header_pos' = header_pos
    BY <1>2 DEF FlushBegin, FlushDiscard, Flushing, addvars
  <2>2. QED
    BY <1>1, <1>a, <2>1 DEF SoundInv
<1>3. CASE FlushEnd
  <2>1. pc # "idle" /\ pc' = pc /\ before' = before /\ versions' = versions
        /\ header_pos' = header_pos /\ busy
    BY <1>1, <1>3 DEF FlushEnd, FileInv, addvars
  <2>2. PICK n \in 0..2 : Flushed(n)
    BY <1>3 DEF FlushEnd
  <2>3. Len(disk') >= Len(disk) /\ disk' \in Archives
    BY <1>1, <2>1, <2>2, FlushedIs
  <2>4. Len(disk') \in Nat /\ Len(disk) >= header_pos
    BY <1>1, <2>1, <2>3 DEF Archives, SoundInv
  <2>5. Len(disk') >= header_pos
    BY <1>h, <2>3, <2>4
  <2>6. QED
    BY <1>a, <2>1, <2>5
<1>4. CASE EndBody \/ EndHeader \/ ReleaseHandle \/ CloseArchive \/ Complete
  <2>1. pc # "idle" /\ pc' # "idle" /\ disk' = disk /\ before' = before /\ versions' = versions
        /\ header_pos' = header_pos
    BY <1>4 DEF EndBody, EndHeader, ReleaseHandle, CloseArchive, Complete, addvars
  <2>2. QED
    BY <1>1, <1>a, <2>1 DEF SoundInv
<1>5. CASE Cut
  <2>1. pc = "cut" /\ pc' # "idle" /\ before' = before /\ versions' = versions
        /\ header_pos' = header_pos /\ disk' = CutTo
    BY <1>5 DEF Cut, addvars
  <2>2. Len(disk') >= header_pos
    <3>1. CASE disk' = disk
      BY <1>1, <2>1, <3>1 DEF SoundInv
    <3>2. CASE disk' = Resized(disk, FinalEnd)
      <4>1. PICK g, d, m : g = disk' /\ d = disk /\ m = FinalEnd
        OBVIOUS
      <4>2. m \in Nat /\ m >= header_pos
        BY <1>1, <1>h, <2>1, <4>1 DEF FinalEnd, PlaceInv
      <4>3. Len(g) = m
        BY <1>h, <3>2, <4>1, <4>2, ResizedIs
      <4>4. QED
        BY <4>1, <4>2, <4>3
    <3>3. QED
      BY <2>1, <3>1, <3>2 DEF CutTo
  <2>3. QED
    BY <1>a, <2>1, <2>2
<1>6. CASE Exit \/ HandlerExit
  <2>1. pc' = "idle"
    BY <1>6 DEF Exit, HandlerExit, Gone
  <2>2. QED
    BY <1>6, <2>1, ExitSound DEF SoundInv
<1>7. CASE Kill
  <2>1. /\ pc' = "idle" /\ Kills
        /\ versions' = IF committed THEN Append(versions, Intended) ELSE versions
    BY <1>7 DEF Kill, Gone
  <2>2. Sound(disk', versions')
    BY <1>7, <2>1, KilledSound
  <2>3. QED
    BY <2>1, <2>2 DEF SoundInv
<1>8. CASE Trim
  <2>1. pc' = "idle"
    BY <1>8 DEF Trim
  <2>2. QED
    BY <1>8, <2>1, TrimSound DEF SoundInv
<1>9. CASE PressControlC \/ HandlerWait \/ HandlerClose
  <2>1. pc # "idle" /\ pc' = pc /\ disk' = disk /\ before' = before /\ versions' = versions
        /\ header_pos' = header_pos
    BY <1>1, <1>9 DEF PressControlC, HandlerWait, HandlerClose, FlagInv, addvars
  <2>2. QED
    BY <1>1, <1>a, <2>1 DEF SoundInv
<1>10. CASE HandlerRollback
  <2>1. /\ hpc = "rolling" /\ pc' = pc /\ before' = before /\ versions' = versions
        /\ header_pos' = header_pos /\ disk' = RolledBack
    BY <1>10 DEF HandlerRollback, addvars
  <2>2. pc # "idle" /\ stop
    BY <1>1, <2>1 DEF FlagInv
  <2>3. ~Kills
    BY <1>1, <2>2 DEF StopInv, Calm
  <2>4. Len(before) = header_pos
    BY <1>1, <2>2, <2>3 DEF SoundInv, Tidy, PlaceInv, AppendPosition
  <2>5. disk' = before
    BY <1>1, <2>1, <2>2, <2>3, RollbackIs DEF SoundInv, PlaceInv, WriteInv, GoodInv, JournalInv
  <2>6. Len(disk') >= header_pos
    BY <1>h, <2>4, <2>5
  <2>7. QED
    BY <1>a, <2>1, <2>2, <2>6
<1>11. ASSUME NEW p \in Plans, Begin(p) PROVE SoundInv'
  <2>1. pc = "idle" /\ pc' # "idle" /\ before' = disk /\ versions' = versions
    BY <1>11 DEF Begin
  <2>2. Len(disk') >= header_pos'
    BY <1>11, StageBegin
  <2>3. QED
    BY <1>1, <2>1, <2>2 DEF SoundInv
<1>12. CASE UNCHANGED vars
  <2>1. pc' = pc /\ disk' = disk /\ before' = before /\ versions' = versions /\ header_pos' = header_pos
    BY <1>12 DEF vars, addvars
  <2>2. QED
    BY <1>1, <2>1 DEF SoundInv
<1>13. QED
  BY <1>2, <1>3, <1>4, <1>5, <1>6, <1>7, <1>8, <1>9, <1>10, <1>11, <1>12 DEF Next, Add2, Handler

-----------------------------------------------------------------------------
(* What a reader finds between adds.                                       *)

\* An archive with nothing in it.
LEMMA NothingIsSound == <<>> \in Archives /\ Sound(<<>>, <<>>) /\ Tidy(<<>>)
<1>1. PICK f : f = <<>>
  OBVIOUS
<1>2. f \in Archives /\ Len(f) = 0
  BY <1>1 DEF Archives
<1>3. PICK r : r = ReaderInit
  OBVIOUS
<1>4. /\ r.pos = 0 /\ r.ver = <<>> /\ Len(r.ver) = 0 /\ Len(r.ht) = 0 /\ ~r.done /\ r.errors = 0 /\ ~r.skipped
      /\ r.dt = [n \in 1..Names |-> <<>>]
  BY <1>3 DEF ReaderInit
<1>5. Arrives(f, Len(f), r)
  <2>1. PICK s \in Runs(f, 0) : ReadUntil(f, 0) = s[Len(f) + 1]
    BY <1>2, RunExists
  <2>2. s[0] = ReaderInit /\ 0 \in Nat
    BY <1>2, <2>1, RunTypes
  <2>3. QED
    BY <1>2, <1>3, <2>1, <2>2 DEF Arrives
<1>6. Fresh(r)
  BY <1>4 DEF Fresh, VersionHole
<1>7. Pointers(r)
  <2>1. \A n \in 1..Names : r.dt[n] = <<>>
    BY <1>4
  <2>2. QED
    BY <2>1 DEF Pointers
<1>8. EndsAt(f, r) /\ r \in Readers
  BY <1>2, <1>4, <1>5, <1>6, <1>7, ArriveStep DEF EndsAt, CleanTail
<1>9. /\ Read(f).block_offset = 0 /\ SameTables(r, Read(f))
  BY <1>2, <1>4, <1>8, EndOf DEF EndsAt, Read
<1>10. Holds(f, <<>>)
  <2>1. Len(Read(f).ver) = 0 /\ Read(f).dt = [n \in 1..Names |-> <<>>]
    BY <1>4, <1>9 DEF SameTables
  <2>2. PICK t : t = Read(f)
    OBVIOUS
  <2>3. \A n \in 1..Names : t.dt[n] = <<>>
    BY <2>1, <2>2
  <2>4. Contents(t) = [n \in 1..Names |-> <<>>]
    <3>1. \A n \in 1..Names : [k \in DOMAIN t.dt[n] |->
             IF t.dt[n][k] \in DOMAIN t.ht THEN t.ht[t.dt[n][k]] ELSE 0] = <<>>
      BY <2>3
    <3>2. QED
      BY <3>1 DEF Contents
  <2>5. LastOf(<<>>) = [n \in 1..Names |-> <<>>] /\ Len(<<>>) = 0
    BY DEF LastOf, NoFile
  <2>6. QED
    BY <2>1, <2>2, <2>4, <2>5 DEF Holds
<1>11. ReadSound(f, <<>>)
  BY <1>8, <1>10 DEF ReadSound
<1>12. Read(f).ht = <<>>
  BY <1>3, <1>9 DEF SameTables, ReaderInit
<1>13. PICK h, m : h = Read(f).block_offset /\ m = Len(Read(f).ht)
  OBVIOUS
<1>14. h = 0 /\ m = 0
  BY <1>9, <1>12, <1>13
<1>15. Mounted(f, h, m, <<>>)
  BY <1>2, <1>14, NothingMounted
<1>16. QED
  BY <1>1, <1>2, <1>9, <1>11, <1>13, <1>15 DEF Sound, Tidy

LEMMA GoodInvFirst == Init => GoodInv
<1> SUFFICES ASSUME Init PROVE GoodInv
  OBVIOUS
<1>1. JournalInv
  BY JournalInvFirst
<1>2. SoundInv
  BY NothingIsSound DEF Init, SoundInv
<1>3. StopInv /\ StageInv
  BY DEF Init, StopInv, StageInv, BodyInv, HeaderInv, ShutInv, DoneInv
<1>4. QED
  BY <1>1, <1>2, <1>3 DEF GoodInv

LEMMA GoodInvKept == Calm /\ GoodInv /\ [Next]_vars => GoodInv'
<1> SUFFICES ASSUME Calm, GoodInv, [Next]_vars PROVE GoodInv'
  OBVIOUS
<1>1. JournalInv'
  BY JournalInvKept DEF GoodInv
<1>2. SoundInv' /\ StopInv' /\ StageInv'
  BY SoundInvKept, StopInvKept, StageInvKept
<1>3. QED
  BY <1>1, <1>2 DEF GoodInv

\* A sound archive between adds, read.
LEMMA IdleIsSound ==
  ASSUME GoodInv, pc = "idle"
  PROVE  History(disk) = versions /\ Read(disk).errors = 0 /\ Folders(disk) = versions
<1>1. FileInv /\ CountInv /\ Sound(disk, versions)
  BY DEF GoodInv, JournalInv, TypeInv, SoundInv
<1>2. PICK f, vs, X : f = disk /\ vs = versions /\ X = [1..Names -> Seq(Nat)]
  OBVIOUS
<1>3. f \in Archives /\ vs \in Seq(X) /\ Sound(f, vs)
  BY <1>1, <1>2 DEF FileInv, CountInv
<1>4. Read(f).errors = 0 /\ History(f) = vs /\ Folders(f) = vs
  BY <1>3, SoundIs
<1>5. QED
  BY <1>2, <1>4

(* In an archive whose adds are killed at any moment (but in the window of *)
(* the final header) or rolled back by control-C, a reader finds between   *)
(* adds the versions that were committed, each with what it was given.     *)
THEOREM ReaderTheorem == Calm => (Spec => []ReaderSeesVersions)
<1> SUFFICES ASSUME Calm PROVE Spec => []ReaderSeesVersions
  OBVIOUS
<1>1. Init => GoodInv
  BY GoodInvFirst
<1>2. GoodInv /\ [Next]_vars => GoodInv'
  BY GoodInvKept
<1>3. GoodInv => ReaderSeesVersions
  BY IdleIsSound DEF ReaderSeesVersions
<1>4. QED
  BY <1>1, <1>2, <1>3, PTL DEF Spec

(* So does a mount: its folders, one per version, are the versions that    *)
(* were committed, whatever the killed add behind them has left.           *)
THEOREM MountTheorem == Calm => (Spec => []MountSeesVersions)
<1> SUFFICES ASSUME Calm PROVE Spec => []MountSeesVersions
  OBVIOUS
<1>1. Init => GoodInv
  BY GoodInvFirst
<1>2. GoodInv /\ [Next]_vars => GoodInv'
  BY GoodInvKept
<1>3. GoodInv => MountSeesVersions
  BY IdleIsSound DEF MountSeesVersions
<1>4. QED
  BY <1>1, <1>2, <1>3, PTL DEF Spec

(* And read_archive meets no block it has to skip, no version with a hole  *)
(* and no table out of order: an add writes over what a dead one left.     *)
THEOREM CleanTheorem == Calm => (Spec => []ReadsClean)
<1> SUFFICES ASSUME Calm PROVE Spec => []ReadsClean
  OBVIOUS
<1>1. Init => GoodInv
  BY GoodInvFirst
<1>2. GoodInv /\ [Next]_vars => GoodInv'
  BY GoodInvKept
<1>3. GoodInv => ReadsClean
  BY IdleIsSound DEF ReadsClean
<1>4. QED
  BY <1>1, <1>2, <1>3, PTL DEF Spec

(* What control-C says at the end is what a reader of the archive finds.   *)
THEOREM BannerTheorem == Calm => (Spec => []BannerIsTrue)
<1> SUFFICES ASSUME Calm PROVE Spec => []BannerIsTrue
  OBVIOUS
<1>1. Init => GoodInv
  BY GoodInvFirst
<1>2. GoodInv /\ [Next]_vars => GoodInv'
  BY GoodInvKept
<1>3. GoodInv => BannerIsTrue
  BY IdleIsSound DEF BannerIsTrue
<1>4. QED
  BY <1>1, <1>2, <1>3, PTL DEF Spec

(* When control-C says that it has rolled back, the archive is, byte by    *)
(* byte, the one the add found.                                            *)
THEOREM RollbackTheorem == Calm => (Spec => []RollbackExact)
<1> SUFFICES ASSUME Calm PROVE Spec => []RollbackExact
  OBVIOUS
<1>1. Init => GoodInv
  BY GoodInvFirst
<1>2. GoodInv /\ [Next]_vars => GoodInv'
  BY GoodInvKept
<1>3. GoodInv => RollbackExact
  BY DEF GoodInv, StopInv, RollbackExact
<1>4. QED
  BY <1>1, <1>2, <1>3, PTL DEF Spec

-----------------------------------------------------------------------------
(* The log the archive implements.                                         *)

\* The abstract log, in terms of the add's variables.
LogHolds == (IF pc = "idle" THEN History(disk) ELSE versions) = versions

LEMMA LogIs == GoodInv => LogHolds
BY IdleIsSound DEF LogHolds

\* An add stores a version that the abstract one allows, or none.
LEMMA VersionsGrow ==
  ASSUME GoodInv, [Next]_vars
  PROVE  versions' = versions \/ (pc # "idle" /\ versions' = Append(versions, Intended))
<1>1. FlagInv
  BY DEF GoodInv, JournalInv, TypeInv
<1>2. QED
  BY <1>1 DEF Next, Add2, Handler, Begin, FlushBegin, FlushDiscard, FlushEnd, EndBody, EndHeader,
     ReleaseHandle, CloseArchive, Cut, Complete, Exit, Kill, Trim, PressControlC, HandlerWait,
     HandlerClose, HandlerRollback, HandlerExit, Gone, FlagInv, addvars, vars

AddData == {NewContent(d, [data |-> n]) : d \in 1..MaxAdds, n \in 0..MaxData}

\* The data of the add that runs is among those of the abstract one.
LEMMA ContentIs ==
  ASSUME GoodInv, pc # "idle"
  PROVE  plan.index \in 0..Names /\ NewContent(date, plan) \in AddData
<1>1. FileInv /\ CountInv
  BY DEF GoodInv, JournalInv, TypeInv
<1>2. plan.data \in 0..MaxData /\ plan.index \in 0..Names
  BY <1>1, PlanIs DEF FileInv
<1>3. date \in 1..MaxAdds
  <2>1. date \in 0..MaxAdds /\ Len(versions) < date /\ Len(versions) \in Nat
    BY <1>1 DEF FileInv, CountInv
  <2>2. QED
    BY <2>1, JournalAssumption
<1>4. NewContent(date, plan) = NewContent(date, [data |-> plan.data])
  BY DEF NewContent
<1>5. QED
  BY <1>2, <1>3, <1>4 DEF AddData

(* Whatever befalls an add under the same assumptions, the archive as its  *)
(* user sees it is a log: a step adds one whole version, with the data     *)
(* that its add was given, or leaves every version as it is.               *)
THEOREM LogTheorem == Calm => (Spec => RefinesVersionLog)
<1> SUFFICES ASSUME Calm PROVE Spec => RefinesVersionLog
  OBVIOUS
<1>1. Init => GoodInv
  BY GoodInvFirst
<1>2. GoodInv /\ [Next]_vars => GoodInv'
  BY GoodInvKept
<1>3. Init => Log!Init
  BY GoodInvFirst, LogIs DEF Init, Log!Init, LogHolds
<1>4. GoodInv => LogHolds
  BY LogIs
<1>5. ASSUME GoodInv, LogHolds, LogHolds', [Next]_vars
      PROVE  [Log!Add]_(IF pc = "idle" THEN History(disk) ELSE versions)
  <2>1. (IF pc = "idle" THEN History(disk) ELSE versions) = versions
    BY <1>5 DEF LogHolds
  <2>2. (IF pc = "idle" THEN History(disk) ELSE versions)' = versions'
    BY <1>5 DEF LogHolds
  <2>3. CASE versions' = versions
    BY <2>1, <2>2, <2>3
  <2>4. CASE pc # "idle" /\ versions' = Append(versions, Intended)
    <3>1. Intended = Log!Rewritten(plan.index, NewContent(date, plan))
      BY <2>4 DEF Intended, Previous, NoFile, Log!Rewritten, Log!Latest, Log!Nothing
    <3>2. PICK n, c, S : /\ n = plan.index /\ c = NewContent(date, plan)
                         /\ S = AddData
      OBVIOUS
    <3>3. n \in 0..Names /\ c \in S
      BY <1>5, <2>4, <3>2, ContentIs
    <3>4. versions' = Append(versions, Log!Rewritten(n, c))
      BY <2>4, <3>1, <3>2
    <3>5. versions' \in {Append(versions, Log!Rewritten(k, x)) : k \in 0..Names, x \in S}
      BY <3>3, <3>4
    <3>6. Log!Add
      BY <2>1, <2>2, <3>2, <3>5 DEF Log!Add, AddData
    <3>7. QED
      BY <3>6
  <2>5. QED
    BY <1>5, <2>3, <2>4, VersionsGrow
<1>6. QED
  BY <1>1, <1>2, <1>3, <1>4, <1>5, PTL DEF Spec, RefinesVersionLog, Log!Spec
=============================================================================
