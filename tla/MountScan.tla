----------------------------- MODULE MountScan -----------------------------
(***************************************************************************)
(* JidacBackend: the other reader of an archive.  mount walks the c, h and *)
(* i blocks as read_archive does, but keeps all the versions at once: a    *)
(* history per file and, per d block, the offset it can be read from on    *)
(* demand.  It has no list of damaged blocks: an exception ends the walk.  *)
(***************************************************************************)
EXTENDS ArchiveFormat

NoRecord == [version |-> 0, ptr |-> <<>>]      \* rec == NULL: not there, or deleted

ScanInit ==
  [pos |-> 0, data_offset |-> 0, nver |-> 0, sessions |-> 0, blocks |-> <<>>,
   hist |-> [n \in 1..Names |-> <<>>], incomplete |-> FALSE, truncated |-> FALSE,
   done |-> FALSE]

\* An exception: the tail is lost, and with it the version that was being read.
ScanThrows(r) == [r EXCEPT !.truncated = TRUE, !.done = TRUE]

\* A version is complete, and gets its folder, when the next one begins.
ScanC(r, o, b) ==
  IF b.jmp < 0
  THEN [r EXCEPT !.incomplete = TRUE, !.done = TRUE]
  ELSE [r EXCEPT !.sessions = IF r.nver > 0 THEN @ + 1 ELSE @, !.nver = @ + 1,
                 !.data_offset = o + 2, !.pos = o + 2 + b.jmp]

\* Mutant: the size of the block is not added.
DataSize_Zero(b) == 0

\* The compressed size of a d block, which its h block begins with.
DataSize(b) == 2

\* Where the next d block is, and which fragment it holds.
ScanH(r, o, b) ==
  [r EXCEPT !.blocks = Append(@, [offset |-> r.data_offset, start |-> b.num]),
            !.data_offset = @ + DataSize(b), !.pos = o + 2]

\* jidac_touch: one more change, or the same file again in the same version.
Touch(h, rec) ==
  IF h # <<>> /\ h[Len(h)].version = rec.version THEN [h EXCEPT ![Len(h)] = rec]
                                                 ELSE Append(h, rec)

ScanI(r, o, b) ==
  LET h   == r.hist[b.name]
      rec == [version |-> r.nver, ptr |-> b.ptr]
  IN  [r EXCEPT !.hist = [@ EXCEPT ![b.name] =
                            IF b.ptr = NoFile /\ h = <<>> THEN h ELSE Touch(h, rec)],
                !.pos = o + 2]

ScanBlock(file, r) ==
  IF TagsFrom(file, r.pos) = {} THEN [r EXCEPT !.done = TRUE]
  ELSE LET o == CHOOSE t \in TagsFrom(file, r.pos) :
                  \A u \in TagsFrom(file, r.pos) : t <= u
           b == file[o + 1].block
       IN  IF \/ o + 2 > Len(file) \/ file[o + 2] # [block |-> b, part |-> "body"]
              \/ b.type \in {"h", "i"} /\ r.nver = 0
           THEN ScanThrows(r)
           ELSE CASE b.type = "c" -> ScanC(r, o, b)
                  [] b.type = "h" -> ScanH(r, o, b)
                  [] b.type = "i" -> ScanI(r, o, b)
                  [] OTHER        -> [r EXCEPT !.pos = o + 2]

\* Mutant: the last version has no c block after it, and is forgotten.
LastSession_None(r) == r

\* The version in progress is complete only if nothing went wrong.
LastSession(r) == IF r.nver > 0 /\ ~r.truncated THEN [r EXCEPT !.sessions = @ + 1] ELSE r

Scan(file) ==
  LET Step(r) == IF r.done THEN r ELSE ScanBlock(file, r)
      after[n \in 0..Len(file) + 1] ==
        IF n = 0 THEN ScanInit
        ELSE CHOOSE s \in {Step(r) : r \in {after[n - 1]}} : TRUE
  IN  LastSession(after[Len(file) + 1])

\* jidac_at: the last change of a file up to version v.
At(h, v) ==
  LET upto == {k \in DOMAIN h : h[k].version <= v}
  IN  IF upto = {} THEN NoRecord ELSE h[CHOOSE k \in upto : \A j \in upto : j <= k]

\* What is read at the offset of the block fragment f is in; 0: an error.
ReadData(file, r, f) ==
  LET holds == {k \in DOMAIN r.blocks : r.blocks[k].start = f}
      last  == CHOOSE k \in holds : \A j \in holds : j <= k
      o     == r.blocks[last].offset
  IN  IF \/ holds = {} \/ o + 2 > Len(file)
         \/ file[o + 1].part # "tag" \/ file[o + 2] # [block |-> file[o + 1].block, part |-> "body"]
      THEN 0 ELSE file[o + 1].block.sha

\* The folder of version v: what is read of every file that is in it.
Folder(file, r, v) ==
  [n \in 1..Names |-> [k \in DOMAIN At(r.hist[n], v).ptr |->
                         ReadData(file, r, At(r.hist[n], v).ptr[k])]]

Folders(file) ==
  CHOOSE s \in {[v \in 1..r.sessions |-> Folder(file, r, v)] : r \in {Scan(file)}} : TRUE
=============================================================================
