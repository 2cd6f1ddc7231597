-------------------------- MODULE OutputFileProofs --------------------------
(* Theorems about OutputFile, for every value of its constants.            *)
EXTENDS OutputFile, TLAPS

USE OutputFileAssumption

-----------------------------------------------------------------------------
(* The inductive invariant.                                                *)

\* Where an operation is before it creates its file.
Before == {"prompt", "input", "check", "remove", "create"}
Running == Before \cup {"write", "rename", "cleanup"}

\* The first n blocks of the k-th file of p.
Begun(p, k, n) == [i \in 1..n |-> [by |-> <<p, k>>, n |-> i]]

\* A name has at most one file and a file at most one name.
NamesInv ==
    \A m, n \in Names : dir[m] = dir[n] /\ dir[m] # NoInode => m = n

\* What runs at once works on different temporary paths.
ApartInv ==
    \A p, q \in Procs :
        /\ pc[p] \in Running /\ pc[q] \in Running
        /\ temporary_output_path(p) = temporary_output_path(q)
        => p = q

\* An operation writes the file that has the name of its target, which holds
\* what it has written; when it renames it, that is all.
WriteInv ==
    \A p \in Procs :
        /\ pc[p] = "write" =>
            /\ dir[Target(p)] = handle[p]
            /\ data[handle[p]] = Begun(p, attempt[p], offset[p])
        /\ pc[p] = "rename" =>
            /\ Exists(temporary_output_path(p))
            /\ data[dir[temporary_output_path(p)]] = File(p, attempt[p])
        /\ pc[p] \in {"check", "remove", "rename", "cleanup"} => ~Direct(p)

\* A file at an output path is a whole one, or the beginning of one that is
\* written in place.
OutputInv ==
    \A o \in Outputs : Exists(o) =>
        \E p \in Procs, k \in 0..MaxAttempts, n \in 0..Blocks :
            /\ data[dir[o]] = Begun(p, k, n)
            /\ n = Blocks \/ Direct(p)

\* No block is of an operation that has not begun.
BlocksInv ==
    \A i \in Inodes : \A j \in DOMAIN data[i] : \A p \in Procs, k \in Nat :
        data[i][j].by = <<p, k>> => k <= attempt[p]

\* No block of the file at path n is of p's last operation.
NoneOf(p, n) ==
    Exists(n) => \A j \in DOMAIN data[dir[n]] : data[dir[n]][j].by # <<p, attempt[p]>>

\* The temporary file holds no block of an operation that has not created
\* it yet, writes in place, or has failed and cleaned up.
LeftInv ==
    \A p \in Procs :
        \/ pc[p] \in Before
        \/ pc[p] = "write" /\ Direct(p)
        \/ pc[p] = "err" /\ ~litter[p]
        => NoneOf(p, temporary_output_path(p))

-----------------------------------------------------------------------------
(* Lemmas about the operators.                                             *)

\* The paths an operation works on.
LEMMA PathFacts ==
    ASSUME NEW p \in Procs
    PROVE  /\ Out[p] \in Outputs /\ Out[p] \in Names
           /\ temporary_output_path(p) \in Temps
           /\ temporary_output_path(p) \in Names
           /\ temporary_output_path(p) \notin Outputs
           /\ Out[p] # temporary_output_path(p)
           /\ Target(p) \in Names
           /\ Target(p) = IF Direct(p) THEN Out[p] ELSE temporary_output_path(p)
           /\ \A q \in Procs : Out[p] = Out[q] =>
                 temporary_output_path(p) = temporary_output_path(q)
  BY DEF Outputs, Temps, Names, temporary_output_path, Target

LEMMA OutputsAreNames == Outputs \subseteq Names /\ Temps \subseteq Names
  BY DEF Names

\* The beginnings of a file.
LEMMA BegunFacts ==
    ASSUME NEW p \in Procs, NEW k \in 0..MaxAttempts, NEW n \in 0..Blocks
    PROVE  /\ Begun(p, k, n) \in Seq(Block)
           /\ Len(Begun(p, k, n)) = n
           /\ SubSeq(File(p, k), 1, n) = Begun(p, k, n)
           /\ \A j \in DOMAIN Begun(p, k, n) : Begun(p, k, n)[j].by = <<p, k>>
<1>1. \A i \in 1..n : [by |-> <<p, k>>, n |-> i] \in Block
  BY DEF Block
<1>2. Begun(p, k, n) \in Seq(Block) /\ Len(Begun(p, k, n)) = n
  BY <1>1 DEF Begun
<1>3. \A i \in 1..Blocks : [by |-> <<p, k>>, n |-> i] \in Block
  BY DEF Block
<1>4. /\ File(p, k) \in Seq(Block) /\ Len(File(p, k)) = Blocks
      /\ \A i \in 1..Blocks : File(p, k)[i] = [by |-> <<p, k>>, n |-> i]
  BY <1>3 DEF File
<1>5. SubSeq(File(p, k), 1, n) = Begun(p, k, n)
  <2>1. /\ SubSeq(File(p, k), 1, n) \in Seq(Block)
        /\ Len(SubSeq(File(p, k), 1, n)) = n
        /\ \A i \in 1..n : SubSeq(File(p, k), 1, n)[i] = File(p, k)[i]
    BY <1>4
  <2>2. \A i \in 1..n : SubSeq(File(p, k), 1, n)[i] = Begun(p, k, n)[i]
    <3>1. \A i \in 1..n : i \in 1..Blocks
      OBVIOUS
    <3>2. \A i \in 1..n : Begun(p, k, n)[i] = [by |-> <<p, k>>, n |-> i]
      BY DEF Begun
    <3>3. \A i \in 1..n : SubSeq(File(p, k), 1, n)[i] = [by |-> <<p, k>>, n |-> i]
      BY <1>4, <2>1, <3>1
    <3> QED
      BY <3>2, <3>3
  <2> QED
    BY <1>2, <2>1, <2>2
<1>6. \A j \in DOMAIN Begun(p, k, n) : Begun(p, k, n)[j].by = <<p, k>>
  BY DEF Begun
<1> QED
  BY <1>2, <1>5, <1>6

LEMMA WholeIsBegun == \A p, k : File(p, k) = Begun(p, k, Blocks)
  BY DEF File, Begun

\* The next block extends the beginning of a file.
LEMMA WrittenNext ==
    ASSUME NEW p \in Procs, NEW k \in 0..MaxAttempts, NEW n \in 0..(Blocks - 1)
    PROVE  Written(Begun(p, k, n), n + 1, File(p, k)[n + 1]) = Begun(p, k, n + 1)
<1>1. n \in 0..Blocks /\ n + 1 \in 1..Blocks /\ n \in Nat
  OBVIOUS
<1>2. Len(Begun(p, k, n)) = n
  BY <1>1, BegunFacts
<1>3. File(p, k)[n + 1] = [by |-> <<p, k>>, n |-> n + 1]
  BY <1>1 DEF File
<1>4. \A i \in 1..(n + 1) :
        (IF i = n + 1 THEN File(p, k)[n + 1]
         ELSE IF i <= n THEN Begun(p, k, n)[i] ELSE Hole)
        = [by |-> <<p, k>>, n |-> i]
  BY <1>1, <1>3 DEF Begun
<1> QED
  BY <1>1, <1>2, <1>4 DEF Written, Begun

\* Whatever block is written into a file, it stays one of blocks, each of
\* which was there, is the new one or a hole.
LEMMA WrittenFacts ==
    ASSUME NEW c \in Seq(Block), NEW k \in Nat \ {0}, NEW b \in Block
    PROVE  /\ Written(c, k, b) \in Seq(Block)
           /\ \A i \in DOMAIN Written(c, k, b) :
                 \/ i \in DOMAIN c /\ Written(c, k, b)[i] = c[i]
                 \/ Written(c, k, b)[i] \in {b, Hole}
<1> DEFINE m == IF k > Len(c) THEN k ELSE Len(c)
<1>1. m \in Nat /\ Len(c) \in Nat
  OBVIOUS
<1>2. Hole \in Block
  BY DEF Hole, Block
<1>3. \A i \in 1..m : (IF i = k THEN b ELSE IF i <= Len(c) THEN c[i] ELSE Hole) \in Block
  BY <1>2
<1>4. Written(c, k, b) \in Seq(Block)
  BY <1>1, <1>3 DEF Written
<1>5. ASSUME NEW i \in DOMAIN Written(c, k, b)
      PROVE  \/ i \in DOMAIN c /\ Written(c, k, b)[i] = c[i]
             \/ Written(c, k, b)[i] \in {b, Hole}
  <2>1. i \in 1..m
    BY <1>5 DEF Written
  <2>2. Written(c, k, b)[i] = IF i = k THEN b ELSE IF i <= Len(c) THEN c[i] ELSE Hole
    BY <2>1 DEF Written
  <2> QED
    BY <1>1, <2>1, <2>2
<1> QED
  BY <1>4, <1>5

-----------------------------------------------------------------------------
(* Types.                                                                  *)

LEMMA InitTypes == Init => TypeOK
<1> SUFFICES ASSUME Init PROVE TypeOK
  OBVIOUS
<1>1. \A p \in Procs : File(p, 0) \in Seq(Block)
  <2>1. 0 \in 0..MaxAttempts /\ Blocks \in 0..Blocks
    OBVIOUS
  <2> QED
    BY <2>1, WholeIsBegun, BegunFacts
<1>2. data \in [Inodes -> Seq(Block)]
  <2>1. <<>> \in Seq(Block)
    OBVIOUS
  <2>2. \A c \in {File(p, 0) : p \in Procs} \cup {<<>>} : c \in Seq(Block)
    BY <1>1, <2>1
  <2> QED
    BY <2>2 DEF Init
<1> QED
  BY <1>2 DEF Init, TypeOK, Resting

\* Opening a file for writing keeps the types.
LEMMA OpenTypes ==
    ASSUME TypeOK, NEW p \in Procs, NEW n \in Names, OpenTruncated(p, n)
    PROVE  /\ dir' \in [Names -> Inodes \cup {NoInode}]
           /\ data' \in [Inodes -> Seq(Block)]
           /\ \E i \in Inodes : handle' = [handle EXCEPT ![p] = i]
           /\ offset' = [offset EXCEPT ![p] = 0]
<1>1. /\ dir \in [Names -> Inodes \cup {NoInode}]
      /\ data \in [Inodes -> Seq(Block)] /\ <<>> \in Seq(Block)
  BY DEF TypeOK
<1>2. CASE Exists(n)
  BY <1>1, <1>2 DEF OpenTruncated, Exists
<1>3. CASE ~Exists(n)
  BY <1>1, <1>3 DEF OpenTruncated
<1> QED
  BY <1>2, <1>3

LEMMA StepTypes == TypeOK /\ [Next]_vars => TypeOK'
<1> SUFFICES ASSUME TypeOK, [Next]_vars PROVE TypeOK'
  OBVIOUS
<1>1. CASE UNCHANGED vars
  BY <1>1 DEF vars, TypeOK
<1>2. SUFFICES ASSUME NEW p \in Procs, Begin(p) \/ Step(p) \/ Crash(p)
               PROVE  TypeOK'
  BY <1>1 DEF Next
<1> USE DEF TypeOK, Resting, Goto
<1>3. CASE Begin(p)
  <2>1. PICK to \in {"err", "prompt", "input"} : pc' = [pc EXCEPT ![p] = to]
    BY <1>3 DEF Begin
  <2>2. /\ attempt' = [attempt EXCEPT ![p] = attempt[p] + 1]
        /\ attempt[p] + 1 \in 0..MaxAttempts
        /\ litter' = [litter EXCEPT ![p] = FALSE]
        /\ UNCHANGED <<dir, data, handle, offset>>
        /\ handle[p] = NoInode
    BY <1>3 DEF Begin
  <2> QED
    BY <2>1, <2>2
<1>4. CASE Prompt(p) \/ Prepare(p) \/ CheckTemp(p) \/ RenameFails(p)
  BY <1>4 DEF Prompt, Prepare, CheckTemp, RenameFails
<1>5. CASE RemoveStale(p) \/ Cleanup(p)
  <2>1. dir' = dir \/ dir' = [dir EXCEPT ![temporary_output_path(p)] = NoInode]
    BY <1>5 DEF RemoveStale, Cleanup
  <2>2. \E label \in {"create", "err"} : pc' = [pc EXCEPT ![p] = label]
    BY <1>5 DEF RemoveStale, Cleanup
  <2>3. litter' = litter \/ litter' = [litter EXCEPT ![p] = TRUE]
    BY <1>5 DEF RemoveStale, Cleanup
  <2>4. UNCHANGED <<data, attempt, handle, offset>> /\ pc[p] # "write"
    BY <1>5 DEF RemoveStale, Cleanup
  <2>5. dir' \in [Names -> Inodes \cup {NoInode}]
    BY <2>1
  <2>6. litter' \in [Procs -> BOOLEAN]
    BY <2>3
  <2> QED
    BY <2>2, <2>4, <2>5, <2>6
<1>9. CASE Rename(p)
  BY <1>9, PathFacts DEF Rename
<1>6. CASE Create(p)
  <2>1. CASE OpenTruncated(p, Target(p)) /\ Goto(p, "write")
    <3>1. /\ dir' \in [Names -> Inodes \cup {NoInode}]
          /\ data' \in [Inodes -> Seq(Block)]
          /\ \E i \in Inodes : handle' = [handle EXCEPT ![p] = i]
          /\ offset' = [offset EXCEPT ![p] = 0]
      BY <2>1, PathFacts, OpenTypes
    <3> QED
      BY <1>6, <2>1, <3>1 DEF Create
  <2>2. CASE Goto(p, Failed(p)) /\ UNCHANGED <<dir, data, handle, offset>>
    BY <1>6, <2>2 DEF Create, Failed
  <2> QED
    BY <1>6, <2>1, <2>2 DEF Create
<1>7. CASE Write(p)
  <2>1. /\ handle[p] \in Inodes /\ data[handle[p]] \in Seq(Block)
        /\ offset[p] + 1 \in 1..Blocks /\ attempt[p] \in 0..MaxAttempts
    BY <1>7 DEF Write
  <2>2. File(p, attempt[p])[offset[p] + 1] \in Block
    BY <2>1 DEF File, Block
  <2>3. Written(data[handle[p]], offset[p] + 1,
                File(p, attempt[p])[offset[p] + 1]) \in Seq(Block)
    BY <2>1, <2>2, WrittenFacts
  <2> QED
    BY <1>7, <2>1, <2>3 DEF Write
<1>8. CASE WriteFails(p) \/ Close(p) \/ Crash(p)
  <2>1. handle' = [handle EXCEPT ![p] = NoInode]
    BY <1>8 DEF WriteFails, Close, Crash
  <2>2. \E label \in {"err", "cleanup", "ok", "rename", "crashed"} :
          pc' = [pc EXCEPT ![p] = label]
    BY <1>8 DEF WriteFails, Close, Crash, Failed
  <2>3. UNCHANGED <<dir, data, attempt, offset, litter>>
    BY <1>8 DEF WriteFails, Close, Crash
  <2> QED
    BY <2>1, <2>2, <2>3
<1> QED
  BY <1>2, <1>3, <1>4, <1>5, <1>6, <1>7, <1>8, <1>9 DEF Step

\* The files, the handles and the processes keep their types, and a process
\* has a file open exactly while it writes (file.rs, streaming_container.rs).
THEOREM TypeCorrect == Spec => []TypeOK
  BY InitTypes, StepTypes, PTL DEF Spec

\* Whatever fails, dies or races, an output path that holds a file goes on
\* holding one (file.rs and streaming_container.rs: only temporary paths are
\* removed).
THEOREM NeverVanishes == Spec => OutputNeverVanishes
<1>1. TypeOK /\ [Next]_vars => [\A o \in Outputs : Exists(o) => Exists(o)']_vars
  <2> SUFFICES ASSUME TypeOK, Next, NEW o \in Outputs, Exists(o)
               PROVE  Exists(o)'
    OBVIOUS
  <2>1. PICK p \in Procs : Begin(p) \/ Step(p) \/ Crash(p)
    BY DEF Next
  <2>2. /\ dir \in [Names -> Inodes \cup {NoInode}] /\ o \in Names
        /\ o # temporary_output_path(p) /\ NoInode \notin Inodes
    BY PathFacts, OutputsAreNames DEF TypeOK
  <2>3. CASE dir' = dir
    BY <2>3 DEF Exists
  <2>4. CASE RemoveStale(p) \/ Cleanup(p) \/ Rename(p)
    BY <2>2, <2>4, PathFacts DEF RemoveStale, Cleanup, Rename, Exists
  <2>5. CASE Create(p)
    BY <2>2, <2>5, PathFacts DEF Create, OpenTruncated, Exists
  <2> QED
    BY <2>1, <2>3, <2>4, <2>5
    DEF Begin, Step, Prompt, Prepare, CheckTemp, Write, WriteFails, Close,
        RenameFails, Crash
<1> QED
  BY TypeCorrect, <1>1, PTL DEF Spec, OutputNeverVanishes

-----------------------------------------------------------------------------
(* What one step of one process does.                                      *)

ProcStep(p) == Begin(p) \/ Step(p) \/ Crash(p)

LEMMA SomeStep == [Next]_vars => UNCHANGED vars \/ \E p \in Procs : ProcStep(p)
  BY DEF Next, ProcStep

\* Another process stays where it is, and one at rest leaves the files alone.
LEMMA OtherProcess ==
    ASSUME TypeOK, NEW p \in Procs, ProcStep(p)
    PROVE  /\ \A q \in Procs \ {p} :
                /\ pc'[q] = pc[q] /\ attempt'[q] = attempt[q]
                /\ handle'[q] = handle[q] /\ offset'[q] = offset[q]
                /\ litter'[q] = litter[q]
           /\ pc[p] \notin Running => Begin(p) /\ UNCHANGED <<dir, data>>
<1>1. /\ pc \in [Procs -> Resting \cup Running]
      /\ attempt \in [Procs -> 0..MaxAttempts]
      /\ handle \in [Procs -> Inodes \cup {NoInode}]
      /\ offset \in [Procs -> 0..Blocks]
      /\ litter \in [Procs -> BOOLEAN]
  BY DEF TypeOK, Running, Before
<1> USE DEF Goto
<1>2. CASE Begin(p)
  BY <1>1, <1>2 DEF Begin
<1>3. CASE Crash(p)
  BY <1>1, <1>3 DEF Crash
<1>4. CASE \/ Prompt(p) \/ Prepare(p) \/ CheckTemp(p) \/ RemoveStale(p)
           \/ Rename(p) \/ RenameFails(p) \/ Cleanup(p)
  BY <1>1, <1>4
  DEF Prompt, Prepare, CheckTemp, RemoveStale, Rename, RenameFails, Cleanup,
      Running, Before
<1>5. CASE Create(p)
  BY <1>1, <1>5 DEF Create, OpenTruncated, Running, Before
<1>6. CASE Write(p) \/ WriteFails(p) \/ Close(p)
  BY <1>1, <1>6 DEF Write, WriteFails, Close, Running
<1> QED
  BY <1>2, <1>3, <1>4, <1>5, <1>6 DEF ProcStep, Step

\* Nothing changes about the file at path n.
Kept(n) == dir'[n] = dir[n] /\ (Exists(n) => data'[dir[n]] = data[dir[n]])

\* How a file is opened: the one that has the name, or one nobody uses.
LEMMA OpenFacts ==
    ASSUME TypeOK, NEW p \in Procs, NEW n \in Names, OpenTruncated(p, n)
    PROVE  \E i \in Inodes :
            /\ dir' = [dir EXCEPT ![n] = i] /\ data' = [data EXCEPT ![i] = <<>>]
            /\ handle' = [handle EXCEPT ![p] = i]
            /\ offset' = [offset EXCEPT ![p] = 0]
            /\ i = dir[n] \/ i \notin InUse
<1>1. dir \in [Names -> Inodes \cup {NoInode}]
  BY DEF TypeOK
<1>2. CASE Exists(n)
  <2>1. dir[n] \in Inodes /\ dir' = [dir EXCEPT ![n] = dir[n]]
    BY <1>1, <1>2 DEF OpenTruncated, Exists
  <2> QED
    BY <1>2, <2>1 DEF OpenTruncated
<1>3. CASE ~Exists(n)
  BY <1>3 DEF OpenTruncated
<1> QED
  BY <1>2, <1>3

\* A step changes the file at its target, which is open then; or removes the
\* temporary file; or puts it in the place of the output.
LEMMA Untouched ==
    ASSUME TypeOK, NamesInv, WriteInv, NEW p \in Procs, ProcStep(p), NEW n \in Names
    PROVE  \/ Kept(n)
           \/ n = Target(p) /\ pc'[p] = "write"
           \/ n = temporary_output_path(p) /\ ~Direct(p) /\ dir'[n] = NoInode
           \/ n = Out[p] /\ Rename(p)
<1>1. /\ dir \in [Names -> Inodes \cup {NoInode}]
      /\ data \in [Inodes -> Seq(Block)]
      /\ pc \in [Procs -> Resting \cup Running]
  BY DEF TypeOK, Running, Before
<1>2. CASE UNCHANGED <<dir, data>>
  BY <1>2 DEF Kept, Exists
<1>3. CASE RemoveStale(p) \/ Cleanup(p)
  <2>1. ~Direct(p)
    BY <1>3 DEF RemoveStale, Cleanup, WriteInv
  <2>2. data' = data /\ (dir' = dir \/ dir' = [dir EXCEPT ![temporary_output_path(p)] = NoInode])
    BY <1>3 DEF RemoveStale, Cleanup
  <2> QED
    BY <1>1, <2>1, <2>2, PathFacts DEF Kept, Exists
<1>4. CASE Rename(p)
  <2>1. ~Direct(p)
    BY <1>4 DEF Rename, WriteInv
  <2>2. /\ data' = data
        /\ dir' = [dir EXCEPT ![Out[p]] = dir[temporary_output_path(p)],
                              ![temporary_output_path(p)] = NoInode]
    BY <1>4 DEF Rename
  <2> QED
    BY <1>1, <1>4, <2>1, <2>2, PathFacts DEF Kept, Exists
<1>5. CASE Create(p)
  <2>1. CASE OpenTruncated(p, Target(p)) /\ Goto(p, "write")
    <3>1. PICK i \in Inodes :
            /\ dir' = [dir EXCEPT ![Target(p)] = i]
            /\ data' = [data EXCEPT ![i] = <<>>]
            /\ i = dir[Target(p)] \/ i \notin InUse
      BY <2>1, PathFacts, OpenFacts
    <3>2. pc'[p] = "write"
      BY <1>1, <2>1 DEF Goto
    <3>3. n # Target(p) => dir[n] # i
      BY <1>1, <3>1, PathFacts DEF NamesInv, InUse
    <3> QED
      BY <1>1, <3>1, <3>2, <3>3, PathFacts DEF Kept, Exists
  <2>2. CASE UNCHANGED <<dir, data, handle, offset>>
    BY <1>2, <2>2
  <2> QED
    BY <1>5, <2>1, <2>2 DEF Create
<1>6. CASE Write(p)
  <2>1. pc[p] = "write" /\ pc' = pc /\ dir' = dir
    BY <1>6 DEF Write
  <2>2. n # Target(p) => dir[n] # handle[p] \/ dir[n] = NoInode
    BY <2>1, PathFacts DEF WriteInv, NamesInv
  <2>3. dir[n] # handle[p] => data'[dir[n]] = data[dir[n]] \/ dir[n] = NoInode
    BY <1>1, <1>6 DEF Write
  <2> QED
    BY <2>1, <2>2, <2>3 DEF Kept, Exists
<1> QED
  BY <1>2, <1>3, <1>4, <1>5, <1>6
  DEF ProcStep, Step, Begin, Crash, Prompt, Prepare, CheckTemp, WriteFails,
      Close, RenameFails

\* What runs beside p has its paths for itself.
LEMMA Apart ==
    ASSUME TypeOK, ApartInv, NamesInv, WriteInv, NEW p \in Procs, ProcStep(p),
           NEW q \in Procs \ {p}, pc[q] \in Running
    PROVE  Kept(Out[q]) /\ Kept(temporary_output_path(q)) /\ Kept(Target(q))
<1>1. CASE pc[p] \in Running
  <2>1. temporary_output_path(p) # temporary_output_path(q) /\ Out[p] # Out[q]
    BY <1>1, PathFacts DEF ApartInv
  <2>2. \A n \in {Out[q], temporary_output_path(q)} :
          n \notin {Out[p], temporary_output_path(p)}
    BY <2>1, PathFacts DEF Outputs, Temps
  <2>3. Target(p) \in {Out[p], temporary_output_path(p)}
    BY PathFacts
  <2>4. \A n \in {Out[q], temporary_output_path(q)} : n \in Names /\ Kept(n)
    BY <2>2, <2>3, PathFacts, Untouched
  <2> QED
    BY <2>4, PathFacts
<1>2. CASE pc[p] \notin Running
  <2>1. UNCHANGED <<dir, data>>
    BY <1>2, OtherProcess
  <2> QED
    BY <2>1 DEF Kept
<1> QED
  BY <1>1, <1>2

-----------------------------------------------------------------------------
(* Every step keeps the invariant, while temporary paths are not shared.   *)

FilesInv == TypeOK /\ NamesInv /\ ApartInv /\ WriteInv

\* A file keeps one name.
LEMMA NamesStep ==
    ASSUME TypeOK, NamesInv, [Next]_vars
    PROVE  NamesInv'
<1>1. CASE UNCHANGED vars
  BY <1>1 DEF vars, NamesInv
<1>2. SUFFICES ASSUME NEW p \in Procs, ProcStep(p) PROVE NamesInv'
  BY <1>1, SomeStep
<1>3. dir \in [Names -> Inodes \cup {NoInode}]
  BY DEF TypeOK
<1>4. CASE dir' = dir
  BY <1>4 DEF NamesInv
<1>5. CASE RemoveStale(p) \/ Cleanup(p)
  <2>1. dir' = dir \/ dir' = [dir EXCEPT ![temporary_output_path(p)] = NoInode]
    BY <1>5 DEF RemoveStale, Cleanup
  <2> QED
    BY <1>3, <1>4, <2>1 DEF NamesInv
<1>6. CASE Rename(p)
  <2>1. dir' = [dir EXCEPT ![Out[p]] = dir[temporary_output_path(p)],
                           ![temporary_output_path(p)] = NoInode]
    BY <1>6 DEF Rename
  <2> QED
    BY <1>3, <2>1, PathFacts DEF NamesInv
<1>7. CASE OpenTruncated(p, Target(p))
  <2>1. PICK i \in Inodes :
          /\ dir' = [dir EXCEPT ![Target(p)] = i]
          /\ i = dir[Target(p)] \/ i \notin InUse
    BY <1>7, PathFacts, OpenFacts
  <2>2. \A n \in Names : n # Target(p) => dir[n] # i
    BY <1>3, <2>1, PathFacts DEF NamesInv, InUse
  <2> QED
    BY <1>3, <2>1, <2>2 DEF NamesInv
<1> QED
  BY <1>2, <1>4, <1>5, <1>6, <1>7
  DEF ProcStep, Step, Begin, Crash, Prompt, Prepare, CheckTemp, Create, Write,
      WriteFails, Close, RenameFails

\* What runs at once stays on different temporary paths.
LEMMA ApartStep ==
    ASSUME Exclusive, TypeOK, ApartInv, [Next]_vars
    PROVE  ApartInv'
<1>1. CASE UNCHANGED vars
  BY <1>1 DEF vars, ApartInv
<1>2. SUFFICES ASSUME NEW p \in Procs, ProcStep(p) PROVE ApartInv'
  BY <1>1, SomeStep
<1>3. pc \in [Procs -> Resting \cup Running]
  BY DEF TypeOK, Running, Before
<1>4. \A q \in Procs \ {p} : pc'[q] = pc[q]
  BY <1>2, OtherProcess
<1>5. CASE pc[p] \in Running
  BY <1>4, <1>5 DEF ApartInv
<1>6. CASE pc[p] \notin Running
  <2>1. Begin(p)
    BY <1>2, <1>6, OtherProcess
  <2>2. \A q \in Procs \ {p} :
          pc[q] \in Resting \/ temporary_output_path(q) # temporary_output_path(p)
    BY <2>1 DEF Begin
  <2>3. \A q \in Procs : pc[q] \in Resting => pc[q] \notin Running
    BY DEF Resting, Running, Before
  <2> QED
    BY <1>4, <2>2, <2>3 DEF ApartInv
<1> QED
  BY <1>5, <1>6

\* What an operation has written is in the file at its target.
LEMMA WriteStep ==
    ASSUME FilesInv, [Next]_vars
    PROVE  WriteInv'
<1>1. CASE UNCHANGED vars
  BY <1>1 DEF vars, FilesInv, WriteInv, Exists
<1>2. SUFFICES ASSUME NEW p \in Procs, ProcStep(p) PROVE WriteInv'
  BY <1>1, SomeStep
<1>3. /\ dir \in [Names -> Inodes \cup {NoInode}]
      /\ data \in [Inodes -> Seq(Block)]
      /\ pc \in [Procs -> Resting \cup Running]
      /\ attempt \in [Procs -> 0..MaxAttempts]
      /\ handle \in [Procs -> Inodes \cup {NoInode}]
      /\ offset \in [Procs -> 0..Blocks]
      /\ \A q \in Procs : handle[q] # NoInode <=> pc[q] = "write"
  BY DEF FilesInv, TypeOK, Running, Before
<1> DEFINE Good(q) ==
      /\ pc[q] = "write" =>
          /\ dir[Target(q)] = handle[q]
          /\ data[handle[q]] = Begun(q, attempt[q], offset[q])
      /\ pc[q] = "rename" =>
          /\ Exists(temporary_output_path(q))
          /\ data[dir[temporary_output_path(q)]] = File(q, attempt[q])
      /\ pc[q] \in {"check", "remove", "rename", "cleanup"} => ~Direct(q)
<1>4. \A q \in Procs : Good(q)
  BY DEF FilesInv, WriteInv
<1>5. ASSUME NEW q \in Procs \ {p}
      PROVE  Good(q)'
  <2>1. /\ pc'[q] = pc[q] /\ attempt'[q] = attempt[q]
        /\ handle'[q] = handle[q] /\ offset'[q] = offset[q]
    BY <1>2, OtherProcess DEF FilesInv
  <2>2. CASE pc[q] \in {"write", "rename"}
    <3>1. Kept(temporary_output_path(q)) /\ Kept(Target(q))
      BY <1>2, <2>2, Apart DEF FilesInv, Running
    <3> QED
      BY <1>3, <1>4, <2>1, <3>1 DEF Kept, Exists
  <2>3. CASE pc[q] \notin {"write", "rename"}
    BY <1>4, <2>1, <2>3
  <2> QED
    BY <2>2, <2>3
<1>6. CASE Create(p) /\ pc'[p] = "write"
  <2>1. OpenTruncated(p, Target(p))
    BY <1>3, <1>6 DEF Create, Goto, Failed
  <2>2. PICK i \in Inodes :
          /\ dir' = [dir EXCEPT ![Target(p)] = i] /\ data' = [data EXCEPT ![i] = <<>>]
          /\ handle' = [handle EXCEPT ![p] = i] /\ offset' = [offset EXCEPT ![p] = 0]
    BY <2>1, PathFacts, OpenFacts DEF FilesInv
  <2>3. \A k : Begun(p, k, 0) = <<>>
    BY DEF Begun
  <2>4. Good(p)'
    BY <1>3, <1>6, <2>2, <2>3, PathFacts
  <2> QED
    BY <1>5, <2>4 DEF WriteInv
<1>7. CASE Write(p)
  <2>1. /\ pc[p] = "write" /\ offset[p] \in 0..(Blocks - 1)
        /\ pc' = pc /\ dir' = dir /\ handle' = handle /\ attempt' = attempt
        /\ offset'[p] = offset[p] + 1
    BY <1>3, <1>7 DEF Write
  <2>2. handle[p] \in Inodes
    BY <1>3, <2>1
  <2>3. data'[handle[p]] =
          Written(data[handle[p]], offset[p] + 1, File(p, attempt[p])[offset[p] + 1])
    BY <1>3, <1>7, <2>2 DEF Write
  <2>4. data'[handle[p]] = Begun(p, attempt[p], offset[p] + 1)
    BY <1>3, <1>4, <2>1, <2>3, WrittenNext
  <2>5. Good(p)'
    BY <1>4, <2>1, <2>4
  <2> QED
    BY <1>5, <2>5 DEF WriteInv
<1>8. CASE Close(p)
  <2>1. /\ pc[p] = "write" /\ offset[p] = Blocks
        /\ UNCHANGED <<dir, data, attempt>>
        /\ pc'[p] = IF Direct(p) THEN "ok" ELSE "rename"
    BY <1>3, <1>8 DEF Close, Goto
  <2>2. /\ dir[Target(p)] = handle[p] /\ handle[p] # NoInode
        /\ data[dir[Target(p)]] = File(p, attempt[p])
    BY <1>3, <1>4, <2>1, WholeIsBegun
  <2>3. Good(p)'
    BY <2>1, <2>2, PathFacts DEF Exists
  <2> QED
    BY <1>5, <2>3 DEF WriteInv
<1>9. ASSUME pc'[p] \notin {"write", "rename"},
             pc'[p] \in {"check", "remove", "cleanup"} => ~Direct(p)
      PROVE  WriteInv'
  BY <1>5, <1>9 DEF WriteInv
<1>10. CASE \/ Begin(p) \/ Prompt(p) \/ Prepare(p) \/ CheckTemp(p) \/ RemoveStale(p)
            \/ (Create(p) /\ pc'[p] # "write") \/ WriteFails(p) \/ Rename(p)
            \/ RenameFails(p) \/ Cleanup(p) \/ Crash(p)
  <2>1. /\ pc'[p] \notin {"write", "rename"}
        /\ pc'[p] \in {"check", "remove", "cleanup"} => ~Direct(p)
    BY <1>3, <1>4, <1>10
    DEF Begin, Prompt, Prepare, CheckTemp, RemoveStale, Create, WriteFails,
        Rename, RenameFails, Cleanup, Crash, Goto, Failed
  <2> QED
    BY <1>9, <2>1
<1> QED
  BY <1>2, <1>6, <1>7, <1>8, <1>10 DEF ProcStep, Step

LEMMA FilesStep == Exclusive => (FilesInv /\ [Next]_vars => FilesInv')
  BY StepTypes, NamesStep, ApartStep, WriteStep DEF FilesInv

\* What stands at an output is a whole file, or begun in place.
LEMMA OutputStep ==
    ASSUME FilesInv, FilesInv', OutputInv, [Next]_vars
    PROVE  OutputInv'
<1>1. CASE UNCHANGED vars
  BY <1>1 DEF vars, OutputInv, Exists
<1>2. SUFFICES ASSUME NEW p \in Procs, ProcStep(p), NEW o \in Outputs, Exists(o)'
               PROVE  \E q \in Procs, k \in 0..MaxAttempts, n \in 0..Blocks :
                        /\ data'[dir'[o]] = Begun(q, k, n)
                        /\ n = Blocks \/ Direct(q)
  BY <1>1, SomeStep DEF OutputInv
<1>3. /\ attempt \in [Procs -> 0..MaxAttempts] /\ attempt' \in [Procs -> 0..MaxAttempts]
      /\ offset' \in [Procs -> 0..Blocks]
  BY DEF FilesInv, TypeOK
<1>4. o \in Names /\ o # temporary_output_path(p)
  BY OutputsAreNames, PathFacts
<1>5. CASE Kept(o)
  BY <1>2, <1>5 DEF Kept, OutputInv, Exists
<1>6. CASE o = Target(p) /\ pc'[p] = "write"
  <2>1. Direct(p)
    BY <1>4, <1>6, PathFacts
  <2>2. data'[dir'[o]] = Begun(p, attempt'[p], offset'[p])
    BY <1>6 DEF FilesInv, WriteInv
  <2>3. attempt'[p] \in 0..MaxAttempts /\ offset'[p] \in 0..Blocks
    BY <1>3
  <2> QED
    BY <2>1, <2>2, <2>3
<1>7. CASE o = Out[p] /\ Rename(p)
  <2>1. /\ dir'[o] = dir[temporary_output_path(p)] /\ data' = data
        /\ pc[p] = "rename"
    BY <1>4, <1>7, PathFacts DEF Rename, FilesInv, TypeOK
  <2>2. data'[dir'[o]] = Begun(p, attempt[p], Blocks)
    BY <2>1, WholeIsBegun DEF FilesInv, WriteInv
  <2>3. attempt[p] \in 0..MaxAttempts /\ Blocks \in 0..Blocks
    BY <1>3
  <2> QED
    BY <2>2, <2>3
<1> QED
  BY <1>2, <1>4, <1>5, <1>6, <1>7, Untouched DEF FilesInv

\* Blocks are of operations that have begun.
LEMMA BlocksStep ==
    ASSUME FilesInv, FilesInv', BlocksInv, [Next]_vars
    PROVE  BlocksInv'
<1>1. CASE UNCHANGED vars
  BY <1>1 DEF vars, BlocksInv
<1>2. SUFFICES ASSUME NEW p \in Procs, ProcStep(p) PROVE BlocksInv'
  BY <1>1, SomeStep
<1>3. /\ attempt \in [Procs -> 0..MaxAttempts]
      /\ data \in [Inodes -> Seq(Block)]
  BY DEF FilesInv, TypeOK
<1>4. \A q \in Procs : attempt[q] <= attempt'[q] /\ attempt'[q] \in Nat /\ attempt[q] \in Nat
  <2>1. attempt' = attempt \/ attempt' = [attempt EXCEPT ![p] = @ + 1]
    BY <1>2
    DEF ProcStep, Step, Begin, Crash, Prompt, Prepare, CheckTemp, RemoveStale,
        Create, Write, WriteFails, Close, Rename, RenameFails, Cleanup
  <2> QED
    BY <1>3, <2>1
<1>5. CASE data' = data
  BY <1>4, <1>5 DEF BlocksInv
<1>6. ASSUME NEW i \in Inodes, \A h \in Inodes \ {i} : data'[h] = data[h],
             \A j \in DOMAIN data'[i] : \A q \in Procs, k \in Nat :
                data'[i][j].by = <<q, k>> => k <= attempt'[q]
      PROVE  BlocksInv'
  <2>1. ASSUME NEW h \in Inodes \ {i}, NEW j \in DOMAIN data'[h],
               NEW q \in Procs, NEW k \in Nat, data'[h][j].by = <<q, k>>
        PROVE  k <= attempt'[q]
    <3>1. k <= attempt[q]
      BY <1>6, <2>1 DEF BlocksInv
    <3> QED
      BY <1>4, <3>1
  <2> QED
    BY <1>6, <2>1 DEF BlocksInv
<1>7. CASE OpenTruncated(p, Target(p))
  <2>1. PICK i \in Inodes : data' = [data EXCEPT ![i] = <<>>]
    BY <1>7, PathFacts, OpenFacts DEF FilesInv
  <2>2. data'[i] = <<>> /\ \A h \in Inodes \ {i} : data'[h] = data[h]
    BY <1>3, <2>1
  <2>3. DOMAIN data'[i] = {}
    BY <2>2
  <2> QED
    BY <1>6, <2>2, <2>3
<1>8. CASE Write(p)
  <2>1. /\ pc[p] = "write" /\ pc' = pc /\ handle' = handle /\ attempt' = attempt
        /\ handle[p] \in Inodes
    BY <1>8 DEF Write, FilesInv, TypeOK
  <2>2. PICK i \in Inodes : i = handle[p]
    BY <2>1
  <2>3. \A h \in Inodes \ {i} : data'[h] = data[h]
    BY <1>3, <1>8, <2>2 DEF Write
  <2>4. data'[i] = Begun(p, attempt[p], offset'[p])
    BY <2>1, <2>2 DEF FilesInv, WriteInv
  <2>5. \A j \in DOMAIN data'[i] : data'[i][j].by = <<p, attempt[p]>>
    BY <2>4 DEF Begun
  <2>6. \A j \in DOMAIN data'[i] : \A q \in Procs, k \in Nat :
          data'[i][j].by = <<q, k>> => k <= attempt'[q]
    BY <1>4, <2>5
  <2> QED
    BY <1>6, <2>3, <2>6
<1> QED
  BY <1>2, <1>5, <1>7, <1>8
  DEF ProcStep, Step, Begin, Crash, Prompt, Prepare, CheckTemp, RemoveStale,
      Create, WriteFails, Close, Rename, RenameFails, Cleanup

\* Where no block of an operation is, none comes to be but by its own writing.
LEMMA NoneOfKept ==
    ASSUME FilesInv, FilesInv', NEW p \in Procs, ProcStep(p), NEW q \in Procs,
           attempt'[q] = attempt[q], NoneOf(q, temporary_output_path(q)),
           q = p => Direct(q) \/ pc'[q] # "write"
    PROVE  NoneOf(q, temporary_output_path(q))'
<1>1. PICK n \in Names : n = temporary_output_path(q) /\ n \notin Outputs
  BY PathFacts
<1>2. CASE Kept(n)
  BY <1>1, <1>2 DEF Kept, NoneOf, Exists, temporary_output_path
<1>3. CASE n = Target(p) /\ pc'[p] = "write"
  <2>1. p # q
    BY <1>1, <1>3, PathFacts
  <2>2. data'[dir'[n]] = Begun(p, attempt'[p], offset'[p])
    BY <1>3 DEF FilesInv, WriteInv
  <2>3. \A j \in DOMAIN data'[dir'[n]] : data'[dir'[n]][j].by = <<p, attempt'[p]>>
    BY <2>2 DEF Begun
  <2>4. \A j \in DOMAIN data'[dir'[n]] : data'[dir'[n]][j].by # <<q, attempt'[q]>>
    BY <2>1, <2>3
  <2> QED
    BY <1>1, <2>4 DEF NoneOf, temporary_output_path
<1>4. CASE dir'[n] = NoInode
  BY <1>1, <1>4 DEF NoneOf, Exists, temporary_output_path
<1>5. n # Out[p]
  BY <1>1, PathFacts
<1> QED
  BY <1>2, <1>3, <1>4, <1>5, Untouched DEF FilesInv

\* A failed operation leaves none of its blocks.
LEMMA LeftStep ==
    ASSUME FilesInv, FilesInv', BlocksInv, LeftInv, [Next]_vars
    PROVE  LeftInv'
<1>1. CASE UNCHANGED vars
  BY <1>1 DEF vars, LeftInv, NoneOf, Exists
<1> DEFINE Guarded(q) ==
      \/ pc[q] \in Before
      \/ pc[q] = "write" /\ Direct(q)
      \/ pc[q] = "err" /\ ~litter[q]
<1>2. SUFFICES ASSUME NEW p \in Procs, ProcStep(p), NEW q \in Procs, Guarded(q)'
               PROVE  NoneOf(q, temporary_output_path(q))'
  BY <1>1, SomeStep DEF LeftInv
<1>3. /\ pc \in [Procs -> Resting \cup Running]
      /\ attempt \in [Procs -> 0..MaxAttempts]
      /\ litter \in [Procs -> BOOLEAN]
      /\ dir \in [Names -> Inodes \cup {NoInode}]
      /\ data \in [Inodes -> Seq(Block)]
  BY DEF FilesInv, TypeOK, Running, Before
<1>4. Guarded(q) => NoneOf(q, temporary_output_path(q))
  BY DEF LeftInv
<1>5. CASE q # p
  <2>1. Guarded(q) /\ attempt'[q] = attempt[q]
    BY <1>2, <1>5, OtherProcess DEF FilesInv
  <2> QED
    BY <1>2, <1>4, <1>5, <2>1, NoneOfKept
<1>6. CASE q = p /\ Begin(p)
  <2>1. /\ UNCHANGED <<dir, data>> /\ attempt'[p] = attempt[p] + 1
        /\ attempt[p] \in Nat
    BY <1>3, <1>6 DEF Begin
  <2>2. \A i \in Inodes : \A j \in DOMAIN data[i] :
          data[i][j].by # <<p, attempt'[p]>>
    BY <2>1 DEF BlocksInv
  <2>3. dir[temporary_output_path(p)] \in Inodes \cup {NoInode}
    BY <1>3, PathFacts
  <2> QED
    BY <1>6, <2>1, <2>2, <2>3 DEF NoneOf, Exists, temporary_output_path
<1>7. CASE q = p /\ Cleanup(p)
  <2>1. /\ litter'[p] \/ dir' = [dir EXCEPT ![temporary_output_path(p)] = NoInode]
        /\ pc'[p] = "err"
    BY <1>3, <1>7 DEF Cleanup, Goto
  <2>2. dir'[temporary_output_path(p)] = NoInode
    BY <1>2, <1>3, <1>7, <2>1, PathFacts DEF Before
  <2> QED
    BY <1>7, <2>2 DEF NoneOf, Exists, temporary_output_path
<1>8. CASE q = p /\ ~Begin(p) /\ ~Cleanup(p)
  <2>1. Guarded(p)
    BY <1>2, <1>3, <1>8
    DEF ProcStep, Step, Crash, Prompt, Prepare, CheckTemp, RemoveStale,
        Create, Write, WriteFails, Close, Rename, RenameFails, Goto, Failed,
        Before
  <2>2. attempt' = attempt
    BY <1>2, <1>8
    DEF ProcStep, Step, Crash, Prompt, Prepare, CheckTemp, RemoveStale,
        Create, Write, WriteFails, Close, Rename, RenameFails
  <2>3. Direct(p) \/ pc'[p] # "write"
    BY <1>2, <1>8 DEF Before
  <2> QED
    BY <1>2, <1>4, <1>8, <2>1, <2>2, <2>3, NoneOfKept
<1> QED
  BY <1>5, <1>6, <1>7, <1>8

-----------------------------------------------------------------------------
(* What the operations guarantee.                                          *)

Inv == FilesInv /\ OutputInv /\ BlocksInv /\ LeftInv

LEMMA InitInv == Init => Inv
<1> SUFFICES ASSUME Init PROVE Inv
  OBVIOUS
<1>1. \A p \in Procs : pc[p] = "idle" /\ attempt[p] = 0
  BY DEF Init
<1>2. FilesInv
  <2>1. NamesInv
    BY DEF Init, NamesInv
  <2>2. ApartInv /\ WriteInv
    BY <1>1 DEF ApartInv, WriteInv, Running, Before
  <2> QED
    BY <2>1, <2>2, InitTypes DEF FilesInv
<1>3. \A i \in Inodes : data[i] = <<>> \/ \E p \in Procs : data[i] = Begun(p, 0, Blocks)
  BY WholeIsBegun DEF Init
<1>4. OutputInv
  <2> SUFFICES ASSUME NEW o \in Outputs, Exists(o)
               PROVE  \E p \in Procs, k \in 0..MaxAttempts, n \in 0..Blocks :
                        data[dir[o]] = Begun(p, k, n) /\ (n = Blocks \/ Direct(p))
    BY DEF OutputInv
  <2>1. dir[o] \in Inodes /\ data[dir[o]] # <<>>
    BY OutputsAreNames DEF Init, Exists
  <2>2. PICK p \in Procs : data[dir[o]] = Begun(p, 0, Blocks)
    BY <1>3, <2>1
  <2>3. 0 \in 0..MaxAttempts /\ Blocks \in 0..Blocks
    OBVIOUS
  <2> QED
    BY <2>2, <2>3
<1>5. BlocksInv
  <2> SUFFICES ASSUME NEW i \in Inodes, NEW j \in DOMAIN data[i], NEW p \in Procs,
                      NEW k \in Nat, data[i][j].by = <<p, k>>
               PROVE  k <= attempt[p]
    BY DEF BlocksInv
  <2>1. PICK q \in Procs : data[i] = Begun(q, 0, Blocks)
    BY <1>3
  <2>2. data[i][j].by = <<q, 0>>
    BY <2>1 DEF Begun
  <2> QED
    BY <1>1, <2>2
<1>6. LeftInv
  BY <1>1 DEF LeftInv, Running, Before
<1> QED
  BY <1>2, <1>4, <1>5, <1>6 DEF Inv

LEMMA InvStep == Exclusive => (Inv /\ [Next]_vars => Inv')
<1> SUFFICES ASSUME Exclusive, Inv, [Next]_vars PROVE Inv'
  OBVIOUS
<1>1. FilesInv /\ FilesInv'
  BY FilesStep DEF Inv
<1> QED
  BY <1>1, OutputStep, BlocksStep, LeftStep DEF Inv

LEMMA SpecInv == Exclusive => (Spec => []Inv)
<1> SUFFICES ASSUME Exclusive PROVE Spec => []Inv
  OBVIOUS
<1>1. Inv /\ [Next]_vars => Inv'
  BY InvStep
<1> QED
  BY InitInv, <1>1, PTL DEF Spec

\* While no two operations share a temporary path, whoever looks at an
\* output finds one whole file, or the beginning of one written in place
\* (streaming_container.rs, decrypt_file_streaming).
THEOREM WholeFiles == Exclusive => (Spec => []OnlyWholeFilesVisible)
<1> SUFFICES ASSUME Exclusive PROVE Spec => []OnlyWholeFilesVisible
  OBVIOUS
<1>1. Inv => OnlyWholeFilesVisible
  <2> SUFFICES ASSUME Inv, NEW o \in Outputs, Exists(o)
               PROVE  \E p \in Procs, k \in 0..MaxAttempts :
                        \/ Visible(o) = {File(p, k)}
                        \/ /\ Direct(p)
                           /\ \E n \in 0..Blocks : Visible(o) = {SubSeq(File(p, k), 1, n)}
    BY DEF OnlyWholeFilesVisible
  <2>1. PICK p \in Procs, k \in 0..MaxAttempts, n \in 0..Blocks :
          data[dir[o]] = Begun(p, k, n) /\ (n = Blocks \/ Direct(p))
    BY DEF Inv, OutputInv
  <2>2. Visible(o) = {Begun(p, k, n)}
    BY <2>1 DEF Visible
  <2>3. SubSeq(File(p, k), 1, n) = Begun(p, k, n)
    BY BegunFacts
  <2> QED
    BY <2>1, <2>2, <2>3, WholeIsBegun
<1>2. Spec => []Inv
  BY SpecInv
<1> QED
  BY <1>1, <1>2, PTL

\* Under the same assumption a failed operation leaves none of its blocks in
\* the temporary file, unless removing it failed too (file.rs,
\* streaming_container.rs).
THEOREM NothingLeft == Exclusive => (Spec => []NothingLeftBehind)
<1> SUFFICES ASSUME Exclusive PROVE Spec => []NothingLeftBehind
  OBVIOUS
<1>1. Inv => NothingLeftBehind
  BY DEF Inv, LeftInv, NoneOf, NothingLeftBehind
<1>2. Spec => []Inv
  BY SpecInv
<1> QED
  BY <1>1, <1>2, PTL

-----------------------------------------------------------------------------
(* What a step means to whoever looks at the outputs.                      *)

\* What a step that leaves a path alone shows there.
LEMMA KeptVisible == \A n : Kept(n) => Visible(n)' = Visible(n)
  BY DEF Kept, Visible, Exists

\* A step shows its own output only: a beginning, or, in the step that
\* succeeds, the whole file.
LEMMA OutputSteps ==
    ASSUME FilesInv, FilesInv', NEW p \in Procs, ProcStep(p)
    PROVE  /\ \A o \in Outputs \ {Out[p]} : Visible(o)' = Visible(o)
           /\ pc[p] # "ok" /\ pc'[p] = "ok" =>
                Visible(Out[p])' = {File(p, attempt[p])}
           /\ pc'[p] # "ok" =>
                \/ Visible(Out[p])' = Visible(Out[p])
                \/ /\ Direct(p) /\ pc[p] \in Running /\ pc'[p] = "write"
                   /\ Visible(Out[p])' =
                        {SubSeq(File(p, attempt'[p]), 1, offset'[p])}
<1>1. /\ pc \in [Procs -> Resting \cup Running]
      /\ dir \in [Names -> Inodes \cup {NoInode}]
      /\ attempt' \in [Procs -> 0..MaxAttempts] /\ offset' \in [Procs -> 0..Blocks]
      /\ handle' \in [Procs -> Inodes \cup {NoInode}]
      /\ \A q \in Procs : handle'[q] # NoInode <=> pc'[q] = "write"
  BY DEF FilesInv, TypeOK, Running, Before
<1>2. ASSUME NEW o \in Outputs \ {Out[p]}
      PROVE  Visible(o)' = Visible(o)
  <2>1. o \in Names /\ o # temporary_output_path(p) /\ o # Target(p)
    BY OutputsAreNames, PathFacts
  <2>2. Kept(o)
    BY <2>1, Untouched DEF FilesInv
  <2> QED
    BY <2>2, KeptVisible
<1>3. ASSUME pc[p] # "ok", pc'[p] = "ok"
      PROVE  Visible(Out[p])' = {File(p, attempt[p])}
  <2>1. (Close(p) /\ Direct(p)) \/ Rename(p)
    BY <1>1, <1>3
    DEF ProcStep, Step, Begin, Crash, Prompt, Prepare, CheckTemp, RemoveStale,
        Create, Write, WriteFails, Close, RenameFails, Cleanup, Goto, Failed
  <2>2. CASE Close(p) /\ Direct(p)
    <3>1. /\ pc[p] = "write" /\ offset[p] = Blocks /\ UNCHANGED <<dir, data>>
      BY <2>2 DEF Close
    <3>2. /\ dir[Out[p]] = handle[p] /\ handle[p] # NoInode
          /\ data[dir[Out[p]]] = File(p, attempt[p])
      BY <2>2, <3>1, PathFacts, WholeIsBegun DEF FilesInv, WriteInv, TypeOK
    <3> QED
      BY <3>1, <3>2 DEF Visible, Exists
  <2>3. CASE Rename(p)
    <3>1. /\ pc[p] = "rename" /\ data' = data
          /\ dir'[Out[p]] = dir[temporary_output_path(p)]
      BY <1>1, <2>3, PathFacts DEF Rename
    <3>2. /\ dir[temporary_output_path(p)] # NoInode
          /\ data[dir[temporary_output_path(p)]] = File(p, attempt[p])
      BY <3>1 DEF FilesInv, WriteInv, Exists
    <3> QED
      BY <3>1, <3>2 DEF Visible, Exists
  <2> QED
    BY <2>1, <2>2, <2>3
<1>4. ASSUME pc'[p] # "ok"
      PROVE  \/ Visible(Out[p])' = Visible(Out[p])
             \/ /\ Direct(p) /\ pc[p] \in Running /\ pc'[p] = "write"
                /\ Visible(Out[p])' = {SubSeq(File(p, attempt'[p]), 1, offset'[p])}
  <2>1. ~Rename(p)
    BY <1>1, <1>4 DEF Rename, Goto
  <2>2. Kept(Out[p]) \/ (Out[p] = Target(p) /\ pc'[p] = "write")
    BY <2>1, PathFacts, Untouched DEF FilesInv
  <2>3. CASE Kept(Out[p])
    BY <2>3, KeptVisible
  <2>4. CASE ~Kept(Out[p]) /\ Out[p] = Target(p) /\ pc'[p] = "write"
    <3>1. Direct(p)
      BY <2>4, PathFacts
    <3>2. pc[p] \in Running
      BY <2>4, OtherProcess DEF FilesInv, Kept
    <3>3. /\ dir'[Out[p]] = handle'[p] /\ handle'[p] # NoInode
          /\ data'[handle'[p]] = Begun(p, attempt'[p], offset'[p])
      BY <1>1, <2>4 DEF FilesInv, WriteInv
    <3>4. PICK k \in 0..MaxAttempts, n \in 0..Blocks : k = attempt'[p] /\ n = offset'[p]
      BY <1>1
    <3>5. data'[dir'[Out[p]]] = SubSeq(File(p, k), 1, n)
      BY <3>3, <3>4, BegunFacts
    <3> QED
      BY <2>4, <3>1, <3>2, <3>3, <3>4, <3>5 DEF Visible, Exists
  <2> QED
    BY <2>2, <2>3, <2>4
<1> QED
  BY <1>2, <1>3, <1>4

\* While temporary paths are not shared, an operation returns Ok only in a
\* step that leaves its own whole file at its output (file.rs,
\* streaming_container.rs).
THEOREM OkInstalls == Exclusive => (Spec => OkMeansInstalled)
<1> SUFFICES ASSUME Exclusive PROVE Spec => OkMeansInstalled
  OBVIOUS
<1>1. Inv /\ [Next]_vars =>
        [\A p \in Procs : pc[p] # "ok" /\ pc'[p] = "ok" =>
            Visible(Out[p])' = {File(p, attempt[p])}]_vars
  <2> SUFFICES ASSUME Inv, [Next]_vars, NEW p \in Procs, pc[p] # "ok", pc'[p] = "ok"
               PROVE  Visible(Out[p])' = {File(p, attempt[p])}
    OBVIOUS
  <2>1. FilesInv /\ FilesInv'
    BY FilesStep DEF Inv
  <2>2. PICK q \in Procs : ProcStep(q)
    BY SomeStep DEF vars
  <2>3. p = q
    BY <2>1, <2>2, OtherProcess DEF FilesInv
  <2> QED
    BY <2>1, <2>2, <2>3, OutputSteps
<1>2. Spec => []Inv
  BY SpecInv
<1> QED
  BY <1>1, <1>2, PTL DEF Spec, OkMeansInstalled

-----------------------------------------------------------------------------
(* The operations implement AtomicOutput.                                  *)

Stage(p) == IF pc[p] \in Resting THEN "rest" ELSE "busy"
Files == [o \in Outputs |-> Visible(o)]
Stages == [p \in Procs |-> Stage(p)]

LEMMA InitRefines == Init => Atomic!Init
<1> SUFFICES ASSUME Init PROVE Atomic!Init
  OBVIOUS
<1>1. Outputs = Atomic!Paths
  BY DEF Outputs, Atomic!Paths
<1>2. ASSUME NEW o \in Outputs
      PROVE  Visible(o) \in {{}} \cup {{Atomic!File(p, 0)} : p \in Procs}
  <2>1. \A p \in Procs : File(p, 0) = Atomic!File(p, 0)
    BY DEF File, Atomic!File
  <2>2. CASE Exists(o)
    <3>1. dir[o] \in Inodes /\ data[dir[o]] # <<>>
      BY <2>2, OutputsAreNames DEF Init, Exists
    <3>2. PICK p \in Procs : data[dir[o]] = File(p, 0)
      BY <3>1 DEF Init
    <3> QED
      BY <2>1, <2>2, <3>2 DEF Visible
  <2>3. CASE ~Exists(o)
    BY <2>3 DEF Visible
  <2> QED
    BY <2>2, <2>3
<1>3. [o \in Outputs |-> Visible(o)] \in
        [Atomic!Paths -> {{}} \cup {{Atomic!File(p, 0)} : p \in Procs}]
  BY <1>1, <1>2
<1>4. [p \in Procs |-> IF pc[p] \in Resting THEN "rest" ELSE "busy"]
        = [p \in Procs |-> "rest"]
  BY DEF Init, Resting
<1> QED
  BY <1>3, <1>4 DEF Init, Atomic!Init

\* Each step is one of AtomicOutput, or none.
LEMMA StepRefines ==
    ASSUME FilesInv, FilesInv', NEW p \in Procs, ProcStep(p)
    PROVE  [Atomic!Next]_(Atomic!vars)
<1>1. /\ pc \in [Procs -> Resting \cup Running]
      /\ attempt \in [Procs -> 0..MaxAttempts]
      /\ offset' \in [Procs -> 0..Blocks]
      /\ \A l \in Running : l \notin Resting
  BY DEF FilesInv, TypeOK, Running, Before, Resting
<1>2. /\ \A q \in Procs \ {p} : pc'[q] = pc[q]
      /\ pc' = [pc EXCEPT ![p] = pc'[p]]
  <2>1. \A q \in Procs \ {p} : pc'[q] = pc[q]
    BY OtherProcess DEF FilesInv
  <2>2. pc' \in [Procs -> Resting \cup Running]
    BY DEF FilesInv, TypeOK, Running, Before
  <2> QED
    BY <1>1, <2>1, <2>2
<1>3. /\ Files' = [Files EXCEPT ![Out[p]] = Visible(Out[p])']
      /\ Visible(Out[p])' = Visible(Out[p]) => Files' = Files
  <2>1. \A o \in Outputs \ {Out[p]} : Visible(o)' = Visible(o)
    BY OutputSteps
  <2> QED
    BY <2>1, PathFacts DEF Files
<1>4. /\ Stages' = [Stages EXCEPT ![p] = Stage(p)']
      /\ Stages[p] = Stage(p)
      /\ Stage(p)' = Stage(p) => Stages' = Stages
  BY <1>2 DEF Stages, Stage
<1>5. /\ Stage(p) = "rest" <=> pc[p] \notin Running
      /\ Stage(p) = "busy" <=> pc[p] \in Running
      /\ Stage(p)' = "rest" <=> pc'[p] \in Resting
      /\ Stage(p)' \in {"rest", "busy"}
  BY <1>1 DEF Stage
<1>6. CASE Begin(p)
  <2>1. /\ UNCHANGED <<dir, data>> /\ attempt' = [attempt EXCEPT ![p] = @ + 1]
        /\ pc[p] \notin Running
    BY <1>1, <1>6 DEF Begin
  <2>2. Files' = Files
    BY <2>1 DEF Files, Visible, Exists
  <2>3. Atomic!Begin(p) \/ Atomic!Refuse(p)
    BY <1>4, <1>5, <2>1, <2>2
    DEF Atomic!Begin, Atomic!Refuse, Files, Stages, Stage
  <2> QED
    BY <2>3 DEF Atomic!Next
<1>7. CASE ~Begin(p)
  <2>1. pc[p] \in Running /\ pc[p] # "ok"
    BY <1>1, <1>7, OtherProcess DEF FilesInv, Resting
  <2>2. attempt' = attempt
    BY <1>7
    DEF ProcStep, Step, Crash, Prompt, Prepare, CheckTemp, RemoveStale, Create,
        Write, WriteFails, Close, Rename, RenameFails, Cleanup
  <2>3. CASE pc'[p] = "ok"
    <3>1. Visible(Out[p])' = {Atomic!File(p, attempt[p])}
      BY <2>1, <2>3, OutputSteps DEF File, Atomic!File
    <3>2. Stage(p)' = "rest"
      BY <1>5, <2>3 DEF Resting
    <3>3. Atomic!Install(p)
      BY <1>3, <1>4, <1>5, <2>1, <2>2, <3>1, <3>2
      DEF Atomic!Install, Files, Stages, Stage
    <3> QED
      BY <3>3 DEF Atomic!Next
  <2>4. CASE pc'[p] # "ok" /\ Visible(Out[p])' = Visible(Out[p])
    <3>1. Files' = Files
      BY <1>3, <2>4
    <3>2. CASE Stage(p)' = "rest"
      <4>1. Atomic!Fail(p)
        BY <1>4, <1>5, <2>1, <2>2, <3>1, <3>2
        DEF Atomic!Fail, Files, Stages, Stage
      <4> QED
        BY <4>1 DEF Atomic!Next
    <3>3. CASE Stage(p)' = "busy"
      BY <1>4, <1>5, <2>1, <2>2, <3>1, <3>3
      DEF Atomic!vars, Files, Stages, Stage
    <3> QED
      BY <1>5, <3>2, <3>3
  <2>5. CASE /\ Direct(p) /\ pc'[p] = "write"
             /\ Visible(Out[p])' = {SubSeq(File(p, attempt'[p]), 1, offset'[p])}
    <3>1. Stage(p)' = "busy"
      BY <1>1, <1>5, <2>5 DEF Running
    <3>2. PICK n \in 0..Blocks : n = offset'[p]
      BY <1>1
    <3>3. Visible(Out[p])' = {SubSeq(Atomic!File(p, attempt[p]), 1, n)}
      BY <2>2, <2>5, <3>2 DEF File, Atomic!File
    <3>4. Stages' = Stages
      BY <1>4, <1>5, <2>1, <3>1
    <3>5. Atomic!Expose(p)
      BY <1>3, <1>4, <1>5, <2>1, <2>2, <2>5, <3>3, <3>4
      DEF Atomic!Expose, Files, Stages, Stage
    <3> QED
      BY <3>5 DEF Atomic!Next
  <2> QED
    BY <2>3, <2>4, <2>5, OutputSteps
<1> QED
  BY <1>6, <1>7

\* While temporary paths are not shared, every step is one step of
\* AtomicOutput or invisible: an output made through a temporary file changes
\* once, with the success of the operation (file.rs, streaming_container.rs).
THEOREM AtomicOutputImplemented == Exclusive => (Spec => ImplementsAtomicOutput)
<1> SUFFICES ASSUME Exclusive PROVE Spec => ImplementsAtomicOutput
  OBVIOUS
<1>1. Inv /\ [Next]_vars => [Atomic!Next]_(Atomic!vars)
  <2> SUFFICES ASSUME Inv, [Next]_vars PROVE [Atomic!Next]_(Atomic!vars)
    OBVIOUS
  <2>1. FilesInv /\ FilesInv'
    BY FilesStep DEF Inv
  <2>2. CASE UNCHANGED vars
    BY <2>2 DEF vars, Atomic!vars, Visible, Exists
  <2>3. CASE \E p \in Procs : ProcStep(p)
    BY <2>1, <2>3, StepRefines
  <2> QED
    BY <2>2, <2>3, SomeStep
<1>2. Spec => []Inv
  BY SpecInv
<1> QED
  BY <1>1, <1>2, InitRefines, PTL DEF Spec, ImplementsAtomicOutput, Atomic!Spec

-----------------------------------------------------------------------------
(* Termination: the system calls an operation has left to make.            *)

\* A step of p's operation, or the death of its process, leaves it less to
\* do; before its return it always has something left to do.
LEMMA CallUsed ==
    ASSUME TypeOK, NEW p \in Procs, Step(p) \/ Crash(p)
    PROVE  CallsLeft(p)' \in 0..(CallsLeft(p) - 1)
<1> USE DEF Goto
<1>1. /\ pc \in [Procs -> Resting \cup {"prompt", "input", "check", "remove",
                             "create", "write", "rename", "cleanup"}]
      /\ offset[p] \in 0..Blocks /\ offset \in [Procs -> 0..Blocks]
      /\ Blocks \in Nat
  BY DEF TypeOK
<1>2. CASE Write(p)
  <2>1. /\ pc[p] = "write" /\ pc'[p] = "write"
        /\ offset[p] < Blocks /\ offset'[p] = offset[p] + 1
    BY <1>1, <1>2 DEF Write
  <2> QED
    BY <1>1, <2>1 DEF CallsLeft, Resting
<1>3. CASE Create(p) /\ pc'[p] = "write"
  <2>1. pc[p] = "create" /\ pc'[p] = "write" /\ offset'[p] = 0
    BY <1>1, <1>3 DEF Create, OpenTruncated, Failed
  <2> QED
    BY <1>1, <2>1 DEF CallsLeft, Resting
<1>4. CASE \/ Prompt(p) \/ Prepare(p) \/ CheckTemp(p) \/ RemoveStale(p)
           \/ Create(p) /\ pc'[p] # "write"
           \/ WriteFails(p) \/ Close(p) \/ Rename(p) \/ RenameFails(p)
           \/ Cleanup(p) \/ Crash(p)
  <2>1. \/ pc[p] = "prompt" /\ pc'[p] \in {"input", "err"}
        \/ pc[p] = "input" /\ pc'[p] \in {"create", "check", "err"}
        \/ pc[p] = "check" /\ pc'[p] \in {"remove", "create"}
        \/ pc[p] = "remove" /\ pc'[p] \in {"create", "err"}
        \/ pc[p] = "create" /\ pc'[p] \in {"err", "cleanup"}
        \/ pc[p] = "write" /\ pc'[p] \in {"err", "cleanup", "ok", "rename"}
        \/ pc[p] = "rename" /\ pc'[p] \in {"ok", "cleanup"}
        \/ pc[p] = "cleanup" /\ pc'[p] = "err"
        \/ pc[p] \notin Resting /\ pc'[p] = "crashed"
    BY <1>1, <1>4 DEF Prompt, Prepare, CheckTemp, RemoveStale, Create,
       WriteFails, Close, Rename, RenameFails, Cleanup, Crash, Failed
  <2> QED
    BY <1>1, <2>1 DEF CallsLeft, Resting
<1> QED
  BY <1>2, <1>3, <1>4 DEF Step

\* No operation goes on for ever, whatever fails and whatever the other
\* processes do to its files (the safety half of OperationsReturn).
THEOREM OperationsEnd == Spec => OperationsRunOut
<1>1. TypeOK /\ [Next]_vars =>
        [\A p \in Procs :
            pc[p] \notin Resting =>
               \/ /\ pc'[p] = pc[p] /\ offset'[p] = offset[p]
                  /\ handle'[p] = handle[p] /\ attempt'[p] = attempt[p]
               \/ CallsLeft(p)' \in 0..(CallsLeft(p) - 1)]_vars
  <2> SUFFICES ASSUME TypeOK, Next, NEW p \in Procs, pc[p] \notin Resting
               PROVE  \/ /\ pc'[p] = pc[p] /\ offset'[p] = offset[p]
                         /\ handle'[p] = handle[p] /\ attempt'[p] = attempt[p]
                      \/ CallsLeft(p)' \in 0..(CallsLeft(p) - 1)
    OBVIOUS
  <2>1. PICK q \in Procs : ProcStep(q)
    BY DEF Next, ProcStep
  <2>2. CASE q = p
    <3>1. Step(p) \/ Crash(p)
      BY <2>1, <2>2 DEF ProcStep, Begin
    <3> QED
      BY <3>1, CallUsed
  <2>3. CASE q # p
    BY <2>1, <2>3, OtherProcess
  <2> QED
    BY <2>2, <2>3
<1> QED
  BY TypeCorrect, <1>1, PTL DEF Spec, OperationsRunOut
=============================================================================
