----------------------------- MODULE OutputFile -----------------------------
(***************************************************************************)
(* How crates/fcloak-core produces a file on disk: encrypt_file and        *)
(* decrypt_standard_file (file.rs), encrypt_file_streaming and             *)
(* decrypt_file_streaming (streaming_container.rs), called by windows or   *)
(* by the command line (apps/fcloak-cli/src/main.rs) in several processes, *)
(* one system call at a time.  Any call may fail, any process may die      *)
(* between two calls and run another operation later.                      *)
(*                                                                         *)
(* The file system is a directory of names for inodes and the inodes'      *)
(* data.  An open file is a handle on an inode and an offset, so an inode  *)
(* that lost its name, or that another process truncated, can still be     *)
(* written.  Data is counted in blocks, each marked with the operation     *)
(* that wrote it and its place.                                            *)
(***************************************************************************)
EXTENDS Naturals, Sequences

CONSTANTS
    Procs,          \* processes that run operations
    Kind,           \* Kind[p]: the function p calls
    Cli,            \* the processes that are the command line tool
    Out,            \* Out[p]: the output path of p's operations
    TempOf,         \* TempOf[o]: temporary_output_path(o)
    Inodes,
    NoInode,        \* no file
    Blocks,         \* length of every file, in blocks
    MaxAttempts,    \* operations a process runs (bound)
    Exclusive       \* no two operations at once share a temporary path

Kinds == {"encrypt_file", "decrypt_standard_file", "decrypt_file_streaming",
          "encrypt_file_streaming"}

Outputs == {Out[p] : p \in Procs}
Temps   == {TempOf[o] : o \in Outputs}
Names   == Outputs \cup Temps

ASSUME OutputFileAssumption ==
    /\ Kind \in [Procs -> Kinds] /\ Cli \subseteq Procs
    /\ Outputs \cap Temps = {}      \* no output is named like a temporary file
    /\ NoInode \notin Inodes
    /\ Blocks \in Nat /\ MaxAttempts \in Nat
    /\ Exclusive \in BOOLEAN

VARIABLES
    dir,            \* dir[n]: the inode with name n, or NoInode
    data,           \* data[i]: the blocks of inode i
    pc,
    attempt,        \* attempt[p]: operations p has begun
    handle,         \* handle[p]: the inode p writes, or NoInode
    offset,         \* offset[p]: blocks p has written
    litter          \* history: p's last cleanup failed

vars == <<dir, data, pc, attempt, handle, offset, litter>>

-----------------------------------------------------------------------------
(* The file system.                                                        *)

Exists(n) == dir[n] # NoInode

\* A hole: what reading finds before an offset nobody wrote up to.
Hole == [by |-> <<"nobody", 0>>, n |-> 0]

Block == [by : (Procs \cup {"nobody"}) \X (0..MaxAttempts), n : 0..Blocks]

\* The blocks c once block b is written at position k.
Written(c, k, b) ==
    [i \in 1..(IF k > Len(c) THEN k ELSE Len(c)) |->
        IF i = k THEN b ELSE IF i <= Len(c) THEN c[i] ELSE Hole]

InUse == {dir[n] : n \in Names} \cup {handle[p] : p \in Procs}

\* File::create: truncate the file of that name, or make an empty one.
OpenTruncated(p, n) ==
    /\ IF Exists(n)
         THEN /\ data' = [data EXCEPT ![dir[n]] = <<>>]
              /\ handle' = [handle EXCEPT ![p] = dir[n]]
              /\ UNCHANGED dir
         ELSE \E i \in Inodes \ InUse :
                /\ dir' = [dir EXCEPT ![n] = i]
                /\ data' = [data EXCEPT ![i] = <<>>]
                /\ handle' = [handle EXCEPT ![p] = i]
    /\ offset' = [offset EXCEPT ![p] = 0]

-----------------------------------------------------------------------------
(* Operations.                                                             *)

\* The k-th operation of p produces these blocks.
File(p, k) == [i \in 1..Blocks |-> [by |-> <<p, k>>, n |-> i]]

\* encrypt_file_streaming writes its output in place.
Direct(p) == Kind[p] = "encrypt_file_streaming"

temporary_output_path(p) == TempOf[Out[p]]

\* Bug: the output is written in place by every operation.
TargetIsOutput(p) == Out[p]

Target(p) == IF Direct(p) THEN Out[p] ELSE temporary_output_path(p)

Resting == {"idle", "ok", "err", "crashed"}

\* At first nothing runs; an output may exist, whole, and a temporary file
\* may be left from an operation that died.
Init ==
    /\ dir \in [Names -> Inodes \cup {NoInode}]
    /\ \A m, n \in Names : m # n => dir[m] # dir[n] \/ dir[m] = NoInode
    /\ data \in [Inodes -> {File(p, 0) : p \in Procs} \cup {<<>>}]
    /\ \A n \in Outputs : dir[n] # NoInode => data[dir[n]] # <<>>
    /\ \A i \in Inodes : (\A n \in Names : dir[n] # i) => data[i] = <<>>
    /\ pc = [p \in Procs |-> "idle"]
    /\ attempt = [p \in Procs |-> 0]
    /\ handle = [p \in Procs |-> NoInode]
    /\ offset = [p \in Procs |-> 0]
    /\ litter = [p \in Procs |-> FALSE]

Goto(p, label) == pc' = [pc EXCEPT ![p] = label]

\* output.exists(), in encrypt_command and decrypt_command; the command goes
\* on when it cannot tell.
Refused(p) == p \in Cli /\ Exists(Out[p])

\* An operation is called.  The graphical application runs one at a time.
Begin(p) ==
    /\ pc[p] \in Resting
    /\ attempt[p] < MaxAttempts
    /\ Exclusive => \A q \in Procs \ {p} :
          pc[q] \in Resting \/ temporary_output_path(q) # temporary_output_path(p)
    /\ \/ Refused(p) /\ Goto(p, "err")
       \/ Goto(p, IF p \in Cli THEN "prompt" ELSE "input")
    /\ attempt' = [attempt EXCEPT ![p] = @ + 1]
    /\ litter' = [litter EXCEPT ![p] = FALSE]
    /\ UNCHANGED <<dir, data, handle, offset>>

\* read_password: one that is empty or not confirmed ends the command.
Prompt(p) ==
    /\ pc[p] = "prompt"
    /\ \/ Goto(p, "input")
       \/ Goto(p, "err")
    /\ UNCHANGED <<dir, data, attempt, handle, offset, litter>>

\* Everything before the first change to the file system: the input is
\* opened and read, keys derived, the whole of a standard container or the
\* header of a streaming one authenticated.  Any of it may fail.
Prepare(p) ==
    /\ pc[p] = "input"
    /\ \/ Goto(p, IF Direct(p) THEN "create" ELSE "check")
       \/ Goto(p, "err")
    /\ UNCHANGED <<dir, data, attempt, handle, offset, litter>>

\* if temp_path.exists(): which also says no when it cannot tell.
CheckTemp(p) ==
    /\ pc[p] = "check"
    /\ \/ Exists(temporary_output_path(p)) /\ Goto(p, "remove")
       \/ Goto(p, "create")
    /\ UNCHANGED <<dir, data, attempt, handle, offset, litter>>

\* Bug: the wrong path is removed.
RemoveOutput(p) ==
    /\ pc[p] = "remove"
    /\ \/ /\ Exists(Out[p])
          /\ dir' = [dir EXCEPT ![Out[p]] = NoInode]
          /\ Goto(p, "create")
       \/ Goto(p, "err") /\ UNCHANGED dir
    /\ UNCHANGED <<data, attempt, handle, offset, litter>>

\* Bug: a stale file that cannot be removed is tried again, for ever.
RetryRemove(p) ==
    /\ pc[p] = "remove"
    /\ \/ /\ Exists(temporary_output_path(p))
          /\ dir' = [dir EXCEPT ![temporary_output_path(p)] = NoInode]
          /\ Goto(p, "create")
       \/ Goto(p, "check") /\ UNCHANGED dir
    /\ UNCHANGED <<data, attempt, handle, offset, litter>>

\* remove_file(&temp_path)? : a failure is returned at once.
RemoveStale(p) ==
    /\ pc[p] = "remove"
    /\ \/ /\ Exists(temporary_output_path(p))
          /\ dir' = [dir EXCEPT ![temporary_output_path(p)] = NoInode]
          /\ Goto(p, "create")
       \/ Goto(p, "err") /\ UNCHANGED dir
    /\ UNCHANGED <<data, attempt, handle, offset, litter>>

\* Bug: every error is returned at once.
FailedAtOnce(p) == "err"

\* Where a failure leads: the cleanup of the temporary file, if there is one.
Failed(p) == IF Direct(p) THEN "err" ELSE "cleanup"

\* File::create, or the opening in fs::write.
Create(p) ==
    /\ pc[p] = "create"
    /\ \/ OpenTruncated(p, Target(p)) /\ Goto(p, "write")
       \/ Goto(p, Failed(p)) /\ UNCHANGED <<dir, data, handle, offset>>
    /\ UNCHANGED <<attempt, litter>>

\* The next block is written through the open handle.
Write(p) ==
    /\ pc[p] = "write"
    /\ offset[p] < Blocks
    /\ data' = [data EXCEPT ![handle[p]] =
                  Written(@, offset[p] + 1, File(p, attempt[p])[offset[p] + 1])]
    /\ offset' = [offset EXCEPT ![p] = @ + 1]
    /\ UNCHANGED <<dir, pc, attempt, handle, litter>>

\* A write fails or, in a streaming operation, the next chunk cannot be read
\* or does not authenticate.  The file is closed on the way out.
WriteFails(p) ==
    /\ pc[p] = "write"
    /\ Goto(p, Failed(p))
    /\ handle' = [handle EXCEPT ![p] = NoInode]
    /\ UNCHANGED <<dir, data, attempt, offset, litter>>

\* Bug: the file is renamed while it is open.
NotClosed(p) ==
    /\ pc[p] = "write"
    /\ offset[p] = Blocks
    /\ Goto(p, IF Direct(p) THEN "ok" ELSE "rename")
    /\ UNCHANGED <<dir, data, attempt, handle, offset, litter>>

\* All is written: the file is flushed and closed.
Close(p) ==
    /\ pc[p] = "write"
    /\ offset[p] = Blocks
    /\ Goto(p, IF Direct(p) THEN "ok" ELSE "rename")
    /\ handle' = [handle EXCEPT ![p] = NoInode]
    /\ UNCHANGED <<dir, data, attempt, offset, litter>>

\* fs::rename(&temp_path, output_path), whatever file has that name by now.
Rename(p) ==
    /\ pc[p] = "rename"
    /\ Exists(temporary_output_path(p))
    /\ dir' = [dir EXCEPT ![Out[p]] = dir[temporary_output_path(p)],
                          ![temporary_output_path(p)] = NoInode]
    /\ Goto(p, "ok")
    /\ UNCHANGED <<data, attempt, handle, offset, litter>>

\* Bug: the result of the rename is ignored.
RenameIgnored(p) ==
    /\ pc[p] = "rename"
    /\ Goto(p, "ok")
    /\ UNCHANGED <<dir, data, attempt, handle, offset, litter>>

\* The rename fails: the name is gone, or the file system refuses.
RenameFails(p) ==
    /\ pc[p] = "rename"
    /\ Goto(p, "cleanup")
    /\ UNCHANGED <<dir, data, attempt, handle, offset, litter>>

\* Bug: the output is removed along with the temporary file.
CleanupBoth(p) ==
    /\ pc[p] = "cleanup"
    /\ Goto(p, "err")
    /\ dir' = [dir EXCEPT ![temporary_output_path(p)] = NoInode,
                          ![Out[p]] = NoInode]
    /\ UNCHANGED <<data, attempt, handle, offset, litter>>

\* let _ = remove_file(&temp_path): its own failure is ignored.
Cleanup(p) ==
    /\ pc[p] = "cleanup"
    /\ Goto(p, "err")
    /\ \/ /\ dir' = [dir EXCEPT ![temporary_output_path(p)] = NoInode]
          /\ UNCHANGED litter
       \/ /\ Exists(temporary_output_path(p))
          /\ litter' = [litter EXCEPT ![p] = TRUE]
          /\ UNCHANGED dir
    /\ UNCHANGED <<data, attempt, handle, offset>>

\* The process dies; the operating system closes its files.
Crash(p) ==
    /\ pc[p] \notin Resting
    /\ Goto(p, "crashed")
    /\ handle' = [handle EXCEPT ![p] = NoInode]
    /\ UNCHANGED <<dir, data, attempt, offset, litter>>

Step(p) == \/ Prompt(p) \/ Prepare(p) \/ CheckTemp(p) \/ RemoveStale(p) \/ Create(p)
           \/ Write(p) \/ WriteFails(p) \/ Close(p) \/ Rename(p)
           \/ RenameFails(p) \/ Cleanup(p)

Next == \E p \in Procs : Begin(p) \/ Step(p) \/ Crash(p)

Spec == Init /\ [][Next]_vars

\* A running operation is straight-line code over blocking system calls.
FairSpec == Spec /\ \A p \in Procs : WF_vars(Step(p))

-----------------------------------------------------------------------------
(* Properties.                                                             *)

\* Every variable has its type.
TypeOK ==
    /\ dir \in [Names -> Inodes \cup {NoInode}]
    /\ data \in [Inodes -> Seq(Block)]
    /\ pc \in [Procs -> Resting \cup {"prompt", "input", "check", "remove", "create",
                                      "write", "rename", "cleanup"}]
    /\ attempt \in [Procs -> 0..MaxAttempts]
    /\ handle \in [Procs -> Inodes \cup {NoInode}]
    /\ offset \in [Procs -> 0..Blocks]
    /\ litter \in [Procs -> BOOLEAN]
    /\ \A p \in Procs : handle[p] # NoInode <=> pc[p] = "write"

\* What a reader finds at path n: nothing, or one file.
Visible(n) == IF Exists(n) THEN {data[dir[n]]} ELSE {}

\* streaming_container.rs:155: "Only expose plaintext after the entire stream
\* has successfully authenticated".  What stands at an output path is one
\* whole file, or the beginning of one that an operation in place is writing
\* or has given up.
OnlyWholeFilesVisible ==
    \A o \in Outputs : Exists(o) =>
        \E p \in Procs, k \in 0..MaxAttempts :
            \/ Visible(o) = {File(p, k)}
            \/ Direct(p) /\ \E n \in 0..Blocks : Visible(o) = {SubSeq(File(p, k), 1, n)}

\* An operation, in place or not, returns Ok only in a step that leaves its
\* own whole file at the output path.
OkMeansInstalled ==
    [][\A p \in Procs : pc[p] # "ok" /\ pc'[p] = "ok" =>
          Visible(Out[p])' = {File(p, attempt[p])}]_vars

\* streaming_container.rs:162: "Never leave plaintext behind after a failed
\* operation".  After an error the temporary file holds no block of the
\* operation that failed, unless removing it failed too.
NothingLeftBehind ==
    \A p \in Procs :
        pc[p] = "err" /\ ~litter[p] /\ Exists(temporary_output_path(p)) =>
            \A i \in DOMAIN data[dir[temporary_output_path(p)]] :
                data[dir[temporary_output_path(p)]][i].by # <<p, attempt[p]>>

\* Whatever else happens, a path that holds a file goes on holding one: no
\* operation, failed, dead or racing, makes an output disappear.
OutputNeverVanishes == [][\A o \in Outputs : Exists(o) => Exists(o)']_vars

\* An operation that was begun returns, unless its process dies.
OperationsReturn ==
    \A p \in Procs : pc[p] = "input" ~> pc[p] \in {"ok", "err", "crashed"}

\* The system calls p's operation can still make, at most.
CallsLeft(p) ==
    IF pc[p] \in Resting THEN 0
    ELSE IF pc[p] = "write" THEN 3 + (Blocks - offset[p])
    ELSE [cleanup |-> 1, rename |-> 2, create |-> 4 + Blocks,
          remove |-> 5 + Blocks, check |-> 6 + Blocks, input |-> 7 + Blocks,
          prompt |-> 8 + Blocks][pc[p]]

\* No operation can go on for ever: what it still has to do only gets less,
\* by every call of its own, failed ones included, and by nothing that the
\* other processes do to its files.
OperationsRunOut ==
    [][\A p \in Procs :
          pc[p] \notin Resting =>
             \/ /\ pc'[p] = pc[p] /\ offset'[p] = offset[p]
                /\ handle'[p] = handle[p] /\ attempt'[p] = attempt[p]
             \/ CallsLeft(p)' \in 0..(CallsLeft(p) - 1)]_vars

\* What the operations mean to whoever looks at an output path.
Atomic == INSTANCE AtomicOutput
    WITH file    <- [o \in Outputs |-> Visible(o)],
         stage   <- [p \in Procs |-> IF pc[p] \in Resting THEN "rest" ELSE "busy"],
         InPlace <- {p \in Procs : Direct(p)}

\* Every step of the protocol is one step of AtomicOutput, or invisible: an
\* output written through a temporary file changes once, with the success of
\* the operation; one written in place shows beginnings of its own file only.
ImplementsAtomicOutput == Atomic!Spec
=============================================================================
