---------------------------- MODULE AtomicOutput ----------------------------
(***************************************************************************)
(* What an operation that produces a file should mean to whoever looks at  *)
(* the output path.  Through a temporary file: the output keeps what it    *)
(* had until, in one step, it holds the whole new file and the operation   *)
(* has succeeded; one that fails, or dies, changes nothing.  In place: the *)
(* output holds ever other beginnings of the new file meanwhile.           *)
(***************************************************************************)
EXTENDS Naturals, Sequences

CONSTANTS Procs,    \* processes that run operations
          Out,      \* Out[p]: the output path of p's operations
          InPlace,  \* the processes that write their output itself
          Blocks    \* length of every file, in blocks

\* The file that the k-th operation of p produces, block by block.
File(p, k) == [i \in 1..Blocks |-> [by |-> <<p, k>>, n |-> i]]

VARIABLES file,     \* file[n]: {} if there is no file n, or {its blocks}
          stage,    \* stage[p]: "rest" or "busy"
          attempt   \* attempt[p]: operations p has begun

vars == <<file, stage, attempt>>

Paths == {Out[p] : p \in Procs}

Init == /\ file \in [Paths -> {{}} \cup {{File(p, 0)} : p \in Procs}]
        /\ stage = [p \in Procs |-> "rest"]
        /\ attempt = [p \in Procs |-> 0]

Begin(p) == /\ stage[p] = "rest"
            /\ stage' = [stage EXCEPT ![p] = "busy"]
            /\ attempt' = [attempt EXCEPT ![p] = @ + 1]
            /\ UNCHANGED file

Expose(p) == /\ p \in InPlace
             /\ stage[p] = "busy"
             /\ \E n \in 0..Blocks :
                  file' = [file EXCEPT ![Out[p]] = {SubSeq(File(p, attempt[p]), 1, n)}]
             /\ UNCHANGED <<stage, attempt>>

Install(p) == /\ stage[p] = "busy"
              /\ stage' = [stage EXCEPT ![p] = "rest"]
              /\ file' = [file EXCEPT ![Out[p]] = {File(p, attempt[p])}]
              /\ UNCHANGED attempt

Fail(p) == /\ stage[p] = "busy"
           /\ stage' = [stage EXCEPT ![p] = "rest"]
           /\ UNCHANGED <<file, attempt>>

\* An operation that is refused at once begins and fails in one step.
Refuse(p) == /\ stage[p] = "rest"
             /\ attempt' = [attempt EXCEPT ![p] = @ + 1]
             /\ UNCHANGED <<file, stage>>

Next == \E p \in Procs : Begin(p) \/ Refuse(p) \/ Expose(p) \/ Install(p) \/ Fail(p)

Spec == Init /\ [][Next]_vars
=============================================================================
