--------------------------- MODULE PrefixRelease ---------------------------
(***************************************************************************)
(* What the chunked decryption of crates/fcloak-core/src/streaming.rs      *)
(* promises to whoever reads its output, whatever happened to the stream.  *)
(* The plaintext it releases is, at every moment, a prefix of the          *)
(* plaintext that was encrypted; it only grows; and it is final once the   *)
(* call has returned.  Nothing is promised about completeness: "ok" may    *)
(* come with a proper prefix.                                              *)
(***************************************************************************)
EXTENDS Naturals, Sequences

CONSTANT SourceLen      \* length of the encrypted plaintext, in units

VARIABLES released,     \* the units handed to the output writer
          verdict       \* "none" until the call returns, then "ok" or "err"

vars == <<released, verdict>>

\* Unit i of the plaintext is named by its position.
Prefix(n) == [i \in 1..n |-> i]

Init == /\ released = <<>>
        /\ verdict = "none"

\* Some more plaintext is released, possibly with the verdict of a call
\* that fails part of the way through a write.
Release == /\ verdict = "none"
           /\ \E n \in Len(released)..SourceLen : released' = Prefix(n)
           /\ verdict' \in {"none", "err"}

Return == /\ verdict = "none"
          /\ verdict' \in {"ok", "err"}
          /\ UNCHANGED released

Next == Release \/ Return

Spec == Init /\ [][Next]_vars
=============================================================================
