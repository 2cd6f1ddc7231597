------------------------------ MODULE Archive ------------------------------
(***************************************************************************)
(* What encrypting files under passwords should mean to whoever decrypts   *)
(* one, whatever has become of the stored bytes and whoever writes to the  *)
(* path meanwhile: all that a decryption yields is from one file, one that *)
(* was encrypted under the password given; it comes in order from the      *)
(* file's beginning and is never taken back; and nothing comes after the   *)
(* verdict.  An "ok" needs such a file, but may come with a part of it.    *)
(***************************************************************************)
EXTENDS Integers, Sequences

CONSTANT Passwords

VARIABLES
    files,      \* files[k]: the password and the length of the k-th file
    reader,     \* the password that the decryption was given
    got,        \* the pieces it has yielded
    verdict     \* "none" until it returns, then "ok" or "err"

vars == <<files, reader, got, verdict>>

\* The i-th piece of file k is named by its file and its place.
Piece(k, i) == <<k, i - 1>>

\* The pieces g are the beginning of file k, which the reader may see.
IsFrom(k, g) ==
    /\ files[k].password = reader
    /\ Len(g) <= files[k].size
    /\ g = [i \in 1..Len(g) |-> Piece(k, i)]

Init == /\ DOMAIN files = {}
        /\ reader \in Passwords
        /\ got = <<>> /\ verdict = "none"

Encrypt ==
    /\ \E k \in DOMAIN files' \ DOMAIN files :
        /\ DOMAIN files' = DOMAIN files \cup {k}
        /\ files'[k].password \in Passwords /\ files'[k].size >= 0
    /\ \A k \in DOMAIN files : files'[k] = files[k]
    /\ UNCHANGED <<reader, got, verdict>>

Deliver ==
    /\ verdict = "none" /\ verdict' \in {"none", "ok"}
    /\ \E k \in DOMAIN files : IsFrom(k, got) /\ IsFrom(k, got')
    /\ Len(got) <= Len(got')
    /\ UNCHANGED <<files, reader>>

Fail == /\ verdict = "none" /\ verdict' = "err"
        /\ UNCHANGED <<files, reader, got>>

Next == Encrypt \/ Deliver \/ Fail

Spec == Init /\ [][Next]_vars
=============================================================================
