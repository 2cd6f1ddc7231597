----------------------------- MODULE MCSession -----------------------------
(* Instances of Session for TLC.                                           *)
EXTENDS Session

\* A token over at its margin, one longer, and two shorter: good for as long as
\* is assumed of them, and not even that.
ShortAndLong == {1, 2, 4, 6}
=============================================================================
