------------------------------ MODULE MCVault ------------------------------
(* Instances of Vault for TLC.                                             *)
EXTENDS Vault, TLC

CONSTANTS alpha, beta       \* two names, in listing order
CONSTANTS w1, w2, p1, p2
CONSTANTS big, other, small \* sources; the first two have the same name

TwoWindows == {w1, w2}
OnePassword == {p1}
TwoPasswords == {p1, p2}
ThreeSources == {big, other, small}
Names2 == <<alpha, beta>>
FileNames == [s \in Sources |-> IF s = small THEN alpha ELSE beta]
\* Nothing tells the two windows, or the two passwords, apart.
Symmetry == Permutations(TwoWindows) \cup Permutations(TwoPasswords)
BigOnly == {big}
=============================================================================
