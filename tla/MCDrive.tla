------------------------------ MODULE MCDrive ------------------------------
(* Instances of Drive for TLC.                                             *)
EXTENDS Drive, TLC

CONSTANTS w1, w2, a         \* two windows, one name

TwoWindows == {w1, w2}
OneName == {a}

\* One window on each of two devices, which are named like their windows.
Apart == [w \in TwoWindows |-> w]
\* Both windows on one device.
Together == (w1 :> w1) @@ (w2 :> w1)

\* Nothing tells two windows on two devices apart.
Symmetry == Permutations(TwoWindows)
=============================================================================
