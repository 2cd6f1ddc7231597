---------------------------- MODULE MCContainer ----------------------------
(* Instances of Container for TLC.                                         *)
EXTENDS Container

CONSTANTS ascii, latin1     \* a password that is UTF-8 and one that is not

TwoPasswords == {ascii, latin1}
OnePassword == {ascii}
=============================================================================
