---------------------------- MODULE MCOutputFile ----------------------------
(* Instances of OutputFile for TLC.                                        *)
EXTENDS OutputFile, TLC

CONSTANTS p, q, r, o1, o2, t1, i1, i2, i3, i4

TwoProcs == {p, q}
FourInodes == {i1, i2, i3, i4}
TwoInodes == {i1, i2}

\* Nothing depends on which inode the file system picks.
InodeSymmetry == Permutations(FourInodes)
TwoInodeSymmetry == Permutations(TwoInodes)

\* A window decrypts a stream, a command encrypts one in place.
WindowAndCommand == (p :> "decrypt_file_streaming") @@ (q :> "encrypt_file_streaming")
\* Two streaming decryptions.
StreamingDecryptions == [x \in TwoProcs |-> "decrypt_file_streaming"]
Nobody == {}

SameOutput == (p :> o1) @@ (q :> o1)
\* Two outputs of one directory whose names are not UTF-8: both temporary
\* names fall back to "output".
TwoOutputs == (p :> o1) @@ (q :> o2)
OneTemp == (o1 :> t1) @@ (o2 :> t1)

\* The same with a second command, of a standard encryption.
ThreeProcs == {p, q, r}
ThreeKinds == WindowAndCommand @@ (r :> "encrypt_file")
Commands == {q, r}
ThreeOnOne == SameOutput @@ (r :> o1)
=============================================================================
