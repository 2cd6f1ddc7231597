---------------------------- MODULE MCStreaming ----------------------------
(* Instances of Streaming for TLC.                                         *)
EXTENDS Streaming

CONSTANTS k1, k2    \* two data encryption keys

\* One key, one base nonce whose counter starts at zero.
OneKey == {k1}
ZeroNonce == {[prefix |-> 1, counter |-> 0]}

\* Two keys and three base nonces: another prefix, and another counter with
\* which the third chunk overflows (U64Max = 3).
TwoKeys == {k1, k2}
ThreeNonces == {[prefix |-> 1, counter |-> 0], [prefix |-> 1, counter |-> 2],
                [prefix |-> 2, counter |-> 0]}

\* Chunk sizes: the two refused ones and the legal ones between them.
AllChunkSizes == 0..(MAX_CHUNK_SIZE + 1)
LegalChunkSizes == 1..MAX_CHUNK_SIZE
=============================================================================
