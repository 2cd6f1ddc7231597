----------------------------- MODULE Streaming -----------------------------
(***************************************************************************)
(* The chunked stream of crates/fcloak-core/src/streaming.rs: one          *)
(* encrypt_stream writes a stream, one decrypt_stream reads it, perhaps    *)
(* while it is still being written, perhaps after the stored bytes were    *)
(* damaged.                                                                *)
(*                                                                         *)
(* Plaintext is SourceLen units, unit i named i.  A ciphertext is a        *)
(* position in `sealed', the history of all that the writer sealed, so     *)
(* authenticated decryption is symbolic: a body opens exactly under the    *)
(* key, nonce and associated data it was sealed with, if no bit of it      *)
(* changed.  The stream is a sequence of whole chunk records followed by   *)
(* `tail', the bytes (if any) of a record that is not whole.               *)
(***************************************************************************)
EXTENDS Integers, Sequences

CONSTANTS
    SourceLen,      \* units of plaintext in the input
    ChunkSizes,     \* values of the chunk_size argument
    MAX_CHUNK_SIZE,
    U64Max,         \* u64::MAX, scaled down
    Deks,           \* data encryption keys
    NoncePrefixes,  \* the 4-byte nonce prefixes
    BaseNonces,     \* base nonces: a prefix and the initial counter
    MaxDamage       \* how often the stored bytes may be damaged

ASSUME StreamingAssumption ==
    /\ SourceLen \in Nat
    /\ ChunkSizes \subseteq Nat
    /\ MAX_CHUNK_SIZE \in Nat
    /\ U64Max \in Nat
    /\ BaseNonces \subseteq [prefix : NoncePrefixes, counter : 0..U64Max]
    /\ MaxDamage \in Nat

VARIABLES
    \* encrypt_stream
    enc_pc,         \* "start", "read", "prefix", "body", "ok", "err", "crashed"
    key,            \* its dek and base_nonce arguments
    chunk_size,
    input_pos,      \* how much of the input has been read
    bytes_read,     \* length of the chunk in the buffer
    chunk_index,
    enc_total,      \* its total_plaintext
    sealed,         \* history: every ciphertext made, in order
    \* the stored stream
    frames,         \* whole chunk records
    tail,           \* "none", or "torn": an incomplete record at the end
    damage,         \* how often the stored bytes were damaged
    \* decrypt_stream
    dec_pc,         \* "idle", "running", "ok", "err"
    dec_key,        \* its dek and base_nonce arguments
    cursor,         \* records read so far
    expected_index,
    dec_total,      \* its total_plaintext
    released,       \* plaintext units written to the output
    faulted,        \* history: an I/O error was reported to decrypt_stream
    early           \* history: it began before encrypt_stream had ended

encVars  == <<enc_pc, key, chunk_size, input_pos, bytes_read, chunk_index,
              enc_total, sealed>>
fileVars == <<frames, tail, damage>>
decVars  == <<dec_pc, dec_key, cursor, expected_index, dec_total, released,
              faulted, early>>
vars     == <<encVars, fileVars, decVars>>

-----------------------------------------------------------------------------
(* Arithmetic on u64.                                                      *)

U64 == 0..U64Max

\* u64::checked_add returns None.
CheckedAddFails(a, b) == a + b > U64Max

Add64(a, b) == (a + b) % (U64Max + 1)

-----------------------------------------------------------------------------
(* Chunk records, nonces and authenticated encryption.                     *)

Keys == [dek : Deks, base_nonce : BaseNonces]

\* A stored record: the two fields of ChunkPrefix, the ciphertext it
\* carries, and whether that ciphertext still is what was sealed.
ChunkRecord == [index : U64, plaintext_len : 0..(MAX_CHUNK_SIZE + 1),
                ct : Nat \ {0}, intact : BOOLEAN]

\* A ciphertext: what it was sealed with, and which plaintext it carries.
Ciphertext == [dek : Deks, nonce : [prefix : NoncePrefixes, counter : U64],
               aad : [index : U64, plaintext_len : 0..MAX_CHUNK_SIZE],
               from : 0..SourceLen, len : 1..MAX_CHUNK_SIZE]

\* Bug: the addition is not checked, and the counter wraps.
NonceWraps(base_nonce, index) == FALSE

\* derive_chunk_nonce: prefix unchanged, counter advanced by the index.
NonceFails(base_nonce, index) == CheckedAddFails(base_nonce.counter, index)

derive_chunk_nonce(base_nonce, index) ==
    [prefix |-> base_nonce.prefix, counter |-> Add64(base_nonce.counter, index)]

\* encrypt_chunk can only fail on an oversized chunk or an exhausted counter.
EncryptChunkFails(base_nonce, index, len) ==
    \/ len > MAX_CHUNK_SIZE
    \/ NonceFails(base_nonce, index)

build_chunk_aad(index, len) == [index |-> index, plaintext_len |-> len]

\* The chunk in the buffer as encrypt_chunk seals it; `from' is where its
\* plaintext starts in the input.
encrypt_chunk(k, index, from, len) ==
    [dek   |-> k.dek,
     nonce |-> derive_chunk_nonce(k.base_nonce, index),
     aad   |-> build_chunk_aad(index, len),
     from  |-> from,
     len   |-> len]

\* decrypt_chunk succeeds on record f under the key and base nonce k.
DecryptChunkOk(k, f) ==
    /\ ~NonceFails(k.base_nonce, f.index)
    /\ f.intact
    /\ sealed[f.ct].dek = k.dek
    /\ sealed[f.ct].nonce = derive_chunk_nonce(k.base_nonce, f.index)
    /\ sealed[f.ct].aad = build_chunk_aad(f.index, f.plaintext_len)
    /\ sealed[f.ct].len = f.plaintext_len

-----------------------------------------------------------------------------
(* encrypt_stream.                                                         *)

Init ==
    /\ enc_pc = "start" /\ key \in Keys /\ chunk_size \in ChunkSizes
    /\ input_pos = 0 /\ bytes_read = 0 /\ chunk_index = 0 /\ enc_total = 0
    /\ sealed = <<>>
    /\ frames = <<>> /\ tail = "none" /\ damage = 0
    /\ dec_pc = "idle" /\ dec_key \in Keys
    /\ cursor = 0 /\ expected_index = 0 /\ dec_total = 0 /\ released = <<>>
    /\ faulted = FALSE /\ early = FALSE

\* Bug: an empty buffer is let through.
OnlyTooLargeRefused == chunk_size > MAX_CHUNK_SIZE

ChunkSizeRefused == chunk_size = 0 \/ chunk_size > MAX_CHUNK_SIZE

EncStart ==
    /\ enc_pc = "start"
    /\ enc_pc' = IF ChunkSizeRefused THEN "err" ELSE "read"
    /\ UNCHANGED <<key, chunk_size, input_pos, bytes_read, chunk_index,
                   enc_total, sealed, fileVars, decVars>>

\* Bug: the whole buffer is taken as read.
ReadFillsBuffer == IF input_pos < SourceLen THEN {chunk_size} ELSE {0}

\* What Read::read may return: any amount up to the buffer and the rest of
\* the input, 0 only at the end of the input or for an empty buffer.
ReadResults ==
    {n \in 0..(SourceLen - input_pos) :
        /\ n <= chunk_size
        /\ n = 0 => input_pos = SourceLen \/ chunk_size = 0}

\* read fills part of the buffer and encrypt_chunk seals it in memory.
EncRead ==
    /\ enc_pc = "read"
    /\ \E n \in ReadResults \ {0} :
        /\ input_pos' = input_pos + n
        /\ bytes_read' = n
        /\ IF EncryptChunkFails(key.base_nonce, chunk_index, n)
             THEN enc_pc' = "err" /\ UNCHANGED sealed
             ELSE /\ enc_pc' = "prefix"
                  /\ sealed' = Append(sealed,
                                 encrypt_chunk(key, chunk_index, input_pos, n))
    /\ UNCHANGED <<key, chunk_size, chunk_index, enc_total, fileVars, decVars>>

\* Any read error, an interrupted call included, ends the encryption.
EncReadFails ==
    /\ enc_pc = "read"
    /\ enc_pc' = "err"
    /\ UNCHANGED <<key, chunk_size, input_pos, bytes_read, chunk_index,
                   enc_total, sealed, fileVars, decVars>>

\* read returns 0: the loop ends and the writer is flushed, or fails to.
EncFinish ==
    /\ enc_pc = "read"
    /\ 0 \in ReadResults
    /\ enc_pc' \in {"ok", "err"}
    /\ UNCHANGED <<key, chunk_size, input_pos, bytes_read, chunk_index,
                   enc_total, sealed, fileVars, decVars>>

\* The record's prefix reaches the stream.
EncWritePrefix ==
    /\ enc_pc = "prefix"
    /\ enc_pc' = "body"
    /\ tail' = "torn"
    /\ UNCHANGED <<key, chunk_size, input_pos, bytes_read, chunk_index,
                   enc_total, sealed, frames, damage, decVars>>

WrittenRecord == [index |-> chunk_index, plaintext_len |-> bytes_read,
                  ct |-> Len(sealed), intact |-> TRUE]

\* The ciphertext reaches the stream, then the two counters advance: either
\* checked_add may fail with the record already written.
EncWriteBody ==
    /\ enc_pc = "body"
    /\ frames' = Append(frames, WrittenRecord)
    /\ tail' = "none"
    /\ enc_total' = IF CheckedAddFails(enc_total, bytes_read)
                      THEN enc_total ELSE Add64(enc_total, bytes_read)
    /\ chunk_index' = IF \/ CheckedAddFails(enc_total, bytes_read)
                         \/ CheckedAddFails(chunk_index, 1)
                        THEN chunk_index ELSE Add64(chunk_index, 1)
    /\ enc_pc' = IF \/ CheckedAddFails(enc_total, bytes_read)
                    \/ CheckedAddFails(chunk_index, 1)
                   THEN "err" ELSE "read"
    /\ UNCHANGED <<key, chunk_size, input_pos, bytes_read, sealed, damage,
                   decVars>>

\* Bug: a write that failed is tried again, for ever.
EncWriteRetried ==
    /\ enc_pc \in {"prefix", "body"}
    /\ enc_pc' = "prefix"
    /\ tail' \in (IF enc_pc = "prefix" THEN {"none", "torn"} ELSE {"torn"})
    /\ UNCHANGED <<key, chunk_size, input_pos, bytes_read, chunk_index,
                   enc_total, sealed, frames, damage, decVars>>

\* write_all fails with some, or none, of its bytes written.
EncWriteFails ==
    /\ enc_pc \in {"prefix", "body"}
    /\ enc_pc' = "err"
    /\ tail' \in (IF enc_pc = "prefix" THEN {"none", "torn"} ELSE {"torn"})
    /\ UNCHANGED <<key, chunk_size, input_pos, bytes_read, chunk_index,
                   enc_total, sealed, frames, damage, decVars>>

\* The process dies; what it wrote stays.
EncCrash ==
    /\ enc_pc \in {"read", "prefix", "body"}
    /\ enc_pc' = "crashed"
    /\ UNCHANGED <<key, chunk_size, input_pos, bytes_read, chunk_index,
                   enc_total, sealed, fileVars, decVars>>

EncEnded == enc_pc \in {"ok", "err", "crashed"}

-----------------------------------------------------------------------------
(* Damage to the stored bytes, between the writing and the reading.        *)

\* Whole records are lost, repeated or reordered, or the end is cut off.
Rearrange ==
    /\ frames # <<>>
    /\ \E n \in 0..(Len(frames) + 1) :
         \E m \in [1..n -> DOMAIN frames] : frames' = [i \in 1..n |-> frames[m[i]]]
    /\ tail' \in {"none", "torn"}

\* The bits of one record change.
Alter ==
    /\ \E i \in DOMAIN frames, x \in U64, n \in 0..(MAX_CHUNK_SIZE + 1),
          b \in BOOLEAN :
         frames' = [frames EXCEPT ![i].index = x, ![i].plaintext_len = n,
                                  ![i].intact = b]
    /\ UNCHANGED tail

Damage ==
    /\ EncEnded
    /\ dec_pc = "idle"
    /\ damage < MaxDamage
    /\ damage' = damage + 1
    /\ Rearrange \/ Alter
    /\ UNCHANGED <<encVars, decVars>>

-----------------------------------------------------------------------------
(* decrypt_stream.                                                         *)

\* The call starts, perhaps under a key or base nonce that is not the
\* writer's, perhaps before the writer has ended.
DecStart ==
    /\ dec_pc = "idle"
    /\ dec_pc' = "running"
    /\ early' = ~EncEnded
    /\ UNCHANGED <<encVars, fileVars, dec_key, cursor, expected_index,
                   dec_total, released, faulted>>

NextRecord == frames[cursor + 1]

\* Bug: the end of the stream does not leave the loop.
EofIgnored ==
    /\ dec_pc = "running"
    /\ cursor = Len(frames)
    /\ tail = "none"
    /\ UNCHANGED vars

\* read_first_byte finds the end of the stream: flush and return the total.
DecEof ==
    /\ dec_pc = "running"
    /\ cursor = Len(frames)
    /\ tail = "none"
    /\ dec_pc' = "ok"
    /\ UNCHANGED <<encVars, fileVars, dec_key, cursor, expected_index,
                   dec_total, released, faulted, early>>

\* Bug: the end of the stream is taken for the end of the chunks wherever
\* it falls.
TornIsEof ==
    /\ dec_pc = "running"
    /\ cursor = Len(frames)
    /\ tail = "torn"
    /\ dec_pc' = "ok"
    /\ UNCHANGED <<encVars, fileVars, dec_key, cursor, expected_index,
                   dec_total, released, faulted, early>>

\* read_exact meets the end of the stream inside a record.
DecTorn ==
    /\ dec_pc = "running"
    /\ cursor = Len(frames)
    /\ tail = "torn"
    /\ dec_pc' = "err"
    /\ UNCHANGED <<encVars, fileVars, dec_key, cursor, expected_index,
                   dec_total, released, faulted, early>>

\* Bug: a chunk of exactly the maximum size is refused.
FullChunkRefused(f) ==
    /\ f.plaintext_len < MAX_CHUNK_SIZE
    /\ f.index = expected_index
    /\ DecryptChunkOk(dec_key, f)

\* ChunkPrefix::decode, the index check and decrypt_chunk all accept f.
Accepted(f) ==
    /\ f.plaintext_len <= MAX_CHUNK_SIZE
    /\ f.index = expected_index
    /\ DecryptChunkOk(dec_key, f)

\* The n first units of the plaintext that record f carries.
Plaintext(f, n) == [i \in 1..n |-> sealed[f.ct].from + i]

\* Bug: the chunk is written before its authentication is looked at.
WriteThenReject ==
    /\ dec_pc = "running"
    /\ cursor < Len(frames)
    /\ ~Accepted(NextRecord)
    /\ dec_pc' = "err"
    /\ released' = released \o Plaintext(NextRecord, NextRecord.plaintext_len)
    /\ UNCHANGED <<encVars, fileVars, dec_key, cursor, expected_index,
                   dec_total, faulted, early>>

DecReject ==
    /\ dec_pc = "running"
    /\ cursor < Len(frames)
    /\ ~Accepted(NextRecord)
    /\ dec_pc' = "err"
    /\ UNCHANGED <<encVars, fileVars, dec_key, cursor, expected_index,
                   dec_total, released, faulted, early>>

DecTotalFails(len) == \/ CheckedAddFails(dec_total, len)
                      \/ CheckedAddFails(expected_index, 1)

\* The authenticated plaintext is written out, then the counters advance.
DecChunk ==
    /\ dec_pc = "running"
    /\ cursor < Len(frames)
    /\ Accepted(NextRecord)
    /\ LET len == NextRecord.plaintext_len IN
        /\ released' = released \o Plaintext(NextRecord, len)
        /\ cursor' = cursor + 1
        /\ dec_total' = IF CheckedAddFails(dec_total, len)
                          THEN dec_total ELSE Add64(dec_total, len)
        /\ expected_index' = IF DecTotalFails(len)
                               THEN expected_index ELSE Add64(expected_index, 1)
        /\ dec_pc' = IF DecTotalFails(len) THEN "err" ELSE "running"
    /\ UNCHANGED <<encVars, fileVars, dec_key, faulted, early>>

\* A read or the final flush fails.
DecIoFails ==
    /\ dec_pc = "running"
    /\ dec_pc' = "err"
    /\ faulted' = TRUE
    /\ UNCHANGED <<encVars, fileVars, dec_key, cursor, expected_index,
                   dec_total, released, early>>

\* write_all fails after part of an authenticated chunk went out.
DecWriteFails ==
    /\ dec_pc = "running"
    /\ cursor < Len(frames)
    /\ Accepted(NextRecord)
    /\ \E n \in 0..(NextRecord.plaintext_len - 1) :
         released' = released \o Plaintext(NextRecord, n)
    /\ dec_pc' = "err"
    /\ faulted' = TRUE
    /\ UNCHANGED <<encVars, fileVars, dec_key, cursor, expected_index,
                   dec_total, early>>

-----------------------------------------------------------------------------
EncProgress == \/ EncStart \/ EncRead \/ EncFinish \/ EncWritePrefix
               \/ EncWriteBody
DecProgress == DecEof \/ DecTorn \/ DecReject \/ DecChunk

Next == \/ EncStart \/ EncRead \/ EncReadFails \/ EncFinish
        \/ EncWritePrefix \/ EncWriteBody \/ EncWriteFails \/ EncCrash
        \/ Damage
        \/ DecStart \/ DecEof \/ DecTorn \/ DecReject \/ DecChunk
        \/ DecIoFails \/ DecWriteFails

Spec == Init /\ [][Next]_vars

\* Both calls are loops of ordinary blocking I/O on local files: while one
\* can take its next step, it is eventually scheduled to.
FairSpec == Spec /\ WF_vars(EncProgress) /\ WF_vars(DecProgress)

-----------------------------------------------------------------------------
(* Properties.                                                             *)

\* Every variable has its type (the state of both calls and the stream).
TypeOK ==
    /\ enc_pc \in {"start", "read", "prefix", "body", "ok", "err", "crashed"}
    /\ key \in Keys /\ chunk_size \in ChunkSizes
    /\ input_pos \in 0..SourceLen /\ bytes_read \in 0..SourceLen
    /\ chunk_index \in U64 /\ enc_total \in U64
    /\ sealed \in Seq(Ciphertext)
    /\ frames \in Seq(ChunkRecord) /\ tail \in {"none", "torn"}
    /\ damage \in 0..MaxDamage
    /\ dec_pc \in {"idle", "running", "ok", "err"}
    /\ dec_key \in Keys
    /\ cursor \in Nat /\ expected_index \in U64 /\ dec_total \in U64
    /\ released \in Seq(1..SourceLen)
    /\ faulted \in BOOLEAN /\ early \in BOOLEAN

\* No two ciphertexts of a stream are made under one nonce, and none under a
\* counter below that of the base nonce: from chunk to chunk the counter only
\* grows, and an encryption that would have to wrap it fails instead (the
\* checked_add of derive_chunk_nonce and the one of chunk_index).
NonceUnique ==
    \A i, j \in DOMAIN sealed :
        i < j => /\ sealed[i].nonce.prefix = sealed[j].nonce.prefix
                 /\ sealed[i].nonce.counter < sealed[j].nonce.counter

\* Where the plaintext of the first n ciphertexts ends in the input.
EndOf(n) == IF n = 0 THEN 0 ELSE sealed[n].from + sealed[n].len

\* When encrypt_stream returns Ok the input was read to its end and the
\* stream holds every chunk of it, whole, once and in order, however short
\* the reads were.
EncryptOkIsComplete ==
    enc_pc = "ok" /\ damage = 0 =>
        /\ tail = "none"
        /\ Len(frames) = Len(sealed)
        /\ \A i \in DOMAIN frames :
              /\ frames[i].ct = i
              /\ sealed[i].from = EndOf(i - 1)
        /\ EndOf(Len(sealed)) = SourceLen
        /\ enc_total = SourceLen

\* decrypt_stream only ever writes out the beginning of the plaintext that
\* was encrypted: nothing altered, repeated, moved or made up, whatever
\* happened to the stream and whichever key is used.
ReleasedIsPrefix ==
    /\ Len(released) <= SourceLen
    /\ \A i \in DOMAIN released : released[i] = i

\* A reader with another key or base nonce writes out nothing at all.
OnlyTheRightKeyOpens == released # <<>> => dec_key = key

\* When decrypt_stream returns Ok, every record it read is the one written at
\* that place (build_chunk_aad: changing "chunk ordering or chunk length"
\* fails), undamaged, all their plaintext went out and was counted, and a
\* stream that was no longer growing holds nothing else.
OkMeansUndamagedPrefix ==
    dec_pc = "ok" =>
        /\ expected_index <= Len(frames) /\ expected_index <= Len(sealed)
        /\ \A i \in 1..expected_index :
              frames[i] = [index |-> i - 1, plaintext_len |-> sealed[i].len,
                           ct |-> i, intact |-> TRUE]
        /\ Len(released) = EndOf(expected_index)
        /\ dec_total = Len(released)
        /\ ~early => Len(frames) = expected_index /\ tail = "none"

\* A finished stream that was not damaged, read afterwards with its own key
\* and no I/O error, is never refused and gives back the whole plaintext.
RoundTrip ==
    (enc_pc = "ok" /\ ~early /\ damage = 0 /\ dec_key = key /\ ~faulted) =>
        /\ dec_pc # "err"
        /\ dec_pc = "ok" => released = [i \in 1..SourceLen |-> i]

\* encrypt_stream always returns, and so does every decrypt_stream.
BothReturn ==
    /\ <>EncEnded
    /\ dec_pc = "running" ~> dec_pc \in {"ok", "err"}

\* The steps encrypt_stream can still take, at most: three to a chunk, as no
\* chunk is empty.
EncLeft ==
    3 * (SourceLen - input_pos)
      + [start |-> 2, read |-> 1, prefix |-> 3, body |-> 2,
         ok |-> 0, err |-> 0, crashed |-> 0][enc_pc]

\* The steps decrypt_stream can still take, at most: one to a record, the one
\* being written and those of the input not yet read included.
DecLeft ==
    IF dec_pc \in {"ok", "err"} THEN 0
    ELSE (Len(frames) - cursor) + (SourceLen - input_pos)
           + (IF enc_pc \in {"prefix", "body"} THEN 1 ELSE 0)
           + (IF dec_pc = "idle" THEN 2 ELSE 1)

\* Neither loop can go on for ever, however short the reads and whatever
\* fails: each step of a call uses up one of a number of steps that nothing
\* else adds to, not even a stream that grows while it is read.
CallsRunOut ==
    [][/\ encVars' # encVars => EncLeft' \in 0..(EncLeft - 1)
       /\ decVars' # decVars => DecLeft' \in 0..(DecLeft - 1)
       /\ dec_pc # "idle" => DecLeft' <= DecLeft]_vars

\* decrypt_stream implements the abstract promise of PrefixRelease.
Promise == INSTANCE PrefixRelease
             WITH verdict <- IF dec_pc \in {"ok", "err"} THEN dec_pc ELSE "none"

\* Every step of decrypt_stream releases more of the prefix, returns, or
\* changes nothing its caller can see; nothing is released after the return.
ImplementsPrefixRelease == Promise!Spec

\* What streaming_container.rs:403 says of the program: a container that
\* lost its final bytes is rejected.
TruncatedContainerIsRejected ==
    (dec_pc = "ok" /\ ~early /\ enc_pc = "ok") => Len(released) = SourceLen
=============================================================================
