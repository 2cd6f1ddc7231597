-------------------------- MODULE StreamingProofs --------------------------
(* Theorems about Streaming, for every value of its constants.             *)
EXTENDS Streaming, TLAPS

USE StreamingAssumption

\* While no overflow is reported, u64 addition is exact.
LEMMA Add64Exact ==
    ASSUME NEW a \in U64, NEW b \in Nat, ~CheckedAddFails(a, b)
    PROVE  Add64(a, b) = a + b /\ Add64(a, b) \in U64
  BY DEF Add64, CheckedAddFails, U64

-----------------------------------------------------------------------------
(* The inductive invariant.                                                *)

\* The k-th ciphertext is chunk k - 1: its nonce, its associated data and
\* its place in the input follow from k; the writer's counters agree.
WriterInv ==
    /\ \A k \in DOMAIN sealed :
          /\ sealed[k].dek = key.dek
          /\ sealed[k].nonce = [prefix  |-> key.base_nonce.prefix,
                                counter |-> key.base_nonce.counter + (k - 1)]
          /\ sealed[k].aad = build_chunk_aad(k - 1, sealed[k].len)
          /\ sealed[k].from = EndOf(k - 1)
          /\ sealed[k].from + sealed[k].len <= input_pos
    /\ enc_pc \in {"start", "read"} =>
          /\ chunk_index = Len(sealed)
          /\ input_pos = EndOf(Len(sealed))
    /\ enc_pc \in {"prefix", "body"} =>
          /\ chunk_index + 1 = Len(sealed)
          /\ input_pos = EndOf(Len(sealed))
          /\ bytes_read = sealed[Len(sealed)].len

\* Records are built only from ciphertexts that were really made.
StreamInv == \A i \in DOMAIN frames : frames[i].ct \in DOMAIN sealed

\* What went out ends where the last accepted chunk ended.
ReaderInv ==
    /\ dec_pc = "idle" => expected_index = 0 /\ cursor = 0 /\ released = <<>>
    /\ dec_pc \in {"idle", "running"} =>
          /\ cursor = expected_index
          /\ expected_index <= Len(sealed)
          /\ Len(released) = EndOf(expected_index)
    /\ ReleasedIsPrefix

IInv == TypeOK /\ WriterInv /\ StreamInv /\ ReaderInv

-----------------------------------------------------------------------------
(* Lemmas about the operators.                                             *)

\* The types of a ciphertext's fields.
LEMMA CiphertextFields ==
    ASSUME NEW x \in Ciphertext
    PROVE  /\ x.dek \in Deks
           /\ x.nonce \in [prefix : NoncePrefixes, counter : U64]
           /\ x.aad \in [index : U64, plaintext_len : 0..MAX_CHUNK_SIZE]
           /\ x.from \in Nat /\ x.from <= SourceLen
           /\ x.len \in Nat /\ x.len >= 1 /\ x.len <= MAX_CHUNK_SIZE
  BY DEF Ciphertext

\* The types of a stored record's fields.
LEMMA RecordFields ==
    ASSUME NEW f \in ChunkRecord
    PROVE  /\ f.index \in Nat /\ f.index <= U64Max
           /\ f.plaintext_len \in Nat /\ f.plaintext_len <= MAX_CHUNK_SIZE + 1
           /\ f.ct \in Nat /\ f.ct >= 1
           /\ f.intact \in BOOLEAN
  BY DEF ChunkRecord, U64

\* The counter of a base nonce is a u64.
LEMMA KeyFields ==
    ASSUME NEW k \in Keys
    PROVE  k.base_nonce.counter \in U64 /\ k.base_nonce.counter \in Nat
<1>1. k.base_nonce \in [prefix : NoncePrefixes, counter : 0..U64Max]
  BY DEF Keys
<1> QED
  BY <1>1 DEF U64

\* The arguments of a call are determined by their fields.
LEMMA KeyExtensional ==
    ASSUME NEW k \in Keys, NEW j \in Keys,
           k.dek = j.dek,
           k.base_nonce.prefix = j.base_nonce.prefix,
           k.base_nonce.counter = j.base_nonce.counter
    PROVE  k = j
<1>1. /\ k.base_nonce \in [prefix : NoncePrefixes, counter : 0..U64Max]
      /\ j.base_nonce \in [prefix : NoncePrefixes, counter : 0..U64Max]
  BY DEF Keys
<1>2. k.base_nonce = j.base_nonce
  BY <1>1
<1> QED
  BY <1>2 DEF Keys

\* The end of any number of sealed chunks lies within what was read.
LEMMA EndOfBound ==
    ASSUME TypeOK, WriterInv, NEW n \in 0..Len(sealed)
    PROVE  EndOf(n) \in 0..input_pos /\ EndOf(n) \in 0..SourceLen
<1>1. CASE n = 0
  BY <1>1 DEF EndOf, TypeOK
<1>2. CASE n > 0
  <2> sealed \in Seq(Ciphertext)
    BY DEF TypeOK
  <2>1. n \in DOMAIN sealed
    BY <1>2
  <2>2. sealed[n] \in Ciphertext
    BY <2>1
  <2>3. sealed[n].from + sealed[n].len <= input_pos
    BY <2>1 DEF WriterInv
  <2>4. input_pos \in 0..SourceLen
    BY DEF TypeOK
  <2> QED
    BY <1>2, <2>2, <2>3, <2>4, CiphertextFields DEF EndOf
<1> QED
  BY <1>1, <1>2

\* The only record decrypt_stream accepts is the one whose ciphertext is the
\* next chunk of the input, under the writer's own key and base nonce.
LEMMA AcceptedIsNext ==
    ASSUME TypeOK, WriterInv, StreamInv, NEW f \in ChunkRecord,
           f.ct \in DOMAIN sealed, Accepted(f)
    PROVE  /\ f.ct = expected_index + 1
           /\ dec_key = key
           /\ f.intact
           /\ f.plaintext_len = sealed[f.ct].len
           /\ sealed[f.ct].from = EndOf(expected_index)
           /\ f.plaintext_len \in 1..MAX_CHUNK_SIZE
<1> DEFINE c == f.ct
<1>1. sealed[c] \in Ciphertext
  <2>1. sealed \in Seq(Ciphertext)
    BY DEF TypeOK
  <2> QED
    BY <2>1
<1>2. /\ f.index = expected_index /\ f.intact
      /\ sealed[c].dek = dec_key.dek
      /\ sealed[c].nonce = derive_chunk_nonce(dec_key.base_nonce, f.index)
      /\ sealed[c].aad = build_chunk_aad(f.index, f.plaintext_len)
      /\ sealed[c].len = f.plaintext_len
      /\ ~CheckedAddFails(dec_key.base_nonce.counter, f.index)
  BY DEF Accepted, DecryptChunkOk, NonceFails
<1>3. sealed[c].aad.index = f.index /\ sealed[c].aad.index = c - 1
  <2>1. sealed[c].aad = build_chunk_aad(c - 1, sealed[c].len)
    BY DEF WriterInv
  <2> QED
    BY <2>1, <1>2 DEF build_chunk_aad
<1>4. c = expected_index + 1
  BY <1>2, <1>3, RecordFields
<1>5. dec_key = key
  <2>1. dec_key \in Keys /\ key \in Keys
    BY DEF TypeOK
  <2>2. Add64(dec_key.base_nonce.counter, f.index)
          = dec_key.base_nonce.counter + f.index
    <3>1. dec_key.base_nonce.counter \in U64 /\ f.index \in Nat
      BY <2>1, KeyFields, RecordFields
    <3> QED
      BY <3>1, <1>2, Add64Exact
  <2>3. /\ sealed[c].nonce.counter = dec_key.base_nonce.counter + f.index
        /\ sealed[c].nonce.prefix = dec_key.base_nonce.prefix
    BY <1>2, <2>2 DEF derive_chunk_nonce
  <2>4. /\ sealed[c].nonce.counter = key.base_nonce.counter + (c - 1)
        /\ sealed[c].nonce.prefix = key.base_nonce.prefix
        /\ sealed[c].dek = key.dek
    <3>1. /\ sealed[c].nonce = [prefix  |-> key.base_nonce.prefix,
                                counter |-> key.base_nonce.counter + (c - 1)]
          /\ sealed[c].dek = key.dek
      BY DEF WriterInv
    <3> QED
      BY <3>1
  <2>5. dec_key.base_nonce.counter = key.base_nonce.counter
    <3>1. /\ dec_key.base_nonce.counter \in Nat
          /\ key.base_nonce.counter \in Nat
          /\ f.index \in Nat
      BY <2>1, KeyFields, RecordFields
    <3> QED
      BY <3>1, <2>3, <2>4, <1>3
  <2> QED
    BY <2>1, <2>3, <2>4, <2>5, <1>2, KeyExtensional
<1>6. sealed[c].from = EndOf(expected_index)
  <2>1. c - 1 = expected_index
    BY <1>2, <1>3
  <2>2. sealed[c].from = EndOf(c - 1)
    BY DEF WriterInv
  <2> QED
    BY <2>1, <2>2
<1> QED
  BY <1>1, <1>2, <1>4, <1>5, <1>6, CiphertextFields

-----------------------------------------------------------------------------
(* The invariant holds initially, and parts of it are untouched by most    *)
(* actions.                                                                *)

\* Nothing is sealed, stored or read before the two calls are made.
LEMMA InitIInv == Init => IInv
<1> SUFFICES ASSUME Init PROVE IInv
  OBVIOUS
<1>1. TypeOK
  <2>1. /\ sealed \in Seq(Ciphertext)
        /\ frames \in Seq(ChunkRecord)
        /\ released \in Seq(1..SourceLen)
    BY DEF Init
  <2>2. 0 \in U64 /\ 0 \in 0..SourceLen /\ 0 \in 0..MaxDamage
    BY DEF U64
  <2> QED
    BY <2>1, <2>2 DEF Init, TypeOK
<1>2. WriterInv
  BY DEF Init, WriterInv, EndOf
<1>3. StreamInv
  BY DEF Init, StreamInv
<1>4. ReaderInv
  BY DEF Init, ReaderInv, ReleasedIsPrefix, EndOf
<1> QED
  BY <1>1, <1>2, <1>3, <1>4 DEF IInv

\* A step outside encrypt_stream keeps what is known of it.
LEMMA WriterUntouched ==
    ASSUME WriterInv, UNCHANGED encVars
    PROVE  WriterInv'
  BY DEF WriterInv, encVars, EndOf, build_chunk_aad

\* A step that leaves sealed and decrypt_stream alone keeps ReaderInv.
LEMMA ReaderUntouched ==
    ASSUME ReaderInv, UNCHANGED <<sealed, decVars>>
    PROVE  ReaderInv'
  BY DEF ReaderInv, decVars, EndOf, ReleasedIsPrefix

\* A step that leaves sealed and the records alone keeps StreamInv.
LEMMA StreamUntouched ==
    ASSUME StreamInv, UNCHANGED <<sealed, frames>>
    PROVE  StreamInv'
  BY DEF StreamInv

-----------------------------------------------------------------------------
(* Each action that does more keeps the invariant.                         *)

\* encrypt_chunk, when it does not fail, gives a ciphertext.
LEMMA EncryptChunkType ==
    ASSUME NEW k \in Keys, NEW index \in U64, NEW from \in 0..SourceLen,
           NEW len \in Nat, len >= 1,
           ~EncryptChunkFails(k.base_nonce, index, len)
    PROVE  /\ encrypt_chunk(k, index, from, len) \in Ciphertext
           /\ derive_chunk_nonce(k.base_nonce, index)
                = [prefix  |-> k.base_nonce.prefix,
                   counter |-> k.base_nonce.counter + index]
<1>1. /\ k.dek \in Deks
      /\ k.base_nonce \in [prefix : NoncePrefixes, counter : 0..U64Max]
  BY DEF Keys
<1>2. k.base_nonce.counter \in U64 /\ index \in Nat
  BY KeyFields DEF U64
<1>3. ~CheckedAddFails(k.base_nonce.counter, index) /\ len <= MAX_CHUNK_SIZE
  BY DEF EncryptChunkFails, NonceFails
<1>4. /\ Add64(k.base_nonce.counter, index) = k.base_nonce.counter + index
      /\ Add64(k.base_nonce.counter, index) \in U64
  BY <1>2, <1>3, Add64Exact
<1>5. derive_chunk_nonce(k.base_nonce, index)
        \in [prefix : NoncePrefixes, counter : U64]
  BY <1>1, <1>4 DEF derive_chunk_nonce
<1>6. build_chunk_aad(index, len)
        \in [index : U64, plaintext_len : 0..MAX_CHUNK_SIZE]
  BY <1>3 DEF build_chunk_aad
<1>7. encrypt_chunk(k, index, from, len) \in Ciphertext
  <2>1. len \in 1..MAX_CHUNK_SIZE
    BY <1>3
  <2> QED
    BY <1>1, <1>5, <1>6, <2>1 DEF encrypt_chunk, Ciphertext
<1> QED
  BY <1>4, <1>7 DEF derive_chunk_nonce

\* A read of encrypt_stream seals one chunk more than was stored, under a nonce no
\* earlier chunk has.
LEMMA EncReadKeeps == IInv /\ EncRead => IInv'
<1> SUFFICES ASSUME IInv, EncRead PROVE IInv'
  OBVIOUS
<1> USE DEF IInv
<1>1. PICK n \in ReadResults \ {0} :
        /\ input_pos' = input_pos + n
        /\ bytes_read' = n
        /\ IF EncryptChunkFails(key.base_nonce, chunk_index, n)
             THEN enc_pc' = "err" /\ UNCHANGED sealed
             ELSE /\ enc_pc' = "prefix"
                  /\ sealed' = Append(sealed,
                                 encrypt_chunk(key, chunk_index, input_pos, n))
  BY DEF EncRead
<1>2. /\ n \in Nat /\ n >= 1
      /\ input_pos \in 0..SourceLen /\ input_pos' \in 0..SourceLen
      /\ n \in 0..SourceLen
  BY <1>1 DEF ReadResults, TypeOK
<1>3. /\ key \in Keys /\ chunk_index \in U64 /\ chunk_index = Len(sealed)
      /\ input_pos = EndOf(Len(sealed))
      /\ sealed \in Seq(Ciphertext) /\ Len(sealed) \in Nat
      /\ key' = key /\ chunk_index' = chunk_index
      /\ UNCHANGED <<chunk_size, enc_total, fileVars, decVars>>
  <2>1. enc_pc = "read"
    BY DEF EncRead
  <2> QED
    BY <2>1 DEF EncRead, TypeOK, WriterInv
<1>4. CASE EncryptChunkFails(key.base_nonce, chunk_index, n)
  <2>1. enc_pc' = "err" /\ sealed' = sealed
    BY <1>1, <1>4
  <2>2. TypeOK'
    BY <1>1, <1>2, <1>3, <2>1 DEF TypeOK, fileVars, decVars
  <2>3. WriterInv'
    <3>1. \A m : EndOf(m)' = EndOf(m)
      BY <2>1 DEF EndOf
    <3>2. \A k \in DOMAIN sealed : sealed[k].from + sealed[k].len <= input_pos'
      <4> TAKE k \in DOMAIN sealed
      <4>1. sealed[k] \in Ciphertext
        BY <1>3
      <4>2. sealed[k].from + sealed[k].len <= input_pos
        BY DEF WriterInv
      <4> QED
        BY <4>1, <4>2, <1>1, <1>2, CiphertextFields
    <3> QED
      BY <1>3, <2>1, <3>1, <3>2 DEF WriterInv, build_chunk_aad
  <2>4. StreamInv' /\ ReaderInv'
    BY <1>3, <2>1, StreamUntouched, ReaderUntouched DEF fileVars
  <2> QED
    BY <2>2, <2>3, <2>4
<1>5. CASE ~EncryptChunkFails(key.base_nonce, chunk_index, n)
  <2> DEFINE c == encrypt_chunk(key, chunk_index, input_pos, n)
             last == Len(sealed) + 1
  <2>1. enc_pc' = "prefix" /\ sealed' = Append(sealed, c)
    BY <1>1, <1>5
  <2>2. /\ c \in Ciphertext
        /\ derive_chunk_nonce(key.base_nonce, chunk_index)
             = [prefix  |-> key.base_nonce.prefix,
                counter |-> key.base_nonce.counter + chunk_index]
    BY <1>2, <1>3, <1>5, EncryptChunkType
  <2> HIDE DEF c
  <2>3. /\ sealed' \in Seq(Ciphertext) /\ Len(sealed') = last
        /\ \A k \in DOMAIN sealed : sealed'[k] = sealed[k] /\ k \in DOMAIN sealed'
        /\ sealed'[last] = c
        /\ DOMAIN sealed' = (DOMAIN sealed) \cup {last}
    BY <1>3, <2>1, <2>2
  <2>4. \A m \in 0..Len(sealed) : EndOf(m)' = EndOf(m)
    BY <1>3, <2>3 DEF EndOf
  <2>5. TypeOK'
    BY <1>1, <1>2, <1>3, <2>1, <2>3 DEF TypeOK, fileVars, decVars
  <2>6. c.from = input_pos /\ c.len = n /\ c.dek = key.dek
        /\ c.nonce = derive_chunk_nonce(key.base_nonce, chunk_index)
        /\ c.aad = build_chunk_aad(chunk_index, n)
    BY DEF c, encrypt_chunk
  <2>7. WriterInv'
    <3>1. ASSUME NEW k \in DOMAIN sealed'
          PROVE  /\ sealed'[k].dek = key.dek
                 /\ sealed'[k].nonce
                      = [prefix  |-> key.base_nonce.prefix,
                         counter |-> key.base_nonce.counter + (k - 1)]
                 /\ sealed'[k].aad = build_chunk_aad(k - 1, sealed'[k].len)
                 /\ sealed'[k].from = EndOf(k - 1)'
                 /\ sealed'[k].from + sealed'[k].len <= input_pos'
      <4>1. CASE k \in DOMAIN sealed
        <5>1. /\ sealed'[k] = sealed[k] /\ sealed[k] \in Ciphertext
              /\ k - 1 \in 0..Len(sealed)
          BY <4>1, <2>3, <1>3
        <5>2. EndOf(k - 1)' = EndOf(k - 1)
          BY <5>1, <2>4
        <5>3. /\ sealed[k].dek = key.dek
              /\ sealed[k].nonce
                   = [prefix  |-> key.base_nonce.prefix,
                      counter |-> key.base_nonce.counter + (k - 1)]
              /\ sealed[k].aad = build_chunk_aad(k - 1, sealed[k].len)
              /\ sealed[k].from = EndOf(k - 1)
              /\ sealed[k].from + sealed[k].len <= input_pos
          BY <4>1 DEF WriterInv
        <5>4. sealed[k].from + sealed[k].len <= input_pos'
          BY <5>1, <5>3, <1>1, <1>2, CiphertextFields
        <5> QED
          BY <5>1, <5>2, <5>3, <5>4
      <4>2. CASE k = last
        <5>1. k - 1 = Len(sealed) /\ k - 1 = chunk_index
          BY <4>2, <1>3
        <5>2. EndOf(k - 1)' = EndOf(Len(sealed))
          BY <5>1, <2>4, <1>3
        <5>3. sealed'[k] = c
          BY <4>2, <2>3
        <5>4. c.from + c.len <= input_pos'
          BY <2>6, <1>1, <1>2
        <5> QED
          BY <5>1, <5>2, <5>3, <5>4, <2>2, <2>6, <1>3
      <4> QED
        BY <2>3, <4>1, <4>2
    <3>2. /\ EndOf(Len(sealed))' = input_pos'
          /\ bytes_read' = sealed'[Len(sealed')].len
      BY <2>3, <2>6, <1>1, <1>2, <1>3 DEF EndOf
    <3>3. chunk_index' + 1 = Len(sealed')
      BY <1>3, <2>3
    <3>4. enc_pc' \notin {"start", "read"}
      BY <2>1
    <3>5. (\A k \in DOMAIN sealed :
             /\ sealed[k].dek = key.dek
             /\ sealed[k].nonce = [prefix  |-> key.base_nonce.prefix,
                                   counter |-> key.base_nonce.counter + (k - 1)]
             /\ sealed[k].aad = build_chunk_aad(k - 1, sealed[k].len)
             /\ sealed[k].from = EndOf(k - 1)
             /\ sealed[k].from + sealed[k].len <= input_pos)'
      BY <3>1, <1>3 DEF build_chunk_aad
    <3> QED
      BY <3>2, <3>3, <3>4, <3>5 DEF WriterInv
  <2>8. StreamInv'
    BY <1>3, <2>3 DEF StreamInv, fileVars
  <2>9. ReaderInv'
    <3>1. expected_index' = expected_index /\ released' = released
          /\ dec_pc' = dec_pc /\ cursor' = cursor
      BY <1>3 DEF decVars
    <3>2. expected_index \in Nat
      BY DEF TypeOK, U64
    <3>3. dec_pc \in {"idle", "running"} =>
             /\ EndOf(expected_index)' = EndOf(expected_index)
             /\ expected_index <= Len(sealed')
      BY <3>1, <3>2, <1>3, <2>3, <2>4 DEF ReaderInv
    <3> QED
      BY <3>1, <3>3 DEF ReaderInv, ReleasedIsPrefix
  <2> QED
    BY <2>5, <2>7, <2>8, <2>9
<1> QED
  BY <1>4, <1>5

\* The actions of encrypt_stream that only move it along, fail or die.
LEMMA EncControlKeeps ==
    ASSUME IInv,
           \/ EncStart \/ EncReadFails \/ EncFinish \/ EncWritePrefix
           \/ EncWriteFails \/ EncCrash
    PROVE  IInv'
<1> USE DEF IInv
<1>1. /\ UNCHANGED <<key, chunk_size, input_pos, bytes_read, chunk_index,
                     enc_total, sealed, frames, damage, decVars>>
      /\ tail' \in {"none", "torn"}
      /\ enc_pc' \in {"read", "body", "ok", "err", "crashed"}
      /\ enc_pc' = "read" => enc_pc = "start"
      /\ enc_pc' = "body" => enc_pc = "prefix"
  BY DEF EncStart, EncReadFails, EncFinish, EncWritePrefix, EncWriteFails,
         EncCrash, fileVars, TypeOK
<1>2. TypeOK'
  BY <1>1 DEF TypeOK, decVars
<1>3. WriterInv'
  <2>1. \A m : EndOf(m)' = EndOf(m)
    BY <1>1 DEF EndOf
  <2> QED
    BY <1>1, <2>1 DEF WriterInv, build_chunk_aad, EndOf
<1> QED
  BY <1>1, <1>2, <1>3, StreamUntouched, ReaderUntouched

\* Storing a ciphertext extends the records by the chunk that was sealed last.
LEMMA EncWriteBodyKeeps == IInv /\ EncWriteBody => IInv'
<1> SUFFICES ASSUME IInv, EncWriteBody PROVE IInv'
  OBVIOUS
<1> USE DEF IInv
<1>1. /\ UNCHANGED <<key, chunk_size, input_pos, bytes_read, sealed, damage,
                     decVars>>
      /\ tail' = "none"
      /\ frames' = Append(frames, WrittenRecord)
      /\ enc_pc = "body"
  BY DEF EncWriteBody
<1>2. /\ chunk_index + 1 = Len(sealed)
      /\ input_pos = EndOf(Len(sealed))
      /\ bytes_read = sealed[Len(sealed)].len
      /\ chunk_index \in U64 /\ chunk_index \in Nat /\ enc_total \in U64
      /\ bytes_read \in Nat
      /\ sealed \in Seq(Ciphertext) /\ Len(sealed) \in Nat
      /\ frames \in Seq(ChunkRecord)
  BY <1>1 DEF WriterInv, TypeOK, U64
<1>3. Len(sealed) \in DOMAIN sealed /\ sealed[Len(sealed)] \in Ciphertext
  BY <1>2
<1>4. WrittenRecord \in ChunkRecord /\ WrittenRecord.ct = Len(sealed)
  <2>1. bytes_read \in 0..(MAX_CHUNK_SIZE + 1)
    BY <1>2, <1>3, CiphertextFields
  <2> QED
    BY <2>1, <1>2, <1>3 DEF WrittenRecord, ChunkRecord
<1>5. /\ enc_total' \in U64 /\ chunk_index' \in U64
      /\ enc_pc' \in {"err", "read"}
      /\ enc_pc' = "read" => chunk_index' = chunk_index + 1
  <2>1. /\ ~CheckedAddFails(enc_total, bytes_read) =>
               Add64(enc_total, bytes_read) \in U64
        /\ ~CheckedAddFails(chunk_index, 1) =>
               /\ Add64(chunk_index, 1) \in U64
               /\ Add64(chunk_index, 1) = chunk_index + 1
    BY <1>2, Add64Exact
  <2> QED
    BY <2>1, <1>2 DEF EncWriteBody
<1>6. frames' \in Seq(ChunkRecord)
  BY <1>1, <1>2, <1>4
<1>7. TypeOK'
  BY <1>1, <1>5, <1>6 DEF TypeOK, decVars
<1>8. WriterInv'
  <2>1. \A m : EndOf(m)' = EndOf(m)
    BY <1>1 DEF EndOf
  <2> QED
    BY <1>1, <1>2, <1>5, <2>1 DEF WriterInv, build_chunk_aad, EndOf
<1>9. StreamInv'
  <2>1. ASSUME NEW i \in DOMAIN frames'
        PROVE  frames'[i].ct \in DOMAIN sealed
    <3>1. CASE i \in DOMAIN frames
      BY <3>1, <1>1, <1>2, <1>4 DEF StreamInv
    <3>2. CASE i = Len(frames) + 1
      BY <3>2, <1>1, <1>2, <1>3, <1>4
    <3> QED
      BY <3>1, <3>2, <1>1, <1>2, <1>4
  <2> QED
    BY <2>1, <1>1 DEF StreamInv
<1> QED
  BY <1>1, <1>7, <1>8, <1>9, ReaderUntouched

\* Damage rearranges or alters records; what is sealed stays what was sealed.
LEMMA DamageKeeps == IInv /\ Damage => IInv'
<1> SUFFICES ASSUME IInv, Damage PROVE IInv'
  OBVIOUS
<1> USE DEF IInv
<1>1. /\ UNCHANGED <<encVars, decVars>>
      /\ damage' \in 0..MaxDamage
      /\ frames \in Seq(ChunkRecord) /\ tail \in {"none", "torn"}
  BY DEF Damage, TypeOK
<1>2. /\ frames' \in Seq(ChunkRecord) /\ tail' \in {"none", "torn"}
      /\ \A i \in DOMAIN frames' : frames'[i].ct \in DOMAIN sealed
  <2>1. CASE Rearrange
    <3>1. PICK n \in 0..(Len(frames) + 1) : \E m \in [1..n -> DOMAIN frames] :
             frames' = [i \in 1..n |-> frames[m[i]]]
      BY <2>1 DEF Rearrange
    <3>2. PICK m \in [1..n -> DOMAIN frames] :
             frames' = [i \in 1..n |-> frames[m[i]]]
      BY <3>1
    <3>3. n \in Nat /\ \A j \in 1..n : m[j] \in DOMAIN frames
      BY <1>1, <3>2
    <3>4. \A j \in 1..n : frames[m[j]] \in ChunkRecord
      BY <3>3, <1>1
    <3>5. tail' \in {"none", "torn"}
      BY <2>1 DEF Rearrange
    <3> QED
      BY <3>2, <3>3, <3>4, <3>5 DEF StreamInv
  <2>2. CASE Alter
    <3>1. PICK i \in DOMAIN frames, x \in U64, n \in 0..(MAX_CHUNK_SIZE + 1),
               b \in BOOLEAN :
             frames' = [frames EXCEPT ![i].index = x, ![i].plaintext_len = n,
                                      ![i].intact = b]
      BY <2>2 DEF Alter
    <3>2. tail' = tail
      BY <2>2 DEF Alter
    <3>3. frames[i] \in ChunkRecord
      BY <1>1
    <3> DEFINE g == [frames[i] EXCEPT !.index = x, !.plaintext_len = n,
                                      !.intact = b]
    <3>4. g \in ChunkRecord /\ g.ct = frames[i].ct
      BY <3>3 DEF ChunkRecord
    <3>5. frames' = [frames EXCEPT ![i] = g]
      BY <3>1
    <3> HIDE DEF g
    <3>6. frames' \in Seq(ChunkRecord) /\ DOMAIN frames' = DOMAIN frames
      BY <3>4, <3>5, <1>1
    <3>7. \A j \in DOMAIN frames : frames'[j].ct = frames[j].ct
      BY <3>4, <3>5, <1>1
    <3> QED
      BY <3>2, <3>6, <3>7, <1>1 DEF StreamInv
  <2> QED
    BY <2>1, <2>2 DEF Damage
<1>3. TypeOK'
  BY <1>1, <1>2 DEF TypeOK, encVars, decVars
<1>4. StreamInv'
  BY <1>1, <1>2 DEF StreamInv, encVars
<1> QED
  BY <1>1, <1>3, <1>4, WriterUntouched, ReaderUntouched DEF encVars

\* The actions of decrypt_stream that write nothing out.
LEMMA DecControlKeeps ==
    ASSUME IInv,
           DecStart \/ DecEof \/ DecTorn \/ DecReject \/ DecIoFails
    PROVE  IInv'
<1> USE DEF IInv
<1>1. /\ UNCHANGED <<encVars, fileVars, dec_key, cursor, expected_index,
                     dec_total, released>>
      /\ dec_pc' \in {"running", "ok", "err"}
      /\ dec_pc' = "running" => dec_pc = "idle"
      /\ faulted' \in BOOLEAN /\ early' \in BOOLEAN
  BY DEF DecStart, DecEof, DecTorn, DecReject, DecIoFails, TypeOK, EncEnded
<1>2. TypeOK'
  BY <1>1 DEF TypeOK, encVars, fileVars
<1>3. ReaderInv'
  <2>1. EndOf(expected_index)' = EndOf(expected_index)
    BY <1>1 DEF EndOf, encVars
  <2> QED
    BY <1>1, <2>1 DEF ReaderInv, ReleasedIsPrefix, encVars
<1> QED
  BY <1>1, <1>2, <1>3, WriterUntouched, StreamUntouched DEF encVars, fileVars

\* Appending to a prefix of the naturals what follows it.
LEMMA PrefixExtends ==
    ASSUME NEW N \in Nat, NEW s \in Seq(1..N), NEW t \in Seq(1..N),
           \A i \in DOMAIN s : s[i] = i,
           \A i \in DOMAIN t : t[i] = Len(s) + i
    PROVE  /\ s \o t \in Seq(1..N)
           /\ Len(s \o t) = Len(s) + Len(t)
           /\ \A i \in DOMAIN (s \o t) : (s \o t)[i] = i
<1>1. /\ s \o t \in Seq(1..N)
      /\ Len(s \o t) = Len(s) + Len(t)
      /\ Len(s) \in Nat /\ Len(t) \in Nat
      /\ DOMAIN (s \o t) = 1..(Len(s) + Len(t))
  OBVIOUS
<1>2. ASSUME NEW i \in 1..(Len(s) + Len(t)) PROVE (s \o t)[i] = i
  <2>1. CASE i <= Len(s)
    BY <2>1, <1>1
  <2>2. CASE i > Len(s)
    <3>1. i - Len(s) \in 1..Len(t)
      BY <2>2, <1>1
    <3>2. (s \o t)[i] = t[i - Len(s)]
      BY <2>2, <1>1
    <3> QED
      BY <3>1, <3>2, <1>1
  <2> QED
    BY <2>1, <2>2, <1>1
<1> QED
  BY <1>1, <1>2

\* Writing out part of the next chunk keeps the output a prefix.
LEMMA ReleaseNext ==
    ASSUME IInv, dec_pc = "running", cursor < Len(frames),
           Accepted(NextRecord), NEW n \in 0..NextRecord.plaintext_len,
           released' = released \o Plaintext(NextRecord, n)
    PROVE  /\ NextRecord \in ChunkRecord
           /\ NextRecord.ct = expected_index + 1
           /\ expected_index + 1 \in DOMAIN sealed
           /\ NextRecord.plaintext_len = sealed[expected_index + 1].len
           /\ NextRecord.plaintext_len \in Nat
           /\ Len(released) = EndOf(expected_index)
           /\ released' \in Seq(1..SourceLen)
           /\ Len(released') = Len(released) + n
           /\ ReleasedIsPrefix'
<1> USE DEF IInv
<1> DEFINE c == NextRecord.ct
<1>1. /\ cursor = expected_index /\ cursor \in Nat
      /\ frames \in Seq(ChunkRecord) /\ sealed \in Seq(Ciphertext)
      /\ released \in Seq(1..SourceLen)
      /\ Len(released) = EndOf(expected_index)
  BY DEF ReaderInv, TypeOK
<1>2. cursor + 1 \in DOMAIN frames
  BY <1>1
<1>3. NextRecord \in ChunkRecord /\ c \in DOMAIN sealed
  BY <1>1, <1>2 DEF NextRecord, StreamInv
<1>4. /\ c = expected_index + 1
      /\ NextRecord.plaintext_len = sealed[c].len
      /\ sealed[c].from = EndOf(expected_index)
      /\ NextRecord.plaintext_len \in 1..MAX_CHUNK_SIZE
  BY <1>3, AcceptedIsNext
<1>5. /\ sealed[c] \in Ciphertext
      /\ sealed[c].from + sealed[c].len <= input_pos
      /\ input_pos \in 0..SourceLen
  <2>1. sealed[c] \in Ciphertext
    BY <1>1, <1>3
  <2>2. sealed[c].from + sealed[c].len <= input_pos
    BY <1>3 DEF WriterInv
  <2>3. input_pos \in 0..SourceLen
    BY DEF TypeOK
  <2> QED
    BY <2>1, <2>2, <2>3
<1>6. /\ sealed[c].from \in Nat /\ sealed[c].len \in Nat /\ n \in Nat
      /\ n <= sealed[c].len
      /\ sealed[c].from + n <= SourceLen
      /\ Len(released) = sealed[c].from
  <2>1. sealed[c].from \in Nat /\ sealed[c].len \in Nat
    BY <1>5, CiphertextFields
  <2>2. n \in Nat /\ n <= sealed[c].len /\ Len(released) = sealed[c].from
    BY <1>1, <1>4
  <2> QED
    BY <1>5, <2>1, <2>2
<1> DEFINE p == Plaintext(NextRecord, n)
<1>7. p \in Seq(1..SourceLen) /\ Len(p) = n /\ \A i \in 1..n : p[i] = sealed[c].from + i
  <2>1. PICK first \in Nat : first = sealed[c].from
    BY <1>6
  <2>2. first + n <= SourceLen /\ n \in Nat
    BY <1>6, <2>1
  <2>3. \A i \in 1..n : first + i \in 1..SourceLen
    BY <2>2
  <2>4. \A i \in 1..n : sealed[c].from + i \in 1..SourceLen
    BY <2>1, <2>3
  <2> QED
    BY <1>6, <2>4 DEF Plaintext
<1> HIDE DEF p
<1>8. released' = released \o p
  BY DEF p
<1>9. \A i \in DOMAIN released : released[i] = i
  BY DEF ReaderInv, ReleasedIsPrefix
<1>10. /\ released' \in Seq(1..SourceLen)
       /\ Len(released') = Len(released) + n
       /\ \A i \in DOMAIN released' : released'[i] = i
  <2>1. \A i \in DOMAIN p : p[i] = Len(released) + i
    BY <1>6, <1>7
  <2>2. released \in Seq(1..SourceLen) /\ p \in Seq(1..SourceLen)
    BY <1>1, <1>7
  <2>3. /\ released \o p \in Seq(1..SourceLen)
        /\ Len(released \o p) = Len(released) + Len(p)
        /\ \A i \in DOMAIN (released \o p) : (released \o p)[i] = i
    <3>1. SourceLen \in Nat
      BY DEF StreamingAssumption
    <3> QED
      BY ONLY <1>9, <2>1, <2>2, <3>1, PrefixExtends
  <2> QED
    BY <1>7, <1>8, <2>3
<1>11. ReleasedIsPrefix'
  BY <1>6, <1>10 DEF ReleasedIsPrefix
<1> QED
  BY <1>1, <1>3, <1>4, <1>6, <1>10, <1>11

\* A write of decrypt_stream that fails has put out part of the next chunk.
LEMMA DecWriteFailsKeeps == IInv /\ DecWriteFails => IInv'
<1> SUFFICES ASSUME IInv, DecWriteFails PROVE IInv'
  OBVIOUS
<1>1. PICK n \in 0..(NextRecord.plaintext_len - 1) :
         released' = released \o Plaintext(NextRecord, n)
  BY DEF DecWriteFails
<1>2. /\ dec_pc = "running" /\ cursor < Len(frames) /\ Accepted(NextRecord)
      /\ dec_pc' = "err" /\ faulted' = TRUE
      /\ UNCHANGED <<encVars, fileVars, dec_key, cursor, expected_index,
                     dec_total, early>>
  BY DEF DecWriteFails
<1>3. NextRecord.plaintext_len \in Nat
  <2>1. cursor + 1 \in DOMAIN frames /\ frames \in Seq(ChunkRecord)
    BY <1>2 DEF IInv, TypeOK
  <2>2. NextRecord \in ChunkRecord
    BY <2>1 DEF NextRecord
  <2> QED
    BY <2>2, RecordFields
<1>4. n \in 0..NextRecord.plaintext_len
  BY <1>3
<1>5. released' \in Seq(1..SourceLen) /\ ReleasedIsPrefix'
  BY <1>1, <1>2, <1>4, ReleaseNext
<1>6. TypeOK'
  BY <1>2, <1>5 DEF IInv, TypeOK, encVars, fileVars
<1>7. ReaderInv'
  BY <1>2, <1>5 DEF ReaderInv
<1> QED
  BY <1>2, <1>6, <1>7, WriterUntouched, StreamUntouched
     DEF IInv, encVars, fileVars

\* A round of decrypt_stream puts out the next chunk.
LEMMA DecChunkKeeps == IInv /\ DecChunk => IInv'
<1> SUFFICES ASSUME IInv, DecChunk PROVE IInv'
  OBVIOUS
<1> DEFINE len == NextRecord.plaintext_len
<1>1. /\ dec_pc = "running" /\ cursor < Len(frames) /\ Accepted(NextRecord)
      /\ released' = released \o Plaintext(NextRecord, len)
      /\ cursor' = cursor + 1
      /\ UNCHANGED <<encVars, fileVars, dec_key, faulted, early>>
  BY DEF DecChunk
<1>2. len \in Nat
  <2>1. cursor + 1 \in DOMAIN frames /\ frames \in Seq(ChunkRecord)
    BY <1>1 DEF IInv, TypeOK
  <2>2. NextRecord \in ChunkRecord
    BY <2>1 DEF NextRecord
  <2> QED
    BY <2>2, RecordFields
<1>3. /\ expected_index + 1 \in DOMAIN sealed
      /\ len = sealed[expected_index + 1].len
      /\ NextRecord.ct = expected_index + 1
      /\ Len(released) = EndOf(expected_index)
      /\ released' \in Seq(1..SourceLen)
      /\ Len(released') = Len(released) + len
      /\ ReleasedIsPrefix'
  <2>1. len \in 0..NextRecord.plaintext_len
    BY <1>2
  <2> QED
    BY <1>1, <2>1, ReleaseNext
<1>4. /\ expected_index \in Nat /\ expected_index \in U64 /\ dec_total \in U64
      /\ cursor = expected_index /\ cursor \in Nat
      /\ sealed \in Seq(Ciphertext)
  BY <1>1 DEF IInv, TypeOK, ReaderInv, U64
<1>5. /\ dec_total' \in U64 /\ expected_index' \in U64
      /\ dec_pc' \in {"err", "running"}
      /\ dec_pc' = "running" => expected_index' = expected_index + 1
  <2>1. /\ ~CheckedAddFails(dec_total, len) => Add64(dec_total, len) \in U64
        /\ ~CheckedAddFails(expected_index, 1) =>
               /\ Add64(expected_index, 1) \in U64
               /\ Add64(expected_index, 1) = expected_index + 1
    BY <1>2, <1>4, Add64Exact
  <2>2. /\ dec_total' = IF CheckedAddFails(dec_total, len)
                          THEN dec_total ELSE Add64(dec_total, len)
        /\ expected_index' = IF DecTotalFails(len)
                               THEN expected_index ELSE Add64(expected_index, 1)
        /\ dec_pc' = IF DecTotalFails(len) THEN "err" ELSE "running"
    BY DEF DecChunk
  <2> QED
    BY <2>1, <2>2, <1>4 DEF DecTotalFails
<1>6. TypeOK'
  <2>1. cursor' \in Nat
    BY <1>1, <1>4
  <2> QED
    BY <1>1, <1>3, <1>5, <2>1 DEF IInv, TypeOK, encVars, fileVars
<1>7. ReaderInv'
  <2>1. EndOf(expected_index + 1) = EndOf(expected_index) + len
    <3>1. sealed[expected_index + 1].from = EndOf((expected_index + 1) - 1)
      BY <1>3 DEF IInv, WriterInv
    <3>2. (expected_index + 1) - 1 = expected_index /\ expected_index + 1 # 0
      BY <1>4
    <3> QED
      BY <3>1, <3>2, <1>3 DEF EndOf
  <2>2. sealed' = sealed
    BY <1>1 DEF encVars
  <2>3. dec_pc' = "running" =>
           /\ EndOf(expected_index)' = Len(released')
           /\ expected_index' <= Len(sealed')
           /\ cursor' = expected_index'
    <3>1. ASSUME dec_pc' = "running"
          PROVE  EndOf(expected_index)' = EndOf(expected_index + 1)
      BY <3>1, <1>5, <2>2 DEF EndOf
    <3> QED
      BY <3>1, <1>1, <1>3, <1>4, <1>5, <2>1, <2>2
  <2> QED
    BY <1>3, <1>5, <2>3 DEF ReaderInv
<1> QED
  BY <1>1, <1>6, <1>7, WriterUntouched, StreamUntouched
     DEF IInv, encVars, fileVars

-----------------------------------------------------------------------------
(* The theorems.                                                           *)

\* Every step keeps the inductive invariant: one case per action.
LEMMA NextKeepsIInv == IInv /\ [Next]_vars => IInv'
<1> SUFFICES ASSUME IInv, [Next]_vars PROVE IInv'
  OBVIOUS
<1>1. CASE UNCHANGED vars
  <2>1. UNCHANGED <<encVars, fileVars, decVars>>
    BY <1>1 DEF vars
  <2>2. TypeOK'
    BY <2>1 DEF IInv, TypeOK, encVars, fileVars, decVars
  <2> QED
    BY <2>1, <2>2, WriterUntouched, StreamUntouched, ReaderUntouched
       DEF IInv, encVars, fileVars
<1>2. CASE \/ EncStart \/ EncReadFails \/ EncFinish \/ EncWritePrefix
           \/ EncWriteFails \/ EncCrash
  BY <1>2, EncControlKeeps
<1>3. CASE DecStart \/ DecEof \/ DecTorn \/ DecReject \/ DecIoFails
  BY <1>3, DecControlKeeps
<1> QED
  BY <1>1, <1>2, <1>3, EncReadKeeps, EncWriteBodyKeeps, DamageKeeps,
     DecChunkKeeps, DecWriteFailsKeeps DEF Next

\* The inductive invariant holds in every reachable state.
THEOREM Invariance == Spec => []IInv
  BY InitIInv, NextKeepsIInv, PTL DEF Spec

\* Types are preserved: in particular no u64 ever leaves its range, however
\* long the input (streaming.rs: checked_add of the index, the nonce counter
\* and the totals).
THEOREM TypeCorrect == Spec => []TypeOK
<1>1. IInv => TypeOK
  BY DEF IInv
<1> QED
  BY <1>1, Invariance, PTL

\* Whatever the lengths of the reads, the nonces of a stream have one prefix
\* and counters that grow: none is used twice, and none comes by wrapping.
THEOREM NoncesUnique == Spec => []NonceUnique
<1>1. IInv => NonceUnique
  <2> SUFFICES ASSUME IInv, NEW i \in DOMAIN sealed, NEW j \in DOMAIN sealed,
                      i < j
               PROVE  /\ sealed[i].nonce.prefix = sealed[j].nonce.prefix
                      /\ sealed[i].nonce.counter < sealed[j].nonce.counter
    BY DEF NonceUnique
  <2>1. \A k \in DOMAIN sealed :
           /\ sealed[k].nonce.prefix = key.base_nonce.prefix
           /\ sealed[k].nonce.counter = key.base_nonce.counter + (k - 1)
    <3> TAKE k \in DOMAIN sealed
    <3>1. sealed[k].nonce = [prefix  |-> key.base_nonce.prefix,
                             counter |-> key.base_nonce.counter + (k - 1)]
      BY DEF IInv, WriterInv
    <3> QED
      BY <3>1
  <2>2. i \in Nat /\ j \in Nat
    BY DEF IInv, TypeOK
  <2>3. key.base_nonce.counter \in Nat
    BY KeyFields DEF IInv, TypeOK
  <2> QED
    BY <2>1, <2>2, <2>3
<1> QED
  BY <1>1, Invariance, PTL

\* Whatever happened to the stored stream, what decrypt_stream writes out is
\* a prefix of the plaintext that was encrypted.
THEOREM OutputIsPrefix == Spec => []ReleasedIsPrefix
<1>1. IInv => ReleasedIsPrefix
  BY DEF IInv, ReaderInv
<1> QED
  BY <1>1, Invariance, PTL

-----------------------------------------------------------------------------
(* decrypt_stream implements PrefixRelease.                                *)

\* A sequence that is a prefix is determined by its length.
LEMMA PrefixByLength ==
    ASSUME TypeOK, ReleasedIsPrefix
    PROVE  /\ released = Promise!Prefix(Len(released))
           /\ Len(released) \in 0..SourceLen
<1>1. released \in Seq(1..SourceLen) /\ Len(released) \in Nat
  BY DEF TypeOK
<1>2. DOMAIN released = 1..Len(released)
  BY <1>1
<1>3. released = [i \in 1..Len(released) |-> released[i]]
  BY <1>1
<1>4. \A i \in 1..Len(released) : released[i] = i
  BY <1>2 DEF ReleasedIsPrefix
<1> QED
  BY <1>1, <1>3, <1>4 DEF ReleasedIsPrefix, Promise!Prefix

\* Every step releases more of the plaintext, returns, or is none for the promise.
LEMMA StepImplementsPromise ==
    ASSUME IInv, IInv', [Next]_vars
    PROVE  [Promise!Next]_(Promise!vars)
<1> DEFINE verdict == IF dec_pc \in {"ok", "err"} THEN dec_pc ELSE "none"
<1>1. /\ released' = Promise!Prefix(Len(released'))
      /\ Len(released') \in 0..SourceLen /\ Len(released) \in 0..SourceLen
  <2>1. TypeOK /\ ReleasedIsPrefix
    BY DEF IInv, ReaderInv
  <2>2. TypeOK' /\ ReleasedIsPrefix'
    BY DEF IInv, ReaderInv
  <2>3. Len(released) \in 0..SourceLen
    BY <2>1, PrefixByLength
  <2>4. (released = Promise!Prefix(Len(released)) /\ Len(released) \in 0..SourceLen)'
    <3>1. released' \in Seq(1..SourceLen) /\ Len(released') \in Nat
      BY <2>2 DEF TypeOK
    <3>2. released' = [i \in 1..Len(released') |-> released'[i]]
      BY <3>1
    <3>3. \A i \in 1..Len(released') : released'[i] = i
      BY <2>2, <3>1 DEF ReleasedIsPrefix
    <3> QED
      BY <2>2, <3>1, <3>2, <3>3 DEF ReleasedIsPrefix, Promise!Prefix
  <2> QED
    BY <2>3, <2>4
<1>2. CASE UNCHANGED decVars
  BY <1>2 DEF decVars, Promise!vars
<1>3. CASE DecStart
  BY <1>3 DEF DecStart, Promise!vars
<1>4. CASE DecEof \/ DecTorn \/ DecReject \/ DecIoFails
  <2>1. /\ dec_pc = "running" /\ dec_pc' \in {"ok", "err"}
        /\ released' = released
    BY <1>4 DEF DecEof, DecTorn, DecReject, DecIoFails
  <2> QED
    BY <2>1 DEF Promise!Next, Promise!Return
<1>5. CASE DecChunk \/ DecWriteFails
  <2>1. dec_pc = "running" /\ cursor < Len(frames) /\ Accepted(NextRecord)
    BY <1>5 DEF DecChunk, DecWriteFails
  <2>2. NextRecord.plaintext_len \in Nat
    <3>1. cursor + 1 \in DOMAIN frames /\ frames \in Seq(ChunkRecord)
      BY <2>1 DEF IInv, TypeOK
    <3>2. NextRecord \in ChunkRecord
      BY <3>1 DEF NextRecord
    <3> QED
      BY <3>2, RecordFields
  <2>3. PICK n \in 0..NextRecord.plaintext_len :
           released' = released \o Plaintext(NextRecord, n)
    <3>1. CASE DecChunk
      <4>1. NextRecord.plaintext_len \in 0..NextRecord.plaintext_len
        BY <2>2
      <4> QED
        BY <3>1, <4>1 DEF DecChunk
    <3>2. CASE DecWriteFails
      <4>1. PICK n \in 0..(NextRecord.plaintext_len - 1) :
               released' = released \o Plaintext(NextRecord, n)
        BY <3>2 DEF DecWriteFails
      <4>2. n \in 0..NextRecord.plaintext_len
        BY <2>2
      <4> QED
        BY <4>1, <4>2
    <3> QED
      BY <1>5, <3>1, <3>2
  <2>4. Len(released') = Len(released) + n
    BY <2>1, <2>3, ReleaseNext
  <2>5. dec_pc' \in {"running", "err"}
    BY <1>5 DEF DecChunk, DecWriteFails
  <2>6. Len(released') \in Len(released)..SourceLen
    BY <1>1, <2>2, <2>4
  <2> QED
    BY <1>1, <2>1, <2>5, <2>6 DEF Promise!Next, Promise!Release
<1> QED
  BY <1>2, <1>3, <1>4, <1>5
     DEF Next, EncStart, EncRead, EncReadFails, EncFinish, EncWritePrefix,
         EncWriteBody, EncWriteFails, EncCrash, Damage, vars

\* decrypt_stream implements PrefixRelease: its output only grows, is a
\* prefix of the plaintext at every moment, and is final once it returned.
THEOREM PrefixReleaseImplemented == Spec => ImplementsPrefixRelease
<1>1. Init => Promise!Init
  BY DEF Init, Promise!Init
<1>2. IInv /\ IInv' /\ [Next]_vars => [Promise!Next]_(Promise!vars)
  BY StepImplementsPromise
<1> QED
  BY <1>1, <1>2, Invariance, PTL DEF Spec, ImplementsPrefixRelease, Promise!Spec

=============================================================================
