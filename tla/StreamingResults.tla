-------------------------- MODULE StreamingResults --------------------------
(***************************************************************************)
(* What the results of the two calls of Streaming mean, for every value of *)
(* its constants: an Ok of encrypt_stream, an Ok of decrypt_stream, and a  *)
(* refusal.  StreamingProofs shows what is never written out; this module  *)
(* adds to its invariant what the stored stream holds and what the reader  *)
(* has counted.                                                            *)
(***************************************************************************)
EXTENDS StreamingProofs

USE StreamingAssumption

-----------------------------------------------------------------------------
(* The strengthened invariant.                                             *)

\* The record that encrypt_stream writes for its i-th ciphertext.
RecordOf(i) == [index |-> i - 1, plaintext_len |-> sealed[i].len,
                ct |-> i, intact |-> TRUE]

\* The counters of the writer, and what it knows when it returns Ok.
CountInv ==
    /\ enc_pc \in {"read", "prefix", "body"} => chunk_size # 0
    /\ enc_pc \in {"start", "read"} => enc_total = EndOf(Len(sealed))
    /\ enc_pc \in {"prefix", "body"} => enc_total = EndOf(Len(sealed) - 1)
    /\ enc_pc = "ok" => /\ chunk_index = Len(sealed)
                        /\ EndOf(Len(sealed)) = SourceLen
                        /\ enc_total = SourceLen
    /\ ~EncEnded => damage = 0

\* Until it is damaged the stream holds the records of the ciphertexts in
\* their order: all of them between two chunks and after an Ok, all but the
\* last while that one is written.
StoredInv ==
    damage = 0 =>
        /\ Len(frames) <= Len(sealed)
        /\ \A i \in 1..Len(frames) : frames[i] = RecordOf(i)
        /\ enc_pc \in {"start", "read", "ok"} =>
              Len(frames) = Len(sealed) /\ tail = "none"
        /\ enc_pc \in {"prefix", "body"} => Len(frames) + 1 = Len(sealed)
        /\ enc_pc = "prefix" => tail = "none"

\* As long as decrypt_stream has not failed, the records it read are the
\* ones written there, and all their plaintext is out and counted.
ReadInv ==
    /\ dec_pc # "idle" /\ ~early => EncEnded
    /\ dec_pc # "err" =>
          /\ cursor = expected_index
          /\ expected_index <= Len(frames) /\ expected_index <= Len(sealed)
          /\ \A i \in 1..expected_index : frames[i] = RecordOf(i)
          /\ Len(released) = EndOf(expected_index)
          /\ dec_total = Len(released)
    /\ dec_pc = "idle" => expected_index = 0
    /\ dec_pc = "ok" /\ ~early => Len(frames) = expected_index /\ tail = "none"

\* An undamaged stream is not refused (the first half of RoundTrip).
NeverRefused ==
    (enc_pc = "ok" /\ ~early /\ damage = 0 /\ dec_key = key /\ ~faulted)
        => dec_pc # "err"

RInv == CountInv /\ StoredInv /\ ReadInv /\ OnlyTheRightKeyOpens /\ NeverRefused

-----------------------------------------------------------------------------
(* Lemmas.                                                                 *)

\* Types that many steps below need.
LEMMA SealedTypes ==
    ASSUME TypeOK
    PROVE  /\ sealed \in Seq(Ciphertext) /\ Len(sealed) \in Nat
           /\ frames \in Seq(ChunkRecord) /\ Len(frames) \in Nat
           /\ expected_index \in Nat /\ chunk_index \in Nat
           /\ \A i \in 1..Len(sealed) :
                 /\ sealed[i].from \in Nat /\ sealed[i].len \in Nat
                 /\ sealed[i].len >= 1 /\ sealed[i].len <= MAX_CHUNK_SIZE
<1>1. /\ sealed \in Seq(Ciphertext) /\ Len(sealed) \in Nat
      /\ frames \in Seq(ChunkRecord) /\ Len(frames) \in Nat
      /\ expected_index \in Nat /\ chunk_index \in Nat
  BY DEF TypeOK, U64
<1>2. \A i \in 1..Len(sealed) : sealed[i] \in Ciphertext
  BY <1>1
<1> QED
  BY <1>1, <1>2, CiphertextFields

\* A ciphertext, once made, never changes: neither do the ends of the
\* chunks and the records that stand for them.
LEMMA SealedStays ==
    ASSUME IInv, [Next]_vars
    PROVE  /\ Len(sealed) <= Len(sealed')
           /\ \A n \in 0..Len(sealed) : EndOf(n)' = EndOf(n)
           /\ \A n \in 1..Len(sealed) : RecordOf(n)' = RecordOf(n)
<1>1. sealed \in Seq(Ciphertext) /\ Len(sealed) \in Nat
  BY SealedTypes DEF IInv
<1>2. CASE UNCHANGED sealed
  BY <1>1, <1>2 DEF EndOf, RecordOf
<1>3. CASE EncRead
  <2>1. CASE UNCHANGED sealed
    BY <2>1, <1>2
  <2>2. CASE \E c : sealed' = Append(sealed, c)
    <3>1. PICK c : sealed' = Append(sealed, c)
      BY <2>2
    <3>2. /\ Len(sealed') = Len(sealed) + 1
          /\ \A n \in 1..Len(sealed) : sealed'[n] = sealed[n]
      BY <1>1, <3>1
    <3>3. ASSUME NEW n \in 0..Len(sealed) PROVE EndOf(n)' = EndOf(n)
      <4>1. CASE n = 0
        BY <4>1 DEF EndOf
      <4>2. CASE n # 0
        <5>1. n \in 1..Len(sealed)
          BY <1>1, <4>2
        <5>2. sealed'[n] = sealed[n]
          BY <3>2, <5>1
        <5> QED
          BY <4>2, <5>2 DEF EndOf
      <4> QED
        BY <4>1, <4>2
    <3>4. \A n \in 1..Len(sealed) : RecordOf(n)' = RecordOf(n)
      BY <3>2 DEF RecordOf
    <3>5. Len(sealed) <= Len(sealed')
      BY <1>1, <3>2
    <3> QED
      BY <3>3, <3>4, <3>5
  <2> QED
    BY <1>3, <2>1, <2>2 DEF EncRead
<1> QED
  BY <1>2, <1>3 DEF Next, vars, encVars, EncStart, EncReadFails, EncFinish,
     EncWritePrefix, EncWriteBody, EncWriteFails, EncCrash, Damage, DecStart,
     DecEof, DecTorn, DecReject, DecChunk, DecIoFails, DecWriteFails

\* One chunk reaches from the end of the chunk before it.
LEMMA EndOfNext ==
    ASSUME IInv, NEW k \in 1..Len(sealed)
    PROVE  EndOf(k) = EndOf(k - 1) + sealed[k].len
<1>1. k \in DOMAIN sealed /\ k # 0
  BY SealedTypes DEF IInv
<1>2. sealed[k].from = EndOf(k - 1)
  BY <1>1 DEF IInv, WriterInv
<1> QED
  BY <1>1, <1>2 DEF EndOf

\* decrypt_stream, under the writer's key, accepts the record it comes to if
\* that is the one encrypt_stream wrote there.
LEMMA WrittenIsAccepted ==
    ASSUME IInv, dec_key = key, expected_index + 1 \in 1..Len(sealed)
    PROVE  Accepted(RecordOf(expected_index + 1))
<1> DEFINE k == expected_index + 1
           f == RecordOf(k)
<1>1. /\ k \in DOMAIN sealed /\ k - 1 = expected_index
      /\ expected_index \in Nat
      /\ sealed[k] \in Ciphertext
      /\ sealed[k].len \in Nat /\ sealed[k].len <= MAX_CHUNK_SIZE
  BY SealedTypes DEF IInv
<1>2. /\ sealed[k].dek = key.dek
      /\ sealed[k].nonce = [prefix  |-> key.base_nonce.prefix,
                            counter |-> key.base_nonce.counter + (k - 1)]
      /\ sealed[k].aad = build_chunk_aad(k - 1, sealed[k].len)
  BY <1>1 DEF IInv, WriterInv
<1>3. key.base_nonce.counter \in U64 /\ key.base_nonce.counter \in Nat
  BY KeyFields DEF IInv, TypeOK
<1>4. key.base_nonce.counter + expected_index <= U64Max
  <2>1. sealed[k].nonce \in [prefix : NoncePrefixes, counter : U64]
    BY <1>1, CiphertextFields
  <2>2. sealed[k].nonce.counter \in U64
    BY <2>1
  <2>3. sealed[k].nonce.counter = key.base_nonce.counter + (k - 1)
    BY <1>2
  <2> QED
    BY <1>1, <1>3, <2>2, <2>3 DEF U64
<1>5. ~NonceFails(dec_key.base_nonce, expected_index)
  BY <1>1, <1>3, <1>4 DEF NonceFails, CheckedAddFails
<1>6. sealed[k].nonce = derive_chunk_nonce(dec_key.base_nonce, expected_index)
  <2>1. Add64(key.base_nonce.counter, expected_index)
          = key.base_nonce.counter + expected_index
    BY <1>1, <1>3, <1>5, Add64Exact DEF NonceFails
  <2> QED
    BY <1>1, <1>2, <2>1 DEF derive_chunk_nonce
<1>7. /\ f.index = expected_index /\ f.plaintext_len = sealed[k].len
      /\ f.ct = k /\ f.intact = TRUE
  BY <1>1 DEF RecordOf
<1>8. sealed[k].aad = build_chunk_aad(f.index, f.plaintext_len)
  BY <1>1, <1>2, <1>7
<1> HIDE DEF f, k
<1>9. Accepted(f)
  BY <1>1, <1>2, <1>5, <1>6, <1>7, <1>8 DEF Accepted, DecryptChunkOk
<1> QED
  BY <1>9 DEF f, k

-----------------------------------------------------------------------------
(* The counters of encrypt_stream.                                         *)

\* Nothing is written or read before the two calls are made.
LEMMA InitRInv == Init => RInv
<1> SUFFICES ASSUME Init PROVE RInv
  OBVIOUS
<1>1. Len(sealed) = 0 /\ Len(frames) = 0 /\ Len(released) = 0 /\ EndOf(0) = 0
  BY DEF Init, EndOf
<1>2. CountInv
  BY <1>1 DEF Init, CountInv, EncEnded
<1>3. StoredInv
  BY <1>1 DEF Init, StoredInv
<1>4. ReadInv
  BY <1>1 DEF Init, ReadInv
<1>5. OnlyTheRightKeyOpens /\ NeverRefused
  BY DEF Init, OnlyTheRightKeyOpens, NeverRefused
<1> QED
  BY <1>2, <1>3, <1>4, <1>5 DEF RInv

\* The counters follow the chunks, and Ok is only reached at the input's end.
LEMMA CountInvKept == IInv /\ CountInv /\ [Next]_vars => CountInv'
<1> SUFFICES ASSUME IInv, CountInv, [Next]_vars PROVE CountInv'
  OBVIOUS
<1>0. /\ sealed \in Seq(Ciphertext) /\ Len(sealed) \in Nat
      /\ chunk_index \in U64 /\ enc_total \in U64
      /\ chunk_size \in Nat /\ bytes_read \in Nat
      /\ Len(sealed)' = Len(sealed')
  BY SealedTypes DEF IInv, TypeOK
<1>1. ASSUME UNCHANGED encVars, UNCHANGED damage \/ EncEnded
      PROVE  CountInv'
  <2>1. \A n : EndOf(n)' = EndOf(n)
    BY <1>1 DEF EndOf, encVars
  <2> QED
    BY <1>1, <2>1 DEF CountInv, encVars, EncEnded
<1>2. ASSUME enc_pc' \in {"err", "crashed"} PROVE CountInv'
  BY <1>2 DEF CountInv, EncEnded
<1>3. ASSUME EncStart PROVE CountInv'
  <2>1. \A n : EndOf(n)' = EndOf(n)
    BY <1>3 DEF EndOf, EncStart
  <2>2. enc_pc' = "read" => chunk_size # 0
    BY <1>3 DEF EncStart, ChunkSizeRefused
  <2>3. /\ enc_pc = "start" /\ enc_pc' \in {"read", "err"}
        /\ UNCHANGED <<chunk_size, chunk_index, enc_total, sealed, damage>>
    BY <1>3 DEF EncStart, fileVars
  <2> QED
    BY <2>1, <2>2, <2>3 DEF CountInv, EncEnded
<1>4. ASSUME EncFinish PROVE CountInv'
  <2>1. \A n : EndOf(n)' = EndOf(n)
    BY <1>4 DEF EndOf, EncFinish
  <2>2. /\ enc_pc = "read" /\ enc_pc' \in {"ok", "err"}
        /\ UNCHANGED <<chunk_index, enc_total, sealed>>
        /\ 0 \in ReadResults
    BY <1>4 DEF EncFinish
  <2>3. input_pos = SourceLen
    BY <2>2 DEF ReadResults, CountInv
  <2>4. chunk_index = Len(sealed) /\ input_pos = EndOf(Len(sealed))
    BY <2>2 DEF IInv, WriterInv
  <2> QED
    BY <2>1, <2>2, <2>3, <2>4 DEF CountInv, EncEnded
<1>5. ASSUME EncWritePrefix PROVE CountInv'
  <2>1. \A n : EndOf(n)' = EndOf(n)
    BY <1>5 DEF EndOf, EncWritePrefix
  <2>2. /\ enc_pc = "prefix" /\ enc_pc' = "body"
        /\ UNCHANGED <<chunk_size, enc_total, sealed, damage>>
    BY <1>5 DEF EncWritePrefix
  <2> QED
    BY <2>1, <2>2 DEF CountInv, EncEnded
<1>6. ASSUME EncRead PROVE CountInv'
  <2>1. CASE enc_pc' = "err"
    BY <2>1, <1>2
  <2>2. CASE enc_pc' # "err"
    <3>1. /\ enc_pc = "read" /\ enc_pc' = "prefix"
          /\ UNCHANGED <<chunk_size, enc_total, damage>>
          /\ \E c : sealed' = Append(sealed, c)
      BY <1>6, <2>2 DEF EncRead, fileVars
    <3>2. Len(sealed') = Len(sealed) + 1
      BY <3>1, <1>0
    <3>3. EndOf(Len(sealed) - 1)' = EndOf(Len(sealed))
      <4>1. \A n \in 0..Len(sealed) : EndOf(n)' = EndOf(n)
        BY SealedStays
      <4>2. Len(sealed') - 1 = Len(sealed) /\ Len(sealed) \in 0..Len(sealed)
        BY <1>0, <3>2
      <4> QED
        BY <1>0, <4>1, <4>2 DEF EndOf
    <3> QED
      BY <3>1, <3>3 DEF CountInv, EncEnded
  <2> QED
    BY <2>1, <2>2
<1>7. ASSUME EncWriteBody PROVE CountInv'
  <2>1. CASE enc_pc' = "err"
    BY <2>1, <1>2
  <2>2. CASE enc_pc' # "err"
    <3>1. /\ enc_pc = "body" /\ enc_pc' = "read"
          /\ ~CheckedAddFails(enc_total, bytes_read)
          /\ enc_total' = Add64(enc_total, bytes_read)
          /\ UNCHANGED <<sealed, chunk_size, damage>>
      BY <1>7, <2>2 DEF EncWriteBody
    <3>2. enc_total' = enc_total + bytes_read
      BY <1>0, <3>1, Add64Exact
    <3>3. /\ chunk_index + 1 = Len(sealed)
          /\ bytes_read = sealed[Len(sealed)].len
          /\ enc_total = EndOf(Len(sealed) - 1)
      BY <3>1 DEF IInv, WriterInv, CountInv
    <3>4. Len(sealed) \in 1..Len(sealed)
      BY <1>0, <3>3 DEF U64
    <3>5. enc_total' = EndOf(Len(sealed))
      BY <3>2, <3>3, <3>4, EndOfNext
    <3>6. EndOf(Len(sealed))' = EndOf(Len(sealed))
      BY <3>1 DEF EndOf
    <3>7. chunk_size # 0
      <4>1. bytes_read >= 1
        BY <3>3, <3>4, SealedTypes DEF IInv
      <4> QED
        BY <3>1 DEF CountInv
    <3> QED
      BY <3>1, <3>5, <3>6, <3>7 DEF CountInv, EncEnded
  <2> QED
    BY <2>1, <2>2
<1>8. ASSUME EncReadFails \/ EncWriteFails \/ EncCrash PROVE CountInv'
  BY <1>8, <1>2 DEF EncReadFails, EncWriteFails, EncCrash
<1>9. ASSUME \/ UNCHANGED vars \/ Damage \/ DecStart \/ DecEof \/ DecTorn
             \/ DecReject \/ DecChunk \/ DecIoFails \/ DecWriteFails
      PROVE  CountInv'
  BY <1>9, <1>1 DEF vars, fileVars, Damage, DecStart, DecEof, DecTorn,
     DecReject, DecChunk, DecIoFails, DecWriteFails
<1> QED
  BY <1>3, <1>4, <1>5, <1>6, <1>7, <1>8, <1>9 DEF Next

-----------------------------------------------------------------------------
(* The stored stream.                                                      *)

\* A step that leaves the ciphertexts and the stream alone keeps StoredInv,
\* wherever it takes the writer that the stream allows.
LEMMA StoredUntouched ==
    ASSUME StoredInv, UNCHANGED <<sealed, frames, damage>>,
           \/ enc_pc' \in {"err", "crashed"}
           \/ enc_pc' = enc_pc /\ UNCHANGED tail
           \/ /\ enc_pc \in {"start", "read"} /\ enc_pc' \in {"read", "ok"}
              /\ UNCHANGED tail
           \/ enc_pc = "prefix" /\ enc_pc' = "body"
    PROVE  StoredInv'
<1>1. \A i : RecordOf(i)' = RecordOf(i)
  BY DEF RecordOf
<1> QED
  BY <1>1 DEF StoredInv

\* A record is written whole and in its place, and only after its ciphertext.
LEMMA StoredInvKept == IInv /\ CountInv /\ StoredInv /\ [Next]_vars => StoredInv'
<1> SUFFICES ASSUME IInv, CountInv, StoredInv, [Next]_vars PROVE StoredInv'
  OBVIOUS
<1>0. /\ sealed \in Seq(Ciphertext) /\ Len(sealed) \in Nat
      /\ frames \in Seq(ChunkRecord) /\ Len(frames) \in Nat
      /\ chunk_index \in Nat /\ damage \in Nat
  BY SealedTypes DEF IInv, TypeOK
<1>1. ASSUME \/ UNCHANGED vars \/ DecStart \/ DecEof \/ DecTorn
             \/ DecReject \/ DecChunk \/ DecIoFails \/ DecWriteFails
      PROVE  StoredInv'
  <2>1. UNCHANGED <<sealed, frames, damage, enc_pc, tail>>
    BY <1>1 DEF vars, encVars, fileVars, DecStart, DecEof, DecTorn,
       DecReject, DecChunk, DecIoFails, DecWriteFails
  <2> QED
    BY <2>1, StoredUntouched
<1>2. ASSUME Damage PROVE StoredInv'
  <2>1. damage' # 0
    BY <1>0, <1>2 DEF Damage
  <2> QED
    BY <2>1 DEF StoredInv
<1>3. ASSUME \/ EncStart \/ EncReadFails \/ EncFinish \/ EncCrash
      PROVE  StoredInv'
  <2>1. /\ UNCHANGED <<sealed, frames, damage, tail>>
        /\ \/ enc_pc' \in {"err", "crashed"}
           \/ enc_pc \in {"start", "read"} /\ enc_pc' \in {"read", "ok"}
    BY <1>3 DEF fileVars, EncStart, EncReadFails, EncFinish, EncCrash
  <2> QED
    BY <2>1, StoredUntouched
<1>4. ASSUME EncWritePrefix \/ EncWriteFails PROVE StoredInv'
  <2>1. /\ UNCHANGED <<sealed, frames, damage>>
        /\ enc_pc' = "err" \/ (enc_pc = "prefix" /\ enc_pc' = "body")
    BY <1>4 DEF EncWritePrefix, EncWriteFails
  <2> QED
    BY <2>1, StoredUntouched
<1>5. ASSUME EncRead PROVE StoredInv'
  <2>1. enc_pc = "read" /\ UNCHANGED <<frames, damage, tail>>
    BY <1>5 DEF EncRead, fileVars
  <2>2. CASE enc_pc' = "err" /\ UNCHANGED sealed
    BY <2>1, <2>2, StoredUntouched
  <2>3. CASE enc_pc' = "prefix" /\ \E c : sealed' = Append(sealed, c)
    <3>1. Len(sealed') = Len(sealed) + 1
      BY <1>0, <2>3
    <3>2. \A i \in 1..Len(sealed) : RecordOf(i)' = RecordOf(i)
      BY SealedStays
    <3> QED
      BY <1>0, <2>1, <2>3, <3>1, <3>2 DEF StoredInv
  <2> QED
    BY <1>5, <2>2, <2>3 DEF EncRead
<1>6. ASSUME EncWriteBody PROVE StoredInv'
  <2>1. /\ enc_pc = "body" /\ enc_pc' \in {"err", "read"}
        /\ frames' = Append(frames, WrittenRecord) /\ tail' = "none"
        /\ UNCHANGED <<sealed, damage>>
    BY <1>6 DEF EncWriteBody
  <2>2. damage = 0
    BY <2>1 DEF CountInv, EncEnded
  <2>3. /\ Len(frames) + 1 = Len(sealed)
        /\ \A i \in 1..Len(frames) : frames[i] = RecordOf(i)
    BY <2>1, <2>2 DEF StoredInv
  <2>4. WrittenRecord = RecordOf(Len(sealed))
    <3>1. /\ chunk_index + 1 = Len(sealed)
          /\ bytes_read = sealed[Len(sealed)].len
      BY <2>1 DEF IInv, WriterInv
    <3>2. chunk_index = Len(sealed) - 1
      BY <1>0, <3>1
    <3> QED
      BY <3>1, <3>2 DEF WrittenRecord, RecordOf
  <2>5. /\ Len(frames') = Len(sealed)
        /\ \A i \in 1..Len(frames') : frames'[i] = RecordOf(i)
    <3>1. /\ Len(frames') = Len(frames) + 1
          /\ frames'[Len(frames) + 1] = WrittenRecord
          /\ \A i \in 1..Len(frames) : frames'[i] = frames[i]
      BY <1>0, <2>1
    <3>2. \A i \in 1..Len(frames') : i \in 1..Len(frames) \/ i = Len(sealed)
      BY <1>0, <2>3, <3>1
    <3> QED
      BY <2>3, <2>4, <3>1, <3>2
  <2>6. \A i : RecordOf(i)' = RecordOf(i)
    BY <2>1 DEF RecordOf
  <2> QED
    BY <1>0, <2>1, <2>5, <2>6 DEF StoredInv
<1> QED
  BY <1>1, <1>2, <1>3, <1>4, <1>5, <1>6 DEF Next

-----------------------------------------------------------------------------
(* What decrypt_stream has read.                                           *)

\* A step of encrypt_stream only adds to the stream, and leaves alone what
\* a reader that began after its end has seen.
LEMMA ReadInvWriterStep ==
    ASSUME IInv, ReadInv, [Next]_vars, UNCHANGED decVars, ~EncEnded,
           Len(frames) <= Len(frames'),
           \A i \in 1..Len(frames) : frames'[i] = frames[i]
    PROVE  ReadInv'
<1>0. /\ Len(sealed) \in Nat /\ Len(frames) \in Nat /\ expected_index \in Nat
      /\ Len(sealed) <= Len(sealed')
  BY SealedTypes, SealedStays DEF IInv
<1>00. Len(sealed') \in Nat /\ Len(frames') \in Nat
  <2>1. IInv'
    BY NextKeepsIInv
  <2>2. TypeOK'
    BY <2>1 DEF IInv
  <2>3. sealed' \in Seq(Ciphertext)' /\ frames' \in Seq(ChunkRecord)'
    BY <2>2 DEF TypeOK
  <2> QED
    BY <2>3
<1>1. UNCHANGED <<dec_pc, dec_key, cursor, expected_index, dec_total, released,
                  faulted, early>>
  BY DEF decVars
<1>2. dec_pc = "idle" \/ early
  BY DEF ReadInv
<1>3. ASSUME dec_pc # "err"
      PROVE  /\ expected_index <= Len(frames') /\ expected_index <= Len(sealed')
             /\ \A i \in 1..expected_index : frames'[i] = RecordOf(i)'
             /\ EndOf(expected_index)' = EndOf(expected_index)
  <2>1. /\ expected_index <= Len(frames) /\ expected_index <= Len(sealed)
        /\ \A i \in 1..expected_index : frames[i] = RecordOf(i)
    BY <1>3 DEF ReadInv
  <2>2. ASSUME NEW i \in 1..expected_index PROVE frames'[i] = RecordOf(i)'
    <3>1. i \in 1..Len(frames) /\ i \in 1..Len(sealed)
      BY <1>0, <2>1
    <3>2. RecordOf(i)' = RecordOf(i)
      BY <3>1, SealedStays
    <3> QED
      BY <2>1, <3>1, <3>2
  <2>3. EndOf(expected_index)' = EndOf(expected_index)
    <3>1. \A n \in 0..Len(sealed) : EndOf(n)' = EndOf(n)
      BY SealedStays
    <3>2. expected_index \in 0..Len(sealed)
      BY <1>0, <2>1
    <3> QED
      BY <1>1, <3>1, <3>2 DEF EndOf
  <2> QED
    BY <1>0, <1>00, <2>1, <2>2, <2>3
<1> QED
  BY <1>1, <1>2, <1>3 DEF ReadInv, EncEnded

\* A step of decrypt_stream that reads no record, or fails.
LEMMA ReadInvControl ==
    ASSUME ReadInv, UNCHANGED <<encVars, fileVars>>,
           \/ UNCHANGED decVars
           \/ DecStart \/ DecEof \/ DecTorn \/ DecReject
           \/ DecIoFails \/ DecWriteFails
    PROVE  ReadInv'
<1>1. \A i : RecordOf(i)' = RecordOf(i) /\ EndOf(i)' = EndOf(i)
  BY DEF RecordOf, EndOf, encVars
<1>2. UNCHANGED <<frames, tail, sealed, enc_pc>>
  BY DEF encVars, fileVars
<1>3. CASE UNCHANGED decVars
  BY <1>1, <1>2, <1>3 DEF ReadInv, decVars, EncEnded
<1>4. CASE DecStart
  BY <1>1, <1>2, <1>4 DEF ReadInv, DecStart, EncEnded
<1>5. CASE DecEof
  BY <1>1, <1>2, <1>5 DEF ReadInv, DecEof, EncEnded
<1>6. CASE DecTorn \/ DecReject \/ DecIoFails \/ DecWriteFails
  <2>1. /\ dec_pc = "running" /\ dec_pc' = "err" /\ early' = early
    BY <1>6 DEF DecTorn, DecReject, DecIoFails, DecWriteFails
  <2> QED
    BY <1>2, <2>1 DEF ReadInv, EncEnded
<1> QED
  BY <1>3, <1>4, <1>5, <1>6

\* The record that a round of decrypt_stream accepts is the one written there.
LEMMA AcceptedIsWritten ==
    ASSUME IInv, dec_pc = "running", cursor < Len(frames), Accepted(NextRecord)
    PROVE  /\ NextRecord = RecordOf(expected_index + 1)
           /\ dec_key = key
           /\ cursor = expected_index
           /\ expected_index + 1 \in 1..Len(sealed)
           /\ NextRecord.plaintext_len = sealed[expected_index + 1].len
<1>1. /\ cursor = expected_index /\ cursor \in Nat /\ expected_index \in Nat
      /\ frames \in Seq(ChunkRecord)
      /\ sealed \in Seq(Ciphertext)
  BY SealedTypes DEF IInv, ReaderInv, TypeOK
<1>2. cursor + 1 \in DOMAIN frames
  BY <1>1
<1>3. NextRecord \in ChunkRecord /\ NextRecord.ct \in DOMAIN sealed
  BY <1>1, <1>2 DEF NextRecord, IInv, StreamInv
<1>4. /\ NextRecord.ct = expected_index + 1
      /\ dec_key = key
      /\ NextRecord.intact
      /\ NextRecord.plaintext_len = sealed[NextRecord.ct].len
  BY <1>3, AcceptedIsNext DEF IInv
<1>5. NextRecord.index = expected_index
  BY DEF Accepted
<1>6. NextRecord = [index |-> NextRecord.index,
                    plaintext_len |-> NextRecord.plaintext_len,
                    ct |-> NextRecord.ct, intact |-> NextRecord.intact]
  BY <1>3 DEF ChunkRecord
<1>7. NextRecord.intact = TRUE
  BY <1>3, <1>4, RecordFields
<1>8. (expected_index + 1) - 1 = expected_index
  BY <1>1
<1> QED
  BY <1>1, <1>3, <1>4, <1>5, <1>6, <1>7, <1>8 DEF RecordOf

\* A round of decrypt_stream that does not fail moves on by one record.
LEMMA ReadInvChunk ==
    ASSUME IInv, IInv', ReadInv, DecChunk
    PROVE  ReadInv'
<1> DEFINE len == NextRecord.plaintext_len
           k == expected_index + 1
<1>1. /\ dec_pc = "running" /\ cursor < Len(frames) /\ Accepted(NextRecord)
      /\ released' = released \o Plaintext(NextRecord, len)
      /\ cursor' = cursor + 1
      /\ UNCHANGED <<encVars, fileVars, dec_key, faulted, early>>
  BY DEF DecChunk
<1>2. /\ NextRecord = RecordOf(k) /\ cursor = expected_index
      /\ k \in 1..Len(sealed) /\ len = sealed[k].len
  BY <1>1, AcceptedIsWritten
<1>3. /\ expected_index \in Nat /\ expected_index \in U64 /\ dec_total \in U64
      /\ Len(frames) \in Nat /\ Len(sealed) \in Nat
  BY SealedTypes DEF IInv, TypeOK
<1>4. len \in Nat
  BY <1>2, SealedTypes DEF IInv
<1>5. Len(released') = Len(released) + len
  <2>1. len \in 0..NextRecord.plaintext_len
    BY <1>4
  <2> QED
    BY <1>1, <2>1, ReleaseNext
<1>6. UNCHANGED <<sealed, frames, tail, enc_pc>>
  BY <1>1 DEF encVars, fileVars
<1>7. dec_pc' \in {"err", "running"}
  BY DEF DecChunk
<1>8. CASE dec_pc' = "err"
  BY <1>1, <1>6, <1>8 DEF ReadInv, EncEnded
<1>9. CASE dec_pc' # "err"
  <2>1. /\ ~CheckedAddFails(dec_total, len)
        /\ ~CheckedAddFails(expected_index, 1)
        /\ dec_total' = Add64(dec_total, len)
        /\ expected_index' = Add64(expected_index, 1)
    BY <1>9 DEF DecChunk, DecTotalFails
  <2>2. dec_total' = dec_total + len /\ expected_index' = k
    BY <1>3, <1>4, <2>1, Add64Exact
  <2>3. /\ Len(released) = EndOf(expected_index) /\ dec_total = Len(released)
        /\ \A i \in 1..expected_index : frames[i] = RecordOf(i)
    BY <1>1 DEF ReadInv
  <2>4. EndOf(k) = EndOf(expected_index) + len
    <3>1. EndOf(k) = EndOf(k - 1) + sealed[k].len
      BY <1>2, EndOfNext
    <3>2. k - 1 = expected_index
      BY <1>3
    <3> QED
      BY <1>2, <3>1, <3>2
  <2>5. \A i \in 1..k : frames[i] = RecordOf(i)
    <3>1. frames[k] = RecordOf(k)
      BY <1>2 DEF NextRecord
    <3>2. \A i \in 1..k : i \in 1..expected_index \/ i = k
      BY <1>3
    <3> QED
      BY <2>3, <3>1, <3>2
  <2>6. \A i : RecordOf(i)' = RecordOf(i)
    BY <1>6 DEF RecordOf
  <2>7. EndOf(expected_index)' = EndOf(k)
    BY <1>6, <2>2 DEF EndOf
  <2>8. /\ k <= Len(frames) /\ k <= Len(sealed) /\ cursor' = k
    BY <1>1, <1>2, <1>3
  <2>9. dec_pc' = "running" /\ early' = early
    BY <1>1, <1>7, <1>9
  <2> HIDE DEF k, len
  <2>10. Len(released') = EndOf(k) /\ dec_total' = Len(released')
    BY <1>5, <2>2, <2>3, <2>4
  <2> QED
    BY <1>1, <1>6, <2>2, <2>5, <2>6, <2>7, <2>8, <2>9, <2>10
       DEF ReadInv, EncEnded
<1> QED
  BY <1>8, <1>9

\* Every step keeps what is known of decrypt_stream.
LEMMA ReadInvKept == IInv /\ IInv' /\ ReadInv /\ [Next]_vars => ReadInv'
<1> SUFFICES ASSUME IInv, IInv', ReadInv, [Next]_vars PROVE ReadInv'
  OBVIOUS
<1>0. /\ frames \in Seq(ChunkRecord) /\ Len(frames) \in Nat
      /\ sealed \in Seq(Ciphertext) /\ Len(sealed) \in Nat
  BY SealedTypes DEF IInv
<1>1. CASE \/ EncStart \/ EncRead \/ EncReadFails \/ EncFinish
           \/ EncWritePrefix \/ EncWriteFails \/ EncCrash
  <2>1. UNCHANGED decVars /\ ~EncEnded /\ UNCHANGED frames
    BY <1>1 DEF EncEnded, fileVars, EncStart, EncRead, EncReadFails, EncFinish,
       EncWritePrefix, EncWriteFails, EncCrash
  <2> QED
    BY <1>0, <2>1, ReadInvWriterStep
<1>2. CASE EncWriteBody
  <2>1. /\ UNCHANGED decVars /\ ~EncEnded
        /\ frames' = Append(frames, WrittenRecord)
    BY <1>2 DEF EncEnded, EncWriteBody
  <2>2. /\ Len(frames) <= Len(frames')
        /\ \A i \in 1..Len(frames) : frames'[i] = frames[i]
    BY <1>0, <2>1
  <2> QED
    BY <2>1, <2>2, ReadInvWriterStep
<1>3. CASE Damage
  <2>1. dec_pc = "idle" /\ UNCHANGED <<encVars, decVars>>
    BY <1>3 DEF Damage
  <2>2. /\ UNCHANGED <<dec_pc, cursor, expected_index, dec_total, released, early>>
        /\ expected_index = 0 /\ cursor = expected_index
        /\ Len(released) = EndOf(0) /\ dec_total = Len(released)
        /\ EndOf(0)' = EndOf(0)
    BY <2>1 DEF ReadInv, decVars, EndOf
  <2>3. Len(frames') \in Nat /\ Len(sealed') \in Nat
    BY DEF IInv, TypeOK
  <2> QED
    BY <2>1, <2>2, <2>3 DEF ReadInv
<1>4. CASE \/ UNCHANGED vars \/ DecStart \/ DecEof \/ DecTorn \/ DecReject
           \/ DecIoFails \/ DecWriteFails
  <2>1. UNCHANGED <<encVars, fileVars>>
    BY <1>4 DEF vars, DecStart, DecEof, DecTorn, DecReject, DecIoFails,
       DecWriteFails
  <2> QED
    BY <1>4, <2>1, ReadInvControl DEF vars
<1>5. CASE DecChunk
  BY <1>5, ReadInvChunk
<1> QED
  BY <1>1, <1>2, <1>3, <1>4, <1>5 DEF Next

-----------------------------------------------------------------------------
(* Which key opens the stream, and what is never refused.                  *)

\* Something is written out only after a record was accepted.
LEMMA KeyKept ==
    IInv /\ OnlyTheRightKeyOpens /\ [Next]_vars => OnlyTheRightKeyOpens'
<1> SUFFICES ASSUME IInv, OnlyTheRightKeyOpens, [Next]_vars
             PROVE  OnlyTheRightKeyOpens'
  OBVIOUS
<1>1. UNCHANGED <<key, dec_key>>
  BY DEF Next, vars, encVars, decVars, EncStart, EncRead, EncReadFails,
     EncFinish, EncWritePrefix, EncWriteBody, EncWriteFails, EncCrash, Damage,
     DecStart, DecEof, DecTorn, DecReject, DecChunk, DecIoFails, DecWriteFails
<1>2. CASE DecChunk \/ DecWriteFails
  <2>1. dec_pc = "running" /\ cursor < Len(frames) /\ Accepted(NextRecord)
    BY <1>2 DEF DecChunk, DecWriteFails
  <2>2. dec_key = key
    BY <2>1, AcceptedIsWritten
  <2> QED
    BY <1>1, <2>2 DEF OnlyTheRightKeyOpens
<1>3. CASE ~(DecChunk \/ DecWriteFails)
  <2>1. UNCHANGED released
    BY <1>3 DEF Next, vars, decVars, EncStart, EncRead, EncReadFails,
       EncFinish, EncWritePrefix, EncWriteBody, EncWriteFails, EncCrash,
       Damage, DecStart, DecEof, DecTorn, DecReject, DecIoFails
  <2> QED
    BY <1>1, <2>1 DEF OnlyTheRightKeyOpens
<1> QED
  BY <1>2, <1>3

\* The next record of a finished, undamaged stream is accepted, and neither
\* counter of decrypt_stream overflows where those of encrypt_stream did not.
LEMMA NextIsTaken ==
    ASSUME IInv, CountInv, StoredInv, ReadInv,
           enc_pc = "ok", damage = 0, dec_key = key,
           dec_pc = "running", cursor < Len(frames)
    PROVE  /\ Accepted(NextRecord)
           /\ ~DecTotalFails(NextRecord.plaintext_len)
<1> DEFINE k == expected_index + 1
<1>1. /\ Len(sealed) \in Nat /\ Len(frames) \in Nat /\ expected_index \in Nat
      /\ chunk_index \in U64 /\ enc_total \in U64 /\ input_pos \in 0..SourceLen
  BY SealedTypes DEF IInv, TypeOK
<1>2. /\ Len(frames) = Len(sealed)
      /\ \A i \in 1..Len(frames) : frames[i] = RecordOf(i)
  BY DEF StoredInv
<1>3. cursor = expected_index
  BY DEF ReadInv
<1>4. k \in 1..Len(sealed) /\ k \in 1..Len(frames)
  BY <1>1, <1>2, <1>3
<1>5. NextRecord = RecordOf(k)
  BY <1>2, <1>3, <1>4 DEF NextRecord
<1>6. Accepted(NextRecord)
  BY <1>4, <1>5, WrittenIsAccepted
<1>7. /\ Len(released) = EndOf(expected_index) /\ dec_total = Len(released)
  BY DEF ReadInv
<1>8. /\ chunk_index = Len(sealed) /\ enc_total = SourceLen
  BY DEF CountInv
<1>9. ~CheckedAddFails(expected_index, 1)
  BY <1>1, <1>4, <1>8 DEF CheckedAddFails, U64
<1>10. ~CheckedAddFails(dec_total, NextRecord.plaintext_len)
  <2>1. EndOf(k) \in 0..SourceLen
    <3>1. k \in 0..Len(sealed)
      BY <1>1, <1>4
    <3> QED
      BY <3>1, EndOfBound DEF IInv
  <2>2. EndOf(k) = EndOf(k - 1) + sealed[k].len
    BY <1>4, EndOfNext
  <2>3. k - 1 = expected_index
    BY <1>1
  <2>4. NextRecord.plaintext_len = sealed[k].len
    BY <1>5 DEF RecordOf
  <2>5. dec_total + NextRecord.plaintext_len = EndOf(k)
    BY <1>7, <2>2, <2>3, <2>4
  <2>6. SourceLen <= U64Max
    BY <1>1, <1>8 DEF U64
  <2> QED
    BY <2>1, <2>5, <2>6 DEF CheckedAddFails
<1> QED
  BY <1>6, <1>9, <1>10 DEF DecTotalFails

\* No step makes decrypt_stream refuse an undamaged stream.
LEMMA NeverRefusedKept ==
    IInv /\ RInv /\ ReadInv' /\ [Next]_vars => NeverRefused'
<1> SUFFICES ASSUME IInv, RInv, ReadInv', [Next]_vars,
                    enc_pc' = "ok", ~early', damage' = 0, dec_key' = key',
                    ~faulted', dec_pc' = "err"
             PROVE  FALSE
  BY DEF NeverRefused
<1>0. CountInv /\ StoredInv /\ ReadInv /\ NeverRefused
  BY DEF RInv
<1>1. CASE UNCHANGED vars
  BY <1>0, <1>1 DEF vars, encVars, fileVars, decVars, NeverRefused
<1>2. CASE \/ EncStart \/ EncRead \/ EncReadFails \/ EncFinish
           \/ EncWritePrefix \/ EncWriteBody \/ EncWriteFails \/ EncCrash
  <2>1. ~EncEnded /\ UNCHANGED decVars
    BY <1>2 DEF EncEnded, EncStart, EncRead, EncReadFails, EncFinish,
       EncWritePrefix, EncWriteBody, EncWriteFails, EncCrash
  <2>2. dec_pc # "idle" /\ ~early
    BY <2>1 DEF decVars
  <2> QED
    BY <1>0, <2>1, <2>2 DEF ReadInv
<1>3. CASE Damage
  BY <1>3 DEF Damage, decVars
<1>4. CASE DecStart \/ DecEof \/ DecIoFails \/ DecWriteFails
  BY <1>4 DEF DecStart, DecEof, DecIoFails, DecWriteFails
<1>5. ASSUME DecTorn \/ DecReject \/ DecChunk
      PROVE  /\ enc_pc = "ok" /\ damage = 0 /\ dec_key = key
             /\ dec_pc = "running"
  BY <1>5 DEF DecTorn, DecReject, DecChunk, encVars, fileVars
<1>6. CASE DecTorn
  <2>1. tail = "torn"
    BY <1>6 DEF DecTorn
  <2>2. tail = "none"
    BY <1>0, <1>5, <1>6 DEF StoredInv
  <2> QED
    BY <2>1, <2>2
<1>7. CASE DecReject
  <2>1. cursor < Len(frames) /\ ~Accepted(NextRecord)
    BY <1>7 DEF DecReject
  <2> QED
    BY <1>0, <1>5, <1>7, <2>1, NextIsTaken
<1>8. CASE DecChunk
  <2>1. cursor < Len(frames) /\ DecTotalFails(NextRecord.plaintext_len)
    BY <1>8 DEF DecChunk
  <2> QED
    BY <1>0, <1>5, <1>8, <2>1, NextIsTaken
<1> QED
  BY <1>1, <1>2, <1>3, <1>4, <1>6, <1>7, <1>8 DEF Next

-----------------------------------------------------------------------------
(* The theorems.                                                           *)

\* Both invariants together hold in every reachable state.
THEOREM ResultsInvariance == Spec => [](IInv /\ RInv)
<1>1. Init => IInv /\ RInv
  BY InitIInv, InitRInv
<1>2. IInv /\ RInv /\ [Next]_vars => IInv' /\ RInv'
  <2> SUFFICES ASSUME IInv, RInv, [Next]_vars PROVE IInv' /\ RInv'
    OBVIOUS
  <2>1. IInv'
    BY NextKeepsIInv
  <2>2. CountInv' /\ StoredInv' /\ ReadInv' /\ OnlyTheRightKeyOpens'
    BY <2>1, CountInvKept, StoredInvKept, ReadInvKept, KeyKept DEF RInv
  <2>3. NeverRefused'
    BY <2>2, NeverRefusedKept
  <2> QED
    BY <2>1, <2>2, <2>3 DEF RInv
<1>3. IInv' /\ RInv' <=> (IInv /\ RInv)'
  OBVIOUS
<1> QED
  BY <1>1, <1>2, <1>3, PTL DEF Spec

\* Under any key or base nonce but the writer's decrypt_stream writes
\* nothing, whatever the stream was turned into.
THEOREM RightKey == Spec => []OnlyTheRightKeyOpens
<1>1. IInv /\ RInv => OnlyTheRightKeyOpens
  BY DEF RInv
<1> QED
  BY <1>1, ResultsInvariance, PTL

\* An Ok of encrypt_stream: the whole input is in the stream, chunk by
\* chunk, however short the reads and however large the chunks.
THEOREM EncryptOkComplete == Spec => []EncryptOkIsComplete
<1>1. IInv /\ RInv => EncryptOkIsComplete
  <2> SUFFICES ASSUME IInv, RInv, enc_pc = "ok", damage = 0
               PROVE  /\ tail = "none"
                      /\ Len(frames) = Len(sealed)
                      /\ \A i \in DOMAIN frames :
                            /\ frames[i].ct = i
                            /\ sealed[i].from = EndOf(i - 1)
                      /\ EndOf(Len(sealed)) = SourceLen
                      /\ enc_total = SourceLen
    BY DEF EncryptOkIsComplete
  <2>1. /\ tail = "none" /\ Len(frames) = Len(sealed)
        /\ \A i \in 1..Len(frames) : frames[i] = RecordOf(i)
    BY DEF RInv, StoredInv
  <2>2. /\ DOMAIN frames = 1..Len(frames)
        /\ DOMAIN sealed = 1..Len(sealed)
    BY SealedTypes DEF IInv
  <2>3. \A i \in DOMAIN frames : frames[i].ct = i
    BY <2>1, <2>2 DEF RecordOf
  <2>4. \A i \in DOMAIN sealed : sealed[i].from = EndOf(i - 1)
    BY DEF IInv, WriterInv
  <2>5. EndOf(Len(sealed)) = SourceLen /\ enc_total = SourceLen
    BY DEF RInv, CountInv
  <2> QED
    BY <2>1, <2>2, <2>3, <2>4, <2>5
<1> QED
  BY <1>1, ResultsInvariance, PTL

\* An Ok of decrypt_stream: what it read is an undamaged beginning of what
\* was written, and of a stream that had stopped growing nothing was left.
THEOREM DecryptOkMeans == Spec => []OkMeansUndamagedPrefix
<1>1. IInv /\ RInv => OkMeansUndamagedPrefix
  BY DEF RInv, ReadInv, OkMeansUndamagedPrefix, RecordOf
<1> QED
  BY <1>1, ResultsInvariance, PTL

\* A finished and undamaged stream is never refused, and an Ok gives back
\* the whole plaintext.
THEOREM StreamRoundTrip == Spec => []RoundTrip
<1>1. IInv /\ RInv => RoundTrip
  <2> SUFFICES ASSUME IInv, RInv, enc_pc = "ok", ~early, damage = 0,
                      dec_key = key, ~faulted
               PROVE  /\ dec_pc # "err"
                      /\ dec_pc = "ok" => released = [i \in 1..SourceLen |-> i]
    BY DEF RoundTrip
  <2>1. dec_pc # "err"
    BY DEF RInv, NeverRefused
  <2>2. ASSUME dec_pc = "ok" PROVE released = [i \in 1..SourceLen |-> i]
    <3>1. Len(frames) = expected_index /\ Len(released) = EndOf(expected_index)
      BY <2>2 DEF RInv, ReadInv
    <3>2. Len(frames) = Len(sealed)
      BY DEF RInv, StoredInv
    <3>3. EndOf(Len(sealed)) = SourceLen
      BY DEF RInv, CountInv
    <3>4. Len(released) = SourceLen
      BY <3>1, <3>2, <3>3
    <3>5. released = Promise!Prefix(Len(released))
      BY PrefixByLength DEF IInv, ReaderInv
    <3> QED
      BY <3>4, <3>5 DEF Promise!Prefix
  <2> QED
    BY <2>1, <2>2
<1> QED
  BY <1>1, ResultsInvariance, PTL

-----------------------------------------------------------------------------
(* Termination: what encrypt_stream and decrypt_stream have left to do.    *)

\* The bounds are natural numbers, and the reader has read only records that
\* are there.
LEMMA LeftTypes ==
    ASSUME IInv, RInv
    PROVE  /\ EncLeft \in Nat /\ DecLeft \in Nat
           /\ dec_pc # "err" => cursor <= Len(frames)
<1>1. /\ input_pos \in 0..SourceLen /\ Len(frames) \in Nat /\ cursor \in Nat
      /\ enc_pc \in {"start", "read", "prefix", "body", "ok", "err", "crashed"}
      /\ dec_pc \in {"idle", "running", "ok", "err"}
  BY DEF IInv, TypeOK
<1>2. dec_pc # "err" => cursor <= Len(frames)
  BY DEF RInv, ReadInv
<1>3. EncLeft \in Nat
  BY <1>1 DEF EncLeft
<1>4. DecLeft \in Nat
  BY <1>1, <1>2 DEF DecLeft
<1> QED
  BY <1>2, <1>3, <1>4

\* A step of encrypt_stream leaves it less to do, and the reader no more.
LEMMA WriterRunsOut ==
    ASSUME IInv, RInv, UNCHANGED decVars,
           \/ EncStart \/ EncRead \/ EncReadFails \/ EncFinish
           \/ EncWritePrefix \/ EncWriteBody \/ EncWriteFails \/ EncCrash
    PROVE  /\ EncLeft' \in 0..(EncLeft - 1)
           /\ dec_pc # "idle" => DecLeft' <= DecLeft
<1>1. /\ input_pos \in 0..SourceLen /\ Len(frames) \in Nat /\ cursor \in Nat
      /\ frames \in Seq(ChunkRecord)
      /\ dec_pc \in {"idle", "running", "ok", "err"}
      /\ dec_pc # "err" => cursor <= Len(frames)
      /\ UNCHANGED <<dec_pc, cursor>>
  BY LeftTypes DEF IInv, TypeOK, decVars
<1>2. CASE EncRead
  <2>1. /\ enc_pc = "read" /\ enc_pc' \in {"prefix", "err"}
        /\ input_pos' \in (input_pos + 1)..SourceLen
        /\ UNCHANGED frames
    BY <1>1, <1>2 DEF EncRead, ReadResults, fileVars
  <2> QED
    BY <1>1, <2>1 DEF EncLeft, DecLeft
<1>3. CASE EncWriteBody
  <2>1. /\ enc_pc = "body" /\ enc_pc' \in {"read", "err"}
        /\ input_pos' = input_pos
        /\ frames' = Append(frames, WrittenRecord)
    BY <1>3 DEF EncWriteBody
  <2>2. Len(frames') = Len(frames) + 1
    BY <1>1, <2>1
  <2> QED
    BY <1>1, <2>1, <2>2 DEF EncLeft, DecLeft
<1>4. CASE \/ EncStart \/ EncReadFails \/ EncFinish
           \/ EncWritePrefix \/ EncWriteFails \/ EncCrash
  <2>1. /\ UNCHANGED <<input_pos, frames>>
        /\ \/ enc_pc = "start" /\ enc_pc' \in {"read", "err"}
           \/ enc_pc = "read" /\ enc_pc' \in {"ok", "err", "crashed"}
           \/ enc_pc = "prefix" /\ enc_pc' \in {"body", "err", "crashed"}
           \/ enc_pc = "body" /\ enc_pc' \in {"err", "crashed"}
    BY <1>4 DEF fileVars, EncStart, EncReadFails, EncFinish, EncWritePrefix,
       EncWriteFails, EncCrash
  <2> QED
    BY <1>1, <2>1 DEF EncLeft, DecLeft
<1> QED
  BY <1>2, <1>3, <1>4

\* A step of decrypt_stream leaves it less to do.
LEMMA ReaderRunsOut ==
    ASSUME IInv, RInv, UNCHANGED <<encVars, fileVars>>,
           \/ DecStart \/ DecEof \/ DecTorn \/ DecReject \/ DecChunk
           \/ DecIoFails \/ DecWriteFails
    PROVE  DecLeft' \in 0..(DecLeft - 1)
<1>1. /\ input_pos \in 0..SourceLen /\ Len(frames) \in Nat /\ cursor \in Nat
      /\ dec_pc # "err" => cursor <= Len(frames)
      /\ UNCHANGED <<input_pos, frames, enc_pc>>
  BY LeftTypes DEF IInv, TypeOK, encVars, fileVars
<1>2. CASE DecStart
  <2>1. dec_pc = "idle" /\ dec_pc' = "running" /\ cursor' = cursor
    BY <1>2 DEF DecStart
  <2> QED
    BY <1>1, <2>1 DEF DecLeft
<1>3. CASE DecChunk
  <2>1. /\ dec_pc = "running" /\ dec_pc' \in {"running", "err"}
        /\ cursor' = cursor + 1 /\ cursor < Len(frames)
    BY <1>3 DEF DecChunk
  <2> QED
    BY <1>1, <2>1 DEF DecLeft
<1>4. CASE DecEof \/ DecTorn \/ DecReject \/ DecIoFails \/ DecWriteFails
  <2>1. dec_pc = "running" /\ dec_pc' \in {"ok", "err"}
    BY <1>4 DEF DecEof, DecTorn, DecReject, DecIoFails, DecWriteFails
  <2> QED
    BY <1>1, <2>1 DEF DecLeft
<1> QED
  BY <1>2, <1>3, <1>4

\* Neither call loops for ever: every step brings it nearer to its return,
\* for every input, chunk size and failure (the safety half of BothReturn).
THEOREM CallsEnd == Spec => CallsRunOut
<1>1. ASSUME IInv, RInv, [Next]_vars
      PROVE  [/\ encVars' # encVars => EncLeft' \in 0..(EncLeft - 1)
              /\ decVars' # decVars => DecLeft' \in 0..(DecLeft - 1)
              /\ dec_pc # "idle" => DecLeft' <= DecLeft]_vars
  <2>1. CASE UNCHANGED vars
    BY <2>1
  <2>2. CASE \/ EncStart \/ EncRead \/ EncReadFails \/ EncFinish
             \/ EncWritePrefix \/ EncWriteBody \/ EncWriteFails \/ EncCrash
    <3>1. UNCHANGED decVars
      BY <2>2 DEF EncStart, EncRead, EncReadFails, EncFinish, EncWritePrefix,
         EncWriteBody, EncWriteFails, EncCrash
    <3> QED
      BY <1>1, <2>2, <3>1, WriterRunsOut
  <2>3. CASE Damage
    <3>1. UNCHANGED <<encVars, decVars>> /\ dec_pc = "idle"
      BY <2>3 DEF Damage
    <3> QED
      BY <3>1
  <2>4. CASE \/ DecStart \/ DecEof \/ DecTorn \/ DecReject \/ DecChunk
             \/ DecIoFails \/ DecWriteFails
    <3>1. UNCHANGED <<encVars, fileVars>>
      BY <2>4 DEF DecStart, DecEof, DecTorn, DecReject, DecChunk, DecIoFails,
         DecWriteFails
    <3>2. DecLeft' \in 0..(DecLeft - 1)
      BY <1>1, <2>4, <3>1, ReaderRunsOut
    <3>3. DecLeft' <= DecLeft
      BY <1>1, <3>2, LeftTypes
    <3> QED
      BY <3>1, <3>2, <3>3
  <2> QED
    BY <1>1, <2>1, <2>2, <2>3, <2>4 DEF Next
<1> QED
  BY <1>1, ResultsInvariance, PTL DEF Spec, CallsRunOut
=============================================================================
