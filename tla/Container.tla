----------------------------- MODULE Container -----------------------------
(***************************************************************************)
(* The two container formats of crates/fcloak-core: how a container is     *)
(* made from a password and a file (container.rs, streaming_container.rs,  *)
(* keys.rs, crypto.rs), how it is laid out (format.rs), and how            *)
(* decrypt_file (file.rs) detects the format, opens the path again and     *)
(* decrypts, while the path is rewritten or its bytes are damaged.         *)
(*                                                                         *)
(* A stored container is the sequence of its parts: the header, the        *)
(* wrapped key, then one ciphertext (v1) or the chunks (v2).  Random       *)
(* values are fresh: those of the k-th container made are all named k.     *)
(* Keys and ciphertexts are symbolic, as in Streaming, whose theorem on    *)
(* the chunks of one stream is what lets a chunk here be one part.         *)
(***************************************************************************)
EXTENDS Integers, Sequences, SequencesExt

CONSTANTS
    Passwords,
    Utf8Passwords,          \* the passwords that are valid UTF-8
    MaxChunks,              \* chunks of a streamed file (bound)
    MaxContainers,          \* containers made (bound)
    MaxDamage,              \* how often stored bytes are damaged (bound)
    STREAMING_CHUNK_SIZE,   \* format.rs
    CHUNK_SIZE              \* what encrypt_file_streaming really uses

ASSUME ContainerAssumption ==
    /\ Utf8Passwords \subseteq Passwords
    /\ MaxChunks \in Nat /\ MaxContainers \in Nat /\ MaxDamage \in Nat
    /\ STREAMING_CHUNK_SIZE \in Nat \ {0} /\ CHUNK_SIZE \in Nat \ {0}

VARIABLES
    file,       \* the parts stored at the path (<<>>: nothing usable)
    made,       \* history: every container made
    writing,    \* the container being written in place, or <<>>
    damage,     \* how often the stored bytes were damaged
    dec_pc,     \* "idle", "detected", "header", "wrapped", "chunks", "ok", "err"
    dec_pw,     \* the password given to decrypt_file
    format,     \* the version it detected
    opened,     \* the parts of the file it has open
    linked,     \* that file is still the one at the path
    dek,        \* the key it unwrapped
    read,       \* the parts it has consumed
    out,        \* the plaintext it produced
    target,     \* history: what was stored when it was called
    disturbed   \* history: the path was rewritten, or a call to the system
                \* failed, while it ran

encVars == <<file, made, writing, damage>>
decVars == <<dec_pc, dec_pw, format, opened, linked, dek, read, out, target,
             disturbed>>
vars    == <<encVars, decVars>>

FORMAT_VERSION == 1
STREAMING_FORMAT_VERSION == 2
Aes256Gcm == 1
Argon2id == 1
ARGON2_PARAMS == 1      \* memory, iterations and parallelism

-----------------------------------------------------------------------------
(* Making a container.                                                     *)

\* derive_key: the parameters are constants, never those of the header.
derive_key(password, salt) == [password |-> password, salt |-> salt]

\* Header::new.  `layout' is not stored: it says which structure the bytes
\* really have; nor has a v1 header a chunk_size.
Header(k) ==
    [magic |-> TRUE, version |-> FORMAT_VERSION, cipher |-> Aes256Gcm,
     kdf |-> Argon2id, params |-> ARGON2_PARAMS, salt |-> k,
     dek_wrap_nonce |-> k, nonce |-> k, chunk_size |-> 0,
     layout |-> FORMAT_VERSION]

StreamingHeader(k) ==
    [Header(k) EXCEPT !.version = STREAMING_FORMAT_VERSION,
                      !.chunk_size = STREAMING_CHUNK_SIZE,
                      !.layout = STREAMING_FORMAT_VERSION]

\* wrap_dek_with_nonce.
wrap_dek(kek, key, nonce) ==
    [kek |-> kek, key |-> key, nonce |-> nonce, intact |-> TRUE]

\* A ciphertext under `key'; `text' names the plaintext, the n-th piece of
\* the file that the k-th container holds.
Seal(key, nonce, aad, text) ==
    [key |-> key, nonce |-> nonce, aad |-> aad, text |-> text, intact |-> TRUE]

\* Bug: the key and the nonces are not fresh.
NotFresh(k) == 0

Fresh(k) == k

\* FcloakContainer::encrypt and encode: the ciphertext is bound to the header.
StandardContainer(password, k) ==
    LET h == Header(Fresh(k)) IN
    << h, wrap_dek(derive_key(password, h.salt), Fresh(k), h.dek_wrap_nonce),
       Seal(Fresh(k), <<h.nonce>>, h, <<k, 0>>) >>

\* encrypt_file_streaming: chunk n is bound to its index, not to the header.
StreamingContainer(password, k, chunks) ==
    LET h == StreamingHeader(Fresh(k)) IN
    << h, wrap_dek(derive_key(password, h.salt), Fresh(k), h.dek_wrap_nonce) >>
    \o [i \in 1..chunks |-> Seal(Fresh(k), <<h.nonce, i - 1>>,
                                 <<i - 1, CHUNK_SIZE>>, <<k, i - 1>>)]

Init ==
    /\ file = <<>> /\ made = <<>> /\ writing = <<>> /\ damage = 0
    /\ dec_pc = "idle" /\ dec_pw \in Passwords /\ format = 0
    /\ opened = <<>> /\ linked = FALSE /\ dek = 0 /\ read = <<>> /\ out = <<>>
    /\ target = <<>> /\ disturbed = FALSE

Decrypting == dec_pc \notin {"idle", "ok", "err"}

\* The path holds c from now on: in the same file, which a decryption may
\* have open, or in a new one renamed over it.
Stored(c, inPlace) ==
    /\ file' = c
    /\ opened' = IF inPlace /\ linked THEN c ELSE opened
    /\ linked' = (inPlace /\ linked)
    /\ disturbed' = (disturbed \/ Decrypting)

\* encrypt_file: the container appears at once (see OutputFile).
EncryptStandard(password) ==
    /\ writing = <<>>
    /\ Len(made) < MaxContainers
    /\ LET c == StandardContainer(password, Len(made) + 1) IN
        /\ made' = Append(made, [password |-> password, parts |-> c])
        /\ Stored(c, FALSE)
    /\ UNCHANGED <<writing, damage, dec_pc, dec_pw, format, dek, read, out, target>>

\* encrypt_file_streaming truncates the path, then writes part by part.
EncryptStreaming(password) ==
    /\ writing = <<>>
    /\ Len(made) < MaxContainers
    /\ \E n \in 0..MaxChunks :
        LET c == StreamingContainer(password, Len(made) + 1, n) IN
        /\ made' = Append(made, [password |-> password, parts |-> c])
        /\ writing' = c
    /\ Stored(<<>>, TRUE)
    /\ UNCHANGED <<damage, dec_pc, dec_pw, format, dek, read, out, target>>

\* Bug: the loop does not end with the input.
WriteOn ==
    /\ writing # <<>>
    /\ Len(file) < Len(writing)
    /\ Stored(SubSeq(writing, 1, Len(file) + 1), TRUE)
    /\ UNCHANGED <<writing, made, damage, dec_pc, dec_pw, format, dek, read, out,
                   target>>

WritePart ==
    /\ writing # <<>>
    /\ LET c == SubSeq(writing, 1, Len(file) + 1) IN
        /\ Stored(c, TRUE)
        /\ writing' = IF Len(c) = Len(writing) THEN <<>> ELSE writing
    /\ UNCHANGED <<made, damage, dec_pc, dec_pw, format, dek, read, out, target>>

\* The writer fails or dies: what it wrote stays.
WriterStops ==
    /\ writing # <<>>
    /\ writing' = <<>>
    /\ UNCHANGED <<file, made, damage, decVars>>

\* The values a header field can hold or be changed to.
FieldValues == [magic |-> {FALSE}, version |-> {0, 1, 2}, cipher |-> {0}, kdf |-> {0},
                params |-> {0}, salt |-> {0}, dek_wrap_nonce |-> {0}, nonce |-> {0},
                chunk_size |-> {0, CHUNK_SIZE, STREAMING_CHUNK_SIZE + 1}]

Damaged(c) ==
    \* a header field changes
    (UNION {{[c EXCEPT ![1] = [@ EXCEPT ![f] = v]] : v \in FieldValues[f]} :
              f \in DOMAIN FieldValues})
    \* the bits of another part change
    \cup {[c EXCEPT ![i].intact = FALSE] : i \in 2..Len(c)}
    \* the end is lost
    \cup {SubSeq(c, 1, n) : n \in 1..(Len(c) - 1)}
    \* parts from one place on are those of another container
    \cup {SubSeq(c, 1, n) \o SubSeq(made[k].parts, n + 1, Len(made[k].parts)) :
            n \in 1..Len(c), k \in DOMAIN made}

Damage ==
    /\ file # <<>> /\ writing = <<>> /\ ~Decrypting
    /\ damage < MaxDamage
    /\ damage' = damage + 1
    /\ file' \in Damaged(file)
    /\ UNCHANGED <<made, writing, decVars>>

-----------------------------------------------------------------------------
(* decrypt_file.                                                           *)

DecFails == dec_pc' = "err"

Detected == {FORMAT_VERSION, STREAMING_FORMAT_VERSION}

\* The first bytes are read through a handle that is not used again.
DecDetect ==
    /\ dec_pc = "idle"
    /\ target' = file
    /\ disturbed' = (writing # <<>>)
    /\ IF file # <<>> /\ file[1].magic /\ file[1].version \in Detected
         THEN dec_pc' = "detected" /\ format' = file[1].version
         ELSE DecFails /\ UNCHANGED format
    /\ UNCHANGED <<encVars, dec_pw, opened, linked, dek, read, out>>

\* Header::decode.
Decode(h) ==
    /\ h.magic /\ h.version = FORMAT_VERSION
    /\ h.cipher = Aes256Gcm /\ h.kdf = Argon2id

\* Bug: the largest chunk size is refused.
DecodeBelowLimit(h) ==
    /\ h.magic /\ h.version = STREAMING_FORMAT_VERSION
    /\ h.cipher = Aes256Gcm /\ h.kdf = Argon2id
    /\ h.chunk_size \in 1..(STREAMING_CHUNK_SIZE - 1)

\* StreamingHeader::decode.
DecodeStreaming(h) ==
    /\ h.magic /\ h.version = STREAMING_FORMAT_VERSION
    /\ h.cipher = Aes256Gcm /\ h.kdf = Argon2id
    /\ h.chunk_size \in 1..STREAMING_CHUNK_SIZE

\* Bug: the wrapped key is not authenticated.
UnwrapAny(h, w, password) ==
    /\ h.layout = h.version
    /\ w.kek = derive_key(password, h.salt)

\* unwrap_dek: w opens under the password, and the bytes of w are where the
\* format that was detected expects them.
UnwrapOk(h, w, password) ==
    /\ w.intact /\ h.layout = h.version
    /\ w.kek = derive_key(password, h.salt)
    /\ w.nonce = h.dek_wrap_nonce

\* decrypt_with_aad.
OpenOk(c, key, nonce, aad) ==
    c.intact /\ c.key = key /\ c.nonce = nonce /\ c.aad = aad

\* FcloakContainer::decode: what follows the wrapped key is the ciphertext.
DecodeContainer(c) == Len(c) >= 3 /\ Decode(c[1])

\* FcloakContainer::decrypt: parts too many make a ciphertext nobody sealed.
DecryptOk(c, password) ==
    /\ UnwrapOk(c[1], c[2], password)
    /\ Len(c) = 3
    /\ OpenOk(c[3], c[2].key, <<c[1].nonce>>, c[1])

\* decrypt_standard_file reads the path again, whole.
DecStandard ==
    /\ dec_pc = "detected" /\ format = FORMAT_VERSION
    /\ IF DecodeContainer(file) /\ DecryptOk(file, dec_pw)
         THEN dec_pc' = "ok" /\ read' = file /\ out' = <<file[3].text>>
         ELSE DecFails /\ UNCHANGED <<read, out>>
    /\ UNCHANGED <<encVars, dec_pw, format, opened, linked, dek, target, disturbed>>

\* decrypt_file_streaming opens the path again; a password that is not
\* UTF-8 never gets that far.
DecOpenStreaming ==
    /\ dec_pc = "detected" /\ format = STREAMING_FORMAT_VERSION
    /\ IF dec_pw \in Utf8Passwords
         THEN dec_pc' = "header" /\ opened' = file /\ linked' = TRUE
         ELSE DecFails /\ UNCHANGED <<opened, linked>>
    /\ UNCHANGED <<encVars, dec_pw, format, dek, read, out, target, disturbed>>

\* read_exact of the header, which is then decoded.
DecHeader ==
    /\ dec_pc = "header"
    /\ IF opened # <<>> /\ DecodeStreaming(opened[1])
         THEN dec_pc' = "wrapped" /\ read' = <<opened[1]>>
         ELSE DecFails /\ UNCHANGED read
    /\ UNCHANGED <<encVars, dec_pw, format, opened, linked, dek, out, target,
                   disturbed>>

\* read_exact of the wrapped key, by now perhaps another container's.
DecWrapped ==
    /\ dec_pc = "wrapped"
    /\ IF Len(opened) >= 2 /\ UnwrapOk(read[1], opened[2], dec_pw)
         THEN dec_pc' = "chunks" /\ read' = Append(read, opened[2])
              /\ dek' = opened[2].key
         ELSE DecFails /\ UNCHANGED <<read, dek>>
    /\ UNCHANGED <<encVars, dec_pw, format, opened, linked, out, target, disturbed>>

NextIndex == Len(read) - 2

\* Bug: a chunk that does not open makes the stream be read once more.
RetryFromStart ==
    /\ dec_pc = "chunks"
    /\ \/ /\ Len(opened) <= Len(read)
          /\ dec_pc' = "ok"
          /\ UNCHANGED <<read, out>>
       \/ /\ Len(opened) > Len(read)
          /\ LET c == opened[Len(read) + 1] IN
             IF OpenOk(c, dek, <<read[1].nonce, NextIndex>>, <<NextIndex, CHUNK_SIZE>>)
               THEN read' = Append(read, c) /\ out' = Append(out, c.text)
               ELSE read' = SubSeq(read, 1, 2) /\ out' = <<>>
          /\ UNCHANGED dec_pc
    /\ UNCHANGED <<encVars, dec_pw, format, opened, linked, dek, target, disturbed>>

\* One round of decrypt_stream, or its end at the end of the file.
DecChunk ==
    /\ dec_pc = "chunks"
    /\ \/ /\ Len(opened) <= Len(read)
          /\ dec_pc' = "ok"
          /\ UNCHANGED <<read, out>>
       \/ /\ Len(opened) > Len(read)
          /\ LET c == opened[Len(read) + 1] IN
             IF OpenOk(c, dek, <<read[1].nonce, NextIndex>>, <<NextIndex, CHUNK_SIZE>>)
               THEN read' = Append(read, c) /\ out' = Append(out, c.text)
                    /\ UNCHANGED dec_pc
               ELSE DecFails /\ UNCHANGED <<read, out>>
    /\ UNCHANGED <<encVars, dec_pw, format, opened, linked, dek, target, disturbed>>

\* Opening or reading the file, or writing the output, fails.
DecIoFails ==
    /\ dec_pc \notin {"ok", "err"}
    /\ DecFails
    /\ disturbed' = TRUE
    /\ UNCHANGED <<encVars, dec_pw, format, opened, linked, dek, read, out, target>>

Next ==
    \/ \E password \in Passwords : EncryptStandard(password)
    \/ \E password \in Utf8Passwords : EncryptStreaming(password)
    \/ WritePart \/ WriterStops \/ Damage
    \/ DecDetect \/ DecStandard \/ DecOpenStreaming \/ DecHeader \/ DecWrapped
    \/ DecChunk \/ DecIoFails

Spec == Init /\ [][Next]_vars

-----------------------------------------------------------------------------
(* Properties.                                                             *)

\* The file that the k-th container holds, piece by piece.
PlaintextOf(k) == [i \in 1..(Len(made[k].parts) - 2) |-> made[k].parts[i + 2].text]

\* The shape of the state.
TypeOK ==
    /\ Len(made) <= MaxContainers /\ damage \in 0..MaxDamage
    /\ dec_pc \in {"idle", "detected", "header", "wrapped", "chunks", "ok", "err"}
    /\ dec_pw \in Passwords /\ format \in {0} \cup Detected
    /\ linked \in BOOLEAN /\ disturbed \in BOOLEAN
    /\ dec_pc = "chunks" => Len(read) = Len(out) + 2 /\ Len(out) <= MaxChunks
    /\ writing # <<>> => Len(file) < Len(writing)

\* Whatever was stored, and however often the path was rewritten between two
\* reads, the plaintext produced is the beginning of one file, and that file
\* was encrypted under the password given.
OutputIsOfOneContainer ==
    dec_pc \in {"chunks", "ok"} =>
        \E k \in DOMAIN made : /\ made[k].password = dec_pw
                               /\ IsPrefix(out, PlaintextOf(k))

\* container.rs:106: "modifying any authenticated header field causes file
\* decryption to fail".  A v1 container that decrypts is, in every part,
\* one that was made.
StandardIsUnmodified ==
    dec_pc = "ok" /\ format = FORMAT_VERSION =>
        \E k \in DOMAIN made : read = made[k].parts

\* A v2 container that decrypts has the wrapped key, the salt and the first
\* chunks of one that was made, and its nonce if there is any chunk.
StreamingIsUnmodifiedPrefix ==
    dec_pc = "ok" /\ format = STREAMING_FORMAT_VERSION =>
        \E k \in DOMAIN made :
            /\ IsPrefix(Tail(read), Tail(made[k].parts))
            /\ read[1].salt = made[k].parts[1].salt
            /\ out # <<>> => read[1].nonce = made[k].parts[1].nonce

\* Ok means unmodified: what decrypts under either format is what was made,
\* in all that the format's associated data covers.
OkMeansUnmodified == StandardIsUnmodified /\ StreamingIsUnmodifiedPrefix

\* A whole undamaged container that nobody rewrites meanwhile decrypts under
\* its password, and to all of its file, while no call to the system fails.
RoundTrip ==
    \A k \in DOMAIN made :
        target = made[k].parts /\ made[k].password = dec_pw /\ ~disturbed =>
            /\ dec_pc # "err"
            /\ dec_pc = "ok" => out = PlaintextOf(k)

\* What encrypting and decrypting mean to the user.
Archive == INSTANCE Archive
    WITH files   <- [k \in DOMAIN made |->
                        [password |-> made[k].password,
                         size |-> Len(made[k].parts) - 2]],
         reader  <- dec_pw,
         got     <- out,
         verdict <- IF dec_pc \in {"ok", "err"} THEN dec_pc ELSE "none"

\* Every step of decrypt_file, damage and rewriting under its eyes included,
\* yields more of one file of its password, returns, or yields nothing.
ImplementsArchive == Archive!Spec
=============================================================================
