-------------------------- MODULE ContainerProofs --------------------------
(***************************************************************************)
(* Theorems about Container, for every value of its constants: whatever is *)
(* stored, damaged or rewritten meanwhile, what decrypt_file yields is of  *)
(* one container made under the password given, and a whole container      *)
(* opens.                                                                  *)
(***************************************************************************)
EXTENDS Container, TLAPS

USE ContainerAssumption

-----------------------------------------------------------------------------
(* What the stored bytes can be.                                           *)

Headers == [magic : BOOLEAN, version : Nat, cipher : Nat, kdf : Nat,
            params : Nat, salt : Nat, dek_wrap_nonce : Nat, nonce : Nat,
            chunk_size : Nat, layout : Nat]

Wraps == [kek : [password : Passwords, salt : Nat], key : Nat, nonce : Nat,
          intact : BOOLEAN]

Seals == [key : Nat, nonce : Seq(Nat), aad : Headers \cup (Nat \X Nat),
          text : Nat \X Nat, intact : BOOLEAN]

Parts == Headers \cup Wraps \cup Seals

\* The k-th container: its parts under the key and random values named k.
IsStandard(k, r) ==
    /\ r.parts[1] = Header(k) /\ Len(r.parts) = 3
    /\ r.parts[3] = Seal(k, <<k>>, Header(k), <<k, 0>>)

IsStreaming(k, r) ==
    /\ r.parts[1] = StreamingHeader(k) /\ r.password \in Utf8Passwords
    /\ Len(r.parts) \in 2..(MaxChunks + 2)
    /\ \A i \in 3..Len(r.parts) :
          r.parts[i] = Seal(k, <<k, i - 3>>, <<i - 3, CHUNK_SIZE>>, <<k, i - 3>>)

IsContainer(k, r) ==
    /\ r \in [password : Passwords, parts : Seq(Parts)]
    /\ r.parts[2] = wrap_dek(derive_key(r.password, k), k, k)
    /\ IsStandard(k, r) \/ IsStreaming(k, r)

AllContainers(m) ==
    /\ m \in Seq([password : Passwords, parts : Seq(Parts)])
    /\ \A k \in DOMAIN m : IsContainer(k, m[k])

\* Part p, found at place i, is the i-th of a container made, or its ruin.
FromMade(m, p, i) ==
    \E k \in DOMAIN m : /\ i <= Len(m[k].parts)
                        /\ \/ p = m[k].parts[i]
                           \/ p = [m[k].parts[i] EXCEPT !.intact = FALSE]

\* Whatever is stored, every part but the header is one that was made for
\* its place, or cannot be authenticated.
Genuine(m, c) ==
    /\ c \in Seq(Parts)
    /\ c # <<>> => c[1] \in Headers
    /\ \A i \in 2..Len(c) : FromMade(m, c[i], i)

-----------------------------------------------------------------------------
(* Lemmas about containers.                                                *)

\* The elements of a concatenation.
LEMMA Joined ==
    ASSUME NEW S, NEW s \in Seq(S), NEW t \in Seq(S)
    PROVE  /\ s \o t \in Seq(S) /\ Len(s \o t) = Len(s) + Len(t)
           /\ \A i \in 1..Len(s) : (s \o t)[i] = s[i]
           /\ \A i \in (Len(s) + 1)..(Len(s) + Len(t)) :
                 (s \o t)[i] = t[i - Len(s)]
  OBVIOUS

\* The elements after an Append.
LEMMA Appended ==
    ASSUME NEW S, NEW s \in Seq(S), NEW e \in S
    PROVE  /\ Append(s, e) \in Seq(S) /\ Len(Append(s, e)) = Len(s) + 1
           /\ Append(s, e)[Len(s) + 1] = e
           /\ \A i \in 1..Len(s) : Append(s, e)[i] = s[i]
  OBVIOUS

\* Two sequences with the same elements are the same.
LEMMA SameElements ==
    ASSUME NEW S, NEW s \in Seq(S), NEW t \in Seq(S), Len(s) = Len(t),
           \A i \in 1..Len(s) : s[i] = t[i]
    PROVE  s = t
  OBVIOUS

\* The header of either format is a header.
LEMMA HeaderTypes ==
    ASSUME NEW k \in Nat
    PROVE  /\ Header(k) \in Headers /\ StreamingHeader(k) \in Headers
           /\ StreamingHeader(k)
                = [magic |-> TRUE, version |-> 2, cipher |-> 1, kdf |-> 1,
                   params |-> 1, salt |-> k, dek_wrap_nonce |-> k, nonce |-> k,
                   chunk_size |-> STREAMING_CHUNK_SIZE, layout |-> 2]
           /\ Header(k)
                = [magic |-> TRUE, version |-> 1, cipher |-> 1, kdf |-> 1,
                   params |-> 1, salt |-> k, dek_wrap_nonce |-> k, nonce |-> k,
                   chunk_size |-> 0, layout |-> 1]
<1>1. Header(k)
        = [magic |-> TRUE, version |-> 1, cipher |-> 1, kdf |-> 1,
           params |-> 1, salt |-> k, dek_wrap_nonce |-> k, nonce |-> k,
           chunk_size |-> 0, layout |-> 1]
  BY DEF Header, FORMAT_VERSION, Aes256Gcm, Argon2id, ARGON2_PARAMS
<1>2. StreamingHeader(k)
        = [magic |-> TRUE, version |-> 2, cipher |-> 1, kdf |-> 1,
           params |-> 1, salt |-> k, dek_wrap_nonce |-> k, nonce |-> k,
           chunk_size |-> STREAMING_CHUNK_SIZE, layout |-> 2]
  <2>1. StreamingHeader(k)
          = [[magic |-> TRUE, version |-> 1, cipher |-> 1, kdf |-> 1,
              params |-> 1, salt |-> k, dek_wrap_nonce |-> k, nonce |-> k,
              chunk_size |-> 0, layout |-> 1]
               EXCEPT !.version = 2, !.chunk_size = STREAMING_CHUNK_SIZE,
                      !.layout = 2]
    BY <1>1 DEF StreamingHeader, STREAMING_FORMAT_VERSION
  <2> QED
    BY <2>1
<1>3. Header(k) \in Headers
  BY <1>1 DEF Headers
<1>4. StreamingHeader(k) \in Headers
  BY <1>2 DEF Headers
<1> QED
  BY <1>1, <1>2, <1>3, <1>4

\* The wrapped key of the k-th container is a wrapped key.
LEMMA WrapType ==
    ASSUME NEW k \in Nat, NEW password \in Passwords
    PROVE  wrap_dek(derive_key(password, k), k, k) \in Wraps
  BY DEF wrap_dek, derive_key, Wraps

\* encrypt_file makes a v1 container.
LEMMA StandardMade ==
    ASSUME NEW k \in Nat, NEW password \in Passwords
    PROVE  IsContainer(k, [password |-> password,
                           parts |-> StandardContainer(password, k)])
<1> DEFINE c == StandardContainer(password, k)
           w == wrap_dek(derive_key(password, k), k, k)
           s == Seal(k, <<k>>, Header(k), <<k, 0>>)
<1>1. Header(k).salt = k /\ Header(k).dek_wrap_nonce = k /\ Header(k).nonce = k
  BY HeaderTypes
<1>2. c = <<Header(k), w, s>>
  BY <1>1 DEF StandardContainer, Fresh
<1>3. s \in Seals
  BY HeaderTypes DEF Seal, Seals
<1>4. w \in Wraps /\ Header(k) \in Headers
  BY WrapType, HeaderTypes
<1> HIDE DEF w, s, c
<1>5. c \in Seq(Parts) /\ Len(c) = 3 /\ c[1] = Header(k) /\ c[2] = w /\ c[3] = s
  BY <1>2, <1>3, <1>4 DEF Parts
<1> QED
  BY <1>5 DEF IsContainer, IsStandard, w, s, c

\* encrypt_file_streaming makes a v2 container, whole once it is written out.
LEMMA StreamingMade ==
    ASSUME NEW k \in Nat, NEW password \in Passwords, password \in Utf8Passwords,
           NEW n \in 0..MaxChunks
    PROVE  IsContainer(k, [password |-> password,
                           parts |-> StreamingContainer(password, k, n)])
<1> DEFINE c == StreamingContainer(password, k, n)
           w == wrap_dek(derive_key(password, k), k, k)
           t == [i \in 1..n |-> Seal(k, <<k, i - 1>>, <<i - 1, CHUNK_SIZE>>,
                                     <<k, i - 1>>)]
           h == <<StreamingHeader(k), w>>
<1>1. /\ StreamingHeader(k).salt = k /\ StreamingHeader(k).dek_wrap_nonce = k
      /\ StreamingHeader(k).nonce = k
  BY HeaderTypes
<1>2. c = h \o t
  BY <1>1 DEF StreamingContainer, Fresh
<1>3. ASSUME NEW i \in 1..n
      PROVE  Seal(k, <<k, i - 1>>, <<i - 1, CHUNK_SIZE>>, <<k, i - 1>>) \in Seals
  <2>1. i - 1 \in Nat
    OBVIOUS
  <2> QED
    BY <2>1 DEF Seal, Seals
<1>4. w \in Wraps /\ StreamingHeader(k) \in Headers
  BY WrapType, HeaderTypes
<1>5. t \in Seq(Parts) /\ Len(t) = n
  BY <1>3 DEF Parts
<1>6. h \in Seq(Parts) /\ Len(h) = 2 /\ h[1] = StreamingHeader(k) /\ h[2] = w
  BY <1>4 DEF Parts
<1>7. \A i \in 1..n : t[i] = Seal(k, <<k, i - 1>>, <<i - 1, CHUNK_SIZE>>,
                                  <<k, i - 1>>)
  OBVIOUS
<1> HIDE DEF w, t, c, h
<1>8. /\ c \in Seq(Parts) /\ Len(c) = n + 2
      /\ c[1] = StreamingHeader(k) /\ c[2] = w
      /\ \A i \in 3..(n + 2) : c[i] = t[i - 2]
  <2>0. /\ h \o t \in Seq(Parts) /\ Len(h \o t) = Len(h) + Len(t)
        /\ \A i \in 1..Len(h) : (h \o t)[i] = h[i]
        /\ \A i \in (Len(h) + 1)..(Len(h) + Len(t)) :
              (h \o t)[i] = t[i - Len(h)]
    BY <1>5, <1>6, Joined
  <2>1. /\ c \in Seq(Parts) /\ Len(c) = 2 + n
        /\ \A i \in 1..2 : c[i] = h[i]
        /\ \A i \in 3..(2 + n) : c[i] = t[i - 2]
    BY <2>0, <1>2, <1>5, <1>6
  <2> QED
    BY <1>6, <2>1
<1>9. \A i \in 3..(n + 2) :
         c[i] = Seal(k, <<k, i - 3>>, <<i - 3, CHUNK_SIZE>>, <<k, i - 3>>)
  <2> TAKE i \in 3..(n + 2)
  <2>1. i - 2 \in 1..n /\ (i - 2) - 1 = i - 3
    OBVIOUS
  <2> QED
    BY <1>7, <1>8, <2>1
<1>10. Len(c) \in 2..(MaxChunks + 2)
  BY <1>8
<1> QED
  BY <1>8, <1>9, <1>10 DEF IsContainer, IsStreaming, w, c

\* The types of the parts of a container, by place.
LEMMA PartTypes ==
    ASSUME NEW k \in Nat, NEW r, IsContainer(k, r)
    PROVE  /\ r.parts \in Seq(Parts) /\ Len(r.parts) \in Nat /\ Len(r.parts) >= 2
           /\ r.password \in Passwords
           /\ r.parts[1] \in Headers
           /\ r.parts[2] \in Wraps
           /\ \A i \in 3..Len(r.parts) :
                 /\ r.parts[i] \in Seals
                 /\ r.parts[i].key = k /\ r.parts[i].intact = TRUE
<1>1. r.parts \in Seq(Parts) /\ r.password \in Passwords
  BY DEF IsContainer
<1>2. r.parts[2] \in Wraps
  BY <1>1, WrapType DEF IsContainer
<1>3. CASE IsStandard(k, r)
  <2>1. r.parts[1] \in Headers /\ Len(r.parts) = 3
    BY <1>3, HeaderTypes DEF IsStandard
  <2>2. Seal(k, <<k>>, Header(k), <<k, 0>>) \in Seals
    BY HeaderTypes DEF Seal, Seals
  <2>3. /\ r.parts[3] = Seal(k, <<k>>, Header(k), <<k, 0>>)
        /\ r.parts[3].key = k /\ r.parts[3].intact = TRUE
    BY <1>3 DEF IsStandard, Seal
  <2>4. \A i \in 3..Len(r.parts) : i = 3
    BY <2>1
  <2> QED
    BY <1>1, <1>2, <2>1, <2>2, <2>3, <2>4
<1>4. CASE IsStreaming(k, r)
  <2>1. r.parts[1] \in Headers /\ Len(r.parts) \in 2..(MaxChunks + 2)
    BY <1>4, HeaderTypes DEF IsStreaming
  <2>2. ASSUME NEW i \in 3..Len(r.parts)
        PROVE  /\ r.parts[i] \in Seals
               /\ r.parts[i].key = k /\ r.parts[i].intact = TRUE
    <3>0. i \in Int /\ i >= 3
      BY <2>1
    <3>1. r.parts[i] = Seal(k, <<k, i - 3>>, <<i - 3, CHUNK_SIZE>>, <<k, i - 3>>)
      BY <1>4 DEF IsStreaming
    <3>2. i - 3 \in Nat
      BY <3>0
    <3>3. Seal(k, <<k, i - 3>>, <<i - 3, CHUNK_SIZE>>, <<k, i - 3>>) \in Seals
      BY <3>2 DEF Seal, Seals
    <3> QED
      BY <3>1, <3>3 DEF Seal
  <2> QED
    <3>1. Len(r.parts) \in Nat /\ Len(r.parts) >= 2
      BY <2>1
    <3> QED
      BY <1>1, <1>2, <2>1, <2>2, <3>1
<1> QED
  BY <1>3, <1>4 DEF IsContainer

\* The same of a container made.
LEMMA MadeTypes ==
    ASSUME NEW m, AllContainers(m), NEW k \in DOMAIN m
    PROVE  /\ k \in Nat /\ IsContainer(k, m[k])
           /\ m[k].parts \in Seq(Parts)
           /\ Len(m[k].parts) \in Nat /\ Len(m[k].parts) >= 2
           /\ m[k].password \in Passwords
           /\ m[k].parts[1] \in Headers
           /\ m[k].parts[2] \in Wraps
           /\ \A i \in 3..Len(m[k].parts) :
                 /\ m[k].parts[i] \in Seals
                 /\ m[k].parts[i].key = k /\ m[k].parts[i].intact = TRUE
<1>1. k \in Nat
  <2>1. m \in Seq([password : Passwords, parts : Seq(Parts)])
    BY DEF AllContainers
  <2> QED
    BY <2>1
<1>2. IsContainer(k, m[k])
  BY DEF AllContainers
<1> QED
  BY <1>1, <1>2, PartTypes

-----------------------------------------------------------------------------
(* Lemmas about what is stored.                                            *)

\* A part that can be authenticated is exactly what was made for its place.
LEMMA IntactPart ==
    ASSUME NEW m, AllContainers(m), NEW c, Genuine(m, c),
           NEW i \in 2..Len(c), c[i].intact
    PROVE  \E k \in DOMAIN m : i <= Len(m[k].parts) /\ c[i] = m[k].parts[i]
<1>1. PICK k \in DOMAIN m : /\ i <= Len(m[k].parts)
                            /\ \/ c[i] = m[k].parts[i]
                               \/ c[i] = [m[k].parts[i] EXCEPT !.intact = FALSE]
  BY DEF Genuine, FromMade
<1>3. m[k].parts[i] \in Wraps \/ m[k].parts[i] \in Seals
  <2>1. i = 2 \/ i \in 3..Len(m[k].parts)
    BY <1>1, MadeTypes DEF Genuine
  <2> QED
    BY <2>1, MadeTypes
<1>4. [m[k].parts[i] EXCEPT !.intact = FALSE].intact = FALSE
  BY <1>3 DEF Wraps, Seals
<1> QED
  BY <1>1, <1>4

\* Whatever follows the wrapped key was sealed under the container's own key.
LEMMA SealKeys ==
    ASSUME NEW m, AllContainers(m)
    PROVE  \A k \in DOMAIN m :
              \A i \in 3..Len(m[k].parts) : m[k].parts[i].key = k
<1> TAKE k \in DOMAIN m
<1>1. \A i \in 3..Len(m[k].parts) :
         /\ m[k].parts[i] \in Seals
         /\ m[k].parts[i].key = k /\ m[k].parts[i].intact = TRUE
  BY MadeTypes
<1> QED
  BY <1>1

\* A chunk or ciphertext that can be authenticated names its container.
LEMMA IntactSeal ==
    ASSUME NEW m, AllContainers(m), NEW c, Genuine(m, c),
           NEW i \in 3..Len(c), c[i].intact
    PROVE  /\ c[i].key \in DOMAIN m
           /\ i <= Len(m[c[i].key].parts)
           /\ c[i] = m[c[i].key].parts[i]
<1>0. i \in 2..Len(c) /\ i \in Nat
  BY DEF Genuine
<1>1. PICK k \in DOMAIN m : i <= Len(m[k].parts) /\ c[i] = m[k].parts[i]
  BY <1>0, IntactPart
<1>2. i \in 3..Len(m[k].parts)
  BY <1>0, <1>1, MadeTypes
<1>3. m[k].parts[i].key = k
  BY <1>2, SealKeys
<1> QED
  BY <1>1, <1>3

\* A wrapped key that can be authenticated names its container, which was
\* made under the password that opens it.
LEMMA IntactWrap ==
    ASSUME NEW m, AllContainers(m), NEW c, Genuine(m, c), Len(c) >= 2,
           c[2].intact
    PROVE  /\ c[2].key \in DOMAIN m
           /\ c[2] = m[c[2].key].parts[2]
           /\ c[2] = wrap_dek(derive_key(m[c[2].key].password, c[2].key),
                              c[2].key, c[2].key)
<1>0. 2 \in 2..Len(c)
  BY DEF Genuine
<1>1. PICK k \in DOMAIN m : c[2] = m[k].parts[2]
  BY <1>0, IntactPart
<1>2. m[k].parts[2] = wrap_dek(derive_key(m[k].password, k), k, k)
  BY DEF AllContainers, IsContainer
<1>3. m[k].parts[2].key = k
  BY <1>2 DEF wrap_dek
<1> QED
  BY <1>1, <1>2, <1>3

\* What is stored stays genuine when another container is made.
LEMMA GenuineGrows ==
    ASSUME NEW m, AllContainers(m), NEW r, NEW c, Genuine(m, c)
    PROVE  Genuine(Append(m, r), c)
<1>1. /\ \A k \in DOMAIN m : Append(m, r)[k] = m[k] /\ k \in DOMAIN Append(m, r)
  <2>1. m \in Seq([password : Passwords, parts : Seq(Parts)])
    BY DEF AllContainers
  <2> QED
    BY <2>1
<1> HIDE DEF Genuine
<1>2. \A i \in 2..Len(c) : FromMade(m, c[i], i) => FromMade(Append(m, r), c[i], i)
  BY <1>1 DEF FromMade
<1> QED
  BY <1>2 DEF Genuine

\* A container as it was made is genuine.
LEMMA GenuineWhole ==
    ASSUME NEW m, AllContainers(m), NEW k \in DOMAIN m
    PROVE  Genuine(m, m[k].parts)
<1>1. \A i \in 2..Len(m[k].parts) : FromMade(m, m[k].parts[i], i)
  BY MadeTypes DEF FromMade
<1> QED
  BY <1>1, MadeTypes DEF Genuine

\* Nothing, and the beginning of what is genuine, are genuine.
LEMMA GenuineEmpty ==
    ASSUME NEW m
    PROVE  Genuine(m, <<>>)
  BY DEF Genuine

LEMMA GenuinePrefix ==
    ASSUME NEW m, NEW c, Genuine(m, c), NEW n \in 0..Len(c)
    PROVE  Genuine(m, SubSeq(c, 1, n))
<1>1. c \in Seq(Parts)
  BY DEF Genuine
<1>2. /\ SubSeq(c, 1, n) \in Seq(Parts) /\ Len(SubSeq(c, 1, n)) = n
      /\ \A i \in 1..n : SubSeq(c, 1, n)[i] = c[i]
  BY <1>1
<1>3. n # 0 => SubSeq(c, 1, n)[1] \in Headers
  <2>1. ASSUME n # 0 PROVE c # <<>> /\ SubSeq(c, 1, n)[1] = c[1]
    BY <1>1, <1>2, <2>1
  <2> QED
    BY <2>1 DEF Genuine
<1>4. \A i \in 2..n : FromMade(m, SubSeq(c, 1, n)[i], i)
  <2> TAKE i \in 2..n
  <2>1. i \in 2..Len(c) /\ i \in 1..n
    BY <1>1
  <2> QED
    BY <1>2, <2>1 DEF Genuine
<1> QED
  BY <1>2, <1>3, <1>4 DEF Genuine

\* A header field changes: what is stored is still genuine.
LEMMA GenuineHeaderChanged ==
    ASSUME NEW m, NEW c, Genuine(m, c), c # <<>>,
           NEW f \in DOMAIN FieldValues, NEW v \in FieldValues[f]
    PROVE  Genuine(m, [c EXCEPT ![1] = [@ EXCEPT ![f] = v]])
<1> DEFINE h == [c[1] EXCEPT ![f] = v]
           d == [c EXCEPT ![1] = h]
<1>1. c \in Seq(Parts) /\ c[1] \in Headers /\ 1 \in DOMAIN c
  BY DEF Genuine
<1>2. h \in Headers
  <2>1. /\ f \in {"magic", "version", "cipher", "kdf", "params", "salt",
                  "dek_wrap_nonce", "nonce", "chunk_size"}
        /\ f = "magic" => v = FALSE
        /\ f # "magic" => v \in Nat
    <3>1. f \in {"magic", "version", "cipher", "kdf", "params", "salt",
                 "dek_wrap_nonce", "nonce", "chunk_size"}
      BY DEF FieldValues
    <3>2. CASE f = "magic"
      BY <3>2 DEF FieldValues
    <3>3. CASE f = "version"
      BY <3>3 DEF FieldValues
    <3>4. CASE f \in {"cipher", "kdf", "params", "salt", "dek_wrap_nonce", "nonce"}
      BY <3>4 DEF FieldValues
    <3>5. CASE f = "chunk_size"
      <4>1. v \in {0, CHUNK_SIZE, STREAMING_CHUNK_SIZE + 1}
        BY <3>5 DEF FieldValues
      <4> QED
        BY <3>5, <4>1
    <3> QED
      BY <3>1, <3>2, <3>3, <3>4, <3>5
  <2> QED
    BY <1>1, <2>1 DEF Headers
<1> HIDE DEF h
<1>3. /\ d \in Seq(Parts) /\ Len(d) = Len(c) /\ d[1] = h
      /\ \A i \in 2..Len(c) : d[i] = c[i]
  BY <1>1, <1>2 DEF Parts
<1>4. Genuine(m, d)
  BY <1>2, <1>3 DEF Genuine
<1> QED
  BY <1>4 DEF h

\* The bits of another part change.
LEMMA GenuinePartChanged ==
    ASSUME NEW m, AllContainers(m), NEW c, Genuine(m, c), NEW i \in 2..Len(c)
    PROVE  Genuine(m, [c EXCEPT ![i].intact = FALSE])
<1> DEFINE p == [c[i] EXCEPT !.intact = FALSE]
           d == [c EXCEPT ![i] = p]
<1>1. c \in Seq(Parts) /\ c[1] \in Headers /\ i \in DOMAIN c /\ 1 \in DOMAIN c /\ i # 1
  BY DEF Genuine
<1>2. PICK k \in DOMAIN m : /\ i <= Len(m[k].parts)
                            /\ \/ c[i] = m[k].parts[i]
                               \/ c[i] = [m[k].parts[i] EXCEPT !.intact = FALSE]
  BY DEF Genuine, FromMade
<1>3. m[k].parts[i] \in Wraps \/ m[k].parts[i] \in Seals
  <2>1. i = 2 \/ i \in 3..Len(m[k].parts)
    BY <1>1, <1>2, MadeTypes
  <2> QED
    BY <2>1, MadeTypes
<1>4. p = [m[k].parts[i] EXCEPT !.intact = FALSE]
  BY <1>2, <1>3 DEF Wraps, Seals
<1>5. p \in Parts
  BY <1>3, <1>4 DEF Wraps, Seals, Parts
<1>6. FromMade(m, p, i)
  BY <1>2, <1>4 DEF FromMade
<1> HIDE DEF p
<1>7. /\ d \in Seq(Parts) /\ Len(d) = Len(c) /\ d[i] = p /\ d[1] = c[1]
      /\ \A j \in 2..Len(c) : j # i => d[j] = c[j]
  BY <1>1, <1>5
<1>8. Genuine(m, d)
  BY <1>1, <1>6, <1>7 DEF Genuine
<1> QED
  BY <1>8 DEF p

\* From one place on the parts are those of another container.
LEMMA GenuineSpliced ==
    ASSUME NEW m, AllContainers(m), NEW c, Genuine(m, c),
           NEW n \in 1..Len(c), NEW k \in DOMAIN m
    PROVE  Genuine(m, SubSeq(c, 1, n)
                        \o SubSeq(m[k].parts, n + 1, Len(m[k].parts)))
<1> DEFINE a == SubSeq(c, 1, n)
           r == m[k].parts
           b == SubSeq(r, n + 1, Len(r))
<1>1. c \in Seq(Parts) /\ n \in Nat /\ n >= 1 /\ n <= Len(c) /\ Len(c) \in Nat
  BY DEF Genuine
<1>2. r \in Seq(Parts) /\ Len(r) \in Nat /\ Genuine(m, r)
  BY GenuineWhole DEF Genuine
<1>3. Genuine(m, a)
  BY <1>1, GenuinePrefix
<1>4. /\ a \in Seq(Parts) /\ Len(a) = n
      /\ \A i \in 1..n : a[i] = c[i]
  BY <1>1
<1> HIDE DEF r
<1>5. /\ b \in Seq(Parts)
      /\ Len(b) = IF n < Len(r) THEN Len(r) - n ELSE 0
      /\ \A i \in 1..Len(b) : b[i] = r[n + i]
  BY <1>1, <1>2
<1> HIDE DEF a, b
<1>6. /\ a \o b \in Seq(Parts) /\ Len(a \o b) = n + Len(b)
      /\ \A i \in 1..n : (a \o b)[i] = a[i]
      /\ \A i \in (n + 1)..(n + Len(b)) : (a \o b)[i] = b[i - n]
  <2>1. a \in Seq(Parts) /\ b \in Seq(Parts)
    BY <1>4, <1>5
  <2>2. /\ a \o b \in Seq(Parts) /\ Len(a \o b) = Len(a) + Len(b)
        /\ \A i \in 1..Len(a) : (a \o b)[i] = a[i]
        /\ \A i \in (Len(a) + 1)..(Len(a) + Len(b)) :
              (a \o b)[i] = b[i - Len(a)]
    BY <2>1, Joined
  <2> QED
    BY <2>2, <1>4
<1>7. ASSUME NEW i \in 2..Len(a \o b) PROVE FromMade(m, (a \o b)[i], i)
  <2>0. Len(b) \in Nat
    BY <1>5
  <2>1. CASE i <= n
    <3>1. i \in 1..n /\ i \in 2..Len(a)
      BY <2>1, <1>1, <1>4
    <3> QED
      BY <3>1, <1>3, <1>6 DEF Genuine
  <2>2. CASE i > n
    <3>1. i \in (n + 1)..(n + Len(b)) /\ i - n \in 1..Len(b)
      BY <2>0, <2>2, <1>1, <1>6
    <3>2. (a \o b)[i] = r[n + (i - n)] /\ n + (i - n) = i
      BY <3>1, <1>1, <1>5, <1>6
    <3>3. i \in 2..Len(r)
      BY <2>0, <3>1, <1>1, <1>2, <1>5
    <3> QED
      BY <3>2, <3>3, <1>2 DEF Genuine
  <2> QED
    BY <2>1, <2>2, <1>1
<1>8. (a \o b)[1] \in Headers
  <2>1. 1 \in 1..n /\ a # <<>>
    BY <1>1, <1>4
  <2> QED
    BY <2>1, <1>3, <1>6 DEF Genuine
<1>9. Genuine(m, a \o b)
  BY <1>6, <1>7, <1>8 DEF Genuine
<1> QED
  BY <1>9 DEF a, b, r

\* Damage leaves what is stored genuine.
LEMMA DamagedGenuine ==
    ASSUME AllContainers(made), NEW c, Genuine(made, c), c # <<>>,
           NEW d \in Damaged(c)
    PROVE  Genuine(made, d)
<1> DEFINE fields == UNION {{[c EXCEPT ![1] = [@ EXCEPT ![f] = v]] :
                               v \in FieldValues[f]} : f \in DOMAIN FieldValues}
           bits == {[c EXCEPT ![i].intact = FALSE] : i \in 2..Len(c)}
           cuts == {SubSeq(c, 1, n) : n \in 1..(Len(c) - 1)}
           splices == {SubSeq(c, 1, n)
                         \o SubSeq(made[k].parts, n + 1, Len(made[k].parts)) :
                           n \in 1..Len(c), k \in DOMAIN made}
<1>1. Damaged(c) = (((fields \cup bits) \cup cuts) \cup splices)
  BY SMT DEF Damaged
<1>2. ASSUME d \in fields PROVE Genuine(made, d)
  <2>1. PICK f \in DOMAIN FieldValues : \E v \in FieldValues[f] :
           d = [c EXCEPT ![1] = [@ EXCEPT ![f] = v]]
    BY <1>2
  <2>2. PICK v \in FieldValues[f] : d = [c EXCEPT ![1] = [@ EXCEPT ![f] = v]]
    BY <2>1
  <2> QED
    BY <2>2, GenuineHeaderChanged
<1>3. ASSUME d \in bits PROVE Genuine(made, d)
  <2>1. PICK i \in 2..Len(c) : d = [c EXCEPT ![i].intact = FALSE]
    BY <1>3
  <2> QED
    BY <2>1, GenuinePartChanged
<1>4. ASSUME d \in cuts PROVE Genuine(made, d)
  <2>1. PICK n \in 1..(Len(c) - 1) : d = SubSeq(c, 1, n)
    BY <1>4
  <2>2. n \in 0..Len(c)
    BY DEF Genuine
  <2> QED
    BY <2>1, <2>2, GenuinePrefix
<1>5. ASSUME d \in splices PROVE Genuine(made, d)
  <2>1. PICK n \in 1..Len(c), k \in DOMAIN made :
           d = SubSeq(c, 1, n)
                 \o SubSeq(made[k].parts, n + 1, Len(made[k].parts))
    BY <1>5
  <2> QED
    BY <2>1, GenuineSpliced
<1> HIDE DEF fields, bits, cuts, splices
<1> QED
  BY <1>1, <1>2, <1>3, <1>4, <1>5

-----------------------------------------------------------------------------
(* The inductive invariant.                                                *)

\* Only containers are made, and what is stored, open, being written or was
\* given to decrypt_file is genuine.
StoreInv ==
    /\ AllContainers(made)
    /\ Genuine(made, file) /\ Genuine(made, opened)
    /\ Genuine(made, writing) /\ Genuine(made, target)
    /\ writing # <<>> => Len(file) < Len(writing)

\* Where decrypt_file is, and what it has by then.
ModeInv ==
    /\ dec_pc \in {"idle", "detected", "header", "wrapped", "chunks", "ok", "err"}
    /\ dec_pw \in Passwords /\ format \in {0} \cup Detected
    /\ linked \in BOOLEAN /\ disturbed \in BOOLEAN
    /\ Len(made) <= MaxContainers /\ damage \in 0..MaxDamage
    /\ dec_pc = "idle" => target = <<>>
    /\ dec_pc \in {"detected", "ok"} => format \in Detected
    /\ dec_pc \in {"header", "wrapped", "chunks"}
          => format = STREAMING_FORMAT_VERSION
    /\ dec_pc \in {"idle", "detected", "header", "wrapped"} => out = <<>>
    /\ dec_pc = "wrapped" => read \in Seq(Parts) /\ Len(read) = 1

\* The key that was unwrapped says which container it is: all that was read
\* since is that container's, and so is the plaintext.
StreamRead ==
    /\ dek \in DOMAIN made /\ made[dek].password = dec_pw
    /\ read \in Seq(Parts) /\ out \in Seq(Nat \X Nat)
    /\ Len(read) = Len(out) + 2 /\ Len(read) <= Len(made[dek].parts)
    /\ read[1].salt = dek
    /\ \A i \in 2..Len(read) : read[i] = made[dek].parts[i]
    /\ \A i \in 1..Len(out) : out[i] = made[dek].parts[i + 2].text
    /\ out # <<>> => read[1].nonce = dek /\ IsStreaming(dek, made[dek])

\* A v1 container is read whole.
WholeRead ==
    \E k \in DOMAIN made : /\ made[k].password = dec_pw
                           /\ IsStandard(k, made[k])
                           /\ read = made[k].parts
                           /\ out = <<made[k].parts[3].text>>

ReadInv ==
    /\ dec_pc = "chunks" => StreamRead
    /\ dec_pc = "ok" /\ format = STREAMING_FORMAT_VERSION => StreamRead
    /\ dec_pc = "ok" /\ format = FORMAT_VERSION => WholeRead

\* As long as nobody has rewritten the path, the two handles and the bytes
\* read so far show what was stored when decrypt_file was called.
TripInv ==
    /\ dec_pc \in {"detected", "header", "wrapped", "chunks"} =>
          /\ target # <<>> /\ format = target[1].version
          /\ ~disturbed => writing = <<>> /\ file = target
    /\ dec_pc \in {"header", "wrapped", "chunks"} /\ ~disturbed => opened = target
    /\ dec_pc \in {"wrapped", "chunks"} /\ ~disturbed =>
          /\ Len(read) <= Len(target)
          /\ \A i \in 1..Len(read) : read[i] = target[i]

IInv == StoreInv /\ ModeInv /\ ReadInv /\ TripInv /\ RoundTrip

-----------------------------------------------------------------------------
(* What is made and stored.                                                *)

\* Another container joins those made.
LEMMA ContainerAdded ==
    ASSUME NEW m, AllContainers(m), NEW r, IsContainer(Len(m) + 1, r)
    PROVE  /\ AllContainers(Append(m, r))
           /\ Len(m) \in Nat /\ Len(Append(m, r)) = Len(m) + 1
           /\ DOMAIN Append(m, r) = DOMAIN m \cup {Len(m) + 1}
           /\ Append(m, r)[Len(m) + 1] = r
           /\ \A k \in DOMAIN m : Append(m, r)[k] = m[k] /\ k \in Nat /\ k <= Len(m)
<1>1. /\ m \in Seq([password : Passwords, parts : Seq(Parts)])
      /\ r \in [password : Passwords, parts : Seq(Parts)]
  BY DEF AllContainers, IsContainer
<1>2. /\ Append(m, r) \in Seq([password : Passwords, parts : Seq(Parts)])
      /\ Len(m) \in Nat /\ Len(Append(m, r)) = Len(m) + 1
      /\ DOMAIN Append(m, r) = DOMAIN m \cup {Len(m) + 1}
      /\ Append(m, r)[Len(m) + 1] = r
      /\ \A k \in DOMAIN m : Append(m, r)[k] = m[k] /\ k \in Nat /\ k <= Len(m)
  BY <1>1
<1>3. \A k \in DOMAIN Append(m, r) : IsContainer(k, Append(m, r)[k])
  BY <1>2 DEF AllContainers
<1> QED
  BY <1>2, <1>3 DEF AllContainers

\* The containers made by a step of encrypt_file or encrypt_file_streaming.
LEMMA StepMakes ==
    ASSUME IInv, [Next]_vars
    PROVE  \/ UNCHANGED made
           \/ \E r : /\ IsContainer(Len(made) + 1, r)
                     /\ made' = Append(made, r)
                     /\ Len(made) < MaxContainers
                     /\ UNCHANGED <<dec_pc, dec_pw, format, dek, read, out, target>>
                     /\ disturbed' = (disturbed \/ Decrypting)
<1>0. Len(made) + 1 \in Nat
  BY DEF IInv, StoreInv, AllContainers
<1>1. ASSUME NEW password \in Passwords, EncryptStandard(password)
      PROVE  \E r : /\ IsContainer(Len(made) + 1, r)
                    /\ made' = Append(made, r)
                    /\ Len(made) < MaxContainers
                    /\ UNCHANGED <<dec_pc, dec_pw, format, dek, read, out, target>>
                    /\ disturbed' = (disturbed \/ Decrypting)
  BY <1>0, <1>1, StandardMade DEF EncryptStandard, Stored
<1>2. ASSUME NEW password \in Utf8Passwords, EncryptStreaming(password)
      PROVE  \E r : /\ IsContainer(Len(made) + 1, r)
                    /\ made' = Append(made, r)
                    /\ Len(made) < MaxContainers
                    /\ UNCHANGED <<dec_pc, dec_pw, format, dek, read, out, target>>
                    /\ disturbed' = (disturbed \/ Decrypting)
  <2>1. PICK n \in 0..MaxChunks :
           made' = Append(made,
                     [password |-> password,
                      parts |-> StreamingContainer(password, Len(made) + 1, n)])
    BY <1>2 DEF EncryptStreaming
  <2>2. IsContainer(Len(made) + 1,
                    [password |-> password,
                     parts |-> StreamingContainer(password, Len(made) + 1, n)])
    BY <1>0, <1>2, StreamingMade
  <2> QED
    BY <1>2, <2>1, <2>2 DEF EncryptStreaming, Stored
<1>3. ASSUME \/ UNCHANGED vars \/ WritePart \/ WriterStops \/ Damage \/ DecDetect
             \/ DecStandard \/ DecOpenStreaming \/ DecHeader \/ DecWrapped
             \/ DecChunk \/ DecIoFails
      PROVE  UNCHANGED made
  BY <1>3 DEF vars, encVars, WritePart, WriterStops, Damage, DecDetect,
     DecStandard, DecOpenStreaming, DecHeader, DecWrapped, DecChunk, DecIoFails
<1> QED
  BY <1>1, <1>2, <1>3 DEF Next

\* What was made stays made, and what was genuine stays genuine.
LEMMA MadeGrows ==
    ASSUME IInv, [Next]_vars
    PROVE  /\ AllContainers(made')
           /\ \A k \in DOMAIN made : k \in DOMAIN made' /\ made'[k] = made[k]
           /\ \A c : Genuine(made, c) => Genuine(made', c)
<1>1. AllContainers(made)
  BY DEF IInv, StoreInv
<1>2. CASE UNCHANGED made
  BY <1>1, <1>2
<1>3. CASE \E r : /\ IsContainer(Len(made) + 1, r)
                  /\ made' = Append(made, r)
  <2>1. PICK r : /\ IsContainer(Len(made) + 1, r)
                 /\ made' = Append(made, r)
    BY <1>3
  <2>2. /\ AllContainers(Append(made, r))
        /\ \A k \in DOMAIN made :
              k \in DOMAIN Append(made, r) /\ Append(made, r)[k] = made[k]
    BY <1>1, <2>1, ContainerAdded
  <2>3. \A c : Genuine(made, c) => Genuine(Append(made, r), c)
    BY <1>1, GenuineGrows
  <2> QED
    BY <2>1, <2>2, <2>3
<1> QED
  BY <1>2, <1>3, StepMakes

\* A container just made, and any beginning of it, are genuine.
LEMMA NewGenuine ==
    ASSUME IInv, [Next]_vars, NEW r, IsContainer(Len(made) + 1, r),
           made' = Append(made, r)
    PROVE  Genuine(made', r.parts)
<1>1. AllContainers(made) /\ AllContainers(made')
  BY MadeGrows DEF IInv, StoreInv
<1>2. Len(made) + 1 \in DOMAIN made' /\ made'[Len(made) + 1] = r
  BY <1>1, ContainerAdded
<1>3. Genuine(made', made'[Len(made) + 1].parts)
  BY <1>1, <1>2, GenuineWhole
<1> QED
  BY <1>2, <1>3

\* A step that puts genuine bytes at the path leaves all that is open genuine.
LEMMA StoredGenuine ==
    ASSUME IInv, [Next]_vars, NEW c, NEW inPlace \in BOOLEAN,
           Stored(c, inPlace), Genuine(made', c), UNCHANGED target
    PROVE  /\ Genuine(made', file') /\ Genuine(made', opened')
           /\ Genuine(made', target')
<1>1. file' = c /\ opened' \in {c, opened}
  BY DEF Stored
<1>2. Genuine(made', opened) /\ Genuine(made', target)
  BY MadeGrows DEF IInv, StoreInv
<1> QED
  BY <1>1, <1>2

\* Only genuine bytes are ever stored or opened.
LEMMA StoreInvKept == IInv /\ [Next]_vars => StoreInv'
<1> SUFFICES ASSUME IInv, [Next]_vars PROVE StoreInv'
  OBVIOUS
<1>0. /\ AllContainers(made')
      /\ Genuine(made', file) /\ Genuine(made', opened)
      /\ Genuine(made', writing) /\ Genuine(made', target)
      /\ Genuine(made', <<>>)
      /\ writing # <<>> => Len(file) < Len(writing)
  BY MadeGrows, GenuineEmpty DEF IInv, StoreInv
<1>1. ASSUME NEW password \in Passwords, EncryptStandard(password) PROVE StoreInv'
  <2> DEFINE c == StandardContainer(password, Len(made) + 1)
             r == [password |-> password, parts |-> c]
  <2>1. /\ made' = Append(made, r) /\ Stored(c, FALSE)
        /\ UNCHANGED <<writing, target>> /\ writing = <<>>
    BY <1>1 DEF EncryptStandard
  <2>2. IsContainer(Len(made) + 1, r)
    <3>1. Len(made) + 1 \in Nat
      BY DEF IInv, StoreInv, AllContainers
    <3> QED
      BY <3>1, StandardMade
  <2>3. Genuine(made', r.parts) /\ r.parts = c
    BY <2>1, <2>2, NewGenuine
  <2> HIDE DEF c, r
  <2>4. Genuine(made', file') /\ Genuine(made', opened') /\ Genuine(made', target')
    BY <2>1, <2>3, StoredGenuine
  <2> QED
    BY <1>0, <2>1, <2>4 DEF StoreInv
<1>2. ASSUME NEW password \in Utf8Passwords, EncryptStreaming(password)
      PROVE  StoreInv'
  <2>1. PICK n \in 0..MaxChunks :
           /\ made' = Append(made,
                     [password |-> password,
                      parts |-> StreamingContainer(password, Len(made) + 1, n)])
           /\ writing' = StreamingContainer(password, Len(made) + 1, n)
    BY <1>2 DEF EncryptStreaming
  <2> DEFINE c == StreamingContainer(password, Len(made) + 1, n)
             r == [password |-> password, parts |-> c]
  <2>2. Stored(<<>>, TRUE) /\ UNCHANGED target
    BY <1>2 DEF EncryptStreaming
  <2>3. IsContainer(Len(made) + 1, r)
    <3>1. Len(made) + 1 \in Nat
      BY DEF IInv, StoreInv, AllContainers
    <3> QED
      BY <3>1, StreamingMade
  <2>4. Genuine(made', r.parts) /\ r.parts = c /\ Len(r.parts) >= 2
    <3>1. Len(made) + 1 \in Nat
      BY DEF IInv, StoreInv, AllContainers
    <3> QED
      BY <2>1, <2>3, <3>1, NewGenuine, PartTypes
  <2>5. writing' = c
    BY <2>1
  <2> HIDE DEF c, r
  <2>6. Genuine(made', file') /\ Genuine(made', opened') /\ Genuine(made', target')
    BY <1>0, <2>2, StoredGenuine
  <2>7. file' = <<>>
    BY <2>2 DEF Stored
  <2>8. Len(file') < Len(writing')
    BY <2>4, <2>5, <2>7
  <2> QED
    BY <1>0, <2>4, <2>5, <2>6, <2>8 DEF StoreInv
<1>3. ASSUME WritePart PROVE StoreInv'
  <2> DEFINE c == SubSeq(writing, 1, Len(file) + 1)
  <2>1. /\ writing # <<>> /\ Stored(c, TRUE) /\ UNCHANGED <<made, target>>
        /\ writing' = IF Len(c) = Len(writing) THEN <<>> ELSE writing
    BY <1>3 DEF WritePart
  <2>2. /\ writing \in Seq(Parts) /\ Len(writing) \in Nat /\ Len(file) \in Nat
        /\ Len(file) < Len(writing)
    BY <1>0, <2>1 DEF Genuine
  <2>3. Len(c) = Len(file) + 1 /\ Len(file) + 1 \in 0..Len(writing)
    BY <2>2
  <2>4. Genuine(made', c)
    BY <1>0, <2>3, GenuinePrefix
  <2> HIDE DEF c
  <2>5. Genuine(made', file') /\ Genuine(made', opened') /\ Genuine(made', target')
    BY <2>1, <2>4, StoredGenuine
  <2>6. file' = c
    BY <2>1 DEF Stored
  <2>7. writing' # <<>> => Len(file') < Len(writing')
    BY <2>1, <2>2, <2>3, <2>6
  <2> QED
    BY <1>0, <2>1, <2>5, <2>7 DEF StoreInv
<1>4. ASSUME WriterStops PROVE StoreInv'
  <2>1. writing' = <<>> /\ UNCHANGED <<file, opened, target>>
    BY <1>4 DEF WriterStops, decVars
  <2> QED
    BY <1>0, <2>1 DEF StoreInv
<1>5. ASSUME Damage PROVE StoreInv'
  <2>1. /\ file # <<>> /\ writing = <<>> /\ file' \in Damaged(file)
        /\ UNCHANGED <<made, writing, opened, target>>
    BY <1>5 DEF Damage, decVars
  <2>2. Genuine(made, file')
    BY <2>1, DamagedGenuine DEF IInv, StoreInv
  <2> QED
    BY <1>0, <2>1, <2>2 DEF StoreInv
<1>6. ASSUME \/ UNCHANGED vars \/ DecDetect \/ DecStandard \/ DecOpenStreaming
             \/ DecHeader \/ DecWrapped \/ DecChunk \/ DecIoFails
      PROVE  StoreInv'
  <2>1. /\ UNCHANGED <<file, writing>>
        /\ opened' \in {opened, file} /\ target' \in {target, file}
    BY <1>6 DEF vars, encVars, decVars, DecDetect, DecStandard, DecOpenStreaming,
       DecHeader, DecWrapped, DecChunk, DecIoFails
  <2> QED
    BY <1>0, <2>1 DEF StoreInv
<1> QED
  BY <1>1, <1>2, <1>3, <1>4, <1>5, <1>6 DEF Next

-----------------------------------------------------------------------------
(* Where decrypt_file is.                                                  *)

\* A step that stores something keeps ModeInv.
LEMMA ModeInvStore ==
    ASSUME ModeInv,
           UNCHANGED <<dec_pc, dec_pw, format, dek, read, out, target>>,
           linked' \in BOOLEAN, disturbed' \in BOOLEAN,
           Len(made') <= MaxContainers, damage' \in 0..MaxDamage
    PROVE  ModeInv'
  BY DEF ModeInv, Detected

\* decrypt_file goes on only with what the checks before have left.
LEMMA ModeInvKept == IInv /\ [Next]_vars => ModeInv'
<1> SUFFICES ASSUME IInv, [Next]_vars PROVE ModeInv'
  OBVIOUS
<1>0. /\ ModeInv /\ damage \in Nat /\ MaxDamage \in Nat /\ MaxContainers \in Nat
      /\ Len(made) \in Nat
      /\ Len(made) < MaxContainers => Len(made) + 1 <= MaxContainers
  BY DEF IInv, ModeInv, StoreInv, AllContainers
<1>1. ASSUME \/ \E password \in Passwords : EncryptStandard(password)
             \/ \E password \in Utf8Passwords : EncryptStreaming(password)
      PROVE  ModeInv'
  <2>1. /\ UNCHANGED <<dec_pc, dec_pw, format, dek, read, out, target, damage>>
        /\ linked' \in BOOLEAN /\ disturbed' \in BOOLEAN
    BY <1>0, <1>1 DEF EncryptStandard, EncryptStreaming, Stored, ModeInv, Decrypting
  <2>2. Len(made') <= MaxContainers
    <3>1. CASE UNCHANGED made
      BY <1>0, <3>1 DEF ModeInv
    <3>2. CASE \E r : /\ IsContainer(Len(made) + 1, r)
                      /\ made' = Append(made, r)
                      /\ Len(made) < MaxContainers
      <4>1. PICK r : /\ IsContainer(Len(made) + 1, r)
                     /\ made' = Append(made, r)
                     /\ Len(made) < MaxContainers
        BY <3>2
      <4>2. Len(made') = Len(made) + 1
        BY <4>1, ContainerAdded DEF IInv, StoreInv
      <4> QED
        BY <1>0, <4>1, <4>2
    <3> QED
      BY <3>1, <3>2, StepMakes
  <2> QED
    BY <1>0, <2>1, <2>2, ModeInvStore DEF ModeInv
<1>2. ASSUME WritePart \/ WriterStops PROVE ModeInv'
  <2>1. /\ UNCHANGED <<dec_pc, dec_pw, format, dek, read, out, target, damage, made>>
        /\ linked' \in BOOLEAN /\ disturbed' \in BOOLEAN
    BY <1>0, <1>2 DEF WritePart, WriterStops, Stored, decVars, ModeInv, Decrypting
  <2> QED
    BY <1>0, <2>1, ModeInvStore DEF ModeInv
<1>3. ASSUME Damage PROVE ModeInv'
  <2>1. /\ UNCHANGED <<dec_pc, dec_pw, format, dek, read, out, target, made,
                       linked, disturbed>>
        /\ damage' \in 0..MaxDamage
    BY <1>0, <1>3 DEF Damage, decVars
  <2> QED
    BY <1>0, <2>1, ModeInvStore DEF ModeInv
<1>4. ASSUME UNCHANGED vars PROVE ModeInv'
  BY <1>0, <1>4, ModeInvStore DEF ModeInv, vars, encVars, decVars
<1>5. ASSUME DecDetect PROVE ModeInv'
  BY <1>0, <1>5 DEF ModeInv, DecDetect, DecFails, encVars, Detected
<1>6. ASSUME DecStandard PROVE ModeInv'
  BY <1>0, <1>6 DEF ModeInv, DecStandard, DecFails, encVars, Detected
<1>7. ASSUME DecOpenStreaming PROVE ModeInv'
  BY <1>0, <1>7 DEF ModeInv, DecOpenStreaming, DecFails, encVars, Detected
<1>8. ASSUME DecHeader PROVE ModeInv'
  <2>1. opened # <<>> => <<opened[1]>> \in Seq(Parts) /\ Len(<<opened[1]>>) = 1
    BY DEF IInv, StoreInv, Genuine, Parts
  <2> QED
    BY <1>0, <1>8, <2>1 DEF ModeInv, DecHeader, DecFails, encVars, Detected
<1>9. ASSUME DecWrapped PROVE ModeInv'
  BY <1>0, <1>9 DEF ModeInv, DecWrapped, DecFails, encVars, Detected
<1>10. ASSUME DecChunk PROVE ModeInv'
  <2>1. /\ dec_pc = "chunks" /\ dec_pc' \in {"chunks", "ok", "err"}
        /\ UNCHANGED <<dec_pw, format, linked, disturbed, made, damage, target>>
    BY <1>10 DEF DecChunk, DecFails, encVars
  <2> QED
    BY <1>0, <2>1 DEF ModeInv, Detected
<1>11. ASSUME DecIoFails PROVE ModeInv'
  BY <1>0, <1>11 DEF ModeInv, DecIoFails, DecFails, encVars, Detected
<1> QED
  BY <1>1, <1>2, <1>3, <1>4, <1>5, <1>6, <1>7, <1>8, <1>9, <1>10, <1>11 DEF Next

-----------------------------------------------------------------------------
(* What decrypt_file has read.                                             *)

\* The two kinds of ciphertext cannot be taken for each other.
LEMMA NonceLengths ==
    ASSUME NEW a, NEW b, NEW c
    PROVE  <<a>> # <<b, c>>
<1>1. Len(<<a>>) = 1 /\ Len(<<b, c>>) = 2
  OBVIOUS
<1> QED
  BY <1>1

\* What was read stays what was made.
LEMMA ReadInvUntouched ==
    ASSUME IInv, [Next]_vars, UNCHANGED <<dec_pc, dec_pw, format, dek, read, out>>
    PROVE  ReadInv'
<1>1. \A k \in DOMAIN made : k \in DOMAIN made' /\ made'[k] = made[k]
  BY MadeGrows
<1>2. StreamRead => StreamRead'
  BY <1>1 DEF StreamRead
<1>3. WholeRead => WholeRead'
  BY <1>1 DEF WholeRead
<1> QED
  BY <1>2, <1>3 DEF ReadInv, IInv

\* decrypt_standard_file accepts nothing but a whole container.
LEMMA StandardReads ==
    ASSUME IInv, DecodeContainer(file), DecryptOk(file, dec_pw)
    PROVE  \E k \in DOMAIN made : /\ made[k].password = dec_pw
                                  /\ IsStandard(k, made[k])
                                  /\ file = made[k].parts
<1> DEFINE k == file[2].key
<1>1. AllContainers(made) /\ Genuine(made, file) /\ file \in Seq(Parts)
  BY DEF IInv, StoreInv, Genuine
<1>2. /\ Len(file) = 3
      /\ file[2].intact /\ file[2].kek = derive_key(dec_pw, file[1].salt)
      /\ file[3].intact /\ file[3].key = k
      /\ file[3].nonce = <<file[1].nonce>> /\ file[3].aad = file[1]
  BY DEF DecryptOk, UnwrapOk, OpenOk
<1>3. /\ k \in DOMAIN made
      /\ file[2] = made[k].parts[2]
      /\ file[2] = wrap_dek(derive_key(made[k].password, k), k, k)
  BY <1>1, <1>2, IntactWrap
<1>4. made[k].password = dec_pw
  <2>1. derive_key(dec_pw, file[1].salt) = derive_key(made[k].password, k)
    BY <1>2, <1>3 DEF wrap_dek
  <2> QED
    BY <2>1 DEF derive_key
<1>5. 3 <= Len(made[k].parts) /\ file[3] = made[k].parts[3]
  <2>1. 3 \in 3..Len(file)
    BY <1>2
  <2> QED
    BY <1>1, <1>2, <2>1, IntactSeal
<1> HIDE DEF k
<1>6. /\ IsContainer(k, made[k])
      /\ made[k].parts \in Seq(Parts) /\ Len(made[k].parts) \in Nat
  BY <1>1, <1>3, MadeTypes
<1>7. IsStandard(k, made[k])
  <2>1. ASSUME IsStreaming(k, made[k]) PROVE FALSE
    <3>1. 3 \in 3..Len(made[k].parts)
      BY <1>5, <1>6
    <3>2. made[k].parts[3]
            = Seal(k, <<k, 3 - 3>>, <<3 - 3, CHUNK_SIZE>>, <<k, 3 - 3>>)
      BY <2>1, <3>1 DEF IsStreaming
    <3>3. file[3].nonce = <<k, 3 - 3>>
      BY <1>5, <3>2 DEF Seal
    <3> QED
      BY <1>2, <3>3, NonceLengths
  <2> QED
    BY <1>6, <2>1 DEF IsContainer
<1>8. file[1] = made[k].parts[1] /\ Len(made[k].parts) = 3
  BY <1>2, <1>5, <1>7 DEF IsStandard, Seal
<1>9. file = made[k].parts
  <2>1. \A i \in 1..3 : file[i] = made[k].parts[i]
    <3>1. \A i \in 1..3 : i = 1 \/ i = 2 \/ i = 3
      OBVIOUS
    <3> QED
      BY <3>1, <1>3, <1>5, <1>8
  <2>2. Len(file) = 3 /\ Len(made[k].parts) = 3
    BY <1>2, <1>8
  <2> QED
    BY <1>1, <1>6, <2>1, <2>2
<1> QED
  BY <1>3, <1>4, <1>7, <1>9

\* The key that decrypt_file_streaming unwraps is that of a container made
\* under the password given, whichever header stands before it.
LEMMA WrappedReads ==
    ASSUME IInv, dec_pc = "wrapped", Len(opened) >= 2,
           UnwrapOk(read[1], opened[2], dec_pw),
           read' = Append(read, opened[2]), dek' = opened[2].key,
           UNCHANGED <<made, dec_pw, out>>
    PROVE  StreamRead'
<1> DEFINE k == opened[2].key
<1>1. /\ AllContainers(made) /\ Genuine(made, opened) /\ opened \in Seq(Parts)
      /\ read \in Seq(Parts) /\ Len(read) = 1 /\ out = <<>>
  BY DEF IInv, StoreInv, Genuine, ModeInv
<1>2. /\ opened[2].intact
      /\ opened[2].kek = derive_key(dec_pw, read[1].salt)
  BY DEF UnwrapOk
<1>3. /\ k \in DOMAIN made
      /\ opened[2] = made[k].parts[2]
      /\ opened[2] = wrap_dek(derive_key(made[k].password, k), k, k)
  BY <1>1, <1>2, IntactWrap
<1>4. made[k].password = dec_pw /\ read[1].salt = k
  <2>1. derive_key(dec_pw, read[1].salt) = derive_key(made[k].password, k)
    BY <1>2, <1>3 DEF wrap_dek
  <2> QED
    BY <2>1 DEF derive_key
<1>5. Len(made[k].parts) \in Nat /\ Len(made[k].parts) >= 2
  BY <1>1, <1>3, MadeTypes
<1>6. opened[2] \in Parts
  BY <1>1
<1> HIDE DEF k
<1>7. /\ read' \in Seq(Parts) /\ Len(read') = 2
      /\ read'[1] = read[1] /\ read'[2] = opened[2]
  <2>1. read \in Seq(Parts)
    BY <1>1
  <2>2. /\ read' \in Seq(Parts) /\ Len(read') = Len(read) + 1
        /\ read'[Len(read) + 1] = opened[2]
        /\ \A i \in 1..Len(read) : read'[i] = read[i]
    BY <1>6, <2>1, Appended
  <2>3. Len(read) = 1
    BY <1>1
  <2> QED
    BY <2>2, <2>3
<1>8. dek' = k /\ out' = <<>> /\ made' = made /\ dec_pw' = dec_pw
  BY <1>1 DEF k
<1>9. \A i \in 2..Len(read') : read'[i] = made'[dek'].parts[i]
  <2>1. \A i \in 2..Len(read') : i = 2
    BY <1>7
  <2> QED
    BY <2>1, <1>3, <1>7, <1>8
<1>10. /\ out' \in Seq(Nat \X Nat) /\ Len(out') = 0
       /\ \A i \in 1..Len(out') : out'[i] = made'[dek'].parts[i + 2].text
  BY <1>8
<1>11. /\ dek' \in DOMAIN made' /\ made'[dek'].password = dec_pw'
       /\ read'[1].salt = dek' /\ Len(made'[dek'].parts) \in Nat
       /\ Len(made'[dek'].parts) >= 2
  BY <1>3, <1>4, <1>5, <1>7, <1>8
<1>12. Len(read') = Len(out') + 2 /\ Len(read') <= Len(made'[dek'].parts)
  BY <1>7, <1>10, <1>11
<1> QED
  BY <1>7, <1>8, <1>9, <1>10, <1>11, <1>12, Zenon DEF StreamRead

\* A chunk that decrypt_stream accepts is the next one of that container.
LEMMA ChunkReads ==
    ASSUME IInv, dec_pc = "chunks", Len(opened) > Len(read), NEW c,
           c = opened[Len(read) + 1],
           OpenOk(c, dek, <<read[1].nonce, NextIndex>>, <<NextIndex, CHUNK_SIZE>>),
           read' = Append(read, c), out' = Append(out, c.text),
           UNCHANGED <<made, dec_pw, dek>>
    PROVE  StreamRead'
<1>1. /\ AllContainers(made) /\ Genuine(made, opened) /\ opened \in Seq(Parts)
      /\ StreamRead
  BY DEF IInv, StoreInv, Genuine, ReadInv
<1>2. /\ dek \in DOMAIN made /\ made[dek].password = dec_pw
      /\ read \in Seq(Parts) /\ out \in Seq(Nat \X Nat)
      /\ Len(read) \in Nat /\ Len(out) \in Nat /\ Len(read) = Len(out) + 2
      /\ \A i \in 2..Len(read) : read[i] = made[dek].parts[i]
      /\ \A i \in 1..Len(out) : out[i] = made[dek].parts[i + 2].text
  BY <1>1 DEF StreamRead
<1> DEFINE i == Len(read) + 1
<1>3. i \in 3..Len(opened) /\ i \in Nat /\ i = Len(out) + 3
  BY <1>1, <1>2
<1>4. c.intact /\ c.key = dek /\ c.nonce = <<read[1].nonce, NextIndex>>
  BY DEF OpenOk
<1>5. i <= Len(made[dek].parts) /\ c = made[dek].parts[i]
  <2>1. opened[i].intact /\ opened[i].key = dek
    BY <1>4
  <2> QED
    BY <1>1, <1>3, <2>1, IntactSeal
<1>6. /\ IsContainer(dek, made[dek])
      /\ Len(made[dek].parts) \in Nat
      /\ i \in 3..Len(made[dek].parts)
  <2>1. IsContainer(dek, made[dek]) /\ Len(made[dek].parts) \in Nat
    BY <1>1, <1>2, MadeTypes
  <2> QED
    BY <2>1, <1>3, <1>5
<1>7. c \in Seals
  <2>1. \A j \in 3..Len(made[dek].parts) : made[dek].parts[j] \in Seals
    <3>1. \A j \in 3..Len(made[dek].parts) :
             /\ made[dek].parts[j] \in Seals
             /\ made[dek].parts[j].key = dek
             /\ made[dek].parts[j].intact = TRUE
      BY <1>1, <1>2, MadeTypes
    <3> QED
      BY <3>1
  <2> QED
    BY <1>5, <1>6, <2>1
<1> HIDE DEF i
<1>8. IsStreaming(dek, made[dek]) /\ read[1].nonce = dek
  <2>1. ASSUME IsStandard(dek, made[dek]) PROVE FALSE
    <3>1. i = 3
      BY <1>3, <1>6, <2>1 DEF IsStandard
    <3>2. c.nonce = <<dek>>
      BY <1>5, <2>1, <3>1 DEF IsStandard, Seal
    <3> QED
      BY <1>4, <3>2, NonceLengths
  <2>2. IsStreaming(dek, made[dek])
    BY <1>6, <2>1 DEF IsContainer
  <2>3. c.nonce = <<dek, i - 3>>
    <3>1. made[dek].parts[i]
            = Seal(dek, <<dek, i - 3>>, <<i - 3, CHUNK_SIZE>>, <<dek, i - 3>>)
      BY <1>6, <2>2 DEF IsStreaming
    <3> QED
      BY <1>5, <3>1 DEF Seal
  <2> QED
    BY <1>4, <2>2, <2>3
<1>9. c \in Parts /\ c.text \in Nat \X Nat
  BY <1>7 DEF Parts, Seals
<1>10. /\ read' \in Seq(Parts) /\ Len(read') = i /\ read'[i] = c
       /\ \A j \in 1..Len(read) : read'[j] = read[j]
  BY <1>2, <1>9 DEF i
<1>11. /\ out' \in Seq(Nat \X Nat) /\ Len(out') = Len(out) + 1
       /\ out'[Len(out) + 1] = c.text
       /\ \A j \in 1..Len(out) : out'[j] = out[j]
  BY <1>2, <1>9
<1>12. /\ read'[1] = read[1] /\ read[1].salt = dek
       /\ Len(read') = Len(out') + 2 /\ Len(read') <= Len(made[dek].parts)
  BY <1>1, <1>2, <1>3, <1>5, <1>10, <1>11 DEF StreamRead
<1>13. \A j \in 2..Len(read') : read'[j] = made[dek].parts[j]
  <2> TAKE j \in 2..Len(read')
  <2>1. j \in 2..Len(read) \/ j = i
    BY <1>2, <1>10 DEF i
  <2>2. j \in 2..Len(read) => j \in 1..Len(read)
    BY <1>2
  <2> QED
    BY <1>2, <1>5, <1>10, <2>1, <2>2
<1>14. \A j \in 1..Len(out') : out'[j] = made[dek].parts[j + 2].text
  <2> TAKE j \in 1..Len(out')
  <2>1. j \in 1..Len(out) \/ (j = Len(out) + 1 /\ j + 2 = i)
    BY <1>2, <1>3, <1>11
  <2> QED
    BY <1>2, <1>5, <1>11, <2>1
<1> QED
  BY <1>2, <1>8, <1>10, <1>11, <1>12, <1>13, <1>14 DEF StreamRead

\* Every step keeps what is known of what was read.
LEMMA ReadInvKept == IInv /\ [Next]_vars => ReadInv'
<1> SUFFICES ASSUME IInv, [Next]_vars PROVE ReadInv'
  OBVIOUS
<1>0. ReadInv /\ ModeInv
  BY DEF IInv
<1>1. CASE \/ \E password \in Passwords : EncryptStandard(password)
           \/ \E password \in Utf8Passwords : EncryptStreaming(password)
           \/ WritePart \/ WriterStops \/ Damage \/ UNCHANGED vars
  <2>1. UNCHANGED <<dec_pc, dec_pw, format, dek, read, out>>
    BY <1>1 DEF EncryptStandard, EncryptStreaming, WritePart, WriterStops,
       Damage, vars, decVars
  <2> QED
    BY <2>1, ReadInvUntouched
<1>2. CASE \/ DecDetect \/ DecOpenStreaming \/ DecHeader \/ DecIoFails
  <2>1. dec_pc' \in {"err", "detected", "header", "wrapped"}
    BY <1>2 DEF DecDetect, DecOpenStreaming, DecHeader, DecIoFails, DecFails
  <2> QED
    BY <2>1 DEF ReadInv
<1>3. CASE DecStandard
  <2>1. CASE dec_pc' = "err"
    BY <2>1 DEF ReadInv
  <2>2. CASE dec_pc' # "err"
    <3>1. /\ DecodeContainer(file) /\ DecryptOk(file, dec_pw)
          /\ dec_pc' = "ok" /\ format = FORMAT_VERSION
          /\ read' = file /\ out' = <<file[3].text>>
          /\ UNCHANGED <<made, dec_pw, format>>
      BY <1>3, <2>2 DEF DecStandard, DecFails, encVars
    <3>2. PICK k \in DOMAIN made : /\ made[k].password = dec_pw
                                   /\ IsStandard(k, made[k])
                                   /\ file = made[k].parts
      BY <3>1, StandardReads
    <3>3. WholeRead'
      BY <3>1, <3>2 DEF WholeRead
    <3> QED
      BY <3>1, <3>3 DEF ReadInv, FORMAT_VERSION, STREAMING_FORMAT_VERSION
  <2> QED
    BY <2>1, <2>2
<1>4. CASE DecWrapped
  <2>1. CASE dec_pc' = "err"
    BY <2>1 DEF ReadInv
  <2>2. CASE dec_pc' # "err"
    <3>1. /\ dec_pc = "wrapped" /\ dec_pc' = "chunks"
          /\ Len(opened) >= 2 /\ UnwrapOk(read[1], opened[2], dec_pw)
          /\ read' = Append(read, opened[2]) /\ dek' = opened[2].key
          /\ UNCHANGED <<made, dec_pw, out>>
      BY <1>4, <2>2 DEF DecWrapped, DecFails, encVars
    <3> QED
      BY <3>1, WrappedReads DEF ReadInv
  <2> QED
    BY <2>1, <2>2
<1>5. CASE DecChunk
  <2>0. /\ dec_pc = "chunks" /\ format = STREAMING_FORMAT_VERSION /\ StreamRead
        /\ UNCHANGED <<made, dec_pw, format, dek>>
    BY <1>0, <1>5 DEF DecChunk, ReadInv, ModeInv, encVars
  <2>1. CASE dec_pc' = "err"
    BY <2>1 DEF ReadInv
  <2>2. CASE UNCHANGED <<read, out>>
    <3>1. StreamRead'
      BY <2>0, <2>2 DEF StreamRead
    <3> QED
      BY <2>0, <3>1 DEF ReadInv, FORMAT_VERSION, STREAMING_FORMAT_VERSION
  <2>3. CASE dec_pc' # "err" /\ ~UNCHANGED <<read, out>>
    <3> DEFINE c == opened[Len(read) + 1]
    <3>1. /\ Len(opened) > Len(read)
          /\ OpenOk(c, dek, <<read[1].nonce, NextIndex>>, <<NextIndex, CHUNK_SIZE>>)
          /\ read' = Append(read, c) /\ out' = Append(out, c.text)
      BY <1>5, <2>3 DEF DecChunk, DecFails
    <3>2. StreamRead'
      BY <2>0, <3>1, ChunkReads
    <3> QED
      BY <2>0, <3>2 DEF ReadInv, FORMAT_VERSION, STREAMING_FORMAT_VERSION
  <2> QED
    BY <2>1, <2>2, <2>3
<1> QED
  BY <1>1, <1>2, <1>3, <1>4, <1>5 DEF Next

-----------------------------------------------------------------------------
(* What was stored when decrypt_file was called.                           *)

\* Every step keeps what an undisturbed call has seen.
LEMMA TripInvKept == IInv /\ [Next]_vars => TripInv'
<1> SUFFICES ASSUME IInv, [Next]_vars PROVE TripInv'
  OBVIOUS
<1>0. TripInv /\ ModeInv
  BY DEF IInv
<1>1. CASE \/ \E password \in Passwords : EncryptStandard(password)
           \/ \E password \in Utf8Passwords : EncryptStreaming(password)
           \/ WritePart
  <2>1. /\ UNCHANGED <<dec_pc, format, target>>
        /\ disturbed' = (disturbed \/ Decrypting)
    BY <1>1 DEF EncryptStandard, EncryptStreaming, WritePart, Stored
  <2>2. dec_pc \in {"detected", "header", "wrapped", "chunks"} => disturbed'
    BY <2>1 DEF Decrypting
  <2> QED
    BY <1>0, <2>1, <2>2 DEF TripInv
<1>2. CASE WriterStops
  <2>1. writing # <<>> /\ UNCHANGED decVars
    BY <1>2 DEF WriterStops
  <2> QED
    BY <1>0, <2>1 DEF TripInv, decVars
<1>3. CASE Damage
  <2>1. dec_pc' \notin {"detected", "header", "wrapped", "chunks"}
    BY <1>3 DEF Damage, Decrypting, decVars
  <2> QED
    BY <2>1 DEF TripInv
<1>4. CASE UNCHANGED vars
  BY <1>0, <1>4 DEF TripInv, vars, encVars, decVars
<1>5. CASE DecDetect
  BY <1>5 DEF DecDetect, DecFails, TripInv, encVars
<1>6. CASE DecStandard
  <2>1. dec_pc' \in {"ok", "err"}
    BY <1>6 DEF DecStandard, DecFails
  <2> QED
    BY <2>1 DEF TripInv
<1>7. CASE DecOpenStreaming
  BY <1>0, <1>7 DEF DecOpenStreaming, DecFails, TripInv, encVars
<1>8. CASE DecHeader
  <2>0. UNCHANGED <<file, writing, format, opened, target, disturbed>>
    BY <1>8 DEF DecHeader, encVars
  <2>1. CASE dec_pc' = "err"
    BY <2>1 DEF TripInv
  <2>2. CASE dec_pc' # "err"
    <3>1. /\ dec_pc = "header" /\ dec_pc' = "wrapped" /\ read' = <<opened[1]>>
      BY <1>8, <2>2 DEF DecHeader, DecFails
    <3>2. target \in Seq(Parts) /\ target # <<>>
      BY <1>0, <3>1 DEF IInv, StoreInv, Genuine, TripInv
    <3>3. Len(read') <= Len(target) /\ \A i \in 1..Len(read') : i = 1
      BY <3>1, <3>2
    <3>4. read'[1] = opened[1]
      BY <3>1
    <3>5. ~disturbed => \A i \in 1..Len(read') : read'[i] = target[i]
      BY <1>0, <3>1, <3>3, <3>4 DEF TripInv
    <3> QED
      BY <1>0, <2>0, <3>1, <3>3, <3>5 DEF TripInv
  <2> QED
    BY <2>1, <2>2
<1>9. ASSUME dec_pc \in {"wrapped", "chunks"}, Len(opened) > Len(read),
             read \in Seq(Parts), dec_pc' = "chunks",
             read' = Append(read, opened[Len(read) + 1]),
             UNCHANGED <<file, writing, format, opened, target, disturbed>>
      PROVE  TripInv'
  <2>1. opened \in Seq(Parts)
    BY DEF IInv, StoreInv, Genuine
  <2>2. /\ opened[Len(read) + 1] \in Parts
        /\ Len(read) + 1 <= Len(opened) /\ Len(read) \in Nat
    BY <1>9, <2>1
  <2>3. /\ Len(read') = Len(read) + 1
        /\ read'[Len(read) + 1] = opened[Len(read) + 1]
        /\ \A i \in 1..Len(read) : read'[i] = read[i]
    BY <1>9, <2>2, Appended
  <2>4. ASSUME ~disturbed
        PROVE  /\ Len(read') <= Len(target)
               /\ \A i \in 1..Len(read') : read'[i] = target[i]
    <3>1. opened = target /\ \A i \in 1..Len(read) : read[i] = target[i]
      BY <1>0, <1>9, <2>4 DEF TripInv
    <3>2. \A i \in 1..Len(read') : i \in 1..Len(read) \/ i = Len(read) + 1
      BY <2>2, <2>3
    <3> QED
      BY <2>2, <2>3, <3>1, <3>2
  <2> QED
    BY <1>0, <1>9, <2>4 DEF TripInv
<1>10. CASE DecWrapped
  <2>1. CASE dec_pc' = "err"
    BY <2>1 DEF TripInv
  <2>2. CASE dec_pc' # "err"
    <3>1. /\ dec_pc = "wrapped" /\ dec_pc' = "chunks" /\ Len(opened) >= 2
          /\ read' = Append(read, opened[2])
          /\ UNCHANGED <<file, writing, format, opened, target, disturbed>>
      BY <1>10, <2>2 DEF DecWrapped, DecFails, encVars
    <3>2. read \in Seq(Parts) /\ Len(read) = 1
      BY <1>0, <3>1 DEF ModeInv
    <3>3. opened \in Seq(Parts)
      BY DEF IInv, StoreInv, Genuine
    <3>4. Len(read) + 1 = 2 /\ Len(opened) > Len(read)
      BY <3>1, <3>2, <3>3
    <3> QED
      BY <1>9, <3>1, <3>2, <3>4
  <2> QED
    BY <2>1, <2>2
<1>11. CASE DecChunk
  <2>0. /\ dec_pc = "chunks" /\ dec_pc' \in {"chunks", "ok", "err"}
        /\ UNCHANGED <<file, writing, format, opened, target, disturbed>>
    BY <1>11 DEF DecChunk, DecFails, encVars
  <2>1. CASE dec_pc' # "chunks"
    BY <2>0, <2>1 DEF TripInv
  <2>2. CASE dec_pc' = "chunks"
    <3>1. /\ Len(opened) > Len(read)
          /\ read' = Append(read, opened[Len(read) + 1])
      BY <1>11, <2>2 DEF DecChunk, DecFails
    <3>2. read \in Seq(Parts)
      BY <2>0 DEF IInv, ReadInv, StreamRead
    <3> QED
      BY <1>9, <2>0, <2>2, <3>1, <3>2
  <2> QED
    BY <2>0, <2>1, <2>2
<1>12. CASE DecIoFails
  BY <1>12 DEF DecIoFails, DecFails, TripInv
<1> QED
  BY <1>1, <1>2, <1>3, <1>4, <1>5, <1>6, <1>7, <1>8, <1>10, <1>11, <1>12 DEF Next

-----------------------------------------------------------------------------
(* A whole container opens.                                                *)

\* The header of a container made names its format, and can be decoded.
LEMMA HeaderDecodes ==
    ASSUME NEW k \in Nat, NEW r, IsContainer(k, r)
    PROVE  /\ r.parts[1].magic /\ r.parts[1].version \in Detected
           /\ r.parts[1].layout = r.parts[1].version
           /\ r.parts[1].salt = k /\ r.parts[1].dek_wrap_nonce = k
           /\ r.parts[1].nonce = k
           /\ r.parts[1].version = FORMAT_VERSION
                 => IsStandard(k, r) /\ Decode(r.parts[1])
           /\ r.parts[1].version = STREAMING_FORMAT_VERSION
                 => IsStreaming(k, r) /\ DecodeStreaming(r.parts[1])
<1>1. CASE IsStandard(k, r)
  <2>1. r.parts[1]
          = [magic |-> TRUE, version |-> 1, cipher |-> 1, kdf |-> 1,
             params |-> 1, salt |-> k, dek_wrap_nonce |-> k, nonce |-> k,
             chunk_size |-> 0, layout |-> 1]
    BY <1>1, HeaderTypes DEF IsStandard
  <2> QED
    BY <1>1, <2>1 DEF Detected, FORMAT_VERSION, STREAMING_FORMAT_VERSION,
       Decode, Aes256Gcm, Argon2id
<1>2. CASE IsStreaming(k, r)
  <2>1. r.parts[1]
          = [magic |-> TRUE, version |-> 2, cipher |-> 1, kdf |-> 1,
             params |-> 1, salt |-> k, dek_wrap_nonce |-> k, nonce |-> k,
             chunk_size |-> STREAMING_CHUNK_SIZE, layout |-> 2]
    BY <1>2, HeaderTypes DEF IsStreaming
  <2>2. STREAMING_CHUNK_SIZE \in 1..STREAMING_CHUNK_SIZE
    OBVIOUS
  <2> QED
    BY <1>2, <2>1, <2>2 DEF Detected, FORMAT_VERSION, STREAMING_FORMAT_VERSION,
       DecodeStreaming, Aes256Gcm, Argon2id
<1> QED
  BY <1>1, <1>2 DEF IsContainer

\* The wrapped key of a container made opens under its password.
LEMMA WrapOpens ==
    ASSUME NEW k \in Nat, NEW r, IsContainer(k, r)
    PROVE  UnwrapOk(r.parts[1], r.parts[2], r.password) /\ r.parts[2].key = k
  BY HeaderDecodes DEF UnwrapOk, IsContainer, wrap_dek

\* decrypt_standard_file opens a v1 container, and yields its file.
LEMMA StandardOpens ==
    ASSUME AllContainers(made), NEW k \in DOMAIN made,
           made[k].parts[1].version = FORMAT_VERSION
    PROVE  /\ DecodeContainer(made[k].parts)
           /\ DecryptOk(made[k].parts, made[k].password)
           /\ <<made[k].parts[3].text>> = PlaintextOf(k)
<1> DEFINE c == made[k].parts
<1>1. k \in Nat /\ IsContainer(k, made[k])
  BY MadeTypes
<1>2. IsStandard(k, made[k]) /\ Decode(c[1]) /\ c[1].nonce = k
  BY <1>1, HeaderDecodes
<1>3. /\ Len(c) = 3 /\ c[1] = Header(k)
      /\ c[3] = Seal(k, <<k>>, Header(k), <<k, 0>>)
  BY <1>2 DEF IsStandard
<1>4. UnwrapOk(c[1], c[2], made[k].password) /\ c[2].key = k
  BY <1>1, WrapOpens
<1>5. OpenOk(c[3], c[2].key, <<c[1].nonce>>, c[1])
  BY <1>2, <1>3, <1>4 DEF OpenOk, Seal
<1>6. PlaintextOf(k) = [i \in 1..1 |-> c[i + 2].text]
  BY <1>3 DEF PlaintextOf
<1>7. [i \in 1..1 |-> c[i + 2].text] = <<c[3].text>>
  <2> DEFINE f == [i \in 1..1 |-> c[i + 2].text]
             g == <<c[3].text>>
  <2>1. DOMAIN f = 1..1 /\ f[1] = c[3].text
    OBVIOUS
  <2>2. g \in Seq({c[3].text}) /\ DOMAIN g = 1..1 /\ g[1] = c[3].text
    OBVIOUS
  <2>3. f \in Seq({c[3].text}) /\ Len(f) = 1
    OBVIOUS
  <2>4. Len(g) = 1
    OBVIOUS
  <2> HIDE DEF f, g
  <2>5. f = g
    BY <2>1, <2>2, <2>3, <2>4
  <2> QED
    BY <2>5 DEF f, g
<1> QED
  BY <1>2, <1>3, <1>4, <1>5, <1>6, <1>7 DEF DecodeContainer, DecryptOk

\* Every chunk of a v2 container opens at its place.
LEMMA ChunkOpens ==
    ASSUME AllContainers(made), NEW k \in DOMAIN made, IsStreaming(k, made[k]),
           NEW i \in 3..Len(made[k].parts)
    PROVE  OpenOk(made[k].parts[i], k, <<k, i - 3>>, <<i - 3, CHUNK_SIZE>>)
<1>1. made[k].parts[i]
        = Seal(k, <<k, i - 3>>, <<i - 3, CHUNK_SIZE>>, <<k, i - 3>>)
  BY DEF IsStreaming
<1> QED
  BY <1>1 DEF OpenOk, Seal

\* The file that a v2 container holds, piece by piece.
LEMMA StreamPlaintext ==
    ASSUME AllContainers(made), NEW k \in DOMAIN made
    PROVE  /\ PlaintextOf(k) \in Seq(Nat \X Nat)
           /\ Len(PlaintextOf(k)) = Len(made[k].parts) - 2
           /\ \A i \in 1..(Len(made[k].parts) - 2) :
                 PlaintextOf(k)[i] = made[k].parts[i + 2].text
<1>1. /\ Len(made[k].parts) \in Nat /\ Len(made[k].parts) >= 2
      /\ \A i \in 3..Len(made[k].parts) : made[k].parts[i] \in Seals
  <2>1. /\ Len(made[k].parts) \in Nat /\ Len(made[k].parts) >= 2
        /\ \A i \in 3..Len(made[k].parts) :
              /\ made[k].parts[i] \in Seals
              /\ made[k].parts[i].key = k /\ made[k].parts[i].intact = TRUE
    BY MadeTypes
  <2> QED
    BY <2>1
<1>2. \A i \in 1..(Len(made[k].parts) - 2) :
         i + 2 \in 3..Len(made[k].parts) /\ made[k].parts[i + 2].text \in Nat \X Nat
  BY <1>1 DEF Seals
<1> QED
  BY <1>1, <1>2 DEF PlaintextOf

\* What decrypt_file may still do, called on a whole container of its
\* password: it does not fail, and when it ends it has the file.
Tripped(k) == target = made[k].parts /\ made[k].password = dec_pw /\ ~disturbed

TripOk(k) == dec_pc # "err" /\ (dec_pc = "ok" => out = PlaintextOf(k))

\* A new container is not the one that decrypt_file was called on.
LEMMA NewNotTripped ==
    ASSUME IInv, NEW r, IsContainer(Len(made) + 1, r)
    PROVE  target # r.parts
<1>1. AllContainers(made) /\ Genuine(made, target) /\ Len(made) \in Nat
  BY DEF IInv, StoreInv, AllContainers
<1>2. /\ r.parts[2] = wrap_dek(derive_key(r.password, Len(made) + 1),
                               Len(made) + 1, Len(made) + 1)
      /\ Len(r.parts) >= 2
  <2>1. Len(made) + 1 \in Nat
    BY <1>1
  <2>2. Len(r.parts) >= 2
    BY <2>1, PartTypes
  <2> QED
    BY <2>2 DEF IsContainer
<1>3. r.parts[2].intact /\ r.parts[2].key = Len(made) + 1
  BY <1>2 DEF wrap_dek
<1>4. ASSUME target = r.parts PROVE target[2].key \in DOMAIN made
  BY <1>1, <1>2, <1>3, <1>4, IntactWrap
<1>5. Len(made) + 1 \notin DOMAIN made
  BY <1>1 DEF AllContainers
<1> QED
  BY <1>3, <1>4, <1>5

\* A step that leaves decrypt_file where it is keeps its promise.
LEMMA TripUntouched ==
    ASSUME IInv, [Next]_vars, UNCHANGED <<dec_pc, dec_pw, out, target>>,
           disturbed => disturbed'
    PROVE  RoundTrip'
<1>1. \A k \in DOMAIN made : k \in DOMAIN made' /\ made'[k] = made[k]
  BY MadeGrows
<1>2. ASSUME NEW k \in DOMAIN made, Tripped(k)' PROVE TripOk(k)'
  <2>1. Tripped(k) /\ PlaintextOf(k)' = PlaintextOf(k)
    BY <1>1, <1>2 DEF Tripped, PlaintextOf
  <2>2. TripOk(k)
    BY <2>1 DEF IInv, RoundTrip, Tripped, TripOk
  <2> QED
    BY <2>1, <2>2 DEF TripOk
<1>3. ASSUME NEW k \in DOMAIN made', k \notin DOMAIN made, Tripped(k)'
      PROVE  FALSE
  <2>1. PICK r : IsContainer(Len(made) + 1, r) /\ made' = Append(made, r)
    BY <1>3, StepMakes
  <2>2. k = Len(made) + 1 /\ made'[k] = r
    BY <1>3, <2>1, ContainerAdded DEF IInv, StoreInv
  <2>3. target = r.parts
    BY <1>3, <2>2 DEF Tripped
  <2> QED
    BY <2>1, <2>3, NewNotTripped
<1>4. \A k \in DOMAIN made' : Tripped(k)' => TripOk(k)'
  BY <1>2, <1>3
<1> QED
  BY <1>4 DEF RoundTrip, Tripped, TripOk

\* A step of decrypt_file itself keeps the promise, if it does so for each
\* container that it was called on.
LEMMA TripStep ==
    ASSUME UNCHANGED <<made, dec_pw, target, disturbed>>,
           \A k \in DOMAIN made : Tripped(k) =>
              dec_pc' # "err" /\ (dec_pc' = "ok" => out' = PlaintextOf(k))
    PROVE  RoundTrip'
  BY DEF RoundTrip, Tripped, PlaintextOf

\* What the next part of the file is, when decrypt_file has reached it.
LEMMA TripReads ==
    ASSUME IInv, NEW k \in DOMAIN made, Tripped(k),
           dec_pc \in {"detected", "header", "wrapped", "chunks"}
    PROVE  /\ AllContainers(made) /\ k \in Nat /\ IsContainer(k, made[k])
           /\ made[k].parts \in Seq(Parts) /\ Len(made[k].parts) \in Nat
           /\ Len(made[k].parts) >= 2 /\ made[k].password = dec_pw
           /\ format = made[k].parts[1].version
           /\ dec_pc = "detected" => file = made[k].parts
           /\ dec_pc # "detected" => opened = made[k].parts
           /\ dec_pc \in {"wrapped", "chunks"} =>
                 /\ Len(read) <= Len(made[k].parts)
                 /\ \A i \in 1..Len(read) : read[i] = made[k].parts[i]
<1>1. AllContainers(made) /\ TripInv
  BY DEF IInv, StoreInv
<1>2. /\ k \in Nat /\ IsContainer(k, made[k])
      /\ made[k].parts \in Seq(Parts) /\ Len(made[k].parts) \in Nat
      /\ Len(made[k].parts) >= 2
  BY <1>1, MadeTypes
<1> QED
  BY <1>1, <1>2 DEF TripInv, Tripped

\* The chunks of the container it was called on open one after the other,
\* and at the end decrypt_file has them all.
LEMMA TripChunks ==
    ASSUME IInv, NEW k \in DOMAIN made, Tripped(k), dec_pc = "chunks"
    PROVE  /\ Len(opened) > Len(read) =>
                 OpenOk(opened[Len(read) + 1], dek, <<read[1].nonce, NextIndex>>,
                        <<NextIndex, CHUNK_SIZE>>)
           /\ Len(opened) <= Len(read) => out = PlaintextOf(k)
<1> DEFINE c == made[k].parts
<1>1. /\ AllContainers(made) /\ k \in Nat /\ IsContainer(k, made[k])
      /\ c \in Seq(Parts) /\ Len(c) \in Nat /\ Len(c) >= 2
      /\ format = c[1].version /\ opened = c
      /\ Len(read) <= Len(c) /\ \A i \in 1..Len(read) : read[i] = c[i]
  BY TripReads
<1>2. StreamRead /\ format = STREAMING_FORMAT_VERSION
  BY DEF IInv, ReadInv, ModeInv
<1>3. /\ read \in Seq(Parts) /\ out \in Seq(Nat \X Nat)
      /\ Len(read) = Len(out) + 2
      /\ Len(read) \in Nat /\ Len(out) \in Nat
      /\ \A i \in 2..Len(read) : read[i] = made[dek].parts[i]
      /\ \A i \in 1..Len(out) : out[i] = made[dek].parts[i + 2].text
      /\ dek \in DOMAIN made
  BY <1>2 DEF StreamRead
<1>4. /\ IsStreaming(k, made[k]) /\ c[1].nonce = k /\ c[2].key = k
  BY <1>1, <1>2, HeaderDecodes, WrapOpens
<1>5. dek = k
  <2>1. made[dek].parts[2].key = dek
    <3>1. dek \in Nat /\ IsContainer(dek, made[dek])
      BY <1>1, <1>3, MadeTypes
    <3> QED
      BY <3>1, WrapOpens
  <2>2. 2 \in 1..Len(read) /\ 2 \in 2..Len(read)
    BY <1>3
  <2>3. read[2] = c[2] /\ read[2] = made[dek].parts[2]
    BY <1>1, <1>3, <2>2
  <2> QED
    BY <1>4, <2>1, <2>3
<1>6. read[1].nonce = k
  <2>1. 1 \in 1..Len(read)
    BY <1>3
  <2> QED
    BY <1>1, <1>4, <2>1
<1>7. ASSUME Len(opened) > Len(read)
      PROVE  OpenOk(opened[Len(read) + 1], dek, <<read[1].nonce, NextIndex>>,
                    <<NextIndex, CHUNK_SIZE>>)
  <2> DEFINE i == Len(read) + 1
  <2>1. i \in 3..Len(c) /\ i - 3 = NextIndex
    BY <1>1, <1>3, <1>7 DEF NextIndex
  <2>2. OpenOk(c[i], k, <<k, i - 3>>, <<i - 3, CHUNK_SIZE>>)
    BY <1>1, <1>4, <2>1, ChunkOpens
  <2> QED
    BY <1>1, <1>5, <1>6, <2>1, <2>2
<1>8. ASSUME Len(opened) <= Len(read) PROVE out = PlaintextOf(k)
  <2>1. Len(out) = Len(c) - 2
    BY <1>1, <1>3, <1>8
  <2>2. /\ PlaintextOf(k) \in Seq(Nat \X Nat) /\ Len(PlaintextOf(k)) = Len(c) - 2
        /\ \A i \in 1..(Len(c) - 2) : PlaintextOf(k)[i] = c[i + 2].text
    BY <1>1, StreamPlaintext
  <2>3. \A i \in 1..Len(out) : out[i] = PlaintextOf(k)[i]
    BY <1>3, <1>5, <2>1, <2>2
  <2> HIDE DEF c
  <2>4. /\ out \in Seq(Nat \X Nat) /\ PlaintextOf(k) \in Seq(Nat \X Nat)
        /\ Len(out) = Len(PlaintextOf(k))
    BY <1>3, <2>1, <2>2
  <2> QED
    BY <2>3, <2>4, SameElements
<1> QED
  BY <1>7, <1>8

\* Every step keeps the promise.
LEMMA RoundTripKept == IInv /\ [Next]_vars => RoundTrip'
<1> SUFFICES ASSUME IInv, [Next]_vars PROVE RoundTrip'
  OBVIOUS
<1>1. CASE \/ \E password \in Passwords : EncryptStandard(password)
           \/ \E password \in Utf8Passwords : EncryptStreaming(password)
           \/ WritePart
  <2>1. /\ UNCHANGED <<dec_pc, dec_pw, out, target>>
        /\ disturbed' = (disturbed \/ Decrypting)
    BY <1>1 DEF EncryptStandard, EncryptStreaming, WritePart, Stored
  <2> QED
    BY <2>1, TripUntouched
<1>2. CASE WriterStops \/ Damage \/ UNCHANGED vars
  <2>1. UNCHANGED <<dec_pc, dec_pw, out, target, disturbed>>
    BY <1>2 DEF WriterStops, Damage, vars, decVars
  <2> QED
    BY <2>1, TripUntouched
<1>3. CASE DecDetect
  <2>1. /\ target' = file /\ UNCHANGED <<file, made>>
        /\ dec_pc' \in {"detected", "err"}
        /\ dec_pc' = "err" =>
              ~(file # <<>> /\ file[1].magic /\ file[1].version \in Detected)
    BY <1>3 DEF DecDetect, DecFails, encVars
  <2>2. ASSUME NEW k \in DOMAIN made, file = made[k].parts
        PROVE  file # <<>> /\ file[1].magic /\ file[1].version \in Detected
    <3>1. AllContainers(made)
      BY DEF IInv, StoreInv
    <3>2. /\ k \in Nat /\ IsContainer(k, made[k]) /\ file \in Seq(Parts)
          /\ Len(file) >= 2
      BY <2>2, <3>1, MadeTypes
    <3>3. file # <<>>
      BY <3>2
    <3> QED
      BY <2>2, <3>2, <3>3, HeaderDecodes
  <2> QED
    BY <2>1, <2>2 DEF RoundTrip
<1>4. CASE DecStandard
  <2>0. /\ dec_pc = "detected" /\ format = FORMAT_VERSION
        /\ UNCHANGED <<made, dec_pw, target, disturbed>>
    BY <1>4 DEF DecStandard, encVars
  <2>1. ASSUME NEW k \in DOMAIN made, Tripped(k)
        PROVE  dec_pc' = "ok" /\ out' = PlaintextOf(k)
    <3>1. /\ AllContainers(made) /\ file = made[k].parts
          /\ made[k].parts[1].version = FORMAT_VERSION
          /\ made[k].password = dec_pw
      BY <2>0, <2>1, TripReads
    <3>2. /\ DecodeContainer(file) /\ DecryptOk(file, dec_pw)
          /\ <<file[3].text>> = PlaintextOf(k)
      BY <3>1, StandardOpens
    <3> QED
      BY <1>4, <3>2 DEF DecStandard
  <2> QED
    BY <2>0, <2>1, TripStep
<1>5. CASE DecOpenStreaming
  <2>0. /\ dec_pc = "detected" /\ format = STREAMING_FORMAT_VERSION
        /\ UNCHANGED <<made, dec_pw, target, disturbed>>
    BY <1>5 DEF DecOpenStreaming, encVars
  <2>1. ASSUME NEW k \in DOMAIN made, Tripped(k) PROVE dec_pc' = "header"
    <3>1. /\ k \in Nat /\ IsContainer(k, made[k])
          /\ made[k].parts[1].version = STREAMING_FORMAT_VERSION
          /\ made[k].password = dec_pw
      BY <2>0, <2>1, TripReads
    <3>2. dec_pw \in Utf8Passwords
      BY <3>1, HeaderDecodes DEF IsStreaming
    <3> QED
      BY <1>5, <3>2 DEF DecOpenStreaming
  <2> QED
    BY <2>0, <2>1, TripStep
<1>6. CASE DecHeader
  <2>0. dec_pc = "header" /\ UNCHANGED <<made, dec_pw, target, disturbed>>
    BY <1>6 DEF DecHeader, encVars
  <2>1. ASSUME NEW k \in DOMAIN made, Tripped(k) PROVE dec_pc' = "wrapped"
    <3>1. /\ k \in Nat /\ IsContainer(k, made[k]) /\ opened = made[k].parts
          /\ opened \in Seq(Parts) /\ Len(opened) >= 2
          /\ made[k].parts[1].version = format
      BY <2>0, <2>1, TripReads
    <3>2. format = STREAMING_FORMAT_VERSION
      BY <2>0 DEF IInv, ModeInv
    <3>3. DecodeStreaming(opened[1])
      BY <3>1, <3>2, HeaderDecodes
    <3>4. opened # <<>>
      BY <3>1
    <3> QED
      BY <1>6, <3>3, <3>4 DEF DecHeader
  <2> QED
    BY <2>0, <2>1, TripStep
<1>7. CASE DecWrapped
  <2>0. dec_pc = "wrapped" /\ UNCHANGED <<made, dec_pw, target, disturbed>>
    BY <1>7 DEF DecWrapped, encVars
  <2>1. ASSUME NEW k \in DOMAIN made, Tripped(k) PROVE dec_pc' = "chunks"
    <3>1. /\ k \in Nat /\ IsContainer(k, made[k]) /\ opened = made[k].parts
          /\ Len(opened) >= 2 /\ made[k].password = dec_pw
          /\ \A i \in 1..Len(read) : read[i] = opened[i]
      BY <2>0, <2>1, TripReads
    <3>2. 1 \in 1..Len(read)
      BY <2>0 DEF IInv, ModeInv
    <3>3. UnwrapOk(read[1], opened[2], dec_pw)
      BY <3>1, <3>2, WrapOpens
    <3> QED
      BY <1>7, <3>1, <3>3 DEF DecWrapped
  <2> QED
    BY <2>0, <2>1, TripStep
<1>8. CASE DecChunk
  <2>0. dec_pc = "chunks" /\ UNCHANGED <<made, dec_pw, target, disturbed>>
    BY <1>8 DEF DecChunk, encVars
  <2>1. ASSUME NEW k \in DOMAIN made, Tripped(k)
        PROVE  dec_pc' # "err" /\ (dec_pc' = "ok" => out' = PlaintextOf(k))
    BY <1>8, <2>0, <2>1, TripChunks DEF DecChunk
  <2> QED
    BY <2>0, <2>1, TripStep
<1>9. CASE DecIoFails
  \* what the call had found is left alone, but nothing is promised any more
  <2>1. disturbed' = TRUE
    BY <1>9 DEF DecIoFails
  <2> QED
    BY <2>1 DEF RoundTrip
<1> QED
  BY <1>1, <1>2, <1>3, <1>4, <1>5, <1>6, <1>7, <1>8, <1>9 DEF Next

-----------------------------------------------------------------------------
(* The theorems.                                                           *)

LEMMA InitIInv == Init => IInv
<1> SUFFICES ASSUME Init PROVE IInv
  OBVIOUS
<1>1. StoreInv
  <2>1. AllContainers(<<>>)
    BY DEF AllContainers
  <2> QED
    BY <2>1, GenuineEmpty DEF Init, StoreInv
<1>2. ModeInv
  <2>1. Len(made) <= MaxContainers /\ damage \in 0..MaxDamage
    <3>1. made = <<>> /\ damage = 0
      BY DEF Init
    <3> QED
      BY <3>1
  <2>2. /\ dec_pc = "idle" /\ dec_pw \in Passwords /\ format = 0
        /\ linked = FALSE /\ disturbed = FALSE /\ target = <<>> /\ out = <<>>
    BY DEF Init
  <2> QED
    BY <2>1, <2>2 DEF ModeInv
<1>3. ReadInv /\ TripInv
  BY DEF Init, ReadInv, TripInv
<1>4. RoundTrip
  BY DEF Init, RoundTrip
<1> QED
  BY <1>1, <1>2, <1>3, <1>4 DEF IInv

LEMMA NextKeepsIInv == IInv /\ [Next]_vars => IInv'
<1> SUFFICES ASSUME IInv, [Next]_vars PROVE IInv'
  OBVIOUS
<1> QED
  BY StoreInvKept, ModeInvKept, ReadInvKept, TripInvKept, RoundTripKept DEF IInv

\* Only genuine parts are stored, and all that decrypt_file accepted is of
\* the one container whose key it unwrapped.
THEOREM Invariance == Spec => []IInv
<1> QED
  BY InitIInv, NextKeepsIInv, PTL DEF Spec

\* A sequence is a prefix of one that is as long and agrees with it.
LEMMA Prefix ==
    ASSUME NEW S, NEW T, NEW s \in Seq(S), NEW t \in Seq(T), Len(s) <= Len(t),
           \A i \in 1..Len(s) : s[i] = t[i]
    PROVE  IsPrefix(s, t)
<1>1. Len(s) \in Nat /\ Len(t) \in Nat
  OBVIOUS
<1>2. /\ SubSeq(t, 1, Len(s)) \in Seq(T) /\ Len(SubSeq(t, 1, Len(s))) = Len(s)
      /\ \A i \in 1..Len(s) : SubSeq(t, 1, Len(s))[i] = t[i]
  BY <1>1
<1>3. s = SubSeq(t, 1, Len(s))
  BY <1>2
<1>4. SubSeq(s, 1, Len(s)) = s
  BY <1>1
<1> QED
  BY <1>1, <1>3, <1>4 DEF IsPrefix

\* The shape of the state; a stream never has more than MaxChunks pieces.
THEOREM TypeCorrect == Spec => []TypeOK
<1>1. IInv => TypeOK
  <2> SUFFICES ASSUME IInv PROVE TypeOK
    OBVIOUS
  <2>1. dec_pc = "chunks" => Len(read) = Len(out) + 2 /\ Len(out) <= MaxChunks
    <3> SUFFICES ASSUME dec_pc = "chunks"
                 PROVE  Len(read) = Len(out) + 2 /\ Len(out) <= MaxChunks
      OBVIOUS
    <3>1. StreamRead
      BY DEF IInv, ReadInv
    <3>2. CASE out = <<>>
      <4>1. Len(out) = 0 /\ MaxChunks \in Nat
        BY <3>2
      <4> QED
        BY <3>1, <4>1 DEF StreamRead
    <3>3. CASE out # <<>>
      <4>1. Len(made[dek].parts) \in 2..(MaxChunks + 2)
        BY <3>1, <3>3 DEF StreamRead, IsStreaming
      <4>2. Len(out) \in Nat
        BY <3>1 DEF StreamRead
      <4> QED
        BY <3>1, <4>1, <4>2 DEF StreamRead
    <3> QED
      BY <3>2, <3>3
  <2> QED
    BY <2>1 DEF IInv, StoreInv, ModeInv, TypeOK
<1> QED
  BY Invariance, <1>1, PTL

\* What the path shows may change between any two reads: the plaintext is
\* still the beginning of one file, encrypted under the password given.
THEOREM OutputOfOne == Spec => []OutputIsOfOneContainer
<1>1. IInv => OutputIsOfOneContainer
  <2> SUFFICES ASSUME IInv, dec_pc \in {"chunks", "ok"}
               PROVE  \E k \in DOMAIN made : /\ made[k].password = dec_pw
                                             /\ IsPrefix(out, PlaintextOf(k))
    BY DEF OutputIsOfOneContainer
  <2>0. AllContainers(made)
    BY DEF IInv, StoreInv
  <2>1. CASE StreamRead
    <3>1. /\ dek \in DOMAIN made /\ made[dek].password = dec_pw
          /\ out \in Seq(Nat \X Nat) /\ Len(out) \in Nat
          /\ Len(out) + 2 <= Len(made[dek].parts)
          /\ \A i \in 1..Len(out) : out[i] = made[dek].parts[i + 2].text
      BY <2>1 DEF StreamRead
    <3>2. Len(made[dek].parts) \in Nat
      BY <2>0, <3>1, MadeTypes
    <3>3. /\ PlaintextOf(dek) \in Seq(Nat \X Nat)
          /\ Len(PlaintextOf(dek)) = Len(made[dek].parts) - 2
          /\ \A i \in 1..(Len(made[dek].parts) - 2) :
                PlaintextOf(dek)[i] = made[dek].parts[i + 2].text
      BY <2>0, <3>1, StreamPlaintext
    <3>4. Len(out) <= Len(PlaintextOf(dek))
      BY <3>1, <3>2, <3>3
    <3>5. \A i \in 1..Len(out) : out[i] = PlaintextOf(dek)[i]
      <4> TAKE i \in 1..Len(out)
      <4>1. i \in 1..(Len(made[dek].parts) - 2)
        BY <3>1, <3>2
      <4> QED
        BY <3>1, <3>3, <4>1
    <3>6. IsPrefix(out, PlaintextOf(dek))
      BY <3>1, <3>3, <3>4, <3>5, Prefix
    <3> QED
      BY <3>1, <3>6
  <2>2. CASE WholeRead
    <3>1. PICK k \in DOMAIN made : /\ made[k].password = dec_pw
                                   /\ IsStandard(k, made[k])
                                   /\ out = <<made[k].parts[3].text>>
      BY <2>2 DEF WholeRead
    <3>2. made[k].parts[1].version = FORMAT_VERSION
      <4>1. made[k].parts[1] = Header(k) /\ k \in Nat
        BY <2>0, <3>1, MadeTypes DEF IsStandard
      <4> QED
        BY <4>1, HeaderTypes DEF FORMAT_VERSION
    <3>3. out = PlaintextOf(k)
      BY <2>0, <3>1, <3>2, StandardOpens
    <3>4. PlaintextOf(k) \in Seq(Nat \X Nat)
      BY <2>0, StreamPlaintext
    <3>5. IsPrefix(PlaintextOf(k), PlaintextOf(k))
      <4>1. Len(PlaintextOf(k)) <= Len(PlaintextOf(k))
        BY <3>4
      <4> QED
        BY <3>4, <4>1, Prefix
    <3> QED
      BY <3>1, <3>3, <3>5
  <2>3. StreamRead \/ WholeRead
    BY DEF IInv, ReadInv, ModeInv, Detected
  <2> QED
    BY <2>1, <2>2, <2>3
<1> QED
  BY Invariance, <1>1, PTL

\* container.rs:106: a v1 container that decrypts is, in every part, one
\* that was made: no header field, key or ciphertext has changed.
THEOREM StandardUnmodified == Spec => []StandardIsUnmodified
<1>1. IInv => StandardIsUnmodified
  BY DEF IInv, ReadInv, WholeRead, StandardIsUnmodified
<1> QED
  BY Invariance, <1>1, PTL

\* A sequence without its first element.
LEMMA TailElements ==
    ASSUME NEW S, NEW s \in Seq(S), Len(s) >= 1
    PROVE  /\ Tail(s) \in Seq(S) /\ Len(Tail(s)) = Len(s) - 1
           /\ \A i \in 1..(Len(s) - 1) : Tail(s)[i] = s[i + 1]
  OBVIOUS

\* A v2 container that decrypts has the wrapped key, the salt and the first
\* chunks of one that was made, and its nonce if there is any chunk.
THEOREM StreamingUnmodified == Spec => []StreamingIsUnmodifiedPrefix
<1>1. IInv => StreamingIsUnmodifiedPrefix
  <2> SUFFICES ASSUME IInv, dec_pc = "ok", format = STREAMING_FORMAT_VERSION
               PROVE  \E k \in DOMAIN made :
                        /\ IsPrefix(Tail(read), Tail(made[k].parts))
                        /\ read[1].salt = made[k].parts[1].salt
                        /\ out # <<>> =>
                              read[1].nonce = made[k].parts[1].nonce
    BY DEF StreamingIsUnmodifiedPrefix
  <2> DEFINE t == made[dek].parts
  <2>1. StreamRead /\ AllContainers(made)
    BY DEF IInv, ReadInv, StoreInv
  <2>2. /\ dek \in DOMAIN made /\ read \in Seq(Parts)
        /\ Len(read) = Len(out) + 2 /\ Len(out) \in Nat
        /\ Len(read) <= Len(t) /\ read[1].salt = dek
        /\ \A i \in 2..Len(read) : read[i] = t[i]
        /\ out # <<>> => read[1].nonce = dek
    BY <2>1 DEF StreamRead
  <2>3. /\ t \in Seq(Parts) /\ Len(t) \in Nat /\ Len(t) >= 2
        /\ dek \in Nat /\ IsContainer(dek, made[dek])
    BY <2>1, <2>2, MadeTypes
  <2>4. t[1].salt = dek /\ t[1].nonce = dek
    BY <2>3, HeaderDecodes
  <2> HIDE DEF t
  <2>5. IsPrefix(Tail(read), Tail(t))
    <3>1. Len(read) >= 1 /\ Len(read) \in Nat /\ Len(t) >= 1
      BY <2>2, <2>3
    <3>2. /\ Tail(read) \in Seq(Parts) /\ Len(Tail(read)) = Len(read) - 1
          /\ \A i \in 1..(Len(read) - 1) : Tail(read)[i] = read[i + 1]
      BY <2>2, <3>1, TailElements
    <3>3. /\ Tail(t) \in Seq(Parts) /\ Len(Tail(t)) = Len(t) - 1
          /\ \A i \in 1..(Len(t) - 1) : Tail(t)[i] = t[i + 1]
      BY <2>3, <3>1, TailElements
    <3>4. Len(Tail(read)) <= Len(Tail(t))
      BY <2>2, <2>3, <3>1, <3>2, <3>3
    <3>5. \A i \in 1..Len(Tail(read)) : Tail(read)[i] = Tail(t)[i]
      <4> TAKE i \in 1..Len(Tail(read))
      <4>1. /\ i \in 1..(Len(read) - 1) /\ i \in 1..(Len(t) - 1)
            /\ i + 1 \in 2..Len(read)
        BY <2>2, <2>3, <3>1, <3>2
      <4> QED
        BY <2>2, <3>2, <3>3, <4>1
    <3> QED
      BY <3>2, <3>3, <3>4, <3>5, Prefix
  <2> QED
    BY <2>2, <2>4, <2>5 DEF t
<1> QED
  BY Invariance, <1>1, PTL

\* What decrypts is what was made, in all that the associated data of its
\* format covers (container.rs:106, streaming.rs, StreamingHeader).
THEOREM OkUnmodified == Spec => []OkMeansUnmodified
<1>1. (StandardIsUnmodified /\ StreamingIsUnmodifiedPrefix) <=> OkMeansUnmodified
  BY DEF OkMeansUnmodified
<1> QED
  BY StandardUnmodified, StreamingUnmodified, <1>1, PTL

\* A whole undamaged container that nobody rewrites meanwhile decrypts under
\* its password, and to all of its file.
THEOREM ContainerRoundTrip == Spec => []RoundTrip
<1>1. IInv => RoundTrip
  BY DEF IInv
<1> QED
  BY Invariance, <1>1, PTL

-----------------------------------------------------------------------------
(* Decryption as its caller sees it (Archive).                             *)

\* The pieces of a container made, in order, are those of its file.
LEMMA PieceTexts ==
    ASSUME AllContainers(made), NEW k \in DOMAIN made,
           NEW i \in 1..(Len(made[k].parts) - 2)
    PROVE  made[k].parts[i + 2].text = Archive!Piece(k, i)
<1>1. IsContainer(k, made[k]) /\ Len(made[k].parts) \in Nat
  BY MadeTypes
<1>2. CASE IsStandard(k, made[k])
  <2>1. i = 1
    BY <1>2 DEF IsStandard
  <2>2. made[k].parts[3].text = <<k, 0>>
    BY <1>2 DEF IsStandard, Seal
  <2> QED
    BY <2>1, <2>2 DEF Archive!Piece
<1>3. CASE IsStreaming(k, made[k])
  <2> DEFINE j == i + 2
  <2>1. j \in 3..Len(made[k].parts) /\ j - 3 = i - 1
    BY <1>1
  <2>2. made[k].parts[j] = Seal(k, <<k, j - 3>>, <<j - 3, CHUNK_SIZE>>, <<k, j - 3>>)
    BY <1>3, <2>1 DEF IsStreaming
  <2>3. made[k].parts[j].text = <<k, j - 3>>
    BY <2>2 DEF Seal
  <2> QED
    BY <2>1, <2>3 DEF Archive!Piece
<1> QED
  BY <1>1, <1>2, <1>3 DEF IsContainer

\* Pieces that agree with a container made are the beginning of its file.
LEMMA PiecesFrom ==
    ASSUME AllContainers(made), NEW k \in DOMAIN made, made[k].password = dec_pw,
           NEW g \in Seq(Nat \X Nat), Len(g) + 2 <= Len(made[k].parts),
           \A i \in 1..Len(g) : g[i] = made[k].parts[i + 2].text
    PROVE  Archive!IsFrom(k, g)
<1>1. Len(g) \in Nat /\ Len(made[k].parts) \in Nat
  BY MadeTypes
<1>2. \A i \in 1..Len(g) : g[i] = Archive!Piece(k, i)
  <2> TAKE i \in 1..Len(g)
  <2>1. i \in 1..(Len(made[k].parts) - 2)
    BY <1>1
  <2> QED
    BY <2>1, PieceTexts
<1>3. g = [i \in 1..Len(g) |-> Archive!Piece(k, i)]
  BY <1>2
<1> QED
  BY <1>1, <1>3 DEF Archive!IsFrom

\* What a stream has yielded is from the container whose key was unwrapped.
LEMMA StreamFrom ==
    ASSUME AllContainers(made), StreamRead
    PROVE  /\ dek \in DOMAIN made /\ Archive!IsFrom(dek, out)
           /\ Len(out) \in Nat
<1>1. /\ dek \in DOMAIN made /\ made[dek].password = dec_pw
      /\ out \in Seq(Nat \X Nat) /\ Len(out) + 2 <= Len(made[dek].parts)
      /\ \A i \in 1..Len(out) : out[i] = made[dek].parts[i + 2].text
  BY DEF StreamRead
<1> QED
  BY <1>1, PiecesFrom

\* A container that joins those made is a file encrypted.
LEMMA MakingIsEncrypting ==
    ASSUME AllContainers(made), AllContainers(made'), NEW r,
           IsContainer(Len(made) + 1, r), made' = Append(made, r),
           UNCHANGED <<dec_pc, dec_pw, out>>
    PROVE  Archive!Encrypt
<1> DEFINE k == Len(made) + 1
           F(m) == [j \in DOMAIN m |-> [password |-> m[j].password,
                                        size |-> Len(m[j].parts) - 2]]
<1>1. /\ DOMAIN made' = DOMAIN made \cup {k} /\ made'[k] = r
      /\ k \notin DOMAIN made
      /\ \A j \in DOMAIN made : made'[j] = made[j]
  BY ContainerAdded
<1>2. r.password \in Passwords /\ Len(r.parts) - 2 >= 0
  <2>1. r.password \in Passwords /\ r.parts \in Seq(Parts)
    BY DEF IsContainer
  <2>2. Len(r.parts) >= 2
    BY <2>1 DEF IsContainer, IsStandard, IsStreaming
  <2> QED
    BY <2>1, <2>2
<1> HIDE DEF k
<1>3. /\ k \in DOMAIN F(made') \ DOMAIN F(made)
      /\ DOMAIN F(made') = DOMAIN F(made) \cup {k}
      /\ F(made')[k].password \in Passwords /\ F(made')[k].size >= 0
  BY <1>1, <1>2
<1>4. \A j \in DOMAIN F(made) : F(made')[j] = F(made)[j]
  BY <1>1
<1>5. F(made)' = F(made')
  OBVIOUS
<1> QED
  BY <1>3, <1>4 DEF Archive!Encrypt

\* A step of decrypt_file yields more of one file, returns, or yields nothing.
LEMMA ReadingIsDelivering ==
    ASSUME IInv, IInv', UNCHANGED made,
           \/ DecDetect \/ DecStandard \/ DecOpenStreaming \/ DecHeader
           \/ DecWrapped \/ DecChunk \/ DecIoFails
    PROVE  Archive!Deliver \/ Archive!Fail \/ UNCHANGED Archive!vars
<1>0. /\ AllContainers(made)
      /\ dec_pc \notin {"ok", "err"} /\ UNCHANGED dec_pw
  BY DEF IInv, StoreInv, DecDetect, DecStandard, DecOpenStreaming, DecHeader,
     DecWrapped, DecChunk, DecIoFails
<1>1. CASE dec_pc' = "err" /\ UNCHANGED out
  BY <1>0, <1>1 DEF Archive!Fail
<1>2. CASE dec_pc' \notin {"ok", "err"} /\ UNCHANGED out
  BY <1>0, <1>2 DEF Archive!vars
<1>3. CASE DecStandard /\ dec_pc' = "ok"
  <2>1. /\ DecodeContainer(file) /\ DecryptOk(file, dec_pw)
        /\ out' = <<file[3].text>>
    BY <1>3 DEF DecStandard, DecFails
  <2>2. PICK k \in DOMAIN made : /\ made[k].password = dec_pw
                                 /\ IsStandard(k, made[k])
                                 /\ file = made[k].parts
    BY <2>1, StandardReads
  <2>3. /\ Len(made[k].parts) = 3 /\ made[k].parts[3].text = <<k, 0>>
        /\ k \in Nat
    BY <1>0, <2>2 DEF IsStandard, Seal, AllContainers
  <2>4. /\ out' \in Seq(Nat \X Nat) /\ Len(out') = 1
        /\ Len(out') + 2 <= Len(made[k].parts)
        /\ \A i \in 1..Len(out') : out'[i] = made[k].parts[i + 2].text
    BY <2>1, <2>2, <2>3
  <2>5. Archive!IsFrom(k, out')
    BY <1>0, <2>2, <2>4, PiecesFrom
  <2>6. out = <<>>
    BY <1>3 DEF DecStandard, IInv, ModeInv
  <2>7. Archive!IsFrom(k, <<>>)
    <3> DEFINE g == <<>>
    <3>1. /\ g \in Seq(Nat \X Nat)
          /\ Len(g) + 2 <= Len(made[k].parts)
          /\ \A i \in 1..Len(g) : g[i] = made[k].parts[i + 2].text
      BY <2>3
    <3> HIDE DEF g
    <3>2. Archive!IsFrom(k, g)
      BY <1>0, <2>2, <3>1, PiecesFrom
    <3> QED
      BY <3>2 DEF g
  <2> QED
    BY <1>0, <1>3, <2>4, <2>5, <2>6, <2>7 DEF Archive!Deliver
<1>4. CASE DecChunk /\ dec_pc' # "err"
  <2>1. StreamRead
    BY <1>4 DEF DecChunk, IInv, ReadInv
  <2>2. dek \in DOMAIN made /\ Archive!IsFrom(dek, out) /\ Len(out) \in Nat
    BY <1>0, <2>1, StreamFrom
  <2>3. CASE out' = out
    <3>1. dec_pc' \in {"ok", "chunks"}
      BY <1>4 DEF DecChunk, DecFails
    <3> QED
      BY <1>0, <2>2, <2>3, <3>1 DEF Archive!Deliver
  <2>4. CASE out' # out
    <3>1. dec_pc' = "chunks" /\ dek' = dek /\ \E t : out' = Append(out, t)
      BY <1>4, <2>4 DEF DecChunk, DecFails
    <3>2. StreamRead'
      BY <3>1 DEF IInv, ReadInv
    <3>3. /\ out' \in Seq(Nat \X Nat) /\ Len(out') + 2 <= Len(made[dek].parts)
          /\ \A i \in 1..Len(out') : out'[i] = made[dek].parts[i + 2].text
          /\ made[dek].password = dec_pw
      BY <1>0, <3>1, <3>2 DEF StreamRead
    <3>4. Archive!IsFrom(dek, out')
      BY <1>0, <2>2, <3>3, PiecesFrom
    <3>5. Len(out') >= Len(out)
      <4>1. out \in Seq(Nat \X Nat)
        BY <2>1 DEF StreamRead
      <4>2. PICK t : out' = Append(out, t)
        BY <3>1
      <4> QED
        BY <4>1, <4>2
    <3>6. Len(out') \in Nat
      BY <3>3
    <3> QED
      BY <1>0, <2>2, <3>1, <3>4, <3>5, <3>6 DEF Archive!Deliver
  <2> QED
    BY <2>3, <2>4
<1>5. \/ dec_pc' = "err" /\ UNCHANGED out
      \/ dec_pc' \notin {"ok", "err"} /\ UNCHANGED out
      \/ DecStandard /\ dec_pc' = "ok"
      \/ DecChunk /\ dec_pc' # "err"
  BY DEF DecDetect, DecStandard, DecOpenStreaming, DecHeader, DecWrapped,
     DecChunk, DecIoFails, DecFails
<1> QED
  BY <1>1, <1>2, <1>3, <1>4, <1>5

\* decrypt_file implements Archive: all it yields is from one file of the
\* password given, in order, and final once it has returned.
THEOREM ArchiveImplemented == Spec => ImplementsArchive
<1>1. Init => Archive!Init
  BY DEF Init, Archive!Init
<1>2. IInv /\ IInv' /\ [Next]_vars => [Archive!Next]_(Archive!vars)
  <2> SUFFICES ASSUME IInv, IInv', [Next]_vars
               PROVE  [Archive!Next]_(Archive!vars)
    OBVIOUS
  <2>1. CASE \E r : /\ IsContainer(Len(made) + 1, r)
                    /\ made' = Append(made, r)
                    /\ UNCHANGED <<dec_pc, dec_pw, out>>
    BY <2>1, MadeGrows, MakingIsEncrypting DEF IInv, StoreInv, Archive!Next
  <2>2. CASE UNCHANGED made
    <3>1. CASE \/ DecDetect \/ DecStandard \/ DecOpenStreaming \/ DecHeader
               \/ DecWrapped \/ DecChunk \/ DecIoFails
      BY <2>2, <3>1, ReadingIsDelivering DEF Archive!Next
    <3>2. CASE UNCHANGED <<dec_pc, dec_pw, out>>
      BY <2>2, <3>2 DEF Archive!vars
    <3>3. \A password : EncryptStandard(password) \/ EncryptStreaming(password)
                          => UNCHANGED <<dec_pc, dec_pw, out>>
      BY DEF EncryptStandard, EncryptStreaming
    <3>4. UNCHANGED vars \/ WritePart \/ WriterStops \/ Damage
            => UNCHANGED <<dec_pc, dec_pw, out>>
      BY DEF vars, decVars, WritePart, WriterStops, Damage
    <3> QED
      BY <3>1, <3>2, <3>3, <3>4 DEF Next
  <2> QED
    BY <2>1, <2>2, StepMakes
<1> QED
  BY <1>1, <1>2, Invariance, PTL DEF Spec, ImplementsArchive, Archive!Spec
=============================================================================
