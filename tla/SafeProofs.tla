----------------------------- MODULE SafeProofs -----------------------------
(***************************************************************************)
(* The windows, the verifier and the files of Vault implement Safe, for    *)
(* every value of the constants, while no window imports or deletes what   *)
(* another is importing.  A step changes what the vault holds only when    *)
(* the last piece of a container is written, or a name is removed: the     *)
(* pieces before it, and what a failed import leaves, are no container.    *)
(***************************************************************************)
EXTENDS VaultProofs

-----------------------------------------------------------------------------
(* The invariant: what Vault needs, what a window shows, and that only an  *)
(* export has decrypted bytes ready.                                       *)

OutTypes ==
    /\ out = [w \in Windows |-> out[w]]
    /\ \A w \in Windows : pc[w] # "export" => out[w] = Absent

SafeInv == Inv /\ ListTypes /\ OutTypes

LEMMA OutStep == Types /\ OutTypes /\ [Next]_vars => OutTypes'
<1> SUFFICES ASSUME Types, OutTypes, [Next]_vars PROVE OutTypes'
  OBVIOUS
<1>1. CASE UNCHANGED vars
  BY <1>1 DEF vars, OutTypes
<1>2. SUFFICES ASSUME NEW w \in Windows, Step(w) PROVE OutTypes'
  BY <1>1, SomeStep
<1>3. \A v \in Windows \ {w} : pc'[v] = pc[v]
  BY <1>2, OtherWindow
<1>4. /\ out = [v \in Windows |-> out[v]]
      /\ \A v \in Windows : pc[v] # "export" => out[v] = Absent
  BY DEF OutTypes
<1>5. CASE ExportRead(w)
  <2>1. PICK p : p = Opens(Chosen(w))
    OBVIOUS
  <2>2. out' = [out EXCEPT ![w] = p] /\ pc'[w] = "export"
    BY <1>5, <2>1 DEF ExportRead, Goto, Types, WindowTypes
  <2> QED
    BY <1>3, <1>4, <2>2 DEF OutTypes
<1>6. CASE out' = [out EXCEPT ![w] = Absent]
  BY <1>3, <1>4, <1>6 DEF OutTypes
<1>7. CASE out' = out /\ pc[w] # "export"
  BY <1>3, <1>4, <1>7 DEF OutTypes
<1> QED
  BY <1>2, <1>5, <1>6, <1>7
  DEF Step, Goto, Start, Stop, Initialize, CreateConfig, WriteConfig,
      WriteConfigFails, Unlock, Lock, Refresh, Select, ImportStart,
      ImportSmall, ImportCreate, ImportWrite, ImportLarge, ImportFails,
      ExportInstall, ExportFails, DeleteLocal

LEMMA SafeStep == Exclusive => (SafeInv /\ [Next]_vars => SafeInv')
  BY InvStep, ListStep, OutStep DEF SafeInv, Inv, PasswordInv

LEMMA SpecSafeInv == Exclusive => (Spec => []SafeInv)
<1> SUFFICES ASSUME Exclusive PROVE Spec => []SafeInv
  OBVIOUS
<1>1. Init => ListTypes /\ OutTypes
  BY DEF Init, ListTypes, OutTypes
<1>2. Spec => []Inv
  BY SpecInv
<1>3. Inv /\ ListTypes /\ OutTypes /\ [Next]_vars => ListTypes' /\ OutTypes'
  BY ListStep, OutStep DEF Inv, PasswordInv
<1> QED
  BY <1>1, <1>2, <1>3, PTL DEF Spec, SafeInv

-----------------------------------------------------------------------------
(* What the vault holds.                                                   *)

Held(n) == n \in DOMAIN dir /\ Whole(dir[n])

LEMMA FilesFacts ==
    /\ DOMAIN Files = {n \in DOMAIN dir : Whole(dir[n])}
    /\ \A n \in DOMAIN Files : Files[n] = dir[n][1].source
    /\ Files = [n \in DOMAIN Files |-> Files[n]]
  BY DEF Files

\* A step that changes one name, and no container under it, changes nothing
\* of what the vault holds.
LEMMA NothingHeld ==
    ASSUME NEW n, ~Held(n), ~Held(n)',
           \A m : m # n =>
              /\ m \in DOMAIN dir' <=> m \in DOMAIN dir
              /\ m \in DOMAIN dir => dir'[m] = dir[m]
    PROVE  Files' = Files
<1>1. \A m : m \in DOMAIN Files' <=> m \in DOMAIN Files
  BY DEF Files, Held
<1>2. \A m \in DOMAIN Files : m # n /\ Files'[m] = Files[m]
  BY <1>1 DEF Files, Held
<1> QED
  BY <1>1, <1>2, FilesFacts DEF Files

\* Parts of a container, and what a failed write leaves, are no container.
LEMMA PartIsNotWhole ==
    ASSUME NEW w \in Windows, NEW s \in Sources, NEW password \in Passwords,
           NEW k \in Nat, NEW c, c = [i \in 1..k |-> Piece(s, password, w, i)],
           k < IF s \in Large THEN LargePieces ELSE 1
    PROVE  ~Whole(c) /\ ~Whole(WrittenAt(c, k + 1, Hole))
<1>1. c \in Seq(Pieces) /\ Len(c) = k
  BY PieceTypes
<1>2. ~Whole(c)
  <2>1. CASE k = 0
    BY <1>1, <2>1 DEF Whole, Coherent
  <2>2. CASE k # 0
    <3>1. c[1] = Piece(s, password, w, 1)
      BY <2>2
    <3>2. c[1].of = IF s \in Large THEN LargePieces ELSE 1
      BY <3>1, PieceTypes
    <3> QED
      BY <1>1, <3>2 DEF Whole
  <2> QED
    BY <2>1, <2>2
<1> DEFINE d == WrittenAt(c, k + 1, Hole)
<1>3. DOMAIN d = 1..(k + 1) /\ d[k + 1] = Hole
  BY <1>1 DEF WrittenAt
<1>4. ~Coherent(d)
  <2>1. Hole.n = 0 /\ k + 1 \in DOMAIN d
    BY <1>3 DEF Hole, Piece
  <2>2. [d[1] EXCEPT !.n = k + 1] # Hole
    BY <2>1 DEF Hole, Piece
  <2> QED
    BY <1>3, <2>1, <2>2 DEF Coherent
<1> QED
  BY <1>2, <1>4 DEF Whole

-----------------------------------------------------------------------------
(* What a window shows.                                                    *)

LEMMA ChoiceTypes ==
    ASSUME ListTypes
    PROVE  /\ Choice \in [Windows -> Names \cup {None}]
           /\ \A w \in Windows : selected[w] # 0 =>
                Choice[w] = Chosen(w) /\ Chosen(w) \in Names /\ Choice[w] # None
<1>1. ASSUME NEW w \in Windows, selected[w] # 0
      PROVE  Chosen(w) \in Names
  BY <1>1 DEF ListTypes, Chosen
<1>2. None \notin Names
  BY NamesAssumption DEF Names
<1> QED
  BY <1>1, <1>2 DEF Choice

\* Only a window itself changes what it has selected.
LEMMA StepChooses ==
    ASSUME Types, ListTypes, ListTypes', NEW w \in Windows, Step(w)
    PROVE  Safe!Choose(w)
<1>1. ASSUME NEW v \in Windows \ {w}
      PROVE  list'[v] = list[v] /\ selected'[v] = selected[v]
  <2>1. list \in [Windows -> Seq(Names)] /\ selected \in [Windows -> Nat]
    BY DEF ListTypes
  <2>2. \A d : Refreshed(w, d) => list'[v] = list[v] /\ selected'[v] = selected[v]
    BY <2>1 DEF Refreshed
  <2> QED
    BY <1>1, <2>1, <2>2
    DEF Step, Start, Stop, Initialize, CreateConfig, WriteConfig,
        WriteConfigFails, Unlock, Lock, Refresh, Select, ImportStart,
        ImportSmall, ImportCreate, ImportWrite, ImportLarge, ImportReturns,
        ImportFails, ExportRead, ExportInstall, ExportFails, DeleteLocal,
        window
<1>2. /\ Choice \in [Windows -> Names \cup {None}]
      /\ Choice' \in [Windows -> Names \cup {None}]
  <2>1. Choice \in [Windows -> Names \cup {None}]
    BY ChoiceTypes
  <2>2. (ListTypes => Choice \in [Windows -> Names \cup {None}])'
    BY ChoiceTypes, PTL
  <2> QED
    BY <2>1, <2>2
<1>3. \A v \in Windows \ {w} : Choice'[v] = Choice[v]
  BY <1>1 DEF Choice, Chosen
<1>4. Choice' = [Choice EXCEPT ![w] = Choice'[w]]
  BY <1>2, <1>3
<1> QED
  BY <1>2, <1>4 DEF Safe!Choose

-----------------------------------------------------------------------------
(* How a step changes what the vault holds.                                *)

\* The state of an import that is writing: what it has written is a part.
LEMMA WritingFacts ==
    ASSUME Inv, NEW w \in Windows, pc[w] = "writing"
    PROVE  /\ arg[w] \in Sources /\ arg[w] \in Large
           /\ session[w] \in Passwords /\ offset[w] \in Nat /\ linked[w]
           /\ FileName[arg[w]] \in DOMAIN dir
           /\ dir[FileName[arg[w]]] = Written(w)
  BY DEF Inv, PasswordInv, Types, WindowTypes, VaultTypes, ImportInv, Unlocked

\* While it has not written all of it, the vault does not hold its file.
LEMMA NotHeldYet ==
    ASSUME Inv, NEW w \in Windows, pc[w] = "writing", offset[w] < LargePieces
    PROVE  /\ ~Held(FileName[arg[w]])
           /\ ~Whole(WrittenAt(Written(w), offset[w] + 1, Hole))
<1>1. PICK s \in Sources, password \in Passwords, k \in Nat :
        /\ s = arg[w] /\ password = session[w] /\ k = offset[w] /\ s \in Large
  BY WritingFacts
<1>2. Written(w) = [i \in 1..k |-> Piece(s, password, w, i)]
  BY <1>1 DEF Written
<1>3. k < IF s \in Large THEN LargePieces ELSE 1
  BY <1>1
<1>4. ~Whole(Written(w)) /\ ~Whole(WrittenAt(Written(w), k + 1, Hole))
  BY <1>2, <1>3, PartIsNotWhole
<1> QED
  BY <1>1, <1>4, WritingFacts DEF Held

\* The steps of one name that leave what the vault holds.
LEMMA PutNothing ==
    ASSUME NEW n, NEW c, dir' = Put(dir, n, c), ~Held(n), ~Whole(c)
    PROVE  Files' = Files
<1>1. /\ n \in DOMAIN dir' /\ dir'[n] = c
      /\ \A m : m # n => /\ m \in DOMAIN dir' <=> m \in DOMAIN dir
                         /\ m \in DOMAIN dir => dir'[m] = dir[m]
  BY DEF Put
<1>2. ~Held(n)'
  BY <1>1 DEF Held
<1> QED
  BY <1>1, <1>2, NothingHeld

\* The steps that put a whole container into the vault.
LEMMA PutWhole ==
    ASSUME NEW n, NEW c, dir' = Put(dir, n, c), ~Held(n), Whole(c)
    PROVE  /\ n \notin DOMAIN Files
           /\ Files' = [m \in DOMAIN Files \cup {n} |->
                          IF m = n THEN c[1].source ELSE Files[m]]
<1>1. /\ DOMAIN dir' = DOMAIN dir \cup {n} /\ dir'[n] = c
      /\ \A m \in DOMAIN dir \ {n} : dir'[m] = dir[m]
  BY DEF Put
<1>2. n \notin DOMAIN Files
  BY DEF Files, Held
<1>3. DOMAIN Files' = DOMAIN Files \cup {n}
  BY <1>1 DEF Files
<1>4. Files'[n] = c[1].source
  BY <1>1, <1>3 DEF Files
<1>5. \A m \in DOMAIN Files : Files'[m] = Files[m]
  BY <1>1, <1>2, <1>3 DEF Files
<1> QED
  BY <1>2, <1>3, <1>4, <1>5 DEF Files

\* A deletion removes one name.
LEMMA RemoveOne ==
    ASSUME NEW n, dir' = Restrict(dir, DOMAIN dir \ {n})
    PROVE  Files' = [m \in DOMAIN Files \ {n} |-> Files[m]]
<1>1. DOMAIN dir' = DOMAIN dir \ {n} /\ \A m \in DOMAIN dir' : dir'[m] = dir[m]
  BY DEF Restrict
<1>2. DOMAIN Files' = DOMAIN Files \ {n}
  BY <1>1 DEF Files
<1>3. \A m \in DOMAIN Files' : Files'[m] = Files[m]
  BY <1>1, <1>2 DEF Files
<1> QED
  BY <1>2, <1>3 DEF Files

-----------------------------------------------------------------------------
(* Each step is one of Safe, or none.                                      *)

\* A step that changes neither the verifier, nor a session, nor a container,
\* nor decrypted bytes is invisible, but for what the window shows.
Quiet == UNCHANGED <<Key, Users, Files, Copies, dest>>

LEMMA QuietFacts ==
    /\ config' = config => Key' = Key
    /\ session' = session => Users' = Users
    /\ dir' = dir => Files' = Files
    /\ out' = out => Copies' = Copies
    /\ list' = list /\ selected' = selected => Choice' = Choice
  BY DEF Key, Users, Files, Copies, Choice, Chosen

\* The windows that have given the password.
LEMMA UsersFacts ==
    ASSUME Types, NEW w \in Windows
    PROVE  /\ pc[w] \in Unlocked <=> w \in Users
           /\ \A p \in Passwords :
                session' = [session EXCEPT ![w] = p] => Users' = Users \cup {w}
           /\ session' = [session EXCEPT ![w] = None] => Users' = Users \ {w}
<1>1. session \in [Windows -> Passwords \cup {None}]
  BY DEF Types, WindowTypes
<1>2. pc[w] \in Unlocked <=> w \in Users
  BY DEF Types, WindowTypes, Users
<1>3. ASSUME NEW p \in Passwords, session' = [session EXCEPT ![w] = p]
      PROVE  Users' = Users \cup {w}
  BY <1>1, <1>3, VaultAssumption DEF Users
<1>4. ASSUME session' = [session EXCEPT ![w] = None]
      PROVE  Users' = Users \ {w}
  BY <1>1, <1>4 DEF Users
<1> QED
  BY <1>2, <1>3, <1>4

LEMMA CopiesFacts ==
    ASSUME OutTypes, NEW w \in Windows, NEW p, out' = [out EXCEPT ![w] = p]
    PROVE  Copies' = [Copies EXCEPT ![w] = Bytes(p)]
  BY DEF OutTypes, Copies

LEMMA NothingIsAbsent == Bytes(Absent) = Safe!Nothing
  BY DEF Bytes, Absent, Plain, Safe!Nothing, Safe!Copy

\* The session handlers: a new vault, a password given, a window closed.
LEMMA SessionRefines ==
    ASSUME SafeInv, SafeInv', NEW w \in Windows, Step(w),
           \/ Start(w) \/ Stop(w)
           \/ (\E password \in Passwords : Initialize(w, password))
           \/ CreateConfig(w) \/ WriteConfig(w) \/ WriteConfigFails(w)
           \/ (\E password \in Passwords : Unlock(w, password)) \/ Lock(w)
    PROVE  [Safe!Next]_(Safe!vars)
<1>1. Types /\ ListTypes /\ ListTypes' /\ OutTypes /\ VerifierInv
  BY DEF SafeInv, Inv, PasswordInv
<1>2. Safe!Choose(w)
  BY <1>1, StepChooses
<1>3. CASE Start(w) \/ WriteConfigFails(w)
           \/ (\E password \in Passwords : Initialize(w, password))
  BY <1>3, QuietFacts
  DEF Start, WriteConfigFails, Initialize, window, Safe!vars
<1>4. CASE CreateConfig(w)
  <2>1. UNCHANGED <<dir, dest, out, session, list, selected>>
    BY <1>4 DEF CreateConfig, window
  <2>2. config' = config \/ (config = None /\ config' = "partial")
    BY <1>4 DEF CreateConfig
  <2>3. Key' = Key
    BY <2>2, VaultAssumption DEF Key
  <2> QED
    BY <2>1, <2>3, QuietFacts DEF Safe!vars
<1>5. CASE WriteConfig(w)
  <2>1. /\ pc[w] = "created" /\ config' = arg[w]
        /\ session' = [session EXCEPT ![w] = arg[w]]
        /\ UNCHANGED <<dir, dest, out>>
    BY <1>5 DEF WriteConfig, Goto
  <2>2. arg[w] \in Passwords /\ config = "partial"
    BY <1>1, <2>1 DEF Types, WindowTypes, VerifierInv
  <2>3. Key = None /\ Key' \in Passwords
    BY <2>1, <2>2, VaultAssumption DEF Key
  <2>4. Users' = Users \cup {w}
    BY <1>1, <2>1, <2>2, UsersFacts
  <2>5. Safe!Setup(w)
    BY <1>2, <2>1, <2>3, <2>4, QuietFacts DEF Safe!Setup
  <2> QED
    BY <2>5 DEF Safe!Next
<1>6. CASE \E password \in Passwords : Unlock(w, password)
  <2>1. PICK password \in Passwords : Unlock(w, password)
    BY <1>6
  <2>2. /\ config = password /\ session' = [session EXCEPT ![w] = password]
        /\ UNCHANGED <<config, dir, dest, out>>
    BY <2>1 DEF Unlock
  <2>3. Key # None
    BY <2>2, VaultAssumption DEF Key
  <2>4. Users' = Users \cup {w}
    BY <1>1, <2>2, UsersFacts
  <2>5. Safe!Enter(w)
    BY <1>2, <2>2, <2>3, <2>4, QuietFacts DEF Safe!Enter
  <2> QED
    BY <2>5 DEF Safe!Next
<1>7. CASE Lock(w) \/ Stop(w)
  <2>1. /\ session' = [session EXCEPT ![w] = None]
        /\ selected' = [selected EXCEPT ![w] = 0]
        /\ UNCHANGED <<config, dir, dest>>
    BY <1>7 DEF Lock, Stop
  <2>2. out' = [out EXCEPT ![w] = Absent]
    <3>1. CASE Stop(w)
      BY <3>1 DEF Stop
    <3>2. CASE Lock(w)
      <4>1. out' = out /\ out[w] = Absent /\ out = [v \in Windows |-> out[v]]
        BY <1>1, <3>2 DEF Lock, Goto, OutTypes
      <4> QED
        BY <4>1
    <3> QED
      BY <1>7, <3>1, <3>2
  <2>3. Copies' = [Copies EXCEPT ![w] = Safe!Nothing]
    BY <1>1, <2>2, CopiesFacts, NothingIsAbsent
  <2>4. Choice' = [Choice EXCEPT ![w] = None]
    <3>1. selected'[w] = 0
      BY <1>1, <2>1 DEF ListTypes
    <3>2. Choice'[w] = None
      BY <3>1 DEF Choice
    <3>3. PICK n \in Names \cup {None} : Choice' = [Choice EXCEPT ![w] = n]
      BY <1>2 DEF Safe!Choose
    <3> QED
      BY <3>2, <3>3 DEF Choice
  <2>5. Users' = Users \ {w}
    BY <1>1, <2>1, UsersFacts
  <2>6. Safe!Leave(w)
    BY <2>1, <2>3, <2>4, <2>5, QuietFacts DEF Safe!Leave
  <2> QED
    BY <2>6 DEF Safe!Next
<1> QED
  BY <1>3, <1>4, <1>5, <1>6, <1>7

\* What a window may look at without changing anything.
LEMMA LookRefines ==
    ASSUME SafeInv, SafeInv', NEW w \in Windows, Step(w), pc[w] \in Unlocked,
           Quiet
    PROVE  [Safe!Next]_(Safe!vars)
<1>1. Types /\ ListTypes /\ ListTypes'
  BY DEF SafeInv, Inv, PasswordInv
<1>2. w \in Users /\ Safe!Choose(w)
  BY <1>1, UsersFacts, StepChooses
<1>3. Safe!Look(w)
  BY <1>2 DEF Safe!Look, Quiet
<1> QED
  BY <1>3 DEF Safe!Next

\* The handlers of one import.
LEMMA ImportRefines ==
    ASSUME SafeInv, SafeInv', NEW w \in Windows, Step(w),
           \/ (\E s \in Sources : ImportStart(w, s))
           \/ ImportSmall(w) \/ ImportCreate(w) \/ ImportWrite(w)
           \/ ImportLarge(w) \/ ImportFails(w)
    PROVE  [Safe!Next]_(Safe!vars)
<1>1. Inv /\ Types /\ ListTypes /\ ListTypes' /\ ImportInv
  BY DEF SafeInv, Inv, PasswordInv
<1>2. pc[w] \in Unlocked
  BY DEF Goto, Unlocked, ImportStart, ImportSmall, ImportCreate, ImportWrite,
         ImportLarge, ImportFails
<1>3. w \in Users /\ Safe!Choose(w)
  BY <1>1, <1>2, UsersFacts, StepChooses
<1>4. UNCHANGED <<config, dest, out, session>>
  BY DEF ImportStart, ImportSmall, ImportCreate, ImportWrite, ImportLarge,
         ImportFails, window
<1>5. UNCHANGED <<Key, Users, Copies, dest>>
  BY <1>4, QuietFacts
<1>6. CASE Files' = Files
  BY <1>2, <1>5, <1>6, LookRefines DEF Quiet
<1>7. ASSUME NEW s \in Sources, NEW c, dir' = Put(dir, FileName[s], c),
             ~Held(FileName[s]), Whole(c), c[1].source = s
      PROVE  [Safe!Next]_(Safe!vars)
  <2>1. /\ FileName[s] \notin DOMAIN Files
        /\ Files' = [n \in DOMAIN Files \cup {FileName[s]} |->
                       IF n = FileName[s] THEN s ELSE Files[n]]
    BY <1>7, PutWhole
  <2>2. Safe!Store(w)
    BY <1>3, <1>5, <2>1 DEF Safe!Store
  <2> QED
    BY <2>2 DEF Safe!Next
<1>8. CASE (\E s \in Sources : ImportStart(w, s)) \/ ImportLarge(w)
  <2>1. dir' = dir
    BY <1>8 DEF ImportStart, ImportLarge
  <2> QED
    BY <1>6, <2>1, QuietFacts
<1>9. CASE ImportSmall(w)
  <2>1. /\ pc[w] = "import" /\ arg[w] \notin Large
        /\ dir' = Put(dir, FileName[arg[w]], <<Piece(arg[w], session[w], w, 1)>>)
    BY <1>9 DEF ImportSmall, Goto
  <2>2. PICK s \in Sources, password \in Passwords :
          s = arg[w] /\ password = session[w] /\ s \notin Large
    BY <1>1, <2>1 DEF Types, WindowTypes, Unlocked
  <2>3. PICK c : c = <<Piece(s, password, w, 1)>>
    OBVIOUS
  <2>4. c = [i \in 1..1 |-> Piece(s, password, w, i)]
    BY <2>3, PieceTypes
  <2>5. Whole(c) /\ c[1].source = s
    <3>1. PICK k \in Nat \ {0} : k = 1
      OBVIOUS
    <3>2. /\ k = IF s \in Large THEN LargePieces ELSE 1
          /\ c = [i \in 1..k |-> Piece(s, password, w, i)]
      BY <2>2, <2>4, <3>1
    <3> QED
      BY <3>2, AllPiecesAreWhole
  <2>6. ~Held(FileName[s])
    BY <1>1, <2>1, <2>2 DEF ImportInv, Held
  <2> QED
    BY <1>7, <2>1, <2>2, <2>3, <2>5, <2>6
<1>10. CASE ImportCreate(w)
  <2>1. pc[w] = "import" /\ dir' = Put(dir, FileName[arg[w]], <<>>)
    BY <1>10 DEF ImportCreate, Goto
  <2>2. ~Held(FileName[arg[w]]) /\ ~Whole(<<>>)
    BY <1>1, <2>1 DEF ImportInv, Held, Whole, Coherent
  <2> QED
    BY <1>6, <2>1, <2>2, PutNothing
<1>11. ASSUME pc[w] = "writing", NEW piece, Write(w, piece)
       PROVE  dir' = Put(dir, FileName[arg[w]],
                         WrittenAt(Written(w), offset[w] + 1, piece))
  BY <1>1, <1>11, WritingFacts DEF Write
<1>12. CASE ImportWrite(w)
  <2>1. /\ pc[w] = "writing" /\ offset[w] < LargePieces
        /\ Write(w, Piece(arg[w], session[w], w, offset[w] + 1))
    BY <1>12 DEF ImportWrite
  <2>2. PICK s \in Sources, password \in Passwords, k \in Nat :
          s = arg[w] /\ password = session[w] /\ k = offset[w] /\ s \in Large
    BY <1>1, <2>1, WritingFacts
  <2>3. PICK c : c = [i \in 1..(k + 1) |-> Piece(s, password, w, i)]
    OBVIOUS
  <2>4. dir' = Put(dir, FileName[s], c)
    <3>1. WrittenAt(Written(w), k + 1, Piece(s, password, w, k + 1)) = c
      BY <2>2, <2>3, WrittenNext DEF Written
    <3> QED
      BY <1>11, <2>1, <2>2, <3>1
  <2>5. ~Held(FileName[s])
    BY <1>1, <2>1, <2>2, NotHeldYet
  <2>6. CASE k + 1 < LargePieces
    <3>1. PICK l \in Nat : l = k + 1
      OBVIOUS
    <3>2. /\ c = [i \in 1..l |-> Piece(s, password, w, i)]
          /\ l < IF s \in Large THEN LargePieces ELSE 1
      BY <2>2, <2>3, <2>6, <3>1
    <3>3. ~Whole(c)
      BY <3>2, PartIsNotWhole
    <3> QED
      BY <1>6, <2>4, <2>5, <3>3, PutNothing
  <2>7. CASE k + 1 = LargePieces
    <3>1. PICK l \in Nat \ {0} : l = k + 1
      OBVIOUS
    <3>2. /\ c = [i \in 1..l |-> Piece(s, password, w, i)]
          /\ l = IF s \in Large THEN LargePieces ELSE 1
      BY <2>2, <2>3, <2>7, <3>1
    <3>3. Whole(c) /\ c[1].source = s
      BY <3>2, AllPiecesAreWhole
    <3> QED
      BY <1>7, <2>4, <2>5, <3>3
  <2> QED
    BY <2>1, <2>2, <2>6, <2>7, VaultAssumption
<1>13. CASE ImportFails(w)
  <2>1. \/ dir' = dir
        \/ pc[w] = "writing" /\ offset[w] < LargePieces /\ Write(w, Hole)
    BY <1>13 DEF ImportFails, Goto
  <2>2. CASE pc[w] = "writing" /\ offset[w] < LargePieces /\ Write(w, Hole)
    BY <1>1, <1>6, <1>11, <2>2, NotHeldYet, PutNothing
  <2> QED
    BY <1>6, <2>1, <2>2, QuietFacts
<1> QED
  BY <1>8, <1>9, <1>10, <1>12, <1>13

\* What an export takes from the vault.
LEMMA OpensFacts ==
    ASSUME SafeInv, NEW n, NEW password \in Passwords, Openable(n, password)
    PROVE  \E s \in Sources :
             Bytes(Opens(n)) = IF n \in DOMAIN Files
                               THEN Safe!Copy(Files[n], TRUE)
                               ELSE Safe!Copy(s, FALSE)
<1>1. n \in DOMAIN dir /\ dir[n] \in Seq(Pieces) /\ dir[n] # <<>>
  BY DEF SafeInv, Inv, PasswordInv, Types, VaultTypes, Openable, Coherent
<1>2. dir[n][1] \in Pieces /\ dir[n][1].password = password
  BY <1>1 DEF Openable
<1>3. dir[n][1] # Hole
  BY <1>2, VaultAssumption DEF Hole, Piece
<1>4. dir[n][1].source \in Sources
  BY <1>2, <1>3 DEF Pieces
<1>5. n \in DOMAIN Files <=> Whole(dir[n])
  BY <1>1, FilesFacts
<1>6. Bytes(Opens(n)) = Safe!Copy(dir[n][1].source, Whole(dir[n]))
  BY DEF Bytes, Opens, Plain, Safe!Copy
<1>7. CASE n \in DOMAIN Files
  BY <1>4, <1>5, <1>6, <1>7, FilesFacts DEF Safe!Copy, Bytes, Opens, Plain
<1>8. CASE n \notin DOMAIN Files
  <2>1. Whole(dir[n]) = FALSE
    BY <1>5, <1>8 DEF Whole
  <2>2. PICK s \in Sources : s = dir[n][1].source
    BY <1>4
  <2>3. Bytes(Opens(n)) = Safe!Copy(s, FALSE)
    BY <1>6, <2>1, <2>2
  <2> QED
    BY <1>8, <2>3
<1> QED
  BY <1>7, <1>8

\* export_local and delete_local.
LEMMA ChosenRefines ==
    ASSUME SafeInv, SafeInv', NEW w \in Windows, Step(w),
           ExportRead(w) \/ ExportInstall(w) \/ ExportFails(w) \/ DeleteLocal(w)
    PROVE  [Safe!Next]_(Safe!vars)
<1>1. Types /\ ListTypes /\ ListTypes' /\ OutTypes
  BY DEF SafeInv, Inv, PasswordInv
<1>2. pc[w] \in Unlocked
  BY DEF Goto, Unlocked, ExportRead, ExportInstall, ExportFails, DeleteLocal
<1>3. w \in Users /\ session[w] \in Passwords
  BY <1>1, <1>2, UsersFacts DEF Types, WindowTypes
<1>4. CASE ExportRead(w)
  <2>1. /\ selected[w] # 0 /\ Openable(Chosen(w), session[w])
        /\ out' = [out EXCEPT ![w] = Opens(Chosen(w))]
        /\ UNCHANGED <<config, dir, dest, session, list, selected>>
    BY <1>4 DEF ExportRead, window
  <2>2. Choice[w] # None /\ Choice[w] = Chosen(w)
    BY <1>1, <2>1, ChoiceTypes
  <2>3. PICK s \in Sources :
          Bytes(Opens(Chosen(w))) = IF Chosen(w) \in DOMAIN Files
                                    THEN Safe!Copy(Files[Chosen(w)], TRUE)
                                    ELSE Safe!Copy(s, FALSE)
    BY <1>3, <2>1, OpensFacts
  <2>4. Copies' = [Copies EXCEPT ![w] = Bytes(Opens(Chosen(w)))]
    BY <1>1, <2>1, CopiesFacts
  <2>5. Safe!Take(w)
    BY <1>3, <2>1, <2>2, <2>3, <2>4, QuietFacts DEF Safe!Take
  <2> QED
    BY <2>5 DEF Safe!Next
<1>5. CASE ExportInstall(w) \/ ExportFails(w)
  <2>1. /\ dest' \in {out[w], Absent}
        /\ out' = [out EXCEPT ![w] = Absent]
        /\ UNCHANGED <<config, dir, session, list, selected>>
    BY <1>5 DEF ExportInstall, ExportFails, window
  <2>2. Copies' = [Copies EXCEPT ![w] = Safe!Nothing]
    BY <1>1, <2>1, CopiesFacts, NothingIsAbsent
  <2>3. Bytes(dest)' \in {Copies[w], Safe!Nothing}
    BY <2>1, NothingIsAbsent DEF Copies, Bytes
  <2>4. Safe!PutDown(w)
    BY <1>3, <2>1, <2>2, <2>3, QuietFacts DEF Safe!PutDown
  <2> QED
    BY <2>4 DEF Safe!Next
<1>6. CASE DeleteLocal(w)
  <2>1. /\ selected[w] # 0 /\ selected' = [selected EXCEPT ![w] = 0]
        /\ dir' = Restrict(dir, DOMAIN dir \ {Chosen(w)})
        /\ UNCHANGED <<config, dest, out, session>>
    BY <1>6 DEF DeleteLocal
  <2>2. Choice[w] # None /\ Choice[w] = Chosen(w)
    BY <1>1, <2>1, ChoiceTypes
  <2>3. Choice' = [Choice EXCEPT ![w] = None]
    <3>1. Choice'[w] = None
      BY <1>1, <2>1 DEF ListTypes, Choice
    <3>2. PICK n \in Names \cup {None} : Choice' = [Choice EXCEPT ![w] = n]
      BY <1>1, StepChooses DEF Safe!Choose
    <3> QED
      BY <3>1, <3>2 DEF Choice
  <2>4. Files' = [n \in DOMAIN Files \ {Choice[w]} |-> Files[n]]
    BY <2>1, <2>2, RemoveOne
  <2>5. Safe!Remove(w)
    BY <1>3, <2>1, <2>2, <2>3, <2>4, QuietFacts DEF Safe!Remove, Bytes
  <2> QED
    BY <2>5 DEF Safe!Next
<1> QED
  BY <1>4, <1>5, <1>6

LEMMA InitSafe == Init => Safe!Init
<1> SUFFICES ASSUME Init PROVE Safe!Init
  OBVIOUS
<1>1. Key = None /\ Users = {} /\ Files = <<>>
  BY DEF Init, Key, Users, Files
<1>2. Choice = [w \in Windows |-> None]
  BY DEF Init, Choice
<1>3. Copies = [w \in Windows |-> Safe!Nothing]
  BY NothingIsAbsent DEF Init, Copies
<1>4. Bytes(dest) = Safe!Copy("old", TRUE)
  BY DEF Init, Bytes, Old, Plain, Safe!Copy
<1> QED
  BY <1>1, <1>2, <1>3, <1>4 DEF Safe!Init

\* While no window imports or deletes what another is importing, every step of
\* every window is one step of Safe, or invisible: a container is in the vault
\* from one step to another, under the vault's one password, and goes only
\* when a window with that password removes the one it shows as selected
\* (vault.rs; main.rs, FcloakApp).
THEOREM SafeImplemented == Exclusive => (Spec => ImplementsSafe)
<1> SUFFICES ASSUME Exclusive PROVE Spec => ImplementsSafe
  OBVIOUS
<1>1. SafeInv /\ [Next]_vars => [Safe!Next]_(Safe!vars)
  <2> SUFFICES ASSUME SafeInv, [Next]_vars PROVE [Safe!Next]_(Safe!vars)
    OBVIOUS
  <2>1. SafeInv'
    BY SafeStep
  <2>2. CASE UNCHANGED vars
    BY <2>2, QuietFacts DEF vars, Safe!vars, Bytes
  <2>3. ASSUME NEW w \in Windows, Step(w) PROVE [Safe!Next]_(Safe!vars)
    <3>1. CASE \/ Start(w) \/ Stop(w)
               \/ (\E password \in Passwords : Initialize(w, password))
               \/ CreateConfig(w) \/ WriteConfig(w) \/ WriteConfigFails(w)
               \/ (\E password \in Passwords : Unlock(w, password)) \/ Lock(w)
      BY <2>1, <2>3, <3>1, SessionRefines
    <3>2. CASE Refresh(w) \/ Select(w)
      <4>1. pc[w] \in Unlocked
        BY <3>2 DEF Refresh, Select, Unlocked
      <4>2. Quiet
        BY <3>2, QuietFacts DEF Refresh, Select, Quiet
      <4> QED
        BY <2>1, <2>3, <4>1, <4>2, LookRefines
    <3>3. CASE \/ (\E s \in Sources : ImportStart(w, s))
               \/ ImportSmall(w) \/ ImportCreate(w) \/ ImportWrite(w)
               \/ ImportLarge(w) \/ ImportFails(w)
      BY <2>1, <2>3, <3>3, ImportRefines
    <3>4. CASE \/ ExportRead(w) \/ ExportInstall(w) \/ ExportFails(w)
               \/ DeleteLocal(w)
      BY <2>1, <2>3, <3>4, ChosenRefines
    <3> QED
      BY <2>3, <3>1, <3>2, <3>3, <3>4 DEF Step
  <2> QED
    BY <2>2, <2>3, SomeStep
<1>2. Spec => []SafeInv
  BY SpecSafeInv
<1> QED
  BY <1>1, <1>2, InitSafe, PTL DEF Spec, ImplementsSafe, Safe!Spec
=============================================================================
