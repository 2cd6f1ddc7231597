----------------------------- MODULE VaultProofs -----------------------------
(* Theorems about Vault, for every value of its constants.                 *)
EXTENDS Vault, WellFoundedInduction, TLAPS

USE VaultAssumption

-----------------------------------------------------------------------------
(* The inductive invariant.                                                *)

Unlocked == {"idle", "import", "writing", "export"}
Places == {"off", "setup", "hashing", "created", "locked"} \cup Unlocked

Pieces == {Hole} \cup [source : Sources, password : Passwords, by : Windows,
                       n : Nat, of : Nat]

\* The types of what a window keeps, and of what its handler works on.
WindowTypes ==
    /\ pc \in [Windows -> Places]
    /\ session \in [Windows -> Passwords \cup {None}]
    /\ arg \in [Windows -> Passwords \cup Sources \cup {None}]
    /\ offset \in [Windows -> 0..LargePieces]
    /\ linked \in [Windows -> BOOLEAN]
    /\ \A w \in Windows :
        /\ (session[w] # None) <=> (pc[w] \in Unlocked)
        /\ pc[w] \in {"hashing", "created"} => arg[w] \in Passwords
        /\ pc[w] \in {"import", "writing"} => arg[w] \in Sources
        /\ pc[w] = "writing" => arg[w] \in Large

\* The types of what the windows share; a file that is written and still in
\* the vault is there.
VaultTypes ==
    /\ config \in Passwords \cup {None, "partial"}
    /\ DOMAIN dir \subseteq Names /\ DOMAIN kept \subseteq Names
    /\ \A n \in DOMAIN dir : dir[n] \in Seq(Pieces)
    /\ \A w \in Windows :
        linked[w] => pc[w] = "writing" /\ FileName[arg[w]] \in DOMAIN dir

Types == WindowTypes /\ VaultTypes

\* The verifier is written once: by the one window that created it.
VerifierInv ==
    /\ \A w \in Windows : pc[w] = "created" => config = "partial"
    /\ \A v, w \in Windows : pc[v] = "created" /\ pc[w] = "created" => v = w
    /\ \A w \in Windows : session[w] # None => session[w] = config

\* A piece is one of a container under the vault's password.
Under(piece, password) ==
    piece = Hole \/ (piece.password = password /\ password \in Passwords)

PiecesInv ==
    \A n \in DOMAIN dir : \A i \in DOMAIN dir[n] : Under(dir[n][i], config)

\* What one window may do.
Step(w) ==
    \/ Start(w) \/ Stop(w)
    \/ \E password \in Passwords : Initialize(w, password)
    \/ CreateConfig(w) \/ WriteConfig(w) \/ WriteConfigFails(w)
    \/ \E password \in Passwords : Unlock(w, password)
    \/ Lock(w) \/ Refresh(w) \/ Select(w)
    \/ \E s \in Sources : ImportStart(w, s)
    \/ ImportSmall(w) \/ ImportCreate(w) \/ ImportWrite(w) \/ ImportLarge(w)
    \/ ImportFails(w)
    \/ ExportRead(w) \/ ExportInstall(w) \/ ExportFails(w) \/ DeleteLocal(w)

LEMMA SomeStep == [Next]_vars => UNCHANGED vars \/ \E w \in Windows : Step(w)
  BY DEF Next, Step

-----------------------------------------------------------------------------
(* Lemmas about the operators.                                             *)

\* The pieces of a container are pieces, and so is a hole.
LEMMA PieceTypes ==
    ASSUME NEW s \in Sources, NEW password \in Passwords, NEW w \in Windows,
           NEW n \in Nat
    PROVE  /\ Piece(s, password, w, n) \in Pieces
           /\ Piece(s, password, w, n) # Hole
           /\ Piece(s, password, w, n).source = s
           /\ Piece(s, password, w, n).password = password
           /\ Piece(s, password, w, n).n = n
           /\ Piece(s, password, w, n).of = IF s \in Large THEN LargePieces ELSE 1
  BY DEF Piece, Pieces, Hole

LEMMA HoleTypes == Hole \in Pieces
  BY DEF Piece, Pieces, Hole

\* A container with one more piece written into it is one of pieces, each of
\* which was there, is the new one, or is a hole.
LEMMA WrittenFacts ==
    ASSUME NEW c \in Seq(Pieces), NEW k \in Nat \ {0}, NEW piece \in Pieces
    PROVE  /\ WrittenAt(c, k, piece) \in Seq(Pieces)
           /\ \A i \in DOMAIN WrittenAt(c, k, piece) :
                 \/ i \in DOMAIN c /\ WrittenAt(c, k, piece)[i] = c[i]
                 \/ WrittenAt(c, k, piece)[i] \in {piece, Hole}
<1> DEFINE m == IF k > Len(c) THEN k ELSE Len(c)
<1>1. m \in Nat /\ Len(c) \in Nat
  OBVIOUS
<1>2. \A i \in 1..m :
        (IF i = k THEN piece ELSE IF i <= Len(c) THEN c[i] ELSE Hole) \in Pieces
  BY HoleTypes
<1>3. WrittenAt(c, k, piece) \in Seq(Pieces)
  BY <1>1, <1>2 DEF WrittenAt
<1>4. ASSUME NEW i \in DOMAIN WrittenAt(c, k, piece)
      PROVE  \/ i \in DOMAIN c /\ WrittenAt(c, k, piece)[i] = c[i]
             \/ WrittenAt(c, k, piece)[i] \in {piece, Hole}
  <2>1. i \in 1..m
    BY <1>4 DEF WrittenAt
  <2>2. WrittenAt(c, k, piece)[i] =
          IF i = k THEN piece ELSE IF i <= Len(c) THEN c[i] ELSE Hole
    BY <2>1 DEF WrittenAt
  <2> QED
    BY <2>1, <2>2, <1>1
<1> QED
  BY <1>3, <1>4

\* The names of the sources are names.
LEMMA NamesOfSources == \A s \in Sources : FileName[s] \in Names
  BY DEF Names

-----------------------------------------------------------------------------
(* Every step keeps the types.                                             *)

LEMMA InitTypes == Init => Types
<1> SUFFICES ASSUME Init PROVE Types
  OBVIOUS
<1>1. WindowTypes
  BY DEF Init, WindowTypes, Places, Unlocked
<1>2. DOMAIN dir = {} /\ DOMAIN kept = {}
  BY DEF Init
<1>3. VaultTypes
  BY <1>2 DEF Init, VaultTypes
<1> QED
  BY <1>1, <1>3 DEF Types

\* What a window keeps, whatever it does.
LEMMA WindowTypesStep == Types /\ [Next]_vars => WindowTypes'
<1> SUFFICES ASSUME Types, [Next]_vars PROVE WindowTypes'
  OBVIOUS
<1> USE DEF Types, WindowTypes, Places, Unlocked, Goto, Over
<1>1. CASE UNCHANGED vars
  BY <1>1 DEF vars
<1>2. SUFFICES ASSUME NEW w \in Windows, Step(w) PROVE WindowTypes'
  BY <1>1, SomeStep
<1>3. CASE Start(w)
  BY <1>3 DEF Start, window, import
<1>4. CASE Stop(w)
  BY <1>4 DEF Stop
<1>5. CASE \E password \in Passwords : Initialize(w, password)
  BY <1>5 DEF Initialize, window, import
<1>6. CASE CreateConfig(w)
  <2>1. CASE config = None
    BY <1>6, <2>1 DEF CreateConfig, window, import
  <2>2. CASE config # None
    <3>1. Goto(w, "hashing", "setup") /\ Over(w) /\ UNCHANGED session
      BY <1>6, <2>2 DEF CreateConfig, window
    <3> QED
      BY <3>1
  <2> QED
    BY <2>1, <2>2
<1>7. CASE WriteConfig(w)
  BY <1>7 DEF WriteConfig
<1>8. CASE WriteConfigFails(w)
  BY <1>8 DEF WriteConfigFails, window
<1>9. CASE \E password \in Passwords : Unlock(w, password)
  BY <1>9 DEF Unlock, import
<1>10. CASE Lock(w)
  BY <1>10 DEF Lock, import
<1>11. CASE Refresh(w) \/ Select(w)
  BY <1>11 DEF Refresh, Select, import
<1>12. CASE \E s \in Sources : ImportStart(w, s)
  BY <1>12 DEF ImportStart, window, import
<1>13. CASE ImportSmall(w)
  BY <1>13 DEF ImportSmall
<1>14. CASE ImportCreate(w)
  BY <1>14 DEF ImportCreate, window
<1>15. CASE ImportWrite(w)
  BY <1>15 DEF ImportWrite, window
<1>16. CASE ImportLarge(w)
  BY <1>16 DEF ImportLarge
<1>17. CASE ImportFails(w)
  BY <1>17 DEF ImportFails, window
<1>18. CASE ExportRead(w) \/ ExportInstall(w) \/ ExportFails(w)
  BY <1>18 DEF ExportRead, ExportInstall, ExportFails, window, import
<1>19. CASE DeleteLocal(w)
  BY <1>19 DEF DeleteLocal
<1> QED
  BY <1>2, <1>3, <1>4, <1>5, <1>6, <1>7, <1>8, <1>9, <1>10, <1>11, <1>12,
     <1>13, <1>14, <1>15, <1>16, <1>17, <1>18, <1>19 DEF Step

\* c differs from what the vault holds as n by pieces under password only.
Added(n, c, password) ==
    \A i \in DOMAIN c :
        \/ Under(c[i], password)
        \/ n \in DOMAIN dir /\ i \in DOMAIN dir[n] /\ c[i] = dir[n][i]

\* A piece that a window writes to its file.
LEMMA WriteFacts ==
    ASSUME Types, NEW w \in Windows, pc[w] = "writing", linked[w],
           NEW piece \in Pieces, Under(piece, session[w])
    PROVE  LET n == FileName[arg[w]]
               c == WrittenAt(dir[n], offset[w] + 1, piece)
           IN  n \in Names /\ c \in Seq(Pieces) /\ Added(n, c, session[w])
<1> DEFINE n == FileName[arg[w]]
           c == WrittenAt(dir[n], offset[w] + 1, piece)
<1>1. arg[w] \in Sources /\ n \in DOMAIN dir /\ dir[n] \in Seq(Pieces)
  BY DEF Types, WindowTypes, VaultTypes
<1>2. offset[w] + 1 \in Nat \ {0}
  BY DEF Types, WindowTypes
<1>3. /\ c \in Seq(Pieces)
      /\ \A i \in DOMAIN c :
            (i \in DOMAIN dir[n] /\ c[i] = dir[n][i]) \/ c[i] \in {piece, Hole}
  BY <1>1, <1>2, WrittenFacts
<1>4. Added(n, c, session[w])
  BY <1>1, <1>3 DEF Added, Under
<1> QED
  BY <1>1, <1>3, <1>4, NamesOfSources

\* How one step changes the vault: it removes a file, or it adds to one,
\* or to a new one, pieces under the session password of the window.
LEMMA DirStep ==
    ASSUME Types, NEW w \in Windows, Step(w)
    PROVE  \/ dir' = dir
           \/ \E n \in DOMAIN dir : dir' = Restrict(dir, DOMAIN dir \ {n})
           \/ \E n \in Names, c \in Seq(Pieces) :
                dir' = Put(dir, n, c) /\ Added(n, c, session[w])
<1>1. CASE ImportSmall(w)
  <2> DEFINE n == FileName[arg[w]]
             piece == Piece(arg[w], session[w], w, 1)
  <2>1. /\ pc[w] = "import" /\ dir' = Put(dir, n, <<piece>>)
    BY <1>1 DEF ImportSmall, Goto
  <2>2. arg[w] \in Sources /\ session[w] \in Passwords
    BY <2>1 DEF Types, WindowTypes, Unlocked
  <2>3. piece \in Pieces /\ piece.password = session[w]
    BY <2>2, PieceTypes
  <2>4. <<piece>> \in Seq(Pieces) /\ DOMAIN <<piece>> = {1} /\ <<piece>>[1] = piece
    BY <2>3
  <2>5. Added(n, <<piece>>, session[w])
    BY <2>2, <2>3, <2>4 DEF Added, Under
  <2> QED
    BY <2>1, <2>2, <2>4, <2>5, NamesOfSources
<1>2. CASE ImportCreate(w)
  <2>1. pc[w] = "import" /\ dir' = Put(dir, FileName[arg[w]], <<>>)
    BY <1>2 DEF ImportCreate, Goto
  <2>2. FileName[arg[w]] \in Names
    BY <2>1, NamesOfSources DEF Types, WindowTypes
  <2>3. <<>> \in Seq(Pieces) /\ Added(FileName[arg[w]], <<>>, session[w])
    BY DEF Added
  <2> QED
    BY <2>1, <2>2, <2>3
<1>3. ASSUME NEW piece \in Pieces, Under(piece, session[w]),
             pc[w] = "writing", Write(w, piece)
      PROVE  \/ dir' = dir
             \/ \E n \in Names, c \in Seq(Pieces) :
                  dir' = Put(dir, n, c) /\ Added(n, c, session[w])
  BY <1>3, WriteFacts DEF Write
<1>4. CASE ImportWrite(w)
  <2> DEFINE piece == Piece(arg[w], session[w], w, offset[w] + 1)
  <2>1. pc[w] = "writing" /\ Write(w, piece)
    BY <1>4 DEF ImportWrite
  <2>2. arg[w] \in Sources /\ session[w] \in Passwords /\ offset[w] + 1 \in Nat
    BY <2>1 DEF Types, WindowTypes, Unlocked
  <2>3. piece \in Pieces /\ Under(piece, session[w])
    BY <2>2, PieceTypes DEF Under
  <2> QED
    BY <2>1, <2>3, <1>3
<1>5. CASE ImportFails(w)
  <2>1. dir' = dir \/ (pc[w] = "writing" /\ Write(w, Hole))
    BY <1>5 DEF ImportFails, Goto
  <2> QED
    BY <2>1, <1>3, HoleTypes DEF Under
<1>6. CASE DeleteLocal(w)
  BY <1>6 DEF DeleteLocal
<1> QED
  BY <1>1, <1>2, <1>4, <1>5, <1>6
  DEF Step, Start, Stop, Initialize, CreateConfig, WriteConfig,
      WriteConfigFails, Unlock, Lock, Refresh, Select, ImportStart,
      ImportLarge, ExportRead, ExportInstall, ExportFails

\* The verifier, the names and the containers keep their types.
LEMMA VaultTypesStep ==
    ASSUME Types, [Next]_vars
    PROVE  VaultTypes'
<1>1. CASE UNCHANGED vars
  BY <1>1 DEF vars, Types, VaultTypes
<1>2. SUFFICES ASSUME NEW w \in Windows, Step(w) PROVE VaultTypes'
  BY <1>1, SomeStep
<1>3. config' \in Passwords \cup {None, "partial"}
  <2>1. config \in Passwords \cup {None, "partial"}
    BY DEF Types, VaultTypes
  <2>2. CASE config' \in {config, "partial"}
    BY <2>1, <2>2
  <2>3. CASE WriteConfig(w)
    BY <2>3 DEF WriteConfig, Goto, Types, WindowTypes
  <2> QED
    BY <1>2, <2>2, <2>3
    DEF Step, Start, Stop, Initialize, CreateConfig, WriteConfigFails, Unlock,
        Lock, Refresh, Select, ImportStart, ImportSmall, ImportCreate,
        ImportWrite, ImportLarge, ImportFails, ExportRead, ExportInstall,
        ExportFails, DeleteLocal
<1>4. DOMAIN dir' \subseteq Names /\ \A n \in DOMAIN dir' : dir'[n] \in Seq(Pieces)
  <2>1. DOMAIN dir \subseteq Names /\ \A n \in DOMAIN dir : dir[n] \in Seq(Pieces)
    BY DEF Types, VaultTypes
  <2>2. CASE dir' = dir
    BY <2>1, <2>2
  <2>3. ASSUME NEW n \in DOMAIN dir, dir' = Restrict(dir, DOMAIN dir \ {n})
        PROVE  DOMAIN dir' \subseteq Names /\ \A m \in DOMAIN dir' : dir'[m] \in Seq(Pieces)
    <3>1. /\ DOMAIN dir' = DOMAIN dir \ {n}
          /\ \A m \in DOMAIN dir' : dir'[m] = dir[m]
      BY <2>3 DEF Restrict
    <3> QED
      BY <2>1, <3>1
  <2>4. ASSUME NEW n \in Names, NEW c \in Seq(Pieces), dir' = Put(dir, n, c)
        PROVE  DOMAIN dir' \subseteq Names /\ \A m \in DOMAIN dir' : dir'[m] \in Seq(Pieces)
    <3>1. /\ DOMAIN dir' = DOMAIN dir \cup {n} /\ dir'[n] = c
          /\ \A m \in DOMAIN dir \ {n} : dir'[m] = dir[m]
      BY <2>4 DEF Put
    <3> QED
      BY <2>1, <3>1
  <2> QED
    BY <1>2, <2>2, <2>3, <2>4, DirStep
<1>5. DOMAIN kept' \subseteq Names
  <2>1. DOMAIN kept \subseteq Names
    BY DEF Types, VaultTypes
  <2>2. CASE ImportSmall(w) \/ ImportLarge(w)
    <3>1. pc[w] \in {"import", "writing"} /\ kept' = Put(kept, FileName[arg[w]], arg[w])
      BY <2>2 DEF ImportSmall, ImportLarge, ImportReturns, Goto
    <3>2. FileName[arg[w]] \in Names
      BY <3>1, NamesOfSources DEF Types, WindowTypes
    <3>3. DOMAIN kept' = DOMAIN kept \cup {FileName[arg[w]]}
      BY <3>1 DEF Put
    <3> QED
      BY <2>1, <3>2, <3>3
  <2>3. CASE DeleteLocal(w)
    BY <2>1, <2>3 DEF DeleteLocal, Restrict
  <2>4. CASE kept' = kept
    BY <2>1, <2>4
  <2> QED
    BY <1>2, <2>2, <2>3, <2>4
    DEF Step, Start, Stop, Initialize, CreateConfig, WriteConfig,
        WriteConfigFails, Unlock, Lock, Refresh, Select, ImportStart,
        ImportCreate, ImportWrite, ImportFails, ExportRead, ExportInstall,
        ExportFails
<1>6. ASSUME NEW v \in Windows, linked'[v]
      PROVE  pc'[v] = "writing" /\ FileName[arg'[v]] \in DOMAIN dir'
  <2> USE <1>6 DEF Goto, Over
  <2>1. /\ pc \in [Windows -> Places]
        /\ arg \in [Windows -> Passwords \cup Sources \cup {None}]
        /\ linked \in [Windows -> BOOLEAN]
        /\ linked[v] => pc[v] = "writing" /\ FileName[arg[v]] \in DOMAIN dir
    BY DEF Types, WindowTypes, VaultTypes
  <2>2. CASE Stop(w) \/ WriteConfig(w) \/ WriteConfigFails(w) \/ CreateConfig(w)
    BY <2>1, <2>2 DEF Stop, WriteConfig, WriteConfigFails, CreateConfig, import
  <2>3. CASE \/ Start(w) \/ Lock(w) \/ Refresh(w) \/ Select(w)
             \/ (\E password \in Passwords : Initialize(w, password))
             \/ (\E password \in Passwords : Unlock(w, password))
             \/ (\E s \in Sources : ImportStart(w, s))
             \/ ExportRead(w) \/ ExportInstall(w) \/ ExportFails(w)
    BY <2>1, <2>3
    DEF Start, Lock, Refresh, Select, Initialize, Unlock, ImportStart,
        ExportRead, ExportInstall, ExportFails, import, window
  <2>4. CASE ImportSmall(w)
    BY <2>1, <2>4 DEF ImportSmall, Put
  <2>5. CASE ImportCreate(w)
    BY <2>1, <2>5 DEF ImportCreate, Put
  <2>6. CASE ImportWrite(w)
    BY <2>1, <2>6 DEF ImportWrite, Write, Put
  <2>7. CASE ImportLarge(w)
    BY <2>1, <2>7 DEF ImportLarge
  <2>8. CASE ImportFails(w)
    BY <2>1, <2>8 DEF ImportFails, Write, Put
  <2>9. CASE DeleteLocal(w)
    BY <2>1, <2>9 DEF DeleteLocal, Restrict
  <2> QED
    BY <1>2, <2>2, <2>3, <2>4, <2>5, <2>6, <2>7, <2>8, <2>9 DEF Step
<1> QED
  BY <1>3, <1>4, <1>5, <1>6 DEF VaultTypes

\* The parts of TypeOK are the types.
LEMMA TypesGiveTypeOK == Types => TypeOK
  BY DEF Types, WindowTypes, VaultTypes, TypeOK, Places, Unlocked

LEMMA SpecTypes == Spec => []Types
<1>1. Types /\ [Next]_vars => Types'
  BY WindowTypesStep, VaultTypesStep DEF Types
<1> QED
  BY InitTypes, <1>1, PTL DEF Spec

\* Windows, verifier, containers and handlers keep their types, and a window
\* has a session password exactly while it is unlocked (vault.rs, main.rs).
THEOREM TypeCorrect == Spec => []TypeOK
  BY SpecTypes, TypesGiveTypeOK, PTL

-----------------------------------------------------------------------------
(* One password.                                                           *)

\* The verifier is written once, and every session has its password.
LEMMA VerifierStep == Types /\ VerifierInv /\ [Next]_vars => VerifierInv'
<1> SUFFICES ASSUME Types, VerifierInv, [Next]_vars PROVE VerifierInv'
  OBVIOUS
<1>1. CASE UNCHANGED vars
  BY <1>1 DEF vars, VerifierInv
<1>2. SUFFICES ASSUME NEW w \in Windows, Step(w) PROVE VerifierInv'
  BY <1>1, SomeStep
<1>3. /\ pc \in [Windows -> Places]
      /\ session \in [Windows -> Passwords \cup {None}]
      /\ arg \in [Windows -> Passwords \cup Sources \cup {None}]
      /\ config \in Passwords \cup {None, "partial"}
      /\ \A v \in Windows : pc[v] = "created" => arg[v] \in Passwords
  BY DEF Types, WindowTypes, VaultTypes
<1> USE DEF VerifierInv, Goto
<1>4. CASE CreateConfig(w)
  <2>1. session' = session
    BY <1>4 DEF CreateConfig, window
  <2>2. CASE config = None
    <3>1. pc' = [pc EXCEPT ![w] = "created"] /\ config' = "partial"
      BY <1>4, <2>2 DEF CreateConfig
    <3>2. \A v \in Windows : pc[v] # "created" /\ session[v] = None
      BY <2>2
    <3> QED
      BY <1>3, <2>1, <3>1, <3>2
  <2>3. CASE config # None
    <3>1. pc' = [pc EXCEPT ![w] = "setup"] /\ config' = config
      BY <1>4, <2>3 DEF CreateConfig
    <3> QED
      BY <1>3, <2>1, <3>1
  <2> QED
    BY <2>2, <2>3
<1>5. CASE WriteConfig(w)
  <2>1. /\ pc[w] = "created" /\ pc' = [pc EXCEPT ![w] = "idle"]
        /\ config' = arg[w] /\ session' = [session EXCEPT ![w] = arg[w]]
    BY <1>5 DEF WriteConfig
  <2>2. \A v \in Windows \ {w} : pc[v] # "created" /\ session[v] = None
    BY <1>3, <2>1
  <2> QED
    BY <1>3, <2>1, <2>2
<1>6. CASE \E password \in Passwords : Unlock(w, password)
  BY <1>3, <1>6 DEF Unlock
<1>7. CASE \/ Start(w) \/ Stop(w) \/ WriteConfigFails(w) \/ Lock(w)
           \/ \E password \in Passwords : Initialize(w, password)
  BY <1>3, <1>7 DEF Start, Stop, WriteConfigFails, Lock, Initialize, window
<1>8. CASE \/ Refresh(w) \/ Select(w) \/ ImportSmall(w) \/ ImportCreate(w)
           \/ ImportWrite(w) \/ ImportLarge(w) \/ ImportFails(w)
           \/ (\E s \in Sources : ImportStart(w, s))
           \/ ExportRead(w) \/ ExportInstall(w) \/ ExportFails(w)
           \/ DeleteLocal(w)
  <2>1. config' = config /\ session' = session
    BY <1>8
    DEF Refresh, Select, ImportSmall, ImportCreate, ImportWrite, ImportLarge,
        ImportFails, ImportStart, ExportRead, ExportInstall, ExportFails,
        DeleteLocal, window
  <2>2. \A v \in Windows : pc'[v] = "created" => pc[v] = "created"
    BY <1>3, <1>8
    DEF Refresh, Select, ImportSmall, ImportCreate, ImportWrite, ImportLarge,
        ImportFails, ImportStart, ExportRead, ExportInstall, ExportFails,
        DeleteLocal
  <2> QED
    BY <2>1, <2>2
<1> QED
  BY <1>2, <1>4, <1>5, <1>6, <1>7, <1>8 DEF Step

\* A verifier that is one never changes.
LEMMA ConfigStays ==
    ASSUME Types, VerifierInv, NEW w \in Windows, Step(w), config \in Passwords
    PROVE  config' = config
<1>1. ~WriteConfig(w)
  BY DEF WriteConfig, Goto, VerifierInv
<1> QED
  BY <1>1
  DEF Step, Start, Stop, Initialize, CreateConfig, WriteConfigFails, Unlock,
      Lock, Refresh, Select, ImportStart, ImportSmall, ImportCreate,
      ImportWrite, ImportLarge, ImportFails, ExportRead, ExportInstall,
      ExportFails, DeleteLocal

\* Every piece written is one under the vault's password, for as long as the
\* vault has one.
LEMMA PiecesStep ==
    ASSUME Types, VerifierInv, PiecesInv, [Next]_vars
    PROVE  PiecesInv'
<1>1. CASE UNCHANGED vars
  BY <1>1 DEF vars, PiecesInv
<1>2. SUFFICES ASSUME NEW w \in Windows, Step(w) PROVE PiecesInv'
  BY <1>1, SomeStep
<1>3. \A p : Under(p, config) => Under(p, config')
  BY <1>2, ConfigStays DEF Under
<1>4. CASE dir' = dir
  BY <1>3, <1>4 DEF PiecesInv
<1>5. ASSUME NEW n \in DOMAIN dir, dir' = Restrict(dir, DOMAIN dir \ {n})
      PROVE  PiecesInv'
  <2>1. DOMAIN dir' \subseteq DOMAIN dir /\ \A m \in DOMAIN dir' : dir'[m] = dir[m]
    BY <1>5 DEF Restrict
  <2> QED
    BY <1>3, <2>1 DEF PiecesInv
<1>6. ASSUME NEW n \in Names, NEW c \in Seq(Pieces), dir' = Put(dir, n, c),
             Added(n, c, session[w])
      PROVE  PiecesInv'
  <2>1. session[w] \in Passwords => session[w] = config
    BY DEF VerifierInv
  <2>2. \A i \in DOMAIN c : Under(c[i], config')
    BY <1>3, <1>6, <2>1 DEF Added, Under, PiecesInv
  <2>3. /\ DOMAIN dir' = DOMAIN dir \cup {n} /\ dir'[n] = c
        /\ \A m \in DOMAIN dir \ {n} : dir'[m] = dir[m]
    BY <1>6 DEF Put
  <2> QED
    BY <1>3, <2>2, <2>3 DEF PiecesInv
<1> QED
  BY <1>2, <1>4, <1>5, <1>6, DirStep

PasswordInv == Types /\ VerifierInv /\ PiecesInv

LEMMA PasswordStep == PasswordInv /\ [Next]_vars => PasswordInv'
  BY WindowTypesStep, VaultTypesStep, VerifierStep, PiecesStep
  DEF PasswordInv, Types

LEMMA SpecPasswordInv == Spec => []PasswordInv
<1>1. Init => VerifierInv /\ PiecesInv
  BY DEF Init, VerifierInv, PiecesInv
<1>2. Init => PasswordInv
  BY <1>1, InitTypes DEF PasswordInv
<1> QED
  BY <1>2, PasswordStep, PTL DEF Spec

\* However many windows there are and wherever they stop, every session and
\* every piece of a container has the one password that vault.conf verifies
\* (vault.rs, Vault::initialize).
THEOREM OnePassword == Spec => []OnePasswordPerVault
<1>1. PasswordInv => OnePasswordPerVault
  BY DEF PasswordInv, VerifierInv, PiecesInv, Under, OnePasswordPerVault
<1> QED
  BY SpecPasswordInv, <1>1, PTL

-----------------------------------------------------------------------------
(* What an import leaves in the vault, when no window imports or deletes   *)
(* what another is importing.                                              *)

Importing == {"import", "writing"}

\* The file a streaming import has written so far.
Written(w) == [i \in 1..offset[w] |-> Piece(arg[w], session[w], w, i)]

\* No two windows import files of one name; a name is new until the import
\* creates its file, which then holds exactly what was written.
ImportInv ==
    /\ \A v, w \in Windows :
        pc[v] \in Importing /\ pc[w] \in Importing
        /\ FileName[arg[v]] = FileName[arg[w]] => v = w
    /\ \A w \in Windows :
        pc[w] = "import" => FileName[arg[w]] \notin DOMAIN dir
    /\ \A w \in Windows : pc[w] = "writing" =>
        /\ linked[w]
        /\ FileName[arg[w]] \notin DOMAIN kept
        /\ dir[FileName[arg[w]]] = Written(w)

\* The vault keeps what it promised.
KeptInv ==
    \A n \in DOMAIN kept :
        /\ n \in DOMAIN dir /\ Whole(dir[n])
        /\ dir[n][1].source = kept[n]
        /\ dir[n][1].password = config /\ config \in Passwords

\* A file of decrypted bytes is the one it should be.
Faithful(p) == p.promised # None => p.source = p.promised /\ p.whole

ExportInv ==
    /\ out = [w \in Windows |-> out[w]]
    /\ \A w \in Windows : Faithful(out[w])
    /\ Faithful(dest)

Inv == PasswordInv /\ ImportInv /\ KeptInv

-----------------------------------------------------------------------------
(* What a step leaves alone.                                               *)

\* Another window's handler goes on where it was.
LEMMA OtherWindow ==
    ASSUME Types, NEW w \in Windows, Step(w), NEW v \in Windows \ {w}
    PROVE  /\ pc'[v] = pc[v] /\ session'[v] = session[v]
           /\ arg'[v] = arg[v] /\ offset'[v] = offset[v]
<1>1. /\ pc \in [Windows -> Places]
      /\ session \in [Windows -> Passwords \cup {None}]
      /\ arg \in [Windows -> Passwords \cup Sources \cup {None}]
      /\ offset \in [Windows -> 0..LargePieces]
  BY DEF Types, WindowTypes
<1> USE DEF Goto, Over, window, import
<1>2. CASE CreateConfig(w)
  BY <1>1, <1>2 DEF CreateConfig
<1>3. CASE \/ Start(w) \/ Stop(w) \/ WriteConfig(w) \/ WriteConfigFails(w)
           \/ (\E password \in Passwords : Initialize(w, password))
           \/ (\E password \in Passwords : Unlock(w, password))
           \/ Lock(w) \/ Refresh(w) \/ Select(w)
  BY <1>1, <1>3
  DEF Start, Stop, WriteConfig, WriteConfigFails, Initialize, Unlock, Lock,
      Refresh, Select
<1>4. CASE \/ (\E s \in Sources : ImportStart(w, s))
           \/ ImportSmall(w) \/ ImportCreate(w) \/ ImportWrite(w)
           \/ ImportLarge(w) \/ ImportFails(w)
  BY <1>1, <1>4
  DEF ImportStart, ImportSmall, ImportCreate, ImportWrite, ImportLarge,
      ImportFails
<1>5. CASE ExportRead(w) \/ ExportInstall(w) \/ ExportFails(w) \/ DeleteLocal(w)
  BY <1>1, <1>5 DEF ExportRead, ExportInstall, ExportFails, DeleteLocal
<1> QED
  BY <1>2, <1>3, <1>4, <1>5 DEF Step

\* The step changes nothing that is under the name n.
Same(n) ==
    /\ n \in DOMAIN dir' <=> n \in DOMAIN dir
    /\ n \in DOMAIN dir => dir'[n] = dir[n]
    /\ n \in DOMAIN kept' <=> n \in DOMAIN kept
    /\ n \in DOMAIN kept => kept'[n] = kept[n]
    /\ \A v \in Windows : FileName[arg[v]] = n /\ linked[v] /\ pc'[v] = "writing" => linked'[v]

\* A window that imports works on one name only, and so does one that
\* deletes; no other handler touches a container.
LEMMA OneName ==
    ASSUME Types, NEW w \in Windows, Step(w), NEW n
    PROVE  \/ Same(n)
           \/ pc[w] \in Importing /\ FileName[arg[w]] = n
           \/ /\ DeleteLocal(w) /\ n = Chosen(w)
              /\ n \notin DOMAIN dir' /\ n \notin DOMAIN kept'
<1>1. /\ pc \in [Windows -> Places]
      /\ linked \in [Windows -> BOOLEAN]
      /\ \A v \in Windows : linked[v] => pc[v] = "writing"
      /\ \A v \in Windows : linked[v] => FileName[arg[v]] \in DOMAIN dir
  BY DEF Types, WindowTypes, VaultTypes
<1> USE DEF Importing, Goto, Over, import
<1>2. CASE \/ Start(w) \/ Lock(w) \/ Refresh(w) \/ Select(w)
           \/ (\E password \in Passwords : Initialize(w, password))
           \/ (\E password \in Passwords : Unlock(w, password))
           \/ (\E s \in Sources : ImportStart(w, s))
           \/ ExportRead(w) \/ ExportInstall(w) \/ ExportFails(w)
  BY <1>2
  DEF Same, Start, Lock, Refresh, Select, Initialize, Unlock, ImportStart,
      ExportRead, ExportInstall, ExportFails
<1>3. CASE Stop(w) \/ CreateConfig(w) \/ WriteConfig(w) \/ WriteConfigFails(w)
  <2>1. dir' = dir /\ kept' = kept
    BY <1>3 DEF Stop, CreateConfig, WriteConfig, WriteConfigFails
  <2>2. linked' = [linked EXCEPT ![w] = FALSE] \/ linked' = linked
    BY <1>3 DEF Stop, CreateConfig, WriteConfig, WriteConfigFails
  <2>3. pc'[w] # "writing"
    BY <1>1, <1>3 DEF Stop, CreateConfig, WriteConfig, WriteConfigFails
  <2> QED
    BY <1>1, <2>1, <2>2, <2>3 DEF Same
<1>4. CASE ImportSmall(w) /\ FileName[arg[w]] # n
  BY <1>1, <1>4 DEF ImportSmall, ImportReturns, Put, Same
<1>5. CASE ImportCreate(w) /\ FileName[arg[w]] # n
  BY <1>1, <1>5 DEF ImportCreate, Put, Same
<1>6. CASE ImportWrite(w) /\ FileName[arg[w]] # n
  BY <1>1, <1>6 DEF ImportWrite, Write, Put, Same
<1>7. CASE ImportLarge(w) /\ FileName[arg[w]] # n
  BY <1>1, <1>7 DEF ImportLarge, ImportReturns, Put, Same
<1>8. CASE ImportFails(w) /\ FileName[arg[w]] # n
  BY <1>1, <1>8 DEF ImportFails, Write, Put, Same
<1>9. CASE ImportSmall(w) \/ ImportCreate(w) \/ ImportWrite(w)
           \/ ImportLarge(w) \/ ImportFails(w)
  <2>1. pc[w] \in Importing
    BY <1>9
    DEF ImportSmall, ImportCreate, ImportWrite, ImportLarge, ImportFails
  <2> QED
    BY <1>4, <1>5, <1>6, <1>7, <1>8, <1>9, <2>1
<1>10. CASE DeleteLocal(w) /\ n # Chosen(w)
  BY <1>1, <1>10 DEF DeleteLocal, Restrict, Same
<1>11. CASE DeleteLocal(w) /\ n = Chosen(w)
  BY <1>11 DEF DeleteLocal, Restrict
<1> QED
  BY <1>2, <1>3, <1>9, <1>10, <1>11 DEF Step

-----------------------------------------------------------------------------
(* Lemmas about what an import writes.                                     *)

\* All the pieces of a container, in order, are the whole of it.
LEMMA AllPiecesAreWhole ==
    ASSUME NEW s \in Sources, NEW password \in Passwords, NEW w \in Windows,
           NEW k \in Nat \ {0}, k = IF s \in Large THEN LargePieces ELSE 1,
           NEW c, c = [i \in 1..k |-> Piece(s, password, w, i)]
    PROVE  Whole(c) /\ c[1].source = s /\ c[1].password = password
<1>1. /\ c \in Seq(Pieces) /\ Len(c) = k /\ DOMAIN c = 1..k
      /\ \A i \in 1..k : c[i] = Piece(s, password, w, i)
  BY PieceTypes
<1>2. 1 \in 1..k /\ c[1] = Piece(s, password, w, 1)
  BY <1>1
<1>3. \A i \in 1..k :
        Piece(s, password, w, i) = [Piece(s, password, w, 1) EXCEPT !.n = i]
  BY DEF Piece
<1>4. Coherent(c)
  BY <1>1, <1>2, <1>3 DEF Coherent
<1>5. c[1].of = k /\ c[1].source = s /\ c[1].password = password
  BY <1>2 DEF Piece
<1> QED
  BY <1>1, <1>4, <1>5 DEF Whole

\* A piece written behind the others extends them.
LEMMA WrittenNext ==
    ASSUME NEW s \in Sources, NEW password \in Passwords, NEW w \in Windows,
           NEW k \in Nat
    PROVE  WrittenAt([i \in 1..k |-> Piece(s, password, w, i)], k + 1,
                     Piece(s, password, w, k + 1))
           = [i \in 1..(k + 1) |-> Piece(s, password, w, i)]
<1> DEFINE c == [i \in 1..k |-> Piece(s, password, w, i)]
<1>1. c \in Seq(Pieces) /\ Len(c) = k
  BY PieceTypes
<1>2. (IF k + 1 > Len(c) THEN k + 1 ELSE Len(c)) = k + 1
  BY <1>1
<1>3. \A i \in 1..(k + 1) :
        (IF i = k + 1 THEN Piece(s, password, w, k + 1)
         ELSE IF i <= Len(c) THEN c[i] ELSE Hole) = Piece(s, password, w, i)
  BY <1>1
<1> QED
  BY <1>2, <1>3 DEF WrittenAt

-----------------------------------------------------------------------------
(* Every step keeps the invariant.                                         *)

\* The imports of the windows stay apart, each with the file it writes.
LEMMA ImportStep ==
    ASSUME Exclusive, Types, Types', ImportInv, KeptInv, [Next]_vars
    PROVE  ImportInv'
<1>1. CASE UNCHANGED vars
  BY <1>1 DEF vars, ImportInv, Written, Importing
<1>2. SUFFICES ASSUME NEW w \in Windows, Step(w) PROVE ImportInv'
  BY <1>1, SomeStep
<1>3. /\ pc \in [Windows -> Places]
      /\ session \in [Windows -> Passwords \cup {None}]
      /\ arg \in [Windows -> Passwords \cup Sources \cup {None}]
      /\ offset \in [Windows -> 0..LargePieces]
      /\ linked \in [Windows -> BOOLEAN]
      /\ \A v \in Windows : pc[v] \in Importing =>
            arg[v] \in Sources /\ session[v] \in Passwords
  BY DEF Types, WindowTypes, Importing, Unlocked
\* A window that imports after the step did so before, or starts.
<1>4. pc'[w] \in Importing =>
        \/ pc[w] \in Importing /\ arg'[w] = arg[w]
        \/ \E s \in Sources : ImportStart(w, s)
  BY <1>2, <1>3
  DEF Importing, Goto, Over, window, import, Step, Start, Stop, Initialize,
      CreateConfig, WriteConfig, WriteConfigFails, Unlock, Lock, Refresh,
      Select, ImportSmall, ImportCreate, ImportWrite, ImportLarge,
      ImportFails, ExportRead, ExportInstall, ExportFails, DeleteLocal
<1>5. ASSUME NEW v \in Windows \ {w}, pc'[v] \in Importing, pc'[w] \in Importing
      PROVE  FileName[arg'[v]] # FileName[arg'[w]]
  <2>1. pc[v] \in Importing /\ arg'[v] = arg[v]
    BY <1>2, <1>5, OtherWindow
  <2>2. CASE pc[w] \in Importing /\ arg'[w] = arg[w]
    BY <2>1, <2>2 DEF ImportInv
  <2>3. CASE \E s \in Sources : ImportStart(w, s)
    <3>1. PICK s \in Sources : ImportStart(w, s)
      BY <2>3
    <3>2. arg'[w] = s /\ ~Taken(w, FileName[s])
      BY <1>3, <3>1 DEF ImportStart
    <3> QED
      BY <2>1, <3>2 DEF Taken, Importing
  <2> QED
    BY <1>4, <1>5, <2>2, <2>3
<1>6. ASSUME NEW v \in Windows, NEW u \in Windows,
             pc'[v] \in Importing, pc'[u] \in Importing,
             FileName[arg'[v]] = FileName[arg'[u]]
      PROVE  v = u
  <2>1. CASE v = w \/ u = w
    BY <1>5, <1>6, <2>1
  <2>2. CASE v # w /\ u # w
    <3>1. /\ pc'[v] = pc[v] /\ arg'[v] = arg[v]
          /\ pc'[u] = pc[u] /\ arg'[u] = arg[u]
      BY <1>2, <2>2, OtherWindow
    <3> QED
      BY <1>6, <3>1 DEF ImportInv
  <2> QED
    BY <2>1, <2>2
\* What another window imports, this one leaves alone.
<1>7. ASSUME NEW v \in Windows \ {w}, pc'[v] \in Importing
      PROVE  /\ pc'[v] = pc[v] /\ arg'[v] = arg[v]
             /\ session'[v] = session[v] /\ offset'[v] = offset[v]
             /\ Same(FileName[arg[v]])
  <2>1. /\ pc'[v] = pc[v] /\ arg'[v] = arg[v]
        /\ session'[v] = session[v] /\ offset'[v] = offset[v]
    BY <1>2, OtherWindow
  <2>2. PICK n : n = FileName[arg[v]]
    OBVIOUS
  <2>3. ~(pc[w] \in Importing /\ FileName[arg[w]] = n)
    BY <1>7, <2>1, <2>2 DEF ImportInv
  <2>4. ~(DeleteLocal(w) /\ n = Chosen(w))
    BY <1>7, <2>1, <2>2 DEF DeleteLocal, Taken, Importing
  <2>5. Same(n)
    BY <1>2, <2>3, <2>4, OneName
  <2> QED
    BY <2>1, <2>2, <2>5
<1>8. ASSUME NEW v \in Windows, pc'[v] = "import"
      PROVE  FileName[arg'[v]] \notin DOMAIN dir'
  <2>1. CASE v # w
    BY <1>7, <1>8, <2>1 DEF ImportInv, Importing, Same
  <2>2. CASE v = w
    <3>1. \E s \in Sources : ImportStart(w, s)
      BY <1>2, <1>3, <1>8, <2>2
      DEF Goto, window, import, Step, Start, Stop, Initialize, CreateConfig,
          WriteConfig, WriteConfigFails, Unlock, Lock, Refresh, Select,
          ImportSmall, ImportCreate, ImportWrite, ImportLarge, ImportFails,
          ExportRead, ExportInstall, ExportFails, DeleteLocal
    <3> QED
      BY <1>3, <2>2, <3>1 DEF ImportStart, NameExists
  <2> QED
    BY <2>1, <2>2
<1>9. ASSUME NEW v \in Windows, pc'[v] = "writing"
      PROVE  /\ linked'[v]
             /\ FileName[arg'[v]] \notin DOMAIN kept'
             /\ dir'[FileName[arg'[v]]] = Written(v)'
  <2>1. CASE v # w
    <3>1. PICK n : n = FileName[arg[v]]
      OBVIOUS
    <3>2. /\ pc[v] = "writing" /\ FileName[arg'[v]] = n /\ Same(n)
          /\ Written(v)' = Written(v)
      BY <1>7, <1>9, <2>1, <3>1 DEF Importing, Written
    <3>3. /\ linked[v] /\ n \notin DOMAIN kept
          /\ n \in DOMAIN dir /\ dir[n] = Written(v)
      BY <3>1, <3>2 DEF ImportInv, Types, VaultTypes
    <3>4. linked'[v] /\ n \notin DOMAIN kept' /\ dir'[n] = dir[n]
      BY <1>9, <3>1, <3>2, <3>3 DEF Same
    <3> QED
      BY <3>2, <3>3, <3>4
  <2>2. CASE v = w /\ ImportCreate(w)
    <3>1. /\ pc[w] = "import" /\ arg' = arg /\ kept' = kept /\ linked'[w]
          /\ offset'[w] = 0 /\ dir' = Put(dir, FileName[arg[w]], <<>>)
      BY <1>3, <2>2 DEF ImportCreate, Goto
    <3>2. FileName[arg[w]] \notin DOMAIN kept
      BY <3>1 DEF ImportInv, KeptInv
    <3>3. dir'[FileName[arg[w]]] = <<>>
      BY <3>1 DEF Put
    <3>4. Written(w)' = <<>>
      BY <3>1 DEF Written
    <3> QED
      BY <2>2, <3>1, <3>2, <3>3, <3>4
  <2>3. CASE v = w /\ ImportWrite(w)
    <3> DEFINE piece == Piece(arg[w], session[w], w, offset[w] + 1)
    <3>1. /\ pc[w] = "writing" /\ arg' = arg /\ kept' = kept
          /\ linked' = linked /\ session' = session
          /\ offset'[w] = offset[w] + 1 /\ Write(w, piece)
      BY <1>3, <2>3 DEF ImportWrite, window
    <3>2. /\ linked[w] /\ FileName[arg[w]] \notin DOMAIN kept
          /\ dir[FileName[arg[w]]] = Written(w)
      BY <3>1 DEF ImportInv
    <3>3. dir'[FileName[arg[w]]] = WrittenAt(Written(w), offset[w] + 1, piece)
      BY <3>1, <3>2 DEF Write, Put
    <3>4. arg[w] \in Sources /\ session[w] \in Passwords /\ offset[w] \in Nat
      BY <1>3, <3>1 DEF Importing
    <3>5. WrittenAt(Written(w), offset[w] + 1, piece)
            = [i \in 1..(offset[w] + 1) |-> Piece(arg[w], session[w], w, i)]
      BY <3>4, WrittenNext DEF Written
    <3> QED
      BY <2>3, <3>1, <3>2, <3>3, <3>5 DEF Written
  <2>4. CASE v = w
    <3>1. ImportCreate(w) \/ ImportWrite(w)
      BY <1>2, <1>3, <1>9, <2>4
      DEF Goto, window, import, Step, Start, Stop, Initialize, CreateConfig,
          WriteConfig, WriteConfigFails, Unlock, Lock, Refresh, Select,
          ImportStart, ImportSmall, ImportLarge, ImportFails, ExportRead,
          ExportInstall, ExportFails, DeleteLocal
    <3> QED
      BY <2>2, <2>3, <2>4, <3>1
  <2> QED
    BY <2>1, <2>4
<1> QED
  BY <1>6, <1>8, <1>9 DEF ImportInv

\* What an import that returned Ok left in the vault stays as it is, and a
\* new import leaves the whole of its file.
LEMMA KeptStep ==
    ASSUME Exclusive, Types, VerifierInv, ImportInv, KeptInv, [Next]_vars
    PROVE  KeptInv'
<1>1. CASE UNCHANGED vars
  BY <1>1 DEF vars, KeptInv
<1>2. SUFFICES ASSUME NEW w \in Windows, Step(w), NEW n \in DOMAIN kept'
               PROVE  /\ n \in DOMAIN dir' /\ Whole(dir'[n])
                      /\ dir'[n][1].source = kept'[n]
                      /\ dir'[n][1].password = config' /\ config' \in Passwords
  BY <1>1, SomeStep DEF KeptInv
\* The name is one that the vault kept before, and still does.
<1>3. CASE Same(n)
  <2>1. n \in DOMAIN kept /\ kept'[n] = kept[n]
    BY <1>3 DEF Same
  <2>2. n \in DOMAIN dir /\ dir'[n] = dir[n] /\ n \in DOMAIN dir'
    BY <1>3, <2>1 DEF Same, KeptInv
  <2>3. config' = config
    BY <1>2, <2>1, ConfigStays DEF KeptInv
  <2> QED
    BY <2>1, <2>2, <2>3 DEF KeptInv
<1>4. CASE pc[w] \in Importing /\ FileName[arg[w]] = n
  <2>1. /\ arg[w] \in Sources /\ session[w] \in Passwords
        /\ config = session[w] /\ offset[w] \in Nat
    BY <1>4 DEF Types, WindowTypes, Importing, Unlocked, VerifierInv
  <2>2. config' = config
    BY <1>2, <2>1, ConfigStays
  <2>3. n \notin DOMAIN kept
    BY <1>4 DEF Importing, ImportInv, KeptInv
  <2>4. CASE ImportSmall(w)
    <3> DEFINE piece == Piece(arg[w], session[w], w, 1)
    <3>1. /\ dir' = Put(dir, n, <<piece>>) /\ kept' = Put(kept, n, arg[w])
          /\ arg[w] \notin Large
      BY <1>4, <2>4 DEF ImportSmall, ImportReturns
    <3>2. n \in DOMAIN dir' /\ dir'[n] = <<piece>> /\ kept'[n] = arg[w]
      BY <3>1 DEF Put
    <3>3. <<piece>> = [i \in 1..1 |-> Piece(arg[w], session[w], w, i)]
      BY <2>1, PieceTypes
    <3>4. /\ Whole(<<piece>>) /\ <<piece>>[1].source = arg[w]
          /\ <<piece>>[1].password = session[w]
      <4>1. PICK k \in Nat \ {0} : k = 1
        OBVIOUS
      <4>2. PICK c : c = <<piece>>
        OBVIOUS
      <4>3. /\ k = IF arg[w] \in Large THEN LargePieces ELSE 1
            /\ c = [i \in 1..k |-> Piece(arg[w], session[w], w, i)]
        BY <3>1, <3>3, <4>1, <4>2
      <4>4. PICK s \in Sources, password \in Passwords :
              s = arg[w] /\ password = session[w]
        BY <2>1
      <4>5. /\ k = IF s \in Large THEN LargePieces ELSE 1
            /\ c = [i \in 1..k |-> Piece(s, password, w, i)]
        BY <4>3, <4>4
      <4>6. Whole(c) /\ c[1].source = s /\ c[1].password = password
        BY <4>5, AllPiecesAreWhole
      <4> QED
        BY <4>2, <4>4, <4>6
    <3> QED
      BY <2>1, <2>2, <3>2, <3>4
  <2>5. CASE ImportLarge(w)
    <3>1. /\ pc[w] = "writing" /\ offset[w] = LargePieces
          /\ dir' = dir /\ kept' = Put(kept, n, arg[w])
      BY <1>4, <2>5 DEF ImportLarge, AllWritten, ImportReturns, Goto
    <3>2. n \in DOMAIN dir /\ dir[n] = Written(w) /\ arg[w] \in Large
      BY <1>4, <3>1 DEF ImportInv, Types, VaultTypes, WindowTypes
    <3>3. Written(w) = [i \in 1..LargePieces |-> Piece(arg[w], session[w], w, i)]
      BY <3>1 DEF Written
    <3>4. /\ Whole(Written(w)) /\ Written(w)[1].source = arg[w]
          /\ Written(w)[1].password = session[w]
      BY <2>1, <3>2, <3>3, AllPiecesAreWhole
    <3>5. kept'[n] = arg[w]
      BY <3>1 DEF Put
    <3> QED
      BY <2>1, <2>2, <3>1, <3>2, <3>4, <3>5
  <2>6. ~ImportSmall(w) /\ ~ImportLarge(w) => DOMAIN kept' \subseteq DOMAIN kept
    BY <1>2
    DEF Step, Start, Stop, Initialize, CreateConfig, WriteConfig,
        WriteConfigFails, Unlock, Lock, Refresh, Select, ImportStart,
        ImportCreate, ImportWrite, ImportFails, ExportRead, ExportInstall,
        ExportFails, DeleteLocal, Restrict
  <2> QED
    BY <1>2, <2>3, <2>4, <2>5, <2>6
<1> QED
  BY <1>2, <1>3, <1>4, OneName

LEMMA InvStep == Exclusive => (Inv /\ [Next]_vars => Inv')
<1> SUFFICES ASSUME Exclusive, Inv, [Next]_vars PROVE Inv'
  OBVIOUS
<1>1. PasswordInv'
  BY PasswordStep DEF Inv
<1>2. Types /\ Types' /\ VerifierInv
  BY <1>1 DEF Inv, PasswordInv
<1> QED
  BY <1>1, <1>2, ImportStep, KeptStep DEF Inv

LEMMA SpecInv == Exclusive => (Spec => []Inv)
<1> SUFFICES ASSUME Exclusive PROVE Spec => []Inv
  OBVIOUS
<1>1. Init => VerifierInv /\ PiecesInv /\ ImportInv /\ KeptInv
  BY DEF Init, VerifierInv, PiecesInv, ImportInv, KeptInv, Importing
<1>2. Init => Inv
  BY <1>1, InitTypes DEF Inv, PasswordInv
<1>3. Inv /\ [Next]_vars => Inv'
  BY InvStep
<1> QED
  BY <1>2, <1>3, PTL DEF Spec

\* While no window imports or deletes what another is importing, what an
\* import that returned Ok put into the vault stays there, whole, under the
\* vault's password, until it is deleted (vault.rs, Vault::import_file).
THEOREM ImportsStay == Exclusive => (Spec => []ImportedStays)
<1> SUFFICES ASSUME Exclusive PROVE Spec => []ImportedStays
  OBVIOUS
<1>1. Inv => ImportedStays
  BY DEF Inv, KeptInv, ImportedStays
<1>2. Spec => []Inv
  BY SpecInv
<1> QED
  BY <1>1, <1>2, PTL

\* What a decryption yields is what the vault promised, whenever it is
\* installed.
LEMMA ExportStep == Inv /\ ExportInv /\ [Next]_vars => ExportInv'
<1> SUFFICES ASSUME Inv, ExportInv, [Next]_vars PROVE ExportInv'
  OBVIOUS
<1>1. CASE UNCHANGED vars
  BY <1>1 DEF vars, ExportInv
<1>2. SUFFICES ASSUME NEW w \in Windows, Step(w) PROVE ExportInv'
  BY <1>1, SomeStep
<1>3. Faithful(Absent)
  BY DEF Faithful, Absent, Plain
<1>4. /\ out = [v \in Windows |-> out[v]]
      /\ \A v \in Windows : Faithful(out[v])
      /\ Faithful(dest)
  BY DEF ExportInv
<1>5. CASE ExportRead(w)
  <2>1. PICK p : p = Opens(Chosen(w))
    OBVIOUS
  <2>2. Faithful(p)
    BY <2>1 DEF Opens, Plain, Faithful, Inv, KeptInv
  <2>3. out' = [out EXCEPT ![w] = p] /\ dest' = dest
    BY <1>5, <2>1 DEF ExportRead
  <2> QED
    BY <1>4, <2>2, <2>3 DEF ExportInv
<1>6. CASE ExportInstall(w)
  <2>1. out' = [out EXCEPT ![w] = Absent] /\ dest' = out[w]
    BY <1>6 DEF ExportInstall
  <2> QED
    BY <1>3, <1>4, <2>1 DEF ExportInv
<1>7. CASE ExportFails(w) \/ Stop(w)
  <2>1. out' = [out EXCEPT ![w] = Absent] /\ dest' \in {dest, Absent}
    BY <1>7 DEF ExportFails, Stop
  <2> QED
    BY <1>3, <1>4, <2>1 DEF ExportInv
<1>8. CASE UNCHANGED <<out, dest>>
  BY <1>4, <1>8 DEF ExportInv
<1> QED
  BY <1>2, <1>5, <1>6, <1>7, <1>8
  DEF Step, Start, Initialize, CreateConfig, WriteConfig, WriteConfigFails,
      Unlock, Lock, Refresh, Select, ImportStart, ImportSmall, ImportCreate,
      ImportWrite, ImportLarge, ImportFails, DeleteLocal

\* Under the same assumption, an export of a file whose import returned Ok
\* yields that file, all of it (README.md, Testing; vault.rs,
\* Vault::export_file).
THEOREM ExportsMatch == Exclusive => (Spec => []ExportMatchesImport)
<1> SUFFICES ASSUME Exclusive PROVE Spec => []ExportMatchesImport
  OBVIOUS
<1>1. Init => ExportInv
  BY DEF Init, ExportInv, Faithful, Absent, Old, Plain
<1>2. ExportInv => ExportMatchesImport
  BY DEF ExportInv, Faithful, ExportMatchesImport
<1>3. Spec => []Inv
  BY SpecInv
<1> QED
  BY <1>1, <1>2, <1>3, ExportStep, PTL DEF Spec
-----------------------------------------------------------------------------
(* What list_files returns.  Listing is defined by recursion: what it      *)
(* computes is proved by induction on the names it has seen, with sets in  *)
(* the place of predicates.                                                *)

\* Induction on the natural numbers, for a set.
LEMMA SetInduction ==
    ASSUME NEW S, 0 \in S, \A n \in Nat : n \in S => n + 1 \in S
    PROVE  Nat \subseteq S
<1> DEFINE T == Nat \ S
<1>1. SUFFICES ASSUME T # {} PROVE FALSE
  OBVIOUS
<1>2. \E x \in T : \A y \in T : ~ (<<y, x>> \in OpToRel(<, Nat))
  BY <1>1, NatLessThanWellFounded, WFMin
<1>3. PICK x \in T : \A y \in T : ~ (y < x)
  BY <1>2 DEF OpToRel
<1>4. x # 0 /\ x - 1 \in Nat /\ x - 1 < x /\ (x - 1) + 1 = x
  BY <1>3
<1> QED
  BY <1>3, <1>4

Last == Len(NameOrder)

\* The first k names of the order that are in d.
Among(d, k) == {NameOrder[i] : i \in {j \in 1..k : NameOrder[j] \in DOMAIN d}}

\* What the listing is at j, from what f says it is before.
Entry(f, d, j) ==
    IF j = 0 THEN <<>>
    ELSE IF NameOrder[j] \in DOMAIN d THEN Append(f[j - 1], NameOrder[j])
    ELSE f[j - 1]

\* f is the listing of d, up to the k-th name.
Lists(f, d, k) == f = [j \in 0..k |-> Entry(f, d, j)]

LEMMA LastIsNat == Last \in Nat
  BY NamesAssumption DEF Last

LEMMA NamesInOrder == Names = {NameOrder[j] : j \in 1..Last}
  BY NamesAssumption DEF Last, Names, Range

\* There is such a function, for as many names as there are.
LEMMA ListingExists ==
    ASSUME NEW d
    PROVE  \A k \in 0..Last : \E f : Lists(f, d, k)
<1> DEFINE S == {k \in Nat : k <= Last => \E f : Lists(f, d, k)}
<1>1. 0 \in S
  <2>1. Lists([j \in 0..0 |-> <<>>], d, 0)
    BY DEF Lists, Entry
  <2> QED
    BY <2>1
<1>2. ASSUME NEW k \in Nat, k \in S, k + 1 <= Last
      PROVE  \E f : Lists(f, d, k + 1)
  <2>1. PICK f : Lists(f, d, k)
    BY <1>2, LastIsNat
  <2> DEFINE last == Entry(f, d, k + 1)
             g == [j \in 0..(k + 1) |-> IF j = k + 1 THEN last ELSE f[j]]
  <2> HIDE DEF last
  <2>2. /\ \A j \in 0..k : g[j] = f[j]
        /\ g[k + 1] = last
        /\ g = [j \in 0..(k + 1) |-> g[j]]
    OBVIOUS
  <2> HIDE DEF g
  <2>3. \A j \in 0..k : f[j] = Entry(f, d, j)
    BY <2>1 DEF Lists
  <2>4. ASSUME NEW j \in 0..(k + 1)
        PROVE  g[j] = Entry(g, d, j)
    <3>1. CASE j = 0
      <4>1. 0 \in 0..k
        OBVIOUS
      <4>2. g[0] = Entry(f, d, 0)
        BY <2>2, <2>3, <4>1
      <4> QED
        BY <3>1, <4>2 DEF Entry
    <3>2. CASE j \in 1..k
      <4>1. j - 1 \in 0..k /\ j \in 0..k
        BY <3>2
      <4>2. g[j - 1] = f[j - 1] /\ g[j] = Entry(f, d, j)
        BY <2>2, <2>3, <4>1
      <4> QED
        BY <4>2 DEF Entry
    <3>3. CASE j = k + 1
      <4>1. j - 1 = k /\ k \in 0..k
        BY <3>3
      <4>2. g[k] = f[k]
        BY <2>2, <4>1
      <4> QED
        BY <2>2, <3>3, <4>1, <4>2 DEF Entry, last
    <3> QED
      BY <3>1, <3>2, <3>3
  <2>5. g = [j \in 0..(k + 1) |-> Entry(g, d, j)]
    BY <2>2, <2>4
  <2> QED
    BY <2>5 DEF Lists
<1>3. \A k \in Nat : k \in S => k + 1 \in S
  BY <1>2
<1>4. Nat \subseteq S
  <2> HIDE DEF S
  <2> QED
    BY <1>1, <1>3, SetInduction
<1> QED
  BY <1>4, LastIsNat

\* One more name at the end of a list.
LEMMA AppendFacts ==
    ASSUME NEW s \in Seq(Names), NEW n \in Names
    PROVE  Append(s, n) \in Seq(Names) /\ Range(Append(s, n)) = Range(s) \cup {n}
<1>1. /\ Append(s, n) \in Seq(Names) /\ Len(s) \in Nat
      /\ DOMAIN s = 1..Len(s) /\ DOMAIN Append(s, n) = 1..(Len(s) + 1)
      /\ \A i \in 1..Len(s) : Append(s, n)[i] = s[i]
      /\ Append(s, n)[Len(s) + 1] = n
  OBVIOUS
<1>2. 1..(Len(s) + 1) = (1..Len(s)) \cup {Len(s) + 1}
  BY <1>1
<1> QED
  BY <1>1, <1>2 DEF Range

\* The listing, up to any name: a sequence of names, those of d so far.
LEMMA ListingUpto ==
    ASSUME NEW d, NEW f, Lists(f, d, Last)
    PROVE  \A k \in 0..Last : f[k] \in Seq(Names) /\ Range(f[k]) = Among(d, k)
<1> DEFINE S == {k \in Nat : k <= Last =>
                    f[k] \in Seq(Names) /\ Range(f[k]) = Among(d, k)}
<1>1. \A k \in 0..Last : f[k] = Entry(f, d, k)
  BY DEF Lists
<1>2. 0 \in S
  <2>1. f[0] = <<>>
    BY <1>1, LastIsNat DEF Entry
  <2>2. Among(d, 0) = {} /\ Range(<<>>) = {} /\ <<>> \in Seq(Names)
    BY DEF Among, Range
  <2> QED
    BY <2>1, <2>2
<1>3. ASSUME NEW k \in Nat, k \in S, k + 1 <= Last
      PROVE  f[k + 1] \in Seq(Names) /\ Range(f[k + 1]) = Among(d, k + 1)
  <2> DEFINE n == NameOrder[k + 1]
  <2>1. f[k] \in Seq(Names) /\ Range(f[k]) = Among(d, k)
    BY <1>3, LastIsNat
  <2>2. f[k + 1] = IF n \in DOMAIN d THEN Append(f[k], n) ELSE f[k]
    <3>1. (k + 1) - 1 = k /\ k + 1 # 0 /\ k + 1 \in 0..Last
      BY <1>3, LastIsNat
    <3> QED
      BY <1>1, <3>1 DEF Entry
  <2>3. n \in Names
    BY <1>3, LastIsNat, NamesInOrder
  <2>4. {j \in 1..(k + 1) : NameOrder[j] \in DOMAIN d} =
          {j \in 1..k : NameOrder[j] \in DOMAIN d}
            \cup (IF n \in DOMAIN d THEN {k + 1} ELSE {})
    OBVIOUS
  <2>5. Among(d, k + 1) =
          Among(d, k) \cup (IF n \in DOMAIN d THEN {n} ELSE {})
    BY <2>4 DEF Among
  <2> HIDE DEF n
  <2>6. CASE n \in DOMAIN d
    <3>1. /\ Append(f[k], n) \in Seq(Names)
          /\ Range(Append(f[k], n)) = Range(f[k]) \cup {n}
      BY <2>1, <2>3, AppendFacts
    <3> QED
      BY <2>1, <2>2, <2>5, <2>6, <3>1
  <2>7. CASE n \notin DOMAIN d
    BY <2>1, <2>2, <2>5, <2>7
  <2> QED
    BY <2>6, <2>7
<1>4. \A k \in Nat : k \in S => k + 1 \in S
  BY <1>3
<1>5. Nat \subseteq S
  <2> HIDE DEF S
  <2> QED
    BY <1>2, <1>4, SetInduction
<1> QED
  BY <1>5, LastIsNat

\* list_files shows every container of the vault and nothing else: whatever
\* the vault holds, the listing is a sequence of exactly its names.
THEOREM ListingShowsVault ==
    \A d : Listing(d) \in Seq(Names) /\ Range(Listing(d)) = DOMAIN d \cap Names
<1> TAKE d
<1> DEFINE F == CHOOSE f : Lists(f, d, Last)
<1>1. Lists(F, d, Last)
  BY ListingExists, LastIsNat
<1>2. F[Last] \in Seq(Names) /\ Range(F[Last]) = Among(d, Last)
  BY <1>1, ListingUpto, LastIsNat
<1>3. Listing(d) = F[Last]
  BY DEF Listing, Lists, Entry, Last
<1>4. Among(d, Last) = DOMAIN d \cap Names
  BY NamesInOrder DEF Among
<1> QED
  BY <1>2, <1>3, <1>4

-----------------------------------------------------------------------------
(* What a window shows.                                                    *)

ListTypes ==
    /\ list \in [Windows -> Seq(Names)]
    /\ selected \in [Windows -> Nat]
    /\ \A w \in Windows : selected[w] <= Len(list[w])

LEMMA RefreshedKeeps ==
    ASSUME ListTypes, NEW w \in Windows, NEW d, Refreshed(w, d)
    PROVE  ListTypes'
<1>1. PICK l \in Seq(Names) : l = Listing(d)
  BY ListingShowsVault
<1>2. CASE /\ list' = [list EXCEPT ![w] = l]
           /\ selected' = [selected EXCEPT ![w] = IF @ > Len(l) THEN 0 ELSE @]
  <2>1. Len(l) \in Nat
    OBVIOUS
  <2> QED
    BY <1>2, <2>1 DEF ListTypes
<1>3. CASE UNCHANGED <<list, selected>>
  BY <1>3 DEF ListTypes
<1> QED
  BY <1>1, <1>2, <1>3 DEF Refreshed

\* Whatever the other windows do to the vault.
LEMMA ListStep == Types /\ ListTypes /\ [Next]_vars => ListTypes'
<1> SUFFICES ASSUME Types, ListTypes, [Next]_vars PROVE ListTypes'
  OBVIOUS
<1>1. CASE UNCHANGED vars
  BY <1>1 DEF vars, ListTypes
<1>2. SUFFICES ASSUME NEW w \in Windows, Step(w) PROVE ListTypes'
  BY <1>1, SomeStep
<1>3. CASE WriteConfig(w) \/ Refresh(w) \/ ImportSmall(w) \/ ImportLarge(w)
           \/ (\E password \in Passwords : Unlock(w, password))
  <2>1. \E d : Refreshed(w, d)
    BY <1>3
    DEF WriteConfig, Refresh, ImportSmall, ImportLarge, ImportReturns, Unlock
  <2> QED
    BY <2>1, RefreshedKeeps
<1>4. CASE Stop(w)
  <2>1. <<>> \in Seq(Names) /\ Len(<<>>) = 0
    OBVIOUS
  <2>2. PICK l \in Seq(Names) : l = <<>> /\ Len(l) = 0
    BY <2>1
  <2>3. list' = [list EXCEPT ![w] = l] /\ selected' = [selected EXCEPT ![w] = 0]
    BY <1>4, <2>2 DEF Stop
  <2> QED
    BY <2>2, <2>3 DEF ListTypes
<1>5. CASE Lock(w)
  <2>1. list' = list /\ selected' = [selected EXCEPT ![w] = 0]
    BY <1>5 DEF Lock
  <2>2. \A v \in Windows : Len(list[v]) \in Nat
    BY DEF ListTypes
  <2> QED
    BY <2>1, <2>2 DEF ListTypes
<1>6. CASE Select(w)
  <2>1. PICK i \in DOMAIN list[w] : selected' = [selected EXCEPT ![w] = i]
    BY <1>6 DEF Select
  <2>2. list' = list
    BY <1>6 DEF Select
  <2>3. i \in Nat /\ i <= Len(list[w])
    BY DEF ListTypes
  <2> QED
    BY <2>1, <2>2, <2>3 DEF ListTypes
<1>7. CASE DeleteLocal(w)
  <2>1. PICK l : /\ l \in {Listing(Restrict(dir, DOMAIN dir \ {Chosen(w)})), list[w]}
                 /\ list' = [list EXCEPT ![w] = l]
    BY <1>7 DEF DeleteLocal
  <2>2. selected' = [selected EXCEPT ![w] = 0]
    BY <1>7 DEF DeleteLocal
  <2>3. l \in Seq(Names)
    BY <2>1, ListingShowsVault DEF ListTypes
  <2> QED
    BY <2>1, <2>2, <2>3 DEF ListTypes
<1>8. CASE list' = list /\ selected' = selected
  BY <1>8 DEF ListTypes
<1> QED
  BY <1>2, <1>3, <1>4, <1>5, <1>6, <1>7, <1>8
  DEF Step, Start, Initialize, CreateConfig, WriteConfigFails, ImportStart,
      ImportCreate, ImportWrite, ImportFails, ExportRead, ExportInstall,
      ExportFails, window

\* A selection is always one of the files the window lists, whatever other
\* windows remove in the meantime and whether or not a refresh succeeds
\* (main.rs, refresh_vault and delete_local).
THEOREM SelectionsListed == Spec => []SelectionIsListed
<1>1. Init => ListTypes
  BY DEF Init, ListTypes
<1>2. ListTypes => SelectionIsListed
  BY DEF ListTypes, SelectionIsListed
<1> QED
  BY <1>1, <1>2, SpecTypes, ListStep, PTL DEF Spec
=============================================================================
