------------------------------- MODULE Vault -------------------------------
(***************************************************************************)
(* The vault of apps/fcloak-gui: its directory and password verifier       *)
(* (vault.rs) and the windows that use it (the session and vault handlers  *)
(* of FcloakApp, main.rs).  A window is a process: its handlers run one at *)
(* a time, but nothing keeps a second window, or a crash, from coming      *)
(* between two of their file operations.                                   *)
(*                                                                         *)
(* A container is the sequence of its pieces: one for encrypt_file, which  *)
(* appears whole (see OutputFile), several for encrypt_file_streaming,     *)
(* which writes them to the path itself.                                   *)
(***************************************************************************)
EXTENDS Naturals, Sequences, Functions

CONSTANTS
    Windows,        \* running copies of the application
    Passwords,      \* passwords strong enough for initialize_vault
    Sources,        \* files a user imports
    FileName,       \* the name of a source in the vault
    Large,          \* the sources of STREAMING_THRESHOLD bytes or more
    NameOrder,      \* every name, as list_files orders them
    LargePieces,    \* pieces of a streaming container
    Exclusive,      \* what one window imports no other imports or deletes
    None

ASSUME VaultAssumption ==
    /\ FileName \in [Sources -> Range(NameOrder)]
    /\ Large \subseteq Sources
    /\ LargePieces \in Nat \ {0, 1}
    /\ Exclusive \in BOOLEAN
    /\ None \notin Passwords \cup Sources
    /\ "partial" \notin Passwords \cup {None}

ASSUME NamesAssumption ==
    NameOrder \in Seq(Range(NameOrder)) /\ None \notin Range(NameOrder)

VARIABLES
    config,     \* vault.conf: None, "partial", or the password it verifies
    dir,        \* the containers in the vault, by name
    dest,       \* the file a user exports to
    out,        \* the plaintext an export of a window has ready
    pc,         \* what each window is doing
    session,    \* the session password of an unlocked window
    arg,        \* the password or source its handler works on
    offset,     \* pieces its streaming import has written
    linked,     \* the file it writes is still the one in dir
    list,       \* local_files
    selected,   \* selected_local, 0 for none
    kept        \* history: imports that returned Ok, not deleted since

vars == <<config, dir, dest, out, pc, session, arg, offset, linked, list,
          selected, kept>>
window == <<session, list, selected>>
import == <<offset, linked>>

Piece(s, password, w, n) ==
    [source |-> s, password |-> password, by |-> w, n |-> n,
     of |-> IF s \in Large THEN LargePieces ELSE 1]

\* Bytes no piece of a container: skipped by a seek or cut off.
Hole == Piece(None, None, None, 0)

\* A file of decrypted bytes: of which source, whether all of it, and the
\* source it should be (history).
Plain(s, whole, promised) == [source |-> s, whole |-> whole, promised |-> promised]
Bytes(p) == [source |-> p.source, whole |-> p.whole]
Absent == Plain(None, TRUE, None)
Old == Plain("old", TRUE, None)

\* The pieces of c are the first ones of one container.
Coherent(c) == c # <<>> /\ \A i \in DOMAIN c : c[i] = [c[1] EXCEPT !.n = i]

Whole(c) == Coherent(c) /\ Len(c) = c[1].of

Names == Range(NameOrder)

\* The names of d, in order.
Listing(d) ==
    LET upto[k \in 0..Len(NameOrder)] ==
          IF k = 0 THEN <<>>
          ELSE IF NameOrder[k] \in DOMAIN d THEN Append(upto[k - 1], NameOrder[k])
          ELSE upto[k - 1]
    IN  upto[Len(NameOrder)]

Put(f, n, c) == [m \in DOMAIN f \cup {n} |-> IF m = n THEN c ELSE f[m]]

-----------------------------------------------------------------------------
Init ==
    /\ config = None /\ dir = <<>> /\ dest = Old
    /\ out = [w \in Windows |-> Absent]
    /\ pc = [w \in Windows |-> "off"]
    /\ session = [w \in Windows |-> None]
    /\ arg = [w \in Windows |-> None]
    /\ offset = [w \in Windows |-> 0]
    /\ linked = [w \in Windows |-> FALSE]
    /\ list = [w \in Windows |-> <<>>]
    /\ selected = [w \in Windows |-> 0]
    /\ kept = <<>>

\* A handler is over: nothing of what it worked on is left.
Over(w) ==
    /\ arg' = [arg EXCEPT ![w] = None]
    /\ offset' = [offset EXCEPT ![w] = 0]
    /\ linked' = [linked EXCEPT ![w] = FALSE]

Goto(w, from, to) == pc[w] = from /\ pc' = [pc EXCEPT ![w] = to]

\* FcloakApp::new: setup_mode is decided once.
Start(w) ==
    /\ Goto(w, "off", IF config = None THEN "setup" ELSE "locked")
    /\ UNCHANGED <<config, dir, dest, out, arg, kept, window, import>>

\* The window is closed or dies, in the middle of anything.
Stop(w) ==
    /\ pc[w] # "off"
    /\ pc' = [pc EXCEPT ![w] = "off"]
    /\ session' = [session EXCEPT ![w] = None]
    /\ out' = [out EXCEPT ![w] = Absent]
    /\ list' = [list EXCEPT ![w] = <<>>]
    /\ selected' = [selected EXCEPT ![w] = 0]
    /\ Over(w)
    /\ UNCHANGED <<config, dir, dest, kept>>

\* Bug: the selection survives a list too short for it.
KeepSelection(w, d) ==
    /\ list' = [list EXCEPT ![w] = Listing(d)]
    /\ UNCHANGED selected

\* refresh_vault, when the vault holds d; a listing that fails changes nothing.
Refreshed(w, d) ==
    \/ /\ list' = [list EXCEPT ![w] = Listing(d)]
       /\ selected' = [selected EXCEPT ![w] = IF @ > Len(Listing(d)) THEN 0 ELSE @]
    \/ UNCHANGED <<list, selected>>

\* initialize_vault and Vault::initialize, up to its own check; the hash is
\* computed before the file is created.
Initialize(w, password) ==
    /\ pc[w] = "setup" /\ config = None
    /\ pc' = [pc EXCEPT ![w] = "hashing"]
    /\ arg' = [arg EXCEPT ![w] = password]
    /\ UNCHANGED <<config, dir, dest, out, kept, window, import>>

\* Bug: the file is created whether or not it exists.
CreateAnyway(w) ==
    /\ Goto(w, "hashing", "created")
    /\ config' = "partial"
    /\ UNCHANGED <<dir, dest, out, arg, kept, window, import>>

\* create_new: the file must not exist yet.
CreateConfig(w) ==
    /\ IF config = None
         THEN Goto(w, "hashing", "created") /\ config' = "partial"
              /\ UNCHANGED <<arg, import>>
         ELSE Goto(w, "hashing", "setup") /\ UNCHANGED config /\ Over(w)
    /\ UNCHANGED <<dir, dest, out, kept, window>>

WriteConfig(w) ==
    /\ Goto(w, "created", "idle")
    /\ config' = arg[w]
    /\ session' = [session EXCEPT ![w] = arg[w]]
    /\ Refreshed(w, dir)
    /\ Over(w)
    /\ UNCHANGED <<dir, dest, out, kept>>

WriteConfigFails(w) ==
    /\ Goto(w, "created", "setup")
    /\ Over(w)
    /\ UNCHANGED <<config, dir, dest, out, kept, window>>

\* unlock with the right password; with another, or while the verifier is
\* not one, nothing changes.
Unlock(w, password) ==
    /\ Goto(w, "locked", "idle")
    /\ config = password
    /\ session' = [session EXCEPT ![w] = password]
    /\ Refreshed(w, dir)
    /\ UNCHANGED <<config, dir, dest, out, arg, kept, import>>

\* Bug: the session password is not cleared.
LockKeeps(w) ==
    /\ Goto(w, "idle", "locked")
    /\ selected' = [selected EXCEPT ![w] = 0]
    /\ UNCHANGED <<config, dir, dest, out, session, arg, list, kept, import>>

\* lock, by the user or after five minutes; local_files stays.
Lock(w) ==
    /\ Goto(w, "idle", "locked")
    /\ session' = [session EXCEPT ![w] = None]
    /\ selected' = [selected EXCEPT ![w] = 0]
    /\ UNCHANGED <<config, dir, dest, out, arg, list, kept, import>>

Refresh(w) ==
    /\ pc[w] = "idle"
    /\ Refreshed(w, dir)
    /\ UNCHANGED <<config, dir, dest, out, pc, session, arg, kept, import>>

Select(w) ==
    /\ pc[w] = "idle"
    /\ \E i \in DOMAIN list[w] : selected' = [selected EXCEPT ![w] = i]
    /\ UNCHANGED <<config, dir, dest, out, pc, session, arg, list, kept, import>>

-----------------------------------------------------------------------------
(* import_file.                                                            *)

\* Bug: there is no check for a file of that name.
NeverExists(s) == FALSE

NameExists(s) == FileName[s] \in DOMAIN dir

\* Another window is importing a file of name n, which this one leaves alone.
Taken(w, n) ==
    /\ Exclusive
    /\ \E v \in Windows \ {w} :
          pc[v] \in {"import", "writing"} /\ FileName[arg[v]] = n

ImportStart(w, s) ==
    /\ ~Taken(w, FileName[s])
    /\ ~NameExists(s)
    /\ Goto(w, "idle", "import")
    /\ arg' = [arg EXCEPT ![w] = s]
    /\ UNCHANGED <<config, dir, dest, out, kept, window, import>>

\* The import returns Ok with the vault holding d.
ImportReturns(w, d) ==
    /\ kept' = Put(kept, FileName[arg[w]], arg[w])
    /\ Refreshed(w, d)

\* encrypt_file renames a new file over the path.
ImportSmall(w) ==
    LET n == FileName[arg[w]]
        d == Put(dir, n, <<Piece(arg[w], session[w], w, 1)>>)
    IN  /\ arg[w] \notin Large
        /\ Goto(w, "import", "idle")
        /\ dir' = d
        /\ arg' = [arg EXCEPT ![w] = None]
        /\ linked' = [v \in Windows |-> linked[v] /\ FileName[arg[v]] # n]
        /\ ImportReturns(w, d)
        /\ UNCHANGED <<config, dest, out, session, offset>>

\* encrypt_file_streaming creates or truncates the file at the path.
ImportCreate(w) ==
    /\ arg[w] \in Large
    /\ Goto(w, "import", "writing")
    /\ dir' = Put(dir, FileName[arg[w]], <<>>)
    /\ offset' = [offset EXCEPT ![w] = 0]
    /\ linked' = [linked EXCEPT ![w] = TRUE]
    /\ UNCHANGED <<config, dest, out, arg, kept, window>>

\* c with a piece written at position k.
WrittenAt(c, k, piece) ==
    [i \in 1..(IF k > Len(c) THEN k ELSE Len(c)) |->
        IF i = k THEN piece ELSE IF i <= Len(c) THEN c[i] ELSE Hole]

Write(w, piece) ==
    LET n == FileName[arg[w]] IN
    dir' = IF linked[w] THEN Put(dir, n, WrittenAt(dir[n], offset[w] + 1, piece))
           ELSE dir

ImportWrite(w) ==
    /\ pc[w] = "writing" /\ offset[w] < LargePieces
    /\ Write(w, Piece(arg[w], session[w], w, offset[w] + 1))
    /\ offset' = [offset EXCEPT ![w] = @ + 1]
    /\ UNCHANGED <<config, dest, out, pc, arg, linked, kept, window>>

\* Bug: the loop ends one chunk early.
AlmostWritten(w) == offset[w] = LargePieces - 1

AllWritten(w) == offset[w] = LargePieces

ImportLarge(w) ==
    /\ AllWritten(w)
    /\ Goto(w, "writing", "idle")
    /\ ImportReturns(w, dir)
    /\ Over(w)
    /\ UNCHANGED <<config, dir, dest, out, session>>

\* An error before anything was written, after part of a piece was, or, when
\* all were, in the last read or flush.
ImportFails(w) ==
    /\ \/ Goto(w, "import", "idle") /\ UNCHANGED dir
       \/ Goto(w, "writing", "idle") /\ UNCHANGED dir
       \/ /\ Goto(w, "writing", "idle") /\ offset[w] < LargePieces
          /\ Write(w, Hole)
    /\ Over(w)
    /\ UNCHANGED <<config, dest, out, kept, window>>

-----------------------------------------------------------------------------
(* export_local and delete_local.                                          *)

Chosen(w) == list[w][selected[w]]

\* What decrypting the container at n produces: a streaming one opens up to
\* where it ends.
Opens(n) == Plain(dir[n][1].source, Whole(dir[n]),
                  IF n \in DOMAIN kept THEN kept[n] ELSE None)

\* Whether it opens at all.
Openable(n, password) ==
    n \in DOMAIN dir /\ Coherent(dir[n]) /\ dir[n][1].password = password

\* The plaintext is made under another name, then renamed.
ExportRead(w) ==
    /\ Goto(w, "idle", "export")
    /\ selected[w] # 0 /\ Openable(Chosen(w), session[w])
    /\ out' = [out EXCEPT ![w] = Opens(Chosen(w))]
    /\ UNCHANGED <<config, dir, dest, arg, kept, window, import>>

ExportInstall(w) ==
    /\ Goto(w, "export", "idle")
    /\ dest' = out[w]
    /\ out' = [out EXCEPT ![w] = Absent]
    /\ UNCHANGED <<config, dir, arg, kept, window, import>>

\* An export that fails removes the destination, whatever it was.
ExportFails(w) ==
    /\ \/ Goto(w, "export", "idle")
       \/ Goto(w, "idle", "idle") /\ selected[w] # 0
    /\ dest' = Absent
    /\ out' = [out EXCEPT ![w] = Absent]
    /\ UNCHANGED <<config, dir, arg, kept, window, import>>

\* Bug: the position is looked up in a list of what the vault holds by now.
DeleteListed(w) ==
    /\ pc[w] = "idle" /\ selected[w] \in 1..Len(Listing(dir))
    /\ LET n == Listing(dir)[selected[w]] IN
        /\ ~Taken(w, n)
        /\ dir' = Restrict(dir, DOMAIN dir \ {n})
        /\ linked' = [v \in Windows |-> linked[v] /\ FileName[arg[v]] # n]
        /\ kept' = Restrict(kept, DOMAIN kept \ {n})
    /\ selected' = [selected EXCEPT ![w] = 0]
    /\ UNCHANGED <<config, dest, out, pc, session, arg, offset, list>>

\* A file that is gone, or cannot be removed, changes nothing.
DeleteLocal(w) ==
    /\ pc[w] = "idle" /\ selected[w] # 0
    /\ Chosen(w) \in DOMAIN dir /\ ~Taken(w, Chosen(w))
    /\ LET d == Restrict(dir, DOMAIN dir \ {Chosen(w)}) IN
        /\ dir' = d
        /\ \E l \in {Listing(d), list[w]} : list' = [list EXCEPT ![w] = l]
        /\ linked' = [v \in Windows |->
                        linked[v] /\ FileName[arg[v]] # Chosen(w)]
    /\ kept' = Restrict(kept, DOMAIN kept \ {Chosen(w)})
    /\ selected' = [selected EXCEPT ![w] = 0]
    /\ UNCHANGED <<config, dest, out, pc, session, arg, offset>>

Next ==
    \E w \in Windows :
        \/ Start(w) \/ Stop(w)
        \/ \E password \in Passwords : Initialize(w, password)
        \/ CreateConfig(w) \/ WriteConfig(w) \/ WriteConfigFails(w)
        \/ \E password \in Passwords : Unlock(w, password)
        \/ Lock(w) \/ Refresh(w) \/ Select(w)
        \/ \E s \in Sources : ImportStart(w, s)
        \/ ImportSmall(w) \/ ImportCreate(w) \/ ImportWrite(w) \/ ImportLarge(w)
        \/ ImportFails(w)
        \/ ExportRead(w) \/ ExportInstall(w) \/ ExportFails(w) \/ DeleteLocal(w)

Spec == Init /\ [][Next]_vars

-----------------------------------------------------------------------------
(* Properties.                                                             *)

\* The shape of the state; a window has a session password exactly while it
\* is unlocked.
TypeOK ==
    /\ config \in Passwords \cup {None, "partial"}
    /\ DOMAIN dir \subseteq Names /\ DOMAIN kept \subseteq Names
    /\ \A w \in Windows :
        /\ pc[w] \in {"off", "setup", "hashing", "created", "locked", "idle",
                      "import", "writing", "export"}
        /\ (session[w] # None) <=> (pc[w] \in {"idle", "import", "writing", "export"})
        /\ offset[w] \in 0..LargePieces

\* However many windows set the vault up or unlock it, and wherever they stop,
\* one password opens the vault: each unlocked window and each container has
\* the one that vault.conf verifies (vault.rs, create_new).
OnePasswordPerVault ==
    /\ \A w \in Windows : session[w] # None => session[w] = config
    /\ \A n \in DOMAIN dir : \A i \in DOMAIN dir[n] :
        dir[n][i] # Hole => dir[n][i].password = config

\* A selection is always one of the listed files (main.rs:139-145), although
\* other windows remove files at any time.
SelectionIsListed ==
    \A w \in Windows : selected[w] \in 0..Len(list[w])

\* vault.rs:107, "a file with the same name already exists in the vault": an
\* import replaces no other.  What an import that returned Ok put into the
\* vault stays there, whole and under the vault's password, until it is
\* deleted.
ImportedStays ==
    \A n \in DOMAIN kept :
        /\ n \in DOMAIN dir
        /\ Whole(dir[n])
        /\ dir[n][1].source = kept[n]
        /\ dir[n][1].password = config

\* README.md, Testing: the original and the restored file match.  An export
\* of a file whose import returned Ok yields that file, all of it, whatever
\* failed or was restarted in between.
ExportMatchesImport ==
    dest.promised # None => dest.source = dest.promised /\ dest.whole

\* What the vault means to its user.
Key == IF config \in Passwords THEN config ELSE None
Users == {w \in Windows : session[w] # None}
Files == [n \in {m \in DOMAIN dir : Whole(dir[m])} |-> dir[n][1].source]
Choice == [w \in Windows |-> IF selected[w] = 0 THEN None ELSE Chosen(w)]
Copies == [w \in Windows |-> Bytes(out[w])]

Safe == INSTANCE Safe
    WITH key <- Key, users <- Users, files <- Files, choice <- Choice,
         copy <- Copies, target <- Bytes(dest)

\* Every step of every window is one step of Safe, or invisible: however an
\* import writes its container, and wherever windows stop, a file is in the
\* vault from one step to another, under the vault's password, and what an
\* export yields is the file that was there, or is known to be a part
\* (vault.rs; main.rs, FcloakApp).
ImplementsSafe == Safe!Spec
=============================================================================
