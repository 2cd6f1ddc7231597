-------------------------------- MODULE Drive --------------------------------
(***************************************************************************)
(* Containers on their way between vaults and Google Drive: DriveClient of *)
(* apps/fcloak-gui/src/drive.rs and the handlers of FcloakApp (main.rs)    *)
(* that call it, one request or file operation at a time.                  *)
(*                                                                         *)
(* A window is a process that runs one handler at a time; it may be closed *)
(* or die between any two operations.  A request may fail, or take effect  *)
(* while its answer is lost.  Windows on one device share the vault;       *)
(* windows on several devices share the user's Drive.  A container is a    *)
(* number and how much of it there is.                                     *)
(***************************************************************************)
EXTENDS Naturals, FiniteSets

CONSTANTS
    Windows,        \* running copies of the application
    Device,         \* Device[w]: the computer it runs on
    Names,          \* names of containers in a vault
    MaxId,          \* containers ever imported (bound)
    Whole,          \* length of every container, in parts
    PageSize,       \* files in one page of a listing
    MaxFiles,       \* files ever stored on the Drive (bound)
    None

\* What a handler is for.
Ops == {"import", "list", "upload", "delete", "download", "done"}

ASSUME DriveAssumption ==
    /\ MaxId \in Nat /\ MaxFiles \in Nat
    /\ Whole \in Nat \ {0} /\ PageSize \in Nat \ {0}
    /\ None \notin Names \cup Ops

Devices == {Device[w] : w \in Windows}
Ids     == 1..MaxId
Files   == 1..MaxFiles

VARIABLES
    vault,          \* vault[d][n]: the container at that path, 0 for none
    len,            \* len[i]: parts of container i in its local file
    imported,       \* containers made so far
    kept,           \* history: containers whose import returned Ok
    folders,        \* FCLOAK folders on the Drive
    stored,         \* files on the Drive
    files,          \* files ever stored there
    asked,          \* history: deletions the user asked for, by place
    pc,             \* what each window is doing
    job,            \* the locals of its handler
    connected,      \* auth.is_connected()
    client,         \* drive is Some(_)
    drive_files,    \* the list it shows
    temporaries     \* the temporary files its handler is to remove

localVars == <<vault, len, imported, kept>>
driveVars == <<folders, stored, files, asked>>
authVars  == <<connected, client>>
uiVars    == <<drive_files, temporaries>>
vars == <<localVars, driveVars, pc, job, authVars, uiVars>>

\* A file on the Drive.
StoredFile == [file : Files, folder : Nat, id : Ids, len : 0..Whole]

\* Of a handler: what it does (op), to which name of the vault or file of the
\* Drive, in which folder; the container it has open and its length; the
\* parts received; the files listed, and those that should be (history).
NoJob == [op |-> None, name |-> None, file |-> 0, folder |-> 0, id |-> 0,
          size |-> 0, received |-> 0, found |-> {}, present |-> {}]

-----------------------------------------------------------------------------
Init ==
    /\ vault = [d \in Devices |-> [n \in Names |-> 0]]
    /\ len = [i \in Ids |-> 0] /\ imported = 0 /\ kept = {}
    /\ folders = {} /\ stored = {} /\ files = 0 /\ asked = {}
    /\ pc = [w \in Windows |-> "off"] /\ job = [w \in Windows |-> NoJob]
    /\ connected = [w \in Windows |-> FALSE]
    /\ client = [w \in Windows |-> FALSE]
    /\ drive_files = [w \in Windows |-> {}]
    /\ temporaries = [w \in Windows |-> {}]

Enter(w, label, j) ==
    /\ pc' = [pc EXCEPT ![w] = label]
    /\ job' = [job EXCEPT ![w] = j]

Return(w) == Enter(w, "idle", NoJob)

\* What w finds at the path its handler works on.
AtPath(w) == vault[Device[w]][job[w].name]

\* rebuild_drive_client: an access token makes a new client, its lack none.
\* Without a session there is no token; with one, refreshing it may fail.
Rebuilt(w, ok) ==
    /\ ok => connected[w]
    /\ client' = [client EXCEPT ![w] = ok]

\* FcloakApp::new: the saved session may or may not be restored; if it is,
\* the list is refreshed.
Start(w) ==
    /\ pc[w] = "off"
    /\ \/ Return(w) /\ UNCHANGED authVars
       \/ /\ Enter(w, "token", [NoJob EXCEPT !.op = "list"])
          /\ connected' = [connected EXCEPT ![w] = TRUE]
          /\ \E ok \in BOOLEAN : client' = [client EXCEPT ![w] = ok]
    /\ UNCHANGED <<localVars, driveVars, uiVars>>

\* The window is closed or dies; nothing of what it was doing is undone.  A
\* temporary file it leaves is removed by the next download to that name, if
\* there is one: from here on it is nobody's.
Stop(w) ==
    /\ pc[w] # "off"
    /\ Enter(w, "off", NoJob)
    /\ connected' = [connected EXCEPT ![w] = FALSE]
    /\ client' = [client EXCEPT ![w] = FALSE]
    /\ drive_files' = [drive_files EXCEPT ![w] = {}]
    /\ temporaries' = [temporaries EXCEPT ![w] = {}]
    /\ UNCHANGED <<localVars, driveVars>>

\* connect_drive, once connect_interactive has returned Ok.
Connect(w) ==
    /\ pc[w] = "idle" /\ ~connected[w]
    /\ connected' = [connected EXCEPT ![w] = TRUE]
    /\ \E ok \in BOOLEAN : client' = [client EXCEPT ![w] = ok]
    /\ Enter(w, "token", [NoJob EXCEPT !.op = "list"])
    /\ UNCHANGED <<localVars, driveVars, uiVars>>

\* Bug: the client of the session that ended is kept.
DisconnectKeeps(w) ==
    /\ pc[w] = "idle" /\ connected[w]
    /\ connected' = [connected EXCEPT ![w] = FALSE]
    /\ drive_files' = [drive_files EXCEPT ![w] = {}]
    /\ UNCHANGED <<localVars, driveVars, pc, job, client, temporaries>>

\* disconnect_drive.
Disconnect(w) ==
    /\ pc[w] = "idle" /\ connected[w]
    /\ connected' = [connected EXCEPT ![w] = FALSE]
    /\ client' = [client EXCEPT ![w] = FALSE]
    /\ drive_files' = [drive_files EXCEPT ![w] = {}]
    /\ UNCHANGED <<localVars, driveVars, pc, job, temporaries>>

-----------------------------------------------------------------------------
(* The vault (its own races are the subject of module Vault).              *)

\* import_file of a name that is free: encrypt_file stores the container at
\* once, encrypt_file_streaming creates it and goes on writing.
ImportStart(w, n) ==
    LET i == imported + 1 IN
    /\ pc[w] = "idle" /\ imported < MaxId
    /\ vault[Device[w]][n] = 0
    /\ vault' = [vault EXCEPT ![Device[w]][n] = i]
    /\ imported' = i
    /\ \/ /\ len' = [len EXCEPT ![i] = Whole]
          /\ kept' = kept \cup {i}
          /\ UNCHANGED <<pc, job>>
       \/ /\ Enter(w, "import", [NoJob EXCEPT !.op = "import", !.name = n, !.id = i])
          /\ UNCHANGED <<len, kept>>
    /\ UNCHANGED <<driveVars, authVars, uiVars>>

\* The next part of the container, whatever became of its name.
ImportWrite(w) ==
    /\ pc[w] = "import" /\ len[job[w].id] < Whole
    /\ len' = [len EXCEPT ![job[w].id] = @ + 1]
    /\ UNCHANGED <<vault, imported, kept, driveVars, pc, job, authVars,
                   uiVars>>

\* import_file returns Ok, or fails with what was written left in place.
ImportEnds(w) ==
    /\ pc[w] = "import"
    /\ \/ len[job[w].id] = Whole /\ kept' = kept \cup {job[w].id}
       \/ len[job[w].id] < Whole /\ UNCHANGED kept
    /\ Return(w)
    /\ UNCHANGED <<vault, len, imported, driveVars, authVars, uiVars>>

\* delete_local.
DeleteLocal(w, n) ==
    /\ pc[w] = "idle" /\ vault[Device[w]][n] # 0
    /\ vault' = [vault EXCEPT ![Device[w]][n] = 0]
    /\ asked' = asked \cup {<<vault[Device[w]][n], "vault">>}
    /\ UNCHANGED <<len, imported, kept, folders, stored, files, pc, job,
                   authVars, uiVars>>

-----------------------------------------------------------------------------
(* ensure_folder and list_files.                                           *)

\* The files of one folder.
In(folder) == {s.file : s \in {t \in stored : t.folder = folder}}

\* The handler that needed folder f goes on.
WithFolder(w, f) ==
    IF job[w].op = "upload" THEN Enter(w, "measure", [job[w] EXCEPT !.folder = f])
    ELSE Enter(w, "page", [job[w] EXCEPT !.folder = f, !.present = In(f)])

\* Bug: the answer of the lookup is not used.
CreateAlways(w) ==
    /\ pc[w] = "folder"
    /\ Enter(w, "create", job[w])
    /\ UNCHANGED <<localVars, driveVars, authVars, uiVars>>

\* The lookup: any existing folder may come first in the answer.
Lookup(w) ==
    /\ pc[w] = "folder"
    /\ \/ Return(w)
       \/ \E f \in folders : WithFolder(w, f)
       \/ folders = {} /\ Enter(w, "create", job[w])
    /\ UNCHANGED <<localVars, driveVars, authVars, uiVars>>

\* The creation: it fails, or it is done and its answer may be lost.
CreateFolder(w) ==
    LET f == Cardinality(folders) + 1 IN
    /\ pc[w] = "create"
    /\ \/ Return(w) /\ UNCHANGED folders
       \/ (Return(w) \/ WithFolder(w, f)) /\ folders' = folders \cup {f}
    /\ UNCHANGED <<localVars, stored, files, asked, authVars, uiVars>>

\* refresh_drive, called by the user or at the end of another handler.
Refresh(w) ==
    /\ pc[w] = "idle"
    /\ Enter(w, "token", [NoJob EXCEPT !.op = "list"])
    /\ UNCHANGED <<localVars, driveVars, authVars, uiVars>>

\* self.auth.access_token()? : a failure keeps the client there was.
Token(w) ==
    /\ pc[w] = "token"
    /\ \/ Return(w) /\ UNCHANGED client
       \/ /\ connected[w] /\ client' = [client EXCEPT ![w] = TRUE]
          /\ Enter(w, "folder", job[w])
    /\ UNCHANGED <<localVars, driveVars, connected, uiVars>>

\* The files of the folder that no page has shown yet.
Rest(w) == In(job[w].folder) \ job[w].found

\* What the next page may hold: as much as is left, up to PageSize.
Page(w) == {p \in SUBSET Rest(w) :
              \/ Cardinality(p) = PageSize
              \/ Cardinality(p) < PageSize /\ p = Rest(w)}

\* Bug: the first page is taken for all.
OnePage(w, p) == TRUE

\* No nextPageToken.
LastPage(w, p) == p = Rest(w)

\* page_token = Some(token), with the files of the page added.
AskNext(w, p) == [job[w] EXCEPT !.found = @ \cup p]

\* One page; after the last one the new list replaces the old one.
ListPage(w) ==
    /\ pc[w] = "page"
    /\ \/ Return(w) /\ UNCHANGED drive_files
       \/ \E p \in Page(w) :
            IF LastPage(w, p)
              THEN /\ Return(w)
                   /\ drive_files' = [drive_files EXCEPT ![w] = job[w].found \cup p]
              ELSE Enter(w, "page", AskNext(w, p)) /\ UNCHANGED drive_files
    /\ UNCHANGED <<localVars, driveVars, authVars, temporaries>>

-----------------------------------------------------------------------------
(* upload_selected_to_drive and upload_file.                               *)

\* The selected file is there, and so are a session and the client kept
\* since the last refresh.  Otherwise nothing changes.
UploadStart(w, n) ==
    /\ pc[w] = "idle"
    /\ vault[Device[w]][n] # 0 /\ connected[w] /\ client[w]
    /\ Enter(w, "folder", [NoJob EXCEPT !.op = "upload", !.name = n])
    /\ UNCHANGED <<localVars, driveVars, authVars, uiVars>>

\* The size is read, then sent along with the request for an upload URL.
Measure(w) ==
    /\ pc[w] = "measure"
    /\ \/ Return(w)
       \/ /\ AtPath(w) # 0
          /\ Enter(w, "open", [job[w] EXCEPT !.size = len[AtPath(w)]])
    /\ UNCHANGED <<localVars, driveVars, authVars, uiVars>>

\* File::open, of whatever has the name by now.
Open(w) ==
    /\ pc[w] = "open"
    /\ \/ Return(w)
       \/ AtPath(w) # 0 /\ Enter(w, "put", [job[w] EXCEPT !.id = AtPath(w)])
    /\ UNCHANGED <<localVars, driveVars, authVars, uiVars>>

\* The first `size' parts of the open file are stored under a new file id.
Stored(w) ==
    /\ len[job[w].id] >= job[w].size
    /\ files < MaxFiles
    /\ files' = files + 1
    /\ stored' = stored \cup {[file |-> files + 1, folder |-> job[w].folder,
                               id |-> job[w].id, len |-> job[w].size]}

Confirmed(w) ==
    Enter(w, "remove", [NoJob EXCEPT !.op = "upload", !.name = job[w].name])

\* Bug: any answer is taken for a confirmation.
AnyAnswer(w) ==
    /\ pc[w] = "put"
    /\ Confirmed(w)
    /\ Stored(w) \/ UNCHANGED <<stored, files>>
    /\ UNCHANGED <<localVars, folders, asked, authVars, uiVars>>

\* PUT: it is refused, or done with its answer lost, or confirmed.
Put(w) ==
    /\ pc[w] = "put"
    /\ \/ Return(w) /\ UNCHANGED <<stored, files>>
       \/ (Return(w) \/ Confirmed(w)) /\ Stored(w)
    /\ UNCHANGED <<localVars, folders, asked, authVars, uiVars>>

\* fs::remove_file(&file), of whatever has the name by now; then
\* refresh_vault and refresh_drive.
RemoveLocal(w) ==
    /\ pc[w] = "remove"
    /\ \/ Return(w) /\ UNCHANGED vault
       \/ /\ AtPath(w) # 0
          /\ vault' = [vault EXCEPT ![Device[w]][job[w].name] = 0]
          /\ Enter(w, "token", [NoJob EXCEPT !.op = "list"])
    /\ UNCHANGED <<len, imported, kept, driveVars, authVars, uiVars>>

-----------------------------------------------------------------------------
(* delete_drive_file, download_drive and download_and_decrypt_drive.  The  *)
(* last two differ in what becomes of the file they have received.         *)

\* The selected file of the list; its id is what counts from here on.
Chosen(w, op, f) ==
    /\ pc[w] = "idle" /\ f \in drive_files[w]
    /\ \/ Rebuilt(w, FALSE) /\ UNCHANGED <<pc, job>>
       \/ /\ Rebuilt(w, TRUE)
          /\ Enter(w, IF op = "delete" THEN "delete" ELSE "get",
                   [NoJob EXCEPT !.op = op, !.file = f])

DeleteStart(w, f) ==
    /\ Chosen(w, "delete", f)
    /\ UNCHANGED <<localVars, driveVars, connected, uiVars>>

\* What the request deletes, if it still is there.
Gone(w) == {s \in stored : s.file = job[w].file}

\* The request by id: it fails, or it is done and its answer may be lost.
SendDelete(w) ==
    /\ pc[w] = "delete"
    /\ \/ Return(w) /\ UNCHANGED <<stored, asked>>
       \/ /\ Gone(w) # {}
          /\ stored' = stored \ Gone(w)
          /\ asked' = asked \cup {<<s.id, "drive">> : s \in Gone(w)}
          /\ \E to \in {"idle", "token"} : pc' = [pc EXCEPT ![w] = to]
          /\ job' = [v \in Windows |->
                       IF v # w THEN [job[v] EXCEPT !.present = @ \ {job[w].file}]
                       ELSE IF pc'[w] = "idle" THEN NoJob
                       ELSE [NoJob EXCEPT !.op = "list"]]
    /\ UNCHANGED <<localVars, folders, files, authVars, uiVars>>

DownloadStart(w, f) ==
    /\ Chosen(w, "download", f)
    /\ UNCHANGED <<localVars, driveVars, connected, uiVars>>

Keeps(w, names) == temporaries' = [temporaries EXCEPT ![w] = names]

\* The request: refused, or answered with the contents of the file.  A stale
\* temporary file is removed, or the download fails; a new one is created.
Get(w) ==
    /\ pc[w] = "get"
    /\ \/ Enter(w, "failed", [NoJob EXCEPT !.op = job[w].op]) /\ UNCHANGED temporaries
       \/ \E s \in stored :
            /\ s.file = job[w].file
            /\ Enter(w, "receive", [job[w] EXCEPT !.file = 0, !.id = s.id, !.size = s.len])
            /\ Keeps(w, {"download"})
    /\ UNCHANGED <<localVars, driveVars, authVars, drive_files>>

\* io::copy writes another part.
Receive(w) ==
    /\ pc[w] = "receive" /\ job[w].received < job[w].size
    /\ job' = [job EXCEPT ![w].received = @ + 1]
    /\ UNCHANGED <<localVars, driveVars, pc, authVars, uiVars>>

\* Bug: the end of the connection is taken for the end of the file.
SomeReceived(w) == job[w].received > 0

\* io::copy has returned Ok, with more than nothing.
AllReceived(w) == job[w].received = job[w].size /\ job[w].size > 0

\* The destination holds what was received.
Delivered(w) ==
    Enter(w, "done", [NoJob EXCEPT !.op = "done", !.id = job[w].id,
                                   !.received = job[w].received])

\* fs::rename(&temp_path, destination): to the path the user chose, or to the
\* temporary container that is decrypted next.
Install(w) ==
    /\ pc[w] = "receive" /\ AllReceived(w)
    /\ \/ Delivered(w) /\ Keeps(w, {})
       \/ Enter(w, "export", job[w]) /\ Keeps(w, {"container"})
    /\ UNCHANGED <<localVars, driveVars, authVars, drive_files>>

\* Creating, copying, syncing or renaming fails, or nothing was received.
ReceiveFails(w) ==
    /\ pc[w] = "receive"
    /\ Enter(w, "failed", [NoJob EXCEPT !.op = job[w].op])
    /\ UNCHANGED <<localVars, driveVars, authVars, uiVars>>

\* let _ = remove_file(..) of the temporary files and of the destination; one
\* that cannot be removed is nobody's from here on.
DownloadFailed(w) ==
    /\ pc[w] = "failed"
    /\ Return(w)
    /\ Keeps(w, {})
    /\ UNCHANGED <<localVars, driveVars, authVars, drive_files>>

\* Bug: a failed decryption returns before the temporary container is removed.
ExportLeaves(w) ==
    /\ pc[w] = "export"
    /\ \/ Delivered(w) /\ Keeps(w, {})
       \/ Return(w) /\ UNCHANGED temporaries
    /\ UNCHANGED <<localVars, driveVars, authVars, drive_files>>

\* export_file of the temporary container; whether it decrypts or not, the
\* container is removed.
Export(w) ==
    /\ pc[w] = "export"
    /\ Delivered(w) \/ Return(w)
    /\ Keeps(w, {})
    /\ UNCHANGED <<localVars, driveVars, authVars, drive_files>>

\* The file is at the destination and the handler reports it.
Done(w) ==
    /\ pc[w] = "done"
    /\ Return(w)
    /\ UNCHANGED <<localVars, driveVars, authVars, uiVars>>

-----------------------------------------------------------------------------
\* A step of a handler that is under way.
Step(w) ==
    \/ ImportWrite(w) \/ ImportEnds(w)
    \/ Token(w) \/ Lookup(w) \/ CreateFolder(w) \/ ListPage(w)
    \/ Measure(w) \/ Open(w) \/ Put(w) \/ RemoveLocal(w)
    \/ SendDelete(w)
    \/ Get(w) \/ Receive(w) \/ Install(w) \/ ReceiveFails(w)
    \/ DownloadFailed(w) \/ Export(w) \/ Done(w)

\* A call of a handler.
Call(w) ==
    \/ Connect(w) \/ Disconnect(w) \/ Refresh(w)
    \/ \E n \in Names : ImportStart(w, n) \/ DeleteLocal(w, n) \/ UploadStart(w, n)
    \/ \E f \in Files : DeleteStart(w, f) \/ DownloadStart(w, f)

Next == \E w \in Windows : Start(w) \/ Stop(w) \/ Call(w) \/ Step(w)

Spec == Init /\ [][Next]_vars

-----------------------------------------------------------------------------
(* Properties.                                                             *)

\* Every variable has its type, a client belongs to a session, and the
\* locals of a handler exist while it runs.
TypeOK ==
    /\ vault \in [Devices -> [Names -> {0} \cup Ids]]
    /\ len \in [Ids -> 0..Whole] /\ imported \in 0..MaxId /\ kept \subseteq Ids
    /\ IsFiniteSet(folders) /\ stored \subseteq StoredFile /\ files \in 0..MaxFiles
    /\ \A s, t \in stored : s.file = t.file => s = t
    /\ \A w \in Windows :
        /\ pc[w] \in {"off", "idle", "import", "token", "folder", "create", "page",
                      "measure", "open", "put", "remove", "delete", "get",
                      "receive", "failed", "export", "done"}
        /\ (pc[w] \in {"off", "idle"}) <=> (job[w] = NoJob)
        /\ client[w] => connected[w]
        /\ drive_files[w] \subseteq 1..files
        /\ temporaries[w] \subseteq {"download", "container"}

InVault(i) == \E d \in Devices, n \in Names : vault[d][n] = i
OnDrive(i) == \E s \in stored : s.id = i /\ s.len = Whole

\* Where container i is, whole, once its import has returned Ok.
PlacesOf(i) ==
    IF i \notin kept THEN {"new"}
    ELSE {p \in {"vault", "drive"} : IF p = "vault" THEN InVault(i) ELSE OnDrive(i)}

Keeping == INSTANCE Custody WITH places <- [i \in Ids |-> PlacesOf(i)]

\* Every step is one of Custody, or does not move a container: however
\* requests, removals and windows fail, a container leaves the vault only
\* when the Drive holds all of it.
ImplementsCustody == Keeping!Spec

\* main.rs:344, "Delete the local encrypted staging copy ONLY after Google
\* Drive confirms that the upload succeeded": a container that was imported
\* is somewhere, whole, unless the user deleted it.
NothingLost ==
    \A i \in kept : PlacesOf(i) = {} => \E p \in {"vault", "drive"} : <<i, p>> \in asked

\* ensure_folder asks before it creates: two windows that ask at once may both
\* create a folder, but each at most one, however often requests are repeated
\* after a lost answer or a restart.
FoldersBounded == Cardinality(folders) <= Cardinality(Windows)

\* A refresh that ends well shows every file that was in its folder all the
\* time, although other windows add and delete files between two pages.
ListsWhatStays ==
    [][\A w \in Windows :
          pc[w] = "page" /\ pc'[w] = "idle" /\ drive_files'[w] # drive_files[w] =>
              job[w].present \subseteq drive_files'[w]]_vars

\* What a download or a decryption leaves at the destination is the whole of
\* a container, if it was imported whole, from whichever device it came.
DownloadIsWhole ==
    \A w \in Windows :
        pc[w] = "done" /\ job[w].id \in kept => job[w].received = Whole

\* main.rs:478, "Always remove the temporary encrypted container": a handler
\* that has returned has no temporary file to remove left.
TemporariesRemoved ==
    \A w \in Windows : pc[w] = "idle" => temporaries[w] = {}
=============================================================================
