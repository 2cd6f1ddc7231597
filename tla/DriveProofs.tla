----------------------------- MODULE DriveProofs -----------------------------
(* Theorems about Drive, for every value of its constants.                 *)
EXTENDS Drive, FiniteSetTheorems, TLAPS

USE DriveAssumption

-----------------------------------------------------------------------------
(* Types.                                                                  *)

Labels == {"off", "idle", "import", "token", "folder", "create", "page",
           "measure", "open", "put", "remove", "delete", "get", "receive",
           "failed", "export", "done"}

Resting == {"off", "idle"}

Jobs == [op : Ops \cup {None}, name : Names \cup {None}, file : 0..MaxFiles,
         folder : Nat, id : 0..MaxId, size : 0..Whole, received : 0..Whole,
         found : SUBSET Files, present : SUBSET Files]

LocalTypes ==
    /\ vault \in [Devices -> [Names -> {0} \cup Ids]]
    /\ len \in [Ids -> 0..Whole]
    /\ imported \in 0..MaxId
    /\ kept \subseteq Ids

\* Folders are numbered in the order of their creation.
DriveTypes ==
    /\ IsFiniteSet(folders) /\ folders \subseteq Nat
    /\ stored \subseteq StoredFile
    /\ files \in 0..MaxFiles

JobTypes ==
    /\ pc \in [Windows -> Labels]
    /\ job \in [Windows -> Jobs]

UiTypes ==
    /\ connected \in [Windows -> BOOLEAN]
    /\ client \in [Windows -> BOOLEAN]
    /\ drive_files \in [Windows -> SUBSET Files]
    /\ temporaries \in [Windows -> SUBSET {"download", "container"}]

Types == LocalTypes /\ DriveTypes /\ JobTypes /\ UiTypes

\* What a handler is for, and what it works on, at each of its steps.
ShapeOf(label, j) ==
    /\ label \in Resting => j = NoJob
    /\ label \notin Resting => j.op \in Ops
    /\ label = "import" => j.name \in Names /\ j.id \in Ids
    /\ j.op = "upload" => j.name \in Names
    /\ label \in {"measure", "open", "put", "remove"} => j.op = "upload"
    /\ label \in {"get", "receive", "failed", "export", "done"} => j.op # "upload"
    /\ label \in {"put", "receive", "export", "done"} => j.id \in Ids

JobShape == \A w \in Windows : ShapeOf(pc[w], job[w])

-----------------------------------------------------------------------------
(* Lemmas about handlers.                                                  *)

LEMMA NoJobTypes ==
    /\ NoJob \in Jobs
    /\ NoJob.op = None /\ NoJob.name = None /\ NoJob.id = 0
    /\ NoJob.size = 0 /\ NoJob.received = 0 /\ NoJob.found = {}
  BY DEF NoJob, Jobs

\* Changing one field of a job changes that field.
LEMMA JobExcept ==
    ASSUME NEW j \in Jobs
    PROVE  /\ \A x \in Ops \cup {None} : [j EXCEPT !.op = x] \in Jobs
           /\ \A x \in Names \cup {None} : [j EXCEPT !.name = x] \in Jobs
           /\ \A x \in 0..MaxFiles : [j EXCEPT !.file = x] \in Jobs
           /\ \A x \in Nat : [j EXCEPT !.folder = x] \in Jobs
           /\ \A x \in 0..MaxId : [j EXCEPT !.id = x] \in Jobs
           /\ \A x \in 0..Whole : [j EXCEPT !.size = x] \in Jobs
           /\ \A x \in 0..Whole : [j EXCEPT !.received = x] \in Jobs
           /\ \A x \in SUBSET Files : [j EXCEPT !.found = x] \in Jobs
           /\ \A x \in SUBSET Files : [j EXCEPT !.present = x] \in Jobs
  BY DEF Jobs

\* A step of window w changes the place and the locals of w only.
LEMMA EnterEffect ==
    ASSUME JobTypes, NEW w \in Windows, NEW label \in Labels, NEW j \in Jobs,
           Enter(w, label, j)
    PROVE  /\ JobTypes'
           /\ pc'[w] = label /\ job'[w] = j
           /\ \A v \in Windows \ {w} : pc'[v] = pc[v] /\ job'[v] = job[v]
  BY DEF Enter, JobTypes

LEMMA ReturnEffect ==
    ASSUME JobTypes, NEW w \in Windows, Return(w)
    PROVE  /\ JobTypes'
           /\ pc'[w] = "idle" /\ job'[w] = NoJob
           /\ \A v \in Windows \ {w} : pc'[v] = pc[v] /\ job'[v] = job[v]
<1>1. "idle" \in Labels
  BY DEF Labels
<1> QED
  BY <1>1, EnterEffect, NoJobTypes DEF Return

\* What is at the path of a handler.
LEMMA AtPathType ==
    ASSUME LocalTypes, NEW w \in Windows, job[w].name \in Names
    PROVE  /\ Device[w] \in Devices
           /\ AtPath(w) \in {0} \cup Ids
  BY DEF LocalTypes, AtPath, Devices

-----------------------------------------------------------------------------
(* Every step keeps the types.                                             *)

LEMMA InitTypes == Init => Types
<1> SUFFICES ASSUME Init PROVE Types
  OBVIOUS
<1>1. LocalTypes
  BY DEF Init, LocalTypes
<1>2. DriveTypes
  BY FS_EmptySet DEF Init, DriveTypes
<1>3. JobTypes
  BY NoJobTypes DEF Init, JobTypes, Labels
<1>4. UiTypes
  BY DEF Init, UiTypes
<1> QED
  BY <1>1, <1>2, <1>3, <1>4 DEF Types

\* The steps that work on a vault.
LEMMA LocalStepTypes ==
    ASSUME Types, JobShape, NEW w \in Windows,
           \/ \E n \in Names : ImportStart(w, n) \/ DeleteLocal(w, n)
           \/ ImportWrite(w) \/ ImportEnds(w) \/ RemoveLocal(w)
    PROVE  LocalTypes'
<1> USE DEF LocalTypes
<1>1. Device[w] \in Devices
  BY DEF Devices
<1>2. LocalTypes
  BY DEF Types
<1>3. CASE \E n \in Names : ImportStart(w, n)
  <2>1. PICK n \in Names :
          /\ imported < MaxId /\ imported' = imported + 1
          /\ vault' = [vault EXCEPT ![Device[w]][n] = imported + 1]
          /\ \/ len' = [len EXCEPT ![imported + 1] = Whole]
             \/ len' = len
          /\ \/ kept' = kept \cup {imported + 1}
             \/ kept' = kept
    BY <1>3 DEF ImportStart
  <2>2. imported + 1 \in Ids
    BY <1>2, <2>1 DEF Ids
  <2>3. vault' \in [Devices -> [Names -> {0} \cup Ids]]
    BY <1>1, <1>2, <2>1, <2>2
  <2>4. len' \in [Ids -> 0..Whole]
    BY <1>2, <2>1, <2>2
  <2>5. kept' \subseteq Ids
    BY <1>2, <2>1, <2>2
  <2>6. imported' \in 0..MaxId
    BY <1>2, <2>1
  <2> QED
    BY <2>3, <2>4, <2>5, <2>6
<1>4. CASE \E n \in Names : DeleteLocal(w, n)
  <2>1. PICK n \in Names : vault' = [vault EXCEPT ![Device[w]][n] = 0]
    BY <1>4 DEF DeleteLocal
  <2>2. vault' \in [Devices -> [Names -> {0} \cup Ids]]
    BY <1>1, <1>2, <2>1
  <2> QED
    BY <1>2, <1>4, <2>2 DEF DeleteLocal
<1>5. CASE ImportWrite(w)
  <2>1. job[w].id \in Ids
    BY <1>5 DEF ImportWrite, JobShape, ShapeOf
  <2>2. len[job[w].id] + 1 \in 0..Whole
    BY <1>2, <1>5, <2>1 DEF ImportWrite
  <2>3. len' \in [Ids -> 0..Whole]
    BY <1>2, <1>5, <2>1, <2>2 DEF ImportWrite
  <2> QED
    BY <1>2, <1>5, <2>3 DEF ImportWrite
<1>6. CASE ImportEnds(w)
  <2>1. job[w].id \in Ids
    BY <1>6 DEF ImportEnds, JobShape, ShapeOf
  <2> QED
    BY <1>2, <1>6, <2>1 DEF ImportEnds
<1>7. CASE RemoveLocal(w)
  <2>1. \/ vault' = vault
        \/ vault' = [vault EXCEPT ![Device[w]][job[w].name] = 0]
    BY <1>7 DEF RemoveLocal
  <2>2. job[w].name \in Names
    BY <1>7 DEF RemoveLocal, JobShape, ShapeOf
  <2>3. vault' \in [Devices -> [Names -> {0} \cup Ids]]
    BY <1>1, <1>2, <2>1, <2>2
  <2> QED
    BY <1>2, <1>7, <2>3 DEF RemoveLocal
<1> QED
  BY <1>3, <1>4, <1>5, <1>6, <1>7

\* A window rests with no job, and goes on with a job that fits the step.
LEMMA EnterShape ==
    ASSUME JobTypes, JobShape, NEW w \in Windows, NEW label \in Labels,
           NEW j \in Jobs, ShapeOf(label, j), Enter(w, label, j)
    PROVE  JobTypes' /\ JobShape'
<1>1. /\ JobTypes'
      /\ pc'[w] = label /\ job'[w] = j
      /\ \A v \in Windows \ {w} : pc'[v] = pc[v] /\ job'[v] = job[v]
  BY EnterEffect
<1>2. ASSUME NEW v \in Windows PROVE ShapeOf(pc'[v], job'[v])
  BY <1>1 DEF JobShape
<1> QED
  BY <1>1, <1>2 DEF JobShape, ShapeOf

LEMMA ReturnShape ==
    ASSUME JobTypes, JobShape, NEW w \in Windows, Return(w)
    PROVE  JobTypes' /\ JobShape'
<1>1. "idle" \in Labels /\ ShapeOf("idle", NoJob)
  BY NoJobTypes DEF Labels, ShapeOf, Resting, Ops
<1> QED
  BY <1>1, EnterShape, NoJobTypes DEF Return

\* The files of a folder are files.
LEMMA InTypes == ASSUME DriveTypes, NEW f PROVE In(f) \subseteq Files
  BY DEF DriveTypes, In, StoredFile

\* The handler that gets a folder goes on with its upload or its listing.
LEMMA WithFolderShape ==
    ASSUME Types, JobShape, NEW w \in Windows, pc[w] \in {"folder", "create"},
           NEW f \in Nat, WithFolder(w, f)
    PROVE  JobTypes' /\ JobShape'
<1>1. job[w] \in Jobs /\ ShapeOf(pc[w], job[w])
  BY DEF Types, JobTypes, JobShape
<1>2. CASE job[w].op = "upload"
  <2> DEFINE j == [job[w] EXCEPT !.folder = f]
  <2>1. j \in Jobs /\ j.op = job[w].op /\ j.name = job[w].name
    BY <1>1, JobExcept DEF Jobs
  <2>2. "measure" \in Labels /\ ShapeOf("measure", j)
    BY <1>1, <1>2, <2>1 DEF Labels, ShapeOf, Resting, Ops
  <2> QED
    BY <1>2, <2>1, <2>2, EnterShape DEF WithFolder, Types
<1>3. CASE job[w].op # "upload"
  <2> DEFINE j == [job[w] EXCEPT !.folder = f, !.present = In(f)]
  <2>1. [job[w] EXCEPT !.folder = f] \in Jobs /\ In(f) \subseteq Files
    BY <1>1, JobExcept, InTypes DEF Types
  <2>2. j \in Jobs /\ j.op = job[w].op
    BY <1>1, <2>1, JobExcept DEF Jobs
  <2>3. "page" \in Labels /\ ShapeOf("page", j)
    BY <1>1, <1>3, <2>2 DEF Labels, ShapeOf, Resting
  <2> QED
    BY <1>3, <2>2, <2>3, EnterShape DEF WithFolder, Types
<1> QED
  BY <1>2, <1>3

\* A refresh begins, for the user or at the end of another handler.
LEMMA ListShape ==
    ASSUME JobTypes, JobShape, NEW w \in Windows,
           Enter(w, "token", [NoJob EXCEPT !.op = "list"])
    PROVE  JobTypes' /\ JobShape'
<1> DEFINE j == [NoJob EXCEPT !.op = "list"]
<1>1. j \in Jobs /\ j.op = "list" /\ "list" \in Ops
  BY NoJobTypes, JobExcept DEF Ops, NoJob
<1>2. "token" \in Labels /\ ShapeOf("token", j)
  BY <1>1 DEF Labels, ShapeOf, Resting
<1> QED
  BY <1>1, <1>2, EnterShape

LEMMA JobsUnchanged ==
    ASSUME JobTypes, JobShape, UNCHANGED <<pc, job>> PROVE JobTypes' /\ JobShape'
  BY DEF JobTypes, JobShape

\* Calls: from rest to the first step of a handler, or none.
LEMMA CallKeepsJobs ==
    ASSUME Types, JobShape, NEW w \in Windows, Start(w) \/ Stop(w) \/ Call(w)
    PROVE  JobTypes' /\ JobShape'
<1>0. JobTypes
  BY DEF Types
<1>1. CASE Start(w)
  BY <1>0, <1>1, ReturnShape, ListShape DEF Start
<1>2. CASE Stop(w)
  <2>1. "off" \in Labels /\ ShapeOf("off", NoJob)
    BY NoJobTypes DEF Labels, ShapeOf, Resting, Ops
  <2> QED
    BY <1>0, <1>2, <2>1, EnterShape, NoJobTypes DEF Stop
<1>3. CASE Connect(w) \/ Refresh(w)
  BY <1>0, <1>3, ListShape DEF Connect, Refresh
<1>4. CASE Disconnect(w) \/ \E n \in Names : DeleteLocal(w, n)
  BY <1>0, <1>4, JobsUnchanged DEF Disconnect, DeleteLocal
<1>5. CASE \E n \in Names : ImportStart(w, n)
  <2>1. PICK n \in Names : ImportStart(w, n)
    BY <1>5
  <2> DEFINE j == [NoJob EXCEPT !.op = "import", !.name = n, !.id = imported + 1]
  <2>2. imported + 1 \in Ids /\ imported + 1 \in 0..MaxId
    BY <2>1 DEF ImportStart, Types, LocalTypes, Ids
  <2>3. "import" \in Ops
    BY DEF Ops
  <2>4. j \in Jobs
    <3>1. [NoJob EXCEPT !.op = "import"] \in Jobs
      BY <2>3, NoJobTypes, JobExcept
    <3>2. [NoJob EXCEPT !.op = "import", !.name = n] \in Jobs
      BY <3>1, JobExcept
    <3> QED
      BY <2>2, <3>2, JobExcept
  <2>5. j.op = "import" /\ j.name = n /\ j.id = imported + 1
    BY DEF NoJob
  <2>6. "import" \in Labels /\ ShapeOf("import", j)
    BY <2>2, <2>3, <2>5 DEF Labels, ShapeOf, Resting
  <2>7. CASE UNCHANGED <<pc, job>>
    BY <1>0, <2>7, JobsUnchanged
  <2>8. CASE Enter(w, "import", j)
    BY <1>0, <2>4, <2>6, <2>8, EnterShape
  <2> QED
    BY <2>1, <2>7, <2>8 DEF ImportStart
<1>6. CASE \E n \in Names : UploadStart(w, n)
  <2>1. PICK n \in Names : UploadStart(w, n)
    BY <1>6
  <2> DEFINE j == [NoJob EXCEPT !.op = "upload", !.name = n]
  <2>2. "upload" \in Ops
    BY DEF Ops
  <2>3. j \in Jobs
    <3>1. [NoJob EXCEPT !.op = "upload"] \in Jobs
      BY <2>2, NoJobTypes, JobExcept
    <3> QED
      BY <3>1, JobExcept
  <2>4. j.op = "upload" /\ j.name = n
    BY DEF NoJob
  <2>5. "folder" \in Labels /\ ShapeOf("folder", j)
    BY <2>2, <2>4 DEF Labels, ShapeOf, Resting
  <2> QED
    BY <1>0, <2>1, <2>3, <2>5, EnterShape DEF UploadStart
<1>7. CASE \E f \in Files : DeleteStart(w, f) \/ DownloadStart(w, f)
  <2>1. PICK f \in Files : DeleteStart(w, f) \/ DownloadStart(w, f)
    BY <1>7
  <2>2. PICK o \in {"delete", "download"} : Chosen(w, o, f)
    BY <2>1 DEF DeleteStart, DownloadStart
  <2> DEFINE j == [NoJob EXCEPT !.op = o, !.file = f]
             l == IF o = "delete" THEN "delete" ELSE "get"
  <2>3. o \in Ops /\ o # "upload" /\ f \in 0..MaxFiles
    BY DEF Ops, Files
  <2>4. j \in Jobs
    <3>1. [NoJob EXCEPT !.op = o] \in Jobs
      BY <2>3, NoJobTypes, JobExcept
    <3> QED
      BY <2>3, <3>1, JobExcept
  <2>5. j.op = o
    BY DEF NoJob
  <2>6. l \in Labels /\ ShapeOf(l, j)
    BY <2>3, <2>5 DEF Labels, ShapeOf, Resting
  <2>7. CASE UNCHANGED <<pc, job>>
    BY <1>0, <2>7, JobsUnchanged
  <2>8. CASE Enter(w, l, j)
    BY <1>0, <2>4, <2>6, <2>8, EnterShape
  <2> QED
    BY <2>2, <2>7, <2>8 DEF Chosen
<1> QED
  BY <1>1, <1>2, <1>3, <1>4, <1>5, <1>6, <1>7 DEF Call

\* Steps of imports, folders, listings and uploads.
LEMMA UpStepKeepsJobs ==
    ASSUME Types, JobShape, NEW w \in Windows,
           \/ ImportWrite(w) \/ ImportEnds(w)
           \/ Token(w) \/ Lookup(w) \/ CreateFolder(w) \/ ListPage(w)
           \/ Measure(w) \/ Open(w) \/ Put(w) \/ RemoveLocal(w)
    PROVE  JobTypes' /\ JobShape'
<1>0. JobTypes /\ job[w] \in Jobs /\ ShapeOf(pc[w], job[w])
  BY DEF Types, JobTypes, JobShape
<1>1. CASE ImportWrite(w)
  BY <1>0, <1>1, JobsUnchanged DEF ImportWrite
<1>2. CASE Return(w)
  BY <1>0, <1>2, ReturnShape
<1>3. CASE Token(w)
  <2>1. CASE pc[w] = "token" /\ Enter(w, "folder", job[w])
    <3>1. "folder" \in Labels /\ ShapeOf("folder", job[w])
      BY <1>0, <2>1 DEF Labels, ShapeOf, Resting
    <3> QED
      BY <1>0, <2>1, <3>1, EnterShape
  <2> QED
    BY <1>2, <1>3, <2>1 DEF Token
<1>4. CASE Lookup(w)
  <2>1. CASE pc[w] = "folder" /\ Enter(w, "create", job[w])
    <3>1. "create" \in Labels /\ ShapeOf("create", job[w])
      BY <1>0, <2>1 DEF Labels, ShapeOf, Resting
    <3> QED
      BY <1>0, <2>1, <3>1, EnterShape
  <2>2. CASE pc[w] = "folder" /\ \E f \in folders : WithFolder(w, f)
    BY <2>2, WithFolderShape DEF Types, DriveTypes
  <2> QED
    BY <1>2, <1>4, <2>1, <2>2 DEF Lookup
<1>5. CASE CreateFolder(w)
  <2>1. Cardinality(folders) + 1 \in Nat
    BY FS_CardinalityType DEF Types, DriveTypes
  <2>2. CASE pc[w] = "create" /\ WithFolder(w, Cardinality(folders) + 1)
    BY <2>1, <2>2, WithFolderShape
  <2> QED
    BY <1>2, <1>5, <2>2 DEF CreateFolder
<1>6. CASE ListPage(w)
  <2>1. CASE pc[w] = "page" /\ \E p \in Page(w) : Enter(w, "page", AskNext(w, p))
    <3>1. PICK p \in Page(w) : Enter(w, "page", AskNext(w, p))
      BY <2>1
    <3>2. p \subseteq Files
      BY <3>1, InTypes DEF Page, Rest, Types
    <3>3. job[w].found \cup p \in SUBSET Files
      BY <1>0, <3>2 DEF Jobs
    <3>4. AskNext(w, p) \in Jobs /\ AskNext(w, p).op = job[w].op
      BY <1>0, <3>3, JobExcept DEF AskNext, Jobs
    <3>5. AskNext(w, p).name = job[w].name
      BY <1>0 DEF AskNext, Jobs
    <3>6. "page" \in Labels /\ ShapeOf("page", AskNext(w, p))
      BY <1>0, <2>1, <3>4, <3>5 DEF Labels, ShapeOf, Resting
    <3> QED
      BY <1>0, <3>1, <3>4, <3>6, EnterShape
  <2> QED
    BY <1>2, <1>6, <2>1 DEF ListPage
<1>7. CASE Measure(w)
  <2>1. CASE pc[w] = "measure" /\ AtPath(w) # 0
             /\ Enter(w, "open", [job[w] EXCEPT !.size = len[AtPath(w)]])
    <3> DEFINE j == [job[w] EXCEPT !.size = len[AtPath(w)]]
    <3>1. job[w].op = "upload" /\ job[w].name \in Names
      BY <1>0, <2>1 DEF ShapeOf
    <3>2. len[AtPath(w)] \in 0..Whole
      BY <2>1, <3>1, AtPathType DEF Types, LocalTypes
    <3>3. j \in Jobs /\ j.op = job[w].op /\ j.name = job[w].name
      BY <1>0, <3>2, JobExcept DEF Jobs
    <3>4. "open" \in Labels /\ ShapeOf("open", j)
      BY <3>1, <3>3 DEF Labels, ShapeOf, Resting, Ops
    <3> QED
      BY <1>0, <2>1, <3>3, <3>4, EnterShape
  <2> QED
    BY <1>2, <1>7, <2>1 DEF Measure
<1>8. CASE Open(w)
  <2>1. CASE pc[w] = "open" /\ AtPath(w) # 0
             /\ Enter(w, "put", [job[w] EXCEPT !.id = AtPath(w)])
    <3> DEFINE j == [job[w] EXCEPT !.id = AtPath(w)]
    <3>1. job[w].op = "upload" /\ job[w].name \in Names
      BY <1>0, <2>1 DEF ShapeOf
    <3>2. AtPath(w) \in Ids /\ AtPath(w) \in 0..MaxId
      BY <2>1, <3>1, AtPathType DEF Types, Ids
    <3>3. j \in Jobs /\ j.op = job[w].op /\ j.name = job[w].name /\ j.id = AtPath(w)
      BY <1>0, <3>2, JobExcept DEF Jobs
    <3>4. "put" \in Labels /\ ShapeOf("put", j)
      BY <3>1, <3>2, <3>3 DEF Labels, ShapeOf, Resting, Ops
    <3> QED
      BY <1>0, <2>1, <3>3, <3>4, EnterShape
  <2> QED
    BY <1>2, <1>8, <2>1 DEF Open
<1>9. CASE Put(w)
  <2>1. CASE pc[w] = "put" /\ Confirmed(w)
    <3> DEFINE j == [NoJob EXCEPT !.op = "upload", !.name = job[w].name]
    <3>1. job[w].name \in Names /\ "upload" \in Ops
      BY <1>0, <2>1 DEF ShapeOf, Ops
    <3>2. j \in Jobs
      <4>1. [NoJob EXCEPT !.op = "upload"] \in Jobs
        BY <3>1, NoJobTypes, JobExcept
      <4> QED
        BY <3>1, <4>1, JobExcept
    <3>3. j.op = "upload" /\ j.name = job[w].name
      BY DEF NoJob
    <3>4. "remove" \in Labels /\ ShapeOf("remove", j)
      BY <3>1, <3>3 DEF Labels, ShapeOf, Resting
    <3> QED
      BY <1>0, <2>1, <3>2, <3>4, EnterShape DEF Confirmed
  <2> QED
    BY <1>2, <1>9, <2>1 DEF Put
<1>10. CASE RemoveLocal(w)
  BY <1>0, <1>2, <1>10, ListShape DEF RemoveLocal
<1> QED
  BY <1>1, <1>2, <1>3, <1>4, <1>5, <1>6, <1>7, <1>8, <1>9, <1>10 DEF ImportEnds

\* Steps of deletions and downloads.
LEMMA DownStepKeepsJobs ==
    ASSUME Types, JobShape, NEW w \in Windows,
           \/ SendDelete(w) \/ Get(w) \/ Receive(w) \/ Install(w)
           \/ ReceiveFails(w) \/ DownloadFailed(w) \/ Export(w) \/ Done(w)
    PROVE  JobTypes' /\ JobShape'
<1>0. JobTypes /\ job[w] \in Jobs /\ ShapeOf(pc[w], job[w])
  BY DEF Types, JobTypes, JobShape
<1>1. CASE Return(w)
  BY <1>0, <1>1, ReturnShape
<1>2. CASE SendDelete(w)
  <2>1. CASE /\ pc[w] = "delete"
             /\ \E to \in {"idle", "token"} : pc' = [pc EXCEPT ![w] = to]
             /\ job' = [v \in Windows |->
                  IF v # w THEN [job[v] EXCEPT !.present = @ \ {job[w].file}]
                  ELSE IF pc'[w] = "idle" THEN NoJob
                  ELSE [NoJob EXCEPT !.op = "list"]]
    <3> DEFINE l == [NoJob EXCEPT !.op = "list"]
    <3>1. l \in Jobs /\ l.op = "list" /\ "list" \in Ops
      BY NoJobTypes, JobExcept DEF Ops, NoJob
    <3>2. pc' \in [Windows -> Labels] /\ pc'[w] \in {"idle", "token"}
      BY <1>0, <2>1 DEF JobTypes, Labels
    <3>3. ASSUME NEW v \in Windows PROVE job'[v] \in Jobs /\ ShapeOf(pc'[v], job'[v])
      <4>1. CASE v = w
        BY <2>1, <3>1, <3>2, <4>1, NoJobTypes DEF ShapeOf, Resting, Ops
      <4>2. CASE v # w
        <5> DEFINE j == [job[v] EXCEPT !.present = @ \ {job[w].file}]
        <5>1. job[v] \in Jobs /\ ShapeOf(pc[v], job[v]) /\ pc'[v] = pc[v]
          BY <1>0, <2>1, <4>2 DEF JobTypes, JobShape
        <5>2. job[v].present \ {job[w].file} \in SUBSET Files
          BY <5>1 DEF Jobs
        <5>3. j \in Jobs /\ j.op = job[v].op /\ j.name = job[v].name /\ j.id = job[v].id
          BY <5>1, <5>2, JobExcept DEF Jobs
        <5>4. job[v] = NoJob => j = NoJob
          BY DEF NoJob
        <5>5. job'[v] = j
          BY <2>1, <4>2
        <5> QED
          BY <5>1, <5>3, <5>4, <5>5 DEF ShapeOf
      <4> QED
        BY <4>1, <4>2
    <3>4. job' \in [Windows -> Jobs]
      BY <2>1, <3>3
    <3> QED
      BY <3>2, <3>3, <3>4 DEF JobTypes, JobShape
  <2> QED
    BY <1>1, <1>2, <2>1 DEF SendDelete
<1>3. CASE /\ pc[w] \in {"get", "receive"}
           /\ Enter(w, "failed", [NoJob EXCEPT !.op = job[w].op])
  <2> DEFINE j == [NoJob EXCEPT !.op = job[w].op]
  <2>1. job[w].op \in Ops /\ job[w].op # "upload"
    BY <1>0, <1>3 DEF ShapeOf, Resting
  <2>2. j \in Jobs /\ j.op = job[w].op
    BY <2>1, NoJobTypes, JobExcept DEF NoJob
  <2>3. "failed" \in Labels /\ ShapeOf("failed", j)
    BY <2>1, <2>2 DEF Labels, ShapeOf, Resting
  <2> QED
    BY <1>0, <1>3, <2>2, <2>3, EnterShape
<1>4. CASE Get(w)
  <2>1. CASE pc[w] = "get" /\ \E s \in stored :
               Enter(w, "receive", [job[w] EXCEPT !.file = 0, !.id = s.id, !.size = s.len])
    <3>1. PICK s \in stored :
            Enter(w, "receive", [job[w] EXCEPT !.file = 0, !.id = s.id, !.size = s.len])
      BY <2>1
    <3> DEFINE j == [job[w] EXCEPT !.file = 0, !.id = s.id, !.size = s.len]
    <3>2. s.id \in Ids /\ s.id \in 0..MaxId /\ s.len \in 0..Whole
      BY DEF Types, DriveTypes, StoredFile, Ids
    <3>3. [job[w] EXCEPT !.file = 0] \in Jobs
      BY <1>0, JobExcept
    <3>4. [job[w] EXCEPT !.file = 0, !.id = s.id] \in Jobs
      BY <3>2, <3>3, JobExcept
    <3>5. j \in Jobs
      BY <3>2, <3>4, JobExcept
    <3>6. j.op = job[w].op /\ j.id = s.id
      BY <1>0 DEF Jobs
    <3>7. "receive" \in Labels /\ ShapeOf("receive", j)
      BY <1>0, <2>1, <3>2, <3>6 DEF Labels, ShapeOf, Resting
    <3> QED
      BY <1>0, <3>1, <3>5, <3>7, EnterShape
  <2> QED
    BY <1>3, <1>4, <2>1 DEF Get
<1>5. CASE Receive(w)
  <2> DEFINE j == [job[w] EXCEPT !.received = @ + 1]
  <2>1. job[w].received + 1 \in 0..Whole
    BY <1>0, <1>5 DEF Receive, Jobs
  <2>2. j \in Jobs /\ j.op = job[w].op /\ j.id = job[w].id
    BY <1>0, <2>1, JobExcept DEF Jobs
  <2>3. "receive" \in Labels /\ ShapeOf("receive", j)
    BY <1>0, <1>5, <2>2 DEF Receive, Labels, ShapeOf, Resting
  <2>4. Enter(w, "receive", j)
    BY <1>0, <1>5 DEF Receive, Enter, JobTypes
  <2> QED
    BY <1>0, <2>2, <2>3, <2>4, EnterShape
<1>6. CASE pc[w] \in {"receive", "export"} /\ Delivered(w)
  <2> DEFINE j == [NoJob EXCEPT !.op = "done", !.id = job[w].id, !.received = job[w].received]
  <2>1. /\ "done" \in Ops /\ job[w].id \in Ids
        /\ job[w].id \in 0..MaxId /\ job[w].received \in 0..Whole
    BY <1>0, <1>6 DEF Ops, ShapeOf, Jobs
  <2>2. [NoJob EXCEPT !.op = "done"] \in Jobs
    BY <2>1, NoJobTypes, JobExcept
  <2>3. [NoJob EXCEPT !.op = "done", !.id = job[w].id] \in Jobs
    BY <2>1, <2>2, JobExcept
  <2>4. j \in Jobs
    BY <2>1, <2>3, JobExcept
  <2>5. j.op = "done" /\ j.id = job[w].id
    BY DEF NoJob
  <2>6. "done" \in Labels /\ ShapeOf("done", j)
    BY <2>1, <2>5 DEF Labels, ShapeOf, Resting
  <2> QED
    BY <1>0, <1>6, <2>4, <2>6, EnterShape DEF Delivered
<1>7. CASE pc[w] = "receive" /\ Enter(w, "export", job[w])
  <2>1. "export" \in Labels /\ ShapeOf("export", job[w])
    BY <1>0, <1>7 DEF Labels, ShapeOf, Resting
  <2> QED
    BY <1>0, <1>7, <2>1, EnterShape
<1>8. CASE Install(w)
  BY <1>6, <1>7, <1>8 DEF Install
<1>9. CASE ReceiveFails(w)
  BY <1>3, <1>9 DEF ReceiveFails
<1>10. CASE DownloadFailed(w) \/ Done(w)
  BY <1>1, <1>10 DEF DownloadFailed, Done
<1>11. CASE Export(w)
  BY <1>1, <1>6, <1>11 DEF Export
<1> QED
  BY <1>2, <1>4, <1>5, <1>8, <1>9, <1>10, <1>11

LEMMA NextKeepsJobs ==
    ASSUME Types, JobShape, [Next]_vars PROVE JobTypes' /\ JobShape'
<1>1. CASE UNCHANGED vars
  BY <1>1, JobsUnchanged DEF vars, Types
<1>2. ASSUME NEW w \in Windows, Start(w) \/ Stop(w) \/ Call(w) \/ Step(w)
      PROVE  JobTypes' /\ JobShape'
  BY <1>2, CallKeepsJobs, UpStepKeepsJobs, DownStepKeepsJobs DEF Step
<1> QED
  BY <1>1, <1>2 DEF Next

-----------------------------------------------------------------------------
(* The types of the other variables.                                       *)

\* The steps that touch the vault, and those that touch the Drive.
LEMMA LocalSteps ==
    ASSUME NEW w \in Windows, Start(w) \/ Stop(w) \/ Call(w) \/ Step(w)
    PROVE  \/ UNCHANGED localVars
           \/ \E n \in Names : ImportStart(w, n) \/ DeleteLocal(w, n)
           \/ ImportWrite(w) \/ ImportEnds(w) \/ RemoveLocal(w)
<1>1. ASSUME Start(w) \/ Stop(w) \/ Connect(w) \/ Disconnect(w) \/ Refresh(w)
      PROVE  UNCHANGED localVars
  BY <1>1 DEF Start, Stop, Connect, Disconnect, Refresh
<1>2. ASSUME \E n \in Names : UploadStart(w, n)
      PROVE  UNCHANGED localVars
  BY <1>2 DEF UploadStart
<1>3. ASSUME \E f \in Files : DeleteStart(w, f) \/ DownloadStart(w, f)
      PROVE  UNCHANGED localVars
  BY <1>3 DEF DeleteStart, DownloadStart
<1>4. ASSUME Token(w) \/ Lookup(w) \/ CreateFolder(w) \/ ListPage(w) \/ Measure(w) \/ Open(w)
      PROVE  UNCHANGED localVars
  BY <1>4 DEF Token, Lookup, CreateFolder, ListPage, Measure, Open
<1>5. ASSUME Put(w) \/ SendDelete(w) \/ Get(w) \/ Receive(w) \/ Install(w)
      PROVE  UNCHANGED localVars
  BY <1>5 DEF Put, SendDelete, Get, Receive, Install
<1>6. ASSUME ReceiveFails(w) \/ DownloadFailed(w) \/ Export(w) \/ Done(w)
      PROVE  UNCHANGED localVars
  BY <1>6 DEF ReceiveFails, DownloadFailed, Export, Done
<1> QED
  BY <1>1, <1>2, <1>3, <1>4, <1>5, <1>6 DEF Call, Step

LEMMA LocalFrame ==
    ASSUME [Next]_vars
    PROVE  \/ UNCHANGED localVars
           \/ \E w \in Windows :
                \/ \E n \in Names : ImportStart(w, n) \/ DeleteLocal(w, n)
                \/ ImportWrite(w) \/ ImportEnds(w) \/ RemoveLocal(w)
  BY LocalSteps DEF Next, vars

LEMMA DriveSteps ==
    ASSUME NEW w \in Windows, Start(w) \/ Stop(w) \/ Call(w) \/ Step(w)
    PROVE  \/ UNCHANGED driveVars
           \/ \E n \in Names : DeleteLocal(w, n)
           \/ CreateFolder(w) \/ Put(w) \/ SendDelete(w)
<1>1. ASSUME Start(w) \/ Stop(w) \/ Connect(w) \/ Disconnect(w) \/ Refresh(w)
      PROVE  UNCHANGED driveVars
  BY <1>1 DEF Start, Stop, Connect, Disconnect, Refresh, driveVars
<1>2. ASSUME \E n \in Names : ImportStart(w, n) \/ UploadStart(w, n)
      PROVE  UNCHANGED driveVars
  BY <1>2 DEF ImportStart, UploadStart
<1>3. ASSUME \E f \in Files : DeleteStart(w, f) \/ DownloadStart(w, f)
      PROVE  UNCHANGED driveVars
  BY <1>3 DEF DeleteStart, DownloadStart
<1>4. ASSUME ImportWrite(w) \/ ImportEnds(w) \/ RemoveLocal(w)
      PROVE  UNCHANGED driveVars
  BY <1>4 DEF ImportWrite, ImportEnds, RemoveLocal
<1>5. ASSUME Token(w) \/ Lookup(w) \/ ListPage(w) \/ Measure(w) \/ Open(w)
      PROVE  UNCHANGED driveVars
  BY <1>5 DEF Token, Lookup, ListPage, Measure, Open
<1>6. ASSUME Get(w) \/ Receive(w) \/ Install(w)
      PROVE  UNCHANGED driveVars
  BY <1>6 DEF Get, Receive, Install
<1>7. ASSUME ReceiveFails(w) \/ DownloadFailed(w) \/ Export(w) \/ Done(w)
      PROVE  UNCHANGED driveVars
  BY <1>7 DEF ReceiveFails, DownloadFailed, Export, Done
<1> QED
  BY <1>1, <1>2, <1>3, <1>4, <1>5, <1>6, <1>7 DEF Call, Step

LEMMA DriveFrame ==
    ASSUME [Next]_vars
    PROVE  \/ UNCHANGED driveVars
           \/ \E w \in Windows : \/ \E n \in Names : DeleteLocal(w, n)
                                 \/ CreateFolder(w) \/ Put(w) \/ SendDelete(w)
  BY DriveSteps DEF Next, vars

LEMMA NextKeepsLocalTypes ==
    ASSUME Types, JobShape, [Next]_vars PROVE LocalTypes'
<1>1. CASE UNCHANGED localVars
  BY <1>1 DEF localVars, Types, LocalTypes
<1> QED
  BY <1>1, LocalFrame, LocalStepTypes

\* A new file on the Drive has a number of its own.
LEMMA StoredEffect ==
    ASSUME Types, JobShape, NEW w \in Windows, pc[w] = "put", Stored(w)
    PROVE  \E s \in StoredFile :
              /\ s.file = files + 1 /\ s.id = job[w].id /\ s.len = job[w].size
              /\ stored' = stored \cup {s}
              /\ files' = files + 1 /\ files' \in 0..MaxFiles
<1>1. job[w] \in Jobs /\ job[w].id \in Ids
  BY DEF Types, JobTypes, JobShape, ShapeOf
<1>2. files + 1 \in Files /\ files' = files + 1
  BY DEF Stored, Types, DriveTypes, Files
<1> DEFINE s == [file |-> files + 1, folder |-> job[w].folder,
                 id |-> job[w].id, len |-> job[w].size]
<1>3. s \in StoredFile
  BY <1>1, <1>2 DEF Jobs, StoredFile
<1> QED
  BY <1>2, <1>3 DEF Stored, Files

LEMMA NextKeepsDriveTypes ==
    ASSUME Types, JobShape, [Next]_vars PROVE DriveTypes'
<1>0. DriveTypes
  BY DEF Types
<1>1. CASE UNCHANGED driveVars
  BY <1>0, <1>1 DEF driveVars, DriveTypes
<1>2. ASSUME NEW w \in Windows, \E n \in Names : DeleteLocal(w, n)
      PROVE  DriveTypes'
  BY <1>0, <1>2 DEF DeleteLocal, DriveTypes
<1>3. ASSUME NEW w \in Windows, CreateFolder(w)
      PROVE  DriveTypes'
  <2> DEFINE f == Cardinality(folders) + 1
  <2>1. f \in Nat
    BY <1>0, FS_CardinalityType DEF DriveTypes
  <2>2. folders' = folders \/ folders' = folders \cup {f}
    BY <1>3 DEF CreateFolder
  <2>3. IsFiniteSet(folders) /\ IsFiniteSet(folders \cup {f})
    BY <1>0, FS_AddElement DEF DriveTypes
  <2>4. IsFiniteSet(folders')
    BY <2>2, <2>3
  <2>5. folders' \subseteq Nat
    BY <1>0, <2>1, <2>2 DEF DriveTypes
  <2> QED
    BY <1>0, <1>3, <2>4, <2>5 DEF CreateFolder, DriveTypes
<1>4. ASSUME NEW w \in Windows, Put(w)
      PROVE  DriveTypes'
  <2>1. CASE UNCHANGED <<stored, files>>
    BY <1>0, <1>4, <2>1 DEF Put, DriveTypes
  <2>2. CASE Stored(w)
    <3>1. PICK s \in StoredFile : stored' = stored \cup {s} /\ files' \in 0..MaxFiles
      BY <1>4, <2>2, StoredEffect DEF Put
    <3> QED
      BY <1>0, <1>4, <3>1 DEF Put, DriveTypes
  <2> QED
    BY <1>4, <2>1, <2>2 DEF Put
<1>5. ASSUME NEW w \in Windows, SendDelete(w)
      PROVE  DriveTypes'
  BY <1>0, <1>5 DEF SendDelete, DriveTypes
<1> QED
  BY <1>1, <1>2, <1>3, <1>4, <1>5, DriveFrame

\* What can set a session, a client, the list or the temporary files.
LEMMA NextKeepsUiTypes ==
    ASSUME Types, JobShape, [Next]_vars PROVE UiTypes'
<1>0. UiTypes /\ JobTypes
  BY DEF Types
<1>1. CASE UNCHANGED vars
  BY <1>0, <1>1 DEF vars, authVars, uiVars, UiTypes
<1>2. ASSUME NEW w \in Windows, Start(w) \/ Stop(w) \/ Connect(w) \/ Disconnect(w)
      PROVE  UiTypes'
  BY <1>0, <1>2 DEF UiTypes, Start, Stop, Connect, Disconnect, uiVars, authVars
<1>3. ASSUME NEW w \in Windows,
             \/ Refresh(w)
             \/ \E n \in Names : ImportStart(w, n) \/ DeleteLocal(w, n) \/ UploadStart(w, n)
      PROVE  UiTypes'
  BY <1>0, <1>3 DEF UiTypes, Refresh, ImportStart, DeleteLocal, UploadStart, uiVars, authVars
<1>4. ASSUME NEW w \in Windows, NEW f \in Files, DeleteStart(w, f) \/ DownloadStart(w, f)
      PROVE  UiTypes'
  BY <1>0, <1>4 DEF UiTypes, DeleteStart, DownloadStart, Chosen, Rebuilt, uiVars
<1>5. ASSUME NEW w \in Windows,
             ImportWrite(w) \/ ImportEnds(w) \/ Lookup(w) \/ CreateFolder(w)
      PROVE  UiTypes'
  BY <1>0, <1>5 DEF UiTypes, ImportWrite, ImportEnds, Lookup, CreateFolder, uiVars, authVars
<1>6. ASSUME NEW w \in Windows,
             Measure(w) \/ Open(w) \/ Put(w) \/ RemoveLocal(w) \/ SendDelete(w)
      PROVE  UiTypes'
  BY <1>0, <1>6 DEF UiTypes, Measure, Open, Put, RemoveLocal, SendDelete, uiVars, authVars
<1>7. ASSUME NEW w \in Windows, Token(w)
      PROVE  UiTypes'
  BY <1>0, <1>7 DEF UiTypes, Token, uiVars
<1>8. ASSUME NEW w \in Windows, ListPage(w)
      PROVE  UiTypes'
  <2>1. CASE UNCHANGED drive_files
    BY <1>0, <1>8, <2>1 DEF UiTypes, ListPage, authVars
  <2>2. CASE \E p \in Page(w) : drive_files' = [drive_files EXCEPT ![w] = job[w].found \cup p]
    <3>1. PICK p \in Page(w) : drive_files' = [drive_files EXCEPT ![w] = job[w].found \cup p]
      BY <2>2
    <3>2. p \subseteq Files
      BY <3>1, InTypes DEF Page, Rest, Types
    <3>3. job[w].found \subseteq Files
      BY <1>0 DEF JobTypes, Jobs
    <3>4. drive_files' \in [Windows -> SUBSET Files]
      BY <1>0, <3>1, <3>2, <3>3 DEF UiTypes
    <3> QED
      BY <1>0, <1>8, <3>4 DEF UiTypes, ListPage, authVars
  <2> QED
    BY <1>8, <2>1, <2>2 DEF ListPage
<1>9. ASSUME NEW w \in Windows, \E x \in SUBSET {"download", "container"} : Keeps(w, x),
             UNCHANGED <<authVars, drive_files>>
      PROVE  UiTypes'
  BY <1>0, <1>9 DEF UiTypes, Keeps, authVars
<1>10. ASSUME NEW w \in Windows, UNCHANGED <<authVars, uiVars>>
       PROVE  UiTypes'
  BY <1>0, <1>10 DEF UiTypes, authVars, uiVars
<1>11. ASSUME NEW w \in Windows, Get(w) \/ Install(w) \/ DownloadFailed(w) \/ Export(w)
       PROVE  UiTypes'
  BY <1>9, <1>10, <1>11 DEF Get, Install, DownloadFailed, Export, uiVars
<1>12. ASSUME NEW w \in Windows, Receive(w) \/ ReceiveFails(w) \/ Done(w)
       PROVE  UiTypes'
  BY <1>10, <1>12 DEF Receive, ReceiveFails, Done
<1> QED
  BY <1>1, <1>2, <1>3, <1>4, <1>5, <1>6, <1>7, <1>8, <1>11, <1>12 DEF Next, Call, Step

-----------------------------------------------------------------------------
(* A step of one window leaves the handlers of the others alone, but for   *)
(* the history of what their listings should show.                         *)

KeepsJob(v) ==
    /\ pc'[v] = pc[v]
    /\ job'[v].op = job[v].op /\ job'[v].name = job[v].name
    /\ job'[v].folder = job[v].folder /\ job'[v].id = job[v].id
    /\ job'[v].size = job[v].size /\ job'[v].received = job[v].received
    /\ job'[v].found = job[v].found

Others(w) ==
    \A v \in Windows \ {w} :
        /\ KeepsJob(v)
        /\ job'[v] = job[v] \/ SendDelete(w)

LEMMA EnterFrame ==
    ASSUME JobTypes, NEW w \in Windows, NEW label, NEW j, Enter(w, label, j)
    PROVE  /\ pc'[w] = label /\ job'[w] = j
           /\ \A v \in Windows \ {w} : pc'[v] = pc[v] /\ job'[v] = job[v]
           /\ Others(w)
  BY DEF Enter, JobTypes, Others, KeepsJob

LEMMA CallFrame ==
    ASSUME JobTypes, NEW w \in Windows, Start(w) \/ Stop(w) \/ Call(w)
    PROVE  Others(w)
<1>1. CASE UNCHANGED <<pc, job>>
  BY <1>1 DEF Others, KeepsJob
<1>2. CASE Start(w) \/ Stop(w)
  BY <1>2, EnterFrame DEF Start, Stop, Return
<1>3. CASE Connect(w) \/ Refresh(w)
  BY <1>3, EnterFrame DEF Connect, Refresh
<1>4. CASE Disconnect(w) \/ \E n \in Names : DeleteLocal(w, n)
  BY <1>1, <1>4 DEF Disconnect, DeleteLocal
<1>5. CASE \E n \in Names : ImportStart(w, n)
  BY <1>1, <1>5, EnterFrame DEF ImportStart
<1>6. CASE \E n \in Names : UploadStart(w, n)
  BY <1>6, EnterFrame DEF UploadStart
<1>7. CASE \E f \in Files : DeleteStart(w, f) \/ DownloadStart(w, f)
  BY <1>1, <1>7, EnterFrame DEF DeleteStart, DownloadStart, Chosen
<1> QED
  BY <1>2, <1>3, <1>4, <1>5, <1>6, <1>7 DEF Call

LEMMA StepFrame ==
    ASSUME JobTypes, NEW w \in Windows, Step(w)
    PROVE  Others(w)
<1>1. CASE UNCHANGED <<pc, job>>
  BY <1>1 DEF Others, KeepsJob
<1>2. CASE Return(w)
  BY <1>2, EnterFrame DEF Return
<1>3. CASE ImportWrite(w) \/ ImportEnds(w) \/ Token(w)
  BY <1>1, <1>2, <1>3, EnterFrame DEF ImportWrite, ImportEnds, Token
<1>4. ASSUME NEW f, WithFolder(w, f) PROVE Others(w)
  BY <1>4, EnterFrame DEF WithFolder
<1>5. CASE Lookup(w) \/ CreateFolder(w)
  BY <1>2, <1>4, <1>5, EnterFrame DEF Lookup, CreateFolder
<1>6. CASE ListPage(w)
  BY <1>2, <1>6, EnterFrame DEF ListPage
<1>7. CASE Measure(w) \/ Open(w)
  BY <1>2, <1>7, EnterFrame DEF Measure, Open
<1>8. CASE Put(w) \/ RemoveLocal(w)
  BY <1>2, <1>8, EnterFrame DEF Put, RemoveLocal, Confirmed
<1>9. CASE SendDelete(w)
  <2>1. ASSUME NEW v \in Windows \ {w},
               \E to \in {"idle", "token"} : pc' = [pc EXCEPT ![w] = to],
               job'[v] = [job[v] EXCEPT !.present = @ \ {job[w].file}]
        PROVE  KeepsJob(v)
    <3>1. job[v] \in Jobs /\ pc'[v] = pc[v]
      BY <2>1 DEF JobTypes
    <3> QED
      BY <2>1, <3>1 DEF KeepsJob, Jobs
  <2> QED
    BY <1>2, <1>9, <2>1 DEF SendDelete, Others
<1>10. CASE Get(w) \/ ReceiveFails(w) \/ DownloadFailed(w)
  BY <1>2, <1>10, EnterFrame DEF Get, ReceiveFails, DownloadFailed
<1>11. CASE Receive(w)
  BY <1>11 DEF Receive, JobTypes, Others, KeepsJob
<1>12. CASE Install(w) \/ Export(w) \/ Done(w)
  BY <1>2, <1>12, EnterFrame DEF Install, Export, Done, Delivered
<1> QED
  BY <1>3, <1>5, <1>6, <1>7, <1>8, <1>9, <1>10, <1>11, <1>12 DEF Step

-----------------------------------------------------------------------------
(* Files and listings.                                                     *)

\* A file's number is used once, and lists show numbers that were used.
FilesInv ==
    /\ \A s \in stored : s.file \in 1..files
    /\ \A s, t \in stored : s.file = t.file => s = t
    /\ \A w \in Windows : drive_files[w] \subseteq 1..files

ListingOf(w) ==
    /\ job[w].found \subseteq 1..files
    /\ pc[w] = "page" => job[w].present \subseteq In(job[w].folder) \cup job[w].found

\* A listing has found, or finds in its folder, all that has been there
\* since it began.
ListingInv == \A w \in Windows : ListingOf(w)

LEMMA StoredFilesKept ==
    ASSUME Types, JobShape, FilesInv, [Next]_vars
    PROVE  /\ files <= files' /\ files' \in Nat
           /\ \A s \in stored' : s.file \in 1..files'
           /\ \A s, t \in stored' : s.file = t.file => s = t
<1>0. files \in Nat
  BY DEF Types, DriveTypes
<1>1. CASE UNCHANGED <<stored, files>>
  BY <1>0, <1>1 DEF FilesInv
<1>2. ASSUME NEW w \in Windows, Put(w), Stored(w)
      PROVE  /\ files <= files' /\ files' \in Nat
             /\ \A s \in stored' : s.file \in 1..files'
             /\ \A s, t \in stored' : s.file = t.file => s = t
  <2>1. PICK s \in StoredFile : /\ s.file = files + 1
                                /\ stored' = stored \cup {s} /\ files' = files + 1
    BY <1>2, StoredEffect DEF Put
  <2>2. ASSUME NEW t \in stored' PROVE t.file \in 1..files' /\ (t.file # files + 1 => t \in stored)
    BY <1>0, <2>1 DEF FilesInv
  <2>3. ASSUME NEW t \in stored PROVE t.file # files + 1
    BY <1>0 DEF FilesInv
  <2> QED
    BY <1>0, <2>1, <2>2, <2>3 DEF FilesInv
<1>3. ASSUME NEW w \in Windows, SendDelete(w), stored' \subseteq stored
      PROVE  /\ files <= files' /\ files' \in Nat
             /\ \A s \in stored' : s.file \in 1..files'
             /\ \A s, t \in stored' : s.file = t.file => s = t
  BY <1>0, <1>3 DEF SendDelete, FilesInv
<1>4. CASE UNCHANGED driveVars \/ \E w \in Windows : CreateFolder(w) \/ \E n \in Names : DeleteLocal(w, n)
  BY <1>1, <1>4 DEF driveVars, CreateFolder, DeleteLocal
<1>5. CASE \E w \in Windows : Put(w)
  BY <1>1, <1>2, <1>5 DEF Put
<1>6. CASE \E w \in Windows : SendDelete(w)
  BY <1>3, <1>6 DEF SendDelete
<1> QED
  BY <1>4, <1>5, <1>6, DriveFrame

LEMMA StepOthers ==
    ASSUME Types, [Next]_vars
    PROVE  \/ UNCHANGED vars
           \/ \E w \in Windows : /\ Start(w) \/ Stop(w) \/ Call(w) \/ Step(w)
                                 /\ Others(w)
  BY CallFrame, StepFrame DEF Next, Types

\* Only a deletion takes files from a folder.
LEMMA InGrows ==
    ASSUME Types, JobShape, NEW w \in Windows,
           Start(w) \/ Stop(w) \/ Call(w) \/ Step(w), Others(w)
    PROVE  \/ stored \subseteq stored' /\ \A f : In(f) \subseteq In(f)'
           \/ SendDelete(w) /\ \A f : In(f) \ {job[w].file} \subseteq In(f)'
<1>1. ASSUME stored \subseteq stored' PROVE \A f : In(f) \subseteq In(f)'
  BY <1>1 DEF In
<1>2. ASSUME NEW u \in Windows, SendDelete(u), ~(stored \subseteq stored')
      PROVE  SendDelete(w) /\ \A f : In(f) \ {job[w].file} \subseteq In(f)'
  <2>1. pc[u] = "delete" /\ pc'[u] # "delete" /\ stored' = stored \ Gone(u)
    BY <1>2 DEF SendDelete, Types, JobTypes
  <2>2. u = w
    <3>1. ASSUME NEW v \in Windows \ {w} PROVE pc'[v] = pc[v]
      <4>1. KeepsJob(v)
        BY DEF Others
      <4> QED
        BY <4>1 DEF KeepsJob
    <3> QED
      BY <2>1, <3>1
  <2>3. \A f : In(f) \ {job[w].file} \subseteq In(f)'
    BY <2>1, <2>2 DEF In, Gone
  <2> QED
    BY <1>2, <2>2, <2>3
<1>3. ASSUME NEW u \in Windows, Put(u) PROVE stored \subseteq stored'
  BY <1>3 DEF Put, Stored
<1>4. [Next]_vars
  BY DEF Next
<1>5. \/ stored \subseteq stored'
      \/ \E u \in Windows : SendDelete(u)
  BY <1>3, <1>4, DriveFrame DEF driveVars, CreateFolder, DeleteLocal
<1> QED
  BY <1>1, <1>2, <1>5

\* The listing of the window that takes the step.
LEMMA ListingStep ==
    ASSUME Types, JobShape, FilesInv, ListingInv, NEW w \in Windows,
           Start(w) \/ Stop(w) \/ Call(w) \/ Step(w)
    PROVE  ListingOf(w)'
<1> USE DEF ListingOf
<1>0. JobTypes /\ job[w] \in Jobs /\ ListingOf(w)
  BY DEF Types, JobTypes, ListingInv
<1>1. files <= files' /\ files \in Nat /\ files' \in Nat /\ 1..files \subseteq 1..files'
  <2>1. files <= files' /\ files \in Nat /\ files' \in Nat
    BY StoredFilesKept DEF Next, Types, DriveTypes
  <2> QED
    BY <2>1
<1>2. ASSUME NEW label, NEW j, Enter(w, label, j),
             label # "page", j.found \subseteq job[w].found
      PROVE  ListingOf(w)'
  <2>1. pc'[w] = label /\ job'[w] = j
    BY <1>0, <1>2, EnterFrame
  <2> QED
    BY <1>0, <1>1, <1>2, <2>1
<1>3. ASSUME UNCHANGED <<pc, job>>, pc[w] # "page"
      PROVE  ListingOf(w)'
  BY <1>0, <1>1, <1>3
<1>4. CASE Return(w)
  BY <1>2, <1>4, NoJobTypes DEF Return
<1>5. CASE Start(w) \/ Stop(w) \/ Connect(w) \/ Refresh(w)
  <2>1. CASE Enter(w, "token", [NoJob EXCEPT !.op = "list"])
    BY <1>2, <2>1 DEF NoJob
  <2>2. CASE Enter(w, "off", NoJob)
    BY <1>2, <2>2 DEF NoJob
  <2> QED
    BY <1>4, <1>5, <2>1, <2>2 DEF Start, Stop, Connect, Refresh
<1>6. CASE Disconnect(w) \/ \E n \in Names : DeleteLocal(w, n)
  BY <1>3, <1>6 DEF Disconnect, DeleteLocal
<1>7. CASE \E n \in Names : ImportStart(w, n)
  <2>1. PICK n \in Names : ImportStart(w, n)
    BY <1>7
  <2>2. CASE Enter(w, "import", [NoJob EXCEPT !.op = "import", !.name = n, !.id = imported + 1])
    BY <1>2, <2>2 DEF NoJob
  <2> QED
    BY <1>3, <2>1, <2>2 DEF ImportStart
<1>8. CASE \E n \in Names : UploadStart(w, n)
  <2>1. PICK n \in Names : Enter(w, "folder", [NoJob EXCEPT !.op = "upload", !.name = n])
    BY <1>8 DEF UploadStart
  <2> QED
    BY <1>2, <2>1 DEF NoJob
<1>9. CASE \E f \in Files : DeleteStart(w, f) \/ DownloadStart(w, f)
  <2>1. PICK f \in Files, o \in {"delete", "download"} : Chosen(w, o, f)
    BY <1>9 DEF DeleteStart, DownloadStart
  <2> DEFINE l == IF o = "delete" THEN "delete" ELSE "get"
  <2>2. CASE Enter(w, l, [NoJob EXCEPT !.op = o, !.file = f])
    BY <1>2, <2>2 DEF NoJob
  <2> QED
    BY <1>3, <2>1, <2>2 DEF Chosen
<1>10. CASE ImportWrite(w) \/ ImportEnds(w)
  BY <1>3, <1>4, <1>10 DEF ImportWrite, ImportEnds
<1>11. CASE Token(w)
  BY <1>2, <1>4, <1>11 DEF Token
<1>12. ASSUME NEW f, WithFolder(w, f), UNCHANGED stored
       PROVE  ListingOf(w)'
  <2>1. CASE Enter(w, "measure", [job[w] EXCEPT !.folder = f])
    BY <1>0, <1>2, <2>1 DEF Jobs
  <2>2. CASE Enter(w, "page", [job[w] EXCEPT !.folder = f, !.present = In(f)])
    <3> DEFINE j == [job[w] EXCEPT !.folder = f, !.present = In(f)]
    <3>1. job'[w] = j
      BY <1>0, <2>2, EnterFrame
    <3>2. j.found = job[w].found /\ j.folder = f /\ j.present = In(f)
      BY <1>0 DEF Jobs
    <3>3. In(f)' = In(f)
      BY <1>12 DEF In
    <3>4. In(job[w].folder)' = In(f)
      BY <3>1, <3>2, <3>3 DEF In
    <3> QED
      BY <1>0, <1>1, <3>1, <3>2, <3>4
  <2> QED
    BY <1>12, <2>1, <2>2 DEF WithFolder
<1>13. CASE Lookup(w) \/ CreateFolder(w)
  <2>1. CASE Enter(w, "create", job[w])
    BY <1>2, <2>1
  <2> QED
    BY <1>4, <1>12, <1>13, <2>1 DEF Lookup, CreateFolder, driveVars
<1>14. CASE ListPage(w)
  <2>1. CASE \E p \in Page(w) : Enter(w, "page", AskNext(w, p))
    <3>1. PICK p \in Page(w) : Enter(w, "page", AskNext(w, p))
      BY <2>1
    <3> DEFINE j == AskNext(w, p)
    <3>2. j.found = job[w].found \cup p /\ j.folder = job[w].folder /\ j.present = job[w].present
      BY <1>0 DEF AskNext, Jobs
    <3>3. job'[w] = j
      BY <1>0, <3>1, EnterFrame
    <3>4. p \subseteq In(job[w].folder) /\ In(job[w].folder) \subseteq 1..files
      BY <3>1 DEF Page, Rest, In, FilesInv
    <3>5. In(job[w].folder)' = In(job[w].folder)
      BY <1>14, <3>2, <3>3 DEF In, ListPage, driveVars
    <3>6. pc[w] = "page" /\ job[w].present \subseteq In(job[w].folder) \cup job[w].found
      BY <1>0, <1>14 DEF ListPage
    <3> QED
      BY <1>0, <1>1, <3>2, <3>3, <3>4, <3>5, <3>6
  <2> QED
    BY <1>4, <1>14, <2>1 DEF ListPage
<1>15. CASE Measure(w)
  <2>1. CASE Enter(w, "open", [job[w] EXCEPT !.size = len[AtPath(w)]])
    BY <1>0, <1>2, <2>1 DEF Jobs
  <2> QED
    BY <1>4, <1>15, <2>1 DEF Measure
<1>16. CASE Open(w)
  <2>1. CASE Enter(w, "put", [job[w] EXCEPT !.id = AtPath(w)])
    BY <1>0, <1>2, <2>1 DEF Jobs
  <2> QED
    BY <1>4, <1>16, <2>1 DEF Open
<1>17. CASE Put(w)
  <2>1. CASE Enter(w, "remove", [NoJob EXCEPT !.op = "upload", !.name = job[w].name])
    BY <1>2, <2>1 DEF NoJob
  <2> QED
    BY <1>4, <1>17, <2>1 DEF Put, Confirmed
<1>18. CASE RemoveLocal(w)
  <2>1. CASE Enter(w, "token", [NoJob EXCEPT !.op = "list"])
    BY <1>2, <2>1 DEF NoJob
  <2> QED
    BY <1>4, <1>18, <2>1 DEF RemoveLocal
<1>19. CASE SendDelete(w)
  <2>1. CASE \E to \in {"idle", "token"} : pc' = [pc EXCEPT ![w] = to] /\ job'[w].found = {}
    BY <1>0, <1>1, <2>1 DEF JobTypes
  <2> QED
    BY <1>4, <1>19, <2>1, NoJobTypes DEF SendDelete, NoJob
<1>20. CASE Enter(w, "failed", [NoJob EXCEPT !.op = job[w].op])
  BY <1>2, <1>20 DEF NoJob
<1>21. CASE Get(w)
  <2>1. ASSUME NEW s \in stored,
               Enter(w, "receive", [job[w] EXCEPT !.file = 0, !.id = s.id, !.size = s.len])
        PROVE  ListingOf(w)'
    BY <1>0, <1>2, <2>1 DEF Jobs
  <2> QED
    BY <1>20, <1>21, <2>1 DEF Get
<1>22. CASE Receive(w)
  <2>1. Enter(w, "receive", [job[w] EXCEPT !.received = @ + 1])
    BY <1>0, <1>22 DEF Receive, Enter, JobTypes
  <2> QED
    BY <1>0, <1>2, <2>1 DEF Jobs
<1>23. CASE Delivered(w)
  BY <1>2, <1>23 DEF Delivered, NoJob
<1>24. CASE Install(w) \/ Export(w) \/ ReceiveFails(w) \/ DownloadFailed(w) \/ Done(w)
  <2>1. CASE Enter(w, "export", job[w])
    BY <1>2, <2>1
  <2> QED
    BY <1>4, <1>20, <1>23, <1>24, <2>1 DEF Install, Export, ReceiveFails, DownloadFailed, Done
<1> QED
  BY <1>5, <1>6, <1>7, <1>8, <1>9, <1>10, <1>11, <1>13, <1>14, <1>15, <1>16, <1>17,
     <1>18, <1>19, <1>21, <1>22, <1>24 DEF Call, Step

LEMMA NextKeepsListings ==
    ASSUME Types, JobShape, FilesInv, ListingInv, [Next]_vars
    PROVE  ListingInv'
<1>1. CASE UNCHANGED vars
  BY <1>1 DEF vars, driveVars, ListingInv, ListingOf, In
<1>2. ASSUME NEW w \in Windows, Start(w) \/ Stop(w) \/ Call(w) \/ Step(w), Others(w),
             NEW v \in Windows \ {w}
      PROVE  ListingOf(v)'
  <2>1. /\ ListingOf(v)
        /\ pc'[v] = pc[v] /\ job'[v].folder = job[v].folder
        /\ job'[v].found = job[v].found
    BY <1>2 DEF ListingInv, Others, KeepsJob
  <2>2. 1..files \subseteq 1..files'
    <3>1. files <= files' /\ files \in Nat /\ files' \in Nat
      BY StoredFilesKept DEF Types, DriveTypes
    <3> QED
      BY <3>1
  <2>3. pc[v] = "page" => job'[v].present \subseteq In(job[v].folder)' \cup job[v].found
    <3>1. CASE SendDelete(w) /\ \A f : In(f) \ {job[w].file} \subseteq In(f)'
      <4>1. CASE UNCHANGED stored /\ job'[v] = job[v]
        BY <2>1, <4>1 DEF ListingOf, In
      <4>2. CASE job'[v] = [job[v] EXCEPT !.present = @ \ {job[w].file}]
        <5>1. job'[v].present = job[v].present \ {job[w].file}
          BY <4>2 DEF Types, JobTypes, Jobs
        <5>2. In(job[v].folder) \ {job[w].file} \subseteq In(job[v].folder)'
          BY <2>1, <3>1 DEF In
        <5> QED
          BY <2>1, <5>1, <5>2 DEF ListingOf
      <4>3. Return(w) => job'[v] = job[v]
        BY EnterFrame DEF Return, Types
      <4> QED
        BY <3>1, <4>1, <4>2, <4>3 DEF SendDelete
    <3>2. CASE stored \subseteq stored' /\ job'[v] = job[v]
      <4>1. In(job[v].folder) \subseteq In(job[v].folder)'
        BY <3>2 DEF In
      <4> QED
        BY <2>1, <3>2, <4>1 DEF ListingOf
    <3> QED
      BY <1>2, <3>1, <3>2, InGrows DEF Others
  <2> QED
    BY <2>1, <2>2, <2>3 DEF ListingOf, In
<1>3. ASSUME NEW w \in Windows, Start(w) \/ Stop(w) \/ Call(w) \/ Step(w), Others(w)
      PROVE  ListingInv'
  <2>1. ListingOf(w)'
    BY <1>3, ListingStep
  <2> QED
    BY <1>2, <1>3, <2>1 DEF ListingInv
<1> QED
  BY <1>1, <1>3, StepOthers

\* A list changes when a listing ends, or is emptied with its session.
LEMMA ListFrame ==
    ASSUME Types, [Next]_vars, NEW v \in Windows
    PROVE  \/ drive_files'[v] = drive_files[v]
           \/ drive_files'[v] = {} /\ (pc[v] = "idle" \/ pc'[v] = "off")
           \/ \E p \in Page(v) : LastPage(v, p) /\ drive_files'[v] = job[v].found \cup p
<1>0. drive_files \in [Windows -> SUBSET Files] /\ JobTypes
  BY DEF Types, UiTypes
<1>1. CASE UNCHANGED drive_files
  BY <1>1
<1>2. ASSUME NEW w \in Windows, Stop(w) \/ Disconnect(w)
      PROVE  \/ drive_files'[v] = drive_files[v]
             \/ drive_files'[v] = {} /\ (pc[v] = "idle" \/ pc'[v] = "off")
  BY <1>0, <1>2, EnterFrame DEF Stop, Disconnect
<1>3. ASSUME NEW w \in Windows, Start(w) \/ Connect(w) \/ Refresh(w)
      PROVE  UNCHANGED drive_files
  BY <1>3 DEF Start, Connect, Refresh, uiVars
<1>4. ASSUME NEW w \in Windows,
             \E n \in Names : ImportStart(w, n) \/ DeleteLocal(w, n) \/ UploadStart(w, n)
      PROVE  UNCHANGED drive_files
  BY <1>4 DEF ImportStart, DeleteLocal, UploadStart, uiVars
<1>5. ASSUME NEW w \in Windows, \E f \in Files : DeleteStart(w, f) \/ DownloadStart(w, f)
      PROVE  UNCHANGED drive_files
  BY <1>5 DEF DeleteStart, DownloadStart, uiVars
<1>6. ASSUME NEW w \in Windows, ListPage(w)
      PROVE  \/ drive_files'[v] = drive_files[v]
             \/ \E p \in Page(v) : LastPage(v, p) /\ drive_files'[v] = job[v].found \cup p
  BY <1>0, <1>6 DEF ListPage
<1>7. ASSUME NEW w \in Windows,
             ImportWrite(w) \/ ImportEnds(w) \/ Token(w) \/ Lookup(w) \/ CreateFolder(w)
      PROVE  UNCHANGED drive_files
  BY <1>7 DEF ImportWrite, ImportEnds, Token, Lookup, CreateFolder, uiVars
<1>8. ASSUME NEW w \in Windows,
             Measure(w) \/ Open(w) \/ Put(w) \/ RemoveLocal(w) \/ SendDelete(w)
      PROVE  UNCHANGED drive_files
  BY <1>8 DEF Measure, Open, Put, RemoveLocal, SendDelete, uiVars
<1>9. ASSUME NEW w \in Windows,
             Get(w) \/ Receive(w) \/ Install(w) \/ ReceiveFails(w)
      PROVE  UNCHANGED drive_files
  BY <1>9 DEF Get, Receive, Install, ReceiveFails, uiVars
<1>10. ASSUME NEW w \in Windows, DownloadFailed(w) \/ Export(w) \/ Done(w)
       PROVE  UNCHANGED drive_files
  BY <1>10 DEF DownloadFailed, Export, Done, uiVars
<1> QED
  BY <1>1, <1>2, <1>3, <1>4, <1>5, <1>6, <1>7, <1>8, <1>9, <1>10
  DEF Next, Call, Step, vars, uiVars

LEMMA NextKeepsFiles ==
    ASSUME Types, JobShape, FilesInv, ListingInv, [Next]_vars
    PROVE  FilesInv'
<1>1. /\ \A s \in stored' : s.file \in 1..files'
      /\ \A s, t \in stored' : s.file = t.file => s = t
      /\ 1..files \subseteq 1..files'
  <2>1. files <= files' /\ files \in Nat /\ files' \in Nat
    BY StoredFilesKept DEF Types, DriveTypes
  <2> QED
    BY <2>1, StoredFilesKept
<1>2. ASSUME NEW v \in Windows PROVE drive_files'[v] \subseteq 1..files'
  <2>1. CASE drive_files'[v] \in {drive_files[v], {}}
    BY <1>1, <2>1 DEF FilesInv
  <2>2. CASE \E p \in Page(v) : drive_files'[v] = job[v].found \cup p
    BY <1>1, <2>2 DEF FilesInv, ListingInv, ListingOf, Page, Rest, In
  <2> QED
    BY <2>1, <2>2, ListFrame
<1> QED
  BY <1>1, <1>2 DEF FilesInv

-----------------------------------------------------------------------------
(* Sessions, temporary files, folders.                                     *)

\* A client belongs to a session, and only a download has temporary files.
WindowInv ==
    \A w \in Windows :
        /\ client[w] => connected[w]
        /\ pc[w] \notin {"receive", "failed", "export"} => temporaries[w] = {}

LEMMA NextKeepsWindows ==
    ASSUME Types, JobShape, WindowInv, [Next]_vars
    PROVE  WindowInv'
<1>0. UiTypes /\ JobTypes
  BY DEF Types
<1>1. CASE UNCHANGED vars
  BY <1>1 DEF vars, authVars, uiVars, WindowInv
<1>2. ASSUME NEW w \in Windows, Start(w) \/ Stop(w) \/ Call(w) \/ Step(w), Others(w)
      PROVE  WindowInv'
  <2>0. ASSUME NEW v \in Windows \ {w} PROVE pc'[v] = pc[v]
    BY <1>2 DEF Others, KeepsJob
  <2>1. ASSUME UNCHANGED <<authVars, temporaries>>, pc[w] \notin {"receive", "failed", "export"}
        PROVE  WindowInv'
    BY <2>0, <2>1 DEF WindowInv, authVars
  <2>2. ASSUME UNCHANGED temporaries, pc[w] \notin {"receive", "failed", "export"},
               client'[w] => connected'[w],
               \E x, y \in BOOLEAN : /\ client' = [client EXCEPT ![w] = x]
                                    /\ connected' = [connected EXCEPT ![w] = y]
        PROVE  WindowInv'
    <3>1. ASSUME NEW v \in Windows \ {w}
          PROVE  client'[v] = client[v] /\ connected'[v] = connected[v]
      BY <1>0, <2>2 DEF UiTypes
    <3> QED
      BY <2>0, <2>2, <3>1 DEF WindowInv
  <2>3. ASSUME UNCHANGED authVars,
               \/ UNCHANGED temporaries
               \/ \E x \in SUBSET {"download", "container"} : Keeps(w, x),
               pc'[w] \in {"receive", "failed", "export"} \/ temporaries'[w] = {}
        PROVE  WindowInv'
    <3>1. ASSUME NEW v \in Windows \ {w} PROVE temporaries'[v] = temporaries[v]
      BY <1>0, <2>3 DEF UiTypes, Keeps
    <3> QED
      BY <2>0, <2>3, <3>1 DEF WindowInv, authVars
  <2>4. CASE Start(w)
    <3>1. connected[w] \in BOOLEAN /\ client[w] \in BOOLEAN
      BY <1>0 DEF UiTypes
    <3>2. CASE UNCHANGED authVars
      BY <2>1, <2>4, <3>2 DEF Start, uiVars
    <3>3. CASE /\ connected' = [connected EXCEPT ![w] = TRUE]
               /\ \E ok \in BOOLEAN : client' = [client EXCEPT ![w] = ok]
      BY <1>0, <2>2, <2>4, <3>3 DEF Start, uiVars, UiTypes
    <3> QED
      BY <2>4, <3>2, <3>3 DEF Start
  <2>5. CASE Connect(w)
    BY <1>0, <2>2, <2>5 DEF Connect, uiVars, UiTypes
  <2>6. CASE Disconnect(w)
    BY <1>0, <2>2, <2>6 DEF Disconnect, UiTypes
  <2>7. CASE Stop(w)
    <3>1. ASSUME NEW v \in Windows \ {w}
          PROVE  /\ client'[v] = client[v] /\ connected'[v] = connected[v]
                 /\ temporaries'[v] = temporaries[v]
      BY <1>0, <2>7 DEF UiTypes, Stop
    <3>2. ~client'[w] /\ temporaries'[w] = {}
      BY <1>0, <2>7 DEF UiTypes, Stop
    <3> QED
      BY <2>0, <3>1, <3>2 DEF WindowInv
  <2>8. CASE Refresh(w) \/ \E n \in Names : ImportStart(w, n) \/ DeleteLocal(w, n) \/ UploadStart(w, n)
    BY <2>1, <2>8 DEF Refresh, ImportStart, DeleteLocal, UploadStart, uiVars
  <2>9. CASE \E f \in Files : DeleteStart(w, f) \/ DownloadStart(w, f)
    <3>1. PICK ok \in BOOLEAN : /\ ok => connected[w]
                               /\ client' = [client EXCEPT ![w] = ok]
                               /\ UNCHANGED <<connected, temporaries>> /\ pc[w] = "idle"
      BY <2>9 DEF DeleteStart, DownloadStart, Chosen, Rebuilt, uiVars
    <3>2. connected' = [connected EXCEPT ![w] = connected[w]]
      BY <1>0, <3>1 DEF UiTypes
    <3>3. client'[w] => connected'[w]
      BY <1>0, <3>1 DEF UiTypes
    <3>4. connected[w] \in BOOLEAN
      BY <1>0 DEF UiTypes
    <3> QED
      BY <2>2, <3>1, <3>2, <3>3, <3>4
  <2>10. CASE Token(w)
    <3>1. CASE UNCHANGED client
      BY <2>1, <2>10, <3>1 DEF Token, uiVars, authVars
    <3>2. CASE connected[w] /\ client' = [client EXCEPT ![w] = TRUE]
      <4>1. connected' = [connected EXCEPT ![w] = connected[w]] /\ connected[w] \in BOOLEAN
        BY <1>0, <2>10 DEF Token, UiTypes
      <4>2. connected'[w]
        BY <2>10, <3>2 DEF Token
      <4> QED
        BY <2>2, <2>10, <3>2, <4>1, <4>2 DEF Token, uiVars
    <3> QED
      BY <2>10, <3>1, <3>2 DEF Token
  <2>11. CASE ImportWrite(w) \/ ImportEnds(w) \/ Lookup(w) \/ CreateFolder(w) \/ ListPage(w)
    BY <2>1, <2>11 DEF ImportWrite, ImportEnds, Lookup, CreateFolder, ListPage, uiVars
  <2>12. CASE Measure(w) \/ Open(w) \/ Put(w) \/ RemoveLocal(w) \/ SendDelete(w) \/ Done(w)
    BY <2>1, <2>12 DEF Measure, Open, Put, RemoveLocal, SendDelete, Done, uiVars
  <2>13. CASE Get(w)
    <3>1. pc'[w] \in {"receive", "failed", "export"}
      BY <1>0, <2>13, EnterFrame DEF Get
    <3> QED
      BY <2>3, <2>13, <3>1 DEF Get
  <2>14. CASE Receive(w) \/ ReceiveFails(w)
    <3>1. pc'[w] \in {"receive", "failed", "export"}
      BY <1>0, <2>14, EnterFrame DEF Receive, ReceiveFails
    <3> QED
      BY <2>3, <2>14, <3>1 DEF Receive, ReceiveFails, uiVars
  <2>15. ASSUME UNCHANGED authVars, Keeps(w, {}) PROVE WindowInv'
    BY <1>0, <2>3, <2>15 DEF Keeps, UiTypes
  <2>16. CASE Install(w) \/ Export(w) \/ DownloadFailed(w)
    <3>1. CASE Enter(w, "export", job[w]) /\ Keeps(w, {"container"}) /\ UNCHANGED authVars
      BY <1>0, <2>3, <3>1, EnterFrame
    <3> QED
      BY <2>15, <2>16, <3>1 DEF Install, Export, DownloadFailed
  <2> QED
    BY <1>2, <2>4, <2>5, <2>6, <2>7, <2>8, <2>9, <2>10, <2>11, <2>12, <2>13, <2>14, <2>16
    DEF Call, Step
<1> QED
  BY <1>1, <1>2, StepOthers

\* A window decides to create a folder only while there is none.
LEMMA CreateFrame ==
    ASSUME JobTypes, NEW w \in Windows, Start(w) \/ Stop(w) \/ Call(w) \/ Step(w),
           pc'[w] = "create"
    PROVE  folders = {} /\ folders' = {}
<1>1. ASSUME NEW label, NEW j, Enter(w, label, j) PROVE label = "create"
  BY <1>1, EnterFrame
<1>2. ~Return(w)
  BY <1>1 DEF Return
<1>3. CASE Start(w) \/ Stop(w) \/ Connect(w) \/ Disconnect(w) \/ Refresh(w)
  BY <1>1, <1>2, <1>3 DEF Start, Stop, Connect, Disconnect, Refresh
<1>4. CASE \E n \in Names : ImportStart(w, n) \/ DeleteLocal(w, n) \/ UploadStart(w, n)
  BY <1>1, <1>4 DEF ImportStart, DeleteLocal, UploadStart
<1>5. CASE \E f \in Files : DeleteStart(w, f) \/ DownloadStart(w, f)
  BY <1>1, <1>5 DEF DeleteStart, DownloadStart, Chosen
<1>6. CASE ImportWrite(w) \/ ImportEnds(w) \/ Token(w)
  BY <1>1, <1>2, <1>6 DEF ImportWrite, ImportEnds, Token
<1>7. ASSUME NEW f PROVE ~WithFolder(w, f)
  BY <1>1 DEF WithFolder
<1>8. CASE Lookup(w)
  BY <1>2, <1>7, <1>8 DEF Lookup, driveVars
<1>9. CASE CreateFolder(w)
  BY <1>2, <1>7, <1>9 DEF CreateFolder
<1>10. CASE ListPage(w)
  BY <1>1, <1>2, <1>10 DEF ListPage
<1>11. CASE Measure(w) \/ Open(w) \/ Put(w) \/ RemoveLocal(w)
  BY <1>1, <1>2, <1>11 DEF Measure, Open, Put, RemoveLocal, Confirmed
<1>12. CASE SendDelete(w)
  BY <1>2, <1>12 DEF SendDelete, JobTypes
<1>13. CASE Get(w) \/ Receive(w) \/ ReceiveFails(w) \/ DownloadFailed(w)
  BY <1>1, <1>2, <1>13 DEF Get, Receive, ReceiveFails, DownloadFailed
<1>14. CASE Install(w) \/ Export(w) \/ Done(w)
  BY <1>1, <1>2, <1>14 DEF Install, Export, Done, Delivered
<1> QED
  BY <1>3, <1>4, <1>5, <1>6, <1>8, <1>9, <1>10, <1>11, <1>12, <1>13, <1>14 DEF Call, Step

Creating == {w \in Windows : pc[w] = "create"}

\* Once there is a folder, no window joins those about to create one.
FolderInv ==
    folders # {} => Cardinality(folders) + Cardinality(Creating) <= Cardinality(Windows)

LEMMA NextKeepsFolders ==
    ASSUME IsFiniteSet(Windows), Types, JobShape, FolderInv, [Next]_vars
    PROVE  FolderInv'
<1>0. JobTypes /\ IsFiniteSet(folders)
  BY DEF Types, DriveTypes
<1>1. CASE UNCHANGED vars
  BY <1>1 DEF vars, driveVars, FolderInv, Creating
<1>2. ASSUME NEW w \in Windows, Start(w) \/ Stop(w) \/ Call(w) \/ Step(w), Others(w)
      PROVE  FolderInv'
  <2>1. \A v \in Windows \ {w} : pc'[v] = pc[v]
    BY <1>2 DEF Others, KeepsJob
  <2>2. CASE pc'[w] = "create"
    BY <1>0, <1>2, <2>2, CreateFrame DEF FolderInv
  <2>3. CASE pc'[w] # "create" /\ UNCHANGED folders
    <3>1. Creating' \subseteq Creating /\ Creating \subseteq Windows
      BY <2>1, <2>3 DEF Creating
    <3>2. /\ IsFiniteSet(Creating) /\ Cardinality(Creating') <= Cardinality(Creating)
          /\ IsFiniteSet(Creating')
      BY <3>1, FS_Subset
    <3>3. Cardinality(Creating) \in Nat /\ Cardinality(Creating') \in Nat
          /\ Cardinality(folders) \in Nat /\ Cardinality(Windows) \in Nat
      BY <1>0, <3>2, FS_CardinalityType
    <3> QED
      BY <2>3, <3>2, <3>3 DEF FolderInv
  <2>4. CASE /\ pc'[w] # "create" /\ pc[w] = "create"
             /\ \E f : folders' = folders \cup {f}
    <3>1. PICK f : folders' = folders \cup {f}
      BY <2>4
    <3>2. /\ Creating' \subseteq Creating \ {w}
          /\ Creating \subseteq Windows /\ Creating' \subseteq Windows \ {w}
          /\ w \in Creating
      BY <2>1, <2>4 DEF Creating
    <3>3. /\ IsFiniteSet(Windows \ {w})
          /\ Cardinality(Windows \ {w}) = Cardinality(Windows) - 1
      BY FS_RemoveElement
    <3>4. IsFiniteSet(Creating)
      BY <3>2, FS_Subset
    <3>5. /\ IsFiniteSet(Creating \ {w})
          /\ Cardinality(Creating \ {w}) = Cardinality(Creating) - 1
      BY <3>2, <3>4, FS_RemoveElement
    <3>6. /\ IsFiniteSet(Creating')
          /\ Cardinality(Creating') <= Cardinality(Creating) - 1
          /\ Cardinality(Creating') <= Cardinality(Windows) - 1
      BY <3>2, <3>3, <3>5, FS_Subset
    <3>7. /\ Cardinality(Creating) \in Nat /\ Cardinality(Creating') \in Nat
          /\ Cardinality(folders) \in Nat /\ Cardinality(Windows) \in Nat
      BY <1>0, <3>4, <3>6, FS_CardinalityType
    <3>8. Cardinality(folders') \in {Cardinality(folders), Cardinality(folders) + 1}
      BY <1>0, <3>1, FS_AddElement
    <3>9. folders = {} => Cardinality(folders) = 0
      BY FS_EmptySet
    <3> QED
      BY <3>6, <3>7, <3>8, <3>9 DEF FolderInv
  <2>5. \/ UNCHANGED folders
        \/ \E u \in Windows : CreateFolder(u) /\ ~UNCHANGED folders
    <3>1. [Next]_vars
      OBVIOUS
    <3> QED
      BY <3>1, DriveFrame DEF driveVars, DeleteLocal, Put, SendDelete
  <2>6. ASSUME NEW u \in Windows, CreateFolder(u), ~UNCHANGED folders
        PROVE  /\ u = w /\ pc[u] = "create" /\ pc'[u] # "create"
               /\ \E f : folders' = folders \cup {f}
    <3>1. \E f : folders' = folders \cup {f}
      BY <2>6 DEF CreateFolder
    <3>2. pc[u] = "create" /\ pc'[u] # "create"
      <4>1. ASSUME pc'[u] = "create" PROVE FALSE
        BY <1>0, <2>6, <4>1, CreateFrame DEF Step
      <4> QED
        BY <2>6, <4>1 DEF CreateFolder
    <3> QED
      BY <2>1, <3>1, <3>2
  <2> QED
    BY <2>2, <2>3, <2>4, <2>5, <2>6
<1> QED
  BY <1>1, <1>2, StepOthers

-----------------------------------------------------------------------------
(* The safety properties of every window.                                  *)

IndInv == Types /\ JobShape /\ FilesInv /\ ListingInv /\ WindowInv

LEMMA IndInvInductive ==
    /\ Init => IndInv
    /\ IndInv /\ [Next]_vars => IndInv'
<1>1. ASSUME Init PROVE IndInv
  <2>1. Types
    BY <1>1, InitTypes
  <2>2. JobShape
    BY <1>1, NoJobTypes DEF Init, JobShape, ShapeOf, Resting, Ops
  <2>3. FilesInv
    BY <1>1 DEF Init, FilesInv
  <2>4. ListingInv
    BY <1>1, NoJobTypes DEF Init, ListingInv, ListingOf
  <2>5. WindowInv
    BY <1>1 DEF Init, WindowInv
  <2> QED
    BY <2>1, <2>2, <2>3, <2>4, <2>5 DEF IndInv
<1>2. ASSUME IndInv, [Next]_vars PROVE IndInv'
  BY <1>2, NextKeepsJobs, NextKeepsLocalTypes, NextKeepsDriveTypes, NextKeepsUiTypes,
     NextKeepsFiles, NextKeepsListings, NextKeepsWindows DEF IndInv, Types
<1> QED
  BY <1>1, <1>2

\* TypeOK holds of every behaviour, whatever the constants.
THEOREM TypeCorrect == Spec => []TypeOK
<1>1. IndInv => TypeOK
  <2> SUFFICES ASSUME IndInv PROVE TypeOK
    OBVIOUS
  <2>1. Types /\ JobShape /\ FilesInv /\ WindowInv
    BY DEF IndInv
  <2>2. ASSUME NEW w \in Windows
        PROVE  /\ pc[w] \in Labels
               /\ (pc[w] \in Resting) <=> (job[w] = NoJob)
               /\ client[w] => connected[w]
               /\ drive_files[w] \subseteq 1..files
               /\ temporaries[w] \subseteq {"download", "container"}
    <3>1. pc[w] \in Labels /\ ShapeOf(pc[w], job[w])
      BY <2>1 DEF Types, JobTypes, JobShape
    <3>2. job[w].op \in Ops => job[w] # NoJob
      BY NoJobTypes
    <3>3. (pc[w] \in Resting) <=> (job[w] = NoJob)
      BY <3>1, <3>2 DEF ShapeOf
    <3> QED
      BY <2>1, <3>1, <3>3 DEF FilesInv, WindowInv, Types, UiTypes
  <2> QED
    BY <2>1, <2>2 DEF TypeOK, FilesInv, Types, LocalTypes, DriveTypes, Labels, Resting
<1> QED
  BY <1>1, IndInvInductive, PTL DEF Spec

\* No handler that has returned has a temporary file left to remove.
THEOREM NoTemporariesLeft == Spec => []TemporariesRemoved
<1>1. IndInv => TemporariesRemoved
  BY DEF IndInv, WindowInv, TemporariesRemoved
<1> QED
  BY <1>1, IndInvInductive, PTL DEF Spec

\* A listing that ends well shows all that stayed, whatever the page size and
\* whatever was added or deleted meanwhile.
THEOREM ListingsComplete == Spec => ListsWhatStays
<1>1. ASSUME IndInv, [Next]_vars, NEW w \in Windows,
             pc[w] = "page", pc'[w] = "idle", drive_files'[w] # drive_files[w]
      PROVE  job[w].present \subseteq drive_files'[w]
  <2>1. PICK p \in Page(w) : LastPage(w, p) /\ drive_files'[w] = job[w].found \cup p
    BY <1>1, ListFrame DEF IndInv
  <2>2. job[w].present \subseteq In(job[w].folder) \cup job[w].found
    BY <1>1 DEF IndInv, ListingInv, ListingOf
  <2> QED
    BY <2>1, <2>2 DEF LastPage, Rest
<1>2. IndInv /\ [Next]_vars =>
        [\A w \in Windows :
           pc[w] = "page" /\ pc'[w] = "idle" /\ drive_files'[w] # drive_files[w] =>
               job[w].present \subseteq drive_files'[w]]_vars
  BY <1>1
<1> QED
  BY <1>2, IndInvInductive, PTL DEF Spec, ListsWhatStays

\* However many windows ask for the folder at once, and however often they
\* repeat it, each creates at most one.
THEOREM FewFolders == IsFiniteSet(Windows) => (Spec => []FoldersBounded)
<1> SUFFICES ASSUME IsFiniteSet(Windows) PROVE Spec => []FoldersBounded
  OBVIOUS
<1>1. Init => FolderInv
  BY DEF Init, FolderInv
<1>2. IndInv /\ FolderInv /\ [Next]_vars => FolderInv'
  BY NextKeepsFolders DEF IndInv
<1>3. IndInv /\ FolderInv => FoldersBounded
  <2> SUFFICES ASSUME IndInv, FolderInv PROVE FoldersBounded
    OBVIOUS
  <2>1. IsFiniteSet(Creating)
    BY FS_Subset DEF Creating
  <2>2. /\ Cardinality(Creating) \in Nat /\ Cardinality(Windows) \in Nat
        /\ Cardinality(folders) \in Nat
    BY <2>1, FS_CardinalityType DEF IndInv, Types, DriveTypes
  <2>3. folders = {} => Cardinality(folders) = 0
    BY FS_EmptySet
  <2> QED
    BY <2>2, <2>3 DEF FolderInv, FoldersBounded
<1> QED
  BY <1>1, <1>2, <1>3, IndInvInductive, PTL DEF Spec

-----------------------------------------------------------------------------
(* What becomes of the handler of the window that takes a step, as far as  *)
(* containers are concerned.                                               *)

\* The steps at which a handler answers for no container.
Quiet == {"off", "idle", "token", "folder", "create", "page", "measure", "delete", "get",
          "failed"}

GoesQuiet(w) == pc'[w] \in Quiet /\ job'[w].id \in {0, job[w].id}

Imports(w) ==
    \E n \in Names : /\ ImportStart(w, n)
                     /\ pc'[w] = "import" /\ job'[w].name = n /\ job'[w].id = imported + 1

Measures(w) ==
    /\ pc[w] = "measure" /\ AtPath(w) # 0
    /\ pc'[w] = "open" /\ job'[w].name = job[w].name
    /\ job'[w].id = job[w].id /\ job'[w].size = len[AtPath(w)]

Opens(w) ==
    /\ pc[w] = "open" /\ AtPath(w) # 0
    /\ pc'[w] = "put" /\ job'[w].name = job[w].name
    /\ job'[w].id = AtPath(w) /\ job'[w].size = job[w].size

Confirms(w) ==
    /\ pc[w] = "put" /\ Stored(w)
    /\ pc'[w] = "remove" /\ job'[w].name = job[w].name /\ job'[w].id = 0

Answered(w) ==
    /\ pc[w] = "get" /\ pc'[w] = "receive"
    /\ \E s \in stored : job'[w].id = s.id /\ job'[w].size = s.len

Receives(w) ==
    /\ pc[w] = "receive" /\ pc'[w] = "receive"
    /\ job'[w].id = job[w].id /\ job'[w].size = job[w].size

Installs(w) ==
    /\ pc[w] = "receive" /\ pc'[w] \in {"export", "done"}
    /\ job'[w].id = job[w].id
    /\ job'[w].received = job[w].received /\ job[w].received = job[w].size

Exports(w) ==
    /\ pc[w] = "export" /\ pc'[w] = "done"
    /\ job'[w].id = job[w].id /\ job'[w].received = job[w].received

Effect(w) ==
    \/ UNCHANGED <<pc, job>> \/ GoesQuiet(w) \/ Imports(w) \/ Measures(w) \/ Opens(w)
    \/ Confirms(w) \/ Answered(w) \/ Receives(w) \/ Installs(w) \/ Exports(w)

LEMMA CallEffect ==
    ASSUME JobTypes, NEW w \in Windows, Start(w) \/ Stop(w) \/ Call(w)
    PROVE  Effect(w)
<1> USE DEF Effect
<1>1. ASSUME NEW label \in Quiet, NEW j, Enter(w, label, j), j.id = 0
      PROVE  GoesQuiet(w)
  BY <1>1, EnterFrame DEF GoesQuiet
<1>2. CASE Start(w) \/ Stop(w) \/ Connect(w) \/ Refresh(w)
  <2>1. CASE Enter(w, "token", [NoJob EXCEPT !.op = "list"])
    BY <1>1, <2>1 DEF NoJob, Quiet
  <2>2. CASE Enter(w, "off", NoJob) \/ Enter(w, "idle", NoJob)
    BY <1>1, <2>2 DEF NoJob, Quiet
  <2> QED
    BY <1>2, <2>1, <2>2 DEF Start, Stop, Connect, Refresh, Return
<1>3. CASE Disconnect(w) \/ \E n \in Names : DeleteLocal(w, n)
  BY <1>3 DEF Disconnect, DeleteLocal
<1>4. CASE \E n \in Names : ImportStart(w, n)
  <2>1. PICK n \in Names : ImportStart(w, n)
    BY <1>4
  <2> DEFINE j == [NoJob EXCEPT !.op = "import", !.name = n, !.id = imported + 1]
  <2>2. CASE Enter(w, "import", j)
    <3>1. pc'[w] = "import" /\ job'[w] = j
      BY <2>2, EnterFrame
    <3>2. j.name = n /\ j.id = imported + 1
      BY DEF NoJob
    <3> QED
      BY <2>1, <3>1, <3>2 DEF Imports
  <2> QED
    BY <2>1, <2>2 DEF ImportStart
<1>5. CASE \E n \in Names : UploadStart(w, n)
  <2>1. PICK n \in Names : Enter(w, "folder", [NoJob EXCEPT !.op = "upload", !.name = n])
    BY <1>5 DEF UploadStart
  <2> QED
    BY <1>1, <2>1 DEF NoJob, Quiet
<1>6. CASE \E f \in Files : DeleteStart(w, f) \/ DownloadStart(w, f)
  <2>1. PICK f \in Files, o \in {"delete", "download"} : Chosen(w, o, f)
    BY <1>6 DEF DeleteStart, DownloadStart
  <2>2. CASE \E l \in {"delete", "get"} : Enter(w, l, [NoJob EXCEPT !.op = o, !.file = f])
    BY <1>1, <2>2 DEF NoJob, Quiet
  <2> QED
    BY <2>1, <2>2 DEF Chosen
<1> QED
  BY <1>2, <1>3, <1>4, <1>5, <1>6 DEF Call

LEMMA StepEffect ==
    ASSUME Types, JobShape, NEW w \in Windows, Step(w)
    PROVE  Effect(w)
<1> USE DEF Effect
<1>0. JobTypes /\ job[w] \in Jobs
  BY DEF Types, JobTypes
<1>1. ASSUME NEW label \in Quiet, NEW j, Enter(w, label, j), j.id \in {0, job[w].id}
      PROVE  GoesQuiet(w)
  BY <1>0, <1>1, EnterFrame DEF GoesQuiet
<1>2. CASE Return(w)
  BY <1>1, <1>2, NoJobTypes DEF Return, Quiet
<1>3. CASE ImportWrite(w) \/ ImportEnds(w)
  BY <1>2, <1>3 DEF ImportWrite, ImportEnds
<1>4. CASE Token(w)
  BY <1>1, <1>2, <1>4 DEF Token, Quiet
<1>5. ASSUME NEW f, WithFolder(w, f) PROVE GoesQuiet(w)
  <2>1. CASE Enter(w, "measure", [job[w] EXCEPT !.folder = f])
    BY <1>0, <1>1, <2>1 DEF Jobs, Quiet
  <2>2. CASE Enter(w, "page", [job[w] EXCEPT !.folder = f, !.present = In(f)])
    <3> DEFINE j == [job[w] EXCEPT !.folder = f, !.present = In(f)]
    <3>1. j.id = job[w].id
      BY <1>0 DEF Jobs
    <3> QED
      BY <1>1, <2>2, <3>1 DEF Quiet
  <2> QED
    BY <1>5, <2>1, <2>2 DEF WithFolder
<1>6. CASE Lookup(w) \/ CreateFolder(w)
  <2>1. CASE Enter(w, "create", job[w])
    BY <1>1, <2>1 DEF Quiet
  <2> QED
    BY <1>2, <1>5, <1>6, <2>1 DEF Lookup, CreateFolder
<1>7. CASE ListPage(w)
  <2>1. ASSUME NEW p, Enter(w, "page", AskNext(w, p)) PROVE GoesQuiet(w)
    <3>1. AskNext(w, p).id = job[w].id
      BY <1>0 DEF AskNext, Jobs
    <3> QED
      BY <1>1, <2>1, <3>1 DEF Quiet
  <2> QED
    BY <1>2, <1>7, <2>1 DEF ListPage
<1>8. CASE Measure(w)
  <2> DEFINE j == [job[w] EXCEPT !.size = len[AtPath(w)]]
  <2>1. j.name = job[w].name /\ j.id = job[w].id /\ j.size = len[AtPath(w)]
    BY <1>0 DEF Jobs
  <2>2. Enter(w, "open", j) => pc'[w] = "open" /\ job'[w] = j
    BY <1>0, EnterFrame
  <2> QED
    BY <1>2, <1>8, <2>1, <2>2 DEF Measure, Measures
<1>9. CASE Open(w)
  <2> DEFINE j == [job[w] EXCEPT !.id = AtPath(w)]
  <2>1. j.name = job[w].name /\ j.id = AtPath(w) /\ j.size = job[w].size
    BY <1>0 DEF Jobs
  <2>2. Enter(w, "put", j) => pc'[w] = "put" /\ job'[w] = j
    BY <1>0, EnterFrame
  <2> QED
    BY <1>2, <1>9, <2>1, <2>2 DEF Open, Opens
<1>10. CASE Put(w)
  <2> DEFINE j == [NoJob EXCEPT !.op = "upload", !.name = job[w].name]
  <2>1. j.name = job[w].name /\ j.id = 0
    BY DEF NoJob
  <2>2. Confirmed(w) => pc'[w] = "remove" /\ job'[w] = j
    BY <1>0, EnterFrame DEF Confirmed
  <2> QED
    BY <1>2, <1>10, <2>1, <2>2 DEF Put, Confirms
<1>11. CASE RemoveLocal(w)
  <2>1. CASE Enter(w, "token", [NoJob EXCEPT !.op = "list"])
    BY <1>1, <2>1 DEF NoJob, Quiet
  <2> QED
    BY <1>2, <1>11, <2>1 DEF RemoveLocal
<1>12. CASE SendDelete(w)
  <2>1. CASE pc'[w] \in {"idle", "token"} /\ job'[w].id = 0
    BY <2>1 DEF GoesQuiet, Quiet
  <2>2. pc[w] = "delete"
    BY <1>12 DEF SendDelete
  <2> QED
    BY <1>0, <1>2, <1>12, <2>1 DEF SendDelete, NoJob, JobTypes
<1>13. CASE Enter(w, "failed", [NoJob EXCEPT !.op = job[w].op])
  BY <1>1, <1>13 DEF NoJob, Quiet
<1>14. CASE Get(w)
  <2>1. ASSUME NEW s \in stored,
               Enter(w, "receive", [job[w] EXCEPT !.file = 0, !.id = s.id, !.size = s.len])
        PROVE  Answered(w)
    <3> DEFINE j == [job[w] EXCEPT !.file = 0, !.id = s.id, !.size = s.len]
    <3>1. j.id = s.id /\ j.size = s.len
      BY <1>0 DEF Jobs
    <3>2. pc'[w] = "receive" /\ job'[w] = j
      BY <1>0, <2>1, EnterFrame
    <3> QED
      BY <1>14, <3>1, <3>2 DEF Answered, Get
  <2> QED
    BY <1>13, <1>14, <2>1 DEF Get
<1>15. CASE Receive(w)
  <2>1. job'[w] = [job[w] EXCEPT !.received = @ + 1]
    BY <1>0, <1>15 DEF Receive, JobTypes
  <2>2. job'[w].id = job[w].id /\ job'[w].size = job[w].size
    BY <1>0, <2>1 DEF Jobs
  <2> QED
    BY <1>15, <2>2 DEF Receive, Receives
<1>16. ASSUME Delivered(w)
       PROVE  pc'[w] = "done" /\ job'[w].id = job[w].id /\ job'[w].received = job[w].received
  <2> DEFINE j == [NoJob EXCEPT !.op = "done", !.id = job[w].id, !.received = job[w].received]
  <2>1. j.id = job[w].id /\ j.received = job[w].received
    BY DEF NoJob
  <2>2. pc'[w] = "done" /\ job'[w] = j
    BY <1>0, <1>16, EnterFrame DEF Delivered
  <2> QED
    BY <2>1, <2>2
<1>17. CASE Install(w)
  <2>1. Enter(w, "export", job[w]) => pc'[w] = "export" /\ job'[w] = job[w]
    BY <1>0, EnterFrame
  <2> QED
    BY <1>16, <1>17, <2>1 DEF Install, Installs, AllReceived
<1>18. CASE Export(w)
  BY <1>2, <1>16, <1>18 DEF Export, Exports
<1>19. CASE ReceiveFails(w) \/ DownloadFailed(w) \/ Done(w)
  BY <1>2, <1>13, <1>19 DEF ReceiveFails, DownloadFailed, Done
<1> QED
  BY <1>3, <1>4, <1>6, <1>7, <1>8, <1>9, <1>10, <1>11, <1>12, <1>14, <1>15, <1>17, <1>18,
     <1>19 DEF Step

-----------------------------------------------------------------------------
(* Custody, with one window on each device: two of them that share a vault *)
(* lose containers (the run upload_race).                                  *)

SeparateDevices == \A v, w \in Windows : Device[v] = Device[w] => v = w

\* Numbers are given once, and a container has one path.
NumbersInv ==
    /\ \A d \in Devices, n \in Names : vault[d][n] <= imported
    /\ \A c, d \in Devices, m, n \in Names :
          vault[c][m] = vault[d][n] /\ vault[c][m] # 0 => c = d /\ m = n
    /\ \A i \in kept : i <= imported
    /\ \A s \in stored : s.id <= imported
    /\ \A w \in Windows : job[w].id <= imported

\* Nobody else has seen a container that is still being written.
ImportInv ==
    \A w \in Windows : pc[w] = "import" =>
        /\ job[w].id \notin kept /\ AtPath(w) = job[w].id
        /\ \A v \in Windows \ {w} : job[v].id # job[w].id
        /\ \A s \in stored : s.id # job[w].id

Backed(i) == OnDrive(i) \/ <<i, "drive">> \in asked

\* What a handler has in its hands, at each of its steps.
WholeOf(w) ==
    /\ pc[w] = "open" => (AtPath(w) \in kept => job[w].size = Whole)
    /\ pc[w] = "put" => /\ AtPath(w) = job[w].id
                        /\ job[w].id \in kept => job[w].size = Whole
    /\ pc[w] = "remove" => (AtPath(w) \in kept => Backed(AtPath(w)))
    /\ pc[w] = "receive" => (job[w].id \in kept => job[w].size = Whole)
    /\ pc[w] \in {"export", "done"} => (job[w].id \in kept => job[w].received = Whole)

\* A container that was imported is whole wherever it is, and it is somewhere.
WholeInv ==
    /\ \A i \in kept : len[i] = Whole
    /\ \A s \in stored : s.id \in kept => s.len = Whole
    /\ \A w \in Windows : WholeOf(w)

CustodyInv == NumbersInv /\ ImportInv /\ WholeInv

\* The name of a handler that works on a path.
LEMMA PathName ==
    ASSUME Types, JobShape, NEW w \in Windows,
           pc[w] \in {"import", "measure", "open", "put", "remove"}
    PROVE  /\ job[w].name \in Names /\ Device[w] \in Devices
           /\ AtPath(w) \in {0} \cup Ids
<1>1. job[w].name \in Names
  BY DEF JobShape, ShapeOf
<1> QED
  BY <1>1, AtPathType DEF Types

\* What a step does to the vault.
LEMMA VaultEffect ==
    ASSUME Types, JobShape, NEW w \in Windows,
           Start(w) \/ Stop(w) \/ Call(w) \/ Step(w)
    PROVE  \/ UNCHANGED <<vault, imported>>
           \/ \E n \in Names :
                /\ ImportStart(w, n) /\ imported' = imported + 1
                /\ \A d \in Devices, m \in Names :
                     vault'[d][m] = IF d = Device[w] /\ m = n THEN imported + 1 ELSE vault[d][m]
           \/ \E n \in Names :
                /\ imported' = imported
                /\ \A d \in Devices, m \in Names :
                     vault'[d][m] = IF d = Device[w] /\ m = n THEN 0 ELSE vault[d][m]
<1>0. vault \in [Devices -> [Names -> {0} \cup Ids]] /\ Device[w] \in Devices
  BY DEF Types, LocalTypes, Devices
<1>2. CASE \E n \in Names : ImportStart(w, n)
  <2>1. PICK n \in Names : ImportStart(w, n)
    BY <1>2
  <2>2. vault' = [vault EXCEPT ![Device[w]][n] = imported + 1] /\ imported' = imported + 1
    BY <2>1 DEF ImportStart
  <2>3. \A d \in Devices, m \in Names :
          vault'[d][m] = IF d = Device[w] /\ m = n THEN imported + 1 ELSE vault[d][m]
    BY <1>0, <2>2
  <2> QED
    BY <2>1, <2>2, <2>3
<1>3. CASE \E n \in Names : DeleteLocal(w, n)
  <2>1. PICK n \in Names : DeleteLocal(w, n)
    BY <1>3
  <2>2. vault' = [vault EXCEPT ![Device[w]][n] = 0] /\ imported' = imported
    BY <2>1 DEF DeleteLocal
  <2>3. \A d \in Devices, m \in Names :
          vault'[d][m] = IF d = Device[w] /\ m = n THEN 0 ELSE vault[d][m]
    BY <1>0, <2>2
  <2> QED
    BY <2>2, <2>3
<1>4. CASE RemoveLocal(w)
  <2>1. CASE vault' = [vault EXCEPT ![Device[w]][job[w].name] = 0]
    <3>1. job[w].name \in Names /\ imported' = imported
      BY <1>4, PathName DEF RemoveLocal
    <3>2. \A d \in Devices, m \in Names :
            vault'[d][m] = IF d = Device[w] /\ m = job[w].name THEN 0 ELSE vault[d][m]
      BY <1>0, <2>1, <3>1
    <3> QED
      BY <3>1, <3>2
  <2> QED
    BY <1>4, <2>1 DEF RemoveLocal
<1>5. CASE UNCHANGED localVars \/ ImportWrite(w) \/ ImportEnds(w)
  BY <1>5 DEF localVars, ImportWrite, ImportEnds
<1> QED
  BY <1>2, <1>3, <1>4, <1>5, LocalSteps

\* Only calls, imports and the removal after an upload touch the vault.
LEMMA LocalAtRest ==
    ASSUME NEW w \in Windows, Start(w) \/ Stop(w) \/ Call(w) \/ Step(w),
           pc[w] \notin {"idle", "import", "remove"}
    PROVE  UNCHANGED localVars
  BY LocalSteps DEF ImportStart, DeleteLocal, ImportWrite, ImportEnds, RemoveLocal

\* The path of another window is on another device.
LEMMA PathKept ==
    ASSUME Types, JobShape, SeparateDevices, NEW w \in Windows, NEW v \in Windows \ {w},
           Start(w) \/ Stop(w) \/ Call(w) \/ Step(w), Others(w),
           pc[v] \in {"import", "open", "put", "remove"}
    PROVE  AtPath(v)' = AtPath(v)
<1>1. Device[v] # Device[w]
  BY DEF SeparateDevices
<1>2. job[v].name \in Names /\ Device[v] \in Devices
  BY PathName
<1>3. job'[v].name = job[v].name
  BY DEF Others, KeepsJob
<1>4. vault'[Device[v]][job[v].name] = vault[Device[v]][job[v].name]
  BY <1>1, <1>2, VaultEffect
<1> QED
  BY <1>3, <1>4 DEF AtPath

LEMMA NextKeepsNumbers ==
    ASSUME Types, JobShape, NumbersInv, NEW w \in Windows,
           Start(w) \/ Stop(w) \/ Call(w) \/ Step(w), Others(w)
    PROVE  NumbersInv' /\ imported <= imported' /\ imported' \in Nat
<1>0. /\ vault \in [Devices -> [Names -> {0} \cup Ids]] /\ imported \in Nat
      /\ MaxId \in Nat /\ Ids \subseteq Nat /\ len \in [Ids -> 0..Whole]
      /\ \A v \in Windows : job[v].id \in Nat
      /\ \A s \in stored : s.id \in Nat
  BY DEF Types, LocalTypes, JobTypes, Jobs, DriveTypes, StoredFile, Ids
<1>1. imported' \in {imported, imported + 1} /\ imported <= imported' /\ imported' \in Nat
  BY <1>0, VaultEffect
<1>2. \A d \in Devices, n \in Names : vault'[d][n] <= imported'
  <2> SUFFICES ASSUME NEW d \in Devices, NEW n \in Names PROVE vault'[d][n] <= imported'
    OBVIOUS
  <2>1. vault[d][n] <= imported
    BY DEF NumbersInv
  <2>2. vault[d][n] \in {0} \cup Ids /\ 0 \in Nat
    BY <1>0
  <2>3. vault[d][n] \in Nat
    BY <1>0, <2>2
  <2> QED
    BY <1>0, <1>1, <2>1, <2>3, VaultEffect
<1>3. ASSUME NEW c \in Devices, NEW d \in Devices, NEW m \in Names, NEW n \in Names,
             vault'[c][m] = vault'[d][n], vault'[c][m] # 0
      PROVE  c = d /\ m = n
  <2>1. /\ vault[c][m] <= imported /\ vault[d][n] <= imported
        /\ vault[c][m] = vault[d][n] /\ vault[c][m] # 0 => c = d /\ m = n
        /\ vault[c][m] # imported + 1 /\ vault[d][n] # imported + 1
    BY <1>0 DEF NumbersInv
  <2> QED
    BY <1>3, <2>1, VaultEffect
<1>4. ASSUME NEW i \in kept' PROVE i <= imported'
  <2>0. ASSUME i \in kept PROVE i <= imported'
    <3>1. i <= imported /\ i \in Nat
      BY <1>0, <2>0 DEF NumbersInv, Types, LocalTypes
    <3> QED
      BY <1>0, <1>1, <3>1
  <2>1. CASE kept' = kept
    BY <2>0, <2>1
  <2>2. CASE ImportEnds(w)
    <3>1. job[w].id <= imported'
      BY <1>0, <1>1 DEF NumbersInv
    <3> QED
      BY <2>0, <2>2, <3>1 DEF ImportEnds
  <2>3. CASE \E n \in Names : ImportStart(w, n)
    <3>1. imported' = imported + 1 /\ (kept' = kept \/ kept' = kept \cup {imported + 1})
      BY <2>3 DEF ImportStart
    <3> QED
      BY <1>0, <2>0, <3>1
  <2> QED
    BY <2>1, <2>2, <2>3, LocalSteps DEF localVars, DeleteLocal, ImportWrite, RemoveLocal
<1>5. ASSUME NEW s \in stored' PROVE s.id <= imported'
  <2>1. s \in stored => s.id <= imported'
    BY <1>0, <1>1 DEF NumbersInv
  <2>2. stored' = stored \/ stored' \subseteq stored \/ \E t : t.id = job[w].id /\ stored' = stored \cup {t}
    BY DriveSteps, StoredEffect DEF driveVars, DeleteLocal, CreateFolder, Put, SendDelete
  <2>3. job[w].id <= imported'
    BY <1>0, <1>1 DEF NumbersInv
  <2> QED
    BY <2>1, <2>2, <2>3
<1>6. ASSUME NEW v \in Windows PROVE job'[v].id <= imported'
  <2>1. job[v].id <= imported'
    BY <1>0, <1>1 DEF NumbersInv
  <2>2. CASE v # w
    BY <2>1, <2>2 DEF Others, KeepsJob
  <2>3. CASE v = w
    <3>1. Effect(w)
      BY CallEffect, StepEffect DEF Types
    <3>2. CASE job'[w].id \in {0, job[w].id}
      BY <1>1, <2>1, <2>3, <3>2
    <3>3. CASE Imports(w)
      <4>1. imported' = imported + 1 /\ job'[w].id = imported + 1
        BY <3>3 DEF Imports, ImportStart
      <4> QED
        BY <1>0, <2>3, <4>1
    <3>4. CASE Opens(w)
      <4>2. job[w].name \in Names /\ Device[w] \in Devices
        BY <3>4, PathName DEF Opens
      <4>3. vault[Device[w]][job[w].name] <= imported
        BY <4>2 DEF NumbersInv
      <4>4. AtPath(w) \in {0} \cup Ids
        BY <3>4, PathName DEF Opens
      <4>5. AtPath(w) \in Nat
        BY <4>4 DEF Ids
      <4>6. AtPath(w) <= imported
        BY <4>3 DEF AtPath
      <4> QED
        BY <1>0, <1>1, <2>3, <3>4, <4>5, <4>6 DEF Opens
    <3>5. CASE Answered(w)
      <4>1. PICK s \in stored : job'[w].id = s.id
        BY <3>5 DEF Answered
      <4>2. s.id <= imported /\ s.id \in Nat
        BY <1>0 DEF NumbersInv
      <4> QED
        BY <1>0, <1>1, <2>3, <4>1, <4>2
    <3> QED
      BY <3>1, <3>2, <3>3, <3>4, <3>5
      DEF Effect, GoesQuiet, Measures, Confirms, Receives, Installs, Exports
  <2> QED
    BY <2>2, <2>3
<1> QED
  BY <1>1, <1>2, <1>3, <1>4, <1>5, <1>6 DEF NumbersInv

\* An import that returns Ok is of a container nobody else has seen.
Unseen(w, i) ==
    /\ i \in Ids /\ i \notin kept /\ kept' = kept \cup {i}
    /\ \A v \in Windows \ {w} : job[v].id # i
    /\ \A v \in Windows \ {w} :
          pc[v] \in {"import", "open", "put", "remove"} => AtPath(v) # i
    /\ \A s \in stored : s.id # i
    /\ UNCHANGED driveVars
    /\ InVault(i)' /\ len'[i] = Whole
    /\ \A j \in Ids \ {i} : (InVault(j)' <=> InVault(j)) /\ len'[j] = len[j]
    /\ pc'[w] = "idle"

LEMMA KeptEffect ==
    ASSUME Types, JobShape, SeparateDevices, NumbersInv, ImportInv, NEW w \in Windows,
           Start(w) \/ Stop(w) \/ Call(w) \/ Step(w)
    PROVE  kept' = kept \/ \E i \in Ids : Unseen(w, i)
<1>0. /\ vault \in [Devices -> [Names -> {0} \cup Ids]] /\ imported \in Nat
      /\ len \in [Ids -> 0..Whole] /\ kept \subseteq Ids
      /\ JobTypes
  BY DEF Types, LocalTypes
<1>a. /\ \A v \in Windows : job[v].id \in Nat
      /\ \A s \in stored : s.id \in Nat
      /\ \A i \in kept : i \in Nat
  BY DEF Types, LocalTypes, DriveTypes, JobTypes, Jobs, StoredFile, Ids
<1>b. Device[w] \in Devices
  BY DEF Devices
<1>1. CASE /\ \E n \in Names : ImportStart(w, n)
           /\ kept' # kept
  <2>1. PICK n \in Names : ImportStart(w, n)
    BY <1>1
  <2>0. PICK i \in Ids : i = imported + 1
    BY <1>0, <2>1 DEF ImportStart, Ids, Types, LocalTypes
  <2>2. /\ pc[w] = "idle" /\ pc' = pc /\ imported < MaxId /\ vault[Device[w]][n] = 0
        /\ vault' = [vault EXCEPT ![Device[w]][n] = i]
        /\ len' = [len EXCEPT ![i] = Whole] /\ kept' = kept \cup {i}
        /\ UNCHANGED driveVars
    BY <1>1, <2>0, <2>1 DEF ImportStart
  <2>3. i \in Nat
    BY DEF Ids
  <2>4. i \notin kept /\ (\A v \in Windows : job[v].id # i) /\ (\A s \in stored : s.id # i)
    BY <1>0, <1>a, <2>0 DEF NumbersInv
  <2>5. ASSUME NEW v \in Windows, pc[v] \in {"import", "open", "put", "remove"}
        PROVE  AtPath(v) # i
    <3>1. job[v].name \in Names /\ Device[v] \in Devices
      BY <2>5, PathName
    <3>2. AtPath(v) <= imported
      BY <3>1 DEF AtPath, NumbersInv
    <3> QED
      BY <1>0, <2>0, <3>2 DEF AtPath
  <2>6. \A d \in Devices, m \in Names :
          vault'[d][m] = IF d = Device[w] /\ m = n THEN i ELSE vault[d][m]
    BY <1>0, <1>b, <2>2
  <2>7. InVault(i)'
    <3>1. vault'[Device[w]][n] = i
      BY <1>b, <2>6
    <3> QED
      BY <1>b, <3>1 DEF InVault
  <2>8. ASSUME NEW j \in Ids \ {i} PROVE InVault(j)' <=> InVault(j)
    <3>1. j # 0 /\ j # i
      BY DEF Ids
    <3> QED
      BY <1>b, <2>2, <2>6, <3>1 DEF InVault
  <2>9. len'[i] = Whole /\ \A j \in Ids \ {i} : len'[j] = len[j]
    BY <1>0, <2>2
  <2>10. Unseen(w, i)
    BY <2>2, <2>4, <2>5, <2>7, <2>8, <2>9 DEF Unseen
  <2> QED
    BY <2>10
<1>2. CASE ImportEnds(w) /\ kept' # kept
  <2>0. PICK i \in Ids : i = job[w].id
    BY <1>2 DEF ImportEnds, JobShape, ShapeOf
  <2>1. /\ pc[w] = "import" /\ i \in Ids /\ len[i] = Whole /\ kept' = kept \cup {i}
        /\ UNCHANGED <<vault, len, imported, driveVars>> /\ pc'[w] = "idle"
    BY <1>0, <1>2, <2>0, EnterFrame DEF ImportEnds, Return
  <2>2. /\ i \notin kept /\ AtPath(w) = i
        /\ \A v \in Windows \ {w} : job[v].id # i
        /\ \A s \in stored : s.id # i
    BY <2>0, <2>1 DEF ImportInv
  <2>3. job[w].name \in Names
    BY <2>1, PathName
  <2>4. i # 0
    BY <2>1 DEF Ids
  <2>5. ASSUME NEW v \in Windows \ {w}, pc[v] \in {"import", "open", "put", "remove"}
        PROVE  AtPath(v) # i
    <3>1. job[v].name \in Names /\ Device[v] \in Devices
      BY <2>5, PathName
    <3>2. Device[v] # Device[w]
      BY DEF SeparateDevices
    <3> QED
      BY <1>b, <2>2, <2>3, <2>4, <3>1, <3>2 DEF AtPath, NumbersInv
  <2>6. InVault(i)'
    <3>1. vault'[Device[w]][job[w].name] = i
      BY <2>1, <2>2 DEF AtPath
    <3> QED
      BY <1>b, <2>3, <3>1 DEF InVault
  <2>7. \A j \in Ids \ {i} : (InVault(j)' <=> InVault(j)) /\ len'[j] = len[j]
    BY <2>1 DEF InVault
  <2>8. Unseen(w, i)
    BY <2>1, <2>2, <2>5, <2>6, <2>7 DEF Unseen
  <2> QED
    BY <2>1, <2>8
<1> QED
  BY <1>1, <1>2, LocalSteps DEF localVars, DeleteLocal, ImportWrite, RemoveLocal

\* A whole copy on the Drive stays, or the user asked for its deletion.
LEMMA BackedStays ==
    ASSUME NEW w \in Windows, Start(w) \/ Stop(w) \/ Call(w) \/ Step(w),
           NEW i, Backed(i)
    PROVE  Backed(i)'
<1>1. CASE UNCHANGED driveVars
  BY <1>1 DEF driveVars, Backed, OnDrive
<1>2. CASE \E n \in Names : DeleteLocal(w, n)
  BY <1>2 DEF DeleteLocal, Backed, OnDrive
<1>3. CASE CreateFolder(w)
  BY <1>3 DEF CreateFolder, Backed, OnDrive
<1>4. CASE Put(w)
  BY <1>4 DEF Put, Stored, Backed, OnDrive
<1>5. CASE SendDelete(w)
  <2>1. CASE UNCHANGED <<stored, asked>>
    BY <2>1 DEF Backed, OnDrive
  <2>2. CASE /\ stored' = stored \ Gone(w)
             /\ asked' = asked \cup {<<s.id, "drive">> : s \in Gone(w)}
    <3>1. CASE OnDrive(i)
      <4>1. PICK s \in stored : s.id = i /\ s.len = Whole
        BY <3>1 DEF OnDrive
      <4>2. s \in Gone(w) => <<i, "drive">> \in asked'
        BY <2>2, <4>1
      <4>3. s \notin Gone(w) => OnDrive(i)'
        BY <2>2, <4>1 DEF OnDrive
      <4> QED
        BY <4>2, <4>3 DEF Backed
    <3>2. CASE <<i, "drive">> \in asked
      BY <2>2, <3>2 DEF Backed
    <3> QED
      BY <3>1, <3>2 DEF Backed
  <2> QED
    BY <1>5, <2>1, <2>2 DEF SendDelete
<1> QED
  BY <1>1, <1>2, <1>3, <1>4, <1>5, DriveSteps

\* The container a step takes into a handler is not one that another window
\* is still writing.
LEMMA NoForeignImport ==
    ASSUME Types, JobShape, SeparateDevices, NumbersInv, ImportInv,
           NEW w \in Windows, Start(w) \/ Stop(w) \/ Call(w) \/ Step(w),
           NEW v \in Windows \ {w}, pc[v] = "import"
    PROVE  /\ job'[w].id # job[v].id
           /\ \A s \in stored' : s.id # job[v].id
<1>0. PICK i \in Ids : i = job[v].id
  BY DEF JobShape, ShapeOf
<1>1. /\ AtPath(v) = i /\ job[w].id # i /\ i # 0
      /\ \A s \in stored : s.id # i
      /\ i <= imported /\ i \in Nat /\ imported \in Nat
  BY <1>0 DEF ImportInv, NumbersInv, Ids, Types, LocalTypes
<1>2. job'[w].id # i
  <2>1. CASE job'[w].id \in {0, job[w].id}
    BY <1>1, <2>1
  <2>2. CASE Imports(w)
    BY <1>1, <2>2 DEF Imports
  <2>3. CASE Opens(w)
    <3>1. /\ job[w].name \in Names /\ Device[w] \in Devices
          /\ job[v].name \in Names /\ Device[v] \in Devices
      BY <2>3, PathName DEF Opens
    <3>2. Device[v] # Device[w]
      BY DEF SeparateDevices
    <3>3. AtPath(w) # i
      BY <1>1, <3>1, <3>2 DEF AtPath, NumbersInv
    <3> QED
      BY <2>3, <3>3 DEF Opens
  <2>4. CASE Answered(w)
    BY <1>1, <2>4 DEF Answered
  <2> QED
    BY <2>1, <2>2, <2>3, <2>4, CallEffect, StepEffect
    DEF Types, Effect, GoesQuiet, Measures, Confirms, Receives, Installs, Exports
<1>3. \A s \in stored' : s.id # i
  <2>1. \/ stored' = stored \/ stored' \subseteq stored
        \/ \E t : t.id = job[w].id /\ stored' = stored \cup {t}
    BY DriveSteps, StoredEffect DEF driveVars, DeleteLocal, CreateFolder, Put, SendDelete
  <2> QED
    BY <1>1, <2>1
<1> QED
  BY <1>0, <1>2, <1>3

LEMMA NextKeepsImports ==
    ASSUME Types, JobShape, SeparateDevices, NumbersInv, ImportInv,
           NEW w \in Windows, Start(w) \/ Stop(w) \/ Call(w) \/ Step(w), Others(w)
    PROVE  ImportInv'
<1>0. imported \in Nat /\ (\A v \in Windows : job[v].id \in Nat) /\ (\A s \in stored : s.id \in Nat)
  BY DEF Types, LocalTypes, JobTypes, Jobs, DriveTypes, StoredFile, Ids
<1>1. ASSUME NEW v \in Windows \ {w}
      PROVE  /\ pc'[v] = pc[v] /\ job'[v].id = job[v].id /\ job'[v].name = job[v].name
  BY DEF Others, KeepsJob
<1>2. ASSUME NEW v \in Windows \ {w}, pc'[v] = "import"
      PROVE  /\ job'[v].id \notin kept' /\ AtPath(v)' = job'[v].id
             /\ \A u \in Windows \ {v} : job'[u].id # job'[v].id
             /\ \A s \in stored' : s.id # job'[v].id
  <2>1. /\ pc[v] = "import" /\ job'[v].id = job[v].id
        /\ job[v].id \notin kept /\ AtPath(v) = job[v].id
        /\ \A u \in Windows \ {v} : job[u].id # job[v].id
    BY <1>1, <1>2 DEF ImportInv
  <2>2. job[v].id \notin kept'
    BY <2>1, KeptEffect DEF Unseen
  <2>3. AtPath(v)' = AtPath(v)
    BY <2>1, PathKept
  <2>4. job'[w].id # job[v].id /\ \A s \in stored' : s.id # job[v].id
    BY <2>1, NoForeignImport
  <2>5. ASSUME NEW u \in Windows \ {v} PROVE job'[u].id # job[v].id
    BY <1>1, <2>1, <2>4
  <2> QED
    BY <2>1, <2>2, <2>3, <2>4, <2>5
<1>3. ASSUME pc'[w] = "import"
      PROVE  /\ job'[w].id \notin kept' /\ AtPath(w)' = job'[w].id
             /\ \A u \in Windows \ {w} : job'[u].id # job'[w].id
             /\ \A s \in stored' : s.id # job'[w].id
  <2>1. kept' = kept
    BY <1>3, KeptEffect DEF Unseen
  <2>2. CASE UNCHANGED <<pc, job>>
    <3>1. pc[w] = "import" /\ ~ImportEnds(w)
      BY <1>3, <2>2, EnterFrame DEF ImportEnds, Return, Types
    <3>2. UNCHANGED vault
      BY <3>1, LocalSteps DEF localVars, ImportStart, DeleteLocal, ImportWrite, RemoveLocal
    <3>3. UNCHANGED stored
      BY <3>1, DriveSteps DEF driveVars, DeleteLocal, CreateFolder, Put, SendDelete
    <3> QED
      BY <2>1, <2>2, <3>1, <3>2, <3>3 DEF ImportInv, AtPath
  <2>3. CASE Imports(w)
    <3>1. PICK n \in Names : /\ ImportStart(w, n)
                             /\ job'[w].name = n /\ job'[w].id = imported + 1
      BY <2>3 DEF Imports
    <3>2. /\ vault' = [vault EXCEPT ![Device[w]][n] = imported + 1] /\ UNCHANGED stored
      BY <3>1 DEF ImportStart, driveVars
    <3>3. AtPath(w)' = imported + 1
      BY <3>1, <3>2 DEF AtPath, Types, LocalTypes, Devices
    <3>4. /\ imported + 1 \notin kept /\ \A s \in stored : s.id # imported + 1
      BY <1>0 DEF NumbersInv
    <3>5. ASSUME NEW u \in Windows \ {w} PROVE job'[u].id # imported + 1
      BY <1>0, <1>1 DEF NumbersInv
    <3> QED
      BY <2>1, <3>1, <3>2, <3>3, <3>4, <3>5
  <2> QED
    BY <1>3, <2>2, <2>3, CallEffect, StepEffect
    DEF Types, Effect, GoesQuiet, Measures, Opens, Confirms, Answered, Receives, Installs,
        Exports, Quiet
<1> QED
  BY <1>2, <1>3 DEF ImportInv

LEMMA KeptLength ==
    ASSUME Types, JobShape, NumbersInv, ImportInv,
           NEW w \in Windows, Start(w) \/ Stop(w) \/ Call(w) \/ Step(w), NEW i \in kept
    PROVE  len'[i] = len[i]
<1>0. len \in [Ids -> 0..Whole] /\ i \in Ids /\ i \in Nat /\ i <= imported /\ imported \in Nat
  BY DEF Types, LocalTypes, NumbersInv, Ids
<1>1. CASE \E n \in Names : ImportStart(w, n)
  BY <1>0, <1>1 DEF ImportStart
<1>2. CASE ImportWrite(w)
  <2>1. job[w].id # i
    BY <1>2 DEF ImportWrite, ImportInv
  <2> QED
    BY <1>0, <1>2, <2>1 DEF ImportWrite
<1> QED
  BY <1>1, <1>2, LocalSteps DEF localVars, DeleteLocal, ImportEnds, RemoveLocal

LEMMA NextKeepsWholeFiles ==
    ASSUME Types, JobShape, SeparateDevices, NumbersInv, ImportInv, WholeInv,
           NEW w \in Windows, Start(w) \/ Stop(w) \/ Call(w) \/ Step(w)
    PROVE  /\ \A i \in kept' : len'[i] = Whole
           /\ \A s \in stored' : s.id \in kept' => s.len = Whole
<1>1. ASSUME NEW i \in kept' PROVE len'[i] = Whole
  <2>1. i \in kept => len'[i] = Whole
    BY KeptLength DEF WholeInv
  <2> QED
    BY <2>1, KeptEffect DEF Unseen
<1>2. ASSUME NEW s \in stored', s.id \in kept' PROVE s.len = Whole
  <2>1. CASE s \in stored
    <3>1. s.id \in kept
      BY <1>2, <2>1, KeptEffect DEF Unseen
    <3> QED
      BY <2>1, <3>1 DEF WholeInv
  <2>2. CASE s \notin stored
    <3>1. Put(w) /\ Stored(w)
      BY <1>2, <2>2, DriveSteps DEF driveVars, DeleteLocal, CreateFolder, Put, SendDelete
    <3>2. pc[w] = "put"
      BY <3>1 DEF Put
    <3>3. s.id = job[w].id /\ s.len = job[w].size
      BY <2>2, <3>1, <3>2, StoredEffect
    <3>4. kept' = kept
      BY <3>2, LocalAtRest DEF localVars
    <3> QED
      BY <1>2, <3>2, <3>3, <3>4 DEF WholeInv, WholeOf
  <2> QED
    BY <2>1, <2>2
<1> QED
  BY <1>1, <1>2

\* The window that takes the step.
LEMMA ActorWhole ==
    ASSUME Types, JobShape, SeparateDevices, NumbersInv, ImportInv, WholeInv,
           NEW w \in Windows, Start(w) \/ Stop(w) \/ Call(w) \/ Step(w)
    PROVE  WholeOf(w)'
<1> USE DEF WholeOf
<1>0. WholeOf(w) /\ (\A i \in kept : len[i] = Whole)
  BY DEF WholeInv
<1>1. pc'[w] # "idle" => kept' = kept
  BY KeptEffect DEF Unseen
<1>2. ASSUME pc[w] \in {"measure", "open", "put"}
      PROVE  UNCHANGED localVars
  BY <1>2, LocalAtRest
<1>3. CASE UNCHANGED <<pc, job>>
  <2>1. CASE pc[w] \in {"open", "put", "remove"}
    <3>1. UNCHANGED <<vault, kept>>
      <4>1. ~RemoveLocal(w)
        BY <1>3, <2>1, EnterFrame DEF RemoveLocal, Return, Types
      <4> QED
        BY <2>1, <4>1, LocalSteps
        DEF localVars, ImportStart, DeleteLocal, ImportWrite, ImportEnds
    <3>2. PICK x : x = AtPath(w)
      OBVIOUS
    <3>3. AtPath(w)' = x
      BY <1>3, <3>1, <3>2 DEF AtPath
    <3>4. Backed(x) => Backed(x)'
      BY BackedStays
    <3>5. pc[w] = "remove" /\ x \in kept => Backed(x)'
      BY <1>0, <3>2, <3>4
    <3>6. pc'[w] = "remove" => (AtPath(w)' \in kept' => Backed(AtPath(w))')
      BY <1>3, <3>1, <3>3, <3>5 DEF Backed, OnDrive
    <3> QED
      BY <1>0, <1>3, <2>1, <3>1, <3>2, <3>3, <3>6
  <2>2. CASE pc[w] \in {"receive", "export", "done"}
    BY <1>0, <1>1, <1>3, <2>2
  <2>3. CASE pc[w] \notin {"open", "put", "remove", "receive", "export", "done"}
    BY <1>3, <2>3
  <2> QED
    BY <2>1, <2>2, <2>3
<1>4. CASE GoesQuiet(w) \/ Imports(w)
  BY <1>4 DEF GoesQuiet, Imports, Quiet
<1>5. CASE Measures(w)
  <2>1. UNCHANGED localVars
    BY <1>2, <1>5 DEF Measures
  <2>2. AtPath(w)' = AtPath(w)
    BY <1>5, <2>1 DEF AtPath, Measures, localVars
  <2> QED
    BY <1>0, <1>5, <2>1, <2>2 DEF Measures, localVars
<1>6. CASE Opens(w)
  <2>1. UNCHANGED localVars
    BY <1>2, <1>6 DEF Opens
  <2>2. AtPath(w)' = AtPath(w)
    BY <1>6, <2>1 DEF AtPath, Opens, localVars
  <2> QED
    BY <1>0, <1>6, <2>1, <2>2 DEF Opens, localVars
<1>7. CASE Confirms(w)
  <2>1. UNCHANGED localVars /\ pc[w] = "put" /\ Stored(w) /\ pc'[w] = "remove"
    BY <1>2, <1>7 DEF Confirms
  <2>2. PICK x : x = AtPath(w)
    OBVIOUS
  <2>3. AtPath(w)' = x
    BY <1>7, <2>1, <2>2 DEF AtPath, Confirms, localVars
  <2>4. x = job[w].id /\ (x \in kept => job[w].size = Whole)
    BY <1>0, <2>1, <2>2
  <2>5. PICK s : s.id = job[w].id /\ s.len = job[w].size /\ stored' = stored \cup {s}
    BY <2>1, StoredEffect
  <2>6. x \in kept => OnDrive(x)'
    BY <2>4, <2>5 DEF OnDrive
  <2>7. AtPath(w)' \in kept' => Backed(AtPath(w))'
    BY <2>1, <2>3, <2>6 DEF Backed, OnDrive, localVars
  <2> QED
    BY <2>1, <2>7
<1>8. CASE Answered(w)
  <2>1. PICK s \in stored : job'[w].id = s.id /\ job'[w].size = s.len
    BY <1>8 DEF Answered
  <2>2. pc'[w] = "receive" /\ (s.id \in kept => s.len = Whole)
    BY <1>8 DEF WholeInv, Answered
  <2> QED
    BY <1>1, <2>1, <2>2
<1>9. CASE Receives(w) \/ Installs(w) \/ Exports(w)
  BY <1>0, <1>1, <1>9 DEF Receives, Installs, Exports
<1> QED
  BY <1>3, <1>4, <1>5, <1>6, <1>7, <1>8, <1>9, CallEffect, StepEffect DEF Effect, Types

\* The others.
LEMMA OthersWhole ==
    ASSUME Types, JobShape, SeparateDevices, NumbersInv, ImportInv, WholeInv,
           NEW w \in Windows, Start(w) \/ Stop(w) \/ Call(w) \/ Step(w), Others(w),
           NEW v \in Windows \ {w}
    PROVE  WholeOf(v)'
<1> USE DEF WholeOf
<1>0. WholeOf(v)
  BY DEF WholeInv
<1>1. /\ pc'[v] = pc[v] /\ job'[v].id = job[v].id
      /\ job'[v].size = job[v].size /\ job'[v].received = job[v].received
  BY DEF Others, KeepsJob
<1>2. job[v].id \in kept' => job[v].id \in kept
  BY KeptEffect DEF Unseen
<1>3. CASE pc[v] \in {"open", "put", "remove"}
  <2>1. PICK x : x = AtPath(v)
    OBVIOUS
  <2>2. AtPath(v)' = x
    BY <1>3, <2>1, PathKept
  <2>3. x \in kept' => x \in kept
    BY <1>3, <2>1, KeptEffect DEF Unseen
  <2>4. Backed(x) => Backed(x)'
    BY BackedStays
  <2>5. pc[v] = "remove" /\ x \in kept => Backed(x)'
    BY <1>0, <2>1, <2>4
  <2>6. pc'[v] = "remove" => (AtPath(v)' \in kept' => Backed(AtPath(v))')
    BY <1>1, <2>2, <2>3, <2>5 DEF Backed, OnDrive
  <2> QED
    BY <1>0, <1>1, <1>2, <1>3, <2>1, <2>2, <2>3, <2>6
<1>4. CASE pc[v] \notin {"open", "put", "remove"}
  BY <1>0, <1>1, <1>2, <1>4
<1> QED
  BY <1>3, <1>4

LEMMA CustodyInvInductive ==
    ASSUME SeparateDevices
    PROVE  /\ Init => CustodyInv
           /\ IndInv /\ CustodyInv /\ [Next]_vars => CustodyInv'
<1>1. ASSUME Init PROVE CustodyInv
  <2>1. NumbersInv
    BY <1>1, NoJobTypes DEF Init, NumbersInv
  <2> QED
    BY <1>1, <2>1 DEF Init, CustodyInv, ImportInv, WholeInv, WholeOf
<1>2. ASSUME IndInv, CustodyInv, [Next]_vars PROVE CustodyInv'
  <2> USE DEF CustodyInv
  <2>0. Types /\ JobShape
    BY <1>2 DEF IndInv
  <2>1. CASE UNCHANGED vars
    BY <1>2, <2>1 DEF vars, localVars, driveVars, NumbersInv, ImportInv, WholeInv, WholeOf,
                      AtPath, Backed, OnDrive
  <2>2. ASSUME NEW w \in Windows, Start(w) \/ Stop(w) \/ Call(w) \/ Step(w), Others(w)
        PROVE  CustodyInv'
    <3>1. NumbersInv'
      BY <1>2, <2>0, <2>2, NextKeepsNumbers
    <3>2. ImportInv'
      BY <1>2, <2>0, <2>2, NextKeepsImports
    <3>3. \A v \in Windows : WholeOf(v)'
      BY <1>2, <2>0, <2>2, ActorWhole, OthersWhole
    <3>4. WholeInv'
      BY <1>2, <2>0, <2>2, <3>3, NextKeepsWholeFiles DEF WholeInv
    <3> QED
      BY <3>1, <3>2, <3>4
  <2> QED
    BY <1>2, <2>0, <2>1, <2>2, StepOthers
<1> QED
  BY <1>1, <1>2

\* What is delivered of a container that was imported is the whole of it.
THEOREM WholeDownloads == SeparateDevices => (Spec => []DownloadIsWhole)
<1> SUFFICES ASSUME SeparateDevices PROVE Spec => []DownloadIsWhole
  OBVIOUS
<1>1. CustodyInv => DownloadIsWhole
  BY DEF CustodyInv, WholeInv, WholeOf, DownloadIsWhole
<1> QED
  BY <1>1, IndInvInductive, CustodyInvInductive, PTL DEF Spec

-----------------------------------------------------------------------------
(* Every step is a step of Custody, or moves no container.                 *)

LEMMA SamePlaces ==
    ASSUME NEW i, i \in kept' <=> i \in kept,
           i \in kept => (InVault(i)' <=> InVault(i)) /\ (OnDrive(i)' <=> OnDrive(i))
    PROVE  PlacesOf(i)' = PlacesOf(i)
  BY DEF PlacesOf

\* One container moves, the others stay.
LEMMA OneMoves ==
    ASSUME NEW i \in Ids, NEW to, PlacesOf(i)' = to,
           \A j \in Ids \ {i} : PlacesOf(j)' = PlacesOf(j)
    PROVE  Keeping!Move(i, to)
  BY DEF Keeping!Move

LEMMA NoneMoves ==
    ASSUME \A j \in Ids : PlacesOf(j)' = PlacesOf(j)
    PROVE  UNCHANGED [i \in Ids |-> PlacesOf(i)]
  OBVIOUS

\* A container leaves its path, and has no other.
LEMMA TakenOut ==
    ASSUME Types, NumbersInv, NEW d \in Devices, NEW n \in Names, NEW i \in Ids,
           vault[d][n] = i, vault' = [vault EXCEPT ![d][n] = 0]
    PROVE  /\ InVault(i) /\ ~InVault(i)'
           /\ \A j \in Ids \ {i} : InVault(j)' <=> InVault(j)
<1>0. vault \in [Devices -> [Names -> {0} \cup Ids]] /\ 0 \notin Ids
  BY DEF Types, LocalTypes, Ids
<1>1. \A c \in Devices, m \in Names :
         vault'[c][m] = IF c = d /\ m = n THEN 0 ELSE vault[c][m]
  BY <1>0
<1>2. InVault(i)
  BY DEF InVault
<1>3. ~InVault(i)'
  BY <1>0, <1>1 DEF InVault, NumbersInv
<1>4. \A j \in Ids \ {i} : InVault(j)' <=> InVault(j)
  BY <1>0, <1>1 DEF InVault
<1> QED
  BY <1>2, <1>3, <1>4

LEMMA ImportRefines ==
    ASSUME NEW w \in Windows, NEW i \in Ids, Unseen(w, i)
    PROVE  Keeping!Import(i)
<1>1. PlacesOf(i) = {"new"}
  BY DEF Unseen, PlacesOf
<1>2. PlacesOf(i)' = {"vault"}
  <2>1. i \in kept' /\ InVault(i)' /\ ~OnDrive(i)'
    BY DEF Unseen, OnDrive, driveVars
  <2> QED
    BY <2>1 DEF PlacesOf
<1>3. ASSUME NEW j \in Ids \ {i} PROVE PlacesOf(j)' = PlacesOf(j)
  <2>1. /\ j \in kept' <=> j \in kept
        /\ InVault(j)' <=> InVault(j)
        /\ OnDrive(j)' <=> OnDrive(j)
    BY DEF Unseen, OnDrive, driveVars
  <2> QED
    BY <2>1, SamePlaces
<1>4. Keeping!Move(i, {"vault"})
  BY <1>2, <1>3, OneMoves
<1>5. UNCHANGED asked
  BY DEF Unseen, driveVars
<1> QED
  BY <1>1, <1>4, <1>5 DEF Keeping!Import

LEMMA DeleteLocalRefines ==
    ASSUME Types, NumbersInv, NEW w \in Windows, NEW n \in Names, DeleteLocal(w, n)
    PROVE  Keeping!Next
<1>0. Device[w] \in Devices /\ vault[Device[w]][n] \in {0} \cup Ids
  BY DEF Devices, Types, LocalTypes
<1>1. PICK i \in Ids : i = vault[Device[w]][n]
  BY <1>0 DEF DeleteLocal
<1>2. /\ vault' = [vault EXCEPT ![Device[w]][n] = 0]
      /\ asked' = asked \cup {<<i, "vault">>}
      /\ UNCHANGED <<kept, stored>>
  BY <1>1 DEF DeleteLocal
<1>3. /\ InVault(i) /\ ~InVault(i)'
      /\ \A j \in Ids \ {i} : InVault(j)' <=> InVault(j)
  <2>1. PICK d \in Devices : d = Device[w]
    BY <1>0
  <2>2. vault[d][n] = i /\ vault' = [vault EXCEPT ![d][n] = 0]
    BY <1>1, <1>2, <2>1
  <2> QED
    BY <2>2, TakenOut
<1>4. \A j \in Ids : OnDrive(j)' <=> OnDrive(j)
  BY <1>2 DEF OnDrive
<1>5. \A j \in Ids \ {i} : PlacesOf(j)' = PlacesOf(j)
  BY <1>2, <1>3, <1>4, SamePlaces
<1>6. CASE i \in kept
  <2>1. PlacesOf(i)' = PlacesOf(i) \ {"vault"}
    BY <1>2, <1>3, <1>4, <1>6 DEF PlacesOf
  <2>2. PICK to : to = PlacesOf(i) \ {"vault"}
    OBVIOUS
  <2>3. Keeping!Move(i, to)
    BY <1>5, <2>1, <2>2, OneMoves
  <2> QED
    BY <1>2, <2>2, <2>3 DEF Keeping!Next, Keeping!Delete, Keeping!Places
<1>7. CASE i \notin kept
  <2>1. PlacesOf(i)' = PlacesOf(i)
    BY <1>2, <1>7, SamePlaces
  <2>2. UNCHANGED [j \in Ids |-> PlacesOf(j)]
    BY <1>5, <2>1, NoneMoves
  <2> QED
    BY <1>2, <2>2 DEF Keeping!Next, Keeping!Delete, Keeping!Places
<1> QED
  BY <1>6, <1>7

LEMMA RemoveLocalRefines ==
    ASSUME Types, JobShape, NumbersInv, WholeInv, NEW w \in Windows, RemoveLocal(w),
           vault' # vault
    PROVE  Keeping!Next \/ UNCHANGED Keeping!vars
<1>0. pc[w] = "remove" /\ AtPath(w) # 0
  BY DEF RemoveLocal
<1>1. Device[w] \in Devices /\ job[w].name \in Names /\ AtPath(w) \in {0} \cup Ids
  BY <1>0, PathName
<1>2. PICK i \in Ids : i = AtPath(w)
  BY <1>0, <1>1
<1>3. /\ vault' = [vault EXCEPT ![Device[w]][job[w].name] = 0]
      /\ UNCHANGED <<kept, stored, asked>>
  BY DEF RemoveLocal, driveVars
<1>4. PICK n \in Names : n = job[w].name
  BY <1>1
<1>5. /\ InVault(i) /\ ~InVault(i)'
      /\ \A j \in Ids \ {i} : InVault(j)' <=> InVault(j)
  <2>1. vault[Device[w]][n] = i /\ vault' = [vault EXCEPT ![Device[w]][n] = 0]
    BY <1>2, <1>3, <1>4 DEF AtPath
  <2> QED
    BY <1>1, <2>1, TakenOut, Zenon
<1>6. \A j \in Ids : OnDrive(j)' <=> OnDrive(j)
  BY <1>3 DEF OnDrive
<1>7. \A j \in Ids \ {i} : PlacesOf(j)' = PlacesOf(j)
  BY <1>3, <1>5, <1>6, SamePlaces
<1>8. CASE i \in kept
  <2>1. PlacesOf(i)' = PlacesOf(i) \ {"vault"}
    BY <1>3, <1>5, <1>6, <1>8 DEF PlacesOf
  <2>2. PICK to : to = PlacesOf(i) \ {"vault"}
    OBVIOUS
  <2>3. Keeping!Move(i, to)
    BY <1>7, <2>1, <2>2, OneMoves
  <2>4. Backed(i)
    BY <1>0, <1>2, <1>8 DEF WholeInv, WholeOf
  <2>5. "vault" \in PlacesOf(i) /\ ("drive" \in PlacesOf(i) \/ <<i, "drive">> \in asked)
    BY <1>5, <1>8, <2>4 DEF PlacesOf, Backed
  <2> QED
    BY <1>3, <2>2, <2>3, <2>5 DEF Keeping!Next, Keeping!Release
<1>9. CASE i \notin kept
  <2>1. PlacesOf(i)' = PlacesOf(i)
    BY <1>3, <1>9, SamePlaces
  <2> QED
    BY <1>3, <1>7, <2>1, NoneMoves DEF Keeping!vars
<1> QED
  BY <1>8, <1>9

LEMMA StoreRefines ==
    ASSUME Types, JobShape, WholeInv, NEW w \in Windows, Put(w), Stored(w)
    PROVE  Keeping!Next \/ UNCHANGED Keeping!vars
<1>0. /\ pc[w] = "put" /\ UNCHANGED <<vault, kept, asked>>
  BY DEF Put, localVars
<1>1. PICK i \in Ids : i = job[w].id
  BY <1>0 DEF JobShape, ShapeOf
<1>2. AtPath(w) = i /\ (i \in kept => job[w].size = Whole)
  BY <1>0, <1>1 DEF WholeInv, WholeOf
<1>3. PICK s \in StoredFile : s.id = i /\ s.len = job[w].size /\ stored' = stored \cup {s}
  BY <1>0, <1>1, StoredEffect
<1>4. \A j \in Ids : InVault(j)' <=> InVault(j)
  BY <1>0 DEF InVault
<1>5. \A j \in Ids \ {i} : OnDrive(j)' <=> OnDrive(j)
  BY <1>3 DEF OnDrive
<1>6. \A j \in Ids \ {i} : PlacesOf(j)' = PlacesOf(j)
  BY <1>0, <1>4, <1>5, SamePlaces
<1>7. CASE i \in kept
  <2>1. InVault(i)
    BY <1>0, <1>2, PathName DEF AtPath, InVault
  <2>2. OnDrive(i)'
    BY <1>2, <1>3, <1>7 DEF OnDrive
  <2>3. PlacesOf(i)' = {"vault", "drive"} /\ "vault" \in PlacesOf(i)
    BY <1>0, <1>4, <1>7, <2>1, <2>2 DEF PlacesOf
  <2>4. Keeping!Move(i, {"vault", "drive"})
    BY <1>6, <2>3, OneMoves
  <2> QED
    BY <1>0, <2>3, <2>4 DEF Keeping!Next, Keeping!Store
<1>8. CASE i \notin kept
  <2>1. PlacesOf(i)' = PlacesOf(i)
    BY <1>0, <1>8, SamePlaces
  <2> QED
    BY <1>0, <1>6, <2>1, NoneMoves DEF Keeping!vars
<1> QED
  BY <1>7, <1>8

LEMMA SendDeleteRefines ==
    ASSUME Types, FilesInv, NEW w \in Windows, SendDelete(w)
    PROVE  Keeping!Next \/ UNCHANGED Keeping!vars
<1>0. UNCHANGED <<vault, kept>>
  BY DEF SendDelete, localVars
<1>1. CASE UNCHANGED <<stored, asked>>
  <2>1. \A j \in Ids : PlacesOf(j)' = PlacesOf(j)
    BY <1>0, <1>1 DEF PlacesOf, InVault, OnDrive
  <2> QED
    BY <1>1, <2>1, NoneMoves DEF Keeping!vars
<1>2. CASE /\ Gone(w) # {} /\ stored' = stored \ Gone(w)
           /\ asked' = asked \cup {<<s.id, "drive">> : s \in Gone(w)}
  <2>1. PICK s \in stored : Gone(w) = {s}
    BY <1>2 DEF Gone, FilesInv
  <2>2. PICK i \in Ids : i = s.id
    BY DEF Types, DriveTypes, StoredFile
  <2>3. stored' = stored \ {s} /\ asked' = asked \cup {<<i, "drive">>}
    BY <1>2, <2>1, <2>2
  <2>4. \A j \in Ids : InVault(j)' <=> InVault(j)
    BY <1>0 DEF InVault
  <2>5. \A j \in Ids \ {i} : OnDrive(j)' <=> OnDrive(j)
    BY <2>2, <2>3 DEF OnDrive
  <2>6. \A j \in Ids \ {i} : PlacesOf(j)' = PlacesOf(j)
    BY <1>0, <2>4, <2>5, SamePlaces
  <2>7. CASE PlacesOf(i)' = PlacesOf(i)
    <3>1. UNCHANGED [j \in Ids |-> PlacesOf(j)]
      BY <2>6, <2>7, NoneMoves
    <3> QED
      BY <2>3, <3>1 DEF Keeping!Next, Keeping!Delete, Keeping!Places
  <2>8. CASE i \in kept /\ OnDrive(i) /\ ~OnDrive(i)'
    <3>1. PlacesOf(i)' = PlacesOf(i) \ {"drive"}
      BY <1>0, <2>4, <2>8 DEF PlacesOf
    <3>2. PICK to : to = PlacesOf(i) \ {"drive"}
      OBVIOUS
    <3>3. Keeping!Move(i, to)
      BY <2>6, <3>1, <3>2, OneMoves
    <3> QED
      BY <2>3, <3>2, <3>3 DEF Keeping!Next, Keeping!Delete, Keeping!Places
  <2>9. OnDrive(i)' => OnDrive(i)
    BY <2>3 DEF OnDrive
  <2> QED
    BY <1>0, <2>4, <2>7, <2>8, <2>9, SamePlaces
<1> QED
  BY <1>1, <1>2 DEF SendDelete

\* An import that begins hides nothing.
LEMMA BegunRefines ==
    ASSUME Types, NumbersInv, NEW w \in Windows, NEW n \in Names, ImportStart(w, n),
           kept' = kept
    PROVE  UNCHANGED Keeping!vars
<1>0. /\ vault \in [Devices -> [Names -> {0} \cup Ids]] /\ imported \in Nat
      /\ Device[w] \in Devices /\ Ids \subseteq Nat /\ 0 \notin Ids
  BY DEF Types, LocalTypes, Devices, Ids
<1>1. /\ vault' = [vault EXCEPT ![Device[w]][n] = imported + 1]
      /\ vault[Device[w]][n] = 0 /\ UNCHANGED <<stored, asked>>
  BY DEF ImportStart, driveVars
<1>2. \A d \in Devices, m \in Names :
         vault'[d][m] = IF d = Device[w] /\ m = n THEN imported + 1 ELSE vault[d][m]
  BY <1>0, <1>1
<1>3. ASSUME NEW j \in Ids PROVE PlacesOf(j)' = PlacesOf(j)
  <2>1. CASE j \in kept
    <3>1. j # 0 /\ j # imported + 1
      BY <1>0, <2>1 DEF NumbersInv
    <3>2. InVault(j)' <=> InVault(j)
      BY <1>0, <1>1, <1>2, <3>1 DEF InVault
    <3>3. OnDrive(j)' <=> OnDrive(j)
      BY <1>1 DEF OnDrive
    <3> QED
      BY <3>2, <3>3, SamePlaces
  <2>2. CASE j \notin kept
    BY <2>2, SamePlaces
  <2> QED
    BY <2>1, <2>2
<1> QED
  BY <1>1, <1>3, NoneMoves DEF Keeping!vars

LEMMA StepRefines ==
    ASSUME SeparateDevices, IndInv, CustodyInv, [Next]_vars
    PROVE  [Keeping!Next]_(Keeping!vars)
<1>0. Types /\ JobShape /\ FilesInv /\ NumbersInv /\ ImportInv /\ WholeInv
  BY DEF IndInv, CustodyInv
<1>1. ASSUME UNCHANGED <<vault, kept, stored, asked>>
      PROVE  UNCHANGED Keeping!vars
  <2>1. \A j \in Ids : PlacesOf(j)' = PlacesOf(j)
    BY <1>1 DEF PlacesOf, InVault, OnDrive
  <2> QED
    BY <1>1, <2>1, NoneMoves DEF Keeping!vars
<1>2. CASE UNCHANGED vars
  BY <1>1, <1>2 DEF vars, localVars, driveVars
<1>3. ASSUME NEW w \in Windows, Start(w) \/ Stop(w) \/ Call(w) \/ Step(w)
      PROVE  Keeping!Next \/ UNCHANGED Keeping!vars
  <2>1. CASE \E i \in Ids : Unseen(w, i)
    BY <2>1, ImportRefines DEF Keeping!Next
  <2>2. CASE kept' = kept
    <3>1. CASE \E n \in Names : ImportStart(w, n)
      BY <1>0, <2>2, <3>1, BegunRefines
    <3>2. CASE \E n \in Names : DeleteLocal(w, n)
      BY <1>0, <3>2, DeleteLocalRefines
    <3>3. CASE ImportWrite(w) \/ ImportEnds(w)
      BY <1>1, <2>2, <3>3 DEF ImportWrite, ImportEnds, driveVars
    <3>4. CASE RemoveLocal(w)
      <4>1. CASE vault' = vault
        BY <1>1, <3>4, <4>1 DEF RemoveLocal, driveVars
      <4> QED
        BY <1>0, <3>4, <4>1, RemoveLocalRefines
    <3>5. CASE Put(w)
      <4>1. CASE UNCHANGED <<stored, files>>
        BY <1>1, <3>5, <4>1 DEF Put, localVars
      <4> QED
        BY <1>0, <3>5, <4>1, StoreRefines DEF Put
    <3>6. CASE SendDelete(w)
      BY <1>0, <3>6, SendDeleteRefines
    <3>7. CASE UNCHANGED localVars /\ (UNCHANGED driveVars \/ CreateFolder(w))
      BY <1>1, <3>7 DEF localVars, driveVars, CreateFolder
    <3> QED
      BY <1>3, <3>1, <3>2, <3>3, <3>4, <3>5, <3>6, <3>7, LocalSteps, DriveSteps
  <2> QED
    BY <1>0, <1>3, <2>1, <2>2, KeptEffect
<1> QED
  BY <1>2, <1>3 DEF Next

\* With one window on each device, whatever fails and whatever is lost on the
\* way: a container leaves the vault only when the Drive has all of it, or
\* because the user asked for it.
THEOREM CustodyKept == SeparateDevices => (Spec => ImplementsCustody)
<1> SUFFICES ASSUME SeparateDevices PROVE Spec => ImplementsCustody
  OBVIOUS
<1>1. Init => Keeping!Init
  BY DEF Init, Keeping!Init, PlacesOf
<1>2. IndInv /\ CustodyInv /\ [Next]_vars => [Keeping!Next]_(Keeping!vars)
  BY StepRefines
<1> QED
  BY <1>1, <1>2, IndInvInductive, CustodyInvInductive, PTL DEF Spec, ImplementsCustody, Keeping!Spec

\* With one window on each device no container is lost that nobody deleted:
\* what NothingLost suffers from is a second window on the same vault.
THEOREM NothingLostApart == SeparateDevices => (Spec => []NothingLost)
<1> SUFFICES ASSUME SeparateDevices PROVE Spec => []NothingLost
  OBVIOUS
<1> DEFINE Asked(i) == \E p \in {"vault", "drive"} : <<i, p>> \in asked
           Somewhere == \A i \in Ids : PlacesOf(i) = {} => Asked(i)
<1>1. Init => Somewhere
  BY DEF Init, PlacesOf
<1>2. ASSUME Somewhere, [Keeping!Next]_(Keeping!vars) PROVE Somewhere'
  <2>0. asked \subseteq asked'
    BY <1>2 DEF Keeping!vars, Keeping!Next, Keeping!Import, Keeping!Store,
                Keeping!Release, Keeping!Delete
  <2>1. ASSUME NEW i \in Ids, PlacesOf(i)' = PlacesOf(i)
        PROVE  (PlacesOf(i) = {} => Asked(i))'
    BY <1>2, <2>0, <2>1
  <2>2. ASSUME NEW i \in Ids, NEW to, Keeping!Move(i, to), to = {} => Asked(i)'
        PROVE  Somewhere'
    <3>1. PlacesOf(i)' = to /\ \A j \in Ids \ {i} : PlacesOf(j)' = PlacesOf(j)
      BY <2>2 DEF Keeping!Move
    <3> QED
      BY <2>1, <2>2, <3>1
  <2>3. CASE UNCHANGED Keeping!vars
    <3>1. \A i \in Ids : PlacesOf(i)' = PlacesOf(i)
      BY <2>3 DEF Keeping!vars
    <3> QED
      BY <2>1, <3>1
  <2>4. ASSUME NEW i \in Ids, Keeping!Import(i) \/ Keeping!Store(i)
        PROVE  Somewhere'
    BY <2>2, <2>4 DEF Keeping!Import, Keeping!Store
  <2>5. ASSUME NEW i \in Ids, Keeping!Release(i)
        PROVE  Somewhere'
    <3>1. PICK to : to = PlacesOf(i) \ {"vault"}
      OBVIOUS
    <3>2. Keeping!Move(i, to) /\ ("drive" \in to \/ <<i, "drive">> \in asked')
      BY <2>5, <3>1 DEF Keeping!Release
    <3> QED
      BY <2>2, <3>2
  <2>6. ASSUME NEW i \in Ids, NEW p \in {"vault", "drive"}, Keeping!Delete(i, p)
        PROVE  Somewhere'
    <3>1. Asked(i)'
      BY <2>6 DEF Keeping!Delete
    <3>2. PICK to : to = PlacesOf(i) \ {p}
      OBVIOUS
    <3>3. CASE Keeping!Move(i, to)
      BY <2>2, <3>1, <3>3
    <3>4. CASE UNCHANGED [j \in Ids |-> PlacesOf(j)]
      <4>1. \A j \in Ids : PlacesOf(j)' = PlacesOf(j)
        BY <3>4
      <4> QED
        BY <2>1, <4>1
    <3> QED
      BY <2>6, <3>2, <3>3, <3>4 DEF Keeping!Delete
  <2> QED
    BY <1>2, <2>3, <2>4, <2>5, <2>6 DEF Keeping!Next, Keeping!Places
<1>3. IndInv /\ CustodyInv /\ Somewhere /\ [Next]_vars => Somewhere'
  BY <1>2, StepRefines
<1>4. IndInv /\ Somewhere => NothingLost
  BY DEF IndInv, Types, LocalTypes, NothingLost
<1> HIDE DEF Somewhere
<1> QED
  BY <1>1, <1>3, <1>4, IndInvInductive, CustodyInvInductive, PTL DEF Spec
=============================================================================
