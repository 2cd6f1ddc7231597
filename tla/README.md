# Specifications of FCLOAK

TLA+ specifications of the FCLOAK file-encryption workspace
(`crates/fcloak-core`, `apps/fcloak-gui`, `apps/fcloak-cli`), their TLC
configurations, and theorems checked by TLAPS. Paths below are relative to the
repository; `streaming.rs` and its neighbours are in
`crates/fcloak-core/src/`, `vault.rs`, `drive.rs`, `oauth.rs` and the GUI's
`main.rs` in `apps/fcloak-gui/src/`.

## 1. The system

| Part | State it keeps | Operations | Uses |
|---|---|---|---|
| Chunked stream (`streaming.rs`) | indices, totals, a buffer of one chunk | `encrypt_stream`, `decrypt_stream` | AEAD, a reader, a writer |
| Containers (`format.rs`, `container.rs`, `crypto.rs`, `keys.rs`) | none; values and bytes | headers v1 and v2, encode/decode, wrap and unwrap the file key, seal and open | Argon2, AES-GCM, random numbers |
| File operations (`file.rs`, `streaming_container.rs`) | files on disk: input, output, `.name.fcloak-tmp` | `encrypt_file`, `decrypt_file`, `encrypt_file_streaming`, `decrypt_file_streaming` | the two parts above |
| Vault (`vault.rs`) | `vault.conf`, a directory of `*.fcloak` | initialise, verify, import, export, delete, list | file operations |
| GUI (`main.rs`) | lock state, session password, lists and selections, status, inactivity clock, Drive client | handlers run to completion on the drawing thread | vault, Drive, OAuth |
| OAuth session (`oauth.rs`) | access and refresh token, expiry, saved credential | restore, refresh, sign in through a loopback listener, disconnect | Google, the credential store, a browser |
| Drive client (`drive.rs`) | none here; a folder and files at Google | find or make the folder, list pages, upload, download, delete | HTTP |
| CLI (`apps/fcloak-cli/src/main.rs`) | none | `encrypt`, `decrypt` | file operations |

Components call each other synchronously; there are no threads. What makes the
system concurrent is that nothing locks anything: the CLI and any number of GUI
windows work on the same directories, and all of them on the same Drive folder
and saved credential. Hard behaviour:

* **Interleaving of processes** on one output, one temporary name, one vault
  directory, one `vault.conf`: every check (`exists`, `is_file`,
  `is_initialized`) is followed, some system calls later, by the use of its
  answer.
* **Failure and crash** between any two system calls: a container half written
  in place, a temporary file left behind, a verifier created but not written.
* **Reading what is being written**: a stream that ends where the file happens
  to end; a path opened twice by `decrypt_file`.
* **Damaged storage**: chunks lost, repeated, exchanged; headers changed.
* **Arithmetic at its limits**: 64-bit counters of chunks, nonces and bytes;
  chunk sizes 0 and one too many; short reads.
* **Stale views** in the GUI: lists, selections and tokens kept from before.

What makes each part correct: *stream* - no nonce is used twice under one key,
nothing unauthenticated or out of place is ever written out, a successful
encryption is complete and decrypts to its input. *Containers* - a plaintext
comes from one container only, made under the password given, whatever was
done to the bytes or the path. *File operations* - the output path shows whole
files only, and Ok means that the new one is there. *Vault* - one password per
vault; what was imported stays until deleted. *Drive* - a container leaves the
vault only once the Drive has all of it, and what comes back is whole. *OAuth* -
tokens handed out are good past their margin or given up soon, memory and
credential store agree, and only a disconnect gives a session up. *GUI* - the vault locks after five idle minutes,
not earlier, and no selection points outside its list.

## 2. Modules

| Module | Models | Checked through |
|---|---|---|
| `PrefixRelease` | what a caller of a streaming decryption may rely on (abstract) | `Streaming` |
| `Streaming` | `streaming.rs` | `MCStreaming`, `StreamingProofs`, `StreamingResults` |
| `AtomicOutput` | what producing a file means to whoever looks at the path (abstract) | `OutputFile` |
| `OutputFile` | the file operations, system call by system call, called by windows or commands | `MCOutputFile`, `OutputFileProofs` |
| `Archive` | what encrypting and decrypting under passwords means to the user (abstract) | `Container` |
| `Container` | the formats, keys and AEAD, and `decrypt_file` | `MCContainer`, `ContainerProofs` |
| `Safe` | what a vault means to its user (abstract) | `Vault` |
| `Vault` | `vault.rs` and the GUI windows that use it | `MCVault`, `VaultProofs`, `SafeProofs` |
| `Custody` | where a container may be, and when it may leave (abstract) | `Drive` |
| `Drive` | `drive.rs` and the handlers that call it, with vaults and the Drive | `MCDrive`, `DriveProofs` |
| `Account` | what signing in at Google means to the user of a window (abstract) | `Session` |
| `Session` | `oauth.rs`, the inactivity timer, and the thread both run on | `MCSession`, `SessionProofs` |

Each concrete module stands on what the one before it established, and says so:
`Container` treats a chunk as one part, because `Streaming` shows that a chunk
goes out whole and in place; `Vault` lets the container of `encrypt_file` appear
in one step, because `OutputFile` implements `AtomicOutput`; `Drive` takes a
container for a number and a length, and export for a step that fails or not.

**Streaming.** One `encrypt_stream` and one `decrypt_stream` on one stored
stream. `enc_pc` and `dec_pc` are the places in the two loops; there is one
action per I/O call and per way it can end (`EncRead`, `EncWritePrefix`,
`EncWriteBody`, `DecChunk`, `DecTorn`, ...). A read returns any length the
`Read` trait allows. Ciphertexts are positions in the history `sealed` and open
exactly under the key, nonce and associated data they were made with. The stored
stream is a sequence of records and possibly a torn one; `Damage` rearranges,
cuts or rewrites it. `Add64` is modulo `U64Max + 1`, and `checked_add` is
`CheckedAddFails`. Counters advance after the write, as in the code, so the
overflow of a total fails with the record already stored.

**OutputFile.** A directory from names to inodes, inodes with data, handles with
offsets, so a file that was renamed or truncated by another process can go on
being written. Each operation is the sequence of its system calls: prepare
(everything before the first change), check for and remove a stale temporary
file, create, write block by block, close, rename, clean up. Every call can fail
and every process can die between two. `Kind[p]` picks the function. The
processes in `Cli` are the command line tool, which refuses an output that
exists (`Refused`; `Path::exists` also says no when it cannot tell, so the tool
may go on) and asks for passwords (`Prompt`) before it calls the function. `AtomicOutput` tells the outputs written through a temporary file,
which change once and with a success, from those written in place. `Exclusive`
is an assumption of some runs, not of the code: no two operations share a
temporary name at the same time.

**Container.** A stored container is the sequence of its parts. Random values
of the k-th container are named k. `Damage` changes a header field, the bits of
another part, cuts the end, or puts the parts of another container from some
place on. `decrypt_file` is modelled as what it is: a read of the prefix, then
a second open of the path (whole for v1, piece by piece for v2), while
`EncryptStandard` replaces the file and `EncryptStreaming` truncates and rewrites
it; any open, read or write of the decryption can fail (`DecIoFails`). Key
derivation ignores the header's parameters, as `derive_key` does; the
layout of the bytes is not a field and cannot be changed by changing the version.
For `Archive` a container made is a file of so many pieces under a password
(`made`), and what a decryption has yielded is `out`.

**Vault.** Windows, each with its lock state, session password, list and
selection; `vault.conf` is absent, "partial" (created, not written) or a
verifier. Import is the check for the name, then either the one-step
appearance of `encrypt_file` or the creation and the writes of
`encrypt_file_streaming`, which follow the inode (`linked`) and not the name; it
can fail between any two of them, after the last one too. Export reads the
container in one step (the reads one by one are in `Container`), then renames; a failed export removes the destination, as
`export_local` does. `Stop` ends a window at any point. `Exclusive` is again an
assumption: a name that one window is importing, no other imports or deletes
(`Taken`); `vault_race` shows what happens without it. `Listing` is what
`list_files` returns: the names in the directory, in their order (`NameOrder`).
For `Safe` the vault's password is the one that the verifier accepts (`Key`), its
users are the unlocked windows (`Users`), and a name holds a file once every
piece of its container is there (`Files`); an import in progress is not in the
vault yet, whatever the directory shows.

**Drive.** Windows on one or several devices, a vault per device and one Drive
with its folders and files. `pc[w]` is the request or file operation a window is
at and `job[w]` the locals of its handler: `upload_selected_to_drive` is
`UploadStart`, `Lookup`, `CreateFolder`, `Measure`, `Open`, `Put`, `RemoveLocal`,
then the steps of `refresh_drive`. A request that changes the Drive is refused,
or done, or done with its answer lost. A listing is a loop over pages, and files
come and go between two of them. `Put` sends the first `size` parts of the file
that was open; `RemoveLocal` removes whatever has the path. Downloads go through
a temporary file, and `download_and_decrypt_drive` through a second one; what is
still to be removed is in `temporaries`. `places` and `asked` of `Custody` are
computed from vaults and Drive (`PlacesOf`).

**Session.** One window, time in ticks, and one thread: `pc` is "free" between
frames and otherwise the call the thread is in - a file dialog, an operation, a
token request, the sign-in's `accept` and `read_to_end`. `Frame` sees the events
first and then the timer, as `update_activity_timer` does; `Input` can come at
any moment, also while nothing is drawn. `RefreshOk` and `RefreshFails` are
`refresh_access_token`, which may rotate the refresh token and fail to save it;
`Restore`, `AccessToken` and `Exchange` are its three callers and differ in what
a failure leaves. `delete_refresh_token` ignores a store that refuses. `Account`
sees of all this whether the vault is open, the refresh token in memory, the one
in the store, and how many were issued.

## 3. Runs

| Run | Question | Answer |
|---|---|---|
| `stream` | what do both calls do for every chunk size, with short reads, damage, an early reader and counters at their limit? | they return, after a number of steps that nothing adds to; a success is complete and readable; nonces differ, and none comes by wrapping; only authenticated bytes, in their place, come out |
| `stream_truncated` | is a stream that lost its last chunks refused? | **no**, see findings |
| `out_files` | a window, a command in place and a command through a temporary file on one output, one at a time, with failures and crashes | an output changes with a success only (in place: shows beginnings only); nothing is left behind |
| `out_shared` | two outputs with one temporary name, unsynchronised | no output vanishes, all operations return, within a fixed number of calls |
| `out_race` | two processes, one output | **a file still being written becomes visible** |
| `container` | replacing, rewriting and damage around `decrypt_file` | the plaintext is the beginning of one file under that password, comes in order and is never taken back |
| `vault` | two windows set up, unlock, import, export, delete and die | one password; imports stay whole and export to the original; selections stay within their lists; every step is one of `Safe` |
| `vault_race` | two windows import one name | **the second destroys the first** |
| `drive` | a window on each of two devices; requests fail, answers are lost, windows die | containers leave a vault only for a whole copy; a refresh shows all that stayed; at most one folder per window; downloads whole, temporary files removed |
| `upload_race` | two windows on one device | **an upload removes a container the Drive has not** |
| `session` | tokens of four lifetimes, rotation, a failing store, handlers that block | locked in time, never early, in the end always; tokens good past the margin, or short ones given up in time; store and memory agree; only a disconnect gives a saved session up |
| `session_left` | the user leaves a sign-in or a dialog unanswered | **the vault never locks** |

Six of the runs' properties are refinements: `ImplementsPrefixRelease`,
`ImplementsAtomicOutput`, `ImplementsArchive`, `ImplementsSafe`,
`ImplementsCustody` and `ImplementsAccount`. Every concrete module so has an
abstract one that says in a page what it is for.

Every property of a passing run has a mutant: a variation of one definition, kept
next to it under a comment that begins with "Bug:", with which TLC finds the
property violated under the same configuration.

### Bounds

* *Streaming*: 3 units of plaintext, chunks of 1 and 2, so there are full, short,
  first, middle and last chunks; `U64Max` is 3, so that the input exactly fills a
  u64 and a base nonce whose counter starts at 2 overflows on the third chunk.
  The total never overflows here: `EncryptOkIsComplete` is checked without that
  case and proved with it, below. One damage may permute and repeat all records at once.
* *OutputFile*: three processes and two operations each (two and one without
  `Exclusive`): a failed or dead operation and its successors, and every pair of
  racing ones. Two blocks make "not whole" possible; `out_shared` needs no
  partial file and has one. Under `Exclusive` at most the output's inode and the
  temporary file's are in use at once, so `out_files` has two; they are
  interchangeable, which it uses as a symmetry. The races have four, which are
  never all in use in a way that blocks a creation.
* *Container*: two containers are what splicing and replacing need, two chunks
  tell order; one damage, since the properties are about what a single fault
  can do to a path that is also rewritten. 4 and 1 stand for 4 MiB and 1 MiB.
* *Vault*: two windows, two names of three sources, two of them equal; two
  passwords; a streaming container of three pieces. Windows and passwords are
  interchangeable. `kept` follows a name until it is deleted, whoever wrote it,
  so three sources are enough for a replaced and a second import.
* *Drive*: in `drive` one import, two files on the Drive (the upload that was
  repeated after a lost answer), pages of one file, containers of two parts (one
  that is half written, half received). In `upload_race` two imports under one
  name. A request whose client has given up takes effect before the client goes
  on, not later; `FoldersBounded` depends on that. Temporary files of a window
  that died belong to nobody; `download_file` removes one it finds under its own
  name only.
* *Session*: a tick is a quarter of a minute: the margin of a token is four, and
  the half minute that the code grants to a shorter one is two. Five minutes are
  scaled to five ticks, which still exceed the margin. Tokens live for one tick
  (less than they are granted), two, four (exactly the margin) and six. Three
  refresh tokens allow two rotations; eight events are enough to unlock, work,
  lock and start again, and after the last one the user has left.

Runs set `CHECK_DEADLOCK FALSE` where the system really stops: both calls have
returned, attempts, containers or events are used up, or all windows are closed
for good with no file left to work on.

### Fairness

`Streaming!FairSpec` has weak fairness of the next step of each loop, and
`OutputFile!FairSpec` of the next step of each process: both are straight-line
code over blocking calls on local files, and an operating system that runs the
process at all completes them. `Session!FairSpec` lets time pass and the thread
go on: `request_repaint_after` makes the event loop draw within a second, file
operations return, and requests have the default timeout of reqwest's blocking
client. What waits for the user or the browser has no limit in the code and is
fair only in `CooperativeSpec`; `session` shows that `AutoLock` holds with it, `session_left`
that it fails without. Damage, crashes, failures, events and new calls are never
fair. No liveness is claimed of `Container`, `Vault` and `Drive`; the handlers of
`Drive` are straight-line code but for the pages of a listing, which end when the
service says so.

## 4. Proofs

`StreamingProofs` proves, for every input length, chunk size, counter width, set
of keys and nonces and number of damages (assumption `StreamingAssumption`):

* `TypeCorrect`: `TypeOK`; in particular every counter stays a u64;
* `NoncesUnique`: `NonceUnique`, that is, one prefix and growing counters;
* `OutputIsPrefix`: `ReleasedIsPrefix`;
* `PrefixReleaseImplemented`: `Spec` implies `PrefixRelease!Spec` under the
  refinement mapping of `Streaming`.

None of these is inductive. `IInv` adds to the types: `WriterInv` - the k-th
sealed ciphertext has nonce "counter of the base nonce + k - 1", associated data
of chunk k - 1 and begins where the one before ended, and the writer's index
agrees with how many there are (one fewer between sealing and storing);
`StreamInv` - records hold only ciphertexts that were really sealed; `ReaderInv` -
what went out ends where the chunk before `expected_index` ended. The heart is
the lemma `AcceptedIsNext`: a record that the reader accepts, under whichever key
and after whatever damage, is the next chunk of the input, because its nonce and
associated data determine its position (`Add64Exact`: no wrap-around was let
through). `NextKeepsIInv` has one lemma per action that touches more than one
conjunct.

`StreamingResults` builds on it, under the same assumption, and proves what the
results of the two calls mean:

* `EncryptOkComplete`: `EncryptOkIsComplete`;
* `DecryptOkMeans`: `OkMeansUndamagedPrefix`;
* `RightKey`: `OnlyTheRightKeyOpens`;
* `StreamRoundTrip`: `RoundTrip`;
* `CallsEnd`: `CallsRunOut`, the safety half of `BothReturn`.

`CountInv` ties the writer's total to the end of the last chunk written;
`StoredInv` says that an undamaged stream holds the records of the ciphertexts in
their order, all but the last while that one is written; `ReadInv` that the
records read are those written there, for as long as the reader has not failed.
The latter survives a writer still at work, which only appends (`SealedStays`),
and damage, which comes before the reading. A refusal of a good stream is
excluded by `WrittenIsAccepted`, the converse of `AcceptedIsNext`, and
`NextIsTaken`: the reader's counters stay below those that the writer reached
without an overflow. `CallsEnd` gives each call a number of steps that it has left
(`EncLeft`, `DecLeft`) and shows that each of its steps takes from it and nothing
else adds to it; it needs `ReadInv`, because the records left to read are counted
from `cursor`, and counts a chunk that is read, sealed or stored only once, so
that a writer still at work cannot keep the reader going.

`SessionProofs` proves, for every limit, margin, set of lifetimes and number of
sign-ins and events (assumption `SessionAssumption`):

* `TypeCorrect`: `TypeOK`; in particular both tokens are there or neither;
* `VaultLocksInTime`: `LockedInTime`, and `NoEarlyLock`: `NotLockedEarly`;
* `SessionSaved`: `SessionIsSaved`;
* `TokensAreGood`: `TokenLasts`. Nothing is assumed of the lifetimes: a token
  issued for less than half a minute is over while the code still hands it out,
  and the theorem says for how long that may go on;
* `AccountImplemented`: `Spec` implies `Account!Spec`.

Its `IInv` adds three things. `LockInv`: while the window is unlocked, the code's
timer and the user's idle time are the same, and if no second has passed since
the last frame that time is below the limit - so a handler may block for as long
as it likes, but the second that passes makes a frame due before anything else is
clicked. `SessionIsSaved` itself: a refresh starts from the saved token, so that
both branches of `refresh_access_token` end with memory and store equal.
`TokenInv`: the age of a token that is not given up and what is left of `expires`
add up to its lifetime without the margin, or to the half minute if it never had
the margin. For the refinement `SignInInv` adds that a sign-in is
under way only in an unlocked window without a session - the thread that waits
for the browser is the one that would lock it - and that a window being started
has none; each answer to a renewal is then a `Replace`, a `Resume` or a `Lose` of
`Account` (`RefreshOkSteps`, `RefreshFailsSteps`).

`OutputFileProofs` proves, for every set of processes, paths and inodes, every
length of the files and number of operations (assumption `OutputFileAssumption`):

* `TypeCorrect`: `TypeOK`; `NeverVanishes`: `OutputNeverVanishes`; `OperationsEnd`:
  `OperationsRunOut`, the safety half of `OperationsReturn`;
* `WholeFiles`: `OnlyWholeFilesVisible`; `NothingLeft`: `NothingLeftBehind`;
  `OkInstalls`: `OkMeansInstalled`; `AtomicOutputImplemented`: `Spec` implies
  `Atomic!Spec`. These four assume `Exclusive`, as in the run `out_files`; `out_race`
  shows that the first of them needs it.

`OperationsEnd` needs types only: `CallUsed` shows that every call of an operation,
failed ones included, takes from the number of calls it has left, and
`OtherProcess` that nobody else changes that number. `NamesInv` (an inode has one name) and `ApartInv` (what runs at once has different
temporary paths, hence different outputs) make `WriteInv` inductive: an open
handle is the inode at the operation's target, and holds exactly what the
operation has written. A step then leaves every path alone but its target, the
temporary path it removes and the output it renames to (`Untouched`). `BlocksInv`
dates the blocks: none is of an operation that has not begun, so that a temporary
file found on disk holds none of the operation that finds it (`LeftInv`).

`VaultProofs` proves, for every set of windows, passwords, sources and names and
every length of a streaming container (assumption `VaultAssumption`):

* `TypeCorrect`: `TypeOK`; `OnePassword`: `OnePasswordPerVault`;
* `ListingShowsVault`: `Listing` is a sequence of exactly the names in the vault;
  `SelectionsListed`: `SelectionIsListed`, with any interference of other windows;
* `ImportsStay`: `ImportedStays`, and `ExportsMatch`: `ExportMatchesImport`, both if
  `Exclusive`, as in the run `vault`; `vault_race` shows that they need it.

`VerifierInv` says that one window at most is between creating and writing
`vault.conf`, and that nobody has a session before it is written; every change of
the vault adds pieces under the session password of its window or removes a file
(`DirStep`), so `PiecesInv` follows. For the imports, `ImportInv`: no two windows
import under one name, a name stays new until its file is created, and from then
on the file is exactly what its window has written. A step of a window disturbs
one name only (`OneName`), which is nobody else's and none that is kept.

`Listing` is recursive, and the library's induction theorems cannot be
instantiated here. `SetInduction` replaces them: a set of numbers that contains 0
and with each number the next one contains all, because the order on the numbers
is well-founded and a set without some number would lack a least one. The
recursive definition exists (`ListingExists`) and lists, up to each place of
`NameOrder`, the names there that are in the vault (`ListingUpto`).

`SafeProofs` proves `SafeImplemented`: `Spec` implies `Safe!Spec`, if `Exclusive`. Its
invariant `SafeInv` joins that of `VaultProofs` with the types of the lists and of
what is being exported. The argument is that three kinds of step change what the
vault holds for its user - the one that adds the last piece of a container, which
is `Store`; the removal of a selected file, which is `Remove`; and the writing of
the verifier, which is `Setup` - and that all others, the pieces before the last,
the remains of a failed import and the steps of windows that die, leave the
containers that are whole as they are.

`DriveProofs` proves, for every set of windows, devices and names, page size,
length and number of containers and files (assumption `DriveAssumption`):

* `TypeCorrect`: `TypeOK`; `NoTemporariesLeft`: `TemporariesRemoved`;
* `ListingsComplete`: `ListsWhatStays`;
* `FewFolders`: `FoldersBounded`, if the windows are finitely many;
* `CustodyKept`: `Spec` implies `Custody!Spec`; `NothingLostApart`: `NothingLost`;
  `WholeDownloads`: `DownloadIsWhole`. These three assume `SeparateDevices`, one
  window on each device, as in the run `drive`; `upload_race` shows that the
  second of them needs it.

The argument has two invariants. `IndInv`: a handler's locals fit the place it is
at (`ShapeOf`); a listing has found, or still finds in its folder, all that was
there since it began (`ListingOf`), however others add and delete between two
pages; `FolderInv` joins it for the folders: once there is one, no window joins
those that decided to create one. `CustodyInv`: numbers are given once and a
container has one path (`NumbersInv`); nobody else has seen a container that is
being written (`ImportInv`); and what a handler has in its hands is whole at each
place it is at (`WholeOf`) - the size measured is that of the file opened, the
file opened is the one at the path when the answer comes, and when the path is
removed the Drive has it, or had it until the user deleted it. A step is then one
of `Custody` by the lemma of its action (`ImportRefines`, `StoreRefines`,
`RemoveLocalRefines`, `DeleteLocalRefines`, `SendDeleteRefines`), and all others
move nothing (`LocalSteps`, `DriveSteps`).

**ContainerProofs**, from `ContainerAssumption` (the bounds are numbers, the chunk
sizes not 0, and the UTF-8 passwords are passwords): `TypeCorrect`;
`OutputOfOne`: `OutputIsOfOneContainer`; `OkUnmodified`: `OkMeansUnmodified`
(its two parts, one for each format, are `StandardUnmodified` and
`StreamingUnmodified`); `ContainerRoundTrip`: `RoundTrip`; `ArchiveImplemented`: `Spec` implies
`Archive!Spec`.

None of these is inductive. `StoreInv` says what bytes can be stored: they are
`Genuine`, that is, every part but the header is the one that some container has
at that place, or one that no longer authenticates (`DamagedGenuine`, one lemma for
each kind of damage; `StoreInvKept`). A header may hold anything. So a wrapped key
that opens names its container, which was made under the password given
(`IntactWrap`), and a ciphertext that opens under that key is that container's at
that place (`IntactSeal`), even when the file behind the handle has been rewritten
since the key was read: `StreamRead` and `WholeRead` keep this, step by step
(`WrappedReads`, `ChunkReads`, `StandardReads`). A v1 ciphertext is no chunk,
because their nonces differ in length (`NonceLengths`). For the round trip
`TripInv` says that an undisturbed call sees, through each of its handles, what
was stored when it began; every check then succeeds on a container as it was made
(`HeaderDecodes`, `WrapOpens`, `StandardOpens`, `ChunkOpens`), and a container made
during the call is never the one it was called on (`NewNotTripped`). For `Archive`,
`PieceTexts` reads off the containers made which piece of their file each part
carries, so that `StreamRead`, before and after a step, says that what is yielded
is from the file whose key was unwrapped (`StreamFrom`, `ReadingIsDelivering`).

Only proved: three properties that no run lists, since a property of the same run
says more or they follow from it. `ReleasedIsPrefix` follows from
`PrefixRelease!Spec`, and `SessionIsSaved` from `Account!Spec`.
`OnlyTheRightKeyOpens` is, per decryption, what `OutputIsOfOneContainer` says of
whole containers.

Only model-checked: the three liveness properties `BothReturn`, `OperationsReturn`
and `AutoLock`. From fairness they need that a step is enabled, which the prover
does not know, and an induction over the steps that are left. What is proved of
them is the part without fairness: `CallsRunOut` and `OperationsRunOut` bound the
steps, and `LockedInTime` says that a thread that comes to look at the timer locks
in time. Every invariant and every action property of a passing run is stated by
a theorem. A theorem that assumes `Exclusive` or `SeparateDevices` is about the
system used like that; the findings `out_race`, `vault_race` and `upload_race` are
what happens otherwise.

## 5. Findings

1. `stream_truncated`: a v2 stream does not record where it ends. A container
   cut exactly between two chunks decrypts with Ok to part of the file; the
   test on truncation cuts inside a chunk.
2. `out_race`: the temporary name depends on the output only, and a file found
   there is taken for stale. Two processes on one output can expose a file that
   is still being written.
3. `vault_race`: the check for an existing name does not hold until the
   container is in place.
4. `upload_race`: an upload measures, opens and finally removes a path three
   times. If another window replaces the container, or is still writing it,
   what is removed at the end is not what the Drive has confirmed.
5. `session_left`: the five-minute lock is looked at by the thread that also
   waits for file dialogs and for the browser, without a limit.

Noted while modelling. `StreamingIsUnmodifiedPrefix` promises nothing of the
key-derivation parameters and the chunk size of a v2 header, which are not
authenticated, nor of the base nonce except through a chunk (the test on modified
headers, `streaming_container.rs:281`, changes the magic);
`StreamingHeader::new` records 4 MiB (`format.rs:287`) where
`encrypt_file_streaming` cuts chunks of 1 MiB (`streaming_container.rs:43`). The
command's check of its output (`main.rs:96` of the CLI) is as far from its use as
the vault's, and holds only while nothing else writes there: no property is
stated of it. A credential that cannot be deleted brings a disconnected session
back at the next start (`delete_refresh_token` ignores the failure), which
`Account` allows. An upload uses the
Drive client kept since the last refresh, where the other handlers make a new
one; a token that is over makes it fail and harms nothing.

## 6. Not modelled

* Cryptography itself: AES-GCM and Argon2 are perfect, random values fresh.
* Power failure, where a rename may outlive unsynced data; a `sync_all` is
  called in the Drive download only.
* Windows sharing modes: the file system is a POSIX one. `std::fs` opens files
  for shared deletion and renames over existing ones on Windows too; a call that
  Windows refuses is one of the failures every call may have.
* The reads of one export, in `Vault`, one by one: a path replaced between them is
  the subject of `Container`.
* Pages of the Drive that are neither full nor the last, or that miss a file which
  was there throughout: `Page` is what the listing relies on the service for.
* Two windows with one credential store: `Session` has one window at a time.
* Requests that take effect after their client has given up, and pages without
  end.
* The status line, which nothing in the code reads; layout, formatting, icons,
  the build script, the parsing of arguments, error texts.

## 7. Plan

What is left: unsynced renames in `OutputFile`; two windows with one credential
store.

## 8. Running

    tlc -workers 2 -config MCStream.cfg MCStreaming
    tlapm StreamingProofs.tla
    tlapm StreamingResults.tla
    tlapm SessionProofs.tla
    tlapm DriveProofs.tla
    tlapm VaultProofs.tla
    tlapm SafeProofs.tla
    tlapm OutputFileProofs.tla
    tlapm ContainerProofs.tla

`PROJECT.json` lists components, runs, mutants, the source lines behind each
definition, findings, hazards and theorems.
