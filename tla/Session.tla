------------------------------- MODULE Session -------------------------------
(***************************************************************************)
(* The two sessions of a window of apps/fcloak-gui: the unlocked vault,    *)
(* which locks after five minutes without activity (main.rs), and the      *)
(* Google session, its tokens and the credential store (oauth.rs).  All of *)
(* it runs on the thread that draws the window: while a file dialog, a     *)
(* request or the browser is waited for, no frame is drawn and the timer   *)
(* is not looked at.                                                       *)
(*                                                                         *)
(* Time passes in ticks of fifteen seconds.  The program keeps instants;   *)
(* here they are what is left until, or has passed since.                  *)
(***************************************************************************)
EXTENDS Naturals

CONSTANTS
    LockAfter,      \* AUTO_LOCK_AFTER
    Margin,         \* how long before its end a token is given up: 60 s
    MinLife,        \* the life assumed of a token shorter than that: 30 s
    Lifetimes,      \* lives of access tokens, told or (3600 s) assumed
    MaxGrants,      \* refresh tokens ever issued (bound)
    MaxInputs,      \* events until the user leaves for good (bound)
    None

ASSUME SessionAssumption ==
    /\ LockAfter \in Nat \ {0} /\ Margin \in Nat /\ MinLife \in Nat \ {0}
    /\ Lifetimes \subseteq Nat
    /\ MaxGrants \in Nat /\ MaxInputs \in Nat
    /\ None \notin Nat \cup [life : Nat, spent : Nat]

VARIABLES
    pc,             \* what the thread is doing; "free" between two frames
    setup_mode,
    unlocked,
    age,            \* time since last_activity
    due,            \* a frame is to be drawn: a second has passed
    pending,        \* events wait for the next frame
    inputs,         \* events so far
    idle,           \* history: time since the last event seen, or unlock
    access,         \* access_token: its life and how much is spent, or None
    refresh,        \* refresh_token, or None
    expires,        \* time until expires_at, or None
    keyring,        \* the refresh token in the credential store, or None
    grants          \* refresh tokens issued so far

lockVars  == <<setup_mode, unlocked, age, idle>>
inputVars == <<due, pending, inputs>>
tokenVars == <<access, refresh, expires>>
saveVars  == <<keyring, grants>>
vars == <<pc, lockVars, inputVars, tokenVars, saveVars>>

Least(a, b) == IF a < b THEN a ELSE b

Goto(from, to) == pc \in from /\ pc' = to

-----------------------------------------------------------------------------
(* Access tokens.                                                          *)

\* Bug: the token is used up to its very end.
NoMargin(life) == life

\* expires_in.checked_sub(60 s), or 30 s.
ExpiresIn(life) == IF life >= Margin THEN life - Margin ELSE MinLife

Token(life) == [life |-> life, spent |-> 0]

\* expires_at is None, or has come.
needs_refresh == expires = None \/ expires = 0

is_connected == access # None /\ refresh # None

load_refresh_token == keyring

save_refresh_token(token) == keyring' = token

\* The store may refuse to delete the credential, which is ignored.
delete_refresh_token == keyring' \in {None, keyring}

\* refresh_access_token(token) that the service answers: a new access token,
\* and perhaps a new refresh token, which is saved first.
RefreshOk(token) ==
    \E life \in Lifetimes :
        /\ access' = Token(life)
        /\ expires' = ExpiresIn(life)
        /\ \/ refresh' = token /\ UNCHANGED saveVars
           \/ /\ grants < MaxGrants
              /\ grants' = grants + 1
              /\ save_refresh_token(grants') /\ refresh' = grants'

\* It fails at the service, or when the new refresh token is saved: then the
\* new access token is there already, and nothing else.
RefreshFails ==
    \/ UNCHANGED <<tokenVars, saveVars>>
    \/ /\ grants < MaxGrants /\ grants' = grants + 1
       /\ \E life \in Lifetimes : access' = Token(life)
       /\ UNCHANGED <<refresh, expires, keyring>>

Cleared == access' = None /\ refresh' = None /\ expires' = None

-----------------------------------------------------------------------------
(* The life of a window.                                                   *)

Init ==
    /\ pc = "off" /\ setup_mode \in BOOLEAN /\ unlocked = FALSE
    /\ age = 0 /\ idle = 0
    /\ due = FALSE /\ pending = FALSE /\ inputs = 0
    /\ access = None /\ refresh = None /\ expires = None
    /\ keyring = None /\ grants = 0

\* FcloakApp::new: a saved session is restored if the vault is set up and the
\* store can be read.
Start ==
    /\ \/ Goto({"off"}, "free")
       \/ Goto({"off"}, "restore") /\ ~setup_mode /\ load_refresh_token # None
    /\ age' = 0 /\ idle' = 0 /\ due' = TRUE /\ pending' = FALSE
    /\ UNCHANGED <<setup_mode, unlocked, inputs, tokenVars, saveVars>>

\* Bug: a session that could not be restored is left half there.
RestoreKeeps ==
    \/ /\ Goto({"restore"}, "connected")
       /\ RefreshOk(load_refresh_token)
       /\ UNCHANGED <<lockVars, inputVars>>
    \/ /\ Goto({"restore"}, "free")
       /\ RefreshFails
       /\ UNCHANGED <<lockVars, inputVars>>

\* Bug: a saved session that cannot be restored now is forgotten for good.
RestoreForgets ==
    /\ \/ Goto({"restore"}, "connected") /\ RefreshOk(load_refresh_token)
       \/ /\ Goto({"restore"}, "free")
          /\ Cleared
          /\ keyring' = None /\ UNCHANGED grants
    /\ UNCHANGED <<lockVars, inputVars>>

\* restore_saved_session: a failure clears all three, but not the store.
Restore ==
    /\ \/ Goto({"restore"}, "connected") /\ RefreshOk(load_refresh_token)
       \/ /\ Goto({"restore"}, "free")
          /\ Cleared
          /\ UNCHANGED keyring /\ grants' \in grants..Least(grants + 1, MaxGrants)
    /\ UNCHANGED <<lockVars, inputVars>>

\* The window is closed or dies.
Stop ==
    /\ pc # "off" /\ pc' = "off"
    /\ unlocked' = FALSE
    /\ age' = 0 /\ idle' = 0 /\ due' = FALSE /\ pending' = FALSE
    /\ Cleared
    /\ UNCHANGED <<setup_mode, inputs, saveVars>>

\* The user moves the pointer, types or clicks.
Input ==
    /\ pc # "off" /\ inputs < MaxInputs
    /\ inputs' = inputs + 1 /\ pending' = TRUE
    /\ UNCHANGED <<pc, lockVars, due, tokenVars, saveVars>>

\* Bug: no frame is drawn unless something happens.
NeverDue == FALSE

\* request_repaint_after(1 s): the thread, when free, draws in time.
FrameDue == pc = "free" /\ due

\* A tick passes: never while a frame is due.
Tick ==
    /\ ~FrameDue
    /\ due' = (pc # "off")
    /\ age' = Least(age + 1, LockAfter + 1) /\ idle' = Least(idle + 1, LockAfter + 1)
    /\ access' = IF access = None THEN None
                 ELSE [access EXCEPT !.spent = Least(@ + 1, access.life + MinLife)]
    /\ expires' = IF needs_refresh THEN expires ELSE expires - 1
    /\ UNCHANGED <<pc, setup_mode, unlocked, pending, inputs, refresh, saveVars>>

-----------------------------------------------------------------------------
(* A frame: update, update_activity_timer and what the user clicked.       *)

CanDraw == FrameDue \/ (pc = "free" /\ pending)

Drawn == due' = FALSE /\ pending' = FALSE /\ UNCHANGED inputs

\* Bug: the limit itself does not count.
AfterLimit(a) == a > LockAfter

Expired(a) == a >= LockAfter

\* The events are seen first, then the timer; nothing else happens.
Frame ==
    LET now == IF unlocked /\ pending THEN 0 ELSE age IN
    /\ CanDraw /\ Drawn
    /\ age' = now
    /\ idle' = IF pending THEN 0 ELSE idle
    /\ unlocked' = (unlocked /\ ~Expired(now))
    /\ UNCHANGED <<pc, setup_mode, tokenVars, saveVars>>

\* The same frame, in which an event is a click that means something.
Clicked == pc = "free" /\ pending /\ Drawn

\* Bug: the timer goes on from before the vault was locked.
UnlockKeepsTimer ==
    /\ Clicked /\ ~unlocked
    /\ setup_mode' = FALSE /\ unlocked' = TRUE /\ idle' = 0
    /\ UNCHANGED <<pc, age, tokenVars, saveVars>>

\* unlock or initialize_vault, with success.
Unlock ==
    /\ Clicked /\ ~unlocked
    /\ setup_mode' = FALSE /\ unlocked' = TRUE /\ age' = 0 /\ idle' = 0
    /\ UNCHANGED <<pc, tokenVars, saveVars>>

\* The Lock button.
Lock ==
    /\ Clicked /\ unlocked
    /\ unlocked' = FALSE /\ age' = 0 /\ idle' = 0
    /\ UNCHANGED <<pc, setup_mode, tokenVars, saveVars>>

\* A handler is called: it opens a file dialog, uses the vault, or asks for
\* an access token; a sign-in opens the browser and waits for it.
Call ==
    /\ Clicked /\ unlocked
    /\ \/ pc' \in {"dialog", "work", "rebuild", "list"}
       \/ ~is_connected /\ pc' = "accept"
    /\ age' = 0 /\ idle' = 0
    /\ UNCHANGED <<setup_mode, unlocked, tokenVars, saveVars>>

\* disconnect: without a credential store at all it is an error.
Disconnect ==
    /\ Clicked /\ unlocked /\ is_connected
    /\ \/ Cleared /\ delete_refresh_token
       \/ UNCHANGED <<tokenVars, keyring>>
    /\ age' = 0 /\ idle' = 0
    /\ UNCHANGED <<pc, setup_mode, unlocked, grants>>

-----------------------------------------------------------------------------
(* Handlers under way.                                                     *)

\* The user chooses a file or cancels.
DialogAnswered ==
    /\ pc = "dialog" /\ pc' \in {"work", "rebuild", "free"}
    /\ UNCHANGED <<lockVars, inputVars, tokenVars, saveVars>>

\* Vault and Drive operations end; some refresh the list of the Drive.
WorkEnds ==
    /\ pc = "work" /\ pc' \in {"free", "list"}
    /\ UNCHANGED <<lockVars, inputVars, tokenVars, saveVars>>

\* access_token: the one there is, or a new one; or none can be had.  The
\* handlers go on with it (rebuild_drive_client and refresh_drive).
AccessToken(then, otherwise) ==
    /\ \/ ~needs_refresh /\ access # None /\ pc' = then /\ UNCHANGED <<tokenVars, saveVars>>
       \/ needs_refresh /\ refresh # None /\ RefreshOk(refresh) /\ pc' = then
       \/ needs_refresh /\ refresh = None /\ pc' = otherwise
          /\ UNCHANGED <<tokenVars, saveVars>>
       \/ needs_refresh /\ refresh # None /\ RefreshFails /\ pc' = otherwise
    /\ UNCHANGED <<lockVars, inputVars>>

\* download_drive, download_and_decrypt_drive, delete_drive_file.
Rebuild == pc = "rebuild" /\ AccessToken("work", "free")

\* connect_drive and FcloakApp::new: rebuild_drive_client, then refresh_drive.
Connected == pc = "connected" /\ AccessToken("list", "list")

\* refresh_drive.
List == pc = "list" /\ AccessToken("page", "free")

ListEnds ==
    /\ Goto({"page"}, "free")
    /\ UNCHANGED <<lockVars, inputVars, tokenVars, saveVars>>

\* connect_interactive: a browser, or whatever else connects, sends a request;
\* or the browser cannot be opened.
BrowserConnects ==
    /\ Goto({"accept"}, "reading")
    /\ UNCHANGED <<lockVars, inputVars, tokenVars, saveVars>>

CannotOpen ==
    /\ Goto({"accept"}, "free")
    /\ UNCHANGED <<lockVars, inputVars, tokenVars, saveVars>>

\* read_to_end returns once the other side closes the connection.  Only a
\* request with this sign-in's state and a code leads on.
BrowserCloses ==
    /\ pc = "reading" /\ pc' \in {"exchange", "free"}
    /\ UNCHANGED <<lockVars, inputVars, tokenVars, saveVars>>

\* The code is exchanged for two tokens, and the refresh token saved; each
\* step may fail, and then nothing is taken over.
Exchange ==
    \/ /\ Goto({"exchange"}, "free")
       /\ UNCHANGED <<lockVars, inputVars, tokenVars, saveVars>>
    \/ /\ Goto({"exchange"}, "connected")
       /\ grants < MaxGrants /\ grants' = grants + 1
       /\ \E life \in Lifetimes : access' = Token(life) /\ expires' = ExpiresIn(life)
       /\ refresh' = grants' /\ save_refresh_token(grants')
       /\ UNCHANGED <<lockVars, inputVars>>

Step == \/ Frame \/ Restore \/ WorkEnds \/ Rebuild \/ Connected \/ List
        \/ ListEnds \/ Exchange

Next == \/ Start \/ Stop \/ Input \/ Tick
        \/ Unlock \/ Lock \/ Call \/ Disconnect
        \/ DialogAnswered \/ BrowserConnects \/ CannotOpen \/ BrowserCloses
        \/ Step

Spec == Init /\ [][Next]_vars

\* Time passes; the event loop draws the frames that are due; file operations
\* return, and a request ends with an answer, an error or the timeout of the
\* HTTP client.
FairSpec == Spec /\ WF_vars(Tick) /\ WF_vars(Step)

\* The user answers every dialog and goes through with a sign-in, and the
\* browser closes its connection.
CooperativeSpec ==
    /\ FairSpec
    /\ WF_vars(DialogAnswered) /\ WF_vars(BrowserConnects) /\ WF_vars(BrowserCloses)

-----------------------------------------------------------------------------
(* Properties.                                                             *)

\* Every variable has its type; of the two tokens, both are there or neither.
TypeOK ==
    /\ pc \in {"off", "restore", "free", "dialog", "work", "rebuild", "list",
               "page", "accept", "reading", "exchange", "connected"}
    /\ setup_mode \in BOOLEAN /\ unlocked \in BOOLEAN
    /\ age \in 0..(LockAfter + 1) /\ idle \in 0..(LockAfter + 1)
    /\ due \in BOOLEAN /\ pending \in BOOLEAN /\ inputs \in 0..MaxInputs
    /\ access # None => access.spent <= access.life + MinLife
    /\ {refresh, keyring} \subseteq 1..grants \cup {None}
    /\ (access = None) <=> (refresh = None)

\* main.rs:48, "Automatically lock the vault after five minutes without user
\* activity": whenever the thread is free, and however long the handler before
\* took, an unlocked window was active within the limit.
LockedInTime == pc = "free" /\ ~due /\ unlocked => idle < LockAfter

\* A window that locks by itself was idle for all of the five minutes, in this
\* unlocked period: neither time before the unlocking nor time before the last
\* event seen counts.
NotLockedEarly ==
    [][Frame /\ unlocked /\ ~unlocked' => idle' >= LockAfter]_vars

\* An access token a handler works with is good for longer than the margin,
\* or was issued for no longer than that, and less than MinLife ago.  So it is
\* over only if it was issued for less than MinLife, and for less than that.
TokenLasts ==
    [][pc' # pc /\ pc' \in {"work", "page"} /\ pc \in {"rebuild", "list"} =>
          \/ access'.spent + Margin < access'.life
          \/ access'.life <= Margin /\ access'.spent < MinLife]_vars

\* What the window has in memory is what the next start finds in the store.
SessionIsSaved == refresh # None => keyring = refresh

\* main.rs:1369, "Poll once per second so the five-minute lock happens even
\* when the user simply leaves the application untouched": an unlocked window
\* whose user has left is locked, or has ended, in the end.
AutoLock == unlocked ~> ~unlocked

\* What the two sessions of the window mean to its user.
Account == INSTANCE Account WITH open <- unlocked, held <- refresh,
                                 saved <- keyring, issued <- grants

\* Every step of the window is one step of Account or changes nothing there:
\* a sign-in only ends while the vault is unlocked, the saved session is
\* given up only by a disconnect, and no replaced one returns.
ImplementsAccount == Account!Spec
=============================================================================
