------------------------------ MODULE Account ------------------------------
(***************************************************************************)
(* What signing in at Google should mean to the user of a window: while    *)
(* the vault is open the user signs in, once, and from then on the saved   *)
(* session is the one in use, or waits for the next start, until the user  *)
(* disconnects.  Locking the vault, closing the window, a start without a  *)
(* network or a renewal that fails take nothing away; a session that was   *)
(* replaced never comes back.                                              *)
(***************************************************************************)
EXTENDS Naturals

CONSTANT None

VARIABLES
    open,       \* the vault is unlocked
    held,       \* the session in use, or None
    saved,      \* the session that the next start finds, or None
    issued      \* sessions that the service has issued

vars == <<open, held, saved, issued>>

Init == open = FALSE /\ held = None /\ saved = None /\ issued = 0

Open == /\ ~open /\ open' = TRUE
        /\ UNCHANGED <<held, saved, issued>>

Shut == /\ open /\ open' = FALSE
        /\ UNCHANGED <<held, saved, issued>>

\* The service issues a session, which is in use and saved at once.
Issue == /\ issued' = issued + 1
         /\ held' = issued' /\ saved' = issued'
         /\ UNCHANGED open

SignIn == open /\ held = None /\ Issue

\* The service replaces the session.
Replace == saved # None /\ Issue

\* It does, but the answer is lost or the new session cannot be saved.
Lose == /\ saved # None
        /\ issued' = issued + 1
        /\ UNCHANGED <<open, held, saved>>

Resume == /\ held = None /\ saved # None
          /\ held' = saved
          /\ UNCHANGED <<open, saved, issued>>

Disconnect == /\ open /\ held # None
              /\ held' = None
              /\ saved' \in {None, saved}
              /\ UNCHANGED <<open, issued>>

\* The window is closed or dies.
Leave == /\ open' = FALSE /\ held' = None
         /\ UNCHANGED <<saved, issued>>

Next == \/ Open \/ Shut \/ SignIn \/ Replace \/ Lose \/ Resume
        \/ Disconnect \/ Leave

Spec == Init /\ [][Next]_vars
=============================================================================
