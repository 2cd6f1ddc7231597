-------------------------------- MODULE Safe --------------------------------
(***************************************************************************)
(* What a vault means to its user: it is given one password, once; whoever *)
(* has that password puts files in under new names, takes copies of the    *)
(* one that is selected, and removes it.  Nothing else changes what it     *)
(* holds.  A file is in the vault from one moment to another, the whole of *)
(* it.  A name may also stand for less than a file, left by an import that *)
(* did not end: a copy of that is known to be a part only.                 *)
(***************************************************************************)
CONSTANTS Windows, Passwords, Names, Sources,
          FileName,     \* the name a source has in the vault
          None          \* no password, no name, no file

VARIABLES
    key,        \* the password, None before the vault has one
    users,      \* the windows that have given it
    files,      \* the source that each name in the vault holds
    choice,     \* the name that a window has selected, or None
    copy,       \* what a window has taken out and not put down yet
    target      \* the file that copies are put into

vars == <<key, users, files, choice, copy, target>>

Copy(s, whole) == [source |-> s, whole |-> whole]
Nothing == Copy(None, TRUE)

Init ==
    /\ key = None /\ users = {} /\ files = <<>>
    /\ choice = [w \in Windows |-> None]
    /\ copy = [w \in Windows |-> Nothing]
    /\ target = Copy("old", TRUE)

\* What w selects next, by hand or because its list is a new one.
Choose(w) == \E n \in Names \cup {None} : choice' = [choice EXCEPT ![w] = n]

Setup(w) ==
    /\ key = None /\ key' \in Passwords
    /\ users' = users \cup {w}
    /\ Choose(w)
    /\ UNCHANGED <<files, copy, target>>

Enter(w) ==
    /\ key # None
    /\ users' = users \cup {w}
    /\ Choose(w)
    /\ UNCHANGED <<key, files, copy, target>>

Leave(w) ==
    /\ users' = users \ {w}
    /\ choice' = [choice EXCEPT ![w] = None]
    /\ copy' = [copy EXCEPT ![w] = Nothing]
    /\ UNCHANGED <<key, files, target>>

Look(w) ==
    /\ w \in users
    /\ Choose(w)
    /\ UNCHANGED <<key, users, files, copy, target>>

Store(w) ==
    /\ w \in users
    /\ \E s \in Sources :
        /\ FileName[s] \notin DOMAIN files
        /\ files' = [n \in DOMAIN files \cup {FileName[s]} |->
                        IF n = FileName[s] THEN s ELSE files[n]]
    /\ Choose(w)
    /\ UNCHANGED <<key, users, copy, target>>

Remove(w) ==
    /\ w \in users /\ choice[w] # None
    /\ files' = [n \in DOMAIN files \ {choice[w]} |-> files[n]]
    /\ choice' = [choice EXCEPT ![w] = None]
    /\ UNCHANGED <<key, users, copy, target>>

Take(w) ==
    /\ w \in users /\ choice[w] # None
    /\ \E s \in Sources :
        copy' = [copy EXCEPT ![w] = IF choice[w] \in DOMAIN files
                                    THEN Copy(files[choice[w]], TRUE)
                                    ELSE Copy(s, FALSE)]
    /\ UNCHANGED <<key, users, files, choice, target>>

\* A window without a copy puts nothing down: what was there is gone.
PutDown(w) ==
    /\ w \in users
    /\ target' \in {copy[w], Nothing}
    /\ copy' = [copy EXCEPT ![w] = Nothing]
    /\ UNCHANGED <<key, users, files, choice>>

Next ==
    \E w \in Windows :
        \/ Setup(w) \/ Enter(w) \/ Leave(w) \/ Look(w)
        \/ Store(w) \/ Remove(w) \/ Take(w) \/ PutDown(w)

Spec == Init /\ [][Next]_vars
=============================================================================
