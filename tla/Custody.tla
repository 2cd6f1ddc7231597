------------------------------- MODULE Custody -------------------------------
(***************************************************************************)
(* What moving containers between a vault and a drive should mean to the   *)
(* user: one that an import has stored is in the vault, on the drive, or   *)
(* in both, and leaves a place only once the other one has it, or because  *)
(* the user asked for its deletion there.                                  *)
(***************************************************************************)
CONSTANT Ids            \* the containers ever imported

VARIABLES places,       \* places[i]: where container i is whole, or {"new"}
          asked         \* the deletions the user asked for

vars == <<places, asked>>

Places == {"vault", "drive"}

Init == /\ places = [i \in Ids |-> {"new"}]
        /\ asked = {}

Move(i, to) == places' = [places EXCEPT ![i] = to]

Import(i) == /\ places[i] = {"new"}
             /\ Move(i, {"vault"})
             /\ UNCHANGED asked

Store(i) == /\ "vault" \in places[i]
            /\ Move(i, {"vault", "drive"})
            /\ UNCHANGED asked

\* The drive has it, or had it until the user deleted it there.
Release(i) == /\ "vault" \in places[i]
              /\ "drive" \in places[i] \/ <<i, "drive">> \in asked
              /\ Move(i, places[i] \ {"vault"})
              /\ UNCHANGED asked

\* The last copy at that place, or one of several.
Delete(i, place) == /\ asked' = asked \cup {<<i, place>>}
                    /\ \/ Move(i, places[i] \ {place})
                       \/ UNCHANGED places

Next == \E i \in Ids : \/ Import(i) \/ Store(i) \/ Release(i)
                       \/ \E place \in Places : Delete(i, place)

Spec == Init /\ [][Next]_vars
=============================================================================
