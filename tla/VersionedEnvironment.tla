------------------------ MODULE VersionedEnvironment ------------------------
(***************************************************************************)
(* What a Machine promises, with no hashes, owners or events: a set of     *)
(* environments, each with a current saved state and the number of states  *)
(* saved so far.  An environment is created empty or as a copy of another, *)
(* and changes only by saving a new state.                                 *)
(***************************************************************************)
EXTENDS Naturals

CONSTANTS Ids, States, Empty
VARIABLES current, version

vars == <<current, version>>

Init ==
  /\ current = [i \in {} |-> Empty]
  /\ version = [i \in {} |-> 0]

Start(i, s) ==
  /\ i \in Ids \ DOMAIN current
  /\ current' = [j \in DOMAIN current \cup {i} |-> IF j = i THEN s ELSE current[j]]
  /\ version' = [j \in DOMAIN version \cup {i} |-> IF j = i THEN 0 ELSE version[j]]

Create(i) == Start(i, Empty)

Copy(i, from) == from \in DOMAIN current /\ Start(i, current[from])

Save(i, s) ==
  /\ i \in DOMAIN current
  /\ current' = [current EXCEPT ![i] = s]
  /\ version' = [version EXCEPT ![i] = @ + 1]

Next ==
  \/ \E i \in Ids : Create(i) \/ \E from \in Ids : Copy(i, from)
  \/ \E i \in Ids, s \in States : Save(i, s)

Spec == Init /\ [][Next]_vars
=============================================================================
