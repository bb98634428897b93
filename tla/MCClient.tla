------------------------------ MODULE MCClient ------------------------------
(***************************************************************************)
(* Client for TLC: two commands in progress at once over one or two        *)
(* Machines.                                                               *)
(***************************************************************************)
EXTENDS Client, TLC

AllCommands ==
  {"create", "fork", "retire", "grant", "revoke", "run", "checkpoint", "attest", "restore", "enclave"}
Attestations == {"create", "run", "checkpoint", "attest", "enclave"}

\* Others attest an empty snapshot, under either of the first two sequences.
SomeClaims == [seq : {0, 1}, manifest : {<<>>}]

\* What is explored:
\* up to five commands of any kind but attestations on one Machine with two
\* files, up to four on two Machines with one file each;
\* up to four that run (once), checkpoint, restore and attest on one Machine
\* with one file, while its enclave is restarted and others register and attest;
\* up to seven that run (twice), checkpoint and restore on such a Machine.
Attesting ==
  \/ enclaves # {} \/ running # 1
  \/ \E c \in Clients : "attest" \in DOMAIN session[c] /\ session[c].attest
OneMachine == Cardinality(Live \cup {a.machine : a \in attested}) <= 1
Names(m) == DOMAIN workdir[m] \cup UNION {DOMAIN b.dir : b \in {x \in stored : x.sealedFor[2] = m}}
OneFile == \A m \in ObjectIds : Cardinality(Names(m)) <= 1
OnlyCheckpoints == \A m \in Live : \A i \in 1..Len(log[m]) : IsCheckpoint(log[m][i])

Explored ==
  \/ /\ ~Attesting /\ (OneMachine \/ OneFile)
     /\ issued <= IF OneMachine THEN 5 ELSE 4
  \/ /\ OneMachine /\ OneFile /\ OnlyCheckpoints
     /\ \A m \in ObjectIds : ran[m] <= IF Attesting THEN 1 ELSE 2
     /\ issued <= IF Attesting THEN 4 ELSE 7

Symmetric ==
  Permutations(Clients) \cup Permutations(ObjectIds) \cup Permutations(PolicyIds \ {PackageId})
    \cup Permutations(Files)
=============================================================================
