------------------------------ MODULE Readers ------------------------------
(***************************************************************************)
(* The off-chain readers side by side: the verifier with its commands and  *)
(* tools, and the indexer, over one chain that moves while they read.      *)
(***************************************************************************)
EXTENDS Verifier, Indexer

readersVars == <<verifierVars, indexerVars>>

ReadersInit == VerifierInit /\ IndexerInit

ReadersNext ==
  \/ VerifierNext /\ UNCHANGED indexerVars
  \/ IndexerStep /\ UNCHANGED <<job, evidence>>

ReadersSpec == ReadersInit /\ [][ReadersNext]_readersVars
=============================================================================
