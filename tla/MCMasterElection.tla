-------------------------- MODULE MCMasterElection --------------------------
(* An instance of MasterElection for TLC: one worker.                      *)
EXTENDS MasterElection

CONSTANT east
=============================================================================
