-------------------------- MODULE MCManagerThreads --------------------------
(* Instances of ManagerThreads for TLC.                                    *)
EXTENDS ManagerThreads

CONSTANTS east, west
=============================================================================
