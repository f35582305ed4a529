------------------------------ MODULE MCSystem ------------------------------
(***************************************************************************)
(* PoolSystem on a small instance.  Endpoints are interchangeable, and no  *)
(* step reads the counters of a pass, so states that differ only in them   *)
(* are one state (ProbesProofs is about the counters).                     *)
(***************************************************************************)
EXTENDS PoolSystem, TLC

MCSymmetry == Permutations(Endpoints)

MCView == <<tableVars, running, todo, workers, ended, rotatorVars, adminVars>>

=============================================================================
