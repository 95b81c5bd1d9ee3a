------------------------------ MODULE MCResults ------------------------------
(***************************************************************************)
(* A run with at most three snapshots and the report, over a directory that   *)
(* was empty, or holds an earlier launch's result.json, whole or cut short. *)
(***************************************************************************)
EXTENDS Results, TLC

MCEarlier == {None, <<>>, <<0, 0>>}

\* The earlier launch succeeded.  In this one no session has ended yet, then
\* one has failed, then another has succeeded.
MCTally == (0 :> [ok |-> 1, fail |-> 0])
           @@ <<[ok |-> 0, fail |-> 0], [ok |-> 0, fail |-> 1], [ok |-> 1, fail |-> 1]>>

=============================================================================
