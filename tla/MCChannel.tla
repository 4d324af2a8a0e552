------------------------------ MODULE MCChannel -----------------------------
(***************************************************************************)
(* One instance of Channel: a mutation and two reads, so that a read waits *)
(* behind a mutation and another finds the queue full; two attempts, so    *)
(* that a command can be repeated and a call can run out of attempts.      *)
(***************************************************************************)
EXTENDS Channel

CONSTANTS m1, r1, r2

MCCalls == {m1, r1, r2}
MCMutations == {m1}
MCRejected == {}
=============================================================================
