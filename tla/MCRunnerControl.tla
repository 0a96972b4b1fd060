---------------------------- MODULE MCRunnerControl ---------------------------
(* One Account with as many invocations as a run gives it.                 *)
EXTENDS RunnerControl

MCAccountOf == [i \in Invocations |-> CHOOSE a \in Accounts : TRUE]
===============================================================================
