---------------------------- MODULE MCAgentPipeline ---------------------------
(* The constants of the runs are given in the configuration files.         *)
EXTENDS AgentPipeline
===============================================================================
