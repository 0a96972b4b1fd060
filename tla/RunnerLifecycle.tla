---------------------------- MODULE RunnerLifecycle ---------------------------
(***************************************************************************)
(* What the runner subsystem promises the Agent queues about one           *)
(* invocation: it stays open until it is decided once, it takes one result *)
(* and only while it is open and not being canceled, and it is reported    *)
(* completed only when a completed result has been stored.  RunnerControl  *)
(* implements this specification; AgentPipeline is built on it.            *)
(***************************************************************************)
CONSTANT Invocations

VARIABLES
    status,     \* per invocation: what its runner row amounts to
    result      \* per invocation: the outcome stored in its exchange

Results == {"completed", "execution_failed"}
Statuses == {"absent", "open", "canceling", "completed", "execution_failed", "canceled", "dead_letter"}

LifecycleInit ==
    /\ status = [i \in Invocations |-> "absent"]
    /\ result = [i \in Invocations |-> "none"]

\* The dispatcher provisions the encrypted request and its queue row.
Provision(i) ==
    /\ status[i] = "absent"
    /\ status' = [status EXCEPT ![i] = "open"]
    /\ UNCHANGED result

\* The runner submits its one result.
Submit(i, outcome) ==
    /\ status[i] = "open" /\ result[i] = "none"
    /\ result' = [result EXCEPT ![i] = outcome]
    /\ UNCHANGED status

\* The end of the Job is recorded.  A Job may fail after its result arrived.
Finish(i, outcome) ==
    /\ status[i] = "open"
    /\ outcome = "completed" => result[i] = "completed"
    /\ status' = [status EXCEPT ![i] = outcome]
    /\ UNCHANGED result

\* Launching is given up: nothing but a cancellation follows.
GiveUp(i) ==
    /\ status[i] = "open"
    /\ status' = [status EXCEPT ![i] = "dead_letter"]
    /\ UNCHANGED result

\* A cancellation is accepted until the invocation is decided.
RequestCancel(i) ==
    /\ status[i] \in {"open", "dead_letter"}
    /\ \/ status' = [status EXCEPT ![i] = "canceled"]
       \/ status[i] = "open" /\ status' = [status EXCEPT ![i] = "canceling"]
    /\ UNCHANGED result

\* A requested cancellation takes effect.
FinishCancel(i) ==
    /\ status[i] = "canceling"
    /\ status' = [status EXCEPT ![i] = "canceled"]
    /\ UNCHANGED result

RunnerStep(i) ==
    \/ GiveUp(i) \/ RequestCancel(i) \/ FinishCancel(i)
    \/ \E outcome \in Results : Submit(i, outcome) \/ Finish(i, outcome)

LifecycleNext == \E i \in Invocations : Provision(i) \/ RunnerStep(i)

LifecycleSpec == LifecycleInit /\ [][LifecycleNext]_<<status, result>>
===============================================================================
