----------------------------- MODULE RunnerControl ----------------------------
(***************************************************************************)
(* The runner control plane of a cell: a queue of invocations, concurrency *)
(* slots per Account, controller replicas that launch and observe one Job  *)
(* per invocation in a cluster, and the broker through which the Job's Pod *)
(* fetches its request and submits its result.                             *)
(*                                                                         *)
(* A claim gives its row a new lease and counts an attempt, so a lease is  *)
(* named here by the attempt it belongs to.  Every call of a controller to *)
(* the database or to the cluster is a step of its own.  Which of the      *)
(* eligible Accounts is claimed next (virtual finish, age) and when a      *)
(* retry or an inspection falls due are left open.                         *)
(***************************************************************************)
EXTENDS Integers, FiniteSets

CONSTANTS
    Invocations,
    Accounts,
    AccountOf,      \* [Invocations -> Accounts]
    Controllers,    \* replicas of the runner controller
    Limits,         \* concurrency limits an operator may configure
    MaxAttempts,    \* launch attempts before a row is dead lettered
    MaxFaults       \* bound: crashes, overrun leases and failed calls

\* The limit of an Account that nobody configured.
DefaultLimit == 1

ASSUME RunnerAssumption ==
    /\ IsFiniteSet(Invocations)
    /\ AccountOf \in [Invocations -> Accounts]
    /\ Limits \subseteq Nat \ {0} /\ DefaultLimit \in Limits
    /\ MaxAttempts \in Nat \ {0} /\ MaxFaults \in Nat

VARIABLES
    row,        \* per invocation: runner_invocation_queue row
    limit,      \* per Account: concurrency_limit
    active,     \* per Account: active_count
    exchange,   \* per invocation: runner_invocation_exchanges row
    job,        \* per invocation: the cluster's Job of that name
    inflight,   \* invocations with a create that may still reach the cluster
    controller, \* per replica: the call it makes next
    faults      \* failures so far

vars == <<row, limit, active, exchange, job, inflight, controller, faults>>
slotVars == <<limit, active>>
clusterVars == <<job, inflight>>

SlotStates == {"launching", "launch_uncertain", "launched", "canceling"}
ObservedStates == {"launch_uncertain", "launched", "canceling"}
EndStates == {"completed", "execution_failed", "canceled"}

\* job.made counts the Jobs created under the name: it tells their Pods apart.
NoRow == [state |-> "absent", attempts |-> 0, lapsed |-> FALSE, cancel |-> FALSE]
NoJob == [state |-> "absent", made |-> 0]
Idle == [call |-> "idle"]

Init ==
    /\ row = [i \in Invocations |-> NoRow]
    /\ limit = [a \in Accounts |-> DefaultLimit]
    /\ active = [a \in Accounts |-> 0]
    /\ exchange = [i \in Invocations |-> [pod |-> 0, result |-> "none"]]
    /\ job = [i \in Invocations |-> NoJob]
    /\ inflight = {}
    /\ controller = [c \in Controllers |-> Idle]
    /\ faults = 0

-------------------------------------------------------------------------------
(* Producers and operators                                                 *)

\* The dispatcher writes the queue row and the encrypted request together; a
\* repeated call with the same digest changes nothing.
Provision(i) ==
    /\ row[i].state = "absent"
    /\ row' = [row EXCEPT ![i].state = "queued"]
    /\ UNCHANGED <<slotVars, exchange, clusterVars, controller, faults>>

\* A limit below the slots in use is refused by the table's constraint.
Configure(a, n) ==
    /\ n # limit[a] /\ active[a] <= n
    /\ limit' = [limit EXCEPT ![a] = n]
    /\ UNCHANGED <<row, active, exchange, clusterVars, controller, faults>>

\* What a cancellation makes of a row that has been locked.
Canceled(r) ==
    CASE r.state \in {"queued", "failed", "dead_letter"} -> [r EXCEPT !.state = "canceled", !.cancel = TRUE]
      [] r.state = "launching" -> [r EXCEPT !.cancel = TRUE]
      [] r.state \in {"launched", "launch_uncertain"} -> [r EXCEPT !.state = "canceling", !.cancel = TRUE]
      [] OTHER -> r

RequestCancellation(i) ==
    /\ row[i].state # "absent" /\ Canceled(row[i]) # row[i]
    /\ row' = [row EXCEPT ![i] = Canceled(@)]
    /\ UNCHANGED <<slotVars, exchange, clusterVars, controller, faults>>

-------------------------------------------------------------------------------
(* Launching: claim a row, ensure its Job, record the answer               *)

Expired == {i \in Invocations : row[i].state = "launching" /\ row[i].lapsed}

\* Mutant: fresh work is claimed whatever the limit.
DueUnlimited == {i \in Invocations : row[i].state \in {"queued", "failed"}}

\* Fresh work is due in Accounts with a free slot.
Due == {i \in Invocations :
           /\ row[i].state \in {"queued", "failed"}
           /\ active[AccountOf[i]] < limit[AccountOf[i]]}

\* Mutant: a claim that takes over an expired launch takes a slot as well.
TakesSlotAlways(i) == TRUE

\* Only a fresh claim takes a slot; a reclaimed launch holds one already.
TakesSlot(i) == row[i].state # "launching"

\* Expired launches are reclaimed before fresh work is claimed.
ClaimFair(c, i) ==
    /\ controller[c] = Idle
    /\ i \in IF Expired # {} THEN Expired ELSE Due
    /\ row' = [row EXCEPT ![i].state = "launching", ![i].attempts = @ + 1, ![i].lapsed = FALSE]
    /\ active' = IF TakesSlot(i) THEN [active EXCEPT ![AccountOf[i]] = @ + 1] ELSE active
    /\ controller' = [controller EXCEPT ![c] = [call |-> "ensure", inv |-> i, attempt |-> row[i].attempts + 1]]
    /\ UNCHANGED <<limit, exchange, clusterVars, faults>>

Answered(c, answer) ==
    controller' = [controller EXCEPT ![c] =
        [call |-> "mark", inv |-> @.inv, attempt |-> @.attempt, answer |-> answer]]

Create(i) == job' = [job EXCEPT ![i] = [state |-> "running", made |-> @.made + 1]]

\* The Job is created, or one of that name is found and matches.
EnsureConfirmed(c) ==
    LET i == controller[c].inv IN
    /\ controller[c].call = "ensure"
    /\ IF job[i].state = "absent" THEN Create(i) ELSE UNCHANGED job
    /\ Answered(c, "launched")
    /\ UNCHANGED <<row, slotVars, exchange, inflight, faults>>

\* The answer is lost or unusable: the create took effect, did not, or is
\* still on its way.
EnsureUncertain(c) ==
    LET i == controller[c].inv IN
    /\ controller[c].call = "ensure" /\ faults < MaxFaults
    /\ faults' = faults + 1
    /\ \/ UNCHANGED clusterVars
       \/ job[i].state = "absent" /\ Create(i) /\ UNCHANGED inflight
       \/ job[i].state = "absent" /\ inflight' = inflight \cup {i} /\ UNCHANGED job
    /\ Answered(c, "uncertain")
    /\ UNCHANGED <<row, slotVars, exchange>>

\* The cluster refuses the create (quota, throttling, authorization) before it
\* looks for a Job of that name, or the profile is not deployed.
EnsureRefused(c) ==
    /\ controller[c].call = "ensure" /\ faults < MaxFaults
    /\ faults' = faults + 1
    /\ Answered(c, "refused")
    /\ UNCHANGED <<row, slotVars, exchange, clusterVars>>

\* A create whose caller stopped waiting reaches the cluster after all.
LateCreate(i) ==
    /\ i \in inflight
    /\ inflight' = inflight \ {i}
    /\ IF job[i].state = "absent" THEN Create(i) ELSE UNCHANGED job
    /\ UNCHANGED <<row, slotVars, exchange, controller, faults>>

HoldsLease(c) ==
    LET k == controller[c] IN row[k.inv].state = "launching" /\ row[k.inv].attempts = k.attempt

\* Mutant: an uncertain launch forgets that it was to be canceled.
AfterLaunchForgetful(r, answer) ==
    IF answer = "launched" THEN (IF r.cancel THEN "canceling" ELSE "launched") ELSE "launch_uncertain"

\* The state a launch that may have reached the cluster leads to.
AfterLaunch(r, answer) ==
    IF r.cancel THEN "canceling" ELSE IF answer = "launched" THEN "launched" ELSE "launch_uncertain"

\* The state a launch that did not happen leads to.
AfterFailure(r, attempt) ==
    IF r.cancel THEN "canceled" ELSE IF attempt >= MaxAttempts THEN "dead_letter" ELSE "failed"

\* Mutant: a row is settled, its slot is not.
ReleaseForgotten(i) == UNCHANGED active

Release(i) == active' = [active EXCEPT ![AccountOf[i]] = @ - 1]

\* MarkLaunched, MarkLaunchUncertain: the slot is kept.
MarkLaunched(c) ==
    LET k == controller[c] IN
    /\ k.call = "mark" /\ k.answer # "refused"
    /\ row' = IF HoldsLease(c)
              THEN [row EXCEPT ![k.inv].state = AfterLaunch(row[k.inv], k.answer), ![k.inv].lapsed = FALSE]
              ELSE row
    /\ controller' = [controller EXCEPT ![c] = Idle]
    /\ UNCHANGED <<slotVars, exchange, clusterVars, faults>>

\* FailLaunch: the row and its slot are settled in one transaction.
FailLaunch(c) ==
    LET k == controller[c] IN
    /\ k.call = "mark" /\ k.answer = "refused"
    /\ IF HoldsLease(c)
       THEN /\ row' = [row EXCEPT ![k.inv].state = AfterFailure(row[k.inv], k.attempt), ![k.inv].lapsed = FALSE]
            /\ Release(k.inv)
       ELSE UNCHANGED <<row, active>>
    /\ controller' = [controller EXCEPT ![c] = Idle]
    /\ UNCHANGED <<limit, exchange, clusterVars, faults>>

-------------------------------------------------------------------------------
(* Observing: cancel and inspect the Job, record what was seen             *)

\* A replica takes a copy of a row that is due for inspection.  Another one
\* may take the same row while the first is still busy with its copy.
ClaimInspection(c, i) ==
    /\ controller[c] = Idle
    /\ row[i].state \in ObservedStates
    /\ controller' = [controller EXCEPT ![c] =
           [call |-> IF row[i].state = "canceling" THEN "cancel" ELSE "inspect",
            inv |-> i, attempt |-> row[i].attempts, seen |-> row[i].state]]
    /\ UNCHANGED <<row, slotVars, exchange, clusterVars, faults>>

\* The exact Job is deleted, or is already gone.
CancelJob(c) ==
    LET i == controller[c].inv IN
    /\ controller[c].call = "cancel"
    /\ job' = [job EXCEPT ![i].state = "absent"]
    /\ controller' = [controller EXCEPT ![c].call = "inspect"]
    /\ UNCHANGED <<row, slotVars, exchange, inflight, faults>>

\* What an inspection concludes from the state of the Job and of the copy:
\* "nothing" ends it, everything else is recorded by the next call.
Conclusion(seen, state) ==
    IF seen = "canceling" THEN (IF state = "absent" THEN "canceled" ELSE "nothing")
    ELSE CASE state = "absent" -> IF seen = "launch_uncertain" THEN "missing" ELSE "nothing"
           [] state = "running" -> IF seen = "launch_uncertain" THEN "confirm" ELSE "nothing"
           [] state = "succeeded" -> "completed"
           [] OTHER -> "execution_failed"

Inspect(c) ==
    LET k == controller[c]
        concluded == Conclusion(k.seen, job[k.inv].state) IN
    /\ k.call = "inspect"
    /\ controller' = [controller EXCEPT ![c] =
           IF concluded = "nothing" THEN Idle
           ELSE [call |-> "settle", inv |-> k.inv, attempt |-> k.attempt, answer |-> concluded]]
    /\ UNCHANGED <<row, slotVars, exchange, clusterVars, faults>>

\* Mutant: only a confirmed launch can end by itself.
CompletableLaunched(state, outcome) ==
    \/ state = "launched" /\ outcome \in {"completed", "execution_failed"}
    \/ state = "canceling" /\ outcome = "canceled"

\* The ends that Complete records for a row in the given state.
Completable(state, outcome) ==
    \/ state \in {"launch_uncertain", "launched"} /\ outcome \in {"completed", "execution_failed"}
    \/ state = "canceling" /\ outcome = "canceled"

ConfirmLaunch(c) ==
    LET k == controller[c] IN
    /\ k.call = "settle" /\ k.answer = "confirm"
    /\ row' = IF row[k.inv].state = "launch_uncertain" THEN [row EXCEPT ![k.inv].state = "launched"] ELSE row
    /\ controller' = [controller EXCEPT ![c] = Idle]
    /\ UNCHANGED <<slotVars, exchange, clusterVars, faults>>

ResolveLaunchAbsent(c) ==
    LET k == controller[c] IN
    /\ k.call = "settle" /\ k.answer = "missing"
    /\ IF row[k.inv].state = "launch_uncertain"
       THEN /\ row' = [row EXCEPT ![k.inv].state = AfterFailure(row[k.inv], k.attempt)]
            /\ Release(k.inv)
       ELSE UNCHANGED <<row, active>>
    /\ controller' = [controller EXCEPT ![c] = Idle]
    /\ UNCHANGED <<limit, exchange, clusterVars, faults>>

Complete(c) ==
    LET k == controller[c] IN
    /\ k.call = "settle" /\ k.answer \in EndStates
    /\ IF Completable(row[k.inv].state, k.answer)
       THEN row' = [row EXCEPT ![k.inv].state = k.answer] /\ Release(k.inv)
       ELSE UNCHANGED <<row, active>>
    /\ controller' = [controller EXCEPT ![c] = Idle]
    /\ UNCHANGED <<limit, exchange, clusterVars, faults>>

-------------------------------------------------------------------------------
(* The Pod of a Job, through the broker                                    *)

\* Mutant: the broker serves a row that is being canceled.
BrokerOpenCanceling(i) == row[i].state \in ObservedStates

\* The broker serves rows whose Job is, or may be, launched.
BrokerOpen(i) == row[i].state \in {"launch_uncertain", "launched"}

\* The first Pod that fetches the request is bound to it.
Fetch(i) ==
    /\ job[i].state = "running" /\ BrokerOpen(i)
    /\ exchange[i].pod = 0
    /\ exchange' = [exchange EXCEPT ![i].pod = job[i].made]
    /\ UNCHANGED <<row, slotVars, clusterVars, controller, faults>>

SubmitResult(i, outcome) ==
    /\ job[i].state = "running" /\ BrokerOpen(i)
    /\ exchange[i].pod = job[i].made /\ exchange[i].result = "none"
    /\ exchange' = [exchange EXCEPT ![i].result = outcome]
    /\ UNCHANGED <<row, slotVars, clusterVars, controller, faults>>

\* The Pod's submission of a completed result was accepted.
Submitted(i) == exchange[i].pod = job[i].made /\ exchange[i].result = "completed"

\* The Pod exits; only one whose completed result was accepted exits well.
PodSucceeds(i) ==
    /\ job[i].state = "running" /\ Submitted(i)
    /\ job' = [job EXCEPT ![i].state = "succeeded"]
    /\ UNCHANGED <<row, slotVars, exchange, inflight, controller, faults>>

\* It fails, is evicted or reaches its deadline.
PodFails(i) ==
    /\ job[i].state = "running"
    /\ job' = [job EXCEPT ![i].state = "failed"]
    /\ UNCHANGED <<row, slotVars, exchange, inflight, controller, faults>>

\* The cluster removes a finished Job after its retention time.
RemoveFinished(i) ==
    /\ job[i].state \in {"succeeded", "failed"}
    /\ job' = [job EXCEPT ![i].state = "absent"]
    /\ UNCHANGED <<row, slotVars, exchange, inflight, controller, faults>>

-------------------------------------------------------------------------------
(* Failures                                                                *)

\* A replica dies, or its call fails, before the next step.
Crash(c) ==
    /\ controller[c] # Idle /\ faults < MaxFaults
    /\ controller' = [controller EXCEPT ![c] = Idle]
    /\ faults' = faults + 1
    /\ UNCHANGED <<row, slotVars, exchange, clusterVars>>

Attended(i) == \E c \in Controllers :
    controller[c].call \in {"ensure", "mark"} /\ controller[c].inv = i /\ controller[c].attempt = row[i].attempts

\* A launch lease expires.  Under a replica that still works on it this is
\* one of the bounded faults.
LeaseExpires(i) ==
    /\ row[i].state = "launching" /\ ~row[i].lapsed
    /\ Attended(i) => faults < MaxFaults
    /\ faults' = IF Attended(i) THEN faults + 1 ELSE faults
    /\ row' = [row EXCEPT ![i].lapsed = TRUE]
    /\ UNCHANGED <<slotVars, exchange, clusterVars, controller>>

Launching(c) == EnsureConfirmed(c) \/ EnsureUncertain(c) \/ EnsureRefused(c) \/ MarkLaunched(c) \/ FailLaunch(c)
Observing(c) == CancelJob(c) \/ Inspect(c) \/ ConfirmLaunch(c) \/ ResolveLaunchAbsent(c) \/ Complete(c)

Next ==
    \/ \E i \in Invocations : \/ Provision(i) \/ RequestCancellation(i) \/ LateCreate(i) \/ LeaseExpires(i)
                              \/ Fetch(i) \/ PodSucceeds(i) \/ PodFails(i) \/ RemoveFinished(i)
                              \/ \E outcome \in {"completed", "execution_failed"} : SubmitResult(i, outcome)
                              \/ \E c \in Controllers : ClaimFair(c, i) \/ ClaimInspection(c, i)
    \/ \E a \in Accounts, n \in Limits : Configure(a, n)
    \/ \E c \in Controllers : Launching(c) \/ Observing(c) \/ Crash(c)

Spec == Init /\ [][Next]_vars

\* Replicas poll and take up whatever is due again and again, and go on with
\* what they began; leases run out; Pods end, at the latest at their deadline.
FairSpec ==
    /\ Spec
    /\ \A c \in Controllers : WF_vars(Launching(c) \/ Observing(c))
    /\ \A i \in Invocations : /\ SF_vars(\E c \in Controllers : ClaimFair(c, i))
                              /\ SF_vars(\E c \in Controllers : ClaimInspection(c, i))
                              /\ WF_vars(LeaseExpires(i) /\ ~Attended(i))
                              /\ WF_vars(PodSucceeds(i) \/ PodFails(i))

-------------------------------------------------------------------------------
(* Properties                                                              *)

\* Rows, Jobs and exchanges have their types; a row is leased only while it
\* launches, and the flag of a requested cancellation stays with the states
\* the table's constraint allows it in (runner_invocation_cancellation_state).
TypeOK ==
    /\ \A i \in Invocations :
           /\ row[i].state \in SlotStates \cup EndStates \cup {"absent", "queued", "failed", "dead_letter"}
           /\ row[i].attempts \in 0..(MaxAttempts + MaxFaults)
           /\ row[i].lapsed => row[i].state = "launching"
           /\ row[i].state \in {"canceling", "canceled"} => row[i].cancel
           /\ row[i].cancel => row[i].state \in {"launching", "canceling", "canceled"}
           /\ job[i].state \in {"absent", "running", "succeeded", "failed"}
           /\ job[i].made \in Nat
           /\ exchange[i].pod \in 0..job[i].made
           /\ exchange[i].result \in {"none", "completed", "execution_failed"}
    /\ limit \in [Accounts -> Limits] /\ inflight \subseteq Invocations /\ faults \in 0..MaxFaults

\* Every Account's active_count is the number of its rows that hold a slot and
\* stays within its limit, through reclaimed launches, replicas that act on
\* old copies of a row, cancellations and reconfiguration
\* (ClaimFair, FailLaunch, ResolveLaunchAbsent, Complete).
SlotsCounted ==
    \A a \in Accounts :
        /\ active[a] = Cardinality({i \in Invocations : AccountOf[i] = a /\ row[i].state \in SlotStates})
        /\ active[a] <= limit[a]

\* What the Agent queues can tell of a row.
StatusOf(r) ==
    IF r.state \in EndStates \cup {"absent", "dead_letter"} THEN r.state
    ELSE IF r.cancel THEN "canceling" ELSE "open"

\* The runner subsystem keeps the promise that the Agent queues rely on.
Lifecycle == INSTANCE RunnerLifecycle WITH
    status <- [i \in Invocations |-> StatusOf(row[i])],
    result <- [i \in Invocations |-> exchange[i].result]

\* RunnerControl implements RunnerLifecycle: no invocation is decided twice,
\* none is completed without a completed result, and neither a result nor an
\* end other than canceled gets past a requested cancellation, whatever copy
\* of the row a replica or a Pod acts on.
ImplementsLifecycle == Lifecycle!LifecycleSpec

\* The Job of a launched row is gone, removed after its retention time or
\* deleted for an older copy: inspections report an error and keep the slot.
JobMissing(i) == row[i].state = "launched" /\ job[i].state = "absent"

\* Every invocation is decided or dead lettered at last, also one that waits
\* for a slot another invocation of its Account holds, although replicas die
\* and answers are lost.  The exception is a launched row of that Account whose
\* Job has vanished, its own or the one it waits for: the code leaves the row,
\* and its slot, to an operator (ProcessOne, ReconcileJobs).
InvocationDecided ==
    \A i \in Invocations :
        row[i].state # "absent" ~>
            \/ row[i].state \in EndStates \cup {"dead_letter"}
            \/ \E k \in Invocations : AccountOf[k] = AccountOf[i] /\ JobMissing(k)
===============================================================================
