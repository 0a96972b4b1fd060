------------------------ MODULE ConsequentialActions ------------------------
(***************************************************************************)
(* Execution of approved consequential actions in one cell: the            *)
(* authorization projection, the action ledger with its attempts and the   *)
(* execution queue (migrations/cell 000018, 000030, 000031, 000058), the   *)
(* worker application/approvedaction, the runner's own calls through       *)
(* runnercapability and runneraction, and manual resolution.               *)
(*                                                                         *)
(* Every database function locks the authorization and the ledger row, so  *)
(* it is one step.  The handler runs between two of them, without a lock:  *)
(* its effect takes place at a provider or in a transaction of its own.    *)
(*                                                                         *)
(* Time appears only as what the code compares: a lease has lapsed or not, *)
(* and the approval window is open, about to close (less than the 30 s of  *)
(* a reconcile delay left) or closed.                                      *)
(***************************************************************************)
EXTENDS Integers, Sequences

CONSTANTS
    Operations,           \* operation ids; also the provider's idempotency keys
    Workers,              \* broker goroutines that execute actions
    Users,                \* Owners and Administrators who resolve by hand
    MaxReconciled,        \* attempts after which an unknown action leaves the queue: 3
    MaxDefiniteAttempts,  \* registry: attempts of definite retryable failures
    AttemptLimit          \* attempt_count of the ledger is at most 1000

ASSUME ConstantsAssumption ==
    /\ MaxReconciled \in Nat \ {0}
    /\ MaxDefiniteAttempts \in Nat \ {0}
    /\ AttemptLimit \in Nat \ {0}
    /\ Users # {} /\ "none" \notin Users

VARIABLES
    capability,     \* what the action calls, which decides how a lookup finds its effect
    window,         \* runner_action_authorizations.expires_at against the clock
    runner,         \* is the proposing runner's invocation still live?
    enabled,        \* is the executor version the operation froze still enabled?
    revised,        \* has the schedule the action created been changed since?
    authorization,  \* runner_action_authorizations.state
    ledger,         \* runner_action_ledger with runner_action_attempts
    queue,          \* runner_action_execution_queue
    resolution,     \* runner_action_manual_resolutions, the latest of an operation
    effect,         \* the world: has the action taken effect?
    worker          \* what each worker is doing

vars == <<capability, window, runner, enabled, revised, authorization, ledger, queue,
          resolution, effect, worker>>
environment == <<capability, window, runner, enabled, revised>>

\* stripe.customer.create; finance.entry.post and marketing.release.activate, whose
\* effect leaves an immutable event; schedules.create, whose effect is a row in use.
Capabilities == {"provider", "event", "schedule"}

InFlight == {"executing", "reconciling"}
LedgerStates == InFlight \cup {"absent", "retry_wait", "succeeded", "failed", "unknown",
                               "manual_resolution"}
Modes == {"execute", "reconcile"}
Outcomes == {"succeeded", "failed", "unknown"}
Attempt == [mode: Modes, outcome: Outcomes \cup {"none"}]

NoRow == [state |-> "absent", lapsed |-> FALSE, attempts |-> <<>>]
NoResolution == [state |-> "none", outcome |-> "none", by |-> "none", confirmer |-> "none"]
Idle == [pc |-> "idle"]

Init ==
    /\ capability \in [Operations -> Capabilities]
    /\ window = [o \in Operations |-> "open"]
    /\ runner = [o \in Operations |-> TRUE]
    /\ enabled = [o \in Operations |-> TRUE]
    /\ revised = [o \in Operations |-> FALSE]
    /\ authorization = [o \in Operations |-> "none"]
    /\ ledger = [o \in Operations |-> NoRow]
    /\ queue = {}
    /\ resolution = [o \in Operations |-> NoResolution]
    /\ effect = [o \in Operations |-> "none"]
    /\ worker = [w \in Workers |-> Idle]

-----------------------------------------------------------------------------
(***************************************************************************)
(* The ledger row and the trigger that keeps the queue in step with it     *)
(***************************************************************************)
Count(o) == Len(ledger[o].attempts)

\* sync_approved_runner_action_queue
SyncQueue(o, row) ==
    IF \/ row.state \in InFlight \cup {"retry_wait"}
       \/ /\ row.state = "unknown"
          /\ Len(row.attempts) < MaxReconciled
          /\ window[o] = "open"
    THEN queue \cup {o}
    ELSE queue \ {o}

WriteLedger(o, row) ==
    /\ ledger' = [ledger EXCEPT ![o] = row]
    /\ queue' = SyncQueue(o, row)

TakenOverExpired(o) ==
    IF ledger[o].state \in InFlight
    THEN [ledger[o].attempts EXCEPT ![Count(o)].outcome = "lease_expired"]
    ELSE ledger[o].attempts
\* The attempts once a lapsed lease is taken over: its outcome is not known.
TakenOver(o) ==
    IF ledger[o].state \in InFlight
    THEN [ledger[o].attempts EXCEPT ![Count(o)].outcome = "unknown"]
    ELSE ledger[o].attempts

ModeExecutesAgain(o) ==
    IF ledger[o].state \in {"absent", "retry_wait", "executing"} THEN "execute" ELSE "reconcile"
\* Only a first admission and a retry of a definite failure execute.
SelectedMode(o) ==
    IF ledger[o].state \in {"absent", "retry_wait"} THEN "execute" ELSE "reconcile"

\* A new attempt with a fresh lease for worker w.
StartAttempt(w, o, via) ==
    LET mode == SelectedMode(o) IN
    /\ WriteLedger(o, [state |-> IF mode = "execute" THEN "executing" ELSE "reconciling",
                       lapsed |-> FALSE,
                       attempts |-> Append(TakenOver(o), [mode |-> mode, outcome |-> "none"])])
    /\ worker' = [worker EXCEPT ![w] = [pc |-> "call", op |-> o, attempt |-> Count(o) + 1,
                                        mode |-> mode, via |-> via]]

-----------------------------------------------------------------------------
(***************************************************************************)
(* Approval, through the projection Attention writes                       *)
(***************************************************************************)
\* An exact repetition changes nothing; an invalidated approval is never renewed.
RecordAuthorization(o) ==
    /\ authorization[o] = "none" /\ window[o] # "closed"
    /\ authorization' = [authorization EXCEPT ![o] = "approved"]
    /\ queue' = queue \cup {o}
    /\ UNCHANGED <<environment, ledger, resolution, effect, worker>>

\* Nothing has entered execution.
Cancelable(o) == ledger[o].state = "absent"

CancelAuthorization(o) ==
    /\ authorization[o] = "approved" /\ Cancelable(o)
    /\ authorization' = [authorization EXCEPT ![o] = "canceled"]
    /\ UNCHANGED <<environment, ledger, queue, resolution, effect, worker>>

Authorized(o) == authorization[o] = "approved" /\ window[o] # "closed"

-----------------------------------------------------------------------------
(***************************************************************************)
(* Claiming: by the worker from the queue, and by a live runner            *)
(***************************************************************************)
LeaseFreeAbsent(o) == ledger[o].state \notin InFlight
LeaseFree(o) == ledger[o].state \in InFlight => ledger[o].lapsed

\* A retry needs the executor version it froze; without it the call is an error.
Executable(o) == ledger[o].state = "retry_wait" => enabled[o]

Settled(o) ==
    \/ ledger[o].state \in {"succeeded", "failed", "manual_resolution"}
    \/ ledger[o].state = "unknown" /\ Count(o) >= MaxReconciled

\* spyglass_claim_approved_runner_action
Claim(w, o) ==
    /\ worker[w] = Idle
    /\ o \in queue /\ LeaseFree(o)
    /\ Authorized(o) /\ ~Settled(o) /\ Executable(o) /\ Count(o) < AttemptLimit
    /\ StartAttempt(w, o, "queue")
    /\ UNCHANGED <<environment, authorization, resolution, effect>>

\* The same function finds nothing left to do.
ClaimDrops(o) ==
    /\ o \in queue /\ LeaseFree(o)
    /\ ~Authorized(o) \/ Settled(o)
    /\ queue' = queue \ {o}
    /\ UNCHANGED <<environment, authorization, ledger, resolution, effect, worker>>

\* spyglass_begin_runner_action_v2.  Of the runner's capabilities only the provider's
\* is consequential.  A succeeded action may be reconciled again.
Begin(w, o) ==
    /\ worker[w] = Idle
    /\ runner[o] /\ capability[o] = "provider"
    /\ Authorized(o)
    /\ ledger[o].state \notin {"failed", "manual_resolution"}
    /\ LeaseFree(o) /\ Executable(o) /\ Count(o) < AttemptLimit
    /\ StartAttempt(w, o, "runner")
    /\ UNCHANGED <<environment, authorization, resolution, effect>>

-----------------------------------------------------------------------------
(***************************************************************************)
(* The handler, between claim and completion                               *)
(***************************************************************************)
NoDeadline(w) == TRUE
\* The context of a handler ends with the lease.  A runner's does not, but its lease is
\* cut short only by the end of the approval, after which nobody claims.
WithinDeadline(w) ==
    LET o == worker[w].op IN
    /\ worker[w].attempt = Count(o)
    /\ \/ ~ledger[o].lapsed
       \/ worker[w].via = "runner" /\ window[o] = "closed"

Reply(effects, outcome, retryable) ==
    [effect: effects, outcome: {outcome}, retryable: retryable]

\* What Execute may do and answer.  A provider's effect may come after a lost answer
\* ("flying"); a transaction of the cell is over when its context is.
Replies(o) ==
    Reply({"done"}, "succeeded", {FALSE})
    \cup Reply({"done", effect[o]}, "unknown", {FALSE})
    \cup Reply({effect[o]}, "failed", {FALSE})
    \cup IF capability[o] = "provider"
         THEN Reply({"flying"}, "unknown", {FALSE}) \cup Reply({effect[o]}, "failed", {TRUE})
         ELSE {}

Answer(w, outcome, retryable) ==
    worker' = [worker EXCEPT ![w] =
                  [pc |-> "settle", op |-> @.op, attempt |-> @.attempt, mode |-> @.mode,
                   via |-> @.via, outcome |-> outcome, retryable |-> retryable]]

Calling(w, mode) == worker[w].pc = "call" /\ worker[w].mode = mode

Execute(w) ==
    /\ Calling(w, "execute") /\ WithinDeadline(w)
    /\ \E r \in Replies(worker[w].op) :
        /\ effect' = [effect EXCEPT ![worker[w].op] = r.effect]
        /\ Answer(w, r.outcome, r.retryable)
    /\ UNCHANGED <<environment, authorization, ledger, queue, resolution>>

\* A schedule is found only as it was created: its definition and version are compared.
Found(o) == effect[o] = "done" /\ ~revised[o]

\* A lookup without side effects.  A search at the provider that finds nothing proves
\* nothing; one in the cell is taken for a proof, for an event as for a schedule.
Findings(o) ==
    {"unknown"} \cup (IF Found(o) THEN {"succeeded"}
                      ELSE IF capability[o] # "provider" THEN {"failed"} ELSE {})

Reconcile(w) ==
    /\ Calling(w, "reconcile") /\ WithinDeadline(w)
    /\ \E outcome \in Findings(worker[w].op) : Answer(w, outcome, FALSE)
    /\ UNCHANGED <<environment, authorization, ledger, queue, resolution, effect>>

\* A context that has ended fails the call before it is sent.
DeadlineExceeded(w) ==
    /\ worker[w].pc = "call" /\ ~WithinDeadline(w)
    /\ Answer(w, "unknown", FALSE)
    /\ UNCHANGED <<environment, authorization, ledger, queue, resolution, effect>>

CurrentAny(w) == TRUE
\* Neither settled nor taken over.
Current(w) ==
    LET row == ledger[worker[w].op] IN
    /\ worker[w].attempt = Len(row.attempts)
    /\ row.state \in InFlight

\* spyglass_complete_runner_action_v2; a stale completion is refused.
Complete(w) ==
    LET o == worker[w].op
        outcome == worker[w].outcome
        retry == /\ worker[w].mode = "execute" /\ outcome = "failed"
                 /\ worker[w].retryable /\ enabled[o] /\ Count(o) < MaxDefiniteAttempts
        row == [state |-> IF retry THEN "retry_wait" ELSE outcome, lapsed |-> FALSE,
                attempts |-> [ledger[o].attempts EXCEPT ![worker[w].attempt].outcome = outcome]]
    IN
    /\ worker[w].pc = "settle"
    /\ IF Current(w) THEN WriteLedger(o, row) ELSE UNCHANGED <<ledger, queue>>
    /\ worker' = [worker EXCEPT ![w] = Idle]
    /\ UNCHANGED <<environment, authorization, resolution, effect>>

\* The process is lost, or its audit or completion fails: the lease is left to lapse.
Crash(w) ==
    /\ worker[w] # Idle
    /\ worker' = [worker EXCEPT ![w] = Idle]
    /\ UNCHANGED <<environment, authorization, ledger, queue, resolution, effect>>

-----------------------------------------------------------------------------
(***************************************************************************)
(* Manual resolution by two people                                         *)
(***************************************************************************)
RequestResolution(o, u, outcome) ==
    /\ ledger[o].state = "unknown"
    /\ resolution' = [resolution EXCEPT ![o] =
          [state |-> "pending", outcome |-> outcome, by |-> u, confirmer |-> "none"]]
    /\ WriteLedger(o, [ledger[o] EXCEPT !.state = "manual_resolution"])
    /\ UNCHANGED <<environment, authorization, effect, worker>>

DistinctConfirmer(o, u) == resolution[o].by # u

ConfirmResolution(o, u) ==
    /\ resolution[o].state = "pending" /\ DistinctConfirmer(o, u)
    /\ ledger[o].state = "manual_resolution"
    /\ resolution' = [resolution EXCEPT ![o].state = "applied", ![o].confirmer = u]
    /\ WriteLedger(o, [ledger[o] EXCEPT !.state = resolution[o].outcome])
    /\ UNCHANGED <<environment, authorization, effect, worker>>

-----------------------------------------------------------------------------
(***************************************************************************)
(* The environment                                                         *)
(***************************************************************************)
LeaseLapses(o) ==
    /\ ledger[o].state \in InFlight /\ ~ledger[o].lapsed
    /\ ledger' = [ledger EXCEPT ![o].lapsed = TRUE]
    /\ UNCHANGED <<environment, authorization, queue, resolution, effect, worker>>

\* No lease outlives the approval window.
WindowMoves(o) ==
    /\ window[o] # "closed"
    /\ window' = [window EXCEPT ![o] = IF @ = "open" THEN "closing" ELSE "closed"]
    /\ ledger' = [ledger EXCEPT ![o].lapsed =
                     @ \/ (window[o] = "closing" /\ ledger[o].state \in InFlight)]
    /\ UNCHANGED <<capability, runner, enabled, revised, authorization, queue, resolution,
                   effect, worker>>

RunnerEnds(o) ==
    /\ runner[o]
    /\ runner' = [runner EXCEPT ![o] = FALSE]
    /\ UNCHANGED <<capability, window, enabled, revised, authorization, ledger, queue,
                   resolution, effect, worker>>

\* A successor of the executor version is enabled.
Supersede(o) ==
    /\ ledger[o].state # "absent" /\ enabled[o]
    /\ enabled' = [enabled EXCEPT ![o] = FALSE]
    /\ UNCHANGED <<capability, window, runner, revised, authorization, ledger, queue,
                   resolution, effect, worker>>

\* People revise, pause, resume or delete the schedule, or its next occurrence is
\* dispatched: each raises its version.
Revise(o) ==
    /\ capability[o] = "schedule" /\ effect[o] = "done" /\ ~revised[o]
    /\ revised' = [revised EXCEPT ![o] = TRUE]
    /\ UNCHANGED <<capability, window, runner, enabled, authorization, ledger, queue,
                   resolution, effect, worker>>

\* A request whose answer was lost is carried out late, or never.
Lands(o) ==
    /\ effect[o] = "flying"
    /\ \E e \in {"done", "none"} : effect' = [effect EXCEPT ![o] = e]
    /\ UNCHANGED <<environment, authorization, ledger, queue, resolution, worker>>

WorkerStep(w) == Execute(w) \/ Reconcile(w) \/ DeadlineExceeded(w) \/ Complete(w)

Next ==
    \/ \E w \in Workers :
        \/ \E o \in Operations : Claim(w, o) \/ Begin(w, o)
        \/ WorkerStep(w) \/ Crash(w)
    \/ \E o \in Operations :
        \/ RecordAuthorization(o) \/ CancelAuthorization(o) \/ ClaimDrops(o)
        \/ \E u \in Users :
            \/ \E outcome \in {"succeeded", "failed"} : RequestResolution(o, u, outcome)
            \/ ConfirmResolution(o, u)
        \/ LeaseLapses(o) \/ WindowMoves(o) \/ RunnerEnds(o) \/ Supersede(o) \/ Revise(o) \/ Lands(o)

Spec == Init /\ [][Next]_vars

\* The broker polls the queue and runs what it has claimed to its deadline; leases are
\* finite.  Nothing is assumed of people or of the runner.
Fairness ==
    /\ \A o \in Operations :
        /\ WF_vars(\E w \in Workers : Claim(w, o))
        /\ WF_vars(ClaimDrops(o))
        /\ WF_vars(LeaseLapses(o))
    /\ \A w \in Workers : WF_vars(WorkerStep(w))

FairSpec == Spec /\ Fairness

-----------------------------------------------------------------------------
(***************************************************************************)
(* Properties                                                              *)
(***************************************************************************)
Row == [state: LedgerStates, lapsed: BOOLEAN, attempts: Seq(Attempt)]
Working == [pc: {"call"}, op: Operations, attempt: Nat, mode: Modes, via: {"queue", "runner"}]
Answered == [pc: {"settle"}, op: Operations, attempt: Nat, mode: Modes,
             via: {"queue", "runner"}, outcome: Outcomes, retryable: BOOLEAN]

TypeOK ==
    /\ capability \in [Operations -> Capabilities]
    /\ window \in [Operations -> {"open", "closing", "closed"}]
    /\ runner \in [Operations -> BOOLEAN]
    /\ enabled \in [Operations -> BOOLEAN]
    /\ revised \in [Operations -> BOOLEAN]
    /\ authorization \in [Operations -> {"none", "approved", "canceled"}]
    /\ ledger \in [Operations -> Row]
    /\ queue \subseteq Operations
    /\ resolution \in [Operations -> [state: {"none", "pending", "applied"},
                                      outcome: {"none", "succeeded", "failed"},
                                      by: Users \cup {"none"}, confirmer: Users \cup {"none"}]]
    /\ effect \in [Operations -> {"none", "flying", "done"}]
    /\ worker \in [Workers -> {Idle} \cup Working \cup Answered]

LastOutcome(o) == IF Count(o) = 0 THEN "none" ELSE ledger[o].attempts[Count(o)].outcome

\* What an attempt reports is true of the world, and stays true, although an executor may
\* outlive its lease and an answer may be lost: an attempt that succeeded had its effect;
\* after one that failed there is no effect and none is to come, unless the action is over
\* and created a schedule that was changed before the lookup (Execute, Reconcile, Complete).
OutcomesTruthful ==
    \A o \in Operations :
        /\ \A n \in 1..Count(o) :
            ledger[o].attempts[n].outcome = "succeeded" => effect[o] = "done"
        /\ LastOutcome(o) = "failed" =>
            effect[o] = "none" \/ (revised[o] /\ ledger[o].state = "failed")

\* The ledger and the history of attempts agree: only the latest attempt can be open, it
\* is open exactly while the action is in flight, and the state is its outcome unless
\* people have decided an unknown one.
LedgerMatchesAttempts ==
    \A o \in Operations :
        LET state == ledger[o].state IN
        /\ \A n \in 1..(Count(o) - 1) : ledger[o].attempts[n].outcome # "none"
        /\ state \in InFlight <=> Count(o) > 0 /\ LastOutcome(o) = "none"
        /\ state = "retry_wait" => LastOutcome(o) = "failed"
        /\ state \in Outcomes => LastOutcome(o) \in {state, "unknown"}

\* Dual control: an outcome that no attempt reported was requested by one person and
\* confirmed by another, and an action waits for a person exactly while a request is
\* pending.
DualControl ==
    \A o \in Operations :
        LET row == resolution[o] IN
        /\ ledger[o].state = "manual_resolution" <=> row.state = "pending"
        /\ ledger[o].state \in {"succeeded", "failed"} /\ LastOutcome(o) = "unknown" =>
            /\ row.state = "applied" /\ row.outcome = ledger[o].state
            /\ row.confirmer \in Users \ {row.by}

\* A canceled approval never executes, before or after: cancellation and claim exclude
\* each other.
CanceledNeverExecutes ==
    \A o \in Operations : authorization[o] = "canceled" =>
        ledger[o].state = "absent" /\ effect[o] = "none"

\* While the approval is open no action that can still make progress by itself is
\* missing from the queue.
UnsettledQueued ==
    \A o \in Operations : authorization[o] = "approved" /\ window[o] = "open" =>
        \/ o \in queue
        \/ Settled(o)

\* The ledger agrees with every table that follows it or that it follows: the history of
\* attempts, the manual resolutions, the authorization and the queue, although each is
\* written by other actors and some only by a trigger.
LedgerConsistent == LedgerMatchesAttempts /\ DualControl /\ CanceledNeverExecutes /\ UnsettledQueued

\* An execution is admitted only when no earlier one has had an effect, is on its way or
\* can still be started.
ExecutionsExclusive ==
    \A w \in Workers :
        worker[w] = Idle /\ worker'[w] # Idle /\ worker'[w].mode = "execute" =>
            LET o == worker'[w].op IN
            /\ effect[o] = "none"
            /\ \A v \in Workers :
                worker[v] # Idle /\ worker[v].op = o /\ Calling(v, "execute") => ~WithinDeadline(v)
SafeExecute == [][ExecutionsExclusive]_vars

Exhausted(o) == Count(o) >= AttemptLimit

\* An approved action comes to an outcome or before a person, through crashes, lapsed
\* leases and retries, unless it is canceled, its approval runs out, its executor
\* version is withdrawn between retries or its attempts are used up.
ApprovedActionDecided ==
    \A o \in Operations :
        authorization[o] = "approved" ~>
            \/ ledger[o].state \in Outcomes \cup {"manual_resolution"}
            \/ authorization[o] = "canceled"
            \/ window[o] = "closed"
            \/ ledger[o].state = "retry_wait" /\ ~enabled[o]
            \/ Exhausted(o)
=============================================================================
