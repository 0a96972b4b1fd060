----------------------------- MODULE AgentPipeline ----------------------------
(***************************************************************************)
(* One Agent run: its turns are dispatched to runners and their results    *)
(* projected by two kinds of workers, each with a durable queue and        *)
(* expiring leases in the cell database, while the AI Tokens of a turn are *)
(* reserved and closed in the global database.  Every database call of a   *)
(* worker is a step, so that it can die or be overtaken between any two.   *)
(* The runners are those of RunnerLifecycle, which RunnerControl           *)
(* implements.  Of a row's lease the model keeps the worker that took it:  *)
(* a worker that dies forgets its claim.                                   *)
(***************************************************************************)
EXTENDS Integers, FiniteSetsExt

CONSTANTS
    MaxTurn,        \* turns of the run
    Dispatchers,    \* agent dispatch workers
    Projectors,     \* agent result projection workers
    MaxAttempts,    \* attempts of a queue row before it is dead lettered
    MaxFaults,      \* bound: crashes, overrun leases and failed calls
    MaxRequeues     \* bound: operator requeues

ASSUME PipelineAssumption ==
    /\ MaxTurn \in Nat \ {0} /\ MaxAttempts \in Nat \ {0}
    /\ MaxFaults \in Nat /\ MaxRequeues \in Nat
    /\ Dispatchers \cap Projectors = {}

Turns == 1..MaxTurn

VARIABLES
    run,            \* agent_runs.state
    invocation,     \* per turn: agent_invocations.status
    admitted,       \* turns whose invocation records its Token reservation
    dispatch,       \* per turn: agent_dispatch_queue row
    projection,     \* per turn: agent_result_projection_queue row
    tokens,         \* per turn: the reservation in the global ledger
    status,         \* per turn: its runner
    result,         \* per turn: the result in its exchange
    worker,         \* per worker: the call it makes next
    faults, requeues

vars == <<run, invocation, admitted, dispatch, projection, tokens, status, result, worker, faults, requeues>>
runVars == <<run, invocation>>
runnerVars == <<status, result>>
bounds == <<faults, requeues>>

Runner == INSTANCE RunnerLifecycle WITH Invocations <- Turns

Nobody == "nobody"
Row(state) == [state |-> state, attempts |-> 0, owner |-> Nobody, lapsed |-> FALSE]
Idle == [call |-> "idle", turn |-> 0]

\* Every invocation gets its projection row at once, only the first turn its
\* dispatch row.
Init ==
    /\ run = "planned"
    /\ invocation = [t \in Turns |-> "queued"]
    /\ admitted = {}
    /\ dispatch = [t \in Turns |-> Row(IF t = 1 THEN "pending" ELSE "absent")]
    /\ projection = [t \in Turns |-> Row("pending")]
    /\ tokens = [t \in Turns |-> "none"]
    /\ Runner!LifecycleInit
    /\ worker = [w \in Dispatchers \cup Projectors |-> Idle]
    /\ faults = 0 /\ requeues = 0

-------------------------------------------------------------------------------
(* Both queues                                                             *)

\* Mutant: a lease is never taken over.
ClaimableOnce(r) == r.state \in {"pending", "retry"}

Claimable(r) == r.state \in {"pending", "retry"} \/ (r.state = "leased" /\ r.lapsed)

\* Attempts beyond the maximum need not be told apart.
Leased(r, w) ==
    [state |-> "leased", attempts |-> Min({r.attempts + 1, MaxAttempts}), owner |-> w, lapsed |-> FALSE]

Turn(w) == worker[w].turn
At(w, call) == worker[w].call = call
Go(w, call) == worker' = [worker EXCEPT ![w].call = call]
Stop(w) == worker' = [worker EXCEPT ![w] = Idle]

\* The lease a failure needs: it may have expired if nobody took it over.
Owns(w, r) == r.state = "leased" /\ r.owner = w

\* The lease everything else needs.
Holds(w, r) == Owns(w, r) /\ ~r.lapsed

\* Mutant: the lease stays on the row.
FailedLeased(w, r) == [r EXCEPT !.state = IF At(w, "retry") /\ r.attempts < MaxAttempts THEN "retry" ELSE "dead_letter"]

\* The row after a failed attempt.
Failed(w, r) ==
    [Row(IF At(w, "retry") /\ r.attempts < MaxAttempts THEN "retry" ELSE "dead_letter") EXCEPT !.attempts = r.attempts]

\* Closing a closed reservation changes nothing.
CloseTokens(t, as) == tokens' = [tokens EXCEPT ![t] = IF @ = "active" THEN as ELSE @]

\* A run that failed at turn t: later turns are canceled.
FailTurn(t) ==
    /\ invocation' = [u \in Turns |-> CASE u = t -> "failed"
                                        [] u > t /\ invocation[u] = "queued" -> "canceled"
                                        [] OTHER -> invocation[u]]
    /\ run' = IF \E u \in Turns : invocation[u] = "succeeded" THEN "partially_failed" ELSE "failed"

-------------------------------------------------------------------------------
(* Dispatch                                                                *)

DispatchClaim(w, t) ==
    /\ worker[w] = Idle
    /\ Claimable(dispatch[t])
    /\ dispatch' = [dispatch EXCEPT ![t] = Leased(@, w)]
    /\ worker' = [worker EXCEPT ![w] = [call |-> "load", turn |-> t]]
    /\ UNCHANGED <<runVars, admitted, projection, tokens, runnerVars, bounds>>

\* A snapshot exists only of a queued invocation; one that records its
\* reservation needs no further admission.
Load(w) ==
    LET t == Turn(w) IN
    /\ At(w, "load")
    /\ Go(w, IF invocation[t] # "queued" THEN "reject" ELSE IF t \in admitted THEN "provision" ELSE "reserve")
    /\ UNCHANGED <<runVars, admitted, dispatch, projection, tokens, runnerVars, bounds>>

\* Tokens are reserved, found reserved, found closed, or denied.
ReserveTokens(w) ==
    LET t == Turn(w) IN
    /\ At(w, "reserve")
    /\ \/ tokens[t] \in {"none", "active"} /\ tokens' = [tokens EXCEPT ![t] = "active"] /\ Go(w, "admit")
       \/ tokens[t] # "active" /\ Go(w, "reject") /\ UNCHANGED tokens
    /\ UNCHANGED <<runVars, admitted, dispatch, projection, runnerVars, bounds>>

AdmitTokens(w) ==
    LET t == Turn(w) IN
    /\ At(w, "admit")
    /\ IF Holds(w, dispatch[t])
       THEN IF invocation[t] = "queued" THEN admitted' = admitted \cup {t} /\ Go(w, "provision")
                                        ELSE UNCHANGED admitted /\ Go(w, "retry")
       ELSE UNCHANGED admitted /\ Stop(w)
    /\ UNCHANGED <<runVars, dispatch, projection, tokens, runnerVars, bounds>>

\* Provisioning is idempotent and does not look at the lease.
ProvisionRunner(w) ==
    /\ At(w, "provision")
    /\ IF status[Turn(w)] = "absent" THEN Runner!Provision(Turn(w)) ELSE UNCHANGED runnerVars
    /\ Go(w, "complete")
    /\ UNCHANGED <<runVars, admitted, dispatch, projection, tokens, bounds>>

CompleteDispatch(w) ==
    LET t == Turn(w) IN
    /\ At(w, "complete")
    /\ dispatch' = IF Holds(w, dispatch[t]) THEN [dispatch EXCEPT ![t] = Row("provisioned")] ELSE dispatch
    /\ Stop(w)
    /\ UNCHANGED <<runVars, admitted, projection, tokens, runnerVars, bounds>>

\* Mutant: a dead letter ends its turn whatever became of it.
TerminalAllowedAlways(t) == TRUE

\* A dead letter ends its turn, which has to be undecided.
TerminalAllowed(t) == invocation[t] = "queued"

\* A failed attempt is recorded first; a dead letter decides the turn and the
\* run in the same transaction, and the Tokens are closed by a later call.
FailDispatch(w) ==
    LET t == Turn(w)
        next == Failed(w, dispatch[t]) IN
    /\ At(w, "retry") \/ At(w, "reject")
    /\ CASE ~Owns(w, dispatch[t]) \/ (next.state = "dead_letter" /\ ~TerminalAllowed(t)) ->
                Stop(w) /\ UNCHANGED <<runVars, dispatch, projection>>
         [] Owns(w, dispatch[t]) /\ next.state = "retry" ->
                Stop(w) /\ dispatch' = [dispatch EXCEPT ![t] = next] /\ UNCHANGED <<runVars, projection>>
         [] OTHER ->
                /\ dispatch' = [dispatch EXCEPT ![t] = next]
                /\ FailTurn(t)
                /\ projection' = [u \in Turns |->
                       IF u >= t /\ invocation'[u] \in {"failed", "canceled"} THEN Row("projected") ELSE projection[u]]
                /\ Go(w, "close")
    /\ UNCHANGED <<admitted, tokens, runnerVars, bounds>>

-------------------------------------------------------------------------------
(* Projection                                                              *)

\* A claim needs a runner that ended by itself.  A turn that is decided, or
\* that has no result, is dead lettered by the claim itself, Tokens untouched.
ProjectionClaim(w, t) ==
    /\ worker[w] = Idle
    /\ Claimable(projection[t])
    /\ status[t] \in Runner!Results
    /\ IF invocation[t] = "queued" /\ result[t] # "none"
       THEN /\ projection' = [projection EXCEPT ![t] = Leased(@, w)]
            /\ worker' = [worker EXCEPT ![w] = [call |-> "decode", turn |-> t]]
       ELSE /\ projection' = [projection EXCEPT ![t] = Failed(w, Leased(@, w))]
            /\ UNCHANGED worker
    /\ UNCHANGED <<runVars, admitted, dispatch, tokens, runnerVars, bounds>>

\* Mutant: the success is projected before the Tokens are settled.
SettlesFirstNot == "success"

\* The call that follows the decoding of a valid output.
SettlesFirst == "settle"

\* The envelope holds a valid output, or a failure or an unusable output.
Decode(w) ==
    /\ At(w, "decode")
    /\ \/ result[Turn(w)] = "completed" /\ Go(w, SettlesFirst)
       \/ Go(w, "release")
    /\ UNCHANGED <<runVars, admitted, dispatch, projection, tokens, runnerVars, bounds>>

\* Actual usage is settled; the result policy is applied only then, and an
\* output it denies is released, to no effect, and projected as a failure.
SettleTokens(w) ==
    /\ At(w, "settle")
    /\ CloseTokens(Turn(w), "settled")
    /\ Go(w, "success") \/ Go(w, "release")
    /\ UNCHANGED <<runVars, admitted, dispatch, projection, runnerVars, bounds>>

ReleaseTokens(w) ==
    /\ At(w, "release")
    /\ CloseTokens(Turn(w), "released")
    /\ Go(w, "failure")
    /\ UNCHANGED <<runVars, admitted, dispatch, projection, runnerVars, bounds>>

\* The success, its message, the next turn and the run change together.
ProjectSuccess(w) ==
    LET t == Turn(w) IN
    /\ At(w, "success")
    /\ IF Holds(w, projection[t]) /\ invocation[t] = "queued"
       THEN /\ invocation' = [invocation EXCEPT ![t] = "succeeded"]
            /\ dispatch' = [u \in Turns |-> IF u = t + 1 /\ invocation[u] = "queued" /\ dispatch[u].state = "absent"
                                            THEN Row("pending") ELSE dispatch[u]]
            /\ run' = IF \A u \in Turns : invocation'[u] = "succeeded" THEN "succeeded" ELSE "running"
            /\ projection' = [projection EXCEPT ![t] = Row("projected")]
       ELSE UNCHANGED <<runVars, dispatch, projection>>
    /\ Stop(w)
    /\ UNCHANGED <<admitted, tokens, runnerVars, bounds>>

ProjectFailure(w) ==
    LET t == Turn(w) IN
    /\ At(w, "failure")
    /\ IF Holds(w, projection[t]) /\ invocation[t] = "queued"
       THEN FailTurn(t) /\ projection' = [projection EXCEPT ![t] = Row("projected")]
       ELSE UNCHANGED <<runVars, projection>>
    /\ Stop(w)
    /\ UNCHANGED <<admitted, dispatch, tokens, runnerVars, bounds>>

FailProjection(w) ==
    LET t == Turn(w)
        next == Failed(w, projection[t]) IN
    /\ At(w, "retry") \/ At(w, "reject")
    /\ IF Owns(w, projection[t])
       THEN /\ projection' = [projection EXCEPT ![t] = next]
            /\ IF next.state = "dead_letter" THEN Go(w, "close") ELSE Stop(w)
       ELSE UNCHANGED projection /\ Stop(w)
    /\ UNCHANGED <<runVars, admitted, dispatch, tokens, runnerVars, bounds>>

\* After a dead letter of either queue: a zero-usage close.  A reservation
\* that was never made is no error.
CloseAfterDeadLetter(w) ==
    /\ At(w, "close")
    /\ CloseTokens(Turn(w), "released")
    /\ Stop(w)
    /\ UNCHANGED <<runVars, admitted, dispatch, projection, runnerVars, bounds>>

-------------------------------------------------------------------------------
(* Operators, runners and failures                                         *)

Requeue(t) ==
    /\ requeues < MaxRequeues
    /\ requeues' = requeues + 1
    /\ \/ dispatch[t].state = "dead_letter" /\ dispatch' = [dispatch EXCEPT ![t] = Row("pending")] /\ UNCHANGED projection
       \/ projection[t].state = "dead_letter" /\ projection' = [projection EXCEPT ![t] = Row("pending")] /\ UNCHANGED dispatch
    /\ UNCHANGED <<runVars, admitted, tokens, runnerVars, worker, faults>>

RunnerMoves(t) ==
    /\ Runner!RunnerStep(t)
    /\ UNCHANGED <<runVars, admitted, dispatch, projection, tokens, worker, bounds>>

\* A call of a worker fails and is to be tried again.
Unavailable(w) ==
    /\ worker[w].call \in {"load", "reserve", "admit", "provision", "complete", "settle", "release", "success", "failure"}
    /\ faults < MaxFaults
    /\ faults' = faults + 1
    /\ Go(w, "retry")
    /\ UNCHANGED <<runVars, admitted, dispatch, projection, tokens, runnerVars, requeues>>

\* The request has expired or conflicts, the envelope or its projection is
\* invalid: no retry would help.
Refused(w) ==
    /\ worker[w].call \in {"provision", "decode", "success", "failure"} /\ faults < MaxFaults
    /\ faults' = faults + 1
    /\ Go(w, "reject")
    /\ UNCHANGED <<runVars, admitted, dispatch, projection, tokens, runnerVars, requeues>>

Crash(w) ==
    /\ worker[w] # Idle /\ faults < MaxFaults
    /\ faults' = faults + 1
    /\ Stop(w)
    /\ UNCHANGED <<runVars, admitted, dispatch, projection, tokens, runnerVars, requeues>>

\* A lease expires.  Under a worker that still works on its row this is one
\* of the bounded faults.
Attended(r, t) == r.owner \in DOMAIN worker /\ worker[r.owner].turn = t

Lapses(r, t) ==
    /\ r.state = "leased" /\ ~r.lapsed
    /\ Attended(r, t) => faults < MaxFaults
    /\ faults' = IF Attended(r, t) THEN faults + 1 ELSE faults

LeaseExpires(t) ==
    /\ \/ Lapses(dispatch[t], t) /\ dispatch' = [dispatch EXCEPT ![t].lapsed = TRUE] /\ UNCHANGED projection
       \/ Lapses(projection[t], t) /\ projection' = [projection EXCEPT ![t].lapsed = TRUE] /\ UNCHANGED dispatch
    /\ UNCHANGED <<runVars, admitted, tokens, runnerVars, worker, requeues>>

Dispatching(w) ==
    \/ Load(w) \/ ReserveTokens(w) \/ AdmitTokens(w) \/ ProvisionRunner(w) \/ CompleteDispatch(w) \/ FailDispatch(w)
    \/ CloseAfterDeadLetter(w)
Projecting(w) ==
    \/ Decode(w) \/ SettleTokens(w) \/ ReleaseTokens(w) \/ ProjectSuccess(w) \/ ProjectFailure(w) \/ FailProjection(w)
    \/ CloseAfterDeadLetter(w)

Next ==
    \/ \E w \in Dispatchers : Dispatching(w) \/ \E t \in Turns : DispatchClaim(w, t)
    \/ \E w \in Projectors : Projecting(w) \/ \E t \in Turns : ProjectionClaim(w, t)
    \/ \E w \in Dispatchers \cup Projectors : Unavailable(w) \/ Refused(w) \/ Crash(w)
    \/ \E t \in Turns : Requeue(t) \/ RunnerMoves(t) \/ LeaseExpires(t)

Spec == Init /\ [][Next]_vars

\* Workers poll their queue again and again and go on with what they claimed;
\* leases of dead workers run out; a runner that is open is decided at last
\* (RunnerControl, InvocationDecided).  Nothing forces an operator to act.
FairSpec ==
    /\ Spec
    /\ \A w \in Dispatchers : WF_vars(Dispatching(w))
    /\ \A w \in Projectors : WF_vars(Projecting(w))
    /\ \A t \in Turns :
           /\ SF_vars(\E w \in Dispatchers : DispatchClaim(w, t))
           /\ SF_vars(\E w \in Projectors : ProjectionClaim(w, t))
           /\ WF_vars(LeaseExpires(t) /\ faults' = faults)
           /\ WF_vars(RunnerMoves(t) /\ status'[t] # "open" /\ status[t] # "dead_letter")

-------------------------------------------------------------------------------
(* Properties                                                              *)

QueueStates == {"absent", "pending", "leased", "retry", "dead_letter", "provisioned", "projected"}

\* Rows, invocations and reservations have their types; leases belong to the
\* workers of the queue.
TypeOK ==
    /\ run \in {"planned", "running", "succeeded", "failed", "partially_failed"}
    /\ invocation \in [Turns -> {"queued", "succeeded", "failed", "canceled"}]
    /\ tokens \in [Turns -> {"none", "active", "released", "settled"}]
    /\ status \in [Turns -> Runner!Statuses] /\ result \in [Turns -> Runner!Results \cup {"none"}]
    /\ \A t \in Turns :
           /\ dispatch[t].state \in QueueStates \ {"projected"} /\ projection[t].state \in QueueStates \ {"absent", "provisioned"}
           /\ dispatch[t].attempts \in 0..MaxAttempts /\ projection[t].attempts \in 0..MaxAttempts
           /\ dispatch[t].owner \in IF dispatch[t].state = "leased" THEN Dispatchers ELSE {Nobody}
           /\ projection[t].owner \in IF projection[t].state = "leased" THEN Projectors ELSE {Nobody}

\* A turn takes Tokens or a runner only after every earlier turn succeeded,
\* whatever is retried, requeued or late.
TurnsInOrder ==
    \A t \in Turns : (dispatch[t].state # "absent" \/ tokens[t] # "none" \/ status[t] # "absent")
        => \A u \in 1..(t - 1) : invocation[u] = "succeeded"

\* The run always agrees with its turns, although dispatch and projection
\* workers decide turns independently: a decided run has no undecided turn,
\* and no turn succeeds behind one that did not.
RunMatchesTurns ==
    LET Are(s) == {t \in Turns : invocation[t] = s} IN
    /\ run = "planned" <=> Are("queued") = Turns
    /\ run = "running" <=> (Are("succeeded") # {} /\ Are("queued") # {})
    /\ run = "succeeded" <=> Are("succeeded") = Turns
    /\ run = "failed" <=> (Are("succeeded") = {} /\ Are("failed") # {})
    /\ run = "partially_failed" <=> (Are("succeeded") # {} /\ Are("failed") # {})
    /\ \A t \in Are("succeeded"), u \in Turns \ Are("succeeded") : t < u

\* Tokens are charged only for a completed result, no runner is provisioned
\* without a reservation, and a turn whose success is visible has had its
\* reservation closed.
TokensMatchResults ==
    \A t \in Turns : /\ tokens[t] = "settled" => result[t] = "completed"
                     /\ status[t] # "absent" => tokens[t] # "none"
                     /\ invocation[t] = "succeeded" => tokens[t] \in {"settled", "released"}

\* The runner was given up or canceled, or the projection dead lettered: the
\* code leaves such a turn undecided until an operator acts.
Stranded(t) == status[t] \in {"dead_letter", "canceling", "canceled"} \/ projection[t].state = "dead_letter"

\* Every dispatched turn is decided at last, through crashes, expired leases
\* and failed calls, unless it is stranded.
TurnDecided == \A t \in Turns : dispatch[t].state # "absent" ~> (invocation[t] # "queued" \/ Stranded(t))
===============================================================================
