-------------------------- MODULE AgentPipelineProofs -------------------------
(***************************************************************************)
(* Proofs about an Agent run, for any number of turns, any dispatch and    *)
(* projection workers and any bounds: types, the order of the turns, the   *)
(* agreement of the run with its turns and of the Tokens with the results. *)
(***************************************************************************)
EXTENDS AgentPipeline, TLAPS

-------------------------------------------------------------------------------
(***************************************************************************)
(* The inductive invariant                                                 *)
(***************************************************************************)

Workers == Dispatchers \cup Projectors
Verdicts == {"queued", "succeeded", "failed", "canceled"}
SharedCalls == {"idle", "retry", "reject", "close"}
DispatchCalls == SharedCalls \cup {"load", "reserve", "admit", "provision", "complete"}
ProjectionCalls == SharedCalls \cup {"decode", "settle", "release", "success", "failure"}
QueueRow(states, owners) ==
    [state: states, attempts: 0..MaxAttempts, owner: owners \cup {Nobody}, lapsed: BOOLEAN]
DispatchRow == QueueRow(QueueStates \ {"projected"}, Dispatchers)
ProjectionRow == QueueRow(QueueStates \ {"absent", "provisioned"}, Projectors)

\* A lease has an owner, and nothing else has.
OwnedBy(r, owners) == r.owner \in IF r.state = "leased" THEN owners ELSE {Nobody}

\* What the run, its turns, their Tokens and their runners may be.
Values ==
    /\ run \in {"planned", "running", "succeeded", "failed", "partially_failed"}
    /\ invocation \in [Turns -> Verdicts]
    /\ tokens \in [Turns -> {"none", "active", "released", "settled"}]
    /\ status \in [Turns -> Runner!Statuses] /\ result \in [Turns -> Runner!Results \cup {"none"}]

\* What the two queues may hold.
Queues ==
    /\ dispatch \in [Turns -> DispatchRow] /\ \A t \in Turns : OwnedBy(dispatch[t], Dispatchers)
    /\ projection \in [Turns -> ProjectionRow] /\ \A t \in Turns : OwnedBy(projection[t], Projectors)

\* A worker makes the calls of its kind, about a turn it has claimed.
Calls ==
    /\ worker \in [Workers -> [call: DispatchCalls \cup ProjectionCalls, turn: Nat]]
    /\ \A w \in Workers : worker[w].call # "idle" => worker[w].turn \in Turns
    /\ \A w \in Dispatchers :
           /\ worker[w].call \in DispatchCalls
           /\ worker[w].call # "idle" => dispatch[worker[w].turn].state # "absent"
    /\ \A w \in Projectors :
           /\ worker[w].call \in ProjectionCalls
           /\ worker[w].call # "idle" => status[worker[w].turn] # "absent"

\* A turn has Tokens or a runner only after it was dispatched, and is
\* dispatched only after every earlier turn succeeded.
Begun ==
    \A t \in Turns :
        /\ tokens[t] # "none" \/ status[t] # "absent" => dispatch[t].state # "absent"
        /\ dispatch[t].state # "absent" => \A u \in 1..(t - 1) : invocation[u] = "succeeded"

\* The turns that succeeded come first; a failed one is followed by canceled
\* ones only, and nothing else is canceled.
Shape ==
    \A t \in Turns :
        /\ invocation[t] \in {"succeeded", "failed"} => \A u \in 1..(t - 1) : invocation[u] = "succeeded"
        /\ invocation[t] = "failed" => \A u \in Turns : u > t => invocation[u] = "canceled"
        /\ invocation[t] = "canceled" => \E u \in 1..(t - 1) : invocation[u] = "failed"

\* Tokens are reserved before a runner is provisioned and closed before a
\* success is projected, by the worker that is about to do so.
Paid ==
    /\ \A t \in Turns : /\ t \in admitted => tokens[t] # "none"
                        /\ status[t] # "absent" => tokens[t] # "none"
                        /\ tokens[t] = "settled" => result[t] = "completed"
                        /\ invocation[t] = "succeeded" => tokens[t] \in {"settled", "released"}
    /\ \A w \in Workers :
           /\ worker[w].call \in {"admit", "provision"} => tokens[worker[w].turn] # "none"
           /\ worker[w].call = "settle" => result[worker[w].turn] = "completed"
           /\ worker[w].call = "success" => tokens[worker[w].turn] \in {"settled", "released"}

IInv == Values /\ Queues /\ Calls /\ Begun /\ Shape /\ Paid /\ RunMatchesTurns

\* What the queues make of a row keeps it a row of the queue, with an owner
\* exactly while it is leased.
LEMMA QueueRows ==
    ASSUME NEW states, NEW owners, NEW r \in QueueRow(states, owners), NEW w
    PROVE  /\ \A s \in states : Row(s) \in QueueRow(states, owners)
           /\ "leased" \in states /\ w \in owners => /\ Leased(r, w) \in QueueRow(states, owners)
                                                     /\ OwnedBy(Leased(r, w), owners)
           /\ {"retry", "dead_letter"} \subseteq states => Failed(w, r) \in QueueRow(states, owners)
           /\ [r EXCEPT !.lapsed = TRUE] \in QueueRow(states, owners)
           /\ [r EXCEPT !.lapsed = TRUE].owner = r.owner /\ [r EXCEPT !.lapsed = TRUE].state = r.state
<1>1. \A s \in states : Row(s) \in QueueRow(states, owners)
  BY PipelineAssumption DEF Row, QueueRow
<1>2. Min({r.attempts + 1, MaxAttempts}) \in 0..MaxAttempts
  <2>1. r.attempts \in 0..MaxAttempts /\ MaxAttempts \in Nat \ {0}
    BY PipelineAssumption DEF QueueRow
  <2>2. PICK m \in {r.attempts + 1, MaxAttempts} : \A y \in {r.attempts + 1, MaxAttempts} : m <= y
    BY <2>1
  <2>3. Min({r.attempts + 1, MaxAttempts}) \in {r.attempts + 1, MaxAttempts}
        /\ \A y \in {r.attempts + 1, MaxAttempts} : Min({r.attempts + 1, MaxAttempts}) <= y
    BY <2>2 DEF Min
  <2> QED
    BY <2>1, <2>3
<1>3. ASSUME "leased" \in states, w \in owners
      PROVE  Leased(r, w) \in QueueRow(states, owners) /\ OwnedBy(Leased(r, w), owners)
  BY <1>2, <1>3 DEF Leased, QueueRow, OwnedBy
<1>4. ASSUME {"retry", "dead_letter"} \subseteq states
      PROVE  Failed(w, r) \in QueueRow(states, owners)
  BY <1>1, <1>4 DEF Failed, Row, QueueRow
<1>5. /\ [r EXCEPT !.lapsed = TRUE] \in QueueRow(states, owners)
      /\ [r EXCEPT !.lapsed = TRUE].owner = r.owner /\ [r EXCEPT !.lapsed = TRUE].state = r.state
  BY DEF QueueRow
<1> QED
  BY <1>1, <1>3, <1>4, <1>5

\* Rows without a lease have no owner.
LEMMA Unowned ==
    ASSUME NEW owners, NEW w, NEW r, NEW s, s # "leased"
    PROVE  OwnedBy(Row(s), owners) /\ OwnedBy(Failed(w, r), owners)
  BY DEF OwnedBy, Row, Failed

\* Every step keeps the values of the run, its turns, Tokens and runners.
LEMMA NextValues ==
    ASSUME Values, Calls, [Next]_vars
    PROVE  Values'
<1>1. ASSUME NEW w \in Dispatchers, Load(w)
      PROVE  Values'
  BY <1>1 DEF Values, Load, runVars, runnerVars
<1>2. ASSUME NEW w \in Dispatchers, ReserveTokens(w)
      PROVE  Values'
  <2>1. Turn(w) \in Turns
    BY <1>2 DEF ReserveTokens, Calls, Workers, At, Turn
  <2> QED
    BY <1>2, <2>1 DEF Values, ReserveTokens, runVars, runnerVars
<1>3. ASSUME NEW w \in Dispatchers, AdmitTokens(w)
      PROVE  Values'
  BY <1>3 DEF Values, AdmitTokens, runVars, runnerVars
<1>4. ASSUME NEW w \in Dispatchers, ProvisionRunner(w)
      PROVE  Values'
  <2>1. Turn(w) \in Turns
    BY <1>4 DEF ProvisionRunner, Calls, Workers, At, Turn
  <2> QED
    BY <1>4 DEF Values, ProvisionRunner, Runner!Provision, Runner!Statuses, runVars, runnerVars
<1>5. ASSUME NEW w \in Dispatchers, CompleteDispatch(w)
      PROVE  Values'
  BY <1>5 DEF Values, CompleteDispatch, runVars, runnerVars
<1>6. ASSUME NEW w \in Dispatchers, FailDispatch(w)
      PROVE  Values'
  <2>1. Turn(w) \in Turns
    BY <1>6 DEF FailDispatch, Calls, Workers, At, Turn
  <2> QED
    BY <1>6 DEF Values, FailDispatch, Verdicts, FailTurn, runVars, runnerVars
<1>7. ASSUME NEW w \in Dispatchers, NEW t \in Turns, DispatchClaim(w, t)
      PROVE  Values'
  BY <1>7 DEF Values, DispatchClaim, runVars, runnerVars
<1>8. ASSUME NEW w \in Projectors, Decode(w)
      PROVE  Values'
  BY <1>8 DEF Values, Decode, runVars, runnerVars
<1>9. ASSUME NEW w \in Projectors, SettleTokens(w)
      PROVE  Values'
  <2>1. Turn(w) \in Turns
    BY <1>9 DEF SettleTokens, Calls, Workers, At, Turn
  <2> QED
    BY <1>9, <2>1 DEF Values, SettleTokens, CloseTokens, runVars, runnerVars
<1>10. ASSUME NEW w \in Projectors, ReleaseTokens(w)
      PROVE  Values'
  <2>1. Turn(w) \in Turns
    BY <1>10 DEF ReleaseTokens, Calls, Workers, At, Turn
  <2> QED
    BY <1>10, <2>1 DEF Values, ReleaseTokens, CloseTokens, runVars, runnerVars
<1>11. ASSUME NEW w \in Projectors, ProjectSuccess(w)
      PROVE  Values'
  <2>1. Turn(w) \in Turns
    BY <1>11 DEF ProjectSuccess, Calls, Workers, At, Turn
  <2> QED
    BY <1>11, <2>1 DEF Values, ProjectSuccess, Verdicts, runVars, runnerVars
<1>12. ASSUME NEW w \in Projectors, ProjectFailure(w)
      PROVE  Values'
  <2>1. Turn(w) \in Turns
    BY <1>12 DEF ProjectFailure, Calls, Workers, At, Turn
  <2> QED
    BY <1>12 DEF Values, ProjectFailure, Verdicts, FailTurn, runVars, runnerVars
<1>13. ASSUME NEW w \in Projectors, FailProjection(w)
      PROVE  Values'
  BY <1>13 DEF Values, FailProjection, runVars, runnerVars
<1>14. ASSUME NEW w \in Projectors, NEW t \in Turns, ProjectionClaim(w, t)
      PROVE  Values'
  BY <1>14 DEF Values, ProjectionClaim, runVars, runnerVars
<1>15. ASSUME NEW w \in Workers, CloseAfterDeadLetter(w)
      PROVE  Values'
  <2>1. Turn(w) \in Turns
    BY <1>15 DEF CloseAfterDeadLetter, Calls, Workers, At, Turn
  <2> QED
    BY <1>15, <2>1 DEF Values, CloseAfterDeadLetter, CloseTokens, runVars, runnerVars
<1>16. ASSUME NEW w \in Workers, Unavailable(w)
      PROVE  Values'
  BY <1>16 DEF Values, Unavailable, runVars, runnerVars
<1>17. ASSUME NEW w \in Workers, Refused(w)
      PROVE  Values'
  BY <1>17 DEF Values, Refused, runVars, runnerVars
<1>18. ASSUME NEW w \in Workers, Crash(w)
      PROVE  Values'
  BY <1>18 DEF Values, Crash, runVars, runnerVars
<1>19. ASSUME NEW t \in Turns, Requeue(t)
      PROVE  Values'
  BY <1>19 DEF Values, Requeue, runVars, runnerVars
<1>20. ASSUME NEW t \in Turns, RunnerMoves(t)
      PROVE  Values'
  BY <1>20
     DEF Values, RunnerMoves, Runner!Statuses, Runner!Results, Runner!RunnerStep, Runner!GiveUp,
         Runner!RequestCancel, Runner!FinishCancel, Runner!Submit, Runner!Finish, runVars
<1>21. ASSUME NEW t \in Turns, LeaseExpires(t)
      PROVE  Values'
  BY <1>21 DEF Values, LeaseExpires, runVars, runnerVars
<1>22. CASE UNCHANGED vars
  BY <1>22 DEF Values, vars, runVars, runnerVars
<1> QED
  BY <1>1, <1>2, <1>3, <1>4, <1>5, <1>6, <1>7, <1>8, <1>9, <1>10, <1>11, <1>12, <1>13, <1>14, <1>15, <1>16,
     <1>17, <1>18, <1>19, <1>20, <1>21, <1>22
     DEF Next, Dispatching, Projecting, Workers

\* Writing one row of a queue keeps the queue.
LEMMA QueueWrite ==
    ASSUME NEW t \in Turns, NEW r
    PROVE  /\ dispatch \in [Turns -> DispatchRow] /\ (\A u \in Turns : OwnedBy(dispatch[u], Dispatchers))
              /\ r \in DispatchRow /\ OwnedBy(r, Dispatchers) /\ dispatch' = [dispatch EXCEPT ![t] = r]
                => dispatch' \in [Turns -> DispatchRow] /\ \A u \in Turns : OwnedBy(dispatch'[u], Dispatchers)
           /\ projection \in [Turns -> ProjectionRow] /\ (\A u \in Turns : OwnedBy(projection[u], Projectors))
              /\ r \in ProjectionRow /\ OwnedBy(r, Projectors) /\ projection' = [projection EXCEPT ![t] = r]
                => projection' \in [Turns -> ProjectionRow] /\ \A u \in Turns : OwnedBy(projection'[u], Projectors)
  OBVIOUS

\* The rows that are written, in both queues.
LEMMA QueueValues ==
    ASSUME Queues, NEW t \in Turns, NEW w
    PROVE  /\ \A s \in {"pending", "provisioned"} : Row(s) \in DispatchRow /\ OwnedBy(Row(s), Dispatchers)
           /\ \A s \in {"pending", "projected"} : Row(s) \in ProjectionRow /\ OwnedBy(Row(s), Projectors)
           /\ w \in Dispatchers => Leased(dispatch[t], w) \in DispatchRow /\ OwnedBy(Leased(dispatch[t], w), Dispatchers)
           /\ w \in Projectors => Leased(projection[t], w) \in ProjectionRow /\ OwnedBy(Leased(projection[t], w), Projectors)
           /\ Failed(w, dispatch[t]) \in DispatchRow /\ OwnedBy(Failed(w, dispatch[t]), Dispatchers)
           /\ Failed(w, projection[t]) \in ProjectionRow /\ OwnedBy(Failed(w, projection[t]), Projectors)
           /\ w \in Projectors => /\ Failed(w, Leased(projection[t], w)) \in ProjectionRow
                                  /\ OwnedBy(Failed(w, Leased(projection[t], w)), Projectors)
           /\ LET r == [dispatch[t] EXCEPT !.lapsed = TRUE] IN r \in DispatchRow /\ OwnedBy(r, Dispatchers)
           /\ LET r == [projection[t] EXCEPT !.lapsed = TRUE] IN r \in ProjectionRow /\ OwnedBy(r, Projectors)
<1> DEFINE D == QueueStates \ {"projected"}
           P == QueueStates \ {"absent", "provisioned"}
<1>1. /\ {"pending", "provisioned", "leased", "retry", "dead_letter"} \subseteq D
      /\ {"pending", "projected", "leased", "retry", "dead_letter"} \subseteq P
  BY DEF QueueStates
<1>2. /\ dispatch[t] \in QueueRow(D, Dispatchers) /\ DispatchRow = QueueRow(D, Dispatchers)
      /\ projection[t] \in QueueRow(P, Projectors) /\ ProjectionRow = QueueRow(P, Projectors)
      /\ OwnedBy(dispatch[t], Dispatchers) /\ OwnedBy(projection[t], Projectors)
  BY DEF Queues, DispatchRow, ProjectionRow
<1> HIDE DEF D, P
<1>3. \A s \in {"pending", "provisioned"} : Row(s) \in DispatchRow /\ OwnedBy(Row(s), Dispatchers)
  BY <1>1, <1>2, QueueRows, Unowned
<1>4. \A s \in {"pending", "projected"} : Row(s) \in ProjectionRow /\ OwnedBy(Row(s), Projectors)
  BY <1>1, <1>2, QueueRows, Unowned
<1>5. w \in Dispatchers => Leased(dispatch[t], w) \in DispatchRow /\ OwnedBy(Leased(dispatch[t], w), Dispatchers)
  BY <1>1, <1>2, QueueRows
<1>6. w \in Projectors => Leased(projection[t], w) \in ProjectionRow /\ OwnedBy(Leased(projection[t], w), Projectors)
  BY <1>1, <1>2, QueueRows
<1>7. "pending" # "leased"
  OBVIOUS
<1>8. Failed(w, dispatch[t]) \in DispatchRow /\ OwnedBy(Failed(w, dispatch[t]), Dispatchers)
  BY <1>1, <1>2, <1>7, QueueRows, Unowned
<1>9. \A r \in ProjectionRow : Failed(w, r) \in ProjectionRow /\ OwnedBy(Failed(w, r), Projectors)
  BY <1>1, <1>2, <1>7, QueueRows, Unowned
<1>10. LET r == [dispatch[t] EXCEPT !.lapsed = TRUE] IN r \in DispatchRow /\ OwnedBy(r, Dispatchers)
  BY <1>2, QueueRows DEF OwnedBy
<1>11. LET r == [projection[t] EXCEPT !.lapsed = TRUE] IN r \in ProjectionRow /\ OwnedBy(r, Projectors)
  BY <1>2, QueueRows DEF OwnedBy
<1> QED
  BY <1>2, <1>3, <1>4, <1>5, <1>6, <1>8, <1>9, <1>10, <1>11

\* Every step keeps the rows of both queues.
LEMMA NextQueues ==
    ASSUME Queues, Calls, [Next]_vars
    PROVE  Queues'
<1>1. ASSUME NEW w \in Dispatchers, Load(w)
      PROVE  Queues'
  BY <1>1 DEF Queues, Load
<1>2. ASSUME NEW w \in Dispatchers, ReserveTokens(w)
      PROVE  Queues'
  BY <1>2 DEF Queues, ReserveTokens
<1>3. ASSUME NEW w \in Dispatchers, AdmitTokens(w)
      PROVE  Queues'
  BY <1>3 DEF Queues, AdmitTokens
<1>4. ASSUME NEW w \in Dispatchers, ProvisionRunner(w)
      PROVE  Queues'
  BY <1>4 DEF Queues, ProvisionRunner
<1>5. ASSUME NEW w \in Dispatchers, CompleteDispatch(w)
      PROVE  Queues'
  <2>1. Turn(w) \in Turns
    BY <1>5 DEF CompleteDispatch, Calls, Workers, At, Turn
  <2> QED
    BY <1>5, <2>1, QueueWrite, QueueValues DEF Queues, CompleteDispatch
<1>6. ASSUME NEW w \in Dispatchers, FailDispatch(w)
      PROVE  Queues'
  <2>1. Turn(w) \in Turns
    BY <1>6 DEF FailDispatch, Calls, Workers, At, Turn
  <2>2. dispatch' \in [Turns -> DispatchRow] /\ \A u \in Turns : OwnedBy(dispatch'[u], Dispatchers)
    BY <1>6, <2>1, QueueWrite, QueueValues DEF Queues, FailDispatch
  <2>3. projection' \in [Turns -> ProjectionRow] /\ \A u \in Turns : OwnedBy(projection'[u], Projectors)
    BY <1>6, <2>1, QueueValues DEF Queues, FailDispatch
  <2> QED
    BY <2>2, <2>3 DEF Queues
<1>7. ASSUME NEW w \in Dispatchers, NEW t \in Turns, DispatchClaim(w, t)
      PROVE  Queues'
  BY <1>7, QueueWrite, QueueValues DEF Queues, DispatchClaim
<1>8. ASSUME NEW w \in Projectors, Decode(w)
      PROVE  Queues'
  BY <1>8 DEF Queues, Decode
<1>9. ASSUME NEW w \in Projectors, SettleTokens(w)
      PROVE  Queues'
  BY <1>9 DEF Queues, SettleTokens
<1>10. ASSUME NEW w \in Projectors, ReleaseTokens(w)
      PROVE  Queues'
  BY <1>10 DEF Queues, ReleaseTokens
<1>11. ASSUME NEW w \in Projectors, ProjectSuccess(w)
      PROVE  Queues'
  <2>1. Turn(w) \in Turns
    BY <1>11 DEF ProjectSuccess, Calls, Workers, At, Turn
  <2>2. projection' \in [Turns -> ProjectionRow] /\ \A u \in Turns : OwnedBy(projection'[u], Projectors)
    BY <1>11, <2>1, QueueWrite, QueueValues DEF Queues, ProjectSuccess
  <2>3. dispatch' \in [Turns -> DispatchRow] /\ \A u \in Turns : OwnedBy(dispatch'[u], Dispatchers)
    BY <1>11, <2>1, QueueValues DEF Queues, ProjectSuccess
  <2> QED
    BY <2>2, <2>3 DEF Queues
<1>12. ASSUME NEW w \in Projectors, ProjectFailure(w)
      PROVE  Queues'
  <2>1. Turn(w) \in Turns
    BY <1>12 DEF ProjectFailure, Calls, Workers, At, Turn
  <2> QED
    BY <1>12, <2>1, QueueWrite, QueueValues DEF Queues, ProjectFailure
<1>13. ASSUME NEW w \in Projectors, FailProjection(w)
      PROVE  Queues'
  <2>1. Turn(w) \in Turns
    BY <1>13 DEF FailProjection, Calls, Workers, At, Turn
  <2> QED
    BY <1>13, <2>1, QueueWrite, QueueValues DEF Queues, FailProjection
<1>14. ASSUME NEW w \in Projectors, NEW t \in Turns, ProjectionClaim(w, t)
      PROVE  Queues'
  BY <1>14, QueueWrite, QueueValues DEF Queues, ProjectionClaim
<1>15. ASSUME NEW w \in Workers, CloseAfterDeadLetter(w)
      PROVE  Queues'
  BY <1>15 DEF Queues, CloseAfterDeadLetter
<1>16. ASSUME NEW w \in Workers, Unavailable(w)
      PROVE  Queues'
  BY <1>16 DEF Queues, Unavailable
<1>17. ASSUME NEW w \in Workers, Refused(w)
      PROVE  Queues'
  BY <1>17 DEF Queues, Refused
<1>18. ASSUME NEW w \in Workers, Crash(w)
      PROVE  Queues'
  BY <1>18 DEF Queues, Crash
<1>19. ASSUME NEW t \in Turns, Requeue(t)
      PROVE  Queues'
  BY <1>19, QueueWrite, QueueValues DEF Queues, Requeue
<1>20. ASSUME NEW t \in Turns, RunnerMoves(t)
      PROVE  Queues'
  BY <1>20 DEF Queues, RunnerMoves
<1>21. ASSUME NEW t \in Turns, LeaseExpires(t)
      PROVE  Queues'
  <2>1. /\ [dispatch EXCEPT ![t].lapsed = TRUE] = [dispatch EXCEPT ![t] = [dispatch[t] EXCEPT !.lapsed = TRUE]]
        /\ [projection EXCEPT ![t].lapsed = TRUE] = [projection EXCEPT ![t] = [projection[t] EXCEPT !.lapsed = TRUE]]
    OBVIOUS
  <2> QED
    BY <1>21, <2>1, QueueWrite, QueueValues DEF Queues, LeaseExpires
<1>22. CASE UNCHANGED vars
  BY <1>22 DEF Queues, vars
<1> QED
  BY <1>1, <1>2, <1>3, <1>4, <1>5, <1>6, <1>7, <1>8, <1>9, <1>10, <1>11, <1>12, <1>13, <1>14, <1>15, <1>16,
     <1>17, <1>18, <1>19, <1>20, <1>21, <1>22
     DEF Next, Dispatching, Projecting, Workers

\* No step takes a dispatch row, a runner, a reservation or a result away from
\* a turn, reopens a closed reservation, or decides a turn again.
Kept ==
    \A t \in Turns :
        /\ dispatch[t].state # "absent" => dispatch'[t].state # "absent"
        /\ status[t] # "absent" => status'[t] # "absent"
        /\ tokens[t] # "none" => tokens'[t] # "none"
        /\ tokens[t] \in {"settled", "released"} => tokens'[t] = tokens[t]
        /\ result[t] # "none" => result'[t] = result[t]
        /\ invocation[t] # "queued" => invocation'[t] = invocation[t]

\* What a turn has reached, it keeps.
LEMMA NothingLost ==
    ASSUME Values, Queues, Calls, [Next]_vars
    PROVE  Kept
<1>1. ASSUME NEW w \in Dispatchers, Load(w)
      PROVE  Kept
  BY <1>1 DEF Kept, Load, runVars, runnerVars
<1>2. ASSUME NEW w \in Dispatchers, ReserveTokens(w)
      PROVE  Kept
  <2>1. Turn(w) \in Turns
    BY <1>2 DEF ReserveTokens, Calls, Workers, At, Turn
  <2> QED
    BY <1>2, <2>1 DEF Kept, ReserveTokens, Values, runVars, runnerVars
<1>3. ASSUME NEW w \in Dispatchers, AdmitTokens(w)
      PROVE  Kept
  BY <1>3 DEF Kept, AdmitTokens, runVars, runnerVars
<1>4. ASSUME NEW w \in Dispatchers, ProvisionRunner(w)
      PROVE  Kept
  <2>1. Turn(w) \in Turns
    BY <1>4 DEF ProvisionRunner, Calls, Workers, At, Turn
  <2> QED
    BY <1>4 DEF Kept, ProvisionRunner, Values, Runner!Provision, runVars, runnerVars
<1>5. ASSUME NEW w \in Dispatchers, CompleteDispatch(w)
      PROVE  Kept
  <2>1. Turn(w) \in Turns
    BY <1>5 DEF CompleteDispatch, Calls, Workers, At, Turn
  <2> QED
    BY <1>5 DEF Kept, CompleteDispatch, Row, runVars, runnerVars
<1>6. ASSUME NEW w \in Dispatchers, FailDispatch(w)
      PROVE  Kept
  <2>1. Turn(w) \in Turns
    BY <1>6 DEF FailDispatch, Calls, Workers, At, Turn
  <2> QED
    BY <1>6 DEF Kept, FailDispatch, Queues, FailTurn, TerminalAllowed, Failed, Row, runVars, runnerVars
<1>7. ASSUME NEW w \in Dispatchers, NEW t \in Turns, DispatchClaim(w, t)
      PROVE  Kept
  BY <1>7 DEF Kept, DispatchClaim, Leased, runVars, runnerVars
<1>8. ASSUME NEW w \in Projectors, Decode(w)
      PROVE  Kept
  BY <1>8 DEF Kept, Decode, runVars, runnerVars
<1>9. ASSUME NEW w \in Projectors, SettleTokens(w)
      PROVE  Kept
  <2>1. Turn(w) \in Turns
    BY <1>9 DEF SettleTokens, Calls, Workers, At, Turn
  <2> QED
    BY <1>9 DEF Kept, SettleTokens, CloseTokens, runVars, runnerVars
<1>10. ASSUME NEW w \in Projectors, ReleaseTokens(w)
      PROVE  Kept
  <2>1. Turn(w) \in Turns
    BY <1>10 DEF ReleaseTokens, Calls, Workers, At, Turn
  <2> QED
    BY <1>10 DEF Kept, ReleaseTokens, CloseTokens, runVars, runnerVars
<1>11. ASSUME NEW w \in Projectors, ProjectSuccess(w)
      PROVE  Kept
  <2>1. Turn(w) \in Turns
    BY <1>11 DEF ProjectSuccess, Calls, Workers, At, Turn
  <2> QED
    BY <1>11 DEF Kept, ProjectSuccess, Values, runVars, runnerVars
<1>12. ASSUME NEW w \in Projectors, ProjectFailure(w)
      PROVE  Kept
  <2>1. Turn(w) \in Turns
    BY <1>12 DEF ProjectFailure, Calls, Workers, At, Turn
  <2> QED
    BY <1>12 DEF Kept, ProjectFailure, FailTurn, runVars, runnerVars
<1>13. ASSUME NEW w \in Projectors, FailProjection(w)
      PROVE  Kept
  BY <1>13 DEF Kept, FailProjection, runVars, runnerVars
<1>14. ASSUME NEW w \in Projectors, NEW t \in Turns, ProjectionClaim(w, t)
      PROVE  Kept
  BY <1>14 DEF Kept, ProjectionClaim, runVars, runnerVars
<1>15. ASSUME NEW w \in Workers, CloseAfterDeadLetter(w)
      PROVE  Kept
  <2>1. Turn(w) \in Turns
    BY <1>15 DEF CloseAfterDeadLetter, Calls, Workers, At, Turn
  <2> QED
    BY <1>15 DEF Kept, CloseAfterDeadLetter, CloseTokens, runVars, runnerVars
<1>16. ASSUME NEW w \in Workers, Unavailable(w)
      PROVE  Kept
  BY <1>16 DEF Kept, Unavailable, runVars, runnerVars
<1>17. ASSUME NEW w \in Workers, Refused(w)
      PROVE  Kept
  BY <1>17 DEF Kept, Refused, runVars, runnerVars
<1>18. ASSUME NEW w \in Workers, Crash(w)
      PROVE  Kept
  BY <1>18 DEF Kept, Crash, runVars, runnerVars
<1>19. ASSUME NEW t \in Turns, Requeue(t)
      PROVE  Kept
  BY <1>19 DEF Kept, Requeue, Queues, Row, runVars, runnerVars
<1>20. ASSUME NEW t \in Turns, RunnerMoves(t)
      PROVE  Kept
  BY <1>20
     DEF Kept, RunnerMoves, Values, Runner!Results, Runner!RunnerStep, Runner!GiveUp, Runner!RequestCancel,
         Runner!FinishCancel, Runner!Submit, Runner!Finish, runVars
<1>21. ASSUME NEW t \in Turns, LeaseExpires(t)
      PROVE  Kept
  BY <1>21 DEF Kept, LeaseExpires, Queues, DispatchRow, QueueRow, runVars, runnerVars
<1>22. CASE UNCHANGED vars
  BY <1>22 DEF Kept, vars, runVars, runnerVars
<1> QED
  BY <1>1, <1>2, <1>3, <1>4, <1>5, <1>6, <1>7, <1>8, <1>9, <1>10, <1>11, <1>12, <1>13, <1>14, <1>15, <1>16,
     <1>17, <1>18, <1>19, <1>20, <1>21, <1>22
     DEF Next, Dispatching, Projecting, Workers

\* A worker that goes on with a call of its kind, or stops, keeps the calls in
\* order.
LEMMA WorkerGoes ==
    ASSUME Calls, Kept, NEW w \in Workers, NEW k \in [call: DispatchCalls \cup ProjectionCalls, turn: Nat],
           worker' = [worker EXCEPT ![w] = k],
           k.call # "idle" => k.turn \in Turns,
           w \in Dispatchers => k.call \in DispatchCalls /\ (k.call # "idle" => dispatch'[k.turn].state # "absent"),
           w \in Projectors => k.call \in ProjectionCalls /\ (k.call # "idle" => status'[k.turn] # "absent")
    PROVE  Calls'
<1>1. worker' \in [Workers -> [call: DispatchCalls \cup ProjectionCalls, turn: Nat]]
  BY DEF Calls
<1>2. worker'[w] = k /\ \A v \in Workers \ {w} : worker'[v] = worker[v]
  BY DEF Calls
<1>3. \A v \in Workers : worker'[v].call # "idle" => worker'[v].turn \in Turns
  BY <1>2 DEF Calls
<1>4. \A v \in Dispatchers : /\ worker'[v].call \in DispatchCalls
                             /\ worker'[v].call # "idle" => dispatch'[worker'[v].turn].state # "absent"
  BY <1>2 DEF Calls, Kept, Workers
<1>5. \A v \in Projectors : /\ worker'[v].call \in ProjectionCalls
                            /\ worker'[v].call # "idle" => status'[worker'[v].turn] # "absent"
  BY <1>2 DEF Calls, Kept, Workers
<1> QED
  BY <1>1, <1>3, <1>4, <1>5 DEF Calls

\* The same for a worker that goes on with its turn.
LEMMA WorkerGoesOn ==
    ASSUME Calls, Kept, NEW w \in Workers, worker[w].call # "idle", NEW call, Go(w, call),
           w \in Dispatchers => call \in DispatchCalls, w \in Projectors => call \in ProjectionCalls
    PROVE  Calls'
<1> DEFINE k == [worker[w] EXCEPT !.call = call]
<1>1. worker[w] \in [call: DispatchCalls \cup ProjectionCalls, turn: Nat] /\ worker[w].turn \in Turns
  BY DEF Calls
<1>2. call \in DispatchCalls \cup ProjectionCalls
  BY DEF Workers
<1>3. /\ k \in [call: DispatchCalls \cup ProjectionCalls, turn: Nat]
      /\ k.call = call /\ k.turn = worker[w].turn
  BY <1>1, <1>2
<1>4. worker' = [worker EXCEPT ![w] = k]
  BY DEF Go, Calls
<1>5. /\ w \in Dispatchers => dispatch'[k.turn].state # "absent"
      /\ w \in Projectors => status'[k.turn] # "absent"
  BY <1>1, <1>3 DEF Calls, Kept
<1> HIDE DEF k
<1> QED
  BY <1>1, <1>3, <1>4, <1>5, WorkerGoes

\* A worker may always stop.
LEMMA WorkerStops ==
    ASSUME Calls, Kept, NEW w \in Workers, Stop(w)
    PROVE  Calls'
<1>1. /\ Idle \in [call: DispatchCalls \cup ProjectionCalls, turn: Nat] /\ Idle.call = "idle"
      /\ Idle.call \in DispatchCalls /\ Idle.call \in ProjectionCalls
  BY DEF Idle, DispatchCalls, ProjectionCalls, SharedCalls
<1>2. worker' = [worker EXCEPT ![w] = Idle]
  BY DEF Stop
<1> HIDE DEF Idle
<1> QED
  BY <1>1, <1>2, WorkerGoes

\* Every step keeps the calls of the workers in order.
LEMMA NextCalls ==
    ASSUME Values, Queues, Calls, [Next]_vars
    PROVE  Calls'
<1>1. ASSUME NEW w \in Dispatchers, Load(w)
      PROVE  Calls'
  <2>1. w \in Workers /\ Kept
    BY <1>1, NothingLost DEF Workers
  <2>2. worker[w].call # "idle" /\ \E call \in {"reject", "provision", "reserve"} : Go(w, call)
    BY <1>1 DEF Load, At
  <2>3. {"reject", "provision", "reserve"} \subseteq DispatchCalls
    BY DEF DispatchCalls, SharedCalls
  <2>4. w \notin Projectors
    BY <1>1, PipelineAssumption
  <2> QED
    BY <2>1, <2>2, <2>3, WorkerGoesOn, <2>4
<1>2. ASSUME NEW w \in Dispatchers, ReserveTokens(w)
      PROVE  Calls'
  <2>1. w \in Workers /\ Kept
    BY <1>2, NothingLost DEF Workers
  <2>2. worker[w].call # "idle" /\ \E call \in {"admit", "reject"} : Go(w, call)
    BY <1>2 DEF ReserveTokens, At
  <2>3. {"admit", "reject"} \subseteq DispatchCalls
    BY DEF DispatchCalls, SharedCalls
  <2>4. w \notin Projectors
    BY <1>2, PipelineAssumption
  <2> QED
    BY <2>1, <2>2, <2>3, WorkerGoesOn, <2>4
<1>3. ASSUME NEW w \in Dispatchers, AdmitTokens(w)
      PROVE  Calls'
  <2>1. w \in Workers /\ Kept
    BY <1>3, NothingLost DEF Workers
  <2>2. (worker[w].call # "idle" /\ \E call \in {"provision", "retry"} : Go(w, call)) \/ (Stop(w))
    BY <1>3 DEF AdmitTokens, At
  <2>3. {"provision", "retry"} \subseteq DispatchCalls
    BY DEF DispatchCalls, SharedCalls
  <2>4. w \notin Projectors
    BY <1>3, PipelineAssumption
  <2> QED
    BY <2>1, <2>2, <2>3, WorkerGoesOn, WorkerStops, <2>4
<1>4. ASSUME NEW w \in Dispatchers, ProvisionRunner(w)
      PROVE  Calls'
  <2>1. w \in Workers /\ Kept
    BY <1>4, NothingLost DEF Workers
  <2>2. worker[w].call # "idle" /\ \E call \in {"complete"} : Go(w, call)
    BY <1>4 DEF ProvisionRunner, At
  <2>3. {"complete"} \subseteq DispatchCalls
    BY DEF DispatchCalls, SharedCalls
  <2>4. w \notin Projectors
    BY <1>4, PipelineAssumption
  <2> QED
    BY <2>1, <2>2, <2>3, WorkerGoesOn, <2>4
<1>5. ASSUME NEW w \in Dispatchers, CompleteDispatch(w)
      PROVE  Calls'
  <2>1. w \in Workers /\ Kept
    BY <1>5, NothingLost DEF Workers
  <2>2. Stop(w)
    BY <1>5 DEF CompleteDispatch, At
  <2> QED
    BY <2>1, <2>2, WorkerStops
<1>6. ASSUME NEW w \in Dispatchers, FailDispatch(w)
      PROVE  Calls'
  <2>1. w \in Workers /\ Kept
    BY <1>6, NothingLost DEF Workers
  <2>2. (worker[w].call # "idle" /\ \E call \in {"close"} : Go(w, call)) \/ (Stop(w))
    BY <1>6 DEF FailDispatch, At
  <2>3. {"close"} \subseteq DispatchCalls
    BY DEF DispatchCalls, SharedCalls
  <2>4. w \notin Projectors
    BY <1>6, PipelineAssumption
  <2> QED
    BY <2>1, <2>2, <2>3, WorkerGoesOn, WorkerStops, <2>4
<1>7. ASSUME NEW w \in Dispatchers, NEW t \in Turns, DispatchClaim(w, t)
      PROVE  Calls'
  <2> DEFINE k == [call |-> "load", turn |-> t]
  <2>1. w \in Workers /\ w \notin Projectors /\ Kept
    BY <1>7, NothingLost, PipelineAssumption DEF Workers
  <2>2. worker' = [worker EXCEPT ![w] = k]
    BY <1>7 DEF DispatchClaim
  <2>3. k \in [call: DispatchCalls \cup ProjectionCalls, turn: Nat] /\ k.turn \in Turns /\ k.call \in DispatchCalls
    BY DEF DispatchCalls, Turns
  <2>4. dispatch'[k.turn].state # "absent"
    BY <1>7, <2>1 DEF DispatchClaim, Queues, Leased
  <2> HIDE DEF k
  <2> QED
    BY <2>1, <2>2, <2>3, <2>4, WorkerGoes
<1>8. ASSUME NEW w \in Projectors, Decode(w)
      PROVE  Calls'
  <2>1. w \in Workers /\ Kept
    BY <1>8, NothingLost DEF Workers
  <2>2. worker[w].call # "idle" /\ \E call \in {"settle", "release"} : Go(w, call)
    BY <1>8 DEF Decode, At, SettlesFirst
  <2>3. {"settle", "release"} \subseteq ProjectionCalls
    BY DEF ProjectionCalls, SharedCalls
  <2>4. w \notin Dispatchers
    BY <1>8, PipelineAssumption
  <2> QED
    BY <2>1, <2>2, <2>3, WorkerGoesOn, <2>4
<1>9. ASSUME NEW w \in Projectors, SettleTokens(w)
      PROVE  Calls'
  <2>1. w \in Workers /\ Kept
    BY <1>9, NothingLost DEF Workers
  <2>2. worker[w].call # "idle" /\ \E call \in {"success", "release"} : Go(w, call)
    BY <1>9 DEF SettleTokens, At
  <2>3. {"success", "release"} \subseteq ProjectionCalls
    BY DEF ProjectionCalls, SharedCalls
  <2>4. w \notin Dispatchers
    BY <1>9, PipelineAssumption
  <2> QED
    BY <2>1, <2>2, <2>3, WorkerGoesOn, <2>4
<1>10. ASSUME NEW w \in Projectors, ReleaseTokens(w)
      PROVE  Calls'
  <2>1. w \in Workers /\ Kept
    BY <1>10, NothingLost DEF Workers
  <2>2. worker[w].call # "idle" /\ \E call \in {"failure"} : Go(w, call)
    BY <1>10 DEF ReleaseTokens, At
  <2>3. {"failure"} \subseteq ProjectionCalls
    BY DEF ProjectionCalls, SharedCalls
  <2>4. w \notin Dispatchers
    BY <1>10, PipelineAssumption
  <2> QED
    BY <2>1, <2>2, <2>3, WorkerGoesOn, <2>4
<1>11. ASSUME NEW w \in Projectors, ProjectSuccess(w)
      PROVE  Calls'
  <2>1. w \in Workers /\ Kept
    BY <1>11, NothingLost DEF Workers
  <2>2. Stop(w)
    BY <1>11 DEF ProjectSuccess, At
  <2> QED
    BY <2>1, <2>2, WorkerStops
<1>12. ASSUME NEW w \in Projectors, ProjectFailure(w)
      PROVE  Calls'
  <2>1. w \in Workers /\ Kept
    BY <1>12, NothingLost DEF Workers
  <2>2. Stop(w)
    BY <1>12 DEF ProjectFailure, At
  <2> QED
    BY <2>1, <2>2, WorkerStops
<1>13. ASSUME NEW w \in Projectors, FailProjection(w)
      PROVE  Calls'
  <2>1. w \in Workers /\ Kept
    BY <1>13, NothingLost DEF Workers
  <2>2. (worker[w].call # "idle" /\ \E call \in {"close"} : Go(w, call)) \/ (Stop(w))
    BY <1>13 DEF FailProjection, At
  <2>3. {"close"} \subseteq ProjectionCalls
    BY DEF ProjectionCalls, SharedCalls
  <2>4. w \notin Dispatchers
    BY <1>13, PipelineAssumption
  <2> QED
    BY <2>1, <2>2, <2>3, WorkerGoesOn, WorkerStops, <2>4
<1>14. ASSUME NEW w \in Projectors, NEW t \in Turns, ProjectionClaim(w, t)
      PROVE  Calls'
  <2> DEFINE k == [call |-> "decode", turn |-> t]
  <2>1. w \in Workers /\ w \notin Dispatchers /\ Kept
    BY <1>14, NothingLost, PipelineAssumption DEF Workers
  <2>2. worker' = [worker EXCEPT ![w] = k] \/ UNCHANGED worker
    BY <1>14 DEF ProjectionClaim
  <2>3. k \in [call: DispatchCalls \cup ProjectionCalls, turn: Nat] /\ k.turn \in Turns /\ k.call \in ProjectionCalls
    BY DEF ProjectionCalls, Turns
  <2>4. status'[k.turn] # "absent"
    BY <1>14, <2>1 DEF ProjectionClaim, Kept, Runner!Results
  <2>5. UNCHANGED worker => Calls'
    BY <2>1 DEF Calls, Kept, Workers
  <2> HIDE DEF k
  <2> QED
    BY <2>1, <2>2, <2>3, <2>4, <2>5, WorkerGoes
<1>15. ASSUME NEW w \in Workers, CloseAfterDeadLetter(w)
      PROVE  Calls'
  <2>1. w \in Workers /\ Kept
    BY <1>15, NothingLost DEF Workers
  <2>2. Stop(w)
    BY <1>15 DEF CloseAfterDeadLetter, At
  <2> QED
    BY <2>1, <2>2, WorkerStops
<1>16. ASSUME NEW w \in Workers, Unavailable(w)
      PROVE  Calls'
  <2>1. w \in Workers /\ Kept
    BY <1>16, NothingLost DEF Workers
  <2>2. worker[w].call # "idle" /\ \E call \in {"retry"} : Go(w, call)
    BY <1>16 DEF Unavailable, At
  <2>3. {"retry"} \subseteq DispatchCalls /\ {"retry"} \subseteq ProjectionCalls
    BY DEF DispatchCalls, ProjectionCalls, SharedCalls
  <2> QED
    BY <2>1, <2>2, <2>3, WorkerGoesOn
<1>17. ASSUME NEW w \in Workers, Refused(w)
      PROVE  Calls'
  <2>1. w \in Workers /\ Kept
    BY <1>17, NothingLost DEF Workers
  <2>2. worker[w].call # "idle" /\ \E call \in {"reject"} : Go(w, call)
    BY <1>17 DEF Refused, At
  <2>3. {"reject"} \subseteq DispatchCalls /\ {"reject"} \subseteq ProjectionCalls
    BY DEF DispatchCalls, ProjectionCalls, SharedCalls
  <2> QED
    BY <2>1, <2>2, <2>3, WorkerGoesOn
<1>18. ASSUME NEW w \in Workers, Crash(w)
      PROVE  Calls'
  <2>1. w \in Workers /\ Kept
    BY <1>18, NothingLost DEF Workers
  <2>2. Stop(w)
    BY <1>18 DEF Crash, At
  <2> QED
    BY <2>1, <2>2, WorkerStops
<1>19. ASSUME NEW t \in Turns, Requeue(t)
      PROVE  Calls'
  <2>1. Kept
    BY <1>19, NothingLost
  <2> QED
    BY <1>19, <2>1 DEF Calls, Kept, Workers, Requeue
<1>20. ASSUME NEW t \in Turns, RunnerMoves(t)
      PROVE  Calls'
  <2>1. Kept
    BY <1>20, NothingLost
  <2> QED
    BY <1>20, <2>1 DEF Calls, Kept, Workers, RunnerMoves
<1>21. ASSUME NEW t \in Turns, LeaseExpires(t)
      PROVE  Calls'
  <2>1. Kept
    BY <1>21, NothingLost
  <2> QED
    BY <1>21, <2>1 DEF Calls, Kept, Workers, LeaseExpires
<1>22. CASE UNCHANGED vars
  BY <1>22 DEF Calls, Workers, vars
<1> QED
  BY <1>1, <1>2, <1>3, <1>4, <1>5, <1>6, <1>7, <1>8, <1>9, <1>10, <1>11, <1>12, <1>13, <1>14, <1>15, <1>16,
     <1>17, <1>18, <1>19, <1>20, <1>21, <1>22
     DEF Next, Dispatching, Projecting, Workers

\* The turn a worker is about to decide is the first that is undecided: the
\* turns before it succeeded and those behind it are queued.
LEMMA Frontier ==
    ASSUME Values, Begun, Shape, NEW t \in Turns, invocation[t] = "queued", dispatch[t].state # "absent"
    PROVE  /\ \A u \in Turns : u < t => invocation[u] = "succeeded"
           /\ \A u \in Turns : u > t => invocation[u] = "queued"
<1>1. \A u \in Turns : u < t => invocation[u] = "succeeded"
  BY DEF Begun, Turns
<1>2. ASSUME NEW u \in Turns, u > t
      PROVE  invocation[u] = "queued"
  <2>1. t \in 1..(u - 1)
    BY <1>2, PipelineAssumption DEF Turns
  <2>2. invocation[u] \notin {"succeeded", "failed"}
    BY <2>1 DEF Shape
  <2>3. ASSUME invocation[u] = "canceled"
        PROVE  FALSE
    <3>1. PICK v \in 1..(u - 1) : invocation[v] = "failed"
      BY <2>3 DEF Shape
    <3>2. v \in Turns /\ v # t
      BY <3>1, PipelineAssumption DEF Turns
    <3>3. CASE v < t
      BY <1>1, <3>1, <3>2, <3>3
    <3>4. CASE v > t
      <4>1. t \in 1..(v - 1)
        BY <3>2, <3>4, PipelineAssumption DEF Turns
      <4> QED
        BY <3>1, <3>2, <4>1 DEF Shape
    <3> QED
      BY <3>2, <3>3, <3>4, PipelineAssumption DEF Turns
  <2> QED
    BY <2>2, <2>3 DEF Values, Verdicts
<1> QED
  BY <1>1, <1>2

\* A success moves the frontier by one turn.
LEMMA TurnSucceeds ==
    ASSUME Values, Begun, Shape, NEW t \in Turns, invocation[t] = "queued", dispatch[t].state # "absent",
           invocation' = [invocation EXCEPT ![t] = "succeeded"],
           run' = IF \A u \in Turns : invocation'[u] = "succeeded" THEN "succeeded" ELSE "running"
    PROVE  Shape' /\ RunMatchesTurns'
<1>1. /\ \A u \in Turns : u <= t => invocation'[u] = "succeeded"
      /\ \A u \in Turns : u > t => invocation'[u] = "queued"
  BY Frontier, PipelineAssumption DEF Values, Turns
<1>2. \A u \in Turns : u \in Int /\ 1..(u - 1) \subseteq Turns /\ \A v \in 1..(u - 1) : v < u
  BY PipelineAssumption DEF Turns
<1>3. Shape'
  <2>1. \A u \in Turns : invocation'[u] \in {"succeeded", "queued"}
    BY <1>1, <1>2
  <2>2. \A u \in Turns : invocation'[u] = "succeeded" => u <= t
    BY <1>1, <1>2
  <2> QED
    BY <1>1, <1>2, <2>1, <2>2 DEF Shape
<1>4. RunMatchesTurns'
  <2>1. \A u \in Turns : invocation'[u] = IF u <= t THEN "succeeded" ELSE "queued"
    BY <1>1, <1>2
  <2> QED
    BY <1>2, <2>1 DEF RunMatchesTurns
<1> QED
  BY <1>3, <1>4

\* A failure ends the run: the turns behind it are canceled.
LEMMA TurnFails ==
    ASSUME Values, Begun, Shape, NEW t \in Turns, invocation[t] = "queued", dispatch[t].state # "absent", FailTurn(t)
    PROVE  Shape' /\ RunMatchesTurns'
<1>1. \A u \in Turns : u \in Int /\ 1..(u - 1) \subseteq Turns /\ \A v \in 1..(u - 1) : v < u
  BY PipelineAssumption DEF Turns
<1>2. /\ \A u \in Turns : u < t => invocation[u] = "succeeded"
      /\ \A u \in Turns : u > t => invocation[u] = "queued"
  BY Frontier
<1>3. \A u \in Turns : invocation'[u] = IF u < t THEN "succeeded" ELSE IF u = t THEN "failed" ELSE "canceled"
  BY <1>1, <1>2 DEF FailTurn
<1>4. run' = IF \E u \in Turns : u < t THEN "partially_failed" ELSE "failed"
  BY <1>1, <1>2 DEF FailTurn
<1>5. Shape'
  <2>1. \A u \in Turns : u > t => t \in 1..(u - 1)
    BY PipelineAssumption DEF Turns
  <2> QED
    BY <1>1, <1>3, <2>1 DEF Shape
<1>6. RunMatchesTurns'
  BY <1>1, <1>3, <1>4 DEF RunMatchesTurns
<1> QED
  BY <1>5, <1>6

\* Every step keeps the turns in shape and the run in agreement with them.
LEMMA NextShape ==
    ASSUME Values, Calls, Begun, Shape, RunMatchesTurns, [Next]_vars
    PROVE  Shape' /\ RunMatchesTurns'
<1>1. ASSUME NEW w \in Dispatchers, Load(w)
      PROVE  Shape' /\ RunMatchesTurns'
  BY <1>1 DEF Load, runVars, Shape, RunMatchesTurns
<1>2. ASSUME NEW w \in Dispatchers, ReserveTokens(w)
      PROVE  Shape' /\ RunMatchesTurns'
  BY <1>2 DEF ReserveTokens, runVars, Shape, RunMatchesTurns
<1>3. ASSUME NEW w \in Dispatchers, AdmitTokens(w)
      PROVE  Shape' /\ RunMatchesTurns'
  BY <1>3 DEF AdmitTokens, runVars, Shape, RunMatchesTurns
<1>4. ASSUME NEW w \in Dispatchers, ProvisionRunner(w)
      PROVE  Shape' /\ RunMatchesTurns'
  BY <1>4 DEF ProvisionRunner, runVars, Shape, RunMatchesTurns
<1>5. ASSUME NEW w \in Dispatchers, CompleteDispatch(w)
      PROVE  Shape' /\ RunMatchesTurns'
  BY <1>5 DEF CompleteDispatch, runVars, Shape, RunMatchesTurns
<1>6. ASSUME NEW w \in Dispatchers, FailDispatch(w)
      PROVE  Shape' /\ RunMatchesTurns'
  <2>1. Turn(w) \in Turns /\ dispatch[Turn(w)].state # "absent"
    BY <1>6 DEF FailDispatch, Calls, Workers, At, Turn
  <2>2. CASE UNCHANGED runVars
    BY <2>2 DEF runVars, Shape, RunMatchesTurns
  <2> QED
    BY <1>6, <2>1, <2>2, TurnFails DEF FailDispatch, TerminalAllowed, Failed, Row
<1>7. ASSUME NEW w \in Dispatchers, NEW t \in Turns, DispatchClaim(w, t)
      PROVE  Shape' /\ RunMatchesTurns'
  BY <1>7 DEF DispatchClaim, runVars, Shape, RunMatchesTurns
<1>8. ASSUME NEW w \in Projectors, Decode(w)
      PROVE  Shape' /\ RunMatchesTurns'
  BY <1>8 DEF Decode, runVars, Shape, RunMatchesTurns
<1>9. ASSUME NEW w \in Projectors, SettleTokens(w)
      PROVE  Shape' /\ RunMatchesTurns'
  BY <1>9 DEF SettleTokens, runVars, Shape, RunMatchesTurns
<1>10. ASSUME NEW w \in Projectors, ReleaseTokens(w)
      PROVE  Shape' /\ RunMatchesTurns'
  BY <1>10 DEF ReleaseTokens, runVars, Shape, RunMatchesTurns
<1>11. ASSUME NEW w \in Projectors, ProjectSuccess(w)
      PROVE  Shape' /\ RunMatchesTurns'
  <2>1. Turn(w) \in Turns /\ dispatch[Turn(w)].state # "absent"
    BY <1>11 DEF ProjectSuccess, Calls, Begun, Workers, At, Turn
  <2>2. CASE UNCHANGED runVars
    BY <2>2 DEF runVars, Shape, RunMatchesTurns
  <2> QED
    BY <1>11, <2>1, <2>2, TurnSucceeds DEF ProjectSuccess
<1>12. ASSUME NEW w \in Projectors, ProjectFailure(w)
      PROVE  Shape' /\ RunMatchesTurns'
  <2>1. Turn(w) \in Turns /\ dispatch[Turn(w)].state # "absent"
    BY <1>12 DEF ProjectFailure, Calls, Begun, Workers, At, Turn
  <2>2. CASE UNCHANGED runVars
    BY <2>2 DEF runVars, Shape, RunMatchesTurns
  <2> QED
    BY <1>12, <2>1, <2>2, TurnFails DEF ProjectFailure
<1>13. ASSUME NEW w \in Projectors, FailProjection(w)
      PROVE  Shape' /\ RunMatchesTurns'
  BY <1>13 DEF FailProjection, runVars, Shape, RunMatchesTurns
<1>14. ASSUME NEW w \in Projectors, NEW t \in Turns, ProjectionClaim(w, t)
      PROVE  Shape' /\ RunMatchesTurns'
  BY <1>14 DEF ProjectionClaim, runVars, Shape, RunMatchesTurns
<1>15. ASSUME NEW w \in Workers, CloseAfterDeadLetter(w)
      PROVE  Shape' /\ RunMatchesTurns'
  BY <1>15 DEF CloseAfterDeadLetter, runVars, Shape, RunMatchesTurns
<1>16. ASSUME NEW w \in Workers, Unavailable(w)
      PROVE  Shape' /\ RunMatchesTurns'
  BY <1>16 DEF Unavailable, runVars, Shape, RunMatchesTurns
<1>17. ASSUME NEW w \in Workers, Refused(w)
      PROVE  Shape' /\ RunMatchesTurns'
  BY <1>17 DEF Refused, runVars, Shape, RunMatchesTurns
<1>18. ASSUME NEW w \in Workers, Crash(w)
      PROVE  Shape' /\ RunMatchesTurns'
  BY <1>18 DEF Crash, runVars, Shape, RunMatchesTurns
<1>19. ASSUME NEW t \in Turns, Requeue(t)
      PROVE  Shape' /\ RunMatchesTurns'
  BY <1>19 DEF Requeue, runVars, Shape, RunMatchesTurns
<1>20. ASSUME NEW t \in Turns, RunnerMoves(t)
      PROVE  Shape' /\ RunMatchesTurns'
  BY <1>20 DEF RunnerMoves, runVars, Shape, RunMatchesTurns
<1>21. ASSUME NEW t \in Turns, LeaseExpires(t)
      PROVE  Shape' /\ RunMatchesTurns'
  BY <1>21 DEF LeaseExpires, runVars, Shape, RunMatchesTurns
<1>22. CASE UNCHANGED vars
  BY <1>22 DEF Shape, RunMatchesTurns, vars, runVars
<1> QED
  BY <1>1, <1>2, <1>3, <1>4, <1>5, <1>6, <1>7, <1>8, <1>9, <1>10, <1>11, <1>12, <1>13, <1>14, <1>15, <1>16,
     <1>17, <1>18, <1>19, <1>20, <1>21, <1>22
     DEF Next, Dispatching, Projecting, Workers

\* A turn begins only where a dispatched one has work to do.
LEMMA BegunKept ==
    ASSUME Begun, Kept,
           \A t \in Turns : dispatch'[t].state # "absent" => dispatch[t].state # "absent",
           \A t \in Turns : tokens'[t] # "none" => tokens[t] # "none" \/ dispatch[t].state # "absent",
           \A t \in Turns : status'[t] # "absent" => status[t] # "absent" \/ dispatch[t].state # "absent"
    PROVE  Begun'
<1>1. \A t \in Turns : 1..(t - 1) \subseteq Turns
  BY PipelineAssumption DEF Turns
<1> QED
  BY <1>1 DEF Begun, Kept

\* Every step begins turns in order only.
LEMMA NextBegun ==
    ASSUME Values, Queues, Calls, Begun, [Next]_vars
    PROVE  Begun'
<1>1. ASSUME NEW w \in Dispatchers, Load(w)
      PROVE  Begun'
  <2>1. Kept
    BY <1>1, NothingLost
  <2> QED
    BY <1>1, <2>1, BegunKept DEF Load, runnerVars
<1>2. ASSUME NEW w \in Dispatchers, ReserveTokens(w)
      PROVE  Begun'
  <2>1. Kept /\ Turn(w) \in Turns
    BY <1>2, NothingLost DEF ReserveTokens, Calls, Workers, At, Turn
  <2>2. dispatch[Turn(w)].state # "absent"
    BY <1>2 DEF ReserveTokens, Calls, At, Turn
  <2> QED
    BY <1>2, <2>1, <2>2, BegunKept DEF ReserveTokens, Values, runnerVars
<1>3. ASSUME NEW w \in Dispatchers, AdmitTokens(w)
      PROVE  Begun'
  <2>1. Kept
    BY <1>3, NothingLost
  <2> QED
    BY <1>3, <2>1, BegunKept DEF AdmitTokens, runnerVars
<1>4. ASSUME NEW w \in Dispatchers, ProvisionRunner(w)
      PROVE  Begun'
  <2>1. Kept /\ Turn(w) \in Turns
    BY <1>4, NothingLost DEF ProvisionRunner, Calls, Workers, At, Turn
  <2>2. dispatch[Turn(w)].state # "absent"
    BY <1>4 DEF ProvisionRunner, Calls, At, Turn
  <2> QED
    BY <1>4, <2>1, <2>2, BegunKept DEF ProvisionRunner, Values, Runner!Provision, runnerVars
<1>5. ASSUME NEW w \in Dispatchers, CompleteDispatch(w)
      PROVE  Begun'
  <2>1. Kept /\ Turn(w) \in Turns
    BY <1>5, NothingLost DEF CompleteDispatch, Calls, Workers, At, Turn
  <2>2. dispatch[Turn(w)].state # "absent"
    BY <1>5 DEF CompleteDispatch, Calls, At, Turn
  <2> QED
    BY <1>5, <2>1, <2>2, BegunKept DEF CompleteDispatch, Queues, runnerVars
<1>6. ASSUME NEW w \in Dispatchers, FailDispatch(w)
      PROVE  Begun'
  <2>1. Kept /\ Turn(w) \in Turns
    BY <1>6, NothingLost DEF FailDispatch, Calls, Workers, At, Turn
  <2>2. dispatch[Turn(w)].state # "absent"
    BY <1>6 DEF FailDispatch, Calls, At, Turn
  <2> QED
    BY <1>6, <2>1, <2>2, BegunKept DEF FailDispatch, Queues, runnerVars
<1>7. ASSUME NEW w \in Dispatchers, NEW t \in Turns, DispatchClaim(w, t)
      PROVE  Begun'
  <2>1. Kept
    BY <1>7, NothingLost
  <2> QED
    BY <1>7, <2>1, BegunKept DEF DispatchClaim, Queues, Claimable, runnerVars
<1>8. ASSUME NEW w \in Projectors, Decode(w)
      PROVE  Begun'
  <2>1. Kept
    BY <1>8, NothingLost
  <2> QED
    BY <1>8, <2>1, BegunKept DEF Decode, runnerVars
<1>9. ASSUME NEW w \in Projectors, SettleTokens(w)
      PROVE  Begun'
  <2>1. Kept /\ Turn(w) \in Turns
    BY <1>9, NothingLost DEF SettleTokens, Calls, Workers, At, Turn
  <2>2. dispatch[Turn(w)].state # "absent"
    BY <1>9 DEF SettleTokens, Calls, Begun, Workers, At, Turn
  <2> QED
    BY <1>9, <2>1, <2>2, BegunKept DEF SettleTokens, CloseTokens, Values, runnerVars
<1>10. ASSUME NEW w \in Projectors, ReleaseTokens(w)
      PROVE  Begun'
  <2>1. Kept /\ Turn(w) \in Turns
    BY <1>10, NothingLost DEF ReleaseTokens, Calls, Workers, At, Turn
  <2>2. dispatch[Turn(w)].state # "absent"
    BY <1>10 DEF ReleaseTokens, Calls, Begun, Workers, At, Turn
  <2> QED
    BY <1>10, <2>1, <2>2, BegunKept DEF ReleaseTokens, CloseTokens, Values, runnerVars
<1>11. ASSUME NEW w \in Projectors, ProjectSuccess(w)
      PROVE  Begun'
  <2>1. Kept /\ Turn(w) \in Turns /\ UNCHANGED <<tokens, status>>
    BY <1>11, NothingLost DEF ProjectSuccess, Calls, Workers, At, Turn, runnerVars
  <2>2. dispatch[Turn(w)].state # "absent"
    BY <1>11 DEF ProjectSuccess, Calls, Begun, Workers, At, Turn
  <2>3. CASE UNCHANGED dispatch
    BY <2>1, <2>3, BegunKept
  <2>4. CASE ~UNCHANGED dispatch
    <3>1. /\ invocation' = [invocation EXCEPT ![Turn(w)] = "succeeded"]
          /\ \A u \in Turns : dispatch'[u].state # "absent" => dispatch[u].state # "absent" \/ u = Turn(w) + 1
      BY <1>11, <2>4 DEF ProjectSuccess
    <3>2. \A u \in Turns : 1..(u - 1) \subseteq Turns /\ \A v \in 1..(u - 1) : u = Turn(w) + 1 => v = Turn(w) \/ v \in 1..(Turn(w) - 1)
      BY <2>1, PipelineAssumption DEF Turns
    <3>3. \A v \in Turns : invocation[v] = "succeeded" \/ v = Turn(w) => invocation'[v] = "succeeded"
      BY <2>1, <3>1 DEF Values
    <3>4. \A u \in Turns : dispatch'[u].state # "absent" => \A v \in 1..(u - 1) : invocation'[v] = "succeeded"
      BY <2>1, <2>2, <3>1, <3>2, <3>3 DEF Begun
    <3> QED
      BY <2>1, <3>4 DEF Begun, Kept
  <2> QED
    BY <2>3, <2>4
<1>12. ASSUME NEW w \in Projectors, ProjectFailure(w)
      PROVE  Begun'
  <2>1. Kept
    BY <1>12, NothingLost
  <2> QED
    BY <1>12, <2>1, BegunKept DEF ProjectFailure, runnerVars
<1>13. ASSUME NEW w \in Projectors, FailProjection(w)
      PROVE  Begun'
  <2>1. Kept
    BY <1>13, NothingLost
  <2> QED
    BY <1>13, <2>1, BegunKept DEF FailProjection, runnerVars
<1>14. ASSUME NEW w \in Projectors, NEW t \in Turns, ProjectionClaim(w, t)
      PROVE  Begun'
  <2>1. Kept
    BY <1>14, NothingLost
  <2> QED
    BY <1>14, <2>1, BegunKept DEF ProjectionClaim, runnerVars
<1>15. ASSUME NEW w \in Workers, CloseAfterDeadLetter(w)
      PROVE  Begun'
  <2>1. Kept /\ Turn(w) \in Turns
    BY <1>15, NothingLost DEF CloseAfterDeadLetter, Calls, Workers, At, Turn
  <2>2. dispatch[Turn(w)].state # "absent"
    BY <1>15 DEF CloseAfterDeadLetter, Calls, Begun, Workers, At, Turn
  <2> QED
    BY <1>15, <2>1, <2>2, BegunKept DEF CloseAfterDeadLetter, CloseTokens, Values, runnerVars
<1>16. ASSUME NEW w \in Workers, Unavailable(w)
      PROVE  Begun'
  <2>1. Kept
    BY <1>16, NothingLost
  <2> QED
    BY <1>16, <2>1, BegunKept DEF Unavailable, runnerVars
<1>17. ASSUME NEW w \in Workers, Refused(w)
      PROVE  Begun'
  <2>1. Kept
    BY <1>17, NothingLost
  <2> QED
    BY <1>17, <2>1, BegunKept DEF Refused, runnerVars
<1>18. ASSUME NEW w \in Workers, Crash(w)
      PROVE  Begun'
  <2>1. Kept
    BY <1>18, NothingLost
  <2> QED
    BY <1>18, <2>1, BegunKept DEF Crash, runnerVars
<1>19. ASSUME NEW t \in Turns, Requeue(t)
      PROVE  Begun'
  <2>1. Kept
    BY <1>19, NothingLost
  <2> QED
    BY <1>19, <2>1, BegunKept DEF Requeue, Queues, runnerVars
<1>20. ASSUME NEW t \in Turns, RunnerMoves(t)
      PROVE  Begun'
  <2>1. Kept
    BY <1>20, NothingLost
  <2> QED
    BY <1>20, <2>1, BegunKept
       DEF RunnerMoves, Values, Runner!RunnerStep, Runner!GiveUp, Runner!RequestCancel, Runner!FinishCancel,
           Runner!Submit, Runner!Finish
<1>21. ASSUME NEW t \in Turns, LeaseExpires(t)
      PROVE  Begun'
  <2>1. Kept
    BY <1>21, NothingLost
  <2> QED
    BY <1>21, <2>1, BegunKept DEF LeaseExpires, Queues, Lapses, runnerVars
<1>22. CASE UNCHANGED vars
  BY <1>22 DEF Begun, vars
<1> QED
  BY <1>1, <1>2, <1>3, <1>4, <1>5, <1>6, <1>7, <1>8, <1>9, <1>10, <1>11, <1>12, <1>13, <1>14, <1>15, <1>16,
     <1>17, <1>18, <1>19, <1>20, <1>21, <1>22
     DEF Next, Dispatching, Projecting, Workers

\* The claims of Paid about the turns survive a step that keeps what they rest
\* on; those about the workers survive a worker that takes no new call that
\* needs Tokens or a result.
LEMMA PaidTurns ==
    ASSUME Values, Paid, Kept,
           \A t \in Turns : t \in admitted' => tokens'[t] # "none",
           \A t \in Turns : status'[t] # "absent" => status[t] # "absent" \/ tokens'[t] # "none",
           \A t \in Turns : tokens'[t] = "settled" => tokens[t] = "settled" \/ result'[t] = "completed",
           \A t \in Turns : invocation'[t] = "succeeded" =>
               invocation[t] = "succeeded" \/ tokens'[t] \in {"settled", "released"},
           \A w \in Workers :
               /\ worker'[w].call \in {"admit", "provision"} => tokens'[worker'[w].turn] # "none"
               /\ worker'[w].call = "settle" => result'[worker'[w].turn] = "completed"
               /\ worker'[w].call = "success" => tokens'[worker'[w].turn] \in {"settled", "released"}
    PROVE  Paid'
<1>1. \A t \in Turns : /\ tokens[t] = "settled" => result[t] # "none" /\ result[t] = "completed"
                       /\ invocation[t] = "succeeded" => tokens[t] \in {"settled", "released"}
                       /\ status[t] # "absent" => tokens[t] # "none"
  BY DEF Paid
<1>2. \A t \in Turns : /\ t \in admitted' => tokens'[t] # "none"
                       /\ status'[t] # "absent" => tokens'[t] # "none"
                       /\ tokens'[t] = "settled" => result'[t] = "completed"
                       /\ invocation'[t] = "succeeded" => tokens'[t] \in {"settled", "released"}
  BY <1>1 DEF Kept
<1> QED
  BY <1>2 DEF Paid

\* A worker's claim to Tokens or to a result stays good.
LEMMA PaidWorkers ==
    ASSUME Calls, Paid, Kept, NEW w \in Workers, worker'[w] = worker[w]
    PROVE  /\ worker'[w].call \in {"admit", "provision"} => tokens'[worker'[w].turn] # "none"
           /\ worker'[w].call = "settle" => result'[worker'[w].turn] = "completed"
           /\ worker'[w].call = "success" => tokens'[worker'[w].turn] \in {"settled", "released"}
<1>1. worker[w].call # "idle" => worker[w].turn \in Turns
  BY DEF Calls
<1> QED
  BY <1>1 DEF Paid, Kept

\* Every step pays before it provides.
LEMMA NextPaid ==
    ASSUME Values, Queues, Calls, Paid, [Next]_vars
    PROVE  Paid'
<1>1. ASSUME NEW w \in Dispatchers, Load(w)
      PROVE  Paid'
  <2>1. w \in Workers /\ Kept /\ Turn(w) \in Turns
    BY <1>1, NothingLost DEF Load, Calls, Workers, At, Turn
  <2>2. \A v \in Workers \ {w} : worker'[v] = worker[v]
    BY <1>1 DEF Load, Calls, Go, Stop
  <2>3. worker'[w].call \notin {"admit", "settle", "success"} /\ (worker'[w].call = "provision" => tokens[worker'[w].turn] # "none")
    BY <1>1, <2>1 DEF Load, Paid, At, Turn, Go
  <2> QED
    BY <1>1, <2>1, <2>2, <2>3, PaidWorkers, PaidTurns DEF Load, Paid, runVars, runnerVars
<1>2. ASSUME NEW w \in Dispatchers, ReserveTokens(w)
      PROVE  Paid'
  <2>1. w \in Workers /\ Kept /\ Turn(w) \in Turns
    BY <1>2, NothingLost DEF ReserveTokens, Calls, Workers, At, Turn
  <2>2. \A v \in Workers \ {w} : worker'[v] = worker[v]
    BY <1>2 DEF ReserveTokens, Calls, Go, Stop
  <2>3. worker'[w].call \notin {"provision", "settle", "success"} /\ (worker'[w].call = "admit" => tokens'[worker'[w].turn] # "none")
    BY <1>2, <2>1 DEF ReserveTokens, Calls, Values, Turn, Go
  <2> QED
    BY <1>2, <2>1, <2>2, <2>3, PaidWorkers, PaidTurns DEF ReserveTokens, Paid, runVars, runnerVars, Values
<1>3. ASSUME NEW w \in Dispatchers, AdmitTokens(w)
      PROVE  Paid'
  <2>1. w \in Workers /\ Kept /\ Turn(w) \in Turns
    BY <1>3, NothingLost DEF AdmitTokens, Calls, Workers, At, Turn
  <2>2. \A v \in Workers \ {w} : worker'[v] = worker[v]
    BY <1>3 DEF AdmitTokens, Calls, Go, Stop
  <2>3. worker'[w].call \notin {"admit", "settle", "success"} /\ tokens[Turn(w)] # "none" /\ (worker'[w].call = "provision" => worker'[w].turn = Turn(w))
    BY <1>3, <2>1 DEF AdmitTokens, Calls, Paid, At, Turn, Go, Stop, Idle
  <2> QED
    BY <1>3, <2>1, <2>2, <2>3, PaidWorkers, PaidTurns DEF AdmitTokens, Paid, runVars, runnerVars
<1>4. ASSUME NEW w \in Dispatchers, ProvisionRunner(w)
      PROVE  Paid'
  <2>1. w \in Workers /\ Kept /\ Turn(w) \in Turns
    BY <1>4, NothingLost DEF ProvisionRunner, Calls, Workers, At, Turn
  <2>2. \A v \in Workers \ {w} : worker'[v] = worker[v]
    BY <1>4 DEF ProvisionRunner, Calls, Go, Stop
  <2>3. worker'[w].call \notin {"admit", "provision", "settle", "success"} /\ tokens[Turn(w)] # "none"
    BY <1>4, <2>1 DEF ProvisionRunner, Calls, Paid, At, Turn, Go
  <2> QED
    BY <1>4, <2>2, <2>3 DEF ProvisionRunner, Paid, runVars, runnerVars, Runner!Provision, Values
<1>5. ASSUME NEW w \in Dispatchers, CompleteDispatch(w)
      PROVE  Paid'
  <2>1. w \in Workers /\ Kept /\ Turn(w) \in Turns
    BY <1>5, NothingLost DEF CompleteDispatch, Calls, Workers, At, Turn
  <2>2. \A v \in Workers \ {w} : worker'[v] = worker[v]
    BY <1>5 DEF CompleteDispatch, Calls, Go, Stop
  <2>3. worker'[w].call \notin {"admit", "provision", "settle", "success"}
    BY <1>5 DEF CompleteDispatch, At, Stop, Idle
  <2> QED
    BY <1>5, <2>1, <2>2, <2>3, PaidWorkers, PaidTurns DEF CompleteDispatch, Paid, runVars, runnerVars
<1>6. ASSUME NEW w \in Dispatchers, FailDispatch(w)
      PROVE  Paid'
  <2>1. w \in Workers /\ Kept /\ Turn(w) \in Turns
    BY <1>6, NothingLost DEF FailDispatch, Calls, Workers, At, Turn
  <2>2. \A v \in Workers \ {w} : worker'[v] = worker[v]
    BY <1>6 DEF FailDispatch, Calls, Go, Stop
  <2>3. worker'[w].call \notin {"admit", "provision", "settle", "success"}
    BY <1>6, <2>1 DEF FailDispatch, Calls, Go, Stop, Idle
  <2> QED
    BY <1>6, <2>1, <2>2, <2>3, PaidWorkers, PaidTurns DEF FailDispatch, Paid, runVars, runnerVars, FailTurn
<1>7. ASSUME NEW w \in Dispatchers, NEW t \in Turns, DispatchClaim(w, t)
      PROVE  Paid'
  <2>1. w \in Workers /\ Kept
    BY <1>7, NothingLost DEF DispatchClaim, Calls, Workers, At, Turn
  <2>2. \A v \in Workers \ {w} : worker'[v] = worker[v]
    BY <1>7 DEF DispatchClaim, Calls, Go, Stop
  <2>3. worker'[w].call \notin {"admit", "provision", "settle", "success"}
    BY <1>7 DEF DispatchClaim, Idle
  <2> QED
    BY <1>7, <2>1, <2>2, <2>3, PaidWorkers, PaidTurns DEF DispatchClaim, Paid, runVars, runnerVars
<1>8. ASSUME NEW w \in Projectors, Decode(w)
      PROVE  Paid'
  <2>1. w \in Workers /\ Kept /\ Turn(w) \in Turns
    BY <1>8, NothingLost DEF Decode, Calls, Workers, At, Turn
  <2>2. \A v \in Workers \ {w} : worker'[v] = worker[v]
    BY <1>8 DEF Decode, Calls, Go, Stop
  <2>3. worker'[w].call \notin {"admit", "provision", "success"} /\ (worker'[w].call = "settle" => result[worker'[w].turn] = "completed")
    BY <1>8, <2>1 DEF Decode, Calls, Turn, Go, SettlesFirst
  <2> QED
    BY <1>8, <2>1, <2>2, <2>3, PaidWorkers, PaidTurns DEF Decode, Paid, runVars, runnerVars
<1>9. ASSUME NEW w \in Projectors, SettleTokens(w)
      PROVE  Paid'
  <2>1. w \in Workers /\ Kept /\ Turn(w) \in Turns
    BY <1>9, NothingLost DEF SettleTokens, Calls, Workers, At, Turn
  <2>2. \A v \in Workers \ {w} : worker'[v] = worker[v]
    BY <1>9 DEF SettleTokens, Calls, Go, Stop
  <2>3. /\ worker'[w].call \notin {"admit", "provision", "settle"} /\ result[Turn(w)] = "completed"
        /\ worker'[w].turn = Turn(w) /\ tokens'[Turn(w)] \in {"settled", "released"}
    BY <1>9, <2>1 DEF SettleTokens, Calls, Paid, Values, At, Turn, Go, CloseTokens
  <2> QED
    BY <1>9, <2>2, <2>3 DEF SettleTokens, Paid, runVars, runnerVars, CloseTokens
<1>10. ASSUME NEW w \in Projectors, ReleaseTokens(w)
      PROVE  Paid'
  <2>1. w \in Workers /\ Kept /\ Turn(w) \in Turns
    BY <1>10, NothingLost DEF ReleaseTokens, Calls, Workers, At, Turn
  <2>2. \A v \in Workers \ {w} : worker'[v] = worker[v]
    BY <1>10 DEF ReleaseTokens, Calls, Go, Stop
  <2>3. worker'[w].call \notin {"admit", "provision", "settle", "success"}
    BY <1>10 DEF ReleaseTokens, At, Go
  <2> QED
    BY <1>10, <2>2, <2>3 DEF ReleaseTokens, Paid, runVars, runnerVars, CloseTokens
<1>11. ASSUME NEW w \in Projectors, ProjectSuccess(w)
      PROVE  Paid'
  <2>1. w \in Workers /\ Kept /\ Turn(w) \in Turns
    BY <1>11, NothingLost DEF ProjectSuccess, Calls, Workers, At, Turn
  <2>2. \A v \in Workers \ {w} : worker'[v] = worker[v]
    BY <1>11 DEF ProjectSuccess, Calls, Go, Stop
  <2>3. worker'[w].call \notin {"admit", "provision", "settle", "success"} /\ tokens[Turn(w)] \in {"settled", "released"}
    BY <1>11, <2>1 DEF ProjectSuccess, Calls, Paid, At, Turn, Stop, Idle
  <2> QED
    BY <1>11, <2>1, <2>2, <2>3, PaidWorkers, PaidTurns DEF ProjectSuccess, Paid, runVars, runnerVars, Values
<1>12. ASSUME NEW w \in Projectors, ProjectFailure(w)
      PROVE  Paid'
  <2>1. w \in Workers /\ Kept /\ Turn(w) \in Turns
    BY <1>12, NothingLost DEF ProjectFailure, Calls, Workers, At, Turn
  <2>2. \A v \in Workers \ {w} : worker'[v] = worker[v]
    BY <1>12 DEF ProjectFailure, Calls, Go, Stop
  <2>3. worker'[w].call \notin {"admit", "provision", "settle", "success"}
    BY <1>12 DEF ProjectFailure, At, Stop, Idle
  <2> QED
    BY <1>12, <2>1, <2>2, <2>3, PaidWorkers, PaidTurns
       DEF ProjectFailure, Paid, runVars, runnerVars, FailTurn
<1>13. ASSUME NEW w \in Projectors, FailProjection(w)
      PROVE  Paid'
  <2>1. w \in Workers /\ Kept /\ Turn(w) \in Turns
    BY <1>13, NothingLost DEF FailProjection, Calls, Workers, At, Turn
  <2>2. \A v \in Workers \ {w} : worker'[v] = worker[v]
    BY <1>13 DEF FailProjection, Calls, Go, Stop
  <2>3. worker'[w].call \notin {"admit", "provision", "settle", "success"}
    BY <1>13, <2>1 DEF FailProjection, Calls, Go, Stop, Idle
  <2> QED
    BY <1>13, <2>1, <2>2, <2>3, PaidWorkers, PaidTurns DEF FailProjection, Paid, runVars, runnerVars
<1>14. ASSUME NEW w \in Projectors, NEW t \in Turns, ProjectionClaim(w, t)
      PROVE  Paid'
  <2>1. w \in Workers /\ Kept
    BY <1>14, NothingLost DEF ProjectionClaim, Calls, Workers, At, Turn
  <2>2. \A v \in Workers \ {w} : worker'[v] = worker[v]
    BY <1>14 DEF ProjectionClaim, Calls, Go, Stop
  <2>3. worker'[w].call \notin {"admit", "provision", "settle", "success"}
    BY <1>14 DEF ProjectionClaim, Calls, Idle
  <2> QED
    BY <1>14, <2>1, <2>2, <2>3, PaidWorkers, PaidTurns DEF ProjectionClaim, Paid, runVars, runnerVars
<1>15. ASSUME NEW w \in Workers, CloseAfterDeadLetter(w)
      PROVE  Paid'
  <2>1. w \in Workers /\ Kept /\ Turn(w) \in Turns
    BY <1>15, NothingLost DEF CloseAfterDeadLetter, Calls, Workers, At, Turn
  <2>2. \A v \in Workers \ {w} : worker'[v] = worker[v]
    BY <1>15 DEF CloseAfterDeadLetter, Calls, Go, Stop
  <2>3. worker'[w].call \notin {"admit", "provision", "settle", "success"}
    BY <1>15 DEF CloseAfterDeadLetter, At, Stop, Idle
  <2> QED
    BY <1>15, <2>2, <2>3 DEF CloseAfterDeadLetter, Paid, runVars, runnerVars, CloseTokens
<1>16. ASSUME NEW w \in Workers, Unavailable(w)
      PROVE  Paid'
  <2>1. w \in Workers /\ Kept
    BY <1>16, NothingLost DEF Unavailable, Calls, Workers, At, Turn
  <2>2. \A v \in Workers \ {w} : worker'[v] = worker[v]
    BY <1>16 DEF Unavailable, Calls, Go, Stop
  <2>3. worker'[w].call \notin {"admit", "provision", "settle", "success"}
    BY <1>16 DEF Unavailable, Calls, Go
  <2> QED
    BY <1>16, <2>1, <2>2, <2>3, PaidWorkers, PaidTurns DEF Unavailable, Paid, runVars, runnerVars
<1>17. ASSUME NEW w \in Workers, Refused(w)
      PROVE  Paid'
  <2>1. w \in Workers /\ Kept
    BY <1>17, NothingLost DEF Refused, Calls, Workers, At, Turn
  <2>2. \A v \in Workers \ {w} : worker'[v] = worker[v]
    BY <1>17 DEF Refused, Calls, Go, Stop
  <2>3. worker'[w].call \notin {"admit", "provision", "settle", "success"}
    BY <1>17 DEF Refused, Calls, Go
  <2> QED
    BY <1>17, <2>1, <2>2, <2>3, PaidWorkers, PaidTurns DEF Refused, Paid, runVars, runnerVars
<1>18. ASSUME NEW w \in Workers, Crash(w)
      PROVE  Paid'
  <2>1. w \in Workers /\ Kept
    BY <1>18, NothingLost DEF Crash, Calls, Workers, At, Turn
  <2>2. \A v \in Workers \ {w} : worker'[v] = worker[v]
    BY <1>18 DEF Crash, Calls, Go, Stop
  <2>3. worker'[w].call \notin {"admit", "provision", "settle", "success"}
    BY <1>18 DEF Crash, Calls, Stop, Idle
  <2> QED
    BY <1>18, <2>1, <2>2, <2>3, PaidWorkers, PaidTurns DEF Crash, Paid, runVars, runnerVars
<1>19. ASSUME NEW t \in Turns, Requeue(t)
      PROVE  Paid'
  <2>1. Kept /\ UNCHANGED worker
    BY <1>19, NothingLost DEF Requeue
  <2> QED
    BY <1>19, <2>1, PaidWorkers, PaidTurns DEF Requeue, Paid, runVars, runnerVars
<1>20. ASSUME NEW t \in Turns, RunnerMoves(t)
      PROVE  Paid'
  <2>1. Kept /\ UNCHANGED <<worker, tokens, admitted, invocation>>
    BY <1>20, NothingLost DEF RunnerMoves, runVars
  <2>2. \A u \in Turns : status'[u] # "absent" => status[u] # "absent"
    BY <1>20
       DEF RunnerMoves, Values, Runner!RunnerStep, Runner!GiveUp, Runner!RequestCancel, Runner!FinishCancel,
           Runner!Submit, Runner!Finish
  <2> QED
    BY <2>1, <2>2, PaidWorkers, PaidTurns DEF Paid
<1>21. ASSUME NEW t \in Turns, LeaseExpires(t)
      PROVE  Paid'
  <2>1. Kept /\ UNCHANGED worker
    BY <1>21, NothingLost DEF LeaseExpires
  <2> QED
    BY <1>21, <2>1, PaidWorkers, PaidTurns DEF LeaseExpires, Paid, runVars, runnerVars
<1>22. CASE UNCHANGED vars
  BY <1>22 DEF Paid, vars, runVars
<1> QED
  BY <1>1, <1>2, <1>3, <1>4, <1>5, <1>6, <1>7, <1>8, <1>9, <1>10, <1>11, <1>12, <1>13, <1>14, <1>15, <1>16,
     <1>17, <1>18, <1>19, <1>20, <1>21, <1>22
     DEF Next, Dispatching, Projecting, Workers

-------------------------------------------------------------------------------
(***************************************************************************)
(* Theorems                                                                *)
(***************************************************************************)

\* The strengthened invariant holds.
THEOREM Inductive == Spec => []IInv
<1>1. Init => IInv
  <2> SUFFICES ASSUME Init
               PROVE  IInv
    OBVIOUS
  <2>1. Values
    BY DEF Init, Values, Verdicts, Runner!LifecycleInit, Runner!Statuses
  <2>2. Queues
    <3>1. /\ \A s \in {"pending", "absent"} : Row(s) \in DispatchRow /\ OwnedBy(Row(s), Dispatchers)
          /\ Row("pending") \in ProjectionRow /\ OwnedBy(Row("pending"), Projectors)
      BY PipelineAssumption DEF Row, DispatchRow, ProjectionRow, QueueRow, QueueStates, OwnedBy
    <3> QED
      BY <3>1 DEF Init, Queues
  <2>3. Calls
    BY DEF Init, Calls, Workers, Idle, DispatchCalls, ProjectionCalls, SharedCalls
  <2>4. Begun
    BY DEF Init, Begun, Row, Runner!LifecycleInit
  <2>5. Shape
    BY DEF Init, Shape
  <2>6. Paid
    BY DEF Init, Paid, Workers, Idle, Runner!LifecycleInit
  <2>7. RunMatchesTurns
    <3>1. 1 \in Turns
      BY PipelineAssumption DEF Turns
    <3> QED
      BY <3>1 DEF Init, RunMatchesTurns
  <2> QED
    BY <2>1, <2>2, <2>3, <2>4, <2>5, <2>6, <2>7 DEF IInv
<1>2. IInv /\ [Next]_vars => IInv'
  BY NextValues, NextQueues, NextCalls, NextBegun, NextShape, NextPaid DEF IInv
<1> QED
  BY <1>1, <1>2, PTL DEF Spec

\* Rows, invocations and reservations keep their types, and a row has an owner
\* exactly while it is leased, a worker of its own queue.
THEOREM TypeCorrect == Spec => []TypeOK
<1>1. IInv => TypeOK
  BY DEF IInv, TypeOK, Values, Queues, DispatchRow, ProjectionRow, QueueRow, OwnedBy, Verdicts
<1> QED
  BY <1>1, Inductive, PTL

\* A turn takes Tokens or a runner only after every earlier turn succeeded.
THEOREM OrderKept == Spec => []TurnsInOrder
<1>1. IInv => TurnsInOrder
  BY DEF IInv, Begun, TurnsInOrder
<1> QED
  BY <1>1, Inductive, PTL

\* The run agrees with its turns, whoever decides them.
THEOREM RunAgrees == Spec => []RunMatchesTurns
<1>1. IInv => RunMatchesTurns
  BY DEF IInv
<1> QED
  BY <1>1, Inductive, PTL

\* Tokens are charged only for completed results, no runner is provisioned
\* without a reservation, no success is visible before its reservation closed.
THEOREM TokensAgree == Spec => []TokensMatchResults
<1>1. IInv => TokensMatchResults
  BY DEF IInv, Paid, TokensMatchResults
<1> QED
  BY <1>1, Inductive, PTL

\* What a turn has reached, it keeps: a decided turn is not decided again, a
\* closed reservation not reopened, a result not replaced, whatever is
\* retried, requeued or late (ProjectSuccess, FailDispatch, CloseTokens).
THEOREM DecisionsFinal == Spec => [][Kept]_vars
<1>1. IInv /\ [Next]_vars => [Kept]_vars
  BY NothingLost DEF IInv
<1> QED
  BY <1>1, Inductive, PTL DEF Spec

===============================================================================
