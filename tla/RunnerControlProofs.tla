-------------------------- MODULE RunnerControlProofs -------------------------
(***************************************************************************)
(* Proofs about the runner control plane, for any finite set of            *)
(* invocations, any Accounts, replicas, limits and bounds: its types, the  *)
(* count of concurrency slots, and that it implements RunnerLifecycle.     *)
(***************************************************************************)
EXTENDS RunnerControl, FiniteSetTheorems, TLAPS

-------------------------------------------------------------------------------
(***************************************************************************)
(* The inductive invariant                                                 *)
(***************************************************************************)

States == SlotStates \cup EndStates \cup {"absent", "queued", "failed", "dead_letter"}
Rows == [state: States, attempts: Nat, lapsed: BOOLEAN, cancel: BOOLEAN]
RowTable == [Invocations -> Rows]
JobTable == [Invocations -> [state: {"absent", "running", "succeeded", "failed"}, made: Nat]]
Looks == [call: {"cancel", "inspect"}, inv: Invocations, attempt: Nat, seen: ObservedStates]

\* The record of a replica's next call carries what that call needs.
CallOK(k) ==
    /\ k.call \in {"idle", "ensure", "mark", "cancel", "inspect", "settle"}
    /\ k.call # "idle" => k.inv \in Invocations /\ k.attempt \in Nat
    /\ k.call \in {"cancel", "inspect"} => k \in Looks
    /\ k.call = "mark" => k.answer \in {"launched", "uncertain", "refused"}
    /\ k.call = "settle" => k.answer \in {"confirm", "missing"} \cup EndStates

\* What the tables, the cluster and the replicas hold.
Types ==
    /\ row \in RowTable
    /\ limit \in [Accounts -> Limits]
    /\ active \in [Accounts -> Int]
    /\ exchange \in [Invocations -> [pod: Nat, result: {"none", "completed", "execution_failed"}]]
    /\ job \in JobTable
    /\ inflight \subseteq Invocations
    /\ controller = [c \in Controllers |-> controller[c]]
    /\ \A c \in Controllers : CallOK(controller[c])
    /\ faults \in 0..MaxFaults

\* Leases belong to launches and the flag of a cancellation to the states that
\* the table allows; a bound Pod is one of those that were made.
Flags ==
    \A i \in Invocations :
        /\ row[i].lapsed => row[i].state = "launching"
        /\ row[i].state \in {"canceling", "canceled"} => row[i].cancel
        /\ row[i].cancel => row[i].state \in {"launching", "canceling", "canceled"}
        /\ exchange[i].pod <= job[i].made

\* The attempts of a row that may be claimed, or that nobody attends to.
Repeatable(i) ==
    \/ row[i].state \in {"absent", "queued", "failed", "launch_uncertain"}
    \/ row[i].lapsed
    \/ row[i].state = "launching" /\ ~Attended(i)

\* Every attempt of a row but the one under way was ended by a fault.
AttemptsPaid ==
    /\ \A i \in Invocations :
           /\ row[i].attempts <= faults + 1
           /\ Repeatable(i) => row[i].attempts <= faults
    /\ \A c \in Controllers :
           /\ controller[c].call = "ensure" => controller[c].attempt <= faults + 1
           /\ controller[c].call = "mark" /\ controller[c].answer # "launched" => controller[c].attempt <= faults

\* A Job that succeeded, and a replica that is about to record it, follow a
\* completed result.
ResultsBacked ==
    /\ \A i \in Invocations : job[i].state = "succeeded" => exchange[i].result = "completed"
    /\ \A c \in Controllers :
           controller[c].call = "settle" /\ controller[c].answer = "completed" =>
               exchange[controller[c].inv].result = "completed"

IInv == Types /\ Flags /\ AttemptsPaid /\ ResultsBacked /\ SlotsCounted

\* A replica that goes on to a well-formed call leaves all calls well formed.
LEMMA CallsStep ==
    ASSUME Types, NEW c \in Controllers, NEW k, CallOK(k), controller' = [controller EXCEPT ![c] = k]
    PROVE  /\ controller' = [d \in Controllers |-> controller'[d]]
           /\ \A d \in Controllers : CallOK(controller'[d])
  BY DEF Types

\* A replica may always stop.
LEMMA IdleOK == CallOK(Idle)
  BY DEF CallOK, Idle

\* Every step keeps the types.
LEMMA NextTypes ==
    ASSUME Types, [Next]_vars
    PROVE  Types'
<1>0. row \in RowTable /\ \A i \in Invocations : row[i] \in Rows
  BY DEF Types, RowTable
<1>1. ASSUME NEW i \in Invocations, Provision(i)
      PROVE  Types'
  <2>1. "queued" \in States
    BY DEF States
  <2>2. row' \in RowTable
    BY <1>1, <1>0, <2>1 DEF Rows, RowTable, Provision
  <2> QED
    BY <1>1, <2>2 DEF Types, Provision, slotVars, clusterVars
<1>2. ASSUME NEW i \in Invocations, RequestCancellation(i)
      PROVE  Types'
  <2>1. Canceled(row[i]) \in Rows
    BY <1>0 DEF States, SlotStates, EndStates, Rows, Canceled
  <2>2. row' \in RowTable
    BY <1>2, <1>0, <2>1 DEF Rows, RowTable, RequestCancellation
  <2> QED
    BY <1>2, <2>2 DEF Types, RequestCancellation, slotVars, clusterVars
<1>3. ASSUME NEW i \in Invocations, LateCreate(i)
      PROVE  Types'
  BY <1>3, RunnerAssumption DEF Types, JobTable, LateCreate, Create, slotVars
<1>4. ASSUME NEW i \in Invocations, LeaseExpires(i)
      PROVE  Types'
  <2>1. row' \in RowTable
    BY <1>4 DEF Types, RowTable, Rows, LeaseExpires
  <2>2. faults' \in 0..MaxFaults
    BY <1>4, RunnerAssumption DEF Types, LeaseExpires
  <2> QED
    BY <1>4, <2>1, <2>2 DEF Types, LeaseExpires, slotVars, clusterVars
<1>5. ASSUME NEW i \in Invocations, Fetch(i)
      PROVE  Types'
  BY <1>5, RunnerAssumption, SMTT(30)
     DEF Types, RowTable, Rows, JobTable, CallOK, Looks, States, SlotStates, EndStates, ObservedStates,
         Fetch, BrokerOpen, slotVars, clusterVars
<1>6. ASSUME NEW i \in Invocations, PodSucceeds(i)
      PROVE  Types'
  BY <1>6 DEF Types, JobTable, PodSucceeds, slotVars
<1>7. ASSUME NEW i \in Invocations, PodFails(i)
      PROVE  Types'
  BY <1>7 DEF Types, JobTable, PodFails, slotVars
<1>8. ASSUME NEW i \in Invocations, RemoveFinished(i)
      PROVE  Types'
  BY <1>8, RunnerAssumption
     DEF Types, RowTable, Rows, JobTable, CallOK, Looks, States, SlotStates, EndStates, ObservedStates,
         RemoveFinished, slotVars, clusterVars
<1>9. ASSUME NEW i \in Invocations, NEW outcome \in {"completed", "execution_failed"}, SubmitResult(i, outcome)
      PROVE  Types'
  BY <1>9 DEF Types, RowTable, Rows, SubmitResult, slotVars, clusterVars
<1>10. ASSUME NEW i \in Invocations, NEW c \in Controllers, ClaimFair(c, i)
      PROVE  Types'
  BY <1>10, RunnerAssumption
     DEF Types, RowTable, Rows, JobTable, States, SlotStates, EndStates, ClaimFair, Due, TakesSlot,
         clusterVars
<1>11. ASSUME NEW i \in Invocations, NEW c \in Controllers, ClaimInspection(c, i)
      PROVE  Types'
  BY <1>11 DEF Types, RowTable, Rows, CallOK, Looks, ClaimInspection, slotVars, clusterVars
<1>12. ASSUME NEW a \in Accounts, NEW n \in Limits, Configure(a, n)
      PROVE  Types'
  BY <1>12 DEF Types, Configure, clusterVars
<1>13. ASSUME NEW c \in Controllers, EnsureConfirmed(c)
      PROVE  Types'
  <2>1. controller[c].inv \in Invocations
    BY <1>13 DEF Types, CallOK, EnsureConfirmed
  <2>2. job' \in JobTable
    BY <1>13 DEF Types, JobTable, EnsureConfirmed, Create
  <2>3. \A d \in Controllers : CallOK(controller'[d])
    BY <1>13, <2>1 DEF Types, CallOK, EnsureConfirmed, Answered
  <2> QED
    BY <1>13, <2>2, <2>3 DEF Types, EnsureConfirmed, Answered, slotVars
<1>14. ASSUME NEW c \in Controllers, EnsureUncertain(c)
      PROVE  Types'
  <2>1. controller[c].inv \in Invocations
    BY <1>14 DEF Types, CallOK, EnsureUncertain
  <2>2. job' \in JobTable
    BY <1>14 DEF Types, JobTable, EnsureUncertain, Create, clusterVars
  <2>3. \A d \in Controllers : CallOK(controller'[d])
    BY <1>14, <2>1 DEF Types, CallOK, EnsureUncertain, Answered
  <2> QED
    BY <1>14, <2>1, <2>2, <2>3, RunnerAssumption DEF Types, EnsureUncertain, Answered, slotVars, clusterVars
<1>15. ASSUME NEW c \in Controllers, EnsureRefused(c)
      PROVE  Types'
  BY <1>15, RunnerAssumption DEF Types, CallOK, EnsureRefused, Answered, slotVars, clusterVars
<1>16. ASSUME NEW c \in Controllers, MarkLaunched(c)
      PROVE  Types'
  <2> DEFINE k == controller[c]
  <2>1. k.inv \in Invocations
    BY <1>16 DEF Types, CallOK, MarkLaunched
  <2>2. AfterLaunch(row[k.inv], k.answer) \in States
    BY DEF States, SlotStates, AfterLaunch
  <2>3. row' \in RowTable
    BY <1>16, <2>1, <2>2 DEF Types, Rows, RowTable, MarkLaunched
  <2>4. active' \in [Accounts -> Int]
    BY <1>16, <2>1, RunnerAssumption DEF Types, MarkLaunched, Release, slotVars
  <2> QED
    BY <1>16, <2>3, <2>4, CallsStep, IdleOK DEF Types, MarkLaunched, slotVars, clusterVars
<1>17. ASSUME NEW c \in Controllers, FailLaunch(c)
      PROVE  Types'
  <2> DEFINE k == controller[c]
  <2>1. k.inv \in Invocations
    BY <1>17 DEF Types, CallOK, FailLaunch
  <2>2. AfterFailure(row[k.inv], k.attempt) \in States
    BY DEF States, EndStates, AfterFailure
  <2>3. row' \in RowTable
    <3>1. [row EXCEPT ![k.inv].state = AfterFailure(row[k.inv], k.attempt), ![k.inv].lapsed = FALSE] \in RowTable
      BY <2>1, <2>2, ZenonT(40) DEF Types, Rows, RowTable
    <3> QED
      BY <1>17, <3>1 DEF Types, FailLaunch
  <2>4. active' \in [Accounts -> Int]
    BY <1>17, <2>1, RunnerAssumption DEF Types, FailLaunch, Release, slotVars
  <2> QED
    BY <1>17, <2>3, <2>4, CallsStep, IdleOK DEF Types, FailLaunch, slotVars, clusterVars
<1>18. ASSUME NEW c \in Controllers, CancelJob(c)
      PROVE  Types'
  <2>1. controller[c] \in Looks
    BY <1>18 DEF Types, CallOK, CancelJob
  <2>2. controller[c].inv \in Invocations
    BY <2>1 DEF Looks
  <2>3. [controller[c] EXCEPT !.call = "inspect"] \in Looks
    BY <2>1 DEF Looks
  <2>4. CallOK([controller[c] EXCEPT !.call = "inspect"])
    BY <2>3 DEF CallOK, Looks
  <2>5. controller' = [controller EXCEPT ![c] = [controller[c] EXCEPT !.call = "inspect"]]
    BY <1>18 DEF Types, CancelJob
  <2>6. job' \in JobTable
    BY <1>18, <2>2 DEF Types, JobTable, CancelJob
  <2> QED
    BY <1>18, <2>4, <2>5, <2>6, CallsStep DEF Types, CancelJob, slotVars
<1>19. ASSUME NEW c \in Controllers, Inspect(c)
      PROVE  Types'
  BY <1>19 DEF Types, CallOK, EndStates, Inspect, Conclusion, Idle, slotVars, clusterVars
<1>20. ASSUME NEW c \in Controllers, ConfirmLaunch(c)
      PROVE  Types'
  <2> DEFINE k == controller[c]
  <2>1. k.inv \in Invocations
    BY <1>20 DEF Types, CallOK, ConfirmLaunch
  <2>2. "launched" \in States
    BY DEF States, SlotStates
  <2>3. row' \in RowTable
    BY <1>20, <2>1, <2>2 DEF Types, Rows, RowTable, ConfirmLaunch
  <2>4. active' \in [Accounts -> Int]
    BY <1>20, <2>1, RunnerAssumption DEF Types, ConfirmLaunch, Release, slotVars
  <2> QED
    BY <1>20, <2>3, <2>4, CallsStep, IdleOK DEF Types, ConfirmLaunch, slotVars, clusterVars
<1>21. ASSUME NEW c \in Controllers, ResolveLaunchAbsent(c)
      PROVE  Types'
  <2> DEFINE k == controller[c]
  <2>1. k.inv \in Invocations
    BY <1>21 DEF Types, CallOK, ResolveLaunchAbsent
  <2>2. AfterFailure(row[k.inv], k.attempt) \in States
    BY DEF States, EndStates, AfterFailure
  <2>3. row' \in RowTable
    BY <1>21, <2>1, <2>2, SMTT(30) DEF Types, Rows, RowTable, ResolveLaunchAbsent
  <2>4. active' \in [Accounts -> Int]
    BY <1>21, <2>1, RunnerAssumption DEF Types, ResolveLaunchAbsent, Release, slotVars
  <2> QED
    BY <1>21, <2>3, <2>4, CallsStep, IdleOK DEF Types, ResolveLaunchAbsent, slotVars, clusterVars
<1>22. ASSUME NEW c \in Controllers, Complete(c)
      PROVE  Types'
  <2> DEFINE k == controller[c]
  <2>1. k.inv \in Invocations
    BY <1>22 DEF Types, CallOK, Complete
  <2>2. k.answer \in States
    BY <1>22 DEF States, Complete
  <2>3. row' \in RowTable
    BY <1>22, <2>1, <2>2, SMTT(30) DEF Types, Rows, RowTable, Complete
  <2>4. active' \in [Accounts -> Int]
    BY <1>22, <2>1, RunnerAssumption DEF Types, Complete, Release, slotVars
  <2> QED
    BY <1>22, <2>3, <2>4, CallsStep, IdleOK DEF Types, Complete, slotVars, clusterVars
<1>23. ASSUME NEW c \in Controllers, Crash(c)
      PROVE  Types'
  BY <1>23, RunnerAssumption DEF Types, RowTable, CallOK, Crash, Idle, slotVars, clusterVars
<1>24. CASE UNCHANGED vars
  BY <1>24 DEF Types, vars
<1> QED
  BY <1>1, <1>2, <1>3, <1>4, <1>5, <1>6, <1>7, <1>8, <1>9, <1>10, <1>11, <1>12, <1>13, <1>14, <1>15, <1>16,
     <1>17, <1>18, <1>19, <1>20, <1>21, <1>22, <1>23, <1>24
     DEF Next, Launching, Observing

\* A created Job runs; it is told apart from those made before.
LEMMA Created ==
    ASSUME Types, NEW i \in Invocations, Create(i) \/ UNCHANGED job
    PROVE  \A j \in Invocations : /\ job'[j].made \in Nat /\ job[j].made <= job'[j].made
                                  /\ job'[j].state = "succeeded" => job[j].state = "succeeded"
<1>1. CASE UNCHANGED job
  BY <1>1 DEF Types, JobTable
<1>2. CASE Create(i)
  <2>1. job'[i] = [state |-> "running", made |-> job[i].made + 1] /\ job[i].made \in Nat
    BY <1>2 DEF Create, Types, JobTable
  <2>2. \A j \in Invocations \ {i} : job'[j] = job[j] /\ job[j].made \in Nat
    BY <1>2 DEF Create, Types, JobTable
  <2>3. \A j \in Invocations : j = i \/ j \in Invocations \ {i}
    OBVIOUS
  <2> QED
    BY <2>1, <2>2, <2>3
<1> QED
  BY <1>1, <1>2

\* Row i passes to state s; nothing else of the table changes but its lease.
Becomes(i, s) ==
    /\ row'[i].state = s /\ ~row'[i].lapsed
    /\ row'[i].attempts = row[i].attempts /\ row'[i].cancel = row[i].cancel
    /\ \A j \in Invocations \ {i} : row'[j] = row[j]

\* What the calls that record an answer do to the queue: nothing, or they pass
\* one row, whose state they have looked at, to its next state.
LEMMA Recorded ==
    ASSUME Types, Flags, NEW c \in Controllers
    PROVE  LET k == controller[c] IN
           /\ MarkLaunched(c) => \/ ~HoldsLease(c) /\ UNCHANGED row
                                 \/ HoldsLease(c) /\ Becomes(k.inv, AfterLaunch(row[k.inv], k.answer))
           /\ FailLaunch(c) => \/ ~HoldsLease(c) /\ UNCHANGED <<row, active>>
                               \/ HoldsLease(c) /\ Becomes(k.inv, AfterFailure(row[k.inv], k.attempt)) /\ Release(k.inv)
           /\ ConfirmLaunch(c) => \/ UNCHANGED row
                                  \/ row[k.inv].state = "launch_uncertain" /\ Becomes(k.inv, "launched")
           /\ ResolveLaunchAbsent(c) => \/ UNCHANGED <<row, active>>
                                        \/ /\ row[k.inv].state = "launch_uncertain"
                                           /\ Becomes(k.inv, AfterFailure(row[k.inv], k.attempt)) /\ Release(k.inv)
           /\ Complete(c) => \/ UNCHANGED <<row, active>>
                             \/ Completable(row[k.inv].state, k.answer) /\ Becomes(k.inv, k.answer) /\ Release(k.inv)
<1> DEFINE k == controller[c]
<1>1. \A i \in Invocations : \A s : row' = [row EXCEPT ![i].state = s, ![i].lapsed = FALSE] => Becomes(i, s)
  BY DEF Types, RowTable, Rows, Becomes
<1>2. \A i \in Invocations : \A s : row' = [row EXCEPT ![i].state = s] /\ row[i].state # "launching" => Becomes(i, s)
  BY DEF Types, RowTable, Rows, Becomes, Flags
<1>3. k.call \in {"mark", "settle"} => k.inv \in Invocations
  BY DEF Types, CallOK
<1>4. ASSUME MarkLaunched(c)
      PROVE  \/ ~HoldsLease(c) /\ UNCHANGED row
             \/ HoldsLease(c) /\ Becomes(k.inv, AfterLaunch(row[k.inv], k.answer))
  BY <1>1, <1>3, <1>4 DEF MarkLaunched
<1>5. ASSUME FailLaunch(c)
      PROVE  \/ ~HoldsLease(c) /\ UNCHANGED <<row, active>>
             \/ HoldsLease(c) /\ Becomes(k.inv, AfterFailure(row[k.inv], k.attempt)) /\ Release(k.inv)
  BY <1>1, <1>3, <1>5 DEF FailLaunch
<1>6. ASSUME ConfirmLaunch(c)
      PROVE  \/ UNCHANGED row
             \/ row[k.inv].state = "launch_uncertain" /\ Becomes(k.inv, "launched")
  BY <1>2, <1>3, <1>6 DEF ConfirmLaunch
<1>7. ASSUME ResolveLaunchAbsent(c)
      PROVE  \/ UNCHANGED <<row, active>>
             \/ /\ row[k.inv].state = "launch_uncertain"
                /\ Becomes(k.inv, AfterFailure(row[k.inv], k.attempt)) /\ Release(k.inv)
  BY <1>2, <1>3, <1>7 DEF ResolveLaunchAbsent
<1>8. ASSUME Complete(c)
      PROVE  \/ UNCHANGED <<row, active>>
             \/ Completable(row[k.inv].state, k.answer) /\ Becomes(k.inv, k.answer) /\ Release(k.inv)
  <2>1. \A s, o : Completable(s, o) => s # "launching"
    BY DEF Completable
  <2> QED
    BY <1>2, <1>3, <1>8, <2>1 DEF Complete
<1> QED
  BY <1>4, <1>5, <1>6, <1>7, <1>8

\* Every step keeps leases, flags and Pod bindings in order.
LEMMA NextFlags ==
    ASSUME Types, Flags, [Next]_vars
    PROVE  Flags'
<1>1. ASSUME NEW i \in Invocations, Provision(i)
      PROVE  Flags'
  BY <1>1 DEF Flags, Provision, clusterVars
<1>2. ASSUME NEW i \in Invocations, RequestCancellation(i)
      PROVE  Flags'
  BY <1>2 DEF Flags, RequestCancellation, Canceled, clusterVars
<1>3. ASSUME NEW i \in Invocations, LateCreate(i)
      PROVE  Flags'
  BY <1>3, SMTT(30)
     DEF Flags, EndStates, States, SlotStates, ObservedStates, Types, CallOK, Looks, Rows, RowTable,
         JobTable, LateCreate, Create, slotVars, clusterVars
<1>4. ASSUME NEW i \in Invocations, LeaseExpires(i)
      PROVE  Flags'
  BY <1>4 DEF Flags, LeaseExpires, clusterVars
<1>5. ASSUME NEW i \in Invocations, Fetch(i)
      PROVE  Flags'
  BY <1>5 DEF Flags, Types, JobTable, Fetch, clusterVars
<1>6. ASSUME NEW i \in Invocations, PodSucceeds(i)
      PROVE  Flags'
  BY <1>6 DEF Flags, PodSucceeds
<1>7. ASSUME NEW i \in Invocations, PodFails(i)
      PROVE  Flags'
  BY <1>7 DEF Flags, PodFails
<1>8. ASSUME NEW i \in Invocations, RemoveFinished(i)
      PROVE  Flags'
  BY <1>8 DEF Flags, RemoveFinished
<1>9. ASSUME NEW i \in Invocations, NEW outcome \in {"completed", "execution_failed"}, SubmitResult(i, outcome)
      PROVE  Flags'
  BY <1>9 DEF Flags, SubmitResult, clusterVars
<1>10. ASSUME NEW i \in Invocations, NEW c \in Controllers, ClaimFair(c, i)
      PROVE  Flags'
  BY <1>10 DEF EndStates, States, Types, Rows, RowTable, JobTable, ClaimFair, TakesSlot
<1>11. ASSUME NEW i \in Invocations, NEW c \in Controllers, ClaimInspection(c, i)
      PROVE  Flags'
  BY <1>11 DEF Flags, ClaimInspection, clusterVars
<1>12. ASSUME NEW a \in Accounts, NEW n \in Limits, Configure(a, n)
      PROVE  Flags'
  BY <1>12 DEF Flags, Configure, clusterVars
<1>13. ASSUME NEW c \in Controllers, EnsureConfirmed(c)
      PROVE  Flags'
  <2>1. controller[c].inv \in Invocations /\ UNCHANGED <<row, exchange>>
    BY <1>13 DEF Types, CallOK, EnsureConfirmed
  <2>2. Create(controller[c].inv) \/ UNCHANGED job
    BY <1>13 DEF EnsureConfirmed
  <2>3. \A i \in Invocations : job'[i].made \in Nat /\ job[i].made <= job'[i].made
    BY <2>1, <2>2, Created
  <2>4. \A i \in Invocations : exchange[i].pod \in Nat /\ job[i].made \in Nat
    BY DEF Types, JobTable
  <2> QED
    BY <2>1, <2>3, <2>4 DEF Flags
<1>14. ASSUME NEW c \in Controllers, EnsureUncertain(c)
      PROVE  Flags'
  BY <1>14
     DEF Flags, EndStates, States, ObservedStates, Types, JobTable, EnsureUncertain, Create, clusterVars
<1>15. ASSUME NEW c \in Controllers, EnsureRefused(c)
      PROVE  Flags'
  BY <1>15 DEF Flags, EnsureRefused, clusterVars
<1>16. ASSUME NEW c \in Controllers, MarkLaunched(c)
      PROVE  Flags'
  <2> DEFINE k == controller[c]
  <2>1. k.inv \in Invocations /\ UNCHANGED <<exchange, job>>
    BY <1>16 DEF Types, CallOK, MarkLaunched, clusterVars
  <2>2. UNCHANGED row => Flags'
    BY <2>1 DEF Flags
  <2>3. ASSUME ~UNCHANGED row
        PROVE  Flags'
    <3>1. row[k.inv].state = "launching" /\ Becomes(k.inv, AfterLaunch(row[k.inv], k.answer))
      BY <1>16, <2>3, Recorded DEF HoldsLease
    <3>2. AfterLaunch(row[k.inv], k.answer) \in IF row[k.inv].cancel THEN {"canceling"} ELSE {"launched", "launch_uncertain"}
      BY DEF AfterLaunch
    <3> QED
      BY <2>1, <3>1, <3>2 DEF Flags, Becomes, AfterLaunch
  <2> QED
    BY <2>2, <2>3
<1>17. ASSUME NEW c \in Controllers, FailLaunch(c)
      PROVE  Flags'
  <2> DEFINE k == controller[c]
  <2>1. k.inv \in Invocations /\ UNCHANGED <<exchange, job>>
    BY <1>17 DEF Types, CallOK, FailLaunch, clusterVars
  <2>2. UNCHANGED row => Flags'
    BY <2>1 DEF Flags
  <2>3. ASSUME ~UNCHANGED row
        PROVE  Flags'
    <3>1. row[k.inv].state = "launching" /\ Becomes(k.inv, AfterFailure(row[k.inv], k.attempt))
      BY <1>17, <2>3, Recorded DEF HoldsLease
    <3>2. AfterFailure(row[k.inv], k.attempt) \in IF row[k.inv].cancel THEN {"canceled"} ELSE {"failed", "dead_letter"}
      BY DEF AfterFailure
    <3> QED
      BY <2>1, <3>1, <3>2 DEF Flags, Becomes, AfterFailure
  <2> QED
    BY <2>2, <2>3
<1>18. ASSUME NEW c \in Controllers, CancelJob(c)
      PROVE  Flags'
  BY <1>18 DEF Flags, CancelJob
<1>19. ASSUME NEW c \in Controllers, Inspect(c)
      PROVE  Flags'
  BY <1>19 DEF Flags, Inspect, clusterVars
<1>20. ASSUME NEW c \in Controllers, ConfirmLaunch(c)
      PROVE  Flags'
  BY <1>20 DEF Flags, ConfirmLaunch, clusterVars
<1>21. ASSUME NEW c \in Controllers, ResolveLaunchAbsent(c)
      PROVE  Flags'
  <2> DEFINE k == controller[c]
  <2>1. k.inv \in Invocations /\ UNCHANGED <<exchange, job>>
    BY <1>21 DEF Types, CallOK, ResolveLaunchAbsent, clusterVars
  <2>2. UNCHANGED row => Flags'
    BY <2>1 DEF Flags
  <2>3. ASSUME ~UNCHANGED row
        PROVE  Flags'
    <3>1. row[k.inv].state = "launch_uncertain" /\ Becomes(k.inv, AfterFailure(row[k.inv], k.attempt))
      BY <1>21, <2>3, Recorded DEF HoldsLease
    <3>2. AfterFailure(row[k.inv], k.attempt) \in IF row[k.inv].cancel THEN {"canceled"} ELSE {"failed", "dead_letter"}
      BY DEF AfterFailure
    <3> QED
      BY <2>1, <3>1, <3>2 DEF Flags, Becomes, AfterFailure
  <2> QED
    BY <2>2, <2>3
<1>22. ASSUME NEW c \in Controllers, Complete(c)
      PROVE  Flags'
  BY <1>22, SMTT(30)
     DEF Flags, EndStates, States, SlotStates, ObservedStates, Types, CallOK, Looks, Rows, RowTable,
         JobTable, Complete, Completable, Release, Idle, slotVars, clusterVars
<1>23. ASSUME NEW c \in Controllers, Crash(c)
      PROVE  Flags'
  BY <1>23 DEF Flags, Crash, clusterVars
<1>24. CASE UNCHANGED vars
  BY <1>24 DEF Flags, vars
<1> QED
  BY <1>1, <1>2, <1>3, <1>4, <1>5, <1>6, <1>7, <1>8, <1>9, <1>10, <1>11, <1>12, <1>13, <1>14, <1>15, <1>16,
     <1>17, <1>18, <1>19, <1>20, <1>21, <1>22, <1>23, <1>24
     DEF Next, Launching, Observing

\* No step makes an end from a result that is not there.
LEMMA NextBacked ==
    ASSUME Types, ResultsBacked, [Next]_vars
    PROVE  ResultsBacked'
<1>1. ASSUME NEW i \in Invocations, Provision(i)
      PROVE  ResultsBacked'
  BY <1>1 DEF ResultsBacked, Provision, clusterVars
<1>2. ASSUME NEW i \in Invocations, RequestCancellation(i)
      PROVE  ResultsBacked'
  BY <1>2 DEF ResultsBacked, RequestCancellation, clusterVars
<1>3. ASSUME NEW i \in Invocations, LateCreate(i)
      PROVE  ResultsBacked'
  <2>1. \A j \in Invocations : job'[j].state = "succeeded" => job[j].state = "succeeded"
    BY <1>3, Created DEF LateCreate
  <2> QED
    BY <1>3, <2>1 DEF ResultsBacked, LateCreate
<1>4. ASSUME NEW i \in Invocations, LeaseExpires(i)
      PROVE  ResultsBacked'
  BY <1>4 DEF ResultsBacked, LeaseExpires, clusterVars
<1>5. ASSUME NEW i \in Invocations, Fetch(i)
      PROVE  ResultsBacked'
  BY <1>5 DEF ResultsBacked, Fetch, clusterVars
<1>6. ASSUME NEW i \in Invocations, PodSucceeds(i)
      PROVE  ResultsBacked'
  BY <1>6 DEF ResultsBacked, PodSucceeds, Submitted
<1>7. ASSUME NEW i \in Invocations, PodFails(i)
      PROVE  ResultsBacked'
  BY <1>7 DEF ResultsBacked, PodFails
<1>8. ASSUME NEW i \in Invocations, RemoveFinished(i)
      PROVE  ResultsBacked'
  BY <1>8 DEF ResultsBacked, RemoveFinished
<1>9. ASSUME NEW i \in Invocations, NEW outcome \in {"completed", "execution_failed"}, SubmitResult(i, outcome)
      PROVE  ResultsBacked'
  BY <1>9 DEF ResultsBacked, SubmitResult, clusterVars
<1>10. ASSUME NEW i \in Invocations, NEW c \in Controllers, ClaimFair(c, i)
      PROVE  ResultsBacked'
  BY <1>10 DEF Types, Rows, RowTable, ClaimFair
<1>11. ASSUME NEW i \in Invocations, NEW c \in Controllers, ClaimInspection(c, i)
      PROVE  ResultsBacked'
  BY <1>11 DEF ResultsBacked, ClaimInspection, clusterVars
<1>12. ASSUME NEW a \in Accounts, NEW n \in Limits, Configure(a, n)
      PROVE  ResultsBacked'
  BY <1>12 DEF ResultsBacked, Configure, clusterVars
<1>13. ASSUME NEW c \in Controllers, EnsureConfirmed(c)
      PROVE  ResultsBacked'
  BY <1>13, SMTT(30)
     DEF ResultsBacked, Types, CallOK, Looks, Rows, RowTable, JobTable, EnsureConfirmed, Create, Answered,
         slotVars, clusterVars
<1>14. ASSUME NEW c \in Controllers, EnsureUncertain(c)
      PROVE  ResultsBacked'
  BY <1>14 DEF ResultsBacked, Types, JobTable, EnsureUncertain, Create, Answered, clusterVars
<1>15. ASSUME NEW c \in Controllers, EnsureRefused(c)
      PROVE  ResultsBacked'
  BY <1>15 DEF ResultsBacked, EnsureRefused, Answered, clusterVars
<1>16. ASSUME NEW c \in Controllers, MarkLaunched(c)
      PROVE  ResultsBacked'
  BY <1>16 DEF ResultsBacked, MarkLaunched, Idle, clusterVars
<1>17. ASSUME NEW c \in Controllers, FailLaunch(c)
      PROVE  ResultsBacked'
  BY <1>17 DEF ResultsBacked, FailLaunch, Idle, clusterVars
<1>18. ASSUME NEW c \in Controllers, CancelJob(c)
      PROVE  ResultsBacked'
  BY <1>18 DEF ResultsBacked, CancelJob
<1>19. ASSUME NEW c \in Controllers, Inspect(c)
      PROVE  ResultsBacked'
  BY <1>19 DEF ResultsBacked, Types, CallOK, Inspect, Conclusion, Idle, clusterVars
<1>20. ASSUME NEW c \in Controllers, ConfirmLaunch(c)
      PROVE  ResultsBacked'
  BY <1>20 DEF ResultsBacked, ConfirmLaunch, Idle, clusterVars
<1>21. ASSUME NEW c \in Controllers, ResolveLaunchAbsent(c)
      PROVE  ResultsBacked'
  BY <1>21 DEF ResultsBacked, ResolveLaunchAbsent, Idle, clusterVars
<1>22. ASSUME NEW c \in Controllers, Complete(c)
      PROVE  ResultsBacked'
  BY <1>22 DEF ResultsBacked, Complete, Idle, clusterVars
<1>23. ASSUME NEW c \in Controllers, Crash(c)
      PROVE  ResultsBacked'
  BY <1>23 DEF ResultsBacked, Crash, Idle, clusterVars
<1>24. CASE UNCHANGED vars
  BY <1>24 DEF ResultsBacked, vars
<1> QED
  BY <1>1, <1>2, <1>3, <1>4, <1>5, <1>6, <1>7, <1>8, <1>9, <1>10, <1>11, <1>12, <1>13, <1>14, <1>15, <1>16,
     <1>17, <1>18, <1>19, <1>20, <1>21, <1>22, <1>23, <1>24
     DEF Next, Launching, Observing

\* A step that takes no lease from a replica and hands out no other keeps all
\* attempts paid.
LEMMA PaidQuietly ==
    ASSUME Types, Flags, AttemptsPaid, NEW c \in Controllers, NEW k,
           controller' = [controller EXCEPT ![c] = k], k.call \notin {"ensure", "mark"},
           faults' \in Int, faults <= faults', UNCHANGED row,
           \/ faults < faults'
           \/ controller[c].call \notin {"ensure", "mark"}
           \/ ~HoldsLease(c)
    PROVE  AttemptsPaid'
<1>1. /\ \A d \in Controllers \ {c} : controller'[d] = controller[d]
      /\ controller'[c] = k
  BY DEF Types
<1>2. faults \in Int /\ \A i \in Invocations : row[i].attempts \in Int
  BY DEF Types, Rows, RowTable
<1>3. \A d \in Controllers : controller[d].call \in {"ensure", "mark"} => controller[d].attempt \in Int
  BY DEF Types, CallOK
<1>4. \A d \in Controllers :
          /\ controller'[d].call = "ensure" => controller'[d].attempt <= faults' + 1
          /\ controller'[d].call = "mark" /\ controller'[d].answer # "launched" => controller'[d].attempt <= faults'
  BY <1>1, <1>2, <1>3 DEF AttemptsPaid
<1>5. ASSUME NEW i \in Invocations, Repeatable(i)'
      PROVE  row'[i].attempts <= faults'
  <2>1. CASE faults < faults'
    BY <1>2, <2>1 DEF AttemptsPaid
  <2>2. CASE controller[c].call \notin {"ensure", "mark"} \/ ~HoldsLease(c)
    <3>1. row[i].state = "launching" /\ Attended(i) => Attended(i)'
      BY <1>1, <2>2 DEF Attended, HoldsLease
    <3>2. Repeatable(i)
      BY <1>5, <3>1 DEF Repeatable
    <3> QED
      BY <1>2, <3>2 DEF AttemptsPaid
  <2> QED
    BY <2>1, <2>2
<1> QED
  BY <1>2, <1>4, <1>5 DEF AttemptsPaid

\* A row that leaves the launching and the repeatable states, or that a fault
\* has paid for, keeps all attempts paid when its replica stops.
LEMMA PaidRecorded ==
    ASSUME Types, Flags, AttemptsPaid, NEW c \in Controllers, NEW s,
           controller' = [controller EXCEPT ![c] = Idle], UNCHANGED faults,
           controller[c].inv \in Invocations, Becomes(controller[c].inv, s), s # "launching",
           s \in {"failed", "launch_uncertain"} => row[controller[c].inv].attempts <= faults,
           s \notin {"absent", "queued"}
    PROVE  AttemptsPaid'
<1> DEFINE k == controller[c]
<1>1. /\ \A d \in Controllers \ {c} : controller'[d] = controller[d]
      /\ controller'[c].call = "idle"
  BY DEF Types, Idle
<1>2. faults \in Int /\ \A i \in Invocations : row[i].attempts \in Int
  BY DEF Types, Rows, RowTable
<1>3. \A d \in Controllers :
          /\ controller'[d].call = "ensure" => controller'[d].attempt <= faults' + 1
          /\ controller'[d].call = "mark" /\ controller'[d].answer # "launched" => controller'[d].attempt <= faults'
  BY <1>1 DEF AttemptsPaid
<1>4. ASSUME NEW i \in Invocations, Repeatable(i)'
      PROVE  row'[i].attempts <= faults'
  <2>1. CASE i = k.inv
    BY <1>4, <2>1 DEF Becomes, Repeatable
  <2>2. CASE i # k.inv
    <3>1. row'[i] = row[i] /\ controller[c].inv # i
      BY <2>2 DEF Becomes
    <3>2. Attended(i) => Attended(i)'
      BY <1>1, <3>1 DEF Attended
    <3> QED
      BY <1>4, <3>1, <3>2 DEF Repeatable, AttemptsPaid
  <2> QED
    BY <2>1, <2>2
<1>5. \A i \in Invocations : row'[i].attempts = row[i].attempts
  BY DEF Becomes
<1> QED
  BY <1>3, <1>4, <1>5 DEF AttemptsPaid

\* Every step that lets a row be claimed again is paid by a fault.
LEMMA NextPaid ==
    ASSUME Types, Flags, AttemptsPaid, [Next]_vars
    PROVE  AttemptsPaid'
<1>1. ASSUME NEW i \in Invocations, Provision(i)
      PROVE  AttemptsPaid'
  BY <1>1 DEF AttemptsPaid, Repeatable, Attended, Provision
<1>2. ASSUME NEW i \in Invocations, RequestCancellation(i)
      PROVE  AttemptsPaid'
  BY <1>2 DEF AttemptsPaid, Repeatable, Attended, RequestCancellation, Canceled
<1>3. ASSUME NEW i \in Invocations, LateCreate(i)
      PROVE  AttemptsPaid'
  BY <1>3 DEF AttemptsPaid, Repeatable, Attended, LateCreate
<1>4. ASSUME NEW i \in Invocations, LeaseExpires(i)
      PROVE  AttemptsPaid'
  <2>1. /\ faults \in Int /\ faults' \in Int /\ faults <= faults'
        /\ row[i].attempts <= faults'
    BY <1>4 DEF LeaseExpires, Types, AttemptsPaid, Repeatable
  <2>2. \A j \in Invocations : row'[j].attempts = row[j].attempts /\ row[j].attempts \in Int
    BY <1>4 DEF LeaseExpires, Types, Rows, RowTable
  <2>3. \A j \in Invocations \ {i} : row'[j] = row[j]
    BY <1>4 DEF LeaseExpires, Types, RowTable
  <2>4. UNCHANGED controller /\ \A d \in Controllers : controller[d].call \in {"ensure", "mark"} => controller[d].attempt \in Int
    BY <1>4 DEF LeaseExpires, Types, CallOK
  <2>5. \A j \in Invocations \ {i} : Repeatable(j)' => Repeatable(j)
    BY <2>2, <2>3, <2>4 DEF Repeatable, Attended
  <2> QED
    BY <2>1, <2>2, <2>4, <2>5 DEF AttemptsPaid
<1>5. ASSUME NEW i \in Invocations, Fetch(i)
      PROVE  AttemptsPaid'
  BY <1>5 DEF AttemptsPaid, Repeatable, Attended, Fetch
<1>6. ASSUME NEW i \in Invocations, PodSucceeds(i)
      PROVE  AttemptsPaid'
  BY <1>6 DEF AttemptsPaid, Repeatable, Attended, PodSucceeds
<1>7. ASSUME NEW i \in Invocations, PodFails(i)
      PROVE  AttemptsPaid'
  BY <1>7 DEF AttemptsPaid, Repeatable, Attended, PodFails
<1>8. ASSUME NEW i \in Invocations, RemoveFinished(i)
      PROVE  AttemptsPaid'
  BY <1>8 DEF AttemptsPaid, Repeatable, Attended, RemoveFinished
<1>9. ASSUME NEW i \in Invocations, NEW outcome \in {"completed", "execution_failed"}, SubmitResult(i, outcome)
      PROVE  AttemptsPaid'
  BY <1>9 DEF AttemptsPaid, Repeatable, Attended, SubmitResult
<1>10. ASSUME NEW i \in Invocations, NEW c \in Controllers, ClaimFair(c, i)
      PROVE  AttemptsPaid'
  <2>1. /\ faults \in Int /\ UNCHANGED faults /\ \A j \in Invocations : row[j].attempts \in Int
        /\ row[i].attempts <= faults
    BY <1>10 DEF ClaimFair, Types, Rows, RowTable
  <2>2. /\ row'[i].state = "launching" /\ row'[i].attempts = row[i].attempts + 1 /\ ~row'[i].lapsed
        /\ \A j \in Invocations \ {i} : row'[j] = row[j]
    BY <1>10 DEF ClaimFair, Types, Rows, RowTable
  <2>3. /\ controller[c].call = "idle"
        /\ controller'[c] = [call |-> "ensure", inv |-> i, attempt |-> row[i].attempts + 1]
        /\ \A d \in Controllers \ {c} : controller'[d] = controller[d]
    BY <1>10 DEF ClaimFair, Types, Idle
  <2>4. Attended(i)'
    BY <2>2, <2>3 DEF Attended
  <2>5. \A j \in Invocations \ {i} : Attended(j) => Attended(j)'
    BY <2>2, <2>3 DEF Attended
  <2>6. \A j \in Invocations \ {i} : Repeatable(j)' => Repeatable(j)
    BY <2>2, <2>5 DEF Repeatable
  <2>7. ~Repeatable(i)'
    BY <2>2, <2>4 DEF Repeatable
  <2> QED
    BY <2>1, <2>2, <2>3, <2>6, <2>7 DEF AttemptsPaid
<1>11. ASSUME NEW i \in Invocations, NEW c \in Controllers, ClaimInspection(c, i)
      PROVE  AttemptsPaid'
  <2> DEFINE k == [call |-> IF row[i].state = "canceling" THEN "cancel" ELSE "inspect",
                   inv |-> i, attempt |-> row[i].attempts, seen |-> row[i].state]
  <2>1. controller' = [controller EXCEPT ![c] = k] /\ k.call \notin {"ensure", "mark"}
    BY <1>11 DEF ClaimInspection
  <2>2. controller[c].call \notin {"ensure", "mark"} /\ UNCHANGED row /\ faults' \in Int /\ faults <= faults'
    BY <1>11 DEF ClaimInspection, Idle, Types
  <2> HIDE DEF k
  <2> QED
    BY <2>1, <2>2, PaidQuietly
<1>12. ASSUME NEW a \in Accounts, NEW n \in Limits, Configure(a, n)
      PROVE  AttemptsPaid'
  BY <1>12 DEF AttemptsPaid, Repeatable, Attended, Configure
<1>13. ASSUME NEW c \in Controllers, EnsureConfirmed(c)
      PROVE  AttemptsPaid'
  BY <1>13 DEF AttemptsPaid, Repeatable, Attended, EnsureConfirmed, Answered
<1>14. ASSUME NEW c \in Controllers, EnsureUncertain(c)
      PROVE  AttemptsPaid'
  <2>1. /\ faults \in Int /\ faults' = faults + 1 /\ UNCHANGED row /\ \A j \in Invocations : row[j].attempts \in Int
    BY <1>14 DEF EnsureUncertain, Types, Rows, RowTable
  <2>2. /\ \A d \in Controllers \ {c} : controller'[d] = controller[d]
        /\ controller'[c].attempt = controller[c].attempt /\ controller'[c].call = "mark"
    BY <1>14 DEF EnsureUncertain, Answered, Types
  <2>3. \A d \in Controllers : controller[d].call \in {"ensure", "mark"} => controller[d].attempt \in Int
    BY DEF Types, CallOK
  <2>4. controller[c].attempt \in Int /\ controller[c].attempt <= faults + 1
    BY <1>14 DEF EnsureUncertain, Types, CallOK, AttemptsPaid
  <2> QED
    BY <2>1, <2>2, <2>3, <2>4 DEF AttemptsPaid
<1>15. ASSUME NEW c \in Controllers, EnsureRefused(c)
      PROVE  AttemptsPaid'
  <2>1. /\ faults \in Int /\ faults' = faults + 1 /\ UNCHANGED row /\ \A j \in Invocations : row[j].attempts \in Int
    BY <1>15 DEF EnsureRefused, Types, Rows, RowTable
  <2>2. /\ \A d \in Controllers \ {c} : controller'[d] = controller[d]
        /\ controller'[c].attempt = controller[c].attempt /\ controller'[c].call = "mark"
    BY <1>15 DEF EnsureRefused, Answered, Types
  <2>3. \A d \in Controllers : controller[d].call \in {"ensure", "mark"} => controller[d].attempt \in Int
    BY DEF Types, CallOK
  <2>4. controller[c].attempt \in Int /\ controller[c].attempt <= faults + 1
    BY <1>15 DEF EnsureRefused, Types, CallOK, AttemptsPaid
  <2> QED
    BY <2>1, <2>2, <2>3, <2>4 DEF AttemptsPaid
<1>16. ASSUME NEW c \in Controllers, MarkLaunched(c)
      PROVE  AttemptsPaid'
  <2> DEFINE k == controller[c]
  <2>1. /\ k.inv \in Invocations /\ k.call \in {"mark", "settle"} /\ UNCHANGED faults
        /\ controller' = [controller EXCEPT ![c] = Idle] /\ Idle.call = "idle"
    BY <1>16 DEF MarkLaunched, Types, CallOK, Idle
  <2>2. ASSUME UNCHANGED row, ~HoldsLease(c)
        PROVE  AttemptsPaid'
    <3>1. faults' \in Int /\ faults <= faults'
      BY <2>1 DEF Types
    <3> QED
      BY <2>1, <2>2, <3>1, PaidQuietly
  <2>3. ASSUME HoldsLease(c), Becomes(k.inv, AfterLaunch(row[k.inv], k.answer))
        PROVE  AttemptsPaid'
    <3>2. k.call = "mark"
      BY <1>16 DEF MarkLaunched
    <3>1. /\ AfterLaunch(row[k.inv], k.answer) \notin {"launching", "absent", "queued", "failed"}
          /\ AfterLaunch(row[k.inv], k.answer) = "launch_uncertain" => row[k.inv].attempts <= faults
      BY <2>3, <3>2 DEF AfterLaunch, HoldsLease, AttemptsPaid
    <3> QED
      BY <2>1, <2>3, <3>1, PaidRecorded
  <2> QED
    BY <1>16, <2>2, <2>3, Recorded
<1>17. ASSUME NEW c \in Controllers, FailLaunch(c)
      PROVE  AttemptsPaid'
  <2> DEFINE k == controller[c]
  <2>1. /\ k.inv \in Invocations /\ k.call \in {"mark", "settle"} /\ UNCHANGED faults
        /\ controller' = [controller EXCEPT ![c] = Idle] /\ Idle.call = "idle"
    BY <1>17 DEF FailLaunch, Types, CallOK, Idle
  <2>2. ASSUME UNCHANGED row, ~HoldsLease(c)
        PROVE  AttemptsPaid'
    <3>1. faults' \in Int /\ faults <= faults'
      BY <2>1 DEF Types
    <3> QED
      BY <2>1, <2>2, <3>1, PaidQuietly
  <2>3. ASSUME HoldsLease(c), Becomes(k.inv, AfterFailure(row[k.inv], k.attempt))
        PROVE  AttemptsPaid'
    <3>2. k.call = "mark" /\ k.answer = "refused"
      BY <1>17 DEF FailLaunch
    <3>1. /\ AfterFailure(row[k.inv], k.attempt) \notin {"launching", "absent", "queued"}
          /\ row[k.inv].attempts <= faults
      BY <2>3, <3>2 DEF AfterFailure, HoldsLease, AttemptsPaid
    <3> QED
      BY <2>1, <2>3, <3>1, PaidRecorded
  <2> QED
    BY <1>17, <2>2, <2>3, Recorded
<1>18. ASSUME NEW c \in Controllers, CancelJob(c)
      PROVE  AttemptsPaid'
  <2> DEFINE k == [controller[c] EXCEPT !.call = "inspect"]
  <2>1. controller' = [controller EXCEPT ![c] = k] /\ k.call \notin {"ensure", "mark"}
    BY <1>18 DEF CancelJob, Types, CallOK, Looks
  <2>2. controller[c].call \notin {"ensure", "mark"} /\ UNCHANGED row /\ faults' \in Int /\ faults <= faults'
    BY <1>18 DEF CancelJob, Types
  <2> HIDE DEF k
  <2> QED
    BY <2>1, <2>2, PaidQuietly
<1>19. ASSUME NEW c \in Controllers, Inspect(c)
      PROVE  AttemptsPaid'
  BY <1>19 DEF AttemptsPaid, Repeatable, Attended, Inspect, Idle
<1>20. ASSUME NEW c \in Controllers, ConfirmLaunch(c)
      PROVE  AttemptsPaid'
  <2> DEFINE k == controller[c]
  <2>1. /\ k.inv \in Invocations /\ k.call \in {"mark", "settle"} /\ UNCHANGED faults
        /\ controller' = [controller EXCEPT ![c] = Idle] /\ Idle.call = "idle"
    BY <1>20 DEF ConfirmLaunch, Types, CallOK, Idle
  <2>2. ASSUME UNCHANGED row, k.call = "settle"
        PROVE  AttemptsPaid'
    <3>1. faults' \in Int /\ faults <= faults'
      BY <2>1 DEF Types
    <3> QED
      BY <2>1, <2>2, <3>1, PaidQuietly
  <2>3. ASSUME row[k.inv].state = "launch_uncertain", Becomes(k.inv, "launched")
        PROVE  AttemptsPaid'
    <3>1. "launched" \notin {"launching", "absent", "queued", "failed", "launch_uncertain"}
      OBVIOUS
    <3> QED
      BY <2>1, <2>3, <3>1, PaidRecorded
  <2> QED
    BY <1>20, <2>2, <2>3, Recorded DEF ConfirmLaunch
<1>21. ASSUME NEW c \in Controllers, ResolveLaunchAbsent(c)
      PROVE  AttemptsPaid'
  <2> DEFINE k == controller[c]
  <2>1. /\ k.inv \in Invocations /\ k.call \in {"mark", "settle"} /\ UNCHANGED faults
        /\ controller' = [controller EXCEPT ![c] = Idle] /\ Idle.call = "idle"
    BY <1>21 DEF ResolveLaunchAbsent, Types, CallOK, Idle
  <2>2. ASSUME UNCHANGED row, k.call = "settle"
        PROVE  AttemptsPaid'
    <3>1. faults' \in Int /\ faults <= faults'
      BY <2>1 DEF Types
    <3> QED
      BY <2>1, <2>2, <3>1, PaidQuietly
  <2>3. ASSUME row[k.inv].state = "launch_uncertain", Becomes(k.inv, AfterFailure(row[k.inv], k.attempt))
        PROVE  AttemptsPaid'
    <3>1. /\ AfterFailure(row[k.inv], k.attempt) \notin {"launching", "absent", "queued"}
          /\ row[k.inv].attempts <= faults
      BY <2>1, <2>3 DEF AfterFailure, AttemptsPaid, Repeatable
    <3> QED
      BY <2>1, <2>3, <3>1, PaidRecorded
  <2> QED
    BY <1>21, <2>2, <2>3, Recorded DEF ResolveLaunchAbsent
<1>22. ASSUME NEW c \in Controllers, Complete(c)
      PROVE  AttemptsPaid'
  <2> DEFINE k == controller[c]
  <2>1. /\ k.inv \in Invocations /\ k.call \in {"mark", "settle"} /\ UNCHANGED faults
        /\ controller' = [controller EXCEPT ![c] = Idle] /\ Idle.call = "idle"
    BY <1>22 DEF Complete, Types, CallOK, Idle
  <2>2. ASSUME UNCHANGED row, k.call = "settle"
        PROVE  AttemptsPaid'
    <3>1. faults' \in Int /\ faults <= faults'
      BY <2>1 DEF Types
    <3> QED
      BY <2>1, <2>2, <3>1, PaidQuietly
  <2>3. ASSUME Completable(row[k.inv].state, k.answer), Becomes(k.inv, k.answer)
        PROVE  AttemptsPaid'
    <3>1. k.answer \notin {"launching", "absent", "queued", "failed", "launch_uncertain"}
      BY <2>3 DEF Completable
    <3> QED
      BY <2>1, <2>3, <3>1, PaidRecorded
  <2> QED
    BY <1>22, <2>2, <2>3, Recorded DEF Complete
<1>23. ASSUME NEW c \in Controllers, Crash(c)
      PROVE  AttemptsPaid'
  <2>1. /\ controller' = [controller EXCEPT ![c] = Idle] /\ Idle.call = "idle" /\ UNCHANGED row
        /\ faults' \in Int /\ faults < faults' /\ faults <= faults'
    BY <1>23 DEF Crash, Idle, Types
  <2> QED
    BY <2>1, PaidQuietly
<1>24. CASE UNCHANGED vars
  BY <1>24 DEF AttemptsPaid, Repeatable, Attended, vars
<1> QED
  BY <1>1, <1>2, <1>3, <1>4, <1>5, <1>6, <1>7, <1>8, <1>9, <1>10, <1>11, <1>12, <1>13, <1>14, <1>15, <1>16,
     <1>17, <1>18, <1>19, <1>20, <1>21, <1>22, <1>23, <1>24
     DEF Next, Launching, Observing

\* The rows of an Account that hold a slot.
Holders(a) == {i \in Invocations : AccountOf[i] = a /\ row[i].state \in SlotStates}

\* They are finitely many.
LEMMA HoldersFinite ==
    ASSUME NEW a
    PROVE  IsFiniteSet(Holders(a)) /\ Cardinality(Holders(a)) \in Nat
<1>1. Holders(a) \subseteq Invocations
  BY DEF Holders
<1> QED
  BY <1>1, FS_Subset, FS_CardinalityType, RunnerAssumption

\* A step that moves no row into or out of the slot states counts correctly.
LEMMA SlotsKept ==
    ASSUME SlotsCounted, UNCHANGED slotVars,
           \A i \in Invocations : row'[i].state \in SlotStates <=> row[i].state \in SlotStates
    PROVE  SlotsCounted'
<1>1. \A a \in Accounts : Holders(a)' = Holders(a)
  BY DEF Holders
<1> QED
  BY <1>1 DEF SlotsCounted, Holders, slotVars

\* A row that gives up its slot is counted out.
LEMMA SlotGiven ==
    ASSUME Types, SlotsCounted, NEW i \in Invocations, NEW s, Becomes(i, s), Release(i), UNCHANGED limit,
           row[i].state \in SlotStates, s \notin SlotStates
    PROVE  SlotsCounted'
<1> SUFFICES ASSUME NEW a \in Accounts
             PROVE  active'[a] = Cardinality(Holders(a)') /\ active'[a] <= limit'[a]
  BY DEF SlotsCounted, Holders
<1>1. active[a] = Cardinality(Holders(a)) /\ active[a] <= limit[a]
  BY DEF SlotsCounted, Holders
<1>2. active[a] \in Int /\ limit[a] \in Int
  BY RunnerAssumption DEF Types
<1>3. CASE AccountOf[i] = a
  <2>1. Holders(a)' = Holders(a) \ {i} /\ i \in Holders(a)
    BY <1>3 DEF Holders, Becomes
  <2>2. Cardinality(Holders(a)') = Cardinality(Holders(a)) - 1
    BY <2>1, HoldersFinite, FS_RemoveElement
  <2>3. active'[a] = active[a] - 1
    BY <1>3 DEF Release, Types
  <2> QED
    BY <1>1, <1>2, <2>2, <2>3
<1>4. CASE AccountOf[i] # a
  <2>1. Holders(a)' = Holders(a)
    BY <1>4 DEF Holders, Becomes
  <2>2. active'[a] = active[a]
    BY <1>4 DEF Release, Types
  <2> QED
    BY <1>1, <2>1, <2>2
<1> QED
  BY <1>3, <1>4

\* A fresh claim takes a slot that was free and is counted in; a reclaimed
\* launch keeps the slot it has.
LEMMA SlotTaken ==
    ASSUME Types, SlotsCounted, NEW c \in Controllers, NEW i \in Invocations, ClaimFair(c, i)
    PROVE  SlotsCounted'
<1>1. /\ row'[i].state = "launching"
      /\ \A j \in Invocations \ {i} : row'[j] = row[j]
      /\ UNCHANGED limit
  BY DEF ClaimFair, Types, Rows, RowTable
<1>2. CASE row[i].state = "launching"
  BY <1>1, <1>2, SlotsKept DEF ClaimFair, TakesSlot, SlotStates, slotVars
<1>3. CASE row[i].state # "launching"
  <2>1. /\ active' = [active EXCEPT ![AccountOf[i]] = @ + 1]
        /\ active[AccountOf[i]] < limit[AccountOf[i]]
        /\ row[i].state \notin SlotStates
    BY <1>3 DEF ClaimFair, TakesSlot, Expired, Due, SlotStates
  <2> SUFFICES ASSUME NEW a \in Accounts
               PROVE  active'[a] = Cardinality(Holders(a)') /\ active'[a] <= limit'[a]
    BY DEF SlotsCounted, Holders
  <2>2. active[a] = Cardinality(Holders(a)) /\ active[a] <= limit[a]
    BY DEF SlotsCounted, Holders
  <2>3. active[a] \in Int /\ limit[a] \in Int
    BY RunnerAssumption DEF Types
  <2>4. CASE AccountOf[i] = a
    <3>1. Holders(a)' = Holders(a) \cup {i} /\ i \notin Holders(a)
      BY <1>1, <2>1, <2>4 DEF Holders, SlotStates
    <3>2. Cardinality(Holders(a)') = Cardinality(Holders(a)) + 1
      BY <3>1, HoldersFinite, FS_AddElement
    <3>3. active'[a] = active[a] + 1
      BY <2>1, <2>4 DEF Types
    <3> QED
      BY <1>1, <2>1, <2>2, <2>3, <2>4, <3>2, <3>3
  <2>5. CASE AccountOf[i] # a
    <3>1. Holders(a)' = Holders(a)
      BY <1>1, <2>5 DEF Holders
    <3>2. active'[a] = active[a]
      BY <2>1, <2>5 DEF Types
    <3> QED
      BY <1>1, <2>2, <3>1, <3>2
  <2> QED
    BY <2>4, <2>5
<1> QED
  BY <1>2, <1>3

\* Every step counts the slots it takes and gives.
LEMMA NextSlots ==
    ASSUME Types, Flags, SlotsCounted, [Next]_vars
    PROVE  SlotsCounted'
<1>1. ASSUME NEW i \in Invocations, Provision(i)
      PROVE  SlotsCounted'
  <2>1. \A j \in Invocations : row'[j].state \in SlotStates <=> row[j].state \in SlotStates
    BY <1>1 DEF Provision, SlotStates
  <2> QED
    BY <1>1, <2>1, SlotsKept DEF Provision
<1>2. ASSUME NEW i \in Invocations, RequestCancellation(i)
      PROVE  SlotsCounted'
  <2>1. Canceled(row[i]).state \in SlotStates <=> row[i].state \in SlotStates
    BY DEF Canceled, SlotStates
  <2>2. \A j \in Invocations : row'[j].state \in SlotStates <=> row[j].state \in SlotStates
    BY <1>2, <2>1 DEF RequestCancellation, Types, RowTable
  <2> QED
    BY <1>2, <2>2, SlotsKept DEF RequestCancellation
<1>3. ASSUME NEW i \in Invocations, LateCreate(i)
      PROVE  SlotsCounted'
  BY <1>3, SlotsKept DEF LateCreate
<1>4. ASSUME NEW i \in Invocations, LeaseExpires(i)
      PROVE  SlotsCounted'
  <2>1. \A j \in Invocations : row'[j].state \in SlotStates <=> row[j].state \in SlotStates
    BY <1>4 DEF LeaseExpires
  <2> QED
    BY <1>4, <2>1, SlotsKept DEF LeaseExpires
<1>5. ASSUME NEW i \in Invocations, Fetch(i)
      PROVE  SlotsCounted'
  BY <1>5, SlotsKept DEF Fetch
<1>6. ASSUME NEW i \in Invocations, PodSucceeds(i)
      PROVE  SlotsCounted'
  BY <1>6, SlotsKept DEF PodSucceeds
<1>7. ASSUME NEW i \in Invocations, PodFails(i)
      PROVE  SlotsCounted'
  BY <1>7, SlotsKept DEF PodFails
<1>8. ASSUME NEW i \in Invocations, RemoveFinished(i)
      PROVE  SlotsCounted'
  BY <1>8, SlotsKept DEF RemoveFinished
<1>9. ASSUME NEW i \in Invocations, NEW outcome \in {"completed", "execution_failed"}, SubmitResult(i, outcome)
      PROVE  SlotsCounted'
  BY <1>9, SlotsKept DEF SubmitResult
<1>10. ASSUME NEW i \in Invocations, NEW c \in Controllers, ClaimFair(c, i)
      PROVE  SlotsCounted'
  BY <1>10, SlotTaken
<1>11. ASSUME NEW i \in Invocations, NEW c \in Controllers, ClaimInspection(c, i)
      PROVE  SlotsCounted'
  BY <1>11, SlotsKept DEF ClaimInspection
<1>12. ASSUME NEW a \in Accounts, NEW n \in Limits, Configure(a, n)
      PROVE  SlotsCounted'
  <2>1. /\ UNCHANGED <<row, active>> /\ active[a] <= limit'[a]
        /\ \A b \in Accounts \ {a} : limit'[b] = limit[b]
    BY <1>12 DEF Configure, Types
  <2> QED
    BY <2>1 DEF SlotsCounted
<1>13. ASSUME NEW c \in Controllers, EnsureConfirmed(c)
      PROVE  SlotsCounted'
  BY <1>13, SlotsKept DEF EnsureConfirmed
<1>14. ASSUME NEW c \in Controllers, EnsureUncertain(c)
      PROVE  SlotsCounted'
  BY <1>14, SlotsKept DEF EnsureUncertain
<1>15. ASSUME NEW c \in Controllers, EnsureRefused(c)
      PROVE  SlotsCounted'
  BY <1>15, SlotsKept DEF EnsureRefused
<1>16. ASSUME NEW c \in Controllers, MarkLaunched(c)
      PROVE  SlotsCounted'
  <2> DEFINE k == controller[c]
  <2>1. k.inv \in Invocations /\ UNCHANGED slotVars
    BY <1>16 DEF MarkLaunched, Types, CallOK
  <2>2. UNCHANGED row => SlotsCounted'
    BY <2>1, SlotsKept
  <2>3. ASSUME HoldsLease(c), Becomes(k.inv, AfterLaunch(row[k.inv], k.answer))
        PROVE  SlotsCounted'
    <3>1. row[k.inv].state \in SlotStates /\ AfterLaunch(row[k.inv], k.answer) \in SlotStates
      BY <2>3 DEF SlotStates, AfterLaunch, HoldsLease
    <3>2. \A j \in Invocations : row'[j].state \in SlotStates <=> row[j].state \in SlotStates
      BY <2>3, <3>1 DEF Becomes
    <3> QED
      BY <2>1, <3>2, SlotsKept
  <2> QED
    BY <1>16, <2>2, <2>3, Recorded
<1>17. ASSUME NEW c \in Controllers, FailLaunch(c)
      PROVE  SlotsCounted'
  <2> DEFINE k == controller[c]
  <2>1. k.inv \in Invocations /\ UNCHANGED limit
    BY <1>17 DEF FailLaunch, Types, CallOK
  <2>2. UNCHANGED <<row, active>> => SlotsCounted'
    BY <2>1, SlotsKept DEF slotVars
  <2>3. ASSUME HoldsLease(c), Becomes(k.inv, AfterFailure(row[k.inv], k.attempt)), Release(k.inv)
        PROVE  SlotsCounted'
    <3>1. row[k.inv].state \in SlotStates /\ AfterFailure(row[k.inv], k.attempt) \notin SlotStates
      BY <2>3 DEF SlotStates, AfterFailure, HoldsLease
    <3> QED
      BY <2>1, <2>3, <3>1, SlotGiven
  <2> QED
    BY <1>17, <2>2, <2>3, Recorded
<1>18. ASSUME NEW c \in Controllers, CancelJob(c)
      PROVE  SlotsCounted'
  BY <1>18, SlotsKept DEF CancelJob
<1>19. ASSUME NEW c \in Controllers, Inspect(c)
      PROVE  SlotsCounted'
  BY <1>19, SlotsKept DEF Inspect
<1>20. ASSUME NEW c \in Controllers, ConfirmLaunch(c)
      PROVE  SlotsCounted'
  <2> DEFINE k == controller[c]
  <2>1. k.inv \in Invocations /\ UNCHANGED slotVars
    BY <1>20 DEF ConfirmLaunch, Types, CallOK
  <2>2. UNCHANGED row => SlotsCounted'
    BY <2>1, SlotsKept
  <2>3. ASSUME row[k.inv].state = "launch_uncertain", Becomes(k.inv, "launched")
        PROVE  SlotsCounted'
    <3>1. row[k.inv].state \in SlotStates /\ "launched" \in SlotStates
      BY <2>3 DEF SlotStates
    <3>2. \A j \in Invocations : row'[j].state \in SlotStates <=> row[j].state \in SlotStates
      BY <2>3, <3>1 DEF Becomes
    <3> QED
      BY <2>1, <3>2, SlotsKept
  <2> QED
    BY <1>20, <2>2, <2>3, Recorded
<1>21. ASSUME NEW c \in Controllers, ResolveLaunchAbsent(c)
      PROVE  SlotsCounted'
  <2> DEFINE k == controller[c]
  <2>1. k.inv \in Invocations /\ UNCHANGED limit
    BY <1>21 DEF ResolveLaunchAbsent, Types, CallOK
  <2>2. UNCHANGED <<row, active>> => SlotsCounted'
    BY <2>1, SlotsKept DEF slotVars
  <2>3. ASSUME row[k.inv].state = "launch_uncertain", Becomes(k.inv, AfterFailure(row[k.inv], k.attempt)), Release(k.inv)
        PROVE  SlotsCounted'
    <3>1. row[k.inv].state \in SlotStates /\ AfterFailure(row[k.inv], k.attempt) \notin SlotStates
      BY <2>3 DEF SlotStates, AfterFailure
    <3> QED
      BY <2>1, <2>3, <3>1, SlotGiven
  <2> QED
    BY <1>21, <2>2, <2>3, Recorded
<1>22. ASSUME NEW c \in Controllers, Complete(c)
      PROVE  SlotsCounted'
  <2> DEFINE k == controller[c]
  <2>1. k.inv \in Invocations /\ UNCHANGED limit
    BY <1>22 DEF Complete, Types, CallOK
  <2>2. UNCHANGED <<row, active>> => SlotsCounted'
    BY <2>1, SlotsKept DEF slotVars
  <2>3. ASSUME Completable(row[k.inv].state, k.answer), Becomes(k.inv, k.answer), Release(k.inv)
        PROVE  SlotsCounted'
    <3>1. row[k.inv].state \in SlotStates /\ k.answer \notin SlotStates
      BY <2>3 DEF SlotStates, Completable
    <3> QED
      BY <2>1, <2>3, <3>1, SlotGiven
  <2> QED
    BY <1>22, <2>2, <2>3, Recorded
<1>23. ASSUME NEW c \in Controllers, Crash(c)
      PROVE  SlotsCounted'
  BY <1>23, SlotsKept DEF Crash
<1>24. CASE UNCHANGED vars
  BY <1>24 DEF SlotsCounted, slotVars, vars
<1> QED
  BY <1>1, <1>2, <1>3, <1>4, <1>5, <1>6, <1>7, <1>8, <1>9, <1>10, <1>11, <1>12, <1>13, <1>14, <1>15, <1>16,
     <1>17, <1>18, <1>19, <1>20, <1>21, <1>22, <1>23, <1>24
     DEF Next, Launching, Observing

-------------------------------------------------------------------------------
(***************************************************************************)
(* The promise to the Agent queues                                         *)
(***************************************************************************)

\* The variables of RunnerLifecycle, as RunnerControl implements them.
Seen == [i \in Invocations |-> StatusOf(row[i])]
Stored == [i \in Invocations |-> exchange[i].result]
Promised == [Lifecycle!LifecycleNext]_<<Seen, Stored>>

\* A step that changes nothing the Agent queues can tell is a stuttering step.
LEMMA Unseen ==
    ASSUME \A i \in Invocations : StatusOf(row'[i]) = StatusOf(row[i]), UNCHANGED exchange
    PROVE  Promised
<1>1. UNCHANGED <<Seen, Stored>>
  BY DEF Seen, Stored
<1> QED
  BY <1>1 DEF Promised

\* A step that changes what the Agent queues can tell of one row changes that
\* entry.
LEMMA SeenChange ==
    ASSUME NEW i \in Invocations, UNCHANGED exchange,
           \A j \in Invocations \ {i} : row'[j] = row[j]
    PROVE  Seen' = [Seen EXCEPT ![i] = StatusOf(row'[i])] /\ UNCHANGED Stored
  BY DEF Seen, Stored

\* The status of a row by its state and its cancellation flag.
LEMMA StatusValues ==
    ASSUME Types, Flags, NEW i \in Invocations
    PROVE  /\ row[i].state \in {"queued", "failed", "launched", "launch_uncertain"} => StatusOf(row[i]) = "open"
           /\ row[i].state = "launching" => StatusOf(row[i]) = IF row[i].cancel THEN "canceling" ELSE "open"
           /\ row[i].state = "canceling" => StatusOf(row[i]) = "canceling"
           /\ row[i].state \in EndStates \cup {"absent", "dead_letter"} => StatusOf(row[i]) = row[i].state
<1>1. /\ row[i].state \in {"canceling", "canceled"} => row[i].cancel
      /\ row[i].cancel => row[i].state \in {"launching", "canceling", "canceled"}
  BY DEF Flags
<1> QED
  BY <1>1 DEF StatusOf, EndStates

\* A launch that did not happen is tried again, given up or canceled.
LEMMA GivenUp ==
    ASSUME Types, Flags, NEW i \in Invocations, NEW attempt, UNCHANGED exchange,
           row[i].state \in {"launching", "launch_uncertain"}, Becomes(i, AfterFailure(row[i], attempt))
    PROVE  Promised
<1>1. \A j \in Invocations \ {i} : row'[j] = row[j]
  BY DEF Becomes
<1>2. Seen[i] = IF row[i].cancel THEN "canceling" ELSE "open"
  BY StatusValues DEF Seen, Flags
<1>3. row'[i].state = AfterFailure(row[i], attempt) /\ row'[i].cancel = row[i].cancel
  BY DEF Becomes
<1>4. CASE row[i].cancel
  <2>1. StatusOf(row'[i]) = "canceled"
    BY <1>3, <1>4 DEF AfterFailure, StatusOf, EndStates
  <2>2. Lifecycle!FinishCancel(i)
    BY <1>1, <1>2, <1>4, <2>1, SeenChange DEF Lifecycle!FinishCancel, Seen, Stored
  <2> QED
    BY <2>2 DEF Promised, Lifecycle!LifecycleNext, Lifecycle!RunnerStep
<1>5. CASE ~row[i].cancel /\ row'[i].state = "dead_letter"
  <2>1. StatusOf(row'[i]) = "dead_letter"
    BY <1>5 DEF StatusOf
  <2>2. Lifecycle!GiveUp(i)
    BY <1>1, <1>2, <1>5, <2>1, SeenChange DEF Lifecycle!GiveUp, Seen, Stored
  <2> QED
    BY <2>2 DEF Promised, Lifecycle!LifecycleNext, Lifecycle!RunnerStep
<1>6. CASE ~row[i].cancel /\ row'[i].state # "dead_letter"
  <2>1. row'[i].state = "failed"
    BY <1>3, <1>6 DEF AfterFailure
  <2>2. StatusOf(row'[i]) = "open" /\ StatusOf(row[i]) = "open"
    BY <1>2, <1>3, <1>6, <2>1 DEF StatusOf, EndStates, Seen
  <2> QED
    BY <1>1, <2>2, Unseen
<1> QED
  BY <1>4, <1>5, <1>6

\* The end of a Job is recorded once, and as completed only with its result.
LEMMA Ended ==
    ASSUME Types, Flags, NEW i \in Invocations, NEW outcome, UNCHANGED exchange,
           Completable(row[i].state, outcome), Becomes(i, outcome),
           outcome = "completed" => exchange[i].result = "completed"
    PROVE  Promised
<1>1. \A j \in Invocations \ {i} : row'[j] = row[j]
  BY DEF Becomes
<1>2. StatusOf(row'[i]) = outcome
  BY DEF Becomes, Completable, StatusOf, EndStates
<1>3. CASE outcome = "canceled"
  <2>1. Seen[i] = "canceling"
    BY <1>3, StatusValues DEF Seen, Completable
  <2>2. Lifecycle!FinishCancel(i)
    BY <1>1, <1>2, <1>3, <2>1, SeenChange DEF Lifecycle!FinishCancel, Seen, Stored
  <2> QED
    BY <2>2 DEF Promised, Lifecycle!LifecycleNext, Lifecycle!RunnerStep
<1>4. CASE outcome \in {"completed", "execution_failed"}
  <2>1. Seen[i] = "open" /\ (outcome = "completed" => Stored[i] = "completed")
    BY <1>4, StatusValues DEF Seen, Stored, Completable
  <2>2. Lifecycle!Finish(i, outcome)
    BY <1>1, <1>2, <2>1, SeenChange DEF Lifecycle!Finish, Seen, Stored
  <2> QED
    BY <1>4, <2>2 DEF Promised, Lifecycle!LifecycleNext, Lifecycle!RunnerStep, Lifecycle!Results
<1> QED
  BY <1>3, <1>4 DEF Completable

\* Every step is a step that RunnerLifecycle allows, or one that it does not see.
LEMMA NextPromised ==
    ASSUME Types, Flags, ResultsBacked, [Next]_vars
    PROVE  Promised
<1>1. ASSUME NEW i \in Invocations, Provision(i)
      PROVE  Promised
  <2>1. /\ row[i].state = "absent" /\ row'[i].state = "queued" /\ row'[i].cancel = row[i].cancel /\ UNCHANGED exchange
        /\ \A j \in Invocations \ {i} : row'[j] = row[j]
    BY <1>1 DEF Provision, Types, Rows, RowTable
  <2>2. Seen[i] = "absent" /\ StatusOf(row'[i]) = "open"
    BY <2>1, StatusValues DEF Seen, StatusOf, EndStates, Flags
  <2>3. Lifecycle!Provision(i)
    BY <2>1, <2>2, SeenChange DEF Lifecycle!Provision, Seen, Stored
  <2> QED
    BY <2>3 DEF Promised, Lifecycle!LifecycleNext
<1>2. ASSUME NEW i \in Invocations, RequestCancellation(i)
      PROVE  Promised
  <2>1. /\ row'[i] = Canceled(row[i]) /\ row'[i] # row[i] /\ UNCHANGED exchange
        /\ \A j \in Invocations \ {i} : row'[j] = row[j]
    BY <1>2 DEF RequestCancellation, Types, RowTable
  <2>2. \/ row[i].state \in {"queued", "failed", "dead_letter"} /\ row'[i].state = "canceled"
        \/ row[i].state = "launching" /\ ~row[i].cancel /\ row'[i].state = "launching" /\ row'[i].cancel
        \/ row[i].state \in {"launched", "launch_uncertain"} /\ row'[i].state = "canceling" /\ row'[i].cancel
    BY <2>1 DEF Canceled, Types, Rows, RowTable
  <2>3. \/ Seen[i] \in {"open", "dead_letter"} /\ StatusOf(row'[i]) = "canceled"
        \/ Seen[i] = "open" /\ StatusOf(row'[i]) = "canceling"
    BY <2>2, StatusValues DEF Seen, StatusOf, EndStates
  <2>4. Lifecycle!RequestCancel(i)
    BY <2>1, <2>3, SeenChange DEF Lifecycle!RequestCancel, Seen, Stored
  <2> QED
    BY <2>4 DEF Promised, Lifecycle!LifecycleNext, Lifecycle!RunnerStep
<1>3. ASSUME NEW i \in Invocations, LateCreate(i)
      PROVE  Promised
  BY <1>3, Unseen DEF LateCreate
<1>4. ASSUME NEW i \in Invocations, LeaseExpires(i)
      PROVE  Promised
  <2>1. \A j \in Invocations : StatusOf(row'[j]) = StatusOf(row[j])
    BY <1>4 DEF LeaseExpires, StatusOf
  <2> QED
    BY <1>4, <2>1, Unseen DEF LeaseExpires
<1>5. ASSUME NEW i \in Invocations, Fetch(i)
      PROVE  Promised
  <2>1. UNCHANGED row /\ \A j \in Invocations : exchange'[j].result = exchange[j].result
    BY <1>5 DEF Fetch, Types
  <2>2. UNCHANGED <<Seen, Stored>>
    BY <2>1 DEF Seen, Stored
  <2> QED
    BY <2>2 DEF Promised
<1>6. ASSUME NEW i \in Invocations, PodSucceeds(i)
      PROVE  Promised
  BY <1>6, Unseen DEF PodSucceeds
<1>7. ASSUME NEW i \in Invocations, PodFails(i)
      PROVE  Promised
  BY <1>7, Unseen DEF PodFails
<1>8. ASSUME NEW i \in Invocations, RemoveFinished(i)
      PROVE  Promised
  BY <1>8, Unseen DEF RemoveFinished
<1>9. ASSUME NEW i \in Invocations, NEW outcome \in {"completed", "execution_failed"}, SubmitResult(i, outcome)
      PROVE  Promised
  <2>1. /\ row[i].state \in {"launch_uncertain", "launched"} /\ exchange[i].result = "none" /\ UNCHANGED row
        /\ exchange'[i].result = outcome /\ \A j \in Invocations \ {i} : exchange'[j] = exchange[j]
    BY <1>9 DEF SubmitResult, BrokerOpen, Types
  <2>2. Seen[i] = "open" /\ Stored[i] = "none" /\ UNCHANGED Seen
    BY <2>1, StatusValues DEF Seen, Stored
  <2>3. Stored' = [Stored EXCEPT ![i] = outcome]
    BY <2>1 DEF Stored
  <2>4. Lifecycle!Submit(i, outcome)
    BY <2>2, <2>3 DEF Lifecycle!Submit, Seen, Stored
  <2> QED
    BY <2>4 DEF Promised, Lifecycle!LifecycleNext, Lifecycle!RunnerStep, Lifecycle!Results
<1>10. ASSUME NEW i \in Invocations, NEW c \in Controllers, ClaimFair(c, i)
      PROVE  Promised
  <2>1. /\ row[i].state \in {"queued", "failed", "launching"}
        /\ row'[i].state = "launching" /\ row'[i].cancel = row[i].cancel
        /\ \A j \in Invocations \ {i} : row'[j] = row[j]
    BY <1>10 DEF ClaimFair, Types, Rows, RowTable
  <2>2. row[i].state # "launching" => ~row[i].cancel
    BY <2>1 DEF Flags
  <2>3. \A j \in Invocations : StatusOf(row'[j]) = StatusOf(row[j])
    BY <2>1, <2>2 DEF StatusOf, EndStates
  <2> QED
    BY <1>10, <2>3, Unseen DEF ClaimFair
<1>11. ASSUME NEW i \in Invocations, NEW c \in Controllers, ClaimInspection(c, i)
      PROVE  Promised
  BY <1>11, Unseen DEF ClaimInspection
<1>12. ASSUME NEW a \in Accounts, NEW n \in Limits, Configure(a, n)
      PROVE  Promised
  BY <1>12, Unseen DEF Configure
<1>13. ASSUME NEW c \in Controllers, EnsureConfirmed(c)
      PROVE  Promised
  BY <1>13, Unseen DEF EnsureConfirmed
<1>14. ASSUME NEW c \in Controllers, EnsureUncertain(c)
      PROVE  Promised
  BY <1>14, Unseen DEF EnsureUncertain
<1>15. ASSUME NEW c \in Controllers, EnsureRefused(c)
      PROVE  Promised
  BY <1>15, Unseen DEF EnsureRefused
<1>16. ASSUME NEW c \in Controllers, MarkLaunched(c)
      PROVE  Promised
  <2> DEFINE k == controller[c]
  <2>1. k.inv \in Invocations /\ UNCHANGED exchange
    BY <1>16 DEF MarkLaunched, Types, CallOK
  <2>2. UNCHANGED row => Promised
    BY <2>1, Unseen
  <2>3. ASSUME HoldsLease(c), Becomes(k.inv, AfterLaunch(row[k.inv], k.answer))
        PROVE  Promised
    <3>1. StatusOf(row'[k.inv]) = StatusOf(row[k.inv])
      BY <2>3 DEF Becomes, StatusOf, EndStates, AfterLaunch, HoldsLease
    <3>2. \A j \in Invocations : StatusOf(row'[j]) = StatusOf(row[j])
      BY <2>3, <3>1 DEF Becomes
    <3> QED
      BY <2>1, <3>2, Unseen
  <2> QED
    BY <1>16, <2>2, <2>3, Recorded
<1>17. ASSUME NEW c \in Controllers, FailLaunch(c)
      PROVE  Promised
  <2> DEFINE k == controller[c]
  <2>1. k.inv \in Invocations /\ UNCHANGED exchange
    BY <1>17 DEF FailLaunch, Types, CallOK
  <2>2. UNCHANGED row => Promised
    BY <2>1, Unseen
  <2>3. ASSUME HoldsLease(c), Becomes(k.inv, AfterFailure(row[k.inv], k.attempt))
        PROVE  Promised
    BY <2>1, <2>3, GivenUp DEF HoldsLease
  <2> QED
    BY <1>17, <2>2, <2>3, Recorded
<1>18. ASSUME NEW c \in Controllers, CancelJob(c)
      PROVE  Promised
  BY <1>18, Unseen DEF CancelJob
<1>19. ASSUME NEW c \in Controllers, Inspect(c)
      PROVE  Promised
  BY <1>19, Unseen DEF Inspect
<1>20. ASSUME NEW c \in Controllers, ConfirmLaunch(c)
      PROVE  Promised
  <2> DEFINE k == controller[c]
  <2>1. k.inv \in Invocations /\ UNCHANGED exchange
    BY <1>20 DEF ConfirmLaunch, Types, CallOK
  <2>2. UNCHANGED row => Promised
    BY <2>1, Unseen
  <2>3. ASSUME row[k.inv].state = "launch_uncertain", Becomes(k.inv, "launched")
        PROVE  Promised
    <3>1. StatusOf(row'[k.inv]) = StatusOf(row[k.inv])
      BY <2>3 DEF Becomes, StatusOf, EndStates
    <3>2. \A j \in Invocations : StatusOf(row'[j]) = StatusOf(row[j])
      BY <2>3, <3>1 DEF Becomes
    <3> QED
      BY <2>1, <3>2, Unseen
  <2> QED
    BY <1>20, <2>2, <2>3, Recorded
<1>21. ASSUME NEW c \in Controllers, ResolveLaunchAbsent(c)
      PROVE  Promised
  <2> DEFINE k == controller[c]
  <2>1. k.inv \in Invocations /\ UNCHANGED exchange
    BY <1>21 DEF ResolveLaunchAbsent, Types, CallOK
  <2>2. UNCHANGED row => Promised
    BY <2>1, Unseen
  <2>3. ASSUME row[k.inv].state = "launch_uncertain", Becomes(k.inv, AfterFailure(row[k.inv], k.attempt))
        PROVE  Promised
    BY <2>1, <2>3, GivenUp
  <2> QED
    BY <1>21, <2>2, <2>3, Recorded
<1>22. ASSUME NEW c \in Controllers, Complete(c)
      PROVE  Promised
  <2> DEFINE k == controller[c]
  <2>1. k.inv \in Invocations /\ UNCHANGED exchange
    BY <1>22 DEF Complete, Types, CallOK
  <2>2. UNCHANGED row => Promised
    BY <2>1, Unseen
  <2>3. k.answer = "completed" => exchange[k.inv].result = "completed"
    BY <1>22 DEF Complete, ResultsBacked
  <2> QED
    BY <1>22, <2>1, <2>2, <2>3, Recorded, Ended
<1>23. ASSUME NEW c \in Controllers, Crash(c)
      PROVE  Promised
  BY <1>23, Unseen DEF Crash
<1>24. CASE UNCHANGED vars
  BY <1>24, Unseen DEF vars
<1> QED
  BY <1>1, <1>2, <1>3, <1>4, <1>5, <1>6, <1>7, <1>8, <1>9, <1>10, <1>11, <1>12, <1>13, <1>14, <1>15, <1>16,
     <1>17, <1>18, <1>19, <1>20, <1>21, <1>22, <1>23, <1>24
     DEF Next, Launching, Observing

-------------------------------------------------------------------------------
(***************************************************************************)
(* Theorems                                                                *)
(***************************************************************************)

\* The strengthened invariant holds: every claim of a row but the latest is
\* paid by a fault, every recorded success by a result, every slot by a row.
THEOREM Inductive == Spec => []IInv
<1>1. Init => IInv
  <2> SUFFICES ASSUME Init
               PROVE  IInv
    OBVIOUS
  <2>1. Types
    BY RunnerAssumption DEF Init, Types, RowTable, Rows, JobTable, States, NoRow, NoJob, CallOK, Idle
  <2>2. Flags
    BY DEF Init, Flags, NoRow, NoJob
  <2>3. AttemptsPaid
    BY DEF Init, AttemptsPaid, NoRow, Idle
  <2>4. ResultsBacked
    BY DEF Init, ResultsBacked, NoJob, Idle
  <2>5. SlotsCounted
    <3> SUFFICES ASSUME NEW a \in Accounts
                 PROVE  active[a] = Cardinality(Holders(a)) /\ active[a] <= limit[a]
      BY DEF SlotsCounted, Holders
    <3>1. Holders(a) = {}
      BY DEF Init, Holders, NoRow, SlotStates
    <3>2. active[a] = 0 /\ limit[a] = DefaultLimit
      BY DEF Init
    <3> QED
      BY <3>1, <3>2, FS_EmptySet DEF DefaultLimit
  <2> QED
    BY <2>1, <2>2, <2>3, <2>4, <2>5 DEF IInv
<1>2. IInv /\ [Next]_vars => IInv'
  BY NextTypes, NextFlags, NextPaid, NextBacked, NextSlots DEF IInv
<1> QED
  BY <1>1, <1>2, PTL DEF Spec

\* Rows, Jobs and exchanges keep their types, leases and cancellation flags
\* stay with the states the table allows, and no row is attempted more often
\* than its attempts and the faults permit.
THEOREM TypeCorrect == Spec => []TypeOK
<1>1. IInv => TypeOK
  <2> SUFFICES ASSUME IInv
               PROVE  TypeOK
    OBVIOUS
  <2>1. \A i \in Invocations : row[i].attempts \in 0..(MaxAttempts + MaxFaults)
    <3>1. \A i \in Invocations : row[i].attempts \in Nat /\ row[i].attempts <= faults + 1
      BY DEF IInv, Types, RowTable, Rows, AttemptsPaid
    <3>2. faults \in 0..MaxFaults /\ MaxFaults \in Nat /\ MaxAttempts \in Nat \ {0}
      BY RunnerAssumption DEF IInv, Types
    <3> QED
      BY <3>1, <3>2
  <2>2. \A i \in Invocations : exchange[i].pod \in 0..job[i].made
    BY DEF IInv, Types, JobTable, Flags
  <2> QED
    BY <2>1 DEF IInv, TypeOK, Types, RowTable, Rows, JobTable, States, Flags
<1> QED
  BY <1>1, Inductive, PTL

\* The active_count of an Account is the number of its rows that hold a slot
\* and never exceeds its limit, whatever replicas, leases and operators do.
THEOREM SlotsAreCounted == Spec => []SlotsCounted
<1>1. IInv => SlotsCounted
  BY DEF IInv
<1> QED
  BY <1>1, Inductive, PTL

\* The runner control plane implements RunnerLifecycle: an invocation is
\* decided once, completed only with a completed result, and nothing but
\* canceled follows a requested cancellation.
THEOREM LifecycleImplemented == Spec => ImplementsLifecycle
<1>1. Init => Lifecycle!LifecycleInit
  BY DEF Init, Lifecycle!LifecycleInit, NoRow, StatusOf, EndStates
<1>2. IInv /\ [Next]_vars => Promised
  BY NextPromised DEF IInv
<1> QED
  BY <1>1, <1>2, Inductive, PTL
     DEF Spec, ImplementsLifecycle, Lifecycle!LifecycleSpec, Promised, Seen, Stored

===============================================================================
