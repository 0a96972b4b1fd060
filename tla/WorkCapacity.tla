---------------------------- MODULE WorkCapacity ----------------------------
(***************************************************************************)
(* Work items of one Account and the capacity that backs them.             *)
(*                                                                         *)
(* Two databases take part.  The global database holds the reservations of *)
(* the limit work/active_items (amount 1, no TTL, so a reservation is      *)
(* absent, active or released).  The cell database holds the Work items    *)
(* and the outbox work_capacity_release_queue, whose rows a trigger writes *)
(* in the transaction that makes an item terminal.  No transaction spans   *)
(* both: the Work service reserves, writes the cell and compensates in     *)
(* three steps, and the reconcilers release and checkpoint in two.         *)
(*                                                                         *)
(* A key is the UUID of one logical command (the Idempotency-Key).  It is  *)
(* the id of the reservation the command asks for and, for a create, the   *)
(* id of the item.                                                         *)
(***************************************************************************)
EXTENDS Integers, FiniteSets

CONSTANTS
    Keys,            \* command ids
    Drafts,          \* payloads of create
    Callers,         \* requests running in app-api processes
    Workers,         \* work-reconciler replicas
    Maximum,         \* the entitled work/active_items, 100 at launch
    MaxAttempts,     \* attempts of a release job before it is dead lettered
    MaxVersion,      \* bound: versions of an item explored
    DuplicateCalls   \* may a client repeat a command that is still running?

ASSUME ConstantsAssumption ==
    /\ IsFiniteSet(Keys) /\ Keys # {} /\ Drafts # {}
    /\ "none" \notin Keys \cup Workers
    /\ Maximum \in Nat
    /\ MaxAttempts \in Nat \ {0}
    /\ MaxVersion \in Nat
    /\ DuplicateCalls \in BOOLEAN

VARIABLES
    reservation,   \* global: entitlement_usage_reservations by request id
    item,          \* cell: work_items by id
    job,           \* cell: work_capacity_release_queue by (item, reservation)
    caller,        \* the Work service calls in progress
    worker,        \* the reconcilers
    intent         \* what the client uses each key for

vars == <<reservation, item, job, caller, worker, intent>>

ActiveStates == {"open", "in_progress", "waiting"}
TerminalStates == {"done", "canceled"}
Item == [state: ActiveStates \cup TerminalStates \cup {"absent"}, version: Nat,
         draft: Drafts, reservation: Keys, released: BOOLEAN]
Job == [state: {"absent", "pending", "processing", "failed", "completed", "dead_letter"},
        attempt: Nat, lease: Workers \cup {"none"}]
Intent == [op: {"none", "create", "reopen"}, item: Keys, version: Nat]
Caller == [pc: {"idle", "reserve", "load", "insert", "update", "compensate"},
           key: Keys \cup {"none"}, target: Keys, row: Item, version: Nat,
           created: BOOLEAN]
Worker == [pc: {"idle", "release", "complete", "fail"}, item: Keys,
           reservation: Keys, attempt: Nat]

AnyKey == CHOOSE k \in Keys : TRUE
AnyDraft == CHOOSE d \in Drafts : TRUE
NoItem == [state |-> "absent", version |-> 0, draft |-> AnyDraft,
           reservation |-> AnyKey, released |-> FALSE]
NoJob == [state |-> "absent", attempt |-> 0, lease |-> "none"]
NoIntent == [op |-> "none", item |-> AnyKey, version |-> 0]
IdleCaller == [pc |-> "idle", key |-> "none", target |-> AnyKey, row |-> NoItem,
               version |-> 0, created |-> FALSE]
IdleWorker == [pc |-> "idle", item |-> AnyKey, reservation |-> AnyKey, attempt |-> 0]

Init ==
    /\ reservation = [k \in Keys |-> "absent"]
    /\ item = [k \in Keys |-> NoItem]
    /\ job = [p \in Keys \X Keys |-> NoJob]
    /\ caller = [c \in Callers |-> IdleCaller]
    /\ worker = [w \in Workers |-> IdleWorker]
    /\ intent = [k \in Keys |-> NoIntent]

Held == {k \in Keys : reservation[k] = "active"}
Active == {i \in Keys : item[i].state \in ActiveStates}

-----------------------------------------------------------------------------
(***************************************************************************)
(* The calls a client may make.  A key belongs to one logical command, and *)
(* a retry repeats it with the same If-Match version; only the payload of  *)
(* a create may differ.  Unless DuplicateCalls, a client repeats a command *)
(* only once the earlier call on the server is over.                       *)
(***************************************************************************)
MayCall(k) == DuplicateCalls \/ \A c \in Callers : caller[c].key # k

Begin(c, pc, k, i, row) ==
    /\ caller[c].pc = "idle"
    /\ caller' = [caller EXCEPT ![c] =
          [pc |-> pc, key |-> k, target |-> i, row |-> row,
           version |-> row.version - 1, created |-> FALSE]]
    /\ UNCHANGED <<reservation, item, job, worker>>

BeginCreate(c, k, d) ==
    LET use == [op |-> "create", item |-> k, version |-> 0] IN
    /\ intent[k] \in {NoIntent, use} /\ MayCall(k)
    /\ Begin(c, "reserve", k, k, [state |-> "open", version |-> 1, draft |-> d,
                                 reservation |-> k, released |-> FALSE])
    /\ intent' = [intent EXCEPT ![k] = use]

allowedTransition(from) ==
    CASE from = "open" -> {"in_progress", "canceled"}
      [] from = "in_progress" -> {"waiting", "done", "canceled"}
      [] from = "waiting" -> {"in_progress", "canceled"}
      [] from = "done" -> {"open"}
      [] OTHER -> {}

\* Transition from done to open: reserve under a new key before the cell write.
BeginReopen(c, k, i) ==
    LET use == [op |-> "reopen", item |-> i, version |-> item[i].version] IN
    /\ item[i].state = "done" /\ item[i].version < MaxVersion
    /\ intent[k] \in {NoIntent, use} /\ MayCall(k)
    /\ Begin(c, "reserve", k, i, [item[i] EXCEPT !.state = "open", !.version = @ + 1,
                                 !.reservation = k, !.released = FALSE])
    /\ intent' = [intent EXCEPT ![k] = use]

\* Every other transition reads the item and writes the whole row back.
BeginTransition(c, i, to) ==
    /\ item[i].state # "done" /\ to \in allowedTransition(item[i].state)
    /\ item[i].version < MaxVersion
    /\ Begin(c, "update", "none", i, [item[i] EXCEPT !.state = to, !.version = @ + 1])
    /\ UNCHANGED intent

BeginEditUnchecked(c, i, d) ==
    /\ item[i].version < MaxVersion
    /\ Begin(c, "update", "none", i, [item[i] EXCEPT !.draft = d, !.version = @ + 1])
    /\ UNCHANGED intent

\* Assign, AttachProvenance and LinkConversation; only Assign needs active Work.
BeginEdit(c, i, d) ==
    /\ item[i].state # "absent" /\ item[i].version < MaxVersion
    /\ Begin(c, "update", "none", i, [item[i] EXCEPT !.draft = d, !.version = @ + 1])
    /\ UNCHANGED intent

-----------------------------------------------------------------------------
(***************************************************************************)
(* The steps of a call                                                     *)
(***************************************************************************)
Finish(c) == caller' = [caller EXCEPT ![c] = IdleCaller]
Goto(c, pc) == caller' = [caller EXCEPT ![c].pc = pc]

HasRoom == Cardinality(Held) < Maximum

\* capacity.Reserve.  The admission client repeats a request whose response was
\* lost, so the call that created the reservation may be told it was replayed.
Reserve(c) ==
    LET k == caller[c].key
        proceed(created) ==
            caller' = [caller EXCEPT ![c].created = created,
                          ![c].pc = IF intent[k].op = "create" THEN "load" ELSE "update"]
    IN
    /\ caller[c].pc = "reserve"
    /\ CASE reservation[k] = "absent" /\ HasRoom ->
              /\ reservation' = [reservation EXCEPT ![k] = "active"]
              /\ \E created \in BOOLEAN : proceed(created)
         [] reservation[k] = "active" -> proceed(FALSE) /\ UNCHANGED reservation
         [] OTHER -> Finish(c) /\ UNCHANGED reservation
    /\ UNCHANGED <<item, job, worker, intent>>

\* A constraint or conflict: compensate only what this call created.
Refused(c) == IF caller[c].created THEN Goto(c, "compensate") ELSE Finish(c)

\* The first read of repository.Create, taken without a lock.
CreateLoad(c) ==
    LET found == item[caller[c].target]
        sameDraft == /\ found.draft = caller[c].row.draft
                     /\ found.reservation = caller[c].row.reservation
    IN
    /\ caller[c].pc = "load"
    /\ CASE found.state = "absent" -> Goto(c, "insert")
         [] found.state # "absent" /\ sameDraft -> Finish(c)
         [] OTHER -> Refused(c)
    /\ UNCHANGED <<reservation, item, job, worker, intent>>

EnqueueNever(i, row) == job
\* The trigger work_items_enqueue_capacity_release, ON CONFLICT DO NOTHING.
Enqueue(i, row) ==
    IF /\ row.state \in TerminalStates /\ ~row.released
       /\ job[<<i, row.reservation>>].state = "absent"
    THEN [job EXCEPT ![<<i, row.reservation>>] = [NoJob EXCEPT !.state = "pending"]]
    ELSE job

Write(i, row) ==
    /\ item' = [item EXCEPT ![i] = row]
    /\ job' = Enqueue(i, row)

\* INSERT, serialized by the number counter: a second one breaks the primary key.
CreateInsert(c) ==
    /\ caller[c].pc = "insert"
    /\ IF item[caller[c].target].state = "absent"
       THEN Write(caller[c].target, caller[c].row) /\ Finish(c)
       ELSE Refused(c) /\ UNCHANGED <<item, job>>
    /\ UNCHANGED <<reservation, worker, intent>>

UnguardedVersion(c) == TRUE
VersionMatches(c) == item[caller[c].target].version = caller[c].version

\* UPDATE ... WHERE version = the version read, every column from the copy read.
Update(c) ==
    /\ caller[c].pc = "update"
    /\ IF VersionMatches(c)
       THEN Write(caller[c].target, caller[c].row) /\ Finish(c)
       ELSE Refused(c) /\ UNCHANGED <<item, job>>
    /\ UNCHANGED <<reservation, worker, intent>>

\* Any other constraint, or a serialization failure: definitely rolled back.
RollBack(c) ==
    /\ caller[c].pc \in {"load", "insert", "update"}
    /\ Refused(c)
    /\ UNCHANGED <<reservation, item, job, worker, intent>>

Compensate(c) ==
    /\ caller[c].pc = "compensate"
    /\ reservation' = [reservation EXCEPT ![caller[c].key] =
                          IF @ = "active" THEN "released" ELSE @]
    /\ Finish(c)
    /\ UNCHANGED <<item, job, worker, intent>>

\* The process or a connection is lost: the outcome is unknown, capacity is kept.
Crash(c) ==
    /\ caller[c].pc # "idle"
    /\ Finish(c)
    /\ UNCHANGED <<reservation, item, job, worker, intent>>

\* repository.ResumeAttentionParents, under a row lock.
ResumeAttentionParents(i) ==
    /\ item[i].state = "waiting" /\ item[i].version < MaxVersion
    /\ item' = [item EXCEPT ![i].state = "in_progress", ![i].version = @ + 1]
    /\ UNCHANGED <<reservation, job, caller, worker, intent>>

-----------------------------------------------------------------------------
(***************************************************************************)
(* The reconcilers.  A worker holds one lease at a time, so its name is    *)
(* the lease id.  A lease may expire while its holder still works.  Only   *)
(* attempt >= MaxAttempts is ever tested, so attempt saturates there.      *)
(***************************************************************************)
Later(attempt) == IF attempt < MaxAttempts THEN attempt + 1 ELSE attempt

Claim(w, i, r) ==
    /\ worker[w].pc = "idle"
    /\ job[<<i, r>>].state \in {"pending", "failed", "processing"}
    /\ job' = [job EXCEPT ![<<i, r>>] = [state |-> "processing", attempt |-> Later(@.attempt),
                                        lease |-> w]]
    /\ worker' = [worker EXCEPT ![w] = [pc |-> "release", item |-> i, reservation |-> r,
                                        attempt |-> Later(job[<<i, r>>].attempt)]]
    /\ UNCHANGED <<reservation, item, caller, intent>>

WorkerGoto(w, pc) == worker' = [worker EXCEPT ![w].pc = pc]

ReleaseCapacity(w) ==
    /\ worker[w].pc = "release"
    /\ reservation' = [reservation EXCEPT ![worker[w].reservation] =
                          IF @ = "active" THEN "released" ELSE @]
    /\ WorkerGoto(w, IF reservation[worker[w].reservation] = "absent"
                     THEN "fail" ELSE "complete")
    /\ UNCHANGED <<item, job, caller, intent>>

\* The global database or the checkpoint is unavailable.
StepFails(w) ==
    /\ worker[w].pc \in {"release", "complete"}
    /\ WorkerGoto(w, "fail")
    /\ UNCHANGED <<reservation, item, job, caller, intent>>

LeasedAny(w) == job[<<worker[w].item, worker[w].reservation>>].state = "processing"
Leased(w) ==
    LET j == job[<<worker[w].item, worker[w].reservation>>] IN
    j.state = "processing" /\ j.lease = w

MarksAny(i, r) == item[i].state \in TerminalStates
\* The guard of the checkpoint on the Work row.
Marks(i, r) == item[i].reservation = r /\ item[i].state \in TerminalStates

Complete(w) ==
    LET i == worker[w].item
        r == worker[w].reservation
    IN
    /\ worker[w].pc = "complete"
    /\ IF Leased(w)
       THEN /\ job' = [job EXCEPT ![<<i, r>>] = [@ EXCEPT !.state = "completed", !.lease = "none"]]
            /\ item' = IF Marks(i, r) THEN [item EXCEPT ![i].released = TRUE] ELSE item
            /\ worker' = [worker EXCEPT ![w] = IdleWorker]
       ELSE /\ IF job[<<i, r>>].state = "completed"
               THEN worker' = [worker EXCEPT ![w] = IdleWorker]
               ELSE WorkerGoto(w, "fail")
            /\ UNCHANGED <<job, item>>
    /\ UNCHANGED <<reservation, caller, intent>>

\* queue.Fail: a lost lease changes nothing.
Fail(w) ==
    LET p == <<worker[w].item, worker[w].reservation>>
        dead == worker[w].attempt >= MaxAttempts \/ reservation[p[2]] = "absent"
    IN
    /\ worker[w].pc = "fail"
    /\ job' = IF Leased(w)
              THEN [job EXCEPT ![p] = [@ EXCEPT !.state = IF dead THEN "dead_letter" ELSE "failed",
                                               !.lease = "none"]]
              ELSE job
    /\ worker' = [worker EXCEPT ![w] = IdleWorker]
    /\ UNCHANGED <<reservation, item, caller, intent>>

WorkerCrash(w) ==
    /\ worker[w].pc # "idle"
    /\ worker' = [worker EXCEPT ![w] = IdleWorker]
    /\ UNCHANGED <<reservation, item, job, caller, intent>>

\* The operator puts a dead letter back into the queue.
Requeue(i, r) ==
    /\ job[<<i, r>>].state = "dead_letter"
    /\ job' = [job EXCEPT ![<<i, r>>] = [NoJob EXCEPT !.state = "pending"]]
    /\ UNCHANGED <<reservation, item, caller, worker, intent>>

PrunableTerminal(i, r) == job[<<i, r>>].state \in {"completed", "dead_letter"}
Prunable(i, r) == job[<<i, r>>].state = "completed"

PruneCompleted(i, r) ==
    /\ Prunable(i, r)
    /\ job' = [job EXCEPT ![<<i, r>>] = NoJob]
    /\ UNCHANGED <<reservation, item, caller, worker, intent>>

-----------------------------------------------------------------------------
CallerStep(c) ==
    \/ Reserve(c) \/ CreateLoad(c) \/ CreateInsert(c) \/ Update(c)
    \/ RollBack(c) \/ Compensate(c) \/ Crash(c)

ClientStep(c) ==
    \/ \E k \in Keys, d \in Drafts : BeginCreate(c, k, d)
    \/ \E k, i \in Keys : BeginReopen(c, k, i)
    \/ \E i \in Keys, to \in ActiveStates \cup TerminalStates : BeginTransition(c, i, to)
    \/ \E i \in Keys, d \in Drafts : BeginEdit(c, i, d)

WorkerStep(w) ==
    \/ \E i, r \in Keys : Claim(w, i, r)
    \/ ReleaseCapacity(w) \/ StepFails(w) \/ Complete(w) \/ Fail(w) \/ WorkerCrash(w)

Next ==
    \/ \E c \in Callers : CallerStep(c) \/ ClientStep(c)
    \/ \E w \in Workers : WorkerStep(w)
    \/ \E i \in Keys : ResumeAttentionParents(i)
    \/ \E i, r \in Keys : Requeue(i, r) \/ PruneCompleted(i, r)

Spec == Init /\ [][Next]_vars

(***************************************************************************)
(* Replicas keep polling and serve the job that is due longest first, so   *)
(* no claimable job is passed over for ever; a step against either         *)
(* database may fail any number of times but not always; operators requeue *)
(* dead letters.  Nothing is assumed of the clients.  A reservation has    *)
(* jobs of one item only, so fairness to a job is fairness to its          *)
(* reservation, which keeps the number of conditions small.                *)
(***************************************************************************)
ReleaseOf(w, r) == worker[w].reservation = r /\ ReleaseCapacity(w)

Fairness ==
    /\ \A r \in Keys : /\ SF_vars(\E w \in Workers, i \in Keys : Claim(w, i, r))
                       /\ SF_vars(\E w \in Workers : ReleaseOf(w, r))
                       /\ WF_vars(\E i \in Keys : Requeue(i, r))
    /\ WF_vars(\E w \in Workers : Complete(w) \/ Fail(w))

FairSpec == Spec /\ Fairness

-----------------------------------------------------------------------------
(***************************************************************************)
(* Properties                                                              *)
(***************************************************************************)
TypeOK ==
    /\ reservation \in [Keys -> {"absent", "active", "released"}]
    /\ item \in [Keys -> Item]
    /\ \A i \in Keys : item[i].state = "absent" <=> item[i].version = 0
    /\ job \in [Keys \X Keys -> Job]
    /\ caller \in [Callers -> Caller]
    /\ worker \in [Workers -> Worker]
    /\ intent \in [Keys -> Intent]

\* Every active Work item is backed by an active reservation: active Work is
\* never undercounted, through lost responses, crashes, compensation, reopening
\* and stale reconcilers.
ActiveWorkCounted == \A i \in Active : reservation[item[i].reservation] = "active"

\* The capacity of a terminal item is never forgotten: while its reservation is
\* still active, a release job for exactly that reservation is unfinished.
TerminalReleaseQueued ==
    \A i \in Keys :
        item[i].state \in TerminalStates /\ reservation[item[i].reservation] = "active" =>
            job[<<i, item[i].reservation>>].state \notin {"absent", "completed"}

\* The checkpoint on a Work row is truthful, also when the item was reopened and
\* closed again while an old release was in flight.
CheckpointTruthful ==
    \A i \in Keys : item[i].released =>
        /\ item[i].state \in TerminalStates
        /\ reservation[item[i].reservation] = "released"

\* Releases are neither forgotten nor premature, whatever two reconcilers, edits and
\* pruning do to the job and to the row in between.
ReleasesTracked == TerminalReleaseQueued /\ CheckpointTruthful

\* Completing a release job is never undone except by its removal, and nobody
\* closes a job whose lease was taken over by another replica.
LeaseRespected ==
    \A p \in Keys \X Keys :
        /\ job[p].state = "completed" => job'[p].state \in {"completed", "absent"}
        /\ job[p].state = "processing" /\ job'[p].state # "processing" =>
              \E w \in Workers : job[p].lease = w /\ worker'[w] # worker[w]
ReleaseJobsFenced == [][LeaseRespected]_vars

\* The capacity of finished Work comes back: the reservation an item held when it
\* became terminal is eventually released, through failed attempts, dead letters,
\* crashed replicas and a reopening in between.
TerminalCapacityReturned ==
    \A r \in Keys :
        (\E i \in Keys : item[i].state \in TerminalStates /\ item[i].reservation = r)
            ~> reservation[r] = "released"
=============================================================================
