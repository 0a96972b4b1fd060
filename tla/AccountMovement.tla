---------------------------- MODULE AccountMovement ---------------------------
(***************************************************************************)
(* Moving one Account between cells.  The global database holds the        *)
(* Account, its directory entry, the cell counters and the move records;   *)
(* each cell holds the Account's namespace, its rows and one checkpoint    *)
(* per move.  Short-lived operator jobs drive a move: every database call  *)
(* of a job is a step of its own, so that a job can die, or be overtaken   *)
(* by another one, between any two calls.  Customer requests and workers   *)
(* run throughout.                                                         *)
(*                                                                         *)
(* A job's inspection and claim are one step: the claim compares the       *)
(* version the inspection returned, so it succeeds only when the record is *)
(* as inspected.  Every claim and every advance changes the version, hence *)
(* a job's later version and lease checks succeed exactly while the record *)
(* still names this job as the holder of an unexpired lease.               *)
(***************************************************************************)
EXTENDS Integers, Sequences, FiniteSetsExt

CONSTANTS
    Cells,          \* cells of the deployment
    Jobs,           \* operator jobs that can exist at a time
    Writes,         \* customer writes
    QueuedWrites,   \* the writes that enqueue technical work
    AgentWrites,    \* those of them that enqueue a Work Agent execution
    SoftLimit,      \* [Cells -> Nat]: Accounts a cell takes
    Others,         \* [Cells -> Nat]: the other Accounts assigned to a cell
    OneJobAtATime,  \* TRUE: a job starts only when the last one ended or died
    MaxMoves,       \* bound: move records
    MaxFaults,      \* bound: jobs that die, or outlive their lease
    MaxChanges      \* bound: Account state changes outside of a move

ASSUME MovementAssumption ==
    /\ AgentWrites \subseteq QueuedWrites /\ QueuedWrites \subseteq Writes
    /\ {"none", "orphan"} \cap Jobs = {}
    /\ SoftLimit \in [Cells -> Nat] /\ Others \in [Cells -> Nat]
    /\ OneJobAtATime \in BOOLEAN
    /\ MaxMoves \in Nat /\ MaxFaults \in Nat /\ MaxChanges \in Nat

VARIABLES
    account,        \* accounts row: [cell, generation, version, state]
    directory,      \* account_directory.state
    assigned,       \* cells.assigned_accounts
    moves,          \* account_moves, oldest first
    namespace,      \* per cell: account_namespaces row
    data,           \* per cell: the Account's rows
    checkpoint,     \* per cell and move: account_move_checkpoints row
    job,            \* per operator job: the call it makes next
    request,        \* per customer write: how far its request got
    faults          \* failures so far

vars == <<account, directory, assigned, moves, namespace, data, checkpoint, job, request, faults>>
globalVars == <<account, directory, assigned, moves>>
cellVars == <<namespace, data, checkpoint>>

RowStates == {"absent", "queued", "done"}
NoRows == [w \in Writes |-> "absent"]
NoNamespace == [generation |-> 0, state |-> "absent"]
NoCheckpoint == [state |-> "none", generation |-> 0]
Idle == [call |-> "idle", move |-> 0, seen |-> NoRows]
NewRequest == [stage |-> "new", cell |-> "none", generation |-> 0]

\* The lease of a record: nobody's, a job's, or that of a job that is gone.
NoLease == "none"
Orphan == "orphan"

Init ==
    \E home \in Cells :
        /\ account = [cell |-> home, generation |-> 1, version |-> 1, state |-> "active"]
        /\ directory = "active"
        /\ assigned = [c \in Cells |-> IF c = home THEN Others[c] + 1 ELSE Others[c]]
        /\ moves = << >>
        /\ namespace = [c \in Cells |-> IF c = home THEN [generation |-> 1, state |-> "active"] ELSE NoNamespace]
        /\ data = [c \in Cells |-> NoRows]
        /\ checkpoint = [c \in Cells |-> [m \in 1..MaxMoves |-> NoCheckpoint]]
        /\ job = [j \in Jobs |-> Idle]
        /\ request = [w \in Writes |-> NewRequest]
        /\ faults = 0

-------------------------------------------------------------------------------
(* Customer requests, workers and the Account's own lifecycle              *)

\* The router signs the placement it reads; a cached directory entry of the
\* same generation is used even while the directory says 'moving'.
RouteRequest(w) ==
    /\ request[w].stage = "new"
    /\ account.state = "active"
    /\ request' = [request EXCEPT ![w] = [stage |-> "routed", cell |-> account.cell, generation |-> account.generation]]
    /\ UNCHANGED <<globalVars, cellVars, job, faults>>

\* The cell consumes the signed context: generation and namespace must match.
ConsumeReceipt(w) ==
    LET r == request[w] IN
    /\ r.stage = "routed"
    /\ request' = [request EXCEPT ![w] =
           IF namespace[r.cell] = [generation |-> r.generation, state |-> "active"]
           THEN [r EXCEPT !.stage = "admitted"] ELSE NewRequest]
    /\ UNCHANGED <<globalVars, cellVars, job, faults>>

\* Mutant: the fence lets writes into a frozen namespace.
WriteFenceMoving(c) == namespace[c].state \in {"active", "moving"}

\* The write fence of every Account table, for customers and workers.
WriteFence(c) == namespace[c].state = "active"

\* The business write is a later transaction: only the fence guards it.
BusinessWrite(w) ==
    LET r == request[w] IN
    /\ r.stage = "admitted"
    /\ IF WriteFence(r.cell)
       THEN /\ data' = [data EXCEPT ![r.cell][w] = IF w \in QueuedWrites THEN "queued" ELSE "done"]
            /\ request' = [request EXCEPT ![w].stage = "written"]
       ELSE /\ request' = [request EXCEPT ![w] = NewRequest]
            /\ UNCHANGED data
    /\ UNCHANGED <<globalVars, namespace, checkpoint, job, faults>>

\* A worker of the cell finishes a queue entry, behind the same fence.
FinishWork(c, w) ==
    /\ data[c][w] = "queued"
    /\ WriteFence(c)
    /\ data' = [data EXCEPT ![c][w] = "done"]
    /\ UNCHANGED <<globalVars, namespace, checkpoint, job, request, faults>>

\* Closing, restricting and reactivating an Account know nothing of moves.
\* The version also counts the changes of generation, which the bound leaves out.
ChangeAccountState ==
    /\ account.version - account.generation < MaxChanges
    /\ account' = [account EXCEPT !.version = @ + 1,
                                  !.state = IF @ = "active" THEN "suspended" ELSE "active"]
    /\ UNCHANGED <<directory, assigned, moves, cellVars, job, request, faults>>

-------------------------------------------------------------------------------
(* The move record                                                         *)

Source(m) == moves[m].source
Destination(m) == moves[m].destination
SourceGeneration(m) == moves[m].generation
DestinationGeneration(m) == moves[m].generation + 1
RollbackGeneration(m) == moves[m].generation + 2

OpenMove == \E m \in DOMAIN moves : moves[m].state \notin {"rolled_back", "completed"}

\* prepare: the Account is active where the directory says, the destination
\* has room, and no other move of the Account is open.
Prepare(c) ==
    /\ Len(moves) < MaxMoves
    /\ account.state = "active" /\ directory = "active"
    /\ c # account.cell
    /\ assigned[c] < SoftLimit[c]
    /\ ~OpenMove
    /\ moves' = Append(moves, [state |-> "prepared", resume |-> "none",
                               source |-> account.cell, destination |-> c,
                               generation |-> account.generation, version |-> account.version,
                               digest |-> NoRows, window |-> "unset",
                               lease |-> NoLease, live |-> FALSE])
    /\ UNCHANGED <<account, directory, assigned, cellVars, job, request, faults>>

\* pause and resume need a record nobody has leased, expired or not.
Pause(m) ==
    /\ moves[m].lease = NoLease
    /\ moves[m].state \in {"prepared", "drained", "copied", "ready"}
    /\ moves' = [moves EXCEPT ![m].state = "paused", ![m].resume = moves[m].state]
    /\ UNCHANGED <<account, directory, assigned, cellVars, job, request, faults>>

Resume(m) ==
    /\ moves[m].lease = NoLease
    /\ moves[m].state = "paused"
    /\ moves' = [moves EXCEPT ![m].state = moves[m].resume, ![m].resume = "none"]
    /\ UNCHANGED <<account, directory, assigned, cellVars, job, request, faults>>

\* A lease runs out; under a job that still works, this is one of the faults.
ExpireLease(m) ==
    /\ moves[m].live
    /\ \/ moves[m].lease = Orphan /\ UNCHANGED faults
       \/ moves[m].lease \in Jobs /\ faults < MaxFaults /\ faults' = faults + 1
    /\ moves' = [moves EXCEPT ![m].live = FALSE]
    /\ UNCHANGED <<account, directory, assigned, cellVars, job, request>>

\* The rollback window runs from the switch.
CloseWindow(m) ==
    /\ moves[m].window = "open"
    /\ moves' = [moves EXCEPT ![m].window = "over"]
    /\ UNCHANGED <<account, directory, assigned, cellVars, job, request, faults>>

Claimable(m) ==
    /\ moves[m].state \notin {"paused", "rolled_back", "completed"}
    /\ ~moves[m].live

Holds(j, m) == moves[m].lease = j /\ moves[m].live

-------------------------------------------------------------------------------
(* How a job starts, ends and dies                                         *)

MayStart(j) ==
    /\ job[j] = Idle
    /\ OneJobAtATime => \A k \in Jobs : job[k] = Idle

GoTo(j, m, call) == job' = [job EXCEPT ![j].call = call, ![j].move = m]
Continue(j, call) == job' = [job EXCEPT ![j].call = call]
End(j) == job' = [job EXCEPT ![j] = Idle]

\* A record whose leased job ended keeps the lease until it expires.
Orphaned(j) ==
    [m \in DOMAIN moves |-> IF moves[m].lease = j THEN [moves[m] EXCEPT !.lease = Orphan] ELSE moves[m]]

ClaimAndGo(j, m, call) ==
    /\ Claimable(m)
    /\ moves' = [moves EXCEPT ![m].lease = j, ![m].live = TRUE]
    /\ GoTo(j, m, call)
    /\ UNCHANGED <<account, directory, assigned, cellVars, request, faults>>

\* The first call of each phase, by the state the claim returned.
PhaseOf == [prepared |-> "stage_source", drained |-> "read", copied |-> "match_source", ready |-> "switch"]

\* Advance: a switched or a rolled back move only has its cells activated, and
\* takes no lease for that; a retiring one is claimed and then refused.
StartAdvance(j, m) ==
    /\ MayStart(j)
    /\ \/ /\ moves[m].state = "switched"
          /\ GoTo(j, m, "activate")
          /\ UNCHANGED <<globalVars, cellVars, request, faults>>
       \/ /\ moves[m].state = "rolled_back"
          /\ GoTo(j, m, "activate_source")
          /\ UNCHANGED <<globalVars, cellVars, request, faults>>
       \/ /\ moves[m].state \in DOMAIN PhaseOf
          /\ ClaimAndGo(j, m, PhaseOf[moves[m].state])
       \/ /\ moves[m].state = "retiring" /\ Claimable(m)
          /\ moves' = [moves EXCEPT ![m].lease = Orphan, ![m].live = TRUE]
          /\ UNCHANGED <<account, directory, assigned, cellVars, job, request, faults>>

StartRollback(j, m) ==
    /\ MayStart(j)
    /\ \/ /\ moves[m].state = "rolled_back"
          /\ GoTo(j, m, "activate_source")
          /\ UNCHANGED <<globalVars, cellVars, request, faults>>
       \/ /\ moves[m].state = "switched" /\ moves[m].window = "open"
          /\ ClaimAndGo(j, m, "rollback")

StartRetire(j, m) ==
    /\ MayStart(j)
    /\ \/ /\ moves[m].state = "switched" /\ moves[m].window = "over"
          /\ ClaimAndGo(j, m, "begin_retirement")
       \/ /\ moves[m].state = "retiring"
          /\ ClaimAndGo(j, m, "retire")

\* A job dies, times out or loses a database at any call.
Abandon(j) ==
    /\ job[j] # Idle
    /\ faults < MaxFaults
    /\ faults' = faults + 1
    /\ moves' = Orphaned(j)
    /\ End(j)
    /\ UNCHANGED <<account, directory, assigned, cellVars, request>>

-------------------------------------------------------------------------------
(* What each database function accepts                                     *)

Unfinished(c) == {w \in Writes : data[c][w] = "queued"}

\* Mutant: the technical queues are not looked at.
SourceStageableBusy(m) ==
    LET c == Source(m) IN
    /\ namespace[c].generation = SourceGeneration(m)
    /\ namespace[c].state \in {"active", "moving"}
    /\ checkpoint[c][m] \in {NoCheckpoint, [state |-> "frozen", generation |-> SourceGeneration(m)]}

\* Mutant: staging is not restartable, a source already frozen is refused.
SourceStageableOnce(m) ==
    LET c == Source(m) IN
    /\ namespace[c] = [generation |-> SourceGeneration(m), state |-> "active"]
    /\ Unfinished(c) = {}
    /\ checkpoint[c][m] = NoCheckpoint

\* The gate of every change of a namespace to 'moving': no Work Agent execution
\* is unfinished there, unless it is 'moving' already.
AgentGate(c) == namespace[c].state = "moving" \/ Unfinished(c) \cap AgentWrites = {}

\* stage source: the namespace is at the move's generation, the queues it looks
\* at are terminal, and the checkpoint is new or still 'frozen'.
SourceStageable(m) ==
    LET c == Source(m) IN
    /\ namespace[c].generation = SourceGeneration(m)
    /\ namespace[c].state \in {"active", "moving"}
    /\ Unfinished(c) \subseteq AgentWrites /\ AgentGate(c)
    /\ checkpoint[c][m] \in {NoCheckpoint, [state |-> "frozen", generation |-> SourceGeneration(m)]}

\* stage destination: no namespace, or the one this move staged.
DestinationStageable(m) ==
    LET c == Destination(m) IN
    /\ namespace[c] \in {NoNamespace, [generation |-> DestinationGeneration(m), state |-> "moving"]}
    /\ checkpoint[c][m] \in {NoCheckpoint, [state |-> "staged", generation |-> DestinationGeneration(m)]}

\* The movement bypass of the write fence, or the fence itself.
CopyWritable(m) ==
    LET c == Destination(m) IN
    \/ namespace[c].state = "moving" /\ checkpoint[c][m].state \in {"staged", "copied"}
    \/ WriteFence(c)

\* Mutant: an activation that was already made is refused.
ActivatableOnce(c, m, expected, active) ==
    /\ checkpoint[c][m].state \in {"frozen", "staged", "copied", "active", "rollback_active"}
    /\ namespace[c] = [generation |-> expected, state |-> "moving"]

\* activate: from the frozen generation, or already active at the new one.
Activatable(c, m, expected, active) ==
    /\ checkpoint[c][m].state \in {"frozen", "staged", "copied", "active", "rollback_active"}
    /\ namespace[c] \in {[generation |-> expected, state |-> "moving"], [generation |-> active, state |-> "active"]}

\* Freezing the destination again looks at no queue: only the gate stops it.
DestinationFreezable(m) ==
    LET c == Destination(m) IN
    /\ namespace[c].generation = DestinationGeneration(m)
    /\ namespace[c].state \in {"active", "moving"}
    /\ AgentGate(c)

\* Retirement deletes the frozen source only, or finds it already deleted.
SourceFrozen(m) ==
    /\ namespace[Source(m)] = [generation |-> SourceGeneration(m), state |-> "moving"]
    /\ checkpoint[Source(m)][m].state = "copied"
SourceRetired(m) ==
    /\ namespace[Source(m)] = NoNamespace
    /\ checkpoint[Source(m)][m].state = "retired"

\* The Account and the directory are still as prepared, and the cells' counters
\* admit the change.
Switchable(m) ==
    /\ moves[m].state = "ready"
    /\ account.cell = Source(m) /\ account.generation = SourceGeneration(m)
    /\ account.version = moves[m].version
    /\ directory = "moving"
    /\ assigned[Source(m)] > 0
    /\ assigned[Destination(m)] < SoftLimit[Destination(m)]

Reversible(m) ==
    /\ moves[m].state = "switched" /\ moves[m].window = "open"
    /\ account.cell = Destination(m) /\ account.generation = DestinationGeneration(m)
    /\ assigned[Destination(m)] > 0
    /\ assigned[Source(m)] < SoftLimit[Source(m)]

\* Whether the call a job makes next is accepted; else it returns an error.
Accepted(j) ==
    LET m == job[j].move  call == job[j].call IN
    CASE call = "stage_source" -> SourceStageable(m)
      [] call = "stage_destination" -> DestinationStageable(m)
      [] call = "drain" -> /\ Holds(j, m) /\ directory = "active"
                           /\ account.cell = Source(m) /\ account.generation = SourceGeneration(m)
      [] call = "write" -> CopyWritable(m)
      [] call = "compare" -> data[Destination(m)] = job[j].seen
      [] call = "record_source" -> checkpoint[Source(m)][m].generation = SourceGeneration(m)
      [] call = "record_destination" -> checkpoint[Destination(m)][m].generation = DestinationGeneration(m)
      [] call = "match_source" -> data[Source(m)] = moves[m].digest
      [] call = "match_destination" -> data[Destination(m)] = moves[m].digest
      [] call = "switch" -> Holds(j, m) /\ Switchable(m)
      [] call = "activate" -> Activatable(Destination(m), m, DestinationGeneration(m), DestinationGeneration(m))
      [] call = "rollback" -> Holds(j, m) /\ Reversible(m)
      [] call = "activate_source" -> Activatable(Source(m), m, SourceGeneration(m), RollbackGeneration(m))
      [] call = "freeze_destination" -> DestinationFreezable(m)
      [] call = "retire" -> SourceFrozen(m) \/ SourceRetired(m)
      [] call = "read" -> TRUE
      [] call \in {"copy", "reconcile", "begin_retirement", "complete"} -> Holds(j, m)

Refuse(j) ==
    /\ job[j] # Idle
    /\ ~Accepted(j)
    /\ moves' = Orphaned(j)
    /\ End(j)
    /\ UNCHANGED <<account, directory, assigned, cellVars, request, faults>>

Making(j, call) == job[j].call = call /\ Accepted(j)

-------------------------------------------------------------------------------
(* The calls of a job, in the order of the phases                          *)

\* Mutant: the source is checkpointed but not frozen.
StageSourceUnfrozen(j) ==
    LET m == job[j].move  c == Source(m) IN
    /\ Making(j, "stage_source")
    /\ checkpoint' = [checkpoint EXCEPT ![c][m] = [state |-> "frozen", generation |-> SourceGeneration(m)]]
    /\ Continue(j, "stage_destination")
    /\ UNCHANGED <<globalVars, namespace, data, request, faults>>

\* FreezeAndStage: the source is frozen first, then the destination is staged.
StageSource(j) ==
    LET m == job[j].move  c == Source(m) IN
    /\ Making(j, "stage_source")
    /\ namespace' = [namespace EXCEPT ![c].state = "moving"]
    /\ checkpoint' = [checkpoint EXCEPT ![c][m] = [state |-> "frozen", generation |-> SourceGeneration(m)]]
    /\ Continue(j, "stage_destination")
    /\ UNCHANGED <<globalVars, data, request, faults>>

StageDestination(j) ==
    LET m == job[j].move  c == Destination(m) IN
    /\ Making(j, "stage_destination")
    /\ namespace' = [namespace EXCEPT ![c] = [generation |-> DestinationGeneration(m), state |-> "moving"]]
    /\ checkpoint' = [checkpoint EXCEPT ![c][m] = [state |-> "staged", generation |-> DestinationGeneration(m)]]
    /\ Continue(j, "drain")
    /\ UNCHANGED <<globalVars, data, request, faults>>

\* Mutant: the lease is given back, its expiry is not.
ReleasedLive(m, state) == [moves[m] EXCEPT !.state = state, !.lease = NoLease]

\* Every advance of the record gives the lease back.
Released(m, state) == [moves[m] EXCEPT !.state = state, !.lease = NoLease, !.live = FALSE]

Drain(j) ==
    LET m == job[j].move IN
    /\ Making(j, "drain")
    /\ directory' = "moving"
    /\ moves' = [moves EXCEPT ![m] = Released(m, "drained")]
    /\ End(j)
    /\ UNCHANGED <<account, assigned, cellVars, request, faults>>

\* Copy: a snapshot of the source replaces the destination's rows, the
\* destination is read back, and both checkpoints get the evidence.
ReadSource(j) ==
    /\ Making(j, "read")
    /\ job' = [job EXCEPT ![j].call = "write", ![j].seen = data[Source(job[j].move)]]
    /\ UNCHANGED <<globalVars, cellVars, request, faults>>

WriteDestination(j) ==
    /\ Making(j, "write")
    /\ data' = [data EXCEPT ![Destination(job[j].move)] = job[j].seen]
    /\ Continue(j, "compare")
    /\ UNCHANGED <<globalVars, namespace, checkpoint, request, faults>>

CompareCopy(j) ==
    /\ Making(j, "compare")
    /\ Continue(j, "record_source")
    /\ UNCHANGED <<globalVars, cellVars, request, faults>>

RecordEvidence(j) ==
    LET m == job[j].move IN
    /\ \/ /\ Making(j, "record_source")
          /\ checkpoint' = [checkpoint EXCEPT ![Source(m)][m].state = "copied"]
          /\ Continue(j, "record_destination")
       \/ /\ Making(j, "record_destination")
          /\ checkpoint' = [checkpoint EXCEPT ![Destination(m)][m].state = "copied"]
          /\ Continue(j, "copy")
    /\ UNCHANGED <<globalVars, namespace, data, request, faults>>

AdvanceCopied(j) ==
    LET m == job[j].move IN
    /\ Making(j, "copy")
    /\ moves' = [moves EXCEPT ![m] = [Released(m, "copied") EXCEPT !.digest = job[j].seen]]
    /\ End(j)
    /\ UNCHANGED <<account, directory, assigned, cellVars, request, faults>>

\* Reconcile: both cells are read again and compared with the evidence.
MatchEvidence(j) ==
    /\ \/ Making(j, "match_source") /\ Continue(j, "match_destination")
       \/ Making(j, "match_destination") /\ Continue(j, "reconcile")
    /\ UNCHANGED <<globalVars, cellVars, request, faults>>

AdvanceReady(j) ==
    LET m == job[j].move IN
    /\ Making(j, "reconcile")
    /\ moves' = [moves EXCEPT ![m] = Released(m, "ready")]
    /\ End(j)
    /\ UNCHANGED <<account, directory, assigned, cellVars, request, faults>>

\* The change of placement, forwards and back: one global transaction.
Place(from, to, generation) ==
    /\ account' = [account EXCEPT !.cell = to, !.generation = generation, !.version = @ + 1]
    /\ directory' = "active"
    /\ assigned' = [assigned EXCEPT ![from] = @ - 1, ![to] = @ + 1]

Switch(j) ==
    LET m == job[j].move IN
    /\ Making(j, "switch")
    /\ Place(Source(m), Destination(m), DestinationGeneration(m))
    /\ moves' = [moves EXCEPT ![m] = [Released(m, "switched") EXCEPT !.window = "open"]]
    /\ Continue(j, "activate")
    /\ UNCHANGED <<cellVars, request, faults>>

ActivateDestination(j) ==
    LET m == job[j].move  c == Destination(m) IN
    /\ Making(j, "activate")
    /\ namespace' = [namespace EXCEPT ![c] = [generation |-> DestinationGeneration(m), state |-> "active"]]
    /\ checkpoint' = [checkpoint EXCEPT ![c][m] = [state |-> "active", generation |-> DestinationGeneration(m)]]
    /\ End(j)
    /\ UNCHANGED <<globalVars, data, request, faults>>

Rollback(j) ==
    LET m == job[j].move IN
    /\ Making(j, "rollback")
    /\ Place(Destination(m), Source(m), RollbackGeneration(m))
    /\ moves' = [moves EXCEPT ![m] = Released(m, "rolled_back")]
    /\ Continue(j, "activate_source")
    /\ UNCHANGED <<cellVars, request, faults>>

\* ActivateRollback: the retained source first, then the destination is frozen.
ActivateSource(j) ==
    LET m == job[j].move  c == Source(m) IN
    /\ Making(j, "activate_source")
    /\ namespace' = [namespace EXCEPT ![c] = [generation |-> RollbackGeneration(m), state |-> "active"]]
    /\ checkpoint' = [checkpoint EXCEPT ![c][m] = [state |-> "rollback_active", generation |-> RollbackGeneration(m)]]
    /\ Continue(j, "freeze_destination")
    /\ UNCHANGED <<globalVars, data, request, faults>>

FreezeDestination(j) ==
    LET m == job[j].move  c == Destination(m) IN
    /\ Making(j, "freeze_destination")
    /\ namespace' = [namespace EXCEPT ![c].state = "moving"]
    /\ checkpoint' = [checkpoint EXCEPT ![c][m].state = "frozen"]
    /\ End(j)
    /\ UNCHANGED <<globalVars, data, request, faults>>

\* Retirement keeps the lease from its beginning to its completion.
BeginRetirement(j) ==
    /\ Making(j, "begin_retirement")
    /\ moves' = [moves EXCEPT ![job[j].move].state = "retiring"]
    /\ Continue(j, "retire")
    /\ UNCHANGED <<account, directory, assigned, cellVars, request, faults>>

RetireSource(j) ==
    LET m == job[j].move  c == Source(m) IN
    /\ Making(j, "retire")
    /\ IF SourceRetired(m)
       THEN UNCHANGED cellVars
       ELSE /\ namespace' = [namespace EXCEPT ![c] = NoNamespace]
            /\ data' = [data EXCEPT ![c] = NoRows]
            /\ checkpoint' = [checkpoint EXCEPT ![c][m].state = "retired"]
    /\ Continue(j, "complete")
    /\ UNCHANGED <<globalVars, request, faults>>

Complete(j) ==
    LET m == job[j].move IN
    /\ Making(j, "complete")
    /\ moves' = [moves EXCEPT ![m] = Released(m, "completed")]
    /\ End(j)
    /\ UNCHANGED <<account, directory, assigned, cellVars, request, faults>>

JobStep(j) ==
    \/ StageSource(j) \/ StageDestination(j) \/ Drain(j)
    \/ ReadSource(j) \/ WriteDestination(j) \/ CompareCopy(j) \/ RecordEvidence(j) \/ AdvanceCopied(j)
    \/ MatchEvidence(j) \/ AdvanceReady(j)
    \/ Switch(j) \/ ActivateDestination(j)
    \/ Rollback(j) \/ ActivateSource(j) \/ FreezeDestination(j)
    \/ BeginRetirement(j) \/ RetireSource(j) \/ Complete(j)
    \/ Refuse(j)

Start(j) == \E m \in DOMAIN moves : StartAdvance(j, m) \/ StartRollback(j, m) \/ StartRetire(j, m)

Customers ==
    \/ \E w \in Writes : RouteRequest(w) \/ ConsumeReceipt(w) \/ BusinessWrite(w)
    \/ \E c \in Cells, w \in Writes : FinishWork(c, w)

Next ==
    \/ Customers
    \/ ChangeAccountState
    \/ \E c \in Cells : Prepare(c)
    \/ \E m \in DOMAIN moves : Pause(m) \/ Resume(m) \/ ExpireLease(m) \/ CloseWindow(m)
    \/ \E j \in Jobs : Start(j) \/ JobStep(j) \/ Abandon(j)

Spec == Init /\ [][Next]_vars

-------------------------------------------------------------------------------
(* Fairness                                                                *)

\* A job that is alive makes its next call, an operator repeats "advance" until
\* it is no longer refused, workers drain their queues and leases run out.
Fairness ==
    /\ \A j \in Jobs : WF_vars(JobStep(j))
    /\ \A m \in 1..MaxMoves : SF_vars(m \in DOMAIN moves /\ \E j \in Jobs : StartAdvance(j, m))
    /\ \A m \in 1..MaxMoves : WF_vars(m \in DOMAIN moves /\ (ExpireLease(m) \/ Resume(m)))
    /\ \A c \in Cells, w \in Writes : WF_vars(FinishWork(c, w))

FairSpec == Spec /\ Fairness

-------------------------------------------------------------------------------
(* Properties                                                              *)

MoveStates == {"prepared", "paused", "drained", "copied", "ready", "switched", "retiring", "completed", "rolled_back"}
Calls == {"idle", "stage_source", "stage_destination", "drain", "read", "write", "compare", "record_source",
          "record_destination", "copy", "match_source", "match_destination", "reconcile", "switch", "activate",
          "rollback", "activate_source", "freeze_destination", "begin_retirement", "retire", "complete"}
Generations == 0..(2 * MaxMoves + 1)

\* Every row, record and job has a value its table or its code can hold.
TypeOK ==
    /\ account.cell \in Cells /\ account.generation \in Generations
    /\ account.version \in 1..(2 * MaxMoves + 1 + MaxChanges) /\ account.state \in {"active", "suspended"}
    /\ directory \in {"active", "moving"}
    /\ assigned \in [Cells -> Nat]
    /\ Len(moves) <= MaxMoves
    /\ \A m \in DOMAIN moves :
           /\ moves[m].state \in MoveStates
           /\ (moves[m].state = "paused") = (moves[m].resume # "none")
           /\ moves[m].source \in Cells /\ moves[m].destination \in Cells \ {moves[m].source}
           /\ moves[m].digest \in [Writes -> RowStates]
           /\ moves[m].window \in {"unset", "open", "over"}
           /\ moves[m].lease \in Jobs \cup {NoLease, Orphan}
           /\ moves[m].live => moves[m].lease # NoLease
    /\ \A c \in Cells :
           /\ namespace[c].generation \in Generations
           /\ namespace[c].state \in {"absent", "active", "moving"}
           /\ data[c] \in [Writes -> RowStates]
           /\ \A m \in 1..MaxMoves : checkpoint[c][m].generation \in Generations
    /\ \A j \in Jobs : job[j].call \in Calls /\ job[j].move \in 0..Len(moves)
    /\ \A w \in Writes : request[w].stage \in {"new", "routed", "admitted", "written"}
    /\ faults \in 0..MaxFaults

Placed == {m \in DOMAIN moves : moves[m].state \in {"switched", "retiring", "completed", "rolled_back"}}
LastPlaced == moves[Max(Placed)]
Acknowledged == {w \in Writes : request[w].stage = "written"}

\* The abstract placement an Account's rows and records stand for.
Placement == INSTANCE AccountPlacement WITH
    home <- account.cell,
    generation <- account.generation,
    rows <- data[account.cell],
    base <- IF Placed = {} THEN NoRows ELSE LastPlaced.digest,
    undoable <- Placed # {} /\ LastPlaced.state = "switched",
    undone <- \E m \in DOMAIN moves : moves[m].state = "rolled_back",
    dropped <- {w \in Acknowledged : data[account.cell][w] = "absent"}

\* Moving implements the abstract placement: a switch keeps every acknowledged
\* row, a rollback returns exactly the rows that moved, and only writes accepted
\* by an abandoned destination are ever dropped.
ImplementsPlacement == Placement!PlacementSpec

\* Beside its home an Account is writable only in a destination whose rollback
\* has not been completed.
OneWritableCell ==
    \A c \in Cells \ {account.cell} :
        namespace[c].state = "active" =>
            \E m \in DOMAIN moves : /\ moves[m].state = "rolled_back" /\ moves[m].destination = c
                                    /\ checkpoint[c][m].state = "active"

Phase(m) == IF moves[m].state = "paused" THEN moves[m].resume ELSE moves[m].state

\* A destination that a rollback left behind, as that move created it.
Abandoned(c) ==
    \E m \in DOMAIN moves :
        /\ Phase(m) = "rolled_back" /\ Destination(m) = c
        /\ namespace[c].generation = DestinationGeneration(m)

\* No frozen namespace holds an unfinished Work Agent execution, and only an
\* abandoned destination holds other unfinished technical work.
FrozenCellsDrained ==
    \A c \in Cells :
        namespace[c].state = "moving" =>
            /\ Unfinished(c) \cap AgentWrites = {}
            /\ Unfinished(c) = {} \/ Abandoned(c)

\* What a move copies, compares and hands over stays frozen, with no technical
\* work left: in both cells until the switch, in the source while a rollback may
\* still return to it.
MovedRowsDrained ==
    \A m \in DOMAIN moves :
        LET Drained(c) == namespace[c].state = "moving" /\ Unfinished(c) = {} IN
        /\ Phase(m) \in {"drained", "copied", "ready", "switched"} => Drained(Source(m))
        /\ Phase(m) \in {"drained", "copied", "ready"} => Drained(Destination(m))

\* Requests and workers that outlive the freeze leave no unfinished work behind
\* in the cells of a move, however often earlier moves were rolled back.
FrozenIsDrained == FrozenCellsDrained /\ MovedRowsDrained

\* The directory is closed exactly while a move is between drain and switch, and
\* each cell counts exactly the Accounts placed in it.
DirectoryFollowsMove ==
    /\ (directory = "moving") = (\E m \in DOMAIN moves : Phase(m) \in {"drained", "copied", "ready"})
    /\ \A c \in Cells : assigned[c] = Others[c] + (IF c = account.cell THEN 1 ELSE 0)

StateOf(m) == IF m \in DOMAIN moves THEN moves[m].state ELSE "none"
Serves(c) == namespace[c].state = "active"

\* After a switch the new home starts to accept writes, unless its source is
\* retired first, and after a rollback the abandoned destination stops to.
PlacementConverges ==
    \A m \in 1..MaxMoves :
        /\ StateOf(m) = "switched" ~> Serves(account.cell) \/ StateOf(m) = "retiring"
        /\ (Len(moves) = m /\ StateOf(m) = "rolled_back") ~>
               (Len(moves) > m \/ \A c \in Cells \ {account.cell} : ~Serves(c))

\* What nothing but another operation can remove: the Account has changed since
\* the move was prepared, or an earlier rollback left the destination a namespace.
Blocked(m) ==
    /\ m \in DOMAIN moves
    /\ \/ account.version # moves[m].version
       \/ namespace[Destination(m)].generation \notin {0, DestinationGeneration(m)}

\* "Repeated calls converge on a switched move": whatever phases are interrupted,
\* repeated advancing places the Account, unless the move is blocked.
AdvanceConverges ==
    \A m \in 1..MaxMoves : (m \in DOMAIN moves) ~> (m \in Placed \/ Blocked(m))
===============================================================================
