------------------------ MODULE AccountMovementProofs ------------------------
(***************************************************************************)
(* Safety of AccountMovement for any number of cells, jobs, writes and     *)
(* moves, while operator jobs do not overlap: the types, that an Account   *)
(* has one writable cell, that a frozen namespace is drained, that the     *)
(* directory follows the move, and that moving implements the abstract     *)
(* AccountPlacement.                                                       *)
(*                                                                         *)
(* The strengthening follows the generations: every placement of the       *)
(* Account has a generation of its own, so a namespace of generation g     *)
(* names the one move that could have written it.                          *)
(***************************************************************************)
EXTENDS AccountMovement, SequenceTheorems, TLAPS

-------------------------------------------------------------------------------
(* The types                                                               *)

Unswitched == {"prepared", "drained", "copied", "ready"}
Rows == [Writes -> RowStates]
Move == [state : MoveStates, resume : Unswitched \cup {"none"}, source : Cells, destination : Cells,
         generation : Nat, version : Nat, digest : Rows, window : {"unset", "open", "over"},
         lease : Jobs \cup {NoLease, Orphan}, live : BOOLEAN]
Namespace == [generation : Generations, state : {"absent", "active", "moving"}]
Checkpoint == [state : {"none", "frozen", "staged", "copied", "active", "rollback_active", "retired"},
               generation : Generations]
Job == [call : Calls, move : Nat, seen : Rows]
Request == [stage : {"new", "routed", "admitted", "written"}, cell : Cells \cup {"none"}, generation : Nat]

GlobalTypes ==
    /\ account \in [cell : Cells, generation : Nat, version : Nat, state : {"active", "suspended"}]
    /\ directory \in {"active", "moving"}
    /\ assigned \in [Cells -> Nat]
    /\ moves \in Seq(Move)
    /\ faults \in 0..MaxFaults

CellTypes ==
    /\ namespace \in [Cells -> Namespace]
    /\ data \in [Cells -> Rows]
    /\ checkpoint \in [Cells -> [1..MaxMoves -> Checkpoint]]

ActorTypes ==
    /\ job \in [Jobs -> Job]
    /\ request \in [Writes -> Request]
    /\ \A w \in Writes : request[w].stage \in {"routed", "admitted"} => request[w].cell \in Cells

\* A paused record says where it resumes, a live lease has a holder, and a move
\* goes from one cell to another.
RecordsSane ==
    \A m \in DOMAIN moves :
        /\ (moves[m].state = "paused") = (moves[m].resume # "none")
        /\ moves[m].source # moves[m].destination
        /\ moves[m].live => moves[m].lease # NoLease

Types == GlobalTypes /\ CellTypes /\ ActorTypes /\ RecordsSane

-------------------------------------------------------------------------------
(* The history of the Account's placements                                 *)

Left == {"switched", "retiring", "completed"}

\* The generation of the Account once the move has got as far as it has.
After(m) ==
    IF Phase(m) = "rolled_back" THEN moves[m].generation + 2
    ELSE IF Phase(m) \in Left THEN moves[m].generation + 1 ELSE moves[m].generation

\* Only the last move is open, and every move starts where the one before ended.
History ==
    /\ Len(moves) <= MaxMoves
    /\ \A m \in DOMAIN moves : moves[m].generation \in 1..(2 * m - 1)
    /\ \A m, n \in DOMAIN moves : m < n => /\ Phase(m) \in {"completed", "rolled_back"}
                                           /\ After(m) <= moves[n].generation

\* The Account is where, and of the generation that, the last move left it.
Placing ==
    /\ Len(moves) = 0 => account.generation = 1
    /\ Len(moves) # 0 => /\ account.generation = After(Len(moves))
                         /\ account.cell = IF Phase(Len(moves)) \in Left
                                           THEN Destination(Len(moves)) ELSE Source(Len(moves))
    /\ account.generation <= account.version
    /\ account.version <= account.generation + MaxChanges

-------------------------------------------------------------------------------
(* The jobs                                                                *)

OneJob == \A j, k \in Jobs : job[j] # Idle /\ job[k] # Idle => j = k

Leased(j, states) == moves[job[j].move].lease = j /\ moves[job[j].move].state \in states

\* What a job that got to a call knows of its move, its lease included.
JobKnows(j) ==
    job[j].call # "idle" =>
        /\ job[j].move \in DOMAIN moves
        /\ job[j].call \in {"stage_source", "stage_destination", "drain"} => Leased(j, {"prepared"})
        /\ job[j].call \in {"read", "write", "compare", "record_source", "record_destination", "copy"}
               => Leased(j, {"drained"})
        /\ job[j].call \in {"match_source", "match_destination", "reconcile"} => Leased(j, {"copied"})
        /\ job[j].call = "switch" => Leased(j, {"ready"})
        /\ job[j].call \in {"rollback", "begin_retirement"} => Leased(j, {"switched"})
        /\ job[j].call \in {"retire", "complete"} => Leased(j, {"retiring"})
        /\ job[j].call = "activate" => moves[job[j].move].state = "switched"
        /\ job[j].call \in {"activate_source", "freeze_destination"} => moves[job[j].move].state = "rolled_back"

JobsKnow == OneJob /\ \A j \in Jobs : JobKnows(j)

\* A job between two calls of an operator works on no move.
AtRest == \A j \in Jobs : job[j].call = "idle" => job[j].move = 0

-------------------------------------------------------------------------------
(* The namespaces                                                          *)

Frozen(c, g) == namespace[c] = [generation |-> g, state |-> "moving"]

\* A move past its drain has both of its cells frozen, its source until the end
\* of the switch.
Staged ==
    /\ \A m \in DOMAIN moves :
           /\ Phase(m) \in {"drained", "copied", "ready", "switched"} => Frozen(Source(m), SourceGeneration(m))
           /\ Phase(m) \in {"drained", "copied", "ready"} => Frozen(Destination(m), DestinationGeneration(m))
    /\ \A j \in Jobs :
           LET m == job[j].move IN
           /\ job[j].call \in {"stage_destination", "drain"} => Frozen(Source(m), SourceGeneration(m))
           /\ job[j].call = "drain" => Frozen(Destination(m), DestinationGeneration(m))

\* A source a rollback has not yet activated is the home of the Account.
Undone ==
    \A m \in DOMAIN moves :
        Phase(m) = "rolled_back" /\ Frozen(Source(m), SourceGeneration(m)) =>
            account.cell = Source(m) /\ account.generation = RollbackGeneration(m)

\* Activating a destination is recorded in its checkpoint.
ActiveRecorded ==
    \A m \in DOMAIN moves :
        Phase(m) = "switched" /\ namespace[Destination(m)].state = "active" =>
            checkpoint[Destination(m)][m].state = "active"

Placements == Staged /\ Undone /\ ActiveRecorded /\ OneWritableCell

-------------------------------------------------------------------------------
(* The rows                                                                *)

Present(r) == {w \in Writes : r[w] # "absent"}

\* An absent namespace has no rows, and every row is of an acknowledged write.
RowsKnown ==
    \A c \in Cells : /\ namespace[c].state = "absent" => data[c] = NoRows /\ namespace[c].generation = 0
                     /\ Present(data[c]) \subseteq Acknowledged

\* What a copying job read is what the source holds, then the destination too.
SeenHolds ==
    \A j \in Jobs :
        LET m == job[j].move IN
        /\ job[j].call \in {"write", "compare", "record_source", "record_destination", "copy"}
               => job[j].seen = data[Source(m)]
        /\ job[j].call \in {"record_source", "record_destination", "copy"}
               => job[j].seen = data[Destination(m)]

\* The digest of a copied move is what both cells hold; after the switch the
\* destination may only have gained rows.
DigestHolds ==
    \A m \in DOMAIN moves :
        /\ Phase(m) \in {"copied", "ready", "switched"} => data[Source(m)] = moves[m].digest
        /\ Phase(m) \in {"copied", "ready"} => data[Destination(m)] = moves[m].digest
        /\ Phase(m) = "switched" => Present(moves[m].digest) \subseteq Present(data[Destination(m)])

RowsHold == RowsKnown /\ FrozenCellsDrained /\ SeenHolds /\ DigestHolds

MovementInvariant ==
    Types /\ History /\ Placing /\ JobsKnow /\ AtRest /\ Placements /\ RowsHold /\ DirectoryFollowsMove

-------------------------------------------------------------------------------
(***************************************************************************)
(* Reading and writing the rows                                            *)
(***************************************************************************)

\* Writing one record leaves the others alone.
Updates(m, r) ==
    /\ moves' \in Seq(Move) /\ Len(moves') = Len(moves) /\ DOMAIN moves' = DOMAIN moves
    /\ moves'[m] = r
    /\ \A n \in DOMAIN moves : n # m => moves'[n] = moves[n]

\* The value a write leaves in a record of the sequence of moves.
LEMMA RecordUpdate ==
    ASSUME moves \in Seq(Move), NEW m \in DOMAIN moves, NEW r \in Move, moves' = [moves EXCEPT ![m] = r]
    PROVE  Updates(m, r)
<1>1. moves' \in Seq(Move) /\ Len(moves') = Len(moves) /\ DOMAIN moves' = DOMAIN moves
  BY ExceptSeq, LenProperties
<1>2. moves'[m] = r /\ \A n \in DOMAIN moves : n # m => moves'[n] = moves[n]
  OBVIOUS
<1> QED
  BY <1>1, <1>2 DEF Updates

\* Every record of the sequence is a record, and its positions are numbers.
LEMMA Records ==
    ASSUME moves \in Seq(Move)
    PROVE  /\ Len(moves) \in Nat /\ DOMAIN moves = 1..Len(moves)
           /\ \A m \in DOMAIN moves : m \in Nat /\ m >= 1 /\ m <= Len(moves) /\ moves[m] \in Move
<1>1. Len(moves) \in Nat /\ DOMAIN moves = 1..Len(moves)
  BY LenProperties
<1>2. \A m \in 1..Len(moves) : moves[m] \in Move
  BY <1>1, ElementOfSeq
<1> QED
  BY <1>1, <1>2

\* A record of the sequence, field by field.
LEMMA RecordFields ==
    ASSUME moves \in Seq(Move), NEW m \in DOMAIN moves
    PROVE  /\ moves[m] \in Move
           /\ moves[m].state \in MoveStates /\ moves[m].resume \in Unswitched \cup {"none"}
           /\ moves[m].source \in Cells /\ moves[m].destination \in Cells
           /\ moves[m].generation \in Nat /\ moves[m].version \in Nat
           /\ moves[m].digest \in Rows /\ moves[m].window \in {"unset", "open", "over"}
           /\ moves[m].lease \in Jobs \cup {NoLease, Orphan} /\ moves[m].live \in BOOLEAN
<1>1. moves[m] \in Move
  BY Records
<1> QED
  BY <1>1 DEF Move

\* Appending a record.
LEMMA RecordAppend ==
    ASSUME moves \in Seq(Move), NEW r \in Move, moves' = Append(moves, r)
    PROVE  /\ moves' \in Seq(Move) /\ Len(moves') = Len(moves) + 1
           /\ DOMAIN moves' = 1..(Len(moves) + 1)
           /\ moves'[Len(moves) + 1] = r
           /\ \A n \in DOMAIN moves : n \in DOMAIN moves' /\ n # Len(moves) + 1 /\ moves'[n] = moves[n]
<1>1. /\ moves' \in Seq(Move) /\ Len(moves') = Len(moves) + 1
      /\ moves'[Len(moves) + 1] = r /\ \A n \in 1..Len(moves) : moves'[n] = moves[n]
  BY AppendProperties
<1>2. DOMAIN moves' = 1..(Len(moves) + 1)
  BY <1>1, LenProperties
<1> QED
  BY <1>1, <1>2, Records

\* The records a job that ends leaves behind.
LEMMA OrphanedRecords ==
    ASSUME moves \in Seq(Move), NEW j \in Jobs, moves' = Orphaned(j)
    PROVE  /\ moves' \in Seq(Move) /\ Len(moves') = Len(moves) /\ DOMAIN moves' = DOMAIN moves
           /\ \A m \in DOMAIN moves :
                 moves'[m] = IF moves[m].lease = j THEN [moves[m] EXCEPT !.lease = Orphan] ELSE moves[m]
<1>1. \A m \in DOMAIN moves :
         moves'[m] = IF moves[m].lease = j THEN [moves[m] EXCEPT !.lease = Orphan] ELSE moves[m]
  BY DEF Orphaned
<1>2. DOMAIN moves' = 1..Len(moves) /\ Len(moves) \in Nat
  BY Records DEF Orphaned
<1>3. \A m \in DOMAIN moves : moves'[m] \in Move
  <2> TAKE m \in DOMAIN moves
  <2>1. PICK r \in Move : r = moves[m]
    BY Records
  <2>2. [r EXCEPT !.lease = Orphan] \in Move
    BY <2>1 DEF Move
  <2> QED
    BY <1>1, <2>1, <2>2
<1>4. moves' \in [1..Len(moves) -> Move]
  <2>1. moves' = [m \in 1..Len(moves) |-> IF moves[m].lease = j THEN [moves[m] EXCEPT !.lease = Orphan] ELSE moves[m]]
    BY Records DEF Orphaned
  <2> QED
    BY <2>1, <1>3, <1>1, Records
<1>5. moves' \in Seq(Move)
  BY <1>4, <1>2, SeqDef
<1>6. Len(moves') = Len(moves)
  BY <1>5, <1>2, LenProperties
<1> QED
  BY <1>1, <1>2, <1>5, <1>6, Records

\* Where a step leaves the job that makes it.
JobAt(j, call, m, seen) ==
    /\ job' \in [Jobs -> Job]
    /\ job'[j].call = call /\ job'[j].move = m /\ job'[j].seen = seen
    /\ \A k \in Jobs : k # j => job'[k] = job[k]

\* The empty rows are rows.
LEMMA NoRowsAreRows == NoRows \in Rows
BY DEF NoRows, Rows, RowStates

\* The ways a job goes on.
LEMMA JobGoesOn ==
    ASSUME job \in [Jobs -> Job], NEW j \in Jobs
    PROVE  /\ \A m \in Nat, call \in Calls : GoTo(j, m, call) => JobAt(j, call, m, job[j].seen)
           /\ \A call \in Calls : Continue(j, call) => JobAt(j, call, job[j].move, job[j].seen)
           /\ End(j) => JobAt(j, "idle", 0, NoRows) /\ job'[j] = Idle
<1>1. PICK r \in Job : r = job[j]
  OBVIOUS
<1>2. \A m \in Nat, call \in Calls : GoTo(j, m, call) => JobAt(j, call, m, job[j].seen)
  <2> SUFFICES ASSUME NEW m \in Nat, NEW call \in Calls, GoTo(j, m, call) PROVE JobAt(j, call, m, job[j].seen)
    OBVIOUS
  <2> DEFINE q == [r EXCEPT !.call = call, !.move = m]
  <2>1. job' = [job EXCEPT ![j] = q]
    BY <1>1 DEF GoTo
  <2>2. q \in Job /\ q.call = call /\ q.move = m /\ q.seen = r.seen
    BY <1>1 DEF Job
  <2> HIDE DEF q
  <2> QED
    BY <1>1, <2>1, <2>2 DEF JobAt
<1>3. \A call \in Calls : Continue(j, call) => JobAt(j, call, job[j].move, job[j].seen)
  <2> SUFFICES ASSUME NEW call \in Calls, Continue(j, call) PROVE JobAt(j, call, job[j].move, job[j].seen)
    OBVIOUS
  <2> DEFINE q == [r EXCEPT !.call = call]
  <2>1. job' = [job EXCEPT ![j] = q]
    BY <1>1 DEF Continue
  <2>2. q \in Job /\ q.call = call /\ q.move = r.move /\ q.seen = r.seen
    BY <1>1 DEF Job
  <2> HIDE DEF q
  <2> QED
    BY <1>1, <2>1, <2>2 DEF JobAt
<1>4. End(j) => JobAt(j, "idle", 0, NoRows) /\ job'[j] = Idle
  <2>1. Idle \in Job
    BY NoRowsAreRows DEF Idle, Job, Calls
  <2>2. Idle.call = "idle" /\ Idle.move = 0 /\ Idle.seen = NoRows
    BY DEF Idle
  <2> QED
    BY <2>1, <2>2 DEF End, JobAt
<1> QED
  BY <1>2, <1>3, <1>4

\* A step keeps what a move is: its cells and its generation.
Fixed ==
    /\ moves' \in Seq(Move) /\ Len(moves') = Len(moves) /\ DOMAIN moves' = DOMAIN moves
    /\ \A m \in DOMAIN moves : /\ moves'[m].source = moves[m].source
                               /\ moves'[m].destination = moves[m].destination
                               /\ moves'[m].generation = moves[m].generation

\* A step that only pauses, resumes, leases or times moves.
Relabeled ==
    /\ Fixed /\ RecordsSane'
    /\ \A m \in DOMAIN moves : Phase(m)' = Phase(m) /\ moves'[m].digest = moves[m].digest

\* A step that advances one move and gives its lease back, or keeps it.
Advanced(m, to, digest, lease) ==
    /\ Fixed /\ RecordsSane' /\ m \in DOMAIN moves
    /\ moves'[m].state = to /\ Phase(m)' = to /\ moves'[m].digest = digest /\ moves'[m].lease = lease
    /\ \A n \in DOMAIN moves : n # m => moves'[n] = moves[n] /\ Phase(n)' = Phase(n)

\* Relabelling one record.
LEMMA RelabelOne ==
    ASSUME moves \in Seq(Move), RecordsSane, NEW m \in DOMAIN moves, NEW r \in Move,
           moves' = [moves EXCEPT ![m] = r],
           r.source = moves[m].source, r.destination = moves[m].destination,
           r.generation = moves[m].generation, r.digest = moves[m].digest,
           (IF r.state = "paused" THEN r.resume ELSE r.state) = Phase(m),
           (r.state = "paused") = (r.resume # "none"),
           r.live => r.lease # NoLease
    PROVE  Relabeled
<1>1. Updates(m, r)
  BY RecordUpdate
<1>2. Fixed
  BY <1>1 DEF Updates, Fixed
<1>3. RecordsSane'
  BY <1>1 DEF Updates, RecordsSane
<1>4. \A n \in DOMAIN moves : Phase(n)' = Phase(n) /\ moves'[n].digest = moves[n].digest
  BY <1>1 DEF Updates, Phase
<1> QED
  BY <1>2, <1>3, <1>4 DEF Relabeled

\* Advancing one record.
LEMMA AdvanceOne ==
    ASSUME moves \in Seq(Move), RecordsSane, NEW m \in DOMAIN moves, NEW r \in Move,
           moves' = [moves EXCEPT ![m] = r],
           r.source = moves[m].source, r.destination = moves[m].destination,
           r.generation = moves[m].generation,
           r.state # "paused", r.resume = "none", r.live => r.lease # NoLease
    PROVE  /\ Fixed /\ RecordsSane' /\ moves'[m] = r /\ Phase(m)' = r.state
           /\ \A n \in DOMAIN moves : n # m => moves'[n] = moves[n] /\ Phase(n)' = Phase(n)
<1>1. Updates(m, r)
  BY RecordUpdate
<1>2. Fixed
  BY <1>1 DEF Updates, Fixed
<1>3. RecordsSane'
  BY <1>1 DEF Updates, RecordsSane
<1>4. Phase(m)' = r.state /\ \A n \in DOMAIN moves : n # m => moves'[n] = moves[n] /\ Phase(n)' = Phase(n)
  BY <1>1 DEF Updates, Phase
<1> QED
  BY <1>1, <1>2, <1>3, <1>4 DEF Updates

\* A job that ends only relabels.
LEMMA OrphanRelabels ==
    ASSUME moves \in Seq(Move), RecordsSane, NEW j \in Jobs, moves' = Orphaned(j)
    PROVE  Relabeled
<1>1. /\ moves' \in Seq(Move) /\ Len(moves') = Len(moves) /\ DOMAIN moves' = DOMAIN moves
      /\ \A m \in DOMAIN moves :
            moves'[m] = IF moves[m].lease = j THEN [moves[m] EXCEPT !.lease = Orphan] ELSE moves[m]
  BY OrphanedRecords
<1>2. \A m \in DOMAIN moves :
         /\ moves'[m].source = moves[m].source /\ moves'[m].destination = moves[m].destination
         /\ moves'[m].generation = moves[m].generation /\ moves'[m].digest = moves[m].digest
         /\ moves'[m].state = moves[m].state /\ moves'[m].resume = moves[m].resume
         /\ moves'[m].live = moves[m].live
         /\ moves'[m].lease = moves[m].lease \/ moves'[m].lease = Orphan
  <2> TAKE m \in DOMAIN moves
  <2>1. PICK r \in Move : r = moves[m]
    BY Records
  <2>2. CASE moves'[m] = r
    BY <2>1, <2>2
  <2>3. CASE moves'[m] = [r EXCEPT !.lease = Orphan]
    BY <2>1, <2>3 DEF Move
  <2> QED
    BY <1>1, <2>1, <2>2, <2>3
<1>3. RecordsSane'
  BY <1>1, <1>2 DEF RecordsSane, Orphan, NoLease
<1> QED
  BY <1>1, <1>2, <1>3 DEF Relabeled, Fixed, Phase

-------------------------------------------------------------------------------
(***************************************************************************)
(* What each step does                                                     *)
(***************************************************************************)

\* What a job learns when its call is accepted.
LEMMA MakingMeans ==
    ASSUME NEW j
    PROVE  LET m == job[j].move IN
           /\ Making(j, "stage_source") => SourceStageable(m)
           /\ Making(j, "stage_destination") => DestinationStageable(m)
           /\ Making(j, "drain") => /\ Holds(j, m) /\ directory = "active"
                                    /\ account.cell = Source(m) /\ account.generation = SourceGeneration(m)
           /\ Making(j, "write") => CopyWritable(m)
           /\ Making(j, "compare") => data[Destination(m)] = job[j].seen
           /\ Making(j, "match_source") => data[Source(m)] = moves[m].digest
           /\ Making(j, "match_destination") => data[Destination(m)] = moves[m].digest
           /\ Making(j, "switch") => Switchable(m)
           /\ Making(j, "activate") =>
                 Activatable(Destination(m), m, DestinationGeneration(m), DestinationGeneration(m))
           /\ Making(j, "rollback") => Reversible(m)
           /\ Making(j, "activate_source") => Activatable(Source(m), m, SourceGeneration(m), RollbackGeneration(m))
           /\ Making(j, "freeze_destination") => DestinationFreezable(m)
           /\ Making(j, "retire") => SourceFrozen(m) \/ SourceRetired(m)
BY DEF Making, Accepted

\* The calls at which a job relies on nothing it did before.
FreshCalls == Calls \ {"stage_destination", "drain", "write", "compare", "record_source", "record_destination", "copy"}

\* A step that moves neither the Account, nor a namespace, nor a row.
Quiet ==
    /\ Relabeled
    /\ UNCHANGED <<account, directory, assigned, cellVars, request>>
    /\ faults' \in 0..MaxFaults
    /\ job' \in [Jobs -> Job]
    /\ \A k \in Jobs : job'[k] = job[k] \/ job'[k].call \in FreshCalls

\* Nothing is relabelled where no record changes.
LEMMA UnchangedRelabels ==
    ASSUME moves \in Seq(Move), RecordsSane, UNCHANGED moves
    PROVE  Relabeled
BY DEF Relabeled, Fixed, RecordsSane, Phase

\* Jobs that do nothing know as much as before, while their records last.
LEMMA JobsKept ==
    ASSUME Types, JobsKnow, UNCHANGED job, DOMAIN moves \subseteq DOMAIN moves',
           \A m \in DOMAIN moves : /\ moves[m].lease \in Jobs => /\ moves'[m].lease = moves[m].lease
                                                                 /\ moves'[m].state = moves[m].state
                                   /\ moves[m].state \in {"switched", "rolled_back"} => moves'[m].state = moves[m].state
    PROVE  JobsKnow'
<1>1. OneJob'
  BY DEF JobsKnow, OneJob
<1>2. ASSUME NEW j \in Jobs PROVE JobKnows(j)'
  <2>1. JobKnows(j)
    BY DEF JobsKnow
  <2> QED
    BY <2>1 DEF JobKnows, Leased
<1> QED
  BY <1>1, <1>2 DEF JobsKnow

\* While one job works, only that job has anything to know.
LEMMA OneJobKnows ==
    ASSUME Types, NEW j \in Jobs, \A k \in Jobs : k # j => job'[k] = Idle, JobKnows(j)'
    PROVE  JobsKnow'
<1>1. OneJob'
  BY DEF OneJob
<1>2. ASSUME NEW k \in Jobs, k # j PROVE JobKnows(k)'
  BY <1>2 DEF JobKnows, Idle
<1> QED
  BY <1>1, <1>2 DEF JobsKnow

\* The others are idle while a job works.
LEMMA OthersIdle ==
    ASSUME JobsKnow, NEW j \in Jobs, job[j].call # "idle"
    PROVE  \A k \in Jobs : k # j => job[k] = Idle
<1>1. job[j] # Idle
  BY DEF Idle
<1> QED
  BY <1>1 DEF JobsKnow, OneJob

\* pause only relabels.
LEMMA PauseQuiet ==
    ASSUME Types, JobsKnow, NEW m \in DOMAIN moves, Pause(m)
    PROVE  Quiet /\ JobsKnow'
<1> DEFINE r == [moves[m] EXCEPT !.state = "paused", !.resume = moves[m].state]
<1>0. moves \in Seq(Move) /\ RecordsSane /\ job \in [Jobs -> Job] /\ faults \in 0..MaxFaults
  BY DEF Types, GlobalTypes, ActorTypes
<1>1. moves' = [moves EXCEPT ![m] = r]
  BY <1>0, RecordFields DEF Pause, Move
<1>2. /\ r \in Move /\ r.source = moves[m].source /\ r.destination = moves[m].destination
      /\ r.generation = moves[m].generation /\ r.digest = moves[m].digest
      /\ r.state = "paused" /\ r.resume = moves[m].state /\ r.live = moves[m].live /\ r.lease = moves[m].lease
  BY <1>0, RecordFields DEF Pause, Move, MoveStates, Unswitched
<1>3. moves[m].state = Phase(m) /\ moves[m].state # "none" /\ moves[m].lease = NoLease /\ moves[m].state \in Unswitched
  BY DEF Pause, Phase, Unswitched
<1> HIDE DEF r
<1>4. Relabeled
  BY <1>0, <1>1, <1>2, <1>3, RelabelOne DEF RecordsSane
<1>5. Updates(m, r)
  BY <1>0, <1>1, <1>2, RecordUpdate
<1>6. UNCHANGED <<account, directory, assigned, cellVars, request, job, faults>>
  BY DEF Pause
<1>7. JobsKnow'
  BY <1>3, <1>5, <1>6, JobsKept, MovementAssumption DEF Updates, NoLease, Unswitched
<1> QED
  BY <1>0, <1>4, <1>6, <1>7 DEF Quiet

\* resume only relabels.
LEMMA ResumeQuiet ==
    ASSUME Types, JobsKnow, NEW m \in DOMAIN moves, Resume(m)
    PROVE  Quiet /\ JobsKnow'
<1> DEFINE r == [moves[m] EXCEPT !.state = moves[m].resume, !.resume = "none"]
<1>0. moves \in Seq(Move) /\ RecordsSane /\ job \in [Jobs -> Job] /\ faults \in 0..MaxFaults
  BY DEF Types, GlobalTypes, ActorTypes
<1>1. moves' = [moves EXCEPT ![m] = r]
  BY <1>0, RecordFields DEF Resume, Move
<1>3. /\ moves[m].resume = Phase(m) /\ moves[m].resume # "none" /\ moves[m].lease = NoLease
      /\ moves[m].state = "paused" /\ moves[m].resume \in Unswitched
  BY <1>0, RecordFields DEF Resume, Phase, RecordsSane
<1>2. /\ r \in Move /\ r.source = moves[m].source /\ r.destination = moves[m].destination
      /\ r.generation = moves[m].generation /\ r.digest = moves[m].digest
      /\ r.state = moves[m].resume /\ r.resume = "none" /\ r.live = moves[m].live /\ r.lease = moves[m].lease
  BY <1>0, <1>3, RecordFields DEF Resume, Move, MoveStates, Unswitched
<1> HIDE DEF r
<1>4. Relabeled
  BY <1>0, <1>1, <1>2, <1>3, RelabelOne DEF RecordsSane, Unswitched
<1>5. Updates(m, r)
  BY <1>0, <1>1, <1>2, RecordUpdate
<1>6. UNCHANGED <<account, directory, assigned, cellVars, request, job, faults>>
  BY DEF Resume
<1>7. JobsKnow'
  BY <1>3, <1>5, <1>6, JobsKept, MovementAssumption DEF Updates, NoLease
<1> QED
  BY <1>0, <1>4, <1>6, <1>7 DEF Quiet

\* A lease that runs out, or a window that closes, only relabels.
LEMMA TimeQuiet ==
    ASSUME Types, JobsKnow, NEW m \in DOMAIN moves, ExpireLease(m) \/ CloseWindow(m)
    PROVE  Quiet /\ JobsKnow'
<1>0. moves \in Seq(Move) /\ RecordsSane /\ job \in [Jobs -> Job] /\ faults \in 0..MaxFaults
  BY DEF Types, GlobalTypes, ActorTypes
<1>1. PICK r \in Move :
         /\ moves' = [moves EXCEPT ![m] = r] /\ r.source = moves[m].source /\ r.destination = moves[m].destination
         /\ r.generation = moves[m].generation /\ r.digest = moves[m].digest
         /\ r.state = moves[m].state /\ r.resume = moves[m].resume /\ r.lease = moves[m].lease
         /\ r.live => moves[m].live
  <2>1. CASE ExpireLease(m)
    <3> DEFINE r == [moves[m] EXCEPT !.live = FALSE]
    <3>1. moves' = [moves EXCEPT ![m] = r]
      BY <2>1, <1>0, RecordFields DEF ExpireLease, Move
    <3>2. /\ r \in Move /\ r.source = moves[m].source /\ r.destination = moves[m].destination
          /\ r.generation = moves[m].generation /\ r.digest = moves[m].digest
          /\ r.state = moves[m].state /\ r.resume = moves[m].resume /\ r.lease = moves[m].lease
          /\ r.live => moves[m].live
      BY <1>0, RecordFields DEF Move
    <3> QED
      BY <3>1, <3>2
  <2>2. CASE CloseWindow(m)
    <3> DEFINE r == [moves[m] EXCEPT !.window = "over"]
    <3>1. moves' = [moves EXCEPT ![m] = r]
      BY <2>2, <1>0, RecordFields DEF CloseWindow, Move
    <3>2. /\ r \in Move /\ r.source = moves[m].source /\ r.destination = moves[m].destination
          /\ r.generation = moves[m].generation /\ r.digest = moves[m].digest
          /\ r.state = moves[m].state /\ r.resume = moves[m].resume /\ r.lease = moves[m].lease
          /\ r.live => moves[m].live
      BY <1>0, RecordFields DEF Move
    <3> QED
      BY <3>1, <3>2
  <2> QED
    BY <2>1, <2>2
<1>4. Relabeled
  BY <1>0, <1>1, RelabelOne DEF RecordsSane, Phase
<1>5. Updates(m, r)
  BY <1>0, <1>1, RecordUpdate
<1>6. UNCHANGED <<account, directory, assigned, cellVars, request, job>> /\ faults' \in 0..MaxFaults
  BY <1>0, MovementAssumption DEF ExpireLease, CloseWindow
<1>7. JobsKnow'
  BY <1>1, <1>5, <1>6, JobsKept DEF Updates
<1> QED
  BY <1>0, <1>4, <1>6, <1>7 DEF Quiet

\* A job that is refused or dies only leaves its lease behind.
LEMMA EndingQuiet ==
    ASSUME Types, JobsKnow, NEW j \in Jobs, Refuse(j) \/ Abandon(j)
    PROVE  Quiet /\ JobsKnow'
<1>0. moves \in Seq(Move) /\ RecordsSane /\ job \in [Jobs -> Job] /\ faults \in 0..MaxFaults
  BY DEF Types, GlobalTypes, ActorTypes
<1>1. /\ job[j] # Idle /\ moves' = Orphaned(j) /\ End(j)
      /\ UNCHANGED <<account, directory, assigned, cellVars, request>> /\ faults' \in 0..MaxFaults
  BY <1>0, MovementAssumption DEF Refuse, Abandon
<1>2. Relabeled
  BY <1>0, <1>1, OrphanRelabels
<1>3. JobAt(j, "idle", 0, NoRows)
  BY <1>0, <1>1, JobGoesOn
<1>4. \A k \in Jobs : k # j => job'[k] = Idle
  BY <1>1, <1>3 DEF JobAt, JobsKnow, OneJob
<1>5. JobsKnow'
  BY <1>3, <1>4, OneJobKnows DEF JobAt, JobKnows
<1>6. "idle" \in FreshCalls
  BY DEF FreshCalls, Calls
<1> QED
  BY <1>1, <1>2, <1>3, <1>5, <1>6 DEF Quiet, JobAt

\* A job that claims a move only relabels, and knows what the claim returned.
LEMMA ClaimQuiet ==
    ASSUME Types, NEW j \in Jobs, NEW m \in DOMAIN moves, NEW call \in FreshCalls,
           \A k \in Jobs : job[k] = Idle, ClaimAndGo(j, m, call),
           \/ call = "stage_source" /\ moves[m].state = "prepared"
           \/ call = "read" /\ moves[m].state = "drained"
           \/ call = "match_source" /\ moves[m].state = "copied"
           \/ call = "switch" /\ moves[m].state = "ready"
           \/ call \in {"rollback", "begin_retirement"} /\ moves[m].state = "switched"
           \/ call = "retire" /\ moves[m].state = "retiring"
    PROVE  Quiet /\ JobsKnow'
<1> DEFINE r == [moves[m] EXCEPT !.lease = j, !.live = TRUE]
<1>0. moves \in Seq(Move) /\ RecordsSane /\ job \in [Jobs -> Job] /\ faults \in 0..MaxFaults
  BY DEF Types, GlobalTypes, ActorTypes
<1>1. moves' = [moves EXCEPT ![m] = r]
  BY <1>0, RecordFields DEF ClaimAndGo, Move
<1>2. /\ r \in Move /\ r.source = moves[m].source /\ r.destination = moves[m].destination
      /\ r.generation = moves[m].generation /\ r.digest = moves[m].digest
      /\ r.state = moves[m].state /\ r.resume = moves[m].resume /\ r.live = TRUE /\ r.lease = j
  BY <1>0, RecordFields DEF Move
<1>3. j # NoLease
  BY MovementAssumption DEF NoLease
<1> HIDE DEF r
<1>4. Relabeled
  BY <1>0, <1>1, <1>2, <1>3, RelabelOne DEF RecordsSane, Phase
<1>5. Updates(m, r)
  BY <1>0, <1>1, <1>2, RecordUpdate
<1>6. UNCHANGED <<account, directory, assigned, cellVars, request, faults>>
  BY DEF ClaimAndGo
<1>7. call \in Calls /\ m \in Nat
  BY <1>0, Records DEF FreshCalls
<1>8. JobAt(j, call, m, job[j].seen)
  BY <1>0, <1>7, JobGoesOn DEF ClaimAndGo
<1>9. JobKnows(j)'
  BY <1>2, <1>5, <1>8 DEF JobKnows, Leased, JobAt, Updates
<1>10. JobsKnow'
  BY <1>8, <1>9, OneJobKnows DEF JobAt
<1> QED
  BY <1>0, <1>4, <1>6, <1>8, <1>10 DEF Quiet, JobAt

\* Without a claim nothing but the job changes.
LEMMA StartQuiet ==
    ASSUME Types, NEW j \in Jobs, NEW m \in DOMAIN moves, NEW call \in FreshCalls,
           \A k \in Jobs : job[k] = Idle, GoTo(j, m, call), UNCHANGED <<globalVars, cellVars, request, faults>>,
           \/ call = "activate" /\ moves[m].state = "switched"
           \/ call = "activate_source" /\ moves[m].state = "rolled_back"
    PROVE  Quiet /\ JobsKnow'
<1>0. moves \in Seq(Move) /\ RecordsSane /\ job \in [Jobs -> Job] /\ faults \in 0..MaxFaults
  BY DEF Types, GlobalTypes, ActorTypes
<1>1. Relabeled
  BY <1>0, UnchangedRelabels DEF globalVars
<1>2. call \in Calls /\ m \in Nat
  BY <1>0, Records DEF FreshCalls
<1>3. JobAt(j, call, m, job[j].seen)
  BY <1>0, <1>2, JobGoesOn
<1>4. JobKnows(j)'
  BY <1>3 DEF JobKnows, Leased, JobAt, globalVars
<1>5. JobsKnow'
  BY <1>3, <1>4, OneJobKnows DEF JobAt
<1> QED
  BY <1>0, <1>1, <1>3, <1>5 DEF Quiet, JobAt, globalVars

\* However a job starts, it only relabels.
LEMMA StartsQuiet ==
    ASSUME OneJobAtATime, Types, JobsKnow, NEW j \in Jobs, Start(j)
    PROVE  Quiet /\ JobsKnow'
<1>0. moves \in Seq(Move) /\ RecordsSane /\ job \in [Jobs -> Job] /\ faults \in 0..MaxFaults
  BY DEF Types, GlobalTypes, ActorTypes
<1>1. PICK m \in DOMAIN moves : StartAdvance(j, m) \/ StartRollback(j, m) \/ StartRetire(j, m)
  BY DEF Start
<1>2. \A k \in Jobs : job[k] = Idle
  BY <1>1 DEF StartAdvance, StartRollback, StartRetire, MayStart
<1>3. /\ "activate" \in FreshCalls /\ "activate_source" \in FreshCalls /\ "rollback" \in FreshCalls
      /\ "begin_retirement" \in FreshCalls /\ "retire" \in FreshCalls /\ "stage_source" \in FreshCalls
      /\ "read" \in FreshCalls /\ "match_source" \in FreshCalls /\ "switch" \in FreshCalls
  BY DEF FreshCalls, Calls
<1>4. CASE /\ moves[m].state = "switched" /\ GoTo(j, m, "activate")
           /\ UNCHANGED <<globalVars, cellVars, request, faults>>
  BY <1>2, <1>3, <1>4, StartQuiet
<1>5. CASE /\ moves[m].state = "rolled_back" /\ GoTo(j, m, "activate_source")
           /\ UNCHANGED <<globalVars, cellVars, request, faults>>
  BY <1>2, <1>3, <1>5, StartQuiet
<1>6. CASE moves[m].state \in DOMAIN PhaseOf /\ ClaimAndGo(j, m, PhaseOf[moves[m].state])
  <2>1. \/ moves[m].state = "prepared" /\ PhaseOf[moves[m].state] = "stage_source"
        \/ moves[m].state = "drained" /\ PhaseOf[moves[m].state] = "read"
        \/ moves[m].state = "copied" /\ PhaseOf[moves[m].state] = "match_source"
        \/ moves[m].state = "ready" /\ PhaseOf[moves[m].state] = "switch"
    BY <1>6 DEF PhaseOf
  <2> QED
    BY <1>2, <1>3, <1>6, <2>1, ClaimQuiet
<1>7. CASE /\ moves[m].state = "retiring" /\ Claimable(m)
           /\ moves' = [moves EXCEPT ![m].lease = Orphan, ![m].live = TRUE]
           /\ UNCHANGED <<account, directory, assigned, cellVars, job, request, faults>>
  <2> DEFINE r == [moves[m] EXCEPT !.lease = Orphan, !.live = TRUE]
  <2>1. moves' = [moves EXCEPT ![m] = r]
    BY <1>0, <1>7, RecordFields DEF Move
  <2>2. /\ r \in Move /\ r.source = moves[m].source /\ r.destination = moves[m].destination
        /\ r.generation = moves[m].generation /\ r.digest = moves[m].digest
        /\ r.state = moves[m].state /\ r.resume = moves[m].resume /\ r.live = TRUE /\ r.lease = Orphan
    BY <1>0, RecordFields DEF Move
  <2> HIDE DEF r
  <2>3. Relabeled
    BY <1>0, <2>1, <2>2, RelabelOne DEF RecordsSane, Phase, Orphan, NoLease
  <2>4. JobsKnow'
    BY <1>2, <1>7 DEF JobsKnow, OneJob, JobKnows, Idle
  <2> QED
    BY <1>0, <1>7, <2>3, <2>4 DEF Quiet
<1>8. CASE moves[m].state = "switched" /\ ClaimAndGo(j, m, "rollback")
  BY <1>2, <1>3, <1>8, ClaimQuiet
<1>9. CASE moves[m].state = "switched" /\ ClaimAndGo(j, m, "begin_retirement")
  BY <1>2, <1>3, <1>9, ClaimQuiet
<1>10. CASE moves[m].state = "retiring" /\ ClaimAndGo(j, m, "retire")
  BY <1>2, <1>3, <1>10, ClaimQuiet
<1> QED
  BY <1>1, <1>4, <1>5, <1>6, <1>7, <1>8, <1>9, <1>10 DEF StartAdvance, StartRollback, StartRetire

-------------------------------------------------------------------------------
(* The calls of a job                                                      *)

\* A job makes a call about a move in the state the call is made in.
Works(j, m, call, state) ==
    /\ job[j].call = call /\ job[j].move = m /\ m \in DOMAIN moves
    /\ moves[m].state = state /\ Phase(m) = state
    /\ \A k \in Jobs : k # j => job[k] = Idle /\ job'[k] = Idle

\* The state of the move a job works on, and that the job is alone.
LEMMA Working ==
    ASSUME Types, JobsKnow, NEW j \in Jobs, \A k \in Jobs : k # j => job'[k] = job[k]
    PROVE  LET m == job[j].move IN
           /\ job[j].call \in {"stage_source", "stage_destination", "drain"} =>
                 Works(j, m, job[j].call, "prepared") /\ moves[m].lease = j
           /\ job[j].call \in {"read", "write", "compare", "record_source", "record_destination", "copy"} =>
                 Works(j, m, job[j].call, "drained") /\ moves[m].lease = j
           /\ job[j].call \in {"match_source", "match_destination", "reconcile"} =>
                 Works(j, m, job[j].call, "copied") /\ moves[m].lease = j
           /\ job[j].call = "switch" => Works(j, m, "switch", "ready") /\ moves[m].lease = j
           /\ job[j].call \in {"rollback", "begin_retirement"} =>
                 Works(j, m, job[j].call, "switched") /\ moves[m].lease = j
           /\ job[j].call \in {"retire", "complete"} => Works(j, m, job[j].call, "retiring") /\ moves[m].lease = j
           /\ job[j].call = "activate" => Works(j, m, "activate", "switched")
           /\ job[j].call \in {"activate_source", "freeze_destination"} =>
                 Works(j, m, job[j].call, "rolled_back")
<1>1. JobKnows(j)
  BY DEF JobsKnow
<1>2. job[j].call # "idle" => \A k \in Jobs : k # j => job[k] = Idle /\ job'[k] = Idle
  BY OthersIdle
<1> QED
  BY <1>1, <1>2 DEF JobKnows, Leased, Works, Phase

\* stage_source freezes the source.
LEMMA StageSourceDoes ==
    ASSUME Types, JobsKnow, NEW j \in Jobs, StageSource(j)
    PROVE  LET m == job[j].move IN
           /\ Works(j, m, "stage_source", "prepared") /\ JobAt(j, "stage_destination", m, job[j].seen)
           /\ JobsKnow' /\ SourceStageable(m)
           /\ namespace' = [namespace EXCEPT ![Source(m)] = [generation |-> SourceGeneration(m), state |-> "moving"]]
           /\ checkpoint' = [checkpoint EXCEPT ![Source(m)][m] = [state |-> "frozen", generation |-> SourceGeneration(m)]]
           /\ UNCHANGED <<globalVars, data, request, faults>>
<1> DEFINE m == job[j].move
<1>0. /\ moves \in Seq(Move) /\ RecordsSane /\ job \in [Jobs -> Job] /\ namespace \in [Cells -> Namespace]
      /\ checkpoint \in [Cells -> [1..MaxMoves -> Checkpoint]] /\ data \in [Cells -> Rows]
  BY DEF Types, GlobalTypes, ActorTypes, CellTypes
<1>1. Making(j, "stage_source") /\ job[j].call = "stage_source"
  BY DEF StageSource, Making
<1>2. JobAt(j, "stage_destination", m, job[j].seen)
  BY <1>0, JobGoesOn DEF StageSource, Calls
<1>3. Works(j, m, "stage_source", "prepared") /\ moves[m].lease = j
  BY <1>1, <1>2, Working DEF JobAt
<1>4. SourceStageable(m)
  BY <1>1, MakingMeans
<1>5. m \in DOMAIN moves /\ Source(m) \in Cells /\ Destination(m) \in Cells
  BY <1>0, <1>3, RecordFields DEF Works, Source, Destination
<1>6. JobsKnow'
  <2>1. UNCHANGED moves
    BY DEF StageSource, globalVars
  <2>2. JobKnows(j)'
    BY <1>2, <1>3, <1>5, <2>1 DEF JobAt, Works, JobKnows, Leased
  <2> QED
    BY <1>2, <1>3, <2>2, OneJobKnows DEF JobAt, Works
<1>7. namespace' = [namespace EXCEPT ![Source(m)] = [generation |-> SourceGeneration(m), state |-> "moving"]]
  <2>1. PICK n \in Namespace : n = namespace[Source(m)]
    BY <1>0, <1>5
  <2>2. n.generation = SourceGeneration(m)
    BY <1>4, <2>1 DEF SourceStageable
  <2>3. [n EXCEPT !.state = "moving"] = [generation |-> SourceGeneration(m), state |-> "moving"]
    BY <2>1, <2>2 DEF Namespace
  <2>4. namespace' = [namespace EXCEPT ![Source(m)] = [n EXCEPT !.state = "moving"]]
    BY <2>1 DEF StageSource
  <2> QED
    BY <2>3, <2>4
<1> QED
  BY <1>0, <1>2, <1>3, <1>4, <1>5, <1>6, <1>7 DEF StageSource

\* stage_destination creates a frozen namespace.
LEMMA StageDestinationDoes ==
    ASSUME Types, JobsKnow, NEW j \in Jobs, StageDestination(j)
    PROVE  LET m == job[j].move IN
           /\ Works(j, m, "stage_destination", "prepared") /\ JobAt(j, "drain", m, job[j].seen) /\ JobsKnow'
           /\ DestinationStageable(m)
           /\ namespace' = [namespace EXCEPT ![Destination(m)] = [generation |-> DestinationGeneration(m), state |-> "moving"]]
           /\ checkpoint' = [checkpoint EXCEPT ![Destination(m)][m] = [state |-> "staged", generation |-> DestinationGeneration(m)]]
           /\ UNCHANGED <<globalVars, data, request, faults>>
<1> DEFINE m == job[j].move
<1>0. /\ moves \in Seq(Move) /\ RecordsSane /\ job \in [Jobs -> Job] /\ namespace \in [Cells -> Namespace]
      /\ checkpoint \in [Cells -> [1..MaxMoves -> Checkpoint]] /\ data \in [Cells -> Rows]
  BY DEF Types, GlobalTypes, ActorTypes, CellTypes
<1>1. Making(j, "stage_destination") /\ job[j].call = "stage_destination"
  BY DEF StageDestination, Making
<1>2. JobAt(j, "drain", m, job[j].seen)
  BY <1>0, JobGoesOn DEF StageDestination, Calls
<1>3. Works(j, m, "stage_destination", "prepared") /\ moves[m].lease = j
  BY <1>1, <1>2, Working DEF JobAt
<1>4. DestinationStageable(m)
  BY <1>1, MakingMeans
<1>5. m \in DOMAIN moves /\ Source(m) \in Cells /\ Destination(m) \in Cells
  BY <1>0, <1>3, RecordFields DEF Works, Source, Destination
<1>6. JobsKnow'
  <2>1. UNCHANGED moves
    BY DEF StageDestination, globalVars
  <2>2. JobKnows(j)'
    BY <1>2, <1>3, <1>5, <2>1 DEF JobAt, Works, JobKnows, Leased
  <2> QED
    BY <1>2, <1>3, <2>2, OneJobKnows DEF JobAt, Works
<1> QED
  BY <1>0, <1>2, <1>3, <1>4, <1>5, <1>6 DEF StageDestination

\* write replaces the rows of the destination.
LEMMA WriteDestinationDoes ==
    ASSUME Types, JobsKnow, NEW j \in Jobs, WriteDestination(j)
    PROVE  LET m == job[j].move IN
           /\ Works(j, m, "write", "drained") /\ JobAt(j, "compare", m, job[j].seen) /\ JobsKnow' /\ CopyWritable(m)
           /\ data' = [data EXCEPT ![Destination(m)] = job[j].seen]
           /\ UNCHANGED <<globalVars, namespace, checkpoint, request, faults>>
<1> DEFINE m == job[j].move
<1>0. /\ moves \in Seq(Move) /\ RecordsSane /\ job \in [Jobs -> Job] /\ namespace \in [Cells -> Namespace]
      /\ checkpoint \in [Cells -> [1..MaxMoves -> Checkpoint]] /\ data \in [Cells -> Rows]
  BY DEF Types, GlobalTypes, ActorTypes, CellTypes
<1>1. Making(j, "write") /\ job[j].call = "write"
  BY DEF WriteDestination, Making
<1>2. JobAt(j, "compare", m, job[j].seen)
  BY <1>0, JobGoesOn DEF WriteDestination, Calls
<1>3. Works(j, m, "write", "drained") /\ moves[m].lease = j
  BY <1>1, <1>2, Working DEF JobAt
<1>4. CopyWritable(m)
  BY <1>1, MakingMeans
<1>5. m \in DOMAIN moves /\ Source(m) \in Cells /\ Destination(m) \in Cells
  BY <1>0, <1>3, RecordFields DEF Works, Source, Destination
<1>6. JobsKnow'
  <2>1. UNCHANGED moves
    BY DEF WriteDestination, globalVars
  <2>2. JobKnows(j)'
    BY <1>2, <1>3, <1>5, <2>1 DEF JobAt, Works, JobKnows, Leased
  <2> QED
    BY <1>2, <1>3, <2>2, OneJobKnows DEF JobAt, Works
<1> QED
  BY <1>0, <1>2, <1>3, <1>4, <1>5, <1>6 DEF WriteDestination

\* compare reads the destination back.
LEMMA CompareCopyDoes ==
    ASSUME Types, JobsKnow, NEW j \in Jobs, CompareCopy(j)
    PROVE  LET m == job[j].move IN
           /\ Works(j, m, "compare", "drained") /\ JobAt(j, "record_source", m, job[j].seen) /\ JobsKnow'
           /\ data[Destination(m)] = job[j].seen

           /\ UNCHANGED <<globalVars, cellVars, request, faults>>
<1> DEFINE m == job[j].move
<1>0. /\ moves \in Seq(Move) /\ RecordsSane /\ job \in [Jobs -> Job] /\ namespace \in [Cells -> Namespace]
      /\ checkpoint \in [Cells -> [1..MaxMoves -> Checkpoint]] /\ data \in [Cells -> Rows]
  BY DEF Types, GlobalTypes, ActorTypes, CellTypes
<1>1. Making(j, "compare") /\ job[j].call = "compare"
  BY DEF CompareCopy, Making
<1>2. JobAt(j, "record_source", m, job[j].seen)
  BY <1>0, JobGoesOn DEF CompareCopy, Calls
<1>3. Works(j, m, "compare", "drained") /\ moves[m].lease = j
  BY <1>1, <1>2, Working DEF JobAt
<1>4. data[Destination(m)] = job[j].seen
  BY <1>1, MakingMeans
<1>5. m \in DOMAIN moves /\ Source(m) \in Cells /\ Destination(m) \in Cells
  BY <1>0, <1>3, RecordFields DEF Works, Source, Destination
<1>6. JobsKnow'
  <2>1. UNCHANGED moves
    BY DEF CompareCopy, globalVars
  <2>2. JobKnows(j)'
    BY <1>2, <1>3, <1>5, <2>1 DEF JobAt, Works, JobKnows, Leased
  <2> QED
    BY <1>2, <1>3, <2>2, OneJobKnows DEF JobAt, Works
<1> QED
  BY <1>0, <1>2, <1>3, <1>4, <1>5, <1>6 DEF CompareCopy

\* activate opens the destination.
LEMMA ActivateDestinationDoes ==
    ASSUME Types, JobsKnow, NEW j \in Jobs, ActivateDestination(j)
    PROVE  LET m == job[j].move IN
           /\ Works(j, m, "activate", "switched") /\ JobAt(j, "idle", 0, NoRows) /\ JobsKnow'
           /\ Activatable(Destination(m), m, DestinationGeneration(m), DestinationGeneration(m))
           /\ namespace' = [namespace EXCEPT ![Destination(m)] = [generation |-> DestinationGeneration(m), state |-> "active"]]
           /\ checkpoint' = [checkpoint EXCEPT ![Destination(m)][m] = [state |-> "active", generation |-> DestinationGeneration(m)]]
           /\ UNCHANGED <<globalVars, data, request, faults>>
<1> DEFINE m == job[j].move
<1>0. /\ moves \in Seq(Move) /\ RecordsSane /\ job \in [Jobs -> Job] /\ namespace \in [Cells -> Namespace]
      /\ checkpoint \in [Cells -> [1..MaxMoves -> Checkpoint]] /\ data \in [Cells -> Rows]
  BY DEF Types, GlobalTypes, ActorTypes, CellTypes
<1>1. Making(j, "activate") /\ job[j].call = "activate"
  BY DEF ActivateDestination, Making
<1>2. JobAt(j, "idle", 0, NoRows)
  BY <1>0, JobGoesOn DEF ActivateDestination, Calls
<1>3. Works(j, m, "activate", "switched")
  BY <1>1, <1>2, Working DEF JobAt
<1>4. Activatable(Destination(m), m, DestinationGeneration(m), DestinationGeneration(m))
  BY <1>1, MakingMeans
<1>5. m \in DOMAIN moves /\ Source(m) \in Cells /\ Destination(m) \in Cells
  BY <1>0, <1>3, RecordFields DEF Works, Source, Destination
<1>6. JobsKnow'
  <2>1. UNCHANGED moves
    BY DEF ActivateDestination, globalVars
  <2>2. JobKnows(j)'
    BY <1>2, <1>3, <1>5, <2>1 DEF JobAt, Works, JobKnows, Leased
  <2> QED
    BY <1>2, <1>3, <2>2, OneJobKnows DEF JobAt, Works
<1> QED
  BY <1>0, <1>2, <1>3, <1>4, <1>5, <1>6 DEF ActivateDestination

\* activate_source opens the retained source.
LEMMA ActivateSourceDoes ==
    ASSUME Types, JobsKnow, NEW j \in Jobs, ActivateSource(j)
    PROVE  LET m == job[j].move IN
           /\ Works(j, m, "activate_source", "rolled_back")
           /\ JobAt(j, "freeze_destination", m, job[j].seen) /\ JobsKnow'
           /\ Activatable(Source(m), m, SourceGeneration(m), RollbackGeneration(m))
           /\ namespace' = [namespace EXCEPT ![Source(m)] = [generation |-> RollbackGeneration(m), state |-> "active"]]
           /\ checkpoint' = [checkpoint EXCEPT ![Source(m)][m] = [state |-> "rollback_active", generation |-> RollbackGeneration(m)]]
           /\ UNCHANGED <<globalVars, data, request, faults>>
<1> DEFINE m == job[j].move
<1>0. /\ moves \in Seq(Move) /\ RecordsSane /\ job \in [Jobs -> Job] /\ namespace \in [Cells -> Namespace]
      /\ checkpoint \in [Cells -> [1..MaxMoves -> Checkpoint]] /\ data \in [Cells -> Rows]
  BY DEF Types, GlobalTypes, ActorTypes, CellTypes
<1>1. Making(j, "activate_source") /\ job[j].call = "activate_source"
  BY DEF ActivateSource, Making
<1>2. JobAt(j, "freeze_destination", m, job[j].seen)
  BY <1>0, JobGoesOn DEF ActivateSource, Calls
<1>3. Works(j, m, "activate_source", "rolled_back")
  BY <1>1, <1>2, Working DEF JobAt
<1>4. Activatable(Source(m), m, SourceGeneration(m), RollbackGeneration(m))
  BY <1>1, MakingMeans
<1>5. m \in DOMAIN moves /\ Source(m) \in Cells /\ Destination(m) \in Cells
  BY <1>0, <1>3, RecordFields DEF Works, Source, Destination
<1>6. JobsKnow'
  <2>1. UNCHANGED moves
    BY DEF ActivateSource, globalVars
  <2>2. JobKnows(j)'
    BY <1>2, <1>3, <1>5, <2>1 DEF JobAt, Works, JobKnows, Leased
  <2> QED
    BY <1>2, <1>3, <2>2, OneJobKnows DEF JobAt, Works
<1> QED
  BY <1>0, <1>2, <1>3, <1>4, <1>5, <1>6 DEF ActivateSource

\* freeze_destination closes the abandoned destination.
LEMMA FreezeDestinationDoes ==
    ASSUME Types, JobsKnow, NEW j \in Jobs, FreezeDestination(j)
    PROVE  LET m == job[j].move IN
           /\ Works(j, m, "freeze_destination", "rolled_back") /\ JobAt(j, "idle", 0, NoRows) /\ JobsKnow'
           /\ DestinationFreezable(m)
           /\ namespace' = [namespace EXCEPT ![Destination(m)] = [generation |-> DestinationGeneration(m), state |-> "moving"]]
           /\ checkpoint' = [checkpoint EXCEPT ![Destination(m)][m].state = "frozen"]
           /\ UNCHANGED <<globalVars, data, request, faults>>
<1> DEFINE m == job[j].move
<1>0. /\ moves \in Seq(Move) /\ RecordsSane /\ job \in [Jobs -> Job] /\ namespace \in [Cells -> Namespace]
      /\ checkpoint \in [Cells -> [1..MaxMoves -> Checkpoint]] /\ data \in [Cells -> Rows]
  BY DEF Types, GlobalTypes, ActorTypes, CellTypes
<1>1. Making(j, "freeze_destination") /\ job[j].call = "freeze_destination"
  BY DEF FreezeDestination, Making
<1>2. JobAt(j, "idle", 0, NoRows)
  BY <1>0, JobGoesOn DEF FreezeDestination, Calls
<1>3. Works(j, m, "freeze_destination", "rolled_back")
  BY <1>1, <1>2, Working DEF JobAt
<1>4. DestinationFreezable(m)
  BY <1>1, MakingMeans
<1>5. m \in DOMAIN moves /\ Source(m) \in Cells /\ Destination(m) \in Cells
  BY <1>0, <1>3, RecordFields DEF Works, Source, Destination
<1>6. JobsKnow'
  <2>1. UNCHANGED moves
    BY DEF FreezeDestination, globalVars
  <2>2. JobKnows(j)'
    BY <1>2, <1>3, <1>5, <2>1 DEF JobAt, Works, JobKnows, Leased
  <2> QED
    BY <1>2, <1>3, <2>2, OneJobKnows DEF JobAt, Works
<1>7. namespace' = [namespace EXCEPT ![Destination(m)] = [generation |-> DestinationGeneration(m), state |-> "moving"]]
  <2>1. PICK n \in Namespace : n = namespace[Destination(m)]
    BY <1>0, <1>5
  <2>2. n.generation = DestinationGeneration(m)
    BY <1>4, <2>1 DEF DestinationFreezable
  <2>3. [n EXCEPT !.state = "moving"] = [generation |-> DestinationGeneration(m), state |-> "moving"]
    BY <2>1, <2>2 DEF Namespace
  <2>4. namespace' = [namespace EXCEPT ![Destination(m)] = [n EXCEPT !.state = "moving"]]
    BY <2>1 DEF FreezeDestination
  <2> QED
    BY <2>3, <2>4
<1> QED
  BY <1>0, <1>2, <1>3, <1>4, <1>5, <1>6, <1>7 DEF FreezeDestination

\* retire deletes the source, once.
LEMMA RetireSourceDoes ==
    ASSUME Types, JobsKnow, NEW j \in Jobs, RetireSource(j)
    PROVE  LET m == job[j].move IN
           /\ Works(j, m, "retire", "retiring") /\ JobAt(j, "complete", m, job[j].seen) /\ JobsKnow'
           /\ \/ UNCHANGED cellVars
              \/ /\ namespace' = [namespace EXCEPT ![Source(m)] = NoNamespace]
                 /\ data' = [data EXCEPT ![Source(m)] = NoRows]
                 /\ checkpoint' = [checkpoint EXCEPT ![Source(m)][m].state = "retired"]
           /\ UNCHANGED <<globalVars, request, faults>>
<1> DEFINE m == job[j].move
<1>0. /\ moves \in Seq(Move) /\ RecordsSane /\ job \in [Jobs -> Job] /\ namespace \in [Cells -> Namespace]
      /\ checkpoint \in [Cells -> [1..MaxMoves -> Checkpoint]] /\ data \in [Cells -> Rows]
  BY DEF Types, GlobalTypes, ActorTypes, CellTypes
<1>1. Making(j, "retire") /\ job[j].call = "retire"
  BY DEF RetireSource, Making
<1>2. JobAt(j, "complete", m, job[j].seen)
  BY <1>0, JobGoesOn DEF RetireSource, Calls
<1>3. Works(j, m, "retire", "retiring") /\ moves[m].lease = j
  BY <1>1, <1>2, Working DEF JobAt
<1>4. TRUE
  BY <1>1, MakingMeans
<1>5. m \in DOMAIN moves /\ Source(m) \in Cells /\ Destination(m) \in Cells
  BY <1>0, <1>3, RecordFields DEF Works, Source, Destination
<1>6. JobsKnow'
  <2>1. UNCHANGED moves
    BY DEF RetireSource, globalVars
  <2>2. JobKnows(j)'
    BY <1>2, <1>3, <1>5, <2>1 DEF JobAt, Works, JobKnows, Leased
  <2> QED
    BY <1>2, <1>3, <2>2, OneJobKnows DEF JobAt, Works
<1> QED
  BY <1>0, <1>2, <1>3, <1>4, <1>5, <1>6 DEF RetireSource

\* read takes a snapshot of the source.
LEMMA ReadSourceDoes ==
    ASSUME Types, JobsKnow, NEW j \in Jobs, ReadSource(j)
    PROVE  LET m == job[j].move IN
           /\ Works(j, m, "read", "drained") /\ JobAt(j, "write", m, data[Source(m)]) /\ JobsKnow'
           /\ UNCHANGED <<globalVars, cellVars, request, faults>>
<1> DEFINE m == job[j].move
<1>0. /\ moves \in Seq(Move) /\ RecordsSane /\ job \in [Jobs -> Job] /\ faults \in 0..MaxFaults
      /\ data \in [Cells -> Rows]
  BY DEF Types, GlobalTypes, ActorTypes, CellTypes
<1>1. job[j].call = "read" /\ job' = [job EXCEPT ![j].call = "write", ![j].seen = data[Source(m)]]
  BY DEF ReadSource, Making
<1>2. JobKnows(j)
  BY DEF JobsKnow
<1>3. m \in DOMAIN moves /\ Source(m) \in Cells
  BY <1>0, <1>1, <1>2, RecordFields DEF JobKnows, Source
<1>4. JobAt(j, "write", m, data[Source(m)])
  <2>1. PICK r \in Job : r = job[j]
    BY <1>0
  <2>2. PICK d \in Rows : d = data[Source(m)]
    BY <1>0, <1>3
  <2> DEFINE q == [r EXCEPT !.call = "write", !.seen = d]
  <2>3. job' = [job EXCEPT ![j] = q]
    BY <1>1, <2>1, <2>2
  <2>4. q \in Job /\ q.call = "write" /\ q.move = r.move /\ q.seen = d
    BY <2>1, <2>2 DEF Job, Calls
  <2> HIDE DEF q
  <2> QED
    BY <1>0, <2>1, <2>2, <2>3, <2>4 DEF JobAt
<1>5. Works(j, m, "read", "drained") /\ moves[m].lease = j
  BY <1>1, <1>4, Working DEF JobAt
<1>6. UNCHANGED <<globalVars, cellVars, request, faults>>
  BY DEF ReadSource
<1>7. JobKnows(j)'
  BY <1>3, <1>4, <1>5, <1>6 DEF JobAt, Works, JobKnows, Leased, globalVars
<1>8. JobsKnow'
  BY <1>4, <1>5, <1>7, OneJobKnows DEF JobAt, Works
<1> QED
  BY <1>4, <1>5, <1>6, <1>8

\* Recording the evidence marks a checkpoint of the move.
LEMMA RecordEvidenceDoes ==
    ASSUME Types, JobsKnow, NEW j \in Jobs, RecordEvidence(j)
    PROVE  LET m == job[j].move IN
           /\ \/ Works(j, m, "record_source", "drained") /\ JobAt(j, "record_destination", m, job[j].seen)
              \/ Works(j, m, "record_destination", "drained") /\ JobAt(j, "copy", m, job[j].seen)
           /\ JobsKnow'
           /\ \E c \in Cells : checkpoint' = [checkpoint EXCEPT ![c][m].state = "copied"]
           /\ UNCHANGED <<globalVars, namespace, data, request, faults>>
<1> DEFINE m == job[j].move
<1>0. /\ moves \in Seq(Move) /\ RecordsSane /\ job \in [Jobs -> Job] /\ faults \in 0..MaxFaults
      /\ data \in [Cells -> Rows]
  BY DEF Types, GlobalTypes, ActorTypes, CellTypes
<1>1. \/ job[j].call = "record_source" /\ Continue(j, "record_destination")
      \/ job[j].call = "record_destination" /\ Continue(j, "copy")
  BY DEF RecordEvidence, Making
<1>2. \/ job[j].call = "record_source" /\ JobAt(j, "record_destination", m, job[j].seen)
      \/ job[j].call = "record_destination" /\ JobAt(j, "copy", m, job[j].seen)
  BY <1>0, <1>1, JobGoesOn DEF Calls
<1>3. Works(j, m, job[j].call, "drained") /\ moves[m].lease = j
  BY <1>2, Working DEF JobAt
<1>4. m \in DOMAIN moves /\ Source(m) \in Cells /\ Destination(m) \in Cells
  BY <1>0, <1>3, RecordFields DEF Works, Source, Destination
<1>5. UNCHANGED <<globalVars, namespace, data, request, faults>>
  BY DEF RecordEvidence
<1>6. JobKnows(j)'
  BY <1>2, <1>3, <1>4, <1>5 DEF JobAt, Works, JobKnows, Leased, globalVars
<1>7. JobsKnow'
  BY <1>2, <1>3, <1>6, OneJobKnows DEF JobAt, Works
<1>8. \E c \in Cells : checkpoint' = [checkpoint EXCEPT ![c][m].state = "copied"]
  BY <1>4 DEF RecordEvidence
<1> QED
  BY <1>2, <1>3, <1>5, <1>7, <1>8

\* Matching the evidence changes nothing but the job.
LEMMA MatchEvidenceQuiet ==
    ASSUME Types, JobsKnow, NEW j \in Jobs, MatchEvidence(j)
    PROVE  Quiet /\ JobsKnow'
<1> DEFINE m == job[j].move
<1>0. /\ moves \in Seq(Move) /\ RecordsSane /\ job \in [Jobs -> Job] /\ faults \in 0..MaxFaults
      /\ data \in [Cells -> Rows]
  BY DEF Types, GlobalTypes, ActorTypes, CellTypes
<1>1. \/ job[j].call = "match_source" /\ Continue(j, "match_destination")
      \/ job[j].call = "match_destination" /\ Continue(j, "reconcile")
  BY DEF MatchEvidence, Making
<1>2. \/ job[j].call = "match_source" /\ JobAt(j, "match_destination", m, job[j].seen)
      \/ job[j].call = "match_destination" /\ JobAt(j, "reconcile", m, job[j].seen)
  BY <1>0, <1>1, JobGoesOn DEF Calls
<1>3. Works(j, m, job[j].call, "copied") /\ moves[m].lease = j
  BY <1>2, Working DEF JobAt
<1>5. UNCHANGED <<globalVars, cellVars, request, faults>>
  BY DEF MatchEvidence
<1>6. JobKnows(j)'
  BY <1>2, <1>3, <1>5 DEF JobAt, Works, JobKnows, Leased, globalVars
<1>7. JobsKnow'
  BY <1>2, <1>3, <1>6, OneJobKnows DEF JobAt, Works
<1>8. Relabeled
  BY <1>0, <1>5, UnchangedRelabels DEF globalVars
<1>9. "match_destination" \in FreshCalls /\ "reconcile" \in FreshCalls
  BY DEF FreshCalls, Calls
<1> QED
  BY <1>0, <1>2, <1>5, <1>7, <1>8, <1>9 DEF Quiet, JobAt, globalVars

\* Giving a lease back, as a record.
LEMMA ReleasedRecord ==
    ASSUME moves \in Seq(Move), NEW m \in DOMAIN moves, NEW s \in MoveStates
    PROVE  LET r == Released(m, s) IN
           /\ r \in Move /\ r.state = s /\ r.resume = moves[m].resume
           /\ r.source = moves[m].source /\ r.destination = moves[m].destination
           /\ r.generation = moves[m].generation /\ r.digest = moves[m].digest
           /\ r.lease = NoLease /\ r.live = FALSE
<1>1. PICK q \in Move : q = moves[m]
  BY Records
<1> QED
  BY <1>1 DEF Released, Move

\* drain closes the directory.
LEMMA DrainDoes ==
    ASSUME Types, JobsKnow, NEW j \in Jobs, Drain(j)
    PROVE  \E m \in DOMAIN moves :
           /\ Works(j, m, "drain", "prepared") /\ JobAt(j, "idle", 0, NoRows) /\ JobsKnow'
           /\ Advanced(m, "drained", moves[m].digest, NoLease)
           /\ directory = "active" /\ account.cell = Source(m) /\ account.generation = SourceGeneration(m)
           /\ directory' = "moving" /\ UNCHANGED <<account, assigned, cellVars, request, faults>>
<1>0. /\ moves \in Seq(Move) /\ RecordsSane /\ job \in [Jobs -> Job] /\ faults \in 0..MaxFaults
      /\ data \in [Cells -> Rows]
  BY DEF Types, GlobalTypes, ActorTypes, CellTypes
<1>a. PICK m \in DOMAIN moves : m = job[j].move
  <2>1. job[j].call # "idle" /\ JobKnows(j)
    BY DEF Drain, Making, JobsKnow
  <2> QED
    BY <2>1 DEF JobKnows
<1>1. Making(j, "drain") /\ job[j].call = "drain"
  BY DEF Drain, Making
<1>2. JobAt(j, "idle", 0, NoRows)
  BY <1>0, <1>a, JobGoesOn DEF Drain, Calls
<1>3. Works(j, m, "drain", "prepared") /\ moves[m].lease = j
  BY <1>1, <1>2, <1>a, Working DEF JobAt
<1>4. directory = "active" /\ account.cell = Source(m) /\ account.generation = SourceGeneration(m)
  BY <1>1, <1>a, MakingMeans
<1>5. m \in DOMAIN moves /\ moves[m].resume = "none"
  BY <1>0, <1>3 DEF Works, RecordsSane
<1>6. PICK r \in Move :
         /\ moves' = [moves EXCEPT ![m] = r]
         /\ r.state = "drained" /\ r.resume = "none" /\ r.source = moves[m].source
         /\ r.destination = moves[m].destination /\ r.generation = moves[m].generation
         /\ r.digest = moves[m].digest /\ r.lease = NoLease /\ (r.live => r.lease # NoLease)
  <2>1. PICK q \in Move : q = Released(m, "drained")
    BY <1>0, <1>5, ReleasedRecord DEF MoveStates
  <2> DEFINE r == q
  <2>2. /\ r \in Move /\ r.state = "drained" /\ r.resume = "none" /\ r.source = moves[m].source
        /\ r.destination = moves[m].destination /\ r.generation = moves[m].generation
        /\ r.digest = moves[m].digest /\ r.lease = NoLease /\ r.live = FALSE
    <3>1. /\ q.state = "drained" /\ q.resume = "none" /\ q.source = moves[m].source
          /\ q.destination = moves[m].destination /\ q.generation = moves[m].generation
          /\ q.digest = moves[m].digest /\ q.lease = NoLease /\ q.live = FALSE
      BY <1>0, <1>5, <2>1, ReleasedRecord DEF MoveStates
    <3> QED
      BY <1>0, <2>1, <3>1 DEF Move, Job
  <2>3. moves' = [moves EXCEPT ![m] = r]
    BY <1>a, <2>1 DEF Drain
  <2> QED
    BY <2>2, <2>3
<1>7. Advanced(m, "drained", moves[m].digest, NoLease)
  <2>1. /\ Fixed /\ RecordsSane' /\ moves'[m] = r /\ Phase(m)' = r.state
        /\ \A n \in DOMAIN moves : n # m => moves'[n] = moves[n] /\ Phase(n)' = Phase(n)
    <3>1. r.state # "paused"
      BY <1>6
    <3> QED
      BY <1>0, <1>5, <1>6, <3>1, AdvanceOne
  <2> QED
    BY <1>5, <1>6, <2>1 DEF Advanced
<1>8. JobKnows(j)'
  BY <1>2, <1>3, <1>5, <1>7 DEF JobAt, JobKnows, Leased, Advanced, Fixed
<1>9. JobsKnow'
  BY <1>2, <1>3, <1>8, OneJobKnows DEF JobAt, Works
<1>10. directory' = "moving" /\ UNCHANGED <<account, assigned, cellVars, request, faults>>
  BY <1>a DEF Drain
<1> QED
  BY <1>2, <1>3, <1>4, <1>7, <1>9, <1>10

\* The digest of the copy is recorded.
LEMMA AdvanceCopiedDoes ==
    ASSUME Types, JobsKnow, NEW j \in Jobs, AdvanceCopied(j)
    PROVE  \E m \in DOMAIN moves :
           /\ Works(j, m, "copy", "drained") /\ JobAt(j, "idle", 0, NoRows) /\ JobsKnow'
           /\ Advanced(m, "copied", job[j].seen, NoLease)
           /\ UNCHANGED <<account, directory, assigned, cellVars, request, faults>>
<1>0. /\ moves \in Seq(Move) /\ RecordsSane /\ job \in [Jobs -> Job] /\ faults \in 0..MaxFaults
      /\ data \in [Cells -> Rows]
  BY DEF Types, GlobalTypes, ActorTypes, CellTypes
<1>a. PICK m \in DOMAIN moves : m = job[j].move
  <2>1. job[j].call # "idle" /\ JobKnows(j)
    BY DEF AdvanceCopied, Making, JobsKnow
  <2> QED
    BY <2>1 DEF JobKnows
<1>1. Making(j, "copy") /\ job[j].call = "copy"
  BY DEF AdvanceCopied, Making
<1>2. JobAt(j, "idle", 0, NoRows)
  BY <1>0, <1>a, JobGoesOn DEF AdvanceCopied, Calls
<1>3. Works(j, m, "copy", "drained") /\ moves[m].lease = j
  BY <1>1, <1>2, <1>a, Working DEF JobAt
<1>4. TRUE
  BY <1>1, <1>a, MakingMeans
<1>5. m \in DOMAIN moves /\ moves[m].resume = "none"
  BY <1>0, <1>3 DEF Works, RecordsSane
<1>6. PICK r \in Move :
         /\ moves' = [moves EXCEPT ![m] = r]
         /\ r.state = "copied" /\ r.resume = "none" /\ r.source = moves[m].source
         /\ r.destination = moves[m].destination /\ r.generation = moves[m].generation
         /\ r.digest = job[j].seen /\ r.lease = NoLease /\ (r.live => r.lease # NoLease)
  <2>1. PICK q \in Move : q = Released(m, "copied")
    BY <1>0, <1>5, ReleasedRecord DEF MoveStates
  <2> DEFINE r == [q EXCEPT !.digest = job[j].seen]
  <2>2. /\ r \in Move /\ r.state = "copied" /\ r.resume = "none" /\ r.source = moves[m].source
        /\ r.destination = moves[m].destination /\ r.generation = moves[m].generation
        /\ r.digest = job[j].seen /\ r.lease = NoLease /\ r.live = FALSE
    <3>1. /\ q.state = "copied" /\ q.resume = "none" /\ q.source = moves[m].source
          /\ q.destination = moves[m].destination /\ q.generation = moves[m].generation
          /\ q.digest = moves[m].digest /\ q.lease = NoLease /\ q.live = FALSE
      BY <1>0, <1>5, <2>1, ReleasedRecord DEF MoveStates
    <3> QED
      BY <1>0, <2>1, <3>1 DEF Move, Job
  <2>3. moves' = [moves EXCEPT ![m] = r]
    BY <1>a, <2>1 DEF AdvanceCopied
  <2> QED
    BY <2>2, <2>3
<1>7. Advanced(m, "copied", job[j].seen, NoLease)
  <2>1. /\ Fixed /\ RecordsSane' /\ moves'[m] = r /\ Phase(m)' = r.state
        /\ \A n \in DOMAIN moves : n # m => moves'[n] = moves[n] /\ Phase(n)' = Phase(n)
    <3>1. r.state # "paused"
      BY <1>6
    <3> QED
      BY <1>0, <1>5, <1>6, <3>1, AdvanceOne
  <2> QED
    BY <1>5, <1>6, <2>1 DEF Advanced
<1>8. JobKnows(j)'
  BY <1>2, <1>3, <1>5, <1>7 DEF JobAt, JobKnows, Leased, Advanced, Fixed
<1>9. JobsKnow'
  BY <1>2, <1>3, <1>8, OneJobKnows DEF JobAt, Works
<1>10. UNCHANGED <<account, directory, assigned, cellVars, request, faults>>
  BY <1>a DEF AdvanceCopied
<1> QED
  BY <1>2, <1>3, <1>4, <1>7, <1>9, <1>10

\* A reconciled move is ready.
LEMMA AdvanceReadyDoes ==
    ASSUME Types, JobsKnow, NEW j \in Jobs, AdvanceReady(j)
    PROVE  \E m \in DOMAIN moves :
           /\ Works(j, m, "reconcile", "copied") /\ JobAt(j, "idle", 0, NoRows) /\ JobsKnow'
           /\ Advanced(m, "ready", moves[m].digest, NoLease)
           /\ UNCHANGED <<account, directory, assigned, cellVars, request, faults>>
<1>0. /\ moves \in Seq(Move) /\ RecordsSane /\ job \in [Jobs -> Job] /\ faults \in 0..MaxFaults
      /\ data \in [Cells -> Rows]
  BY DEF Types, GlobalTypes, ActorTypes, CellTypes
<1>a. PICK m \in DOMAIN moves : m = job[j].move
  <2>1. job[j].call # "idle" /\ JobKnows(j)
    BY DEF AdvanceReady, Making, JobsKnow
  <2> QED
    BY <2>1 DEF JobKnows
<1>1. Making(j, "reconcile") /\ job[j].call = "reconcile"
  BY DEF AdvanceReady, Making
<1>2. JobAt(j, "idle", 0, NoRows)
  BY <1>0, <1>a, JobGoesOn DEF AdvanceReady, Calls
<1>3. Works(j, m, "reconcile", "copied") /\ moves[m].lease = j
  BY <1>1, <1>2, <1>a, Working DEF JobAt
<1>4. TRUE
  BY <1>1, <1>a, MakingMeans
<1>5. m \in DOMAIN moves /\ moves[m].resume = "none"
  BY <1>0, <1>3 DEF Works, RecordsSane
<1>6. PICK r \in Move :
         /\ moves' = [moves EXCEPT ![m] = r]
         /\ r.state = "ready" /\ r.resume = "none" /\ r.source = moves[m].source
         /\ r.destination = moves[m].destination /\ r.generation = moves[m].generation
         /\ r.digest = moves[m].digest /\ r.lease = NoLease /\ (r.live => r.lease # NoLease)
  <2>1. PICK q \in Move : q = Released(m, "ready")
    BY <1>0, <1>5, ReleasedRecord DEF MoveStates
  <2> DEFINE r == q
  <2>2. /\ r \in Move /\ r.state = "ready" /\ r.resume = "none" /\ r.source = moves[m].source
        /\ r.destination = moves[m].destination /\ r.generation = moves[m].generation
        /\ r.digest = moves[m].digest /\ r.lease = NoLease /\ r.live = FALSE
    <3>1. /\ q.state = "ready" /\ q.resume = "none" /\ q.source = moves[m].source
          /\ q.destination = moves[m].destination /\ q.generation = moves[m].generation
          /\ q.digest = moves[m].digest /\ q.lease = NoLease /\ q.live = FALSE
      BY <1>0, <1>5, <2>1, ReleasedRecord DEF MoveStates
    <3> QED
      BY <1>0, <2>1, <3>1 DEF Move, Job
  <2>3. moves' = [moves EXCEPT ![m] = r]
    BY <1>a, <2>1 DEF AdvanceReady
  <2> QED
    BY <2>2, <2>3
<1>7. Advanced(m, "ready", moves[m].digest, NoLease)
  <2>1. /\ Fixed /\ RecordsSane' /\ moves'[m] = r /\ Phase(m)' = r.state
        /\ \A n \in DOMAIN moves : n # m => moves'[n] = moves[n] /\ Phase(n)' = Phase(n)
    <3>1. r.state # "paused"
      BY <1>6
    <3> QED
      BY <1>0, <1>5, <1>6, <3>1, AdvanceOne
  <2> QED
    BY <1>5, <1>6, <2>1 DEF Advanced
<1>8. JobKnows(j)'
  BY <1>2, <1>3, <1>5, <1>7 DEF JobAt, JobKnows, Leased, Advanced, Fixed
<1>9. JobsKnow'
  BY <1>2, <1>3, <1>8, OneJobKnows DEF JobAt, Works
<1>10. UNCHANGED <<account, directory, assigned, cellVars, request, faults>>
  BY <1>a DEF AdvanceReady
<1> QED
  BY <1>2, <1>3, <1>4, <1>7, <1>9, <1>10

\* The switch places the Account at the destination.
LEMMA SwitchDoes ==
    ASSUME Types, JobsKnow, NEW j \in Jobs, Switch(j)
    PROVE  \E m \in DOMAIN moves :
           /\ Works(j, m, "switch", "ready") /\ JobAt(j, "activate", m, job[j].seen) /\ JobsKnow'
           /\ Advanced(m, "switched", moves[m].digest, NoLease)
           /\ Switchable(m)
           /\ Place(Source(m), Destination(m), DestinationGeneration(m)) /\ UNCHANGED <<cellVars, request, faults>>
<1>0. /\ moves \in Seq(Move) /\ RecordsSane /\ job \in [Jobs -> Job] /\ faults \in 0..MaxFaults
      /\ data \in [Cells -> Rows]
  BY DEF Types, GlobalTypes, ActorTypes, CellTypes
<1>a. PICK m \in DOMAIN moves : m = job[j].move
  <2>1. job[j].call # "idle" /\ JobKnows(j)
    BY DEF Switch, Making, JobsKnow
  <2> QED
    BY <2>1 DEF JobKnows
<1>1. Making(j, "switch") /\ job[j].call = "switch"
  BY DEF Switch, Making
<1>2. JobAt(j, "activate", m, job[j].seen)
  BY <1>0, <1>a, JobGoesOn DEF Switch, Calls
<1>3. Works(j, m, "switch", "ready") /\ moves[m].lease = j
  BY <1>1, <1>2, <1>a, Working DEF JobAt
<1>4. Switchable(m)
  BY <1>1, <1>a, MakingMeans
<1>5. m \in DOMAIN moves /\ moves[m].resume = "none"
  BY <1>0, <1>3 DEF Works, RecordsSane
<1>6. PICK r \in Move :
         /\ moves' = [moves EXCEPT ![m] = r]
         /\ r.state = "switched" /\ r.resume = "none" /\ r.source = moves[m].source
         /\ r.destination = moves[m].destination /\ r.generation = moves[m].generation
         /\ r.digest = moves[m].digest /\ r.lease = NoLease /\ (r.live => r.lease # NoLease)
  <2>1. PICK q \in Move : q = Released(m, "switched")
    BY <1>0, <1>5, ReleasedRecord DEF MoveStates
  <2> DEFINE r == [q EXCEPT !.window = "open"]
  <2>2. /\ r \in Move /\ r.state = "switched" /\ r.resume = "none" /\ r.source = moves[m].source
        /\ r.destination = moves[m].destination /\ r.generation = moves[m].generation
        /\ r.digest = moves[m].digest /\ r.lease = NoLease /\ r.live = FALSE
    <3>1. /\ q.state = "switched" /\ q.resume = "none" /\ q.source = moves[m].source
          /\ q.destination = moves[m].destination /\ q.generation = moves[m].generation
          /\ q.digest = moves[m].digest /\ q.lease = NoLease /\ q.live = FALSE
      BY <1>0, <1>5, <2>1, ReleasedRecord DEF MoveStates
    <3> QED
      BY <1>0, <2>1, <3>1 DEF Move, Job
  <2>3. moves' = [moves EXCEPT ![m] = r]
    BY <1>a, <2>1 DEF Switch
  <2> QED
    BY <2>2, <2>3
<1>7. Advanced(m, "switched", moves[m].digest, NoLease)
  <2>1. /\ Fixed /\ RecordsSane' /\ moves'[m] = r /\ Phase(m)' = r.state
        /\ \A n \in DOMAIN moves : n # m => moves'[n] = moves[n] /\ Phase(n)' = Phase(n)
    <3>1. r.state # "paused"
      BY <1>6
    <3> QED
      BY <1>0, <1>5, <1>6, <3>1, AdvanceOne
  <2> QED
    BY <1>5, <1>6, <2>1 DEF Advanced
<1>8. JobKnows(j)'
  BY <1>2, <1>3, <1>5, <1>7 DEF JobAt, JobKnows, Leased, Advanced, Fixed
<1>9. JobsKnow'
  BY <1>2, <1>3, <1>8, OneJobKnows DEF JobAt, Works
<1>10. Place(Source(m), Destination(m), DestinationGeneration(m)) /\ UNCHANGED <<cellVars, request, faults>>
  BY <1>a DEF Switch
<1> QED
  BY <1>2, <1>3, <1>4, <1>7, <1>9, <1>10

\* The rollback places the Account back at the source.
LEMMA RollbackDoes ==
    ASSUME Types, JobsKnow, NEW j \in Jobs, Rollback(j)
    PROVE  \E m \in DOMAIN moves :
           /\ Works(j, m, "rollback", "switched") /\ JobAt(j, "activate_source", m, job[j].seen) /\ JobsKnow'
           /\ Advanced(m, "rolled_back", moves[m].digest, NoLease)
           /\ Reversible(m)
           /\ Place(Destination(m), Source(m), RollbackGeneration(m)) /\ UNCHANGED <<cellVars, request, faults>>
<1>0. /\ moves \in Seq(Move) /\ RecordsSane /\ job \in [Jobs -> Job] /\ faults \in 0..MaxFaults
      /\ data \in [Cells -> Rows]
  BY DEF Types, GlobalTypes, ActorTypes, CellTypes
<1>a. PICK m \in DOMAIN moves : m = job[j].move
  <2>1. job[j].call # "idle" /\ JobKnows(j)
    BY DEF Rollback, Making, JobsKnow
  <2> QED
    BY <2>1 DEF JobKnows
<1>1. Making(j, "rollback") /\ job[j].call = "rollback"
  BY DEF Rollback, Making
<1>2. JobAt(j, "activate_source", m, job[j].seen)
  BY <1>0, <1>a, JobGoesOn DEF Rollback, Calls
<1>3. Works(j, m, "rollback", "switched") /\ moves[m].lease = j
  BY <1>1, <1>2, <1>a, Working DEF JobAt
<1>4. Reversible(m)
  BY <1>1, <1>a, MakingMeans
<1>5. m \in DOMAIN moves /\ moves[m].resume = "none"
  BY <1>0, <1>3 DEF Works, RecordsSane
<1>6. PICK r \in Move :
         /\ moves' = [moves EXCEPT ![m] = r]
         /\ r.state = "rolled_back" /\ r.resume = "none" /\ r.source = moves[m].source
         /\ r.destination = moves[m].destination /\ r.generation = moves[m].generation
         /\ r.digest = moves[m].digest /\ r.lease = NoLease /\ (r.live => r.lease # NoLease)
  <2>1. PICK q \in Move : q = Released(m, "rolled_back")
    BY <1>0, <1>5, ReleasedRecord DEF MoveStates
  <2> DEFINE r == q
  <2>2. /\ r \in Move /\ r.state = "rolled_back" /\ r.resume = "none" /\ r.source = moves[m].source
        /\ r.destination = moves[m].destination /\ r.generation = moves[m].generation
        /\ r.digest = moves[m].digest /\ r.lease = NoLease /\ r.live = FALSE
    <3>1. /\ q.state = "rolled_back" /\ q.resume = "none" /\ q.source = moves[m].source
          /\ q.destination = moves[m].destination /\ q.generation = moves[m].generation
          /\ q.digest = moves[m].digest /\ q.lease = NoLease /\ q.live = FALSE
      BY <1>0, <1>5, <2>1, ReleasedRecord DEF MoveStates
    <3> QED
      BY <1>0, <2>1, <3>1 DEF Move, Job
  <2>3. moves' = [moves EXCEPT ![m] = r]
    BY <1>a, <2>1 DEF Rollback
  <2> QED
    BY <2>2, <2>3
<1>7. Advanced(m, "rolled_back", moves[m].digest, NoLease)
  <2>1. /\ Fixed /\ RecordsSane' /\ moves'[m] = r /\ Phase(m)' = r.state
        /\ \A n \in DOMAIN moves : n # m => moves'[n] = moves[n] /\ Phase(n)' = Phase(n)
    <3>1. r.state # "paused"
      BY <1>6
    <3> QED
      BY <1>0, <1>5, <1>6, <3>1, AdvanceOne
  <2> QED
    BY <1>5, <1>6, <2>1 DEF Advanced
<1>8. JobKnows(j)'
  BY <1>2, <1>3, <1>5, <1>7 DEF JobAt, JobKnows, Leased, Advanced, Fixed
<1>9. JobsKnow'
  BY <1>2, <1>3, <1>8, OneJobKnows DEF JobAt, Works
<1>10. Place(Destination(m), Source(m), RollbackGeneration(m)) /\ UNCHANGED <<cellVars, request, faults>>
  BY <1>a DEF Rollback
<1> QED
  BY <1>2, <1>3, <1>4, <1>7, <1>9, <1>10

\* Retirement begins under the lease.
LEMMA BeginRetirementDoes ==
    ASSUME Types, JobsKnow, NEW j \in Jobs, BeginRetirement(j)
    PROVE  \E m \in DOMAIN moves :
           /\ Works(j, m, "begin_retirement", "switched") /\ JobAt(j, "retire", m, job[j].seen) /\ JobsKnow'
           /\ Advanced(m, "retiring", moves[m].digest, j)
           /\ UNCHANGED <<account, directory, assigned, cellVars, request, faults>>
<1>0. /\ moves \in Seq(Move) /\ RecordsSane /\ job \in [Jobs -> Job] /\ faults \in 0..MaxFaults
      /\ data \in [Cells -> Rows]
  BY DEF Types, GlobalTypes, ActorTypes, CellTypes
<1>a. PICK m \in DOMAIN moves : m = job[j].move
  <2>1. job[j].call # "idle" /\ JobKnows(j)
    BY DEF BeginRetirement, Making, JobsKnow
  <2> QED
    BY <2>1 DEF JobKnows
<1>1. Making(j, "begin_retirement") /\ job[j].call = "begin_retirement"
  BY DEF BeginRetirement, Making
<1>2. JobAt(j, "retire", m, job[j].seen)
  BY <1>0, <1>a, JobGoesOn DEF BeginRetirement, Calls
<1>3. Works(j, m, "begin_retirement", "switched") /\ moves[m].lease = j
  BY <1>1, <1>2, <1>a, Working DEF JobAt
<1>4. TRUE
  BY <1>1, <1>a, MakingMeans
<1>5. m \in DOMAIN moves /\ moves[m].resume = "none"
  BY <1>0, <1>3 DEF Works, RecordsSane
<1>6. PICK r \in Move :
         /\ moves' = [moves EXCEPT ![m] = r]
         /\ r.state = "retiring" /\ r.resume = "none" /\ r.source = moves[m].source
         /\ r.destination = moves[m].destination /\ r.generation = moves[m].generation
         /\ r.digest = moves[m].digest /\ r.lease = j /\ (r.live => r.lease # NoLease)
  <2>1. PICK q \in Move : q = moves[m]
    BY <1>0, <1>5, Records
  <2> DEFINE r == [q EXCEPT !.state = "retiring"]
  <2>2. moves' = [moves EXCEPT ![m] = r]
    BY <1>a, <2>1 DEF BeginRetirement
  <2>3. /\ r \in Move /\ r.state = "retiring" /\ r.resume = q.resume /\ r.source = q.source
        /\ r.destination = q.destination /\ r.generation = q.generation
        /\ r.digest = q.digest /\ r.lease = q.lease /\ r.live = q.live
    BY <2>1 DEF Move, MoveStates
  <2>4. j # NoLease
    BY MovementAssumption DEF NoLease
  <2> HIDE DEF r
  <2> QED
    BY <1>3, <1>5, <2>1, <2>2, <2>3, <2>4
<1>7. Advanced(m, "retiring", moves[m].digest, j)
  <2>1. /\ Fixed /\ RecordsSane' /\ moves'[m] = r /\ Phase(m)' = r.state
        /\ \A n \in DOMAIN moves : n # m => moves'[n] = moves[n] /\ Phase(n)' = Phase(n)
    <3>1. r.state # "paused"
      BY <1>6
    <3> QED
      BY <1>0, <1>5, <1>6, <3>1, AdvanceOne
  <2> QED
    BY <1>5, <1>6, <2>1 DEF Advanced
<1>8. JobKnows(j)'
  BY <1>2, <1>3, <1>5, <1>7 DEF JobAt, JobKnows, Leased, Advanced, Fixed
<1>9. JobsKnow'
  BY <1>2, <1>3, <1>8, OneJobKnows DEF JobAt, Works
<1>10. UNCHANGED <<account, directory, assigned, cellVars, request, faults>>
  BY <1>a DEF BeginRetirement
<1> QED
  BY <1>2, <1>3, <1>4, <1>7, <1>9, <1>10

\* The move is completed.
LEMMA CompleteDoes ==
    ASSUME Types, JobsKnow, NEW j \in Jobs, Complete(j)
    PROVE  \E m \in DOMAIN moves :
           /\ Works(j, m, "complete", "retiring") /\ JobAt(j, "idle", 0, NoRows) /\ JobsKnow'
           /\ Advanced(m, "completed", moves[m].digest, NoLease)
           /\ UNCHANGED <<account, directory, assigned, cellVars, request, faults>>
<1>0. /\ moves \in Seq(Move) /\ RecordsSane /\ job \in [Jobs -> Job] /\ faults \in 0..MaxFaults
      /\ data \in [Cells -> Rows]
  BY DEF Types, GlobalTypes, ActorTypes, CellTypes
<1>a. PICK m \in DOMAIN moves : m = job[j].move
  <2>1. job[j].call # "idle" /\ JobKnows(j)
    BY DEF Complete, Making, JobsKnow
  <2> QED
    BY <2>1 DEF JobKnows
<1>1. Making(j, "complete") /\ job[j].call = "complete"
  BY DEF Complete, Making
<1>2. JobAt(j, "idle", 0, NoRows)
  BY <1>0, <1>a, JobGoesOn DEF Complete, Calls
<1>3. Works(j, m, "complete", "retiring") /\ moves[m].lease = j
  BY <1>1, <1>2, <1>a, Working DEF JobAt
<1>4. TRUE
  BY <1>1, <1>a, MakingMeans
<1>5. m \in DOMAIN moves /\ moves[m].resume = "none"
  BY <1>0, <1>3 DEF Works, RecordsSane
<1>6. PICK r \in Move :
         /\ moves' = [moves EXCEPT ![m] = r]
         /\ r.state = "completed" /\ r.resume = "none" /\ r.source = moves[m].source
         /\ r.destination = moves[m].destination /\ r.generation = moves[m].generation
         /\ r.digest = moves[m].digest /\ r.lease = NoLease /\ (r.live => r.lease # NoLease)
  <2>1. PICK q \in Move : q = Released(m, "completed")
    BY <1>0, <1>5, ReleasedRecord DEF MoveStates
  <2> DEFINE r == q
  <2>2. /\ r \in Move /\ r.state = "completed" /\ r.resume = "none" /\ r.source = moves[m].source
        /\ r.destination = moves[m].destination /\ r.generation = moves[m].generation
        /\ r.digest = moves[m].digest /\ r.lease = NoLease /\ r.live = FALSE
    <3>1. /\ q.state = "completed" /\ q.resume = "none" /\ q.source = moves[m].source
          /\ q.destination = moves[m].destination /\ q.generation = moves[m].generation
          /\ q.digest = moves[m].digest /\ q.lease = NoLease /\ q.live = FALSE
      BY <1>0, <1>5, <2>1, ReleasedRecord DEF MoveStates
    <3> QED
      BY <1>0, <2>1, <3>1 DEF Move, Job
  <2>3. moves' = [moves EXCEPT ![m] = r]
    BY <1>a, <2>1 DEF Complete
  <2> QED
    BY <2>2, <2>3
<1>7. Advanced(m, "completed", moves[m].digest, NoLease)
  <2>1. /\ Fixed /\ RecordsSane' /\ moves'[m] = r /\ Phase(m)' = r.state
        /\ \A n \in DOMAIN moves : n # m => moves'[n] = moves[n] /\ Phase(n)' = Phase(n)
    <3>1. r.state # "paused"
      BY <1>6
    <3> QED
      BY <1>0, <1>5, <1>6, <3>1, AdvanceOne
  <2> QED
    BY <1>5, <1>6, <2>1 DEF Advanced
<1>8. JobKnows(j)'
  BY <1>2, <1>3, <1>5, <1>7 DEF JobAt, JobKnows, Leased, Advanced, Fixed
<1>9. JobsKnow'
  BY <1>2, <1>3, <1>8, OneJobKnows DEF JobAt, Works
<1>10. UNCHANGED <<account, directory, assigned, cellVars, request, faults>>
  BY <1>a DEF Complete
<1> QED
  BY <1>2, <1>3, <1>4, <1>7, <1>9, <1>10

-------------------------------------------------------------------------------
(***************************************************************************)
(* Facts about the moves                                                   *)
(***************************************************************************)

\* The cells and the generations of a move.
LEMMA MoveFacts ==
    ASSUME Types, History, NEW m \in DOMAIN moves
    PROVE  /\ m \in Nat /\ m \in 1..MaxMoves /\ m <= Len(moves) /\ Len(moves) \in Nat /\ Len(moves) \in DOMAIN moves
           /\ Source(m) \in Cells /\ Destination(m) \in Cells /\ Source(m) # Destination(m)
           /\ moves[m].generation \in Nat /\ moves[m].generation >= 1 /\ moves[m].generation <= 2 * m - 1
           /\ SourceGeneration(m) = moves[m].generation
           /\ DestinationGeneration(m) = moves[m].generation + 1
           /\ RollbackGeneration(m) = moves[m].generation + 2
           /\ SourceGeneration(m) \in Generations /\ DestinationGeneration(m) \in Generations
           /\ RollbackGeneration(m) \in Generations
<1>1. moves \in Seq(Move) /\ RecordsSane
  BY DEF Types, GlobalTypes
<1>2. /\ Len(moves) \in Nat /\ DOMAIN moves = 1..Len(moves) /\ m \in Nat /\ m >= 1 /\ m <= Len(moves)
      /\ Len(moves) <= MaxMoves
  BY <1>1, Records DEF History
<1>3. m \in 1..MaxMoves /\ Len(moves) \in DOMAIN moves
  BY <1>2, MovementAssumption
<1>4. Source(m) \in Cells /\ Destination(m) \in Cells /\ Source(m) # Destination(m)
  BY <1>1, RecordFields DEF Source, Destination, RecordsSane
<1>5. PICK g \in Nat : g = moves[m].generation /\ g >= 1 /\ g <= 2 * m - 1
  BY <1>1, <1>2, RecordFields DEF History
<1>6. g \in Generations /\ g + 1 \in Generations /\ g + 2 \in Generations
  BY <1>2, <1>5, MovementAssumption DEF Generations
<1> QED
  BY <1>2, <1>3, <1>4, <1>5, <1>6 DEF SourceGeneration, DestinationGeneration, RollbackGeneration

\* Only the last move is open, and it says where the Account is.
LEMMA OpenIsLast ==
    ASSUME Types, History, Placing, NEW m \in DOMAIN moves, Phase(m) \notin {"completed", "rolled_back"}
    PROVE  /\ m = Len(moves)
           /\ \A n \in DOMAIN moves : n # m => n < m /\ Phase(n) \in {"completed", "rolled_back"}
           /\ Phase(m) \in Left => account.cell = Destination(m) /\ account.generation = DestinationGeneration(m)
           /\ Phase(m) \notin Left => account.cell = Source(m) /\ account.generation = SourceGeneration(m)
<1>1. /\ m \in Nat /\ m <= Len(moves) /\ Len(moves) \in Nat /\ Len(moves) \in DOMAIN moves /\ m >= 1
      /\ SourceGeneration(m) = moves[m].generation /\ DestinationGeneration(m) = moves[m].generation + 1
  BY MoveFacts
<1>2. m = Len(moves)
  BY <1>1 DEF History
<1>3. \A n \in DOMAIN moves : n \in Nat /\ n <= Len(moves)
  BY Records DEF Types, GlobalTypes
<1>4. \A n \in DOMAIN moves : n # m => n < m /\ Phase(n) \in {"completed", "rolled_back"}
  BY <1>1, <1>2, <1>3 DEF History
<1>5. account.generation = After(m) /\ account.cell = IF Phase(m) \in Left THEN Destination(m) ELSE Source(m)
  BY <1>1, <1>2 DEF Placing
<1> QED
  BY <1>1, <1>2, <1>4, <1>5 DEF After

\* Two moves have generations that tell them apart, and a move that has been
\* rolled back is older than what the Account has become.
LEMMA Apart ==
    ASSUME Types, History, Placing, NEW m \in DOMAIN moves, NEW n \in DOMAIN moves, Phase(m) = "rolled_back"
    PROVE  /\ n # m => \/ moves[n].generation >= moves[m].generation + 2
                       \/ moves[n].generation < moves[m].generation
           /\ n # m /\ Phase(n) \notin {"completed", "rolled_back"} => moves[n].generation >= moves[m].generation + 2
           /\ n # m /\ Phase(n) = "rolled_back" => \/ moves[n].generation >= moves[m].generation + 2
                                                   \/ moves[m].generation >= moves[n].generation + 2
<1>1. /\ m \in Nat /\ n \in Nat /\ moves[m].generation \in Nat /\ moves[n].generation \in Nat
  BY MoveFacts
<1>2. After(m) = moves[m].generation + 2
  BY DEF After
<1>3. m < n => moves[n].generation >= moves[m].generation + 2
  BY <1>1, <1>2 DEF History
<1>4. After(n) \in {moves[n].generation, moves[n].generation + 1, moves[n].generation + 2}
  BY DEF After
<1>5. n < m => /\ moves[m].generation >= After(n) /\ Phase(n) \in {"completed", "rolled_back"}
  BY <1>1 DEF History
<1>6. n < m => moves[m].generation >= moves[n].generation + 1
  <2>1. n < m => After(n) \in {moves[n].generation + 1, moves[n].generation + 2}
    BY <1>5 DEF After, Left
  <2> QED
    BY <1>1, <1>5, <2>1
<1>7. n < m /\ Phase(n) = "rolled_back" => moves[m].generation >= moves[n].generation + 2
  BY <1>1, <1>5 DEF After
<1> QED
  BY <1>1, <1>3, <1>5, <1>6, <1>7

\* The fields of the rows and of the jobs.
LEMMA RowFields ==
    ASSUME Types
    PROVE  /\ account.generation \in Nat /\ account.version \in Nat /\ account.cell \in Cells
           /\ account.state \in {"active", "suspended"}
           /\ \A c \in Cells : namespace[c] \in Namespace /\ namespace[c].generation \in Nat /\ data[c] \in Rows
           /\ \A j \in Jobs : job[j] \in Job /\ job[j].call \in Calls /\ job[j].move \in Nat /\ job[j].seen \in Rows
<1>1. PICK a \in [cell : Cells, generation : Nat, version : Nat, state : {"active", "suspended"}] : a = account
  BY DEF Types, GlobalTypes
<1>2. \A c \in Cells : namespace[c] \in Namespace /\ data[c] \in Rows
  BY DEF Types, CellTypes
<1>3. \A c \in Cells : namespace[c].generation \in Nat
  BY <1>2 DEF Namespace, Generations
<1>4. \A j \in Jobs : job[j] \in Job
  BY DEF Types, ActorTypes
<1> QED
  BY <1>1, <1>2, <1>3, <1>4 DEF Job

-------------------------------------------------------------------------------
(***************************************************************************)
(* All steps                                                               *)
(***************************************************************************)

Requests == request \in [Writes -> Request]
            /\ \A w \in Writes : request[w].stage \in {"routed", "admitted"} => request[w].cell \in Cells

\* A customer's request that writes no row.
Routes ==
    /\ UNCHANGED <<globalVars, cellVars, job, faults>>
    /\ Requests' /\ Acknowledged' = Acknowledged

\* A row is written behind the fence: by a customer, or by a worker.
RowWritten(c, w, v) ==
    /\ namespace[c].state = "active"
    /\ data' = [data EXCEPT ![c][w] = v]
    /\ Requests'
    /\ \/ /\ w \notin Acknowledged /\ Acknowledged' = Acknowledged \cup {w}
          /\ v = IF w \in QueuedWrites THEN "queued" ELSE "done"
       \/ Acknowledged' = Acknowledged /\ data[c][w] = "queued" /\ v = "done"
    /\ UNCHANGED <<globalVars, namespace, checkpoint, job, faults>>

\* Changing one request changes what is acknowledged by that request only.
LEMMA OneRequest ==
    ASSUME Types, NEW w \in Writes, NEW r \in Request, request' = [request EXCEPT ![w] = r],
           r.stage \in {"routed", "admitted"} => r.cell \in Cells
    PROVE  /\ Requests'
           /\ request[w].stage # "written" /\ r.stage # "written" => Acknowledged' = Acknowledged
           /\ r.stage = "written" => Acknowledged' = Acknowledged \cup {w}
<1>1. request \in [Writes -> Request]
      /\ \A u \in Writes : request[u].stage \in {"routed", "admitted"} => request[u].cell \in Cells
  BY DEF Types, ActorTypes
<1>2. request'[w] = r /\ \A u \in Writes : u # w => request'[u] = request[u]
  BY <1>1
<1> QED
  BY <1>1, <1>2 DEF Requests, Acknowledged

\* What a request is, field by field.
LEMMA RequestFields ==
    ASSUME Types, NEW w \in Writes
    PROVE  /\ request[w] \in Request /\ request[w].generation \in Nat /\ request[w].cell \in Cells \cup {"none"}
           /\ request[w].stage \in {"routed", "admitted"} => request[w].cell \in Cells
           /\ NewRequest \in Request /\ NewRequest.stage = "new"
<1>1. PICK r \in Request : r = request[w]
  BY DEF Types, ActorTypes
<1> QED
  BY <1>1 DEF Request, NewRequest, Types, ActorTypes

\* Customers and workers route requests or write rows.
LEMMA CustomersDo ==
    ASSUME Types, Customers
    PROVE  Routes \/ \E c \in Cells, w \in Writes, v \in {"queued", "done"} : RowWritten(c, w, v)
<1>0. account.cell \in Cells /\ account.generation \in Nat
  BY RowFields
<1>1. ASSUME NEW w \in Writes, RouteRequest(w) PROVE Routes
  <2> DEFINE r == [stage |-> "routed", cell |-> account.cell, generation |-> account.generation]
  <2>1. r \in Request /\ r.stage = "routed" /\ r.cell \in Cells
    BY <1>0 DEF Request
  <2>2. request' = [request EXCEPT ![w] = r] /\ request[w].stage = "new"
    BY <1>1 DEF RouteRequest
  <2> HIDE DEF r
  <2>3. Requests' /\ Acknowledged' = Acknowledged
    BY <2>1, <2>2, OneRequest
  <2> QED
    BY <1>1, <2>3 DEF Routes, RouteRequest
<1>2. ASSUME NEW w \in Writes, ConsumeReceipt(w) PROVE Routes
  <2>1. PICK r \in Request : /\ request' = [request EXCEPT ![w] = r] /\ r.stage \in {"new", "admitted"}
                             /\ r.cell \in Cells \/ r.stage = "new"
    <3> DEFINE q == [request[w] EXCEPT !.stage = "admitted"]
    <3>1. q \in Request /\ q.stage = "admitted" /\ q.cell \in Cells
      <4>1. PICK p \in Request : p = request[w] /\ p.cell \in Cells
        BY <1>2, RequestFields DEF ConsumeReceipt
      <4> QED
        BY <4>1 DEF Request
    <3>2. request' = [request EXCEPT ![w] = q] \/ request' = [request EXCEPT ![w] = NewRequest]
      BY <1>2 DEF ConsumeReceipt
    <3> HIDE DEF q
    <3> QED
      BY <3>1, <3>2, RequestFields
  <2>2. request[w].stage = "routed"
    BY <1>2 DEF ConsumeReceipt
  <2>3. Requests' /\ Acknowledged' = Acknowledged
    BY <2>1, <2>2, OneRequest
  <2> QED
    BY <1>2, <2>3 DEF Routes, ConsumeReceipt
<1>3. ASSUME NEW w \in Writes, BusinessWrite(w), WriteFence(request[w].cell)
      PROVE  \E c \in Cells, v \in {"queued", "done"} : RowWritten(c, w, v)
  <2> DEFINE q == [request[w] EXCEPT !.stage = "written"]
  <2>1. PICK c \in Cells : c = request[w].cell
    BY <1>3, RequestFields DEF BusinessWrite
  <2>2. q \in Request /\ q.stage = "written"
    <3>1. PICK p \in Request : p = request[w]
      BY RequestFields
    <3> QED
      BY <3>1 DEF Request
  <2>3. request' = [request EXCEPT ![w] = q] /\ request[w].stage = "admitted"
    BY <1>3 DEF BusinessWrite
  <2> HIDE DEF q
  <2>4. Requests' /\ Acknowledged' = Acknowledged \cup {w}
    BY <2>2, <2>3, OneRequest
  <2>5. w \notin Acknowledged
    BY <2>3 DEF Acknowledged
  <2>6. PICK v \in {"queued", "done"} : v = IF w \in QueuedWrites THEN "queued" ELSE "done"
    OBVIOUS
  <2>7. namespace[c].state = "active" /\ data' = [data EXCEPT ![c][w] = v]
        /\ UNCHANGED <<globalVars, namespace, checkpoint, job, faults>>
    BY <1>3, <2>1, <2>6 DEF BusinessWrite, WriteFence
  <2>8. RowWritten(c, w, v)
    BY <2>4, <2>5, <2>6, <2>7 DEF RowWritten
  <2> QED
    BY <2>8
<1>4. ASSUME NEW w \in Writes, BusinessWrite(w), ~WriteFence(request[w].cell) PROVE Routes
  <2>1. request' = [request EXCEPT ![w] = NewRequest] /\ request[w].stage = "admitted"
        /\ UNCHANGED <<globalVars, cellVars, job, faults>>
    BY <1>4 DEF BusinessWrite, cellVars
  <2>2. Requests' /\ Acknowledged' = Acknowledged
    BY <2>1, OneRequest, RequestFields
  <2> QED
    BY <2>1, <2>2 DEF Routes
<1>5. ASSUME NEW c \in Cells, NEW w \in Writes, FinishWork(c, w) PROVE RowWritten(c, w, "done")
  BY <1>5 DEF FinishWork, WriteFence, RowWritten, Acknowledged, Requests, Types, ActorTypes
<1> QED
  BY <1>1, <1>2, <1>3, <1>4, <1>5 DEF Customers

\* Every step is of one of these kinds.
LEMMA NextSplit ==
    ASSUME OneJobAtATime, Types, JobsKnow, Next
    PROVE  \/ Routes \/ \E c \in Cells, w \in Writes, v \in {"queued", "done"} : RowWritten(c, w, v)
           \/ ChangeAccountState \/ \E c \in Cells : Prepare(c)
           \/ Quiet
           \/ \E j \in Jobs : StageSource(j)
           \/ \E j \in Jobs : StageDestination(j)
           \/ \E j \in Jobs : Drain(j)
           \/ \E j \in Jobs : ReadSource(j)
           \/ \E j \in Jobs : WriteDestination(j)
           \/ \E j \in Jobs : CompareCopy(j)
           \/ \E j \in Jobs : RecordEvidence(j)
           \/ \E j \in Jobs : AdvanceCopied(j)
           \/ \E j \in Jobs : AdvanceReady(j)
           \/ \E j \in Jobs : Switch(j)
           \/ \E j \in Jobs : ActivateDestination(j)
           \/ \E j \in Jobs : Rollback(j)
           \/ \E j \in Jobs : ActivateSource(j)
           \/ \E j \in Jobs : FreezeDestination(j)
           \/ \E j \in Jobs : BeginRetirement(j)
           \/ \E j \in Jobs : RetireSource(j)
           \/ \E j \in Jobs : Complete(j)
<1>1. CASE Customers
  BY <1>1, CustomersDo
<1>2. CASE ChangeAccountState \/ \E c \in Cells : Prepare(c)
  BY <1>2
<1>3. CASE \E m \in DOMAIN moves : Pause(m) \/ Resume(m) \/ ExpireLease(m) \/ CloseWindow(m)
  BY <1>3, PauseQuiet, ResumeQuiet, TimeQuiet
<1>4. ASSUME NEW j \in Jobs, Start(j) \/ Abandon(j) \/ Refuse(j) \/ MatchEvidence(j) PROVE Quiet
  BY <1>4, StartsQuiet, EndingQuiet, MatchEvidenceQuiet
<1>5. CASE \E j \in Jobs : JobStep(j)
  BY <1>4, <1>5 DEF JobStep
<1> QED
  BY <1>1, <1>2, <1>3, <1>4, <1>5 DEF Next

\* The record of a prepared move.
PreparedRecord(c) ==
    [state |-> "prepared", resume |-> "none", source |-> account.cell, destination |-> c,
     generation |-> account.generation, version |-> account.version, digest |-> NoRows,
     window |-> "unset", lease |-> NoLease, live |-> FALSE]

\* prepare appends a record of where the Account is, when no move is open.
LEMMA PrepareDoes ==
    ASSUME Types, NEW c \in Cells, Prepare(c)
    PROVE  /\ PreparedRecord(c) \in Move
           /\ moves' \in Seq(Move) /\ Len(moves') = Len(moves) + 1 /\ Len(moves) \in Nat
           /\ DOMAIN moves = 1..Len(moves) /\ DOMAIN moves' = 1..(Len(moves) + 1)
           /\ moves'[Len(moves) + 1] = PreparedRecord(c)
           /\ \A n \in DOMAIN moves : n \in DOMAIN moves' /\ n # Len(moves) + 1 /\ moves'[n] = moves[n]
           /\ Len(moves) < MaxMoves /\ c # account.cell /\ ~OpenMove /\ directory = "active"
           /\ UNCHANGED <<account, directory, assigned, cellVars, job, request, faults>>
<1>1. moves \in Seq(Move)
  BY DEF Types, GlobalTypes
<1>2. PreparedRecord(c) \in Move
  BY RowFields, NoRowsAreRows DEF PreparedRecord, Move, MoveStates, Unswitched
<1>3. moves' = Append(moves, PreparedRecord(c))
  BY DEF Prepare, PreparedRecord
<1>4. /\ Len(moves) < MaxMoves /\ c # account.cell /\ ~OpenMove /\ directory = "active"
      /\ UNCHANGED <<account, directory, assigned, cellVars, job, request, faults>>
  BY DEF Prepare
<1>5. /\ moves' \in Seq(Move) /\ Len(moves') = Len(moves) + 1 /\ DOMAIN moves' = 1..(Len(moves) + 1)
      /\ moves'[Len(moves) + 1] = PreparedRecord(c)
      /\ \A n \in DOMAIN moves : n \in DOMAIN moves' /\ n # Len(moves) + 1 /\ moves'[n] = moves[n]
  BY <1>1, <1>2, <1>3, RecordAppend
<1> QED
  BY <1>1, <1>2, <1>4, <1>5, Records

\* At every step the jobs know what they knew, or what they just learnt.
LEMMA NextJobsKnow ==
    ASSUME OneJobAtATime, Types, JobsKnow, Next
    PROVE  JobsKnow'
<1>1. CASE Customers \/ ChangeAccountState
  <2>1. UNCHANGED <<moves, job>>
    BY <1>1, CustomersDo DEF ChangeAccountState, Routes, RowWritten, globalVars
  <2> QED
    BY <2>1, JobsKept
<1>2. ASSUME NEW c \in Cells, Prepare(c) PROVE JobsKnow'
  <2>1. UNCHANGED job /\ \A n \in DOMAIN moves : n \in DOMAIN moves' /\ moves'[n] = moves[n]
    BY <1>2, PrepareDoes
  <2> QED
    BY <2>1, JobsKept
<1>3. CASE \E m \in DOMAIN moves : Pause(m) \/ Resume(m) \/ ExpireLease(m) \/ CloseWindow(m)
  BY <1>3, PauseQuiet, ResumeQuiet, TimeQuiet
<1>4. ASSUME NEW j \in Jobs, Start(j) \/ Abandon(j) \/ JobStep(j) PROVE JobsKnow'
  BY <1>4, StartsQuiet, EndingQuiet, MatchEvidenceQuiet, StageSourceDoes, StageDestinationDoes, DrainDoes,
     ReadSourceDoes, WriteDestinationDoes, CompareCopyDoes, RecordEvidenceDoes, AdvanceCopiedDoes,
     AdvanceReadyDoes, SwitchDoes, ActivateDestinationDoes, RollbackDoes, ActivateSourceDoes,
     FreezeDestinationDoes, BeginRetirementDoes, RetireSourceDoes, CompleteDoes
     DEF JobStep
<1> QED
  BY <1>1, <1>2, <1>3, <1>4 DEF Next

-------------------------------------------------------------------------------
(***************************************************************************)
(* The types are preserved                                                 *)
(***************************************************************************)

\* Writing the rows of a cell.
LEMMA CellWrites ==
    ASSUME CellTypes, NEW c \in Cells, NEW m \in 1..MaxMoves
    PROVE  /\ \A n \in Namespace : [namespace EXCEPT ![c] = n] \in [Cells -> Namespace]
           /\ \A k \in Checkpoint : [checkpoint EXCEPT ![c][m] = k] \in [Cells -> [1..MaxMoves -> Checkpoint]]
           /\ \A s \in {"copied", "frozen", "retired"} :
                 [checkpoint EXCEPT ![c][m].state = s] \in [Cells -> [1..MaxMoves -> Checkpoint]]
           /\ \A d \in Rows : [data EXCEPT ![c] = d] \in [Cells -> Rows]
           /\ \A w \in Writes, v \in {"queued", "done"} : [data EXCEPT ![c][w] = v] \in [Cells -> Rows]
<1>1. \A n \in Namespace : [namespace EXCEPT ![c] = n] \in [Cells -> Namespace]
  BY DEF CellTypes
<1>2. \A d \in Rows : [data EXCEPT ![c] = d] \in [Cells -> Rows]
  BY DEF CellTypes
<1>3. \A k \in Checkpoint : [checkpoint EXCEPT ![c][m] = k] \in [Cells -> [1..MaxMoves -> Checkpoint]]
  BY DEF CellTypes
<1>4. ASSUME NEW s \in {"copied", "frozen", "retired"}
      PROVE  [checkpoint EXCEPT ![c][m].state = s] \in [Cells -> [1..MaxMoves -> Checkpoint]]
  <2>1. PICK k \in Checkpoint : k = checkpoint[c][m]
    BY DEF CellTypes
  <2>2. [k EXCEPT !.state = s] \in Checkpoint
    BY <2>1, <1>4 DEF Checkpoint
  <2>3. [checkpoint EXCEPT ![c][m].state = s] = [checkpoint EXCEPT ![c][m] = [k EXCEPT !.state = s]]
    BY <2>1
  <2> QED
    BY <1>3, <2>2, <2>3
<1>5. \A w \in Writes, v \in {"queued", "done"} : [data EXCEPT ![c][w] = v] \in [Cells -> Rows]
  BY DEF CellTypes, Rows, RowStates
<1> QED
  BY <1>1, <1>2, <1>3, <1>4, <1>5

\* A namespace or a checkpoint of a generation of a move is one.
LEMMA CellValues ==
    ASSUME NEW g \in Generations
    PROVE  /\ \A s \in {"active", "moving"} : [generation |-> g, state |-> s] \in Namespace
           /\ \A s \in {"frozen", "staged", "active", "rollback_active"} : [state |-> s, generation |-> g] \in Checkpoint
BY DEF Namespace, Checkpoint

\* The empty namespace is one.
LEMMA NoNamespaceIsOne == NoNamespace \in Namespace
BY MovementAssumption DEF NoNamespace, Namespace, Generations

\* A step that changes cells and jobs only, within their types.
LEMMA CellsTyped ==
    ASSUME Types, CellTypes', job' \in [Jobs -> Job], UNCHANGED <<globalVars, request, faults>>
    PROVE  Types'
BY DEF Types, GlobalTypes, ActorTypes, RecordsSane, globalVars

\* A step that changes moves and jobs, within their types, and nothing of the Account.
LEMMA MovesTyped ==
    ASSUME Types, moves' \in Seq(Move), RecordsSane', job' \in [Jobs -> Job], directory' \in {"active", "moving"},
           UNCHANGED <<account, assigned, cellVars, request, faults>>
    PROVE  Types'
BY DEF Types, GlobalTypes, ActorTypes, CellTypes, cellVars

\* A change of placement keeps the counters and the Account in their types.
LEMMA PlaceTyped ==
    ASSUME Types, NEW from \in Cells, NEW to \in Cells, NEW g \in Nat, from # to, assigned[from] > 0, Place(from, to, g)
    PROVE  /\ account' \in [cell : Cells, generation : Nat, version : Nat, state : {"active", "suspended"}]
           /\ directory' = "active" /\ assigned' \in [Cells -> Nat]
           /\ account'.cell = to /\ account'.generation = g /\ account'.version = account.version + 1
           /\ account'.state = account.state
           /\ assigned'[from] = assigned[from] - 1 /\ assigned'[to] = assigned[to] + 1
           /\ \A c \in Cells : c # from /\ c # to => assigned'[c] = assigned[c]
<1>1. PICK a \in [cell : Cells, generation : Nat, version : Nat, state : {"active", "suspended"}] : a = account
  BY DEF Types, GlobalTypes
<1>2. account' = [a EXCEPT !.cell = to, !.generation = g, !.version = a.version + 1]
  BY <1>1 DEF Place
<1>3. assigned \in [Cells -> Nat]
  BY DEF Types, GlobalTypes
<1>4. /\ assigned'[from] = assigned[from] - 1 /\ assigned'[to] = assigned[to] + 1
      /\ \A c \in Cells : c # from /\ c # to => assigned'[c] = assigned[c]
      /\ DOMAIN assigned' = Cells
  BY <1>3 DEF Place
<1>5. assigned' \in [Cells -> Nat]
  <2>1. \A c \in Cells : assigned'[c] \in Nat
    BY <1>3, <1>4
  <2>2. assigned' = [c \in Cells |-> assigned'[c]]
    BY <1>3 DEF Place
  <2> QED
    BY <2>1, <2>2
<1>8. PICK v \in Nat : v = a.version + 1
  BY <1>1
<1>6. /\ [a EXCEPT !.cell = to, !.generation = g, !.version = v]
            \in [cell : Cells, generation : Nat, version : Nat, state : {"active", "suspended"}]
      /\ account'.cell = to /\ account'.generation = g /\ account'.version = a.version + 1 /\ account'.state = a.state
  BY <1>1, <1>2, <1>8
<1>7. directory' = "active"
  BY DEF Place
<1> QED
  BY <1>1, <1>2, <1>4, <1>5, <1>6, <1>7, <1>8

\* Types are preserved.
LEMMA NextTypes ==
    ASSUME OneJobAtATime, Types, History, JobsKnow, Next
    PROVE  Types'
<1>1. CASE Routes
  BY <1>1 DEF Routes, Requests, Types, GlobalTypes, CellTypes, ActorTypes, RecordsSane, globalVars, cellVars
<1>2. ASSUME NEW c \in Cells, NEW w \in Writes, NEW v \in {"queued", "done"}, RowWritten(c, w, v) PROVE Types'
  <2>1. data' \in [Cells -> Rows]
    BY <1>2 DEF RowWritten, Types, CellTypes, Rows, RowStates
  <2> QED
    BY <1>2, <2>1
       DEF RowWritten, Requests, Types, GlobalTypes, CellTypes, ActorTypes, RecordsSane, globalVars
<1>3. CASE ChangeAccountState
  <2>1. account' \in [cell : Cells, generation : Nat, version : Nat, state : {"active", "suspended"}]
    <3>1. PICK a \in [cell : Cells, generation : Nat, version : Nat, state : {"active", "suspended"}] : a = account
      BY DEF Types, GlobalTypes
    <3>2. account' = [a EXCEPT !.version = a.version + 1, !.state = IF a.state = "active" THEN "suspended" ELSE "active"]
      BY <1>3, <3>1 DEF ChangeAccountState
    <3>3. PICK v \in Nat : v = a.version + 1
      BY <3>1
    <3>4. PICK s \in {"active", "suspended"} : s = IF a.state = "active" THEN "suspended" ELSE "active"
      OBVIOUS
    <3>5. account' = [a EXCEPT !.version = v, !.state = s]
      BY <3>2, <3>3, <3>4
    <3> QED
      BY <3>1, <3>3, <3>4, <3>5
  <2> QED
    BY <1>3, <2>1 DEF ChangeAccountState, Types, GlobalTypes, CellTypes, ActorTypes, RecordsSane, cellVars
<1>4. ASSUME NEW c \in Cells, Prepare(c) PROVE Types'
  <2>1. moves' \in Seq(Move)
    BY <1>4, PrepareDoes
  <2>2. RecordsSane'
    <3>1. ASSUME NEW n \in DOMAIN moves'
          PROVE  /\ (moves'[n].state = "paused") = (moves'[n].resume # "none")
                 /\ moves'[n].source # moves'[n].destination
                 /\ moves'[n].live => moves'[n].lease # NoLease
      <4>1. CASE n = Len(moves) + 1
        <5>1. moves'[n] = PreparedRecord(c) /\ c # account.cell
          BY <1>4, <4>1, PrepareDoes
        <5> QED
          BY <5>1 DEF PreparedRecord
      <4>2. CASE n # Len(moves) + 1
        <5>1. n \in DOMAIN moves /\ moves'[n] = moves[n]
          BY <1>4, <4>2, PrepareDoes
        <5> QED
          BY <5>1 DEF Types, RecordsSane
      <4> QED
        BY <4>1, <4>2
    <3> QED
      BY <3>1 DEF RecordsSane
  <2>3. UNCHANGED <<account, directory, assigned, cellVars, job, request, faults>>
    BY <1>4, PrepareDoes
  <2>4. job' \in [Jobs -> Job] /\ directory' \in {"active", "moving"}
    BY <2>3 DEF Types, ActorTypes, GlobalTypes
  <2> QED
    BY <2>1, <2>2, <2>3, <2>4, MovesTyped
<1>5. CASE Quiet
  BY <1>5 DEF Quiet, Relabeled, Fixed, Types, GlobalTypes, CellTypes, ActorTypes, cellVars
<1>6. ASSUME NEW j \in Jobs, StageSource(j) PROVE Types'
  <2>1. PICK m \in DOMAIN moves : m = job[j].move
    BY <1>6, StageSourceDoes DEF Works
  <2>2. m \in 1..MaxMoves /\ Source(m) \in Cells /\ Destination(m) \in Cells
        /\ SourceGeneration(m) \in Generations /\ DestinationGeneration(m) \in Generations
        /\ RollbackGeneration(m) \in Generations
    BY MoveFacts
  <2>3. CellTypes
    BY DEF Types
  <2>4. /\ namespace' = [namespace EXCEPT ![Source(m)] = [generation |-> SourceGeneration(m), state |-> "moving"]]
        /\ checkpoint' = [checkpoint EXCEPT ![Source(m)][m] = [state |-> "frozen", generation |-> SourceGeneration(m)]]
        /\ UNCHANGED data
    BY <1>6, <2>1, StageSourceDoes
  <2>5. namespace' \in [Cells -> Namespace]
    <3>1. [generation |-> SourceGeneration(m), state |-> "moving"] \in Namespace
      BY <2>2, CellValues
    <3> QED
      BY <2>2, <2>3, <2>4, <3>1, CellWrites
  <2>6. checkpoint' \in [Cells -> [1..MaxMoves -> Checkpoint]]
    <3>1. [state |-> "frozen", generation |-> SourceGeneration(m)] \in Checkpoint
      BY <2>2, CellValues
    <3> QED
      BY <2>2, <2>3, <2>4, <3>1, CellWrites
  <2>7. CellTypes'
    BY <2>3, <2>4, <2>5, <2>6 DEF CellTypes, cellVars
  <2>8. job' \in [Jobs -> Job] /\ UNCHANGED <<globalVars, request, faults>>
    BY <1>6, StageSourceDoes DEF JobAt
  <2> QED
    BY <2>7, <2>8, CellsTyped
<1>7. ASSUME NEW j \in Jobs, StageDestination(j) PROVE Types'
  <2>1. PICK m \in DOMAIN moves : m = job[j].move
    BY <1>7, StageDestinationDoes DEF Works
  <2>2. m \in 1..MaxMoves /\ Source(m) \in Cells /\ Destination(m) \in Cells
        /\ SourceGeneration(m) \in Generations /\ DestinationGeneration(m) \in Generations
        /\ RollbackGeneration(m) \in Generations
    BY MoveFacts
  <2>3. CellTypes
    BY DEF Types
  <2>4. /\ namespace' = [namespace EXCEPT ![Destination(m)] = [generation |-> DestinationGeneration(m), state |-> "moving"]]
        /\ checkpoint' = [checkpoint EXCEPT ![Destination(m)][m] = [state |-> "staged", generation |-> DestinationGeneration(m)]]
        /\ UNCHANGED data
    BY <1>7, <2>1, StageDestinationDoes
  <2>5. namespace' \in [Cells -> Namespace]
    <3>1. [generation |-> DestinationGeneration(m), state |-> "moving"] \in Namespace
      BY <2>2, CellValues
    <3> QED
      BY <2>2, <2>3, <2>4, <3>1, CellWrites
  <2>6. checkpoint' \in [Cells -> [1..MaxMoves -> Checkpoint]]
    <3>1. [state |-> "staged", generation |-> DestinationGeneration(m)] \in Checkpoint
      BY <2>2, CellValues
    <3> QED
      BY <2>2, <2>3, <2>4, <3>1, CellWrites
  <2>7. CellTypes'
    BY <2>3, <2>4, <2>5, <2>6 DEF CellTypes, cellVars
  <2>8. job' \in [Jobs -> Job] /\ UNCHANGED <<globalVars, request, faults>>
    BY <1>7, StageDestinationDoes DEF JobAt
  <2> QED
    BY <2>7, <2>8, CellsTyped
<1>8. ASSUME NEW j \in Jobs, Drain(j) PROVE Types'
  <2>1. moves' \in Seq(Move) /\ RecordsSane' /\ job' \in [Jobs -> Job]
    BY <1>8, DrainDoes DEF Advanced, Fixed, JobAt
  <2>2. directory' \in {"active", "moving"} /\ UNCHANGED <<account, assigned, cellVars, request, faults>>
    BY <1>8, DrainDoes DEF Types, GlobalTypes
  <2> QED
    BY <2>1, <2>2, MovesTyped
<1>9. ASSUME NEW j \in Jobs, ReadSource(j) PROVE Types'
  <2>1. CellTypes'
    BY <1>9, ReadSourceDoes DEF Types, CellTypes, cellVars
  <2>2. job' \in [Jobs -> Job] /\ UNCHANGED <<globalVars, request, faults>>
    BY <1>9, ReadSourceDoes DEF JobAt
  <2> QED
    BY <2>1, <2>2, CellsTyped
<1>10. ASSUME NEW j \in Jobs, WriteDestination(j) PROVE Types'
  <2>1. PICK m \in DOMAIN moves : m = job[j].move
    BY <1>10, WriteDestinationDoes DEF Works
  <2>2. m \in 1..MaxMoves /\ Source(m) \in Cells /\ Destination(m) \in Cells
        /\ SourceGeneration(m) \in Generations /\ DestinationGeneration(m) \in Generations
        /\ RollbackGeneration(m) \in Generations
    BY MoveFacts
  <2>3. CellTypes
    BY DEF Types
  <2>4. data' \in [Cells -> Rows]
    <3>1. data' = [data EXCEPT ![Destination(m)] = job[j].seen]
      BY <1>10, <2>1, WriteDestinationDoes
    <3>2. job[j].seen \in Rows
      BY RowFields
    <3> QED
      BY <2>2, <2>3, <3>1, <3>2, CellWrites
  <2>5. UNCHANGED <<namespace, checkpoint>>
    BY <1>10, WriteDestinationDoes
  <2>7. CellTypes'
    BY <2>3, <2>3, <2>4, <2>5 DEF CellTypes, cellVars
  <2>8. job' \in [Jobs -> Job] /\ UNCHANGED <<globalVars, request, faults>>
    BY <1>10, WriteDestinationDoes DEF JobAt
  <2> QED
    BY <2>7, <2>8, CellsTyped
<1>11. ASSUME NEW j \in Jobs, CompareCopy(j) PROVE Types'
  <2>1. CellTypes'
    BY <1>11, CompareCopyDoes DEF Types, CellTypes, cellVars
  <2>2. job' \in [Jobs -> Job] /\ UNCHANGED <<globalVars, request, faults>>
    BY <1>11, CompareCopyDoes DEF JobAt
  <2> QED
    BY <2>1, <2>2, CellsTyped
<1>12. ASSUME NEW j \in Jobs, RecordEvidence(j) PROVE Types'
  <2>1. PICK m \in DOMAIN moves : m = job[j].move
    BY <1>12, RecordEvidenceDoes DEF Works
  <2>2. m \in 1..MaxMoves /\ Source(m) \in Cells /\ Destination(m) \in Cells
        /\ SourceGeneration(m) \in Generations /\ DestinationGeneration(m) \in Generations
        /\ RollbackGeneration(m) \in Generations
    BY MoveFacts
  <2>3. CellTypes
    BY DEF Types
  <2>4. checkpoint' \in [Cells -> [1..MaxMoves -> Checkpoint]]
    <3>1. PICK c \in Cells : checkpoint' = [checkpoint EXCEPT ![c][m].state = "copied"]
      BY <1>12, <2>1, RecordEvidenceDoes
    <3> QED
      BY <2>2, <2>3, <3>1, CellWrites
  <2>5. UNCHANGED <<namespace, data>>
    BY <1>12, RecordEvidenceDoes
  <2>7. CellTypes'
    BY <2>3, <2>3, <2>4, <2>5 DEF CellTypes, cellVars
  <2>8. job' \in [Jobs -> Job] /\ UNCHANGED <<globalVars, request, faults>>
    BY <1>12, RecordEvidenceDoes DEF JobAt
  <2> QED
    BY <2>7, <2>8, CellsTyped
<1>13. ASSUME NEW j \in Jobs, AdvanceCopied(j) PROVE Types'
  <2>1. moves' \in Seq(Move) /\ RecordsSane' /\ job' \in [Jobs -> Job]
    BY <1>13, AdvanceCopiedDoes DEF Advanced, Fixed, JobAt
  <2>2. directory' \in {"active", "moving"} /\ UNCHANGED <<account, assigned, cellVars, request, faults>>
    BY <1>13, AdvanceCopiedDoes DEF Types, GlobalTypes
  <2> QED
    BY <2>1, <2>2, MovesTyped
<1>14. ASSUME NEW j \in Jobs, AdvanceReady(j) PROVE Types'
  <2>1. moves' \in Seq(Move) /\ RecordsSane' /\ job' \in [Jobs -> Job]
    BY <1>14, AdvanceReadyDoes DEF Advanced, Fixed, JobAt
  <2>2. directory' \in {"active", "moving"} /\ UNCHANGED <<account, assigned, cellVars, request, faults>>
    BY <1>14, AdvanceReadyDoes DEF Types, GlobalTypes
  <2> QED
    BY <2>1, <2>2, MovesTyped
<1>15. ASSUME NEW j \in Jobs, Switch(j) PROVE Types'
  <2>1. PICK m \in DOMAIN moves :
           /\ moves' \in Seq(Move) /\ RecordsSane' /\ job' \in [Jobs -> Job] /\ Switchable(m)
           /\ Place(Source(m), Destination(m), DestinationGeneration(m)) /\ UNCHANGED <<cellVars, request, faults>>
    BY <1>15, SwitchDoes DEF Advanced, Fixed, JobAt
  <2>2. Source(m) \in Cells /\ Destination(m) \in Cells /\ Source(m) # Destination(m) /\ DestinationGeneration(m) \in Nat
    BY MoveFacts DEF Generations
  <2>3. assigned[Source(m)] > 0
    BY <2>1 DEF Switchable
  <2>4. /\ account' \in [cell : Cells, generation : Nat, version : Nat, state : {"active", "suspended"}]
        /\ directory' = "active" /\ assigned' \in [Cells -> Nat]
    BY <2>1, <2>2, <2>3, PlaceTyped
  <2> QED
    BY <2>1, <2>4 DEF Types, GlobalTypes, CellTypes, ActorTypes, cellVars
<1>16. ASSUME NEW j \in Jobs, ActivateDestination(j) PROVE Types'
  <2>1. PICK m \in DOMAIN moves : m = job[j].move
    BY <1>16, ActivateDestinationDoes DEF Works
  <2>2. m \in 1..MaxMoves /\ Source(m) \in Cells /\ Destination(m) \in Cells
        /\ SourceGeneration(m) \in Generations /\ DestinationGeneration(m) \in Generations
        /\ RollbackGeneration(m) \in Generations
    BY MoveFacts
  <2>3. CellTypes
    BY DEF Types
  <2>4. /\ namespace' = [namespace EXCEPT ![Destination(m)] = [generation |-> DestinationGeneration(m), state |-> "active"]]
        /\ checkpoint' = [checkpoint EXCEPT ![Destination(m)][m] = [state |-> "active", generation |-> DestinationGeneration(m)]]
        /\ UNCHANGED data
    BY <1>16, <2>1, ActivateDestinationDoes
  <2>5. namespace' \in [Cells -> Namespace]
    <3>1. [generation |-> DestinationGeneration(m), state |-> "active"] \in Namespace
      BY <2>2, CellValues
    <3> QED
      BY <2>2, <2>3, <2>4, <3>1, CellWrites
  <2>6. checkpoint' \in [Cells -> [1..MaxMoves -> Checkpoint]]
    <3>1. [state |-> "active", generation |-> DestinationGeneration(m)] \in Checkpoint
      BY <2>2, CellValues
    <3> QED
      BY <2>2, <2>3, <2>4, <3>1, CellWrites
  <2>7. CellTypes'
    BY <2>3, <2>4, <2>5, <2>6 DEF CellTypes, cellVars
  <2>8. job' \in [Jobs -> Job] /\ UNCHANGED <<globalVars, request, faults>>
    BY <1>16, ActivateDestinationDoes DEF JobAt
  <2> QED
    BY <2>7, <2>8, CellsTyped
<1>17. ASSUME NEW j \in Jobs, Rollback(j) PROVE Types'
  <2>1. PICK m \in DOMAIN moves :
           /\ moves' \in Seq(Move) /\ RecordsSane' /\ job' \in [Jobs -> Job] /\ Reversible(m)
           /\ Place(Destination(m), Source(m), RollbackGeneration(m)) /\ UNCHANGED <<cellVars, request, faults>>
    BY <1>17, RollbackDoes DEF Advanced, Fixed, JobAt
  <2>2. Source(m) \in Cells /\ Destination(m) \in Cells /\ Source(m) # Destination(m) /\ RollbackGeneration(m) \in Nat
    BY MoveFacts DEF Generations
  <2>3. assigned[Destination(m)] > 0
    BY <2>1 DEF Reversible
  <2>4. /\ account' \in [cell : Cells, generation : Nat, version : Nat, state : {"active", "suspended"}]
        /\ directory' = "active" /\ assigned' \in [Cells -> Nat]
    BY <2>1, <2>2, <2>3, PlaceTyped
  <2> QED
    BY <2>1, <2>4 DEF Types, GlobalTypes, CellTypes, ActorTypes, cellVars
<1>18. ASSUME NEW j \in Jobs, ActivateSource(j) PROVE Types'
  <2>1. PICK m \in DOMAIN moves : m = job[j].move
    BY <1>18, ActivateSourceDoes DEF Works
  <2>2. m \in 1..MaxMoves /\ Source(m) \in Cells /\ Destination(m) \in Cells
        /\ SourceGeneration(m) \in Generations /\ DestinationGeneration(m) \in Generations
        /\ RollbackGeneration(m) \in Generations
    BY MoveFacts
  <2>3. CellTypes
    BY DEF Types
  <2>4. /\ namespace' = [namespace EXCEPT ![Source(m)] = [generation |-> RollbackGeneration(m), state |-> "active"]]
        /\ checkpoint' = [checkpoint EXCEPT ![Source(m)][m] = [state |-> "rollback_active", generation |-> RollbackGeneration(m)]]
        /\ UNCHANGED data
    BY <1>18, <2>1, ActivateSourceDoes
  <2>5. namespace' \in [Cells -> Namespace]
    <3>1. [generation |-> RollbackGeneration(m), state |-> "active"] \in Namespace
      BY <2>2, CellValues
    <3> QED
      BY <2>2, <2>3, <2>4, <3>1, CellWrites
  <2>6. checkpoint' \in [Cells -> [1..MaxMoves -> Checkpoint]]
    <3>1. [state |-> "rollback_active", generation |-> RollbackGeneration(m)] \in Checkpoint
      BY <2>2, CellValues
    <3> QED
      BY <2>2, <2>3, <2>4, <3>1, CellWrites
  <2>7. CellTypes'
    BY <2>3, <2>4, <2>5, <2>6 DEF CellTypes, cellVars
  <2>8. job' \in [Jobs -> Job] /\ UNCHANGED <<globalVars, request, faults>>
    BY <1>18, ActivateSourceDoes DEF JobAt
  <2> QED
    BY <2>7, <2>8, CellsTyped
<1>19. ASSUME NEW j \in Jobs, FreezeDestination(j) PROVE Types'
  <2>1. PICK m \in DOMAIN moves : m = job[j].move
    BY <1>19, FreezeDestinationDoes DEF Works
  <2>2. m \in 1..MaxMoves /\ Source(m) \in Cells /\ Destination(m) \in Cells
        /\ SourceGeneration(m) \in Generations /\ DestinationGeneration(m) \in Generations
        /\ RollbackGeneration(m) \in Generations
    BY MoveFacts
  <2>3. CellTypes
    BY DEF Types
  <2>4. /\ namespace' = [namespace EXCEPT ![Destination(m)] = [generation |-> DestinationGeneration(m), state |-> "moving"]]
        /\ checkpoint' = [checkpoint EXCEPT ![Destination(m)][m].state = "frozen"]
        /\ UNCHANGED data
    BY <1>19, <2>1, FreezeDestinationDoes
  <2>5. namespace' \in [Cells -> Namespace]
    <3>1. [generation |-> DestinationGeneration(m), state |-> "moving"] \in Namespace
      BY <2>2, CellValues
    <3> QED
      BY <2>2, <2>3, <2>4, <3>1, CellWrites
  <2>6. checkpoint' \in [Cells -> [1..MaxMoves -> Checkpoint]]
    BY <2>2, <2>3, <2>4, CellWrites
  <2>7. CellTypes'
    BY <2>3, <2>4, <2>5, <2>6 DEF CellTypes, cellVars
  <2>8. job' \in [Jobs -> Job] /\ UNCHANGED <<globalVars, request, faults>>
    BY <1>19, FreezeDestinationDoes DEF JobAt
  <2> QED
    BY <2>7, <2>8, CellsTyped
<1>20. ASSUME NEW j \in Jobs, BeginRetirement(j) PROVE Types'
  <2>1. moves' \in Seq(Move) /\ RecordsSane' /\ job' \in [Jobs -> Job]
    BY <1>20, BeginRetirementDoes DEF Advanced, Fixed, JobAt
  <2>2. directory' \in {"active", "moving"} /\ UNCHANGED <<account, assigned, cellVars, request, faults>>
    BY <1>20, BeginRetirementDoes DEF Types, GlobalTypes
  <2> QED
    BY <2>1, <2>2, MovesTyped
<1>21. ASSUME NEW j \in Jobs, RetireSource(j) PROVE Types'
  <2>1. PICK m \in DOMAIN moves : m = job[j].move
    BY <1>21, RetireSourceDoes DEF Works
  <2>2. m \in 1..MaxMoves /\ Source(m) \in Cells /\ Destination(m) \in Cells
        /\ SourceGeneration(m) \in Generations /\ DestinationGeneration(m) \in Generations
        /\ RollbackGeneration(m) \in Generations
    BY MoveFacts
  <2>3. CellTypes
    BY DEF Types
  <2>4. \/ UNCHANGED cellVars
        \/ /\ namespace' = [namespace EXCEPT ![Source(m)] = NoNamespace]
           /\ data' = [data EXCEPT ![Source(m)] = NoRows]
           /\ checkpoint' = [checkpoint EXCEPT ![Source(m)][m].state = "retired"]
    BY <1>21, <2>1, RetireSourceDoes
  <2>5. \/ UNCHANGED cellVars
        \/ /\ namespace' \in [Cells -> Namespace] /\ data' \in [Cells -> Rows]
           /\ checkpoint' \in [Cells -> [1..MaxMoves -> Checkpoint]]
    <3>1. /\ [namespace EXCEPT ![Source(m)] = NoNamespace] \in [Cells -> Namespace]
          /\ [data EXCEPT ![Source(m)] = NoRows] \in [Cells -> Rows]
      BY <2>2, <2>3, CellWrites, NoNamespaceIsOne, NoRowsAreRows
    <3>2. [checkpoint EXCEPT ![Source(m)][m].state = "retired"] \in [Cells -> [1..MaxMoves -> Checkpoint]]
      BY <2>2, <2>3, CellWrites
    <3> QED
      BY <2>4, <3>1, <3>2
  <2>7. CellTypes'
    BY <2>3, <2>3, <2>5 DEF CellTypes, cellVars
  <2>8. job' \in [Jobs -> Job] /\ UNCHANGED <<globalVars, request, faults>>
    BY <1>21, RetireSourceDoes DEF JobAt
  <2> QED
    BY <2>7, <2>8, CellsTyped
<1>22. ASSUME NEW j \in Jobs, Complete(j) PROVE Types'
  <2>1. moves' \in Seq(Move) /\ RecordsSane' /\ job' \in [Jobs -> Job]
    BY <1>22, CompleteDoes DEF Advanced, Fixed, JobAt
  <2>2. directory' \in {"active", "moving"} /\ UNCHANGED <<account, assigned, cellVars, request, faults>>
    BY <1>22, CompleteDoes DEF Types, GlobalTypes
  <2> QED
    BY <2>1, <2>2, MovesTyped
<1> QED
  BY NextSplit, <1>1, <1>2, <1>3, <1>4, <1>5, <1>6, <1>7, <1>8, <1>9, <1>10, <1>11, <1>12, <1>13, <1>14,
     <1>15, <1>16, <1>17, <1>18, <1>19, <1>20, <1>21, <1>22

-------------------------------------------------------------------------------
(***************************************************************************)
(* The history is preserved                                                *)
(***************************************************************************)

\* A step that takes no move across the switch or back keeps the history.
LEMMA HistoryKept ==
    ASSUME Types, History, Placing, Fixed,
           account'.cell = account.cell, account'.generation = account.generation,
           account'.generation <= account'.version, account'.version <= account'.generation + MaxChanges,
           \A m \in DOMAIN moves : /\ (Phase(m)' = "rolled_back") = (Phase(m) = "rolled_back")
                                   /\ (Phase(m)' \in Left) = (Phase(m) \in Left)
                                   /\ Phase(m) \in {"completed", "rolled_back"} => Phase(m)' = Phase(m)
    PROVE  History' /\ Placing'
<1>1. \A m \in DOMAIN moves : After(m)' = After(m)
  BY DEF After, Fixed
<1>2. History'
  <2>1. \A m \in DOMAIN moves : Phase(m) \in {"completed", "rolled_back"} => Phase(m)' \in {"completed", "rolled_back"}
    OBVIOUS
  <2>2. ASSUME NEW m \in DOMAIN moves', NEW n \in DOMAIN moves', m < n
        PROVE  Phase(m)' \in {"completed", "rolled_back"} /\ After(m)' <= moves'[n].generation
    BY <1>1, <2>1, <2>2 DEF History, Fixed
  <2>3. \A m \in DOMAIN moves' : moves'[m].generation \in 1..(2 * m - 1)
    BY DEF History, Fixed
  <2> QED
    BY <2>2, <2>3 DEF History, Fixed
<1>3. Len(moves) # 0 => Len(moves) \in DOMAIN moves
  BY Records DEF Types, GlobalTypes
<1>4. Placing'
  BY <1>1, <1>3 DEF Placing, Fixed, Source, Destination
<1> QED
  BY <1>2, <1>4

\* Nothing happens to the history where no record changes.
LEMMA HistoryUnchanged ==
    ASSUME Types, History, Placing, UNCHANGED <<account, moves>>
    PROVE  History' /\ Placing'
<1>1. Fixed /\ \A m \in DOMAIN moves : Phase(m)' = Phase(m)
  BY DEF Types, GlobalTypes, Fixed, Phase
<1> QED
  BY <1>1, HistoryKept DEF Placing

\* The history after the last move has crossed the switch, or come back.
LEMMA HistoryPlaced ==
    ASSUME Types, History, Placing, NEW m \in DOMAIN moves, NEW to \in {"switched", "rolled_back"},
           Phase(m) \notin {"completed", "rolled_back"}, Fixed, Phase(m)' = to,
           \A n \in DOMAIN moves : n # m => Phase(n)' = Phase(n),
           account'.cell = IF to = "switched" THEN Destination(m) ELSE Source(m),
           account'.generation = account.generation + 1, account'.version = account.version + 1,
           account'.generation = IF to = "switched" THEN DestinationGeneration(m) ELSE RollbackGeneration(m)
    PROVE  History' /\ Placing'
<1>1. /\ m = Len(moves) /\ m \in Nat /\ m >= 1
      /\ \A n \in DOMAIN moves : n # m => n < m /\ n \in Nat
  BY OpenIsLast, Records DEF Types, GlobalTypes
<1>2. \A n \in DOMAIN moves : n # m => After(n)' = After(n)
  BY DEF After, Fixed
<1>3. History'
  <2>1. \A n, k \in DOMAIN moves' : n < k => n # m
    BY <1>1 DEF Fixed
  <2>2. \A n, k \in DOMAIN moves' : n < k => /\ Phase(n)' \in {"completed", "rolled_back"}
                                             /\ After(n)' <= moves'[k].generation
    BY <1>2, <2>1 DEF History, Fixed
  <2> QED
    BY <2>2 DEF History, Fixed
<1>4. Len(moves') = m /\ moves'[m].generation = moves[m].generation
      /\ Source(m)' = Source(m) /\ Destination(m)' = Destination(m)
  BY <1>1 DEF Fixed, Source, Destination
<1>5. After(m)' = account'.generation
  BY <1>4, MoveFacts DEF After, Left, DestinationGeneration, RollbackGeneration
<1>6. account'.cell = IF Phase(m)' \in Left THEN Destination(m)' ELSE Source(m)'
  BY <1>4 DEF Left
<1>7. account'.generation <= account'.version /\ account'.version <= account'.generation + MaxChanges
  BY RowFields, MovementAssumption DEF Placing
<1> QED
  BY <1>1, <1>3, <1>4, <1>5, <1>6, <1>7 DEF Placing

\* The history after a prepared move.
LEMMA HistoryPrepared ==
    ASSUME Types, History, Placing, NEW c \in Cells, Prepare(c)
    PROVE  History' /\ Placing'
<1>0. PICK N \in Nat : N = Len(moves) + 1
  BY Records DEF Types, GlobalTypes
<1>1. /\ Len(moves) \in Nat /\ DOMAIN moves = 1..Len(moves) /\ DOMAIN moves' = 1..N /\ Len(moves') = N
      /\ moves'[N] = PreparedRecord(c)
      /\ \A n \in DOMAIN moves : n \in DOMAIN moves' /\ n # N /\ moves'[n] = moves[n]
      /\ Len(moves) < MaxMoves /\ ~OpenMove /\ UNCHANGED account
  BY <1>0, PrepareDoes
<1>2. Phase(N)' = "prepared" /\ moves'[N].generation = account.generation /\ moves'[N].source = account.cell
  BY <1>1 DEF Phase, PreparedRecord
<1>3. \A n \in DOMAIN moves : Phase(n)' = Phase(n) /\ After(n)' = After(n)
  BY <1>1 DEF Phase, After
<1>4. \A n \in DOMAIN moves : Phase(n) \in {"completed", "rolled_back"}
  BY <1>1 DEF OpenMove, Phase
<1>5. account.generation \in Nat
  BY RowFields
<1>6. Len(moves) # 0 => /\ Len(moves) \in DOMAIN moves /\ account.generation = After(Len(moves))
  BY <1>1 DEF Placing
<1>7. \A n \in DOMAIN moves : /\ moves[n].generation \in Nat /\ After(n) \in Nat /\ n \in Nat
                              /\ moves[n].generation >= 1 /\ moves[n].generation <= 2 * n - 1
                              /\ moves[n].generation <= After(n) /\ After(n) <= moves[n].generation + 2
  <2> TAKE n \in DOMAIN moves
  <2>1. moves[n].generation \in Nat /\ n \in Nat /\ moves[n].generation >= 1 /\ moves[n].generation <= 2 * n - 1
    BY MoveFacts
  <2> QED
    BY <2>1 DEF After
<1>8. account.generation \in 1..(2 * N - 1)
  <2>1. CASE Len(moves) = 0
    BY <2>1, <1>0, <1>1, <1>5 DEF Placing
  <2>2. CASE Len(moves) # 0
    <3>1. PICK k \in DOMAIN moves : k = Len(moves)
      BY <2>2, <1>6
    <3>2. PICK g \in Nat : g = moves[k].generation
      BY <3>1, <1>7
    <3>3. account.generation <= g + 2 /\ account.generation >= g /\ g >= 1 /\ g <= 2 * Len(moves) - 1
      BY <1>6, <1>7, <2>2, <3>1, <3>2
    <3> QED
      BY <1>0, <1>1, <1>5, <3>2, <3>3
  <2> QED
    BY <2>1, <2>2
<1>9. \A n \in DOMAIN moves : After(n) <= account.generation
  <2> TAKE n \in DOMAIN moves
  <2>1. PICK k \in DOMAIN moves : k = Len(moves) /\ account.generation = After(k)
    BY <1>1, <1>6
  <2>2. n < k => After(n) <= moves[k].generation
    BY DEF History
  <2>3. n = k \/ n < k
    BY <1>1, <1>7, <2>1
  <2> QED
    BY <1>7, <2>1, <2>2, <2>3
<1>10. History'
  <2>1. Len(moves') <= MaxMoves
    BY <1>0, <1>1, MovementAssumption
  <2>2. \A n \in DOMAIN moves' : moves'[n].generation \in 1..(2 * n - 1)
    <3> TAKE n \in DOMAIN moves'
    <3>1. CASE n = N
      BY <3>1, <1>2, <1>8
    <3>2. CASE n # N
      <4>1. n \in DOMAIN moves
        BY <3>2, <1>0, <1>1
      <4> QED
        BY <4>1, <1>1 DEF History
    <3> QED
      BY <3>1, <3>2
  <2>3. ASSUME NEW a \in DOMAIN moves', NEW b \in DOMAIN moves', a < b
        PROVE  Phase(a)' \in {"completed", "rolled_back"} /\ After(a)' <= moves'[b].generation
    <3>1. a \in DOMAIN moves
      BY <1>0, <1>1, <2>3
    <3>2. CASE b = N
      BY <3>1, <3>2, <1>2, <1>3, <1>4, <1>9
    <3>3. CASE b # N
      <4>1. b \in DOMAIN moves
        BY <3>3, <1>0, <1>1
      <4> QED
        BY <2>3, <3>1, <4>1, <1>1, <1>3, <1>4 DEF History
    <3> QED
      BY <3>2, <3>3
  <2> QED
    BY <2>1, <2>2, <2>3 DEF History
<1>11. Placing'
  <2>1. After(N)' = account.generation /\ Source(N)' = account.cell
    BY <1>2 DEF After, Left, Source
  <2>2. Phase(N)' \notin Left
    BY <1>2 DEF Left
  <2> QED
    BY <1>0, <1>1, <2>1, <2>2 DEF Placing
<1> QED
  BY <1>10, <1>11

\* The history of the placements is preserved.
LEMMA NextHistory ==
    ASSUME OneJobAtATime, Types, History, Placing, JobsKnow, Next
    PROVE  History' /\ Placing'
<1>1. CASE Routes
  <2>1. UNCHANGED <<account, moves>>
    BY <1>1 DEF Routes, globalVars
  <2> QED
    BY <2>1, HistoryUnchanged
<1>2. ASSUME NEW c \in Cells, NEW w \in Writes, NEW v \in {"queued", "done"}, RowWritten(c, w, v) PROVE History' /\ Placing'
  <2>1. UNCHANGED <<account, moves>>
    BY <1>2 DEF RowWritten, globalVars
  <2> QED
    BY <2>1, HistoryUnchanged
<1>3. CASE ChangeAccountState
  <2>1. UNCHANGED moves /\ account'.cell = account.cell /\ account'.generation = account.generation
        /\ account'.version = account.version + 1 /\ account.version - account.generation < MaxChanges
    BY <1>3 DEF ChangeAccountState, Types, GlobalTypes
  <2>2. account'.generation <= account'.version /\ account'.version <= account'.generation + MaxChanges
    BY <2>1, RowFields, MovementAssumption DEF Placing
  <2>3. Fixed /\ \A m \in DOMAIN moves : Phase(m)' = Phase(m)
    BY <2>1 DEF Types, GlobalTypes, Fixed, Phase
  <2> QED
    BY <2>1, <2>2, <2>3, HistoryKept
<1>4. ASSUME NEW c \in Cells, Prepare(c) PROVE History' /\ Placing'
  BY <1>4, HistoryPrepared
<1>5. CASE Quiet
  BY <1>5, HistoryKept DEF Quiet, Relabeled, Placing
<1>6. ASSUME NEW j \in Jobs, StageSource(j) PROVE History' /\ Placing'
  <2>1. UNCHANGED <<account, moves>>
    BY <1>6, StageSourceDoes DEF globalVars
  <2> QED
    BY <2>1, HistoryUnchanged
<1>7. ASSUME NEW j \in Jobs, StageDestination(j) PROVE History' /\ Placing'
  <2>1. UNCHANGED <<account, moves>>
    BY <1>7, StageDestinationDoes DEF globalVars
  <2> QED
    BY <2>1, HistoryUnchanged
<1>8. ASSUME NEW j \in Jobs, Drain(j) PROVE History' /\ Placing'
  <2>1. PICK m \in DOMAIN moves :
           /\ Fixed /\ Phase(m) = "prepared" /\ Phase(m)' = "drained" /\ UNCHANGED account
           /\ \A n \in DOMAIN moves : n # m => Phase(n)' = Phase(n)
    BY <1>8, DrainDoes DEF Advanced, Works
  <2>2. \A n \in DOMAIN moves : /\ (Phase(n)' = "rolled_back") = (Phase(n) = "rolled_back")
                                /\ (Phase(n)' \in Left) = (Phase(n) \in Left)
                                /\ Phase(n) \in {"completed", "rolled_back"} => Phase(n)' = Phase(n)
    BY <2>1 DEF Left
  <2> QED
    BY <2>1, <2>2, HistoryKept DEF Placing
<1>9. ASSUME NEW j \in Jobs, ReadSource(j) PROVE History' /\ Placing'
  <2>1. UNCHANGED <<account, moves>>
    BY <1>9, ReadSourceDoes DEF globalVars
  <2> QED
    BY <2>1, HistoryUnchanged
<1>10. ASSUME NEW j \in Jobs, WriteDestination(j) PROVE History' /\ Placing'
  <2>1. UNCHANGED <<account, moves>>
    BY <1>10, WriteDestinationDoes DEF globalVars
  <2> QED
    BY <2>1, HistoryUnchanged
<1>11. ASSUME NEW j \in Jobs, CompareCopy(j) PROVE History' /\ Placing'
  <2>1. UNCHANGED <<account, moves>>
    BY <1>11, CompareCopyDoes DEF globalVars
  <2> QED
    BY <2>1, HistoryUnchanged
<1>12. ASSUME NEW j \in Jobs, RecordEvidence(j) PROVE History' /\ Placing'
  <2>1. UNCHANGED <<account, moves>>
    BY <1>12, RecordEvidenceDoes DEF globalVars
  <2> QED
    BY <2>1, HistoryUnchanged
<1>13. ASSUME NEW j \in Jobs, AdvanceCopied(j) PROVE History' /\ Placing'
  <2>1. PICK m \in DOMAIN moves :
           /\ Fixed /\ Phase(m) = "drained" /\ Phase(m)' = "copied" /\ UNCHANGED account
           /\ \A n \in DOMAIN moves : n # m => Phase(n)' = Phase(n)
    BY <1>13, AdvanceCopiedDoes DEF Advanced, Works
  <2>2. \A n \in DOMAIN moves : /\ (Phase(n)' = "rolled_back") = (Phase(n) = "rolled_back")
                                /\ (Phase(n)' \in Left) = (Phase(n) \in Left)
                                /\ Phase(n) \in {"completed", "rolled_back"} => Phase(n)' = Phase(n)
    BY <2>1 DEF Left
  <2> QED
    BY <2>1, <2>2, HistoryKept DEF Placing
<1>14. ASSUME NEW j \in Jobs, AdvanceReady(j) PROVE History' /\ Placing'
  <2>1. PICK m \in DOMAIN moves :
           /\ Fixed /\ Phase(m) = "copied" /\ Phase(m)' = "ready" /\ UNCHANGED account
           /\ \A n \in DOMAIN moves : n # m => Phase(n)' = Phase(n)
    BY <1>14, AdvanceReadyDoes DEF Advanced, Works
  <2>2. \A n \in DOMAIN moves : /\ (Phase(n)' = "rolled_back") = (Phase(n) = "rolled_back")
                                /\ (Phase(n)' \in Left) = (Phase(n) \in Left)
                                /\ Phase(n) \in {"completed", "rolled_back"} => Phase(n)' = Phase(n)
    BY <2>1 DEF Left
  <2> QED
    BY <2>1, <2>2, HistoryKept DEF Placing
<1>15. ASSUME NEW j \in Jobs, Switch(j) PROVE History' /\ Placing'
  <2>1. PICK m \in DOMAIN moves :
           /\ Fixed /\ Phase(m) = "ready" /\ Phase(m)' = "switched" /\ Switchable(m)
           /\ \A n \in DOMAIN moves : n # m => Phase(n)' = Phase(n)
           /\ Place(Source(m), Destination(m), DestinationGeneration(m))
    BY <1>15, SwitchDoes DEF Advanced, Works
  <2>2. Source(m) \in Cells /\ Destination(m) \in Cells /\ Source(m) # Destination(m) /\ DestinationGeneration(m) \in Nat
    BY MoveFacts DEF Generations
  <2>3. assigned[Source(m)] > 0
    BY <2>1 DEF Switchable
  <2>4. account'.cell = Destination(m) /\ account'.generation = DestinationGeneration(m) /\ account'.version = account.version + 1
    BY <2>1, <2>2, <2>3, PlaceTyped
  <2>5. DestinationGeneration(m) = account.generation + 1
    <3>1. PICK g \in Nat : g = moves[m].generation
      BY MoveFacts
    <3> QED
      BY <2>1, <3>1, MoveFacts DEF Switchable
  <2> QED
    BY <2>1, <2>4, <2>5, HistoryPlaced
<1>16. ASSUME NEW j \in Jobs, ActivateDestination(j) PROVE History' /\ Placing'
  <2>1. UNCHANGED <<account, moves>>
    BY <1>16, ActivateDestinationDoes DEF globalVars
  <2> QED
    BY <2>1, HistoryUnchanged
<1>17. ASSUME NEW j \in Jobs, Rollback(j) PROVE History' /\ Placing'
  <2>1. PICK m \in DOMAIN moves :
           /\ Fixed /\ Phase(m) = "switched" /\ Phase(m)' = "rolled_back" /\ Reversible(m)
           /\ \A n \in DOMAIN moves : n # m => Phase(n)' = Phase(n)
           /\ Place(Destination(m), Source(m), RollbackGeneration(m))
    BY <1>17, RollbackDoes DEF Advanced, Works
  <2>2. Source(m) \in Cells /\ Destination(m) \in Cells /\ Source(m) # Destination(m) /\ RollbackGeneration(m) \in Nat
    BY MoveFacts DEF Generations
  <2>3. assigned[Destination(m)] > 0
    BY <2>1 DEF Reversible
  <2>4. account'.cell = Source(m) /\ account'.generation = RollbackGeneration(m) /\ account'.version = account.version + 1
    BY <2>1, <2>2, <2>3, PlaceTyped
  <2>5. RollbackGeneration(m) = account.generation + 1
    <3>1. PICK g \in Nat : g = moves[m].generation
      BY MoveFacts
    <3> QED
      BY <2>1, <3>1, MoveFacts DEF Reversible
  <2> QED
    BY <2>1, <2>4, <2>5, HistoryPlaced
<1>18. ASSUME NEW j \in Jobs, ActivateSource(j) PROVE History' /\ Placing'
  <2>1. UNCHANGED <<account, moves>>
    BY <1>18, ActivateSourceDoes DEF globalVars
  <2> QED
    BY <2>1, HistoryUnchanged
<1>19. ASSUME NEW j \in Jobs, FreezeDestination(j) PROVE History' /\ Placing'
  <2>1. UNCHANGED <<account, moves>>
    BY <1>19, FreezeDestinationDoes DEF globalVars
  <2> QED
    BY <2>1, HistoryUnchanged
<1>20. ASSUME NEW j \in Jobs, BeginRetirement(j) PROVE History' /\ Placing'
  <2>1. PICK m \in DOMAIN moves :
           /\ Fixed /\ Phase(m) = "switched" /\ Phase(m)' = "retiring" /\ UNCHANGED account
           /\ \A n \in DOMAIN moves : n # m => Phase(n)' = Phase(n)
    BY <1>20, BeginRetirementDoes DEF Advanced, Works
  <2>2. \A n \in DOMAIN moves : /\ (Phase(n)' = "rolled_back") = (Phase(n) = "rolled_back")
                                /\ (Phase(n)' \in Left) = (Phase(n) \in Left)
                                /\ Phase(n) \in {"completed", "rolled_back"} => Phase(n)' = Phase(n)
    BY <2>1 DEF Left
  <2> QED
    BY <2>1, <2>2, HistoryKept DEF Placing
<1>21. ASSUME NEW j \in Jobs, RetireSource(j) PROVE History' /\ Placing'
  <2>1. UNCHANGED <<account, moves>>
    BY <1>21, RetireSourceDoes DEF globalVars
  <2> QED
    BY <2>1, HistoryUnchanged
<1>22. ASSUME NEW j \in Jobs, Complete(j) PROVE History' /\ Placing'
  <2>1. PICK m \in DOMAIN moves :
           /\ Fixed /\ Phase(m) = "retiring" /\ Phase(m)' = "completed" /\ UNCHANGED account
           /\ \A n \in DOMAIN moves : n # m => Phase(n)' = Phase(n)
    BY <1>22, CompleteDoes DEF Advanced, Works
  <2>2. \A n \in DOMAIN moves : /\ (Phase(n)' = "rolled_back") = (Phase(n) = "rolled_back")
                                /\ (Phase(n)' \in Left) = (Phase(n) \in Left)
                                /\ Phase(n) \in {"completed", "rolled_back"} => Phase(n)' = Phase(n)
    BY <2>1 DEF Left
  <2> QED
    BY <2>1, <2>2, HistoryKept DEF Placing
<1> QED
  BY NextSplit, <1>1, <1>2, <1>3, <1>4, <1>5, <1>6, <1>7, <1>8, <1>9, <1>10, <1>11, <1>12, <1>13, <1>14,
     <1>15, <1>16, <1>17, <1>18, <1>19, <1>20, <1>21, <1>22

-------------------------------------------------------------------------------
(***************************************************************************)
(* The directory follows the move                                          *)
(***************************************************************************)

Closed == {"drained", "copied", "ready"}

\* Nothing happens to the directory while no move crosses its drain or its switch.
LEMMA DirectoryKept ==
    ASSUME DirectoryFollowsMove, DOMAIN moves' = DOMAIN moves, UNCHANGED <<directory, assigned>>,
           account'.cell = account.cell,
           \A m \in DOMAIN moves : Phase(m)' \in Closed <=> Phase(m) \in Closed
    PROVE  DirectoryFollowsMove'
<1>1. (\E m \in DOMAIN moves' : Phase(m)' \in Closed) <=> (\E m \in DOMAIN moves : Phase(m) \in Closed)
  OBVIOUS
<1>2. (directory' = "moving") = (\E m \in DOMAIN moves' : Phase(m)' \in Closed)
  BY <1>1 DEF DirectoryFollowsMove, Closed
<1>3. \A c \in Cells : assigned'[c] = Others[c] + (IF c = account'.cell THEN 1 ELSE 0)
  BY DEF DirectoryFollowsMove
<1> QED
  BY <1>2, <1>3 DEF DirectoryFollowsMove, Closed

\* A change of placement opens the directory and moves the count.
LEMMA DirectoryPlaced ==
    ASSUME Types, DirectoryFollowsMove, NEW from \in Cells, NEW to \in Cells, NEW g \in Nat, from # to,
           from = account.cell, assigned[from] > 0, Place(from, to, g),
           \A m \in DOMAIN moves' : Phase(m)' \notin Closed
    PROVE  DirectoryFollowsMove'
<1>1. /\ directory' = "active" /\ account'.cell = to
      /\ assigned'[from] = assigned[from] - 1 /\ assigned'[to] = assigned[to] + 1
      /\ \A c \in Cells : c # from /\ c # to => assigned'[c] = assigned[c]
  BY PlaceTyped
<1>2. \A c \in Cells : Others[c] \in Nat
  BY MovementAssumption
<1>3. \A c \in Cells : assigned'[c] = Others[c] + (IF c = account'.cell THEN 1 ELSE 0)
  BY <1>1, <1>2 DEF DirectoryFollowsMove
<1>4. (directory' = "moving") = (\E m \in DOMAIN moves' : Phase(m)' \in Closed)
  BY <1>1
<1> QED
  BY <1>3, <1>4 DEF DirectoryFollowsMove, Closed

\* The directory and the counters follow the move at every step.
LEMMA NextDirectory ==
    ASSUME OneJobAtATime, Types, History, Placing, JobsKnow, DirectoryFollowsMove, Next
    PROVE  DirectoryFollowsMove'
<1>1. CASE Routes
  <2>1. UNCHANGED <<account, directory, assigned, moves>>
    BY <1>1 DEF Routes, globalVars
  <2> QED
    BY <2>1, DirectoryKept DEF Phase
<1>2. ASSUME NEW c \in Cells, NEW w \in Writes, NEW v \in {"queued", "done"}, RowWritten(c, w, v) PROVE DirectoryFollowsMove'
  <2>1. UNCHANGED <<account, directory, assigned, moves>>
    BY <1>2 DEF RowWritten, globalVars
  <2> QED
    BY <2>1, DirectoryKept DEF Phase
<1>3. CASE ChangeAccountState
  <2>1. UNCHANGED <<directory, assigned, moves>> /\ account'.cell = account.cell
    BY <1>3 DEF ChangeAccountState, Types, GlobalTypes
  <2> QED
    BY <2>1, DirectoryKept DEF Phase
<1>4. ASSUME NEW c \in Cells, Prepare(c) PROVE DirectoryFollowsMove'
  <2>1. PICK N \in Nat : N = Len(moves) + 1
    BY Records DEF Types, GlobalTypes
  <2>2. /\ DOMAIN moves' = DOMAIN moves \cup {N} /\ moves'[N] = PreparedRecord(c)
        /\ \A n \in DOMAIN moves : moves'[n] = moves[n]
        /\ UNCHANGED <<account, directory, assigned>>
    <3>1. /\ Len(moves) \in Nat /\ DOMAIN moves = 1..Len(moves) /\ DOMAIN moves' = 1..(Len(moves) + 1)
          /\ moves'[N] = PreparedRecord(c) /\ \A n \in DOMAIN moves : moves'[n] = moves[n]
          /\ UNCHANGED <<account, directory, assigned>>
      BY <1>4, <2>1, PrepareDoes
    <3>2. 1..(Len(moves) + 1) = (1..Len(moves)) \cup {N}
      BY <2>1, <3>1
    <3> QED
      BY <3>1, <3>2
  <2>3. Phase(N)' \notin Closed /\ \A n \in DOMAIN moves : Phase(n)' = Phase(n)
    BY <2>2 DEF Phase, PreparedRecord, Closed
  <2>4. (\E m \in DOMAIN moves' : Phase(m)' \in Closed) <=> (\E m \in DOMAIN moves : Phase(m) \in Closed)
    BY <2>2, <2>3
  <2>5. (directory' = "moving") = (\E m \in DOMAIN moves' : Phase(m)' \in Closed)
    BY <2>2, <2>4 DEF DirectoryFollowsMove, Closed
  <2>6. \A d \in Cells : assigned'[d] = Others[d] + (IF d = account'.cell THEN 1 ELSE 0)
    BY <2>2 DEF DirectoryFollowsMove
  <2> QED
    BY <2>5, <2>6 DEF DirectoryFollowsMove, Closed
<1>5. CASE Quiet
  BY <1>5, DirectoryKept DEF Quiet, Relabeled, Fixed
<1>6. ASSUME NEW j \in Jobs, StageSource(j) PROVE DirectoryFollowsMove'
  <2>1. UNCHANGED <<account, directory, assigned, moves>>
    BY <1>6, StageSourceDoes DEF globalVars
  <2> QED
    BY <2>1, DirectoryKept DEF Phase
<1>7. ASSUME NEW j \in Jobs, StageDestination(j) PROVE DirectoryFollowsMove'
  <2>1. UNCHANGED <<account, directory, assigned, moves>>
    BY <1>7, StageDestinationDoes DEF globalVars
  <2> QED
    BY <2>1, DirectoryKept DEF Phase
<1>8. ASSUME NEW j \in Jobs, Drain(j) PROVE DirectoryFollowsMove'
  <2>1. PICK m \in DOMAIN moves :
           /\ Fixed /\ Phase(m)' = "drained" /\ directory' = "moving"
           /\ UNCHANGED <<account, assigned>>
    BY <1>8, DrainDoes DEF Advanced
  <2>2. (directory' = "moving") = (\E n \in DOMAIN moves' : Phase(n)' \in Closed)
    BY <2>1 DEF Fixed, Closed
  <2>3. \A d \in Cells : assigned'[d] = Others[d] + (IF d = account'.cell THEN 1 ELSE 0)
    BY <2>1 DEF DirectoryFollowsMove
  <2> QED
    BY <2>2, <2>3 DEF DirectoryFollowsMove, Closed
<1>9. ASSUME NEW j \in Jobs, ReadSource(j) PROVE DirectoryFollowsMove'
  <2>1. UNCHANGED <<account, directory, assigned, moves>>
    BY <1>9, ReadSourceDoes DEF globalVars
  <2> QED
    BY <2>1, DirectoryKept DEF Phase
<1>10. ASSUME NEW j \in Jobs, WriteDestination(j) PROVE DirectoryFollowsMove'
  <2>1. UNCHANGED <<account, directory, assigned, moves>>
    BY <1>10, WriteDestinationDoes DEF globalVars
  <2> QED
    BY <2>1, DirectoryKept DEF Phase
<1>11. ASSUME NEW j \in Jobs, CompareCopy(j) PROVE DirectoryFollowsMove'
  <2>1. UNCHANGED <<account, directory, assigned, moves>>
    BY <1>11, CompareCopyDoes DEF globalVars
  <2> QED
    BY <2>1, DirectoryKept DEF Phase
<1>12. ASSUME NEW j \in Jobs, RecordEvidence(j) PROVE DirectoryFollowsMove'
  <2>1. UNCHANGED <<account, directory, assigned, moves>>
    BY <1>12, RecordEvidenceDoes DEF globalVars
  <2> QED
    BY <2>1, DirectoryKept DEF Phase
<1>13. ASSUME NEW j \in Jobs, AdvanceCopied(j) PROVE DirectoryFollowsMove'
  <2>1. PICK m \in DOMAIN moves :
           /\ Fixed /\ Phase(m) = "drained" /\ Phase(m)' = "copied" /\ UNCHANGED <<account, directory, assigned>>
           /\ \A n \in DOMAIN moves : n # m => Phase(n)' = Phase(n)
    BY <1>13, AdvanceCopiedDoes DEF Advanced, Works
  <2>2. \A n \in DOMAIN moves : Phase(n)' \in Closed <=> Phase(n) \in Closed
    BY <2>1 DEF Closed
  <2> QED
    BY <2>1, <2>2, DirectoryKept DEF Fixed
<1>14. ASSUME NEW j \in Jobs, AdvanceReady(j) PROVE DirectoryFollowsMove'
  <2>1. PICK m \in DOMAIN moves :
           /\ Fixed /\ Phase(m) = "copied" /\ Phase(m)' = "ready" /\ UNCHANGED <<account, directory, assigned>>
           /\ \A n \in DOMAIN moves : n # m => Phase(n)' = Phase(n)
    BY <1>14, AdvanceReadyDoes DEF Advanced, Works
  <2>2. \A n \in DOMAIN moves : Phase(n)' \in Closed <=> Phase(n) \in Closed
    BY <2>1 DEF Closed
  <2> QED
    BY <2>1, <2>2, DirectoryKept DEF Fixed
<1>15. ASSUME NEW j \in Jobs, Switch(j) PROVE DirectoryFollowsMove'
  <2>1. PICK m \in DOMAIN moves :
           /\ Fixed /\ Phase(m) = "ready" /\ Phase(m)' = "switched" /\ Switchable(m)
           /\ \A n \in DOMAIN moves : n # m => Phase(n)' = Phase(n)
           /\ Place(Source(m), Destination(m), DestinationGeneration(m))
    BY <1>15, SwitchDoes DEF Advanced, Works
  <2>2. Source(m) \in Cells /\ Destination(m) \in Cells /\ Source(m) # Destination(m) /\ DestinationGeneration(m) \in Nat
    BY MoveFacts DEF Generations
  <2>3. assigned[Source(m)] > 0 /\ account.cell = Source(m)
    BY <2>1 DEF Switchable
  <2>4. \A n \in DOMAIN moves : n # m => Phase(n) \in {"completed", "rolled_back"}
    BY <2>1, OpenIsLast
  <2>5. \A n \in DOMAIN moves' : Phase(n)' \notin Closed
    BY <2>1, <2>4 DEF Fixed, Closed
  <2> QED
    BY <2>1, <2>2, <2>3, <2>5, DirectoryPlaced
<1>16. ASSUME NEW j \in Jobs, ActivateDestination(j) PROVE DirectoryFollowsMove'
  <2>1. UNCHANGED <<account, directory, assigned, moves>>
    BY <1>16, ActivateDestinationDoes DEF globalVars
  <2> QED
    BY <2>1, DirectoryKept DEF Phase
<1>17. ASSUME NEW j \in Jobs, Rollback(j) PROVE DirectoryFollowsMove'
  <2>1. PICK m \in DOMAIN moves :
           /\ Fixed /\ Phase(m) = "switched" /\ Phase(m)' = "rolled_back" /\ Reversible(m)
           /\ \A n \in DOMAIN moves : n # m => Phase(n)' = Phase(n)
           /\ Place(Destination(m), Source(m), RollbackGeneration(m))
    BY <1>17, RollbackDoes DEF Advanced, Works
  <2>2. Source(m) \in Cells /\ Destination(m) \in Cells /\ Source(m) # Destination(m) /\ RollbackGeneration(m) \in Nat
    BY MoveFacts DEF Generations
  <2>3. assigned[Destination(m)] > 0 /\ account.cell = Destination(m)
    BY <2>1 DEF Reversible
  <2>4. \A n \in DOMAIN moves : n # m => Phase(n) \in {"completed", "rolled_back"}
    BY <2>1, OpenIsLast
  <2>5. \A n \in DOMAIN moves' : Phase(n)' \notin Closed
    BY <2>1, <2>4 DEF Fixed, Closed
  <2> QED
    BY <2>1, <2>2, <2>3, <2>5, DirectoryPlaced
<1>18. ASSUME NEW j \in Jobs, ActivateSource(j) PROVE DirectoryFollowsMove'
  <2>1. UNCHANGED <<account, directory, assigned, moves>>
    BY <1>18, ActivateSourceDoes DEF globalVars
  <2> QED
    BY <2>1, DirectoryKept DEF Phase
<1>19. ASSUME NEW j \in Jobs, FreezeDestination(j) PROVE DirectoryFollowsMove'
  <2>1. UNCHANGED <<account, directory, assigned, moves>>
    BY <1>19, FreezeDestinationDoes DEF globalVars
  <2> QED
    BY <2>1, DirectoryKept DEF Phase
<1>20. ASSUME NEW j \in Jobs, BeginRetirement(j) PROVE DirectoryFollowsMove'
  <2>1. PICK m \in DOMAIN moves :
           /\ Fixed /\ Phase(m) = "switched" /\ Phase(m)' = "retiring" /\ UNCHANGED <<account, directory, assigned>>
           /\ \A n \in DOMAIN moves : n # m => Phase(n)' = Phase(n)
    BY <1>20, BeginRetirementDoes DEF Advanced, Works
  <2>2. \A n \in DOMAIN moves : Phase(n)' \in Closed <=> Phase(n) \in Closed
    BY <2>1 DEF Closed
  <2> QED
    BY <2>1, <2>2, DirectoryKept DEF Fixed
<1>21. ASSUME NEW j \in Jobs, RetireSource(j) PROVE DirectoryFollowsMove'
  <2>1. UNCHANGED <<account, directory, assigned, moves>>
    BY <1>21, RetireSourceDoes DEF globalVars
  <2> QED
    BY <2>1, DirectoryKept DEF Phase
<1>22. ASSUME NEW j \in Jobs, Complete(j) PROVE DirectoryFollowsMove'
  <2>1. PICK m \in DOMAIN moves :
           /\ Fixed /\ Phase(m) = "retiring" /\ Phase(m)' = "completed" /\ UNCHANGED <<account, directory, assigned>>
           /\ \A n \in DOMAIN moves : n # m => Phase(n)' = Phase(n)
    BY <1>22, CompleteDoes DEF Advanced, Works
  <2>2. \A n \in DOMAIN moves : Phase(n)' \in Closed <=> Phase(n) \in Closed
    BY <2>1 DEF Closed
  <2> QED
    BY <2>1, <2>2, DirectoryKept DEF Fixed
<1> QED
  BY NextSplit, <1>1, <1>2, <1>3, <1>4, <1>5, <1>6, <1>7, <1>8, <1>9, <1>10, <1>11, <1>12, <1>13, <1>14,
     <1>15, <1>16, <1>17, <1>18, <1>19, <1>20, <1>21, <1>22

-------------------------------------------------------------------------------
(***************************************************************************)
(* The steps that change a namespace                                       *)
(***************************************************************************)

\* One namespace changes, and at most the checkpoint of one move beside it.
CellChanged(c, m, n) ==
    /\ namespace'[c] = n
    /\ \A d \in Cells : d # c => namespace'[d] = namespace[d]
    /\ \A d \in Cells, k \in 1..MaxMoves : d # c \/ k # m => checkpoint'[d][k] = checkpoint[d][k]

\* Writing one checkpoint leaves the others alone.
LEMMA CheckpointOne ==
    ASSUME CellTypes, NEW c \in Cells, NEW m \in 1..MaxMoves, NEW k, NEW s,
           \/ checkpoint' = [checkpoint EXCEPT ![c][m] = k]
           \/ checkpoint' = [checkpoint EXCEPT ![c][m].state = s]
    PROVE  \A d \in Cells, n \in 1..MaxMoves : d # c \/ n # m => checkpoint'[d][n] = checkpoint[d][n]
<1>1. checkpoint \in [Cells -> [1..MaxMoves -> Checkpoint]]
  BY DEF CellTypes
<1>2. CASE checkpoint' = [checkpoint EXCEPT ![c][m] = k]
  BY <1>1, <1>2
<1>3. CASE checkpoint' = [checkpoint EXCEPT ![c][m].state = s]
  BY <1>1, <1>3
<1> QED
  BY <1>2, <1>3

\* Freezing a source changes one namespace.
LEMMA StageSourceCell ==
    ASSUME Types, History, JobsKnow, NEW j \in Jobs, StageSource(j)
    PROVE  \E m \in DOMAIN moves :
           /\ Works(j, m, "stage_source", "prepared") /\ JobAt(j, "stage_destination", m, job[j].seen)
           /\ SourceStageable(m)
           /\ CellChanged(Source(m), m, [generation |-> SourceGeneration(m), state |-> "moving"])
           /\ UNCHANGED <<globalVars, data, request>>
<1>1. PICK m \in DOMAIN moves : m = job[j].move
  BY StageSourceDoes DEF Works
<1>2. m \in 1..MaxMoves /\ Source(m) \in Cells
  BY MoveFacts
<1>3. /\ Works(j, m, "stage_source", "prepared") /\ JobAt(j, "stage_destination", m, job[j].seen)
      /\ SourceStageable(m)
      /\ namespace' = [namespace EXCEPT ![Source(m)] = [generation |-> SourceGeneration(m), state |-> "moving"]]
      /\ checkpoint' = [checkpoint EXCEPT ![Source(m)][m] = [state |-> "frozen", generation |-> SourceGeneration(m)]]
      /\ UNCHANGED <<globalVars, data, request>>
  BY <1>1, StageSourceDoes
<1>4. CellTypes
  BY DEF Types
<1>5. \A d \in Cells, i \in 1..MaxMoves : d # Source(m) \/ i # m => checkpoint'[d][i] = checkpoint[d][i]
  BY <1>2, <1>3, <1>4, CheckpointOne
<1>6. CellChanged(Source(m), m, [generation |-> SourceGeneration(m), state |-> "moving"])
  BY <1>2, <1>3, <1>4, <1>5 DEF CellTypes, CellChanged
<1> QED
  BY <1>3, <1>6

\* Staging a destination changes one namespace.
LEMMA StageDestinationCell ==
    ASSUME Types, History, JobsKnow, NEW j \in Jobs, StageDestination(j)
    PROVE  \E m \in DOMAIN moves :
           /\ Works(j, m, "stage_destination", "prepared") /\ JobAt(j, "drain", m, job[j].seen)
           /\ DestinationStageable(m)
           /\ CellChanged(Destination(m), m, [generation |-> DestinationGeneration(m), state |-> "moving"])
           /\ UNCHANGED <<globalVars, data, request>>
<1>1. PICK m \in DOMAIN moves : m = job[j].move
  BY StageDestinationDoes DEF Works
<1>2. m \in 1..MaxMoves /\ Destination(m) \in Cells
  BY MoveFacts
<1>3. /\ Works(j, m, "stage_destination", "prepared") /\ JobAt(j, "drain", m, job[j].seen)
      /\ DestinationStageable(m)
      /\ namespace' = [namespace EXCEPT ![Destination(m)] = [generation |-> DestinationGeneration(m), state |-> "moving"]]
      /\ checkpoint' = [checkpoint EXCEPT ![Destination(m)][m] = [state |-> "staged", generation |-> DestinationGeneration(m)]]
      /\ UNCHANGED <<globalVars, data, request>>
  BY <1>1, StageDestinationDoes
<1>4. CellTypes
  BY DEF Types
<1>5. \A d \in Cells, i \in 1..MaxMoves : d # Destination(m) \/ i # m => checkpoint'[d][i] = checkpoint[d][i]
  BY <1>2, <1>3, <1>4, CheckpointOne
<1>6. CellChanged(Destination(m), m, [generation |-> DestinationGeneration(m), state |-> "moving"])
  BY <1>2, <1>3, <1>4, <1>5 DEF CellTypes, CellChanged
<1> QED
  BY <1>3, <1>6

\* Activating a destination changes one namespace.
LEMMA ActivateDestinationCell ==
    ASSUME Types, History, JobsKnow, NEW j \in Jobs, ActivateDestination(j)
    PROVE  \E m \in DOMAIN moves :
           /\ Works(j, m, "activate", "switched") /\ JobAt(j, "idle", 0, NoRows)
           /\ Activatable(Destination(m), m, DestinationGeneration(m), DestinationGeneration(m))
           /\ CellChanged(Destination(m), m, [generation |-> DestinationGeneration(m), state |-> "active"])
           /\ checkpoint'[Destination(m)][m].state = "active"
           /\ UNCHANGED <<globalVars, data, request>>
<1>1. PICK m \in DOMAIN moves : m = job[j].move
  BY ActivateDestinationDoes DEF Works
<1>2. m \in 1..MaxMoves /\ Destination(m) \in Cells
  BY MoveFacts
<1>3. /\ Works(j, m, "activate", "switched") /\ JobAt(j, "idle", 0, NoRows)
      /\ Activatable(Destination(m), m, DestinationGeneration(m), DestinationGeneration(m))
      /\ namespace' = [namespace EXCEPT ![Destination(m)] = [generation |-> DestinationGeneration(m), state |-> "active"]]
      /\ checkpoint' = [checkpoint EXCEPT ![Destination(m)][m] = [state |-> "active", generation |-> DestinationGeneration(m)]]
      /\ UNCHANGED <<globalVars, data, request>>
  BY <1>1, ActivateDestinationDoes
<1>4. CellTypes
  BY DEF Types
<1>5. \A d \in Cells, i \in 1..MaxMoves : d # Destination(m) \/ i # m => checkpoint'[d][i] = checkpoint[d][i]
  BY <1>2, <1>3, <1>4, CheckpointOne
<1>6. CellChanged(Destination(m), m, [generation |-> DestinationGeneration(m), state |-> "active"])
  BY <1>2, <1>3, <1>4, <1>5 DEF CellTypes, CellChanged
<1>7. checkpoint'[Destination(m)][m].state = "active"
  BY <1>2, <1>3, <1>4 DEF CellTypes
<1> QED
  BY <1>3, <1>6, <1>7

\* Activating a source again changes one namespace.
LEMMA ActivateSourceCell ==
    ASSUME Types, History, JobsKnow, NEW j \in Jobs, ActivateSource(j)
    PROVE  \E m \in DOMAIN moves :
           /\ Works(j, m, "activate_source", "rolled_back") /\ JobAt(j, "freeze_destination", m, job[j].seen)
           /\ Activatable(Source(m), m, SourceGeneration(m), RollbackGeneration(m))
           /\ CellChanged(Source(m), m, [generation |-> RollbackGeneration(m), state |-> "active"])
           /\ UNCHANGED <<globalVars, data, request>>
<1>1. PICK m \in DOMAIN moves : m = job[j].move
  BY ActivateSourceDoes DEF Works
<1>2. m \in 1..MaxMoves /\ Source(m) \in Cells
  BY MoveFacts
<1>3. /\ Works(j, m, "activate_source", "rolled_back") /\ JobAt(j, "freeze_destination", m, job[j].seen)
      /\ Activatable(Source(m), m, SourceGeneration(m), RollbackGeneration(m))
      /\ namespace' = [namespace EXCEPT ![Source(m)] = [generation |-> RollbackGeneration(m), state |-> "active"]]
      /\ checkpoint' = [checkpoint EXCEPT ![Source(m)][m] = [state |-> "rollback_active", generation |-> RollbackGeneration(m)]]
      /\ UNCHANGED <<globalVars, data, request>>
  BY <1>1, ActivateSourceDoes
<1>4. CellTypes
  BY DEF Types
<1>5. \A d \in Cells, i \in 1..MaxMoves : d # Source(m) \/ i # m => checkpoint'[d][i] = checkpoint[d][i]
  BY <1>2, <1>3, <1>4, CheckpointOne
<1>6. CellChanged(Source(m), m, [generation |-> RollbackGeneration(m), state |-> "active"])
  BY <1>2, <1>3, <1>4, <1>5 DEF CellTypes, CellChanged
<1> QED
  BY <1>3, <1>6

\* Freezing a destination changes one namespace.
LEMMA FreezeDestinationCell ==
    ASSUME Types, History, JobsKnow, NEW j \in Jobs, FreezeDestination(j)
    PROVE  \E m \in DOMAIN moves :
           /\ Works(j, m, "freeze_destination", "rolled_back") /\ JobAt(j, "idle", 0, NoRows)
           /\ DestinationFreezable(m)
           /\ CellChanged(Destination(m), m, [generation |-> DestinationGeneration(m), state |-> "moving"])
           /\ UNCHANGED <<globalVars, data, request>>
<1>1. PICK m \in DOMAIN moves : m = job[j].move
  BY FreezeDestinationDoes DEF Works
<1>2. m \in 1..MaxMoves /\ Destination(m) \in Cells
  BY MoveFacts
<1>3. /\ Works(j, m, "freeze_destination", "rolled_back") /\ JobAt(j, "idle", 0, NoRows)
      /\ DestinationFreezable(m)
      /\ namespace' = [namespace EXCEPT ![Destination(m)] = [generation |-> DestinationGeneration(m), state |-> "moving"]]
      /\ checkpoint' = [checkpoint EXCEPT ![Destination(m)][m].state = "frozen"]
      /\ UNCHANGED <<globalVars, data, request>>
  BY <1>1, FreezeDestinationDoes
<1>4. CellTypes
  BY DEF Types
<1>5. \A d \in Cells, i \in 1..MaxMoves : d # Destination(m) \/ i # m => checkpoint'[d][i] = checkpoint[d][i]
  BY <1>2, <1>3, <1>4, CheckpointOne
<1>6. CellChanged(Destination(m), m, [generation |-> DestinationGeneration(m), state |-> "moving"])
  BY <1>2, <1>3, <1>4, <1>5 DEF CellTypes, CellChanged
<1> QED
  BY <1>3, <1>6

\* Retirement changes one namespace, or nothing any more.
LEMMA RetireSourceCell ==
    ASSUME Types, History, JobsKnow, NEW j \in Jobs, RetireSource(j)
    PROVE  \E m \in DOMAIN moves :
           /\ Works(j, m, "retire", "retiring") /\ JobAt(j, "complete", m, job[j].seen)
           /\ \/ UNCHANGED cellVars
              \/ CellChanged(Source(m), m, NoNamespace) /\ data' = [data EXCEPT ![Source(m)] = NoRows]
           /\ UNCHANGED <<globalVars, request>>
<1>1. PICK m \in DOMAIN moves : m = job[j].move
  BY RetireSourceDoes DEF Works
<1>2. m \in 1..MaxMoves /\ Source(m) \in Cells
  BY MoveFacts
<1>3. /\ Works(j, m, "retire", "retiring") /\ JobAt(j, "complete", m, job[j].seen)
      /\ \/ UNCHANGED cellVars
         \/ /\ namespace' = [namespace EXCEPT ![Source(m)] = NoNamespace]
            /\ data' = [data EXCEPT ![Source(m)] = NoRows]
            /\ checkpoint' = [checkpoint EXCEPT ![Source(m)][m].state = "retired"]
      /\ UNCHANGED <<globalVars, request>>
  BY <1>1, RetireSourceDoes
<1>4. CellTypes
  BY DEF Types
<1>5. checkpoint' = [checkpoint EXCEPT ![Source(m)][m].state = "retired"] =>
         \A d \in Cells, i \in 1..MaxMoves : d # Source(m) \/ i # m => checkpoint'[d][i] = checkpoint[d][i]
  BY <1>2, <1>4, CheckpointOne
<1>6. \/ UNCHANGED cellVars
      \/ CellChanged(Source(m), m, NoNamespace) /\ data' = [data EXCEPT ![Source(m)] = NoRows]
  BY <1>2, <1>3, <1>4, <1>5 DEF CellTypes, CellChanged
<1> QED
  BY <1>3, <1>6

\* Recording the evidence changes no checkpoint but those of the move.
LEMMA RecordEvidenceCell ==
    ASSUME Types, History, JobsKnow, NEW j \in Jobs, RecordEvidence(j)
    PROVE  \E m \in DOMAIN moves :
           /\ Phase(m) = "drained" /\ job[j].move = m
           /\ \A d \in Cells, k \in 1..MaxMoves : k # m => checkpoint'[d][k] = checkpoint[d][k]
           /\ UNCHANGED <<globalVars, namespace, data, request>>
<1>1. PICK m \in DOMAIN moves : m = job[j].move /\ Phase(m) = "drained"
  BY RecordEvidenceDoes DEF Works
<1>2. m \in 1..MaxMoves
  BY MoveFacts
<1>3. PICK c \in Cells : checkpoint' = [checkpoint EXCEPT ![c][m].state = "copied"]
  BY <1>1, RecordEvidenceDoes
<1>4. CellTypes
  BY DEF Types
<1>5. \A d \in Cells, k \in 1..MaxMoves : k # m => checkpoint'[d][k] = checkpoint[d][k]
  BY <1>2, <1>3, <1>4, CheckpointOne
<1> QED
  BY <1>1, <1>5, RecordEvidenceDoes

-------------------------------------------------------------------------------
(***************************************************************************)
(* A move past its drain keeps its cells frozen                            *)
(***************************************************************************)

\* Where every frozen namespace stays frozen and nothing new relies on one.
LEMMA StagedKept ==
    ASSUME Types, JobsKnow, Staged, Fixed,
           \A c \in Cells, g \in Nat : Frozen(c, g) => Frozen(c, g)',
           \A m \in DOMAIN moves : /\ Phase(m)' \in Closed \cup {"switched"} => Phase(m) \in Closed \cup {"switched"}
                                   /\ Phase(m)' \in Closed => Phase(m) \in Closed,
           \A k \in Jobs : job'[k] = job[k] \/ job'[k].call \notin {"stage_destination", "drain"}
    PROVE  Staged'
<1>1. \A m \in DOMAIN moves : /\ Source(m)' = Source(m) /\ Destination(m)' = Destination(m)
                              /\ SourceGeneration(m)' = SourceGeneration(m)
                              /\ DestinationGeneration(m)' = DestinationGeneration(m)
                              /\ Source(m) \in Cells /\ Destination(m) \in Cells
                              /\ SourceGeneration(m) \in Nat /\ DestinationGeneration(m) \in Nat
  BY RecordFields
     DEF Fixed, Source, Destination, SourceGeneration, DestinationGeneration, Types, GlobalTypes
<1>2. ASSUME NEW m \in DOMAIN moves'
      PROVE  /\ Phase(m)' \in {"drained", "copied", "ready", "switched"} => Frozen(Source(m), SourceGeneration(m))'
             /\ Phase(m)' \in {"drained", "copied", "ready"} => Frozen(Destination(m), DestinationGeneration(m))'
  <2>1. m \in DOMAIN moves
    BY DEF Fixed
  <2>2. PICK s \in Cells, d \in Cells, g \in Nat, h \in Nat :
           /\ s = Source(m) /\ d = Destination(m) /\ g = SourceGeneration(m) /\ h = DestinationGeneration(m)
           /\ s = Source(m)' /\ d = Destination(m)' /\ g = SourceGeneration(m)' /\ h = DestinationGeneration(m)'
    BY <1>1, <2>1
  <2>3. /\ Phase(m) \in {"drained", "copied", "ready", "switched"} => Frozen(s, g)
        /\ Phase(m) \in {"drained", "copied", "ready"} => Frozen(d, h)
    BY <2>1, <2>2 DEF Staged
  <2>4. /\ Phase(m)' \in {"drained", "copied", "ready", "switched"} => Frozen(s, g)'
        /\ Phase(m)' \in {"drained", "copied", "ready"} => Frozen(d, h)'
    BY <2>1, <2>3 DEF Closed
  <2> QED
    BY <2>2, <2>4 DEF Frozen
<1>3. ASSUME NEW k \in Jobs
      PROVE  /\ job'[k].call \in {"stage_destination", "drain"} =>
                   Frozen(Source(job[k].move), SourceGeneration(job[k].move))'
             /\ job'[k].call = "drain" => Frozen(Destination(job[k].move), DestinationGeneration(job[k].move))'
  <2> SUFFICES ASSUME job'[k].call \in {"stage_destination", "drain"}
               PROVE  /\ Frozen(Source(job[k].move), SourceGeneration(job[k].move))'
                      /\ job'[k].call = "drain" =>
                            Frozen(Destination(job[k].move), DestinationGeneration(job[k].move))'
    OBVIOUS
  <2>1. job'[k] = job[k]
    OBVIOUS
  <2>2. PICK m \in DOMAIN moves : m = job[k].move
    <3>1. JobKnows(k) /\ job[k].call # "idle"
      BY <2>1 DEF JobsKnow
    <3> QED
      BY <3>1 DEF JobKnows
  <2>3. PICK s \in Cells, d \in Cells, g \in Nat, h \in Nat :
           /\ s = Source(m) /\ d = Destination(m) /\ g = SourceGeneration(m) /\ h = DestinationGeneration(m)
           /\ s = Source(m)' /\ d = Destination(m)' /\ g = SourceGeneration(m)' /\ h = DestinationGeneration(m)'
    BY <1>1, <2>2
  <2>4. Frozen(s, g) /\ (job[k].call = "drain" => Frozen(d, h))
    BY <2>1, <2>2, <2>3 DEF Staged
  <2>5. Frozen(s, g)' /\ (job[k].call = "drain" => Frozen(d, h)')
    BY <2>4
  <2>6. job'[k].move = m
    BY <2>1, <2>2
  <2> QED
    BY <2>1, <2>2, <2>3, <2>5, <2>6 DEF Frozen, Source, Destination, SourceGeneration, DestinationGeneration
<1> QED
  BY <1>2, <1>3 DEF Staged

\* The same, shown move by move, where one job works.
LEMMA StagedShown ==
    ASSUME NEW j \in Jobs, NEW m, \A k \in Jobs : k # j => job'[k] = Idle,
           \/ job'[j].call \notin {"stage_destination", "drain"}
           \/ /\ job'[j].move = m /\ Frozen(Source(m), SourceGeneration(m))'
              /\ job'[j].call = "drain" => Frozen(Destination(m), DestinationGeneration(m))',
           \A n \in DOMAIN moves' :
              /\ Phase(n)' \in {"drained", "copied", "ready", "switched"} => Frozen(Source(n), SourceGeneration(n))'
              /\ Phase(n)' \in {"drained", "copied", "ready"} => Frozen(Destination(n), DestinationGeneration(n))'
    PROVE  Staged'
<1>1. ASSUME NEW k \in Jobs
      PROVE  /\ job'[k].call \in {"stage_destination", "drain"} =>
                   Frozen(Source(job[k].move), SourceGeneration(job[k].move))'
             /\ job'[k].call = "drain" => Frozen(Destination(job[k].move), DestinationGeneration(job[k].move))'
  <2>1. CASE k # j
    BY <2>1 DEF Idle
  <2>2. CASE k = j
    BY <2>2 DEF Frozen, Source, Destination, SourceGeneration, DestinationGeneration
  <2> QED
    BY <2>1, <2>2
<1> QED
  BY <1>1 DEF Staged

\* The cells of a move past its drain stay frozen.
LEMMA NextStaged ==
    ASSUME OneJobAtATime, Types, History, Placing, JobsKnow, Staged, Next
    PROVE  Staged'
<1>1. CASE Routes
  <2>1. Fixed /\ \A m \in DOMAIN moves : Phase(m)' = Phase(m)
    BY <1>1 DEF Routes, globalVars, Types, GlobalTypes, Fixed, Phase
  <2>2. \A d \in Cells, g \in Nat : Frozen(d, g) => Frozen(d, g)'
    BY <1>1 DEF Routes, Frozen, cellVars
  <2>3. \A k \in Jobs : job'[k] = job[k] \/ job'[k].call \notin {"stage_destination", "drain"}
    BY <1>1 DEF Routes
  <2> QED
    BY <2>1, <2>2, <2>3, StagedKept
<1>2. ASSUME NEW c \in Cells, NEW w \in Writes, NEW v \in {"queued", "done"}, RowWritten(c, w, v) PROVE Staged'
  <2>1. Fixed /\ \A m \in DOMAIN moves : Phase(m)' = Phase(m)
    BY <1>2 DEF RowWritten, globalVars, Types, GlobalTypes, Fixed, Phase
  <2>2. \A d \in Cells, g \in Nat : Frozen(d, g) => Frozen(d, g)'
    BY <1>2 DEF RowWritten, Frozen
  <2>3. \A k \in Jobs : job'[k] = job[k] \/ job'[k].call \notin {"stage_destination", "drain"}
    BY <1>2 DEF RowWritten
  <2> QED
    BY <2>1, <2>2, <2>3, StagedKept
<1>3. CASE ChangeAccountState
  <2>1. Fixed /\ \A m \in DOMAIN moves : Phase(m)' = Phase(m)
    BY <1>3 DEF ChangeAccountState, Types, GlobalTypes, Fixed, Phase
  <2>2. \A d \in Cells, g \in Nat : Frozen(d, g) => Frozen(d, g)'
    BY <1>3 DEF ChangeAccountState, Frozen, cellVars
  <2>3. \A k \in Jobs : job'[k] = job[k] \/ job'[k].call \notin {"stage_destination", "drain"}
    BY <1>3 DEF ChangeAccountState
  <2> QED
    BY <2>1, <2>2, <2>3, StagedKept
<1>4. ASSUME NEW c \in Cells, Prepare(c) PROVE Staged'
  <2>1. PICK N \in Nat : N = Len(moves) + 1
    BY Records DEF Types, GlobalTypes
  <2>2. /\ moves'[N] = PreparedRecord(c) /\ \A n \in DOMAIN moves : moves'[n] = moves[n]
        /\ \A n \in DOMAIN moves' : n = N \/ n \in DOMAIN moves
        /\ UNCHANGED <<cellVars, job>>
    BY <1>4, <2>1, PrepareDoes
  <2>3. Phase(N)' = "prepared"
    BY <2>2 DEF Phase, PreparedRecord
  <2>4. ASSUME NEW n \in DOMAIN moves'
        PROVE  /\ Phase(n)' \in {"drained", "copied", "ready", "switched"} => Frozen(Source(n), SourceGeneration(n))'
               /\ Phase(n)' \in {"drained", "copied", "ready"} => Frozen(Destination(n), DestinationGeneration(n))'
    <3>1. CASE n = N
      BY <2>3, <3>1
    <3>2. CASE n \in DOMAIN moves
      BY <2>2, <3>2
         DEF Staged, Phase, Frozen, Source, Destination, SourceGeneration, DestinationGeneration, cellVars
    <3> QED
      BY <2>2, <3>1, <3>2
  <2>5. ASSUME NEW k \in Jobs
        PROVE  /\ job'[k].call \in {"stage_destination", "drain"} =>
                     Frozen(Source(job[k].move), SourceGeneration(job[k].move))'
               /\ job'[k].call = "drain" => Frozen(Destination(job[k].move), DestinationGeneration(job[k].move))'
    <3>1. job[k].call # "idle" => job[k].move \in DOMAIN moves
      BY DEF JobsKnow, JobKnows
    <3> QED
      BY <2>2, <3>1
         DEF Staged, Frozen, Source, Destination, SourceGeneration, DestinationGeneration, cellVars
  <2> QED
    BY <2>4, <2>5 DEF Staged
<1>5. CASE Quiet
  <2>1. Fixed /\ \A m \in DOMAIN moves : Phase(m)' = Phase(m)
    BY <1>5 DEF Quiet, Relabeled
  <2>2. \A d \in Cells, g \in Nat : Frozen(d, g) => Frozen(d, g)'
    BY <1>5 DEF Quiet, Frozen, cellVars
  <2>3. \A k \in Jobs : job'[k] = job[k] \/ job'[k].call \notin {"stage_destination", "drain"}
    BY <1>5 DEF Quiet, FreshCalls
  <2> QED
    BY <2>1, <2>2, <2>3, StagedKept
<1>6. ASSUME NEW j \in Jobs, StageSource(j) PROVE Staged'
  <2>1. PICK m \in DOMAIN moves :
           /\ Works(j, m, "stage_source", "prepared") /\ JobAt(j, "stage_destination", m, job[j].seen)
           /\ CellChanged(Source(m), m, [generation |-> SourceGeneration(m), state |-> "moving"])
           /\ UNCHANGED globalVars
    BY <1>6, StageSourceCell
  <2>2. \A n \in DOMAIN moves : n # m => Phase(n) \in {"completed", "rolled_back"}
    BY <2>1, OpenIsLast DEF Works
  <2>3. /\ UNCHANGED <<account, moves>> /\ \A n \in DOMAIN moves : Phase(n)' = Phase(n)
        /\ \A n : /\ Source(n)' = Source(n) /\ Destination(n)' = Destination(n)
                  /\ SourceGeneration(n)' = SourceGeneration(n)
                  /\ DestinationGeneration(n)' = DestinationGeneration(n)
    BY <2>1 DEF globalVars, Phase, Source, Destination, SourceGeneration, DestinationGeneration
  <2>4. Frozen(Source(m), SourceGeneration(m))'
    BY <2>1, <2>3 DEF Frozen, CellChanged
  <2>5. \A n \in DOMAIN moves' : Phase(n)' \notin {"drained", "copied", "ready", "switched"}
    BY <2>1, <2>2, <2>3 DEF Works
  <2>6. job'[j].call = "stage_destination" /\ job'[j].move = m /\ \A k \in Jobs : k # j => job'[k] = Idle
    BY <2>1 DEF JobAt, Works
  <2> QED
    BY <2>4, <2>5, <2>6, StagedShown
<1>7. ASSUME NEW j \in Jobs, StageDestination(j) PROVE Staged'
  <2>1. PICK m \in DOMAIN moves :
           /\ Works(j, m, "stage_destination", "prepared") /\ JobAt(j, "drain", m, job[j].seen)
           /\ CellChanged(Destination(m), m, [generation |-> DestinationGeneration(m), state |-> "moving"])
           /\ UNCHANGED globalVars
    BY <1>7, StageDestinationCell
  <2>2. \A n \in DOMAIN moves : n # m => Phase(n) \in {"completed", "rolled_back"}
    BY <2>1, OpenIsLast DEF Works
  <2>3. /\ UNCHANGED <<account, moves>> /\ \A n \in DOMAIN moves : Phase(n)' = Phase(n)
        /\ \A n : /\ Source(n)' = Source(n) /\ Destination(n)' = Destination(n)
                  /\ SourceGeneration(n)' = SourceGeneration(n)
                  /\ DestinationGeneration(n)' = DestinationGeneration(n)
    BY <2>1 DEF globalVars, Phase, Source, Destination, SourceGeneration, DestinationGeneration
  <2>4. Frozen(Source(m), SourceGeneration(m))' /\ Frozen(Destination(m), DestinationGeneration(m))'
    <3>1. Frozen(Source(m), SourceGeneration(m))
      BY <2>1 DEF Staged, Works
    <3>2. Source(m) \in Cells /\ Source(m) # Destination(m)
      BY MoveFacts
    <3> QED
      BY <2>1, <2>3, <3>1, <3>2 DEF Frozen, CellChanged
  <2>5. \A n \in DOMAIN moves' : Phase(n)' \notin {"drained", "copied", "ready", "switched"}
    BY <2>1, <2>2, <2>3 DEF Works
  <2>6. job'[j].call = "drain" /\ job'[j].move = m /\ \A k \in Jobs : k # j => job'[k] = Idle
    BY <2>1 DEF JobAt, Works
  <2> QED
    BY <2>4, <2>5, <2>6, StagedShown
<1>8. ASSUME NEW j \in Jobs, Drain(j) PROVE Staged'
  <2>1. PICK m \in DOMAIN moves :
           /\ Fixed /\ Phase(m) = "prepared" /\ job[j].call = "drain" /\ job[j].move = m /\ UNCHANGED cellVars
           /\ \A n \in DOMAIN moves : n # m => Phase(n)' = Phase(n)
           /\ \A k \in Jobs : job'[k].call = "idle" /\ (k # j => job'[k] = Idle)
    BY <1>8, DrainDoes DEF Advanced, Works, JobAt, Idle
  <2>2. \A n \in DOMAIN moves : n # m => Phase(n) \in {"completed", "rolled_back"}
    BY <2>1, OpenIsLast
  <2>3. Frozen(Source(m), SourceGeneration(m)) /\ Frozen(Destination(m), DestinationGeneration(m))
    BY <2>1 DEF Staged
  <2>4. Frozen(Source(m), SourceGeneration(m))' /\ Frozen(Destination(m), DestinationGeneration(m))'
    BY <2>1, <2>3 DEF Fixed, Frozen, Source, Destination, SourceGeneration, DestinationGeneration, cellVars
  <2>5. \A n \in DOMAIN moves' :
           /\ Phase(n)' \in {"drained", "copied", "ready", "switched"} => Frozen(Source(n), SourceGeneration(n))'
           /\ Phase(n)' \in {"drained", "copied", "ready"} => Frozen(Destination(n), DestinationGeneration(n))'
    BY <2>1, <2>2, <2>4 DEF Fixed
  <2> QED
    BY <2>1, <2>5, StagedShown
<1>9. ASSUME NEW j \in Jobs, ReadSource(j) PROVE Staged'
  <2>1. Fixed /\ \A m \in DOMAIN moves : Phase(m)' = Phase(m)
    BY <1>9, ReadSourceDoes DEF globalVars, Types, GlobalTypes, Fixed, Phase
  <2>2. \A d \in Cells, g \in Nat : Frozen(d, g) => Frozen(d, g)'
    BY <1>9, ReadSourceDoes DEF Frozen, cellVars
  <2>3. \A k \in Jobs : job'[k] = job[k] \/ job'[k].call \notin {"stage_destination", "drain"}
    BY <1>9, ReadSourceDoes DEF JobAt
  <2> QED
    BY <2>1, <2>2, <2>3, StagedKept
<1>10. ASSUME NEW j \in Jobs, WriteDestination(j) PROVE Staged'
  <2>1. Fixed /\ \A m \in DOMAIN moves : Phase(m)' = Phase(m)
    BY <1>10, WriteDestinationDoes DEF globalVars, Types, GlobalTypes, Fixed, Phase
  <2>2. \A d \in Cells, g \in Nat : Frozen(d, g) => Frozen(d, g)'
    BY <1>10, WriteDestinationDoes DEF Frozen, cellVars
  <2>3. \A k \in Jobs : job'[k] = job[k] \/ job'[k].call \notin {"stage_destination", "drain"}
    BY <1>10, WriteDestinationDoes DEF JobAt
  <2> QED
    BY <2>1, <2>2, <2>3, StagedKept
<1>11. ASSUME NEW j \in Jobs, CompareCopy(j) PROVE Staged'
  <2>1. Fixed /\ \A m \in DOMAIN moves : Phase(m)' = Phase(m)
    BY <1>11, CompareCopyDoes DEF globalVars, Types, GlobalTypes, Fixed, Phase
  <2>2. \A d \in Cells, g \in Nat : Frozen(d, g) => Frozen(d, g)'
    BY <1>11, CompareCopyDoes DEF Frozen, cellVars
  <2>3. \A k \in Jobs : job'[k] = job[k] \/ job'[k].call \notin {"stage_destination", "drain"}
    BY <1>11, CompareCopyDoes DEF JobAt
  <2> QED
    BY <2>1, <2>2, <2>3, StagedKept
<1>12. ASSUME NEW j \in Jobs, RecordEvidence(j) PROVE Staged'
  <2>1. Fixed /\ \A m \in DOMAIN moves : Phase(m)' = Phase(m)
    BY <1>12, RecordEvidenceDoes DEF globalVars, Types, GlobalTypes, Fixed, Phase
  <2>2. \A d \in Cells, g \in Nat : Frozen(d, g) => Frozen(d, g)'
    BY <1>12, RecordEvidenceDoes DEF Frozen
  <2>3. \A k \in Jobs : job'[k] = job[k] \/ job'[k].call \notin {"stage_destination", "drain"}
    BY <1>12, RecordEvidenceDoes DEF JobAt
  <2> QED
    BY <2>1, <2>2, <2>3, StagedKept
<1>13. ASSUME NEW j \in Jobs, AdvanceCopied(j) PROVE Staged'
  <2>1. PICK m \in DOMAIN moves :
           /\ Fixed /\ Phase(m) = "drained" /\ Phase(m)' = "copied"
           /\ \A n \in DOMAIN moves : n # m => Phase(n)' = Phase(n)
           /\ UNCHANGED cellVars
           /\ \A k \in Jobs : job'[k] = job[k] \/ job'[k].call \notin {"stage_destination", "drain"}
    BY <1>13, AdvanceCopiedDoes DEF Advanced, Works, JobAt
  <2>2. \A d \in Cells, g \in Nat : Frozen(d, g) => Frozen(d, g)'
    BY <2>1 DEF Frozen, cellVars
  <2>3. \A n \in DOMAIN moves : /\ Phase(n)' \in Closed \cup {"switched"} => Phase(n) \in Closed \cup {"switched"}
                                /\ Phase(n)' \in Closed => Phase(n) \in Closed
    BY <2>1 DEF Closed
  <2> QED
    BY <2>1, <2>2, <2>3, StagedKept
<1>14. ASSUME NEW j \in Jobs, AdvanceReady(j) PROVE Staged'
  <2>1. PICK m \in DOMAIN moves :
           /\ Fixed /\ Phase(m) = "copied" /\ Phase(m)' = "ready"
           /\ \A n \in DOMAIN moves : n # m => Phase(n)' = Phase(n)
           /\ UNCHANGED cellVars
           /\ \A k \in Jobs : job'[k] = job[k] \/ job'[k].call \notin {"stage_destination", "drain"}
    BY <1>14, AdvanceReadyDoes DEF Advanced, Works, JobAt
  <2>2. \A d \in Cells, g \in Nat : Frozen(d, g) => Frozen(d, g)'
    BY <2>1 DEF Frozen, cellVars
  <2>3. \A n \in DOMAIN moves : /\ Phase(n)' \in Closed \cup {"switched"} => Phase(n) \in Closed \cup {"switched"}
                                /\ Phase(n)' \in Closed => Phase(n) \in Closed
    BY <2>1 DEF Closed
  <2> QED
    BY <2>1, <2>2, <2>3, StagedKept
<1>15. ASSUME NEW j \in Jobs, Switch(j) PROVE Staged'
  <2>1. PICK m \in DOMAIN moves :
           /\ Fixed /\ Phase(m) = "ready" /\ Phase(m)' = "switched"
           /\ \A n \in DOMAIN moves : n # m => Phase(n)' = Phase(n)
           /\ UNCHANGED cellVars
           /\ \A k \in Jobs : job'[k] = job[k] \/ job'[k].call \notin {"stage_destination", "drain"}
    BY <1>15, SwitchDoes DEF Advanced, Works, JobAt
  <2>2. \A d \in Cells, g \in Nat : Frozen(d, g) => Frozen(d, g)'
    BY <2>1 DEF Frozen, cellVars
  <2>3. \A n \in DOMAIN moves : /\ Phase(n)' \in Closed \cup {"switched"} => Phase(n) \in Closed \cup {"switched"}
                                /\ Phase(n)' \in Closed => Phase(n) \in Closed
    BY <2>1 DEF Closed
  <2> QED
    BY <2>1, <2>2, <2>3, StagedKept
<1>16. ASSUME NEW j \in Jobs, ActivateDestination(j) PROVE Staged'
  <2>1. PICK m \in DOMAIN moves :
           /\ Works(j, m, "activate", "switched") /\ JobAt(j, "idle", 0, NoRows)
           /\ CellChanged(Destination(m), m, [generation |-> DestinationGeneration(m), state |-> "active"])
           /\ UNCHANGED globalVars
    BY <1>16, ActivateDestinationCell
  <2>2. \A n \in DOMAIN moves : n # m => Phase(n) \in {"completed", "rolled_back"}
    BY <2>1, OpenIsLast DEF Works
  <2>3. /\ UNCHANGED <<account, moves>> /\ \A n \in DOMAIN moves : Phase(n)' = Phase(n)
        /\ \A n : /\ Source(n)' = Source(n) /\ Destination(n)' = Destination(n)
                  /\ SourceGeneration(n)' = SourceGeneration(n)
                  /\ DestinationGeneration(n)' = DestinationGeneration(n)
    BY <2>1 DEF globalVars, Phase, Source, Destination, SourceGeneration, DestinationGeneration
  <2>4. Frozen(Source(m), SourceGeneration(m))'
    <3>1. Frozen(Source(m), SourceGeneration(m))
      BY <2>1 DEF Staged, Works
    <3>2. Source(m) \in Cells /\ Source(m) # Destination(m)
      BY MoveFacts
    <3> QED
      BY <2>1, <2>3, <3>1, <3>2 DEF Frozen, CellChanged
  <2>5. \A n \in DOMAIN moves' :
           /\ Phase(n)' \in {"drained", "copied", "ready", "switched"} => Frozen(Source(n), SourceGeneration(n))'
           /\ Phase(n)' \notin {"drained", "copied", "ready"}
    BY <2>1, <2>2, <2>3, <2>4 DEF Works
  <2>6. job'[j].call = "idle" /\ \A k \in Jobs : k # j => job'[k] = Idle
    BY <2>1 DEF JobAt, Works
  <2> QED
    BY <2>5, <2>6, StagedShown
<1>17. ASSUME NEW j \in Jobs, Rollback(j) PROVE Staged'
  <2>1. PICK m \in DOMAIN moves :
           /\ Fixed /\ Phase(m) = "switched" /\ Phase(m)' = "rolled_back"
           /\ \A n \in DOMAIN moves : n # m => Phase(n)' = Phase(n)
           /\ UNCHANGED cellVars
           /\ \A k \in Jobs : job'[k] = job[k] \/ job'[k].call \notin {"stage_destination", "drain"}
    BY <1>17, RollbackDoes DEF Advanced, Works, JobAt
  <2>2. \A d \in Cells, g \in Nat : Frozen(d, g) => Frozen(d, g)'
    BY <2>1 DEF Frozen, cellVars
  <2>3. \A n \in DOMAIN moves : /\ Phase(n)' \in Closed \cup {"switched"} => Phase(n) \in Closed \cup {"switched"}
                                /\ Phase(n)' \in Closed => Phase(n) \in Closed
    BY <2>1 DEF Closed
  <2> QED
    BY <2>1, <2>2, <2>3, StagedKept
<1>18. ASSUME NEW j \in Jobs, ActivateSource(j) PROVE Staged'
  <2>1. PICK m \in DOMAIN moves :
           /\ Works(j, m, "activate_source", "rolled_back") /\ JobAt(j, "freeze_destination", m, job[j].seen)
           /\ Activatable(Source(m), m, SourceGeneration(m), RollbackGeneration(m))
           /\ CellChanged(Source(m), m, [generation |-> RollbackGeneration(m), state |-> "active"])
           /\ UNCHANGED globalVars
    BY <1>18, ActivateSourceCell
  <2>3. /\ UNCHANGED <<account, moves>> /\ \A n \in DOMAIN moves : Phase(n)' = Phase(n)
        /\ \A n : /\ Source(n)' = Source(n) /\ Destination(n)' = Destination(n)
                  /\ SourceGeneration(n)' = SourceGeneration(n)
                  /\ DestinationGeneration(n)' = DestinationGeneration(n)
    BY <2>1 DEF globalVars, Phase, Source, Destination, SourceGeneration, DestinationGeneration
  <2>4. ASSUME NEW n \in DOMAIN moves, Phase(n) \in {"drained", "copied", "ready", "switched"},
               NEW c \in Cells, NEW g \in Nat, Frozen(c, g),
               \/ g = SourceGeneration(n) /\ c = Source(n)
               \/ g = DestinationGeneration(n) /\ c = Destination(n)
        PROVE  Frozen(c, g)'
    <3>1. /\ moves[n].generation \in Nat /\ moves[m].generation \in Nat /\ n # m
          /\ moves[n].generation >= moves[m].generation + 2
      BY <2>1, <2>4, Apart, MoveFacts DEF Works
    <3>2. g = moves[n].generation \/ g = moves[n].generation + 1
      BY <2>4, MoveFacts
    <3>3. g # SourceGeneration(m)
      <4>1. PICK a \in Nat, b \in Nat : a = moves[n].generation /\ b = moves[m].generation
        BY <3>1
      <4>2. SourceGeneration(m) = b
        BY <4>1 DEF SourceGeneration
      <4> QED
        BY <3>1, <3>2, <4>1, <4>2
    <3>4. c # Source(m)
      <4>1. namespace[c].generation = g /\ namespace[c].state = "moving"
        BY <2>4 DEF Frozen
      <4>2. namespace[Source(m)].generation = SourceGeneration(m) \/ namespace[Source(m)].state = "active"
        BY <2>1 DEF Activatable
      <4> QED
        BY <3>3, <4>1, <4>2
    <3> QED
      BY <2>1, <2>4, <3>4 DEF CellChanged, Frozen
  <2>5. ASSUME NEW n \in DOMAIN moves'
        PROVE  /\ Phase(n)' \in {"drained", "copied", "ready", "switched"} => Frozen(Source(n), SourceGeneration(n))'
               /\ Phase(n)' \in {"drained", "copied", "ready"} => Frozen(Destination(n), DestinationGeneration(n))'
    <3>1. n \in DOMAIN moves
      BY <2>3
    <3>2. PICK s \in Cells, d \in Cells, g \in Nat, h \in Nat :
             s = Source(n) /\ d = Destination(n) /\ g = SourceGeneration(n) /\ h = DestinationGeneration(n)
      <4>1. moves[n].generation \in Nat /\ Source(n) \in Cells /\ Destination(n) \in Cells
        BY <3>1, MoveFacts
      <4>2. SourceGeneration(n) \in Nat /\ DestinationGeneration(n) \in Nat
        BY <4>1 DEF SourceGeneration, DestinationGeneration
      <4> QED
        BY <4>1, <4>2
    <3>3. /\ Phase(n) \in {"drained", "copied", "ready", "switched"} => Frozen(s, g)
          /\ Phase(n) \in {"drained", "copied", "ready"} => Frozen(d, h)
      BY <3>1, <3>2 DEF Staged
    <3>4. /\ Phase(n) \in {"drained", "copied", "ready", "switched"} => Frozen(s, g)'
          /\ Phase(n) \in {"drained", "copied", "ready"} => Frozen(d, h)'
      <4>1. CASE Phase(n) \in {"drained", "copied", "ready", "switched"} /\ Frozen(s, g)
        <5>1. Frozen(s, g)'
          BY <2>4, <3>1, <3>2, <4>1
        <5>2. Phase(n) \in {"drained", "copied", "ready"} => Frozen(d, h)'
          BY <2>4, <3>1, <3>2, <3>3
        <5> QED
          BY <5>1, <5>2
      <4> QED
        BY <3>3, <4>1
    <3> QED
      BY <2>3, <3>1, <3>2, <3>4 DEF Frozen
  <2>6. job'[j].call = "freeze_destination" /\ \A k \in Jobs : k # j => job'[k] = Idle
    BY <2>1 DEF JobAt, Works
  <2> QED
    BY <2>5, <2>6, StagedShown
<1>19. ASSUME NEW j \in Jobs, FreezeDestination(j) PROVE Staged'
  <2>1. PICK m \in DOMAIN moves :
           /\ Works(j, m, "freeze_destination", "rolled_back") /\ JobAt(j, "idle", 0, NoRows)
           /\ DestinationFreezable(m)
           /\ CellChanged(Destination(m), m, [generation |-> DestinationGeneration(m), state |-> "moving"])
           /\ UNCHANGED globalVars
    BY <1>19, FreezeDestinationCell
  <2>3. /\ UNCHANGED <<account, moves>> /\ \A n \in DOMAIN moves : Phase(n)' = Phase(n)
        /\ \A n : /\ Source(n)' = Source(n) /\ Destination(n)' = Destination(n)
                  /\ SourceGeneration(n)' = SourceGeneration(n)
                  /\ DestinationGeneration(n)' = DestinationGeneration(n)
    BY <2>1 DEF globalVars, Phase, Source, Destination, SourceGeneration, DestinationGeneration
  <2>4. \A d \in Cells, g \in Nat : Frozen(d, g) => Frozen(d, g)'
    BY <2>1 DEF Frozen, CellChanged, DestinationFreezable
  <2>5. Fixed
    BY <2>3 DEF Fixed, Types, GlobalTypes
  <2>6. \A k \in Jobs : job'[k] = job[k] \/ job'[k].call \notin {"stage_destination", "drain"}
    BY <2>1 DEF JobAt
  <2> QED
    BY <2>3, <2>4, <2>5, <2>6, StagedKept
<1>20. ASSUME NEW j \in Jobs, BeginRetirement(j) PROVE Staged'
  <2>1. PICK m \in DOMAIN moves :
           /\ Fixed /\ Phase(m) = "switched" /\ Phase(m)' = "retiring"
           /\ \A n \in DOMAIN moves : n # m => Phase(n)' = Phase(n)
           /\ UNCHANGED cellVars
           /\ \A k \in Jobs : job'[k] = job[k] \/ job'[k].call \notin {"stage_destination", "drain"}
    BY <1>20, BeginRetirementDoes DEF Advanced, Works, JobAt
  <2>2. \A d \in Cells, g \in Nat : Frozen(d, g) => Frozen(d, g)'
    BY <2>1 DEF Frozen, cellVars
  <2>3. \A n \in DOMAIN moves : /\ Phase(n)' \in Closed \cup {"switched"} => Phase(n) \in Closed \cup {"switched"}
                                /\ Phase(n)' \in Closed => Phase(n) \in Closed
    BY <2>1 DEF Closed
  <2> QED
    BY <2>1, <2>2, <2>3, StagedKept
<1>21. ASSUME NEW j \in Jobs, RetireSource(j) PROVE Staged'
  <2>1. PICK m \in DOMAIN moves :
           /\ Works(j, m, "retire", "retiring") /\ JobAt(j, "complete", m, job[j].seen) /\ UNCHANGED globalVars
    BY <1>21, RetireSourceCell
  <2>2. \A n \in DOMAIN moves : n # m => Phase(n) \in {"completed", "rolled_back"}
    BY <2>1, OpenIsLast DEF Works
  <2>3. /\ UNCHANGED <<account, moves>> /\ \A n \in DOMAIN moves : Phase(n)' = Phase(n)
        /\ \A n : /\ Source(n)' = Source(n) /\ Destination(n)' = Destination(n)
                  /\ SourceGeneration(n)' = SourceGeneration(n)
                  /\ DestinationGeneration(n)' = DestinationGeneration(n)
    BY <2>1 DEF globalVars, Phase, Source, Destination, SourceGeneration, DestinationGeneration
  <2>5. \A n \in DOMAIN moves' : Phase(n)' \notin {"drained", "copied", "ready", "switched"}
    BY <2>1, <2>2, <2>3 DEF Works
  <2>6. job'[j].call = "complete" /\ \A k \in Jobs : k # j => job'[k] = Idle
    BY <2>1 DEF JobAt, Works
  <2> QED
    BY <2>5, <2>6, StagedShown
<1>22. ASSUME NEW j \in Jobs, Complete(j) PROVE Staged'
  <2>1. PICK m \in DOMAIN moves :
           /\ Fixed /\ Phase(m) = "retiring" /\ Phase(m)' = "completed"
           /\ \A n \in DOMAIN moves : n # m => Phase(n)' = Phase(n)
           /\ UNCHANGED cellVars
           /\ \A k \in Jobs : job'[k] = job[k] \/ job'[k].call \notin {"stage_destination", "drain"}
    BY <1>22, CompleteDoes DEF Advanced, Works, JobAt
  <2>2. \A d \in Cells, g \in Nat : Frozen(d, g) => Frozen(d, g)'
    BY <2>1 DEF Frozen, cellVars
  <2>3. \A n \in DOMAIN moves : /\ Phase(n)' \in Closed \cup {"switched"} => Phase(n) \in Closed \cup {"switched"}
                                /\ Phase(n)' \in Closed => Phase(n) \in Closed
    BY <2>1 DEF Closed
  <2> QED
    BY <2>1, <2>2, <2>3, StagedKept
<1> QED
  BY NextSplit, <1>1, <1>2, <1>3, <1>4, <1>5, <1>6, <1>7, <1>8, <1>9, <1>10, <1>11, <1>12, <1>13, <1>14,
     <1>15, <1>16, <1>17, <1>18, <1>19, <1>20, <1>21, <1>22

-------------------------------------------------------------------------------
(***************************************************************************)
(* A source that was not activated again is the home                       *)
(***************************************************************************)

\* Where no namespace freezes and no move is rolled back.
LEMMA UndoneKept ==
    ASSUME Types, Undone, Fixed, account'.cell = account.cell, account'.generation = account.generation,
           \A c \in Cells, g \in Nat : Frozen(c, g)' => Frozen(c, g),
           \A m \in DOMAIN moves : Phase(m)' = "rolled_back" => Phase(m) = "rolled_back"
    PROVE  Undone'
<1>1. ASSUME NEW m \in DOMAIN moves', Phase(m)' = "rolled_back", Frozen(Source(m), SourceGeneration(m))'
      PROVE  account'.cell = Source(m)' /\ account'.generation = RollbackGeneration(m)'
  <2>1. m \in DOMAIN moves /\ Phase(m) = "rolled_back"
    BY <1>1 DEF Fixed
  <2>2. PICK s \in Cells, g \in Nat : /\ s = Source(m) /\ g = SourceGeneration(m)
                                      /\ s = Source(m)' /\ g = SourceGeneration(m)'
    BY <2>1, RecordFields DEF Fixed, Source, SourceGeneration, Types, GlobalTypes
  <2>3. Frozen(s, g)'
    BY <1>1, <2>2 DEF Frozen
  <2>4. Frozen(s, g)
    BY <2>3
  <2>5. account.cell = s /\ account.generation = RollbackGeneration(m)
    BY <2>1, <2>2, <2>4 DEF Undone
  <2> QED
    BY <2>1, <2>2, <2>5 DEF Fixed, RollbackGeneration
<1> QED
  BY <1>1 DEF Undone

\* Where one namespace freezes at a generation no rolled back move started from.
LEMMA UndoneFrozen ==
    ASSUME Types, Undone, UNCHANGED <<account, moves>>, NEW c \in Cells, NEW g \in Nat,
           namespace'[c] = [generation |-> g, state |-> "moving"],
           \A d \in Cells : d # c => namespace'[d] = namespace[d],
           \A n \in DOMAIN moves : Phase(n) = "rolled_back" /\ Source(n) = c => SourceGeneration(n) # g
    PROVE  Undone'
<1>1. ASSUME NEW n \in DOMAIN moves', Phase(n)' = "rolled_back", Frozen(Source(n), SourceGeneration(n))'
      PROVE  account'.cell = Source(n)' /\ account'.generation = RollbackGeneration(n)'
  <2>1. n \in DOMAIN moves /\ Phase(n) = "rolled_back" /\ Source(n)' = Source(n)
        /\ SourceGeneration(n)' = SourceGeneration(n) /\ RollbackGeneration(n)' = RollbackGeneration(n)
    BY <1>1 DEF Phase, Source, SourceGeneration, RollbackGeneration
  <2>2. Source(n) \in Cells
    BY <2>1, RecordFields DEF Source, Types, GlobalTypes
  <2>3. namespace'[Source(n)] = [generation |-> SourceGeneration(n), state |-> "moving"]
    BY <1>1, <2>1 DEF Frozen
  <2>4. Source(n) # c
    BY <2>1, <2>3
  <2>5. Frozen(Source(n), SourceGeneration(n))
    BY <2>2, <2>3, <2>4 DEF Frozen
  <2> QED
    BY <2>1, <2>5 DEF Undone
<1> QED
  BY <1>1 DEF Undone

\* The generation of a move still open, or rolled back itself, is none of them.
LEMMA NoneStartsThere ==
    ASSUME Types, History, Placing, NEW m \in DOMAIN moves
    PROVE  /\ Phase(m) \notin {"completed", "rolled_back"} =>
                 \A n \in DOMAIN moves : Phase(n) = "rolled_back" =>
                     SourceGeneration(n) # SourceGeneration(m) /\ SourceGeneration(n) # DestinationGeneration(m)
           /\ Phase(m) = "rolled_back" =>
                 \A n \in DOMAIN moves : Phase(n) = "rolled_back" /\ Source(n) = Destination(m) =>
                     SourceGeneration(n) # DestinationGeneration(m)
<1>1. ASSUME NEW n \in DOMAIN moves, Phase(n) = "rolled_back", Phase(m) \notin {"completed", "rolled_back"}
      PROVE  SourceGeneration(n) # SourceGeneration(m) /\ SourceGeneration(n) # DestinationGeneration(m)
  <2>1. PICK a \in Nat, b \in Nat : a = moves[m].generation /\ b = moves[n].generation
    BY MoveFacts
  <2>2. a >= b + 2
    BY <1>1, <2>1, Apart
  <2> QED
    BY <2>1, <2>2 DEF SourceGeneration, DestinationGeneration
<1>2. ASSUME NEW n \in DOMAIN moves, Phase(n) = "rolled_back", Phase(m) = "rolled_back", Source(n) = Destination(m)
      PROVE  SourceGeneration(n) # DestinationGeneration(m)
  <2>1. PICK a \in Nat, b \in Nat : a = moves[m].generation /\ b = moves[n].generation
    BY MoveFacts
  <2>2. n # m
    BY <1>2, MoveFacts
  <2>3. a >= b + 2 \/ b >= a + 2
    BY <1>2, <2>1, <2>2, Apart
  <2> QED
    BY <2>1, <2>3 DEF SourceGeneration, DestinationGeneration
<1> QED
  BY <1>1, <1>2

\* A rolled back source that is still frozen is the home of the Account.
LEMMA NextUndone ==
    ASSUME OneJobAtATime, Types, History, Placing, JobsKnow, Staged, Undone, Next
    PROVE  Undone'
<1>1. CASE Routes
  <2>1. Fixed /\ \A m \in DOMAIN moves : Phase(m)' = Phase(m)
    BY <1>1 DEF Routes, globalVars, Types, GlobalTypes, Fixed, Phase
  <2>2. \A d \in Cells, g \in Nat : Frozen(d, g)' => Frozen(d, g)
    BY <1>1 DEF Routes, Frozen, cellVars
  <2>3. account'.cell = account.cell /\ account'.generation = account.generation
    BY <1>1 DEF Routes, globalVars
  <2> QED
    BY <2>1, <2>2, <2>3, UndoneKept
<1>2. ASSUME NEW c \in Cells, NEW w \in Writes, NEW v \in {"queued", "done"}, RowWritten(c, w, v) PROVE Undone'
  <2>1. Fixed /\ \A m \in DOMAIN moves : Phase(m)' = Phase(m)
    BY <1>2 DEF RowWritten, globalVars, Types, GlobalTypes, Fixed, Phase
  <2>2. \A d \in Cells, g \in Nat : Frozen(d, g)' => Frozen(d, g)
    BY <1>2 DEF RowWritten, Frozen
  <2>3. account'.cell = account.cell /\ account'.generation = account.generation
    BY <1>2 DEF RowWritten, globalVars
  <2> QED
    BY <2>1, <2>2, <2>3, UndoneKept
<1>3. CASE ChangeAccountState
  <2>1. Fixed /\ \A m \in DOMAIN moves : Phase(m)' = Phase(m)
    BY <1>3 DEF ChangeAccountState, Types, GlobalTypes, Fixed, Phase
  <2>2. \A d \in Cells, g \in Nat : Frozen(d, g)' => Frozen(d, g)
    BY <1>3 DEF ChangeAccountState, Frozen, cellVars
  <2>3. account'.cell = account.cell /\ account'.generation = account.generation
    BY <1>3 DEF ChangeAccountState, Types, GlobalTypes
  <2> QED
    BY <2>1, <2>2, <2>3, UndoneKept
<1>4. ASSUME NEW c \in Cells, Prepare(c) PROVE Undone'
  <2>1. PICK N \in Nat : N = Len(moves) + 1
    BY Records DEF Types, GlobalTypes
  <2>2. /\ moves'[N] = PreparedRecord(c) /\ \A n \in DOMAIN moves : moves'[n] = moves[n]
        /\ \A n \in DOMAIN moves' : n = N \/ n \in DOMAIN moves
        /\ UNCHANGED <<account, cellVars>>
    BY <1>4, <2>1, PrepareDoes
  <2>3. Phase(N)' = "prepared"
    BY <2>2 DEF Phase, PreparedRecord
  <2>4. ASSUME NEW n \in DOMAIN moves', Phase(n)' = "rolled_back", Frozen(Source(n), SourceGeneration(n))'
        PROVE  account'.cell = Source(n)' /\ account'.generation = RollbackGeneration(n)'
    <3>1. n \in DOMAIN moves
      BY <2>2, <2>3, <2>4
    <3> QED
      BY <2>2, <2>4, <3>1 DEF Undone, Phase, Frozen, Source, SourceGeneration, RollbackGeneration, cellVars
  <2> QED
    BY <2>4 DEF Undone
<1>5. CASE Quiet
  <2>1. Fixed /\ \A m \in DOMAIN moves : Phase(m)' = Phase(m)
    BY <1>5 DEF Quiet, Relabeled
  <2>2. \A d \in Cells, g \in Nat : Frozen(d, g)' => Frozen(d, g)
    BY <1>5 DEF Quiet, Frozen, cellVars
  <2>3. account'.cell = account.cell /\ account'.generation = account.generation
    BY <1>5 DEF Quiet
  <2> QED
    BY <2>1, <2>2, <2>3, UndoneKept
<1>6. ASSUME NEW j \in Jobs, StageSource(j) PROVE Undone'
  <2>1. PICK m \in DOMAIN moves :
           /\ Phase(m) = "prepared" /\ UNCHANGED globalVars
           /\ CellChanged(Source(m), m, [generation |-> SourceGeneration(m), state |-> "moving"])
    BY <1>6, StageSourceCell DEF Works
  <2>2. PICK d \in Cells, g \in Nat : d = Source(m) /\ g = SourceGeneration(m)
    BY MoveFacts DEF Generations
  <2>3. \A n \in DOMAIN moves : Phase(n) = "rolled_back" /\ Source(n) = d => SourceGeneration(n) # g
    BY <2>1, <2>2, NoneStartsThere
  <2>4. /\ namespace'[d] = [generation |-> g, state |-> "moving"] /\ UNCHANGED <<account, moves>>
        /\ \A e \in Cells : e # d => namespace'[e] = namespace[e]
    BY <2>1, <2>2 DEF CellChanged, globalVars
  <2> QED
    BY <2>3, <2>4, UndoneFrozen
<1>7. ASSUME NEW j \in Jobs, StageDestination(j) PROVE Undone'
  <2>1. PICK m \in DOMAIN moves :
           /\ Phase(m) = "prepared" /\ UNCHANGED globalVars
           /\ CellChanged(Destination(m), m, [generation |-> DestinationGeneration(m), state |-> "moving"])
    BY <1>7, StageDestinationCell DEF Works
  <2>2. PICK d \in Cells, g \in Nat : d = Destination(m) /\ g = DestinationGeneration(m)
    BY MoveFacts DEF Generations
  <2>3. \A n \in DOMAIN moves : Phase(n) = "rolled_back" /\ Source(n) = d => SourceGeneration(n) # g
    BY <2>1, <2>2, NoneStartsThere
  <2>4. /\ namespace'[d] = [generation |-> g, state |-> "moving"] /\ UNCHANGED <<account, moves>>
        /\ \A e \in Cells : e # d => namespace'[e] = namespace[e]
    BY <2>1, <2>2 DEF CellChanged, globalVars
  <2> QED
    BY <2>3, <2>4, UndoneFrozen
<1>8. ASSUME NEW j \in Jobs, Drain(j) PROVE Undone'
  <2>1. PICK m \in DOMAIN moves :
           /\ Fixed /\ Phase(m)' = "drained" /\ UNCHANGED <<account, cellVars>>
           /\ \A n \in DOMAIN moves : n # m => Phase(n)' = Phase(n)
    BY <1>8, DrainDoes DEF Advanced
  <2>2. \A d \in Cells, g \in Nat : Frozen(d, g)' => Frozen(d, g)
    BY <2>1 DEF Frozen, cellVars
  <2>3. \A n \in DOMAIN moves : Phase(n)' = "rolled_back" => Phase(n) = "rolled_back"
    BY <2>1
  <2> QED
    BY <2>1, <2>2, <2>3, UndoneKept
<1>9. ASSUME NEW j \in Jobs, ReadSource(j) PROVE Undone'
  <2>1. Fixed /\ \A m \in DOMAIN moves : Phase(m)' = Phase(m)
    BY <1>9, ReadSourceDoes DEF globalVars, Types, GlobalTypes, Fixed, Phase
  <2>2. \A d \in Cells, g \in Nat : Frozen(d, g)' => Frozen(d, g)
    BY <1>9, ReadSourceDoes DEF Frozen, cellVars
  <2>3. account'.cell = account.cell /\ account'.generation = account.generation
    BY <1>9, ReadSourceDoes DEF globalVars
  <2> QED
    BY <2>1, <2>2, <2>3, UndoneKept
<1>10. ASSUME NEW j \in Jobs, WriteDestination(j) PROVE Undone'
  <2>1. Fixed /\ \A m \in DOMAIN moves : Phase(m)' = Phase(m)
    BY <1>10, WriteDestinationDoes DEF globalVars, Types, GlobalTypes, Fixed, Phase
  <2>2. \A d \in Cells, g \in Nat : Frozen(d, g)' => Frozen(d, g)
    BY <1>10, WriteDestinationDoes DEF Frozen, cellVars
  <2>3. account'.cell = account.cell /\ account'.generation = account.generation
    BY <1>10, WriteDestinationDoes DEF globalVars
  <2> QED
    BY <2>1, <2>2, <2>3, UndoneKept
<1>11. ASSUME NEW j \in Jobs, CompareCopy(j) PROVE Undone'
  <2>1. Fixed /\ \A m \in DOMAIN moves : Phase(m)' = Phase(m)
    BY <1>11, CompareCopyDoes DEF globalVars, Types, GlobalTypes, Fixed, Phase
  <2>2. \A d \in Cells, g \in Nat : Frozen(d, g)' => Frozen(d, g)
    BY <1>11, CompareCopyDoes DEF Frozen, cellVars
  <2>3. account'.cell = account.cell /\ account'.generation = account.generation
    BY <1>11, CompareCopyDoes DEF globalVars
  <2> QED
    BY <2>1, <2>2, <2>3, UndoneKept
<1>12. ASSUME NEW j \in Jobs, RecordEvidence(j) PROVE Undone'
  <2>1. Fixed /\ \A m \in DOMAIN moves : Phase(m)' = Phase(m)
    BY <1>12, RecordEvidenceDoes DEF globalVars, Types, GlobalTypes, Fixed, Phase
  <2>2. \A d \in Cells, g \in Nat : Frozen(d, g)' => Frozen(d, g)
    BY <1>12, RecordEvidenceDoes DEF Frozen, cellVars
  <2>3. account'.cell = account.cell /\ account'.generation = account.generation
    BY <1>12, RecordEvidenceDoes DEF globalVars
  <2> QED
    BY <2>1, <2>2, <2>3, UndoneKept
<1>13. ASSUME NEW j \in Jobs, AdvanceCopied(j) PROVE Undone'
  <2>1. PICK m \in DOMAIN moves :
           /\ Fixed /\ Phase(m)' = "copied" /\ UNCHANGED <<account, cellVars>>
           /\ \A n \in DOMAIN moves : n # m => Phase(n)' = Phase(n)
    BY <1>13, AdvanceCopiedDoes DEF Advanced
  <2>2. \A d \in Cells, g \in Nat : Frozen(d, g)' => Frozen(d, g)
    BY <2>1 DEF Frozen, cellVars
  <2>3. \A n \in DOMAIN moves : Phase(n)' = "rolled_back" => Phase(n) = "rolled_back"
    BY <2>1
  <2> QED
    BY <2>1, <2>2, <2>3, UndoneKept
<1>14. ASSUME NEW j \in Jobs, AdvanceReady(j) PROVE Undone'
  <2>1. PICK m \in DOMAIN moves :
           /\ Fixed /\ Phase(m)' = "ready" /\ UNCHANGED <<account, cellVars>>
           /\ \A n \in DOMAIN moves : n # m => Phase(n)' = Phase(n)
    BY <1>14, AdvanceReadyDoes DEF Advanced
  <2>2. \A d \in Cells, g \in Nat : Frozen(d, g)' => Frozen(d, g)
    BY <2>1 DEF Frozen, cellVars
  <2>3. \A n \in DOMAIN moves : Phase(n)' = "rolled_back" => Phase(n) = "rolled_back"
    BY <2>1
  <2> QED
    BY <2>1, <2>2, <2>3, UndoneKept
<1>15. ASSUME NEW j \in Jobs, Switch(j) PROVE Undone'
  <2>1. PICK m \in DOMAIN moves :
           /\ Fixed /\ Phase(m) = "ready" /\ Phase(m)' = "switched" /\ Switchable(m)
           /\ \A n \in DOMAIN moves : n # m => Phase(n)' = Phase(n)
           /\ Place(Source(m), Destination(m), DestinationGeneration(m)) /\ UNCHANGED cellVars
    BY <1>15, SwitchDoes DEF Advanced, Works
  <2>2. Source(m) \in Cells /\ Destination(m) \in Cells /\ Source(m) # Destination(m) /\ DestinationGeneration(m) \in Nat
    BY MoveFacts DEF Generations
  <2>3. assigned[Source(m)] > 0 /\ account.cell = Source(m)
    BY <2>1 DEF Switchable
  <2>4. account'.cell = Destination(m) /\ account'.generation = DestinationGeneration(m)
    BY <2>1, <2>2, <2>3, PlaceTyped
  <2>5. ASSUME NEW n \in DOMAIN moves', n # m, Phase(n)' = "rolled_back", Frozen(Source(n), SourceGeneration(n))'
        PROVE  FALSE
    <3>1. n \in DOMAIN moves /\ Phase(n) = "rolled_back" /\ Frozen(Source(n), SourceGeneration(n))
      BY <2>1, <2>5 DEF Fixed, Frozen, Source, SourceGeneration, cellVars
    <3>2. PICK a \in Nat, b \in Nat : a = moves[m].generation /\ b = moves[n].generation
      BY <3>1, MoveFacts
    <3>3. a >= b + 2
      BY <2>1, <2>5, <3>1, <3>2, Apart
    <3>4. account.generation = b + 2 /\ account.cell = Source(n)
      BY <3>1, <3>2 DEF Undone, RollbackGeneration
    <3>5. Frozen(Source(m), SourceGeneration(m))
      BY <2>1 DEF Staged
    <3>6. SourceGeneration(m) = a /\ SourceGeneration(n) = b /\ Source(m) = Source(n)
      BY <2>3, <3>2, <3>4 DEF SourceGeneration
    <3>7. a = b
      BY <3>1, <3>5, <3>6 DEF Frozen
    <3> QED
      BY <3>2, <3>3, <3>7
  <2>7. ASSUME NEW n \in DOMAIN moves', Phase(n)' = "rolled_back", Frozen(Source(n), SourceGeneration(n))'
        PROVE  account'.cell = Source(n)' /\ account'.generation = RollbackGeneration(n)'
    BY <2>1, <2>5, <2>7
  <2> QED
    BY <2>7 DEF Undone
<1>16. ASSUME NEW j \in Jobs, ActivateDestination(j) PROVE Undone'
  <2>1. Fixed /\ \A m \in DOMAIN moves : Phase(m)' = Phase(m)
    BY <1>16, ActivateDestinationDoes DEF globalVars, Types, GlobalTypes, Fixed, Phase
  <2>2. \A d \in Cells, g \in Nat : Frozen(d, g)' => Frozen(d, g)
    <3>1. PICK m \in DOMAIN moves : CellChanged(Destination(m), m, [generation |-> DestinationGeneration(m), state |-> "active"])
      BY <1>16, ActivateDestinationCell
    <3> QED
      BY <3>1 DEF Frozen, CellChanged
  <2>3. account'.cell = account.cell /\ account'.generation = account.generation
    BY <1>16, ActivateDestinationDoes DEF globalVars
  <2> QED
    BY <2>1, <2>2, <2>3, UndoneKept
<1>17. ASSUME NEW j \in Jobs, Rollback(j) PROVE Undone'
  <2>1. PICK m \in DOMAIN moves :
           /\ Fixed /\ Phase(m) = "switched" /\ Phase(m)' = "rolled_back" /\ Reversible(m)
           /\ \A n \in DOMAIN moves : n # m => Phase(n)' = Phase(n)
           /\ Place(Destination(m), Source(m), RollbackGeneration(m)) /\ UNCHANGED cellVars
    BY <1>17, RollbackDoes DEF Advanced, Works
  <2>2. Source(m) \in Cells /\ Destination(m) \in Cells /\ Source(m) # Destination(m) /\ RollbackGeneration(m) \in Nat
    BY MoveFacts DEF Generations
  <2>3. assigned[Destination(m)] > 0 /\ account.cell = Destination(m)
    BY <2>1 DEF Reversible
  <2>4. account'.cell = Source(m) /\ account'.generation = RollbackGeneration(m)
    BY <2>1, <2>2, <2>3, PlaceTyped
  <2>5. ASSUME NEW n \in DOMAIN moves', n # m, Phase(n)' = "rolled_back", Frozen(Source(n), SourceGeneration(n))'
        PROVE  FALSE
    <3>1. n \in DOMAIN moves /\ Phase(n) = "rolled_back" /\ Frozen(Source(n), SourceGeneration(n))
      BY <2>1, <2>5 DEF Fixed, Frozen, Source, SourceGeneration, cellVars
    <3>2. PICK a \in Nat, b \in Nat : a = moves[m].generation /\ b = moves[n].generation
      BY <3>1, MoveFacts
    <3>3. a >= b + 2
      BY <2>1, <2>5, <3>1, <3>2, Apart
    <3>4. account.generation = b + 2 /\ account.cell = Source(n)
      BY <3>1, <3>2 DEF Undone, RollbackGeneration
    <3>5. account.generation = a + 1
      BY <2>1, <3>2, OpenIsLast DEF DestinationGeneration, Left
    <3> QED
      BY <3>2, <3>3, <3>4, <3>5
  <2>6. account'.cell = Source(m)' /\ account'.generation = RollbackGeneration(m)'
    BY <2>1, <2>4 DEF Fixed, Source, RollbackGeneration
  <2>7. ASSUME NEW n \in DOMAIN moves', Phase(n)' = "rolled_back", Frozen(Source(n), SourceGeneration(n))'
        PROVE  account'.cell = Source(n)' /\ account'.generation = RollbackGeneration(n)'
    BY <2>5, <2>6, <2>7
  <2> QED
    BY <2>7 DEF Undone
<1>18. ASSUME NEW j \in Jobs, ActivateSource(j) PROVE Undone'
  <2>1. Fixed /\ \A m \in DOMAIN moves : Phase(m)' = Phase(m)
    BY <1>18, ActivateSourceDoes DEF globalVars, Types, GlobalTypes, Fixed, Phase
  <2>2. \A d \in Cells, g \in Nat : Frozen(d, g)' => Frozen(d, g)
    <3>1. PICK m \in DOMAIN moves : CellChanged(Source(m), m, [generation |-> RollbackGeneration(m), state |-> "active"])
      BY <1>18, ActivateSourceCell
    <3> QED
      BY <3>1 DEF Frozen, CellChanged
  <2>3. account'.cell = account.cell /\ account'.generation = account.generation
    BY <1>18, ActivateSourceDoes DEF globalVars
  <2> QED
    BY <2>1, <2>2, <2>3, UndoneKept
<1>19. ASSUME NEW j \in Jobs, FreezeDestination(j) PROVE Undone'
  <2>1. PICK m \in DOMAIN moves :
           /\ Phase(m) = "rolled_back" /\ UNCHANGED globalVars
           /\ CellChanged(Destination(m), m, [generation |-> DestinationGeneration(m), state |-> "moving"])
    BY <1>19, FreezeDestinationCell DEF Works
  <2>2. PICK d \in Cells, g \in Nat : d = Destination(m) /\ g = DestinationGeneration(m)
    BY MoveFacts DEF Generations
  <2>3. \A n \in DOMAIN moves : Phase(n) = "rolled_back" /\ Source(n) = d => SourceGeneration(n) # g
    BY <2>1, <2>2, NoneStartsThere
  <2>4. /\ namespace'[d] = [generation |-> g, state |-> "moving"] /\ UNCHANGED <<account, moves>>
        /\ \A e \in Cells : e # d => namespace'[e] = namespace[e]
    BY <2>1, <2>2 DEF CellChanged, globalVars
  <2> QED
    BY <2>3, <2>4, UndoneFrozen
<1>20. ASSUME NEW j \in Jobs, BeginRetirement(j) PROVE Undone'
  <2>1. PICK m \in DOMAIN moves :
           /\ Fixed /\ Phase(m)' = "retiring" /\ UNCHANGED <<account, cellVars>>
           /\ \A n \in DOMAIN moves : n # m => Phase(n)' = Phase(n)
    BY <1>20, BeginRetirementDoes DEF Advanced
  <2>2. \A d \in Cells, g \in Nat : Frozen(d, g)' => Frozen(d, g)
    BY <2>1 DEF Frozen, cellVars
  <2>3. \A n \in DOMAIN moves : Phase(n)' = "rolled_back" => Phase(n) = "rolled_back"
    BY <2>1
  <2> QED
    BY <2>1, <2>2, <2>3, UndoneKept
<1>21. ASSUME NEW j \in Jobs, RetireSource(j) PROVE Undone'
  <2>1. Fixed /\ \A m \in DOMAIN moves : Phase(m)' = Phase(m)
    BY <1>21, RetireSourceDoes DEF globalVars, Types, GlobalTypes, Fixed, Phase
  <2>2. \A d \in Cells, g \in Nat : Frozen(d, g)' => Frozen(d, g)
    BY <1>21, RetireSourceCell DEF Frozen, CellChanged, NoNamespace, cellVars
  <2>3. account'.cell = account.cell /\ account'.generation = account.generation
    BY <1>21, RetireSourceDoes DEF globalVars
  <2> QED
    BY <2>1, <2>2, <2>3, UndoneKept
<1>22. ASSUME NEW j \in Jobs, Complete(j) PROVE Undone'
  <2>1. PICK m \in DOMAIN moves :
           /\ Fixed /\ Phase(m)' = "completed" /\ UNCHANGED <<account, cellVars>>
           /\ \A n \in DOMAIN moves : n # m => Phase(n)' = Phase(n)
    BY <1>22, CompleteDoes DEF Advanced
  <2>2. \A d \in Cells, g \in Nat : Frozen(d, g)' => Frozen(d, g)
    BY <2>1 DEF Frozen, cellVars
  <2>3. \A n \in DOMAIN moves : Phase(n)' = "rolled_back" => Phase(n) = "rolled_back"
    BY <2>1
  <2> QED
    BY <2>1, <2>2, <2>3, UndoneKept
<1> QED
  BY NextSplit, <1>1, <1>2, <1>3, <1>4, <1>5, <1>6, <1>7, <1>8, <1>9, <1>10, <1>11, <1>12, <1>13, <1>14,
     <1>15, <1>16, <1>17, <1>18, <1>19, <1>20, <1>21, <1>22

-------------------------------------------------------------------------------
(***************************************************************************)
(* An activated destination says so                                        *)
(***************************************************************************)

\* Where no namespace opens, no move is switched and no checkpoint of a switched
\* move changes.
LEMMA ActiveKept ==
    ASSUME Types, ActiveRecorded, Fixed,
           \A c \in Cells : namespace'[c].state = "active" => namespace[c].state = "active",
           \A m \in DOMAIN moves : Phase(m)' = "switched" =>
              Phase(m) = "switched" /\ \A c \in Cells : checkpoint'[c][m] = checkpoint[c][m]
    PROVE  ActiveRecorded'
<1>1. ASSUME NEW m \in DOMAIN moves', Phase(m)' = "switched", namespace'[Destination(m)'].state = "active"
      PROVE  checkpoint'[Destination(m)'][m].state = "active"
  <2>1. m \in DOMAIN moves /\ Phase(m) = "switched" /\ \A c \in Cells : checkpoint'[c][m] = checkpoint[c][m]
    BY <1>1 DEF Fixed
  <2>2. Destination(m)' = Destination(m) /\ Destination(m) \in Cells
    BY <2>1, RecordFields DEF Fixed, Destination, Types, GlobalTypes
  <2> QED
    BY <1>1, <2>1, <2>2 DEF ActiveRecorded
<1> QED
  BY <1>1 DEF ActiveRecorded

\* Where no move is switched there is nothing to record.
LEMMA ActiveIdle ==
    ASSUME \A m \in DOMAIN moves' : Phase(m)' # "switched"
    PROVE  ActiveRecorded'
BY DEF ActiveRecorded

\* An activated destination has its checkpoint say so at every step.
LEMMA NextActiveRecorded ==
    ASSUME OneJobAtATime, Types, History, Placing, JobsKnow, Staged, Undone, ActiveRecorded, Next
    PROVE  ActiveRecorded'
<1>1. CASE Routes
  <2>1. Fixed /\ \A m \in DOMAIN moves : Phase(m)' = Phase(m)
    BY <1>1 DEF Routes, globalVars, Types, GlobalTypes, Fixed, Phase
  <2>2. UNCHANGED <<namespace, checkpoint>>
    BY <1>1 DEF Routes, cellVars
  <2> QED
    BY <2>1, <2>2, ActiveKept
<1>2. ASSUME NEW c \in Cells, NEW w \in Writes, NEW v \in {"queued", "done"}, RowWritten(c, w, v) PROVE ActiveRecorded'
  <2>1. Fixed /\ \A m \in DOMAIN moves : Phase(m)' = Phase(m)
    BY <1>2 DEF RowWritten, globalVars, Types, GlobalTypes, Fixed, Phase
  <2>2. UNCHANGED <<namespace, checkpoint>>
    BY <1>2 DEF RowWritten
  <2> QED
    BY <2>1, <2>2, ActiveKept
<1>3. CASE ChangeAccountState
  <2>1. Fixed /\ \A m \in DOMAIN moves : Phase(m)' = Phase(m)
    BY <1>3 DEF ChangeAccountState, Types, GlobalTypes, Fixed, Phase
  <2>2. UNCHANGED <<namespace, checkpoint>>
    BY <1>3 DEF ChangeAccountState, cellVars
  <2> QED
    BY <2>1, <2>2, ActiveKept
<1>4. ASSUME NEW c \in Cells, Prepare(c) PROVE ActiveRecorded'
  <2>1. PICK N \in Nat : N = Len(moves) + 1
    BY Records DEF Types, GlobalTypes
  <2>2. /\ moves'[N] = PreparedRecord(c) /\ \A n \in DOMAIN moves : moves'[n] = moves[n]
        /\ \A n \in DOMAIN moves' : n = N \/ n \in DOMAIN moves
        /\ ~OpenMove
    BY <1>4, <2>1, PrepareDoes
  <2>3. Phase(N)' = "prepared"
    BY <2>2 DEF Phase, PreparedRecord
  <2>4. \A n \in DOMAIN moves : Phase(n)' # "switched"
    BY <2>2 DEF OpenMove, Phase
  <2>5. \A n \in DOMAIN moves' : Phase(n)' # "switched"
    BY <2>2, <2>3, <2>4
  <2> QED
    BY <2>5, ActiveIdle
<1>5. CASE Quiet
  <2>1. Fixed /\ \A m \in DOMAIN moves : Phase(m)' = Phase(m)
    BY <1>5 DEF Quiet, Relabeled
  <2>2. UNCHANGED <<namespace, checkpoint>>
    BY <1>5 DEF Quiet, cellVars
  <2> QED
    BY <2>1, <2>2, ActiveKept
<1>6. ASSUME NEW j \in Jobs, StageSource(j) PROVE ActiveRecorded'
  <2>1. PICK m \in DOMAIN moves :
           /\ Fixed /\ Phase(m) = "prepared" /\ \A n \in DOMAIN moves : Phase(n)' = Phase(n)
    <3>1. UNCHANGED moves
      BY <1>6, StageSourceDoes DEF globalVars
    <3> QED
      BY <1>6, StageSourceCell, <3>1 DEF Works, Types, GlobalTypes, Fixed, Phase
  <2>2. \A n \in DOMAIN moves : n # m => Phase(n) \in {"completed", "rolled_back"}
    BY <2>1, OpenIsLast
  <2>3. \A n \in DOMAIN moves' : Phase(n)' # "switched"
    BY <2>1, <2>2 DEF Fixed
  <2> QED
    BY <2>3, ActiveIdle
<1>7. ASSUME NEW j \in Jobs, StageDestination(j) PROVE ActiveRecorded'
  <2>1. PICK m \in DOMAIN moves :
           /\ Fixed /\ Phase(m) = "prepared" /\ \A n \in DOMAIN moves : Phase(n)' = Phase(n)
    <3>1. UNCHANGED moves
      BY <1>7, StageDestinationDoes DEF globalVars
    <3> QED
      BY <1>7, StageDestinationCell, <3>1 DEF Works, Types, GlobalTypes, Fixed, Phase
  <2>2. \A n \in DOMAIN moves : n # m => Phase(n) \in {"completed", "rolled_back"}
    BY <2>1, OpenIsLast
  <2>3. \A n \in DOMAIN moves' : Phase(n)' # "switched"
    BY <2>1, <2>2 DEF Fixed
  <2> QED
    BY <2>3, ActiveIdle
<1>8. ASSUME NEW j \in Jobs, Drain(j) PROVE ActiveRecorded'
  <2>1. PICK m \in DOMAIN moves :
           /\ Fixed /\ Phase(m) = "prepared" /\ Phase(m)' = "drained"
           /\ \A n \in DOMAIN moves : n # m => Phase(n)' = Phase(n)
    BY <1>8, DrainDoes DEF Advanced, Works
  <2>2. \A n \in DOMAIN moves : n # m => Phase(n) \in {"completed", "rolled_back"}
    BY <2>1, OpenIsLast
  <2>3. \A n \in DOMAIN moves' : Phase(n)' # "switched"
    BY <2>1, <2>2 DEF Fixed
  <2> QED
    BY <2>3, ActiveIdle
<1>9. ASSUME NEW j \in Jobs, ReadSource(j) PROVE ActiveRecorded'
  <2>1. Fixed /\ \A m \in DOMAIN moves : Phase(m)' = Phase(m)
    BY <1>9, ReadSourceDoes DEF globalVars, Types, GlobalTypes, Fixed, Phase
  <2>2. UNCHANGED <<namespace, checkpoint>>
    BY <1>9, ReadSourceDoes DEF cellVars
  <2> QED
    BY <2>1, <2>2, ActiveKept
<1>10. ASSUME NEW j \in Jobs, WriteDestination(j) PROVE ActiveRecorded'
  <2>1. Fixed /\ \A m \in DOMAIN moves : Phase(m)' = Phase(m)
    BY <1>10, WriteDestinationDoes DEF globalVars, Types, GlobalTypes, Fixed, Phase
  <2>2. UNCHANGED <<namespace, checkpoint>>
    BY <1>10, WriteDestinationDoes DEF cellVars
  <2> QED
    BY <2>1, <2>2, ActiveKept
<1>11. ASSUME NEW j \in Jobs, CompareCopy(j) PROVE ActiveRecorded'
  <2>1. Fixed /\ \A m \in DOMAIN moves : Phase(m)' = Phase(m)
    BY <1>11, CompareCopyDoes DEF globalVars, Types, GlobalTypes, Fixed, Phase
  <2>2. UNCHANGED <<namespace, checkpoint>>
    BY <1>11, CompareCopyDoes DEF cellVars
  <2> QED
    BY <2>1, <2>2, ActiveKept
<1>12. ASSUME NEW j \in Jobs, RecordEvidence(j) PROVE ActiveRecorded'
  <2>1. PICK m \in DOMAIN moves :
           /\ Fixed /\ Phase(m) = "drained" /\ \A n \in DOMAIN moves : Phase(n)' = Phase(n)
    <3>1. UNCHANGED moves
      BY <1>12, RecordEvidenceDoes DEF globalVars
    <3> QED
      BY <1>12, RecordEvidenceCell, <3>1 DEF Works, Types, GlobalTypes, Fixed, Phase
  <2>2. \A n \in DOMAIN moves : n # m => Phase(n) \in {"completed", "rolled_back"}
    BY <2>1, OpenIsLast
  <2>3. \A n \in DOMAIN moves' : Phase(n)' # "switched"
    BY <2>1, <2>2 DEF Fixed
  <2> QED
    BY <2>3, ActiveIdle
<1>13. ASSUME NEW j \in Jobs, AdvanceCopied(j) PROVE ActiveRecorded'
  <2>1. PICK m \in DOMAIN moves :
           /\ Fixed /\ Phase(m) = "drained" /\ Phase(m)' = "copied"
           /\ \A n \in DOMAIN moves : n # m => Phase(n)' = Phase(n)
    BY <1>13, AdvanceCopiedDoes DEF Advanced, Works
  <2>2. \A n \in DOMAIN moves : n # m => Phase(n) \in {"completed", "rolled_back"}
    BY <2>1, OpenIsLast
  <2>3. \A n \in DOMAIN moves' : Phase(n)' # "switched"
    BY <2>1, <2>2 DEF Fixed
  <2> QED
    BY <2>3, ActiveIdle
<1>14. ASSUME NEW j \in Jobs, AdvanceReady(j) PROVE ActiveRecorded'
  <2>1. PICK m \in DOMAIN moves :
           /\ Fixed /\ Phase(m) = "copied" /\ Phase(m)' = "ready"
           /\ \A n \in DOMAIN moves : n # m => Phase(n)' = Phase(n)
    BY <1>14, AdvanceReadyDoes DEF Advanced, Works
  <2>2. \A n \in DOMAIN moves : n # m => Phase(n) \in {"completed", "rolled_back"}
    BY <2>1, OpenIsLast
  <2>3. \A n \in DOMAIN moves' : Phase(n)' # "switched"
    BY <2>1, <2>2 DEF Fixed
  <2> QED
    BY <2>3, ActiveIdle
<1>15. ASSUME NEW j \in Jobs, Switch(j) PROVE ActiveRecorded'
  <2>1. PICK m \in DOMAIN moves :
           /\ Fixed /\ Phase(m) = "ready" /\ Phase(m)' = "switched" /\ UNCHANGED cellVars
           /\ \A n \in DOMAIN moves : n # m => Phase(n)' = Phase(n)
    BY <1>15, SwitchDoes DEF Advanced, Works
  <2>2. \A n \in DOMAIN moves : n # m => Phase(n) \in {"completed", "rolled_back"}
    BY <2>1, OpenIsLast
  <2>3. Destination(m)' = Destination(m) /\ namespace'[Destination(m)].state = "moving"
    <3>1. Frozen(Destination(m), DestinationGeneration(m))
      BY <2>1 DEF Staged
    <3> QED
      BY <2>1, <3>1 DEF Frozen, Fixed, Destination, cellVars
  <2>4. ASSUME NEW n \in DOMAIN moves', Phase(n)' = "switched" PROVE namespace'[Destination(n)'].state # "active"
    BY <2>1, <2>2, <2>3, <2>4 DEF Fixed
  <2> QED
    BY <2>4 DEF ActiveRecorded
<1>16. ASSUME NEW j \in Jobs, ActivateDestination(j) PROVE ActiveRecorded'
  <2>1. PICK m \in DOMAIN moves :
           /\ Phase(m) = "switched" /\ checkpoint'[Destination(m)][m].state = "active" /\ UNCHANGED globalVars
    BY <1>16, ActivateDestinationCell DEF Works
  <2>2. \A n \in DOMAIN moves : n # m => Phase(n) \in {"completed", "rolled_back"}
    BY <2>1, OpenIsLast
  <2>3. UNCHANGED moves /\ Destination(m)' = Destination(m) /\ \A n \in DOMAIN moves : Phase(n)' = Phase(n)
    BY <2>1 DEF globalVars, Destination, Phase
  <2>4. ASSUME NEW n \in DOMAIN moves', Phase(n)' = "switched" PROVE checkpoint'[Destination(n)'][n].state = "active"
    BY <2>1, <2>2, <2>3, <2>4
  <2> QED
    BY <2>4 DEF ActiveRecorded
<1>17. ASSUME NEW j \in Jobs, Rollback(j) PROVE ActiveRecorded'
  <2>1. PICK m \in DOMAIN moves :
           /\ Fixed /\ Phase(m) = "switched" /\ Phase(m)' = "rolled_back"
           /\ \A n \in DOMAIN moves : n # m => Phase(n)' = Phase(n)
    BY <1>17, RollbackDoes DEF Advanced, Works
  <2>2. \A n \in DOMAIN moves : n # m => Phase(n) \in {"completed", "rolled_back"}
    BY <2>1, OpenIsLast
  <2>3. \A n \in DOMAIN moves' : Phase(n)' # "switched"
    BY <2>1, <2>2 DEF Fixed
  <2> QED
    BY <2>3, ActiveIdle
<1>18. ASSUME NEW j \in Jobs, ActivateSource(j) PROVE ActiveRecorded'
  <2>1. PICK m \in DOMAIN moves :
           /\ Phase(m) = "rolled_back" /\ UNCHANGED globalVars
           /\ Activatable(Source(m), m, SourceGeneration(m), RollbackGeneration(m))
           /\ CellChanged(Source(m), m, [generation |-> RollbackGeneration(m), state |-> "active"])
    BY <1>18, ActivateSourceCell DEF Works
  <2>2. UNCHANGED moves /\ Fixed /\ \A n \in DOMAIN moves : Phase(n)' = Phase(n)
    BY <2>1 DEF globalVars, Phase, Fixed, Types, GlobalTypes
  <2>3. ASSUME NEW n \in DOMAIN moves, Phase(n)' = "switched"
        PROVE  Phase(n) = "switched" /\ \A d \in Cells : checkpoint'[d][n] = checkpoint[d][n]
    <3>1. n # m /\ n \in 1..MaxMoves
      BY <2>1, <2>2, <2>3, MoveFacts
    <3> QED
      BY <2>1, <2>2, <2>3, <3>1 DEF CellChanged
  <2>4. CASE Frozen(Source(m), SourceGeneration(m))
    <3>1. account.generation = RollbackGeneration(m)
      BY <2>1, <2>4 DEF Undone
    <3>2. ASSUME NEW n \in DOMAIN moves, Phase(n) = "switched" PROVE FALSE
      <4>1. PICK a \in Nat, b \in Nat : a = moves[n].generation /\ b = moves[m].generation
        BY MoveFacts
      <4>2. account.generation = a + 1 /\ account.generation = b + 2
        BY <3>1, <3>2, <4>1, OpenIsLast DEF Left, DestinationGeneration, RollbackGeneration
      <4>3. a >= b + 2
        BY <2>1, <3>2, <4>1, Apart
      <4> QED
        BY <4>1, <4>2, <4>3
    <3>3. \A n \in DOMAIN moves' : Phase(n)' # "switched"
      BY <2>2, <3>2
    <3> QED
      BY <3>3, ActiveIdle
  <2>5. CASE ~Frozen(Source(m), SourceGeneration(m))
    <3>1. namespace[Source(m)] = [generation |-> RollbackGeneration(m), state |-> "active"]
      BY <2>1, <2>5 DEF Activatable, Frozen
    <3>2. \A d \in Cells : namespace'[d].state = "active" => namespace[d].state = "active"
      BY <2>1, <3>1 DEF CellChanged
    <3> QED
      BY <2>2, <2>3, <3>2, ActiveKept
  <2> QED
    BY <2>4, <2>5
<1>19. ASSUME NEW j \in Jobs, FreezeDestination(j) PROVE ActiveRecorded'
  <2>1. PICK m \in DOMAIN moves :
           /\ Phase(m) = "rolled_back" /\ UNCHANGED globalVars
           /\ CellChanged(Destination(m), m, [generation |-> DestinationGeneration(m), state |-> "moving"])
    BY <1>19, FreezeDestinationCell DEF Works
  <2>2. UNCHANGED moves /\ Fixed /\ \A n \in DOMAIN moves : Phase(n)' = Phase(n)
    BY <2>1 DEF globalVars, Phase, Fixed, Types, GlobalTypes
  <2>3. ASSUME NEW n \in DOMAIN moves, Phase(n)' = "switched"
        PROVE  Phase(n) = "switched" /\ \A d \in Cells : checkpoint'[d][n] = checkpoint[d][n]
    <3>1. n # m /\ n \in 1..MaxMoves
      BY <2>1, <2>2, <2>3, MoveFacts
    <3> QED
      BY <2>1, <2>2, <2>3, <3>1 DEF CellChanged
  <2>4. \A d \in Cells : namespace'[d].state = "active" => namespace[d].state = "active"
    BY <2>1 DEF CellChanged
  <2> QED
    BY <2>2, <2>3, <2>4, ActiveKept
<1>20. ASSUME NEW j \in Jobs, BeginRetirement(j) PROVE ActiveRecorded'
  <2>1. PICK m \in DOMAIN moves :
           /\ Fixed /\ Phase(m) = "switched" /\ Phase(m)' = "retiring"
           /\ \A n \in DOMAIN moves : n # m => Phase(n)' = Phase(n)
    BY <1>20, BeginRetirementDoes DEF Advanced, Works
  <2>2. \A n \in DOMAIN moves : n # m => Phase(n) \in {"completed", "rolled_back"}
    BY <2>1, OpenIsLast
  <2>3. \A n \in DOMAIN moves' : Phase(n)' # "switched"
    BY <2>1, <2>2 DEF Fixed
  <2> QED
    BY <2>3, ActiveIdle
<1>21. ASSUME NEW j \in Jobs, RetireSource(j) PROVE ActiveRecorded'
  <2>1. PICK m \in DOMAIN moves :
           /\ Fixed /\ Phase(m) = "retiring" /\ \A n \in DOMAIN moves : Phase(n)' = Phase(n)
    <3>1. UNCHANGED moves
      BY <1>21, RetireSourceDoes DEF globalVars
    <3> QED
      BY <1>21, RetireSourceCell, <3>1 DEF Works, Types, GlobalTypes, Fixed, Phase
  <2>2. \A n \in DOMAIN moves : n # m => Phase(n) \in {"completed", "rolled_back"}
    BY <2>1, OpenIsLast
  <2>3. \A n \in DOMAIN moves' : Phase(n)' # "switched"
    BY <2>1, <2>2 DEF Fixed
  <2> QED
    BY <2>3, ActiveIdle
<1>22. ASSUME NEW j \in Jobs, Complete(j) PROVE ActiveRecorded'
  <2>1. PICK m \in DOMAIN moves :
           /\ Fixed /\ Phase(m) = "retiring" /\ Phase(m)' = "completed"
           /\ \A n \in DOMAIN moves : n # m => Phase(n)' = Phase(n)
    BY <1>22, CompleteDoes DEF Advanced, Works
  <2>2. \A n \in DOMAIN moves : n # m => Phase(n) \in {"completed", "rolled_back"}
    BY <2>1, OpenIsLast
  <2>3. \A n \in DOMAIN moves' : Phase(n)' # "switched"
    BY <2>1, <2>2 DEF Fixed
  <2> QED
    BY <2>3, ActiveIdle
<1> QED
  BY NextSplit, <1>1, <1>2, <1>3, <1>4, <1>5, <1>6, <1>7, <1>8, <1>9, <1>10, <1>11, <1>12, <1>13, <1>14,
     <1>15, <1>16, <1>17, <1>18, <1>19, <1>20, <1>21, <1>22

-------------------------------------------------------------------------------
(***************************************************************************)
(* One writable cell                                                       *)
(***************************************************************************)

\* A record is in the phase 'rolled_back' exactly when that is its state.
LEMMA RolledBackState ==
    ASSUME NEW r \in Move
    PROVE  (IF r.state = "paused" THEN r.resume ELSE r.state) = "rolled_back" <=> r.state = "rolled_back"
BY DEF Move, Unswitched

\* A destination given up by a rollback that has not frozen it yet.
GivenUp(c, m) == moves[m].state = "rolled_back" /\ moves[m].destination = c /\ checkpoint[c][m].state = "active"

\* A destination stays given up while its checkpoint says so.
LEMMA GivenUpKept ==
    ASSUME Types, Fixed, NEW c \in Cells, NEW m \in DOMAIN moves, GivenUp(c, m),
           Phase(m) = "rolled_back" => Phase(m)' = "rolled_back" /\ checkpoint'[c][m] = checkpoint[c][m]
    PROVE  GivenUp(c, m)'
<1>1. moves[m] \in Move /\ moves'[m] \in Move
  BY Records, ElementOfSeq, LenProperties DEF Types, GlobalTypes, Fixed
<1>2. Phase(m)' = "rolled_back" /\ checkpoint'[c][m] = checkpoint[c][m]
  BY <1>1, RolledBackState DEF GivenUp, Phase
<1>3. moves'[m].state = "rolled_back"
  BY <1>1, <1>2, RolledBackState DEF Phase
<1> QED
  BY <1>2, <1>3 DEF GivenUp, Fixed

\* Where no second cell opens, and no abandoned destination is touched.
LEMMA WritableKept ==
    ASSUME Types, OneWritableCell, Fixed,
           \A c \in Cells : c # account'.cell /\ namespace'[c].state = "active" =>
              c # account.cell /\ namespace[c].state = "active",
           \A m \in DOMAIN moves : Phase(m) = "rolled_back" =>
              /\ Phase(m)' = "rolled_back"
              /\ (namespace'[Destination(m)].state = "active" =>
                    checkpoint'[Destination(m)][m] = checkpoint[Destination(m)][m])
    PROVE  OneWritableCell'
<1>1. ASSUME NEW c \in Cells, c # account'.cell, namespace'[c].state = "active"
      PROVE  \E m \in DOMAIN moves' : GivenUp(c, m)'
  <2>1. PICK m \in DOMAIN moves : GivenUp(c, m)
    BY <1>1 DEF OneWritableCell, GivenUp
  <2>2. Destination(m) = c
    BY <2>1 DEF GivenUp, Destination
  <2>3. GivenUp(c, m)'
    BY <1>1, <2>1, <2>2, GivenUpKept
  <2> QED
    BY <2>3 DEF Fixed
<1> QED
  BY <1>1 DEF OneWritableCell, GivenUp

\* Beside its home an Account stays writable only where a rollback gave up.
LEMMA NextOneWritable ==
    ASSUME OneJobAtATime, Types, History, Placing, JobsKnow, Staged, Undone, ActiveRecorded, OneWritableCell, Next
    PROVE  OneWritableCell'
<1>1. CASE Routes
  <2>1. Fixed /\ \A m \in DOMAIN moves : Phase(m)' = Phase(m)
    BY <1>1 DEF Routes, globalVars, Types, GlobalTypes, Fixed, Phase
  <2>2. UNCHANGED <<namespace, checkpoint>> /\ account'.cell = account.cell
    BY <1>1 DEF Routes, cellVars, globalVars
  <2> QED
    BY <2>1, <2>2, WritableKept
<1>2. ASSUME NEW c \in Cells, NEW w \in Writes, NEW v \in {"queued", "done"}, RowWritten(c, w, v) PROVE OneWritableCell'
  <2>1. Fixed /\ \A m \in DOMAIN moves : Phase(m)' = Phase(m)
    BY <1>2 DEF RowWritten, globalVars, Types, GlobalTypes, Fixed, Phase
  <2>2. UNCHANGED <<namespace, checkpoint>> /\ account'.cell = account.cell
    BY <1>2 DEF RowWritten, globalVars
  <2> QED
    BY <2>1, <2>2, WritableKept
<1>3. CASE ChangeAccountState
  <2>1. Fixed /\ \A m \in DOMAIN moves : Phase(m)' = Phase(m)
    BY <1>3 DEF ChangeAccountState, Types, GlobalTypes, Fixed, Phase
  <2>2. UNCHANGED <<namespace, checkpoint>> /\ account'.cell = account.cell
    BY <1>3 DEF ChangeAccountState, cellVars, Types, GlobalTypes
  <2> QED
    BY <2>1, <2>2, WritableKept
<1>4. ASSUME NEW c \in Cells, Prepare(c) PROVE OneWritableCell'
  <2>1. /\ \A n \in DOMAIN moves : n \in DOMAIN moves' /\ moves'[n] = moves[n]
        /\ UNCHANGED <<account, namespace, checkpoint>>
    BY <1>4, PrepareDoes DEF cellVars
  <2>2. ASSUME NEW d \in Cells, d # account'.cell, namespace'[d].state = "active"
        PROVE  \E n \in DOMAIN moves' : GivenUp(d, n)'
    <3>1. PICK n \in DOMAIN moves : GivenUp(d, n)
      BY <2>1, <2>2 DEF OneWritableCell, GivenUp
    <3>2. GivenUp(d, n)'
      BY <2>1, <3>1 DEF GivenUp
    <3> QED
      BY <2>1, <3>2
  <2> QED
    BY <2>2 DEF OneWritableCell, GivenUp
<1>5. CASE Quiet
  <2>1. Fixed /\ \A m \in DOMAIN moves : Phase(m)' = Phase(m)
    BY <1>5 DEF Quiet, Relabeled
  <2>2. UNCHANGED <<namespace, checkpoint>> /\ account'.cell = account.cell
    BY <1>5 DEF Quiet, cellVars
  <2> QED
    BY <2>1, <2>2, WritableKept
<1>6. ASSUME NEW j \in Jobs, StageSource(j) PROVE OneWritableCell'
  <2>1. PICK m \in DOMAIN moves :
           /\ Phase(m) = "prepared" /\ UNCHANGED globalVars
           /\ CellChanged(Source(m), m, [generation |-> SourceGeneration(m), state |-> "moving"])
    BY <1>6, StageSourceCell DEF Works
  <2>2. Fixed /\ account'.cell = account.cell /\ \A n \in DOMAIN moves : Phase(n)' = Phase(n)
    BY <2>1 DEF globalVars, Phase, Fixed, Types, GlobalTypes
  <2>3. ASSUME NEW n \in DOMAIN moves, Phase(n) = "rolled_back"
        PROVE  checkpoint'[Destination(n)][n] = checkpoint[Destination(n)][n]
    <3>1. n # m /\ n \in 1..MaxMoves /\ Destination(n) \in Cells
      BY <2>1, <2>3, MoveFacts
    <3> QED
      BY <2>1, <3>1 DEF CellChanged
  <2>4. \A d \in Cells : namespace'[d].state = "active" => namespace[d].state = "active"
    BY <2>1 DEF CellChanged
  <2> QED
    BY <2>2, <2>3, <2>4, WritableKept
<1>7. ASSUME NEW j \in Jobs, StageDestination(j) PROVE OneWritableCell'
  <2>1. PICK m \in DOMAIN moves :
           /\ Phase(m) = "prepared" /\ UNCHANGED globalVars
           /\ CellChanged(Destination(m), m, [generation |-> DestinationGeneration(m), state |-> "moving"])
    BY <1>7, StageDestinationCell DEF Works
  <2>2. Fixed /\ account'.cell = account.cell /\ \A n \in DOMAIN moves : Phase(n)' = Phase(n)
    BY <2>1 DEF globalVars, Phase, Fixed, Types, GlobalTypes
  <2>3. ASSUME NEW n \in DOMAIN moves, Phase(n) = "rolled_back"
        PROVE  checkpoint'[Destination(n)][n] = checkpoint[Destination(n)][n]
    <3>1. n # m /\ n \in 1..MaxMoves /\ Destination(n) \in Cells
      BY <2>1, <2>3, MoveFacts
    <3> QED
      BY <2>1, <3>1 DEF CellChanged
  <2>4. \A d \in Cells : namespace'[d].state = "active" => namespace[d].state = "active"
    BY <2>1 DEF CellChanged
  <2> QED
    BY <2>2, <2>3, <2>4, WritableKept
<1>8. ASSUME NEW j \in Jobs, Drain(j) PROVE OneWritableCell'
  <2>1. PICK m \in DOMAIN moves :
           /\ Fixed /\ Phase(m) = "prepared" /\ \A n \in DOMAIN moves : n # m => Phase(n)' = Phase(n)
           /\ UNCHANGED <<namespace, checkpoint>> /\ account'.cell = account.cell
    BY <1>8, DrainDoes DEF Advanced, Works, cellVars
  <2> QED
    BY <2>1, WritableKept
<1>9. ASSUME NEW j \in Jobs, ReadSource(j) PROVE OneWritableCell'
  <2>1. Fixed /\ \A m \in DOMAIN moves : Phase(m)' = Phase(m)
    BY <1>9, ReadSourceDoes DEF globalVars, Types, GlobalTypes, Fixed, Phase
  <2>2. UNCHANGED <<namespace, checkpoint>> /\ account'.cell = account.cell
    BY <1>9, ReadSourceDoes DEF cellVars, globalVars
  <2> QED
    BY <2>1, <2>2, WritableKept
<1>10. ASSUME NEW j \in Jobs, WriteDestination(j) PROVE OneWritableCell'
  <2>1. Fixed /\ \A m \in DOMAIN moves : Phase(m)' = Phase(m)
    BY <1>10, WriteDestinationDoes DEF globalVars, Types, GlobalTypes, Fixed, Phase
  <2>2. UNCHANGED <<namespace, checkpoint>> /\ account'.cell = account.cell
    BY <1>10, WriteDestinationDoes DEF cellVars, globalVars
  <2> QED
    BY <2>1, <2>2, WritableKept
<1>11. ASSUME NEW j \in Jobs, CompareCopy(j) PROVE OneWritableCell'
  <2>1. Fixed /\ \A m \in DOMAIN moves : Phase(m)' = Phase(m)
    BY <1>11, CompareCopyDoes DEF globalVars, Types, GlobalTypes, Fixed, Phase
  <2>2. UNCHANGED <<namespace, checkpoint>> /\ account'.cell = account.cell
    BY <1>11, CompareCopyDoes DEF cellVars, globalVars
  <2> QED
    BY <2>1, <2>2, WritableKept
<1>12. ASSUME NEW j \in Jobs, RecordEvidence(j) PROVE OneWritableCell'
  <2>1. PICK m \in DOMAIN moves :
           /\ Phase(m) = "drained" /\ UNCHANGED globalVars /\ UNCHANGED namespace
           /\ \A d \in Cells, k \in 1..MaxMoves : k # m => checkpoint'[d][k] = checkpoint[d][k]
    BY <1>12, RecordEvidenceCell
  <2>2. Fixed /\ account'.cell = account.cell /\ \A n \in DOMAIN moves : Phase(n)' = Phase(n)
    BY <2>1 DEF globalVars, Phase, Fixed, Types, GlobalTypes
  <2>3. ASSUME NEW n \in DOMAIN moves, Phase(n) = "rolled_back"
        PROVE  checkpoint'[Destination(n)][n] = checkpoint[Destination(n)][n]
    <3>1. n # m /\ n \in 1..MaxMoves /\ Destination(n) \in Cells
      BY <2>1, <2>3, MoveFacts
    <3> QED
      BY <2>1, <3>1 DEF CellChanged
  <2> QED
    BY <2>1, <2>2, <2>3, WritableKept
<1>13. ASSUME NEW j \in Jobs, AdvanceCopied(j) PROVE OneWritableCell'
  <2>1. PICK m \in DOMAIN moves :
           /\ Fixed /\ Phase(m) = "drained" /\ \A n \in DOMAIN moves : n # m => Phase(n)' = Phase(n)
           /\ UNCHANGED <<namespace, checkpoint>> /\ account'.cell = account.cell
    BY <1>13, AdvanceCopiedDoes DEF Advanced, Works, cellVars
  <2> QED
    BY <2>1, WritableKept
<1>14. ASSUME NEW j \in Jobs, AdvanceReady(j) PROVE OneWritableCell'
  <2>1. PICK m \in DOMAIN moves :
           /\ Fixed /\ Phase(m) = "copied" /\ \A n \in DOMAIN moves : n # m => Phase(n)' = Phase(n)
           /\ UNCHANGED <<namespace, checkpoint>> /\ account'.cell = account.cell
    BY <1>14, AdvanceReadyDoes DEF Advanced, Works, cellVars
  <2> QED
    BY <2>1, WritableKept
<1>15. ASSUME NEW j \in Jobs, Switch(j) PROVE OneWritableCell'
  <2>1. PICK m \in DOMAIN moves :
           /\ Fixed /\ Phase(m) = "ready" /\ UNCHANGED cellVars
           /\ \A n \in DOMAIN moves : n # m => Phase(n)' = Phase(n)
           /\ Switchable(m) /\ Place(Source(m), Destination(m), DestinationGeneration(m))
    BY <1>15, SwitchDoes DEF Advanced, Works
  <2>2. account'.cell = Destination(m) /\ account.cell = Source(m)
    BY <2>1 DEF Place, Switchable, Types, GlobalTypes
  <2>3. namespace[Source(m)].state = "moving"
    <3>1. Frozen(Source(m), SourceGeneration(m))
      BY <2>1 DEF Staged
    <3> QED
      BY <3>1 DEF Frozen
  <2>4. \A d \in Cells : namespace'[d].state = "active" => d # account.cell /\ namespace[d].state = "active"
    BY <2>1, <2>2, <2>3 DEF cellVars
  <2>5. \A n \in DOMAIN moves : Phase(n) = "rolled_back" => Phase(n)' = "rolled_back"
    BY <2>1
  <2>6. UNCHANGED checkpoint
    BY <2>1 DEF cellVars
  <2> QED
    BY <2>1, <2>4, <2>5, <2>6, WritableKept
<1>16. ASSUME NEW j \in Jobs, ActivateDestination(j) PROVE OneWritableCell'
  <2>1. PICK m \in DOMAIN moves :
           /\ Phase(m) = "switched" /\ UNCHANGED globalVars
           /\ CellChanged(Destination(m), m, [generation |-> DestinationGeneration(m), state |-> "active"])
    BY <1>16, ActivateDestinationCell DEF Works
  <2>2. Fixed /\ account'.cell = account.cell /\ \A n \in DOMAIN moves : Phase(n)' = Phase(n)
    BY <2>1 DEF globalVars, Phase, Fixed, Types, GlobalTypes
  <2>3. ASSUME NEW n \in DOMAIN moves, Phase(n) = "rolled_back"
        PROVE  checkpoint'[Destination(n)][n] = checkpoint[Destination(n)][n]
    <3>1. n # m /\ n \in 1..MaxMoves /\ Destination(n) \in Cells
      BY <2>1, <2>3, MoveFacts
    <3> QED
      BY <2>1, <3>1 DEF CellChanged
  <2>4. account.cell = Destination(m)
    BY <2>1, OpenIsLast DEF Left
  <2>5. \A d \in Cells : d # account'.cell /\ namespace'[d].state = "active" =>
           d # account.cell /\ namespace[d].state = "active"
    BY <2>1, <2>2, <2>4 DEF CellChanged
  <2> QED
    BY <2>2, <2>3, <2>5, WritableKept
<1>17. ASSUME NEW j \in Jobs, Rollback(j) PROVE OneWritableCell'
  <2>1. PICK m \in DOMAIN moves :
           /\ Fixed /\ Phase(m) = "switched" /\ UNCHANGED <<namespace, checkpoint>>
           /\ moves'[m].state = "rolled_back" /\ \A n \in DOMAIN moves : n # m => Phase(n)' = Phase(n)
           /\ Reversible(m) /\ Place(Destination(m), Source(m), RollbackGeneration(m))
    BY <1>17, RollbackDoes DEF Advanced, Works, cellVars
  <2>2. account.cell = Destination(m)
    BY <2>1 DEF Reversible
  <2>3. ASSUME NEW d \in Cells, d # account'.cell, namespace'[d].state = "active"
        PROVE  \E n \in DOMAIN moves' : GivenUp(d, n)'
    <3>1. CASE d = Destination(m)
      <4>1. checkpoint'[d][m].state = "active"
        BY <2>1, <2>3, <3>1 DEF ActiveRecorded
      <4>2. moves'[m].destination = d
        BY <2>1, <3>1 DEF Fixed, Destination
      <4>3. GivenUp(d, m)'
        BY <2>1, <4>1, <4>2 DEF GivenUp
      <4> QED
        BY <2>1, <4>3 DEF Fixed
    <3>2. CASE d # Destination(m)
      <4>1. PICK n \in DOMAIN moves : GivenUp(d, n)
        BY <2>1, <2>2, <2>3, <3>2 DEF OneWritableCell, GivenUp
      <4>2. Phase(n) = "rolled_back" => Phase(n)' = "rolled_back" /\ checkpoint'[d][n] = checkpoint[d][n]
        BY <2>1
      <4>3. GivenUp(d, n)'
        BY <2>1, <4>1, <4>2, GivenUpKept
      <4> QED
        BY <2>1, <4>3 DEF Fixed
    <3> QED
      BY <3>1, <3>2
  <2> QED
    BY <2>3 DEF OneWritableCell, GivenUp
<1>18. ASSUME NEW j \in Jobs, ActivateSource(j) PROVE OneWritableCell'
  <2>1. PICK m \in DOMAIN moves :
           /\ Phase(m) = "rolled_back" /\ UNCHANGED globalVars
           /\ Activatable(Source(m), m, SourceGeneration(m), RollbackGeneration(m))
           /\ CellChanged(Source(m), m, [generation |-> RollbackGeneration(m), state |-> "active"])
    BY <1>18, ActivateSourceCell DEF Works
  <2>2. Fixed /\ account'.cell = account.cell /\ \A n \in DOMAIN moves : Phase(n)' = Phase(n)
    BY <2>1 DEF globalVars, Phase, Fixed, Types, GlobalTypes
  <2>3. ASSUME NEW n \in DOMAIN moves
        PROVE  checkpoint'[Destination(n)][n] = checkpoint[Destination(n)][n]
    <3>1. n \in 1..MaxMoves /\ Destination(n) \in Cells /\ Destination(n) # Source(n)
      BY MoveFacts
    <3> QED
      BY <2>1, <3>1 DEF CellChanged
  <2>4. account.cell = Source(m) \/ namespace[Source(m)].state = "active"
    BY <2>1 DEF Activatable, Undone, Frozen
  <2>5. \A d \in Cells : d # account'.cell /\ namespace'[d].state = "active" =>
           d # account.cell /\ namespace[d].state = "active"
    BY <2>1, <2>2, <2>4 DEF CellChanged
  <2> QED
    BY <2>2, <2>3, <2>5, WritableKept
<1>19. ASSUME NEW j \in Jobs, FreezeDestination(j) PROVE OneWritableCell'
  <2>1. PICK m \in DOMAIN moves :
           /\ Phase(m) = "rolled_back" /\ UNCHANGED globalVars
           /\ CellChanged(Destination(m), m, [generation |-> DestinationGeneration(m), state |-> "moving"])
    BY <1>19, FreezeDestinationCell DEF Works
  <2>2. Fixed /\ account'.cell = account.cell /\ \A n \in DOMAIN moves : Phase(n)' = Phase(n)
    BY <2>1 DEF globalVars, Phase, Fixed, Types, GlobalTypes
  <2>3. ASSUME NEW n \in DOMAIN moves, Phase(n) = "rolled_back", namespace'[Destination(n)].state = "active"
        PROVE  checkpoint'[Destination(n)][n] = checkpoint[Destination(n)][n]
    <3>1. n \in 1..MaxMoves /\ Destination(n) \in Cells
      BY MoveFacts
    <3>2. Destination(n) # Destination(m)
      BY <2>1, <2>3 DEF CellChanged
    <3> QED
      BY <2>1, <3>1, <3>2 DEF CellChanged
  <2>4. \A d \in Cells : namespace'[d].state = "active" => namespace[d].state = "active"
    BY <2>1 DEF CellChanged
  <2> QED
    BY <2>2, <2>3, <2>4, WritableKept
<1>20. ASSUME NEW j \in Jobs, BeginRetirement(j) PROVE OneWritableCell'
  <2>1. PICK m \in DOMAIN moves :
           /\ Fixed /\ Phase(m) = "switched" /\ \A n \in DOMAIN moves : n # m => Phase(n)' = Phase(n)
           /\ UNCHANGED <<namespace, checkpoint>> /\ account'.cell = account.cell
    BY <1>20, BeginRetirementDoes DEF Advanced, Works, cellVars
  <2> QED
    BY <2>1, WritableKept
<1>21. ASSUME NEW j \in Jobs, RetireSource(j) PROVE OneWritableCell'
  <2>1. PICK m \in DOMAIN moves :
           /\ Phase(m) = "retiring" /\ UNCHANGED globalVars
           /\ UNCHANGED cellVars \/ CellChanged(Source(m), m, NoNamespace)
    BY <1>21, RetireSourceCell DEF Works
  <2>2. Fixed /\ account'.cell = account.cell /\ \A n \in DOMAIN moves : Phase(n)' = Phase(n)
    BY <2>1 DEF globalVars, Phase, Fixed, Types, GlobalTypes
  <2>3. ASSUME NEW n \in DOMAIN moves, Phase(n) = "rolled_back"
        PROVE  checkpoint'[Destination(n)][n] = checkpoint[Destination(n)][n]
    <3>1. n # m /\ n \in 1..MaxMoves /\ Destination(n) \in Cells
      BY <2>1, <2>3, MoveFacts
    <3> QED
      BY <2>1, <3>1 DEF CellChanged, cellVars
  <2>4. \A d \in Cells : namespace'[d].state = "active" => namespace[d].state = "active"
    BY <2>1 DEF CellChanged, NoNamespace, cellVars
  <2> QED
    BY <2>2, <2>3, <2>4, WritableKept
<1>22. ASSUME NEW j \in Jobs, Complete(j) PROVE OneWritableCell'
  <2>1. PICK m \in DOMAIN moves :
           /\ Fixed /\ Phase(m) = "retiring" /\ \A n \in DOMAIN moves : n # m => Phase(n)' = Phase(n)
           /\ UNCHANGED <<namespace, checkpoint>> /\ account'.cell = account.cell
    BY <1>22, CompleteDoes DEF Advanced, Works, cellVars
  <2> QED
    BY <2>1, WritableKept
<1> QED
  BY NextSplit, <1>1, <1>2, <1>3, <1>4, <1>5, <1>6, <1>7, <1>8, <1>9, <1>10, <1>11, <1>12, <1>13, <1>14,
     <1>15, <1>16, <1>17, <1>18, <1>19, <1>20, <1>21, <1>22

-------------------------------------------------------------------------------
(***************************************************************************)
(* The rows are known                                                      *)
(***************************************************************************)

\* Where no row changes and no namespace disappears.
LEMMA RowsKnownKept ==
    ASSUME RowsKnown, UNCHANGED data, Acknowledged' = Acknowledged,
           \A c \in Cells : namespace'[c].state = "absent" => namespace'[c] = namespace[c]
    PROVE  RowsKnown'
BY DEF RowsKnown, Present

\* Where the rows of one cell change, to rows of acknowledged writes.
LEMMA RowsKnownAt ==
    ASSUME RowsKnown, NEW c \in Cells, Acknowledged \subseteq Acknowledged',
           \A d \in Cells : d # c => data'[d] = data[d] /\ namespace'[d] = namespace[d],
           namespace'[c].state = "absent" => data'[c] = NoRows /\ namespace'[c].generation = 0,
           Present(data'[c]) \subseteq Acknowledged'
    PROVE  RowsKnown'
<1>1. ASSUME NEW d \in Cells
      PROVE  /\ namespace'[d].state = "absent" => data'[d] = NoRows /\ namespace'[d].generation = 0
             /\ Present(data'[d]) \subseteq Acknowledged'
  <2>1. CASE d = c
    BY <2>1
  <2>2. CASE d # c
    BY <2>2 DEF RowsKnown
  <2> QED
    BY <2>1, <2>2
<1> QED
  BY <1>1 DEF RowsKnown, Present

\* Every row stays that of an acknowledged write, and a cell without a namespace empty.
LEMMA NextRowsKnown ==
    ASSUME OneJobAtATime, Types, History, JobsKnow, Staged, SeenHolds, RowsKnown, Next
    PROVE  RowsKnown'
<1>1. CASE Routes
  <2>1. UNCHANGED <<data, namespace>> /\ Acknowledged' = Acknowledged
    BY <1>1 DEF Routes, cellVars
  <2> QED
    BY <2>1, RowsKnownKept
<1>2. ASSUME NEW c \in Cells, NEW w \in Writes, NEW v \in {"queued", "done"}, RowWritten(c, w, v) PROVE RowsKnown'
  <2>1. namespace'[c].state # "absent" /\ \A d \in Cells : d # c => data'[d] = data[d] /\ namespace'[d] = namespace[d]
    BY <1>2 DEF RowWritten, Types, CellTypes
  <2>2. data'[c] = [data[c] EXCEPT ![w] = v]
    BY <1>2 DEF RowWritten, Types, CellTypes
  <2>3. Present(data'[c]) \subseteq Present(data[c]) \cup {w}
    BY <2>2 DEF Present, Types, CellTypes, Rows
  <2>4. Acknowledged \subseteq Acknowledged' /\ w \in Acknowledged'
    <3>1. CASE Acknowledged' = Acknowledged \cup {w}
      BY <3>1
    <3>2. CASE Acknowledged' = Acknowledged /\ data[c][w] = "queued"
      <4>1. w \in Present(data[c])
        BY <3>2 DEF Present
      <4> QED
        BY <3>2, <4>1 DEF RowsKnown
    <3> QED
      BY <1>2, <3>1, <3>2 DEF RowWritten
  <2>5. Present(data[c]) \subseteq Acknowledged
    BY DEF RowsKnown
  <2> QED
    BY <2>1, <2>3, <2>4, <2>5, RowsKnownAt
<1>3. CASE ChangeAccountState
  <2>1. UNCHANGED <<data, namespace>> /\ Acknowledged' = Acknowledged
    BY <1>3 DEF ChangeAccountState, cellVars, Acknowledged
  <2> QED
    BY <2>1, RowsKnownKept
<1>4. ASSUME NEW c \in Cells, Prepare(c) PROVE RowsKnown'
  <2>1. UNCHANGED <<data, namespace>> /\ Acknowledged' = Acknowledged
    BY <1>4, PrepareDoes DEF cellVars, Acknowledged
  <2> QED
    BY <2>1, RowsKnownKept
<1>5. CASE Quiet
  <2>1. UNCHANGED <<data, namespace>> /\ Acknowledged' = Acknowledged
    BY <1>5 DEF Quiet, cellVars, Acknowledged
  <2> QED
    BY <2>1, RowsKnownKept
<1>6. ASSUME NEW j \in Jobs, StageSource(j) PROVE RowsKnown'
  <2>1. PICK m \in DOMAIN moves :
           /\ CellChanged(Source(m), m, [generation |-> SourceGeneration(m), state |-> "moving"])
           /\ UNCHANGED <<data, request>>
    BY <1>6, StageSourceCell
  <2>2. \A d \in Cells : namespace'[d].state = "absent" => namespace'[d] = namespace[d]
    BY <2>1 DEF CellChanged
  <2> QED
    BY <2>1, <2>2, RowsKnownKept DEF Acknowledged
<1>7. ASSUME NEW j \in Jobs, StageDestination(j) PROVE RowsKnown'
  <2>1. PICK m \in DOMAIN moves :
           /\ CellChanged(Destination(m), m, [generation |-> DestinationGeneration(m), state |-> "moving"])
           /\ UNCHANGED <<data, request>>
    BY <1>7, StageDestinationCell
  <2>2. \A d \in Cells : namespace'[d].state = "absent" => namespace'[d] = namespace[d]
    BY <2>1 DEF CellChanged
  <2> QED
    BY <2>1, <2>2, RowsKnownKept DEF Acknowledged
<1>8. ASSUME NEW j \in Jobs, Drain(j) PROVE RowsKnown'
  <2>1. UNCHANGED <<data, namespace>> /\ Acknowledged' = Acknowledged
    BY <1>8 DEF Drain, cellVars, Acknowledged
  <2> QED
    BY <2>1, RowsKnownKept
<1>9. ASSUME NEW j \in Jobs, ReadSource(j) PROVE RowsKnown'
  <2>1. UNCHANGED <<data, namespace>> /\ Acknowledged' = Acknowledged
    BY <1>9 DEF ReadSource, cellVars, Acknowledged
  <2> QED
    BY <2>1, RowsKnownKept
<1>10. ASSUME NEW j \in Jobs, WriteDestination(j) PROVE RowsKnown'
  <2>1. PICK m \in DOMAIN moves :
           /\ Phase(m) = "drained" /\ job[j].call = "write" /\ job[j].move = m
           /\ data' = [data EXCEPT ![Destination(m)] = job[j].seen] /\ UNCHANGED <<namespace, request>>
    BY <1>10, WriteDestinationDoes DEF Works
  <2>2. Source(m) \in Cells /\ Destination(m) \in Cells
    BY MoveFacts
  <2>3. job[j].seen = data[Source(m)]
    BY <2>1 DEF SeenHolds
  <2>4. namespace[Destination(m)].state = "moving"
    <3>1. Frozen(Destination(m), DestinationGeneration(m))
      BY <2>1 DEF Staged
    <3> QED
      BY <3>1 DEF Frozen
  <2>5. data'[Destination(m)] = data[Source(m)] /\ \A d \in Cells : d # Destination(m) => data'[d] = data[d]
    BY <2>1, <2>2, <2>3 DEF Types, CellTypes
  <2>6. Present(data'[Destination(m)]) \subseteq Acknowledged
    BY <2>2, <2>5 DEF RowsKnown
  <2>7. Acknowledged' = Acknowledged
    BY <2>1 DEF Acknowledged
  <2> QED
    BY <2>1, <2>2, <2>4, <2>5, <2>6, <2>7, RowsKnownAt
<1>11. ASSUME NEW j \in Jobs, CompareCopy(j) PROVE RowsKnown'
  <2>1. UNCHANGED <<data, namespace>> /\ Acknowledged' = Acknowledged
    BY <1>11 DEF CompareCopy, cellVars, Acknowledged
  <2> QED
    BY <2>1, RowsKnownKept
<1>12. ASSUME NEW j \in Jobs, RecordEvidence(j) PROVE RowsKnown'
  <2>1. UNCHANGED <<data, namespace>> /\ Acknowledged' = Acknowledged
    BY <1>12 DEF RecordEvidence, cellVars, Acknowledged
  <2> QED
    BY <2>1, RowsKnownKept
<1>13. ASSUME NEW j \in Jobs, AdvanceCopied(j) PROVE RowsKnown'
  <2>1. UNCHANGED <<data, namespace>> /\ Acknowledged' = Acknowledged
    BY <1>13 DEF AdvanceCopied, cellVars, Acknowledged
  <2> QED
    BY <2>1, RowsKnownKept
<1>14. ASSUME NEW j \in Jobs, AdvanceReady(j) PROVE RowsKnown'
  <2>1. UNCHANGED <<data, namespace>> /\ Acknowledged' = Acknowledged
    BY <1>14 DEF AdvanceReady, cellVars, Acknowledged
  <2> QED
    BY <2>1, RowsKnownKept
<1>15. ASSUME NEW j \in Jobs, Switch(j) PROVE RowsKnown'
  <2>1. UNCHANGED <<data, namespace>> /\ Acknowledged' = Acknowledged
    BY <1>15 DEF Switch, cellVars, Acknowledged
  <2> QED
    BY <2>1, RowsKnownKept
<1>16. ASSUME NEW j \in Jobs, ActivateDestination(j) PROVE RowsKnown'
  <2>1. PICK m \in DOMAIN moves :
           /\ CellChanged(Destination(m), m, [generation |-> DestinationGeneration(m), state |-> "active"])
           /\ UNCHANGED <<data, request>>
    BY <1>16, ActivateDestinationCell
  <2>2. \A d \in Cells : namespace'[d].state = "absent" => namespace'[d] = namespace[d]
    BY <2>1 DEF CellChanged
  <2> QED
    BY <2>1, <2>2, RowsKnownKept DEF Acknowledged
<1>17. ASSUME NEW j \in Jobs, Rollback(j) PROVE RowsKnown'
  <2>1. UNCHANGED <<data, namespace>> /\ Acknowledged' = Acknowledged
    BY <1>17 DEF Rollback, cellVars, Acknowledged
  <2> QED
    BY <2>1, RowsKnownKept
<1>18. ASSUME NEW j \in Jobs, ActivateSource(j) PROVE RowsKnown'
  <2>1. PICK m \in DOMAIN moves :
           /\ CellChanged(Source(m), m, [generation |-> RollbackGeneration(m), state |-> "active"])
           /\ UNCHANGED <<data, request>>
    BY <1>18, ActivateSourceCell
  <2>2. \A d \in Cells : namespace'[d].state = "absent" => namespace'[d] = namespace[d]
    BY <2>1 DEF CellChanged
  <2> QED
    BY <2>1, <2>2, RowsKnownKept DEF Acknowledged
<1>19. ASSUME NEW j \in Jobs, FreezeDestination(j) PROVE RowsKnown'
  <2>1. PICK m \in DOMAIN moves :
           /\ CellChanged(Destination(m), m, [generation |-> DestinationGeneration(m), state |-> "moving"])
           /\ UNCHANGED <<data, request>>
    BY <1>19, FreezeDestinationCell
  <2>2. \A d \in Cells : namespace'[d].state = "absent" => namespace'[d] = namespace[d]
    BY <2>1 DEF CellChanged
  <2> QED
    BY <2>1, <2>2, RowsKnownKept DEF Acknowledged
<1>20. ASSUME NEW j \in Jobs, BeginRetirement(j) PROVE RowsKnown'
  <2>1. UNCHANGED <<data, namespace>> /\ Acknowledged' = Acknowledged
    BY <1>20 DEF BeginRetirement, cellVars, Acknowledged
  <2> QED
    BY <2>1, RowsKnownKept
<1>21. ASSUME NEW j \in Jobs, RetireSource(j) PROVE RowsKnown'
  <2>1. PICK m \in DOMAIN moves :
           /\ \/ UNCHANGED cellVars
              \/ CellChanged(Source(m), m, NoNamespace) /\ data' = [data EXCEPT ![Source(m)] = NoRows]
           /\ UNCHANGED request
    BY <1>21, RetireSourceCell
  <2>2. Source(m) \in Cells
    BY MoveFacts
  <2>3. Acknowledged' = Acknowledged
    BY <2>1 DEF Acknowledged
  <2>4. CASE UNCHANGED cellVars
    BY <2>3, <2>4, RowsKnownKept DEF cellVars
  <2>5. CASE CellChanged(Source(m), m, NoNamespace) /\ data' = [data EXCEPT ![Source(m)] = NoRows]
    <3>1. data'[Source(m)] = NoRows /\ \A d \in Cells : d # Source(m) => data'[d] = data[d]
      BY <2>2, <2>5 DEF Types, CellTypes
    <3>2. namespace'[Source(m)] = NoNamespace /\ \A d \in Cells : d # Source(m) => namespace'[d] = namespace[d]
      BY <2>5 DEF CellChanged
    <3>3. Present(NoRows) = {} /\ NoNamespace.generation = 0
      BY DEF Present, NoRows, NoNamespace
    <3> QED
      BY <2>2, <2>3, <3>1, <3>2, <3>3, RowsKnownAt
  <2> QED
    BY <2>1, <2>4, <2>5
<1>22. ASSUME NEW j \in Jobs, Complete(j) PROVE RowsKnown'
  <2>1. UNCHANGED <<data, namespace>> /\ Acknowledged' = Acknowledged
    BY <1>22 DEF Complete, cellVars, Acknowledged
  <2> QED
    BY <2>1, RowsKnownKept
<1> QED
  BY NextSplit, <1>1, <1>2, <1>3, <1>4, <1>5, <1>6, <1>7, <1>8, <1>9, <1>10, <1>11, <1>12, <1>13, <1>14,
     <1>15, <1>16, <1>17, <1>18, <1>19, <1>20, <1>21, <1>22

-------------------------------------------------------------------------------
(***************************************************************************)
(* A frozen namespace is drained                                           *)
(***************************************************************************)

\* What a rollback leaves of a move: where it led, and to which generation.
RolledBack(m, d, g) ==
    m \in DOMAIN moves /\ Phase(m) = "rolled_back" /\ Destination(m) = d /\ DestinationGeneration(m) = g

\* A step takes nothing back from the moves already rolled back.
StayRolledBack == \A m, d, g : RolledBack(m, d, g) => RolledBack(m, d, g)'

\* Where no record changes.
LEMMA RolledBackUnchanged ==
    ASSUME UNCHANGED moves
    PROVE  StayRolledBack
BY DEF StayRolledBack, RolledBack, Phase, Destination, DestinationGeneration

\* Where every move keeps what it is, and those rolled back their phase.
LEMMA RolledBackFixed ==
    ASSUME Fixed, \A m \in DOMAIN moves : Phase(m) = "rolled_back" => Phase(m)' = "rolled_back"
    PROVE  StayRolledBack
<1>1. ASSUME NEW m, NEW d, NEW g, RolledBack(m, d, g) PROVE RolledBack(m, d, g)'
  <2>1. m \in DOMAIN moves /\ Phase(m) = "rolled_back" /\ moves[m].destination = d /\ moves[m].generation + 1 = g
    BY <1>1 DEF RolledBack, Destination, DestinationGeneration
  <2>2. m \in DOMAIN moves' /\ Phase(m)' = "rolled_back" /\ moves'[m].destination = d /\ moves'[m].generation + 1 = g
    BY <2>1 DEF Fixed
  <2> QED
    BY <2>2 DEF RolledBack, Destination, DestinationGeneration
<1> QED
  BY <1>1 DEF StayRolledBack

\* Where another move advances.
LEMMA RolledBackAdvanced ==
    ASSUME NEW m \in DOMAIN moves, NEW from, NEW to, NEW digest, NEW lease,
           Phase(m) = from, from # "rolled_back", Advanced(m, to, digest, lease)
    PROVE  StayRolledBack
<1>1. Fixed /\ \A n \in DOMAIN moves : n # m => Phase(n)' = Phase(n)
  BY DEF Advanced
<1>2. \A n \in DOMAIN moves : Phase(n) = "rolled_back" => Phase(n)' = "rolled_back"
  BY <1>1
<1> QED
  BY <1>1, <1>2, RolledBackFixed

\* A move that has been rolled back stays so, whatever happens next.
LEMMA NextRolledBack ==
    ASSUME OneJobAtATime, Types, JobsKnow, Next
    PROVE  StayRolledBack
<1>1. CASE Routes \/ ChangeAccountState
  <2>1. UNCHANGED moves
    BY <1>1 DEF Routes, ChangeAccountState, globalVars
  <2> QED
    BY <2>1, RolledBackUnchanged
<1>2. ASSUME NEW c \in Cells, NEW w \in Writes, NEW v \in {"queued", "done"}, RowWritten(c, w, v) PROVE StayRolledBack
  <2>1. UNCHANGED moves
    BY <1>2 DEF RowWritten, globalVars
  <2> QED
    BY <2>1, RolledBackUnchanged
<1>3. ASSUME NEW c \in Cells, Prepare(c) PROVE StayRolledBack
  <2>1. \A n \in DOMAIN moves : n \in DOMAIN moves' /\ moves'[n] = moves[n]
    BY <1>3, PrepareDoes
  <2> QED
    BY <2>1 DEF StayRolledBack, RolledBack, Phase, Destination, DestinationGeneration
<1>4. CASE Quiet
  <2>1. Fixed /\ \A m \in DOMAIN moves : Phase(m)' = Phase(m)
    BY <1>4 DEF Quiet, Relabeled
  <2> QED
    BY <2>1, RolledBackFixed
<1>5. ASSUME NEW j \in Jobs,
             \/ StageSource(j) \/ StageDestination(j) \/ ReadSource(j) \/ WriteDestination(j)
             \/ CompareCopy(j) \/ RecordEvidence(j)
      PROVE  StayRolledBack
  <2>1. UNCHANGED moves
    BY <1>5 DEF StageSource, StageDestination, ReadSource, WriteDestination, CompareCopy, RecordEvidence, globalVars
  <2> QED
    BY <2>1, RolledBackUnchanged
<1>6. ASSUME NEW j \in Jobs, ActivateDestination(j) \/ ActivateSource(j) \/ FreezeDestination(j) \/ RetireSource(j)
      PROVE  StayRolledBack
  <2>1. UNCHANGED moves
    BY <1>6 DEF ActivateDestination, ActivateSource, FreezeDestination, RetireSource, globalVars
  <2> QED
    BY <2>1, RolledBackUnchanged
<1>7. ASSUME NEW j \in Jobs, Drain(j) PROVE StayRolledBack
  BY <1>7, DrainDoes, RolledBackAdvanced DEF Works
<1>8. ASSUME NEW j \in Jobs, AdvanceCopied(j) PROVE StayRolledBack
  BY <1>8, AdvanceCopiedDoes, RolledBackAdvanced DEF Works
<1>9. ASSUME NEW j \in Jobs, AdvanceReady(j) PROVE StayRolledBack
  BY <1>9, AdvanceReadyDoes, RolledBackAdvanced DEF Works
<1>10. ASSUME NEW j \in Jobs, Switch(j) PROVE StayRolledBack
  BY <1>10, SwitchDoes, RolledBackAdvanced DEF Works
<1>11. ASSUME NEW j \in Jobs, Rollback(j) PROVE StayRolledBack
  BY <1>11, RollbackDoes, RolledBackAdvanced DEF Works
<1>12. ASSUME NEW j \in Jobs, BeginRetirement(j) PROVE StayRolledBack
  BY <1>12, BeginRetirementDoes, RolledBackAdvanced DEF Works
<1>13. ASSUME NEW j \in Jobs, Complete(j) PROVE StayRolledBack
  BY <1>13, CompleteDoes, RolledBackAdvanced DEF Works
<1> QED
  BY NextSplit, <1>1, <1>2, <1>3, <1>4, <1>5, <1>6, <1>7, <1>8, <1>9, <1>10, <1>11, <1>12, <1>13

\* What is left unfinished in a frozen cell.
CellDrained(c) ==
    /\ Unfinished(c) \cap AgentWrites = {}
    /\ Unfinished(c) = {} \/ Abandoned(c)

\* A destination is abandoned through a move that was rolled back.
LEMMA AbandonedBy ==
    ASSUME NEW c, NEW g, namespace[c].generation = g
    PROVE  Abandoned(c) => \E m : RolledBack(m, c, g)
BY DEF Abandoned, RolledBack

\* Such a move tells it after a step.
LEMMA AbandonedByNext ==
    ASSUME NEW c, NEW m, NEW g, namespace'[c].generation = g, RolledBack(m, c, g)'
    PROVE  Abandoned(c)'
BY DEF Abandoned, RolledBack, Phase, Destination, DestinationGeneration

\* Where the rows and the generation of a cell stay.
LEMMA CellDrainedKept ==
    ASSUME StayRolledBack, NEW c, CellDrained(c), data'[c] = data[c], namespace'[c] = namespace[c]
    PROVE  CellDrained(c)'
<1>1. Unfinished(c)' = Unfinished(c)
  BY DEF Unfinished
<1>2. ASSUME Abandoned(c) PROVE Abandoned(c)'
  <2>1. PICK g : namespace[c].generation = g /\ namespace'[c].generation = g
    OBVIOUS
  <2>2. PICK m : RolledBack(m, c, g)
    BY <1>2, <2>1, AbandonedBy
  <2>3. RolledBack(m, c, g)'
    BY <2>2 DEF StayRolledBack
  <2> QED
    BY <2>1, <2>3, AbandonedByNext
<1> QED
  BY <1>1, <1>2 DEF CellDrained

\* The cells of an open move are not abandoned: a later move has later generations.
LEMMA NotAbandoned ==
    ASSUME Types, History, Staged, NEW m \in DOMAIN moves
    PROVE  /\ Phase(m) \in {"drained", "copied", "ready", "switched"} => ~Abandoned(Source(m))
           /\ Phase(m) \in {"drained", "copied", "ready"} => ~Abandoned(Destination(m))
<1>1. ASSUME Phase(m) \in {"drained", "copied", "ready", "switched"},
             NEW c, namespace[c].generation \in {moves[m].generation, moves[m].generation + 1}
      PROVE  ~Abandoned(c)
  <2>1. SUFFICES ASSUME NEW n \in DOMAIN moves, Phase(n) = "rolled_back",
                        namespace[c].generation = DestinationGeneration(n)
                 PROVE  FALSE
    BY DEF Abandoned
  <2>2. PICK a \in Nat, b \in Nat : a = moves[m].generation /\ b = moves[n].generation
    BY MoveFacts
  <2>3. m \in Nat /\ n \in Nat /\ DestinationGeneration(n) = b + 1
    BY <2>2, MoveFacts
  <2>4. n < m
    <3>1. n # m
      BY <1>1, <2>1
    <3>2. ~(m < n)
      BY <1>1 DEF History
    <3> QED
      BY <2>3, <3>1, <3>2
  <2>5. b + 2 <= a
    BY <2>1, <2>2, <2>4 DEF History, After
  <2> QED
    BY <1>1, <2>1, <2>2, <2>3, <2>5
<1>2. /\ SourceGeneration(m) = moves[m].generation
      /\ DestinationGeneration(m) = moves[m].generation + 1
  BY MoveFacts
<1>3. ASSUME Phase(m) \in {"drained", "copied", "ready", "switched"}
      PROVE  namespace[Source(m)].generation = SourceGeneration(m)
  <2>1. Frozen(Source(m), SourceGeneration(m))
    BY <1>3 DEF Staged
  <2> QED
    BY <2>1 DEF Frozen
<1>4. ASSUME Phase(m) \in {"drained", "copied", "ready"}
      PROVE  namespace[Destination(m)].generation = DestinationGeneration(m)
  <2>1. Frozen(Destination(m), DestinationGeneration(m))
    BY <1>4 DEF Staged
  <2> QED
    BY <2>1 DEF Frozen
<1> QED
  BY <1>1, <1>2, <1>3, <1>4

\* Hence nothing is unfinished in them.
LEMMA MovedDrained ==
    ASSUME Types, History, Staged, FrozenCellsDrained
    PROVE  MovedRowsDrained
<1>1. ASSUME NEW c \in Cells, NEW g, Frozen(c, g), ~Abandoned(c) PROVE namespace[c].state = "moving" /\ Unfinished(c) = {}
  BY <1>1 DEF Frozen, FrozenCellsDrained
<1>2. ASSUME NEW m \in DOMAIN moves, Phase(m) \in {"drained", "copied", "ready", "switched"}
      PROVE  namespace[Source(m)].state = "moving" /\ Unfinished(Source(m)) = {}
  BY <1>1, <1>2, MoveFacts, NotAbandoned DEF Staged
<1>3. ASSUME NEW m \in DOMAIN moves, Phase(m) \in {"drained", "copied", "ready"}
      PROVE  namespace[Destination(m)].state = "moving" /\ Unfinished(Destination(m)) = {}
  BY <1>1, <1>3, MoveFacts, NotAbandoned DEF Staged
<1> QED
  BY <1>2, <1>3 DEF MovedRowsDrained

\* Where no frozen cell changes.
LEMMA DrainedKept ==
    ASSUME FrozenCellsDrained, StayRolledBack,
           \A c \in Cells : namespace'[c].state = "moving" => namespace'[c] = namespace[c] /\ data'[c] = data[c]
    PROVE  FrozenCellsDrained'
<1>1. ASSUME NEW c \in Cells, namespace'[c].state = "moving" PROVE CellDrained(c)'
  <2>1. namespace'[c] = namespace[c] /\ data'[c] = data[c] /\ CellDrained(c)
    BY <1>1 DEF FrozenCellsDrained, CellDrained
  <2> QED
    BY <2>1, CellDrainedKept
<1> QED
  BY <1>1 DEF FrozenCellsDrained, CellDrained

\* Where one cell changes and is drained if it is frozen.
LEMMA DrainedAt ==
    ASSUME FrozenCellsDrained, StayRolledBack, NEW c \in Cells,
           \A d \in Cells : d # c => data'[d] = data[d] /\ namespace'[d] = namespace[d],
           namespace'[c].state = "moving" => CellDrained(c)'
    PROVE  FrozenCellsDrained'
<1>1. ASSUME NEW d \in Cells, namespace'[d].state = "moving" PROVE CellDrained(d)'
  <2>1. CASE d = c
    BY <1>1, <2>1
  <2>2. CASE d # c
    <3>1. namespace'[d] = namespace[d] /\ data'[d] = data[d] /\ CellDrained(d)
      BY <1>1, <2>2 DEF FrozenCellsDrained, CellDrained
    <3> QED
      BY <3>1, CellDrainedKept
  <2> QED
    BY <2>1, <2>2
<1> QED
  BY <1>1 DEF FrozenCellsDrained, CellDrained

\* A frozen namespace stays without unfinished work.
LEMMA NextDrained ==
    ASSUME OneJobAtATime, Types, History, JobsKnow, Staged, SeenHolds, RowsKnown, FrozenCellsDrained, Next
    PROVE  FrozenCellsDrained'
<1>0. StayRolledBack
  BY NextRolledBack
<1>1. CASE Routes
  <2>1. UNCHANGED <<data, namespace>>
    BY <1>1 DEF Routes, cellVars
  <2> QED
    BY <1>0, <2>1, DrainedKept
<1>2. ASSUME NEW c \in Cells, NEW w \in Writes, NEW v \in {"queued", "done"}, RowWritten(c, w, v) PROVE FrozenCellsDrained'
  <2>1. namespace'[c].state # "moving" /\ \A d \in Cells : d # c => data'[d] = data[d] /\ namespace'[d] = namespace[d]
    BY <1>2 DEF RowWritten, Types, CellTypes
  <2> QED
    BY <1>0, <2>1, DrainedAt
<1>3. CASE ChangeAccountState
  <2>1. UNCHANGED <<data, namespace>>
    BY <1>3 DEF ChangeAccountState, cellVars
  <2> QED
    BY <1>0, <2>1, DrainedKept
<1>4. ASSUME NEW c \in Cells, Prepare(c) PROVE FrozenCellsDrained'
  <2>1. UNCHANGED <<data, namespace>>
    BY <1>4, PrepareDoes DEF cellVars
  <2> QED
    BY <1>0, <2>1, DrainedKept
<1>5. CASE Quiet
  <2>1. UNCHANGED <<data, namespace>>
    BY <1>5 DEF Quiet, cellVars
  <2> QED
    BY <1>0, <2>1, DrainedKept
<1>6. ASSUME NEW j \in Jobs, StageSource(j) PROVE FrozenCellsDrained'
  <2>1. PICK m \in DOMAIN moves :
           /\ SourceStageable(m)
           /\ CellChanged(Source(m), m, [generation |-> SourceGeneration(m), state |-> "moving"])
           /\ UNCHANGED data
    BY <1>6, StageSourceCell
  <2>2. PICK c \in Cells : c = Source(m)
    BY MoveFacts
  <2>3. Unfinished(c) \cap AgentWrites = {}
    BY <2>1, <2>2 DEF SourceStageable, AgentGate, FrozenCellsDrained
  <2>4. Unfinished(c) = {}
    BY <2>1, <2>2, <2>3 DEF SourceStageable
  <2>5. CellDrained(c)'
    BY <2>1, <2>4 DEF CellDrained, Unfinished
  <2>6. \A d \in Cells : d # c => namespace'[d] = namespace[d]
    BY <2>1, <2>2 DEF CellChanged
  <2> QED
    BY <1>0, <2>1, <2>5, <2>6, DrainedAt
<1>7. ASSUME NEW j \in Jobs, StageDestination(j) PROVE FrozenCellsDrained'
  <2>1. PICK m \in DOMAIN moves :
           /\ DestinationStageable(m)
           /\ CellChanged(Destination(m), m, [generation |-> DestinationGeneration(m), state |-> "moving"])
           /\ UNCHANGED data
    BY <1>7, StageDestinationCell
  <2>2. PICK c \in Cells : c = Destination(m)
    BY MoveFacts
  <2>3. CellDrained(c)'
    <3>1. CASE namespace[c] = NoNamespace
      <4>1. data'[c] = NoRows
        BY <2>1, <3>1 DEF RowsKnown, NoNamespace
      <4> QED
        BY <4>1 DEF CellDrained, Unfinished, NoRows
    <3>2. CASE namespace[c] = [generation |-> DestinationGeneration(m), state |-> "moving"]
      <4>1. CellDrained(c)
        BY <3>2 DEF FrozenCellsDrained, CellDrained
      <4>2. namespace'[c] = namespace[c] /\ data'[c] = data[c]
        BY <2>1, <2>2, <3>2 DEF CellChanged
      <4> QED
        BY <1>0, <4>1, <4>2, CellDrainedKept
    <3> QED
      BY <2>1, <2>2, <3>1, <3>2 DEF DestinationStageable
  <2>4. \A d \in Cells : d # c => namespace'[d] = namespace[d]
    BY <2>1, <2>2 DEF CellChanged
  <2> QED
    BY <1>0, <2>1, <2>3, <2>4, DrainedAt
<1>8. ASSUME NEW j \in Jobs, Drain(j) PROVE FrozenCellsDrained'
  <2>1. UNCHANGED <<data, namespace>>
    BY <1>8 DEF Drain, cellVars
  <2> QED
    BY <1>0, <2>1, DrainedKept
<1>9. ASSUME NEW j \in Jobs, ReadSource(j) PROVE FrozenCellsDrained'
  <2>1. UNCHANGED <<data, namespace>>
    BY <1>9 DEF ReadSource, cellVars
  <2> QED
    BY <1>0, <2>1, DrainedKept
<1>10. ASSUME NEW j \in Jobs, WriteDestination(j) PROVE FrozenCellsDrained'
  <2>1. PICK m \in DOMAIN moves :
           /\ Phase(m) = "drained" /\ job[j].call = "write" /\ job[j].move = m
           /\ data' = [data EXCEPT ![Destination(m)] = job[j].seen] /\ UNCHANGED namespace
    BY <1>10, WriteDestinationDoes DEF Works
  <2>2. PICK s \in Cells, c \in Cells : s = Source(m) /\ c = Destination(m)
    BY MoveFacts
  <2>3. job[j].seen = data[s]
    BY <2>1, <2>2 DEF SeenHolds
  <2>4. Unfinished(s) = {}
    BY <2>1, <2>2, MovedDrained DEF MovedRowsDrained
  <2>5. data'[c] = data[s] /\ \A d \in Cells : d # c => data'[d] = data[d]
    BY <2>1, <2>2, <2>3 DEF Types, CellTypes
  <2>6. CellDrained(c)'
    BY <2>4, <2>5 DEF CellDrained, Unfinished
  <2> QED
    BY <1>0, <2>1, <2>5, <2>6, DrainedAt
<1>11. ASSUME NEW j \in Jobs, CompareCopy(j) PROVE FrozenCellsDrained'
  <2>1. UNCHANGED <<data, namespace>>
    BY <1>11 DEF CompareCopy, cellVars
  <2> QED
    BY <1>0, <2>1, DrainedKept
<1>12. ASSUME NEW j \in Jobs, RecordEvidence(j) PROVE FrozenCellsDrained'
  <2>1. UNCHANGED <<data, namespace>>
    BY <1>12 DEF RecordEvidence, cellVars
  <2> QED
    BY <1>0, <2>1, DrainedKept
<1>13. ASSUME NEW j \in Jobs, AdvanceCopied(j) PROVE FrozenCellsDrained'
  <2>1. UNCHANGED <<data, namespace>>
    BY <1>13 DEF AdvanceCopied, cellVars
  <2> QED
    BY <1>0, <2>1, DrainedKept
<1>14. ASSUME NEW j \in Jobs, AdvanceReady(j) PROVE FrozenCellsDrained'
  <2>1. UNCHANGED <<data, namespace>>
    BY <1>14 DEF AdvanceReady, cellVars
  <2> QED
    BY <1>0, <2>1, DrainedKept
<1>15. ASSUME NEW j \in Jobs, Switch(j) PROVE FrozenCellsDrained'
  <2>1. UNCHANGED <<data, namespace>>
    BY <1>15 DEF Switch, cellVars
  <2> QED
    BY <1>0, <2>1, DrainedKept
<1>16. ASSUME NEW j \in Jobs, ActivateDestination(j) PROVE FrozenCellsDrained'
  <2>1. PICK m \in DOMAIN moves :
           /\ CellChanged(Destination(m), m, [generation |-> DestinationGeneration(m), state |-> "active"])
           /\ UNCHANGED data
    BY <1>16, ActivateDestinationCell
  <2>2. Destination(m) \in Cells
    BY MoveFacts
  <2>3. namespace'[Destination(m)].state = "active" /\ \A d \in Cells : d # Destination(m) => namespace'[d] = namespace[d]
    BY <2>1 DEF CellChanged
  <2> QED
    BY <1>0, <2>1, <2>2, <2>3, DrainedAt
<1>17. ASSUME NEW j \in Jobs, Rollback(j) PROVE FrozenCellsDrained'
  <2>1. UNCHANGED <<data, namespace>>
    BY <1>17 DEF Rollback, cellVars
  <2> QED
    BY <1>0, <2>1, DrainedKept
<1>18. ASSUME NEW j \in Jobs, ActivateSource(j) PROVE FrozenCellsDrained'
  <2>1. PICK m \in DOMAIN moves :
           /\ CellChanged(Source(m), m, [generation |-> RollbackGeneration(m), state |-> "active"])
           /\ UNCHANGED data
    BY <1>18, ActivateSourceCell
  <2>2. Source(m) \in Cells
    BY MoveFacts
  <2>3. namespace'[Source(m)].state = "active" /\ \A d \in Cells : d # Source(m) => namespace'[d] = namespace[d]
    BY <2>1 DEF CellChanged
  <2> QED
    BY <1>0, <2>1, <2>2, <2>3, DrainedAt
<1>19. ASSUME NEW j \in Jobs, FreezeDestination(j) PROVE FrozenCellsDrained'
  <2>1. PICK m \in DOMAIN moves :
           /\ Works(j, m, "freeze_destination", "rolled_back") /\ DestinationFreezable(m)
           /\ CellChanged(Destination(m), m, [generation |-> DestinationGeneration(m), state |-> "moving"])
           /\ UNCHANGED data
    BY <1>19, FreezeDestinationCell
  <2>2. PICK c \in Cells, g \in Nat : c = Destination(m) /\ g = DestinationGeneration(m)
    BY MoveFacts DEF Generations
  <2>3. namespace'[c].generation = g /\ \A d \in Cells : d # c => namespace'[d] = namespace[d]
    BY <2>1, <2>2 DEF CellChanged
  <2>4. Unfinished(c) \cap AgentWrites = {}
    BY <2>1, <2>2 DEF DestinationFreezable, AgentGate, FrozenCellsDrained
  <2>5. RolledBack(m, c, g)'
    <3>1. RolledBack(m, c, g)
      BY <2>1, <2>2 DEF Works, RolledBack
    <3> QED
      BY <1>0, <3>1 DEF StayRolledBack
  <2>6. Abandoned(c)'
    BY <2>3, <2>5, AbandonedByNext
  <2>7. CellDrained(c)'
    BY <2>1, <2>4, <2>6 DEF CellDrained, Unfinished
  <2> QED
    BY <1>0, <2>1, <2>3, <2>7, DrainedAt
<1>20. ASSUME NEW j \in Jobs, BeginRetirement(j) PROVE FrozenCellsDrained'
  <2>1. UNCHANGED <<data, namespace>>
    BY <1>20 DEF BeginRetirement, cellVars
  <2> QED
    BY <1>0, <2>1, DrainedKept
<1>21. ASSUME NEW j \in Jobs, RetireSource(j) PROVE FrozenCellsDrained'
  <2>1. PICK m \in DOMAIN moves :
           \/ UNCHANGED cellVars
           \/ CellChanged(Source(m), m, NoNamespace) /\ data' = [data EXCEPT ![Source(m)] = NoRows]
    BY <1>21, RetireSourceCell
  <2>2. Source(m) \in Cells
    BY MoveFacts
  <2>3. CASE UNCHANGED cellVars
    BY <1>0, <2>3, DrainedKept DEF cellVars
  <2>4. CASE CellChanged(Source(m), m, NoNamespace) /\ data' = [data EXCEPT ![Source(m)] = NoRows]
    <3>1. \A d \in Cells : d # Source(m) => data'[d] = data[d] /\ namespace'[d] = namespace[d]
      BY <2>2, <2>4 DEF Types, CellTypes, CellChanged
    <3>2. namespace'[Source(m)].state # "moving"
      BY <2>4 DEF CellChanged, NoNamespace
    <3> QED
      BY <1>0, <2>2, <3>1, <3>2, DrainedAt
  <2> QED
    BY <2>1, <2>3, <2>4
<1>22. ASSUME NEW j \in Jobs, Complete(j) PROVE FrozenCellsDrained'
  <2>1. UNCHANGED <<data, namespace>>
    BY <1>22 DEF Complete, cellVars
  <2> QED
    BY <1>0, <2>1, DrainedKept
<1> QED
  BY NextSplit, <1>1, <1>2, <1>3, <1>4, <1>5, <1>6, <1>7, <1>8, <1>9, <1>10, <1>11, <1>12, <1>13, <1>14,
     <1>15, <1>16, <1>17, <1>18, <1>19, <1>20, <1>21, <1>22

-------------------------------------------------------------------------------
(***************************************************************************)
(* What a copying job has seen                                             *)
(***************************************************************************)

SeenCalls == {"write", "compare", "record_source", "record_destination", "copy"}

\* Where no job relies on what it read.
LEMMA SeenIdle ==
    ASSUME \A k \in Jobs : job'[k].call \notin SeenCalls
    PROVE  SeenHolds'
BY DEF SeenHolds, SeenCalls

\* Where a job that is alone goes on to a call that does not rely on it.
LEMMA SeenLeft ==
    ASSUME NEW j \in Jobs, \A k \in Jobs : k # j => job'[k] = Idle, job'[j].call \notin SeenCalls
    PROVE  SeenHolds'
<1>1. \A k \in Jobs : job'[k].call \notin SeenCalls
  BY DEF Idle, SeenCalls
<1> QED
  BY <1>1, SeenIdle

\* Where a job that is alone has seen what the cells of its move hold.
LEMMA SeenShown ==
    ASSUME NEW j \in Jobs, NEW m, \A k \in Jobs : k # j => job'[k] = Idle, job'[j].move = m,
           job'[j].seen = data'[Source(m)'],
           job'[j].call \in {"record_source", "record_destination", "copy"} => job'[j].seen = data'[Destination(m)']
    PROVE  SeenHolds'
<1>1. \A k \in Jobs : k # j => job'[k].call \notin SeenCalls
  BY DEF Idle, SeenCalls
<1> QED
  BY <1>1 DEF SeenHolds, SeenCalls

\* Where the rows of a drained move do not change.
LEMMA SeenKept ==
    ASSUME Types, JobsKnow, SeenHolds,
           \A m \in DOMAIN moves : /\ Source(m)' = Source(m) /\ Destination(m)' = Destination(m)
                                   /\ (Phase(m) = "drained" => /\ data'[Source(m)] = data[Source(m)]
                                                               /\ data'[Destination(m)] = data[Destination(m)]),
           \A k \in Jobs : job'[k] = job[k] \/ job'[k].call \notin SeenCalls
    PROVE  SeenHolds'
<1>1. ASSUME NEW k \in Jobs, job'[k].call \in SeenCalls
      PROVE  /\ job'[k].seen = data'[moves'[job'[k].move].source]
             /\ job'[k].call \in {"record_source", "record_destination", "copy"} =>
                   job'[k].seen = data'[moves'[job'[k].move].destination]
  <2>1. PICK m : m = job[k].move
    OBVIOUS
  <2>2. job'[k] = job[k] /\ job[k].call \in SeenCalls
    BY <1>1
  <2>3. JobKnows(k) /\ job[k].call # "idle" /\ job[k].call \in {"read"} \cup SeenCalls
    BY <2>2 DEF JobsKnow, SeenCalls
  <2>4. m \in DOMAIN moves /\ moves[m].state = "drained"
    BY <2>1, <2>3 DEF JobKnows, Leased, SeenCalls
  <2>5. Phase(m) = "drained"
    BY <2>4 DEF Phase
  <2>6. /\ job[k].seen = data[Source(m)]
        /\ job[k].call \in {"record_source", "record_destination", "copy"} => job[k].seen = data[Destination(m)]
    BY <2>1, <2>2 DEF SeenHolds, SeenCalls
  <2>7. Source(m)' = Source(m) /\ Destination(m)' = Destination(m)
    BY <2>4
  <2>8. moves'[job'[k].move].source = Source(m) /\ moves'[job'[k].move].destination = Destination(m)
    BY <2>1, <2>2, <2>7 DEF Source, Destination
  <2> QED
    BY <2>2, <2>4, <2>5, <2>6, <2>8
<1> QED
  BY <1>1 DEF SeenHolds, SeenCalls, Source, Destination

\* What a copying job read stays what the cells of its move hold.
LEMMA NextSeen ==
    ASSUME OneJobAtATime, Types, History, JobsKnow, Staged, SeenHolds, Next
    PROVE  SeenHolds'
<1>1. CASE Routes
  <2>1. UNCHANGED <<data, moves, job>>
    BY <1>1 DEF Routes, cellVars, globalVars
  <2> QED
    BY <2>1, SeenKept DEF Source, Destination
<1>2. ASSUME NEW c \in Cells, NEW w \in Writes, NEW v \in {"queued", "done"}, RowWritten(c, w, v) PROVE SeenHolds'
  <2>1. UNCHANGED <<moves, job>> /\ namespace[c].state = "active" /\ \A d \in Cells : d # c => data'[d] = data[d]
    BY <1>2 DEF RowWritten, Types, CellTypes, globalVars
  <2>2. ASSUME NEW m \in DOMAIN moves
        PROVE  /\ Source(m)' = Source(m) /\ Destination(m)' = Destination(m)
               /\ (Phase(m) = "drained" => /\ data'[Source(m)] = data[Source(m)]
                                           /\ data'[Destination(m)] = data[Destination(m)])
    <3>1. Source(m) \in Cells /\ Destination(m) \in Cells
      BY MoveFacts
    <3>2. Source(m)' = Source(m) /\ Destination(m)' = Destination(m)
      BY <2>1 DEF Source, Destination
    <3>3. Phase(m) = "drained" => Frozen(Source(m), SourceGeneration(m)) /\ Frozen(Destination(m), DestinationGeneration(m))
      BY DEF Staged
    <3>4. Phase(m) = "drained" => Source(m) # c /\ Destination(m) # c
      BY <2>1, <3>3 DEF Frozen
    <3> QED
      BY <2>1, <3>1, <3>2, <3>4
  <2> QED
    BY <2>1, <2>2, SeenKept
<1>3. CASE ChangeAccountState
  <2>1. UNCHANGED <<data, moves, job>>
    BY <1>3 DEF ChangeAccountState, cellVars
  <2> QED
    BY <2>1, SeenKept DEF Source, Destination
<1>4. ASSUME NEW c \in Cells, Prepare(c) PROVE SeenHolds'
  <2>1. UNCHANGED <<data, job>> /\ \A n \in DOMAIN moves : moves'[n] = moves[n]
    BY <1>4, PrepareDoes DEF cellVars
  <2>2. \A n \in DOMAIN moves : Source(n)' = Source(n) /\ Destination(n)' = Destination(n)
    BY <2>1 DEF Source, Destination
  <2> QED
    BY <2>1, <2>2, SeenKept
<1>5. CASE Quiet
  <2>1. Fixed /\ UNCHANGED data /\ \A k \in Jobs : job'[k] = job[k] \/ job'[k].call \notin SeenCalls
    BY <1>5 DEF Quiet, Relabeled, cellVars, FreshCalls, SeenCalls
  <2>2. \A m \in DOMAIN moves : Source(m)' = Source(m) /\ Destination(m)' = Destination(m)
    BY <2>1 DEF Fixed, Source, Destination
  <2> QED
    BY <2>1, <2>2, SeenKept
<1>6. ASSUME NEW j \in Jobs, StageSource(j) PROVE SeenHolds'
  <2>1. job'[j].call \notin SeenCalls /\ \A k \in Jobs : k # j => job'[k] = Idle
    BY <1>6, StageSourceDoes DEF JobAt, Works, SeenCalls
  <2> QED
    BY <2>1, SeenLeft
<1>7. ASSUME NEW j \in Jobs, StageDestination(j) PROVE SeenHolds'
  <2>1. job'[j].call \notin SeenCalls /\ \A k \in Jobs : k # j => job'[k] = Idle
    BY <1>7, StageDestinationDoes DEF JobAt, Works, SeenCalls
  <2> QED
    BY <2>1, SeenLeft
<1>8. ASSUME NEW j \in Jobs, Drain(j) PROVE SeenHolds'
  <2>1. job'[j].call \notin SeenCalls /\ \A k \in Jobs : k # j => job'[k] = Idle
    BY <1>8, DrainDoes DEF JobAt, Works, SeenCalls
  <2> QED
    BY <2>1, SeenLeft
<1>9. ASSUME NEW j \in Jobs, ReadSource(j) PROVE SeenHolds'
  <2>1. PICK m \in DOMAIN moves :
           /\ job[j].move = m /\ \A k \in Jobs : k # j => job'[k] = Idle
           /\ job'[j].move = m /\ UNCHANGED globalVars
           /\ job'[j].call = "write" /\ job'[j].seen = data[Source(m)] /\ UNCHANGED cellVars
    BY <1>9, ReadSourceDoes DEF JobAt, Works, globalVars
  <2>2. Source(m)' = Source(m) /\ Destination(m)' = Destination(m)
    BY <2>1 DEF Source, Destination, globalVars
  <2> QED
    BY <2>1, <2>2, SeenShown DEF cellVars
<1>10. ASSUME NEW j \in Jobs, WriteDestination(j) PROVE SeenHolds'
  <2>1. PICK m \in DOMAIN moves :
           /\ job[j].move = m /\ \A k \in Jobs : k # j => job'[k] = Idle
           /\ job'[j].move = m /\ UNCHANGED globalVars
           /\ job[j].call = "write" /\ job'[j].call = "compare" /\ job'[j].seen = job[j].seen
           /\ data' = [data EXCEPT ![Destination(m)] = job[j].seen]
    BY <1>10, WriteDestinationDoes DEF JobAt, Works, globalVars
  <2>2. Source(m)' = Source(m) /\ Destination(m)' = Destination(m)
    BY <2>1 DEF Source, Destination, globalVars
  <2>3. Source(m) \in Cells /\ Source(m) # Destination(m)
    BY MoveFacts
  <2>4. data'[Source(m)] = data[Source(m)] /\ job[j].seen = data[Source(m)]
    BY <2>1, <2>3 DEF SeenHolds, Types, CellTypes
  <2> QED
    BY <2>1, <2>2, <2>4, SeenShown
<1>11. ASSUME NEW j \in Jobs, CompareCopy(j) PROVE SeenHolds'
  <2>1. PICK m \in DOMAIN moves :
           /\ job[j].move = m /\ \A k \in Jobs : k # j => job'[k] = Idle
           /\ job'[j].move = m /\ job[j].call = "compare" /\ job'[j].seen = job[j].seen
           /\ data[Destination(m)] = job[j].seen
    BY <1>11, CompareCopyDoes DEF JobAt, Works
  <2>2. UNCHANGED <<moves, data>>
    BY <1>11 DEF CompareCopy, globalVars, cellVars
  <2>3. Source(m)' = Source(m) /\ Destination(m)' = Destination(m)
    BY <2>2 DEF Source, Destination
  <2>4. job[j].seen = data[Source(m)]
    BY <2>1 DEF SeenHolds
  <2> QED
    BY <2>1, <2>2, <2>3, <2>4, SeenShown
<1>12. ASSUME NEW j \in Jobs, RecordEvidence(j) PROVE SeenHolds'
  <2>1. PICK m \in DOMAIN moves :
           /\ job[j].move = m /\ \A k \in Jobs : k # j => job'[k] = Idle
           /\ job'[j].move = m /\ UNCHANGED globalVars
           /\ job[j].call \in {"record_source", "record_destination"} /\ job'[j].seen = job[j].seen
           /\ UNCHANGED data
    BY <1>12, RecordEvidenceDoes DEF JobAt, Works, globalVars
  <2>2. Source(m)' = Source(m) /\ Destination(m)' = Destination(m)
    BY <2>1 DEF Source, Destination, globalVars
  <2>3. job[j].seen = data[Source(m)] /\ job[j].seen = data[Destination(m)]
    BY <2>1 DEF SeenHolds
  <2> QED
    BY <2>1, <2>2, <2>3, SeenShown
<1>13. ASSUME NEW j \in Jobs, AdvanceCopied(j) PROVE SeenHolds'
  <2>1. job'[j].call \notin SeenCalls /\ \A k \in Jobs : k # j => job'[k] = Idle
    BY <1>13, AdvanceCopiedDoes DEF JobAt, Works, SeenCalls
  <2> QED
    BY <2>1, SeenLeft
<1>14. ASSUME NEW j \in Jobs, AdvanceReady(j) PROVE SeenHolds'
  <2>1. job'[j].call \notin SeenCalls /\ \A k \in Jobs : k # j => job'[k] = Idle
    BY <1>14, AdvanceReadyDoes DEF JobAt, Works, SeenCalls
  <2> QED
    BY <2>1, SeenLeft
<1>15. ASSUME NEW j \in Jobs, Switch(j) PROVE SeenHolds'
  <2>1. job'[j].call \notin SeenCalls /\ \A k \in Jobs : k # j => job'[k] = Idle
    BY <1>15, SwitchDoes DEF JobAt, Works, SeenCalls
  <2> QED
    BY <2>1, SeenLeft
<1>16. ASSUME NEW j \in Jobs, ActivateDestination(j) PROVE SeenHolds'
  <2>1. job'[j].call \notin SeenCalls /\ \A k \in Jobs : k # j => job'[k] = Idle
    BY <1>16, ActivateDestinationDoes DEF JobAt, Works, SeenCalls
  <2> QED
    BY <2>1, SeenLeft
<1>17. ASSUME NEW j \in Jobs, Rollback(j) PROVE SeenHolds'
  <2>1. job'[j].call \notin SeenCalls /\ \A k \in Jobs : k # j => job'[k] = Idle
    BY <1>17, RollbackDoes DEF JobAt, Works, SeenCalls
  <2> QED
    BY <2>1, SeenLeft
<1>18. ASSUME NEW j \in Jobs, ActivateSource(j) PROVE SeenHolds'
  <2>1. job'[j].call \notin SeenCalls /\ \A k \in Jobs : k # j => job'[k] = Idle
    BY <1>18, ActivateSourceDoes DEF JobAt, Works, SeenCalls
  <2> QED
    BY <2>1, SeenLeft
<1>19. ASSUME NEW j \in Jobs, FreezeDestination(j) PROVE SeenHolds'
  <2>1. job'[j].call \notin SeenCalls /\ \A k \in Jobs : k # j => job'[k] = Idle
    BY <1>19, FreezeDestinationDoes DEF JobAt, Works, SeenCalls
  <2> QED
    BY <2>1, SeenLeft
<1>20. ASSUME NEW j \in Jobs, BeginRetirement(j) PROVE SeenHolds'
  <2>1. job'[j].call \notin SeenCalls /\ \A k \in Jobs : k # j => job'[k] = Idle
    BY <1>20, BeginRetirementDoes DEF JobAt, Works, SeenCalls
  <2> QED
    BY <2>1, SeenLeft
<1>21. ASSUME NEW j \in Jobs, RetireSource(j) PROVE SeenHolds'
  <2>1. job'[j].call \notin SeenCalls /\ \A k \in Jobs : k # j => job'[k] = Idle
    BY <1>21, RetireSourceDoes DEF JobAt, Works, SeenCalls
  <2> QED
    BY <2>1, SeenLeft
<1>22. ASSUME NEW j \in Jobs, Complete(j) PROVE SeenHolds'
  <2>1. job'[j].call \notin SeenCalls /\ \A k \in Jobs : k # j => job'[k] = Idle
    BY <1>22, CompleteDoes DEF JobAt, Works, SeenCalls
  <2> QED
    BY <2>1, SeenLeft
<1> QED
  BY NextSplit, <1>1, <1>2, <1>3, <1>4, <1>5, <1>6, <1>7, <1>8, <1>9, <1>10, <1>11, <1>12, <1>13, <1>14,
     <1>15, <1>16, <1>17, <1>18, <1>19, <1>20, <1>21, <1>22

-------------------------------------------------------------------------------
(***************************************************************************)
(* The digest of a copied move                                             *)
(***************************************************************************)

Copied == {"copied", "ready", "switched"}

\* Where no move is between its copy and the end of its rollback window.
LEMMA DigestIdle ==
    ASSUME \A m \in DOMAIN moves' : Phase(m)' \notin Copied
    PROVE  DigestHolds'
BY DEF DigestHolds, Copied

\* Where a copied move stays copied, its source keeps its rows and its
\* destination at least those.
LEMMA DigestKept ==
    ASSUME DigestHolds, Fixed,
           \A m \in DOMAIN moves : Phase(m)' \in Copied =>
              /\ Phase(m) \in Copied /\ moves'[m].digest = moves[m].digest
              /\ data'[Source(m)] = data[Source(m)]
              /\ Present(data[Destination(m)]) \subseteq Present(data'[Destination(m)])
              /\ (Phase(m)' # "switched" => Phase(m) # "switched" /\ data'[Destination(m)] = data[Destination(m)])
    PROVE  DigestHolds'
<1>1. ASSUME NEW m \in DOMAIN moves', Phase(m)' \in Copied
      PROVE  /\ data'[Source(m)'] = moves'[m].digest
             /\ Phase(m)' \in {"copied", "ready"} => data'[Destination(m)'] = moves'[m].digest
             /\ Phase(m)' = "switched" => Present(moves'[m].digest) \subseteq Present(data'[Destination(m)'])
  <2>1. m \in DOMAIN moves /\ Source(m)' = Source(m) /\ Destination(m)' = Destination(m)
    BY <1>1 DEF Fixed, Source, Destination
  <2>2. Phase(m) \in Copied /\ moves'[m].digest = moves[m].digest /\ data'[Source(m)] = data[Source(m)]
    BY <1>1, <2>1
  <2>3. data[Source(m)] = moves[m].digest
    BY <2>1, <2>2 DEF DigestHolds, Copied
  <2>4. Present(moves[m].digest) \subseteq Present(data[Destination(m)])
    BY <2>1, <2>2 DEF DigestHolds, Copied
  <2>5. Present(moves'[m].digest) \subseteq Present(data'[Destination(m)])
    BY <1>1, <2>1, <2>2, <2>4
  <2>6. Phase(m)' \in {"copied", "ready"} => data'[Destination(m)] = moves'[m].digest
    BY <1>1, <2>1, <2>2 DEF DigestHolds, Copied
  <2> QED
    BY <2>1, <2>2, <2>3, <2>5, <2>6
<1> QED
  BY <1>1 DEF DigestHolds, Copied, Present

\* The digest of a copied move stays what its source holds and its destination has.
LEMMA NextDigest ==
    ASSUME OneJobAtATime, Types, History, Placing, JobsKnow, Staged, SeenHolds, DigestHolds, Next
    PROVE  DigestHolds'
<1>1. CASE Routes
  <2>1. UNCHANGED <<data, moves>>
    BY <1>1 DEF Routes, cellVars, globalVars
  <2>2. Fixed /\ \A m \in DOMAIN moves : Phase(m)' = Phase(m)
    BY <2>1 DEF Fixed, Phase, Types, GlobalTypes
  <2> QED
    BY <2>1, <2>2, DigestKept
<1>2. ASSUME NEW c \in Cells, NEW w \in Writes, NEW v \in {"queued", "done"}, RowWritten(c, w, v) PROVE DigestHolds'
  <2>1. /\ UNCHANGED moves /\ namespace[c].state = "active" /\ data'[c] = [data[c] EXCEPT ![w] = v]
        /\ \A d \in Cells : d # c => data'[d] = data[d]
    BY <1>2 DEF RowWritten, Types, CellTypes, globalVars
  <2>2. Fixed /\ \A m \in DOMAIN moves : Phase(m)' = Phase(m)
    BY <2>1 DEF Fixed, Phase, Types, GlobalTypes
  <2>3. \A d \in Cells : Present(data[d]) \subseteq Present(data'[d])
    BY <2>1 DEF Present, Types, CellTypes, Rows
  <2>4. ASSUME NEW m \in DOMAIN moves, Phase(m) \in Copied
        PROVE  /\ data'[Source(m)] = data[Source(m)]
               /\ (Phase(m) # "switched" => data'[Destination(m)] = data[Destination(m)])
    <3>1. Source(m) \in Cells /\ Destination(m) \in Cells
      BY MoveFacts
    <3>2. /\ Frozen(Source(m), SourceGeneration(m))
          /\ Phase(m) # "switched" => Frozen(Destination(m), DestinationGeneration(m))
      BY <2>4 DEF Staged, Copied
    <3>3. Source(m) # c /\ (Phase(m) # "switched" => Destination(m) # c)
      BY <2>1, <3>2 DEF Frozen
    <3> QED
      BY <2>1, <3>1, <3>3
  <2>5. \A m \in DOMAIN moves : Destination(m) \in Cells
    BY MoveFacts
  <2> QED
    BY <2>1, <2>2, <2>3, <2>4, <2>5, DigestKept
<1>3. CASE ChangeAccountState
  <2>1. UNCHANGED <<data, moves>>
    BY <1>3 DEF ChangeAccountState, cellVars
  <2>2. Fixed /\ \A m \in DOMAIN moves : Phase(m)' = Phase(m)
    BY <2>1 DEF Fixed, Phase, Types, GlobalTypes
  <2> QED
    BY <2>1, <2>2, DigestKept
<1>4. ASSUME NEW c \in Cells, Prepare(c) PROVE DigestHolds'
  <2>1. PICK N \in Nat : N = Len(moves) + 1
    BY Records DEF Types, GlobalTypes
  <2>2. /\ moves'[N] = PreparedRecord(c) /\ \A n \in DOMAIN moves : moves'[n] = moves[n]
        /\ \A n \in DOMAIN moves' : n = N \/ n \in DOMAIN moves
        /\ ~OpenMove
    BY <1>4, <2>1, PrepareDoes
  <2>3. Phase(N)' = "prepared"
    BY <2>2 DEF Phase, PreparedRecord
  <2>4. \A n \in DOMAIN moves : Phase(n)' \in {"completed", "rolled_back"}
    BY <2>2 DEF OpenMove, Phase
  <2>5. \A n \in DOMAIN moves' : Phase(n)' \notin Copied
    BY <2>2, <2>3, <2>4 DEF Copied
  <2> QED
    BY <2>5, DigestIdle
<1>5. CASE Quiet
  <2>1. Relabeled /\ UNCHANGED data
    BY <1>5 DEF Quiet, cellVars
  <2> QED
    BY <2>1, DigestKept DEF Relabeled
<1>6. ASSUME NEW j \in Jobs, StageSource(j) PROVE DigestHolds'
  <2>1. UNCHANGED <<data, moves>>
    BY <1>6 DEF StageSource, cellVars, globalVars
  <2>2. Fixed /\ \A m \in DOMAIN moves : Phase(m)' = Phase(m)
    BY <2>1 DEF Fixed, Phase, Types, GlobalTypes
  <2> QED
    BY <2>1, <2>2, DigestKept
<1>7. ASSUME NEW j \in Jobs, StageDestination(j) PROVE DigestHolds'
  <2>1. UNCHANGED <<data, moves>>
    BY <1>7 DEF StageDestination, cellVars, globalVars
  <2>2. Fixed /\ \A m \in DOMAIN moves : Phase(m)' = Phase(m)
    BY <2>1 DEF Fixed, Phase, Types, GlobalTypes
  <2> QED
    BY <2>1, <2>2, DigestKept
<1>8. ASSUME NEW j \in Jobs, Drain(j) PROVE DigestHolds'
  <2>1. PICK m \in DOMAIN moves :
           /\ Fixed /\ Phase(m) = "prepared" /\ Phase(m)' = "drained"
           /\ \A n \in DOMAIN moves : n # m => Phase(n)' = Phase(n)
    BY <1>8, DrainDoes DEF Advanced, Works
  <2>2. \A n \in DOMAIN moves : n # m => Phase(n) \in {"completed", "rolled_back"}
    BY <2>1, OpenIsLast
  <2>3. \A n \in DOMAIN moves' : Phase(n)' \notin Copied
    BY <2>1, <2>2 DEF Fixed, Copied
  <2> QED
    BY <2>3, DigestIdle
<1>9. ASSUME NEW j \in Jobs, ReadSource(j) PROVE DigestHolds'
  <2>1. UNCHANGED <<data, moves>>
    BY <1>9 DEF ReadSource, cellVars, globalVars
  <2>2. Fixed /\ \A m \in DOMAIN moves : Phase(m)' = Phase(m)
    BY <2>1 DEF Fixed, Phase, Types, GlobalTypes
  <2> QED
    BY <2>1, <2>2, DigestKept
<1>10. ASSUME NEW j \in Jobs, WriteDestination(j) PROVE DigestHolds'
  <2>1. PICK m \in DOMAIN moves :
           /\ Fixed /\ Phase(m) = "drained" /\ \A n \in DOMAIN moves : Phase(n)' = Phase(n)
    <3>1. UNCHANGED moves
      BY <1>10, WriteDestinationDoes DEF globalVars
    <3> QED
      BY <1>10, WriteDestinationDoes, <3>1 DEF Works, Types, GlobalTypes, Fixed, Phase
  <2>2. \A n \in DOMAIN moves : n # m => Phase(n) \in {"completed", "rolled_back"}
    BY <2>1, OpenIsLast
  <2>3. \A n \in DOMAIN moves' : Phase(n)' \notin Copied
    BY <2>1, <2>2 DEF Fixed, Copied
  <2> QED
    BY <2>3, DigestIdle
<1>11. ASSUME NEW j \in Jobs, CompareCopy(j) PROVE DigestHolds'
  <2>1. UNCHANGED <<data, moves>>
    BY <1>11 DEF CompareCopy, cellVars, globalVars
  <2>2. Fixed /\ \A m \in DOMAIN moves : Phase(m)' = Phase(m)
    BY <2>1 DEF Fixed, Phase, Types, GlobalTypes
  <2> QED
    BY <2>1, <2>2, DigestKept
<1>12. ASSUME NEW j \in Jobs, RecordEvidence(j) PROVE DigestHolds'
  <2>1. UNCHANGED <<data, moves>>
    BY <1>12 DEF RecordEvidence, cellVars, globalVars
  <2>2. Fixed /\ \A m \in DOMAIN moves : Phase(m)' = Phase(m)
    BY <2>1 DEF Fixed, Phase, Types, GlobalTypes
  <2> QED
    BY <2>1, <2>2, DigestKept
<1>13. ASSUME NEW j \in Jobs, AdvanceCopied(j) PROVE DigestHolds'
  <2>1. PICK m \in DOMAIN moves :
           /\ Fixed /\ Phase(m) = "drained" /\ Phase(m)' = "copied" /\ moves'[m].digest = job[j].seen
           /\ \A n \in DOMAIN moves : n # m => Phase(n)' = Phase(n)
           /\ UNCHANGED data /\ job[j].call = "copy" /\ job[j].move = m
    BY <1>13, AdvanceCopiedDoes DEF Advanced, Works, cellVars
  <2>2. \A n \in DOMAIN moves : n # m => Phase(n) \in {"completed", "rolled_back"}
    BY <2>1, OpenIsLast
  <2>3. job[j].seen = data[Source(m)] /\ job[j].seen = data[Destination(m)]
    BY <2>1 DEF SeenHolds
  <2>4. Source(m)' = Source(m) /\ Destination(m)' = Destination(m)
    BY <2>1 DEF Fixed, Source, Destination
  <2>5. ASSUME NEW n \in DOMAIN moves', Phase(n)' \in Copied PROVE n = m
    BY <2>1, <2>2, <2>5 DEF Fixed, Copied
  <2>6. data'[Source(m)'] = moves'[m].digest /\ data'[Destination(m)'] = moves'[m].digest
    BY <2>1, <2>3, <2>4
  <2>7. Phase(m)' # "switched"
    BY <2>1
  <2> QED
    BY <2>5, <2>6, <2>7 DEF DigestHolds, Copied
<1>14. ASSUME NEW j \in Jobs, AdvanceReady(j) PROVE DigestHolds'
  <2>1. PICK m \in DOMAIN moves :
           /\ Fixed /\ Phase(m) = "copied" /\ Phase(m)' = "ready" /\ moves'[m].digest = moves[m].digest
           /\ \A n \in DOMAIN moves : n # m => moves'[n] = moves[n] /\ Phase(n)' = Phase(n)
           /\ UNCHANGED data
    BY <1>14, AdvanceReadyDoes DEF Advanced, Works, cellVars
  <2>2. ASSUME NEW n \in DOMAIN moves, Phase(n)' \in Copied
        PROVE  /\ Phase(n) \in Copied /\ moves'[n].digest = moves[n].digest
               /\ (Phase(n)' # "switched" => Phase(n) # "switched")
    BY <2>1, <2>2 DEF Copied
  <2> QED
    BY <2>1, <2>2, DigestKept
<1>15. ASSUME NEW j \in Jobs, Switch(j) PROVE DigestHolds'
  <2>1. PICK m \in DOMAIN moves :
           /\ Fixed /\ Phase(m) = "ready" /\ Phase(m)' = "switched" /\ moves'[m].digest = moves[m].digest
           /\ \A n \in DOMAIN moves : n # m => moves'[n] = moves[n] /\ Phase(n)' = Phase(n)
           /\ UNCHANGED data
    BY <1>15, SwitchDoes DEF Advanced, Works, cellVars
  <2>2. ASSUME NEW n \in DOMAIN moves, Phase(n)' \in Copied
        PROVE  /\ Phase(n) \in Copied /\ moves'[n].digest = moves[n].digest
               /\ (Phase(n)' # "switched" => Phase(n) # "switched")
    BY <2>1, <2>2 DEF Copied
  <2> QED
    BY <2>1, <2>2, DigestKept
<1>16. ASSUME NEW j \in Jobs, ActivateDestination(j) PROVE DigestHolds'
  <2>1. UNCHANGED <<data, moves>>
    BY <1>16 DEF ActivateDestination, cellVars, globalVars
  <2>2. Fixed /\ \A m \in DOMAIN moves : Phase(m)' = Phase(m)
    BY <2>1 DEF Fixed, Phase, Types, GlobalTypes
  <2> QED
    BY <2>1, <2>2, DigestKept
<1>17. ASSUME NEW j \in Jobs, Rollback(j) PROVE DigestHolds'
  <2>1. PICK m \in DOMAIN moves :
           /\ Fixed /\ Phase(m) = "switched" /\ Phase(m)' = "rolled_back"
           /\ \A n \in DOMAIN moves : n # m => Phase(n)' = Phase(n)
    BY <1>17, RollbackDoes DEF Advanced, Works
  <2>2. \A n \in DOMAIN moves : n # m => Phase(n) \in {"completed", "rolled_back"}
    BY <2>1, OpenIsLast
  <2>3. \A n \in DOMAIN moves' : Phase(n)' \notin Copied
    BY <2>1, <2>2 DEF Fixed, Copied
  <2> QED
    BY <2>3, DigestIdle
<1>18. ASSUME NEW j \in Jobs, ActivateSource(j) PROVE DigestHolds'
  <2>1. UNCHANGED <<data, moves>>
    BY <1>18 DEF ActivateSource, cellVars, globalVars
  <2>2. Fixed /\ \A m \in DOMAIN moves : Phase(m)' = Phase(m)
    BY <2>1 DEF Fixed, Phase, Types, GlobalTypes
  <2> QED
    BY <2>1, <2>2, DigestKept
<1>19. ASSUME NEW j \in Jobs, FreezeDestination(j) PROVE DigestHolds'
  <2>1. UNCHANGED <<data, moves>>
    BY <1>19 DEF FreezeDestination, cellVars, globalVars
  <2>2. Fixed /\ \A m \in DOMAIN moves : Phase(m)' = Phase(m)
    BY <2>1 DEF Fixed, Phase, Types, GlobalTypes
  <2> QED
    BY <2>1, <2>2, DigestKept
<1>20. ASSUME NEW j \in Jobs, BeginRetirement(j) PROVE DigestHolds'
  <2>1. PICK m \in DOMAIN moves :
           /\ Fixed /\ Phase(m) = "switched" /\ Phase(m)' = "retiring"
           /\ \A n \in DOMAIN moves : n # m => Phase(n)' = Phase(n)
    BY <1>20, BeginRetirementDoes DEF Advanced, Works
  <2>2. \A n \in DOMAIN moves : n # m => Phase(n) \in {"completed", "rolled_back"}
    BY <2>1, OpenIsLast
  <2>3. \A n \in DOMAIN moves' : Phase(n)' \notin Copied
    BY <2>1, <2>2 DEF Fixed, Copied
  <2> QED
    BY <2>3, DigestIdle
<1>21. ASSUME NEW j \in Jobs, RetireSource(j) PROVE DigestHolds'
  <2>1. PICK m \in DOMAIN moves :
           /\ Fixed /\ Phase(m) = "retiring" /\ \A n \in DOMAIN moves : Phase(n)' = Phase(n)
    <3>1. UNCHANGED moves
      BY <1>21, RetireSourceDoes DEF globalVars
    <3> QED
      BY <1>21, RetireSourceDoes, <3>1 DEF Works, Types, GlobalTypes, Fixed, Phase
  <2>2. \A n \in DOMAIN moves : n # m => Phase(n) \in {"completed", "rolled_back"}
    BY <2>1, OpenIsLast
  <2>3. \A n \in DOMAIN moves' : Phase(n)' \notin Copied
    BY <2>1, <2>2 DEF Fixed, Copied
  <2> QED
    BY <2>3, DigestIdle
<1>22. ASSUME NEW j \in Jobs, Complete(j) PROVE DigestHolds'
  <2>1. PICK m \in DOMAIN moves :
           /\ Fixed /\ Phase(m) = "retiring" /\ Phase(m)' = "completed"
           /\ \A n \in DOMAIN moves : n # m => Phase(n)' = Phase(n)
    BY <1>22, CompleteDoes DEF Advanced, Works
  <2>2. \A n \in DOMAIN moves : n # m => Phase(n) \in {"completed", "rolled_back"}
    BY <2>1, OpenIsLast
  <2>3. \A n \in DOMAIN moves' : Phase(n)' \notin Copied
    BY <2>1, <2>2 DEF Fixed, Copied
  <2> QED
    BY <2>3, DigestIdle
<1> QED
  BY NextSplit, <1>1, <1>2, <1>3, <1>4, <1>5, <1>6, <1>7, <1>8, <1>9, <1>10, <1>11, <1>12, <1>13, <1>14,
     <1>15, <1>16, <1>17, <1>18, <1>19, <1>20, <1>21, <1>22

-------------------------------------------------------------------------------
(***************************************************************************)
(* The invariant is inductive                                              *)
(***************************************************************************)

\* A job comes to rest at the end of its calls only, and its record is cleared.
LEMMA NextAtRest ==
    ASSUME Types, AtRest, Next
    PROVE  AtRest'
<1> DEFINE Rests(k) == job'[k] = job[k] \/ job'[k] = Idle \/ job'[k].call # "idle"
<1>0. job \in [Jobs -> Job]
  BY DEF Types, ActorTypes
<1>1. ASSUME NEW j \in Jobs
      PROVE  /\ End(j) => \A k \in Jobs : Rests(k)
             /\ \A call \in Calls \ {"idle"} : Continue(j, call) => \A k \in Jobs : Rests(k)
             /\ \A call \in Calls \ {"idle"}, m \in Nat : GoTo(j, m, call) => \A k \in Jobs : Rests(k)
  BY <1>0, JobGoesOn DEF JobAt
<1>2. CASE UNCHANGED job
  BY <1>2 DEF AtRest
<1>3. ASSUME \A k \in Jobs : Rests(k) PROVE AtRest'
  BY <1>3 DEF AtRest, Idle
<1>4. CASE Customers
  BY <1>4, <1>2 DEF Customers, RouteRequest, ConsumeReceipt, BusinessWrite, FinishWork
<1>5. CASE ChangeAccountState
  BY <1>5, <1>2 DEF ChangeAccountState
<1>6. CASE \E c \in Cells : Prepare(c)
  BY <1>6, <1>2 DEF Prepare
<1>7. CASE \E m \in DOMAIN moves : Pause(m) \/ Resume(m) \/ ExpireLease(m) \/ CloseWindow(m)
  BY <1>7, <1>2 DEF Pause, Resume, ExpireLease, CloseWindow
<1>8. ASSUME NEW j \in Jobs, Abandon(j) PROVE AtRest'
  BY <1>8, <1>1, <1>3 DEF Abandon
<1>9. ASSUME NEW j \in Jobs, Start(j) PROVE AtRest'
  <2>1. PICK m \in DOMAIN moves : StartAdvance(j, m) \/ StartRollback(j, m) \/ StartRetire(j, m)
    BY <1>9 DEF Start
  <2>2. m \in Nat
    BY Records DEF Types, GlobalTypes
  <2>3. UNCHANGED job \/ \E call \in Calls \ {"idle"} : GoTo(j, m, call)
    <3>1. CASE StartAdvance(j, m)
      BY <3>1 DEF StartAdvance, ClaimAndGo, PhaseOf, Calls
    <3>2. CASE StartRollback(j, m)
      BY <3>2 DEF StartRollback, ClaimAndGo, Calls
    <3>3. CASE StartRetire(j, m)
      BY <3>3 DEF StartRetire, ClaimAndGo, Calls
    <3> QED
      BY <2>1, <3>1, <3>2, <3>3
  <2> QED
    BY <1>1, <1>2, <1>3, <2>2, <2>3
<1>10. ASSUME NEW j \in Jobs, JobStep(j) PROVE AtRest'
  <2>1. CASE StageSource(j)
    BY <2>1, <1>1, <1>3 DEF StageSource, Calls
  <2>2. CASE StageDestination(j)
    BY <2>2, <1>1, <1>3 DEF StageDestination, Calls
  <2>3. CASE Drain(j)
    BY <2>3, <1>1, <1>3 DEF Drain, Calls
  <2>4. CASE ReadSource(j)
    <3>1. job' = [job EXCEPT ![j].call = "write", ![j].seen = data[Source(job[j].move)]]
      BY <2>4 DEF ReadSource
    <3>2. job'[j].call = "write" /\ \A k \in Jobs : k # j => job'[k] = job[k]
      BY <1>0, <3>1 DEF Job
    <3> QED
      BY <1>3, <3>2
  <2>5. CASE WriteDestination(j)
    BY <2>5, <1>1, <1>3 DEF WriteDestination, Calls
  <2>6. CASE CompareCopy(j)
    BY <2>6, <1>1, <1>3 DEF CompareCopy, Calls
  <2>7. CASE RecordEvidence(j)
    BY <2>7, <1>1, <1>3 DEF RecordEvidence, Calls
  <2>8. CASE AdvanceCopied(j)
    BY <2>8, <1>1, <1>3 DEF AdvanceCopied, Calls
  <2>9. CASE MatchEvidence(j)
    BY <2>9, <1>1, <1>3 DEF MatchEvidence, Calls
  <2>10. CASE AdvanceReady(j)
    BY <2>10, <1>1, <1>3 DEF AdvanceReady, Calls
  <2>11. CASE Switch(j)
    BY <2>11, <1>1, <1>3 DEF Switch, Calls
  <2>12. CASE ActivateDestination(j)
    BY <2>12, <1>1, <1>3 DEF ActivateDestination, Calls
  <2>13. CASE Rollback(j)
    BY <2>13, <1>1, <1>3 DEF Rollback, Calls
  <2>14. CASE ActivateSource(j)
    BY <2>14, <1>1, <1>3 DEF ActivateSource, Calls
  <2>15. CASE FreezeDestination(j)
    BY <2>15, <1>1, <1>3 DEF FreezeDestination, Calls
  <2>16. CASE BeginRetirement(j)
    BY <2>16, <1>1, <1>3 DEF BeginRetirement, Calls
  <2>17. CASE RetireSource(j)
    BY <2>17, <1>1, <1>3 DEF RetireSource, Calls
  <2>18. CASE Complete(j)
    BY <2>18, <1>1, <1>3 DEF Complete, Calls
  <2>19. CASE Refuse(j)
    BY <2>19, <1>1, <1>3 DEF Refuse, Calls
  <2> QED
    BY <1>10, <2>1, <2>2, <2>3, <2>4, <2>5, <2>6, <2>7, <2>8, <2>9, <2>10, <2>11, <2>12, <2>13, <2>14,
       <2>15, <2>16, <2>17, <2>18, <2>19
       DEF JobStep
<1> QED
  BY <1>4, <1>5, <1>6, <1>7, <1>8, <1>9, <1>10 DEF Next

\* Where the movement of an Account starts.
LEMMA InitHolds ==
    ASSUME Init
    PROVE  MovementInvariant
<1>1. PICK home \in Cells :
        /\ account = [cell |-> home, generation |-> 1, version |-> 1, state |-> "active"]
        /\ directory = "active"
        /\ assigned = [c \in Cells |-> IF c = home THEN Others[c] + 1 ELSE Others[c]]
        /\ moves = << >>
        /\ namespace = [c \in Cells |-> IF c = home THEN [generation |-> 1, state |-> "active"] ELSE NoNamespace]
        /\ data = [c \in Cells |-> NoRows]
        /\ checkpoint = [c \in Cells |-> [m \in 1..MaxMoves |-> NoCheckpoint]]
        /\ job = [j \in Jobs |-> Idle]
        /\ request = [w \in Writes |-> NewRequest]
        /\ faults = 0
  BY DEF Init
<1>2. moves \in Seq(Move) /\ Len(moves) = 0 /\ DOMAIN moves = {}
  BY <1>1, EmptySeq
<1>3. Idle \in Job /\ NewRequest \in Request /\ Idle.call = "idle" /\ Idle.move = 0
  BY NoRowsAreRows DEF Idle, Job, Calls, NewRequest, Request
<1>4. 0 \in Generations /\ 1 \in Generations
  BY MovementAssumption DEF Generations
<1>5. Types
  <2>1. GlobalTypes
    BY <1>1, <1>2, MovementAssumption DEF GlobalTypes
  <2>2. NoNamespace \in Namespace /\ [generation |-> 1, state |-> "active"] \in Namespace /\ NoCheckpoint \in Checkpoint
    BY <1>4 DEF NoNamespace, Namespace, NoCheckpoint, Checkpoint
  <2>3. CellTypes
    BY <1>1, <2>2, NoRowsAreRows DEF CellTypes
  <2>4. ActorTypes
    BY <1>1, <1>3 DEF ActorTypes, NewRequest
  <2>5. RecordsSane
    BY <1>2 DEF RecordsSane
  <2> QED
    BY <2>1, <2>3, <2>4, <2>5 DEF Types
<1>6. History
  BY <1>2, MovementAssumption DEF History
<1>7. Placing
  BY <1>1, <1>2, MovementAssumption DEF Placing
<1>8. JobsKnow /\ AtRest
  BY <1>1, <1>3 DEF JobsKnow, OneJob, JobKnows, AtRest
<1>9. Placements
  <2>1. Staged
    BY <1>1, <1>2, <1>3 DEF Staged
  <2>2. Undone /\ ActiveRecorded
    BY <1>2 DEF Undone, ActiveRecorded
  <2>3. OneWritableCell
    BY <1>1 DEF OneWritableCell, NoNamespace
  <2> QED
    BY <2>1, <2>2, <2>3 DEF Placements
<1>10. RowsHold
  <2>1. RowsKnown
    BY <1>1 DEF RowsKnown, NoNamespace, Present, NoRows
  <2>2. FrozenCellsDrained
    BY <1>1 DEF FrozenCellsDrained, NoNamespace
  <2>3. SeenHolds /\ DigestHolds
    BY <1>1, <1>2, <1>3 DEF SeenHolds, DigestHolds
  <2> QED
    BY <2>1, <2>2, <2>3 DEF RowsHold
<1>11. DirectoryFollowsMove
  <2>1. \A c \in Cells : assigned[c] = Others[c] + (IF c = account.cell THEN 1 ELSE 0)
    BY <1>1, MovementAssumption
  <2>2. directory # "moving" /\ ~\E m \in DOMAIN moves : Phase(m) \in {"drained", "copied", "ready"}
    BY <1>1, <1>2
  <2> QED
    BY <2>1, <2>2 DEF DirectoryFollowsMove
<1> QED
  BY <1>5, <1>6, <1>7, <1>8, <1>9, <1>10, <1>11 DEF MovementInvariant

\* A step in which nothing happens keeps the invariant.
LEMMA StutterHolds ==
    ASSUME MovementInvariant, UNCHANGED vars
    PROVE  MovementInvariant'
<1> USE DEF MovementInvariant, vars
<1>1. Types'
  BY DEF Types, GlobalTypes, CellTypes, ActorTypes, RecordsSane
<1>2. History'
  BY DEF History, Phase, After
<1>3. Placing'
  BY DEF Placing, Phase, After, Source, Destination
<1>4. JobsKnow' /\ AtRest'
  BY DEF JobsKnow, OneJob, JobKnows, Leased, AtRest
<1>5. Staged'
  BY DEF Placements, Staged, Frozen, Phase, Source, Destination, SourceGeneration, DestinationGeneration
<1>6. Undone'
  BY DEF Placements, Undone, Frozen, Phase, Source, SourceGeneration, RollbackGeneration
<1>7. ActiveRecorded' /\ OneWritableCell'
  BY DEF Placements, ActiveRecorded, OneWritableCell, Phase, Destination
<1>8. RowsKnown' /\ FrozenCellsDrained'
  BY DEF RowsHold, RowsKnown, FrozenCellsDrained, Acknowledged, Present, Unfinished, Abandoned, Phase,
         Destination, DestinationGeneration
<1>9. SeenHolds' /\ DigestHolds'
  BY DEF RowsHold, SeenHolds, DigestHolds, Phase, Source, Destination, Present
<1>10. DirectoryFollowsMove'
  BY DEF DirectoryFollowsMove, Phase
<1> QED
  BY <1>1, <1>2, <1>3, <1>4, <1>5, <1>6, <1>7, <1>8, <1>9, <1>10 DEF Placements, RowsHold

\* Every step keeps the invariant.
LEMMA NextHolds ==
    ASSUME OneJobAtATime, MovementInvariant, [Next]_vars
    PROVE  MovementInvariant'
<1>1. CASE UNCHANGED vars
  BY <1>1, StutterHolds
<1>2. CASE Next
  <2>1. /\ Types /\ History /\ Placing /\ JobsKnow /\ AtRest /\ DirectoryFollowsMove
        /\ Staged /\ Undone /\ ActiveRecorded /\ OneWritableCell
        /\ RowsKnown /\ FrozenCellsDrained /\ SeenHolds /\ DigestHolds
    BY DEF MovementInvariant, Placements, RowsHold
  <2>2. Types' /\ History' /\ Placing' /\ JobsKnow' /\ AtRest' /\ DirectoryFollowsMove'
    BY <1>2, <2>1, NextTypes, NextHistory, NextJobsKnow, NextAtRest, NextDirectory
  <2>3. Placements'
    BY <1>2, <2>1, NextStaged, NextUndone, NextActiveRecorded, NextOneWritable DEF Placements
  <2>4. RowsHold'
    BY <1>2, <2>1, NextRowsKnown, NextDrained, NextSeen, NextDigest DEF RowsHold
  <2> QED
    BY <2>2, <2>3, <2>4 DEF MovementInvariant
<1> QED
  BY <1>1, <1>2

-------------------------------------------------------------------------------
(***************************************************************************)
(* The theorems                                                            *)
(***************************************************************************)

\* While operator jobs do not overlap, every reachable state has the history of
\* placements its generations tell, frozen cells where a move relies on them, and
\* the rows a copy, a switch or a rollback relies on.
THEOREM InductiveMovement == ASSUME OneJobAtATime PROVE Spec => []MovementInvariant
<1>1. Init => MovementInvariant
  BY InitHolds
<1>2. MovementInvariant /\ [Next]_vars => MovementInvariant'
  BY NextHolds
<1> QED
  BY <1>1, <1>2, PTL DEF Spec

\* What the invariant says of the types, with the bounds that the history of
\* placements puts on generations and versions.
LEMMA InvariantTypes ==
    ASSUME MovementInvariant
    PROVE  TypeOK
<1> USE DEF MovementInvariant
<1>1. moves \in Seq(Move) /\ Len(moves) \in Nat /\ DOMAIN moves = 1..Len(moves) /\ Len(moves) <= MaxMoves
  BY Records DEF Types, GlobalTypes, History
<1>2. account.generation \in Nat /\ account.version \in Nat /\ account.cell \in Cells /\ account.state \in {"active", "suspended"}
  BY DEF Types, GlobalTypes
<1>3. account.generation >= 1 /\ account.generation <= 2 * MaxMoves + 1
  <2>1. CASE Len(moves) = 0
    BY <2>1, MovementAssumption DEF Placing
  <2>2. CASE Len(moves) # 0
    <3>1. PICK L \in Nat : L = Len(moves) /\ L \in DOMAIN moves /\ L <= MaxMoves
      <4>1. PICK L \in Nat : L = Len(moves)
        BY <1>1
      <4>2. L \in 1..L
        BY <2>2, <4>1
      <4>3. L \in DOMAIN moves /\ L <= MaxMoves
        BY <1>1, <4>1, <4>2
      <4> QED
        BY <4>1, <4>3
    <3>2. PICK g \in Nat : g = moves[L].generation /\ g >= 1 /\ g <= 2 * L - 1
      BY <3>1, MoveFacts
    <3>3. account.generation \in {g, g + 1, g + 2}
      BY <2>2, <3>1, <3>2 DEF Placing, After
    <3> QED
      BY <1>2, <3>1, <3>2, <3>3, MovementAssumption
  <2> QED
    BY <2>1, <2>2
<1>4. account.generation \in Generations /\ account.version \in 1..(2 * MaxMoves + 1 + MaxChanges)
  BY <1>2, <1>3, MovementAssumption DEF Placing, Generations
<1>5. \A m \in DOMAIN moves :
           /\ moves[m].state \in MoveStates
           /\ (moves[m].state = "paused") = (moves[m].resume # "none")
           /\ moves[m].source \in Cells /\ moves[m].destination \in Cells \ {moves[m].source}
           /\ moves[m].digest \in [Writes -> RowStates]
           /\ moves[m].window \in {"unset", "open", "over"}
           /\ moves[m].lease \in Jobs \cup {NoLease, Orphan}
           /\ moves[m].live => moves[m].lease # NoLease
  BY <1>1, RecordFields DEF Types, RecordsSane, Rows
<1>6. \A c \in Cells :
           /\ namespace[c].generation \in Generations
           /\ namespace[c].state \in {"absent", "active", "moving"}
           /\ data[c] \in [Writes -> RowStates]
           /\ \A m \in 1..MaxMoves : checkpoint[c][m].generation \in Generations
  BY DEF Types, CellTypes, Namespace, Checkpoint, Rows
<1>7. \A j \in Jobs : job[j].call \in Calls /\ job[j].move \in 0..Len(moves)
  <2> TAKE j \in Jobs
  <2>1. job[j].call \in Calls
    BY DEF Types, ActorTypes, Job
  <2>2. CASE job[j].call = "idle"
    BY <1>1, <2>1, <2>2 DEF AtRest
  <2>3. CASE job[j].call # "idle"
    <3>1. job[j].move \in DOMAIN moves
      BY <2>3 DEF JobsKnow, JobKnows
    <3> QED
      BY <1>1, <2>1, <3>1
  <2> QED
    BY <2>2, <2>3
<1>8. \A w \in Writes : request[w].stage \in {"new", "routed", "admitted", "written"}
  BY DEF Types, ActorTypes, Request
<1>9. directory \in {"active", "moving"} /\ assigned \in [Cells -> Nat] /\ faults \in 0..MaxFaults
  BY DEF Types, GlobalTypes
<1> QED
  BY <1>1, <1>2, <1>4, <1>5, <1>6, <1>7, <1>8, <1>9 DEF TypeOK

\* Every row, record and job has a value its table or its code can hold; the
\* generation grows by at most two per move.
THEOREM MovementTypes == ASSUME OneJobAtATime PROVE Spec => []TypeOK
<1>1. MovementInvariant => TypeOK
  BY InvariantTypes
<1> QED
  BY <1>1, InductiveMovement, PTL

\* Beside its home, an Account is writable only in a destination that a rollback
\* gave up and has not frozen yet.
THEOREM WritableInOneCell == ASSUME OneJobAtATime PROVE Spec => []OneWritableCell
<1>1. MovementInvariant => OneWritableCell
  BY DEF MovementInvariant, Placements
<1> QED
  BY <1>1, InductiveMovement, PTL

\* A frozen namespace holds no unfinished technical work, unless a rollback left
\* it behind; the cells of a move never do while it relies on them.
THEOREM FrozenStaysDrained == ASSUME OneJobAtATime PROVE Spec => []FrozenIsDrained
<1>1. MovementInvariant => FrozenIsDrained
  BY MovedDrained DEF MovementInvariant, Placements, RowsHold, FrozenIsDrained
<1> QED
  BY <1>1, InductiveMovement, PTL

\* The directory is closed exactly while a move is between drain and switch, and
\* each cell counts exactly the Accounts placed in it.
THEOREM DirectoryAgrees == ASSUME OneJobAtATime PROVE Spec => []DirectoryFollowsMove
<1>1. MovementInvariant => DirectoryFollowsMove
  BY DEF MovementInvariant
<1> QED
  BY <1>1, InductiveMovement, PTL

-------------------------------------------------------------------------------
(***************************************************************************)
(* Moving implements the abstract placement                                *)
(***************************************************************************)

PlacedStates == {"switched", "retiring", "completed", "rolled_back"}

\* What the abstract variables stand for.
HomeRows == data[account.cell]
BaseRows == IF Placed = {} THEN NoRows ELSE LastPlaced.digest
Undoable == Placed # {} /\ LastPlaced.state = "switched"
SomeUndone == \E m \in DOMAIN moves : moves[m].state = "rolled_back"
Dropped == {w \in Acknowledged : data[account.cell][w] = "absent"}

\* The last of a set of moves that has one.
LEMMA LastIs ==
    ASSUME NEW S, S \subseteq Nat, NEW m \in S, \A n \in S : n <= m
    PROVE  Max(S) = m
<1>1. m \in S /\ \A y \in S : m >= y
  OBVIOUS
<1>2. Max(S) \in S /\ \A y \in S : Max(S) >= y
  BY <1>1 DEF Max
<1>3. Max(S) \in Nat /\ m \in Nat
  BY <1>2
<1> QED
  BY <1>1, <1>2, <1>3

\* Past its switch, a record cannot be paused.
LEMMA PlacedPhase ==
    ASSUME NEW r \in Move
    PROVE  LET p == IF r.state = "paused" THEN r.resume ELSE r.state IN
           /\ p \in PlacedStates <=> r.state \in PlacedStates
           /\ p = "switched" <=> r.state = "switched"
           /\ p = "rolled_back" <=> r.state = "rolled_back"
BY DEF Move, Unswitched, PlacedStates

\* The placed moves, by their phases.
LEMMA PlacedMoves ==
    ASSUME moves \in Seq(Move)
    PROVE  /\ Placed \subseteq DOMAIN moves /\ Placed \subseteq Nat
           /\ \A m \in DOMAIN moves : /\ m \in Placed <=> Phase(m) \in PlacedStates
                                      /\ moves[m].state = "switched" <=> Phase(m) = "switched"
                                      /\ moves[m].state = "rolled_back" <=> Phase(m) = "rolled_back"
<1>1. ASSUME NEW m \in DOMAIN moves
      PROVE  /\ moves[m].state \in PlacedStates <=> Phase(m) \in PlacedStates
             /\ moves[m].state = "switched" <=> Phase(m) = "switched"
             /\ moves[m].state = "rolled_back" <=> Phase(m) = "rolled_back"
  <2>1. moves[m] \in Move
    BY Records
  <2> QED
    BY <2>1, PlacedPhase DEF Phase
<1>2. Placed = {m \in DOMAIN moves : moves[m].state \in PlacedStates}
  BY DEF Placed, PlacedStates
<1> QED
  BY <1>1, <1>2, Records

\* The same after a step.
LEMMA PlacedMovesNext ==
    ASSUME moves' \in Seq(Move)
    PROVE  /\ Placed' \subseteq DOMAIN moves' /\ Placed' \subseteq Nat
           /\ \A m \in DOMAIN moves' : /\ m \in Placed' <=> Phase(m)' \in PlacedStates
                                       /\ moves'[m].state = "switched" <=> Phase(m)' = "switched"
                                       /\ moves'[m].state = "rolled_back" <=> Phase(m)' = "rolled_back"
<1>1. ASSUME NEW m \in DOMAIN moves'
      PROVE  /\ moves'[m].state \in PlacedStates <=> Phase(m)' \in PlacedStates
             /\ moves'[m].state = "switched" <=> Phase(m)' = "switched"
             /\ moves'[m].state = "rolled_back" <=> Phase(m)' = "rolled_back"
  <2>1. moves'[m] \in Move
    BY ElementOfSeq, LenProperties
  <2> QED
    BY <2>1, PlacedPhase DEF Phase
<1>2. Placed' = {m \in DOMAIN moves' : moves'[m].state \in PlacedStates}
  BY DEF Placed, PlacedStates
<1>3. DOMAIN moves' \subseteq Nat
  BY LenProperties
<1> QED
  BY <1>1, <1>2, <1>3

\* When some move is placed there is a last one: the last move, or the one before.
LEMMA PlacedHasLast ==
    ASSUME Types, History, Placed # {}
    PROVE  Max(Placed) \in Placed
<1>1. moves \in Seq(Move)
  BY DEF Types, GlobalTypes
<1>2. PICK p \in Placed : p \in DOMAIN moves /\ p \in Nat
  BY <1>1, PlacedMoves
<1>3. PICK L \in Nat : L = Len(moves) /\ DOMAIN moves = 1..L
  BY <1>1, Records
<1>4. p >= 1 /\ p <= L
  BY <1>2, <1>3
<1>5. \A n \in Placed : n \in Nat /\ n <= L
  BY <1>1, <1>3, PlacedMoves
<1>6. CASE L \in Placed
  <2>1. Max(Placed) = L
    BY <1>1, <1>5, <1>6, LastIs, PlacedMoves
  <2> QED
    BY <1>6, <2>1
<1>7. CASE L \notin Placed
  <2>1. p < L
    BY <1>2, <1>4, <1>7
  <2>2. L - 1 \in 1..L /\ L \in 1..L /\ L - 1 < L
    BY <1>2, <1>4, <2>1
  <2>3. Phase(L - 1) \in {"completed", "rolled_back"}
    BY <1>3, <2>2 DEF History
  <2>4. L - 1 \in Placed
    BY <1>1, <1>3, <2>2, <2>3, PlacedMoves DEF PlacedStates
  <2>5. \A n \in Placed : n <= L - 1
    BY <1>3, <1>5, <1>7
  <2>6. Max(Placed) = L - 1
    BY <1>1, <2>4, <2>5, LastIs, PlacedMoves
  <2> QED
    BY <2>4, <2>6
<1> QED
  BY <1>6, <1>7

\* Where no move is placed or undone, what a rollback would return to is the same.
LEMMA RecordsKept ==
    ASSUME Types, History, moves' \in Seq(Move), DOMAIN moves \subseteq DOMAIN moves',
           \A m \in DOMAIN moves' : m \notin DOMAIN moves => Phase(m)' \notin PlacedStates,
           \A m \in DOMAIN moves : /\ Phase(m)' \in PlacedStates <=> Phase(m) \in PlacedStates
                                   /\ Phase(m)' = "switched" <=> Phase(m) = "switched"
                                   /\ Phase(m)' = "rolled_back" <=> Phase(m) = "rolled_back"
                                   /\ Phase(m) \in PlacedStates => moves'[m].digest = moves[m].digest
    PROVE  UNCHANGED <<BaseRows, Undoable, SomeUndone>>
<1>1. moves \in Seq(Move)
  BY DEF Types, GlobalTypes
<1>2. Placed' = Placed
  <2>1. \A m \in Placed' : m \in Placed
    BY <1>1, PlacedMoves, PlacedMovesNext
  <2>2. \A m \in Placed : m \in Placed'
    BY <1>1, PlacedMoves, PlacedMovesNext
  <2> QED
    BY <2>1, <2>2
<1>3. PICK L : L = Max(Placed)
  OBVIOUS
<1>4. Placed # {} => L \in DOMAIN moves /\ Phase(L) \in PlacedStates
  BY <1>1, <1>3, PlacedHasLast, PlacedMoves
<1>5. Max(Placed)' = L
  BY <1>2, <1>3
<1>6. Placed # {} => moves'[L].digest = moves[L].digest /\ (moves'[L].state = "switched" <=> moves[L].state = "switched")
  BY <1>1, <1>4, PlacedMoves, PlacedMovesNext
<1>7. BaseRows' = BaseRows
  BY <1>2, <1>3, <1>5, <1>6 DEF BaseRows, LastPlaced, NoRows
<1>8. Undoable' = Undoable
  BY <1>2, <1>3, <1>5, <1>6 DEF Undoable, LastPlaced
<1>9. SomeUndone' = SomeUndone
  <2>1. ASSUME NEW m \in DOMAIN moves, moves[m].state = "rolled_back" PROVE m \in DOMAIN moves' /\ moves'[m].state = "rolled_back"
    BY <1>1, <2>1, PlacedMoves, PlacedMovesNext
  <2>2. ASSUME NEW m \in DOMAIN moves', moves'[m].state = "rolled_back" PROVE m \in DOMAIN moves /\ moves[m].state = "rolled_back"
    <3>1. Phase(m)' = "rolled_back"
      BY <2>2, PlacedMovesNext
    <3>2. m \in DOMAIN moves
      BY <3>1 DEF PlacedStates
    <3> QED
      BY <1>1, <3>1, <3>2, PlacedMoves
  <2> QED
    BY <2>1, <2>2 DEF SomeUndone
<1> QED
  BY <1>7, <1>8, <1>9

\* A step the abstract placement allows.
Promised == [Placement!PlacementNext]_(Placement!placementVars)

\* The parts of the abstract state that only a change of placement touches.
Unplaced == account'.cell = account.cell /\ account'.generation = account.generation
            /\ UNCHANGED <<BaseRows, Undoable, SomeUndone>>

\* A step the abstract placement does not see.
LEMMA PlacementStutters ==
    ASSUME Unplaced, data'[account.cell] = data[account.cell], Acknowledged' = Acknowledged
    PROVE  Promised
<1>1. UNCHANGED <<HomeRows, Dropped>>
  BY DEF Unplaced, HomeRows, Dropped
<1>2. UNCHANGED Placement!placementVars
  BY <1>1 DEF Unplaced, HomeRows, Dropped, BaseRows, Undoable, SomeUndone, Placement!placementVars
<1> QED
  BY <1>2 DEF Promised

\* The steps of the abstract placement, by what they do to what it stands for.
LEMMA AbstractWrites ==
    ASSUME NEW w \in Writes, Unplaced
    PROVE  /\ /\ w \notin Present(HomeRows) \cup Dropped
              /\ HomeRows' = [HomeRows EXCEPT ![w] = IF w \in QueuedWrites THEN "queued" ELSE "done"]
              /\ Dropped' = Dropped
              => Promised
           /\ /\ HomeRows[w] = "queued" /\ HomeRows' = [HomeRows EXCEPT ![w] = "done"] /\ Dropped' = Dropped
              => Promised
           /\ /\ SomeUndone /\ w \notin Present(HomeRows) \cup Dropped
              /\ Dropped' = Dropped \cup {w} /\ HomeRows' = HomeRows
              => Promised
<1> USE DEF Unplaced, HomeRows, Dropped, BaseRows, Undoable, SomeUndone, Present
<1>1. ASSUME w \notin Present(HomeRows) \cup Dropped, Dropped' = Dropped,
             HomeRows' = [HomeRows EXCEPT ![w] = IF w \in QueuedWrites THEN "queued" ELSE "done"]
      PROVE  Promised
  <2>1. Placement!AcceptWrite(w)
    BY <1>1 DEF Placement!AcceptWrite, Placement!Present
  <2> QED
    BY <2>1 DEF Promised, Placement!PlacementNext
<1>2. ASSUME HomeRows[w] = "queued", HomeRows' = [HomeRows EXCEPT ![w] = "done"], Dropped' = Dropped
      PROVE  Promised
  <2>1. Placement!FinishEntry(w)
    BY <1>2 DEF Placement!FinishEntry
  <2> QED
    BY <2>1 DEF Promised, Placement!PlacementNext
<1>3. ASSUME SomeUndone, w \notin Present(HomeRows) \cup Dropped, Dropped' = Dropped \cup {w}, HomeRows' = HomeRows
      PROVE  Promised
  <2>1. Placement!AcceptAbandoned(w)
    BY <1>3 DEF Placement!AcceptAbandoned, Placement!Present
  <2> QED
    BY <2>1 DEF Promised, Placement!PlacementNext
<1> QED
  BY <1>1, <1>2, <1>3

\* The changes of home of the abstract placement.
LEMMA AbstractMoves ==
    ASSUME NEW c \in Cells
    PROVE  /\ /\ c # account.cell /\ (\A w \in Writes : HomeRows[w] # "queued")
              /\ account'.cell = c /\ account'.generation = account.generation + 1
              /\ BaseRows' = HomeRows /\ Undoable' = TRUE /\ UNCHANGED <<HomeRows, SomeUndone, Dropped>>
              => Promised
           /\ /\ Undoable /\ c # account.cell
              /\ account'.cell = c /\ account'.generation = account.generation + 1
              /\ HomeRows' = BaseRows /\ Dropped' = Dropped \cup (Present(HomeRows) \ Present(BaseRows))
              /\ Undoable' = FALSE /\ SomeUndone' = TRUE /\ UNCHANGED BaseRows
              => Promised
           /\ /\ Undoable /\ Undoable' = FALSE
              /\ account'.cell = account.cell /\ account'.generation = account.generation
              /\ UNCHANGED <<HomeRows, BaseRows, SomeUndone, Dropped>>
              => Promised
<1> USE DEF HomeRows, Dropped, BaseRows, Undoable, SomeUndone, Present
<1>1. ASSUME c # account.cell, \A w \in Writes : HomeRows[w] # "queued",
             account'.cell = c, account'.generation = account.generation + 1,
             BaseRows' = HomeRows, Undoable' = TRUE, UNCHANGED <<HomeRows, SomeUndone, Dropped>>
      PROVE  Promised
  <2>1. Placement!ChangeHome(c)
    BY <1>1 DEF Placement!ChangeHome
  <2> QED
    BY <2>1 DEF Promised, Placement!PlacementNext
<1>2. ASSUME Undoable, c # account.cell, account'.cell = c, account'.generation = account.generation + 1,
             HomeRows' = BaseRows, Dropped' = Dropped \cup (Present(HomeRows) \ Present(BaseRows)),
             Undoable' = FALSE, SomeUndone' = TRUE, UNCHANGED BaseRows
      PROVE  Promised
  <2>1. Placement!UndoChange(c)
    BY <1>2 DEF Placement!UndoChange, Placement!Present
  <2> QED
    BY <2>1 DEF Promised, Placement!PlacementNext
<1>3. ASSUME Undoable, Undoable' = FALSE, account'.cell = account.cell, account'.generation = account.generation,
             UNCHANGED <<HomeRows, BaseRows, SomeUndone, Dropped>>
      PROVE  Promised
  <2>1. Placement!SettleChange
    BY <1>3 DEF Placement!SettleChange
  <2> QED
    BY <2>1 DEF Promised, Placement!PlacementNext
<1> QED
  BY <1>1, <1>2, <1>3

\* Where the phases of the records stay as they are.
LEMMA PhasesKept ==
    ASSUME Types, History, Fixed,
           \A m \in DOMAIN moves : Phase(m)' = Phase(m) /\ moves'[m].digest = moves[m].digest
    PROVE  UNCHANGED <<BaseRows, Undoable, SomeUndone>>
BY RecordsKept DEF Fixed

\* Where a move advances and no placement changes.
LEMMA AdvanceKept ==
    ASSUME Types, History, NEW m \in DOMAIN moves, NEW from, NEW to, NEW digest, NEW lease,
           Phase(m) = from, Advanced(m, to, digest, lease),
           \/ from \in Unswitched /\ to \in Unswitched
           \/ from = "retiring" /\ to = "completed" /\ digest = moves[m].digest
    PROVE  UNCHANGED <<BaseRows, Undoable, SomeUndone>>
<1>1. /\ Fixed /\ Phase(m)' = to /\ moves'[m].digest = digest
      /\ \A n \in DOMAIN moves : n # m => moves'[n] = moves[n] /\ Phase(n)' = Phase(n)
  BY DEF Advanced
<1>2. ASSUME NEW n \in DOMAIN moves
      PROVE  /\ Phase(n)' \in PlacedStates <=> Phase(n) \in PlacedStates
             /\ Phase(n)' = "switched" <=> Phase(n) = "switched"
             /\ Phase(n)' = "rolled_back" <=> Phase(n) = "rolled_back"
             /\ Phase(n) \in PlacedStates => moves'[n].digest = moves[n].digest
  <2>1. CASE n # m
    BY <1>1, <2>1
  <2>2. CASE n = m
    BY <1>1, <2>2 DEF PlacedStates, Unswitched
  <2> QED
    BY <2>1, <2>2
<1> QED
  BY <1>1, <1>2, RecordsKept DEF Fixed

\* The last placed move is the last move once that is placed, in both states.
LEMMA LastIsPlaced ==
    ASSUME Types, History, Placing, Fixed, NEW m \in DOMAIN moves,
           Phase(m) \notin {"completed", "rolled_back"}
    PROVE  /\ Phase(m) \in PlacedStates => Placed # {} /\ LastPlaced = moves[m]
           /\ Phase(m)' \in PlacedStates => Placed' # {} /\ LastPlaced' = moves'[m]
<1>1. moves \in Seq(Move) /\ moves' \in Seq(Move) /\ DOMAIN moves' = DOMAIN moves
  BY DEF Types, GlobalTypes, Fixed
<1>2. \A n \in DOMAIN moves : n <= m
  <2>1. m = Len(moves)
    BY OpenIsLast
  <2> QED
    BY <1>1, <2>1, Records
<1>3. Phase(m) \in PlacedStates => Placed # {} /\ LastPlaced = moves[m]
  <2> HAVE Phase(m) \in PlacedStates
  <2>1. m \in Placed /\ Placed \subseteq Nat /\ \A n \in Placed : n <= m
    BY <1>1, <1>2, PlacedMoves
  <2>2. Max(Placed) = m
    BY <2>1, LastIs
  <2> QED
    BY <2>1, <2>2 DEF LastPlaced
<1>4. Phase(m)' \in PlacedStates => Placed' # {} /\ LastPlaced' = moves'[m]
  <2> HAVE Phase(m)' \in PlacedStates
  <2>1. m \in Placed' /\ Placed' \subseteq Nat /\ \A n \in Placed' : n <= m
    BY <1>1, <1>2, PlacedMovesNext
  <2>2. Max(Placed') = m
    BY <2>1, LastIs
  <2>3. LastPlaced' = moves'[Max(Placed')]
    BY DEF LastPlaced
  <2> QED
    BY <2>1, <2>2, <2>3
<1> QED
  BY <1>3, <1>4

\* A switch changes the home and keeps every row.
LEMMA SwitchPromised ==
    ASSUME Types, History, Placing, JobsKnow, Staged, FrozenCellsDrained, DigestHolds, NEW j \in Jobs, Switch(j)
    PROVE  Promised
<1>1. PICK m \in DOMAIN moves :
        /\ Works(j, m, "switch", "ready") /\ Advanced(m, "switched", moves[m].digest, NoLease)
        /\ Switchable(m) /\ Place(Source(m), Destination(m), DestinationGeneration(m))
        /\ UNCHANGED <<cellVars, request>>
  BY SwitchDoes
<1>2. /\ Fixed /\ Phase(m) = "ready" /\ Phase(m)' = "switched" /\ moves'[m].digest = moves[m].digest
      /\ moves'[m].state = "switched" /\ UNCHANGED data
      /\ \A n \in DOMAIN moves : n # m => moves'[n] = moves[n]
  BY <1>1 DEF Works, Advanced, cellVars
<1>3. Source(m) \in Cells /\ Destination(m) \in Cells /\ Source(m) # Destination(m)
  BY MoveFacts
<1>4. account.cell = Source(m) /\ account'.cell = Destination(m) /\ account'.generation = account.generation + 1
  <2>1. account'.cell = Destination(m) /\ account'.generation = DestinationGeneration(m)
    BY <1>1 DEF Place, Types, GlobalTypes
  <2> QED
    BY <1>1, <2>1 DEF Switchable, SourceGeneration, DestinationGeneration
<1>5. data[Source(m)] = moves[m].digest /\ data[Destination(m)] = moves[m].digest
  BY <1>2 DEF DigestHolds
<1>6. UNCHANGED <<HomeRows, Dropped>>
  <2>1. data'[account'.cell] = data[account.cell]
    BY <1>2, <1>4, <1>5
  <2>2. Acknowledged' = Acknowledged
    BY <1>1 DEF Acknowledged
  <2> QED
    BY <2>1, <2>2 DEF HomeRows, Dropped
<1>7. \A w \in Writes : HomeRows[w] # "queued"
  <2>1. Unfinished(Source(m)) = {}
    BY <1>2, MovedDrained DEF MovedRowsDrained
  <2> QED
    BY <1>3, <1>4, <2>1 DEF HomeRows, Unfinished
<1>8. Placed' # {} /\ LastPlaced' = moves'[m]
  BY <1>2, LastIsPlaced DEF PlacedStates
<1>9. BaseRows' = HomeRows /\ Undoable' = TRUE
  BY <1>2, <1>4, <1>5, <1>8 DEF BaseRows, Undoable, HomeRows
<1>10. SomeUndone' = SomeUndone
  <2>1. moves[m].state # "rolled_back" /\ moves'[m].state # "rolled_back"
    BY <1>1, <1>2 DEF Works
  <2> QED
    BY <1>2, <2>1 DEF SomeUndone, Fixed
<1> QED
  BY <1>3, <1>4, <1>6, <1>7, <1>9, <1>10, AbstractMoves

\* A rollback returns to the rows that moved, and drops what came after.
LEMMA RollbackPromised ==
    ASSUME Types, History, Placing, JobsKnow, RowsKnown, DigestHolds, NEW j \in Jobs, Rollback(j)
    PROVE  Promised
<1>1. PICK m \in DOMAIN moves :
        /\ Works(j, m, "rollback", "switched") /\ Advanced(m, "rolled_back", moves[m].digest, NoLease)
        /\ Reversible(m) /\ Place(Destination(m), Source(m), RollbackGeneration(m))
        /\ UNCHANGED <<cellVars, request>>
  BY RollbackDoes
<1>2. /\ Fixed /\ Phase(m) = "switched" /\ Phase(m)' = "rolled_back" /\ moves'[m].digest = moves[m].digest
      /\ moves[m].state = "switched" /\ moves'[m].state = "rolled_back" /\ UNCHANGED data
  BY <1>1 DEF Works, Advanced, cellVars
<1>3. Source(m) \in Cells /\ Destination(m) \in Cells /\ Source(m) # Destination(m)
  BY MoveFacts
<1>4. account.cell = Destination(m) /\ account'.cell = Source(m) /\ account'.generation = account.generation + 1
  <2>1. account'.cell = Source(m) /\ account'.generation = RollbackGeneration(m)
    BY <1>1 DEF Place, Types, GlobalTypes
  <2>2. PICK g \in Nat : g = moves[m].generation
    BY MoveFacts
  <2>3. account.cell = Destination(m) /\ account.generation = g + 1
    BY <1>1, <2>2 DEF Reversible, DestinationGeneration
  <2>4. account'.generation = g + 2
    BY <2>1, <2>2 DEF RollbackGeneration
  <2> QED
    BY <2>1, <2>2, <2>3, <2>4
<1>5. Placed # {} /\ LastPlaced = moves[m] /\ Placed' # {} /\ LastPlaced' = moves'[m]
  BY <1>2, LastIsPlaced DEF PlacedStates
<1>6. BaseRows = moves[m].digest /\ BaseRows' = BaseRows
  BY <1>2, <1>5 DEF BaseRows
<1>7. Undoable /\ Undoable' = FALSE
  BY <1>2, <1>5 DEF Undoable
<1>8. SomeUndone' = TRUE
  BY <1>2 DEF SomeUndone, Fixed
<1>9. HomeRows = data[Destination(m)] /\ HomeRows' = BaseRows
  BY <1>2, <1>4, <1>6 DEF HomeRows, DigestHolds
<1>10. Present(BaseRows) \subseteq Present(HomeRows) /\ Present(HomeRows) \subseteq Acknowledged
  BY <1>2, <1>3, <1>6, <1>9 DEF DigestHolds, RowsKnown
<1>11. Dropped' = Dropped \cup (Present(HomeRows) \ Present(BaseRows))
  <2>1. Acknowledged' = Acknowledged /\ Acknowledged \subseteq Writes
    BY <1>1 DEF Acknowledged
  <2>2. Dropped = Acknowledged \ Present(HomeRows)
    BY <2>1 DEF Dropped, HomeRows, Present
  <2>3. Dropped' = {w \in Acknowledged' : HomeRows'[w] = "absent"}
    BY DEF Dropped, HomeRows
  <2>4. Dropped' = Acknowledged \ Present(BaseRows)
    BY <1>9, <2>1, <2>3 DEF Present
  <2> QED
    BY <1>10, <2>2, <2>4
<1> QED
  BY <1>3, <1>4, <1>6, <1>7, <1>8, <1>9, <1>11, AbstractMoves

\* Beginning to retire the source settles the move.
LEMMA RetirementPromised ==
    ASSUME Types, History, Placing, JobsKnow, NEW j \in Jobs, BeginRetirement(j)
    PROVE  Promised
<1>1. PICK m \in DOMAIN moves :
        /\ Works(j, m, "begin_retirement", "switched") /\ Advanced(m, "retiring", moves[m].digest, j)
        /\ UNCHANGED <<account, cellVars, request>>
  BY BeginRetirementDoes
<1>2. /\ Fixed /\ Phase(m) = "switched" /\ Phase(m)' = "retiring" /\ moves'[m].digest = moves[m].digest
      /\ moves[m].state = "switched" /\ moves'[m].state = "retiring" /\ UNCHANGED data
      /\ \A n \in DOMAIN moves : n # m => moves'[n] = moves[n]
  BY <1>1 DEF Works, Advanced, cellVars
<1>3. Placed # {} /\ LastPlaced = moves[m] /\ Placed' # {} /\ LastPlaced' = moves'[m]
  BY <1>2, LastIsPlaced DEF PlacedStates
<1>4. UNCHANGED BaseRows /\ Undoable /\ Undoable' = FALSE
  BY <1>2, <1>3 DEF BaseRows, Undoable
<1>5. SomeUndone' = SomeUndone
  BY <1>2 DEF SomeUndone, Fixed
<1>6. UNCHANGED <<HomeRows, Dropped>>
  BY <1>1, <1>2 DEF HomeRows, Dropped, Acknowledged
<1>7. account.cell \in Cells
  BY RowFields
<1> QED
  BY <1>1, <1>4, <1>5, <1>6, <1>7, AbstractMoves

\* A row written at home is a write of the Account; elsewhere it is given up.
LEMMA RowPromised ==
    ASSUME Types, History, RowsKnown, OneWritableCell,
           NEW c \in Cells, NEW w \in Writes, NEW v \in {"queued", "done"}, RowWritten(c, w, v)
    PROVE  Promised
<1>1. /\ UNCHANGED <<account, moves>> /\ namespace[c].state = "active" /\ account.cell \in Cells
      /\ data'[c] = [data[c] EXCEPT ![w] = v] /\ \A d \in Cells : d # c => data'[d] = data[d]
  BY RowFields DEF RowWritten, Types, CellTypes, globalVars
<1>2. Unplaced
  <2>1. Fixed /\ \A m \in DOMAIN moves : Phase(m)' = Phase(m) /\ moves'[m].digest = moves[m].digest
    BY <1>1 DEF Fixed, Phase, Types, GlobalTypes
  <2> QED
    BY <1>1, <2>1, PhasesKept DEF Unplaced
<1>3. Acknowledged \subseteq Writes /\ Present(HomeRows) \subseteq Acknowledged /\ HomeRows \in Rows
  BY <1>1, RowFields DEF Acknowledged, HomeRows, RowsKnown
<1>4. Dropped = Acknowledged \ Present(HomeRows)
  BY <1>3 DEF Dropped, HomeRows, Present
<1>5. Dropped' = {x \in Acknowledged' : HomeRows'[x] = "absent"}
  BY DEF Dropped, HomeRows
<1>6. CASE c = account.cell
  <2>1. HomeRows' = [HomeRows EXCEPT ![w] = v]
    BY <1>1, <1>6 DEF HomeRows
  <2>2. \A x \in Writes : HomeRows'[x] = IF x = w THEN v ELSE HomeRows[x]
    BY <1>3, <2>1 DEF Rows
  <2>3. CASE w \notin Acknowledged /\ Acknowledged' = Acknowledged \cup {w} /\ v = IF w \in QueuedWrites THEN "queued" ELSE "done"
    <3>1. Dropped' = Dropped
      BY <1>3, <1>4, <1>5, <2>2, <2>3 DEF Present
    <3>2. w \notin Present(HomeRows) \cup Dropped
      BY <1>3, <1>4, <2>3
    <3> QED
      BY <1>2, <2>1, <2>3, <3>1, <3>2, AbstractWrites
  <2>4. CASE Acknowledged' = Acknowledged /\ data[c][w] = "queued" /\ v = "done"
    <3>1. HomeRows[w] = "queued"
      BY <1>6, <2>4 DEF HomeRows
    <3>2. Dropped' = Dropped
      BY <1>3, <1>4, <1>5, <2>2, <2>4, <3>1 DEF Present
    <3> QED
      BY <1>2, <2>1, <2>4, <3>1, <3>2, AbstractWrites
  <2> QED
    BY <2>3, <2>4 DEF RowWritten
<1>7. CASE c # account.cell
  <2>1. HomeRows' = HomeRows /\ data'[account.cell] = data[account.cell]
    BY <1>1, <1>7 DEF HomeRows
  <2>2. CASE w \notin Acknowledged /\ Acknowledged' = Acknowledged \cup {w}
    <3>1. SomeUndone
      BY <1>1, <1>7 DEF OneWritableCell, SomeUndone
    <3>2. w \notin Present(HomeRows) \cup Dropped /\ HomeRows[w] = "absent"
      BY <1>3, <1>4, <2>2 DEF Present
    <3>3. Dropped' = Dropped \cup {w}
      BY <1>3, <1>4, <1>5, <2>1, <2>2, <3>2 DEF Present
    <3> QED
      BY <1>2, <2>1, <3>1, <3>2, <3>3, AbstractWrites
  <2>3. CASE Acknowledged' = Acknowledged
    BY <1>2, <2>1, <2>3, PlacementStutters
  <2> QED
    BY <2>2, <2>3 DEF RowWritten
<1> QED
  BY <1>6, <1>7

\* Every step of a move is a step of the abstract placement, or none.
LEMMA NextPromised ==
    ASSUME OneJobAtATime, Types, History, Placing, JobsKnow, Staged, OneWritableCell, RowsKnown, FrozenCellsDrained, DigestHolds, Next
    PROVE  Promised
<1>1. CASE Routes
  <2>1. UNCHANGED <<moves, data>> /\ account'.cell = account.cell /\ account'.generation = account.generation
    BY <1>1 DEF Routes, cellVars, globalVars
  <2>2. Acknowledged' = Acknowledged
    BY <1>1 DEF Routes
  <2>3. Fixed /\ \A m \in DOMAIN moves : Phase(m)' = Phase(m) /\ moves'[m].digest = moves[m].digest
    BY <2>1 DEF Fixed, Phase, Types, GlobalTypes
  <2>4. Unplaced
    BY <2>1, <2>3, PhasesKept DEF Unplaced
  <2> QED
    BY <2>1, <2>2, <2>4, PlacementStutters
<1>2. ASSUME NEW c \in Cells, NEW w \in Writes, NEW v \in {"queued", "done"}, RowWritten(c, w, v) PROVE Promised
  BY <1>2, RowPromised
<1>3. CASE ChangeAccountState
  <2>1. UNCHANGED <<moves, data>> /\ account'.cell = account.cell /\ account'.generation = account.generation
    BY <1>3 DEF ChangeAccountState, cellVars, Types, GlobalTypes
  <2>2. Acknowledged' = Acknowledged
    BY <1>3 DEF ChangeAccountState, Acknowledged
  <2>3. Fixed /\ \A m \in DOMAIN moves : Phase(m)' = Phase(m) /\ moves'[m].digest = moves[m].digest
    BY <2>1 DEF Fixed, Phase, Types, GlobalTypes
  <2>4. Unplaced
    BY <2>1, <2>3, PhasesKept DEF Unplaced
  <2> QED
    BY <2>1, <2>2, <2>4, PlacementStutters
<1>4. ASSUME NEW c \in Cells, Prepare(c) PROVE Promised
  <2>1. PICK N \in Nat : N = Len(moves) + 1
    BY Records DEF Types, GlobalTypes
  <2>2. /\ moves'[N] = PreparedRecord(c) /\ moves' \in Seq(Move)
        /\ \A n \in DOMAIN moves : n \in DOMAIN moves' /\ moves'[n] = moves[n]
        /\ \A n \in DOMAIN moves' : n = N \/ n \in DOMAIN moves
        /\ UNCHANGED <<account, data, request>>
    BY <1>4, <2>1, PrepareDoes DEF cellVars
  <2>3. Phase(N)' = "prepared" /\ \A n \in DOMAIN moves : Phase(n)' = Phase(n) /\ moves'[n].digest = moves[n].digest
    BY <2>2 DEF Phase, PreparedRecord
  <2>4. \A n \in DOMAIN moves' : n \notin DOMAIN moves => Phase(n)' \notin PlacedStates
    BY <2>2, <2>3 DEF PlacedStates
  <2>5. UNCHANGED <<BaseRows, Undoable, SomeUndone>>
    BY <2>2, <2>3, <2>4, RecordsKept
  <2>6. Acknowledged' = Acknowledged
    BY <2>2 DEF Acknowledged
  <2> QED
    BY <2>2, <2>5, <2>6, PlacementStutters DEF Unplaced
<1>5. CASE Quiet
  <2>1. Relabeled /\ UNCHANGED <<account, data>> /\ Acknowledged' = Acknowledged
    BY <1>5 DEF Quiet, cellVars, Acknowledged
  <2>2. UNCHANGED <<BaseRows, Undoable, SomeUndone>>
    BY <2>1, PhasesKept DEF Relabeled
  <2> QED
    BY <2>1, <2>2, PlacementStutters DEF Unplaced
<1>6. ASSUME NEW j \in Jobs, StageSource(j) PROVE Promised
  <2>1. UNCHANGED <<moves, data>> /\ account'.cell = account.cell /\ account'.generation = account.generation
    BY <1>6 DEF StageSource, cellVars, globalVars
  <2>2. Acknowledged' = Acknowledged
    BY <1>6 DEF StageSource, Acknowledged
  <2>3. Fixed /\ \A m \in DOMAIN moves : Phase(m)' = Phase(m) /\ moves'[m].digest = moves[m].digest
    BY <2>1 DEF Fixed, Phase, Types, GlobalTypes
  <2>4. Unplaced
    BY <2>1, <2>3, PhasesKept DEF Unplaced
  <2> QED
    BY <2>1, <2>2, <2>4, PlacementStutters
<1>7. ASSUME NEW j \in Jobs, StageDestination(j) PROVE Promised
  <2>1. UNCHANGED <<moves, data>> /\ account'.cell = account.cell /\ account'.generation = account.generation
    BY <1>7 DEF StageDestination, cellVars, globalVars
  <2>2. Acknowledged' = Acknowledged
    BY <1>7 DEF StageDestination, Acknowledged
  <2>3. Fixed /\ \A m \in DOMAIN moves : Phase(m)' = Phase(m) /\ moves'[m].digest = moves[m].digest
    BY <2>1 DEF Fixed, Phase, Types, GlobalTypes
  <2>4. Unplaced
    BY <2>1, <2>3, PhasesKept DEF Unplaced
  <2> QED
    BY <2>1, <2>2, <2>4, PlacementStutters
<1>8. ASSUME NEW j \in Jobs, Drain(j) PROVE Promised
  <2>1. PICK m \in DOMAIN moves :
           /\ Phase(m) = "prepared" /\ Advanced(m, "drained", moves[m].digest, NoLease)
           /\ UNCHANGED <<account, data, request>>
    BY <1>8, DrainDoes DEF Works, cellVars
  <2>2. UNCHANGED <<BaseRows, Undoable, SomeUndone>>
    BY <2>1, AdvanceKept DEF Unswitched
  <2>3. Acknowledged' = Acknowledged
    BY <2>1 DEF Acknowledged
  <2> QED
    BY <2>1, <2>2, <2>3, PlacementStutters DEF Unplaced
<1>9. ASSUME NEW j \in Jobs, ReadSource(j) PROVE Promised
  <2>1. UNCHANGED <<moves, data>> /\ account'.cell = account.cell /\ account'.generation = account.generation
    BY <1>9 DEF ReadSource, cellVars, globalVars
  <2>2. Acknowledged' = Acknowledged
    BY <1>9 DEF ReadSource, Acknowledged
  <2>3. Fixed /\ \A m \in DOMAIN moves : Phase(m)' = Phase(m) /\ moves'[m].digest = moves[m].digest
    BY <2>1 DEF Fixed, Phase, Types, GlobalTypes
  <2>4. Unplaced
    BY <2>1, <2>3, PhasesKept DEF Unplaced
  <2> QED
    BY <2>1, <2>2, <2>4, PlacementStutters
<1>10. ASSUME NEW j \in Jobs, WriteDestination(j) PROVE Promised
  <2>1. PICK m \in DOMAIN moves :
           /\ Phase(m) = "drained" /\ UNCHANGED <<account, moves, request>>
           /\ data' = [data EXCEPT ![Destination(m)] = job[j].seen]
    BY <1>10, WriteDestinationDoes DEF Works, globalVars
  <2>2. account.cell = Source(m) /\ Source(m) \in Cells /\ Destination(m) \in Cells /\ Source(m) # Destination(m)
    BY <2>1, OpenIsLast, MoveFacts DEF Left
  <2>3. data'[account.cell] = data[account.cell]
    BY <2>1, <2>2 DEF Types, CellTypes
  <2>4. Fixed /\ \A n \in DOMAIN moves : Phase(n)' = Phase(n) /\ moves'[n].digest = moves[n].digest
    BY <2>1 DEF Fixed, Phase, Types, GlobalTypes
  <2>5. Unplaced
    BY <2>1, <2>4, PhasesKept DEF Unplaced
  <2>6. Acknowledged' = Acknowledged
    BY <2>1 DEF Acknowledged
  <2> QED
    BY <2>3, <2>5, <2>6, PlacementStutters
<1>11. ASSUME NEW j \in Jobs, CompareCopy(j) PROVE Promised
  <2>1. UNCHANGED <<moves, data>> /\ account'.cell = account.cell /\ account'.generation = account.generation
    BY <1>11 DEF CompareCopy, cellVars, globalVars
  <2>2. Acknowledged' = Acknowledged
    BY <1>11 DEF CompareCopy, Acknowledged
  <2>3. Fixed /\ \A m \in DOMAIN moves : Phase(m)' = Phase(m) /\ moves'[m].digest = moves[m].digest
    BY <2>1 DEF Fixed, Phase, Types, GlobalTypes
  <2>4. Unplaced
    BY <2>1, <2>3, PhasesKept DEF Unplaced
  <2> QED
    BY <2>1, <2>2, <2>4, PlacementStutters
<1>12. ASSUME NEW j \in Jobs, RecordEvidence(j) PROVE Promised
  <2>1. UNCHANGED <<moves, data>> /\ account'.cell = account.cell /\ account'.generation = account.generation
    BY <1>12 DEF RecordEvidence, cellVars, globalVars
  <2>2. Acknowledged' = Acknowledged
    BY <1>12 DEF RecordEvidence, Acknowledged
  <2>3. Fixed /\ \A m \in DOMAIN moves : Phase(m)' = Phase(m) /\ moves'[m].digest = moves[m].digest
    BY <2>1 DEF Fixed, Phase, Types, GlobalTypes
  <2>4. Unplaced
    BY <2>1, <2>3, PhasesKept DEF Unplaced
  <2> QED
    BY <2>1, <2>2, <2>4, PlacementStutters
<1>13. ASSUME NEW j \in Jobs, AdvanceCopied(j) PROVE Promised
  <2>1. PICK m \in DOMAIN moves :
           /\ Phase(m) = "drained" /\ Advanced(m, "copied", job[j].seen, NoLease)
           /\ UNCHANGED <<account, data, request>>
    BY <1>13, AdvanceCopiedDoes DEF Works, cellVars
  <2>2. UNCHANGED <<BaseRows, Undoable, SomeUndone>>
    BY <2>1, AdvanceKept DEF Unswitched
  <2>3. Acknowledged' = Acknowledged
    BY <2>1 DEF Acknowledged
  <2> QED
    BY <2>1, <2>2, <2>3, PlacementStutters DEF Unplaced
<1>14. ASSUME NEW j \in Jobs, AdvanceReady(j) PROVE Promised
  <2>1. PICK m \in DOMAIN moves :
           /\ Phase(m) = "copied" /\ Advanced(m, "ready", moves[m].digest, NoLease)
           /\ UNCHANGED <<account, data, request>>
    BY <1>14, AdvanceReadyDoes DEF Works, cellVars
  <2>2. UNCHANGED <<BaseRows, Undoable, SomeUndone>>
    BY <2>1, AdvanceKept DEF Unswitched
  <2>3. Acknowledged' = Acknowledged
    BY <2>1 DEF Acknowledged
  <2> QED
    BY <2>1, <2>2, <2>3, PlacementStutters DEF Unplaced
<1>15. ASSUME NEW j \in Jobs, Switch(j) PROVE Promised
  BY <1>15, SwitchPromised
<1>16. ASSUME NEW j \in Jobs, ActivateDestination(j) PROVE Promised
  <2>1. UNCHANGED <<moves, data>> /\ account'.cell = account.cell /\ account'.generation = account.generation
    BY <1>16 DEF ActivateDestination, cellVars, globalVars
  <2>2. Acknowledged' = Acknowledged
    BY <1>16 DEF ActivateDestination, Acknowledged
  <2>3. Fixed /\ \A m \in DOMAIN moves : Phase(m)' = Phase(m) /\ moves'[m].digest = moves[m].digest
    BY <2>1 DEF Fixed, Phase, Types, GlobalTypes
  <2>4. Unplaced
    BY <2>1, <2>3, PhasesKept DEF Unplaced
  <2> QED
    BY <2>1, <2>2, <2>4, PlacementStutters
<1>17. ASSUME NEW j \in Jobs, Rollback(j) PROVE Promised
  BY <1>17, RollbackPromised
<1>18. ASSUME NEW j \in Jobs, ActivateSource(j) PROVE Promised
  <2>1. UNCHANGED <<moves, data>> /\ account'.cell = account.cell /\ account'.generation = account.generation
    BY <1>18 DEF ActivateSource, cellVars, globalVars
  <2>2. Acknowledged' = Acknowledged
    BY <1>18 DEF ActivateSource, Acknowledged
  <2>3. Fixed /\ \A m \in DOMAIN moves : Phase(m)' = Phase(m) /\ moves'[m].digest = moves[m].digest
    BY <2>1 DEF Fixed, Phase, Types, GlobalTypes
  <2>4. Unplaced
    BY <2>1, <2>3, PhasesKept DEF Unplaced
  <2> QED
    BY <2>1, <2>2, <2>4, PlacementStutters
<1>19. ASSUME NEW j \in Jobs, FreezeDestination(j) PROVE Promised
  <2>1. UNCHANGED <<moves, data>> /\ account'.cell = account.cell /\ account'.generation = account.generation
    BY <1>19 DEF FreezeDestination, cellVars, globalVars
  <2>2. Acknowledged' = Acknowledged
    BY <1>19 DEF FreezeDestination, Acknowledged
  <2>3. Fixed /\ \A m \in DOMAIN moves : Phase(m)' = Phase(m) /\ moves'[m].digest = moves[m].digest
    BY <2>1 DEF Fixed, Phase, Types, GlobalTypes
  <2>4. Unplaced
    BY <2>1, <2>3, PhasesKept DEF Unplaced
  <2> QED
    BY <2>1, <2>2, <2>4, PlacementStutters
<1>20. ASSUME NEW j \in Jobs, BeginRetirement(j) PROVE Promised
  BY <1>20, RetirementPromised
<1>21. ASSUME NEW j \in Jobs, RetireSource(j) PROVE Promised
  <2>1. PICK m \in DOMAIN moves :
           /\ Phase(m) = "retiring" /\ UNCHANGED <<account, moves, request>>
           /\ UNCHANGED data \/ data' = [data EXCEPT ![Source(m)] = NoRows]
    BY <1>21, RetireSourceDoes DEF Works, globalVars, cellVars
  <2>2. account.cell = Destination(m) /\ Source(m) \in Cells /\ Destination(m) \in Cells /\ Source(m) # Destination(m)
    BY <2>1, OpenIsLast, MoveFacts DEF Left
  <2>3. data'[account.cell] = data[account.cell]
    BY <2>1, <2>2 DEF Types, CellTypes
  <2>4. Fixed /\ \A n \in DOMAIN moves : Phase(n)' = Phase(n) /\ moves'[n].digest = moves[n].digest
    BY <2>1 DEF Fixed, Phase, Types, GlobalTypes
  <2>5. Unplaced
    BY <2>1, <2>4, PhasesKept DEF Unplaced
  <2>6. Acknowledged' = Acknowledged
    BY <2>1 DEF Acknowledged
  <2> QED
    BY <2>3, <2>5, <2>6, PlacementStutters
<1>22. ASSUME NEW j \in Jobs, Complete(j) PROVE Promised
  <2>1. PICK m \in DOMAIN moves :
           /\ Phase(m) = "retiring" /\ Advanced(m, "completed", moves[m].digest, NoLease)
           /\ UNCHANGED <<account, data, request>>
    BY <1>22, CompleteDoes DEF Works, cellVars
  <2>2. UNCHANGED <<BaseRows, Undoable, SomeUndone>>
    BY <2>1, AdvanceKept DEF Unswitched
  <2>3. Acknowledged' = Acknowledged
    BY <2>1 DEF Acknowledged
  <2> QED
    BY <2>1, <2>2, <2>3, PlacementStutters DEF Unplaced
<1> QED
  BY NextSplit, <1>1, <1>2, <1>3, <1>4, <1>5, <1>6, <1>7, <1>8, <1>9, <1>10, <1>11, <1>12, <1>13, <1>14,
     <1>15, <1>16, <1>17, <1>18, <1>19, <1>20, <1>21, <1>22

\* Moving an Account, its leases, copies, checkpoints, interrupted jobs and lost
\* calls included, implements the abstract placement: a switch keeps every row, a
\* rollback returns exactly the rows that moved, and only what an abandoned
\* destination accepted is ever dropped.
THEOREM MovementImplementsPlacement == ASSUME OneJobAtATime PROVE Spec => ImplementsPlacement
<1>1. Init => Placement!PlacementInit
  <2> SUFFICES ASSUME Init PROVE Placement!PlacementInit
    OBVIOUS
  <2>1. PICK home \in Cells :
          /\ account = [cell |-> home, generation |-> 1, version |-> 1, state |-> "active"]
          /\ moves = << >> /\ data = [c \in Cells |-> NoRows] /\ request = [w \in Writes |-> NewRequest]
    BY DEF Init
  <2>2. DOMAIN moves = {}
    BY <2>1
  <2>3. Placed = {}
    BY <2>2 DEF Placed
  <2>4. data[account.cell] = NoRows /\ account.cell \in Cells /\ account.generation = 1
    BY <2>1
  <2>5. Acknowledged = {}
    BY <2>1 DEF Acknowledged, NewRequest
  <2> QED
    BY <2>2, <2>3, <2>4, <2>5 DEF Placement!PlacementInit, Placement!NoRows, NoRows
<1>2. MovementInvariant /\ [Next]_vars => [Placement!PlacementNext]_(Placement!placementVars)
  <2> SUFFICES ASSUME MovementInvariant, [Next]_vars PROVE Promised
    BY DEF Promised
  <2>1. CASE Next
    BY <2>1, NextPromised DEF MovementInvariant, Placements, RowsHold
  <2>2. CASE UNCHANGED vars
    <3>1. UNCHANGED Placement!placementVars
      BY <2>2 DEF vars, Placement!placementVars, Placed, LastPlaced, Acknowledged, NoRows
    <3> QED
      BY <3>1 DEF Promised
  <2> QED
    BY <2>1, <2>2
<1> QED
  BY <1>1, <1>2, InductiveMovement, PTL DEF Spec, ImplementsPlacement, Placement!PlacementSpec

===============================================================================
