-------------------------- MODULE WorkCapacityProofs --------------------------
(***************************************************************************)
(* Proofs about Work items and their capacity, for any keys, callers,      *)
(* reconcilers and limits: active Work is counted, releases are neither    *)
(* forgotten nor premature, and their jobs are fenced.                     *)
(***************************************************************************)
EXTENDS WorkCapacity, TLAPS

-------------------------------------------------------------------------------
(***************************************************************************)
(* The inductive invariant                                                 *)
(***************************************************************************)

\* A reconciler that has claimed a job.
Busy(w) == worker[w].pc # "idle"

\* What a call carries: the row it will write, one version later than the
\* one it read, and, under a key, exactly what the key is used for.
Carries(c) ==
    LET call == caller[c] IN
    /\ call.pc = "idle" => call.key = "none" /\ ~call.created
    /\ call.pc # "idle" => call.row.state # "absent" /\ call.row.version = call.version + 1
    /\ call.pc \in {"reserve", "load", "insert", "compensate"} => call.key \in Keys
    /\ call.pc = "compensate" => call.created
    /\ call.created => call.key \in Keys
    /\ call.key \in Keys =>
          /\ intent[call.key].op # "none"
          /\ intent[call.key].item = call.target /\ intent[call.key].version = call.version
          /\ call.row.state = "open" /\ call.row.reservation = call.key /\ ~call.row.released
          /\ call.pc # "reserve" => reservation[call.key] # "absent"

Calls == \A c \in Callers : Carries(c)

\* Key r has reserved for item i, and the write it reserved for is past.
Owns(i, r) ==
    /\ intent[r].op # "none" /\ intent[r].item = i
    /\ item[i].version > intent[r].version
    /\ reservation[r] # "absent"

\* A reservation appears on an item, in a job or with a reconciler only once
\* the command that asked for it has written its item.
Ownership ==
    /\ \A i \in Keys : item[i].state # "absent" => Owns(i, item[i].reservation)
    /\ \A i, r \in Keys : job[<<i, r>>].state # "absent" => Owns(i, r)
    /\ \A w \in Workers : Busy(w) => Owns(worker[w].item, worker[w].reservation)

\* A copy is no newer than its item.  One that still has its version differs
\* from it only by the command: it keeps the reservation, closes only active
\* Work and claims no release that the row does not show.
Faithful(c) ==
    LET call == caller[c]
        old == item[call.target]
    IN  call.pc = "update" /\ call.key = "none" =>
        /\ old.version >= call.version
        /\ old.version = call.version =>
              /\ old.state # "absent" /\ call.row.reservation = old.reservation
              /\ call.row.state = old.state \/ old.state \in ActiveStates
              /\ call.row.released => old.released /\ call.row.state = old.state

Copies == \A c \in Callers : Faithful(c)

\* The capacity of active Work is nowhere on its way to be released.
NotReleasing ==
    \A i \in Active :
        /\ job[<<i, item[i].reservation>>].state = "absent"
        /\ \A w \in Workers : Busy(w) => <<worker[w].item, worker[w].reservation>> # <<i, item[i].reservation>>

\* What is recorded as released has been released.
Tracked ==
    /\ ReleasesTracked
    /\ \A i, r \in Keys : job[<<i, r>>].state = "completed" => reservation[r] = "released"
    /\ \A w \in Workers : worker[w].pc = "complete" => reservation[worker[w].reservation] = "released"

\* Nothing refers to the reservation of key k.
Unused(k) ==
    /\ \A i \in Keys : /\ item[i].state # "absent" => item[i].reservation # k
                       /\ job[<<i, k>>].state = "absent"
    /\ \A w \in Workers : Busy(w) => worker[w].reservation # k

\* The calls under a key exclude each other.
ExclusiveKeys == \A c, d \in Callers : caller[c].key \in Keys /\ caller[c].key = caller[d].key => c = d

\* A call that may compensate is the only user of its reservation.
Compensable == \A c \in Callers : caller[c].created => Unused(caller[c].key)

\* A call that may still write its row holds its reservation.
Holding ==
    \A c \in Callers :
        /\ caller[c].key \in Keys /\ caller[c].pc \in {"load", "insert", "update"}
        /\ item[caller[c].target].version <= caller[c].version
        => reservation[caller[c].key] = "active"

\* All this, and that active Work is counted, while nobody repeats a command
\* that is still running.
Counted == ~DuplicateCalls => ActiveWorkCounted /\ ExclusiveKeys /\ Compensable /\ Holding

IInv == TypeOK /\ Calls /\ Ownership /\ Copies /\ NotReleasing /\ Tracked /\ Counted

-------------------------------------------------------------------------------
(***************************************************************************)
(* What the steps do                                                       *)
(***************************************************************************)

\* The fields of the rows and of what the processes carry.
LEMMA Fields ==
    ASSUME TypeOK
    PROVE  /\ \A i \in Keys : /\ item[i].version \in Nat /\ item[i].reservation \in Keys /\ item[i].released \in BOOLEAN
                              /\ item[i].state \in ActiveStates \cup TerminalStates \cup {"absent"}
                              /\ item[i].state = "absent" <=> item[i].version = 0
           /\ \A c \in Callers : /\ caller[c].key \in Keys \cup {"none"} /\ caller[c].target \in Keys
                                 /\ caller[c].row \in Item /\ caller[c].version \in Nat /\ caller[c].created \in BOOLEAN
                                 /\ caller[c].row.state \in ActiveStates \cup TerminalStates \cup {"absent"}
                                 /\ caller[c].row.reservation \in Keys /\ caller[c].row.released \in BOOLEAN
                                 /\ caller[c].pc \in {"idle", "reserve", "load", "insert", "update", "compensate"}
           /\ \A w \in Workers : /\ worker[w].item \in Keys /\ worker[w].reservation \in Keys /\ worker[w].attempt \in Nat
                                 /\ worker[w].pc \in {"idle", "release", "complete", "fail"}
           /\ \A k \in Keys : intent[k].item \in Keys /\ intent[k].version \in Nat
<1>1. \A i \in Keys : item[i] \in Item
  BY DEF TypeOK
<1>2. \A c \in Callers : caller[c] \in Caller
  BY DEF TypeOK
<1>3. \A w \in Workers : worker[w] \in Worker
  BY DEF TypeOK
<1>4. \A k \in Keys : intent[k] \in Intent
  BY DEF TypeOK
<1>5. \A r \in Item : /\ r.version \in Nat /\ r.reservation \in Keys /\ r.released \in BOOLEAN
                      /\ r.state \in ActiveStates \cup TerminalStates \cup {"absent"}
  BY DEF Item
<1>6. \A i \in Keys : item[i].state = "absent" <=> item[i].version = 0
  BY DEF TypeOK
<1>7. \A c \in Callers : /\ caller[c].key \in Keys \cup {"none"} /\ caller[c].target \in Keys
                         /\ caller[c].row \in Item /\ caller[c].version \in Nat /\ caller[c].created \in BOOLEAN
                         /\ caller[c].pc \in {"idle", "reserve", "load", "insert", "update", "compensate"}
  BY <1>2 DEF Caller
<1>8. \A w \in Workers : /\ worker[w].item \in Keys /\ worker[w].reservation \in Keys /\ worker[w].attempt \in Nat
                         /\ worker[w].pc \in {"idle", "release", "complete", "fail"}
  BY <1>3 DEF Worker
<1>9. \A k \in Keys : intent[k].item \in Keys /\ intent[k].version \in Nat
  BY <1>4 DEF Intent
<1> QED
  BY <1>1, <1>5, <1>6, <1>7, <1>8, <1>9

\* What is not there has a value of its type.
LEMMA Defaults ==
    /\ AnyKey \in Keys /\ AnyDraft \in Drafts /\ NoItem \in Item /\ NoJob \in Job
    /\ NoIntent \in Intent /\ IdleCaller \in Caller /\ IdleWorker \in Worker
<1>1. AnyKey \in Keys /\ AnyDraft \in Drafts
  BY ConstantsAssumption DEF AnyKey, AnyDraft
<1>2. NoItem \in Item
  BY <1>1 DEF NoItem, Item
<1>3. NoJob \in Job
  BY DEF NoJob, Job
<1>4. NoIntent \in Intent
  BY <1>1 DEF NoIntent, Intent
<1>5. IdleCaller \in Caller
  BY <1>1, <1>2 DEF IdleCaller, Caller
<1>6. IdleWorker \in Worker
  BY <1>1 DEF IdleWorker, Worker
<1> QED
  BY <1>1, <1>2, <1>3, <1>4, <1>5, <1>6

\* Only caller c has moved.
OnlyCaller(c) == caller' \in [Callers -> Caller] /\ \A d \in Callers \ {c} : caller'[d] = caller[d]
OnlyWorker(w) == worker' \in [Workers -> Worker] /\ \A v \in Workers \ {w} : worker'[v] = worker[v]

\* A call under a key begins, a create or a reopening.
BeginsKeyed(c, k) ==
    /\ caller[c].pc = "idle" /\ MayCall(k) /\ OnlyCaller(c)
    /\ UNCHANGED <<reservation, item, job, worker>>
    /\ intent' \in [Keys -> Intent] /\ intent'[k].op # "none"
    /\ intent[k].op # "none" => intent'[k] = intent[k]
    /\ \A l \in Keys \ {k} : intent'[l] = intent[l]
    /\ LET call == caller'[c] IN
       /\ call.pc = "reserve" /\ call.key = k /\ ~call.created
       /\ call.target = intent'[k].item /\ call.version = intent'[k].version
       /\ call.row.version = call.version + 1 /\ call.row.state = "open"
       /\ call.row.reservation = k /\ ~call.row.released

\* A call without a key begins: it copies the item it is to change.
BeginsCopy(c) ==
    /\ caller[c].pc = "idle" /\ OnlyCaller(c)
    /\ UNCHANGED <<reservation, item, job, worker, intent>>
    /\ LET call == caller'[c]
           old == item[call.target]
       IN
       /\ call.pc = "update" /\ call.key = "none" /\ ~call.created
       /\ call.version = old.version /\ call.row.version = call.version + 1
       /\ old.state # "absent" /\ call.row.state # "absent"
       /\ call.row.reservation = old.reservation /\ call.row.released = old.released
       /\ call.row.state = old.state \/ old.state \in ActiveStates

\* A call has its reservation and goes on.
Proceeds(c) ==
    LET k == caller[c].key IN
    /\ caller[c].pc = "reserve" /\ OnlyCaller(c)
    /\ reservation[k] \in {"absent", "active"} /\ reservation' = [reservation EXCEPT ![k] = "active"]
    /\ caller'[c].pc \in {"load", "update"}
    /\ caller'[c].created => reservation[k] = "absent"
    /\ caller'[c].key = k /\ caller'[c].target = caller[c].target
    /\ caller'[c].row = caller[c].row /\ caller'[c].version = caller[c].version
    /\ UNCHANGED <<item, job, worker, intent>>

\* A call ends, goes on to its insert or has something to compensate.
Moves(c) ==
    /\ caller[c].pc # "idle" /\ OnlyCaller(c)
    /\ \/ caller'[c] = IdleCaller
       \/ /\ caller'[c].key = caller[c].key /\ caller'[c].target = caller[c].target
          /\ caller'[c].row = caller[c].row /\ caller'[c].version = caller[c].version
          /\ caller'[c].created = caller[c].created
          /\ \/ caller'[c].pc = "insert" /\ caller[c].pc = "load"
             \/ caller'[c].pc = "compensate" /\ caller[c].created /\ caller[c].pc \in {"load", "insert", "update"}
    /\ UNCHANGED <<reservation, item, job, worker, intent>>

\* A call writes its row, over the version it read or over nothing.
Writes(c) ==
    /\ caller[c].pc \in {"insert", "update"}
    /\ item[caller[c].target].version <= caller[c].version
    /\ caller[c].pc = "update" => item[caller[c].target].version = caller[c].version
    /\ item' = [item EXCEPT ![caller[c].target] = caller[c].row]
    /\ job' = Enqueue(caller[c].target, caller[c].row)
    /\ caller' = [caller EXCEPT ![c] = IdleCaller]
    /\ UNCHANGED <<reservation, worker, intent>>

\* A reconciler ends, or goes on to record a failure.
WorkerMoves(w) ==
    /\ worker[w].pc # "idle" /\ OnlyWorker(w)
    /\ \/ worker'[w] = IdleWorker
       \/ /\ worker'[w].pc = "fail"
          /\ worker'[w].item = worker[w].item /\ worker'[w].reservation = worker[w].reservation
    /\ UNCHANGED <<reservation, item, job, caller, intent>>

\* A reconciler closes the job it holds, well or badly.
Closes(w, state) ==
    /\ worker[w].pc = (IF state = "completed" THEN "complete" ELSE "fail") /\ Leased(w)
    /\ job' = [job EXCEPT ![<<worker[w].item, worker[w].reservation>>] = [@ EXCEPT !.state = state, !.lease = "none"]]
    /\ item' = IF state = "completed" /\ Marks(worker[w].item, worker[w].reservation)
               THEN [item EXCEPT ![worker[w].item].released = TRUE] ELSE item
    /\ worker' = [worker EXCEPT ![w] = IdleWorker]
    /\ UNCHANGED <<reservation, caller, intent>>

\* Create and reopen begin under their key.
LEMMA KeyedCalls ==
    ASSUME TypeOK, NEW c \in Callers, NEW k \in Keys,
           (\E d \in Drafts : BeginCreate(c, k, d)) \/ (\E i \in Keys : BeginReopen(c, k, i))
    PROVE  BeginsKeyed(c, k)
<1>1. PICK i \in Keys, n \in Nat, row \in Item, op \in {"create", "reopen"} :
          /\ intent[k] \in {NoIntent, [op |-> op, item |-> i, version |-> n]} /\ MayCall(k)
          /\ intent' = [intent EXCEPT ![k] = [op |-> op, item |-> i, version |-> n]]
          /\ row.state = "open" /\ row.version = n + 1 /\ row.reservation = k /\ ~row.released
          /\ Begin(c, "reserve", k, i, row)
  <2>1. CASE \E d \in Drafts : BeginCreate(c, k, d)
    <3>1. PICK d \in Drafts : BeginCreate(c, k, d)
      BY <2>1
    <3> DEFINE row == [state |-> "open", version |-> 1, draft |-> d, reservation |-> k, released |-> FALSE]
    <3>2. row \in Item /\ row.state = "open" /\ row.version = 0 + 1 /\ row.reservation = k /\ ~row.released
      BY DEF Item, ActiveStates
    <3>3. /\ intent[k] \in {NoIntent, [op |-> "create", item |-> k, version |-> 0]} /\ MayCall(k)
          /\ intent' = [intent EXCEPT ![k] = [op |-> "create", item |-> k, version |-> 0]]
          /\ Begin(c, "reserve", k, k, row)
      BY <3>1 DEF BeginCreate
    <3> HIDE DEF row
    <3> QED
      BY <3>2, <3>3
  <2>2. CASE \E i \in Keys : BeginReopen(c, k, i)
    <3>1. PICK i \in Keys : BeginReopen(c, k, i)
      BY <2>2
    <3> DEFINE n == item[i].version + 1
               row == [item[i] EXCEPT !.state = "open", !.version = n, !.reservation = k, !.released = FALSE]
    <3>2. item[i] \in Item /\ item[i].version \in Nat /\ n \in Nat
      BY Fields DEF TypeOK
    <3> HIDE DEF n
    <3>3. row \in Item /\ row.state = "open" /\ row.version = item[i].version + 1 /\ row.reservation = k /\ ~row.released
      BY <3>2 DEF Item, ActiveStates, n
    <3>4. /\ intent[k] \in {NoIntent, [op |-> "reopen", item |-> i, version |-> item[i].version]} /\ MayCall(k)
          /\ intent' = [intent EXCEPT ![k] = [op |-> "reopen", item |-> i, version |-> item[i].version]]
          /\ Begin(c, "reserve", k, i, row)
      BY <3>1 DEF BeginReopen, n
    <3> HIDE DEF row
    <3> QED
      BY <3>2, <3>3, <3>4
  <2> QED
    BY <2>1, <2>2
<1> DEFINE call == [pc |-> "reserve", key |-> k, target |-> i, row |-> row, version |-> row.version - 1, created |-> FALSE]
           use == [op |-> op, item |-> i, version |-> n]
<1>2. row.version - 1 = n
  BY <1>1
<1>3. call \in Caller /\ use \in Intent
  BY <1>1, <1>2 DEF Caller, Intent
<1>4. caller' = [caller EXCEPT ![c] = call] /\ caller[c].pc = "idle" /\ UNCHANGED <<reservation, item, job, worker>>
  BY <1>1 DEF Begin
<1>5. caller'[c] = call /\ OnlyCaller(c)
  BY <1>3, <1>4 DEF OnlyCaller, TypeOK
<1>6. intent' \in [Keys -> Intent] /\ intent'[k] = use /\ \A l \in Keys \ {k} : intent'[l] = intent[l]
  BY <1>1, <1>3 DEF TypeOK
<1>7. intent[k].op # "none" => intent[k] = use
  BY <1>1 DEF NoIntent
<1> QED
  BY <1>1, <1>2, <1>4, <1>5, <1>6, <1>7 DEF BeginsKeyed

\* A transition and an edit begin with a copy.
LEMMA CopyCalls ==
    ASSUME TypeOK, NEW c \in Callers, NEW i \in Keys,
           \/ \E to \in ActiveStates \cup TerminalStates : BeginTransition(c, i, to)
           \/ \E d \in Drafts : BeginEdit(c, i, d)
    PROVE  BeginsCopy(c)
<1>1. item[i] \in Item /\ item[i].version \in Nat
  BY Fields DEF TypeOK
<1>2. PICK row \in Item :
          /\ row.version = item[i].version + 1 /\ row.reservation = item[i].reservation /\ row.released = item[i].released
          /\ item[i].state # "absent" /\ row.state # "absent"
          /\ row.state = item[i].state \/ item[i].state \in ActiveStates
          /\ Begin(c, "update", "none", i, row) /\ UNCHANGED intent
  <2>1. CASE \E to \in ActiveStates \cup TerminalStates : BeginTransition(c, i, to)
    <3>1. PICK to \in ActiveStates \cup TerminalStates : BeginTransition(c, i, to)
      BY <2>1
    <3>2. item[i].state \in ActiveStates
      BY <3>1 DEF BeginTransition, allowedTransition, ActiveStates
    <3> DEFINE n == item[i].version + 1
               row == [item[i] EXCEPT !.state = to, !.version = n]
    <3>0. n \in Nat
      BY <1>1
    <3> HIDE DEF n
    <3>3. /\ row \in Item /\ row.version = item[i].version + 1 /\ row.reservation = item[i].reservation
          /\ row.released = item[i].released /\ row.state = to
      BY <1>1, <3>0 DEF Item, n
    <3>4. Begin(c, "update", "none", i, row) /\ UNCHANGED intent
      BY <3>1 DEF BeginTransition, n
    <3>5. to # "absent" /\ item[i].state # "absent"
      BY <3>2 DEF ActiveStates, TerminalStates
    <3> HIDE DEF row
    <3> QED
      BY <3>2, <3>3, <3>4, <3>5
  <2>2. CASE \E d \in Drafts : BeginEdit(c, i, d)
    <3>1. PICK d \in Drafts : BeginEdit(c, i, d)
      BY <2>2
    <3> DEFINE n == item[i].version + 1
               row == [item[i] EXCEPT !.draft = d, !.version = n]
    <3>0. n \in Nat
      BY <1>1
    <3> HIDE DEF n
    <3>2. /\ row \in Item /\ row.version = item[i].version + 1 /\ row.reservation = item[i].reservation
          /\ row.released = item[i].released /\ row.state = item[i].state
      BY <1>1, <3>0 DEF Item, n
    <3>3. Begin(c, "update", "none", i, row) /\ UNCHANGED intent /\ item[i].state # "absent"
      BY <3>1 DEF BeginEdit, n
    <3> HIDE DEF row
    <3> QED
      BY <3>2, <3>3
  <2> QED
    BY <2>1, <2>2
<1> DEFINE call == [pc |-> "update", key |-> "none", target |-> i, row |-> row, version |-> row.version - 1, created |-> FALSE]
<1>3. row.version - 1 = item[i].version
  BY <1>1, <1>2
<1>4. call \in Caller
  BY <1>1, <1>2, <1>3 DEF Caller
<1>5. caller' = [caller EXCEPT ![c] = call] /\ caller[c].pc = "idle" /\ UNCHANGED <<reservation, item, job, worker, intent>>
  BY <1>2 DEF Begin
<1>6. caller'[c] = call /\ OnlyCaller(c)
  BY <1>4, <1>5 DEF OnlyCaller, TypeOK
<1> QED
  BY <1>1, <1>2, <1>3, <1>5, <1>6 DEF BeginsCopy

\* A call that is finished or goes elsewhere.
LEMMA CallMoves ==
    ASSUME TypeOK, NEW c \in Callers, caller[c].pc # "idle", UNCHANGED <<reservation, item, job, worker, intent>>,
           \/ Finish(c)
           \/ caller[c].pc = "load" /\ Goto(c, "insert")
           \/ caller[c].pc \in {"load", "insert", "update"} /\ Refused(c)
    PROVE  Moves(c)
<1>1. CASE Finish(c)
  BY <1>1, Defaults DEF Finish, Moves, OnlyCaller, TypeOK
<1>2. ASSUME NEW pc \in {"insert", "compensate"}, Goto(c, pc), pc = "insert" => caller[c].pc = "load",
             pc = "compensate" => caller[c].created /\ caller[c].pc \in {"load", "insert", "update"}
      PROVE  Moves(c)
  <2> DEFINE call == [caller[c] EXCEPT !.pc = pc]
  <2>1. /\ call \in Caller /\ call.pc = pc /\ call.key = caller[c].key /\ call.target = caller[c].target
        /\ call.row = caller[c].row /\ call.version = caller[c].version /\ call.created = caller[c].created
    BY DEF TypeOK, Caller
  <2>2. caller' = [caller EXCEPT ![c] = call]
    BY <1>2 DEF Goto
  <2> HIDE DEF call
  <2>3. caller'[c] = call /\ OnlyCaller(c)
    BY <2>1, <2>2 DEF OnlyCaller, TypeOK
  <2> QED
    BY <1>2, <2>1, <2>3 DEF Moves
<1> QED
  BY <1>1, <1>2 DEF Refused

\* Reserve grants or refuses.
LEMMA Reserves ==
    ASSUME TypeOK, NEW c \in Callers, Calls, Reserve(c)
    PROVE  Proceeds(c) \/ Moves(c)
<1> DEFINE k == caller[c].key
<1>1. caller[c].pc = "reserve" /\ UNCHANGED <<item, job, worker, intent>> /\ k \in Keys
  BY DEF Reserve, Calls, Carries
<1>2. CASE Finish(c) /\ UNCHANGED reservation
  BY <1>1, <1>2, CallMoves
<1>3. CASE ~(Finish(c) /\ UNCHANGED reservation)
  <2>1. PICK created \in BOOLEAN, pc \in {"load", "update"} :
            /\ caller' = [caller EXCEPT ![c].created = created, ![c].pc = pc]
            /\ created => reservation[k] = "absent"
            /\ reservation[k] \in {"absent", "active"} /\ reservation' = [reservation EXCEPT ![k] = "active"]
    <3> DEFINE pc == IF intent[k].op = "create" THEN "load" ELSE "update"
    <3>1. CASE reservation[k] = "absent" /\ HasRoom
      BY <3>1 DEF Reserve
    <3>2. CASE reservation[k] = "active"
      <4>1. reservation' = [reservation EXCEPT ![k] = "active"]
        BY <1>1, <3>2 DEF Reserve, TypeOK
      <4>2. caller' = [caller EXCEPT ![c].created = FALSE, ![c].pc = pc]
        BY <3>2 DEF Reserve
      <4> QED
        BY <3>2, <4>1, <4>2
    <3> QED
      BY <1>3, <3>1, <3>2 DEF Reserve
  <2> DEFINE call == [[caller[c] EXCEPT !.created = created] EXCEPT !.pc = pc]
  <2>2. /\ call \in Caller /\ call.pc = pc /\ call.key = k /\ call.target = caller[c].target
        /\ call.row = caller[c].row /\ call.version = caller[c].version /\ call.created = created
    BY DEF TypeOK, Caller
  <2>3. caller' = [caller EXCEPT ![c] = call]
    BY <2>1 DEF TypeOK
  <2> HIDE DEF call
  <2>4. caller'[c] = call /\ OnlyCaller(c)
    BY <2>2, <2>3 DEF OnlyCaller, TypeOK
  <2> QED
    BY <1>1, <2>1, <2>2, <2>4 DEF Proceeds
<1> QED
  BY <1>2, <1>3

\* An insert and an update write, or are refused.
LEMMA RowWrites ==
    ASSUME TypeOK, NEW c \in Callers, CreateInsert(c) \/ Update(c)
    PROVE  Writes(c) \/ Moves(c)
<1> DEFINE i == caller[c].target
<1>1. CASE Refused(c) /\ UNCHANGED <<reservation, item, job, worker, intent>>
  BY <1>1, CallMoves DEF CreateInsert, Update
<1>2. CASE CreateInsert(c) /\ item[i].state = "absent"
  <2>1. item[i].version <= caller[c].version
    BY <1>2, Fields
  <2> QED
    BY <1>2, <2>1 DEF Writes, Write, Finish, CreateInsert
<1>3. CASE Update(c) /\ item[i].version = caller[c].version
  <2>1. item[i].version <= caller[c].version
    BY <1>3, Fields
  <2> QED
    BY <1>3, <2>1 DEF Writes, Write, Finish, Update, VersionMatches
<1> QED
  BY <1>1, <1>2, <1>3 DEF CreateInsert, Update, VersionMatches

\* The operator's requeueing and the pruning of completed jobs.
Rearms(i, r) ==
    /\ \/ job[<<i, r>>].state = "dead_letter" /\ job'[<<i, r>>].state = "pending"
       \/ job[<<i, r>>].state = "completed" /\ job'[<<i, r>>].state = "absent"
    /\ job' \in [Keys \X Keys -> Job] /\ \A p \in Keys \X Keys : p # <<i, r>> => job'[p] = job[p]
    /\ UNCHANGED <<reservation, item, caller, worker, intent>>

\* How a reconciler goes on after its claim.
LEMMA WorkerEnds ==
    ASSUME TypeOK, NEW w \in Workers, StepFails(w) \/ Complete(w) \/ Fail(w) \/ WorkerCrash(w)
    PROVE  WorkerMoves(w) \/ \E state \in {"completed", "failed", "dead_letter"} : Closes(w, state)
<1>1. ASSUME worker' = [worker EXCEPT ![w] = IdleWorker], worker[w].pc # "idle",
             UNCHANGED <<reservation, item, job, caller, intent>>
      PROVE  WorkerMoves(w)
  BY <1>1, Defaults DEF WorkerMoves, OnlyWorker, TypeOK
<1>2. ASSUME WorkerGoto(w, "fail"), worker[w].pc # "idle", UNCHANGED <<reservation, item, job, caller, intent>>
      PROVE  WorkerMoves(w)
  <2> DEFINE new == [worker[w] EXCEPT !.pc = "fail"]
  <2>1. new \in Worker /\ new.pc = "fail" /\ new.item = worker[w].item /\ new.reservation = worker[w].reservation
    BY DEF TypeOK, Worker
  <2>2. worker' = [worker EXCEPT ![w] = new]
    BY <1>2 DEF WorkerGoto
  <2> HIDE DEF new
  <2> QED
    BY <1>2, <2>1, <2>2 DEF WorkerMoves, OnlyWorker, TypeOK
<1>3. CASE StepFails(w)
  BY <1>2, <1>3 DEF StepFails
<1>4. CASE WorkerCrash(w)
  BY <1>1, <1>4 DEF WorkerCrash
<1>5. CASE Complete(w)
  <2>1. CASE Leased(w)
    BY <1>5, <2>1 DEF Complete, Closes
  <2>2. CASE ~Leased(w)
    BY <1>1, <1>2, <1>5, <2>2 DEF Complete
  <2> QED
    BY <2>1, <2>2
<1>6. CASE Fail(w)
  <2>1. CASE Leased(w)
    <3>1. PICK state \in {"failed", "dead_letter"} :
              job' = [job EXCEPT ![<<worker[w].item, worker[w].reservation>>] = [@ EXCEPT !.state = state, !.lease = "none"]]
      <4> DEFINE p == <<worker[w].item, worker[w].reservation>>
                 dead == worker[w].attempt >= MaxAttempts \/ reservation[p[2]] = "absent"
      <4>1. job' = [job EXCEPT ![p] = [@ EXCEPT !.state = IF dead THEN "dead_letter" ELSE "failed", !.lease = "none"]]
        BY <1>6, <2>1 DEF Fail
      <4> QED
        BY <4>1
    <3> QED
      BY <1>6, <2>1, <3>1 DEF Fail, Closes
  <2>2. CASE ~Leased(w)
    BY <1>1, <1>6, <2>2 DEF Fail
  <2> QED
    BY <2>1, <2>2
<1> QED
  BY <1>3, <1>4, <1>5, <1>6

\* Requeueing and pruning replace one job.
LEMMA JobRearms ==
    ASSUME TypeOK, NEW i \in Keys, NEW r \in Keys, Requeue(i, r) \/ PruneCompleted(i, r)
    PROVE  Rearms(i, r)
<1> DEFINE pending == [NoJob EXCEPT !.state = "pending"]
<1>1. pending \in Job /\ pending.state = "pending" /\ NoJob \in Job /\ NoJob.state = "absent"
  BY DEF NoJob, Job
<1>2. <<i, r>> \in Keys \X Keys
  OBVIOUS
<1>3. CASE Requeue(i, r)
  <2>1. job' = [job EXCEPT ![<<i, r>>] = pending]
    BY <1>3 DEF Requeue
  <2> HIDE DEF pending
  <2> QED
    BY <1>1, <1>2, <1>3, <2>1 DEF Requeue, Rearms, TypeOK
<1>4. CASE PruneCompleted(i, r)
  BY <1>1, <1>2, <1>4 DEF PruneCompleted, Prunable, Rearms, TypeOK
<1> QED
  BY <1>3, <1>4

\* Every step is one of these.
LEMMA Steps ==
    ASSUME TypeOK, Calls, [Next]_vars
    PROVE  \/ \E c \in Callers : \/ \E k \in Keys : BeginsKeyed(c, k)
                                 \/ BeginsCopy(c) \/ Proceeds(c) \/ Moves(c) \/ Writes(c) \/ Compensate(c)
           \/ \E i \in Keys : ResumeAttentionParents(i)
           \/ \E w \in Workers : \/ \E i, r \in Keys : Claim(w, i, r)
                                 \/ ReleaseCapacity(w) \/ WorkerMoves(w)
                                 \/ \E state \in {"completed", "failed", "dead_letter"} : Closes(w, state)
           \/ \E i, r \in Keys : Rearms(i, r)
           \/ UNCHANGED vars
<1>1. ASSUME NEW c \in Callers, CallerStep(c)
      PROVE  Proceeds(c) \/ Moves(c) \/ Writes(c) \/ Compensate(c)
  <2>1. CASE CreateLoad(c) \/ RollBack(c) \/ Crash(c)
    BY <2>1, CallMoves DEF CreateLoad, RollBack, Crash
  <2> QED
    BY <1>1, <2>1, Reserves, RowWrites DEF CallerStep
<1>2. ASSUME NEW c \in Callers, ClientStep(c)
      PROVE  BeginsCopy(c) \/ \E k \in Keys : BeginsKeyed(c, k)
  BY <1>2, KeyedCalls, CopyCalls DEF ClientStep
<1>3. ASSUME NEW w \in Workers, WorkerStep(w)
      PROVE  \/ \E i, r \in Keys : Claim(w, i, r)
             \/ ReleaseCapacity(w) \/ WorkerMoves(w)
             \/ \E state \in {"completed", "failed", "dead_letter"} : Closes(w, state)
  BY <1>3, WorkerEnds DEF WorkerStep
<1> QED
  BY <1>1, <1>2, <1>3, JobRearms DEF Next

\* A write: its item, one version later, and the job the trigger may add.
LEMMA WriteEffect ==
    ASSUME TypeOK, Calls, NEW c \in Callers, Writes(c)
    PROVE  LET i == caller[c].target
               row == caller[c].row
           IN
           /\ item' \in [Keys -> Item] /\ item'[i] = row /\ \A j \in Keys \ {i} : item'[j] = item[j]
           /\ row.version > item[i].version /\ row.state # "absent"
           /\ job' \in [Keys \X Keys -> Job]
           /\ \A p \in Keys \X Keys :
                 \/ job'[p] = job[p]
                 \/ /\ p = <<i, row.reservation>> /\ job[p].state = "absent" /\ job'[p].state = "pending"
                    /\ row.state \in TerminalStates
           /\ row.state \in TerminalStates /\ ~row.released => job'[<<i, row.reservation>>].state # "absent"
           /\ OnlyCaller(c) /\ caller'[c] = IdleCaller
<1> DEFINE i == caller[c].target
           row == caller[c].row
           p == <<i, row.reservation>>
           pending == [NoJob EXCEPT !.state = "pending"]
<1>1. i \in Keys /\ row \in Item /\ p \in Keys \X Keys
  BY Fields
<1>2. item' \in [Keys -> Item] /\ item'[i] = row /\ \A j \in Keys \ {i} : item'[j] = item[j]
  BY <1>1 DEF Writes, TypeOK
<1>3. row.version > item[i].version /\ row.state # "absent"
  BY Fields DEF Writes, Calls, Carries
<1>4. pending \in Job /\ pending.state = "pending"
  BY DEF NoJob, Job
<1>5. \/ job' = job /\ ~(row.state \in TerminalStates /\ ~row.released /\ job[p].state = "absent")
      \/ job' = [job EXCEPT ![p] = pending] /\ row.state \in TerminalStates /\ job[p].state = "absent"
  BY DEF Writes, Enqueue
<1> HIDE DEF pending
<1>6. /\ job' \in [Keys \X Keys -> Job]
      /\ \A q \in Keys \X Keys :
             \/ job'[q] = job[q]
             \/ q = p /\ job[q].state = "absent" /\ job'[q].state = "pending" /\ row.state \in TerminalStates
      /\ row.state \in TerminalStates /\ ~row.released => job'[p].state # "absent"
  BY <1>1, <1>4, <1>5 DEF TypeOK
<1>7. OnlyCaller(c) /\ caller'[c] = IdleCaller
  BY Defaults DEF Writes, OnlyCaller, TypeOK
<1> QED
  BY <1>2, <1>3, <1>6, <1>7

\* Resuming a parent: the next version of the same item.
LEMMA ResumeEffect ==
    ASSUME TypeOK, NEW i \in Keys, ResumeAttentionParents(i)
    PROVE  /\ item' \in [Keys -> Item] /\ \A j \in Keys \ {i} : item'[j] = item[j]
           /\ item'[i].state \in ActiveStates /\ item'[i].version = item[i].version + 1
           /\ item'[i].reservation = item[i].reservation /\ item'[i].released = item[i].released
           /\ item[i].state \in ActiveStates
<1> DEFINE n == item[i].version + 1
           row == [item[i] EXCEPT !.state = "in_progress", !.version = n]
<1>1. item[i] \in Item /\ n \in Nat
  BY Fields DEF TypeOK
<1>2. item' = [item EXCEPT ![i] = row] /\ item[i].state \in ActiveStates
  BY <1>1 DEF ResumeAttentionParents, ActiveStates
<1> HIDE DEF n
<1>3. /\ row \in Item /\ row.state \in ActiveStates /\ row.version = n
      /\ row.reservation = item[i].reservation /\ row.released = item[i].released
  BY <1>1 DEF Item, ActiveStates
<1> HIDE DEF row
<1> QED
  BY <1>2, <1>3 DEF TypeOK, n

\* Closing a job: the job is closed, and at most the checkpoint is set.
LEMMA CloseEffect ==
    ASSUME TypeOK, NEW w \in Workers, NEW state \in {"completed", "failed", "dead_letter"}, Closes(w, state)
    PROVE  LET i == worker[w].item
               r == worker[w].reservation
           IN
           /\ item' \in [Keys -> Item] /\ job' \in [Keys \X Keys -> Job]
           /\ \A j \in Keys : /\ item'[j].state = item[j].state /\ item'[j].version = item[j].version
                              /\ item'[j].reservation = item[j].reservation
                              /\ \/ item'[j].released = item[j].released
                                 \/ /\ item'[j].released /\ state = "completed"
                                    /\ item[j].reservation = r /\ item[j].state \in TerminalStates
           /\ job[<<i, r>>].state = "processing" /\ job[<<i, r>>].lease = w
           /\ job'[<<i, r>>].state = state
           /\ \A p \in Keys \X Keys : p # <<i, r>> => job'[p] = job[p]
           /\ OnlyWorker(w) /\ worker'[w] = IdleWorker
<1> DEFINE i == worker[w].item
           r == worker[w].reservation
           new == [job[<<i, r>>] EXCEPT !.state = state, !.lease = "none"]
           row == [item[i] EXCEPT !.released = TRUE]
<1>1. i \in Keys /\ r \in Keys /\ <<i, r>> \in Keys \X Keys /\ item[i] \in Item /\ job[<<i, r>>] \in Job
  BY Fields DEF TypeOK
<1>2. new \in Job /\ new.state = state
  BY <1>1 DEF Job
<1>3. job' = [job EXCEPT ![<<i, r>>] = new]
  BY <1>1 DEF Closes
<1> HIDE DEF new
<1>4. /\ job' \in [Keys \X Keys -> Job] /\ job'[<<i, r>>].state = state
      /\ \A p \in Keys \X Keys : p # <<i, r>> => job'[p] = job[p]
  BY <1>1, <1>2, <1>3 DEF TypeOK
<1>5. /\ row \in Item /\ row.state = item[i].state /\ row.version = item[i].version
      /\ row.reservation = item[i].reservation /\ row.released
  BY <1>1 DEF Item
<1>6. \/ item' = item
      \/ /\ item' = [item EXCEPT ![i] = row] /\ state = "completed"
         /\ item[i].reservation = r /\ item[i].state \in TerminalStates
  BY <1>1 DEF Closes, Marks
<1> HIDE DEF row
<1>7. /\ item' \in [Keys -> Item]
      /\ \A j \in Keys : /\ item'[j].state = item[j].state /\ item'[j].version = item[j].version
                         /\ item'[j].reservation = item[j].reservation
                         /\ \/ item'[j].released = item[j].released
                            \/ /\ item'[j].released /\ state = "completed"
                               /\ item[j].reservation = r /\ item[j].state \in TerminalStates
  BY <1>1, <1>5, <1>6 DEF TypeOK
<1>8. job[<<i, r>>].state = "processing" /\ job[<<i, r>>].lease = w
  BY DEF Closes, Leased
<1>9. OnlyWorker(w) /\ worker'[w] = IdleWorker
  BY Defaults DEF Closes, OnlyWorker, TypeOK
<1> QED
  BY <1>4, <1>7, <1>8, <1>9

\* A claim: the job is leased to the reconciler.
LEMMA ClaimEffect ==
    ASSUME TypeOK, NEW w \in Workers, NEW i \in Keys, NEW r \in Keys, Claim(w, i, r)
    PROVE  /\ job' \in [Keys \X Keys -> Job] /\ job'[<<i, r>>].state = "processing"
           /\ job[<<i, r>>].state \in {"pending", "failed", "processing"}
           /\ \A p \in Keys \X Keys : p # <<i, r>> => job'[p] = job[p]
           /\ OnlyWorker(w) /\ worker[w].pc = "idle"
           /\ worker'[w].pc = "release" /\ worker'[w].item = i /\ worker'[w].reservation = r
           /\ UNCHANGED <<reservation, item, caller, intent>>
<1> DEFINE n == Later(job[<<i, r>>].attempt)
<1>1. <<i, r>> \in Keys \X Keys /\ job[<<i, r>>] \in Job
  BY DEF TypeOK
<1>2. n \in Nat
  <2>1. job[<<i, r>>].attempt \in Nat
    BY <1>1 DEF Job
  <2> QED
    BY <2>1 DEF Later
<1>3. /\ job' = [job EXCEPT ![<<i, r>>] = [state |-> "processing", attempt |-> n, lease |-> w]]
      /\ worker' = [worker EXCEPT ![w] = [pc |-> "release", item |-> i, reservation |-> r, attempt |-> n]]
  BY <1>1 DEF Claim, TypeOK
<1> HIDE DEF n
<1>4. [state |-> "processing", attempt |-> n, lease |-> w] \in Job
  BY <1>2 DEF Job
<1>5. [pc |-> "release", item |-> i, reservation |-> r, attempt |-> n] \in Worker
  BY <1>2 DEF Worker
<1>6. /\ job' \in [Keys \X Keys -> Job] /\ job'[<<i, r>>].state = "processing"
      /\ \A p \in Keys \X Keys : p # <<i, r>> => job'[p] = job[p]
  BY <1>1, <1>3, <1>4 DEF TypeOK
<1>7. /\ OnlyWorker(w)
      /\ worker'[w].pc = "release" /\ worker'[w].item = i /\ worker'[w].reservation = r
  BY <1>3, <1>5 DEF TypeOK, OnlyWorker
<1> QED
  BY <1>6, <1>7 DEF Claim

\* A release: the reservation is released, unless it was before.
LEMMA ReleaseEffect ==
    ASSUME TypeOK, NEW w \in Workers, ReleaseCapacity(w)
    PROVE  LET r == worker[w].reservation IN
           /\ reservation' \in [Keys -> {"absent", "active", "released"}]
           /\ reservation'[r] = IF reservation[r] = "active" THEN "released" ELSE reservation[r]
           /\ \A k \in Keys \ {r} : reservation'[k] = reservation[k]
           /\ OnlyWorker(w) /\ worker'[w].item = worker[w].item /\ worker'[w].reservation = r
           /\ worker[w].pc = "release" /\ worker'[w].pc = IF reservation[r] = "absent" THEN "fail" ELSE "complete"
           /\ UNCHANGED <<item, job, caller, intent>>
<1> DEFINE r == worker[w].reservation
<1>1. PICK pc \in {"fail", "complete"} : pc = IF reservation[r] = "absent" THEN "fail" ELSE "complete"
  OBVIOUS
<1> DEFINE new == [worker[w] EXCEPT !.pc = pc]
<1>2. new \in Worker /\ new.pc = pc /\ new.item = worker[w].item /\ new.reservation = r
  BY DEF TypeOK, Worker
<1>3. worker' = [worker EXCEPT ![w] = new]
  BY <1>1 DEF ReleaseCapacity, WorkerGoto
<1> HIDE DEF new
<1>4. worker'[w] = new /\ OnlyWorker(w)
  BY <1>2, <1>3 DEF TypeOK, OnlyWorker
<1>5. /\ reservation' \in [Keys -> {"absent", "active", "released"}]
      /\ reservation'[r] = IF reservation[r] = "active" THEN "released" ELSE reservation[r]
      /\ \A k \in Keys \ {r} : reservation'[k] = reservation[k]
  BY Fields DEF ReleaseCapacity, TypeOK
<1> QED
  BY <1>1, <1>2, <1>4, <1>5 DEF ReleaseCapacity

\* A compensation: the reservation the call has made is released.
LEMMA CompensateEffect ==
    ASSUME TypeOK, Calls, NEW c \in Callers, Compensate(c)
    PROVE  LET k == caller[c].key IN
           /\ k \in Keys /\ caller[c].created /\ caller[c].pc = "compensate"
           /\ reservation' \in [Keys -> {"absent", "active", "released"}]
           /\ reservation'[k] = IF reservation[k] = "active" THEN "released" ELSE reservation[k]
           /\ \A l \in Keys \ {k} : reservation'[l] = reservation[l]
           /\ OnlyCaller(c) /\ caller'[c] = IdleCaller
           /\ UNCHANGED <<item, job, worker, intent>>
<1>1. caller[c].key \in Keys /\ caller[c].created /\ caller[c].pc = "compensate"
  BY DEF Compensate, Calls, Carries
<1>2. OnlyCaller(c) /\ caller'[c] = IdleCaller
  BY Defaults DEF Compensate, Finish, OnlyCaller, TypeOK
<1> QED
  BY <1>1, <1>2 DEF Compensate, TypeOK

-------------------------------------------------------------------------------
(***************************************************************************)
(* Each part of the invariant is preserved                                 *)
(***************************************************************************)

\* Types are preserved.
LEMMA NextTypeOK ==
    ASSUME TypeOK, Calls, [Next]_vars
    PROVE  TypeOK'
<1>1. ASSUME NEW c \in Callers, NEW k \in Keys, BeginsKeyed(c, k)
      PROVE  TypeOK'
  BY <1>1 DEF BeginsKeyed, OnlyCaller, TypeOK
<1>2. ASSUME NEW c \in Callers, BeginsCopy(c)
      PROVE  TypeOK'
  BY <1>2 DEF BeginsCopy, OnlyCaller, TypeOK
<1>3. ASSUME NEW c \in Callers, Proceeds(c)
      PROVE  TypeOK'
  BY <1>3 DEF Proceeds, OnlyCaller, TypeOK
<1>4. ASSUME NEW c \in Callers, Moves(c)
      PROVE  TypeOK'
  BY <1>4 DEF Moves, OnlyCaller, TypeOK
<1>5. ASSUME NEW c \in Callers, Writes(c)
      PROVE  TypeOK'
  <2>1. item' \in [Keys -> Item] /\ job' \in [Keys \X Keys -> Job] /\ caller' \in [Callers -> Caller]
    BY <1>5, WriteEffect DEF OnlyCaller
  <2>2. \A j \in Keys : item'[j] = item[j] \/ (item'[j].version > item[j].version /\ item'[j].state # "absent")
    BY <1>5, WriteEffect
  <2>3. \A j \in Keys : item'[j].state = "absent" <=> item'[j].version = 0
    BY <2>2, Fields
  <2>4. UNCHANGED <<reservation, worker, intent>>
    BY <1>5 DEF Writes
  <2> QED
    BY <2>1, <2>3, <2>4 DEF TypeOK
<1>6. ASSUME NEW c \in Callers, Compensate(c)
      PROVE  TypeOK'
  <2>1. /\ reservation' \in [Keys -> {"absent", "active", "released"}] /\ caller' \in [Callers -> Caller]
        /\ UNCHANGED <<item, job, worker, intent>>
    BY <1>6, CompensateEffect DEF OnlyCaller
  <2> QED
    BY <2>1 DEF TypeOK
<1>7. ASSUME NEW i \in Keys, ResumeAttentionParents(i)
      PROVE  TypeOK'
  <2>1. /\ item' \in [Keys -> Item]
        /\ \A j \in Keys : item'[j].state = "absent" <=> item'[j].version = 0
    BY <1>7, ResumeEffect, Fields DEF ActiveStates
  <2>2. UNCHANGED <<reservation, job, caller, worker, intent>>
    BY <1>7 DEF ResumeAttentionParents
  <2> QED
    BY <2>1, <2>2 DEF TypeOK
<1>8. ASSUME NEW w \in Workers, NEW i \in Keys, NEW r \in Keys, Claim(w, i, r)
      PROVE  TypeOK'
  <2>1. /\ job' \in [Keys \X Keys -> Job] /\ worker' \in [Workers -> Worker]
        /\ UNCHANGED <<reservation, item, caller, intent>>
    BY <1>8, ClaimEffect DEF OnlyWorker
  <2> QED
    BY <2>1 DEF TypeOK
<1>9. ASSUME NEW w \in Workers, ReleaseCapacity(w)
      PROVE  TypeOK'
  <2>1. /\ reservation' \in [Keys -> {"absent", "active", "released"}] /\ worker' \in [Workers -> Worker]
        /\ UNCHANGED <<item, job, caller, intent>>
    BY <1>9, ReleaseEffect DEF OnlyWorker
  <2> QED
    BY <2>1 DEF TypeOK
<1>10. ASSUME NEW w \in Workers, WorkerMoves(w)
      PROVE  TypeOK'
  BY <1>10 DEF WorkerMoves, OnlyWorker, TypeOK
<1>11. ASSUME NEW w \in Workers, NEW state \in {"completed", "failed", "dead_letter"}, Closes(w, state)
      PROVE  TypeOK'
  <2>1. item' \in [Keys -> Item] /\ job' \in [Keys \X Keys -> Job] /\ worker' \in [Workers -> Worker]
    BY <1>11, CloseEffect DEF OnlyWorker
  <2>2. \A j \in Keys : item'[j].state = item[j].state /\ item'[j].version = item[j].version
    BY <1>11, CloseEffect
  <2>3. UNCHANGED <<reservation, caller, intent>>
    BY <1>11 DEF Closes
  <2> QED
    BY <2>1, <2>2, <2>3 DEF TypeOK
<1>12. ASSUME NEW i \in Keys, NEW r \in Keys, Rearms(i, r)
      PROVE  TypeOK'
  BY <1>12 DEF Rearms, TypeOK
<1>13. CASE UNCHANGED vars
  BY <1>13 DEF TypeOK, vars
<1> QED
  BY <1>1, <1>2, <1>3, <1>4, <1>5, <1>6, <1>7, <1>8, <1>9, <1>10, <1>11, <1>12, <1>13, Steps

\* Versions only grow and tell the contents of an item apart, but for the
\* checkpoint; a key keeps its use, and a reservation is never forgotten.
Grows ==
    /\ \A i \in Keys : /\ item'[i].version >= item[i].version
                       /\ item'[i].version = item[i].version =>
                             /\ item'[i].state = item[i].state /\ item'[i].reservation = item[i].reservation
                             /\ item[i].released => item'[i].released
    /\ \A k \in Keys : /\ intent[k].op # "none" => intent'[k] = intent[k]
                       /\ reservation[k] # "absent" => reservation'[k] # "absent"

\* Every step is such a growth.
LEMMA NextGrows ==
    ASSUME TypeOK, Calls, [Next]_vars
    PROVE  Grows
<1>1. ASSUME NEW c \in Callers, NEW k \in Keys, BeginsKeyed(c, k)
      PROVE  Grows
  BY <1>1, Fields DEF BeginsKeyed, Grows
<1>2. ASSUME NEW c \in Callers, BeginsCopy(c)
      PROVE  Grows
  BY <1>2, Fields DEF BeginsCopy, Grows
<1>3. ASSUME NEW c \in Callers, Proceeds(c)
      PROVE  Grows
  BY <1>3, Fields DEF Proceeds, Grows, TypeOK
<1>4. ASSUME NEW c \in Callers, Moves(c)
      PROVE  Grows
  BY <1>4, Fields DEF Moves, Grows
<1>5. ASSUME NEW c \in Callers, Writes(c)
      PROVE  Grows
  <2>1. \A j \in Keys : item'[j] = item[j] \/ item'[j].version > item[j].version
    BY <1>5, WriteEffect
  <2>2. UNCHANGED <<reservation, intent>>
    BY <1>5 DEF Writes
  <2>3. \A j \in Keys : item'[j].version \in Nat
    BY NextTypeOK DEF TypeOK, Item
  <2> QED
    BY <2>1, <2>2, <2>3, Fields DEF Grows
<1>6. ASSUME NEW c \in Callers, Compensate(c)
      PROVE  Grows
  BY <1>6, CompensateEffect, Fields DEF Grows
<1>7. ASSUME NEW i \in Keys, ResumeAttentionParents(i)
      PROVE  Grows
  <2>1. \A j \in Keys : item'[j] = item[j] \/ item'[j].version = item[j].version + 1
    BY <1>7, ResumeEffect
  <2>2. UNCHANGED <<reservation, intent>>
    BY <1>7 DEF ResumeAttentionParents
  <2> QED
    BY <2>1, <2>2, Fields DEF Grows
<1>8. ASSUME NEW w \in Workers, NEW i \in Keys, NEW r \in Keys, Claim(w, i, r)
      PROVE  Grows
  <2>1. UNCHANGED <<reservation, item, intent>>
    BY <1>8 DEF Claim
  <2> QED
    BY <2>1, Fields DEF Grows
<1>9. ASSUME NEW w \in Workers, ReleaseCapacity(w)
      PROVE  Grows
  BY <1>9, ReleaseEffect, Fields DEF Grows
<1>10. ASSUME NEW w \in Workers, WorkerMoves(w)
      PROVE  Grows
  BY <1>10, Fields DEF WorkerMoves, Grows
<1>11. ASSUME NEW w \in Workers, NEW state \in {"completed", "failed", "dead_letter"}, Closes(w, state)
      PROVE  Grows
  <2>1. \A j \in Keys : /\ item'[j].state = item[j].state /\ item'[j].version = item[j].version
                        /\ item'[j].reservation = item[j].reservation /\ (item[j].released => item'[j].released)
    BY <1>11, CloseEffect, ZenonT(40)
  <2>2. UNCHANGED <<reservation, intent>>
    BY <1>11 DEF Closes
  <2> QED
    BY <2>1, <2>2, Fields DEF Grows
<1>12. ASSUME NEW i \in Keys, NEW r \in Keys, Rearms(i, r)
      PROVE  Grows
  BY <1>12, Fields DEF Rearms, Grows
<1>13. CASE UNCHANGED vars
  BY <1>13, Fields DEF Grows, vars
<1> QED
  BY <1>1, <1>2, <1>3, <1>4, <1>5, <1>6, <1>7, <1>8, <1>9, <1>10, <1>11, <1>12, <1>13, Steps

\* What a reservation has been used for stays so.
LEMMA OwnsStable ==
    ASSUME TypeOK, Calls, [Next]_vars, NEW i \in Keys, NEW r \in Keys, Owns(i, r)
    PROVE  Owns(i, r)'
<1>1. TypeOK'
  BY NextTypeOK
<1>2. item'[i].version \in Nat /\ item[i].version \in Nat /\ intent[r].version \in Nat
  BY <1>1, Fields DEF TypeOK, Item
<1> QED
  BY <1>2, NextGrows DEF Grows, Owns

\* A call that does not move carries what it did.
LEMMA CarriesKept ==
    ASSUME TypeOK, Calls, [Next]_vars, NEW c \in Callers, caller'[c] = caller[c]
    PROVE  Carries(c)'
  BY NextGrows DEF Grows, Calls, Carries

\* Nor does one that ends carry anything.
LEMMA IdleCarries ==
    ASSUME NEW c \in Callers, caller'[c] = IdleCaller
    PROVE  Carries(c)' /\ Faithful(c)'
  BY ConstantsAssumption DEF IdleCaller, Carries, Faithful

\* Calls go on carrying what their keys are used for.
LEMMA NextCalls ==
    ASSUME TypeOK, Calls, [Next]_vars
    PROVE  Calls'
<1>1. ASSUME NEW c \in Callers, NEW k \in Keys, BeginsKeyed(c, k)
      PROVE  Calls'
  <2>1. Carries(c)'
    BY <1>1 DEF BeginsKeyed, Carries
  <2> QED
    BY <1>1, <2>1, CarriesKept DEF BeginsKeyed, OnlyCaller, Calls
<1>2. ASSUME NEW c \in Callers, BeginsCopy(c)
      PROVE  Calls'
  <2>1. Carries(c)'
    BY <1>2, ConstantsAssumption DEF BeginsCopy, Carries
  <2> QED
    BY <1>2, <2>1, CarriesKept DEF BeginsCopy, OnlyCaller, Calls
<1>3. ASSUME NEW c \in Callers, Proceeds(c)
      PROVE  Calls'
  <2>1. Carries(c)'
    BY <1>3, Fields DEF Proceeds, Calls, Carries, TypeOK
  <2> QED
    BY <1>3, <2>1, CarriesKept DEF Proceeds, OnlyCaller, Calls
<1>4. ASSUME NEW c \in Callers, Moves(c)
      PROVE  Calls'
  <2>1. Carries(c)'
    BY <1>4, IdleCarries, Fields DEF Moves, Calls, Carries
  <2> QED
    BY <1>4, <2>1, CarriesKept DEF Moves, OnlyCaller, Calls
<1>5. ASSUME NEW c \in Callers, Writes(c)
      PROVE  Calls'
  <2>1. OnlyCaller(c) /\ caller'[c] = IdleCaller
    BY <1>5, WriteEffect
  <2> QED
    BY <2>1, IdleCarries, CarriesKept DEF OnlyCaller, Calls
<1>6. ASSUME NEW c \in Callers, Compensate(c)
      PROVE  Calls'
  <2>1. OnlyCaller(c) /\ caller'[c] = IdleCaller
    BY <1>6, CompensateEffect
  <2> QED
    BY <2>1, IdleCarries, CarriesKept DEF OnlyCaller, Calls
<1>7. ASSUME NEW i \in Keys, ResumeAttentionParents(i)
      PROVE  Calls'
  <2>1. UNCHANGED caller
    BY <1>7 DEF ResumeAttentionParents
  <2> QED
    BY <2>1, CarriesKept DEF Calls
<1>8. ASSUME NEW w \in Workers, NEW i \in Keys, NEW r \in Keys, Claim(w, i, r)
      PROVE  Calls'
  <2>1. UNCHANGED caller
    BY <1>8 DEF Claim
  <2> QED
    BY <2>1, CarriesKept DEF Calls
<1>9. ASSUME NEW w \in Workers, ReleaseCapacity(w)
      PROVE  Calls'
  <2>1. UNCHANGED caller
    BY <1>9 DEF ReleaseCapacity
  <2> QED
    BY <2>1, CarriesKept DEF Calls
<1>10. ASSUME NEW w \in Workers, WorkerMoves(w)
      PROVE  Calls'
  <2>1. UNCHANGED caller
    BY <1>10 DEF WorkerMoves
  <2> QED
    BY <2>1, CarriesKept DEF Calls
<1>11. ASSUME NEW w \in Workers, NEW state \in {"completed", "failed", "dead_letter"}, Closes(w, state)
      PROVE  Calls'
  <2>1. UNCHANGED caller
    BY <1>11 DEF Closes
  <2> QED
    BY <2>1, CarriesKept DEF Calls
<1>12. ASSUME NEW i \in Keys, NEW r \in Keys, Rearms(i, r)
      PROVE  Calls'
  <2>1. UNCHANGED caller
    BY <1>12 DEF Rearms
  <2> QED
    BY <2>1, CarriesKept DEF Calls
<1>13. CASE UNCHANGED vars
  BY <1>13 DEF Calls, Carries, vars
<1> QED
  BY <1>1, <1>2, <1>3, <1>4, <1>5, <1>6, <1>7, <1>8, <1>9, <1>10, <1>11, <1>12, <1>13, Steps

\* The copy of a call that does not move stays faithful.
LEMMA FaithfulKept ==
    ASSUME TypeOK, Calls, Copies, [Next]_vars, NEW c \in Callers, caller'[c] = caller[c]
    PROVE  Faithful(c)'
<1> DEFINE i == caller[c].target
<1>1. i \in Keys /\ caller[c].version \in Nat /\ item[i].version \in Nat
  BY Fields
<1>2. item'[i].version \in Nat
  BY <1>1, NextTypeOK DEF TypeOK, Item
<1>3. /\ item'[i].version >= item[i].version
      /\ item'[i].version = item[i].version =>
            /\ item'[i].state = item[i].state /\ item'[i].reservation = item[i].reservation
            /\ item[i].released => item'[i].released
  BY <1>1, NextGrows DEF Grows
<1> QED
  BY <1>1, <1>2, <1>3 DEF Copies, Faithful

\* Copies stay faithful.
LEMMA NextCopies ==
    ASSUME TypeOK, Calls, Copies, Tracked, [Next]_vars
    PROVE  Copies'
<1>1. ASSUME NEW c \in Callers, NEW k \in Keys, BeginsKeyed(c, k)
      PROVE  Copies'
  <2>1. Faithful(c)'
    BY <1>1 DEF BeginsKeyed, Faithful
  <2> QED
    BY <1>1, <2>1, FaithfulKept DEF BeginsKeyed, OnlyCaller, Copies
<1>2. ASSUME NEW c \in Callers, BeginsCopy(c)
      PROVE  Copies'
  <2>1. Faithful(c)'
    <3> DEFINE old == item[caller'[c].target]
    <3>1. caller'[c].target \in Keys
      BY <1>2 DEF BeginsCopy, OnlyCaller, Caller
    <3>2. old.released => old.state \in TerminalStates
      BY <3>1 DEF Tracked, ReleasesTracked, CheckpointTruthful
    <3>3. old.version \in Nat
      BY <3>1, Fields
    <3> QED
      BY <1>2, <3>2, <3>3 DEF BeginsCopy, Faithful, ActiveStates, TerminalStates
  <2> QED
    BY <1>2, <2>1, FaithfulKept DEF BeginsCopy, OnlyCaller, Copies
<1>3. ASSUME NEW c \in Callers, Proceeds(c)
      PROVE  Copies'
  <2>1. Faithful(c)'
    BY <1>3, ConstantsAssumption DEF Proceeds, Faithful, Calls, Carries
  <2> QED
    BY <1>3, <2>1, FaithfulKept DEF Proceeds, OnlyCaller, Copies
<1>4. ASSUME NEW c \in Callers, Moves(c)
      PROVE  Copies'
  <2>1. Faithful(c)'
    BY <1>4, IdleCarries DEF Moves, Faithful
  <2> QED
    BY <1>4, <2>1, FaithfulKept DEF Moves, OnlyCaller, Copies
<1>5. ASSUME NEW c \in Callers, Writes(c)
      PROVE  Copies'
  <2>1. OnlyCaller(c) /\ caller'[c] = IdleCaller
    BY <1>5, WriteEffect
  <2> QED
    BY <2>1, IdleCarries, FaithfulKept DEF OnlyCaller, Copies
<1>6. ASSUME NEW c \in Callers, Compensate(c)
      PROVE  Copies'
  <2>1. OnlyCaller(c) /\ caller'[c] = IdleCaller
    BY <1>6, CompensateEffect
  <2> QED
    BY <2>1, IdleCarries, FaithfulKept DEF OnlyCaller, Copies
<1>7. ASSUME NEW i \in Keys, ResumeAttentionParents(i)
      PROVE  Copies'
  <2>1. UNCHANGED caller
    BY <1>7 DEF ResumeAttentionParents
  <2> QED
    BY <2>1, FaithfulKept DEF Copies
<1>8. ASSUME NEW w \in Workers, NEW i \in Keys, NEW r \in Keys, Claim(w, i, r)
      PROVE  Copies'
  <2>1. UNCHANGED caller
    BY <1>8 DEF Claim
  <2> QED
    BY <2>1, FaithfulKept DEF Copies
<1>9. ASSUME NEW w \in Workers, ReleaseCapacity(w)
      PROVE  Copies'
  <2>1. UNCHANGED caller
    BY <1>9 DEF ReleaseCapacity
  <2> QED
    BY <2>1, FaithfulKept DEF Copies
<1>10. ASSUME NEW w \in Workers, WorkerMoves(w)
      PROVE  Copies'
  <2>1. UNCHANGED caller
    BY <1>10 DEF WorkerMoves
  <2> QED
    BY <2>1, FaithfulKept DEF Copies
<1>11. ASSUME NEW w \in Workers, NEW state \in {"completed", "failed", "dead_letter"}, Closes(w, state)
      PROVE  Copies'
  <2>1. UNCHANGED caller
    BY <1>11 DEF Closes
  <2> QED
    BY <2>1, FaithfulKept DEF Copies
<1>12. ASSUME NEW i \in Keys, NEW r \in Keys, Rearms(i, r)
      PROVE  Copies'
  <2>1. UNCHANGED caller
    BY <1>12 DEF Rearms
  <2> QED
    BY <2>1, FaithfulKept DEF Copies
<1>13. CASE UNCHANGED vars
  BY <1>13 DEF Copies, Faithful, vars
<1> QED
  BY <1>1, <1>2, <1>3, <1>4, <1>5, <1>6, <1>7, <1>8, <1>9, <1>10, <1>11, <1>12, <1>13, Steps

\* What has been used for an item before is used for it now; what appears
\* anew has to be accounted for.
LEMMA OwnershipKept ==
    ASSUME TypeOK, Calls, Ownership, [Next]_vars,
           \A i \in Keys : item'[i].state # "absent" =>
               \/ item[i].state # "absent" /\ item'[i].reservation = item[i].reservation
               \/ Owns(i, item[i].reservation)',
           \A i, r \in Keys : job'[<<i, r>>].state # "absent" => job[<<i, r>>].state # "absent" \/ Owns(i, r)',
           \A w \in Workers : worker'[w].pc # "idle" =>
               \E i, r \in Keys : /\ worker'[w].item = i /\ worker'[w].reservation = r
                                  /\ Owns(i, r) \/ Owns(i, r)'
    PROVE  Ownership'
<1>1. \A i \in Keys : item[i].reservation \in Keys
  BY Fields
<1>2. \A i \in Keys : item'[i].state # "absent" => Owns(i, item[i].reservation)'
  BY <1>1, OwnsStable DEF Ownership
<1>3. \A i, r \in Keys : job'[<<i, r>>].state # "absent" => Owns(i, r)'
  BY OwnsStable DEF Ownership
<1>4. \A w \in Workers : worker'[w].pc # "idle" => Owns(worker[w].item, worker[w].reservation)'
  BY OwnsStable
<1> QED
  BY <1>2, <1>3, <1>4 DEF Ownership, Busy

\* The row a call writes carries a reservation used for its item: its own,
\* or the one the item had.
LEMMA WriteOwner ==
    ASSUME TypeOK, Calls, Copies, Ownership, [Next]_vars, NEW c \in Callers, Writes(c), NEW i, NEW r,
           i = caller[c].target, r = caller[c].row.reservation
    PROVE  Owns(i, r)'
<1>1. i \in Keys /\ r \in Keys /\ caller[c].key \in Keys \cup {"none"} /\ caller[c].version \in Nat
  BY Fields
<1>2. CASE caller[c].key \in Keys
  <2>1. /\ r = caller[c].key /\ intent[r].op # "none" /\ intent[r].item = i /\ intent[r].version = caller[c].version
        /\ caller[c].row.version = caller[c].version + 1 /\ reservation[r] # "absent"
    BY <1>2 DEF Writes, Calls, Carries
  <2>2. item'[i] = caller[c].row
    BY WriteEffect
  <2>3. UNCHANGED <<reservation, intent>>
    BY DEF Writes
  <2> QED
    BY <1>1, <2>1, <2>2, <2>3 DEF Owns
<1>3. CASE caller[c].key = "none"
  <2>1. caller[c].pc = "update" /\ item[i].version = caller[c].version
    BY <1>3, ConstantsAssumption DEF Writes, Calls, Carries
  <2>2. item[i].state # "absent" /\ r = item[i].reservation
    BY <1>3, <2>1 DEF Copies, Faithful
  <2> QED
    BY <1>1, <2>2, OwnsStable DEF Ownership
<1> QED
  BY <1>1, <1>2, <1>3

\* Reservations go on being used for the items they were asked for.
LEMMA NextOwnership ==
    ASSUME TypeOK, Calls, Copies, Ownership, [Next]_vars
    PROVE  Ownership'
<1>1. ASSUME NEW c \in Callers, NEW k \in Keys, BeginsKeyed(c, k)
      PROVE  Ownership'
  <2>1. UNCHANGED <<item, job, worker>>
    BY <1>1 DEF BeginsKeyed
  <2> QED
    BY <2>1, OwnershipKept, Fields DEF Ownership, Busy
<1>2. ASSUME NEW c \in Callers, BeginsCopy(c)
      PROVE  Ownership'
  <2>1. UNCHANGED <<item, job, worker>>
    BY <1>2 DEF BeginsCopy
  <2> QED
    BY <2>1, OwnershipKept, Fields DEF Ownership, Busy
<1>3. ASSUME NEW c \in Callers, Proceeds(c)
      PROVE  Ownership'
  <2>1. UNCHANGED <<item, job, worker>>
    BY <1>3 DEF Proceeds
  <2> QED
    BY <2>1, OwnershipKept, Fields DEF Ownership, Busy
<1>4. ASSUME NEW c \in Callers, Moves(c)
      PROVE  Ownership'
  <2>1. UNCHANGED <<item, job, worker>>
    BY <1>4 DEF Moves
  <2> QED
    BY <2>1, OwnershipKept, Fields DEF Ownership, Busy
<1>5. ASSUME NEW c \in Callers, Writes(c)
      PROVE  Ownership'
  <2>1. PICK i \in Keys, r \in Keys : i = caller[c].target /\ r = caller[c].row.reservation
    BY Fields
  <2>2. Owns(i, r)'
    BY <1>5, <2>1, WriteOwner
  <2>3. item'[i].reservation = r /\ \A j \in Keys \ {i} : item'[j] = item[j]
    BY <1>5, <2>1, WriteEffect
  <2>4. \A j, s \in Keys : job'[<<j, s>>] = job[<<j, s>>] \/ (j = i /\ s = r)
    <3>1. \A p \in Keys \X Keys : job'[p] = job[p] \/ p = <<i, r>>
      BY <1>5, <2>1, WriteEffect
    <3> QED
      BY <3>1
  <2>5. UNCHANGED worker
    BY <1>5 DEF Writes
  <2> QED
    BY <2>2, <2>3, <2>4, <2>5, OwnershipKept, Fields DEF Ownership, Busy
<1>6. ASSUME NEW c \in Callers, Compensate(c)
      PROVE  Ownership'
  <2>1. UNCHANGED <<item, job, worker>>
    BY <1>6 DEF Compensate
  <2> QED
    BY <2>1, OwnershipKept, Fields DEF Ownership, Busy
<1>7. ASSUME NEW i \in Keys, ResumeAttentionParents(i)
      PROVE  Ownership'
  <2>1. UNCHANGED <<job, worker>>
    BY <1>7 DEF ResumeAttentionParents
  <2>2. \A j \in Keys : item'[j].state # "absent" => item[j].state # "absent" /\ item'[j].reservation = item[j].reservation
    BY <1>7, ResumeEffect DEF ActiveStates
  <2> QED
    BY <2>1, <2>2, OwnershipKept, Fields DEF Ownership, Busy
<1>8. ASSUME NEW w \in Workers, NEW i \in Keys, NEW r \in Keys, Claim(w, i, r)
      PROVE  Ownership'
  <2>1. Owns(i, r)
    BY <1>8, ClaimEffect DEF Ownership
  <2>2. \A j, s \in Keys : job'[<<j, s>>] = job[<<j, s>>] \/ job[<<j, s>>].state # "absent"
    BY <1>8, ClaimEffect
  <2>3. /\ UNCHANGED item /\ worker'[w].item = i /\ worker'[w].reservation = r
        /\ \A v \in Workers \ {w} : worker'[v] = worker[v]
    BY <1>8, ClaimEffect, ZenonT(40) DEF OnlyWorker
  <2> QED
    BY <2>1, <2>2, <2>3, OwnershipKept, Fields DEF Ownership, Busy
<1>9. ASSUME NEW w \in Workers, ReleaseCapacity(w)
      PROVE  Ownership'
  <2>1. /\ UNCHANGED <<item, job>> /\ worker[w].pc # "idle" /\ \A v \in Workers \ {w} : worker'[v] = worker[v]
        /\ worker'[w].item = worker[w].item /\ worker'[w].reservation = worker[w].reservation
    BY <1>9, ReleaseEffect DEF OnlyWorker
  <2> QED
    BY <2>1, OwnershipKept, Fields DEF Ownership, Busy
<1>10. ASSUME NEW w \in Workers, WorkerMoves(w)
      PROVE  Ownership'
  <2>1. /\ UNCHANGED <<item, job>> /\ worker[w].pc # "idle" /\ \A v \in Workers \ {w} : worker'[v] = worker[v]
        /\ \/ worker'[w].pc = "idle"
           \/ worker'[w].item = worker[w].item /\ worker'[w].reservation = worker[w].reservation
    BY <1>10 DEF WorkerMoves, OnlyWorker, IdleWorker
  <2> QED
    BY <2>1, OwnershipKept, Fields DEF Ownership, Busy
<1>11. ASSUME NEW w \in Workers, NEW state \in {"completed", "failed", "dead_letter"}, Closes(w, state)
      PROVE  Ownership'
  <2>1. \A j \in Keys : item'[j].state = item[j].state /\ item'[j].reservation = item[j].reservation
    BY <1>11, CloseEffect
  <2>2. \A j, s \in Keys : job'[<<j, s>>] = job[<<j, s>>] \/ job[<<j, s>>].state # "absent"
    BY <1>11, CloseEffect
  <2>3. worker'[w].pc = "idle" /\ \A v \in Workers \ {w} : worker'[v] = worker[v]
    <3>1. OnlyWorker(w) /\ worker'[w] = IdleWorker
      BY <1>11, CloseEffect, ZenonT(40)
    <3> QED
      BY <3>1 DEF OnlyWorker, IdleWorker
  <2> QED
    BY <2>1, <2>2, <2>3, OwnershipKept, Fields DEF Ownership, Busy
<1>12. ASSUME NEW i \in Keys, NEW r \in Keys, Rearms(i, r)
      PROVE  Ownership'
  <2>1. UNCHANGED <<item, worker>> /\ \A j, s \in Keys : job'[<<j, s>>] = job[<<j, s>>] \/ job[<<j, s>>].state # "absent"
    BY <1>12 DEF Rearms
  <2> QED
    BY <2>1, OwnershipKept, Fields DEF Ownership, Busy
<1>13. CASE UNCHANGED vars
  BY <1>13 DEF Ownership, Owns, Busy, vars
<1> QED
  BY <1>1, <1>2, <1>3, <1>4, <1>5, <1>6, <1>7, <1>8, <1>9, <1>10, <1>11, <1>12, <1>13, Steps

\* A key that owns nothing yet is not referred to.
LEMMA NotOwning ==
    ASSUME TypeOK, Ownership, NEW k \in Keys, \A j \in Keys : ~Owns(j, k)
    PROVE  Unused(k)
  BY Fields DEF Ownership, Unused

\* While the write a call reserved for has not happened, its key owns nothing.
LEMMA BeforeWrite ==
    ASSUME TypeOK, Calls, Ownership, NEW c \in Callers, caller[c].key \in Keys,
           item[caller[c].target].version <= caller[c].version
    PROVE  Unused(caller[c].key)
<1>1. \A j \in Keys : ~Owns(j, caller[c].key)
  BY Fields DEF Calls, Carries, Owns
<1> QED
  BY <1>1, NotOwning

\* The capacity of active Work stays out of the reconcilers' way.
LEMMA NextNotReleasing ==
    ASSUME TypeOK, Calls, Copies, Ownership, NotReleasing, [Next]_vars
    PROVE  NotReleasing'
<1>1. ASSUME NEW c \in Callers, NEW k \in Keys, BeginsKeyed(c, k)
      PROVE  NotReleasing'
  <2>1. UNCHANGED <<item, job, worker>>
    BY <1>1 DEF BeginsKeyed
  <2> QED
    BY <2>1 DEF NotReleasing, Active, Busy
<1>2. ASSUME NEW c \in Callers, BeginsCopy(c)
      PROVE  NotReleasing'
  <2>1. UNCHANGED <<item, job, worker>>
    BY <1>2 DEF BeginsCopy
  <2> QED
    BY <2>1 DEF NotReleasing, Active, Busy
<1>3. ASSUME NEW c \in Callers, Proceeds(c)
      PROVE  NotReleasing'
  <2>1. UNCHANGED <<item, job, worker>>
    BY <1>3 DEF Proceeds
  <2> QED
    BY <2>1 DEF NotReleasing, Active, Busy
<1>4. ASSUME NEW c \in Callers, Moves(c)
      PROVE  NotReleasing'
  <2>1. UNCHANGED <<item, job, worker>>
    BY <1>4 DEF Moves
  <2> QED
    BY <2>1 DEF NotReleasing, Active, Busy
<1>5. ASSUME NEW c \in Callers, Writes(c)
      PROVE  NotReleasing'
  <2>1. PICK i \in Keys, r \in Keys, row \in Item : i = caller[c].target /\ row = caller[c].row /\ r = row.reservation
    BY Fields
  <2>2. item'[i] = row /\ \A j \in Keys \ {i} : item'[j] = item[j]
    BY <1>5, <2>1, WriteEffect
  <2>3. \A p \in Keys \X Keys : job'[p] = job[p] \/ (p = <<i, r>> /\ row.state \in TerminalStates)
    BY <1>5, <2>1, WriteEffect
  <2>4. UNCHANGED worker
    BY <1>5 DEF Writes
  <2>5. ASSUME row.state \in ActiveStates
        PROVE  /\ job[<<i, r>>].state = "absent"
               /\ \A w \in Workers : Busy(w) => <<worker[w].item, worker[w].reservation>> # <<i, r>>
    <3>1. CASE caller[c].key \in Keys
      <4>1. Unused(r)
        BY <1>5, <2>1, <3>1, BeforeWrite DEF Writes, Calls, Carries
      <4> QED
        BY <4>1 DEF Unused
    <3>2. CASE caller[c].key = "none"
      <4>1. caller[c].pc = "update" /\ item[i].version = caller[c].version
        BY <1>5, <2>1, <3>2, ConstantsAssumption DEF Writes, Calls, Carries
      <4>2. r = item[i].reservation /\ item[i].state \in ActiveStates
        BY <2>1, <2>5, <3>2, <4>1 DEF Copies, Faithful
      <4> QED
        BY <4>2 DEF NotReleasing, Active
    <3> QED
      BY <3>1, <3>2, Fields
  <2>6. row.state \in ActiveStates => row.state \notin TerminalStates
    BY DEF ActiveStates, TerminalStates
  <2>7. ASSUME NEW j \in Keys, item'[j].state \in ActiveStates
        PROVE  /\ job'[<<j, item'[j].reservation>>].state = "absent"
               /\ \A w \in Workers : Busy(w) => <<worker[w].item, worker[w].reservation>> # <<j, item'[j].reservation>>
    <3>1. CASE j = i
      BY <2>1, <2>2, <2>3, <2>5, <2>6, <2>7, <3>1
    <3>2. CASE j # i
      <4>1. item'[j] = item[j] /\ item[j].reservation \in Keys
        BY <2>2, <3>2, Fields
      <4>2. job'[<<j, item[j].reservation>>] = job[<<j, item[j].reservation>>]
        BY <2>3, <3>2, <4>1
      <4> QED
        BY <2>7, <4>1, <4>2 DEF NotReleasing, Active
    <3> QED
      BY <3>1, <3>2
  <2> QED
    BY <2>4, <2>7 DEF NotReleasing, Active, Busy
<1>6. ASSUME NEW c \in Callers, Compensate(c)
      PROVE  NotReleasing'
  <2>1. UNCHANGED <<item, job, worker>>
    BY <1>6 DEF Compensate
  <2> QED
    BY <2>1 DEF NotReleasing, Active, Busy
<1>7. ASSUME NEW i \in Keys, ResumeAttentionParents(i)
      PROVE  NotReleasing'
  <2>1. UNCHANGED <<job, worker>>
    BY <1>7 DEF ResumeAttentionParents
  <2>2. \A j \in Keys : item'[j].reservation = item[j].reservation /\ (item'[j].state \in ActiveStates => item[j].state \in ActiveStates)
    BY <1>7, ResumeEffect
  <2> QED
    BY <2>1, <2>2 DEF NotReleasing, Active, Busy
<1>8. ASSUME NEW w \in Workers, NEW i \in Keys, NEW r \in Keys, Claim(w, i, r)
      PROVE  NotReleasing'
  <2>1. /\ UNCHANGED item /\ worker'[w].item = i /\ worker'[w].reservation = r
        /\ \A v \in Workers \ {w} : worker'[v] = worker[v]
        /\ job[<<i, r>>].state # "absent"
        /\ \A p \in Keys \X Keys : p # <<i, r>> => job'[p] = job[p]
    BY <1>8, ClaimEffect DEF OnlyWorker
  <2>2. \A j \in Active : <<j, item[j].reservation>> # <<i, r>> /\ <<j, item[j].reservation>> \in Keys \X Keys
    BY <2>1, Fields DEF NotReleasing, Active
  <2> QED
    BY <2>1, <2>2 DEF NotReleasing, Active, Busy
<1>9. ASSUME NEW w \in Workers, ReleaseCapacity(w)
      PROVE  NotReleasing'
  <2>1. /\ UNCHANGED <<item, job>> /\ Busy(w) /\ \A v \in Workers \ {w} : worker'[v] = worker[v]
        /\ worker'[w].item = worker[w].item /\ worker'[w].reservation = worker[w].reservation
    BY <1>9, ReleaseEffect DEF OnlyWorker, Busy
  <2> QED
    BY <2>1 DEF NotReleasing, Active, Busy
<1>10. ASSUME NEW w \in Workers, WorkerMoves(w)
      PROVE  NotReleasing'
  <2>1. /\ UNCHANGED <<item, job>> /\ Busy(w) /\ \A v \in Workers \ {w} : worker'[v] = worker[v]
        /\ \/ worker'[w].pc = "idle"
           \/ worker'[w].item = worker[w].item /\ worker'[w].reservation = worker[w].reservation
    BY <1>10 DEF WorkerMoves, OnlyWorker, IdleWorker, Busy
  <2> QED
    BY <2>1 DEF NotReleasing, Active, Busy
<1>11. ASSUME NEW w \in Workers, NEW state \in {"completed", "failed", "dead_letter"}, Closes(w, state)
      PROVE  NotReleasing'
  <2>1. \A j \in Keys : item'[j].state = item[j].state /\ item'[j].reservation = item[j].reservation
    BY <1>11, CloseEffect
  <2>2. PICK i \in Keys, r \in Keys : i = worker[w].item /\ r = worker[w].reservation
    BY Fields
  <2>3. job[<<i, r>>].state = "processing" /\ \A p \in Keys \X Keys : p # <<i, r>> => job'[p] = job[p]
    BY <1>11, <2>2, CloseEffect
  <2>4. OnlyWorker(w) /\ worker'[w] = IdleWorker
    BY <1>11, CloseEffect, ZenonT(40)
  <2>5. worker'[w].pc = "idle" /\ \A v \in Workers \ {w} : worker'[v] = worker[v]
    BY <2>4 DEF OnlyWorker, IdleWorker
  <2>6. \A j \in Active : <<j, item[j].reservation>> # <<i, r>> /\ <<j, item[j].reservation>> \in Keys \X Keys
    BY <2>3, Fields DEF NotReleasing, Active
  <2> QED
    BY <2>1, <2>3, <2>5, <2>6 DEF NotReleasing, Active, Busy
<1>12. ASSUME NEW i \in Keys, NEW r \in Keys, Rearms(i, r)
      PROVE  NotReleasing'
  <2>1. /\ UNCHANGED <<item, worker>> /\ job[<<i, r>>].state # "absent"
        /\ \A p \in Keys \X Keys : p # <<i, r>> => job'[p] = job[p]
    BY <1>12 DEF Rearms
  <2>2. \A j \in Active : <<j, item[j].reservation>> # <<i, r>> /\ <<j, item[j].reservation>> \in Keys \X Keys
    BY <2>1, Fields DEF NotReleasing, Active
  <2> QED
    BY <2>1, <2>2 DEF NotReleasing, Active, Busy
<1>13. CASE UNCHANGED vars
  BY <1>13 DEF NotReleasing, Active, Busy, vars
<1> QED
  BY <1>1, <1>2, <1>3, <1>4, <1>5, <1>6, <1>7, <1>8, <1>9, <1>10, <1>11, <1>12, <1>13, Steps

\* What is recorded as released stays released, and the rest stays queued.
LEMMA NextTracked ==
    ASSUME TypeOK, Calls, Copies, Ownership, Tracked, [Next]_vars
    PROVE  Tracked'
<1>1. ASSUME NEW c \in Callers, NEW k \in Keys, BeginsKeyed(c, k)
      PROVE  Tracked'
  <2>1. UNCHANGED <<reservation, item, job, worker>>
    BY <1>1 DEF BeginsKeyed
  <2> QED
    BY <2>1 DEF Tracked, ReleasesTracked, TerminalReleaseQueued, CheckpointTruthful
<1>2. ASSUME NEW c \in Callers, BeginsCopy(c)
      PROVE  Tracked'
  <2>1. UNCHANGED <<reservation, item, job, worker>>
    BY <1>2 DEF BeginsCopy
  <2> QED
    BY <2>1 DEF Tracked, ReleasesTracked, TerminalReleaseQueued, CheckpointTruthful
<1>3. ASSUME NEW c \in Callers, Proceeds(c)
      PROVE  Tracked'
  <2>1. PICK k \in Keys : k = caller[c].key
    BY <1>3 DEF Proceeds, Calls, Carries
  <2>2. /\ UNCHANGED <<item, job, worker>> /\ reservation[k] \in {"absent", "active"} /\ reservation'[k] = "active"
        /\ \A l \in Keys \ {k} : reservation'[l] = reservation[l]
    BY <1>3, <2>1 DEF Proceeds, TypeOK
  <2>3. CASE reservation[k] = "active"
    BY <2>2, <2>3, Fields DEF Tracked, ReleasesTracked, TerminalReleaseQueued, CheckpointTruthful
  <2>4. CASE reservation[k] = "absent"
    <3>1. Unused(k)
      BY <2>4, NotOwning DEF Owns
    <3>2. \A j \in Keys : item[j].reservation \in Keys /\ (item[j].released => item[j].state # "absent")
      BY Fields DEF Tracked, ReleasesTracked, CheckpointTruthful, TerminalStates
    <3> QED
      BY <2>2, <3>1, Fields
         DEF Tracked, ReleasesTracked, TerminalReleaseQueued, CheckpointTruthful, TerminalStates, Unused
  <2> QED
    BY <2>2, <2>3, <2>4
<1>4. ASSUME NEW c \in Callers, Moves(c)
      PROVE  Tracked'
  <2>1. UNCHANGED <<reservation, item, job, worker>>
    BY <1>4 DEF Moves
  <2> QED
    BY <2>1 DEF Tracked, ReleasesTracked, TerminalReleaseQueued, CheckpointTruthful
<1>5. ASSUME NEW c \in Callers, Writes(c)
      PROVE  Tracked'
  <2>1. PICK i \in Keys, r \in Keys, row \in Item : i = caller[c].target /\ row = caller[c].row /\ r = row.reservation
    BY Fields
  <2>2. item'[i] = row /\ \A j \in Keys \ {i} : item'[j] = item[j]
    BY <1>5, <2>1, WriteEffect
  <2>3. /\ \A p \in Keys \X Keys : job'[p] = job[p] \/ (job[p].state = "absent" /\ job'[p].state = "pending")
        /\ row.state \in TerminalStates /\ ~row.released => job'[<<i, r>>].state # "absent"
    BY <1>5, <2>1, WriteEffect
  <2>4. UNCHANGED <<reservation, worker>>
    BY <1>5 DEF Writes
  <2>5. \A j, s \in Keys : job'[<<j, s>>].state = "completed" => reservation[s] = "released"
    <3>1. \A p \in Keys \X Keys : job'[p].state = "completed" => job[p].state = "completed"
      BY <2>3
    <3> QED
      BY <3>1 DEF Tracked
  <2>6. row.released => row.state \in TerminalStates /\ reservation[r] = "released"
    <3>1. CASE caller[c].key \in Keys
      BY <1>5, <2>1, <3>1 DEF Calls, Carries
    <3>2. CASE caller[c].key = "none"
      <4>1. caller[c].pc = "update" /\ item[i].version = caller[c].version
        BY <1>5, <2>1, <3>2, ConstantsAssumption DEF Writes, Calls, Carries
      <4>2. r = item[i].reservation /\ (row.released => item[i].released /\ row.state = item[i].state)
        BY <2>1, <3>2, <4>1 DEF Copies, Faithful
      <4> QED
        BY <4>2 DEF Tracked, ReleasesTracked, CheckpointTruthful
    <3> QED
      BY <3>1, <3>2, Fields
  <2>7. CheckpointTruthful'
    BY <2>1, <2>2, <2>4, <2>6 DEF Tracked, ReleasesTracked, CheckpointTruthful
  <2>8. TerminalReleaseQueued'
    <3> SUFFICES ASSUME NEW j \in Keys, item'[j].state \in TerminalStates, reservation[item'[j].reservation] = "active"
                 PROVE  job'[<<j, item'[j].reservation>>].state \notin {"absent", "completed"}
      BY <2>4 DEF TerminalReleaseQueued
    <3>1. CASE j = i
      BY <2>1, <2>2, <2>3, <2>5, <2>6, <3>1
    <3>2. CASE j # i
      <4>1. item'[j] = item[j] /\ <<j, item[j].reservation>> \in Keys \X Keys
        BY <2>2, <3>2, Fields
      <4> QED
        BY <2>3, <4>1 DEF Tracked, ReleasesTracked, TerminalReleaseQueued
    <3> QED
      BY <3>1, <3>2
  <2> QED
    BY <2>4, <2>5, <2>7, <2>8 DEF Tracked, ReleasesTracked
<1>6. ASSUME NEW c \in Callers, Compensate(c)
      PROVE  Tracked'
  <2>1. /\ UNCHANGED <<item, job, worker>>
        /\ \A l \in Keys : reservation'[l] = reservation[l] \/ (reservation[l] = "active" /\ reservation'[l] = "released")
    BY <1>6, CompensateEffect
  <2> QED
    BY <2>1, Fields DEF Tracked, ReleasesTracked, TerminalReleaseQueued, CheckpointTruthful
<1>7. ASSUME NEW i \in Keys, ResumeAttentionParents(i)
      PROVE  Tracked'
  <2>1. UNCHANGED <<reservation, job, worker>>
    BY <1>7 DEF ResumeAttentionParents
  <2>2. \A j \in Keys : \/ item'[j] = item[j]
                        \/ /\ item[j].state \in ActiveStates /\ item'[j].state \in ActiveStates
                           /\ item'[j].released = item[j].released
    BY <1>7, ResumeEffect
  <2> QED
    BY <2>1, <2>2
       DEF Tracked, ReleasesTracked, TerminalReleaseQueued, CheckpointTruthful, ActiveStates, TerminalStates
<1>8. ASSUME NEW w \in Workers, NEW i \in Keys, NEW r \in Keys, Claim(w, i, r)
      PROVE  Tracked'
  <2>1. /\ UNCHANGED <<reservation, item>> /\ worker'[w].pc = "release"
        /\ \A v \in Workers \ {w} : worker'[v] = worker[v]
        /\ \A p \in Keys \X Keys : job'[p] = job[p] \/ job'[p].state = "processing"
    BY <1>8, ClaimEffect, ZenonT(40) DEF OnlyWorker
  <2>2. \A j \in Keys : <<j, item[j].reservation>> \in Keys \X Keys
    BY Fields
  <2> QED
    BY <2>1, <2>2 DEF Tracked, ReleasesTracked, TerminalReleaseQueued, CheckpointTruthful
<1>9. ASSUME NEW w \in Workers, ReleaseCapacity(w)
      PROVE  Tracked'
  <2>1. PICK r \in Keys : r = worker[w].reservation
    BY Fields
  <2>2. /\ UNCHANGED <<item, job>> /\ \A v \in Workers \ {w} : worker'[v] = worker[v]
        /\ reservation'[r] = IF reservation[r] = "active" THEN "released" ELSE reservation[r]
        /\ \A k \in Keys \ {r} : reservation'[k] = reservation[k]
        /\ worker'[w].reservation = r /\ worker'[w].pc = IF reservation[r] = "absent" THEN "fail" ELSE "complete"
    BY <1>9, <2>1, ReleaseEffect DEF OnlyWorker
  <2>3. reservation[r] \in {"absent", "active", "released"}
    BY DEF TypeOK
  <2> QED
    BY <2>1, <2>2, <2>3, Fields DEF Tracked, ReleasesTracked, TerminalReleaseQueued, CheckpointTruthful
<1>10. ASSUME NEW w \in Workers, WorkerMoves(w)
      PROVE  Tracked'
  <2>1. /\ UNCHANGED <<reservation, item, job>> /\ worker'[w].pc # "complete"
        /\ \A v \in Workers \ {w} : worker'[v] = worker[v]
    BY <1>10 DEF WorkerMoves, OnlyWorker, IdleWorker
  <2> QED
    BY <2>1 DEF Tracked, ReleasesTracked, TerminalReleaseQueued, CheckpointTruthful
<1>11. ASSUME NEW w \in Workers, NEW state \in {"completed", "failed", "dead_letter"}, Closes(w, state)
      PROVE  Tracked'
  <2>1. PICK i \in Keys, r \in Keys : i = worker[w].item /\ r = worker[w].reservation
    BY Fields
  <2>2. state = "completed" => reservation[r] = "released"
    BY <1>11, <2>1 DEF Closes, Tracked
  <2>3. UNCHANGED reservation
    BY <1>11 DEF Closes
  <2>4. \A j \in Keys : /\ item'[j].state = item[j].state /\ item'[j].reservation = item[j].reservation
                        /\ \/ item'[j].released = item[j].released
                           \/ state = "completed" /\ item[j].reservation = r /\ item[j].state \in TerminalStates
    <3>1. \A j \in Keys : item'[j].state = item[j].state /\ item'[j].reservation = item[j].reservation
      BY <1>11, CloseEffect
    <3>2. \A j \in Keys : \/ item'[j].released = item[j].released
                          \/ /\ item'[j].released /\ state = "completed"
                             /\ item[j].reservation = worker[w].reservation /\ item[j].state \in TerminalStates
      BY <1>11, CloseEffect
    <3> QED
      BY <2>1, <3>1, <3>2
  <2>5. job'[<<i, r>>].state = state /\ \A p \in Keys \X Keys : p # <<i, r>> => job'[p] = job[p]
    <3>1. LET p == <<worker[w].item, worker[w].reservation>> IN
          job'[p].state = state /\ \A q \in Keys \X Keys : q # p => job'[q] = job[q]
      BY <1>11, CloseEffect
    <3> QED
      BY <2>1, <3>1
  <2>6. OnlyWorker(w) /\ worker'[w] = IdleWorker
    BY <1>11, CloseEffect, ZenonT(40)
  <2>7. worker'[w].pc = "idle" /\ \A v \in Workers \ {w} : worker'[v] = worker[v]
    BY <2>6 DEF OnlyWorker, IdleWorker
  <2>8. \A j, s \in Keys : \/ job'[<<j, s>>] = job[<<j, s>>]
                           \/ s = r /\ job'[<<j, s>>].state = state
    BY <2>5
  <2>9. CheckpointTruthful'
    BY <2>2, <2>3, <2>4 DEF Tracked, ReleasesTracked, CheckpointTruthful
  <2>10. TerminalReleaseQueued'
    BY <2>2, <2>3, <2>4, <2>8, Fields DEF Tracked, ReleasesTracked, TerminalReleaseQueued
  <2> QED
    BY <2>2, <2>3, <2>7, <2>8, <2>9, <2>10 DEF Tracked, ReleasesTracked
<1>12. ASSUME NEW i \in Keys, NEW r \in Keys, Rearms(i, r)
      PROVE  Tracked'
  <2>1. /\ UNCHANGED <<reservation, item, worker>>
        /\ \A p \in Keys \X Keys : p # <<i, r>> => job'[p] = job[p]
        /\ \/ job'[<<i, r>>].state = "pending"
           \/ job[<<i, r>>].state = "completed" /\ job'[<<i, r>>].state = "absent"
    BY <1>12 DEF Rearms
  <2>2. job[<<i, r>>].state = "completed" => reservation[r] = "released"
    BY DEF Tracked
  <2>3. \A j, s \in Keys : \/ job'[<<j, s>>] = job[<<j, s>>]
                           \/ s = r /\ job'[<<j, s>>].state = "pending"
                           \/ s = r /\ reservation[s] = "released" /\ job'[<<j, s>>].state = "absent"
    BY <2>1, <2>2
  <2> QED
    BY <2>1, <2>3, Fields DEF Tracked, ReleasesTracked, TerminalReleaseQueued, CheckpointTruthful
<1>13. CASE UNCHANGED vars
  BY <1>13 DEF Tracked, ReleasesTracked, TerminalReleaseQueued, CheckpointTruthful, vars
<1> QED
  BY <1>1, <1>2, <1>3, <1>4, <1>5, <1>6, <1>7, <1>8, <1>9, <1>10, <1>11, <1>12, <1>13, Steps

\* A call that writes or compensates is over.
LEMMA CallEnds ==
    ASSUME TypeOK, Calls, NEW c \in Callers, Writes(c) \/ Compensate(c)
    PROVE  caller'[c] = IdleCaller /\ \A d \in Callers \ {c} : caller'[d] = caller[d]
<1>1. OnlyCaller(c) /\ caller'[c] = IdleCaller
  BY WriteEffect, CompensateEffect
<1> QED
  BY <1>1 DEF OnlyCaller

\* A key nothing refers to stays so, unless its own call writes.
LEMMA UnusedKept ==
    ASSUME TypeOK, Calls, Copies, [Next]_vars, NEW k \in Keys, Unused(k),
           \A c \in Callers : Writes(c) => caller[c].key # k
    PROVE  Unused(k)'
<1>1. ASSUME UNCHANGED <<item, job, worker>>
      PROVE  Unused(k)'
  BY <1>1 DEF Unused, Busy
<1>2. ASSUME NEW c \in Callers, Writes(c)
      PROVE  Unused(k)'
  <2>1. PICK i \in Keys, row \in Item : i = caller[c].target /\ row = caller[c].row
    BY Fields
  <2>2. row.reservation # k
    <3>1. CASE caller[c].key \in Keys
      BY <1>2, <2>1, <3>1 DEF Calls, Carries
    <3>2. CASE caller[c].key = "none"
      <4>1. caller[c].pc = "update" /\ item[i].version = caller[c].version
        BY <1>2, <2>1, <3>2, ConstantsAssumption DEF Writes, Calls, Carries
      <4> QED
        BY <2>1, <3>2, <4>1 DEF Copies, Faithful, Unused
    <3> QED
      BY <3>1, <3>2, Fields
  <2>3. item'[i] = row /\ \A j \in Keys \ {i} : item'[j] = item[j]
    BY <1>2, <2>1, WriteEffect
  <2>4. \A p \in Keys \X Keys : job'[p] = job[p] \/ p = <<i, row.reservation>>
    BY <1>2, <2>1, WriteEffect
  <2>5. \A j \in Keys : job'[<<j, k>>] = job[<<j, k>>]
    BY <2>2, <2>4
  <2>6. UNCHANGED worker
    BY <1>2 DEF Writes
  <2> QED
    BY <2>2, <2>3, <2>5, <2>6 DEF Unused, Busy
<1>3. ASSUME NEW i \in Keys, ResumeAttentionParents(i)
      PROVE  Unused(k)'
  <2>1. UNCHANGED <<job, worker>>
    BY <1>3 DEF ResumeAttentionParents
  <2>2. \A j \in Keys : item'[j] = item[j] \/ (item[j].state # "absent" /\ item'[j].reservation = item[j].reservation)
    BY <1>3, ResumeEffect DEF ActiveStates
  <2> QED
    BY <2>1, <2>2 DEF Unused, Busy
<1>4. ASSUME NEW w \in Workers, NEW i \in Keys, NEW r \in Keys, Claim(w, i, r)
      PROVE  Unused(k)'
  <2>1. /\ UNCHANGED item /\ job[<<i, r>>].state # "absent" /\ worker'[w].reservation = r
        /\ \A p \in Keys \X Keys : p # <<i, r>> => job'[p] = job[p]
        /\ \A v \in Workers \ {w} : worker'[v] = worker[v]
    BY <1>4, ClaimEffect DEF OnlyWorker
  <2>2. r # k
    BY <2>1 DEF Unused
  <2>3. \A j \in Keys : job'[<<j, k>>] = job[<<j, k>>]
    BY <2>1, <2>2
  <2> QED
    BY <2>1, <2>2, <2>3 DEF Unused, Busy
<1>5. ASSUME NEW w \in Workers, ReleaseCapacity(w)
      PROVE  Unused(k)'
  <2>1. /\ UNCHANGED <<item, job>> /\ worker'[w].reservation = worker[w].reservation /\ Busy(w)
        /\ \A v \in Workers \ {w} : worker'[v] = worker[v]
    BY <1>5, ReleaseEffect DEF OnlyWorker, Busy
  <2> QED
    BY <2>1 DEF Unused, Busy
<1>6. ASSUME NEW w \in Workers, WorkerMoves(w)
      PROVE  Unused(k)'
  <2>1. /\ UNCHANGED <<item, job>> /\ Busy(w) /\ \A v \in Workers \ {w} : worker'[v] = worker[v]
        /\ worker'[w].pc = "idle" \/ worker'[w].reservation = worker[w].reservation
    BY <1>6 DEF WorkerMoves, OnlyWorker, IdleWorker, Busy
  <2> QED
    BY <2>1 DEF Unused, Busy
<1>7. ASSUME NEW w \in Workers, NEW state \in {"completed", "failed", "dead_letter"}, Closes(w, state)
      PROVE  Unused(k)'
  <2>1. PICK i \in Keys, r \in Keys : i = worker[w].item /\ r = worker[w].reservation
    BY Fields
  <2>2. \A j \in Keys : item'[j].state = item[j].state /\ item'[j].reservation = item[j].reservation
    BY <1>7, CloseEffect
  <2>3. r # k
    BY <1>7, <2>1 DEF Closes, Unused, Busy
  <2>4. \A p \in Keys \X Keys : p # <<i, r>> => job'[p] = job[p]
    <3>1. LET p == <<worker[w].item, worker[w].reservation>> IN
          job'[p].state = state /\ \A q \in Keys \X Keys : q # p => job'[q] = job[q]
      BY <1>7, CloseEffect
    <3> QED
      BY <2>1, <3>1
  <2>5. \A j \in Keys : job'[<<j, k>>] = job[<<j, k>>]
    BY <2>3, <2>4
  <2>6. OnlyWorker(w) /\ worker'[w] = IdleWorker
    BY <1>7, CloseEffect, ZenonT(40)
  <2>7. worker'[w].pc = "idle" /\ \A v \in Workers \ {w} : worker'[v] = worker[v]
    BY <2>6 DEF OnlyWorker, IdleWorker
  <2> QED
    BY <2>2, <2>5, <2>7 DEF Unused, Busy
<1>8. ASSUME NEW i \in Keys, NEW r \in Keys, Rearms(i, r)
      PROVE  Unused(k)'
  <2>1. /\ UNCHANGED <<item, worker>> /\ job[<<i, r>>].state # "absent"
        /\ \A p \in Keys \X Keys : p # <<i, r>> => job'[p] = job[p]
    BY <1>8 DEF Rearms
  <2>2. r # k
    BY <2>1 DEF Unused
  <2>3. \A j \in Keys : job'[<<j, k>>] = job[<<j, k>>]
    BY <2>1, <2>2
  <2> QED
    BY <2>1, <2>3 DEF Unused, Busy
<1> QED
  BY <1>1, <1>2, <1>3, <1>4, <1>5, <1>6, <1>7, <1>8, Steps
     DEF BeginsKeyed, BeginsCopy, Proceeds, Moves, Compensate, vars

\* The calls under a key exclude each other while nobody repeats a running
\* command.
LEMMA NextExclusiveKeys ==
    ASSUME TypeOK, Calls, ~DuplicateCalls, ExclusiveKeys, [Next]_vars
    PROVE  ExclusiveKeys'
<1>1. ASSUME NEW c \in Callers, NEW k \in Keys, BeginsKeyed(c, k)
      PROVE  ExclusiveKeys'
  <2>1. \A d \in Callers : caller[d].key # k
    BY <1>1 DEF BeginsKeyed, MayCall
  <2> QED
    BY <1>1, <2>1 DEF BeginsKeyed, OnlyCaller, ExclusiveKeys
<1>2. ASSUME NEW c \in Callers, OnlyCaller(c), caller'[c].key \in {"none", caller[c].key}
      PROVE  ExclusiveKeys'
  BY <1>2, ConstantsAssumption DEF OnlyCaller, ExclusiveKeys
<1>3. ASSUME NEW c \in Callers, BeginsCopy(c) \/ Proceeds(c) \/ Moves(c)
      PROVE  ExclusiveKeys'
  BY <1>2, <1>3 DEF BeginsCopy, Proceeds, Moves, IdleCaller
<1>4. ASSUME NEW c \in Callers, Writes(c) \/ Compensate(c)
      PROVE  ExclusiveKeys'
  <2>1. OnlyCaller(c) /\ caller'[c] = IdleCaller
    BY <1>4, WriteEffect, CompensateEffect
  <2> QED
    BY <1>2, <2>1 DEF IdleCaller
<1>5. ASSUME UNCHANGED caller
      PROVE  ExclusiveKeys'
  BY <1>5 DEF ExclusiveKeys
<1> QED
  BY <1>1, <1>3, <1>4, <1>5, Steps
     DEF ResumeAttentionParents, Claim, ReleaseCapacity, WorkerMoves, Closes, Rearms, vars

\* A call that may compensate stays the only user of its reservation.
LEMMA NextCompensable ==
    ASSUME TypeOK, Calls, Copies, Ownership, ~DuplicateCalls, ExclusiveKeys, Compensable, [Next]_vars
    PROVE  Compensable'
<1> SUFFICES ASSUME NEW c \in Callers, caller'[c].created
             PROVE  Unused(caller[c].key)'
  BY DEF Compensable
<1>1. PICK k \in Keys : k = caller'[c].key
  BY NextCalls DEF Calls, Carries
<1>2. Unused(k) /\ caller[c].key = k
  <2>1. CASE caller[c].created /\ caller'[c].key = caller[c].key
    BY <1>1, <2>1 DEF Compensable
  <2>2. CASE Proceeds(c) /\ caller[c].key = k /\ reservation[k] = "absent"
    BY <2>2, NotOwning DEF Owns
  <2>3. ~IdleCaller.created
    BY DEF IdleCaller
  <2>4. ASSUME NEW d \in Callers, Writes(d) \/ Compensate(d)
        PROVE  d # c /\ caller'[c] = caller[c]
    BY <2>3, <2>4, CallEnds
  <2>5. ASSUME NEW d \in Callers, BeginsCopy(d) \/ Moves(d) \/ Proceeds(d) \/ \E l \in Keys : BeginsKeyed(d, l)
        PROVE  \/ caller[c].created /\ caller'[c].key = caller[c].key
               \/ Proceeds(c) /\ caller[c].key = k /\ reservation[k] = "absent"
    <3>1. CASE d # c
      BY <2>5, <3>1 DEF OnlyCaller, BeginsCopy, Moves, Proceeds, BeginsKeyed
    <3>2. CASE d = c
      <4>1. CASE Proceeds(c)
        BY <1>1, <4>1 DEF Proceeds
      <4> QED
        BY <2>3, <2>5, <3>2, <4>1 DEF BeginsCopy, Moves, BeginsKeyed
    <3> QED
      BY <3>1, <3>2
  <2>6. CASE UNCHANGED caller
    BY <2>1, <2>6
  <2> QED
    BY <2>1, <2>2, <2>4, <2>5, <2>6, Steps
       DEF ResumeAttentionParents, Claim, ReleaseCapacity, WorkerMoves, Closes, Rearms, vars
<1>3. \A d \in Callers : Writes(d) => caller[d].key # k
  <2> SUFFICES ASSUME NEW d \in Callers, Writes(d), caller[d].key = k
               PROVE  FALSE
    OBVIOUS
  <2>1. d = c
    BY <1>2 DEF ExclusiveKeys
  <2>2. ~caller'[d].created
    BY CallEnds DEF IdleCaller
  <2> QED
    BY <2>1, <2>2
<1> QED
  BY <1>1, <1>2, <1>3, UnusedKept

\* Neither a reconciler nor another call takes away the reservation of a call
\* that may still write.
LEMMA NextHolding ==
    ASSUME TypeOK, Calls, Copies, Ownership, ~DuplicateCalls, ExclusiveKeys, Holding, [Next]_vars
    PROVE  Holding'
<1> SUFFICES ASSUME NEW c \in Callers, caller'[c].key \in Keys, caller'[c].pc \in {"load", "insert", "update"},
                    item'[caller'[c].target].version <= caller'[c].version
             PROVE  reservation'[caller'[c].key] = "active"
  BY DEF Holding
<1>1. PICK k \in Keys, i \in Keys : k = caller'[c].key /\ i = caller'[c].target
  BY NextTypeOK DEF TypeOK, Caller
<1>2. item[i].version <= caller'[c].version
  <2>1. item'[i].version >= item[i].version
    BY NextGrows DEF Grows
  <2>2. item[i].version \in Nat /\ item'[i].version \in Nat /\ caller'[c].version \in Nat
    BY Fields, NextTypeOK DEF TypeOK, Item, Caller
  <2> QED
    BY <1>1, <2>1, <2>2
<1>3. IdleCaller.pc = "idle" /\ IdleCaller.key \notin Keys
  BY ConstantsAssumption DEF IdleCaller
<1>4. CASE Proceeds(c)
  BY <1>1, <1>4 DEF Proceeds, TypeOK
<1>5. CASE ~Proceeds(c)
  <2>1. /\ caller[c].key = k /\ caller[c].target = i /\ caller[c].version = caller'[c].version
        /\ caller[c].pc \in {"load", "insert", "update"}
    <3>1. ASSUME NEW d \in Callers, Writes(d) \/ Compensate(d)
          PROVE  d # c /\ caller'[c] = caller[c]
      BY <1>3, <3>1, CallEnds
    <3>2. ASSUME NEW d \in Callers, BeginsCopy(d) \/ Moves(d) \/ Proceeds(d) \/ \E l \in Keys : BeginsKeyed(d, l)
          PROVE  \/ caller'[c] = caller[c]
                 \/ /\ caller[c].key = k /\ caller[c].target = i /\ caller[c].version = caller'[c].version
                    /\ caller[c].pc \in {"load", "insert", "update"}
      <4>1. CASE d # c
        BY <3>2, <4>1 DEF OnlyCaller, BeginsCopy, Moves, Proceeds, BeginsKeyed
      <4>2. CASE d = c
        BY <1>1, <1>3, <1>5, <3>2, <4>2, ConstantsAssumption DEF BeginsCopy, Moves, BeginsKeyed
      <4> QED
        BY <4>1, <4>2
    <3>3. CASE UNCHANGED caller
      BY <1>1, <3>3
    <3> QED
      BY <1>1, <3>1, <3>2, <3>3, Steps
         DEF ResumeAttentionParents, Claim, ReleaseCapacity, WorkerMoves, Closes, Rearms, vars
  <2>2. reservation[k] = "active"
    BY <1>2, <2>1 DEF Holding
  <2>3. ASSUME NEW d \in Callers, Compensate(d)
        PROVE  caller[d].key # k
    <3>1. d # c
      BY <2>1, <2>3 DEF Compensate
    <3> QED
      BY <2>1, <3>1 DEF ExclusiveKeys
  <2>4. ASSUME NEW w \in Workers, ReleaseCapacity(w)
        PROVE  worker[w].reservation # k
    <3>1. Unused(k)
      BY <1>2, <2>1, BeforeWrite
    <3> QED
      BY <2>4, <3>1 DEF Unused, Busy, ReleaseCapacity
  <2>5. ASSUME NEW d \in Callers, Proceeds(d)
        PROVE  reservation'[k] = "active"
    BY <2>2, <2>5, Fields DEF Proceeds, TypeOK
  <2>6. ASSUME NEW d \in Callers, Compensate(d)
        PROVE  reservation'[k] = "active"
    BY <2>2, <2>3, <2>6, CompensateEffect
  <2>7. ASSUME NEW w \in Workers, ReleaseCapacity(w)
        PROVE  reservation'[k] = "active"
    BY <2>2, <2>4, <2>7, ReleaseEffect
  <2> QED
    BY <1>1, <2>2, <2>5, <2>6, <2>7, Steps
       DEF BeginsKeyed, BeginsCopy, Moves, Writes, ResumeAttentionParents, Claim, WorkerMoves, Closes, Rearms, vars
<1> QED
  BY <1>4, <1>5

\* Active Work stays counted: a call writes active Work only under a
\* reservation it holds or one that backs it already, and nobody releases that.
LEMMA NextActiveWorkCounted ==
    ASSUME TypeOK, Calls, Copies, Ownership, NotReleasing, ~DuplicateCalls, Compensable, Holding,
           ActiveWorkCounted, [Next]_vars
    PROVE  ActiveWorkCounted'
<1>1. ASSUME UNCHANGED reservation,
             \A j \in Keys : item'[j].state \in ActiveStates =>
                 item[j].state \in ActiveStates /\ item'[j].reservation = item[j].reservation
      PROVE  ActiveWorkCounted'
  BY <1>1 DEF ActiveWorkCounted, Active
<1>2. ASSUME UNCHANGED item,
             \A j \in Active : reservation[item[j].reservation] = "active" => reservation'[item[j].reservation] = "active"
      PROVE  ActiveWorkCounted'
  BY <1>2 DEF ActiveWorkCounted, Active
<1>3. ASSUME NEW c \in Callers, Writes(c)
      PROVE  ActiveWorkCounted'
  <2>1. PICK i \in Keys, row \in Item : i = caller[c].target /\ row = caller[c].row
    BY Fields
  <2>2. item'[i] = row /\ \A j \in Keys \ {i} : item'[j] = item[j]
    BY <1>3, <2>1, WriteEffect
  <2>3. row.state \in ActiveStates => reservation[row.reservation] = "active"
    <3>1. CASE caller[c].key \in Keys
      <4>1. row.reservation = caller[c].key
        BY <2>1, <3>1 DEF Calls, Carries
      <4>2. reservation[caller[c].key] = "active"
        BY <1>3, <3>1 DEF Writes, Holding
      <4> QED
        BY <4>1, <4>2
    <3>2. CASE caller[c].key = "none"
      <4>1. caller[c].pc = "update" /\ item[i].version = caller[c].version
        BY <1>3, <2>1, <3>2, ConstantsAssumption DEF Writes, Calls, Carries
      <4>2. /\ row.reservation = item[i].reservation
            /\ row.state = item[i].state \/ item[i].state \in ActiveStates
        BY <2>1, <3>2, <4>1 DEF Copies, Faithful
      <4> QED
        BY <4>2 DEF ActiveWorkCounted, Active
    <3> QED
      BY <3>1, <3>2, Fields
  <2>4. UNCHANGED reservation
    BY <1>3 DEF Writes
  <2> QED
    BY <2>2, <2>3, <2>4 DEF ActiveWorkCounted, Active
<1>4. ASSUME NEW i \in Keys, ResumeAttentionParents(i)
      PROVE  ActiveWorkCounted'
  <2>1. UNCHANGED reservation
    BY <1>4 DEF ResumeAttentionParents
  <2> QED
    BY <1>1, <1>4, <2>1, ResumeEffect
<1>5. ASSUME NEW w \in Workers, NEW state \in {"completed", "failed", "dead_letter"}, Closes(w, state)
      PROVE  ActiveWorkCounted'
  <2>1. UNCHANGED reservation
    BY <1>5 DEF Closes
  <2>2. \A j \in Keys : item'[j].state = item[j].state /\ item'[j].reservation = item[j].reservation
    BY <1>5, CloseEffect
  <2> QED
    BY <1>1, <2>1, <2>2
<1>6. ASSUME NEW c \in Callers, Proceeds(c)
      PROVE  ActiveWorkCounted'
  <2>1. UNCHANGED item /\ reservation' = [reservation EXCEPT ![caller[c].key] = "active"]
    BY <1>6 DEF Proceeds
  <2>2. \A k \in Keys : reservation[k] = "active" => reservation'[k] = "active"
    BY <2>1 DEF TypeOK
  <2> QED
    BY <1>2, <2>1, <2>2, Fields DEF Active
<1>7. ASSUME NEW c \in Callers, Compensate(c)
      PROVE  ActiveWorkCounted'
  <2>1. /\ caller[c].key \in Keys /\ caller[c].created /\ UNCHANGED item
        /\ \A l \in Keys \ {caller[c].key} : reservation'[l] = reservation[l]
    BY <1>7, CompensateEffect
  <2>2. Unused(caller[c].key)
    BY <2>1 DEF Compensable
  <2>3. \A j \in Active : item[j].reservation \in Keys \ {caller[c].key}
    BY <2>2, Fields DEF Active, ActiveStates, Unused
  <2> QED
    BY <1>2, <2>1, <2>3
<1>8. ASSUME NEW w \in Workers, ReleaseCapacity(w)
      PROVE  ActiveWorkCounted'
  <2>1. PICK i \in Keys, r \in Keys : i = worker[w].item /\ r = worker[w].reservation
    BY Fields
  <2>2. UNCHANGED item /\ Busy(w) /\ \A k \in Keys \ {r} : reservation'[k] = reservation[k]
    BY <1>8, <2>1, ReleaseEffect DEF Busy
  <2>3. Owns(i, r)
    BY <2>1, <2>2 DEF Ownership
  <2>4. ASSUME NEW j \in Active
        PROVE  item[j].reservation \in Keys \ {r}
    <3>1. j \in Keys /\ item[j].reservation \in Keys /\ Owns(j, item[j].reservation)
      BY Fields DEF Active, ActiveStates, Ownership
    <3>2. <<i, r>> # <<j, item[j].reservation>>
      BY <2>1, <2>2 DEF NotReleasing
    <3> QED
      BY <2>3, <3>1, <3>2 DEF Owns
  <2> QED
    BY <1>2, <2>2, <2>4
<1>9. CASE UNCHANGED <<reservation, item>>
  BY <1>1, <1>9
<1> QED
  BY <1>3, <1>4, <1>5, <1>6, <1>7, <1>8, <1>9, Steps
     DEF BeginsKeyed, BeginsCopy, Moves, Claim, WorkerMoves, Rearms, vars

-------------------------------------------------------------------------------
(***************************************************************************)
(* Theorems                                                                *)
(***************************************************************************)

\* At the start there is nothing: no item, no job, no call.
LEMMA InitIInv == Init => IInv
<1> SUFFICES ASSUME Init
             PROVE  IInv
  OBVIOUS
<1>1. /\ \A k \in Keys : item[k] = NoItem /\ reservation[k] = "absent"
      /\ \A c \in Callers : caller[c] = IdleCaller
      /\ \A w \in Workers : worker[w] = IdleWorker
      /\ \A p \in Keys \X Keys : job[p] = NoJob
  BY DEF Init
<1>2. /\ NoItem.state = "absent" /\ NoItem.version = 0 /\ ~NoItem.released /\ NoJob.state = "absent"
      /\ IdleCaller.pc = "idle" /\ IdleCaller.key = "none" /\ ~IdleCaller.created /\ IdleWorker.pc = "idle"
  BY DEF NoItem, NoJob, IdleCaller, IdleWorker
<1>3. /\ \A k \in Keys : item[k].state = "absent" /\ item[k].version = 0 /\ ~item[k].released
      /\ \A c \in Callers : caller[c].pc = "idle" /\ caller[c].key \notin Keys /\ caller[c].key = "none" /\ ~caller[c].created
      /\ \A w \in Workers : worker[w].pc = "idle"
      /\ \A i, r \in Keys : job[<<i, r>>].state = "absent"
  <2>1. \A p \in Keys \X Keys : job[p].state = "absent"
    BY <1>1, <1>2
  <2>2. \A i, r \in Keys : job[<<i, r>>].state = "absent"
    BY <2>1
  <2> QED
    BY <1>1, <1>2, <2>2, ConstantsAssumption
<1>4. TypeOK
  <2>1. /\ reservation \in [Keys -> {"absent", "active", "released"}] /\ item \in [Keys -> Item]
        /\ job \in [Keys \X Keys -> Job]
    BY Defaults DEF Init
  <2>2. caller \in [Callers -> Caller] /\ worker \in [Workers -> Worker] /\ intent \in [Keys -> Intent]
    BY Defaults DEF Init
  <2> QED
    BY <1>3, <2>1, <2>2 DEF TypeOK
<1>5. Calls /\ Copies
  BY <1>3 DEF Calls, Carries, Copies, Faithful
<1>6. Ownership
  BY <1>3 DEF Ownership, Busy
<1>7. Active = {}
  BY <1>3 DEF Active, ActiveStates
<1>8. NotReleasing /\ ActiveWorkCounted
  BY <1>7 DEF NotReleasing, ActiveWorkCounted
<1>9. Tracked
  BY <1>3 DEF Tracked, ReleasesTracked, TerminalReleaseQueued, CheckpointTruthful, TerminalStates
<1>10. ExclusiveKeys /\ Compensable /\ Holding
  BY <1>3 DEF ExclusiveKeys, Compensable, Holding
<1> QED
  BY <1>4, <1>5, <1>6, <1>8, <1>9, <1>10 DEF IInv, Counted

\* IInv is an invariant of every behaviour of the Work service and its
\* reconcilers.
THEOREM Inductive == Spec => []IInv
<1>1. IInv /\ [Next]_vars => IInv'
  <2> SUFFICES ASSUME IInv, [Next]_vars
               PROVE  IInv'
    OBVIOUS
  <2>1. TypeOK /\ Calls /\ Ownership /\ Copies /\ NotReleasing /\ Tracked /\ Counted
    BY DEF IInv
  <2>2. TypeOK' /\ Calls' /\ Ownership' /\ Copies' /\ NotReleasing' /\ Tracked'
    BY <2>1, NextTypeOK, NextCalls, NextOwnership, NextCopies, NextNotReleasing, NextTracked
  <2>3. ASSUME ~DuplicateCalls
        PROVE  ActiveWorkCounted' /\ ExclusiveKeys' /\ Compensable' /\ Holding'
    <3>1. ActiveWorkCounted /\ ExclusiveKeys /\ Compensable /\ Holding
      BY <2>1, <2>3 DEF Counted
    <3> QED
      BY <2>1, <2>3, <3>1, NextActiveWorkCounted, NextExclusiveKeys, NextCompensable, NextHolding
  <2>4. Counted'
    BY <2>3 DEF Counted
  <2> QED
    BY <2>2, <2>4 DEF IInv
<1> QED
  BY InitIInv, <1>1, PTL DEF Spec

\* Rows, jobs, calls and reconcilers keep their types.
THEOREM TypeCorrect == Spec => []TypeOK
<1>1. IInv => TypeOK
  BY DEF IInv
<1> QED
  BY Inductive, <1>1, PTL

\* The capacity of terminal Work is never forgotten, and the checkpoint on its
\* row is truthful, even when clients repeat commands that are still running.
THEOREM ReleasesKept == Spec => []ReleasesTracked
<1>1. IInv => ReleasesTracked
  BY DEF IInv, Tracked
<1> QED
  BY Inductive, <1>1, PTL

\* Active Work is always backed by an active reservation, as long as no client
\* repeats a command that is still running.
THEOREM ActiveCounted ==
    ASSUME ~DuplicateCalls
    PROVE  Spec => []ActiveWorkCounted
<1>1. IInv => ActiveWorkCounted
  BY DEF IInv, Counted
<1> QED
  BY Inductive, <1>1, PTL

\* A completed release job only ever disappears, and a job in processing is
\* closed only by the reconciler that holds its lease.
THEOREM JobsFenced == Spec => ReleaseJobsFenced
<1>1. ASSUME IInv, [Next]_vars
      PROVE  LeaseRespected
  <2> USE DEF LeaseRespected
  <2>1. TypeOK /\ Calls
    BY <1>1 DEF IInv
  <2>2. CASE UNCHANGED job
    BY <2>2
  <2>3. ASSUME NEW c \in Callers, Writes(c)
        PROVE  LeaseRespected
    BY <2>1, <2>3, WriteEffect
  <2>4. ASSUME NEW w \in Workers, NEW i \in Keys, NEW r \in Keys, Claim(w, i, r)
        PROVE  LeaseRespected
    <3>1. PICK q : q = <<i, r>>
      OBVIOUS
    <3>2. /\ job[q].state # "completed" /\ job'[q].state = "processing"
          /\ \A p \in Keys \X Keys : p # q => job'[p] = job[p]
      BY <2>1, <2>4, <3>1, ClaimEffect
    <3> QED
      BY <3>2
  <2>5. ASSUME NEW w \in Workers, NEW state \in {"completed", "failed", "dead_letter"}, Closes(w, state)
        PROVE  LeaseRespected
    <3>1. PICK q : q = <<worker[w].item, worker[w].reservation>>
      OBVIOUS
    <3>2. /\ job[q].state = "processing" /\ job[q].lease = w
          /\ \A p \in Keys \X Keys : p # q => job'[p] = job[p]
      BY <2>1, <2>5, <3>1, CloseEffect
    <3>3. worker'[w] = IdleWorker /\ worker[w].pc # "idle"
      BY <2>1, <2>5, CloseEffect DEF Closes
    <3>4. worker'[w] # worker[w]
      BY <3>3 DEF IdleWorker
    <3> QED
      BY <3>2, <3>4
  <2>6. ASSUME NEW i \in Keys, NEW r \in Keys, Rearms(i, r)
        PROVE  LeaseRespected
    BY <2>6 DEF Rearms
  <2> QED
    BY <1>1, <2>1, <2>2, <2>3, <2>4, <2>5, <2>6, Steps
       DEF BeginsKeyed, BeginsCopy, Proceeds, Moves, Compensate, ResumeAttentionParents, ReleaseCapacity,
           WorkerMoves, vars
<1> QED
  BY Inductive, <1>1, PTL DEF Spec, ReleaseJobsFenced

===============================================================================
