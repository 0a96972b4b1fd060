# Spyglass: verification project

TLA+ models of Infinite Ocean Spyglass (the Go program under `src/`), the TLC
runs that check them on small instances and the TLAPS proofs about them.
`PROJECT.json` is the index: components, runs, mutants, the map from every
definition to the lines it translates, findings, hazards and theorems.

## 1. Inventory

### The system

Spyglass is a multi-tenant business assistant. One **global control database**
holds Accounts, entitlements, billing, AI Tokens, sessions and the directory
that says in which cell an Account lives. Each **cell database** holds the
Work, Agents, actions, schedules and documents of its Accounts under row level
security. One binary runs in several modes (`internal/bootstrap/*`): an API for
each plane, and workers that poll a table, lease a row, do something and close
the row. There is no message broker and no transaction over two databases:
everything between the planes is a signed HTTP call or a poll, repeated until
it is known to have happened. Consistency therefore rests on five mechanisms,
used again and again:

1. a row lock on the Account (or counter, campaign, operation) that makes one
   transaction the unit of interleaving;
2. a caller-chosen idempotency key with a unique index;
3. a version or a snapshot number that fences a write against what was read;
4. an outbox row written by a trigger in the transaction that causes it;
5. a lease with an expiry and a random id that fences a worker's completion.

### Components

| component | state | operations | what is hard | what makes it correct |
|---|---|---|---|---|
| usage admission | `entitlement_usage_counters`, `entitlement_usage_reservations`, the entitlement version | Reserve (authorize, then persist; one retry), lazy expiry, Release | the maximum, its version and the clock are read before the lock; entitlement changes in between; retries of unknown outcomes | the counter is the sum of active amounts; no admission beyond the maximum in force; closed rows are final; one creator per request id |
| work items and active-work capacity | `work_items`, `work_capacity_release_queue` (cell); reservations (global) | Create, Transition, Reopen, edits, compensation, claim, release, checkpoint, fail, requeue, prune | reserve, write and compensate are three steps in two databases; a trigger feeds the outbox; leases expire under their holder | active Work is always backed, within the limit; the capacity of finished Work comes back, once; the checkpoint is truthful |
| AI Token ledger | `ai_token_grants`, `_reservations`, `_allocations`, `_ledger_entries`, promotion issuances | Reserve, Close, Issue (included, purchased), RedeemPromotion, ReverseUnused | cohorts closing while Tokens of theirs are reserved; Catalog publications that change under a retry; late refunds | Tokens are conserved and debited once; closed cohorts stay closed; caps hold; earliest expiry first |
| billing inbox and one-time commerce | `billing_event_inbox`, `billing_checkout_attempts` | receive, claim, project (several handlers in sequence), complete, fail, replay | any order, duplicates, a handler failing after another committed | exactly-once effect per provider object |
| billing projection, subscriptions, checkout | subscriptions, package grants, entitlement snapshots | project, publish a snapshot when the effective packages differ | out-of-order provider events | the newest provider state wins |
| entitlement rollouts | rollout jobs | claim, apply, complete | applied while billing changes the same Account | no stale snapshot replaces a newer one |
| consequential actions | authorizations, `runner_action_operations`, attempts, execution queue, manual resolutions | authorize, cancel, claim, execute, complete, reconcile, resolve (two people) | an executor that outlives its lease; unknown outcomes at a provider | an effect is attempted again only when the earlier attempt definitely had none |
| agent dispatch and projection | `agent_runs`, `agent_invocations`, dispatch and projection queues (cell), Token reservations (global) | claim, reserve, admit, provision, complete; claim, decode, settle, project; dead letter, requeue | two databases, two kinds of workers that decide the same turn, leases that expire under them | turns run in order, the run agrees with its turns, Tokens follow results, every turn is decided |
| runner control, broker, capabilities | `runner_invocation_queue`, `runner_account_scheduling`, exchanges, Jobs in the cluster | provision, claim, ensure, inspect, cancel, complete; fetch, submit; invoke a capability | lost answers of the cluster, late creates, replicas with old copies of a row | slots are counted, an invocation is decided once, a cancellation is respected |
| account movement | `account_moves`, directory entry, cell counters (global); namespace, rows, checkpoint (each cell) | prepare, freeze, drain, copy, reconcile, switch, activate, pause, resume, roll back, retire | three databases, a job that dies at any call, customers and workers throughout | one writable cell per Account, no acknowledged row lost by a move, the move converges |
| scheduling | schedules, occurrences, leases | plan, claim, dispatch, advance | missed runs and expiring leases | one occurrence per instant |
| attention and approvals | attention items, decisions | open, decide, resume parents | decisions racing with expiry | one decision, applied once |
| integrations and source sync | sync cursors and leases | claim, fetch, apply, advance | a stale worker advancing a cursor | the cursor never skips |
| sessions, MFA, passkeys, recovery codes | sessions, factors, codes | sign in, step up, use a code | concurrent use of one code | single use |
| MCP OAuth | authorization codes, refresh token families | exchange, rotate, revoke | a rotated token presented again | a reused family is revoked |
| notifications outbox | outbox rows | claim, send, complete, fail | the lease-and-retry shape of the release queue | at least once |
| knowledge documents | documents, processing jobs | upload, process, delete | processing racing deletion | nothing of a deleted document reappears |
| account lifecycle, provisioning, export, erasure | Account state, jobs | provision, suspend, export, erase | share the directory with movement | erasure is complete |
| affiliates and settlement | accruals, settlements | accrue, reverse, settle | reversals after settlement | each accrual settled once |
| route context | single-use receipts | mint, consume | replay | consumed once |
| baseline, finance, marketing; catalog and administration; privacy, analytics, console; model gateway; transport and UI; prototype | rows with optimistic versions, or no protocol state | create, edit, report, call a provider | - | - |

### Interactions

* The Work service (cell) calls usage admission (global) over HTTP, writes its
  own database and calls again to compensate; the work reconcilers call it to
  release. `WorkCapacity` models both sides together.
* The billing worker (global) runs its handlers in sequence for one event:
  entitlements, then Tokens, then commerce. `AITokenLedger` models the token
  and commerce handlers and the inbox that retries them; what the entitlement
  handler does to a running admission is `ChangeEntitlement` of
  `UsageAdmission`.
* Agent dispatch (cell) asks the Token ledger (global) for a reservation before
  it provisions a runner, and the projection worker settles it when the runner
  has ended. `AgentPipeline` composes both queues with the state of a reservation
  (whose inside is `Reserve` and `Close` of `AITokenLedger`) and with
  `RunnerLifecycle`, which it instantiates as the runner; `RunnerControl` is the
  detailed runner plane and is shown to implement the same `RunnerLifecycle`.
* Account movement reads and writes the global directory and both cells, while
  routed requests and workers go on writing. `AccountMovement` models the three
  databases together; of the technical queues in its way, those of `WorkCapacity`,
  `RunnerControl`, `AgentPipeline`, integrations and Work Agents, it keeps only whether an
  entry is unfinished and whether the gate of Work Agent executions or the check of the
  source's queues sees it.
* Attention projects an approved proposal into `runner_action_authorizations`;
  a trigger queues it, the broker's worker or the proposing runner claims it and
  calls a provider or another module of the cell (finance, marketing, scheduling). `ConsequentialActions` models
  all of them from the projection on.

`PROJECT.json` lists every hazard met, at its line, with the properties that
would notice it going wrong, or the reason there is none yet.

## 2. Modules

| module | models | EXTENDS |
|---|---|---|
| `UsageAdmission` | `application/usageadmission`, `adapters/postgres/usage_admission.go` | |
| `WorkCapacity` | `application/work`, `modules/work`, `application/workreconciliation`, their adapters, the outbox migration, and admission as they see it | |
| `AITokenLedger` | `modules/aitokens`, `application/aitokenledger`, its adapter, the billing inbox and one-time commerce as far as they feed it | |
| `ConsequentialActions` | the action ledger, its attempts, queue and resolutions (migrations 000018, 000030, 000031, 000058), `application/approvedaction`, `runneraction`, `actionrecovery`, the consequential branch of `runnercapability`, and, as the three kinds of handler, `stripeaction`, `financeaction` with `marketingaction`, and `scheduleaction` | |
| `AccountPlacement` | what moving an Account promises its customers (abstract) | |
| `AccountMovement` | `application/accountmovement`, its adapters, migrations global 000030 and cell 000025, 000029, 000062, the receipt and the write fence; implements `AccountPlacement` | INSTANCE `AccountPlacement` |
| `RunnerLifecycle` | what the runner plane promises about one invocation (abstract) | |
| `RunnerControl` | `application/runnercontrol`, `adapters/postgres/runner_control.go`, `adapters/kubernetes/runner_jobs.go`, the broker's exchange (000012, 000015, 000016), the Pod; implements `RunnerLifecycle` | INSTANCE `RunnerLifecycle` |
| `AgentPipeline` | `application/agentdispatch`, `application/agentprojection`, their adapters and database functions, on top of `RunnerLifecycle` | INSTANCE `RunnerLifecycle` |
| `...Proofs` | theorems about a component (section 5) | the module before `Proofs`, TLAPS |
| `MC*` | constants for TLC | the module after `MC` |

Definitions whose name has a second form directly before them (`Lapsed` and
`LapsedOrDue`, `Fenced` and `Unfenced`, ...) are accompanied by a plausible
mistake in that code. No specification uses the mistaken form; `PROJECT.json`
says under "mutants" which property it violates when it is put in.

### UsageAdmission

*State.* `counter` and `reservation` are the two tables of one Account,
`entitlement` is `accounts.entitlement_version` with the newest snapshot,
`call` holds what a running `Service.Reserve` has in its local variables.

*Actions.* `BeginReserve` takes the arguments. `Authorize` is
`service.go`'s authorization with the denials that need no database write, and
the reading of the clock. The transaction of `repository.Reserve` is one step,
because it holds the Account row and then the counter row until it commits; its
four outcomes are `PersistReplay` (the request id is known: the expiry is
committed and the stored row returned), `PersistChanged` (the entitlement version
differs: roll back, authorize once more, then give up), `PersistRefused` (corrupt,
conflicting payload, over the limit: all rolled back, the expiry too) and
`PersistAdmit`. `Abandon` loses the connection before the commit; a connection lost
after it is a persist step followed by a new call with the same request id,
which the client may always make. `Release` closes an active row and returns any
other as it is. `ChangeEntitlement` is what billing projections and rollouts do;
they publish a new version only when the effective packages differ.

*Abstraction.* One Account (no operation touches two). Every refusal of
`Authorize` (membership, role, account state, package) is one denial. Amounts are
summed by counting units, so that sums need no recursion.

### WorkCapacity

*State.* `reservation` (global), `item` and `job` (cell), `caller` and `worker`
for local variables between transactions, `intent` for what a client uses a
key for.

*Actions.* A create is `BeginCreate`, `Reserve`, `CreateLoad` (the read without a
lock), `CreateInsert` and, when the cell definitely refused, `Compensate`. A
reopening is `BeginReopen`, `Reserve`, `Update`, `Compensate`. Every other change
reads the item and writes the whole row back with `Update`, guarded by the
version. `Write` includes the trigger that fills the outbox. `RollBack` is any
other definite refusal, `Crash` any unknown outcome. `Claim` takes a due job, or
one whose lease has expired while its holder may still be working;
`ReleaseCapacity` and `Complete` are the two databases' transactions, `Fail` the
retry or dead letter, `Requeue` and `PruneCompleted` the operator and the
retention job.

*Abstraction.* A draft is a model value. One draft is enough in the runs: the
payload conflict it cannot express behaves like `Refused` at "load", which
`RollBack` reaches from there anyway, and which a create repeated after a
reopening (another reservation on the row) reaches by the comparison itself.
Leases expire at any moment, so time is not modelled. `attempt` saturates at
`MaxAttempts` because the code tests nothing else. Usage admission appears as
`HasRoom` and the three reservation states: amount 1, no TTL, which
`UsageAdmission` justifies (`CounterConservation`, `ReservationsFinal`).
`DuplicateCalls` says whether a client may repeat a command that is still
running on the server.

### AITokenLedger

*State.* `grant` by (source, definition code), `reservation` with its
allocations, the immutable `entry` set, the billing events still `due`, the
`checkout` attempts and the payments whose handler is `projecting` between its
two transactions; `published` and `now` are what the processes may have read,
so an operation works with any earlier publication and clock reading.

*Actions.* `Reserve` and `Close` are one transaction each; `Spread` is the loop
over the sorted cohorts, in closed form. `IssueIncluded` closes the cohorts before
it, `ReplayIncluded` is the retry that finds its grant. `ProjectOneTimePurchase` and
`IssuePurchased`, `ProjectPurchaseRefund` and `ReversePurchased` are the two
transactions of a purchase and of a refund. `EventDone` leaves open whether a later
handler of the event failed, in which case all run again. `Replay` is the operator.

*Abstraction.* Quantities are 1 to 3 Tokens where the Catalog has thousands;
the code only adds, subtracts and compares. Token counts are int64 in the code
and Catalog quantities are bounded far below its range, so the width is left
out. `OpenRowsBlock` says whether the driver refuses a statement on a connection
whose rows are still being read. pgx does (TRUE). FALSE allows every step TRUE
allows and more, so the passing runs use FALSE: what they show holds for both, and
the behaviour after a renewal with a remainder is explored too.

### ConsequentialActions

*State.* `authorization`, `ledger` (with its attempts), `queue` and `resolution`
are the tables; `effect` is the world outside the ledger; `worker` is what an
executing goroutine knows between claim and completion. `capability`, `window`,
`runner`, `enabled` and `revised` are the environment the code reads: the kind of
handler, the approval's expiry, the life of the proposing runner, whether the frozen
executor version is still enabled, and whether the schedule an action created has been
changed since (`Revise`: an edit, a pause, or the dispatch of its next occurrence).

*Actions.* Each database function is a step, since it locks the authorization
and the ledger row: `RecordAuthorization` (with the trigger that queues),
`CancelAuthorization`, `Claim` and `ClaimDrops` (the two ends of
`spyglass_claim_approved_runner_action`), `Begin` (the runner's own call),
`Complete`, `RequestResolution`, `ConfirmResolution`. Every write of the ledger
goes through `WriteLedger`, which includes the trigger. Between claim and
completion the handler runs without a lock: `Execute` has one of the effects and
answers of `Replies`, `Reconcile` only looks. `Crash` is the lost process, and
equally an invalid claim, a missing definition, a failed audit or a failed
completion: after each of them the lease is left to lapse.

*Abstraction.* Time appears only as what the code compares: a lease has lapsed or
not; the approval window is open, closes within the 30 s of a reconcile delay, or is
closed. Leases are cut at the end of the window, so `WindowMoves` lapses them.
Delays of retries are steps not taken yet. An attempt id is the position in the
history. Capabilities are of three kinds, told apart by what a lookup proves. At a
provider an absent result proves nothing and a request without an answer may
land later. Finance and marketing leave an immutable event in the cell, so an absent
event proves that nothing was posted. `schedules.create` leaves a schedule, which the
lookup compares as it is now, version included: once it was changed the lookup answers
"failed" after the effect (`Findings`). That an absent event is a proof relies
on a transaction being over when its context has ended, which holds
because the handler's timeout is below the lease and the completion delay; a
clock difference between replicas larger than that margin is not modelled.

### AccountPlacement and AccountMovement

*State.* `account`, `directory`, `assigned` and `moves` are the global tables;
`namespace`, `data` and `checkpoint` those of every cell; `job` is what a running
`account-move-admin` process does next; `request` is how far a customer's write has
got. A move's lease is a job's name, "orphan" when that job is gone, with `live`
for its expiry.

*Actions.* `Prepare`, `Pause` and `Resume` are one global transaction.
`StartAdvance`, `StartRollback` and `StartRetire` are the inspection and the claim;
then every database call of the phase is a step: `StageSource`, `StageDestination`,
`Drain`; `ReadSource`, `WriteDestination`, `CompareCopy`, `RecordEvidence`,
`AdvanceCopied`; `MatchEvidence`, `AdvanceReady`; `Switch`, `ActivateDestination`;
`Rollback`, `ActivateSource`, `FreezeDestination`; `BeginRetirement`, `RetireSource`,
`Complete`. `Accepted` says when the database lets a call through, `Refuse` is the
job that ends with an error, `Abandon` the one that dies. Beside the job,
`RouteRequest`, `ConsumeReceipt` and `BusinessWrite` are the three moments of a
customer's write, `FinishWork` is a worker, `ChangeAccountState` the Account's own
lifecycle.

*Refinement.* `AccountPlacement` has one home and one set of rows. The mapping takes
the Account's cell and generation, the rows of that cell, the digest of the last move
that was switched, and as `dropped` the acknowledged writes that the home does not
have. `ImplementsPlacement` then says: a switch is a `ChangeHome` that keeps every
acknowledged row with nothing unfinished, a rollback an `UndoChange` that returns
exactly the rows that moved, everything else stutters or accepts a write; and a write
is dropped only when a rollback abandons the cell that accepted it.

*Abstraction.* One Account, whose rows are the customer writes of the run; the order
of tables and the encoding of the digest are left out (a digest is the rows). A technical queue entry is unfinished or done; `AgentWrites` are the entries of the Work
Agent queue, the others those of every other queue. The freeze of the source checks both
(`SourceStageable`: cell 000062 and the gate of 000029), the freeze of a rolled-back
destination is stopped by the gate only (`DestinationFreezable`), so entries of the other
queues may be frozen there. A request may be routed on a
directory entry of the current generation while the directory says "moving", as the
cache allows. The namespace states "draining" and "frozen", which no operation of a
move writes, and erasure, which has its own bypass of the fence, are not modelled.
`OneJobAtATime` is the operator's rule of `account-movement.md` ("wait for lease
expiry only when the owner is confirmed dead"); a job may still outlive its lease. It also
excludes two jobs of which neither waits for a lease, such as an activation that comes after
a rollback (section 4).

### RunnerLifecycle and RunnerControl

*State.* `row` is the queue row (a lease is named by the attempt it belongs to,
`lapsed` is its expiry), `limit` and `active` the scheduling row of an Account,
`exchange` the broker's row, `job` the cluster's Job of that name, `inflight` the
creates that may still arrive, `controller` what a replica does next.

*Actions.* `ClaimFair` claims an expired launch before a fresh row, `Ensure*` is the
call to the cluster with its three kinds of answers, `MarkLaunched` and `FailLaunch`
record the answer. `ClaimInspection` takes a copy of a row, `CancelJob` and
`Inspect` talk to the cluster, `ConfirmLaunch`, `ResolveLaunchAbsent` and `Complete`
record what was seen, each guarded by the row's current state and not by the copy.
`Fetch`, `SubmitResult`, `PodSucceeds`, `PodFails` are the Pod; `RemoveFinished`
and `LateCreate` the cluster (external). `RequestCancellation` is the database function;
no production code under `src/` calls it yet.

*Refinement.* `ImplementsLifecycle` maps a row to one status (open until it has ended,
canceling once a cancellation is requested) and the exchange to its result. It
shows that an invocation is decided once, that it takes at most one result and none
after a cancellation was requested, and that "completed" means a completed result is
stored, whatever copy of a row a replica acts on.

*Abstraction.* Weights, virtual finish and queue age decide who is next: the model
leaves it open. Due times of retries and inspections are steps not taken yet.
Foreground deletion of a Job is one step. The expiry of a request and a Job that
violates its launch contract are not modelled (both end like calls that fail).

### AgentPipeline

*State.* `run` and `invocation` are the tables of one run, `dispatch` and `projection`
its rows in the two queues, `tokens` the reservation of each turn in the global
database, `admitted` the turns whose invocation records it, `status` and `result` the
runner's, `worker` the call a worker makes next.

*Actions.* A dispatcher goes `DispatchClaim`, `Load`, `ReserveTokens`,
`AdmitTokens`, `ProvisionRunner`, `CompleteDispatch`; a projector `ProjectionClaim`,
`Decode`, `SettleTokens` or `ReleaseTokens`, `ProjectSuccess` or `ProjectFailure`. Any
call may fail (`Unavailable`, `Refused`), which leads to `FailDispatch` or
`FailProjection` and, for a dead letter, to `CloseAfterDeadLetter`. `FailDispatch` is
the function of migration 000080 that decides turn and run with the dead letter,
`ProjectSuccess` the one of 000045 that enqueues the next turn. `Requeue` is the
operator. `RunnerMoves` is any step of `RunnerLifecycle`.

*Abstraction.* One sequential run that is not linked to Work: the waiting states,
questions, approvals and Work outcomes that later migrations (000050, 000081, 000084)
write in the same transaction as a result are not modelled. A Token reservation is none,
active, settled or released; quantities are `AITokenLedger`'s.

## 3. Runs

| run | instance | shows |
|---|---|---|
| `usage_admission` | 2 callers, 2 request ids, a limit with a TTL and one without, amounts 1-2, 3 entitlement versions, 2 instants | conservation, no over-admission across a downgrade, timely expiry, final rows, one creator |
| `work_service` | 2 callers, 1 reconciler, 2 keys, limit 1, 2 attempts | `ActiveWorkCounted`: active Work is backed by capacity through crashes, lost answers, compensation and reopening; `ReleasesTracked`: releases neither forgotten nor premature, through failed attempts and dead letters |
| `work_reconciler` | 1 caller, 2 reconcilers, 2 keys, fair | `ReleaseJobsFenced`: no job is closed by a replica whose lease was taken over; the capacity of finished Work comes back |
| `work_duplicate` (violation) | 2 callers, repeated commands | finding 1 |
| `token_renewal` | 2 invoices, 1 refundable top-up, 2 invocations, 2 publications | `TokensConserved`, backing of reservations, one included cohort, no revival, in every order of events, retries and settlements |
| `token_promotion` | 2 Accounts, 3 redemptions, a top-up, 1 version of a campaign with different caps in 2 publications, 2 instants | no redemption beyond the caps it is made under, whichever publication issued before; earliest expiry first |
| `token_stuck` (violation) | the smallest that shows it | finding 2 |
| `actions` | 1 operation of each of the three kinds, 2 executors, 2 people, 4 attempts, fair | no second execution while the first may have an effect, truthful outcomes, `LedgerConsistent` (ledger and history agree, dual control, cancellation excludes execution, unsettled actions are queued), every approved action is decided |
| `movement` | 2 cells, 2 writes (one with a Work Agent entry, one with an entry of another queue), 2 moves, 1 fault, 1 Account change, fair | one writable cell, no unfinished work in the cells a move copies and hands over, `AccountPlacement` implemented, moves and activations converge |
| `runner` | 1 invocation, 2 replicas, limits 1 and 2, 2 attempts, 2 faults, fair | slots counted, `RunnerLifecycle` implemented, the invocation decided although replicas are late or lost |
| `runner_slots` | 2 invocations of one Account, 1 replica, limits 1 and 2, 2 attempts, 1 fault, fair | the limit binds: it is never exceeded, and an invocation that waits for a slot is decided, unless the slot is that of a vanished Job |
| `agents` | 2 turns, 2 dispatchers, 1 projector, 2 attempts, 2 faults, 1 requeue, fair | turns in order, run and turns agree, Tokens follow results, every dispatched turn decided |

Several invariants are conjunctions of named parts, so that one run states one idea:
`ReleasesTracked` is `TerminalReleaseQueued` and `CheckpointTruthful`;
`TokensConserved` is `GrantsRestorable`, `DebitedOnce`, `NothingLost` and `RefundWaits`;
`LedgerConsistent` is `LedgerMatchesAttempts`, `DualControl`, `CanceledNeverExecutes`
and `UnsettledQueued`. Two parts of inductive invariants are proved and in no run, because
they follow from what is checked or say little on their own: `NeverCorrupt` (no call meets a
counter below its reservations) and `DirectoryFollowsMove` (the directory is closed exactly
between drain and switch, and each cell counts the Accounts placed in it; it would not notice
a move that is stranded).

*Why the bounds are enough.* The races are between two actors about one row, so two
callers or two workers and two keys are the smallest instances in which a stale
reader meets a writer, and a key is left over for a competitor. Three entitlement
versions are needed for a call to be overtaken twice and exhaust its retry. Item
versions up to 5 allow create, done, reopen, done with one edit in between (up to 4, without
the edit, where two reconcilers meet). Two attempts separate a failed job from a dead letter. Two publications separate the
worker that was restarted from the one that was not. Four attempts instead of the
table's 1000 allow an execution, two reconciliations and one more than the bound of
three; two executors let one be overtaken; operations share no row, so one is enough
for everything except the order of the queue. Two moves let a second one meet what the
first left behind; one fault is a job that dies at any call or outlives its lease. Two
replicas and two faults let a launch be reclaimed from a replica that still answers; two
invocations and a limit of one make one wait for the other's slot, and a limit changed
from two to one leaves more slots in use than it admits. One version of a campaign with
caps 3 and 1 per Account in one publication, 2 and 2 in the other, lets either publication
be the one that must refuse.
Two turns and two dispatchers let a late dispatcher meet a turn that is already over.
Larger instances were explored once, for safety: three cells (2.8 million states), two
invocations on two replicas (2.6 million, refinement included), three turns with two
workers of each kind (6.0 million); all properties held. Symmetry is used only over
callers and workers, and in no liveness run. `CHECK_DEADLOCK FALSE` appears where the
environment is finite and may be used up (all invoices, payments and redemptions
processed), where a settled action has nothing left to do, or where a wedge is what the run is about.

*Fairness.* `work_reconciler`: replicas poll without end and take the job that is due
longest first, so no claimable job is passed over for ever although others may be
served in between: strong fairness of claiming each job, and of releasing it,
because a database that fails may do so any number of times but not always; weak
fairness of completing, failing and the operator's requeue, which is documented
duty. A reservation has jobs of one item only, so the conditions are stated per reservation. Nothing is assumed of clients. `token_stuck`: weak fairness of projecting an
event, which the inbox retries without a limit on attempts; the run fails for a
reason fairness cannot mend. `actions`: weak fairness of
claiming (and dropping) a queued operation, which the broker polls for, of a lease
running out, and of an executor's own next step, which its deadline forces; nothing of
people, of the runner or of requests that are on their way. `movement`: weak fairness of
a living job's next call (its operation has a deadline), of leases running out, of
resuming and of workers, strong fairness of starting "advance", because the runbook has
the operator repeat it and it may be refused in between; nothing of customers, of
preparing, rolling back or retiring. `runner`: weak fairness of a replica's next step, of
the expiry of a dead replica's lease and of a Pod's end (Jobs have a deadline), strong
fairness of claiming and inspecting each row, since replicas poll in order of age.
`agents`: the same for its two queues, and that an open runner is decided at last, which
is what `InvocationDecided` of `RunnerControl` shows. Faults are bounded, so a
database that fails for ever is not assumed away silently: the bound is the assumption.

## 4. Findings

1. *`work_duplicate`.* A command repeated while its first call still runs: the call
   that created the reservation loses the cell write to the other one, takes it for a
   definitive rollback and releases the reservation which the written item holds
   (`work/service.go:161`, `:260`).
2. *`token_stuck`.* A ledger entry is inserted while the rows of the preceding UPDATE
   are open; pgx refuses, and the renewal of an Account with a remainder never
   succeeds (`ai_token_ledger.go:210`).

Each quotes in `PROJECT.json` the comment or document it contradicts.

### Observed without a run of its own

These behaviours are reachable in the models and are listed under "hazards". No
property is kept for them: the passing properties name them as exceptions or do not
speak of them.

* The claim drops the queue row of an expired approval before it looks at the ledger, so an
  executor lost during the last lease leaves the action "executing"
  (`000058_approved_action_execution_queue.sql:166`).
* The idempotency key of an included grant contains the definition code, so a retry under a
  publication with another code grants twice (`ai_token_ledger.go:171`).
* A refund projected before its purchase is dropped as unknown (`one_time_commerce.go:81`).
* A create that the cluster refuses outright, after an earlier replica's create succeeded,
  returns the slot while the Job runs (`runner_jobs.go:155`).
* A launched row whose Job has vanished keeps its slot until an operator acts
  (`JobMissing`, the exception of `InvocationDecided`).
* A dead letter of a dispatch or projection is recorded before its Tokens are closed; a crash
  in between leaves them reserved (`agentdispatch/processor.go:299`).
* A dead lettered dispatch that is requeued is rejected and leased again without end
  (`000023_agent_queue_operations.sql:95`).
* A runner that was dead lettered or canceled, or ended without a result, leaves its turn
  undecided (`Stranded`, the exception of `TurnDecided`).
* A change of the Account during a move, or a namespace left by an earlier rollback, blocks
  the move (`Blocked`, the exception of `AdvanceConverges`).
* A source that is retired before the switched destination was activated leaves the Account
  without a writable home: `retire` looks at the window and the source only, a retiring or
  completed move is not activated any more, and nothing else activates a namespace
  (`accountmovement/service.go:259`; the exception of `PlacementConverges`).
* A destination that is frozen by a rollback may hold unfinished entries of every queue but
  that of Work Agent executions; the write fence keeps their workers from ever finishing them
  (`000025_account_movement.sql:197`; `Abandoned`, the exception of `FrozenCellsDrained`).
* An executor that committed the schedule it was approved to create is lost, the schedule is
  changed, and the next lookup does not recognise it: the action is settled as failed,
  definitely, although its effect took place (`schedule_action.go:80`,
  `scheduleaction/daily.go:110`; the exception of `OutcomesTruthful`). The document
  (`consequential-actions.md:13`) allows a definite answer only when no effect occurred.
* The switch gives the lease back before the destination is activated, and a repeated
  `advance` activates without one: when a second job rolls the move back in between, the late
  activation opens the frozen destination next to the active source, until a further `advance`
  freezes it (`account_movement_cells.go:138`; `OneJobAtATime` FALSE).
* With two jobs on one move, the evidence of one that outlived its lease overwrites the
  checkpoint of the destination that the other activated (`OneJobAtATime` FALSE).
* A version of a campaign that has different caps in two publications is issued up to the
  larger one: the lower cap stops only the publication that has it (`CampaignsBounded`).
  Catalog validation (`modules/catalog/model.go:403`) looks at one publication at a time.

## 5. Proofs

Each `...Proofs` module proves, for every value of the constants that its component's
assumption allows, an inductive invariant `IInv` (`Inductive: Spec => []IInv`) and what
follows from it. Every `IInv` was checked by TLC on the component's runs before it was
proved. The step that preserves it has one lemma per part of the invariant and, below, one
step per action; where the actions are many, an effect lemma first says what an action does
to the rows the invariant speaks of.

| module | theorems (the property of a run they state) |
|---|---|
| `UsageAdmissionProofs` | `TypeCorrect`, `Conservation` (`CounterConservation`), `Uncorrupted` (`NeverCorrupt`), `OneCreator` (`SingleCreator`), `TimelyExpiry` (`NeverExpiredEarly`), `AdmissionSafe` (`NoOverAdmission`), `ClosedIsFinal` (`ReservationsFinal`) |
| `WorkCapacityProofs` | `TypeCorrect`, `ReleasesKept` (`ReleasesTracked`), `JobsFenced` (`ReleaseJobsFenced`), and, for `~DuplicateCalls`, `ActiveCounted` (`ActiveWorkCounted`) |
| `AITokenLedgerProofs` | `TypeCorrect`, `Backed` (`ReservedBacked`), `Conserved` (`TokensConserved`), `OneCohort` (`OneIncludedCohort`), `ClosedStayClosed` (`NoRevival`), `SpentEarliest` (`EarliestFirst`), `CampaignsCapped` (`CampaignCapped`), `CampaignsBounded` (a version stays within the largest cap it has) |
| `ConsequentialActionsProofs` | `TypeCorrect`, `ReportsTrue` (`OutcomesTruthful`), `TablesAgree` (`LedgerConsistent`), `ExecutionsExclude` (`SafeExecute`) |
| `RunnerControlProofs` | `TypeCorrect`, `SlotsAreCounted` (`SlotsCounted`), `LifecycleImplemented` (`ImplementsLifecycle`: the runner plane implements `RunnerLifecycle`) |
| `AgentPipelineProofs` | `TypeCorrect`, `OrderKept` (`TurnsInOrder`), `RunAgrees` (`RunMatchesTurns`), `TokensAgree` (`TokensMatchResults`), `DecisionsFinal` (decided turns, closed reservations and results stay) |
| `AccountMovementProofs` | for `OneJobAtATime`: `MovementTypes` (`TypeOK`), `WritableInOneCell` (`OneWritableCell`), `FrozenStaysDrained` (`FrozenIsDrained`), `DirectoryAgrees` (`DirectoryFollowsMove`), `MovementImplementsPlacement` (`ImplementsPlacement`: moving implements `AccountPlacement`) |

### Why the invariants are strengthened

*UsageAdmission.* `CounterConservation` alone is not preserved: the step that
admits needs to know that the amount it adds is one the units can count
(`AmountsInv`), and `NeverCorrupt` needs conservation at the step before. No
over-admission needs `SnapshotInv`: a call whose version is still the current one
carries the current maximum, which is what the fence under the Account lock relies on.
Timely expiry needs `ClockInv`: the instant a call compares with was read earlier and
is not in the future. One creator needs `CreatorInv`: whoever was told "created" left a
row, so a second admission of the request id finds it. The sums are handled by lemmas on
units (disjoint unions, removal of lapsed rows, a new row) that rest on the
cardinality theorems of the library.

*WorkCapacity.* A reservation turns up on an item, in a job or with a reconciler only after
the command that asked for it has written its item (`Ownership`), and an unkeyed edit writes
back a copy that differs from the row by its command only, or is refused by the version
(`Copies`). Hence no reconciler ever holds the capacity of active Work (`NotReleasing`), and
what is recorded as released is released (`Tracked`). That a call which compensates is the
only user of its reservation (`Compensable`), and that one which may still write holds it
(`Holding`), is true only while calls under one key exclude each other: `Counted` is
conditional on `~DuplicateCalls`, and finding 1 shows that the condition is needed. All other
theorems hold with repeated commands as well.

*AITokenLedger.* `Spread`, the closed form of the loop over the sorted cohorts, is shown to
take from a cohort only when those before it are exhausted (`SpreadLimit`) and to take exactly
the total (`SpreadTotal`: the units it takes are those whose place in the order is at most the
total). The order is without ties because rows are numbered by creation (`Ordering`). Every
step then reserves, closes a reservation, issues or closes cohorts, or leaves the ledger alone
(`Steps`), and each part of the invariant has to survive three kinds of change instead of
twelve actions. `DebitedOnce` needs to know that an open reservation has settled nothing and
that its settlement is not in the journal yet (`Holdings`, `Journal`): this is what makes
`ON CONFLICT DO NOTHING` harmless. A campaign's caps are those of the publication
a redemption is made under; nothing keeps a version's caps equal across publications. What
holds is that an issuance counts all that came before it, whichever publication made them:
`CampaignCapped` says so of each issuance with the ones before it, which later ones do not
disturb (`NextCapped`), and `CampaignsBounded` of the total.

*ConsequentialActions.* Truthfulness rests on two facts: each attempt belongs to one worker
(`Ownership`), and a worker that may still execute with the latest attempt finds no effect
(`Truth`). A worker that was overtaken is fenced by the attempt number and cannot report.
`OutcomesTruthful` names its exception: an action that is over as failed and whose schedule was
changed before the lookup. A failure that is retried is not one of these, so a retry never
meets an earlier effect (`ExecutionsExclude`). An
execution is only selected from a state in which an earlier worker, if it were still within
its deadline, would have the row in flight (`ExecutionsExclude`).

*RunnerControl.* `SlotsCounted` is a cardinality per Account; a step that moves one row
changes the count by one or not at all. The refinement needs three more facts about what a
replica's copy of a row may still do: flags belong to states (`Flags`), every attempt but the
one under way was ended by a fault (`AttemptsPaid`, which bounds the attempts), and whoever is
about to record a success follows a stored result (`ResultsBacked`).

*AgentPipeline.* Turns succeed from the first on, a failed one is followed by canceled ones
only (`Shape`), and a turn has a queue row only after all earlier ones succeeded (`Begun`).
`Paid` relates the call a worker is about to make with the Tokens of its turn, so that a late
dispatcher or projector cannot separate them.

*AccountMovement.* The invariant is called `MovementInvariant` here. Everything rests on the
generations (`History`, `Placing`): only the last move is open, every move starts at the
generation the one before it left, and a rollback takes two, so a frozen namespace of
generation *g* names the one move that can have frozen it. A job that dies leaves its cells
as they are, and `Staged` says how far they can be relied on: past its drain a move finds both
cells frozen, the source until the switch is settled. `OneWritableCell` is then preserved by the two
activations because of `Undone` (a source which a rollback has not activated yet is the home)
and by the rollback because of `ActiveRecorded` (an activated destination has its checkpoint
say so, which is what marks it as given up). For the refinement the rows are followed through
the copy: what a job read is what the frozen source holds (`SeenHolds`), the digest of a copied
move is what both cells hold, and after the switch the destination has only gained rows
(`DigestHolds`); every row anywhere is that of an acknowledged write (`RowsKnown`), so a
rollback drops exactly what the abandoned destination accepted. The twenty-odd actions are
first reduced to what they do to a record and to one cell (the `...Does` and `...Cell`
lemmas, and `Quiet` for the steps that only lease, pause, time, claim or refuse).
`FrozenIsDrained` needs to know where unfinished entries can be frozen at all: only in a
destination that a rollback left behind (`CellDrained`), whose namespace no later move can
stage, so the cells of the open move are not among them (`MovedDrained`).
The hypothesis `OneJobAtATime` is the runbook's rule; without it `OneWritableCell` is false:
the evidence of a job that outlived its lease overwrites the checkpoint of the activated
destination, which the next job rolls back. A job may still die at any call and outlive its lease.

### Assumptions

The constants' assumptions are those the code justifies and TLC evaluates them in every run:
finite tables, identifiers that differ from the "none" and "orphan" markers, dispatchers that are no
projectors, a clock that starts. Overlapping CASE arms leave the choice open in TLA+, so
`RunnerControl` and `AgentPipeline` write such choices with IF, in the order of the code.

### Only model-checked

Liveness (fairness and ENABLED are out of the prover's reach): `TerminalCapacityReturned`,
`ApprovedActionDecided`, `PlacementConverges`, `AdvanceConverges`, `InvocationDecided` and
`TurnDecided`, and `RenewalGranted`, which finding 2 refutes. What TLC shows of the runs' instances and the
proofs do not: that the bounds are reached and every action fires.

## 6. Plan

Modelled and checked: `UsageAdmission`, `WorkCapacity`, `AITokenLedger`,
`ConsequentialActions`, `AccountMovement` with `AccountPlacement`, `RunnerControl` with
`RunnerLifecycle`, `AgentPipeline`. Every safety property that a passing run checks of them is
also proved, both refinements included. Next:

1. `AgentPipeline` with runs linked to Work, and its waiting states.
2. `Scheduling` (the schedule edited, or another replica dispatching, between `Load` and
   `Dispatch`), then the billing inbox with its leases, projection and rollouts.
3. MCP refresh rotation racing revocation, recovery codes, documents, notifications.

The suite is kept to a dozen runs so that it stays quick to repeat: a module that is added
merges its question with a run that is there.

## 7. Not modelled

Model gateway and web research (external I/O), transport and user interface (parsing and
rendering), reporting, the legacy prototype and its import, generated templates,
certification tools, and the modules whose whole protocol is one row with an optimistic
version. These make up most of the repository's 164,000 lines. The protocol code proper,
what runs concurrently, spans two databases or survives a crash, is a few thousand lines, and
the map names only the lines a definition stands for; its share of the whole repository is
therefore small, and raising it by mapping code without protocol would say nothing.
One-off data repairs in migrations (such as cell 000083) are not modelled either.
