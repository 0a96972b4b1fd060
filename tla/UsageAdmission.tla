--------------------------- MODULE UsageAdmission ---------------------------
(***************************************************************************)
(* Capacity admission of one Account: application/usageadmission on top of *)
(* adapters/postgres/usage_admission.go.                                   *)
(*                                                                         *)
(* A Reserve call first authorizes: it reads the newest entitlement        *)
(* snapshot, and with it the maximum of a limit and the version that       *)
(* maximum belongs to, and it reads its clock.  It then persists in one    *)
(* transaction which locks the Account row and the counter row, so the     *)
(* transaction is one step here; everything it was given may be stale by   *)
(* then.  Expired reservations are collected lazily by the next Reserve.   *)
(* Release is one transaction under the counter lock.                      *)
(*                                                                         *)
(* A limit of this module is a (package_code, limit_code) pair.            *)
(***************************************************************************)
EXTENDS Integers, FiniteSets

CONSTANTS
    Requests,      \* caller-chosen request ids, UNIQUE (account_id, request_id)
    Limits,        \* (package, limit) pairs of kind capacity
    Callers,       \* concurrent callers of the admission service
    TTL,           \* TTL[l]: reservation_ttl_seconds of the policy, 0 = none
    Snapshots,     \* effective maxima of the limits, 0 = not entitled
    MaxAmount,     \* bound: largest amount asked for
    MaxVersion,    \* bound: entitlement versions explored
    MaxTime        \* bound: clock values explored

ASSUME ConstantsAssumption ==
    /\ IsFiniteSet(Requests) /\ Requests # {}
    /\ Limits # {}
    /\ TTL \in [Limits -> Nat]
    /\ Snapshots \subseteq [Limits -> Nat]
    /\ MaxAmount \in Nat
    /\ MaxVersion \in Nat
    /\ MaxTime \in Nat

VARIABLES
    now,           \* the clock every process reads
    entitlement,   \* accounts.entitlement_version and the newest snapshot
    counter,       \* entitlement_usage_counters.current_value per limit
    reservation,   \* entitlement_usage_reservations, one row per request id
    call           \* what each caller is doing

vars == <<now, entitlement, counter, reservation, call>>

Amounts == 1..MaxAmount
NoExpiry == 0
MaxAttempts == 2
ReservationStates == {"absent", "active", "released", "expired"}
Reservation == [state: ReservationStates, limit: Limits, amount: Nat, expiresAt: Nat]
Entitlement == [version: Nat, maximum: [Limits -> Nat]]
Results == {"none", "created", "existing", "closed", "denied", "conflict",
            "changed", "corrupt", "unknown", "released", "invalid"}
Call == [pc: {"idle", "authorize", "persist"}, request: Requests, limit: Limits,
         amount: Nat, attempt: 1..MaxAttempts, maximum: Nat, version: Nat, at: Nat,
         result: Results]

AnyLimit == CHOOSE l \in Limits : TRUE
AnyRequest == CHOOSE r \in Requests : TRUE
Absent == [state |-> "absent", limit |-> AnyLimit, amount |-> 0, expiresAt |-> NoExpiry]
Idle == [pc |-> "idle", request |-> AnyRequest, limit |-> AnyLimit, amount |-> 0,
         attempt |-> 1, maximum |-> 0, version |-> 0, at |-> 0, result |-> "none"]

-----------------------------------------------------------------------------
(***************************************************************************)
(* Amounts are summed by counting units: request r holds the units         *)
(* <<r, 1>> .. <<r, amount>>.                                              *)
(***************************************************************************)
Units(rows, S) == {u \in S \X Amounts : u[2] <= rows[u[1]].amount}
Total(rows, S) == Cardinality(Units(rows, S))

Held(rows, l) == {r \in Requests : rows[r].state = "active" /\ rows[r].limit = l}

LapsedOrDue(l, t) ==
    {r \in Held(reservation, l) :
        reservation[r].expiresAt # NoExpiry /\ reservation[r].expiresAt <= t + 1}
\* The rows the UPDATE ... RETURNING amount of expireUsageReservations closes.
Lapsed(l, t) ==
    {r \in Held(reservation, l) :
        reservation[r].expiresAt # NoExpiry /\ reservation[r].expiresAt <= t}

\* The reservation table once those rows are closed, and the counter with it.
Expire(l, t) ==
    [r \in Requests |-> IF r \in Lapsed(l, t)
                        THEN [reservation[r] EXCEPT !.state = "expired"]
                        ELSE reservation[r]]
Expired(l, t) == Total(reservation, Lapsed(l, t))
Current(l, t) == counter[l] - Expired(l, t)

Init ==
    /\ now = 1
    /\ entitlement \in [version: {1}, maximum: Snapshots]
    /\ counter = [l \in Limits |-> 0]
    /\ reservation = [r \in Requests |-> Absent]
    /\ call = [c \in Callers |-> Idle]

-----------------------------------------------------------------------------
(***************************************************************************)
(* The Reserve call                                                        *)
(***************************************************************************)
Done(r, result) == [Idle EXCEPT !.request = r, !.result = result]
Return(c, result) == call' = [call EXCEPT ![c] = Done(call[c].request, result)]

BeginReserve(c, r, l, a) ==
    /\ call[c].pc = "idle"
    /\ call' = [call EXCEPT ![c] = [Idle EXCEPT !.pc = "authorize", !.request = r,
                                                !.limit = l, !.amount = a]]
    /\ UNCHANGED <<now, entitlement, counter, reservation>>

\* Authorize and the checks on the snapshot it returned.
Authorize(c) ==
    /\ call[c].pc = "authorize"
    /\ LET maximum == entitlement.maximum[call[c].limit] IN
       IF maximum = 0 \/ call[c].amount > maximum
       THEN Return(c, "denied")
       ELSE call' = [call EXCEPT ![c] = [@ EXCEPT !.pc = "persist", !.maximum = maximum,
                                                  !.version = entitlement.version,
                                                  !.at = now]]
    /\ UNCHANGED <<now, entitlement, counter, reservation>>

KnownOpen(c) == reservation[call[c].request].state = "active"
Known(c) == reservation[call[c].request].state # "absent"
SameRequest(c) ==
    LET row == reservation[call[c].request] IN
    row.limit = call[c].limit /\ row.amount = call[c].amount

\* expired > current
Corrupt(c) == Expired(call[c].limit, call[c].at) > counter[call[c].limit]

Unfenced(c) == TRUE
\* The version read under the Account lock is the one the maximum came from.
Fenced(c) == entitlement.version = call[c].version

Fits(c) == Current(call[c].limit, call[c].at) + call[c].amount <= call[c].maximum

\* An exact replay commits the expiry and returns the stored row in any state.
PersistReplay(c) ==
    LET l == call[c].limit
        rows == Expire(l, call[c].at)
    IN
    /\ call[c].pc = "persist"
    /\ ~Corrupt(c) /\ Known(c) /\ SameRequest(c)
    /\ reservation' = rows
    /\ counter' = [counter EXCEPT ![l] = Current(l, call[c].at)]
    /\ Return(c, IF rows[call[c].request].state = "active" THEN "existing" ELSE "closed")
    /\ UNCHANGED <<now, entitlement>>

RetriesForever(c) == TRUE
Retries(c) == call[c].attempt < MaxAttempts

\* The entitlement moved since Authorize: roll back, once more from the top, then give up.
PersistChanged(c) ==
    /\ call[c].pc = "persist"
    /\ ~Corrupt(c) /\ ~Known(c) /\ ~Fenced(c)
    /\ IF Retries(c)
       THEN call' = [call EXCEPT ![c] = [call[c] EXCEPT !.pc = "authorize",
                                                        !.attempt = call[c].attempt + 1]]
       ELSE Return(c, "changed")
    /\ UNCHANGED <<now, entitlement, counter, reservation>>

\* The other errors roll everything back, the expiry included.
PersistRefused(c) ==
    /\ call[c].pc = "persist"
    /\ \/ Corrupt(c) /\ Return(c, "corrupt")
       \/ ~Corrupt(c) /\ Known(c) /\ ~SameRequest(c) /\ Return(c, "conflict")
       \/ ~Corrupt(c) /\ ~Known(c) /\ Fenced(c) /\ ~Fits(c) /\ Return(c, "denied")
    /\ UNCHANGED <<now, entitlement, counter, reservation>>

PersistAdmit(c) ==
    LET l == call[c].limit
        expiresAt == IF TTL[l] > 0 THEN call[c].at + TTL[l] ELSE NoExpiry
    IN
    /\ call[c].pc = "persist"
    /\ ~Corrupt(c) /\ ~Known(c) /\ Fenced(c) /\ Fits(c)
    /\ reservation' = [Expire(l, call[c].at) EXCEPT ![call[c].request] =
          [state |-> "active", limit |-> l, amount |-> call[c].amount, expiresAt |-> expiresAt]]
    /\ counter' = [counter EXCEPT ![l] = Current(l, call[c].at) + call[c].amount]
    /\ Return(c, "created")
    /\ UNCHANGED <<now, entitlement>>

\* The connection or the process is lost before the commit: nothing is written.
Abandon(c) ==
    /\ call[c].pc # "idle"
    /\ Return(c, "unknown")
    /\ UNCHANGED <<now, entitlement, counter, reservation>>

-----------------------------------------------------------------------------
(***************************************************************************)
(* Release, by the service or by the work reconciler                       *)
(***************************************************************************)
ClosableAny(r) == reservation[r].state # "absent"
Closable(r) == reservation[r].state = "active"

\* An unknown key is refused; a row that is already closed is returned as it is.
Release(c, r) ==
    LET l == reservation[r].limit
        corrupt == Closable(r) /\ reservation[r].amount > counter[l]
        result == IF reservation[r].state = "absent" THEN "invalid"
                  ELSE IF corrupt THEN "corrupt" ELSE "released"
    IN
    /\ call[c].pc = "idle"
    /\ IF Closable(r) /\ ~corrupt
       THEN /\ counter' = [counter EXCEPT ![l] = @ - reservation[r].amount]
            /\ reservation' = [reservation EXCEPT ![r].state = "released"]
       ELSE UNCHANGED <<counter, reservation>>
    /\ call' = [call EXCEPT ![c] = Done(r, result)]
    /\ UNCHANGED <<now, entitlement>>

-----------------------------------------------------------------------------
(***************************************************************************)
(* The environment: billing projections and catalog rollouts publish a new *)
(* snapshot only when the effective packages differ; time passes.          *)
(***************************************************************************)
ChangeEntitlement(maximum) ==
    /\ entitlement.version < MaxVersion
    /\ maximum # entitlement.maximum
    /\ entitlement' = [version |-> entitlement.version + 1, maximum |-> maximum]
    /\ UNCHANGED <<now, counter, reservation, call>>

Tick ==
    /\ now < MaxTime
    /\ now' = now + 1
    /\ UNCHANGED <<entitlement, counter, reservation, call>>

Persist(c) ==
    PersistReplay(c) \/ PersistChanged(c) \/ PersistRefused(c) \/ PersistAdmit(c)

Next ==
    \/ \E c \in Callers :
        \/ \E r \in Requests, l \in Limits, a \in Amounts : BeginReserve(c, r, l, a)
        \/ Authorize(c) \/ Persist(c) \/ Abandon(c)
        \/ \E r \in Requests : Release(c, r)
    \/ \E maximum \in Snapshots : ChangeEntitlement(maximum)
    \/ Tick

Spec == Init /\ [][Next]_vars

-----------------------------------------------------------------------------
(***************************************************************************)
(* Properties                                                              *)
(***************************************************************************)
TypeOK ==
    /\ now \in Nat
    /\ entitlement \in Entitlement
    /\ counter \in [Limits -> Nat]
    /\ reservation \in [Requests -> Reservation]
    /\ call \in [Callers -> Call]

\* The counter of a limit is exactly the sum of the amounts of its active
\* reservations, across lazy expiry, releases, replays and rolled back calls.
\* It is what makes ErrCorruptUsage unreachable.
CounterConservation == \A l \in Limits : counter[l] = Total(reservation, Held(reservation, l))

\* No caller is ever told that the usage state is corrupt.
NeverCorrupt == \A c \in Callers : call[c].result # "corrupt"

\* Of all the calls made for one request id at most one is told it created the
\* reservation (NewlyCreated), the fact on which the compensation in the Work
\* service rests.
SingleCreator ==
    \A c, d \in Callers :
        call[c].result = "created" /\ call[d].result = "created"
        /\ call[c].request = call[d].request => c = d

\* A reservation is only ever expired after its own expiry instant, although the
\* instant compared with is the one the caller read before the transaction.
NeverExpiredEarly ==
    \A r \in Requests : reservation[r].state = "expired" =>
        /\ reservation[r].expiresAt # NoExpiry
        /\ reservation[r].expiresAt <= now

Created(r) == reservation[r].state = "absent" /\ reservation'[r].state # "absent"

\* The step that creates a reservation leaves the counter within the maximum of
\* the snapshot in force at that very step, although the maximum was read earlier:
\* a downgrade between Authorize and the transaction never admits over the limit.
AdmittedWithinLimit ==
    \A r \in Requests : Created(r) =>
        LET l == reservation'[r].limit IN counter'[l] <= entitlement.maximum[l]
NoOverAdmission == [][AdmittedWithinLimit]_vars

\* A closed reservation is final, and an active one keeps its limit, amount and
\* expiry until it closes: a late retry never resurrects released capacity.
RowsOnlyClose ==
    \A r \in Requests :
        /\ reservation[r].state \in {"released", "expired"} => reservation'[r] = reservation[r]
        /\ reservation[r].state = "active" =>
              /\ reservation'[r].state # "absent"
              /\ reservation'[r] = [reservation[r] EXCEPT !.state = reservation'[r].state]
ReservationsFinal == [][RowsOnlyClose]_vars
=============================================================================
