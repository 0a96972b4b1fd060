--------------------------- MODULE AITokenLedger ---------------------------
(***************************************************************************)
(* The AI Token ledger: modules/aitokens and application/aitokenledger on  *)
(* top of adapters/postgres/ai_token_ledger.go.                            *)
(*                                                                         *)
(* Grants are cohorts of Tokens with an origin: included with a paid       *)
(* invoice, purchased, or a promotion.  An Agent invocation reserves the   *)
(* maximum of its rate over several cohorts and later settles its actual   *)
(* charge.  Every operation is one transaction under the Account lock, so  *)
(* it is one step here; the Catalog publication v and the clock reading t  *)
(* it works with were taken before the lock and may be old.                *)
(*                                                                         *)
(* Billing events are delivered in any order and again until processed.    *)
(***************************************************************************)
EXTENDS Integers, FiniteSets

CONSTANTS
    Accounts,
    Invoices,      \* invoice.paid events, by invoice id
    Payments,      \* top-up payments, by payment intent id; each may be refunded
    Redemptions,   \* promotion redemption request ids
    Requests,      \* Agent invocation ids
    Owner,         \* Owner[x]: the Account of an invoice, payment, redemption or request
    Newest,        \* bound: Catalog publications explored
    Renewal,       \* Renewal[v]: code and quantity of the included grant
    Campaign,      \* Campaign[v]: version, quantity, days, perAccount and cap of the promotion
    Rate,          \* Rate[v]: maximum reservation of the complexity rate
    Bundle,        \* Bundle[p]: quantity frozen by the Checkout attempt of payment p
    MinimumCharge, \* smallest charge of a started invocation
    OpenRowsBlock, \* does the driver refuse a statement while rows are open?  pgx: TRUE
    MaxTime        \* bound: clock values explored

Publications == 1..Newest
Sources == Invoices \cup Payments \cup Redemptions
Codes == {Renewal[v].code : v \in Publications} \cup {"bundle", "campaign"}

ASSUME ConstantsAssumption ==
    /\ IsFiniteSet(Sources) /\ IsFiniteSet(Requests) /\ IsFiniteSet(Codes)
    /\ Invoices \cap Payments = {} /\ Payments \cap Redemptions = {}
    /\ Invoices \cap Redemptions = {}
    /\ Owner \in [Sources \cup Requests -> Accounts]
    /\ Newest \in Nat \ {0}
    /\ \A v \in Publications :
        /\ Renewal[v].quantity \in Nat \ {0}
        /\ Rate[v] \in Nat \ {0} /\ MinimumCharge <= Rate[v]
        /\ Campaign[v] \in [version: Nat, quantity: Nat \ {0}, days: Nat \ {0},
                            perAccount: Nat \ {0}, cap: Nat \ {0}]
    /\ Bundle \in [Payments -> Nat \ {0}]
    /\ MinimumCharge \in Nat \ {0}
    /\ OpenRowsBlock \in BOOLEAN
    /\ MaxTime \in Nat \ {0}

VARIABLES
    now,          \* the clock
    published,    \* the newest Catalog publication
    due,          \* billing events that are not processed yet
    checkout,     \* billing_checkout_attempts.state of a payment
    projecting,   \* payments whose handler is between its two transactions
    grant,        \* ai_token_grants, with ai_token_promotion_issuances
    reservation,  \* ai_token_reservations and their allocations
    entry         \* ai_token_ledger_entries: kind and amount by event key

vars == <<now, published, due, checkout, projecting, grant, reservation, entry>>

\* A grant is identified by its source reference and definition code.
Grants == Sources \X Codes
Never == 0
Refund(p) == <<"refund", p>>
Events == Invoices \cup Payments \cup {Refund(p) : p \in Payments}

Grant == [state: {"absent", "active", "expired", "reversed"}, quantity: Nat, publication: Nat,
          campaign: Nat, available: Nat, reserved: Nat, consumed: Nat, expiresAt: Nat,
          createdAt: Nat]
Reservation == [state: {"absent", "active", "settled", "released"}, maximum: Nat,
                settled: Nat, allocation: [Grants -> Nat]]
Kinds == {"issued", "reserved", "settled", "released", "expired", "reversed"}

NoGrant == [state |-> "absent", quantity |-> 0, publication |-> 0, campaign |-> 0,
            available |-> 0, reserved |-> 0, consumed |-> 0, expiresAt |-> Never,
            createdAt |-> 0]
Nothing == [g \in Grants |-> 0]
NoReservation == [state |-> "absent", maximum |-> 0, settled |-> 0, allocation |-> Nothing]

Init ==
    /\ now = 1
    /\ published = 1
    /\ due = Events
    /\ checkout = [p \in Payments |-> "active"]
    /\ projecting = {}
    /\ grant = [g \in Grants |-> NoGrant]
    /\ reservation = [q \in Requests |-> NoReservation]
    /\ entry = {}

-----------------------------------------------------------------------------
\* The sum of f over S, as the number of pairs <<x, 1>> .. <<x, f[x]>>.
Sum(f, S) == Cardinality(UNION {{x} \X (1..f[x]) : x \in S})

Lesser(m, n) == IF m < n THEN m ELSE n
Excess(m, n) == IF m > n THEN m - n ELSE 0

Exists == {g \in Grants : grant[g].state # "absent"}
OfAccount(a) == {g \in Exists : Owner[g[1]] = a}
Available == [g \in Grants |-> grant[g].available]
\* Rows are written one Account transaction after the other; the instant and the id
\* of a row order it after the rows before it.
Created == Cardinality(Exists) + 1

\* ExpiresAt is nil or after now
Live(g, t) == grant[g].expiresAt = Never \/ grant[g].expiresAt > t

GrantBeforeFIFO(g, h) == grant[g].createdAt < grant[h].createdAt
\* Earliest expiry first, those that never expire last, then by creation.
grantBefore(g, h) ==
    LET e == grant[g].expiresAt
        f == grant[h].expiresAt
    IN  \/ e # Never /\ f = Never
        \/ e # Never /\ f # Never /\ e < f
        \/ e = f /\ grant[g].createdAt < grant[h].createdAt

Spendable(a, t) ==
    {g \in OfAccount(a) : grant[g].state = "active" /\ grant[g].available > 0 /\ Live(g, t)}

SpreadUncapped(S, limit, total) == [g \in Grants |-> IF g \in S THEN total ELSE 0]
\* What the loop over the sorted cohorts S takes from each when it has `total` to
\* take and no more than limit[g] from g.
Spread(S, limit, total) ==
    [g \in Grants |->
        IF g \in S
        THEN Lesser(limit[g], Excess(total, Sum(limit, {h \in S : grantBefore(h, g)})))
        ELSE 0]

\* insertAITokenEntry: ON CONFLICT (account_id, event_key) DO NOTHING.
Record(key, kind, account, amount) ==
    IF amount = 0 \/ \E e \in entry : e.key = key /\ e.account = account THEN {}
    ELSE {[key |-> key, kind |-> kind, account |-> account, amount |-> amount]}

-----------------------------------------------------------------------------
(***************************************************************************)
(* Reserve and Close                                                       *)
(***************************************************************************)
\* A retry returns the stored reservation with its frozen rate: no step.
Reserve(q, v, t) ==
    LET a == Owner[q]
        cohorts == Spendable(a, t)
        take == Spread(cohorts, Available, Rate[v])
    IN
    /\ reservation[q].state = "absent"
    /\ Sum(Available, cohorts) >= Rate[v]
    /\ grant' = [g \in Grants |-> [grant[g] EXCEPT !.available = @ - take[g],
                                                  !.reserved = @ + take[g]]]
    /\ reservation' = [reservation EXCEPT ![q] =
          [state |-> "active", maximum |-> Rate[v], settled |-> 0, allocation |-> take]]
    /\ entry' = entry \cup Record(<<"reserve", q>>, "reserved", a, Rate[v])
    /\ UNCHANGED <<now, published, due, checkout, projecting>>

ReturnsAlways(g, t) == TRUE
ReturnsDated(g, t) == grant[g].state = "active" /\ grant[g].expiresAt > t
\* Only an active cohort that has not expired gets its unused Tokens back.
Returns(g, t) == grant[g].state = "active" /\ Live(g, t)

CloseableAny(q) == reservation[q].state # "absent"
Closeable(q) == reservation[q].state = "active"

\* settled is 0 unless the provider started; a charge beyond the reserved maximum
\* is refused without a step, and so is closing an unknown or a closed reservation.
Close(q, settled, t) ==
    LET row == reservation[q]
        cohorts == {g \in Grants : row.allocation[g] > 0}
        debit == Spread(cohorts, row.allocation, settled)
        unused(g) == IF Returns(g, t) THEN row.allocation[g] - debit[g] ELSE 0
    IN
    /\ Closeable(q)
    /\ settled <= row.maximum
    /\ \A g \in cohorts : grant[g].reserved >= row.allocation[g]
    /\ grant' = [g \in Grants |->
          [grant[g] EXCEPT !.reserved = @ - row.allocation[g], !.consumed = @ + debit[g],
                           !.available = @ + unused(g)]]
    /\ reservation' = [reservation EXCEPT ![q].settled = settled,
                          ![q].state = IF settled = 0 THEN "released" ELSE "settled"]
    /\ entry' = entry \cup Record(<<"settle", q>>, "settled", Owner[q], settled)
                      \cup Record(<<"release", q>>, "released", Owner[q], row.maximum - settled)
    /\ UNCHANGED <<now, published, due, checkout, projecting>>

Charges == {0} \cup {n \in 1..(Rate[published] + 1) : n >= MinimumCharge}

-----------------------------------------------------------------------------
(***************************************************************************)
(* Issuance by the billing worker.  The handlers of an event run in        *)
(* sequence; when a later one fails the event stays due and all of them    *)
(* run again.                                                              *)
(***************************************************************************)
NewGrant(quantity, v, campaign, expiresAt) ==
    [NoGrant EXCEPT !.state = "active", !.quantity = quantity, !.publication = v,
                    !.campaign = campaign, !.available = quantity, !.expiresAt = expiresAt,
                    !.createdAt = Created]

EventDone(x) == due' \in {due, due \ {x}}

RenewedUnused(a) ==
    {g \in OfAccount(a) :
        g[1] \in Invoices /\ grant[g].state = "active" /\ grant[g].available > 0}
\* The included cohorts that a renewal of Account a closes, used up or not.
Renewed(a) ==
    {g \in OfAccount(a) : g[1] \in Invoices /\ grant[g].state = "active"}

\* The entry for an unused remainder is inserted while the rows of the UPDATE are
\* still being read on the transaction's one connection.  A driver that refuses this
\* makes the whole transaction fail and the event is retried.
ConnBusy(old) == OpenRowsBlock /\ \E g \in old : grant[g].available > 0

IssueIncluded(i, v) ==
    LET a == Owner[i]
        new == <<i, Renewal[v].code>>
        old == Renewed(a)
    IN
    /\ i \in due
    /\ grant[new].state = "absent"
    /\ ~ConnBusy(old)
    /\ grant' = [g \in Grants |->
          IF g = new THEN NewGrant(Renewal[v].quantity, v, 0, Never)
          ELSE IF g \in old THEN [grant[g] EXCEPT !.available = 0, !.state = "expired"]
          ELSE grant[g]]
    /\ entry' = entry
          \cup (UNION {Record(<<"expire", g, i>>, "expired", a, grant[g].available) : g \in old})
          \cup Record(<<"issue", new>>, "issued", a, Renewal[v].quantity)
    /\ EventDone(i)
    /\ UNCHANGED <<now, published, checkout, projecting, reservation>>

\* The grant is there already; another publication's version or quantity is refused.
ReplayIncluded(i, v) ==
    LET row == grant[<<i, Renewal[v].code>>] IN
    /\ i \in due
    /\ row.state # "absent" /\ row.publication = v /\ row.quantity = Renewal[v].quantity
    /\ due' = due \ {i}
    /\ UNCHANGED <<now, published, checkout, projecting, grant, reservation, entry>>

ledger == <<grant, reservation, entry>>

\* checkout.session.completed: complete the Checkout attempt, then issue what it froze.
ProjectOneTimePurchase(p) ==
    /\ p \in due \ projecting
    /\ checkout[p] \in {"active", "completed"}
    /\ checkout' = [checkout EXCEPT ![p] = "completed"]
    /\ projecting' = projecting \cup {p}
    /\ UNCHANGED <<now, published, due, ledger>>

IssuePurchased(p) ==
    LET new == <<p, "bundle">> IN
    /\ p \in projecting
    /\ IF grant[new].state = "absent"
       THEN /\ grant' = [grant EXCEPT ![new] = NewGrant(Bundle[p], 1, 0, Never)]
            /\ entry' = entry \cup Record(<<"issue", new>>, "issued", Owner[p], Bundle[p])
       ELSE UNCHANGED <<grant, entry>>
    /\ projecting' = projecting \ {p}
    /\ EventDone(p)
    /\ UNCHANGED <<now, published, checkout, reservation>>

\* The worker is lost between the two; the event stays due.
AbandonPurchase(p) ==
    /\ p \in projecting
    /\ projecting' = projecting \ {p}
    /\ UNCHANGED <<now, published, due, checkout, ledger>>

\* No Checkout attempt has this payment intent: it is recorded by the purchase.
UnknownPayment(p) == checkout[p] = "active"

\* charge.refunded: an unknown payment is none of ours and the event is processed.
ProjectPurchaseRefund(p) ==
    /\ Refund(p) \in due
    /\ IF UnknownPayment(p)
       THEN due' = due \ {Refund(p)} /\ UNCHANGED checkout
       ELSE checkout' = [checkout EXCEPT ![p] = "refunded"] /\ UNCHANGED due
    /\ UNCHANGED <<now, published, projecting, ledger>>

\* ReverseUnused refuses a cohort with an active reservation.
IdleGrant(g) == grant[g].reserved = 0

\* The second transaction of charge.refunded.  It fails, and the event stays due,
\* while the grant is not issued or is reserved; a reversed one is left as it is.
ReversePurchased(p) ==
    LET g == <<p, "bundle">> IN
    /\ Refund(p) \in due /\ checkout[p] = "refunded"
    /\ grant[g].state # "absent"
    /\ IF grant[g].state = "reversed"
       THEN UNCHANGED <<grant, entry>>
       ELSE /\ IdleGrant(g)
            /\ grant' = [grant EXCEPT ![g].available = 0, ![g].state = "reversed"]
            /\ entry' = entry \cup Record(<<"reverse", p>>, "reversed", Owner[p],
                                          grant[g].available)
    /\ EventDone(Refund(p))
    /\ UNCHANGED <<now, published, checkout, projecting, reservation>>

Issuances(n) == {g \in Exists : g[1] \in Redemptions /\ grant[g].campaign = n}

WithinCapOfPublication(a, v) ==
    LET issued == {g \in Issuances(Campaign[v].version) : grant[g].publication = v} IN
    /\ Cardinality(issued \cap OfAccount(a)) < Campaign[v].perAccount
    /\ Cardinality(issued) < Campaign[v].cap
\* The two counts taken under the campaign's advisory lock.
WithinCap(a, v) ==
    LET issued == Issuances(Campaign[v].version) IN
    /\ Cardinality(issued \cap OfAccount(a)) < Campaign[v].perAccount
    /\ Cardinality(issued) < Campaign[v].cap

\* A repeated request id returns the stored grant: no step.
RedeemPromotion(r, v, t) ==
    LET new == <<r, "campaign">> IN
    /\ grant[new].state = "absent"
    /\ WithinCap(Owner[r], v)
    /\ grant' = [grant EXCEPT ![new] = NewGrant(Campaign[v].quantity, v, Campaign[v].version,
                                                t + Campaign[v].days)]
    /\ entry' = entry \cup Record(<<"issue", new>>, "issued", Owner[r], Campaign[v].quantity)
    /\ UNCHANGED <<now, published, due, checkout, projecting, reservation>>

-----------------------------------------------------------------------------
\* The operator queues a processed event again.
Replay(x) ==
    /\ x \in Events \ due
    /\ due' = due \cup {x}
    /\ UNCHANGED <<now, published, checkout, projecting, ledger>>

Publish ==
    /\ published + 1 \in Publications
    /\ published' = published + 1
    /\ UNCHANGED <<now, due, checkout, projecting, grant, reservation, entry>>

Tick ==
    /\ now < MaxTime
    /\ now' = now + 1
    /\ UNCHANGED <<published, due, checkout, projecting, grant, reservation, entry>>

Next ==
    \/ \E q \in Requests, t \in 1..now :
        \/ \E v \in 1..published : Reserve(q, v, t)
        \/ \E settled \in Charges : Close(q, settled, t)
    \/ \E i \in Invoices, v \in 1..published : IssueIncluded(i, v) \/ ReplayIncluded(i, v)
    \/ \E p \in Payments :
        \/ ProjectOneTimePurchase(p) \/ IssuePurchased(p) \/ AbandonPurchase(p)
        \/ ProjectPurchaseRefund(p) \/ ReversePurchased(p)
    \/ \E r \in Redemptions, v \in 1..published, t \in 1..now : RedeemPromotion(r, v, t)
    \/ \E x \in Events : Replay(x)
    \/ Publish
    \/ Tick

Spec == Init /\ [][Next]_vars

\* A failed event is claimed again after its retry delay, without a limit on attempts.
Projected(i) == \E v \in 1..published : IssueIncluded(i, v)
FairSpec == Spec /\ \A i \in Invoices : WF_vars(Projected(i))

-----------------------------------------------------------------------------
(***************************************************************************)
(* Properties                                                              *)
(***************************************************************************)
TypeOK ==
    /\ now \in 1..MaxTime
    /\ published \in Publications
    /\ due \subseteq Events
    /\ checkout \in [Payments -> {"active", "completed", "refunded"}]
    /\ projecting \subseteq Payments
    /\ grant \in [Grants -> Grant]
    /\ reservation \in [Requests -> Reservation]
    /\ \A e \in entry : e.kind \in Kinds /\ e.account \in Accounts /\ e.amount \in Nat \ {0}

\* Every row passes RestoreGrant and the table's CHECKs.  One that did not would
\* make every later operation of the Account fail.
GrantsRestorable ==
    \A g \in Grants :
        LET row == grant[g] IN
        /\ row.available + row.reserved + row.consumed <= row.quantity
        /\ row.state # "active" => row.available = 0

Allocated(g) ==
    Sum([q \in Requests |-> reservation[q].allocation[g]],
        {q \in Requests : reservation[q].state = "active"})

\* What a cohort has reserved is what the active reservations hold of it, so
\* closing a reservation never finds its Tokens missing.
ReservedBacked == \A g \in Grants : grant[g].reserved = Allocated(g)

AmountOf(kind) == Sum([e \in entry |-> e.amount], {e \in entry : e.kind = kind})

\* Tokens are debited exactly once: what the cohorts have consumed, what the
\* reservations have settled and what the immutable entries record agree.
DebitedOnce ==
    LET consumed == Sum([g \in Grants |-> grant[g].consumed], Grants) IN
    /\ consumed = Sum([q \in Requests |-> reservation[q].settled], Requests)
    /\ consumed = AmountOf("settled")

\* Nothing leaks from a cohort that does not expire: until it is closed all its
\* Tokens are available, reserved or consumed.
NothingLost ==
    \A g \in Grants :
        LET row == grant[g] IN
        row.state = "active" /\ row.expiresAt = Never =>
            row.available + row.reserved + row.consumed = row.quantity

\* Included Tokens do not roll over: at most one included cohort of an Account is
\* active, whatever the order in which its invoices are projected.
OneIncludedCohort ==
    \A g, h \in Exists :
        /\ g[1] \in Invoices /\ h[1] \in Invoices /\ Owner[g[1]] = Owner[h[1]]
        /\ grant[g].state = "active" /\ grant[h].state = "active"
        => g = h

\* A refund waits for the reservations of its cohort: nothing of a reversed cohort
\* is held by a running invocation or can be spent later.
RefundWaits ==
    \A g \in Grants : grant[g].state = "reversed" =>
        grant[g].reserved = 0 /\ grant[g].available = 0 /\ Allocated(g) = 0

\* Tokens are conserved through reservations, settlements, renewals and refunds in any
\* order: no cohort gains or loses any, each is debited once, and a refund leaves
\* nothing behind.
TokensConserved == GrantsRestorable /\ DebitedOnce /\ NothingLost /\ RefundWaits

\* The issuances of a campaign up to and including that of cohort g.
IssuedUpTo(g) == {h \in Issuances(grant[g].campaign) : grant[h].createdAt <= grant[g].createdAt}

\* RedeemPromotion never issues a campaign beyond the caps it was redeemed under: when
\* one version has different caps in two publications and stale processes redeem the
\* older one, an issuance still counts all those before it, whichever publication they
\* were issued under.  So a version is never issued beyond the largest cap it has.
CampaignCapped ==
    \A g \in Exists : g[1] \in Redemptions =>
        LET v == grant[g].publication IN
        /\ v \in Publications /\ grant[g].campaign = Campaign[v].version
        /\ Cardinality(IssuedUpTo(g)) <= Campaign[v].cap
        /\ Cardinality(IssuedUpTo(g) \cap OfAccount(Owner[g[1]])) <= Campaign[v].perAccount

\* A closed cohort never regains availability, even when a reservation taken
\* before is released after, and what is consumed stays consumed.
CohortsOnlyClose ==
    \A g \in Grants :
        /\ grant[g].state \in {"expired", "reversed"} =>
              grant'[g].state \in {"expired", "reversed"} /\ grant'[g].available = 0
        /\ grant'[g].consumed >= grant[g].consumed
NoRevival == [][CohortsOnlyClose]_vars

\* A reservation leaves nothing available in a live cohort that expires before one
\* it takes from: a purchased Token is never spent while a promotion's would do.
SpentInOrder ==
    \A q \in Requests : reservation[q].state = "absent" /\ reservation'[q].state = "active" =>
        \A g, h \in OfAccount(Owner[q]) :
            /\ reservation'[q].allocation[h] > 0
            /\ grant[g].state = "active" /\ grant[g].expiresAt > now
            /\ grant[h].expiresAt = Never \/ grant[h].expiresAt > grant[g].expiresAt
            => grant'[g].available = 0
EarliestFirst == [][SpentInOrder]_vars

\* Every paid invoice is eventually granted its included Tokens, whatever the Account
\* has left of the cohort before.
RenewalGranted == \A i \in Invoices : <>(\E g \in Exists : g[1] = i)
=============================================================================
