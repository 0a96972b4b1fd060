------------------------ MODULE UsageAdmissionProofs ------------------------
(***************************************************************************)
(* Proofs about capacity admission, for any finite set of request ids, any *)
(* limits, callers, TTLs, snapshots and bounds.                            *)
(***************************************************************************)
EXTENDS UsageAdmission, FiniteSetTheorems, TLAPS

-----------------------------------------------------------------------------
(***************************************************************************)
(* Sums of amounts                                                         *)
(***************************************************************************)

\* The units of a set of requests are finitely many, so sums are naturals.
LEMMA UnitsFinite ==
    ASSUME NEW rows, NEW S \in SUBSET Requests
    PROVE  IsFiniteSet(Units(rows, S)) /\ Total(rows, S) \in Nat
<1>1. IsFiniteSet(S)
  BY FS_Subset, ConstantsAssumption
<1>2. IsFiniteSet(Amounts)
  BY FS_Interval, ConstantsAssumption DEF Amounts
<1>3. IsFiniteSet(S \X Amounts)
  BY <1>1, <1>2, FS_Product
<1>4. Units(rows, S) \in SUBSET (S \X Amounts)
  BY DEF Units
<1> QED
  BY <1>3, <1>4, FS_Subset, FS_CardinalityType DEF Total

\* Sums only depend on the amounts.
LEMMA TotalSameAmounts ==
    ASSUME NEW rows, NEW other, NEW S, \A r \in S : rows[r].amount = other[r].amount
    PROVE  Total(rows, S) = Total(other, S)
<1>1. \A u \in S \X Amounts : u[1] \in S
  OBVIOUS
<1>2. Units(rows, S) = Units(other, S)
  BY <1>1 DEF Units
<1> QED
  BY <1>2 DEF Total

\* A sum over a set splits into the sums over a subset and over the rest.
LEMMA TotalSplit ==
    ASSUME NEW rows, NEW S \in SUBSET Requests, NEW T \in SUBSET S
    PROVE  Total(rows, S) = Total(rows, T) + Total(rows, S \ T)
<1>1. T \in SUBSET Requests /\ S \ T \in SUBSET Requests
  OBVIOUS
<1>2. /\ IsFiniteSet(Units(rows, T)) /\ Total(rows, T) \in Nat
      /\ IsFiniteSet(Units(rows, S \ T)) /\ Total(rows, S \ T) \in Nat
  BY <1>1, UnitsFinite
<1>3. Units(rows, S) = Units(rows, T) \cup Units(rows, S \ T)
  <2>1. \A u \in S \X Amounts : u \in T \X Amounts \/ u \in (S \ T) \X Amounts
    OBVIOUS
  <2>2. \A u \in T \X Amounts : u \in S \X Amounts
    OBVIOUS
  <2>3. \A u \in (S \ T) \X Amounts : u \in S \X Amounts
    OBVIOUS
  <2> QED
    BY <2>1, <2>2, <2>3 DEF Units
<1>4. Units(rows, T) \cap Units(rows, S \ T) = {}
  <2>1. \A u \in T \X Amounts : u \notin (S \ T) \X Amounts
    OBVIOUS
  <2> QED
    BY <2>1 DEF Units
<1>5. Cardinality(Units(rows, S)) =
        Cardinality(Units(rows, T)) + Cardinality(Units(rows, S \ T)) - Cardinality({})
  BY <1>2, <1>3, <1>4, FS_Union
<1> QED
  BY <1>2, <1>5, FS_EmptySet DEF Total

\* One request contributes its amount.
LEMMA TotalSingle ==
    ASSUME NEW rows, NEW r \in Requests, rows[r].amount \in Amounts
    PROVE  Total(rows, {r}) = rows[r].amount
<1> DEFINE a == rows[r].amount
<1>1. a \in Nat /\ a >= 1 /\ a <= MaxAmount
  BY ConstantsAssumption DEF Amounts
<1>2. Units(rows, {r}) = {r} \X (1..a)
  <2>1. \A u \in {r} \X Amounts : u[1] = r
    OBVIOUS
  <2>2. \A u \in {r} \X Amounts : u[2] <= a <=> u \in {r} \X (1..a)
    BY <1>1, ConstantsAssumption DEF Amounts
  <2>3. \A u \in {r} \X (1..a) : u \in {r} \X Amounts
    BY <1>1, ConstantsAssumption DEF Amounts
  <2> QED
    BY <2>1, <2>2, <2>3 DEF Units
<1>3. IsFiniteSet({r}) /\ Cardinality({r}) = 1
  BY FS_Singleton
<1>4. IsFiniteSet(1..a) /\ Cardinality(1..a) = a
  <2>1. a \in Int /\ 1 \in Int /\ ~(1 > a) /\ a - 1 + 1 = a
    BY <1>1
  <2> HIDE DEF a
  <2> QED
    BY <2>1, FS_Interval
<1>5. Cardinality({r} \X (1..a)) = a
  <2> DEFINE R == {r}
             I == 1..a
  <2>1. IsFiniteSet(R) /\ Cardinality(R) = 1 /\ IsFiniteSet(I) /\ Cardinality(I) = a
    BY <1>3, <1>4
  <2>2. a \in Nat
    BY <1>1
  <2> HIDE DEF R, I, a
  <2>3. Cardinality(R \X I) = Cardinality(R) * Cardinality(I)
    BY <2>1, FS_Product, Zenon
  <2>4. Cardinality(R \X I) = 1 * a
    BY <2>1, <2>3, Zenon
  <2>5. 1 * a = a
    BY <2>2
  <2> QED
    BY <2>4, <2>5, Zenon DEF R, I
<1> QED
  BY <1>2, <1>5, Zenon DEF Total

-----------------------------------------------------------------------------
(***************************************************************************)
(* The inductive invariant                                                 *)
(***************************************************************************)

\* A stored or requested amount is one of the amounts that can be asked for.
AmountsInv ==
    /\ \A r \in Requests : reservation[r].state # "absent" => reservation[r].amount \in Amounts
    /\ \A c \in Callers : call[c].pc # "idle" => call[c].amount \in Amounts

\* What a call remembers of the snapshot it was authorized with: a version not
\* newer than the Account's and, as long as they are equal, the maximum in force.
SnapshotInv ==
    \A c \in Callers : call[c].pc = "persist" =>
        /\ call[c].version <= entitlement.version
        /\ call[c].version = entitlement.version =>
              call[c].maximum = entitlement.maximum[call[c].limit]

\* A call compares expiry instants with a clock reading that is not in the future.
ClockInv == \A c \in Callers : call[c].at <= now

\* Whoever was told that it created a reservation did.
CreatorInv ==
    \A c \in Callers : call[c].result = "created" =>
        call[c].pc = "idle" /\ reservation[call[c].request].state # "absent"

\* The inductive invariant: types, conservation and what the calls remember.
IInv == /\ TypeOK /\ AmountsInv /\ CounterConservation
        /\ SnapshotInv /\ ClockInv /\ CreatorInv /\ NeverCorrupt /\ SingleCreator
        /\ NeverExpiredEarly

\* The rows of two limits are disjoint, and all are rows of the table.
LEMMA HeldSubset == \A rows, l : Held(rows, l) \in SUBSET Requests
  BY DEF Held

\* The row of a request id nobody used and the record of a caller at rest are typed.
LEMMA AbsentType == Absent \in Reservation /\ Idle \in Call /\ Idle.pc = "idle" /\ Idle.at = 0
                    /\ Idle.result = "none" /\ Absent.state = "absent"
<1>1. AnyLimit \in Limits
  BY ConstantsAssumption DEF AnyLimit
<1>2. AnyRequest \in Requests
  BY ConstantsAssumption DEF AnyRequest
<1> QED
  BY <1>1, <1>2 DEF Absent, Idle, Reservation, Call, ReservationStates, Results, NoExpiry,
                    MaxAttempts

\* Initially nothing is held.
LEMMA InitIInv == Init => IInv
<1> SUFFICES ASSUME Init PROVE IInv
  OBVIOUS
<1> USE AbsentType
<1>1. TypeOK
  BY ConstantsAssumption DEF Init, TypeOK, Entitlement
<1>2. CounterConservation
  <2> SUFFICES ASSUME NEW l \in Limits
               PROVE counter[l] = Total(reservation, Held(reservation, l))
    BY DEF CounterConservation
  <2>1. Held(reservation, l) = {}
    BY DEF Init, Held
  <2>2. Units(reservation, {}) = {}
    BY DEF Units
  <2> QED
    BY <2>1, <2>2, FS_EmptySet DEF Init, Total
<1>3. AmountsInv /\ SnapshotInv /\ CreatorInv /\ NeverCorrupt /\ SingleCreator
  BY DEF Init, AmountsInv, SnapshotInv, CreatorInv, NeverCorrupt, SingleCreator
<1>4. ClockInv
  BY DEF Init, ClockInv
<1>5. NeverExpiredEarly
  BY DEF Init, NeverExpiredEarly
<1> QED
  BY <1>1, <1>2, <1>3, <1>4, <1>5 DEF IInv

-----------------------------------------------------------------------------
(***************************************************************************)
(* Lazy expiry                                                             *)
(***************************************************************************)

\* What closing the lapsed rows does to the table.
ExpireFacts(l, t) ==
    /\ Expire(l, t) \in [Requests -> Reservation]
    /\ \A r \in Requests :
        /\ Expire(l, t)[r].amount = reservation[r].amount
        /\ Expire(l, t)[r].limit = reservation[r].limit
        /\ Expire(l, t)[r].expiresAt = reservation[r].expiresAt
        /\ r \in Lapsed(l, t) => Expire(l, t)[r].state = "expired"
        /\ r \notin Lapsed(l, t) => Expire(l, t)[r] = reservation[r]
        /\ Expire(l, t)[r].state = "absent" <=> reservation[r].state = "absent"

\* Closing the lapsed rows changes states only, and never the state "absent".
LEMMA ExpireRows ==
    ASSUME TypeOK, NEW l \in Limits, NEW t \in Nat
    PROVE  ExpireFacts(l, t)
<1>1. \A r \in Requests : reservation[r] \in Reservation
  BY DEF TypeOK
<1>2. \A r \in Requests : Expire(l, t)[r] = IF r \in Lapsed(l, t)
                          THEN [reservation[r] EXCEPT !.state = "expired"]
                          ELSE reservation[r]
  BY DEF Expire
<1>3. \A r \in Lapsed(l, t) : r \in Requests /\ reservation[r].state = "active"
  BY DEF Lapsed, Held
<1>4. \A r \in Requests : Expire(l, t)[r] \in Reservation
  BY <1>1, <1>2 DEF Reservation, ReservationStates
<1>5. Expire(l, t) \in [Requests -> Reservation]
  BY <1>4 DEF Expire
<1> QED
  BY <1>1, <1>2, <1>3, <1>5 DEF Reservation, ReservationStates, ExpireFacts

\* The rows closed have passed their expiry, compared with a past clock reading.
LEMMA ExpiryTimely ==
    ASSUME TypeOK, NeverExpiredEarly, NEW l \in Limits, NEW t \in Nat, t <= now,
           ExpireFacts(l, t), NEW r \in Requests, Expire(l, t)[r].state = "expired"
    PROVE  Expire(l, t)[r].expiresAt # NoExpiry /\ Expire(l, t)[r].expiresAt <= now
<1>1. reservation[r].expiresAt \in Nat /\ now \in Nat
  BY DEF TypeOK, Reservation
<1>2. CASE r \in Lapsed(l, t)
  BY <1>1, <1>2 DEF ExpireFacts, Lapsed
<1>3. CASE r \notin Lapsed(l, t)
  BY <1>1, <1>3 DEF ExpireFacts, NeverExpiredEarly
<1> QED BY <1>2, <1>3

\* Expiry only ever closes active rows.
LEMMA ExpiryCloses ==
    ASSUME TypeOK, NEW l \in Limits, NEW t \in Nat, ExpireFacts(l, t), NEW r \in Requests
    PROVE  /\ reservation[r].state \in {"released", "expired"} =>
                  Expire(l, t)[r] = reservation[r]
           /\ reservation[r].state = "active" =>
                  /\ Expire(l, t)[r].state # "absent"
                  /\ Expire(l, t)[r] = [reservation[r] EXCEPT !.state = Expire(l, t)[r].state]
<1>1. reservation[r] \in Reservation
  BY DEF TypeOK
<1>2. CASE r \in Lapsed(l, t)
  <2>1. reservation[r].state = "active"
    BY <1>2 DEF Lapsed, Held
  <2>2. Expire(l, t)[r] = [reservation[r] EXCEPT !.state = "expired"]
    BY <1>2 DEF Expire
  <2> QED BY <1>1, <2>1, <2>2 DEF Reservation
<1>3. CASE r \notin Lapsed(l, t)
  <2>1. Expire(l, t)[r] = reservation[r]
    BY <1>3 DEF ExpireFacts
  <2> QED BY <1>1, <2>1 DEF Reservation
<1> QED BY <1>2, <1>3

\* Once the lapsed rows of l are closed, Current is what the rest of l holds, and
\* the other limits are untouched.
LEMMA ExpireConserves ==
    ASSUME TypeOK, CounterConservation, NEW l \in Limits, NEW t \in Nat
    PROVE  /\ Expired(l, t) \in Nat /\ Expired(l, t) <= counter[l]
           /\ Current(l, t) \in Nat
           /\ Current(l, t) = Total(Expire(l, t), Held(Expire(l, t), l))
           /\ \A m \in Limits \ {l} :
                counter[m] = Total(Expire(l, t), Held(Expire(l, t), m))
<1> DEFINE rows == Expire(l, t)
<1>1. /\ rows \in [Requests -> Reservation]
      /\ \A r \in Requests :
            /\ rows[r].amount = reservation[r].amount
            /\ rows[r].limit = reservation[r].limit
            /\ r \in Lapsed(l, t) => rows[r].state = "expired"
            /\ r \notin Lapsed(l, t) => rows[r] = reservation[r]
  <2>1. ExpireFacts(l, t)
    BY ExpireRows
  <2> QED BY <2>1 DEF ExpireFacts
<1>2. Lapsed(l, t) \in SUBSET Held(reservation, l)
  BY DEF Lapsed
<1>3. Held(rows, l) = Held(reservation, l) \ Lapsed(l, t)
  <2> HIDE DEF rows
  <2> QED BY <1>1 DEF Held
<1>4. \A m \in Limits \ {l} : Held(rows, m) = Held(reservation, m)
  <2>1. \A r \in Lapsed(l, t) : reservation[r].limit = l
    BY DEF Lapsed, Held
  <2> HIDE DEF rows
  <2> QED BY <1>1, <2>1 DEF Held
<1> HIDE DEF rows
<1>5. \A S \in SUBSET Requests : Total(rows, S) = Total(reservation, S)
  <2> SUFFICES ASSUME NEW S \in SUBSET Requests
               PROVE Total(rows, S) = Total(reservation, S)
    OBVIOUS
  <2>1. \A r \in S : rows[r].amount = reservation[r].amount
    BY <1>1
  <2> QED BY <2>1, TotalSameAmounts
<1>6. Held(reservation, l) \in SUBSET Requests
  BY HeldSubset
<1>7. counter[l] = Total(reservation, Held(reservation, l)) /\ counter[l] \in Nat
  BY DEF CounterConservation, TypeOK
<1>8. Total(reservation, Held(reservation, l)) =
        Total(reservation, Lapsed(l, t)) + Total(reservation, Held(reservation, l) \ Lapsed(l, t))
  BY <1>2, <1>6, TotalSplit
<1>9. /\ Total(reservation, Lapsed(l, t)) \in Nat
      /\ Total(reservation, Held(reservation, l) \ Lapsed(l, t)) \in Nat
  <2>1. Lapsed(l, t) \in SUBSET Requests /\ Held(reservation, l) \ Lapsed(l, t) \in SUBSET Requests
    BY <1>2, <1>6
  <2> QED BY <2>1, UnitsFinite
<1>10. Total(rows, Held(rows, l)) = Total(reservation, Held(reservation, l) \ Lapsed(l, t))
  BY <1>3, <1>5, <1>6
<1>11. Expired(l, t) = Total(reservation, Lapsed(l, t))
  BY DEF Expired
<1>12. Current(l, t) = counter[l] - Expired(l, t)
  BY DEF Current
<1>13. \A m \in Limits \ {l} : counter[m] = Total(rows, Held(rows, m))
  <2> TAKE m \in Limits \ {l}
  <2>1. Held(rows, m) = Held(reservation, m) /\ Held(reservation, m) \in SUBSET Requests
    BY <1>4, HeldSubset
  <2>2. counter[m] = Total(reservation, Held(reservation, m))
    BY DEF CounterConservation
  <2> QED BY <2>1, <2>2, <1>5
<1>14. Current(l, t) \in Nat /\ Expired(l, t) <= counter[l]
       /\ Current(l, t) = Total(rows, Held(rows, l)) /\ Expired(l, t) \in Nat
  BY <1>7, <1>8, <1>9, <1>10, <1>11, <1>12
<1> QED BY <1>13, <1>14 DEF rows

\* Adding one active row to a table adds its amount to what its limit holds.
LEMMA HeldAfterInsert ==
    ASSUME NEW rows \in [Requests -> Reservation], NEW r \in Requests,
           rows[r].state = "absent",
           NEW row \in Reservation, row.state = "active", row.amount \in Amounts
    PROVE  LET after == [rows EXCEPT ![r] = row] IN
           /\ Total(after, Held(after, row.limit)) =
                Total(rows, Held(rows, row.limit)) + row.amount
           /\ \A m \in Limits \ {row.limit} :
                Total(after, Held(after, m)) = Total(rows, Held(rows, m))
<1> DEFINE after == [rows EXCEPT ![r] = row]
           l == row.limit
<1>1. /\ after[r] = row /\ after[r].amount \in Amounts
      /\ \A s \in Requests \ {r} : after[s] = rows[s]
  OBVIOUS
<1>2. Held(after, l) = Held(rows, l) \cup {r} /\ r \notin Held(rows, l)
  BY <1>1 DEF Held
<1>3. \A m \in Limits \ {l} : Held(after, m) = Held(rows, m) /\ r \notin Held(rows, m)
  BY <1>1 DEF Held
<1> HIDE DEF after
<1>4. \A S \in SUBSET Requests : r \notin S => Total(after, S) = Total(rows, S)
  <2> SUFFICES ASSUME NEW S \in SUBSET Requests, r \notin S
               PROVE Total(after, S) = Total(rows, S)
    OBVIOUS
  <2>1. \A s \in S : after[s].amount = rows[s].amount
    BY <1>1
  <2> QED BY <2>1, TotalSameAmounts
<1>5. Total(after, Held(after, l)) = Total(after, {r}) + Total(after, Held(after, l) \ {r})
  <2>1. Held(after, l) \in SUBSET Requests /\ {r} \in SUBSET Held(after, l)
    BY <1>2, HeldSubset
  <2> QED BY <2>1, TotalSplit
<1>6. Held(after, l) \ {r} = Held(rows, l) /\ Held(rows, l) \in SUBSET Requests
  BY <1>2, HeldSubset
<1>7. Total(after, {r}) = row.amount
  BY <1>1, TotalSingle
<1>8. Total(after, Held(after, l)) = row.amount + Total(rows, Held(rows, l))
  BY <1>2, <1>4, <1>5, <1>6, <1>7
<1>9. Total(rows, Held(rows, l)) \in Nat /\ row.amount \in Nat
  BY <1>6, UnitsFinite DEF Reservation
<1>10. \A m \in Limits \ {l} : Total(after, Held(after, m)) = Total(rows, Held(rows, m))
  <2> TAKE m \in Limits \ {l}
  <2>1. Held(after, m) = Held(rows, m) /\ r \notin Held(rows, m) /\ Held(rows, m) \in SUBSET Requests
    BY <1>3, HeldSubset
  <2> QED BY <2>1, <1>4
<1>11. Total(after, Held(after, l)) = Total(rows, Held(rows, l)) + row.amount
  BY <1>8, <1>9
<1> QED BY <1>10, <1>11 DEF after

\* Closing one active row takes its amount from what its limit holds.
LEMMA HeldAfterRelease ==
    ASSUME NEW rows \in [Requests -> Reservation], NEW r \in Requests,
           rows[r].state = "active", rows[r].amount \in Amounts
    PROVE  LET after == [rows EXCEPT ![r].state = "released"] IN
           /\ Total(rows, Held(rows, rows[r].limit)) =
                rows[r].amount + Total(after, Held(after, rows[r].limit))
           /\ Total(after, Held(after, rows[r].limit)) \in Nat
           /\ \A m \in Limits \ {rows[r].limit} :
                Total(after, Held(after, m)) = Total(rows, Held(rows, m))
<1> DEFINE after == [rows EXCEPT ![r].state = "released"]
           l == rows[r].limit
<1>1. /\ \A s \in Requests : after[s].amount = rows[s].amount
      /\ after[r].state = "released"
      /\ \A s \in Requests \ {r} : after[s] = rows[s]
  <2>1. rows[r] \in Reservation
    OBVIOUS
  <2> QED BY <2>1 DEF Reservation
<1>2. Held(after, l) = Held(rows, l) \ {r} /\ {r} \in SUBSET Held(rows, l)
  BY <1>1 DEF Held
<1>3. \A m \in Limits \ {l} : Held(after, m) = Held(rows, m)
  BY <1>1 DEF Held
<1> HIDE DEF after
<1>4. \A S \in SUBSET Requests : Total(after, S) = Total(rows, S)
  <2> SUFFICES ASSUME NEW S \in SUBSET Requests
               PROVE Total(after, S) = Total(rows, S)
    OBVIOUS
  <2>1. \A s \in S : after[s].amount = rows[s].amount
    BY <1>1
  <2> QED BY <2>1, TotalSameAmounts
<1>5. Held(rows, l) \in SUBSET Requests /\ Held(rows, l) \ {r} \in SUBSET Requests
  BY HeldSubset
<1>6. Total(rows, Held(rows, l)) = Total(rows, {r}) + Total(rows, Held(rows, l) \ {r})
  BY <1>2, <1>5, TotalSplit
<1>7. Total(rows, {r}) = rows[r].amount
  BY TotalSingle
<1>8. Total(after, Held(after, l)) = Total(rows, Held(rows, l) \ {r})
      /\ Total(after, Held(after, l)) \in Nat
  BY <1>2, <1>4, <1>5, UnitsFinite
<1>9. \A m \in Limits \ {l} : Total(after, Held(after, m)) = Total(rows, Held(rows, m))
  <2> TAKE m \in Limits \ {l}
  <2>1. Held(after, m) = Held(rows, m) /\ Held(rows, m) \in SUBSET Requests
    BY <1>3, HeldSubset
  <2> QED BY <2>1, <1>4
<1> QED BY <1>6, <1>7, <1>8, <1>9 DEF after

-----------------------------------------------------------------------------
(***************************************************************************)
(* Preservation                                                            *)
(***************************************************************************)

\* The record a call is left with when it returns.
LEMMA ReturnType ==
    ASSUME NEW r \in Requests, NEW result \in Results
    PROVE  /\ Done(r, result) \in Call /\ Done(r, result).pc = "idle" /\ Done(r, result).at = 0
           /\ Done(r, result).result = result /\ Done(r, result).request = r
  BY AbsentType DEF Call, Done

\* A step that only moves a call preserves the invariant when what the call then
\* remembers is right and it is not told of a creation or a corruption.
LEMMA CallStep ==
    ASSUME IInv, NEW c \in Callers, NEW v \in Call, call' = [call EXCEPT ![c] = v],
           UNCHANGED <<now, entitlement, counter, reservation>>,
           v.result \notin {"created", "corrupt"}, v.at <= now,
           v.pc # "idle" => v.amount \in Amounts,
           v.pc = "persist" =>
              /\ v.version <= entitlement.version
              /\ v.version = entitlement.version => v.maximum = entitlement.maximum[v.limit]
    PROVE  IInv'
<1>1. call \in [Callers -> Call]
  BY DEF IInv, TypeOK
<1>2. call' \in [Callers -> Call] /\ call'[c] = v /\ \A d \in Callers \ {c} : call'[d] = call[d]
  BY <1>1
<1>3. TypeOK'
  BY <1>2 DEF IInv, TypeOK
<1>4. AmountsInv'
  BY <1>2 DEF IInv, AmountsInv
<1>5. CounterConservation' /\ NeverExpiredEarly'
  BY DEF IInv, CounterConservation, NeverExpiredEarly, Total, Units, Held
<1>6. SnapshotInv'
  BY <1>2 DEF IInv, SnapshotInv
<1>7. ClockInv' /\ NeverCorrupt'
  BY <1>2 DEF IInv, ClockInv, NeverCorrupt
<1>8. CreatorInv'
  BY <1>2 DEF IInv, CreatorInv
<1>9. SingleCreator'
  BY <1>2 DEF IInv, SingleCreator
<1> QED BY <1>3, <1>4, <1>5, <1>6, <1>7, <1>8, <1>9 DEF IInv

\* A step that writes the tables and ends a call preserves the invariant when the
\* tables stay conserved, rows never vanish, and only the creator is told so.
LEMMA TableStep ==
    ASSUME IInv, NEW c \in Callers, NEW v \in Call, call' = [call EXCEPT ![c] = v],
           UNCHANGED <<now, entitlement>>,
           v.pc = "idle", v.at = 0, v.result # "corrupt",
           counter' \in [Limits -> Nat], reservation' \in [Requests -> Reservation],
           CounterConservation',
           \A r \in Requests : reservation[r].state # "absent" => reservation'[r].state # "absent",
           \A r \in Requests : reservation'[r].state # "absent" => reservation'[r].amount \in Amounts,
           NeverExpiredEarly',
           v.result = "created" => /\ reservation[v.request].state = "absent"
                                   /\ reservation'[v.request].state # "absent"
    PROVE  IInv'
<1>1. call \in [Callers -> Call]
  BY DEF IInv, TypeOK
<1>2. call' \in [Callers -> Call] /\ call'[c] = v /\ \A d \in Callers \ {c} : call'[d] = call[d]
  BY <1>1
<1>3. \A d \in Callers : call[d] \in Call /\ call[d].request \in Requests
  BY <1>1 DEF Call
<1>4. TypeOK'
  BY <1>2 DEF IInv, TypeOK
<1>5. AmountsInv'
  BY <1>2 DEF IInv, AmountsInv
<1>6. SnapshotInv'
  BY <1>2 DEF IInv, SnapshotInv
<1>7. ClockInv' /\ NeverCorrupt'
  <2>1. now \in Nat
    BY DEF IInv, TypeOK
  <2> QED BY <1>2, <2>1 DEF IInv, ClockInv, NeverCorrupt
<1>8. CreatorInv'
  <2> SUFFICES ASSUME NEW d \in Callers, call'[d].result = "created"
               PROVE  call'[d].pc = "idle" /\ reservation'[call'[d].request].state # "absent"
    BY DEF CreatorInv
  <2>1. CASE d = c
    BY <1>2, <2>1
  <2>2. CASE d # c
    BY <1>2, <1>3, <2>2 DEF IInv, CreatorInv
  <2> QED BY <2>1, <2>2
<1>9. SingleCreator'
  <2> SUFFICES ASSUME NEW d \in Callers, NEW e \in Callers,
                      call'[d].result = "created", call'[e].result = "created",
                      call'[d].request = call'[e].request
               PROVE  d = e
    BY DEF SingleCreator
  <2>1. CASE d # c /\ e # c
    BY <1>2, <2>1 DEF IInv, SingleCreator
  <2>2. CASE d = c /\ e # c
    BY <1>2, <2>2 DEF IInv, CreatorInv
  <2>3. CASE d # c /\ e = c
    BY <1>2, <2>3 DEF IInv, CreatorInv
  <2> QED BY <2>1, <2>2, <2>3
<1> QED BY <1>4, <1>5, <1>6, <1>7, <1>8, <1>9 DEF IInv

\* A step that leaves the table alone creates nothing and closes nothing.
LEMMA UnchangedRows ==
    ASSUME TypeOK, UNCHANGED reservation
    PROVE  RowsOnlyClose /\ AdmittedWithinLimit
<1>1. \A r \in Requests : reservation[r] = [reservation[r] EXCEPT !.state = reservation[r].state]
  <2> SUFFICES ASSUME NEW r \in Requests
               PROVE  reservation[r] = [reservation[r] EXCEPT !.state = reservation[r].state]
    OBVIOUS
  <2>1. reservation[r] \in Reservation
    BY DEF TypeOK
  <2> QED BY <2>1 DEF Reservation
<1>2. RowsOnlyClose
  <2> SUFFICES ASSUME NEW r \in Requests
               PROVE  /\ reservation'[r] = reservation[r]
                      /\ reservation'[r] = [reservation[r] EXCEPT !.state = reservation'[r].state]
    BY DEF RowsOnlyClose
  <2> QED BY <1>1
<1>3. AdmittedWithinLimit
  BY DEF AdmittedWithinLimit, Created
<1> QED BY <1>2, <1>3

\* A new call remembers nothing yet but what it asks for.
LEMMA BeginReserveStep ==
    ASSUME IInv, NEW c \in Callers, NEW r \in Requests, NEW l \in Limits, NEW a \in Amounts,
           BeginReserve(c, r, l, a)
    PROVE  IInv'
<1> DEFINE v == [Idle EXCEPT !.pc = "authorize", !.request = r, !.limit = l, !.amount = a]
<1>1. v \in Call /\ v.pc = "authorize" /\ v.amount = a
      /\ v.result \notin {"created", "corrupt"} /\ v.at = 0
  <2>1. a \in Nat
    BY ConstantsAssumption DEF Amounts
  <2> QED BY <2>1, AbsentType DEF Call
<1>2. call' = [call EXCEPT ![c] = v] /\ UNCHANGED <<now, entitlement, counter, reservation>>
  BY DEF BeginReserve
<1>3. 0 <= now
  BY DEF IInv, TypeOK
<1> HIDE DEF v
<1> QED BY <1>1, <1>2, <1>3, CallStep

\* A call returning with nothing written and neither a creation nor a corruption.
LEMMA ReturnStep ==
    ASSUME IInv, NEW c \in Callers, NEW r \in Requests, NEW result \in Results,
           result \notin {"created", "corrupt"},
           call' = [call EXCEPT ![c] = Done(r, result)],
           UNCHANGED <<now, entitlement, counter, reservation>>
    PROVE  IInv'
<1>1. 0 <= now
  BY DEF IInv, TypeOK
<1> DEFINE v == Done(r, result)
<1>2. v \in Call /\ v.pc = "idle" /\ v.at = 0 /\ v.result = result
  BY ReturnType
<1>3. call' = [call EXCEPT ![c] = v]
  OBVIOUS
<1> HIDE DEF v
<1>4. v.at <= now /\ v.result \notin {"created", "corrupt"}
  BY <1>1, <1>2
<1> QED BY <1>2, <1>3, <1>4, CallStep

\* Authorize remembers the maximum, its version and the clock, or denies the call.
LEMMA AuthorizeStep ==
    ASSUME IInv, NEW c \in Callers, Authorize(c)
    PROVE  IInv'
<1> DEFINE maximum == entitlement.maximum[call[c].limit]
           v == [call[c] EXCEPT !.pc = "persist", !.maximum = maximum,
                                !.version = entitlement.version, !.at = now]
<1>1. call[c] \in Call /\ entitlement \in Entitlement /\ now \in Nat
  BY DEF IInv, TypeOK
<1>2. call[c].pc = "authorize" /\ UNCHANGED <<now, entitlement, counter, reservation>>
  BY DEF Authorize
<1>3. CASE maximum = 0 \/ call[c].amount > maximum
  <2>1. call' = [call EXCEPT ![c] = Done(call[c].request, "denied")]
    BY <1>3 DEF Authorize, Return
  <2>2. call[c].request \in Requests /\ "denied" \in Results
    BY <1>1 DEF Call, Results
  <2> QED BY <1>2, <2>1, <2>2, ReturnStep
<1>4. CASE ~(maximum = 0 \/ call[c].amount > maximum)
  <2>1. call' = [call EXCEPT ![c] = v]
    <3>1. call' = [call EXCEPT ![c] = [@ EXCEPT !.pc = "persist", !.maximum = maximum,
                                !.version = entitlement.version, !.at = now]]
      BY <1>4 DEF Authorize
    <3> QED BY <3>1
  <2>2. v \in Call /\ v.pc = "persist" /\ v.at = now /\ v.version = entitlement.version
        /\ v.maximum = entitlement.maximum[v.limit] /\ v.amount = call[c].amount
        /\ v.result = call[c].result
    BY <1>1 DEF Call, Entitlement
  <2>3. call[c].amount \in Amounts /\ call[c].result \notin {"created", "corrupt"}
    BY <1>2 DEF IInv, AmountsInv, CreatorInv, NeverCorrupt
  <2>4. v.version <= entitlement.version /\ v.at <= now
    BY <1>1, <2>2 DEF Entitlement
  <2> HIDE DEF v
  <2> QED BY <1>2, <2>1, <2>2, <2>3, <2>4, CallStep
<1> QED BY <1>3, <1>4

\* An exact replay: the lapsed rows are closed and the stored row is returned.
LEMMA ReplayStep ==
    ASSUME IInv, NEW c \in Callers, PersistReplay(c)
    PROVE  IInv' /\ RowsOnlyClose /\ AdmittedWithinLimit
<1> DEFINE l == call[c].limit
           t == call[c].at
           r == call[c].request
           rows == Expire(l, t)
           result == IF rows[r].state = "active" THEN "existing" ELSE "closed"
           v == Done(r, result)
<1>1. TypeOK /\ CounterConservation /\ call[c] \in Call
  BY DEF IInv, TypeOK
<1>2. l \in Limits /\ t \in Nat /\ r \in Requests
  BY <1>1 DEF Call
<1>3. /\ reservation' = rows /\ counter' = [counter EXCEPT ![l] = Current(l, t)]
      /\ call' = [call EXCEPT ![c] = v] /\ UNCHANGED <<now, entitlement>>
  BY DEF PersistReplay, Return
<1>4. v \in Call /\ v.pc = "idle" /\ v.at = 0 /\ v.result \notin {"created", "corrupt"}
  <2>1. result \in Results /\ result \notin {"created", "corrupt"}
    BY DEF Results
  <2> HIDE DEF result
  <2> QED BY <1>2, <2>1, ReturnType
<1>5. ExpireFacts(l, t)
  BY <1>1, <1>2, ExpireRows DEF ExpireFacts
<1>6. /\ Current(l, t) \in Nat /\ Current(l, t) = Total(rows, Held(rows, l))
      /\ \A m \in Limits \ {l} : counter[m] = Total(rows, Held(rows, m))
  BY <1>1, <1>2, ExpireConserves
<1> HIDE DEF v, rows, l, t, r, result
<1>7. counter' \in [Limits -> Nat] /\ reservation' \in [Requests -> Reservation]
  BY <1>1, <1>2, <1>3, <1>5, <1>6 DEF TypeOK, ExpireFacts, rows
<1>8. CounterConservation'
  BY <1>1, <1>2, <1>3, <1>6 DEF TypeOK, CounterConservation
<1>9. \A s \in Requests : /\ reservation[s].state = "absent" <=> reservation'[s].state = "absent"
                          /\ reservation[s].amount = reservation'[s].amount
  BY <1>3, <1>5 DEF ExpireFacts, rows
<1>10. NeverExpiredEarly'
  <2>1. NeverExpiredEarly /\ t <= now
    BY DEF IInv, ClockInv, t
  <2> SUFFICES ASSUME NEW s \in Requests, rows[s].state = "expired"
               PROVE  rows[s].expiresAt # NoExpiry /\ rows[s].expiresAt <= now
    BY <1>3 DEF NeverExpiredEarly
  <2> QED BY <1>1, <1>2, <1>5, <2>1, ExpiryTimely DEF rows
<1>11. IInv'
  BY <1>3, <1>4, <1>7, <1>8, <1>9, <1>10, TableStep DEF IInv, AmountsInv
<1>12. RowsOnlyClose
  <2> SUFFICES ASSUME NEW s \in Requests
               PROVE  /\ reservation[s].state \in {"released", "expired"} =>
                             rows[s] = reservation[s]
                      /\ reservation[s].state = "active" =>
                             /\ rows[s].state # "absent"
                             /\ rows[s] = [reservation[s] EXCEPT !.state = rows[s].state]
    BY <1>3 DEF RowsOnlyClose
  <2> QED BY <1>1, <1>2, <1>5, ExpiryCloses DEF rows
<1>13. AdmittedWithinLimit
  BY <1>9 DEF AdmittedWithinLimit, Created
<1> QED BY <1>11, <1>12, <1>13

\* The admission: after expiry the new row fits, within the maximum in force.
LEMMA AdmitStep ==
    ASSUME IInv, NEW c \in Callers, PersistAdmit(c)
    PROVE  IInv' /\ RowsOnlyClose /\ AdmittedWithinLimit
<1> DEFINE l == call[c].limit
           t == call[c].at
           r == call[c].request
           a == call[c].amount
           rows == Expire(l, t)
           expiresAt == IF TTL[l] > 0 THEN t + TTL[l] ELSE NoExpiry
           row == [state |-> "active", limit |-> l, amount |-> a, expiresAt |-> expiresAt]
           v == Done(r, "created")
<1>1. TypeOK /\ CounterConservation /\ call[c] \in Call /\ call[c].pc = "persist"
  BY DEF IInv, TypeOK, PersistAdmit
<1>2. l \in Limits /\ t \in Nat /\ r \in Requests /\ a \in Amounts /\ a \in Nat
      /\ call[c].maximum \in Nat
  BY <1>1 DEF Call, IInv, AmountsInv
<1>3. /\ reservation' = [rows EXCEPT ![r] = row]
      /\ counter' = [counter EXCEPT ![l] = Current(l, t) + a]
      /\ call' = [call EXCEPT ![c] = v] /\ UNCHANGED <<now, entitlement>>
  BY DEF PersistAdmit, Return
<1>4. /\ reservation[r].state = "absent"
      /\ entitlement.version = call[c].version
      /\ Current(l, t) + a <= call[c].maximum
  BY DEF PersistAdmit, Known, Fenced, Fits
<1>5. v \in Call /\ v.pc = "idle" /\ v.at = 0 /\ v.result = "created" /\ v.request = r
  <2>1. "created" \in Results
    BY DEF Results
  <2> QED BY <1>2, <2>1, ReturnType
<1>6. row \in Reservation /\ row.state = "active" /\ row.limit = l /\ row.amount = a
  <2>1. expiresAt \in Nat
    BY <1>2, ConstantsAssumption DEF NoExpiry
  <2> HIDE DEF expiresAt
  <2> QED BY <1>2, <2>1 DEF Reservation, ReservationStates
<1>7. ExpireFacts(l, t)
  BY <1>1, <1>2, ExpireRows
<1>8. /\ Current(l, t) \in Nat /\ Current(l, t) = Total(rows, Held(rows, l))
      /\ \A m \in Limits \ {l} : counter[m] = Total(rows, Held(rows, m))
  BY <1>1, <1>2, ExpireConserves
<1>9. rows \in [Requests -> Reservation] /\ rows[r].state = "absent"
  BY <1>2, <1>4, <1>7 DEF ExpireFacts
<1> HIDE DEF v, row, rows, l, t, r, a
<1>10. /\ reservation'[r] = row
       /\ \A s \in Requests \ {r} : reservation'[s] = rows[s]
       /\ reservation' \in [Requests -> Reservation]
  BY <1>3, <1>6, <1>9, <1>2
<1>11. /\ counter' \in [Limits -> Nat] /\ counter'[l] = Current(l, t) + a
       /\ \A m \in Limits \ {l} : counter'[m] = counter[m]
  BY <1>1, <1>2, <1>3, <1>8 DEF TypeOK
<1>12. CounterConservation'
  <2>1. /\ Total(reservation', Held(reservation', l)) = Total(rows, Held(rows, l)) + a
        /\ \A m \in Limits \ {l} :
              Total(reservation', Held(reservation', m)) = Total(rows, Held(rows, m))
    <3>1. row.amount \in Amounts
      BY <1>2, <1>6
    <3> QED BY <1>2, <1>3, <1>6, <1>9, <3>1, HeldAfterInsert
  <2> QED BY <1>8, <1>11, <2>1 DEF CounterConservation
<1>13. \A s \in Requests : reservation[s].state # "absent" => reservation'[s].state # "absent"
  BY <1>4, <1>7, <1>10 DEF ExpireFacts, rows
<1>14. \A s \in Requests : reservation'[s].state # "absent" => reservation'[s].amount \in Amounts
  <2> SUFFICES ASSUME NEW s \in Requests, reservation'[s].state # "absent"
               PROVE  reservation'[s].amount \in Amounts
    OBVIOUS
  <2>1. CASE s = r
    BY <1>2, <1>6, <1>10, <2>1
  <2>2. CASE s # r
    BY <1>7, <1>10, <2>2 DEF ExpireFacts, rows, IInv, AmountsInv
  <2> QED BY <2>1, <2>2
<1>15. NeverExpiredEarly'
  <2>1. NeverExpiredEarly /\ t <= now
    BY DEF IInv, ClockInv, t
  <2> SUFFICES ASSUME NEW s \in Requests, reservation'[s].state = "expired"
               PROVE  reservation'[s].expiresAt # NoExpiry /\ reservation'[s].expiresAt <= now
    BY <1>3 DEF NeverExpiredEarly
  <2>2. s # r /\ reservation'[s] = rows[s]
    BY <1>6, <1>10
  <2> QED BY <1>1, <1>2, <1>7, <2>1, <2>2, ExpiryTimely DEF rows
<1>16. IInv'
  <2>1. reservation'[r].state # "absent"
    BY <1>6, <1>10
  <2> QED BY <1>3, <1>4, <1>5, <1>10, <1>11, <1>12, <1>13, <1>14, <1>15, <2>1, TableStep
<1>17. RowsOnlyClose
  <2> SUFFICES ASSUME NEW s \in Requests
               PROVE  /\ reservation[s].state \in {"released", "expired"} =>
                             reservation'[s] = reservation[s]
                      /\ reservation[s].state = "active" =>
                             /\ reservation'[s].state # "absent"
                             /\ reservation'[s] = [reservation[s] EXCEPT
                                                     !.state = reservation'[s].state]
    BY DEF RowsOnlyClose
  <2>1. CASE s = r
    BY <1>4, <2>1
  <2>2. CASE s # r
    <3>1. reservation'[s] = rows[s]
      BY <1>10, <2>2
    <3> QED BY <1>1, <1>2, <1>7, <3>1, ExpiryCloses DEF rows
  <2> QED BY <2>1, <2>2
<1>18. AdmittedWithinLimit
  <2> SUFFICES ASSUME NEW s \in Requests, Created(s)
               PROVE  counter'[reservation'[s].limit] <= entitlement.maximum[reservation'[s].limit]
    BY DEF AdmittedWithinLimit
  <2>1. s = r
    BY <1>7, <1>10 DEF Created, ExpireFacts, rows
  <2>2. call[c].maximum = entitlement.maximum[l]
    BY <1>1, <1>4 DEF IInv, SnapshotInv, l
  <2> QED BY <1>4, <1>6, <1>10, <1>11, <2>1, <2>2
<1> QED BY <1>16, <1>17, <1>18

\* The admission was refused, or the entitlement moved: nothing is written, and
\* because the counter is conserved no call ends as corrupt.
LEMMA RefuseStep ==
    ASSUME IInv, NEW c \in Callers, PersistChanged(c) \/ PersistRefused(c) \/ Abandon(c)
    PROVE  IInv'
<1>1. TypeOK /\ CounterConservation /\ call[c] \in Call
  BY DEF IInv, TypeOK
<1>2. call[c].limit \in Limits /\ call[c].at \in Nat /\ call[c].request \in Requests
  BY <1>1 DEF Call
<1>3. UNCHANGED <<now, entitlement, counter, reservation>>
  BY DEF PersistChanged, PersistRefused, Abandon
<1>4. CASE \E result \in Results \ {"created", "corrupt"} : Return(c, result)
  <2>1. PICK result \in Results : result \notin {"created", "corrupt"} /\ Return(c, result)
    BY <1>4
  <2> QED BY <1>2, <1>3, <2>1, ReturnStep DEF Return
<1>5. ~Corrupt(c)
  <2>1. /\ Expired(call[c].limit, call[c].at) \in Nat
        /\ Expired(call[c].limit, call[c].at) <= counter[call[c].limit]
    BY <1>1, <1>2, ExpireConserves
  <2>2. counter[call[c].limit] \in Nat
    BY <1>1, <1>2 DEF TypeOK
  <2> QED BY <2>1, <2>2 DEF Corrupt
<1>6. {"changed", "conflict", "denied", "unknown"} \in SUBSET (Results \ {"created", "corrupt"})
  BY DEF Results
<1>7. CASE PersistRefused(c) \/ Abandon(c)
  BY <1>4, <1>5, <1>6, <1>7 DEF PersistRefused, Abandon
<1>8. CASE PersistChanged(c)
  <2>1. CASE ~Retries(c)
    BY <1>4, <1>6, <1>8, <2>1 DEF PersistChanged
  <2>2. CASE Retries(c)
    <3> DEFINE v == [call[c] EXCEPT !.pc = "authorize", !.attempt = call[c].attempt + 1]
    <3>1. call' = [call EXCEPT ![c] = v] /\ call[c].pc = "persist"
      BY <1>8, <2>2 DEF PersistChanged
    <3>2. v \in Call /\ v.pc = "authorize" /\ v.amount = call[c].amount
          /\ v.result = call[c].result /\ v.at = call[c].at
      <4>1. call[c].attempt + 1 \in 1..MaxAttempts
        BY <1>1, <2>2 DEF Call, Retries, MaxAttempts
      <4> QED BY <1>1, <4>1 DEF Call
    <3>3. call[c].amount \in Amounts /\ call[c].at <= now
          /\ call[c].result \notin {"created", "corrupt"}
      BY <3>1 DEF IInv, AmountsInv, ClockInv, CreatorInv, NeverCorrupt
    <3> HIDE DEF v
    <3> QED BY <1>3, <3>1, <3>2, <3>3, CallStep
  <2> QED BY <2>1, <2>2
<1> QED BY <1>7, <1>8

\* A release closes an active row once and gives its amount back.
LEMMA ReleaseStep ==
    ASSUME IInv, NEW c \in Callers, NEW r \in Requests, Release(c, r)
    PROVE  IInv' /\ RowsOnlyClose /\ AdmittedWithinLimit
<1> DEFINE l == reservation[r].limit
           after == [reservation EXCEPT ![r].state = "released"]
<1>1. TypeOK /\ CounterConservation /\ reservation[r] \in Reservation /\ l \in Limits
  BY DEF IInv, TypeOK, Reservation
<1>2. UNCHANGED <<now, entitlement>>
  BY DEF Release
<1>3. CASE Closable(r)
  <2>1. reservation[r].state = "active" /\ reservation[r].amount \in Amounts
        /\ reservation[r].amount \in Nat
    BY <1>1, <1>3 DEF Closable, IInv, AmountsInv, Reservation
  <2>2. /\ Total(reservation, Held(reservation, l)) =
             reservation[r].amount + Total(after, Held(after, l))
        /\ Total(after, Held(after, l)) \in Nat
        /\ \A m \in Limits \ {l} : Total(after, Held(after, m)) = Total(reservation, Held(reservation, m))
    BY <1>1, <2>1, HeldAfterRelease DEF TypeOK
  <2>3. counter[l] = reservation[r].amount + Total(after, Held(after, l)) /\ counter[l] \in Nat
    BY <1>1, <2>2 DEF CounterConservation, TypeOK
  <2>4. ~(reservation[r].amount > counter[l])
    BY <2>1, <2>2, <2>3
  <2>5. /\ counter' = [counter EXCEPT ![l] = @ - reservation[r].amount]
        /\ reservation' = after
        /\ call' = [call EXCEPT ![c] = Done(r, "released")]
    BY <1>3, <2>1, <2>4 DEF Release
  <2>6. /\ after \in [Requests -> Reservation]
        /\ \A s \in Requests : /\ after[s].amount = reservation[s].amount
                               /\ after[s].expiresAt = reservation[s].expiresAt
                               /\ s # r => after[s] = reservation[s]
        /\ after[r] = [reservation[r] EXCEPT !.state = "released"]
        /\ after[r].state = "released"
    BY <1>1 DEF TypeOK, Reservation, ReservationStates
  <2> HIDE DEF after
  <2>7. counter' \in [Limits -> Nat] /\ counter'[l] = Total(after, Held(after, l))
        /\ \A m \in Limits \ {l} : counter'[m] = counter[m]
    BY <1>1, <2>1, <2>2, <2>3, <2>5 DEF TypeOK
  <2>8. CounterConservation'
    BY <1>1, <2>2, <2>5, <2>7 DEF CounterConservation
  <2>9. NeverExpiredEarly'
    BY <1>2, <2>5, <2>6 DEF IInv, NeverExpiredEarly
  <2>10. Done(r, "released") \in Call /\ Done(r, "released").pc = "idle"
         /\ Done(r, "released").at = 0 /\ Done(r, "released").result = "released"
    <3>1. "released" \in Results
      BY DEF Results
    <3> QED BY <3>1, ReturnType
  <2>11. /\ \A s \in Requests : reservation[s].state # "absent" => after[s].state # "absent"
         /\ \A s \in Requests : after[s].state # "absent" => after[s].amount \in Amounts
    BY <2>1, <2>6 DEF IInv, AmountsInv
  <2>12. IInv'
    <3> DEFINE v == Done(r, "released")
    <3>1. v \in Call /\ v.pc = "idle" /\ v.at = 0 /\ v.result # "corrupt" /\ v.result # "created"
      BY <2>10
    <3>2. call' = [call EXCEPT ![c] = v]
      BY <2>5
    <3>3. reservation' \in [Requests -> Reservation]
      BY <2>5, <2>6
    <3>4. /\ \A s \in Requests : reservation[s].state # "absent" => reservation'[s].state # "absent"
          /\ \A s \in Requests : reservation'[s].state # "absent" => reservation'[s].amount \in Amounts
      BY <2>5, <2>11
    <3> HIDE DEF v
    <3> QED BY <1>2, <2>7, <2>8, <2>9, <3>1, <3>2, <3>3, <3>4, TableStep
  <2>13. RowsOnlyClose
    <3> SUFFICES ASSUME NEW s \in Requests
                 PROVE  /\ reservation[s].state \in {"released", "expired"} =>
                               after[s] = reservation[s]
                        /\ reservation[s].state = "active" =>
                               /\ after[s].state # "absent"
                               /\ after[s] = [reservation[s] EXCEPT !.state = after[s].state]
      BY <2>5 DEF RowsOnlyClose
    <3>1. reservation[s] \in Reservation
      BY <1>1 DEF TypeOK
    <3>2. CASE s = r
      BY <2>1, <2>6, <3>2
    <3>3. CASE s # r
      <4>1. after[s] = reservation[s]
        BY <2>6, <3>3
      <4> QED BY <3>1, <4>1 DEF Reservation
    <3> QED BY <3>2, <3>3
  <2>14. AdmittedWithinLimit
    BY <2>1, <2>5, <2>6 DEF AdmittedWithinLimit, Created
  <2> QED BY <2>12, <2>13, <2>14
<1>4. CASE ~Closable(r)
  <2>1. UNCHANGED <<counter, reservation>>
    BY <1>4 DEF Release
  <2>2. PICK result \in Results : /\ result \notin {"created", "corrupt"}
                                  /\ call' = [call EXCEPT ![c] = Done(r, result)]
    BY <1>4 DEF Release, Results
  <2>3. IInv'
    BY <1>2, <2>1, <2>2, ReturnStep
  <2> QED BY <1>1, <2>1, <2>3, UnchangedRows
<1> QED BY <1>3, <1>4

\* The environment: a new snapshot gets a new version, and time moves forward.
LEMMA EnvironmentStep ==
    ASSUME IInv, Tick \/ \E maximum \in Snapshots : ChangeEntitlement(maximum)
    PROVE  IInv'
<1>1. TypeOK /\ now \in Nat /\ entitlement \in Entitlement
  BY DEF IInv, TypeOK
<1>2. UNCHANGED <<counter, reservation, call>>
  BY DEF Tick, ChangeEntitlement
<1>3. now' \in Nat /\ now <= now'
  BY <1>1 DEF Tick, ChangeEntitlement
<1>4. /\ entitlement' \in Entitlement
      /\ entitlement' = entitlement \/ entitlement'.version = entitlement.version + 1
  BY <1>1, ConstantsAssumption DEF Tick, ChangeEntitlement, Entitlement
<1>5. TypeOK'
  BY <1>1, <1>2, <1>3, <1>4 DEF TypeOK
<1>6. AmountsInv' /\ CreatorInv' /\ NeverCorrupt' /\ SingleCreator'
  BY <1>2 DEF IInv, AmountsInv, CreatorInv, NeverCorrupt, SingleCreator
<1>7. CounterConservation'
  BY <1>2 DEF IInv, CounterConservation
<1>8. SnapshotInv'
  <2>1. \A c \in Callers : call[c].version \in Nat
    BY <1>1 DEF TypeOK, Call
  <2>2. entitlement.version \in Nat
    BY <1>1 DEF Entitlement
  <2> QED BY <1>2, <1>4, <2>1, <2>2 DEF IInv, SnapshotInv
<1>9. ClockInv'
  <2>1. \A c \in Callers : call[c].at \in Nat
    BY <1>1 DEF TypeOK, Call
  <2> QED BY <1>1, <1>2, <1>3, <2>1 DEF IInv, ClockInv
<1>10. NeverExpiredEarly'
  <2>1. \A r \in Requests : reservation[r].expiresAt \in Nat
    BY <1>1 DEF TypeOK, Reservation
  <2> QED BY <1>1, <1>2, <1>3, <2>1 DEF IInv, NeverExpiredEarly
<1> QED BY <1>5, <1>6, <1>7, <1>8, <1>9, <1>10 DEF IInv

-----------------------------------------------------------------------------
(***************************************************************************)
(* Theorems                                                                *)
(***************************************************************************)

\* Every step of the admission service keeps the inductive invariant, closes rows
\* only, and creates a reservation only within the maximum in force.
LEMMA NextIInv ==
    ASSUME IInv, [Next]_vars
    PROVE  IInv' /\ RowsOnlyClose /\ AdmittedWithinLimit
<1>1. TypeOK
  BY DEF IInv
<1>2. CASE UNCHANGED vars
  <2>1. UNCHANGED <<now, entitlement, counter, reservation, call>>
    BY <1>2 DEF vars
  <2>2. IInv'
    BY <2>1 DEF IInv, TypeOK, AmountsInv, CounterConservation, SnapshotInv, ClockInv, CreatorInv,
                NeverCorrupt, SingleCreator, NeverExpiredEarly
  <2> QED BY <1>1, <2>1, <2>2, UnchangedRows
<1>3. ASSUME NEW c \in Callers, NEW r \in Requests, NEW l \in Limits, NEW a \in Amounts,
             BeginReserve(c, r, l, a)
      PROVE  IInv' /\ RowsOnlyClose /\ AdmittedWithinLimit
  <2>1. UNCHANGED reservation
    BY <1>3 DEF BeginReserve
  <2> QED BY <1>1, <1>3, <2>1, BeginReserveStep, UnchangedRows
<1>4. ASSUME NEW c \in Callers, Authorize(c)
      PROVE  IInv' /\ RowsOnlyClose /\ AdmittedWithinLimit
  <2>1. UNCHANGED reservation
    BY <1>4 DEF Authorize
  <2> QED BY <1>1, <1>4, <2>1, AuthorizeStep, UnchangedRows
<1>5. ASSUME NEW c \in Callers, PersistReplay(c)
      PROVE  IInv' /\ RowsOnlyClose /\ AdmittedWithinLimit
  BY <1>5, ReplayStep
<1>6. ASSUME NEW c \in Callers, PersistAdmit(c)
      PROVE  IInv' /\ RowsOnlyClose /\ AdmittedWithinLimit
  BY <1>6, AdmitStep
<1>7. ASSUME NEW c \in Callers, PersistChanged(c) \/ PersistRefused(c) \/ Abandon(c)
      PROVE  IInv' /\ RowsOnlyClose /\ AdmittedWithinLimit
  <2>1. UNCHANGED reservation
    BY <1>7 DEF PersistChanged, PersistRefused, Abandon
  <2> QED BY <1>1, <1>7, <2>1, RefuseStep, UnchangedRows
<1>8. ASSUME NEW c \in Callers, NEW r \in Requests, Release(c, r)
      PROVE  IInv' /\ RowsOnlyClose /\ AdmittedWithinLimit
  BY <1>8, ReleaseStep
<1>9. ASSUME Tick \/ \E maximum \in Snapshots : ChangeEntitlement(maximum)
      PROVE  IInv' /\ RowsOnlyClose /\ AdmittedWithinLimit
  <2>1. UNCHANGED reservation
    BY <1>9 DEF Tick, ChangeEntitlement
  <2> QED BY <1>1, <1>9, <2>1, EnvironmentStep, UnchangedRows
<1> QED BY <1>2, <1>3, <1>4, <1>5, <1>6, <1>7, <1>8, <1>9 DEF Next, Persist

\* The inductive invariant holds in every reachable state.
THEOREM Inductive == Spec => []IInv
<1>1. Init => IInv
  BY InitIInv
<1>2. IInv /\ [Next]_vars => IInv'
  BY NextIInv
<1> QED BY <1>1, <1>2, PTL DEF Spec

\* Every variable keeps its type: counters never go below zero and an admission
\* is attempted at most twice.
THEOREM TypeCorrect == Spec => []TypeOK
<1>1. IInv => TypeOK
  BY DEF IInv
<1> QED BY <1>1, Inductive, PTL

\* The counter row of every limit is the sum of its active reservations in every
\* reachable state, whatever the requests, callers, TTLs and snapshots.
THEOREM Conservation == Spec => []CounterConservation
<1>1. IInv => CounterConservation
  BY DEF IInv
<1> QED BY <1>1, Inductive, PTL

\* ErrCorruptUsage is never returned, by Reserve or by Release.
THEOREM Uncorrupted == Spec => []NeverCorrupt
<1>1. IInv => NeverCorrupt
  BY DEF IInv
<1> QED BY <1>1, Inductive, PTL

\* At most one caller is told that it created the reservation of a request id.
THEOREM OneCreator == Spec => []SingleCreator
<1>1. IInv => SingleCreator
  BY DEF IInv
<1> QED BY <1>1, Inductive, PTL

\* Lazy expiry with a clock read before the transaction never expires early.
THEOREM TimelyExpiry == Spec => []NeverExpiredEarly
<1>1. IInv => NeverExpiredEarly
  BY DEF IInv
<1> QED BY <1>1, Inductive, PTL

\* No reservation is created beyond the maximum in force when it is created.
THEOREM AdmissionSafe == Spec => NoOverAdmission
<1>1. IInv /\ [Next]_vars => [AdmittedWithinLimit]_vars
  BY NextIInv
<1> QED BY <1>1, Inductive, PTL DEF Spec, NoOverAdmission

\* Closed reservations are final and active ones never change but by closing.
THEOREM ClosedIsFinal == Spec => ReservationsFinal
<1>1. IInv /\ [Next]_vars => [RowsOnlyClose]_vars
  BY NextIInv
<1> QED BY <1>1, Inductive, PTL DEF Spec, ReservationsFinal
=============================================================================
