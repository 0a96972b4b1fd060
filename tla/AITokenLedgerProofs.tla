------------------------- MODULE AITokenLedgerProofs -------------------------
(***************************************************************************)
(* Proofs about the AI Token ledger, for any Accounts, billing events,     *)
(* redemptions and invocations, any Catalog publications and rates:        *)
(* Tokens are conserved and debited once, cohorts are spent in order, and  *)
(* neither included cohorts nor campaigns multiply.                        *)
(***************************************************************************)
EXTENDS AITokenLedger, FiniteSetTheorems, TLAPS

------------------------------------------------------------------------------
(***************************************************************************)
(* The inductive invariant                                                 *)
(***************************************************************************)

\* The amounts of a cohort fit its quantity, and nothing leaks from one that
\* does not expire.
Cohorts ==
    /\ GrantsRestorable /\ NothingLost
    /\ \A g \in Grants : /\ grant[g].state = "absent" => grant[g].quantity = 0
                         /\ grant[g].state = "reversed" => grant[g].reserved = 0

\* No two cohorts have the same place in the order of creation.
Ordering ==
    \A g \in Exists :
        /\ grant[g].createdAt <= Cardinality(Exists)
        /\ \A h \in Exists : grant[g].createdAt = grant[h].createdAt => g = h

\* A reservation holds its maximum, from cohorts that are there, and has
\* settled nothing before it is closed.
Holdings ==
    \A q \in Requests :
        LET row == reservation[q] IN
        /\ row.state \in {"absent", "active"} => row.settled = 0
        /\ row.state = "active" =>
              /\ Sum(row.allocation, Grants) = row.maximum
              /\ \A g \in Grants : row.allocation[g] > 0 => g \in Exists

\* The journal is finite and has no settlement of what is not closed.
Journal ==
    /\ IsFiniteSet(entry)
    /\ \A q \in Requests : reservation[q].state \in {"absent", "active"} =>
           \A e \in entry : e.key # <<"settle", q>>

IInv ==
    /\ TypeOK /\ Cohorts /\ Ordering /\ Holdings /\ Journal
    /\ ReservedBacked /\ DebitedOnce /\ OneIncludedCohort

------------------------------------------------------------------------------
(***************************************************************************)
(* Sums                                                                    *)
(***************************************************************************)

\* What a sum counts: the units <<x, 1>> .. <<x, f[x]>> of every x.
Units(f, S) == UNION {{x} \X (1..f[x]) : x \in S}

\* The units of f on S, one by one.
LEMMA UnitsAre ==
    ASSUME NEW f, NEW S
    PROVE  /\ \A x \in S : \A n \in 1..f[x] : <<x, n>> \in Units(f, S)
           /\ \A u \in Units(f, S) : u[1] \in S /\ u[2] \in 1..f[u[1]] /\ u = <<u[1], u[2]>>
<1>1. \A u : u \in Units(f, S) <=> \E x \in S : u \in {x} \X (1..f[x])
  BY DEF Units
<1>2. ASSUME NEW x \in S, NEW n \in 1..f[x]
      PROVE  <<x, n>> \in Units(f, S)
  BY <1>1
<1>3. ASSUME NEW u \in Units(f, S)
      PROVE  u[1] \in S /\ u[2] \in 1..f[u[1]] /\ u = <<u[1], u[2]>>
  <2>1. PICK x \in S : u \in {x} \X (1..f[x])
    BY <1>1
  <2>2. u[1] = x /\ u[2] \in 1..f[x] /\ u = <<u[1], u[2]>>
    BY <2>1
  <2> QED
    BY <2>2
<1> QED
  BY <1>2, <1>3

\* There are n numbers from 1 to n.
LEMMA UpTo == \A n \in Nat : IsFiniteSet(1..n) /\ Cardinality(1..n) = n
  BY FS_Interval

\* Finitely many naturals have finitely many units, so their sum is a natural.
LEMMA SumType ==
    ASSUME NEW f, NEW S, IsFiniteSet(S), \A x \in S : f[x] \in Nat
    PROVE  IsFiniteSet(Units(f, S)) /\ Sum(f, S) = Cardinality(Units(f, S)) /\ Sum(f, S) \in Nat
<1> DEFINE Of == [x \in S |-> {x} \X (1..f[x])]
           All == {{x} \X (1..f[x]) : x \in S}
<1>1. Of \in Surjection(S, All)
  BY DEF Surjection
<1>2. IsFiniteSet(All)
  BY <1>1, FS_Surjection
<1>3. ASSUME NEW x \in S
      PROVE  IsFiniteSet({x} \X (1..f[x]))
  <2>1. IsFiniteSet({x}) /\ IsFiniteSet(1..f[x])
    BY UpTo, FS_Singleton
  <2> QED
    BY <2>1, FS_Product
<1>4. IsFiniteSet(UNION All)
  BY <1>2, <1>3, FS_UNION
<1> QED
  BY <1>4, FS_CardinalityType DEF Sum, Units

\* A sum only depends on the values it adds.
LEMMA SumSame ==
    ASSUME NEW f, NEW g, NEW S, \A x \in S : f[x] = g[x]
    PROVE  Sum(f, S) = Sum(g, S)
<1>1. {{x} \X (1..f[x]) : x \in S} = {{x} \X (1..g[x]) : x \in S}
  OBVIOUS
<1> QED
  BY <1>1 DEF Sum

\* A sum splits into the sums over a subset and over the rest.
LEMMA SumSplit ==
    ASSUME NEW f, NEW S, IsFiniteSet(S), \A x \in S : f[x] \in Nat, NEW T \in SUBSET S
    PROVE  Sum(f, T) \in Nat /\ Sum(f, S \ T) \in Nat /\ Sum(f, S) = Sum(f, T) + Sum(f, S \ T)
<1>1. IsFiniteSet(T) /\ IsFiniteSet(S \ T)
  BY FS_Subset, FS_Difference
<1>2. /\ IsFiniteSet(Units(f, T)) /\ Sum(f, T) = Cardinality(Units(f, T)) /\ Sum(f, T) \in Nat
      /\ IsFiniteSet(Units(f, S \ T)) /\ Sum(f, S \ T) = Cardinality(Units(f, S \ T)) /\ Sum(f, S \ T) \in Nat
      /\ Sum(f, S) = Cardinality(Units(f, S))
  BY <1>1, SumType
<1>3. Units(f, S) = Units(f, T) \cup Units(f, S \ T)
  BY DEF Units
<1>4. Units(f, T) \cap Units(f, S \ T) = {}
  BY UnitsAre
<1>5. Cardinality(Units(f, S)) = Cardinality(Units(f, T)) + Cardinality(Units(f, S \ T)) - 0
  BY <1>2, <1>3, <1>4, FS_Union, FS_EmptySet, ZenonT(40)
<1> QED
  BY <1>2, <1>5

\* The sum of one value is that value, and that of none is nothing.
LEMMA SumOne ==
    ASSUME NEW f, NEW x, f[x] \in Nat
    PROVE  Sum(f, {x}) = f[x] /\ Sum(f, {}) = 0
<1>1. UNION {{y} \X (1..f[y]) : y \in {x}} = {x} \X (1..f[x])
  OBVIOUS
<1>2. Cardinality({x} \X (1..f[x])) = f[x]
  <2>1. IsFiniteSet({x}) /\ Cardinality({x}) = 1 /\ IsFiniteSet(1..f[x]) /\ Cardinality(1..f[x]) = f[x]
    BY UpTo, FS_Singleton
  <2>2. Cardinality({x} \X (1..f[x])) = 1 * Cardinality(1..f[x])
    BY <2>1, FS_Product
  <2> QED
    BY <2>1, <2>2
<1>3. Sum(f, {x}) = f[x]
  BY <1>1, <1>2 DEF Sum
<1>4. UNION {{y} \X (1..f[y]) : y \in {}} = {}
  OBVIOUS
<1>5. Sum(f, {}) = 0
  BY <1>4, FS_EmptySet DEF Sum
<1> QED
  BY <1>3, <1>5

\* One value more adds itself.
LEMMA SumInsert ==
    ASSUME NEW f, NEW g, NEW S, IsFiniteSet(S), NEW x, x \notin S,
           g[x] \in Nat, \A y \in S : f[y] \in Nat /\ g[y] = f[y]
    PROVE  Sum(f, S) \in Nat /\ Sum(g, S \cup {x}) = Sum(f, S) + g[x]
<1>1. Sum(f, S) \in Nat /\ Sum(g, S) = Sum(f, S)
  BY SumType, SumSame
<1>2. IsFiniteSet(S \cup {x})
  BY FS_AddElement
<1>3. S \in SUBSET (S \cup {x}) /\ (S \cup {x}) \ S = {x} /\ \A y \in S \cup {x} : g[y] \in Nat
  OBVIOUS
<1>4. Sum(g, S \cup {x}) = Sum(g, S) + Sum(g, {x})
  BY <1>2, <1>3, SumSplit
<1> QED
  BY <1>1, <1>4, SumOne

\* The sum of a pointwise sum.
LEMMA SumAdd ==
    ASSUME NEW f, NEW g, NEW h, NEW S, IsFiniteSet(S),
           \A x \in S : f[x] \in Nat /\ g[x] \in Nat /\ h[x] = f[x] + g[x]
    PROVE  Sum(f, S) \in Nat /\ Sum(g, S) \in Nat /\ Sum(h, S) = Sum(f, S) + Sum(g, S)
<1> DEFINE Rest == Units(h, S) \ Units(f, S)
           shift == [u \in Units(g, S) |-> <<u[1], f[u[1]] + u[2]>>]
<1>1. /\ IsFiniteSet(Units(f, S)) /\ Sum(f, S) = Cardinality(Units(f, S)) /\ Sum(f, S) \in Nat
      /\ IsFiniteSet(Units(g, S)) /\ Sum(g, S) = Cardinality(Units(g, S)) /\ Sum(g, S) \in Nat
      /\ IsFiniteSet(Units(h, S)) /\ Sum(h, S) = Cardinality(Units(h, S)) /\ Sum(h, S) \in Nat
  BY SumType
<1>2. ASSUME NEW u \in Units(f, S)
      PROVE  u \in Units(h, S)
  <2>1. u[1] \in S /\ u[2] \in 1..f[u[1]] /\ u = <<u[1], u[2]>>
    BY UnitsAre
  <2>2. u[2] \in 1..h[u[1]]
    BY <2>1
  <2> QED
    BY <2>1, <2>2, UnitsAre
<1>3. ASSUME NEW u \in Units(g, S)
      PROVE  shift[u] \in Rest
  <2>1. u[1] \in S /\ u[2] \in 1..g[u[1]]
    BY UnitsAre
  <2>2. f[u[1]] + u[2] \in 1..h[u[1]] /\ f[u[1]] + u[2] \notin 1..f[u[1]]
    BY <2>1
  <2>3. <<u[1], f[u[1]] + u[2]>> \in Units(h, S)
    BY <2>1, <2>2, UnitsAre
  <2>4. <<u[1], f[u[1]] + u[2]>> \notin Units(f, S)
    BY <2>2, UnitsAre
  <2> QED
    BY <2>3, <2>4
<1>4. ASSUME NEW u \in Units(g, S), NEW v \in Units(g, S), shift[u] = shift[v]
      PROVE  u = v
  <2>1. /\ u[1] \in S /\ u[2] \in 1..g[u[1]] /\ u = <<u[1], u[2]>>
        /\ v[1] \in S /\ v[2] \in 1..g[v[1]] /\ v = <<v[1], v[2]>>
    BY UnitsAre
  <2>2. u[1] = v[1] /\ f[u[1]] + u[2] = f[v[1]] + v[2]
    BY <1>4
  <2>3. u[2] = v[2]
    BY <2>1, <2>2
  <2> QED
    BY <2>1, <2>2, <2>3
<1>5. ASSUME NEW w \in Rest
      PROVE  \E u \in Units(g, S) : shift[u] = w
  <2>1. w[1] \in S /\ w[2] \in 1..h[w[1]] /\ w = <<w[1], w[2]>>
    BY UnitsAre
  <2>2. w[2] \notin 1..f[w[1]]
    BY <2>1, UnitsAre
  <2>3. w[2] - f[w[1]] \in 1..g[w[1]]
    BY <2>1, <2>2
  <2>4. PICK u : u = <<w[1], w[2] - f[w[1]]>>
    OBVIOUS
  <2>5. u \in Units(g, S) /\ u[1] = w[1] /\ u[2] = w[2] - f[w[1]]
    BY <2>1, <2>3, <2>4, UnitsAre
  <2>6. f[u[1]] + u[2] = w[2]
    BY <2>1, <2>5
  <2> QED
    BY <2>1, <2>5, <2>6
<1>6. shift \in Bijection(Units(g, S), Rest)
  BY <1>3, <1>4, <1>5 DEF Bijection, Injection, Surjection, IsInjective
<1>7. Cardinality(Rest) = Cardinality(Units(g, S)) /\ IsFiniteSet(Rest)
  BY <1>1, <1>6, FS_Bijection DEF ExistsBijection
<1>8. Units(h, S) = Units(f, S) \cup Rest /\ Units(f, S) \cap Rest = {}
  BY <1>2
<1>9. Cardinality(Units(h, S)) = Cardinality(Units(f, S)) + Cardinality(Rest) - 0
  BY <1>1, <1>7, <1>8, FS_Union, FS_EmptySet
<1> QED
  BY <1>1, <1>7, <1>9

\* A sum is one value and the sum of the others.
LEMMA SumWithout ==
    ASSUME NEW f, NEW S, IsFiniteSet(S), \A x \in S : f[x] \in Nat, NEW y \in S
    PROVE  Sum(f, S \ {y}) \in Nat /\ Sum(f, S) = Sum(f, S \ {y}) + f[y]
<1>1. {y} \in SUBSET S /\ f[y] \in Nat
  OBVIOUS
<1>2. Sum(f, S \ {y}) \in Nat /\ Sum(f, S) = Sum(f, {y}) + Sum(f, S \ {y})
  BY <1>1, SumSplit
<1>3. Sum(f, {y}) = f[y]
  BY <1>1, SumOne
<1> QED
  BY <1>1, <1>2, <1>3

\* A sum of zeros is zero.
LEMMA SumZero ==
    ASSUME NEW f, NEW S, \A x \in S : f[x] = 0
    PROVE  Sum(f, S) = 0
<1>1. UNION {{x} \X (1..f[x]) : x \in S} = {}
  OBVIOUS
<1> QED
  BY <1>1, FS_EmptySet DEF Sum

------------------------------------------------------------------------------
(***************************************************************************)
(* Spreading an amount over cohorts                                        *)
(***************************************************************************)

\* The cohorts in S that the loop visits before g.
Before(g, S) == {h \in S : grantBefore(h, g)}

\* S is a finite set of cohorts in a strict order without ties.
Sorted(S) ==
    /\ S \in SUBSET Grants /\ IsFiniteSet(S)
    /\ \A g, h \in S : g = h \/ grantBefore(g, h) \/ grantBefore(h, g)
    /\ \A g, h, k \in S : grantBefore(g, h) /\ grantBefore(h, k) => grantBefore(g, k)
    /\ \A g \in S : ~grantBefore(g, g)

\* What may be taken from a cohort and from those before it is part of what
\* may be taken before any later one, and of all that may be taken.
LEMMA Cumulative ==
    ASSUME NEW S, Sorted(S), NEW limit, \A g \in S : limit[g] \in Nat, NEW g \in S
    PROVE  /\ Sum(limit, Before(g, S)) \in Nat /\ Sum(limit, S) \in Nat
           /\ Sum(limit, Before(g, S)) + limit[g] <= Sum(limit, S)
           /\ \A h \in S : grantBefore(g, h) =>
                 Sum(limit, Before(g, S)) + limit[g] <= Sum(limit, Before(h, S))
<1> USE DEF Sorted
<1>1. ASSUME NEW T \in SUBSET S, Before(g, S) \subseteq T, g \in T
      PROVE  /\ Sum(limit, Before(g, S)) \in Nat /\ Sum(limit, T) \in Nat
             /\ Sum(limit, Before(g, S)) + limit[g] <= Sum(limit, T)
  <2> DEFINE B == Before(g, S)
  <2>1. IsFiniteSet(T) /\ \A h \in T : limit[h] \in Nat
    BY FS_Subset
  <2>2. B \in SUBSET T /\ g \notin B
    BY <1>1 DEF Before
  <2>3. IsFiniteSet(B)
    BY <2>1, <2>2, FS_Subset
  <2>4. Sum(limit, B) \in Nat /\ Sum(limit, B \cup {g}) = Sum(limit, B) + limit[g]
    BY <2>1, <2>2, <2>3, SumInsert
  <2>5. PICK C \in SUBSET T : C = B \cup {g}
    BY <1>1, <2>2
  <2>6. Sum(limit, T \ C) \in Nat /\ Sum(limit, T) = Sum(limit, C) + Sum(limit, T \ C)
    BY <2>1, SumSplit, ZenonT(40)
  <2> QED
    BY <2>4, <2>5, <2>6
<1>2. Before(g, S) \subseteq S
  BY DEF Before
<1>3. ASSUME NEW h \in S, grantBefore(g, h)
      PROVE  Before(h, S) \in SUBSET S /\ Before(g, S) \subseteq Before(h, S) /\ g \in Before(h, S)
  BY <1>3 DEF Before
<1> QED
  BY <1>1, <1>2, <1>3

\* The loop takes no more than the limit, reaches a cohort only when those
\* before it are exhausted, and takes from no other.
LEMMA SpreadLimit ==
    ASSUME NEW S, Sorted(S), NEW limit, \A g \in S : limit[g] \in Nat, NEW total \in Nat
    PROVE  LET take == Spread(S, limit, total) IN
           /\ take \in [Grants -> Nat]
           /\ \A g \in S : /\ take[g] <= limit[g]
                           /\ \A n \in 1..limit[g] : n <= take[g] <=> Sum(limit, Before(g, S)) + n <= total
           /\ \A g \in Grants \ S : take[g] = 0
<1> DEFINE take == Spread(S, limit, total)
<1>1. ASSUME NEW g \in S
      PROVE  /\ take[g] \in Nat /\ take[g] <= limit[g]
             /\ \A n \in 1..limit[g] : n <= take[g] <=> Sum(limit, Before(g, S)) + n <= total
  <2>1. PICK b \in Nat : b = Sum(limit, Before(g, S))
    BY Cumulative
  <2>2. g \in Grants
    BY DEF Sorted
  <2>3. take[g] = Lesser(limit[g], Excess(total, b))
    BY <2>1, <2>2 DEF Spread, Before
  <2> QED
    BY <2>1, <2>3 DEF Lesser, Excess
<1>2. \A g \in Grants \ S : take[g] = 0
  BY DEF Spread
<1>3. take \in [Grants -> Nat]
  <2>1. \A g \in Grants : take[g] \in Nat
    BY <1>1, <1>2
  <2>2. take = [g \in Grants |-> take[g]]
    BY DEF Spread
  <2> QED
    BY <2>1, <2>2
<1> QED
  BY <1>1, <1>2, <1>3

\* The loop takes exactly what it was to take, when there is enough: the units
\* it takes are those whose place in the order is at most the total.
LEMMA SpreadTotal ==
    ASSUME NEW S, Sorted(S), NEW limit, \A g \in S : limit[g] \in Nat,
           NEW total \in Nat, total <= Sum(limit, S)
    PROVE  Sum(Spread(S, limit, total), S) = total
<1> DEFINE take == Spread(S, limit, total)
           N == Sum(limit, S)
           U == Units(limit, S)
           T == Units(take, S)
           at(g) == Sum(limit, Before(g, S))
           place == [u \in U |-> at(u[1]) + u[2]]
<1>1. /\ take \in [Grants -> Nat]
      /\ \A g \in S : /\ take[g] \in Nat /\ take[g] <= limit[g]
                      /\ \A n \in 1..limit[g] : n <= take[g] <=> at(g) + n <= total
  BY SpreadLimit DEF Sorted
<1>2. IsFiniteSet(U) /\ N = Cardinality(U) /\ N \in Nat /\ IsFiniteSet(T) /\ Sum(take, S) = Cardinality(T)
  BY <1>1, SumType DEF Sorted
<1>3. \A g \in S : /\ at(g) \in Nat /\ at(g) + limit[g] <= N
                   /\ \A h \in S : grantBefore(g, h) => at(g) + limit[g] <= at(h)
  BY Cumulative
<1>4. \A u \in U : u[1] \in S /\ u[2] \in 1..limit[u[1]] /\ u = <<u[1], u[2]>>
  BY UnitsAre
<1> HIDE DEF at, N, U, take
<1>5. ASSUME NEW u \in U
      PROVE  place[u] \in 1..N
  BY <1>2, <1>3, <1>4
<1>6. ASSUME NEW u \in U, NEW v \in U, place[u] = place[v]
      PROVE  u = v
  <2>1. at(u[1]) + u[2] = at(v[1]) + v[2]
    BY <1>6
  <2>2. CASE u[1] = v[1]
    <3>1. u[2] = v[2]
      BY <1>3, <1>4, <2>1, <2>2
    <3> QED
      BY <1>4, <2>2, <3>1
  <2>3. CASE grantBefore(u[1], v[1]) \/ grantBefore(v[1], u[1])
    BY <1>3, <1>4, <2>1, <2>3
  <2> QED
    BY <1>4, <2>2, <2>3 DEF Sorted
<1>7. place \in Injection(U, 1..N)
  BY <1>5, <1>6 DEF Injection, IsInjective
<1>8. place \in Surjection(U, 1..N)
  BY <1>2, <1>7, UpTo, FS_Injection
<1>9. ASSUME NEW u
      PROVE  u \in T <=> u \in U /\ place[u] \in 1..total
  <2>1. ASSUME u \in T
        PROVE  u \in U /\ place[u] \in 1..total
    <3>1. u[1] \in S /\ u[2] \in 1..take[u[1]] /\ u = <<u[1], u[2]>>
      BY <2>1, UnitsAre
    <3>2. u[2] \in 1..limit[u[1]] /\ at(u[1]) + u[2] <= total
      BY <1>1, <3>1
    <3>3. u \in U
      BY <3>1, <3>2, UnitsAre DEF U
    <3> QED
      BY <1>3, <3>1, <3>2, <3>3
  <2>2. ASSUME u \in U, place[u] \in 1..total
        PROVE  u \in T
    <3>1. u[1] \in S /\ u[2] \in 1..limit[u[1]] /\ u = <<u[1], u[2]>> /\ at(u[1]) + u[2] <= total
      BY <1>4, <2>2
    <3>2. u[2] \in 1..take[u[1]]
      BY <1>1, <3>1
    <3> QED
      BY <3>1, <3>2, UnitsAre
  <2> QED
    BY <2>1, <2>2
<1>10. [u \in T |-> place[u]] \in Bijection(T, 1..total)
  <2> HIDE DEF place, T
  <2>1. ASSUME NEW n \in 1..total
        PROVE  \E u \in T : place[u] = n
    <3>1. n \in 1..N
      BY <1>2 DEF N
    <3>2. PICK u \in U : place[u] = n
      BY <1>8, <3>1 DEF Surjection
    <3> QED
      BY <1>9, <3>2
  <2> QED
    BY <1>6, <1>9, <2>1 DEF Bijection, Injection, Surjection, IsInjective
<1>11. Cardinality(1..total) = Cardinality(T)
  BY <1>2, <1>10, FS_Bijection DEF ExistsBijection
<1> QED
  BY <1>2, <1>11, UpTo DEF take

------------------------------------------------------------------------------
(***************************************************************************)
(* What the steps do                                                       *)
(***************************************************************************)

\* There are finitely many cohorts and requests.
LEMMA FinitelyMany == IsFiniteSet(Grants) /\ IsFiniteSet(Requests)
  BY FS_Product, ConstantsAssumption DEF Grants

\* The fields of the rows.
LEMMA Fields ==
    ASSUME TypeOK
    PROVE  /\ \A g \in Grants : /\ grant[g] \in Grant
                                /\ grant[g].quantity \in Nat /\ grant[g].available \in Nat /\ grant[g].reserved \in Nat
                                /\ grant[g].consumed \in Nat /\ grant[g].expiresAt \in Nat /\ grant[g].createdAt \in Nat
                                /\ grant[g].state \in {"absent", "active", "expired", "reversed"}
           /\ \A q \in Requests : /\ reservation[q] \in Reservation /\ reservation[q].allocation \in [Grants -> Nat]
                                  /\ reservation[q].maximum \in Nat /\ reservation[q].settled \in Nat
                                  /\ reservation[q].state \in {"absent", "active", "settled", "released"}
<1>1. \A row \in Grant : /\ row.quantity \in Nat /\ row.available \in Nat /\ row.reserved \in Nat
                         /\ row.consumed \in Nat /\ row.expiresAt \in Nat /\ row.createdAt \in Nat
                         /\ row.state \in {"absent", "active", "expired", "reversed"}
  BY DEF Grant
<1>2. \A row \in Reservation : /\ row.allocation \in [Grants -> Nat] /\ row.maximum \in Nat /\ row.settled \in Nat
                               /\ row.state \in {"absent", "active", "settled", "released"}
  BY DEF Reservation
<1>3. (\A g \in Grants : grant[g] \in Grant) /\ \A q \in Requests : reservation[q] \in Reservation
  BY DEF TypeOK
<1> QED
  BY <1>1, <1>2, <1>3

\* Cohorts that exist are sorted without ties.
LEMMA ExistSorted ==
    ASSUME TypeOK, Ordering, NEW S \in SUBSET Exists
    PROVE  Sorted(S)
<1>1. S \in SUBSET Grants /\ IsFiniteSet(S)
  BY FinitelyMany, FS_Subset DEF Exists
<1>2. \A g, h \in S : grant[g].createdAt = grant[h].createdAt => g = h
  BY DEF Ordering
<1>3. \A g \in S : grant[g].expiresAt \in Nat /\ grant[g].createdAt \in Nat
  BY <1>1, Fields
<1> QED
  BY <1>1, <1>2, <1>3 DEF Sorted, grantBefore, Never

\* What no step on a cohort changes, other than its creation.
SameCohort(g) ==
    /\ grant'[g].state = grant[g].state /\ grant'[g].quantity = grant[g].quantity
    /\ grant'[g].campaign = grant[g].campaign /\ grant'[g].publication = grant[g].publication
    /\ grant'[g].expiresAt = grant[g].expiresAt /\ grant'[g].createdAt = grant[g].createdAt

Typed(e) == e.kind \in Kinds /\ e.account \in Accounts /\ e.amount \in Nat \ {0}
Settled(es) == {e \in es : e.kind = "settled"}

\* Nothing but other entries than settlements are added to the journal.
Quiet ==
    /\ entry \subseteq entry' /\ IsFiniteSet(entry')
    /\ \A e \in entry' \ entry : Typed(e) /\ e.kind # "settled" /\ \A q \in Requests : e.key # <<"settle", q>>

\* A reservation takes Tokens from active cohorts that have them.
Takes(q, take) ==
    /\ reservation[q].state = "absent" /\ take \in [Grants -> Nat]
    /\ reservation' = [reservation EXCEPT ![q] =
          [state |-> "active", maximum |-> Sum(take, Grants), settled |-> 0, allocation |-> take]]
    /\ grant' \in [Grants -> Grant]
    /\ \A g \in Grants : /\ take[g] <= grant[g].available /\ (take[g] > 0 => grant[g].state = "active")
                         /\ SameCohort(g) /\ grant'[g].consumed = grant[g].consumed
                         /\ grant'[g].available = grant[g].available - take[g]
                         /\ grant'[g].reserved = grant[g].reserved + take[g]
    /\ Quiet

\* A reservation is closed at n Tokens: what it held of a cohort is debited,
\* given back or lost, and only an expired or closed cohort loses any.
Closes(q, n, debit, back) ==
    /\ reservation[q].state = "active" /\ n \in Nat
    /\ debit \in [Grants -> Nat] /\ back \in [Grants -> Nat] /\ Sum(debit, Grants) = n
    /\ reservation' \in [Requests -> Reservation] /\ \A r \in Requests \ {q} : reservation'[r] = reservation[r]
    /\ reservation'[q].state \in {"settled", "released"} /\ reservation'[q].settled = n
    /\ grant' \in [Grants -> Grant]
    /\ \A g \in Grants :
          LET held == reservation[q].allocation[g] IN
          /\ held <= grant[g].reserved /\ debit[g] + back[g] <= held
          /\ back[g] > 0 => grant[g].state = "active"
          /\ grant[g].state = "active" /\ grant[g].expiresAt = Never => debit[g] + back[g] = held
          /\ SameCohort(g) /\ grant'[g].consumed = grant[g].consumed + debit[g]
          /\ grant'[g].available = grant[g].available + back[g]
          /\ grant'[g].reserved = grant[g].reserved - held
    /\ entry \subseteq entry' /\ IsFiniteSet(entry')
    /\ \A e \in entry' \ entry : Typed(e) /\ \A r \in Requests \ {q} : e.key # <<"settle", r>>
    /\ \/ n = 0 /\ Settled(entry') = Settled(entry)
       \/ \E s \in entry' \ entry : s.amount = n /\ Settled(entry') = Settled(entry) \cup {s}

\* A cohort is closed: what is left of it is no longer available.
Shut(g) ==
    /\ grant[g].state \notin {"absent", "reversed"} /\ grant'[g].state \in {"expired", "reversed"}
    /\ grant'[g].available = 0 /\ grant'[g].quantity = grant[g].quantity
    /\ grant'[g].reserved = grant[g].reserved /\ grant'[g].consumed = grant[g].consumed
    /\ grant'[g].state = "reversed" => grant[g].reserved = 0
    /\ grant'[g].campaign = grant[g].campaign /\ grant'[g].publication = grant[g].publication
    /\ grant'[g].createdAt = grant[g].createdAt

\* A cohort is issued, as the latest one.
Issued(g) ==
    /\ grant[g].state = "absent" /\ grant'[g].state = "active"
    /\ grant'[g].available = grant'[g].quantity /\ grant'[g].reserved = 0 /\ grant'[g].consumed = 0
    /\ grant'[g].createdAt = Created

\* Billing issues at most one cohort and closes some.
Reshapes(new) ==
    /\ UNCHANGED reservation /\ grant' \in [Grants -> Grant] /\ Quiet
    /\ \A g \in Grants \ {new} : grant'[g] = grant[g] \/ Shut(g)
    /\ grant'[new] = grant[new] \/ Shut(new) \/ Issued(new)

\* The journal gets what Record returns: one entry of the key, or none.
LEMMA Recorded ==
    ASSUME NEW key, NEW kind \in Kinds, NEW account \in Accounts, NEW amount \in Nat
    PROVE  /\ IsFiniteSet(Record(key, kind, account, amount))
           /\ \A e \in Record(key, kind, account, amount) :
                 /\ Typed(e) /\ e.key = key /\ e.kind = kind /\ e.amount = amount /\ e.account = account
                 /\ \A d \in entry : ~(d.key = key /\ d.account = account)
           /\ \A d, e \in Record(key, kind, account, amount) : d = e
           /\ \/ amount = 0 \/ \E d \in entry : d.key = key /\ d.account = account
              \/ \E s : s \in Record(key, kind, account, amount)
<1> DEFINE s == [key |-> key, kind |-> kind, account |-> account, amount |-> amount]
<1>1. s.key = key /\ s.kind = kind /\ s.account = account /\ s.amount = amount
  OBVIOUS
<1>2. \/ /\ Record(key, kind, account, amount) = {}
         /\ amount = 0 \/ \E d \in entry : d.key = key /\ d.account = account
      \/ /\ Record(key, kind, account, amount) = {s}
         /\ amount # 0 /\ \A d \in entry : ~(d.key = key /\ d.account = account)
  BY DEF Record
<1> HIDE DEF s
<1>3. IsFiniteSet({}) /\ IsFiniteSet({s})
  BY FS_EmptySet, FS_Singleton
<1>4. amount # 0 => Typed(s)
  BY <1>1 DEF Typed
<1> QED
  BY <1>1, <1>2, <1>3, <1>4

\* A journal that gets one entry which is no settlement.
LEMMA QuietRecord ==
    ASSUME NEW key, NEW kind \in Kinds \ {"settled"}, NEW account \in Accounts, NEW amount \in Nat,
           IsFiniteSet(entry), \A q \in Requests : key # <<"settle", q>>,
           entry' = entry \cup Record(key, kind, account, amount)
    PROVE  Quiet
<1>1. IsFiniteSet(entry')
  BY Recorded, FS_Union
<1>2. \A e \in entry' \ entry : Typed(e) /\ e.kind = kind /\ e.key = key
  BY Recorded
<1> QED
  BY <1>1, <1>2 DEF Quiet

\* A sum over the cohorts only needs those that count.
LEMMA SumSupport ==
    ASSUME NEW f \in [Grants -> Nat], NEW S \in SUBSET Grants, \A g \in Grants \ S : f[g] = 0
    PROVE  Sum(f, Grants) = Sum(f, S)
<1>1. Sum(f, S) \in Nat /\ Sum(f, Grants) = Sum(f, S) + Sum(f, Grants \ S)
  BY FinitelyMany, SumSplit
<1>2. Sum(f, Grants \ S) = 0
  BY SumZero
<1> QED
  BY <1>1, <1>2

\* Every source and every request has an Account.
LEMMA Owned == \A s \in Sources \cup Requests : Owner[s] \in Accounts
  BY ConstantsAssumption

\* Reserve takes the maximum of its rate.
LEMMA ReserveTakes ==
    ASSUME TypeOK, Ordering, Journal, NEW q \in Requests, NEW v \in Publications, NEW t, Reserve(q, v, t)
    PROVE  Takes(q, Spread(Spendable(Owner[q], t), Available, Rate[v]))
<1> DEFINE cohorts == Spendable(Owner[q], t)
           take == Spread(cohorts, Available, Rate[v])
<1>1. cohorts \in SUBSET Exists /\ cohorts \in SUBSET Grants /\ \A g \in cohorts : grant[g].state = "active"
  BY DEF Spendable, OfAccount, Exists
<1>2. Sorted(cohorts)
  BY <1>1, ExistSorted
<1>3. \A g \in Grants : Available[g] = grant[g].available /\ Available[g] \in Nat
  BY Fields DEF Available
<1>4. Rate[v] \in Nat
  BY ConstantsAssumption
<1> HIDE DEF cohorts
<1>5. /\ take \in [Grants -> Nat] /\ \A g \in cohorts : take[g] <= Available[g]
      /\ \A g \in Grants \ cohorts : take[g] = 0
  BY <1>1, <1>2, <1>3, <1>4, SpreadLimit
<1>6. Sum(take, cohorts) = Rate[v]
  BY <1>1, <1>2, <1>3, <1>4, SpreadTotal DEF Reserve, cohorts
<1>7. Sum(take, Grants) = Rate[v]
  BY <1>1, <1>5, <1>6, SumSupport
<1>8. /\ grant' = [g \in Grants |-> [grant[g] EXCEPT !.available = @ - take[g], !.reserved = @ + take[g]]]
      /\ reservation[q].state = "absent"
      /\ reservation' = [reservation EXCEPT ![q] =
            [state |-> "active", maximum |-> Rate[v], settled |-> 0, allocation |-> take]]
      /\ entry' = entry \cup Record(<<"reserve", q>>, "reserved", Owner[q], Rate[v])
  BY DEF Reserve, cohorts
<1> HIDE DEF take
<1>9. ASSUME NEW g \in Grants
      PROVE  /\ take[g] <= grant[g].available /\ (take[g] > 0 => grant[g].state = "active")
             /\ SameCohort(g) /\ grant'[g].consumed = grant[g].consumed
             /\ grant'[g].available = grant[g].available - take[g]
             /\ grant'[g].reserved = grant[g].reserved + take[g]
             /\ grant'[g] \in Grant
  <2>1. take[g] \in Nat /\ take[g] <= grant[g].available /\ (take[g] > 0 => grant[g].state = "active")
    BY <1>1, <1>3, <1>5, Fields
  <2>2. PICK a \in Nat, b \in Nat : a = grant[g].available - take[g] /\ b = grant[g].reserved + take[g]
    BY <2>1, Fields
  <2>3. grant'[g] = [grant[g] EXCEPT !.available = a, !.reserved = b]
    BY <1>8, <2>2
  <2>4. PICK row \in Grant : row = grant[g]
    BY Fields
  <2>5. LET new == [row EXCEPT !.available = a, !.reserved = b] IN
        /\ new \in Grant /\ new.available = a /\ new.reserved = b /\ new.consumed = row.consumed
        /\ new.state = row.state /\ new.quantity = row.quantity /\ new.campaign = row.campaign
        /\ new.expiresAt = row.expiresAt /\ new.createdAt = row.createdAt
        /\ new.publication = row.publication
    BY DEF Grant
  <2> QED
    BY <2>1, <2>2, <2>3, <2>4, <2>5 DEF SameCohort
<1>10. grant' \in [Grants -> Grant]
  BY <1>8, <1>9
<1>11. Quiet
  <2>1. \A r \in Requests : <<"reserve", q>> # <<"settle", r>>
    OBVIOUS
  <2>2. "reserved" \in Kinds \ {"settled"} /\ Owner[q] \in Accounts
    BY Owned DEF Kinds
  <2> QED
    BY <1>4, <1>8, <2>1, <2>2, QuietRecord DEF Journal
<1> QED
  BY <1>5, <1>7, <1>8, <1>9, <1>10, <1>11 DEF Takes, take, cohorts

\* A journal that gets the entries of a closed reservation.
LEMMA SettleRecords ==
    ASSUME NEW q \in Requests, NEW n \in Nat, NEW m \in Nat,
           IsFiniteSet(entry), \A e \in entry : e.key # <<"settle", q>>,
           entry' = entry \cup Record(<<"settle", q>>, "settled", Owner[q], n)
                          \cup Record(<<"release", q>>, "released", Owner[q], m)
    PROVE  /\ entry \subseteq entry' /\ IsFiniteSet(entry')
           /\ \A e \in entry' \ entry : Typed(e) /\ \A r \in Requests \ {q} : e.key # <<"settle", r>>
           /\ \/ n = 0 /\ Settled(entry') = Settled(entry)
              \/ \E s \in entry' \ entry : s.amount = n /\ Settled(entry') = Settled(entry) \cup {s}
<1> DEFINE R == Record(<<"settle", q>>, "settled", Owner[q], n)
           L == Record(<<"release", q>>, "released", Owner[q], m)
<1>1. "settled" \in Kinds /\ "released" \in Kinds /\ Owner[q] \in Accounts
  BY Owned DEF Kinds
<1>2. /\ IsFiniteSet(R) /\ \A e \in R : Typed(e) /\ e.key = <<"settle", q>> /\ e.kind = "settled" /\ e.amount = n
      /\ n = 0 \/ \E s : R = {s}
  <2>1. PICK key : key = <<"settle", q>>
    OBVIOUS
  <2>2. PICK a \in Accounts : a = Owner[q]
    BY <1>1
  <2>3. IsFiniteSet(Record(key, "settled", a, n))
    BY <1>1, Recorded
  <2>4. \A e \in Record(key, "settled", a, n) : Typed(e) /\ e.key = key /\ e.kind = "settled" /\ e.amount = n
    BY <1>1, Recorded
  <2>5. \/ n = 0 \/ \E d \in entry : d.key = key /\ d.account = a
        \/ \E s : s \in Record(key, "settled", a, n)
    BY <1>1, Recorded
  <2>6. \A d, e \in Record(key, "settled", a, n) : d = e
    BY <1>1, Recorded
  <2>7. R = Record(key, "settled", a, n)
    BY <2>1, <2>2
  <2>8. n = 0 \/ \E s : R = {s}
    BY <2>1, <2>5, <2>6, <2>7
  <2> QED
    BY <2>1, <2>3, <2>4, <2>7, <2>8
<1>3. IsFiniteSet(L) /\ \A e \in L : Typed(e) /\ e.key = <<"release", q>> /\ e.kind = "released"
  BY <1>1, Recorded
<1>4. entry' = (entry \cup R) \cup L
  OBVIOUS
<1> HIDE DEF R, L
<1>5. IsFiniteSet(entry')
  <2>1. IsFiniteSet(entry \cup R)
    BY <1>2, FS_Union
  <2> QED
    BY <1>3, <1>4, <2>1, FS_Union
<1>6. \A e \in R \cup L : \A r \in Requests \ {q} : e.key # <<"settle", r>>
  BY <1>2, <1>3
<1>7. CASE n = 0
  <2>1. R = {}
    BY <1>2, <1>7 DEF Typed
  <2> QED
    BY <1>3, <1>4, <1>5, <1>6, <1>7, <2>1 DEF Settled
<1>8. CASE n # 0
  <2>1. PICK s : R = {s}
    BY <1>2, <1>8
  <2>2. s \in entry' \ entry /\ s.amount = n /\ s.kind = "settled"
    BY <1>2, <1>4, <2>1
  <2>3. Settled(entry') = Settled(entry) \cup {s}
    BY <1>3, <1>4, <2>1, <2>2 DEF Settled
  <2> QED
    BY <1>2, <1>3, <1>4, <1>5, <1>6, <2>2, <2>3
<1> QED
  BY <1>7, <1>8

\* Close debits exactly what is settled and gives back the rest where it may.
LEMMA CloseCloses ==
    ASSUME TypeOK, Ordering, Holdings, Journal, NEW q \in Requests, NEW n \in Nat, NEW t, Close(q, n, t)
    PROVE  \E debit, back \in [Grants -> Nat] : Closes(q, n, debit, back)
<1> DEFINE row == reservation[q]
           held == row.allocation
           cohorts == {g \in Grants : held[g] > 0}
           debit == Spread(cohorts, held, n)
           back == [g \in Grants |-> IF Returns(g, t) THEN held[g] - debit[g] ELSE 0]
<1>0. row.state = "active" /\ n <= row.maximum
  BY DEF Close, Closeable
<1>1. /\ \A g \in cohorts : grant[g].reserved >= held[g]
      /\ grant' = [g \in Grants |->
            [grant[g] EXCEPT !.reserved = @ - held[g], !.consumed = @ + debit[g],
                             !.available = @ + (IF Returns(g, t) THEN held[g] - debit[g] ELSE 0)]]
      /\ reservation' = [reservation EXCEPT ![q].settled = n,
                            ![q].state = IF n = 0 THEN "released" ELSE "settled"]
      /\ entry' = entry \cup Record(<<"settle", q>>, "settled", Owner[q], n)
                        \cup Record(<<"release", q>>, "released", Owner[q], row.maximum - n)
  BY DEF Close, Closeable
<1>2. held \in [Grants -> Nat] /\ row.maximum \in Nat /\ row \in Reservation
  BY Fields
<1>3. Sum(held, Grants) = row.maximum /\ cohorts \in SUBSET Exists /\ cohorts \in SUBSET Grants
  BY <1>0 DEF Holdings
<1>4. Sorted(cohorts)
  BY <1>3, ExistSorted
<1>5. \A g \in Grants \ cohorts : held[g] = 0
  BY <1>2
<1> HIDE DEF cohorts
<1>6. Sum(held, cohorts) = row.maximum
  <2>1. Sum(held, Grants) = Sum(held, cohorts)
    BY <1>2, <1>3, <1>5, SumSupport
  <2> QED
    BY <1>3, <2>1
<1>7. \A g \in cohorts : held[g] \in Nat
  BY <1>2, <1>3
<1> HIDE DEF held
<1>8. /\ debit \in [Grants -> Nat] /\ \A g \in cohorts : debit[g] <= held[g]
      /\ \A g \in Grants \ cohorts : debit[g] = 0
  BY <1>4, <1>7, SpreadLimit
<1>9. Sum(debit, cohorts) = n
  BY <1>0, <1>4, <1>6, <1>7, SpreadTotal
<1> HIDE DEF debit
<1>10. Sum(debit, Grants) = n
  BY <1>3, <1>8, <1>9, SumSupport
<1>11. \A g \in Grants : /\ held[g] \in Nat /\ held[g] <= grant[g].reserved
                         /\ debit[g] \in Nat /\ debit[g] <= held[g]
  <2>1. \A g \in cohorts : grant[g].reserved >= held[g] /\ debit[g] <= held[g]
    BY <1>1, <1>8
  <2>2. \A g \in Grants \ cohorts : held[g] = 0 /\ debit[g] = 0
    BY <1>5, <1>8
  <2>3. \A g \in Grants : held[g] \in Nat /\ debit[g] \in Nat /\ grant[g].reserved \in Nat
    BY <1>2, <1>8, Fields
  <2> QED
    BY <2>1, <2>2, <2>3
<1>12. /\ back \in [Grants -> Nat]
       /\ \A g \in Grants : /\ debit[g] + back[g] <= held[g] /\ (back[g] > 0 => grant[g].state = "active")
                            /\ grant[g].state = "active" /\ grant[g].expiresAt = Never => debit[g] + back[g] = held[g]
  BY <1>11 DEF Returns, Live
<1>13. ASSUME NEW g \in Grants
       PROVE  /\ SameCohort(g) /\ grant'[g].consumed = grant[g].consumed + debit[g]
              /\ grant'[g].available = grant[g].available + back[g]
              /\ grant'[g].reserved = grant[g].reserved - held[g]
              /\ grant'[g] \in Grant
  <2>1. PICK a \in Nat, b \in Nat, c \in Nat : /\ a = grant[g].available + back[g] /\ b = grant[g].reserved - held[g]
                                               /\ c = grant[g].consumed + debit[g]
    BY <1>11, <1>12, Fields
  <2>2. grant'[g] = [grant[g] EXCEPT !.reserved = b, !.consumed = c, !.available = a]
    BY <1>1, <2>1
  <2>3. PICK old \in Grant : old = grant[g]
    BY Fields
  <2>4. LET new == [old EXCEPT !.reserved = b, !.consumed = c, !.available = a] IN
        /\ new \in Grant /\ new.available = a /\ new.reserved = b /\ new.consumed = c
        /\ new.state = old.state /\ new.quantity = old.quantity /\ new.campaign = old.campaign
        /\ new.expiresAt = old.expiresAt /\ new.createdAt = old.createdAt
        /\ new.publication = old.publication
    BY DEF Grant
  <2> QED
    BY <2>1, <2>2, <2>3, <2>4 DEF SameCohort
<1>14. grant' \in [Grants -> Grant]
  BY <1>1, <1>13
<1>15. /\ reservation' \in [Requests -> Reservation] /\ \A r \in Requests \ {q} : reservation'[r] = reservation[r]
       /\ reservation'[q].state \in {"settled", "released"} /\ reservation'[q].settled = n
  BY <1>1, <1>2 DEF TypeOK, Reservation
<1>16. /\ entry \subseteq entry' /\ IsFiniteSet(entry')
       /\ \A e \in entry' \ entry : Typed(e) /\ \A r \in Requests \ {q} : e.key # <<"settle", r>>
       /\ \/ n = 0 /\ Settled(entry') = Settled(entry)
          \/ \E s \in entry' \ entry : s.amount = n /\ Settled(entry') = Settled(entry) \cup {s}
  <2>1. PICK m \in Nat : m = row.maximum - n
    BY <1>0, <1>2
  <2>2. \A e \in entry : e.key # <<"settle", q>>
    BY <1>0 DEF Journal
  <2>3. IsFiniteSet(entry)
    BY DEF Journal
  <2>4. entry' = entry \cup Record(<<"settle", q>>, "settled", Owner[q], n)
                       \cup Record(<<"release", q>>, "released", Owner[q], m)
    BY <1>1, <2>1
  <2> QED
    BY <2>2, <2>3, <2>4, SettleRecords
<1>17. Closes(q, n, debit, back)
  <2> HIDE DEF back
  <2> QED
    BY <1>0, <1>1, <1>8, <1>10, <1>11, <1>12, <1>13, <1>14, <1>15, <1>16 DEF Closes, held
<1> QED
  BY <1>8, <1>12, <1>17

\* There are finitely many cohorts, so the next one has a number.
LEMMA NextNumber == IsFiniteSet(Exists) /\ Cardinality(Exists) \in Nat /\ Created = Cardinality(Exists) + 1
<1>1. Exists \in SUBSET Grants
  BY DEF Exists
<1> QED
  BY <1>1, FinitelyMany, FS_Subset, FS_CardinalityType DEF Created

\* A new row, with all its Tokens available.
Fresh(row, n, v, c) ==
    /\ row \in Grant /\ row.state = "active" /\ row.quantity = n /\ row.available = n
    /\ row.reserved = 0 /\ row.consumed = 0 /\ row.publication = v /\ row.campaign = c
    /\ row.createdAt = Created

\* Such is the row of a cohort that is issued.
LEMMA NewGrantRow ==
    ASSUME NEW n \in Nat, NEW v \in Nat, NEW c \in Nat, NEW x \in Nat
    PROVE  Fresh(NewGrant(n, v, c, x), n, v, c)
<1>1. PICK at \in Nat : at = Created
  BY NextNumber
<1>2. NoGrant \in Grant /\ NoGrant.reserved = 0 /\ NoGrant.consumed = 0
  BY DEF NoGrant, Grant, Never
<1>3. NewGrant(n, v, c, x) =
        [NoGrant EXCEPT !.state = "active", !.quantity = n, !.publication = v, !.campaign = c,
                        !.available = n, !.expiresAt = x, !.createdAt = at]
  BY <1>1 DEF NewGrant
<1> QED
  BY <1>1, <1>2, <1>3 DEF Grant, Fresh

\* A cohort that is closed keeps its row's type and its other amounts.
LEMMA ShutRow ==
    ASSUME NEW row \in Grant, NEW state \in {"expired", "reversed"},
           NEW new, new = [row EXCEPT !.available = 0, !.state = state]
    PROVE  /\ new \in Grant /\ new.state = state /\ new.available = 0 /\ new.quantity = row.quantity
           /\ new.reserved = row.reserved /\ new.consumed = row.consumed
           /\ new.campaign = row.campaign /\ new.publication = row.publication
           /\ new.createdAt = row.createdAt
  BY DEF Grant

\* An event key of a kind is not that of a settlement.
LEMMA Keys ==
    ASSUME NEW q
    PROVE  /\ \A x : <<"issue", x>> # <<"settle", q>> /\ <<"reverse", x>> # <<"settle", q>>
           /\ \A x, y : <<"expire", x, y>> # <<"settle", q>>
<1>1. \A x : <<"issue", x>> # <<"settle", q>> /\ <<"reverse", x>> # <<"settle", q>>
  OBVIOUS
<1>2. ASSUME NEW x, NEW y, <<"expire", x, y>> = <<"settle", q>>
      PROVE  FALSE
  <2>1. <<"expire", x, y>>[1] = "expire" /\ <<"settle", q>>[1] = "settle"
    OBVIOUS
  <2> QED
    BY <1>2, <2>1
<1> QED
  BY <1>1, <1>2

\* What a renewal for invoice i records of the cohorts it closes.
Expiries(i, a, old) == UNION {Record(<<"expire", g, i>>, "expired", a, grant[g].available) : g \in old}

\* These entries are no settlements.
LEMMA ExpireRecords ==
    ASSUME TypeOK, NEW i, NEW a \in Accounts, NEW old \in SUBSET Grants
    PROVE  /\ IsFiniteSet(Expiries(i, a, old))
           /\ \A e \in Expiries(i, a, old) :
                 Typed(e) /\ e.kind # "settled" /\ \A q \in Requests : e.key # <<"settle", q>>
<1> DEFINE Of(g) == Record(<<"expire", g, i>>, "expired", a, grant[g].available)
           All == {Of(g) : g \in old}
<1>1. ASSUME NEW g \in old
      PROVE  /\ IsFiniteSet(Of(g))
             /\ \A e \in Of(g) : Typed(e) /\ e.kind # "settled" /\ \A q \in Requests : e.key # <<"settle", q>>
  <2>1. PICK n \in Nat : n = grant[g].available
    BY Fields
  <2>2. PICK key : key = <<"expire", g, i>>
    OBVIOUS
  <2>3. "expired" \in Kinds
    BY DEF Kinds
  <2>4. /\ IsFiniteSet(Record(key, "expired", a, n))
        /\ \A e \in Record(key, "expired", a, n) : Typed(e) /\ e.kind = "expired" /\ e.key = key
    BY <2>3, Recorded
  <2>5. \A q \in Requests : key # <<"settle", q>>
    BY <2>2, Keys
  <2>6. Of(g) = Record(key, "expired", a, n)
    BY <2>1, <2>2
  <2> QED
    BY <2>4, <2>5, <2>6
<1> HIDE DEF Of
<1>2. [g \in old |-> Of(g)] \in Surjection(old, All)
  BY DEF Surjection
<1>3. IsFiniteSet(old)
  BY FinitelyMany, FS_Subset
<1>4. IsFiniteSet(All)
  BY <1>2, <1>3, FS_Surjection
<1>5. IsFiniteSet(UNION All)
  BY <1>1, <1>4, FS_UNION
<1>6. \A e \in UNION All : \E g \in old : e \in Of(g)
  OBVIOUS
<1>7. \A e \in UNION All : Typed(e) /\ e.kind # "settled" /\ \A q \in Requests : e.key # <<"settle", q>>
  BY <1>1, <1>6
<1> QED
  BY <1>5, <1>7 DEF Expiries, Of

\* An invoice is issued its included cohort, and the one before is closed.
LEMMA IncludedReshapes ==
    ASSUME TypeOK, Journal, NEW i \in Invoices, NEW v \in Publications, IssueIncluded(i, v)
    PROVE  <<i, Renewal[v].code>> \in Grants /\ Reshapes(<<i, Renewal[v].code>>)
<1>1. PICK new : new = <<i, Renewal[v].code>>
  OBVIOUS
<1>2. PICK a \in Accounts : a = Owner[i]
  BY Owned DEF Sources
<1>3. PICK old \in SUBSET Grants : old = Renewed(a)
  BY DEF Renewed, OfAccount, Exists
<1>4. PICK n \in Nat : n = Renewal[v].quantity
  BY ConstantsAssumption
<1>5. new \in Grants
  BY <1>1 DEF Grants, Sources, Codes
<1>6. /\ grant[new].state = "absent" /\ UNCHANGED reservation
      /\ grant' = [g \in Grants |->
            IF g = new THEN NewGrant(n, v, 0, Never)
            ELSE IF g \in old THEN [grant[g] EXCEPT !.available = 0, !.state = "expired"]
            ELSE grant[g]]
  BY <1>1, <1>2, <1>3, <1>4 DEF IssueIncluded
<1>7. \A g \in old : grant[g].state = "active"
  BY <1>3 DEF Renewed
<1>8. grant'[new] \in Grant /\ Issued(new)
  <2>1. v \in Nat /\ Never \in Nat /\ 0 \in Nat
    BY ConstantsAssumption DEF Publications, Never
  <2>2. Fresh(NewGrant(n, v, 0, Never), n, v, 0)
    BY <2>1, NewGrantRow
  <2>3. Fresh(grant'[new], n, v, 0)
    BY <1>5, <1>6, <2>2
  <2> QED
    BY <1>6, <2>3 DEF Issued, Fresh
<1>9. ASSUME NEW g \in Grants \ {new}
      PROVE  grant'[g] \in Grant /\ (grant'[g] = grant[g] \/ Shut(g))
  <2>1. CASE g \in old
    <3>1. PICK row \in Grant : row = grant[g]
      BY Fields
    <3>2. PICK shut : shut = [row EXCEPT !.available = 0, !.state = "expired"]
      OBVIOUS
    <3>3. /\ shut \in Grant /\ shut.state = "expired" /\ shut.available = 0
          /\ shut.quantity = row.quantity /\ shut.reserved = row.reserved
          /\ shut.consumed = row.consumed /\ shut.campaign = row.campaign
          /\ shut.publication = row.publication /\ shut.createdAt = row.createdAt
      BY <3>2, ShutRow, ZenonT(40)
    <3>4. shut = grant'[g]
      BY <1>6, <2>1, <3>1, <3>2
    <3> QED
      BY <1>7, <2>1, <3>1, <3>3, <3>4 DEF Shut
  <2>2. CASE g \notin old
    BY <1>6, <2>2, Fields
  <2> QED
    BY <2>1, <2>2
<1>10. grant' \in [Grants -> Grant]
  BY <1>6, <1>8, <1>9
<1>11. Quiet
  <2> DEFINE X == Expiries(i, a, old)
             Y == Record(<<"issue", new>>, "issued", a, n)
  <2>1. /\ IsFiniteSet(X)
        /\ \A e \in X : Typed(e) /\ e.kind # "settled" /\ \A q \in Requests : e.key # <<"settle", q>>
    BY ExpireRecords, SMTT(30)
  <2>2. PICK key : key = <<"issue", new>>
    OBVIOUS
  <2>3. "issued" \in Kinds
    BY DEF Kinds
  <2>4. /\ IsFiniteSet(Record(key, "issued", a, n))
        /\ \A e \in Record(key, "issued", a, n) : Typed(e) /\ e.kind = "issued" /\ e.key = key
    BY <2>3, Recorded, SMTT(30)
  <2>5. \A q \in Requests : key # <<"settle", q>>
    BY <2>2, Keys
  <2>6. Y = Record(key, "issued", a, n)
    BY <2>2
  <2>7. entry' = (entry \cup X) \cup Y
    BY <1>1, <1>2, <1>3, <1>4 DEF IssueIncluded, Expiries
  <2> HIDE DEF X, Y
  <2>8. IsFiniteSet(entry \cup X) /\ IsFiniteSet(entry')
    <3>1. IsFiniteSet(entry \cup X)
      BY <2>1, FS_Union DEF Journal
    <3> QED
      BY <2>4, <2>6, <2>7, <3>1, FS_Union
  <2> QED
    BY <2>1, <2>4, <2>5, <2>6, <2>7, <2>8 DEF Quiet
<1> QED
  BY <1>1, <1>5, <1>6, <1>8, <1>9, <1>10, <1>11 DEF Reshapes

\* One cohort is issued, with its entry.
LEMMA OneIssued ==
    ASSUME TypeOK, Journal, NEW new \in Grants, NEW a \in Accounts,
           NEW n \in Nat, NEW v \in Nat, NEW c \in Nat, NEW x \in Nat,
           grant[new].state = "absent", UNCHANGED reservation,
           grant' = [grant EXCEPT ![new] = NewGrant(n, v, c, x)],
           entry' = entry \cup Record(<<"issue", new>>, "issued", a, n)
    PROVE  Reshapes(new) /\ grant'[new].campaign = c /\ grant'[new].publication = v
<1>1. PICK row : row = NewGrant(n, v, c, x)
  OBVIOUS
<1>2. Fresh(row, n, v, c)
  BY <1>1, NewGrantRow
<1>3. grant'[new] = row /\ grant' \in [Grants -> Grant] /\ \A g \in Grants \ {new} : grant'[g] = grant[g]
  BY <1>1, <1>2 DEF TypeOK, Fresh
<1>4. Quiet
  <2>1. \A q \in Requests : <<"issue", new>> # <<"settle", q>>
    BY Keys
  <2>2. "issued" \in Kinds \ {"settled"}
    BY DEF Kinds
  <2> QED
    BY <2>1, <2>2, QuietRecord DEF Journal
<1> QED
  BY <1>2, <1>3, <1>4 DEF Reshapes, Issued, Fresh

\* Nothing happens to the ledger.
LEMMA LedgerKept ==
    ASSUME TypeOK, Journal, UNCHANGED ledger
    PROVE  \A new \in Grants : Reshapes(new)
<1>1. Quiet
  BY DEF ledger, Quiet, Journal
<1> QED
  BY <1>1 DEF Reshapes, ledger, TypeOK

\* A payment is issued the cohort its Checkout attempt froze.
LEMMA PurchasedReshapes ==
    ASSUME TypeOK, Journal, NEW p \in Payments, IssuePurchased(p)
    PROVE  <<p, "bundle">> \in Grants /\ Reshapes(<<p, "bundle">>)
<1>1. PICK new : new = <<p, "bundle">>
  OBVIOUS
<1>2. new \in Grants
  BY <1>1 DEF Grants, Sources, Codes
<1>3. Bundle[p] \in Nat /\ Owner[p] \in Accounts
  BY ConstantsAssumption, Owned DEF Sources
<1>4. CASE grant[new].state = "absent"
  <2>1. /\ grant' = [grant EXCEPT ![new] = NewGrant(Bundle[p], 1, 0, Never)] /\ UNCHANGED reservation
        /\ entry' = entry \cup Record(<<"issue", new>>, "issued", Owner[p], Bundle[p])
    BY <1>1, <1>4 DEF IssuePurchased
  <2>2. Never \in Nat
    BY DEF Never
  <2>3. Reshapes(new)
    BY <1>2, <1>3, <1>4, <2>1, <2>2, OneIssued
  <2> QED
    BY <1>1, <1>2, <2>3
<1>5. CASE grant[new].state # "absent"
  BY <1>1, <1>2, <1>5, LedgerKept DEF IssuePurchased, ledger
<1> QED
  BY <1>4, <1>5

\* A refund closes the cohort of its payment, which nothing holds any more.
LEMMA ReversedReshapes ==
    ASSUME TypeOK, Journal, NEW p \in Payments, ReversePurchased(p)
    PROVE  <<p, "bundle">> \in Grants /\ Reshapes(<<p, "bundle">>)
<1>1. PICK g : g = <<p, "bundle">>
  OBVIOUS
<1>2. g \in Grants
  BY <1>1 DEF Grants, Sources, Codes
<1>3. CASE grant[g].state = "reversed"
  BY <1>1, <1>2, <1>3, LedgerKept DEF ReversePurchased, ledger
<1>4. CASE grant[g].state # "reversed"
  <2>1. PICK n \in Nat, row \in Grant : n = grant[g].available /\ row = grant[g]
    BY <1>2, Fields
  <2>2. /\ grant[g].state # "absent" /\ IdleGrant(g) /\ UNCHANGED reservation
        /\ grant' = [grant EXCEPT ![g].available = 0, ![g].state = "reversed"]
        /\ entry' = entry \cup Record(<<"reverse", p>>, "reversed", Owner[p], n)
    BY <1>1, <1>4, <2>1 DEF ReversePurchased
  <2>3. PICK new : new = [row EXCEPT !.available = 0, !.state = "reversed"]
    OBVIOUS
  <2>4. /\ new \in Grant /\ new.state = "reversed" /\ new.available = 0 /\ new.quantity = row.quantity
        /\ new.reserved = row.reserved /\ new.consumed = row.consumed
        /\ new.campaign = row.campaign /\ new.publication = row.publication
        /\ new.createdAt = row.createdAt
    BY <2>3, ShutRow
  <2>5. grant'[g] = new /\ \A h \in Grants \ {g} : grant'[h] = grant[h]
    BY <1>2, <2>1, <2>2, <2>3 DEF TypeOK
  <2>6. grant' \in [Grants -> Grant]
    <3>1. grant' = [grant EXCEPT ![g] = new]
      BY <1>2, <2>1, <2>2, <2>3 DEF TypeOK
    <3> QED
      BY <1>2, <2>4, <3>1 DEF TypeOK
  <2>7. Shut(g)
    BY <1>4, <2>1, <2>2, <2>4, <2>5 DEF Shut, IdleGrant
  <2>8. Quiet
    <3>1. \A q \in Requests : <<"reverse", p>> # <<"settle", q>>
      BY Keys
    <3>2. "reversed" \in Kinds \ {"settled"} /\ Owner[p] \in Accounts
      BY Owned DEF Kinds, Sources
    <3> QED
      BY <2>2, <3>1, <3>2, QuietRecord DEF Journal
  <2>9. Reshapes(g)
    BY <2>2, <2>5, <2>6, <2>7, <2>8 DEF Reshapes
  <2> QED
    BY <1>1, <1>2, <2>9
<1> QED
  BY <1>3, <1>4

\* A redemption is issued the cohort of its campaign.
LEMMA RedeemReshapes ==
    ASSUME TypeOK, Journal, NEW r \in Redemptions, NEW v \in Publications, NEW t \in Nat, RedeemPromotion(r, v, t)
    PROVE  /\ <<r, "campaign">> \in Grants /\ Reshapes(<<r, "campaign">>)
           /\ grant'[<<r, "campaign">>].campaign = Campaign[v].version
           /\ grant'[<<r, "campaign">>].publication = v
           /\ \A g \in Grants \ {<<r, "campaign">>} : grant'[g] = grant[g]
<1>1. PICK new : new = <<r, "campaign">>
  OBVIOUS
<1>2. new \in Grants
  BY <1>1 DEF Grants, Sources, Codes
<1>3. PICK n \in Nat, c \in Nat, x \in Nat : /\ n = Campaign[v].quantity /\ c = Campaign[v].version
                                             /\ x = t + Campaign[v].days
  BY ConstantsAssumption
<1>4. v \in Nat /\ Owner[r] \in Accounts
  BY ConstantsAssumption, Owned DEF Publications, Sources
<1>5. /\ grant[new].state = "absent" /\ UNCHANGED reservation
      /\ grant' = [grant EXCEPT ![new] = NewGrant(n, v, c, x)]
      /\ entry' = entry \cup Record(<<"issue", new>>, "issued", Owner[r], n)
  BY <1>1, <1>3 DEF RedeemPromotion
<1>6. Reshapes(new) /\ grant'[new].campaign = c /\ grant'[new].publication = v
  BY <1>2, <1>4, <1>5, OneIssued, ZenonT(40)
<1>7. \A g \in Grants \ {new} : grant'[g] = grant[g]
  BY <1>5 DEF TypeOK
<1> QED
  BY <1>1, <1>2, <1>3, <1>6, <1>7

\* A cohort included with an invoice becomes active only as the last one of
\* its Account is closed.
Renews(new) ==
    Issued(new) /\ new[1] \in Invoices =>
        \A g \in Exists : g[1] \in Invoices /\ Owner[g[1]] = Owner[new[1]] => grant'[g].state # "active"

\* A cohort of a campaign is issued only within the caps of its publication.
Capped(new) ==
    Issued(new) /\ new[1] \in Redemptions =>
        \E v \in Publications :
            /\ WithinCap(Owner[new[1]], v)
            /\ grant'[new].publication = v /\ grant'[new].campaign = Campaign[v].version

\* Every step reserves, closes a reservation, issues or closes cohorts, or
\* leaves the ledger alone.
LEMMA Steps ==
    ASSUME TypeOK, Ordering, Holdings, Journal, [Next]_vars
    PROVE  \/ \E q \in Requests, v \in Publications, t \in 1..now :
                 Reserve(q, v, t) /\ Takes(q, Spread(Spendable(Owner[q], t), Available, Rate[v]))
           \/ \E q \in Requests, n \in Nat, debit, back \in [Grants -> Nat] : Closes(q, n, debit, back)
           \/ \E new \in Grants : Reshapes(new) /\ Renews(new) /\ Capped(new)
           \/ UNCHANGED ledger
<1>1. 1..published \subseteq Publications /\ 1..now \subseteq Nat
  BY ConstantsAssumption DEF TypeOK, Publications
<1>2. ASSUME NEW q \in Requests, NEW t \in 1..now, NEW v \in 1..published, Reserve(q, v, t)
      PROVE  Takes(q, Spread(Spendable(Owner[q], t), Available, Rate[v]))
  BY <1>1, <1>2, ReserveTakes
<1>3. ASSUME NEW q \in Requests, NEW t \in 1..now, NEW n \in Charges, Close(q, n, t)
      PROVE  \E debit, back \in [Grants -> Nat] : n \in Nat /\ Closes(q, n, debit, back)
  <2>1. n \in Nat
    BY DEF Charges
  <2> QED
    BY <1>3, <2>1, CloseCloses
<1>4. ASSUME NEW i \in Invoices, NEW v \in 1..published, IssueIncluded(i, v)
      PROVE  \E new \in Grants : Reshapes(new) /\ Renews(new) /\ Capped(new)
  <2>1. PICK new : new = <<i, Renewal[v].code>>
    OBVIOUS
  <2>2. v \in Publications
    BY <1>1
  <2>3. new \in Grants /\ Reshapes(new)
    BY <1>4, <2>1, <2>2, IncludedReshapes
  <2>4. new[1] = i /\ i \notin Redemptions
    BY <2>1, ConstantsAssumption
  <2>5. Renews(new)
    <3>1. SUFFICES ASSUME NEW g \in Exists, g[1] \in Invoices, Owner[g[1]] = Owner[i], grant[new].state = "absent"
                   PROVE  grant'[g].state # "active"
      BY <2>4 DEF Renews, Issued
    <3>2. g \in Grants /\ g # new /\ grant[g] \in Grant
      BY <3>1, Fields DEF Exists
    <3>3. PICK old : old = Renewed(Owner[i])
      OBVIOUS
    <3>4. g \in old <=> grant[g].state = "active"
      BY <3>1, <3>3 DEF Renewed, OfAccount
    <3>5. grant'[g] = IF g \in old THEN [grant[g] EXCEPT !.available = 0, !.state = "expired"] ELSE grant[g]
      BY <1>4, <2>1, <3>2, <3>3 DEF IssueIncluded
    <3>6. CASE g \in old
      <4>1. grant'[g] = [grant[g] EXCEPT !.available = 0, !.state = "expired"]
        BY <3>5, <3>6
      <4>2. \A row \in Grant : [row EXCEPT !.available = 0, !.state = "expired"].state = "expired"
        BY DEF Grant
      <4> QED
        BY <3>2, <4>1, <4>2
    <3>7. CASE g \notin old
      BY <3>4, <3>5, <3>7
    <3> QED
      BY <3>6, <3>7
  <2>6. Capped(new)
    BY <2>4 DEF Capped
  <2> QED
    BY <2>3, <2>5, <2>6
<1>5. ASSUME NEW p \in Payments, IssuePurchased(p) \/ ReversePurchased(p)
      PROVE  \E new \in Grants : Reshapes(new) /\ Renews(new) /\ Capped(new)
  <2>1. PICK new : new = <<p, "bundle">>
    OBVIOUS
  <2>2. new \in Grants /\ Reshapes(new)
    BY <1>5, <2>1, PurchasedReshapes, ReversedReshapes
  <2>3. new[1] \notin Invoices /\ new[1] \notin Redemptions
    BY <2>1, ConstantsAssumption
  <2> QED
    BY <2>2, <2>3 DEF Renews, Capped
<1>6. ASSUME NEW r \in Redemptions, NEW v \in 1..published, NEW t \in 1..now, RedeemPromotion(r, v, t)
      PROVE  \E new \in Grants : Reshapes(new) /\ Renews(new) /\ Capped(new)
  <2>1. PICK new : new = <<r, "campaign">>
    OBVIOUS
  <2>2. v \in Publications /\ t \in Nat
    BY <1>1
  <2>3. /\ new \in Grants /\ Reshapes(new) /\ grant'[new].campaign = Campaign[v].version
        /\ grant'[new].publication = v
    BY <1>6, <2>1, <2>2, RedeemReshapes
  <2>4. new[1] = r /\ r \notin Invoices
    BY <2>1, ConstantsAssumption
  <2>5. WithinCap(Owner[r], v)
    BY <1>6 DEF RedeemPromotion
  <2> QED
    BY <2>2, <2>3, <2>4, <2>5 DEF Renews, Capped
<1>7. ASSUME NEW p \in Payments, ProjectOneTimePurchase(p) \/ AbandonPurchase(p) \/ ProjectPurchaseRefund(p)
      PROVE  UNCHANGED ledger
  BY <1>7 DEF ProjectOneTimePurchase, AbandonPurchase, ProjectPurchaseRefund
<1>8. ASSUME NEW i \in Invoices, NEW v \in 1..published, ReplayIncluded(i, v)
      PROVE  UNCHANGED ledger
  BY <1>8 DEF ReplayIncluded, ledger
<1>9. ASSUME NEW x \in Events, Replay(x)
      PROVE  UNCHANGED ledger
  BY <1>9 DEF Replay
<1>10. Publish \/ Tick \/ UNCHANGED vars => UNCHANGED ledger
  BY DEF Publish, Tick, vars, ledger
<1>11. CASE Next
  BY <1>1, <1>2, <1>3, <1>4, <1>5, <1>6, <1>7, <1>8, <1>9, <1>10, <1>11 DEF Next
<1> QED
  BY <1>10, <1>11

\* Clock, publications, events and Checkout attempts keep their types.
LEMMA NextFrame ==
    ASSUME TypeOK, [Next]_vars
    PROVE  /\ now' \in 1..MaxTime /\ published' \in Publications /\ due' \subseteq Events
           /\ checkout' \in [Payments -> {"active", "completed", "refunded"}] /\ projecting' \subseteq Payments
<1> USE ConstantsAssumption
<1>1. UNCHANGED <<now, published>> \/ (UNCHANGED published /\ Tick) \/ (UNCHANGED now /\ Publish)
  BY ZenonT(40)
     DEF Next, vars, Reserve, Close, IssueIncluded, ReplayIncluded, ProjectOneTimePurchase, IssuePurchased,
         AbandonPurchase, ProjectPurchaseRefund, ReversePurchased, RedeemPromotion, Replay, Publish, Tick
<1>2. now' \in 1..MaxTime /\ published' \in Publications
  BY <1>1 DEF TypeOK, Tick, Publish, Publications
<1>3. /\ due' \subseteq Events /\ projecting' \subseteq Payments
      /\ checkout' \in [Payments -> {"active", "completed", "refunded"}]
  BY ZenonT(40)
     DEF TypeOK, EventDone, Next, vars, Reserve, Close, IssueIncluded, ReplayIncluded,
         ProjectOneTimePurchase,
         IssuePurchased, AbandonPurchase, ProjectPurchaseRefund, ReversePurchased, RedeemPromotion, Replay, Publish, Tick
<1> QED
  BY <1>2, <1>3

------------------------------------------------------------------------------
(***************************************************************************)
(* The invariant is inductive                                              *)
(***************************************************************************)

\* Every step keeps the types.
LEMMA NextTypeOK ==
    ASSUME TypeOK, Ordering, Holdings, Journal, [Next]_vars
    PROVE  TypeOK'
<1>1. /\ grant \in [Grants -> Grant] /\ reservation \in [Requests -> Reservation] /\ \A e \in entry : Typed(e)
  BY DEF TypeOK, Typed
<1>2. ASSUME NEW q \in Requests, NEW take, Takes(q, take)
      PROVE  grant' \in [Grants -> Grant] /\ reservation' \in [Requests -> Reservation] /\ \A e \in entry' : Typed(e)
  <2>1. PICK n \in Nat : n = Sum(take, Grants)
    BY <1>2, FinitelyMany, SumType DEF Takes
  <2>2. PICK row \in Reservation : row = [state |-> "active", maximum |-> n, settled |-> 0, allocation |-> take]
    BY <1>2 DEF Takes, Reservation
  <2>3. reservation' = [reservation EXCEPT ![q] = row]
    BY <1>2, <2>1, <2>2 DEF Takes
  <2>4. reservation' \in [Requests -> Reservation]
    BY <1>1, <2>3
  <2> QED
    BY <1>1, <1>2, <2>4 DEF Takes, Quiet
<1>3. ASSUME NEW q \in Requests, NEW n, NEW debit, NEW back, Closes(q, n, debit, back)
      PROVE  grant' \in [Grants -> Grant] /\ reservation' \in [Requests -> Reservation] /\ \A e \in entry' : Typed(e)
  BY <1>1, <1>3 DEF Closes
<1>4. ASSUME NEW new \in Grants, Reshapes(new)
      PROVE  grant' \in [Grants -> Grant] /\ reservation' \in [Requests -> Reservation] /\ \A e \in entry' : Typed(e)
  BY <1>1, <1>4 DEF Reshapes, Quiet
<1>5. grant' \in [Grants -> Grant] /\ reservation' \in [Requests -> Reservation] /\ \A e \in entry' : Typed(e)
  BY <1>1, <1>2, <1>3, <1>4, Steps DEF ledger
<1> QED
  BY <1>5, NextFrame DEF TypeOK, Typed

\* A step issues one cohort or none, after those that are there, and revives none.
LEMMA NextExists ==
    ASSUME TypeOK, Ordering, Holdings, Journal, [Next]_vars
    PROVE  /\ \A g \in Exists : /\ grant'[g].createdAt = grant[g].createdAt
                                /\ grant'[g].campaign = grant[g].campaign
                                /\ grant'[g].publication = grant[g].publication
                                /\ grant'[g].state = "active" => grant[g].state = "active"
           /\ \/ Exists' = Exists
              \/ \E new \in Grants \ Exists :
                    Issued(new) /\ Renews(new) /\ Capped(new) /\ Exists' = Exists \cup {new}
<1> DEFINE Kept == \A g \in Exists : /\ grant'[g].createdAt = grant[g].createdAt
                                     /\ grant'[g].campaign = grant[g].campaign
                                     /\ grant'[g].publication = grant[g].publication
                                     /\ grant'[g].state = "active" => grant[g].state = "active"
<1>1. Exists \in SUBSET Grants
  BY DEF Exists
<1>2. ASSUME \A g \in Grants : SameCohort(g)
      PROVE  Kept /\ Exists' = Exists
  BY <1>1, <1>2 DEF SameCohort, Exists
<1>3. ASSUME NEW new \in Grants, Reshapes(new), Renews(new), Capped(new)
      PROVE  Kept /\ \/ Exists' = Exists
                     \/ \E x \in Grants \ Exists : Issued(x) /\ Renews(x) /\ Capped(x) /\ Exists' = Exists \cup {x}
  <2>1. \A g \in Grants : grant'[g] = grant[g] \/ Shut(g) => /\ grant'[g].createdAt = grant[g].createdAt
                                                             /\ grant'[g].campaign = grant[g].campaign
                                                             /\ grant'[g].publication = grant[g].publication
                                                             /\ grant'[g].state = "active" => grant[g].state = "active"
                                                             /\ grant'[g].state = "absent" <=> grant[g].state = "absent"
    BY DEF Shut
  <2>2. CASE grant'[new] = grant[new] \/ Shut(new)
    <3>1. \A g \in Grants : grant'[g] = grant[g] \/ Shut(g)
      BY <1>3, <2>2 DEF Reshapes
    <3> QED
      BY <1>1, <2>1, <3>1 DEF Exists
  <2>3. CASE Issued(new)
    <3>1. \A g \in Grants \ {new} : grant'[g] = grant[g] \/ Shut(g)
      BY <1>3 DEF Reshapes
    <3>2. new \notin Exists /\ grant'[new].state # "absent"
      BY <2>3 DEF Exists, Issued
    <3>3. Exists' = Exists \cup {new}
      BY <2>1, <3>1, <3>2 DEF Exists
    <3> QED
      BY <1>1, <1>3, <2>1, <2>3, <3>1, <3>2, <3>3
  <2> QED
    BY <1>3, <2>2, <2>3 DEF Reshapes
<1>4. ASSUME UNCHANGED ledger
      PROVE  Kept /\ Exists' = Exists
  BY <1>1, <1>4 DEF ledger, Exists
<1>5. ASSUME NEW q \in Requests, NEW take, Takes(q, take)
      PROVE  \A g \in Grants : SameCohort(g)
  BY <1>5 DEF Takes
<1>6. ASSUME NEW q \in Requests, NEW n, NEW debit, NEW back, Closes(q, n, debit, back)
      PROVE  \A g \in Grants : SameCohort(g)
  BY <1>6 DEF Closes
<1> HIDE DEF Kept
<1>7. Kept /\ \/ Exists' = Exists
              \/ \E new \in Grants \ Exists : Issued(new) /\ Renews(new) /\ Capped(new) /\ Exists' = Exists \cup {new}
  BY <1>2, <1>3, <1>4, <1>5, <1>6, Steps
<1> QED
  BY <1>7 DEF Kept

\* Every step keeps the amounts of a cohort within its quantity.
LEMMA NextCohorts ==
    ASSUME TypeOK, Cohorts, Ordering, Holdings, Journal, [Next]_vars
    PROVE  Cohorts'
<1> DEFINE Fits(row) ==
        /\ row.available + row.reserved + row.consumed <= row.quantity
        /\ row.state # "active" => row.available = 0
        /\ row.state = "active" /\ row.expiresAt = Never => row.available + row.reserved + row.consumed = row.quantity
        /\ row.state = "absent" => row.quantity = 0
        /\ row.state = "reversed" => row.reserved = 0
<1>1. ASSUME NEW g \in Grants
      PROVE  Fits(grant[g])
  BY DEF Cohorts, GrantsRestorable, NothingLost
<1>2. ASSUME NEW q \in Requests, NEW take, Takes(q, take), NEW g \in Grants
      PROVE  Fits(grant'[g])
  <2>1. /\ take[g] \in Nat /\ take[g] <= grant[g].available /\ (take[g] > 0 => grant[g].state = "active")
        /\ SameCohort(g) /\ grant'[g].consumed = grant[g].consumed
        /\ grant'[g].available = grant[g].available - take[g]
        /\ grant'[g].reserved = grant[g].reserved + take[g]
    BY <1>2 DEF Takes
  <2> QED
    BY <1>1, <2>1, Fields DEF SameCohort
<1>3. ASSUME NEW q \in Requests, NEW n, NEW debit, NEW back, Closes(q, n, debit, back), NEW g \in Grants
      PROVE  Fits(grant'[g])
  <2>1. PICK held \in Nat : held = reservation[q].allocation[g]
    BY Fields
  <2>2. /\ debit[g] \in Nat /\ back[g] \in Nat
        /\ held <= grant[g].reserved /\ debit[g] + back[g] <= held
        /\ back[g] > 0 => grant[g].state = "active"
        /\ grant[g].state = "active" /\ grant[g].expiresAt = Never => debit[g] + back[g] = held
        /\ SameCohort(g) /\ grant'[g].consumed = grant[g].consumed + debit[g]
        /\ grant'[g].available = grant[g].available + back[g]
        /\ grant'[g].reserved = grant[g].reserved - held
    BY <1>3, <2>1 DEF Closes
  <2>3. /\ grant'[g].state = grant[g].state /\ grant'[g].quantity = grant[g].quantity
        /\ grant'[g].expiresAt = grant[g].expiresAt
    BY <2>2 DEF SameCohort
  <2> QED
    BY <1>1, <2>2, <2>3, Fields
<1>4. ASSUME NEW new \in Grants, Reshapes(new), NEW g \in Grants
      PROVE  Fits(grant'[g])
  <2>1. grant'[g] = grant[g] \/ Shut(g) \/ Issued(g)
    BY <1>4 DEF Reshapes
  <2>2. grant'[g].quantity \in Nat
    BY NextTypeOK, Fields DEF TypeOK, Grant
  <2>3. CASE Shut(g)
    BY <1>1, <2>3, Fields DEF Shut
  <2>4. CASE Issued(g)
    BY <2>2, <2>4 DEF Issued
  <2> QED
    BY <1>1, <2>1, <2>3, <2>4
<1>5. ASSUME NEW g \in Grants
      PROVE  Fits(grant'[g])
  BY <1>1, <1>2, <1>3, <1>4, <1>5, Steps DEF ledger
<1> QED
  BY <1>5 DEF Cohorts, GrantsRestorable, NothingLost

\* Every step keeps the cohorts in the order of their creation.
LEMMA NextOrdering ==
    ASSUME TypeOK, Ordering, Holdings, Journal, [Next]_vars
    PROVE  Ordering'
<1>1. \A g \in Exists : grant'[g].createdAt = grant[g].createdAt /\ g \in Grants
  BY NextExists DEF Exists
<1>2. \A g \in Exists : grant[g].createdAt \in Nat
  BY <1>1, Fields
<1>3. CASE Exists' = Exists
  BY <1>1, <1>3 DEF Ordering
<1>4. ASSUME NEW new \in Grants \ Exists, Issued(new), Exists' = Exists \cup {new}
      PROVE  Ordering'
  <2>1. PICK n \in Nat : n = Cardinality(Exists)
    BY NextNumber
  <2>2. Cardinality(Exists') = n + 1
    BY <1>4, <2>1, NextNumber, FS_AddElement
  <2>3. grant'[new].createdAt = n + 1
    BY <1>4, <2>1, NextNumber DEF Issued
  <2>4. \A g \in Exists : grant'[g].createdAt \in Nat /\ grant'[g].createdAt <= n
    BY <1>1, <1>2, <2>1 DEF Ordering
  <2>5. \A g, h \in Exists : grant'[g].createdAt = grant'[h].createdAt => g = h
    BY <1>1 DEF Ordering
  <2> QED
    BY <1>4, <2>2, <2>3, <2>4, <2>5 DEF Ordering
<1> QED
  BY <1>3, <1>4, NextExists

\* Every step keeps at most one included cohort of an Account active.
LEMMA NextOneIncludedCohort ==
    ASSUME TypeOK, Ordering, Holdings, Journal, OneIncludedCohort, [Next]_vars
    PROVE  OneIncludedCohort'
<1> DEFINE Included(g) == g[1] \in Invoices /\ grant'[g].state = "active"
<1>1. \A g, h \in Exists : Included(g) /\ Included(h) /\ Owner[g[1]] = Owner[h[1]] => g = h
  BY NextExists DEF OneIncludedCohort
<1>2. CASE Exists' = Exists
  BY <1>1, <1>2 DEF OneIncludedCohort
<1>3. ASSUME NEW new \in Grants \ Exists, Issued(new), Renews(new), Exists' = Exists \cup {new}
      PROVE  OneIncludedCohort'
  <2>1. \A g \in Exists : Included(g) /\ new[1] \in Invoices => Owner[g[1]] # Owner[new[1]]
    BY <1>3 DEF Renews
  <2> QED
    BY <1>1, <1>3, <2>1 DEF OneIncludedCohort
<1> QED
  BY <1>2, <1>3, NextExists

\* Every step keeps what the reservations hold.
LEMMA NextHoldings ==
    ASSUME TypeOK, Ordering, Holdings, Journal, [Next]_vars
    PROVE  Holdings'
<1> DEFINE Holds(row) ==
        /\ row.state \in {"absent", "active"} => row.settled = 0
        /\ row.state = "active" =>
              /\ Sum(row.allocation, Grants) = row.maximum
              /\ \A g \in Grants : row.allocation[g] > 0 => g \in Exists'
<1>1. Exists \subseteq Exists'
  BY NextExists
<1>2. ASSUME NEW q \in Requests
      PROVE  Holds(reservation[q])
  BY <1>1 DEF Holdings
<1>3. ASSUME NEW q \in Requests, NEW take, Takes(q, take), NEW r \in Requests
      PROVE  Holds(reservation'[r])
  <2>1. \A g \in Grants : take[g] > 0 => g \in Exists'
    BY <1>1, <1>3 DEF Takes, Exists
  <2>2. PICK row : row = [state |-> "active", maximum |-> Sum(take, Grants), settled |-> 0, allocation |-> take]
    OBVIOUS
  <2>3. row.state = "active" /\ row.settled = 0 /\ row.maximum = Sum(take, Grants) /\ row.allocation = take
    BY <2>2
  <2>4. reservation' = [reservation EXCEPT ![q] = row]
    BY <1>3, <2>2 DEF Takes
  <2>5. reservation'[r] = IF r = q THEN row ELSE reservation[r]
    BY <2>4 DEF TypeOK
  <2>6. Holds(row)
    BY <2>1, <2>3
  <2> HIDE DEF Holds
  <2> QED
    BY <1>2, <2>5, <2>6
<1>4. ASSUME NEW q \in Requests, NEW n, NEW debit, NEW back, Closes(q, n, debit, back), NEW r \in Requests
      PROVE  Holds(reservation'[r])
  <2>1. r = q \/ reservation'[r] = reservation[r]
    BY <1>4 DEF Closes
  <2>2. r = q => reservation'[r].state \notin {"absent", "active"}
    BY <1>4 DEF Closes
  <2> QED
    BY <1>2, <2>1, <2>2
<1>5. ASSUME NEW r \in Requests, UNCHANGED reservation
      PROVE  Holds(reservation'[r])
  BY <1>2, <1>5
<1> HIDE DEF Holds
<1>6. ASSUME NEW r \in Requests
      PROVE  Holds(reservation'[r])
  BY <1>3, <1>4, <1>5, Steps DEF Reshapes, ledger
<1> QED
  BY <1>6 DEF Holdings, Holds

\* Every step keeps the journal finite and without settlements to come.
LEMMA NextJournal ==
    ASSUME TypeOK, Ordering, Holdings, Journal, [Next]_vars
    PROVE  Journal'
<1> DEFINE Open(r) == reservation[r].state \in {"absent", "active"}
           Silent(r) == \A e \in entry' : e.key # <<"settle", r>>
<1>1. ASSUME NEW r \in Requests, Open(r)
      PROVE  \A e \in entry : e.key # <<"settle", r>>
  BY <1>1 DEF Journal
<1>2. ASSUME NEW q \in Requests, NEW take, Takes(q, take)
      PROVE  IsFiniteSet(entry') /\ \A r \in Requests : Open(r)' => Silent(r)
  <2>1. IsFiniteSet(entry') /\ \A e \in entry' \ entry : \A r \in Requests : e.key # <<"settle", r>>
    BY <1>2 DEF Takes, Quiet
  <2>2. \A r \in Requests : Open(r)' => Open(r)
    BY <1>2 DEF Takes, TypeOK
  <2> QED
    BY <1>1, <2>1, <2>2
<1>3. ASSUME NEW q \in Requests, NEW n, NEW debit, NEW back, Closes(q, n, debit, back)
      PROVE  IsFiniteSet(entry') /\ \A r \in Requests : Open(r)' => Silent(r)
  <2>1. IsFiniteSet(entry') /\ \A e \in entry' \ entry : \A r \in Requests \ {q} : e.key # <<"settle", r>>
    BY <1>3 DEF Closes
  <2>2. \A r \in Requests : Open(r)' => r # q /\ Open(r)
    BY <1>3 DEF Closes
  <2> QED
    BY <1>1, <2>1, <2>2
<1>4. ASSUME UNCHANGED reservation, Quiet
      PROVE  IsFiniteSet(entry') /\ \A r \in Requests : Open(r)' => Silent(r)
  <2>1. IsFiniteSet(entry') /\ \A e \in entry' \ entry : \A r \in Requests : e.key # <<"settle", r>>
    BY <1>4 DEF Quiet
  <2> QED
    BY <1>1, <1>4, <2>1
<1>5. UNCHANGED ledger => UNCHANGED reservation /\ Quiet
  BY DEF ledger, Quiet, Journal
<1>6. IsFiniteSet(entry') /\ \A r \in Requests : Open(r)' => Silent(r)
  <2> HIDE DEF Open, Silent
  <2> QED
    BY <1>2, <1>3, <1>4, <1>5, Steps DEF Reshapes
<1> QED
  BY <1>6 DEF Journal

Active == {q \in Requests : reservation[q].state = "active"}
HeldOf(g) == [q \in Requests |-> reservation[q].allocation[g]]

\* A cohort that is not issued has nothing reserved and nothing consumed.
LEMMA NothingIssued ==
    ASSUME TypeOK, Cohorts, NEW g \in Grants, grant[g].state = "absent"
    PROVE  grant[g].reserved = 0 /\ grant[g].consumed = 0
<1>1. grant[g].available + grant[g].reserved + grant[g].consumed <= 0
  BY DEF Cohorts, GrantsRestorable
<1> QED
  BY <1>1, Fields

\* Every step keeps what a cohort has reserved backed by active reservations.
LEMMA NextReservedBacked ==
    ASSUME TypeOK, Cohorts, Ordering, Holdings, Journal, ReservedBacked, [Next]_vars, NEW g \in Grants
    PROVE  grant'[g].reserved = Sum(HeldOf(g)', Active')
<1>1. Active \in SUBSET Requests /\ IsFiniteSet(Active) /\ Active' \in SUBSET Requests /\ IsFiniteSet(Active')
  BY FinitelyMany, FS_Subset DEF Active
<1>2. /\ \A q \in Requests : HeldOf(g)[q] = reservation[q].allocation[g] /\ HeldOf(g)[q] \in Nat
      /\ \A q \in Requests : HeldOf(g)'[q] = reservation'[q].allocation[g]
  BY Fields DEF HeldOf
<1>3. grant[g].reserved = Sum(HeldOf(g), Active)
  BY DEF ReservedBacked, Allocated, HeldOf, Active
<1>4. \A q \in Requests : HeldOf(g)'[q] \in Nat
  <2>1. \A row \in Reservation : row.allocation[g] \in Nat
    BY DEF Reservation
  <2>2. \A q \in Requests : reservation'[q] \in Reservation
    BY NextTypeOK DEF TypeOK
  <2> QED
    BY <1>2, <2>1, <2>2
<1>5. PICK f, h : f = HeldOf(g) /\ h = HeldOf(g)'
  OBVIOUS
<1>6. ASSUME NEW q \in Requests, NEW take, Takes(q, take)
      PROVE  grant'[g].reserved = Sum(h, Active')
  <2>1. PICK row : row = [state |-> "active", maximum |-> Sum(take, Grants), settled |-> 0, allocation |-> take]
    OBVIOUS
  <2>2. row.state = "active" /\ row.allocation = take /\ reservation[q].state = "absent"
    BY <1>6, <2>1 DEF Takes
  <2>3. reservation' = [reservation EXCEPT ![q] = row]
    BY <1>6, <2>1 DEF Takes
  <2>4. \A r \in Requests : reservation'[r] = IF r = q THEN row ELSE reservation[r]
    BY <2>3 DEF TypeOK
  <2>5. q \notin Active /\ Active' = Active \cup {q}
    BY <2>2, <2>4 DEF Active
  <2>6. h[q] = take[g] /\ h[q] \in Nat /\ \A r \in Active : f[r] \in Nat /\ h[r] = f[r]
    BY <1>1, <1>2, <1>4, <1>5, <2>2, <2>4, <2>5
  <2>7. Sum(h, Active \cup {q}) = Sum(f, Active) + h[q]
    BY <1>1, <2>5, <2>6, SumInsert
  <2>8. grant'[g].reserved = grant[g].reserved + take[g]
    BY <1>6 DEF Takes
  <2> QED
    BY <1>3, <1>5, <2>5, <2>6, <2>7, <2>8
<1>7. ASSUME NEW q \in Requests, NEW n, NEW debit, NEW back, Closes(q, n, debit, back)
      PROVE  grant'[g].reserved = Sum(h, Active')
  <2>1. /\ reservation[q].state = "active" /\ reservation'[q].state # "active"
        /\ \A r \in Requests \ {q} : reservation'[r] = reservation[r]
    BY <1>7 DEF Closes
  <2>2. q \notin Active' /\ Active = Active' \cup {q}
    BY <2>1 DEF Active
  <2>3. f[q] \in Nat /\ \A r \in Active' : h[r] \in Nat /\ f[r] = h[r]
    BY <1>1, <1>2, <1>4, <1>5, <2>1, <2>2
  <2>4. Sum(h, Active') \in Nat /\ Sum(f, Active' \cup {q}) = Sum(h, Active') + f[q]
    BY <1>1, <2>2, <2>3, SumInsert
  <2>5. grant'[g].reserved = grant[g].reserved - f[q]
    BY <1>2, <1>5, <1>7 DEF Closes
  <2>6. grant[g].reserved = Sum(h, Active') + f[q]
    BY <1>3, <1>5, <2>2, <2>4
  <2> QED
    BY <2>3, <2>4, <2>5, <2>6
<1>8. ASSUME UNCHANGED reservation, grant'[g].reserved = grant[g].reserved
      PROVE  grant'[g].reserved = Sum(h, Active')
  <2>1. Active' = Active /\ h = f
    BY <1>5, <1>8 DEF Active, HeldOf
  <2> QED
    BY <1>3, <1>5, <1>8, <2>1
<1>9. ASSUME NEW new \in Grants, Reshapes(new)
      PROVE  grant'[g].reserved = Sum(h, Active')
  <2>1. grant'[g] = grant[g] \/ Shut(g) \/ Issued(g)
    BY <1>9 DEF Reshapes
  <2>2. grant'[g].reserved = grant[g].reserved
    BY <2>1, NothingIssued DEF Shut, Issued
  <2> QED
    BY <1>8, <1>9, <2>2 DEF Reshapes
<1>10. UNCHANGED ledger => UNCHANGED reservation /\ grant'[g].reserved = grant[g].reserved
  BY DEF ledger
<1> QED
  BY <1>5, <1>6, <1>7, <1>8, <1>9, <1>10, Steps

Consumed == [g \in Grants |-> grant[g].consumed]
Charged == [q \in Requests |-> reservation[q].settled]
Amount == [e \in entry |-> e.amount]

\* Every step keeps debits, settlements and their entries equal.
LEMMA NextDebitedOnce ==
    ASSUME TypeOK, Cohorts, Ordering, Holdings, Journal, DebitedOnce, [Next]_vars
    PROVE  /\ Sum(Consumed', Grants) = Sum(Charged', Requests)
           /\ Sum(Consumed', Grants) = Sum(Amount', Settled(entry'))
<1>1. PICK C, D, E : C = Consumed /\ D = Charged /\ E = Amount
  OBVIOUS
<1>2. PICK C1, D1, E1 : C1 = Consumed' /\ D1 = Charged' /\ E1 = Amount'
  OBVIOUS
<1>3. /\ \A g \in Grants : C[g] = grant[g].consumed /\ C[g] \in Nat /\ C1[g] = grant'[g].consumed
      /\ \A q \in Requests : D[q] = reservation[q].settled /\ D[q] \in Nat /\ D1[q] = reservation'[q].settled
  BY <1>1, <1>2, Fields DEF Consumed, Charged
<1>4. /\ \A e \in entry : E[e] = e.amount /\ E[e] \in Nat
      /\ \A e \in entry' : E1[e] = e.amount /\ e.amount \in Nat
  <2>1. (\A e \in entry : e.amount \in Nat) /\ \A e \in entry' : e.amount \in Nat
    BY NextTypeOK DEF TypeOK
  <2> QED
    BY <1>1, <1>2, <2>1 DEF Amount
<1>5. Sum(C, Grants) = Sum(D, Requests) /\ Sum(C, Grants) = Sum(E, Settled(entry))
  BY <1>1 DEF DebitedOnce, AmountOf, Consumed, Charged, Amount, Settled
<1>6. IsFiniteSet(Settled(entry)) /\ Settled(entry) \subseteq entry /\ Settled(entry') \subseteq entry'
  BY FS_Subset DEF Journal, Settled
<1>7. ASSUME \A g \in Grants : grant'[g].consumed = grant[g].consumed,
             \A q \in Requests : reservation'[q].settled = reservation[q].settled,
             entry \subseteq entry', Settled(entry') = Settled(entry)
      PROVE  Sum(C1, Grants) = Sum(D1, Requests) /\ Sum(C1, Grants) = Sum(E1, Settled(entry'))
  <2>1. Sum(C1, Grants) = Sum(C, Grants)
    BY <1>3, <1>7, SumSame
  <2>2. Sum(D1, Requests) = Sum(D, Requests)
    BY <1>3, <1>7, SumSame
  <2>3. \A e \in Settled(entry) : E1[e] = E[e]
    BY <1>4, <1>6, <1>7
  <2>4. Sum(E1, Settled(entry)) = Sum(E, Settled(entry))
    BY <2>3, SumSame
  <2> QED
    BY <1>5, <1>7, <2>1, <2>2, <2>4
<1>8. Quiet => entry \subseteq entry' /\ Settled(entry') = Settled(entry)
  BY DEF Quiet, Settled
<1>9. ASSUME NEW q \in Requests, NEW take, Takes(q, take)
      PROVE  Sum(C1, Grants) = Sum(D1, Requests) /\ Sum(C1, Grants) = Sum(E1, Settled(entry'))
  <2>1. PICK row : row = [state |-> "active", maximum |-> Sum(take, Grants), settled |-> 0, allocation |-> take]
    OBVIOUS
  <2>2. row.settled = 0 /\ reservation[q].settled = 0
    BY <1>9, <2>1 DEF Takes, Holdings
  <2>3. reservation' = [reservation EXCEPT ![q] = row]
    BY <1>9, <2>1 DEF Takes
  <2>4. \A r \in Requests : reservation'[r].settled = reservation[r].settled
    BY <2>2, <2>3 DEF TypeOK
  <2> QED
    BY <1>7, <1>8, <1>9, <2>4 DEF Takes
<1>10. ASSUME NEW q \in Requests, NEW n \in Nat, NEW debit \in [Grants -> Nat], NEW back, Closes(q, n, debit, back)
       PROVE  Sum(C1, Grants) = Sum(D1, Requests) /\ Sum(C1, Grants) = Sum(E1, Settled(entry'))
  <2>1. Sum(C, Grants) \in Nat /\ Sum(C1, Grants) = Sum(C, Grants) + n
    <3>1. \A g \in Grants : C[g] \in Nat /\ debit[g] \in Nat /\ C1[g] = C[g] + debit[g]
      BY <1>3, <1>10 DEF Closes
    <3>2. IsFiniteSet(Grants)
      BY FinitelyMany
    <3>3. Sum(C, Grants) \in Nat /\ Sum(C1, Grants) = Sum(C, Grants) + Sum(debit, Grants)
      BY ONLY <3>1, <3>2, SumAdd
    <3> QED
      BY <1>10, <3>3 DEF Closes
  <2>2. Sum(D1, Requests) = Sum(D, Requests) + n
    <3>1. \A r \in Requests : D[r] \in Nat /\ D1[r] \in Nat
      BY <1>3, <1>10 DEF Closes
    <3>2. D[q] = 0 /\ D1[q] = n /\ \A r \in Requests \ {q} : D1[r] = D[r]
      BY <1>3, <1>10 DEF Closes, Holdings
    <3>3. Sum(D, Requests \ {q}) \in Nat /\ Sum(D, Requests) = Sum(D, Requests \ {q}) + D[q]
      BY <3>1, FinitelyMany, SumWithout
    <3>4. Sum(D1, Requests) = Sum(D1, Requests \ {q}) + D1[q]
      BY <3>1, FinitelyMany, SumWithout
    <3>5. Sum(D1, Requests \ {q}) = Sum(D, Requests \ {q})
      BY <3>2, SumSame
    <3> QED
      BY <3>2, <3>3, <3>4, <3>5
  <2>3. Sum(E1, Settled(entry')) = Sum(E, Settled(entry)) + n
    <3>1. entry \subseteq entry' /\ \/ n = 0 /\ Settled(entry') = Settled(entry)
                                    \/ \E s \in entry' \ entry : s.amount = n /\ Settled(entry') = Settled(entry) \cup {s}
      BY <1>10 DEF Closes
    <3>2. \A e \in Settled(entry) : E[e] \in Nat /\ E1[e] = E[e]
      BY <1>4, <1>6, <3>1
    <3>3. CASE n = 0 /\ Settled(entry') = Settled(entry)
      <4>1. Sum(E1, Settled(entry)) = Sum(E, Settled(entry))
        BY <3>2, SumSame
      <4> QED
        BY <1>5, <2>1, <3>3, <4>1
    <3>4. ASSUME NEW s \in entry' \ entry, s.amount = n, Settled(entry') = Settled(entry) \cup {s}
          PROVE  Sum(E1, Settled(entry')) = Sum(E, Settled(entry)) + n
      <4>1. s \notin Settled(entry) /\ E1[s] = n
        BY <1>4, <1>6, <3>4
      <4>2. Sum(E1, Settled(entry) \cup {s}) = Sum(E, Settled(entry)) + E1[s]
        BY <1>6, <3>2, <4>1, SumInsert
      <4> QED
        BY <3>4, <4>1, <4>2
    <3> QED
      BY <3>1, <3>3, <3>4
  <2> QED
    BY <1>5, <2>1, <2>2, <2>3
<1>11. ASSUME NEW new \in Grants, Reshapes(new)
       PROVE  Sum(C1, Grants) = Sum(D1, Requests) /\ Sum(C1, Grants) = Sum(E1, Settled(entry'))
  <2>1. ASSUME NEW g \in Grants
        PROVE  grant'[g].consumed = grant[g].consumed
    <3>1. grant'[g] = grant[g] \/ Shut(g) \/ Issued(g)
      BY <1>11 DEF Reshapes
    <3> QED
      BY <3>1, NothingIssued DEF Shut, Issued
  <2> QED
    BY <1>7, <1>8, <1>11, <2>1 DEF Reshapes
<1>12. ASSUME UNCHANGED ledger
       PROVE  Sum(C1, Grants) = Sum(D1, Requests) /\ Sum(C1, Grants) = Sum(E1, Settled(entry'))
  BY <1>7, <1>12 DEF ledger
<1> QED
  BY <1>2, <1>9, <1>10, <1>11, <1>12, Steps

\* The empty ledger satisfies the invariant.
LEMMA InitIInv == Init => IInv
<1> SUFFICES ASSUME Init PROVE IInv
  OBVIOUS
<1>1. NoGrant \in Grant /\ Nothing \in [Grants -> Nat]
  BY DEF NoGrant, Grant, Never, Nothing
<1>2. NoReservation \in Reservation /\ NoReservation.state = "absent" /\ NoReservation.settled = 0
  BY <1>1 DEF NoReservation, Reservation
<1>3. /\ NoGrant.state = "absent" /\ NoGrant.quantity = 0 /\ NoGrant.available = 0
      /\ NoGrant.reserved = 0 /\ NoGrant.consumed = 0
  BY DEF NoGrant
<1>4. /\ \A g \in Grants : grant[g] = NoGrant
      /\ \A q \in Requests : reservation[q] = NoReservation
      /\ entry = {}
  BY DEF Init
<1>5. TypeOK
  <2>1. 1 \in 1..MaxTime /\ 1 \in Publications
    BY ConstantsAssumption DEF Publications
  <2>2. grant \in [Grants -> Grant] /\ reservation \in [Requests -> Reservation]
    BY <1>1, <1>2 DEF Init
  <2> QED
    BY <1>4, <2>1, <2>2 DEF Init, TypeOK
<1>6. Cohorts
  BY <1>3, <1>4 DEF Cohorts, GrantsRestorable, NothingLost
<1>7. Exists = {}
  BY <1>3, <1>4 DEF Exists
<1>8. Holdings /\ Journal
  BY <1>2, <1>4, FS_EmptySet DEF Holdings, Journal
<1>9. ReservedBacked
  <2>1. Active = {}
    BY <1>2, <1>4 DEF Active
  <2>2. \A f : Sum(f, {}) = 0
    BY SumZero
  <2>3. \A g \in Grants : Allocated(g) = Sum(HeldOf(g), Active)
    BY DEF Allocated, HeldOf, Active
  <2> QED
    BY <1>3, <1>4, <2>1, <2>2, <2>3 DEF ReservedBacked
<1>10. DebitedOnce
  <2>1. (\A g \in Grants : Consumed[g] = 0) /\ \A q \in Requests : Charged[q] = 0
    BY <1>2, <1>3, <1>4 DEF Consumed, Charged
  <2>2. Sum(Consumed, Grants) = 0 /\ Sum(Charged, Requests) = 0
    BY <2>1, SumZero
  <2>3. Settled(entry) = {}
    BY <1>4 DEF Settled
  <2>4. Sum(Amount, Settled(entry)) = 0
    BY <2>3, SumZero
  <2> QED
    BY <2>2, <2>4 DEF DebitedOnce, AmountOf, Consumed, Charged, Amount, Settled
<1> QED
  BY <1>5, <1>6, <1>7, <1>8, <1>9, <1>10 DEF IInv, Ordering, OneIncludedCohort

\* Every step keeps the invariant.
LEMMA NextIInv == IInv /\ [Next]_vars => IInv'
<1> SUFFICES ASSUME IInv, [Next]_vars PROVE IInv'
  OBVIOUS
<1>1. /\ TypeOK /\ Cohorts /\ Ordering /\ Holdings /\ Journal
      /\ ReservedBacked /\ DebitedOnce /\ OneIncludedCohort
  BY DEF IInv
<1>2. TypeOK' /\ Cohorts' /\ Ordering' /\ Holdings' /\ Journal' /\ OneIncludedCohort'
  BY <1>1, NextTypeOK, NextCohorts, NextOrdering, NextHoldings, NextJournal, NextOneIncludedCohort
<1>3. ReservedBacked'
  <2>1. \A g \in Grants : grant'[g].reserved = Sum(HeldOf(g)', Active')
    BY <1>1, NextReservedBacked
  <2> QED
    BY <2>1 DEF ReservedBacked, Allocated, HeldOf, Active
<1>4. DebitedOnce'
  <2>1. /\ Sum(Consumed', Grants) = Sum(Charged', Requests)
        /\ Sum(Consumed', Grants) = Sum(Amount', Settled(entry'))
    BY <1>1, NextDebitedOnce
  <2> QED
    BY <2>1 DEF DebitedOnce, AmountOf, Consumed, Charged, Amount, Settled
<1> QED
  BY <1>2, <1>3, <1>4 DEF IInv

\* The inductive invariant of the ledger holds in every reachable state.
THEOREM Inductive == Spec => []IInv
  BY InitIInv, NextIInv, PTL DEF Spec

------------------------------------------------------------------------------
(***************************************************************************)
(* What follows from it                                                    *)
(***************************************************************************)

\* Rows, reservations and entries keep their types.
THEOREM TypeCorrect == Spec => []TypeOK
<1>1. IInv => TypeOK
  BY DEF IInv
<1> QED
  BY <1>1, Inductive, PTL

\* Reserve and Close keep what a cohort has reserved equal to what the active
\* reservations hold of it, so Close never meets missing Tokens.
THEOREM Backed == Spec => []ReservedBacked
<1>1. IInv => ReservedBacked
  BY DEF IInv
<1> QED
  BY <1>1, Inductive, PTL

\* No order of reservations, settlements, renewals and refunds creates or loses
\* Tokens or debits them twice; a refund leaves nothing to spend.
THEOREM Conserved == Spec => []TokensConserved
<1>1. ASSUME IInv
      PROVE  TokensConserved
  <2>1. Cohorts /\ ReservedBacked /\ DebitedOnce
    BY <1>1 DEF IInv
  <2>2. RefundWaits
    BY <2>1 DEF RefundWaits, Cohorts, GrantsRestorable, ReservedBacked
  <2> QED
    BY <2>1, <2>2 DEF TokensConserved, Cohorts
<1> QED
  BY <1>1, Inductive, PTL

\* IssueIncluded closes the cohort of the invoice before, in whatever order the
\* invoices arrive, so no two included cohorts of an Account are ever active.
THEOREM OneCohort == Spec => []OneIncludedCohort
<1>1. IInv => OneIncludedCohort
  BY DEF IInv
<1> QED
  BY <1>1, Inductive, PTL

\* No reservation, settlement or billing step makes a closed cohort available
\* again or takes back a debit.
THEOREM ClosedStayClosed == Spec => NoRevival
<1>1. ASSUME IInv, [Next]_vars
      PROVE  CohortsOnlyClose
  <2> DEFINE Lasting(g) ==
          /\ grant[g].state \in {"expired", "reversed"} =>
                grant'[g].state \in {"expired", "reversed"} /\ grant'[g].available = 0
          /\ grant'[g].consumed >= grant[g].consumed
  <2>1. TypeOK /\ Cohorts /\ Ordering /\ Holdings /\ Journal
    BY <1>1 DEF IInv
  <2>2. \A g \in Grants : /\ grant[g].state # "active" => grant[g].available = 0
                          /\ grant[g].available \in Nat /\ grant[g].consumed \in Nat
    BY <2>1, Fields DEF Cohorts, GrantsRestorable
  <2>3. ASSUME NEW q \in Requests, NEW take, Takes(q, take), NEW g \in Grants
        PROVE  Lasting(g)
    <3>1. /\ take[g] \in Nat /\ take[g] <= grant[g].available /\ SameCohort(g)
          /\ grant'[g].consumed = grant[g].consumed /\ grant'[g].available = grant[g].available - take[g]
      BY <2>3 DEF Takes
    <3> QED
      BY <2>2, <3>1 DEF SameCohort
  <2>4. ASSUME NEW q \in Requests, NEW n, NEW debit, NEW back, Closes(q, n, debit, back), NEW g \in Grants
        PROVE  Lasting(g)
    <3>1. /\ debit[g] \in Nat /\ back[g] \in Nat /\ (back[g] > 0 => grant[g].state = "active") /\ SameCohort(g)
          /\ grant'[g].consumed = grant[g].consumed + debit[g]
          /\ grant'[g].available = grant[g].available + back[g]
      BY <2>4 DEF Closes
    <3> QED
      BY <2>2, <3>1 DEF SameCohort
  <2>5. ASSUME NEW new \in Grants, Reshapes(new), NEW g \in Grants
        PROVE  Lasting(g)
    <3>1. grant'[g] = grant[g] \/ Shut(g) \/ Issued(g)
      BY <2>5 DEF Reshapes
    <3>2. CASE Issued(g)
      <4>1. grant[g].consumed = 0 /\ grant'[g].consumed = 0 /\ grant[g].state = "absent"
        BY <2>1, <3>2, NothingIssued DEF Issued
      <4> QED
        BY <4>1
    <3> QED
      BY <2>2, <3>1, <3>2 DEF Shut
  <2>6. ASSUME UNCHANGED ledger, NEW g \in Grants
        PROVE  Lasting(g)
    BY <2>2, <2>6 DEF ledger
  <2> HIDE DEF Lasting
  <2>7. \A g \in Grants : Lasting(g)
    BY <1>1, <2>1, <2>3, <2>4, <2>5, <2>6, Steps
  <2> QED
    BY <2>7 DEF CohortsOnlyClose, Lasting
<1>2. IInv /\ [Next]_vars => [CohortsOnlyClose]_vars
  BY <1>1
<1> QED
  BY <1>2, Inductive, PTL DEF Spec, NoRevival

\* Reserve empties a live cohort before it takes from one that expires later.
THEOREM SpentEarliest == Spec => EarliestFirst
<1>1. ASSUME IInv, [Next]_vars
      PROVE  SpentInOrder
  <2>1. TypeOK /\ Cohorts /\ Ordering /\ Holdings /\ Journal
    BY <1>1 DEF IInv
  <2>2. SUFFICES ASSUME NEW q \in Requests, reservation[q].state = "absent", reservation'[q].state = "active",
                        NEW g \in OfAccount(Owner[q]), NEW h \in OfAccount(Owner[q]),
                        reservation'[q].allocation[h] > 0, grant[g].state = "active", grant[g].expiresAt > now,
                        grant[h].expiresAt = Never \/ grant[h].expiresAt > grant[g].expiresAt
                 PROVE  grant'[g].available = 0
    BY DEF SpentInOrder
  <2>3. ASSUME NEW r \in Requests, NEW n, NEW debit, NEW back, Closes(r, n, debit, back)
        PROVE  FALSE
    BY <2>2, <2>3 DEF Closes
  <2>4. ~UNCHANGED reservation
    BY <2>2
  <2>5. PICK r \in Requests, v \in Publications, t \in 1..now :
            Reserve(r, v, t) /\ Takes(r, Spread(Spendable(Owner[r], t), Available, Rate[v]))
    BY <1>1, <2>1, <2>3, <2>4, Steps DEF Reshapes, ledger
  <2>6. PICK take : take = Spread(Spendable(Owner[r], t), Available, Rate[v])
    OBVIOUS
  <2>7. PICK row : row = [state |-> "active", maximum |-> Sum(take, Grants), settled |-> 0, allocation |-> take]
    OBVIOUS
  <2>8. reservation' = [reservation EXCEPT ![r] = row] /\ row.allocation = take
    BY <2>5, <2>6, <2>7 DEF Takes
  <2>9. r = q /\ take[h] > 0
    BY <2>1, <2>2, <2>8 DEF TypeOK
  <2>10. PICK S : S = Spendable(Owner[q], t)
    OBVIOUS
  <2>11. S \in SUBSET Exists /\ g \in Grants /\ h \in Grants
    BY <2>2, <2>10 DEF Spendable, OfAccount, Exists
  <2>12. Sorted(S)
    BY <2>1, <2>11, ExistSorted
  <2>13. \A k \in Grants : Available[k] = grant[k].available /\ Available[k] \in Nat
    BY <2>1, Fields DEF Available
  <2>14. PICK total \in Nat : total = Rate[v]
    BY ConstantsAssumption
  <2>15. take = Spread(S, Available, total)
    BY <2>6, <2>9, <2>10, <2>14
  <2>16. \A k \in S : Available[k] \in Nat
    BY <2>11, <2>13 DEF Exists
  <2>17. /\ take \in [Grants -> Nat] /\ \A k \in Grants \ S : take[k] = 0
         /\ \A k \in S : /\ take[k] <= Available[k]
                         /\ \A n \in 1..Available[k] : n <= take[k] <=> Sum(Available, Before(k, S)) + n <= total
    BY <2>12, <2>15, <2>16, SpreadLimit
  <2>18. grant'[g].available = grant[g].available - take[g] /\ take[g] <= grant[g].available
    BY <2>5, <2>6, <2>11 DEF Takes
  <2>19. CASE g \in S
    <3>1. h \in S
      BY <2>9, <2>11, <2>17
    <3>2. grant[g].expiresAt \in Nat /\ grant[h].expiresAt \in Nat /\ now \in Nat
      BY <2>1, <2>11, Fields DEF TypeOK
    <3>3. grantBefore(g, h)
      BY <2>2, <3>2 DEF grantBefore, Never
    <3>4. PICK a \in Nat, b \in Nat : /\ a = Sum(Available, Before(g, S)) /\ b = Sum(Available, Before(h, S))
                                      /\ a + Available[g] <= b
      BY <2>12, <2>16, <2>19, <3>1, <3>3, Cumulative
    <3>5. b + 1 <= total
      BY <2>9, <2>11, <2>13, <2>17, <3>1, <3>4
    <3>6. a + Available[g] <= total
      BY <2>11, <2>13, <2>14, <3>4, <3>5
    <3>7. Available[g] <= take[g]
      BY <2>11, <2>13, <2>17, <2>19, <3>4, <3>6
    <3> QED
      BY <2>11, <2>13, <2>17, <2>18, <3>7
  <2>20. CASE g \notin S
    <3>1. Live(g, t)
      BY <2>1, <2>2, <2>11, Fields DEF Live, TypeOK
    <3>2. ~(grant[g].available > 0)
      BY <2>2, <2>10, <2>20, <3>1 DEF Spendable
    <3>3. take[g] = 0
      BY <2>11, <2>17, <2>20
    <3> QED
      BY <2>11, <2>13, <2>18, <3>2, <3>3
  <2> QED
    BY <2>19, <2>20
<1>2. IInv /\ [Next]_vars => [SpentInOrder]_vars
  BY <1>1
<1> QED
  BY <1>2, Inductive, PTL DEF Spec, EarliestFirst

\* What the cap of a publication says of the issuances up to that of g.
Admitted(g) ==
    LET v == grant[g].publication IN
    /\ v \in Publications /\ grant[g].campaign = Campaign[v].version
    /\ Cardinality(IssuedUpTo(g)) <= Campaign[v].cap
    /\ Cardinality(IssuedUpTo(g) \cap OfAccount(Owner[g[1]])) <= Campaign[v].perAccount

\* Of the issuances of a campaign up to g there are finitely many.
LEMMA IssuedFinite ==
    ASSUME NEW g
    PROVE  /\ IsFiniteSet(IssuedUpTo(g)) /\ IssuedUpTo(g) \subseteq Exists
           /\ \A h : h \in IssuedUpTo(g) <=> /\ h \in Exists /\ h[1] \in Redemptions
                                       /\ grant[h].campaign = grant[g].campaign
                                       /\ grant[h].createdAt <= grant[g].createdAt
<1>1. \A h : h \in IssuedUpTo(g) <=> /\ h \in Exists /\ h[1] \in Redemptions
                               /\ grant[h].campaign = grant[g].campaign
                               /\ grant[h].createdAt <= grant[g].createdAt
  BY DEF IssuedUpTo, Issuances
<1>2. IssuedUpTo(g) \subseteq Exists
  BY <1>1
<1> QED
  BY <1>1, <1>2, NextNumber, FS_Subset

\* A cohort that is issued counts the issuances of its version before it, whichever
\* publication they were issued under; those that are there count none after them.
LEMMA NextCapped ==
    ASSUME IInv, CampaignCapped, [Next]_vars
    PROVE  CampaignCapped'
<1>1. TypeOK /\ Ordering /\ Holdings /\ Journal
  BY DEF IInv
<1>2. PICK E, E1 : E = Exists /\ E1 = Exists'
  OBVIOUS
<1>3. \A g \in E : /\ grant'[g].createdAt = grant[g].createdAt /\ grant'[g].campaign = grant[g].campaign
                   /\ grant'[g].publication = grant[g].publication
  BY <1>1, <1>2, NextExists
<1>4. \A g : g \in Exists <=> g \in E
  BY <1>2
<1>5. \A g \in E : grant[g].createdAt \in Nat /\ grant[g].createdAt < Created
  BY <1>1, <1>2, Fields, NextNumber DEF Ordering, Exists
<1>6. ASSUME NEW g
      PROVE  \A h : h \in IssuedUpTo(g)' <=> /\ h \in E1 /\ h[1] \in Redemptions
                                       /\ grant'[h].campaign = grant'[g].campaign
                                       /\ grant'[h].createdAt <= grant'[g].createdAt
  BY <1>2 DEF IssuedUpTo, Issuances
<1>7. ASSUME NEW a
      PROVE  /\ \A h : h \in OfAccount(a) <=> h \in E /\ Owner[h[1]] = a
             /\ \A h : h \in OfAccount(a)' <=> h \in E1 /\ Owner[h[1]] = a
  BY <1>2 DEF OfAccount
\* The cohorts that are there keep what is counted up to them.
<1>8. ASSUME NEW g \in E, E \subseteq E1,
             \A h \in E1 \ E : ~(grant'[h].createdAt <= grant'[g].createdAt)
      PROVE  IssuedUpTo(g)' = IssuedUpTo(g)
  <2>1. PICK U : U = IssuedUpTo(g)
    OBVIOUS
  <2>2. PICK U1 : U1 = IssuedUpTo(g)'
    OBVIOUS
  <2>3. \A h : h \in U <=> /\ h \in E /\ h[1] \in Redemptions
                           /\ grant[h].campaign = grant[g].campaign
                           /\ grant[h].createdAt <= grant[g].createdAt
    BY <1>2, <2>1, IssuedFinite
  <2>4. \A h : h \in U1 <=> /\ h \in E1 /\ h[1] \in Redemptions
                            /\ grant'[h].campaign = grant'[g].campaign
                            /\ grant'[h].createdAt <= grant'[g].createdAt
    BY <1>6, <2>2
  <2>5. \A h : h \in U1 <=> h \in U
    BY <1>3, <1>8, <2>3, <2>4
  <2> QED
    BY <2>1, <2>2, <2>5
<1>9. ASSUME NEW g \in E, g[1] \in Redemptions, IssuedUpTo(g)' = IssuedUpTo(g)
      PROVE  Admitted(g)'
  <2>1. PICK a : a = Owner[g[1]]
    OBVIOUS
  <2>2. IssuedUpTo(g) \subseteq E
    BY <1>2, IssuedFinite
  <2>3. IssuedUpTo(g)' \cap OfAccount(a)' = IssuedUpTo(g) \cap OfAccount(a)
    BY <1>6, <1>7, <1>9, <2>2
  <2>4. PICK v : v = grant[g].publication
    OBVIOUS
  <2>5. /\ v \in Publications /\ grant[g].campaign = Campaign[v].version
        /\ Cardinality(IssuedUpTo(g)) <= Campaign[v].cap
        /\ Cardinality(IssuedUpTo(g) \cap OfAccount(a)) <= Campaign[v].perAccount
    BY <1>2, <1>9, <2>1, <2>4 DEF CampaignCapped
  <2>6. grant'[g].publication = v /\ grant'[g].campaign = grant[g].campaign
    BY <1>3, <2>4
  <2> QED
    BY <1>9, <2>1, <2>3, <2>5, <2>6 DEF Admitted
<1>10. CASE E1 = E
  <2>1. \A g \in E : IssuedUpTo(g)' = IssuedUpTo(g)
    BY <1>10, <1>8
  <2> QED
    BY <1>2, <1>9, <1>10, <2>1 DEF CampaignCapped, Admitted
<1>11. ASSUME NEW new \in Grants \ Exists, Issued(new), Capped(new), Exists' = Exists \cup {new}
       PROVE  CampaignCapped'
  <2>1. E1 = E \cup {new} /\ new \notin E /\ grant'[new].createdAt = Created
    BY <1>2, <1>11 DEF Issued
  <2>2. ASSUME NEW g \in E
        PROVE  IssuedUpTo(g)' = IssuedUpTo(g)
    <3>1. ~(grant'[new].createdAt <= grant'[g].createdAt)
      BY <1>3, <1>5, <2>1, NextNumber
    <3> QED
      BY <1>8, <2>1, <3>1
  <2>3. ASSUME new[1] \in Redemptions
        PROVE  Admitted(new)'
    <3>1. PICK v \in Publications : /\ WithinCap(Owner[new[1]], v) /\ grant'[new].publication = v
                                    /\ grant'[new].campaign = Campaign[v].version
      BY <1>11, <2>3 DEF Capped
    <3>2. PICK a : a = Owner[new[1]]
      OBVIOUS
    <3>3. PICK I, J : I = Issuances(Campaign[v].version) /\ J = I \cap OfAccount(a)
      OBVIOUS
    <3>4. /\ \A h : h \in I <=> h \in E /\ h[1] \in Redemptions /\ grant[h].campaign = Campaign[v].version
          /\ \A h : h \in J <=> h \in I /\ Owner[h[1]] = a
      BY <1>2, <3>3 DEF Issuances, OfAccount
    <3>5. Cardinality(I) < Campaign[v].cap /\ Cardinality(J) < Campaign[v].perAccount
      BY <3>1, <3>2, <3>3 DEF WithinCap
    <3>6. IsFiniteSet(I) /\ IsFiniteSet(J) /\ Cardinality(I) \in Nat /\ Cardinality(J) \in Nat
      BY <1>2, <3>4, NextNumber, FS_Subset, FS_CardinalityType
    <3>7. Campaign[v].cap \in Nat /\ Campaign[v].perAccount \in Nat
      BY ConstantsAssumption
    <3>8. IssuedUpTo(new)' = I \cup {new}
      <4>1. \A h \in E : grant'[h].createdAt <= grant'[new].createdAt
        BY <1>3, <1>5, <2>1, NextNumber
      <4>2. grant'[new].createdAt <= grant'[new].createdAt
        BY <2>1, NextNumber
      <4> QED
        BY <1>3, <1>6, <2>1, <2>3, <3>1, <3>4, <4>1, <4>2
    <3>9. IssuedUpTo(new)' \cap OfAccount(a)' = J \cup {new}
      BY <1>7, <2>1, <3>2, <3>4, <3>8
    <3>10. Cardinality(I \cup {new}) = Cardinality(I) + 1 /\ Cardinality(J \cup {new}) = Cardinality(J) + 1
      BY <2>1, <3>4, <3>6, FS_AddElement
    <3>11. Cardinality(I) + 1 <= Campaign[v].cap /\ Cardinality(J) + 1 <= Campaign[v].perAccount
      BY <3>5, <3>6, <3>7
    <3> QED
      BY <3>1, <3>2, <3>8, <3>9, <3>10, <3>11 DEF Admitted
  <2> QED
    BY <1>2, <1>9, <2>1, <2>2, <2>3 DEF CampaignCapped, Admitted
<1> QED
  BY <1>1, <1>2, <1>10, <1>11, NextExists

\* RedeemPromotion issues no campaign beyond the caps it is redeemed under, whichever
\* publications of a version are redeemed side by side and whatever caps they give it.
THEOREM CampaignsCapped == Spec => []CampaignCapped
<1>1. Init => CampaignCapped
  <2>1. Init => Exists = {}
    BY DEF Init, Exists, NoGrant
  <2> QED
    BY <2>1 DEF CampaignCapped
<1>2. IInv /\ CampaignCapped /\ [Next]_vars => CampaignCapped'
  BY NextCapped
<1> QED
  BY <1>1, <1>2, Inductive, PTL DEF Spec

\* In total, a version of a campaign stays within one of the caps it has.
WithinLargest ==
    \A n : Issuances(n) # {} =>
        \E v \in Publications : Campaign[v].version = n /\ Cardinality(Issuances(n)) <= Campaign[v].cap

\* The issuance that a publication's cap admits is the last one of its version.
LEMMA NextWithinLargest ==
    ASSUME IInv, WithinLargest, [Next]_vars
    PROVE  WithinLargest'
<1>1. TypeOK /\ Ordering /\ Holdings /\ Journal
  BY DEF IInv
<1>2. SUFFICES ASSUME NEW n, Issuances(n)' # {}
               PROVE  \E v \in Publications : /\ Campaign[v].version = n
                                              /\ Cardinality(Issuances(n)') <= Campaign[v].cap
  BY DEF WithinLargest
<1>3. PICK I, I1 : I = Issuances(n) /\ I1 = Issuances(n)'
  OBVIOUS
<1>4. /\ \A g : g \in I <=> g \in Exists /\ g[1] \in Redemptions /\ grant[g].campaign = n
      /\ \A g : g \in I1 <=> g \in Exists' /\ g[1] \in Redemptions /\ grant'[g].campaign = n
  BY <1>3 DEF Issuances
<1>5. \A g \in Exists : grant'[g].campaign = grant[g].campaign
  BY <1>1, NextExists
<1>6. CASE I1 = I
  BY <1>2, <1>3, <1>6 DEF WithinLargest
<1>7. ASSUME NEW new \in Grants \ Exists, Issued(new), Capped(new), Exists' = Exists \cup {new}, I1 # I
      PROVE  \E v \in Publications : Campaign[v].version = n /\ Cardinality(I1) <= Campaign[v].cap
  <2>1. /\ new[1] \in Redemptions /\ grant'[new].campaign = n /\ new \notin I
        /\ \A g : g \in I1 <=> g \in I \cup {new}
    BY <1>4, <1>5, <1>7
  <2>2. PICK v \in Publications : WithinCap(Owner[new[1]], v) /\ Campaign[v].version = n
    BY <1>7, <2>1 DEF Capped
  <2>3. Cardinality(I) < Campaign[v].cap
    BY <1>3, <2>2 DEF WithinCap
  <2>4. IsFiniteSet(I) /\ Cardinality(I) \in Nat /\ Campaign[v].cap \in Nat
    BY <1>4, NextNumber, FS_Subset, FS_CardinalityType, ConstantsAssumption
  <2>5. I1 = I \cup {new} /\ Cardinality(I \cup {new}) = Cardinality(I) + 1
    BY <2>1, <2>4, FS_AddElement
  <2> QED
    BY <2>2, <2>3, <2>4, <2>5
<1>8. Exists' = Exists => I1 = I
  BY <1>4, <1>5
<1> QED
  BY <1>1, <1>3, <1>6, <1>7, <1>8, NextExists

\* RedeemPromotion never issues a version of a campaign beyond the largest of the caps
\* that publications give it.
THEOREM CampaignsBounded == Spec => []WithinLargest
<1>1. Init => WithinLargest
  <2>1. Init => Exists = {}
    BY DEF Init, Exists, NoGrant
  <2> QED
    BY <2>1 DEF WithinLargest, Issuances
<1>2. IInv /\ WithinLargest /\ [Next]_vars => WithinLargest'
  BY NextWithinLargest
<1> QED
  BY <1>1, <1>2, Inductive, PTL DEF Spec

==============================================================================
