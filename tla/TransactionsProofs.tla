------------------------- MODULE TransactionsProofs -------------------------
(***************************************************************************)
(* Proofs about the components whose operations are database transactions, *)
(* for every value of the constants: a user's counters, the artifacts of a *)
(* session, its runs and messages, the tools, a tenant's administration,   *)
(* the skills, the guards of loops.  One section per component, each with  *)
(* its inductive invariant and why its steps keep it; the theorems about   *)
(* the components alone and together are at the end.                       *)
(***************************************************************************)
EXTENDS MCTransactions, TenantLedgerProofs, SequenceTheorems, WellFoundedInduction

(***************************************************************************)
(* Sets of natural numbers: what they have first and last.                 *)
(***************************************************************************)
LEMMA LeastNatural ==
  ASSUME NEW S, S \subseteq Nat, S # {}
  PROVE  \E x \in S : \A y \in S : x <= y
<1>1. PICK x \in S : \A y \in S : ~ (<<y, x>> \in OpToRel(<, Nat))
  BY WFMin, NatLessThanWellFounded
<1>2. ASSUME NEW y \in S PROVE x <= y
  <2>1. x \in Nat /\ y \in Nat  OBVIOUS
  <2>2. <<y, x>> \in OpToRel(<, Nat) <=> y < x
    <3>1. <<y, x>> \in Nat \X Nat /\ <<y, x>>[1] = y /\ <<y, x>>[2] = x  BY <2>1
    <3> QED  BY <3>1 DEF OpToRel
  <2>3. ~ (y < x)  BY <1>1, <2>2
  <2> QED  BY <2>1, <2>3
<1> QED  BY <1>2

LEMMA LastNatural ==
  ASSUME NEW n \in Nat, NEW S, S \subseteq 0..n, S # {}
  PROVE  \E x \in S : \A y \in S : y <= x
<1> DEFINE B == {m \in Nat : \A y \in S : y <= m}
<1>1. n \in B  OBVIOUS
<1>2. PICK b \in B : \A m \in B : b <= m  BY <1>1, LeastNatural
<1>3. b \in S
  <2> SUFFICES ASSUME b \notin S PROVE FALSE  OBVIOUS
  <2>1. b \in Nat /\ \A y \in S : y <= b /\ y # b /\ y \in Nat  OBVIOUS
  <2>2. PICK y \in S : TRUE  OBVIOUS
  <2>3. b - 1 \in Nat  BY <2>1, <2>2
  <2>4. b - 1 \in B  BY <2>1, <2>3
  <2> QED  BY <1>2, <2>1, <2>4
<1> QED  BY <1>3

LEMMA MaxIs ==
  ASSUME NEW n \in Nat, NEW S, S \subseteq 0..n, S # {}
  PROVE  Max(S) \in S /\ \A y \in S : y <= Max(S)
BY LastNatural DEF Max


-----------------------------------------------------------------------------
Counters == [Users \X Months -> Nat]
Adds(g, f, u, m, d) == g = [f EXCEPT ![<<u, m>>] = f[<<u, m>>] + d]
IsPoint(x, f, u) == \E m \in Months : \E i \in 1..f[<<u, m>>] : x = <<m, i>>

LEMMA CountTo ==
  ASSUME NEW a \in Nat, NEW d \in Nat
  PROVE  /\ IsFiniteSet(1..d)
         /\ IsFiniteSet(a + 1 .. a + d) /\ Cardinality(a + 1 .. a + d) = d
<1>1. a + 1 \in Int /\ a + d \in Int /\ 1 \in Int /\ d \in Int  OBVIOUS
<1>2. IsFiniteSet(1..d)  BY <1>1, FS_Interval
<1>3. IsFiniteSet(a + 1 .. a + d)
      /\ Cardinality(a + 1 .. a + d) = IF a + 1 > a + d THEN 0 ELSE (a + d) - (a + 1) + 1
  BY <1>1, FS_Interval
<1> QED  BY <1>2, <1>3

LEMMA InPoints ==
  ASSUME NEW f \in Counters, NEW u \in Users, NEW x
  PROVE  x \in PointsOf(f, u) <=> IsPoint(x, f, u)
<1>1. x \in PointsOf(f, u) <=> \E m \in Months : x \in {m} \X (1..f[<<u, m>>])
  BY DEF PointsOf
<1>2. \A m \in Months : x \in {m} \X (1..f[<<u, m>>]) <=> \E i \in 1..f[<<u, m>>] : x = <<m, i>>
  OBVIOUS
<1> QED  BY <1>1, <1>2 DEF IsPoint

LEMMA PointsFinite ==
  ASSUME NEW f \in Counters, NEW u \in Users
  PROVE  IsFiniteSet(PointsOf(f, u)) /\ AllMonths(f, u) \in Nat
<1> DEFINE part(m) == {m} \X (1..f[<<u, m>>])
           S == {part(m) : m \in Months}
           g == [m \in Months |-> part(m)]
<1>1. IsFiniteSet(Months)  BY LedgerAssumptions, CountTo DEF Months
<1>2. g \in Surjection(Months, S)  BY DEF Surjection
<1>3. IsFiniteSet(S)
  <2> HIDE DEF g, S
  <2> QED  BY <1>1, <1>2, FS_Surjection
<1>4. ASSUME NEW m \in Months PROVE IsFiniteSet(part(m))
  <2>1. f[<<u, m>>] \in Nat  BY DEF Counters
  <2>2. IsFiniteSet(1..f[<<u, m>>])  BY <2>1, CountTo
  <2>3. IsFiniteSet({m})  BY FS_Singleton
  <2> QED  BY <2>2, <2>3, FS_Product
<1>5. \A T \in S : IsFiniteSet(T)  BY <1>4
<1>6. IsFiniteSet(UNION S)
  <2> HIDE DEF S
  <2> QED  BY <1>3, <1>5, FS_UNION
<1>7. IsFiniteSet(PointsOf(f, u))  BY <1>6 DEF PointsOf
<1> QED  BY <1>7, FS_CardinalityType DEF AllMonths

LEMMA MorePoints ==
  ASSUME NEW f \in Counters, NEW u \in Users, NEW m \in Months, NEW d \in Nat,
         NEW g, Adds(g, f, u, m, d)
  PROVE  /\ AllMonths(g, u) = AllMonths(f, u) + d
         /\ \A v \in Users \ {u} : AllMonths(g, v) = AllMonths(f, v)
<1> DEFINE a == f[<<u, m>>]
           I == a + 1 .. a + d
           N == {m} \X I
<1>1. /\ a \in Nat /\ g[<<u, m>>] = a + d /\ \A k \in Months \ {m} : g[<<u, k>>] = f[<<u, k>>]
      /\ \A v \in Users \ {u}, k \in Months : g[<<v, k>>] = f[<<v, k>>]
      /\ g \in Counters
  BY DEF Counters, Adds
<1>2. IsFiniteSet(N) /\ Cardinality(N) = d
  <2>1. IsFiniteSet(I) /\ Cardinality(I) = d  BY <1>1, CountTo
  <2>2. IsFiniteSet({m}) /\ Cardinality({m}) = 1  BY FS_Singleton
  <2> HIDE DEF I
  <2>3. IsFiniteSet(N) /\ Cardinality(N) = Cardinality({m}) * Cardinality(I)
    BY <2>1, <2>2, FS_Product
  <2> QED  BY <2>1, <2>2, <2>3
<1>3. PointsOf(g, u) = PointsOf(f, u) \cup N
  <2>1. \A x : x \in PointsOf(f, u) <=> \E k \in Months : \E i \in 1..f[<<u, k>>] : x = <<k, i>>
    BY InPoints DEF IsPoint
  <2>2. \A x : x \in PointsOf(g, u) <=> \E k \in Months : \E i \in 1..g[<<u, k>>] : x = <<k, i>>
    BY <1>1, InPoints DEF IsPoint
  <2>3. \A x : x \in N <=> \E i \in I : x = <<m, i>>  OBVIOUS
  <2>4. 1..g[<<u, m>>] = (1..f[<<u, m>>]) \cup I  BY <1>1
  <2> HIDE DEF N, I
  <2>5. ASSUME NEW x, x \in PointsOf(g, u) PROVE x \in PointsOf(f, u) \cup N
    <3>1. PICK k \in Months : \E i \in 1..g[<<u, k>>] : x = <<k, i>>  BY <2>2, <2>5
    <3>2. CASE k = m  BY <2>1, <2>3, <2>4, <3>1, <3>2
    <3>3. CASE k # m
      <4>1. g[<<u, k>>] = f[<<u, k>>]  BY <1>1, <3>3
      <4>2. PICK i \in 1..f[<<u, k>>] : x = <<k, i>>  BY <3>1, <4>1
      <4> QED  BY <2>1, <4>2
    <3> QED  BY <3>2, <3>3
  <2>6. ASSUME NEW x, x \in PointsOf(f, u) \cup N PROVE x \in PointsOf(g, u)
    <3>1. CASE x \in N
      <4>1. PICK i \in I : x = <<m, i>>  BY <2>3, <3>1
      <4>2. i \in 1..g[<<u, m>>]  BY <2>4
      <4> QED  BY <2>2, <4>1, <4>2
    <3>2. CASE x \in PointsOf(f, u)
      <4>1. PICK k \in Months : \E i \in 1..f[<<u, k>>] : x = <<k, i>>  BY <2>1, <3>2
      <4>2. CASE k = m  BY <2>2, <2>4, <4>1, <4>2
      <4>3. CASE k # m  BY <1>1, <2>2, <4>1, <4>3
      <4> QED  BY <4>2, <4>3
    <3> QED  BY <2>6, <3>1, <3>2
  <2> QED  BY <2>5, <2>6
<1>4. PointsOf(f, u) \cap N = {}
  <2> SUFFICES ASSUME NEW x \in PointsOf(f, u), x \in N PROVE FALSE  OBVIOUS
  <2>0. IsPoint(x, f, u)  BY InPoints
  <2>1. PICK k \in Months : \E i \in 1..f[<<u, k>>] : x = <<k, i>>  BY <2>0 DEF IsPoint
  <2>2. PICK i \in 1..f[<<u, k>>] : x = <<k, i>>  BY <2>1
  <2>3. k = m /\ i \in I  BY <2>2
  <2> QED  BY <1>1, <2>2, <2>3
<1>5. ASSUME NEW v \in Users \ {u} PROVE PointsOf(g, v) = PointsOf(f, v)
  <2>1. \A k \in Months : {k} \X (1..g[<<v, k>>]) = {k} \X (1..f[<<v, k>>])  BY <1>1
  <2> QED  BY <2>1 DEF PointsOf
<1> HIDE DEF N
<1>6. Cardinality(PointsOf(f, u) \cup N) = Cardinality(PointsOf(f, u)) + d
  <2>1. IsFiniteSet(PointsOf(f, u)) /\ Cardinality(PointsOf(f, u)) \in Nat
    BY PointsFinite DEF AllMonths
  <2>2. Cardinality(PointsOf(f, u) \cup N)
          = Cardinality(PointsOf(f, u)) + Cardinality(N) - Cardinality(PointsOf(f, u) \cap N)
    BY <1>2, <2>1, FS_Union
  <2>3. Cardinality(PointsOf(f, u) \cap N) = 0  BY <1>4, FS_EmptySet
  <2> QED  BY <1>2, <2>1, <2>2, <2>3
<1> QED  BY <1>3, <1>5, <1>6 DEF AllMonths

LEMMA OneRowMore ==
  ASSUME NEW rows, rows \subseteq Permits, NEW p \in Permits \ rows
  PROVE  /\ \A u \in Users : OfUser(rows, u) \in Nat
         /\ OfUser(rows \cup {p}, PermitOwner(p)) = OfUser(rows, PermitOwner(p)) + 1
         /\ \A u \in Users \ {PermitOwner(p)} : OfUser(rows \cup {p}, u) = OfUser(rows, u)
<1> DEFINE R(u) == {q \in rows : PermitOwner(q) = u}
<1>1. ASSUME NEW u \in Users PROVE R(u) \subseteq Permits /\ Cardinality(R(u)) \in Nat
  BY RowsFinite
<1>2. PermitOwner(p) \in Users  BY OwnerOfPermit
<1>3. {q \in rows \cup {p} : PermitOwner(q) = PermitOwner(p)} = R(PermitOwner(p)) \cup {p}
  OBVIOUS
<1>4. Cardinality(R(PermitOwner(p)) \cup {p}) = Cardinality(R(PermitOwner(p))) + 1
  BY <1>1, <1>2, RowsFinite
<1>5. \A u \in Users \ {PermitOwner(p)} :
        {q \in rows \cup {p} : PermitOwner(q) = u} = R(u)
  OBVIOUS
<1> QED  BY <1>1, <1>3, <1>4, <1>5 DEF OfUser

LEMMA CountersInit == LedgerInit => UserCountersMatchRows
<1> SUFFICES ASSUME LedgerInit, NEW u \in Users
             PROVE  /\ AllMonths(spent, u) = MCP_POINTS_COST * OfUser(settles, u)
                    /\ AllMonths(held, u) = MCP_POINTS_COST
                         * (OfUser(reserves, u) - OfUser(settles, u) - OfUser(releases, u))
  BY DEF UserCountersMatchRows
<1>1. PointsOf(spent, u) = {} /\ PointsOf(held, u) = {}
  <2>1. \A m \in Months : 1..spent[<<u, m>>] = {} /\ 1..held[<<u, m>>] = {}
    BY DEF LedgerInit
  <2>2. spent \in Counters /\ held \in Counters  BY DEF LedgerInit, Counters
  <2>3. \A x : ~ IsPoint(x, spent, u) /\ ~ IsPoint(x, held, u)  BY <2>1 DEF IsPoint
  <2> QED  BY <2>2, <2>3, InPoints
<1>2. Cardinality({}) = 0  BY FS_EmptySet
<1>3. AllMonths(spent, u) = 0 /\ AllMonths(held, u) = 0  BY <1>1, <1>2 DEF AllMonths
<1>4. {p \in {} : PermitOwner(p) = u} = {}  OBVIOUS
<1>5. OfUser(settles, u) = 0 /\ OfUser(reserves, u) = 0 /\ OfUser(releases, u) = 0
  BY <1>2, <1>4 DEF LedgerInit, OfUser
<1> QED  BY <1>3, <1>5, LedgerAssumptions

LEMMA CountersStep ==
  ASSUME LedgerTypeOK, LedgerTypeOK', UserCountersMatchRows, [LedgerNext]_ledgerVars
  PROVE  UserCountersMatchRows'
<1> DEFINE c == MCP_POINTS_COST
<1>t. /\ c \in Nat /\ spent \in Counters /\ held \in Counters
      /\ month \in Months /\ reserves \subseteq Permits /\ settles \subseteq reserves
      /\ releases \subseteq reserves
  BY LedgerAssumptions DEF LedgerTypeOK, Counters
<1>m. PICK m \in Months : m = month  BY <1>t
<1>o. \A u \in Users : OfUser(reserves, u) \in Nat /\ OfUser(settles, u) \in Nat
                       /\ OfUser(releases, u) \in Nat
  <2>1. \A rows : rows \subseteq Permits => \A u \in Users : OfUser(rows, u) \in Nat
    BY RowsFinite DEF OfUser
  <2> QED  BY <1>t, <2>1
<1>u. ASSUME NEW u \in Users
      PROVE  /\ AllMonths(spent, u) = c * OfUser(settles, u)
             /\ AllMonths(held, u) = c * (OfUser(reserves, u) - OfUser(settles, u) - OfUser(releases, u))
  BY DEF UserCountersMatchRows
<1>0. ASSUME UNCHANGED <<spent, held, reserves, settles, releases>>
      PROVE  UserCountersMatchRows'
  BY <1>0 DEF UserCountersMatchRows
<1>1. ASSUME NEW p \in Permits, ReservePermit(p) PROVE UserCountersMatchRows'
  <2>0. PICK o \in Users : o = PermitOwner(p)  BY OwnerOfPermit
  <2>1. /\ held' = [held EXCEPT ![<<o, m>>] = held[<<o, m>>] + c]
        /\ reserves' = reserves \cup {p} /\ p \notin reserves
        /\ UNCHANGED <<spent, settles, releases>>
    BY <1>1, <1>m, <2>0 DEF ReservePermit, ThisMonth
  <2>2. /\ AllMonths(held', o) = AllMonths(held, o) + c
        /\ \A v \in Users \ {o} : AllMonths(held', v) = AllMonths(held, v)
    <3>1. Adds(held', held, o, m, c)  BY <2>1 DEF Adds
    <3> QED  BY <1>t, <3>1, MorePoints
  <2>3. /\ OfUser(reserves', o) = OfUser(reserves, o) + 1
        /\ \A v \in Users \ {o} : OfUser(reserves', v) = OfUser(reserves, v)
    BY <1>t, <2>0, <2>1, OneRowMore
  <2>4. ASSUME NEW u \in Users
        PROVE  /\ AllMonths(spent', u) = c * OfUser(settles', u)
               /\ AllMonths(held', u) = c * (OfUser(reserves', u) - OfUser(settles', u) - OfUser(releases', u))
    <3> DEFINE n == OfUser(reserves, u) - OfUser(settles, u) - OfUser(releases, u)
    <3>1. n \in Int /\ c * (n + 1) = c * n + c  BY <1>o, OneMore
    <3>2. OfUser(reserves, u) + 1 - OfUser(settles, u) - OfUser(releases, u) = n + 1  BY <1>o
    <3>3. AllMonths(held, u) = c * n  BY <1>u
    <3> HIDE DEF c
    <3>4. CASE u = o
      <4>1. OfUser(reserves', u) - OfUser(settles', u) - OfUser(releases', u) = n + 1
        <5>1. /\ OfUser(reserves', u) = OfUser(reserves, u) + 1
              /\ OfUser(settles', u) = OfUser(settles, u) /\ OfUser(releases', u) = OfUser(releases, u)
          BY <2>1, <2>3, <3>4
        <5>2. OfUser(reserves', u) - OfUser(settles', u) - OfUser(releases', u)
                = OfUser(reserves, u) + 1 - OfUser(settles, u) - OfUser(releases, u)
          BY <1>o, <5>1
        <5> QED  BY <3>2, <5>2
      <4> QED  BY <1>u, <2>1, <2>2, <3>1, <3>3, <3>4, <4>1
    <3>5. CASE u # o
      <4>1. OfUser(reserves', u) - OfUser(settles', u) - OfUser(releases', u) = n
        BY <2>1, <2>3, <3>5
      <4> QED  BY <1>u, <2>1, <2>2, <3>3, <3>5, <4>1
    <3> QED  BY <3>4, <3>5
  <2> QED  BY <2>4 DEF UserCountersMatchRows
<1>2. ASSUME NEW p \in Permits, SettlePermit(p) \/ ReleasePermit(p) PROVE UserCountersMatchRows'
  <2>0. PICK o \in Users : o = PermitOwner(p)  BY OwnerOfPermit
  <2>1. held' = [held EXCEPT ![<<o, m>>] = held[<<o, m>>] - c] /\ held[<<o, m>>] >= c
    BY <1>2, <1>m, <2>0 DEF SettlePermit, ReleasePermit, CanTerminate, TakeHeld, ThisMonth
  <2>2. held' \in Counters /\ held = [held' EXCEPT ![<<o, m>>] = held'[<<o, m>>] + c]
    <3>1. held[<<o, m>>] \in Nat /\ <<o, m>> \in Users \X Months  BY <1>t DEF Counters
    <3>2. held'[<<o, m>>] = held[<<o, m>>] - c /\ held' \in Counters
      BY <1>t, <2>1, <3>1 DEF Counters
    <3>3. held'[<<o, m>>] + c = held[<<o, m>>]  BY <1>t, <3>1, <3>2
    <3> HIDE DEF c
    <3> QED  BY <1>t, <2>1, <3>1, <3>2, <3>3 DEF Counters
  <2>3. /\ AllMonths(held, o) = AllMonths(held', o) + c 
        /\ \A v \in Users \ {o} : AllMonths(held, v) = AllMonths(held', v)
    <3>1. Adds(held, held', o, m, c) /\ held' \in Counters  BY <2>2 DEF Adds
    <3> QED  BY <1>t, <3>1, MorePoints
  <2>3a. \A u \in Users : AllMonths(held', u) \in Nat  BY <2>2, PointsFinite
  <2>4. \A u \in Users :
          LET n == OfUser(reserves, u) - OfUser(settles, u) - OfUser(releases, u) IN
          /\ n \in Int /\ c * (n - 1) = c * n - c
          /\ OfUser(reserves, u) - (OfUser(settles, u) + 1) - OfUser(releases, u) = n - 1
          /\ OfUser(reserves, u) - OfUser(settles, u) - (OfUser(releases, u) + 1) = n - 1
          /\ c * (OfUser(settles, u) + 1) = c * OfUser(settles, u) + c
    <3> SUFFICES ASSUME NEW u \in Users
        PROVE  LET n == OfUser(reserves, u) - OfUser(settles, u) - OfUser(releases, u) IN
               /\ n \in Int /\ c * (n - 1) = c * n - c
               /\ OfUser(reserves, u) - (OfUser(settles, u) + 1) - OfUser(releases, u) = n - 1
               /\ OfUser(reserves, u) - OfUser(settles, u) - (OfUser(releases, u) + 1) = n - 1
               /\ c * (OfUser(settles, u) + 1) = c * OfUser(settles, u) + c
      OBVIOUS
    <3> DEFINE n == OfUser(reserves, u) - OfUser(settles, u) - OfUser(releases, u)
    <3>1. OfUser(reserves, u) \in Nat /\ OfUser(settles, u) \in Nat /\ OfUser(releases, u) \in Nat
      BY <1>o
    <3>2. n \in Int
          /\ OfUser(reserves, u) - (OfUser(settles, u) + 1) - OfUser(releases, u) = n - 1
          /\ OfUser(reserves, u) - OfUser(settles, u) - (OfUser(releases, u) + 1) = n - 1
      BY <3>1
    <3>3. c * (n - 1) = c * n - c /\ c * (OfUser(settles, u) + 1) = c * OfUser(settles, u) + c
      BY <3>1, <3>2, OneMore
    <3> QED  BY <3>2, <3>3
  <2>5. CASE SettlePermit(p)
    <3>1. /\ spent' = [spent EXCEPT ![<<o, m>>] = spent[<<o, m>>] + c]
          /\ settles' = settles \cup {p} /\ p \notin settles
          /\ UNCHANGED <<reserves, releases>>
      BY <1>m, <2>0, <2>5 DEF SettlePermit, ThisMonth
    <3>2. /\ AllMonths(spent', o) = AllMonths(spent, o) + c
          /\ \A v \in Users \ {o} : AllMonths(spent', v) = AllMonths(spent, v)
      <4>1. Adds(spent', spent, o, m, c)  BY <3>1 DEF Adds
      <4> QED  BY <1>t, <4>1, MorePoints
    <3>3. /\ OfUser(settles', o) = OfUser(settles, o) + 1
          /\ \A v \in Users \ {o} : OfUser(settles', v) = OfUser(settles, v)
      BY <1>t, <2>0, <3>1, OneRowMore
    <3>4. ASSUME NEW u \in Users
          PROVE  /\ AllMonths(spent', u) = c * OfUser(settles', u)
                 /\ AllMonths(held', u) = c * (OfUser(reserves', u) - OfUser(settles', u) - OfUser(releases', u))
      <4> HIDE DEF c
      <4>1. CASE u = o
        <5>1. AllMonths(held', o) = AllMonths(held, o) - c  BY <1>t, <2>3, <2>3a
        <5> QED  BY <1>u, <2>4, <3>1, <3>2, <3>3, <4>1, <5>1
      <4>2. CASE u # o  BY <1>u, <2>3, <3>1, <3>2, <3>3, <4>2
      <4> QED  BY <4>1, <4>2
    <3> QED  BY <3>4 DEF UserCountersMatchRows
  <2>6. CASE ReleasePermit(p)
    <3>1. /\ releases' = releases \cup {p} /\ p \notin releases
          /\ UNCHANGED <<spent, reserves, settles>>
      BY <2>6 DEF ReleasePermit, Terminal
    <3>3. /\ OfUser(releases', o) = OfUser(releases, o) + 1
          /\ \A v \in Users \ {o} : OfUser(releases', v) = OfUser(releases, v)
      BY <1>t, <2>0, <3>1, OneRowMore
    <3>4. ASSUME NEW u \in Users
          PROVE  /\ AllMonths(spent', u) = c * OfUser(settles', u)
                 /\ AllMonths(held', u) = c * (OfUser(reserves', u) - OfUser(settles', u) - OfUser(releases', u))
      <4> HIDE DEF c
      <4>1. CASE u = o
        <5>1. AllMonths(held', o) = AllMonths(held, o) - c  BY <1>t, <2>3, <2>3a
        <5> QED  BY <1>u, <2>4, <3>1, <3>3, <4>1, <5>1
      <4>2. CASE u # o  BY <1>u, <2>3, <3>1, <3>3, <4>2
      <4> QED  BY <4>1, <4>2
    <3> QED  BY <3>4 DEF UserCountersMatchRows
  <2> QED  BY <1>2, <2>5, <2>6
<1>3. ASSUME \/ \E p \in Permits : MarkUnknown(p)
             \/ CreditStep
             \/ UNCHANGED ledgerVars
      PROVE  UNCHANGED <<spent, held, reserves, settles, releases>>
  BY <1>3 DEF MarkUnknown, CreditStep, GrantWelcome, AdminAdjust, SetQuota, AdvanceMonth,
              usageVars, permitVars, ledgerVars
<1> QED  BY <1>0, <1>1, <1>2, <1>3 DEF LedgerNext

-----------------------------------------------------------------------------
Heads == [cur : Nat, owner : PubRuns \cup {NoPubRun}, status : {"none", "idle", "drafting", "failed"}]
EventTypes == {"draft_created", "draft_updated", "failed", "published"}

PubTypes ==
  /\ head \in [Arts -> Heads]
  /\ revs \in [Arts -> Seq(PubRuns)]
  /\ vers \in [Arts -> Seq([rev : Nat, run : PubRuns])]
  /\ pubRun \in [PubRuns -> {"new", "queued", "running", "paused", "gone", "completed",
                             "completed_with_warnings"}]
  /\ ending \in [PubRuns -> {"none", "completed", "completed_with_warnings"}]

(***************************************************************************)
(* A call of a run names artifacts.  A run of the current runtime that has *)
(* its worker makes none while it ends, and none when it has completed.    *)
(***************************************************************************)
Plain == PubRuns \ (PiPubRuns \cup strayed)

CallSound(call) == call.op # "none" => call.todo \in Seq(Arts) /\ call.todo # <<>>

CallsSound ==
  /\ tx = [r \in PubRuns |-> tx[r]]
  /\ \A r \in PubRuns : CallSound(tx[r])
  /\ \A r \in Plain : pubRun[r] = "completed" \/ ending[r] # "none" => tx[r].op = "none"

(***************************************************************************)
(* Who holds a head wrote its last revision and has not published it.      *)
(***************************************************************************)
HeadSound(h, written) ==
  /\ h.cur = Len(written)
  /\ h.owner # NoPubRun <=> h.status = "drafting"
  /\ h.owner # NoPubRun => Len(written) > 0 /\ written[Len(written)] = h.owner

Unpublished(a) == \A t \in attempts : t.key = PublishKey(a, head[a].cur) => t.status # "published"

HeadsSound ==
  \A a \in Arts : HeadSound(head[a], revs[a]) /\ (head[a].owner # NoPubRun => Unpublished(a))

(***************************************************************************)
(* Versions and published attempts tell the same.                          *)
(***************************************************************************)
VersionSound(a, i) ==
  /\ vers[a][i].rev \in 1..Len(revs[a])
  /\ revs[a][vers[a][i].rev] = vers[a][i].run
  /\ Attempt(PublishKey(a, vers[a][i].rev), vers[a][i].run, "published") \in attempts
  /\ i > 1 => vers[a][i - 1].rev < vers[a][i].rev

IsAttempt(t) ==
  /\ t.key[1] # "reject" => t.key[2] \in Arts
  /\ t.status = "published" => \E a \in Arts, n \in Nat : t.key = PublishKey(a, n)

HasVersion(t) == \E i \in 1..Len(vers[t.key[2]]) : vers[t.key[2]][i].rev = t.key[3]

VersionsSound ==
  /\ \A a \in Arts : \A i \in 1..Len(vers[a]) : VersionSound(a, i)
  /\ \A t \in attempts : IsAttempt(t) /\ (t.status = "published" => HasVersion(t))

(***************************************************************************)
(* The events of an artifact: how many are publications, which is the last.*)
(***************************************************************************)
Publications(a) == {i \in 1..Len(artEvents) : artEvents[i].art = a /\ artEvents[i].type = "published"}

EventsSound ==
  /\ artEvents \in Seq([art : Arts, type : EventTypes])
  /\ activity \in [Arts -> Nat]
  /\ \A a \in Arts :
       /\ Cardinality(Publications(a)) = Len(vers[a])
       /\ \A i \in 1..Len(artEvents) : artEvents[i].art = a => i <= activity[a]
       /\ activity[a] # 0 => activity[a] \in 1..Len(artEvents) /\ artEvents[activity[a]].art = a

MadeGood(t) ==
  /\ t.key[1] # "reject"
  /\ \E u \in attempts : u.run = t.run /\ u.status = "published" /\ u.key[2] = t.key[2]

CleanRuns ==
  \A r \in Plain : pubRun[r] = "completed" \/ ending[r] = "completed" =>
    /\ \A a \in Arts : head[a].owner # r
    /\ \A t \in attempts : t.run = r /\ t.status # "published" => MadeGood(t)

(***************************************************************************)
(* A version by the run is there before its end is decided on.             *)
(***************************************************************************)
HasReport(r) == \E a \in Arts : \E i \in 1..Len(vers[a]) : vers[a][i].run = r

Analysed ==
  \A r \in PiPubRuns \cap MainRuns :
    pubRun[r] \in {"completed", "completed_with_warnings"} \/ ending[r] # "none" => HasReport(r)

PubInv ==
  /\ PubTypes /\ CallsSound /\ HeadsSound /\ VersionsSound /\ EventsSound
  /\ CleanRuns /\ Analysed

-----------------------------------------------------------------------------
(***************************************************************************)
(* What a call may do to the data of the session.                          *)
(***************************************************************************)
Kept == UNCHANGED <<head, revs, vers, attempts, artEvents, activity>>

RunsKept == pubRun' = pubRun /\ ending' = ending /\ strayed' = strayed

Emitted(a, type) ==
  /\ type \in EventTypes
  /\ artEvents' = Append(artEvents, [art |-> a, type |-> type])
  /\ activity' = [activity EXCEPT ![a] = Len(artEvents) + 1]

Revises(r, a) ==
  /\ head' = [head EXCEPT ![a] = [cur |-> head[a].cur + 1, owner |-> r, status |-> "drafting"]]
  /\ revs' = [revs EXCEPT ![a] = Append(@, r)]
  /\ \E type \in EventTypes \ {"published"} : Emitted(a, type)
  /\ UNCHANGED <<vers, attempts>>

\* an attempt that fails; an abandoned draft is given up with it
Records(r, t) ==
  /\ t.run = r /\ t.status # "published" /\ (t.key[1] # "reject" => t.key[2] \in Arts)
  /\ attempts' = attempts \cup {t}
  /\ UNCHANGED <<revs, vers>>
  /\ \/ UNCHANGED <<head, artEvents, activity>>
     \/ \E a \in Arts :
          /\ head' = [head EXCEPT ![a] = ReleasedHead(@, "failed")]
          /\ Emitted(a, "failed")

Publishes(r, a) ==
  /\ head[a].owner = r
  /\ attempts' = attempts \cup {Attempt(PublishKey(a, head[a].cur), r, "published")}
  /\ vers' = [vers EXCEPT ![a] = Append(@, [rev |-> head[a].cur, run |-> r])]
  /\ head' = [head EXCEPT ![a] = ReleasedHead(@, "idle")]
  /\ Emitted(a, "published")
  /\ UNCHANGED revs

Works(r) ==
  \/ Kept
  \/ \E a \in Arts : Revises(r, a)
  \/ \E t : Records(r, t)
  \/ \E a \in Arts : Publishes(r, a)

LEMMA AppendFacts ==
  ASSUME NEW S, NEW s \in Seq(S), NEW e \in S
  PROVE  /\ Append(s, e) \in Seq(S)
         /\ Len(Append(s, e)) = Len(s) + 1 /\ Len(s) \in Nat
         /\ \A i \in 1..Len(s) : Append(s, e)[i] = s[i]
         /\ Append(s, e)[Len(s) + 1] = e
  OBVIOUS

LEMMA ReleasedHeads ==
  ASSUME NEW h \in Heads, NEW s, HeadSound(h, s), NEW outcome \in {"idle", "failed"}
  PROVE  /\ ReleasedHead(h, outcome) \in Heads /\ HeadSound(ReleasedHead(h, outcome), s)
         /\ ReleasedHead(h, outcome).owner = NoPubRun
         /\ ReleasedHead(h, outcome).cur = h.cur
  BY DEF ReleasedHead, Heads, HeadSound

LEMMA Facts ==
  ASSUME PubInv, NEW a \in Arts
  PROVE  /\ head[a] \in Heads /\ revs[a] \in Seq(PubRuns) /\ Len(revs[a]) \in Nat
         /\ vers[a] \in Seq([rev : Nat, run : PubRuns]) /\ Len(vers[a]) \in Nat
         /\ HeadSound(head[a], revs[a]) /\ head[a].cur = Len(revs[a])
         /\ head[a].owner # NoPubRun => Unpublished(a)
<1>1. head \in [Arts -> Heads] /\ revs \in [Arts -> Seq(PubRuns)]
      /\ vers \in [Arts -> Seq([rev : Nat, run : PubRuns])]
  BY DEF PubInv, PubTypes
<1>2. HeadSound(head[a], revs[a]) /\ (head[a].owner # NoPubRun => Unpublished(a))
  BY DEF PubInv, HeadsSound
<1>3. head[a].cur = Len(revs[a])  BY <1>2 DEF HeadSound
<1>4. \A S : \A s \in Seq(S) : Len(s) \in Nat  OBVIOUS
<1>5. /\ head[a] \in Heads /\ revs[a] \in Seq(PubRuns)
      /\ vers[a] \in Seq([rev : Nat, run : PubRuns])
  BY <1>1
<1>6. Len(revs[a]) \in Nat /\ Len(vers[a]) \in Nat  BY <1>4, <1>5
<1> QED  BY <1>2, <1>3, <1>5, <1>6

-----------------------------------------------------------------------------
LEMMA EventsAfter ==
  ASSUME PubInv, NEW a \in Arts, NEW type, Emitted(a, type),
         \/ type # "published" /\ vers' = vers
         \/ type = "published" /\ \E v \in [rev : Nat, run : PubRuns] :
              vers' = [vers EXCEPT ![a] = Append(@, v)]
  PROVE  EventsSound'
<1> DEFINE n == Len(artEvents)
           event == [art |-> a, type |-> type]
<1>1. /\ artEvents \in Seq([art : Arts, type : EventTypes]) /\ event \in [art : Arts, type : EventTypes]
      /\ activity \in [Arts -> Nat] /\ artEvents' = Append(artEvents, event)
      /\ activity' = [activity EXCEPT ![a] = n + 1]
  BY DEF PubInv, EventsSound, Emitted
<1>2. /\ artEvents' \in Seq([art : Arts, type : EventTypes]) /\ Len(artEvents') = n + 1 /\ n \in Nat
      /\ \A i \in 1..n : artEvents'[i] = artEvents[i]
      /\ artEvents'[n + 1] = event
  BY <1>1, AppendFacts
<1> HIDE DEF n
<1>3. activity' \in [Arts -> Nat]  BY <1>1, <1>2
<1>4. ASSUME NEW b \in Arts
      PROVE  /\ Cardinality(Publications(b)') = Len(vers[b]')
             /\ \A i \in 1..Len(artEvents') : artEvents'[i].art = b => i <= activity'[b]
             /\ activity'[b] # 0 => activity'[b] \in 1..Len(artEvents') /\ artEvents'[activity'[b]].art = b
  <2>1. /\ Cardinality(Publications(b)) = Len(vers[b])
        /\ \A i \in 1..n : artEvents[i].art = b => i <= activity[b]
        /\ activity[b] # 0 => activity[b] \in 1..n /\ artEvents[activity[b]].art = b
        /\ activity[b] \in Nat
    BY <1>1 DEF PubInv, EventsSound, n
  <2>2. \A i \in 1..Len(artEvents') : i \in 1..n \/ i = n + 1  BY <1>2
  <2>3. \A i \in 1..Len(artEvents') : artEvents'[i].art = b => i <= activity'[b]
    BY <1>1, <1>2, <2>1, <2>2
  <2>4. activity'[b] # 0 => activity'[b] \in 1..Len(artEvents') /\ artEvents'[activity'[b]].art = b
    BY <1>1, <1>2, <2>1
  <2>5. Publications(b) \subseteq 1..n /\ IsFiniteSet(Publications(b))
    <3>1. Publications(b) \subseteq 1..n  BY DEF Publications, n
    <3>2. IsFiniteSet(1..n)  BY <1>2, FS_Interval
    <3> QED  BY <3>1, <3>2, FS_Subset
  <2>6. CASE type = "published" /\ b = a
    <3>1. Publications(b)' = Publications(b) \cup {n + 1}
      BY <1>2, <2>2, <2>6 DEF Publications, n
    <3>2. n + 1 \notin Publications(b)  BY <1>2, <2>5
    <3>3. Cardinality(Publications(b)') = Cardinality(Publications(b)) + 1
      BY <3>1, <3>2, <2>5, FS_AddElement
    <3>4. PICK v \in [rev : Nat, run : PubRuns] : vers' = [vers EXCEPT ![a] = Append(@, v)]
      BY <2>6
    <3>5. vers \in [Arts -> Seq([rev : Nat, run : PubRuns])]  BY DEF PubInv, PubTypes
    <3>6. vers'[b] = Append(vers[b], v)  BY <3>4, <3>5, <2>6
    <3>7. Len(vers'[b]) = Len(vers[b]) + 1  BY <3>5, <3>6, AppendFacts
    <3> QED  BY <3>3, <3>7, <2>1, <2>3, <2>4
  <2>7. CASE ~ (type = "published" /\ b = a)
    <3>1. Publications(b)' = Publications(b)
      BY <1>2, <2>2, <2>7 DEF Publications, n
    <3>2. vers'[b] = vers[b]  BY <2>7 DEF PubInv, PubTypes
    <3> QED  BY <3>1, <3>2, <2>1, <2>3, <2>4
  <2> QED  BY <2>6, <2>7
<1> QED  BY <1>2, <1>3, <1>4 DEF EventsSound

LEMMA RevisesKeeps ==
  ASSUME PubInv, NEW r \in PubRuns, NEW a \in Arts, Revises(r, a), RunsKept,
         r # NoPubRun
  PROVE  PubTypes' /\ HeadsSound' /\ VersionsSound' /\ EventsSound'
<1> DEFINE h == [cur |-> head[a].cur + 1, owner |-> r, status |-> "drafting"]
<1>1. /\ head' = [head EXCEPT ![a] = h] /\ revs' = [revs EXCEPT ![a] = Append(@, r)]
      /\ vers' = vers /\ attempts' = attempts
  BY DEF Revises
<1>2. /\ head \in [Arts -> Heads] /\ revs \in [Arts -> Seq(PubRuns)]
      /\ vers \in [Arts -> Seq([rev : Nat, run : PubRuns])]
  BY DEF PubInv, PubTypes
<1>3. head[a].cur = Len(revs[a]) /\ Len(revs[a]) \in Nat  BY Facts
<1>4. /\ revs'[a] = Append(revs[a], r) /\ Append(revs[a], r) \in Seq(PubRuns)
      /\ Len(revs'[a]) = Len(revs[a]) + 1
      /\ \A i \in 1..Len(revs[a]) : revs'[a][i] = revs[a][i]
      /\ revs'[a][Len(revs[a]) + 1] = r
      /\ \A b \in Arts : b # a => revs'[b] = revs[b]
  BY <1>1, <1>2, AppendFacts
<1>5. h \in Heads /\ HeadSound(h, revs'[a])
  BY <1>3, <1>4 DEF Heads, HeadSound
<1> HIDE DEF h
<1>5a. head'[a] = h /\ (\A b \in Arts : b # a => head'[b] = head[b]) /\ head' \in [Arts -> Heads]
  BY <1>1, <1>2, <1>5
<1>6. PubTypes'
  BY <1>1, <1>2, <1>4, <1>5a DEF PubInv, PubTypes, RunsKept
<1>7. \A b \in Arts : \A i \in 1..Len(vers[b]) :
        /\ vers[b][i].rev \in 1..Len(revs[b]) /\ VersionSound(b, i)
        /\ vers[b][i].rev \in 1..Len(revs'[b]) /\ revs'[b][vers[b][i].rev] = revs[b][vers[b][i].rev]
  <2> SUFFICES ASSUME NEW b \in Arts, NEW i \in 1..Len(vers[b])
      PROVE  /\ vers[b][i].rev \in 1..Len(revs[b]) /\ VersionSound(b, i)
             /\ vers[b][i].rev \in 1..Len(revs'[b]) /\ revs'[b][vers[b][i].rev] = revs[b][vers[b][i].rev]
    OBVIOUS
  <2>1. VersionSound(b, i) /\ vers[b][i].rev \in 1..Len(revs[b])
    BY DEF PubInv, VersionsSound, VersionSound
  <2>2. CASE b = a  BY <2>1, <2>2, <1>3, <1>4
  <2>3. CASE b # a  BY <2>1, <2>3, <1>4
  <2> QED  BY <2>1, <2>2, <2>3
<1>8. VersionsSound'
  <2>1. \A b \in Arts : \A i \in 1..Len(vers'[b]) : VersionSound(b, i)'
    BY ZenonT(30), <1>1, <1>7 DEF VersionSound, Attempt, PublishKey
  <2>2. \A t \in attempts' : IsAttempt(t)' /\ (t.status = "published" => HasVersion(t)')
    BY <1>1 DEF PubInv, VersionsSound, HasVersion, IsAttempt, PublishKey
  <2> QED  BY <2>1, <2>2 DEF VersionsSound
<1>9. HeadsSound'
  <2> SUFFICES ASSUME NEW b \in Arts
      PROVE  /\ HeadSound(head'[b], revs'[b])
             /\ head'[b].owner # NoPubRun =>
                  \A t \in attempts : t.key = PublishKey(b, head'[b].cur) => t.status # "published"
    BY <1>1 DEF HeadsSound, Unpublished, HeadSound, PublishKey
  <2>1. CASE b # a  BY <2>1, <1>4, <1>5a, Facts DEF Unpublished
  <2>2. CASE b = a
    <3>1. HeadSound(head'[b], revs'[b])  BY <2>2, <1>5, <1>5a
    <3>2. ASSUME NEW t \in attempts, t.key = PublishKey(a, h.cur), t.status = "published"
          PROVE  FALSE
      <4>1. HasVersion(t)  BY <3>2 DEF PubInv, VersionsSound
      <4>2. t.key[2] = a /\ t.key[3] = Len(revs[a]) + 1  BY <3>2, <1>3 DEF PublishKey, h
      <4>3. PICK i \in 1..Len(vers[a]) : vers[a][i].rev = Len(revs[a]) + 1
        BY <4>1, <4>2 DEF HasVersion
      <4> QED  BY <4>3, <1>7, <1>3
    <3> QED  BY <3>1, <3>2, <2>2, <1>5a
  <2> QED  BY <2>1, <2>2
<1>10. EventsSound'
  <2>1. PICK type \in EventTypes \ {"published"} : Emitted(a, type)  BY DEF Revises
  <2> QED  BY <2>1, <1>1, EventsAfter
<1> QED  BY <1>6, <1>8, <1>9, <1>10

LEMMA RecordsKeeps ==
  ASSUME PubInv, NEW r \in PubRuns, NEW t, Records(r, t), RunsKept
  PROVE  PubTypes' /\ HeadsSound' /\ VersionsSound' /\ EventsSound'
<1>1. /\ attempts' = attempts \cup {t} /\ t.status # "published" /\ revs' = revs /\ vers' = vers
      /\ t.key[1] # "reject" => t.key[2] \in Arts
  BY DEF Records
<1>2. head \in [Arts -> Heads]  BY DEF PubInv, PubTypes
<1>3. VersionsSound'
  BY <1>1 DEF PubInv, VersionsSound, VersionSound, HasVersion, IsAttempt, Attempt, PublishKey
<1>4. ASSUME NEW b \in Arts
      PROVE  /\ HeadSound(head[b], revs[b])
             /\ head[b].owner # NoPubRun =>
                  \A u \in attempts' : u.key = PublishKey(b, head[b].cur) => u.status # "published"
  BY <1>1, Facts DEF Unpublished
<1>5. CASE UNCHANGED <<head, artEvents, activity>>
  <2>1. PubTypes'  BY <1>1, <1>5 DEF PubInv, PubTypes, RunsKept
  <2>2. HeadsSound'  BY <1>1, <1>4, <1>5 DEF HeadsSound, HeadSound, Unpublished, PublishKey
  <2>3. EventsSound'  BY <1>1, <1>5 DEF PubInv, EventsSound, Publications
  <2> QED  BY <2>1, <2>2, <2>3, <1>3
<1>6. ASSUME NEW a \in Arts, head' = [head EXCEPT ![a] = ReleasedHead(@, "failed")],
             Emitted(a, "failed")
      PROVE  PubTypes' /\ HeadsSound' /\ EventsSound'
  <2>1. /\ ReleasedHead(head[a], "failed") \in Heads
        /\ HeadSound(ReleasedHead(head[a], "failed"), revs[a])
        /\ ReleasedHead(head[a], "failed").owner = NoPubRun
    BY Facts, ReleasedHeads
  <2>2. /\ head'[a] = ReleasedHead(head[a], "failed")
        /\ \A b \in Arts : b # a => head'[b] = head[b]
        /\ head' \in [Arts -> Heads]
    BY <1>2, <1>6, <2>1
  <2>3. PubTypes'  BY <1>1, <2>2 DEF PubInv, PubTypes, RunsKept
  <2>4. HeadsSound'
    <3> SUFFICES ASSUME NEW b \in Arts
        PROVE  /\ HeadSound(head'[b], revs'[b])
               /\ head'[b].owner # NoPubRun =>
                    \A u \in attempts' : u.key = PublishKey(b, head'[b].cur) => u.status # "published"
      BY DEF HeadsSound, Unpublished, HeadSound, PublishKey
    <3>1. CASE b = a  BY <3>1, <2>1, <2>2, <1>1
    <3>2. CASE b # a  BY <3>2, <2>2, <1>1, <1>4
    <3> QED  BY <3>1, <3>2
  <2>5. EventsSound'  BY <1>1, <1>6, EventsAfter
  <2> QED  BY <2>3, <2>4, <2>5
<1> QED  BY <1>3, <1>5, <1>6 DEF Records

LEMMA PublishesKeeps ==
  ASSUME PubInv, NEW r \in PubRuns, r # NoPubRun, NEW a \in Arts, Publishes(r, a), RunsKept
  PROVE  PubTypes' /\ HeadsSound' /\ VersionsSound' /\ EventsSound'
<1> DEFINE n == head[a].cur
           v == [rev |-> n, run |-> r]
           t == Attempt(PublishKey(a, n), r, "published")
<1>1. /\ attempts' = attempts \cup {t} /\ revs' = revs /\ head[a].owner = r
      /\ vers' = [vers EXCEPT ![a] = Append(@, v)]
      /\ head' = [head EXCEPT ![a] = ReleasedHead(@, "idle")]
      /\ Emitted(a, "published")
  BY DEF Publishes
<1>2. /\ head \in [Arts -> Heads] /\ revs \in [Arts -> Seq(PubRuns)]
      /\ vers \in [Arts -> Seq([rev : Nat, run : PubRuns])]
  BY DEF PubInv, PubTypes
<1>3. n = Len(revs[a]) /\ n \in Nat /\ n > 0 /\ revs[a][n] = r /\ Unpublished(a)
  BY <1>1, Facts DEF HeadSound
<1>3a. t.key = PublishKey(a, n) /\ t.run = r /\ t.status = "published"  BY DEF Attempt
<1> HIDE DEF n, t
<1>4. v \in [rev : Nat, run : PubRuns] /\ v.rev = n /\ v.run = r  BY <1>3
<1> HIDE DEF v
<1>4a. /\ vers'[a] = Append(vers[a], v) /\ Len(vers'[a]) = Len(vers[a]) + 1 /\ Len(vers[a]) \in Nat
       /\ \A i \in 1..Len(vers[a]) : vers'[a][i] = vers[a][i]
       /\ vers'[a][Len(vers[a]) + 1] = v
       /\ \A b \in Arts : b # a => vers'[b] = vers[b]
       /\ vers' \in [Arts -> Seq([rev : Nat, run : PubRuns])]
  <2>1. vers'[a] = Append(vers[a], v) /\ (\A b \in Arts : b # a => vers'[b] = vers[b])
    BY <1>1, <1>2
  <2>2. vers[a] \in Seq([rev : Nat, run : PubRuns])  BY <1>2
  <2>3. /\ Append(vers[a], v) \in Seq([rev : Nat, run : PubRuns])
        /\ Len(Append(vers[a], v)) = Len(vers[a]) + 1 /\ Len(vers[a]) \in Nat
        /\ \A i \in 1..Len(vers[a]) : Append(vers[a], v)[i] = vers[a][i]
        /\ Append(vers[a], v)[Len(vers[a]) + 1] = v
    BY <2>2, <1>4, AppendFacts
  <2> QED  BY <2>1, <2>3, <1>1, <1>2
<1>5. /\ head'[a] = ReleasedHead(head[a], "idle") /\ head'[a].owner = NoPubRun
      /\ HeadSound(head'[a], revs[a])
      /\ \A b \in Arts : b # a => head'[b] = head[b]
      /\ head' \in [Arts -> Heads]
  BY <1>1, <1>2, Facts, ReleasedHeads
<1>6. PubTypes'  BY <1>1, <1>2, <1>4a, <1>5 DEF PubInv, PubTypes, RunsKept
<1>7. HeadsSound'
  <2> SUFFICES ASSUME NEW b \in Arts
      PROVE  /\ HeadSound(head'[b], revs'[b])
             /\ head'[b].owner # NoPubRun =>
                  \A u \in attempts' : u.key = PublishKey(b, head'[b].cur) => u.status # "published"
    BY DEF HeadsSound, Unpublished, HeadSound, PublishKey
  <2>1. CASE b = a  BY <2>1, <1>5, <1>1
  <2>2. CASE b # a
    <3>1. t.key # PublishKey(b, head[b].cur)  BY <2>2, <1>3a DEF PublishKey
    <3> QED  BY <3>1, <2>2, <1>5, <1>1, Facts DEF Unpublished
  <2> QED  BY <2>1, <2>2
<1>8. ASSUME NEW i \in 1..Len(vers[a]) PROVE vers[a][i].rev \in 1..n /\ vers[a][i].rev < n
  <2>1. VersionSound(a, i)  BY DEF PubInv, VersionsSound
  <2>2. vers[a][i].rev \in 1..n  BY <2>1, <1>3 DEF VersionSound
  <2>3. Attempt(PublishKey(a, vers[a][i].rev), vers[a][i].run, "published") \in attempts
    BY <2>1 DEF VersionSound
  <2>4. vers[a][i].rev # n  BY <2>3, <1>3 DEF Unpublished, Attempt, n
  <2> QED  BY <2>2, <2>4, <1>3
<1>9. ASSUME NEW b \in Arts, NEW i \in 1..Len(vers'[b])
      PROVE  /\ vers'[b][i].rev \in 1..Len(revs[b])
             /\ revs[b][vers'[b][i].rev] = vers'[b][i].run
             /\ Attempt(PublishKey(b, vers'[b][i].rev), vers'[b][i].run, "published") \in attempts'
             /\ i > 1 => vers'[b][i - 1].rev < vers'[b][i].rev
  <2>1. CASE b # a
    <3>1. VersionSound(b, i) /\ vers'[b] = vers[b]  BY <2>1, <1>4a DEF PubInv, VersionsSound
    <3> QED  BY <3>1, <1>1 DEF VersionSound
  <2>2. CASE b = a /\ i \in 1..Len(vers[a])
    <3>1. VersionSound(a, i)  BY <2>2 DEF PubInv, VersionsSound
    <3>2. vers'[a][i] = vers[a][i] /\ (i > 1 => vers'[a][i - 1] = vers[a][i - 1])
      BY <2>2, <1>4a
    <3> QED  BY <3>1, <3>2, <2>2, <1>1 DEF VersionSound
  <2>3. CASE b = a /\ i = Len(vers[a]) + 1
    <3>1. vers'[b][i].rev = n /\ vers'[b][i].run = r  BY <2>3, <1>4, <1>4a
    <3>2. t \in attempts' /\ t = Attempt(PublishKey(a, n), r, "published")  BY <1>1 DEF t
    <3>3. i > 1 => vers'[b][i - 1].rev < n
      <4> HAVE i > 1
      <4>1. i - 1 \in 1..Len(vers[a]) /\ vers'[a][i - 1] = vers[a][i - 1]  BY <2>3, <1>4a
      <4> QED  BY <4>1, <1>8, <2>3
    <3> QED  BY <3>1, <3>2, <3>3, <2>3, <1>3
  <2> QED  BY <2>1, <2>2, <2>3, <1>4a
<1>10. ASSUME NEW u \in attempts'
       PROVE  /\ IsAttempt(u)
              /\ u.status = "published" =>
                   \E i \in 1..Len(vers'[u.key[2]]) : vers'[u.key[2]][i].rev = u.key[3]
  <2>1. CASE u = t
    <3>1. u.key[1] = "publish" /\ u.key[2] = a /\ u.key[3] = n  BY <2>1, <1>3a DEF PublishKey
    <3>2. IsAttempt(u)  BY <2>1, <3>1, <1>3, <1>3a DEF IsAttempt
    <3>3. Len(vers[a]) + 1 \in 1..Len(vers'[a]) /\ vers'[a][Len(vers[a]) + 1].rev = n  BY <1>4, <1>4a
    <3> QED  BY <3>1, <3>2, <3>3
  <2>2. CASE u \in attempts
    <3>1. IsAttempt(u) /\ (u.status = "published" => HasVersion(u))
      BY <2>2 DEF PubInv, VersionsSound
    <3>2. u.status = "published" => u.key[2] \in Arts  BY <3>1 DEF IsAttempt, PublishKey
    <3>3. CASE u.key[2] = a  BY <3>1, <3>3, <1>4a DEF HasVersion
    <3>4. CASE u.key[2] # a  BY <3>1, <3>2, <3>4, <1>4a DEF HasVersion
    <3> QED  BY <3>1, <3>3, <3>4
  <2> QED  BY <2>1, <2>2, <1>1
<1>11. VersionsSound'
  BY <1>1, <1>9, <1>10 DEF VersionsSound, VersionSound, HasVersion, IsAttempt, Attempt, PublishKey
<1>12. EventsSound'  BY <1>1, <1>4, EventsAfter
<1> QED  BY <1>6, <1>7, <1>11, <1>12

LEMMA KeptKeeps ==
  ASSUME PubInv, Kept, RunsKept, CallsSound'
  PROVE  PubInv'
<1> USE DEF Kept, RunsKept
<1>1. PubTypes'  BY DEF PubInv, PubTypes
<1>2. HeadsSound'  BY DEF PubInv, HeadsSound, HeadSound, Unpublished, PublishKey
<1>3. VersionsSound'
  BY DEF PubInv, VersionsSound, VersionSound, IsAttempt, HasVersion, Attempt, PublishKey
<1>4. EventsSound'  BY DEF PubInv, EventsSound, Publications
<1>5. CleanRuns' /\ Analysed'
  BY DEF PubInv, CleanRuns, MadeGood, Plain, Analysed, HasReport
<1> QED  BY <1>1, <1>2, <1>3, <1>4, <1>5 DEF PubInv

\* A run that works is not one that ends, or has completed, with its worker.
MayWork(r) == r \in Plain => pubRun[r] # "completed" /\ ending[r] = "none"

LEMMA ReportStays ==
  ASSUME PubInv, NEW r \in PubRuns, RunsKept, Works(r)
  PROVE  Analysed'
<1>1. ASSUME NEW q, NEW a \in Arts, NEW i \in 1..Len(vers[a]), vers[a][i].run = q
      PROVE  HasReport(q)'
  <2>1. CASE vers' = vers  BY <1>1, <2>1 DEF HasReport
  <2>2. ASSUME NEW b \in Arts, Publishes(r, b)
        PROVE  HasReport(q)'
    <3> DEFINE v == [rev |-> head[b].cur, run |-> r]
    <3>1. vers \in [Arts -> Seq([rev : Nat, run : PubRuns])] /\ head[b].cur \in Nat
      BY Facts DEF PubInv, PubTypes
    <3>2. v \in [rev : Nat, run : PubRuns]  BY <3>1
    <3>3. vers' = [vers EXCEPT ![b] = Append(@, v)]  BY <2>2 DEF Publishes
    <3> HIDE DEF v
    <3>4. vers[b] \in Seq([rev : Nat, run : PubRuns])  BY <3>1
    <3>5. /\ Len(Append(vers[b], v)) = Len(vers[b]) + 1 /\ Len(vers[b]) \in Nat
          /\ \A k \in 1..Len(vers[b]) : Append(vers[b], v)[k] = vers[b][k]
      BY <3>2, <3>4, AppendFacts
    <3>6. i \in 1..Len(vers'[a]) /\ vers'[a][i] = vers[a][i]
      BY <3>1, <3>3, <3>5, <1>1
    <3> QED  BY <3>6, <1>1 DEF HasReport
  <2> QED  BY <2>1, <2>2 DEF Works, Kept, Revises, Records
<1>2. \A q : HasReport(q) => HasReport(q)'  BY <1>1 DEF HasReport
<1> QED  BY <1>2 DEF PubInv, Analysed, RunsKept

LEMMA CleanAfter ==
  ASSUME PubInv, NEW r \in PubRuns, RunsKept, MayWork(r), Works(r)
  PROVE  CleanRuns'
<1>1. ASSUME NEW q \in Plain, pubRun[q] = "completed" \/ ending[q] = "completed"
      PROVE  /\ \A a \in Arts : head'[a].owner # q
             /\ \A t \in attempts' : t.run = q /\ t.status # "published" => MadeGood(t)'
  <2>1. /\ q # r /\ (\A a \in Arts : head[a].owner # q)
        /\ \A t \in attempts : t.run = q /\ t.status # "published" => MadeGood(t)
    BY <1>1 DEF PubInv, CleanRuns, MayWork
  <2>2. \A a \in Arts : head'[a].owner \in {head[a].owner, r, NoPubRun}
    <3>1. head \in [Arts -> Heads] /\ \A h \in Heads : ReleasedHead(h, "idle").owner = NoPubRun
                                                      /\ ReleasedHead(h, "failed").owner = NoPubRun
      BY DEF PubInv, PubTypes, ReleasedHead, Heads
    <3>2. CASE Kept  BY <3>2 DEF Kept
    <3>3. CASE \E a \in Arts : Revises(r, a)  BY <3>1, <3>3 DEF Revises
    <3>4. CASE \E t : Records(r, t)  BY <3>1, <3>4 DEF Records
    <3>5. CASE \E a \in Arts : Publishes(r, a)  BY <3>1, <3>5 DEF Publishes
    <3> QED  BY <3>2, <3>3, <3>4, <3>5 DEF Works
  <2>3. attempts \subseteq attempts' /\ \A t \in attempts' : t \in attempts \/ t.run = r
    <3>1. CASE Kept  BY <3>1 DEF Kept
    <3>2. CASE \E a \in Arts : Revises(r, a)  BY <3>2 DEF Revises
    <3>3. CASE \E t : Records(r, t)
      <4>1. PICK t : t.run = r /\ attempts' = attempts \cup {t}  BY <3>3 DEF Records
      <4> QED  BY <4>1
    <3>4. CASE \E a \in Arts : Publishes(r, a)
      <4>1. PICK a \in Arts :
              attempts' = attempts \cup {Attempt(PublishKey(a, head[a].cur), r, "published")}
        BY <3>4 DEF Publishes
      <4> QED  BY <4>1 DEF Attempt
    <3> QED  BY <3>1, <3>2, <3>3, <3>4 DEF Works
  <2>4. \A t : MadeGood(t) => MadeGood(t)'  BY <2>3 DEF MadeGood
  <2>5. NoPubRun # q  BY PubRunsAssumption DEF Plain
  <2> QED  BY <2>1, <2>2, <2>3, <2>4, <2>5
<1> QED  BY <1>1 DEF CleanRuns, RunsKept, Plain

LEMMA WorksKeeps ==
  ASSUME PubInv, NEW r \in PubRuns, RunsKept, MayWork(r), Works(r), CallsSound'
  PROVE  PubInv'
<1>1. CleanRuns' /\ Analysed'  BY CleanAfter, ReportStays
<1>2. r # NoPubRun  BY PubRunsAssumption
<1>3. CASE Kept
  BY <1>3, KeptKeeps
<1>4. CASE \E a \in Arts : Revises(r, a)  BY <1>1, <1>2, <1>4, RevisesKeeps DEF PubInv
<1>5. CASE \E t : Records(r, t)  BY <1>1, <1>5, RecordsKeeps DEF PubInv
<1>6. CASE \E a \in Arts : Publishes(r, a)  BY <1>1, <1>2, <1>6, PublishesKeeps DEF PubInv
<1> QED  BY <1>3, <1>4, <1>5, <1>6 DEF Works

LEMMA CallChanges ==
  ASSUME PubInv, NEW r \in PubRuns, NEW call, CallSound(call), RunsKept,
         tx' = [tx EXCEPT ![r] = call], MayWork(r) \/ call.op = "none"
  PROVE  CallsSound'
<1>1. tx = [q \in PubRuns |-> tx[q]]  BY DEF PubInv, CallsSound
<1>2. tx'[r] = call /\ \A q \in PubRuns \ {r} : tx'[q] = tx[q]  BY <1>1
<1>3. tx' = [q \in PubRuns |-> tx'[q]]  BY <1>1
<1> QED  BY <1>2, <1>3 DEF PubInv, CallsSound, CallSound, RunsKept, Plain, MayWork

LEMMA CallEndsSound ==
  ASSUME PubInv, NEW r \in PubRuns, RunsKept, CallEnds(r)
  PROVE  CallsSound'
  BY CallChanges DEF CallEnds, NoCall, CallSound

LEMMA CallFacts ==
  ASSUME PubInv, NEW r \in PubRuns, tx[r].op # "none"
  PROVE  /\ MayWork(r) /\ tx[r].todo \in Seq(Arts) /\ tx[r].todo # <<>>
         /\ Head(tx[r].todo) \in Arts
<1>1. MayWork(r) /\ tx[r].todo \in Seq(Arts) /\ tx[r].todo # <<>>
  BY DEF PubInv, CallsSound, CallSound, MayWork
<1> QED  BY <1>1

-----------------------------------------------------------------------------
(***************************************************************************)
(* Steps of the runs.                                                      *)
(***************************************************************************)
LEMMA SameDataKeeps ==
  ASSUME PubInv, UNCHANGED <<head, revs, vers, attempts, artEvents, activity, tx>>
  PROVE  /\ HeadsSound' /\ VersionsSound' /\ EventsSound'
         /\ \A q : HasReport(q)' <=> HasReport(q)
         /\ \A t : MadeGood(t)' <=> MadeGood(t)
<1>1. HeadsSound' /\ VersionsSound' /\ EventsSound'
  BY ZenonT(30) DEF PubInv, HeadsSound, HeadSound, Unpublished, VersionsSound, VersionSound,
     IsAttempt, HasVersion, EventsSound, Publications
<1> QED  BY <1>1 DEF HasReport, MadeGood

WellEnded == {"completed", "completed_with_warnings"}

(***************************************************************************)
(* No run comes to its end, but one whose end was decided on.              *)
(***************************************************************************)
LEMMA RunStepKeeps ==
  ASSUME PubInv, NEW r \in PubRuns,
         PubRunStarts(r) \/ LosesRun(r) \/ Resume(r) \/ Settles(r) \/ EndRolledBack(r)
  PROVE  PubInv'
<1> USE DEF endVars, NoEnding
<1>1. UNCHANGED <<head, revs, vers, attempts, artEvents, activity, tx>>
  BY DEF PubRunStarts, LosesRun, Resume, Settles, EndRolledBack
<1>2. /\ \/ pubRun' = pubRun
         \/ \E s \in {"queued", "running", "paused", "gone"} : pubRun' = [pubRun EXCEPT ![r] = s]
         \/ pubRun' = [pubRun EXCEPT ![r] = ending[r]] /\ ending[r] # "none"
      /\ ending' \in {ending, [ending EXCEPT ![r] = "none"]}
      /\ strayed \subseteq strayed'
  BY DEF PubRunStarts, LosesRun, Resume, Settles, EndRolledBack
<1>3. /\ pubRun \in [PubRuns -> {"new", "queued", "running", "paused", "gone", "completed",
                                 "completed_with_warnings"}]
      /\ ending \in [PubRuns -> {"none"} \cup WellEnded]
  BY DEF PubInv, PubTypes, WellEnded
<1>4. PubTypes'  BY <1>1, <1>2, <1>3 DEF PubInv, PubTypes, WellEnded
<1>5. \A q \in PubRuns : /\ pubRun'[q] \in WellEnded => pubRun'[q] \in {pubRun[q], ending[q]}
                         /\ ending'[q] # "none" => ending'[q] = ending[q]
  BY <1>2, <1>3 DEF WellEnded
<1>6. Plain' \subseteq Plain  BY <1>2 DEF Plain
<1>7. CallsSound'
  BY <1>1, <1>5, <1>6 DEF PubInv, CallsSound, CallSound, WellEnded, Plain
<1>8. CleanRuns'
  <2>1. ASSUME NEW q \in Plain', pubRun'[q] = "completed" \/ ending'[q] = "completed"
        PROVE  q \in Plain /\ (pubRun[q] = "completed" \/ ending[q] = "completed")
    BY <2>1, <1>5, <1>6 DEF WellEnded, Plain
  <2> QED  BY <2>1, <1>1, SameDataKeeps DEF PubInv, CleanRuns
<1>9. Analysed'
  <2>1. ASSUME NEW q \in PiPubRuns \cap MainRuns, pubRun'[q] \in WellEnded \/ ending'[q] # "none"
        PROVE  pubRun[q] \in WellEnded \/ ending[q] # "none"
    BY <2>1, <1>5, PubRunsAssumption DEF WellEnded
  <2> QED  BY <2>1, <1>1, SameDataKeeps DEF PubInv, Analysed, WellEnded
<1> QED  BY <1>1, <1>4, <1>7, <1>8, <1>9, SameDataKeeps DEF PubInv

LEMMA LeavesRunKeeps ==
  ASSUME PubInv, NEW r \in PubRuns, LeavesRun(r)
  PROVE  PubInv'
<1>1. PICK s \in {"paused", "gone"}, outcome \in {"idle", "failed"} :
        /\ pubRun' = [pubRun EXCEPT ![r] = s]
        /\ head' = [a \in Arts |-> IF head[a].owner = r
                                     THEN ReleasedHead(head[a], outcome) ELSE head[a]]
  BY DEF LeavesRun
<1>2. /\ UNCHANGED <<revs, vers, attempts, artEvents, activity, tx, strayed>>
      /\ ending' = [ending EXCEPT ![r] = "none"]
  BY DEF LeavesRun, NoEnding
<1>3. \A q \in PubRuns : /\ pubRun'[q] \in WellEnded => pubRun'[q] = pubRun[q]
                         /\ ending'[q] # "none" => ending'[q] = ending[q]
  BY <1>1, <1>2 DEF PubInv, PubTypes, WellEnded
<1>4. ASSUME NEW a \in Arts
      PROVE  /\ head'[a] \in Heads /\ HeadSound(head'[a], revs[a])
             /\ head'[a] = head[a] \/ head'[a].owner = NoPubRun
  <2>1. /\ ReleasedHead(head[a], outcome) \in Heads
        /\ HeadSound(ReleasedHead(head[a], outcome), revs[a])
        /\ ReleasedHead(head[a], outcome).owner = NoPubRun
    BY Facts, ReleasedHeads
  <2> QED  BY <1>1, <2>1, Facts
<1>5. PubTypes'  BY <1>1, <1>2, <1>4 DEF PubInv, PubTypes
<1>6. \A q \in PubRuns : q # NoPubRun  BY PubRunsAssumption
<1>7. CallsSound'  BY <1>2, <1>3 DEF PubInv, CallsSound, CallSound, Plain, WellEnded
<1>8. CleanRuns'
  <2>1. ASSUME NEW q \in Plain', pubRun'[q] = "completed" \/ ending'[q] = "completed"
        PROVE  q \in Plain /\ (pubRun[q] = "completed" \/ ending[q] = "completed")
    BY <2>1, <1>2, <1>3 DEF WellEnded, Plain
  <2> QED  BY <2>1, <1>2, <1>4, <1>6 DEF PubInv, CleanRuns, MadeGood, Plain
<1>8a. Analysed'
  BY <1>2, <1>3, PubRunsAssumption DEF PubInv, Analysed, HasReport, WellEnded
<1>9. HeadsSound'
  <2> SUFFICES ASSUME NEW a \in Arts
      PROVE  /\ HeadSound(head'[a], revs'[a])
             /\ head'[a].owner # NoPubRun =>
                  \A u \in attempts' : u.key = PublishKey(a, head'[a].cur) => u.status # "published"
    BY DEF HeadsSound, Unpublished, HeadSound, PublishKey
  <2> QED  BY <1>2, <1>4, Facts DEF Unpublished
<1>10. VersionsSound' /\ EventsSound'
  BY ZenonT(30), <1>2 DEF PubInv, VersionsSound, VersionSound, IsAttempt, HasVersion, EventsSound, Publications
<1> QED  BY <1>5, <1>7, <1>8, <1>8a, <1>9, <1>10 DEF PubInv

(***************************************************************************)
(* A run completes without a warning only when all it failed to publish    *)
(* was published after.                                                    *)
(***************************************************************************)
LEMMA EngineEndsKeeps ==
  ASSUME PubInv, NEW r \in PubRuns, EngineEnds(r)
  PROVE  PubInv'
<1>1. /\ UNCHANGED <<head, revs, vers, attempts, artEvents, activity, tx>>
      /\ pubRun' = pubRun /\ strayed' = strayed
      /\ r \notin PiPubRuns /\ (r \in Plain => tx[r].op = "none") /\ ~ HoldsDraft(r)
  BY DEF EngineEnds, EndIsRead, WorkerIsFree, Plain, NoCall
<1>2. PICK s \in WellEnded :
        ending' = [ending EXCEPT ![r] = s] /\ (s = "completed" => Warnings(r) = {})
  BY DEF EngineEnds, EndIsRead, WellEnded
<1>3. ending \in [PubRuns -> {"none"} \cup WellEnded]  BY DEF PubInv, PubTypes, WellEnded
<1>4. ending'[r] = s /\ \A q \in PubRuns : q # r => ending'[q] = ending[q]  BY <1>2, <1>3
<1>5. PubTypes'  BY <1>1, <1>2, <1>3 DEF PubInv, PubTypes, WellEnded
<1>6. CallsSound'  BY <1>1, <1>4 DEF PubInv, CallsSound, CallSound, Plain
<1>7. Analysed'
  BY <1>1, <1>4, PubRunsAssumption, SameDataKeeps DEF PubInv, Analysed
<1>8. \A a \in Arts : head[a].owner # r
  <2> SUFFICES ASSUME NEW a \in Arts, head[a].owner = r PROVE FALSE  OBVIOUS
  <2>1. r # NoPubRun  BY PubRunsAssumption
  <2>2. head[a].status = "drafting"  BY <2>1, Facts DEF HeadSound
  <2> QED  BY <2>2, <1>1 DEF HoldsDraft
<1>9. ASSUME Warnings(r) = {}, NEW t \in attempts, t.run = r, t.status # "published"
      PROVE  MadeGood(t)
  <2>1. t \in AttemptsOf(r)  BY <1>9 DEF AttemptsOf
  <2>2. Domain(t) \in Failed(r)  BY <2>1, <1>9 DEF Failed
  <2>3. Domain(t) \in Published(r)  BY <2>2, <1>9 DEF Warnings
  <2>4. PICK u \in attempts : u.run = r /\ u.status = "published" /\ Domain(t) = Domain(u)
    BY <2>3 DEF Published, AttemptsOf
  <2>5. u.key[1] = "publish"
    BY <2>4 DEF PubInv, VersionsSound, IsAttempt, PublishKey
  <2>6. Domain(u) = <<"artifact", u.key[2]>>  BY <2>5 DEF Domain
  <2>7. t.key[1] # "reject" /\ t.key[2] = u.key[2]  BY <2>4, <2>6 DEF Domain
  <2> QED  BY <2>4, <2>7, <1>9 DEF MadeGood
<1>10. CleanRuns'
  <2>1. ASSUME NEW q \in Plain, pubRun[q] = "completed" \/ ending'[q] = "completed"
        PROVE  /\ \A a \in Arts : head[a].owner # q
               /\ \A t \in attempts : t.run = q /\ t.status # "published" => MadeGood(t)
    <3>1. CASE q = r /\ ending'[q] = "completed"
      <4>1. Warnings(r) = {}  BY <3>1, <1>2, <1>4
      <4> QED  BY <4>1, <3>1, <1>8, <1>9
    <3>2. CASE pubRun[q] = "completed" \/ ending[q] = "completed"
      BY <3>2 DEF PubInv, CleanRuns
    <3> QED  BY <3>1, <3>2, <2>1, <1>4 DEF Plain
  <2> QED  BY <2>1, <1>1, SameDataKeeps DEF CleanRuns, Plain
<1> QED  BY <1>1, <1>5, <1>6, <1>7, <1>10, SameDataKeeps DEF PubInv

(***************************************************************************)
(* A Pi run of the session analyst ends well only when it counts a version *)
(* of its own; a version stays.                                            *)
(***************************************************************************)
LEMMA GatewayEndsKeeps ==
  ASSUME PubInv, NEW r \in PubRuns, GatewayEnds(r)
  PROVE  PubInv'
<1>1. /\ UNCHANGED <<head, revs, vers, attempts, artEvents, activity, tx>>
      /\ pubRun' = pubRun /\ strayed' = strayed /\ r \in PiPubRuns /\ Reported(r)
  BY DEF GatewayEnds, EndIsRead
<1>2. PICK s \in WellEnded : ending' = [ending EXCEPT ![r] = s]
  BY DEF GatewayEnds, EndIsRead, WellEnded
<1>3. ending \in [PubRuns -> {"none"} \cup WellEnded]  BY DEF PubInv, PubTypes, WellEnded
<1>4. \A q \in PubRuns : q # r => ending'[q] = ending[q]  BY <1>2, <1>3
<1>5. PubTypes'  BY <1>1, <1>2, <1>3 DEF PubInv, PubTypes, WellEnded
<1>6. r \notin Plain /\ Plain' = Plain  BY <1>1 DEF Plain
<1>7. CallsSound'
  BY <1>1, <1>4, <1>6 DEF PubInv, CallsSound, CallSound, Plain
<1>8. CleanRuns'
  BY <1>1, <1>4, <1>6, SameDataKeeps DEF PubInv, CleanRuns, Plain
<1>9. r \in MainRuns => HasReport(r)
  <2> HAVE r \in MainRuns
  <2>1. PICK a \in Arts : vers[a] # <<>> /\ Last(vers[a]).run = r
    BY <1>1 DEF Reported, Current
  <2>2. vers[a] \in Seq([rev : Nat, run : PubRuns])  BY Facts
  <2>3. Len(vers[a]) \in 1..Len(vers[a]) /\ vers[a][Len(vers[a])].run = r
    BY <2>1, <2>2 DEF Last
  <2> QED  BY <2>3 DEF HasReport
<1>10. Analysed'
  BY <1>1, <1>4, <1>9, PubRunsAssumption, SameDataKeeps DEF PubInv, Analysed
<1> QED  BY <1>1, <1>5, <1>7, <1>8, <1>10, SameDataKeeps DEF PubInv

-----------------------------------------------------------------------------
(***************************************************************************)
(* Steps of the calls.                                                     *)
(***************************************************************************)
LEMMA BeginKeeps ==
  ASSUME PubInv, NEW r \in PubRuns, Begin(r)
  PROVE  PubInv'
<1>1. Kept /\ RunsKept /\ MayWork(r)
  BY DEF Begin, Kept, RunsKept, endVars, MayWork, Plain
<1>2. \A list \in SeqOf(Arts, 2) : list \in Seq(Arts)
  <2> TAKE list \in SeqOf(Arts, 2)
  <2>1. PICK m \in 0..2 : list \in [1..m -> Arts]  BY Zenon DEF SeqOf
  <2>2. m \in Nat  BY <2>1
  <2>3. list \in UNION {[1..n -> Arts] : n \in Nat}  BY <2>1, <2>2, Zenon
  <2> QED  BY <2>3, SeqDef, Zenon
<1>3. PICK call : tx' = [tx EXCEPT ![r] = call] /\ CallSound(call)
  <2>1. CASE \E op \in {"create", "update", "abandon"}, a \in Arts :
               tx' = [tx EXCEPT ![r] = [op |-> op, todo |-> <<a>>, snap |-> Snapshot]]
    <3>1. PICK op \in {"create", "update", "abandon"}, a \in Arts :
               tx' = [tx EXCEPT ![r] = [op |-> op, todo |-> <<a>>, snap |-> Snapshot]]
      BY <2>1
    <3>2. CallSound([op |-> op, todo |-> <<a>>, snap |-> Snapshot])  BY DEF CallSound
    <3> QED  BY <3>1, <3>2
  <2>2. CASE \E list \in {s \in SeqOf(Arts, 2) : s # <<>> /\ IsInjective(s)} :
               tx' = [tx EXCEPT ![r] = [op |-> "publish", todo |-> list, snap |-> Snapshot]]
    <3>1. PICK list \in SeqOf(Arts, 2) : list # <<>> /\
               tx' = [tx EXCEPT ![r] = [op |-> "publish", todo |-> list, snap |-> Snapshot]]
      BY <2>2
    <3>2. CallSound([op |-> "publish", todo |-> list, snap |-> Snapshot])
      BY <3>1, <1>2 DEF CallSound
    <3> QED  BY <3>1, <3>2
  <2> QED  BY <2>1, <2>2 DEF Begin
<1>4. CallsSound'  BY <1>1, <1>3, CallChanges
<1> QED  BY <1>1, <1>4, WorksKeeps DEF Works

LEMMA RolledBackKeeps ==
  ASSUME PubInv, NEW r \in PubRuns,
         CallRolledBack(r) \/ (tx[r].op # "none" /\ PubRefused(r))
  PROVE  PubInv'
<1>1. Kept /\ RunsKept /\ CallEnds(r)
  BY DEF CallRolledBack, PubRefused, Kept, RunsKept, endVars
<1>2. CallsSound'  BY <1>1, CallEndsSound
<1> QED  BY <1>1, <1>2, KeptKeeps

LEMMA RevisionKeeps ==
  ASSUME PubInv, NEW r \in PubRuns, NEW a \in Arts, NEW event,
         event = "claim" \/ head[a].owner = r,
         tx[r].op # "none", AddRevision(r, a, event), CallEnds(r)
  PROVE  PubInv'
<1>1. RunsKept /\ MayWork(r)  BY CallFacts DEF AddRevision, RunsKept, endVars
<1>2. CallsSound'  BY <1>1, CallEndsSound
<1>3. event # "claim" => head[a].status = "drafting"
  BY Facts, PubRunsAssumption DEF HeadSound
<1>4. head' = [head EXCEPT ![a] = [cur |-> head[a].cur + 1, owner |-> r, status |-> "drafting"]]
  BY <1>3 DEF AddRevision, PubInv, PubTypes
<1>5. \E type \in EventTypes \ {"published"} : Emitted(a, type)
  BY DEF AddRevision, Emits, Emitted, EventTypes
<1>6. Revises(r, a)  BY <1>4, <1>5 DEF Revises, AddRevision
<1> QED  BY <1>1, <1>2, <1>6, WorksKeeps DEF Works

LEMMA DraftCallKeeps ==
  ASSUME PubInv, NEW r \in PubRuns, CreateOrGetDraft(r) \/ UpdateDraft(r)
  PROVE  PubInv'
<1>1. tx[r].op # "none"  BY DEF CreateOrGetDraft, UpdateDraft
<1>2. Head(tx[r].todo) \in Arts  BY <1>1, CallFacts
<1>3. \/ PubRefused(r)
      \/ AddRevision(r, Head(tx[r].todo), "claim") /\ CallEnds(r)
      \/ /\ head[Head(tx[r].todo)].owner = r
         /\ AddRevision(r, Head(tx[r].todo), "update") /\ CallEnds(r)
  BY DEF CreateOrGetDraft, UpdateDraft
<1> QED  BY <1>1, <1>2, <1>3, RolledBackKeeps, RevisionKeeps

LEMMA ContinuesSound ==
  ASSUME PubInv, NEW r \in PubRuns, tx[r].op # "none", RunsKept, Continues(r)
  PROVE  CallsSound'
<1>1. MayWork(r) /\ tx[r].todo \in Seq(Arts) /\ tx[r].todo # <<>>  BY CallFacts
<1>2. CASE Len(tx[r].todo) = 1
  <2>1. tx' = [tx EXCEPT ![r] = NoCall]  BY <1>2 DEF Continues
  <2> QED  BY <2>1, CallChanges DEF NoCall, CallSound
<1>3. CASE Len(tx[r].todo) # 1
  <2> DEFINE call == [op |-> "publishing", todo |-> Tail(tx[r].todo), snap |-> Snapshot']
  <2>1. tx' = [tx EXCEPT ![r] = call]  BY <1>3 DEF Continues
  <2>2. Tail(tx[r].todo) \in Seq(Arts) /\ Tail(tx[r].todo) # <<>>
    <3>1. /\ Len(tx[r].todo) \in Nat \ {0} /\ Tail(tx[r].todo) \in Seq(Arts)
          /\ Len(Tail(tx[r].todo)) = Len(tx[r].todo) - 1
      BY <1>1, HeadTailProperties, LenProperties
    <3>2. Len(Tail(tx[r].todo)) # 0  BY <3>1, <1>3
    <3>3. Len(<<>>) = 0  BY EmptySeq
    <3> HIDE DEF call
    <3>4. \A s : s = <<>> => Len(s) = 0  BY <3>3
    <3>5. Tail(tx[r].todo) # <<>>  BY <3>2, <3>4
    <3> QED  BY <3>1, <3>5
  <2>3. CallSound(call)  BY <2>2 DEF CallSound
  <2> HIDE DEF call
  <2> QED  BY <2>1, <2>3, <1>1, CallChanges
<1> QED  BY <1>2, <1>3

LEMMA PublishOneKeeps ==
  ASSUME PubInv, NEW r \in PubRuns, PublishOne(r)
  PROVE  PubInv'
<1> DEFINE a == Head(tx[r].todo)
           key == PublishKey(a, head[a].cur)
<1>1. tx[r].op # "none" /\ Continues(r)  BY DEF PublishOne
<1>2. a \in Arts /\ MayWork(r)  BY <1>1, CallFacts
<1> HIDE DEF a
<1>3. \/ Kept /\ RunsKept
      \/ Rejects(r, a)
      \/ /\ attempts' = attempts \cup {Attempt(key, r, "validation_failed")}
         /\ RunsKept /\ UNCHANGED <<head, revs, vers, artEvents, activity>>
      \/ /\ attempts' = attempts \cup {Attempt(key, r, "published")}
         /\ head[a].owner = r /\ Finalize(r, a) /\ RunsKept /\ revs' = revs
  BY DEF PublishOne, Kept, a, RunsKept, endVars
<1>4. RunsKept  BY <1>3 DEF Rejects, RunsKept, endVars
<1>5. CallsSound'  BY <1>1, <1>4, ContinuesSound
<1>6. Works(r)
  <2>1. CASE Kept  BY <2>1 DEF Works
  <2>2. CASE Rejects(r, a)
    <3>1. CASE UNCHANGED attempts  BY <2>2, <3>1 DEF Rejects, Works, Kept
    <3>2. CASE attempts' = attempts \cup {Attempt(RejectKey(r, a), r, "failed")}
      <4>1. Records(r, Attempt(RejectKey(r, a), r, "failed"))
        BY <2>2, <3>2 DEF Rejects, Records, Attempt, RejectKey
      <4> QED  BY <4>1 DEF Works
    <3> QED  BY <2>2, <3>1, <3>2 DEF Rejects
  <2>3. CASE /\ attempts' = attempts \cup {Attempt(key, r, "validation_failed")}
             /\ RunsKept /\ UNCHANGED <<head, revs, vers, artEvents, activity>>
    <3>1. Records(r, Attempt(key, r, "validation_failed"))
      BY <2>3, <1>2 DEF Records, Attempt, PublishKey
    <3> QED  BY <3>1 DEF Works
  <2>4. CASE /\ attempts' = attempts \cup {Attempt(key, r, "published")}
             /\ head[a].owner = r /\ Finalize(r, a) /\ RunsKept /\ revs' = revs
    <3>1. Publishes(r, a)
      BY <2>4 DEF Publishes, Finalize, Emits, Emitted, EventTypes
    <3> QED  BY <3>1, <1>2 DEF Works
  <2> QED  BY <1>3, <2>1, <2>2, <2>3, <2>4
<1> QED  BY <1>2, <1>4, <1>5, <1>6, WorksKeeps

LEMMA AbandonDraftKeeps ==
  ASSUME PubInv, NEW r \in PubRuns, AbandonDraft(r)
  PROVE  PubInv'
<1> DEFINE a == Head(tx[r].todo)
           t == Attempt(AbandonKey(a, head[a].cur), r, "failed")
<1>1. tx[r].op # "none"  BY DEF AbandonDraft
<1>2. a \in Arts /\ MayWork(r)  BY <1>1, CallFacts
<1>3. CASE PubRefused(r)  BY <1>1, <1>3, RolledBackKeeps
<1>4. CASE /\ attempts' = attempts \cup {t}
           /\ head' = [head EXCEPT ![a] = ReleasedHead(@, "failed")]
           /\ Emits(r, a, "failed") /\ CallEnds(r)
           /\ RunsKept /\ UNCHANGED <<revs, vers, calls>>
  <2>1. CallsSound'  BY <1>4, CallEndsSound
  <2>2. Emitted(a, "failed")  BY <1>4 DEF Emits, Emitted, EventTypes
  <2>3. t.run = r /\ t.status # "published" /\ t.key[2] = a  BY DEF Attempt, AbandonKey
  <2> HIDE DEF a, t
  <2>4. Records(r, t)  BY <1>2, <1>4, <2>2, <2>3 DEF Records
  <2> QED  BY <1>2, <1>4, <2>1, <2>4, WorksKeeps DEF Works
<1> QED  BY <1>3, <1>4 DEF AbandonDraft, RunsKept, endVars

-----------------------------------------------------------------------------
LEMMA PubInitSound == PubInit => PubInv
<1> SUFFICES ASSUME PubInit PROVE PubInv  OBVIOUS
<1> USE DEF PubInit
<1>1. NoHead \in Heads /\ HeadSound(NoHead, <<>>)  BY DEF NoHead, Heads, HeadSound
<1>2. PubTypes  BY <1>1 DEF PubTypes
<1>3. CallsSound  BY DEF CallsSound, CallSound, NoCall, Plain
<1>4. HeadsSound  BY <1>1 DEF HeadsSound, Unpublished
<1>5. VersionsSound  BY DEF VersionsSound
<1>6. EventsSound
  <2>1. \A a \in Arts : Publications(a) = {}  BY DEF Publications
  <2>2. \A a \in Arts : Cardinality(Publications(a)) = Len(vers[a])  BY <2>1, FS_EmptySet
  <2>3. Len(artEvents) = 0 /\ artEvents \in Seq([art : Arts, type : EventTypes])  OBVIOUS
  <2>4. activity \in [Arts -> Nat] /\ \A a \in Arts : activity[a] = 0  OBVIOUS
  <2> QED  BY <2>2, <2>3, <2>4 DEF EventsSound
<1>7. CleanRuns /\ Analysed  BY PubRunsAssumption DEF CleanRuns, Analysed, Plain
<1> QED  BY <1>2, <1>3, <1>4, <1>5, <1>6, <1>7 DEF PubInv

LEMMA PubInvStep ==
  ASSUME PubInv, [PubNext]_pubVars
  PROVE  PubInv'
<1>1. ASSUME NEW r \in PubRuns,
             \/ PubRunStarts(r) \/ LosesRun(r) \/ Resume(r) \/ LeavesRun(r)
             \/ EngineEnds(r) \/ GatewayEnds(r) \/ Settles(r) \/ EndRolledBack(r)
      PROVE  PubInv'
  BY <1>1, RunStepKeeps, LeavesRunKeeps, EngineEndsKeeps, GatewayEndsKeeps
<1>2. ASSUME NEW r \in PubRuns,
             \/ Begin(r) \/ CallRolledBack(r) \/ CreateOrGetDraft(r) \/ UpdateDraft(r)
             \/ PublishOne(r) \/ AbandonDraft(r)
      PROVE  PubInv'
  BY <1>2, BeginKeeps, RolledBackKeeps, DraftCallKeeps, PublishOneKeeps, AbandonDraftKeeps
<1>3. CASE UNCHANGED pubVars
  <2>1. Kept /\ RunsKept /\ tx' = tx  BY <1>3 DEF pubVars, endVars, Kept, RunsKept
  <2>2. CallsSound'  BY <2>1 DEF PubInv, CallsSound, CallSound, RunsKept, Plain
  <2> QED  BY <2>1, <2>2, KeptKeeps
<1> QED  BY <1>1, <1>2, <1>3 DEF PubNext

LEMMA PubInvSound == PubInv => PublicationIsSound /\ PubTypeOK
<1> SUFFICES ASSUME PubInv PROVE PublicationIsSound /\ PubTypeOK  OBVIOUS
<1>1. HeadIsOwnersWork
  BY Facts DEF HeadIsOwnersWork, HeadSound, Unpublished, Of, Last
<1>2. \A a \in Arts : vers[a] \in Seq([rev : Nat, run : PubRuns]) /\ DOMAIN vers[a] = 1..Len(vers[a])
  <2>1. \A S : \A s \in Seq(S) : DOMAIN s = 1..Len(s)  OBVIOUS
  <2> QED  BY <2>1, Facts
<1>3. VersionsAreRevisions
  <2>1. \A t \in attempts : t.status = "published" => t.key[2] \in Arts
    BY DEF PubInv, VersionsSound, IsAttempt, PublishKey
  <2> QED
    BY <1>2, <2>1 DEF PubInv, VersionsSound, VersionSound, HasVersion, VersionsAreRevisions
<1>4. EventsTellAll
  <2> SUFFICES ASSUME NEW a \in Arts
      PROVE  LET mine == {i \in DOMAIN artEvents : artEvents[i].art = a} IN
             /\ Cardinality({i \in mine : artEvents[i].type = "published"}) = Len(vers[a])
             /\ activity[a] = IF mine = {} THEN 0 ELSE CHOOSE i \in mine : \A j \in mine : j <= i
    BY DEF EventsTellAll
  <2> DEFINE mine == {i \in DOMAIN artEvents : artEvents[i].art = a}
  <2>1. /\ artEvents \in Seq([art : Arts, type : EventTypes]) /\ activity[a] \in Nat
        /\ Cardinality(Publications(a)) = Len(vers[a])
        /\ \A i \in 1..Len(artEvents) : artEvents[i].art = a => i <= activity[a]
        /\ activity[a] # 0 => activity[a] \in 1..Len(artEvents) /\ artEvents[activity[a]].art = a
    BY DEF PubInv, EventsSound
  <2>2. DOMAIN artEvents = 1..Len(artEvents) /\ Len(artEvents) \in Nat  BY <2>1
  <2>3. {i \in mine : artEvents[i].type = "published"} = Publications(a)
    BY <2>2 DEF Publications
  <2>4. CASE mine = {}
    <3>1. activity[a] = 0  BY <2>1, <2>2, <2>4
    <3> QED  BY <3>1, <2>1, <2>3, <2>4
  <2>5. CASE mine # {}
    <3>1. activity[a] # 0  BY <2>1, <2>2, <2>5
    <3>2. activity[a] \in mine /\ \A j \in mine : j <= activity[a]
      BY <2>1, <2>2, <3>1
    <3>3. \A i \in mine : (\A j \in mine : j <= i) => i = activity[a]
      BY <2>1, <2>2, <3>2
    <3>4. (CHOOSE i \in mine : \A j \in mine : j <= i) = activity[a]
      BY <3>2, <3>3
    <3> QED  BY <3>4, <2>1, <2>3, <2>5
  <2> QED  BY <2>4, <2>5
<1>5. CompletedIsClean
  BY DEF PubInv, CleanRuns, MadeGood, CompletedIsClean, AttemptsOf, Plain
<1>5a. AnalysisIsPublished
  BY <1>2 DEF PubInv, Analysed, HasReport, AnalysisIsPublished
<1>6. PublicationIsSound  BY <1>1, <1>3, <1>4, <1>5, <1>5a DEF PublicationIsSound
<1>7. PubTypeOK
  <2>1. \A a \in Arts : \A i \in DOMAIN vers[a] : vers[a][i].rev \in DOMAIN revs[a]
    <3>1. \A a \in Arts : DOMAIN revs[a] = 1..Len(revs[a])  BY Facts
    <3> QED  BY <1>2, <3>1 DEF PubInv, VersionsSound, VersionSound
  <2> QED  BY <2>1, Facts DEF PubTypeOK, PubInv, PubTypes, HeadSound, Heads
<1> QED  BY <1>6, <1>7

-----------------------------------------------------------------------------
(***************************************************************************)
(* A session.  A message's view that has the last number has seen every    *)
(* key and every question that was answered; a pending question was not.   *)
(***************************************************************************)
RunStatuses == ActiveStatuses \cup EndStatuses \cup {"paused", "clarification_requested"}
RunRow(n) == [status : RunStatuses, key : IdemKeys \cup {NoIdemKey}, answers : 0..n, over : BOOLEAN]

SeesAll(view) ==
  \A r \in RunIds :
    /\ cvRuns[r].key # NoIdemKey =>
         \E s \in 1..Len(view.runs) : view.runs[s].key = cvRuns[r].key
    /\ cvRuns[r].answers \notin view.pending

CallOK(call) ==
  /\ call.kind \in {"retry", "resume"} => call.run \in RunIds
  /\ call.kind = "message" =>
       /\ call.key \in IdemKeys \cup {NoIdemKey}
       /\ call.view.messages \in 0..cvMessages
       /\ call.view.pending \subseteq 1..call.view.messages
       /\ call.view.messages = cvMessages => SeesAll(call.view)

WorkOK ==
  /\ cvStale \subseteq RunIds
  /\ cvWork = [w \in CvWorkers |-> cvWork[w]]
  /\ \A w \in CvWorkers : cvWork[w] # NoWork => cvWork[w].run \in RunIds

CvInv ==
  /\ cvMessages \in Nat /\ cvRuns \in Seq(RunRow(cvMessages))
  /\ cvPending \subseteq 1..cvMessages
  /\ \A r \in RunIds : cvRuns[r].answers \notin cvPending
  /\ cvCalls = [c \in Callers |-> cvCalls[c]]
  /\ \A c \in Callers : CallOK(cvCalls[c])
  /\ WorkOK
  /\ SessionIsSound

LEMMA CvInvInit == CvInit => CvInv
<1> SUFFICES ASSUME CvInit PROVE CvInv  OBVIOUS
<1>1. cvRuns = <<>> /\ cvMessages = 0 /\ cvPending = {} /\ RunIds = {}  BY DEF CvInit, RunIds
<1>2. SessionIsSound
  BY <1>1 DEF CvInit, SessionIsSound, OneAtATime, CvActive, KeysStartOneRun, AnsweredOnce
<1>3. \A c \in Callers : CallOK(cvCalls[c])  BY DEF CvInit, NoCvCall, CallOK
<1>4. WorkOK  BY DEF CvInit, WorkOK
<1> QED  BY <1>1, <1>2, <1>3, <1>4 DEF CvInit, CvInv

LEMMA CvInvSound == CvInv => CvTypeOK /\ SessionIsSound
BY DEF CvInv, CvTypeOK, RunRow, RunStatuses, CallOK, WorkOK

LEMMA RowsAre ==
  ASSUME CvInv
  PROVE  /\ Len(cvRuns) \in Nat /\ RunIds = 1..Len(cvRuns)
         /\ \A r \in RunIds : cvRuns[r] \in RunRow(cvMessages)
BY ElementOfSeq, LenProperties DEF CvInv, RunIds

LEMMA MoreMessages ==
  ASSUME NEW m \in Nat, NEW n \in Nat, m <= n, NEW runs \in Seq(RunRow(m))
  PROVE  runs \in Seq(RunRow(n))
<1>1. RunRow(m) \subseteq RunRow(n)  BY DEF RunRow
<1> QED  BY <1>1, SeqMonotonic

LEMMA NoCallOK == CallOK(NoCvCall) /\ NoCvCall.kind = "none"
BY DEF CallOK, NoCvCall

(***************************************************************************)
(* Requests that arrive or leave.                                          *)
(***************************************************************************)
LEMMA CallsChange ==
  ASSUME CvInv, UNCHANGED <<cvRuns, cvSlot, cvMessages, cvPending, cvWork, cvStale>>,
         NEW c \in Callers, NEW call, CallOK(call), cvCalls' = [cvCalls EXCEPT ![c] = call]
  PROVE  CvInv'
<1>1. \A d \in Callers : CallOK(cvCalls'[d])  BY DEF CvInv
<1>2. \A d \in Callers : CallOK(cvCalls[d])'  BY <1>1 DEF CallOK, SeesAll, RunIds
<1>3. SessionIsSound'
  BY DEF CvInv, SessionIsSound, OneAtATime, CvActive, KeysStartOneRun, AnsweredOnce, RunIds
<1>4. WorkOK'  BY DEF CvInv, WorkOK, RunIds
<1> QED  BY <1>2, <1>3, <1>4 DEF CvInv, RunIds

LEMMA SessionArrives ==
  ASSUME CvInv, NEW c \in Callers,
         UserMessageArrives(c) \/ RetryArrives(c) \/ ResumeArrives(c) \/ CvRefused(c)
  PROVE  CvInv'
<1>1. CASE UserMessageArrives(c)
  <2>1. PICK key \in IdemKeys \cup {NoIdemKey} :
          Arrives(c, [kind |-> "message", key |-> key, view |-> View])
    BY <1>1 DEF UserMessageArrives
  <2> DEFINE call == [kind |-> "message", key |-> key, view |-> View]
  <2>2. CallOK(call)
    BY DEF CallOK, View, CvInv, SeesAll, RunIds
  <2>3. Arrives(c, call)  BY <2>1
  <2> HIDE DEF call
  <2> QED  BY <2>2, <2>3, CallsChange DEF Arrives, workVars
<1>2. CASE RetryArrives(c)
  <2>1. PICK r \in RunIds : Arrives(c, [kind |-> "retry", run |-> r])  BY <1>2 DEF RetryArrives
  <2>2. CallOK([kind |-> "retry", run |-> r])  BY DEF CallOK
  <2> QED  BY <2>1, <2>2, CallsChange DEF Arrives, workVars
<1>3. CASE ResumeArrives(c)
  <2>1. PICK r \in RunIds : Arrives(c, [kind |-> "resume", run |-> r])  BY <1>3 DEF ResumeArrives
  <2>2. CallOK([kind |-> "resume", run |-> r])  BY DEF CallOK
  <2> QED  BY <2>1, <2>2, CallsChange DEF Arrives, workVars
<1>4. CASE CvRefused(c)  BY <1>4, NoCallOK, CallsChange DEF CvRefused, Leaves, workVars
<1> QED  BY <1>1, <1>2, <1>3, <1>4

(***************************************************************************)
(* A run that is there goes on: it keeps its key and what it answers.      *)
(***************************************************************************)
LEMMA RunGoesOn ==
  ASSUME CvInv, NEW r \in RunIds, NEW row,
         row.status \in RunStatuses, row \in RunRow(cvMessages),
         row.key = cvRuns[r].key, row.answers = cvRuns[r].answers,
         cvRuns' = [cvRuns EXCEPT ![r] = row],
         cvMessages' \in {cvMessages, cvMessages + 1},
         cvPending' = cvPending \/ (cvMessages' # cvMessages /\ cvPending' = cvPending \cup {cvMessages'}),
         cvCalls' = [c \in Callers |-> cvCalls'[c]],
         \A c \in Callers : cvCalls'[c] \in {cvCalls[c], NoCvCall},
         cvStale' \subseteq RunIds, cvWork' = [w \in CvWorkers |-> cvWork'[w]],
         \A w \in CvWorkers : cvWork'[w] # NoWork => cvWork'[w].run \in RunIds,
         OneAtATime'
  PROVE  CvInv'
<1>1. /\ cvMessages \in Nat /\ cvRuns \in Seq(RunRow(cvMessages)) /\ cvMessages' \in Nat
      /\ cvMessages <= cvMessages'
  BY DEF CvInv
<1>2. /\ cvRuns' \in Seq(RunRow(cvMessages)) /\ Len(cvRuns') = Len(cvRuns)
      /\ RunIds' = RunIds /\ Len(cvRuns) \in Nat
      /\ \A s \in RunIds : /\ cvRuns[s] \in RunRow(cvMessages)
                           /\ cvRuns'[s] = IF s = r THEN row ELSE cvRuns[s]
                           /\ cvRuns'[s].key = cvRuns[s].key
                           /\ cvRuns'[s].answers = cvRuns[s].answers
  BY <1>1, RowsAre, ExceptSeq DEF RunIds
<1>3. cvRuns' \in Seq(RunRow(cvMessages'))  BY <1>1, <1>2, MoreMessages
<1>4. cvPending' \subseteq 1..cvMessages'  BY <1>1 DEF CvInv
<1>5. \A s \in RunIds : cvRuns'[s].answers \notin cvPending'
  <2>1. \A s \in RunIds : cvRuns[s].answers \in 0..cvMessages  BY <1>2 DEF RunRow
  <2>2. \A s \in RunIds : cvRuns[s].answers \notin cvPending  BY DEF CvInv
  <2> QED  BY <1>1, <1>2, <2>1, <2>2
<1>6. KeysStartOneRun' /\ AnsweredOnce'
  BY <1>2 DEF CvInv, SessionIsSound, KeysStartOneRun, AnsweredOnce
<1>7. \A view : SeesAll(view)' <=> SeesAll(view)  BY <1>2 DEF SeesAll
<1>8. ASSUME NEW c \in Callers PROVE CallOK(cvCalls[c])'
  <2>1. CallOK(cvCalls'[c])  BY NoCallOK DEF CvInv
  <2>2. ASSUME cvCalls'[c].kind = "message" PROVE cvCalls'[c].view.messages \in 0..cvMessages
    BY <2>1, <2>2 DEF CallOK
  <2>3. ASSUME NEW m \in 0..cvMessages, m = cvMessages' PROVE m = cvMessages
    BY <1>1, <2>3
  <2> QED  BY <1>1, <1>2, <1>7, <2>1, <2>2, <2>3 DEF CallOK
<1>9. WorkOK'  BY <1>2 DEF WorkOK
<1> QED  BY <1>1, <1>2, <1>3, <1>4, <1>5, <1>6, <1>8, <1>9 DEF CvInv, SessionIsSound

(***************************************************************************)
(* A run that is led out of the active ones, and one that is begun.        *)
(***************************************************************************)
LEMMA RunChanges ==
  ASSUME CvInv, NEW r \in RunIds, NEW row \in RunRow(cvMessages),
         row.key = cvRuns[r].key, row.answers = cvRuns[r].answers,
         cvRuns' = [cvRuns EXCEPT ![r] = row],
         \/ /\ row.status \notin ActiveStatuses
            /\ cvSlot' = (IF cvSlot = r THEN 0 ELSE cvSlot) /\ cvStale' = cvStale
         \/ /\ row.status \in ActiveStatuses /\ cvSlot' = r
            /\ cvStale' = IF cvRuns[r].status \in ActiveStatuses THEN cvStale ELSE cvStale \cup {r},
         cvMessages' \in {cvMessages, cvMessages + 1},
         cvPending' = cvPending \/ (cvMessages' # cvMessages /\ cvPending' = cvPending \cup {cvMessages'}),
         cvCalls' = cvCalls, cvWork' = [w \in CvWorkers |-> cvWork'[w]],
         \A w \in CvWorkers : cvWork'[w] # NoWork => cvWork'[w].run \in RunIds
  PROVE  CvInv'
<1>1. Len(cvRuns) \in Nat /\ cvRuns \in Seq(RunRow(cvMessages)) /\ r # 0
  BY RowsAre DEF CvInv
<1>2. RunIds' = RunIds /\ \A s \in RunIds : cvRuns'[s] = IF s = r THEN row ELSE cvRuns[s]
  BY <1>1, ExceptSeq DEF RunIds
<1>3. OneAtATime  BY DEF CvInv, SessionIsSound
<1>4. OneAtATime'
  <2>1. CASE row.status \notin ActiveStatuses
    <3>1. CvActive' = CvActive \ {r} /\ cvStale' = cvStale
          /\ cvSlot' = (IF cvSlot = r THEN 0 ELSE cvSlot)
      BY <1>2, <2>1 DEF CvActive
    <3> QED  BY <1>1, <1>3, <3>1 DEF OneAtATime
  <2>2. CASE row.status \in ActiveStatuses /\ cvRuns[r].status \in ActiveStatuses
    <3>1. CvActive' = CvActive /\ r \in CvActive /\ cvStale' = cvStale /\ cvSlot' = r
      BY <1>2, <2>2 DEF CvActive
    <3> QED  BY <1>1, <1>3, <3>1 DEF OneAtATime
  <2>3. CASE row.status \in ActiveStatuses /\ cvRuns[r].status \notin ActiveStatuses
    <3>1. CvActive' = CvActive \cup {r} /\ cvStale' = cvStale \cup {r}
      BY <1>2, <2>3 DEF CvActive
    <3> QED  BY <1>3, <3>1 DEF OneAtATime
  <2> QED  BY <2>1, <2>2, <2>3
<1>5. row.status \in RunStatuses /\ cvStale' \subseteq RunIds
  BY DEF RunRow, CvInv, WorkOK
<1>6. cvCalls' = [c \in Callers |-> cvCalls'[c]]
      /\ \A c \in Callers : cvCalls'[c] \in {cvCalls[c], NoCvCall}
  BY DEF CvInv
<1> QED  BY <1>4, <1>5, <1>6, RunGoesOn

LEMMA LedRow ==
  ASSUME NEW n, NEW row \in RunRow(n), NEW status \in RunStatuses
  PROVE  /\ Led(row, status) \in RunRow(n) /\ Led(row, status).status = status
         /\ Led(row, status).key = row.key /\ Led(row, status).answers = row.answers
BY DEF Led, RunRow

LEMMA RunLeavesKeeps ==
  ASSUME CvInv, NEW r \in RunIds, NEW status \in RunStatuses, status \notin ActiveStatuses,
         TurnsInto(r, status), cvStale' = cvStale,
         cvMessages' \in {cvMessages, cvMessages + 1},
         cvPending' = cvPending \/ (cvMessages' # cvMessages /\ cvPending' = cvPending \cup {cvMessages'}),
         cvCalls' = cvCalls, cvWork' = [w \in CvWorkers |-> cvWork'[w]],
         \A w \in CvWorkers : cvWork'[w] # NoWork => cvWork'[w].run \in RunIds
  PROVE  CvInv'
<1> DEFINE new == Led(cvRuns[r], status)
<1>1. cvRuns[r] \in RunRow(cvMessages)  BY RowsAre
<1>2. new \in RunRow(cvMessages) /\ new.status = status
      /\ new.key = cvRuns[r].key /\ new.answers = cvRuns[r].answers
  BY <1>1, LedRow
<1>3. cvRuns' = [cvRuns EXCEPT ![r] = new]  BY DEF TurnsInto
<1>4. new.status \notin ActiveStatuses /\ cvSlot' = (IF cvSlot = r THEN 0 ELSE cvSlot)
  BY <1>2 DEF TurnsInto, ClearsSlot
<1> HIDE DEF new
<1> QED  BY <1>2, <1>3, <1>4, RunChanges

(***************************************************************************)
(* The workers.                                                            *)
(***************************************************************************)
LEMMA WorkersGo ==
  ASSUME CvInv, NEW w \in CvWorkers, cvWork[w].at # "idle",
         Stops(w) \/ (\E step \in {"working", "answered"} : Goes(w, step))
  PROVE  /\ cvWork[w].run \in RunIds /\ cvCalls' = cvCalls
         /\ cvWork' = [v \in CvWorkers |-> cvWork'[v]]
         /\ \A v \in CvWorkers : cvWork'[v] # NoWork => cvWork'[v].run \in RunIds
<1>1. cvWork[w].run \in RunIds  BY DEF CvInv, WorkOK, NoWork
<1>2. \A v \in CvWorkers : v # w => cvWork'[v] = cvWork[v]  BY DEF Stops, Goes, CvInv, WorkOK
<1>3. cvWork'[w] # NoWork => cvWork'[w].run \in RunIds
  <2>1. CASE Stops(w)  BY <2>1 DEF Stops, CvInv, WorkOK
  <2>2. CASE \E step \in {"working", "answered"} : Goes(w, step)
    <3>1. PICK step \in {"working", "answered"} : cvWork' = [cvWork EXCEPT ![w].at = step]
      BY <2>2 DEF Goes
    <3>2. cvWork'[w] = [cvWork[w] EXCEPT !.at = step]  BY <3>1 DEF CvInv, WorkOK
    <3> QED  BY <1>1, <3>2
  <2> QED  BY <2>1, <2>2
<1>4. cvWork' = [v \in CvWorkers |-> cvWork'[v]]  BY DEF Stops, Goes, CvInv, WorkOK
<1>5. cvCalls' = cvCalls  BY DEF Stops, Goes
<1> QED  BY <1>1, <1>2, <1>3, <1>4, <1>5 DEF CvInv, WorkOK

\* The runs stay as they are.
LEMMA WorkKeeps ==
  ASSUME CvInv, UNCHANGED <<cvRuns, cvSlot, cvPending, cvStale, cvCalls>>,
         cvMessages' \in {cvMessages, cvMessages + 1},
         cvWork' = [v \in CvWorkers |-> cvWork'[v]],
         \A v \in CvWorkers : cvWork'[v] # NoWork => cvWork'[v].run \in RunIds
  PROVE  CvInv'
<1>1. cvMessages \in Nat /\ cvMessages' \in Nat /\ cvMessages <= cvMessages' /\ RunIds' = RunIds
  BY DEF CvInv, RunIds
<1>2. cvRuns' \in Seq(RunRow(cvMessages'))  BY <1>1, MoreMessages DEF CvInv
<1>3. cvPending' \subseteq 1..cvMessages'  BY <1>1 DEF CvInv
<1>4. ASSUME NEW c \in Callers PROVE CallOK(cvCalls[c])'
  <2>1. CallOK(cvCalls[c]) /\ cvCalls'[c] = cvCalls[c]  BY DEF CvInv
  <2>2. \A view : SeesAll(view)' <=> SeesAll(view)  BY <1>1 DEF SeesAll
  <2>3. \A m \in 0..cvMessages : m \in 0..cvMessages' /\ (m = cvMessages' => m = cvMessages)
    BY <1>1
  <2> QED  BY <1>1, <2>1, <2>2, <2>3 DEF CallOK
<1>5. SessionIsSound'
  BY <1>1 DEF CvInv, SessionIsSound, OneAtATime, CvActive, KeysStartOneRun, AnsweredOnce
<1>6. WorkOK'  BY <1>1 DEF CvInv, WorkOK
<1> QED  BY <1>1, <1>2, <1>3, <1>4, <1>5, <1>6 DEF CvInv

LEMMA WorkerKeeps ==
  ASSUME CvInv, NEW w \in CvWorkers, WorkerStep(w)
  PROVE  CvInv'
<1> DEFINE r == cvWork[w].run
<1>1. CASE PicksUp(w)
  <2>1. PICK s \in RunIds : cvWork' = [cvWork EXCEPT ![w] = [at |-> cvRuns[s].status, run |-> s]]
    BY <1>1 DEF PicksUp
  <2>2. cvWork' = [v \in CvWorkers |-> cvWork'[v]]
        /\ \A v \in CvWorkers : cvWork'[v] # NoWork => cvWork'[v].run \in RunIds
    BY <2>1 DEF CvInv, WorkOK
  <2> QED  BY <1>1, <2>2, WorkKeeps DEF PicksUp, CvInv
<1>2. CASE LeavesWork(w)
  <2>1. cvWork' = [v \in CvWorkers |-> cvWork'[v]]
        /\ \A v \in CvWorkers : cvWork'[v] # NoWork => cvWork'[v].run \in RunIds
    BY <1>2 DEF LeavesWork, Stops, CvInv, WorkOK
  <2> QED  BY <1>2, <2>1, WorkKeeps DEF LeavesWork, Stops, CvInv
<1>3. CASE BeginAttempt(w)
  <2>1. cvWork[w].at # "idle" /\ Goes(w, "working")  BY <1>3 DEF BeginAttempt, ActiveStatuses
  <2>2. r \in RunIds /\ cvCalls' = cvCalls
        /\ cvWork' = [v \in CvWorkers |-> cvWork'[v]]
        /\ \A v \in CvWorkers : cvWork'[v] # NoWork => cvWork'[v].run \in RunIds
    BY <2>1, WorkersGo
  <2> DEFINE old == cvRuns[r]
             row == [old EXCEPT !.status = "running"]
  <2>3. "running" \in RunStatuses /\ "running" \in ActiveStatuses  BY DEF RunStatuses, ActiveStatuses
  <2>4. old \in RunRow(cvMessages)  BY <2>2, RowsAre
  <2>5. row \in RunRow(cvMessages) /\ row.status = "running"
        /\ row.key = cvRuns[r].key /\ row.answers = cvRuns[r].answers
    BY <2>3, <2>4 DEF RunRow
  <2>6. cvRuns' = [cvRuns EXCEPT ![r] = row]  BY <1>3 DEF BeginAttempt
  <2>7. /\ cvSlot' = r /\ cvMessages' = cvMessages /\ cvPending' = cvPending
        /\ cvStale' = IF cvRuns[r].status \in ActiveStatuses THEN cvStale ELSE cvStale \cup {r}
    BY <1>3 DEF BeginAttempt
  <2> HIDE DEF row, old, r
  <2> QED  BY <2>2, <2>3, <2>5, <2>6, <2>7, RunChanges
<1>4. CASE JoinsAttempt(w)
  <2>1. cvWork[w].at # "idle" /\ Goes(w, "working")  BY <1>4 DEF JoinsAttempt
  <2> QED  BY <1>4, <2>1, WorkersGo, WorkKeeps DEF JoinsAttempt, CvInv
<1>5. CASE Answers(w)
  <2>1. cvWork[w].at # "idle" /\ Goes(w, "answered")  BY <1>5 DEF Answers
  <2> QED  BY <1>5, <2>1, WorkersGo, WorkKeeps DEF Answers, CvInv
<1>6. ASSUME NEW status \in {"paused", "failed", "clarification_requested", "completed"},
             TurnsInto(r, status), Stops(w), cvWork[w].at # "idle", cvStale' = cvStale,
             cvMessages' \in {cvMessages, cvMessages + 1},
             cvPending' = cvPending \/ (cvMessages' # cvMessages /\ cvPending' = cvPending \cup {cvMessages'})
      PROVE  CvInv'
  <2>1. status \in RunStatuses /\ status \notin ActiveStatuses
    BY DEF RunStatuses, ActiveStatuses, EndStatuses
  <2>2. r \in RunIds /\ cvCalls' = cvCalls
        /\ cvWork' = [v \in CvWorkers |-> cvWork'[v]]
        /\ \A v \in CvWorkers : cvWork'[v] # NoWork => cvWork'[v].run \in RunIds
    BY <1>6, WorkersGo
  <2> HIDE DEF r
  <2> QED  BY <1>6, <2>1, <2>2, RunLeavesKeeps
<1>7. CASE Pause(w) \/ Fails(w)
  <2>1. PICK status \in {"paused", "failed"} : Leads(w, status)  BY <1>7 DEF Pause, Fails
  <2>2. cvMessages' = cvMessages /\ cvPending' = cvPending  BY <1>7 DEF Pause, Fails
  <2> QED  BY <1>6, <2>1, <2>2 DEF Leads
<1>8. CASE AskUser(w)
  <2>1. cvMessages' # cvMessages /\ cvMessages' = cvMessages + 1  BY <1>8 DEF AskUser, CvInv
  <2>2. /\ TurnsInto(r, "clarification_requested") /\ Stops(w) /\ cvWork[w].at # "idle"
        /\ cvStale' = cvStale /\ cvPending' = cvPending \cup {cvMessages'}
    BY <1>8 DEF AskUser, Leads
  <2> QED  BY <1>6, <2>1, <2>2
<1>9. CASE Completes(w)
  <2>1. /\ TurnsInto(r, "completed") /\ Stops(w) /\ cvWork[w].at # "idle"
        /\ UNCHANGED <<cvMessages, cvPending, cvStale>>
    BY <1>9 DEF Completes
  <2> QED  BY <1>6, <2>1
<1> QED  BY <1>1, <1>2, <1>3, <1>4, <1>5, <1>7, <1>8, <1>9 DEF WorkerStep

LEMMA CancelsKeeps ==
  ASSUME CvInv, NEW r \in RunIds, Cancels(r)
  PROVE  CvInv'
<1>1. "cancelled" \in RunStatuses /\ "cancelled" \notin ActiveStatuses
  BY DEF RunStatuses, ActiveStatuses, EndStatuses
<1>2. cvWork' = [v \in CvWorkers |-> cvWork'[v]]
      /\ \A v \in CvWorkers : cvWork'[v] # NoWork => cvWork'[v].run \in RunIds
  BY DEF Cancels, workVars, CvInv, WorkOK
<1>3. TurnsInto(r, "cancelled") /\ UNCHANGED <<cvMessages, cvPending, cvCalls, cvStale>>
  BY DEF Cancels, workVars
<1> QED  BY <1>1, <1>2, <1>3, RunLeavesKeeps

LEMMA ResumeKeeps ==
  ASSUME CvInv, NEW c \in Callers, ResumeRun(c)
  PROVE  CvInv'
<1> DEFINE r == cvCalls[c].run
           old == cvRuns[r]
           row == [old EXCEPT !.status = "running"]
<1>1. r \in RunIds /\ old \in RunRow(cvMessages) /\ Len(cvRuns) \in Nat
      /\ cvRuns \in Seq(RunRow(cvMessages))
  BY RowsAre DEF ResumeRun, CvInv, CallOK
<1>2. row \in RunRow(cvMessages) /\ row.key = old.key /\ row.answers = old.answers
      /\ row.status \in RunStatuses /\ row.status \in ActiveStatuses
  BY <1>1 DEF RunRow, RunStatuses, ActiveStatuses
<1>3. /\ cvRuns' = [cvRuns EXCEPT ![r] = row] /\ cvSlot' = r
      /\ cvMessages' = cvMessages /\ cvPending' = cvPending
      /\ cvCalls' = [cvCalls EXCEPT ![c] = NoCvCall]
      /\ \A s \in RunIds : cvRuns[s].status \notin ActiveStatuses
      /\ cvStale' = cvStale /\ cvWork' = cvWork
  BY DEF ResumeRun, Leaves, IsFree, workVars
<1> HIDE DEF r, row
<1>4. RunIds' = RunIds /\ \A s \in RunIds : cvRuns'[s] = IF s = r THEN row ELSE cvRuns[s]
  BY <1>1, <1>2, <1>3, ExceptSeq DEF RunIds
<1>5. OneAtATime'
  <2>1. CvActive' = {r}  BY <1>1, <1>2, <1>3, <1>4 DEF CvActive
  <2>2. r # 0  BY <1>1 DEF RunIds
  <2> QED  BY <1>3, <2>1, <2>2 DEF OneAtATime
<1>6. cvCalls' = [d \in Callers |-> cvCalls'[d]]
      /\ \A d \in Callers : cvCalls'[d] \in {cvCalls[d], NoCvCall}
  BY <1>3 DEF CvInv
<1>7. /\ cvStale' \subseteq RunIds /\ cvWork' = [w \in CvWorkers |-> cvWork'[w]]
      /\ \A w \in CvWorkers : cvWork'[w] # NoWork => cvWork'[w].run \in RunIds
  BY <1>3 DEF CvInv, WorkOK
<1> QED  BY <1>1, <1>2, <1>3, <1>5, <1>6, <1>7, RunGoesOn

(***************************************************************************)
(* A new run.                                                              *)
(***************************************************************************)
LEMMA NewRunKeeps ==
  ASSUME CvInv, NEW c \in Callers, IsFree(c), NEW key \in IdemKeys \cup {NoIdemKey},
         NEW answers \in 0..cvMessages, Starts(NewRun(key, answers)),
         cvCalls' = [cvCalls EXCEPT ![c] = NoCvCall], UNCHANGED <<cvWork, cvStale>>,
         \A s \in RunIds : /\ key # NoIdemKey => cvRuns[s].key # key
                           /\ answers # 0 => cvRuns[s].answers # answers,
         \/ key = NoIdemKey /\ answers = 0 /\ cvMessages' = cvMessages /\ cvPending' = cvPending
         \/ cvMessages' = cvMessages + 1 /\ cvPending' \subseteq cvPending \ {answers}
  PROVE  CvInv'
<1> DEFINE run == NewRun(key, answers)
           n == Len(cvRuns)
<1>1. /\ cvMessages \in Nat /\ cvRuns \in Seq(RunRow(cvMessages)) /\ cvMessages' \in Nat
      /\ cvMessages <= cvMessages'
  BY DEF CvInv
<1>2. /\ run \in RunRow(cvMessages) /\ run.key = key /\ run.answers = answers
      /\ run.status \in ActiveStatuses
  BY DEF NewRun, RunRow, RunStatuses, ActiveStatuses
<1>3. cvRuns' = Append(cvRuns, run) /\ cvSlot' = n + 1  BY DEF Starts
<1> HIDE DEF run
<1>4. /\ cvRuns' \in Seq(RunRow(cvMessages)) /\ n \in Nat /\ Len(cvRuns') = n + 1
      /\ RunIds = 1..n /\ RunIds' = 1..n + 1
      /\ cvRuns'[n + 1] = run /\ \A s \in RunIds : cvRuns'[s] = cvRuns[s]
  BY <1>1, <1>2, <1>3, AppendProperties, LenProperties DEF RunIds
<1> HIDE DEF n
<1>5. \A s \in RunIds' : s = n + 1 \/ s \in RunIds  BY <1>4
<1>6. cvRuns' \in Seq(RunRow(cvMessages'))  BY <1>1, <1>4, MoreMessages
<1>7. cvPending' \subseteq 1..cvMessages' /\ cvPending' \subseteq cvPending  BY <1>1 DEF CvInv
<1>8. \A s \in RunIds' : cvRuns'[s].answers \notin cvPending'
  <2>1. answers \notin cvPending'  BY <1>7 DEF CvInv
  <2>2. \A s \in RunIds : cvRuns[s].answers \notin cvPending  BY DEF CvInv
  <2> QED  BY <1>2, <1>4, <1>5, <1>7, <2>1, <2>2
<1>9. OneAtATime'
  <2>1. \A s \in RunIds : cvRuns[s].status \notin ActiveStatuses  BY DEF IsFree
  <2>2. CvActive' = {n + 1}  BY <1>2, <1>4, <1>5, <2>1 DEF CvActive
  <2>3. n + 1 # 0  BY <1>4
  <2>4. cvSlot' = n + 1  BY <1>3 DEF n
  <2> QED  BY <2>2, <2>3, <2>4 DEF OneAtATime
<1>10. KeysStartOneRun'
  <2>1. KeysStartOneRun  BY DEF CvInv, SessionIsSound
  <2> QED  BY <1>2, <1>4, <1>5, <2>1 DEF KeysStartOneRun
<1>11. AnsweredOnce'
  BY <1>2, <1>4, <1>5 DEF CvInv, SessionIsSound, AnsweredOnce
<1>12. ASSUME NEW d \in Callers PROVE CallOK(cvCalls[d])'
  <2>1. CallOK(cvCalls'[d])  BY NoCallOK DEF CvInv
  <2>2. cvCalls'[d].kind \in {"retry", "resume"} => cvCalls'[d].run \in RunIds'
    BY <1>4, <2>1 DEF CallOK
  <2>3. CASE cvMessages' = cvMessages + 1
    <3>1. \A m \in 0..cvMessages : m # cvMessages' /\ m \in 0..cvMessages'  BY <1>1, <2>3
    <3> QED  BY <2>1, <2>2, <3>1 DEF CallOK
  <2>4. CASE key = NoIdemKey /\ answers = 0 /\ cvMessages' = cvMessages
    <3>1. \A view : view.pending \subseteq 1..cvMessages /\ SeesAll(view) => SeesAll(view)'
      <4> SUFFICES ASSUME NEW view, view.pending \subseteq 1..cvMessages, SeesAll(view),
                          NEW s \in RunIds'
          PROVE  /\ cvRuns'[s].key # NoIdemKey =>
                      \E t \in 1..Len(view.runs) : view.runs[t].key = cvRuns'[s].key
                 /\ cvRuns'[s].answers \notin view.pending
        BY DEF SeesAll
      <4>1. CASE s = n + 1
        <5>1. 0 \notin view.pending  BY <1>1
        <5> QED  BY <1>2, <1>4, <2>4, <4>1, <5>1
      <4>2. CASE s \in RunIds  BY <1>4, <4>2 DEF SeesAll
      <4> QED  BY <1>5, <4>1, <4>2
    <3> QED  BY <2>1, <2>2, <2>4, <3>1 DEF CallOK
  <2> QED  BY <2>3, <2>4
<1>13. cvCalls' = [d \in Callers |-> cvCalls'[d]]  BY DEF CvInv
<1>14. WorkOK'
  <2>1. RunIds \subseteq RunIds'  BY <1>4
  <2> QED  BY <2>1 DEF CvInv, WorkOK
<1> QED
  BY <1>1, <1>6, <1>7, <1>8, <1>9, <1>10, <1>11, <1>12, <1>13, <1>14 DEF CvInv, SessionIsSound

LEMMA AppendMessageKeeps ==
  ASSUME CvInv, NEW c \in Callers, AppendMessage(c)
  PROVE  CvInv'
<1> DEFINE call == cvCalls[c]
           view == call.view
           a == Answered(call)
<1>1. /\ call.key \in IdemKeys \cup {NoIdemKey} /\ view.messages \in 0..cvMessages
      /\ view.pending \subseteq 1..view.messages
      /\ view.messages = cvMessages => SeesAll(view)
  BY DEF AppendMessage, CvInv, CallOK
<1>2. /\ IsFree(c) /\ ~ Replays(call) /\ view.messages + 1 > cvMessages
      /\ Starts(NewRun(call.key, a))
      /\ cvMessages' = view.messages + 1 /\ cvPending' = cvPending \ view.pending
      /\ cvCalls' = [cvCalls EXCEPT ![c] = NoCvCall] /\ UNCHANGED <<cvWork, cvStale>>
  BY DEF AppendMessage, Number, Leaves, workVars
<1>3. cvMessages \in Nat /\ view.messages = cvMessages /\ SeesAll(view)
  BY <1>1, <1>2 DEF CvInv
<1>4. a \in 0..cvMessages /\ (a = 0 \/ a \in view.pending)
      /\ (view.pending = {} => a = 0)
  <2>1. CASE view.pending = {}  BY <1>3, <2>1 DEF Answered
  <2>2. CASE view.pending # {}
    <3>1. view.pending \subseteq 0..cvMessages  BY <1>1, <1>3
    <3>2. Max(view.pending) \in view.pending  BY <1>3, <2>2, <3>1, MaxIs
    <3> QED  BY <2>2, <3>1, <3>2 DEF Answered
  <2> QED  BY <2>1, <2>2
<1>5. \A s \in RunIds : /\ call.key # NoIdemKey => cvRuns[s].key # call.key
                        /\ a # 0 => cvRuns[s].answers # a
  BY <1>2, <1>3, <1>4 DEF SeesAll, Replays
<1>6. cvPending' \subseteq cvPending \ {a}
  <2>1. 0 \notin cvPending  BY <1>3 DEF CvInv
  <2> QED  BY <1>2, <1>4, <2>1
<1>7. cvMessages' = cvMessages + 1  BY <1>2, <1>3
<1> HIDE DEF a, view, call
<1> QED  BY <1>1, <1>2, <1>4, <1>5, <1>6, <1>7, NewRunKeeps

LEMMA CvInvStep ==
  ASSUME CvInv, [CvNext]_cvVars
  PROVE  CvInv'
<1>1. ASSUME UNCHANGED <<cvRuns, cvSlot, cvMessages, cvPending, cvCalls, cvWork, cvStale>>
      PROVE  CvInv'
  <2>1. \A d \in Callers : CallOK(cvCalls[d])'  BY <1>1 DEF CvInv, CallOK, SeesAll, RunIds
  <2>2. SessionIsSound'
    BY <1>1 DEF CvInv, SessionIsSound, OneAtATime, CvActive, KeysStartOneRun, AnsweredOnce, RunIds
  <2>3. WorkOK'  BY <1>1 DEF CvInv, WorkOK, RunIds
  <2> QED  BY <1>1, <2>1, <2>2, <2>3 DEF CvInv, RunIds
<1>2. ASSUME NEW c \in Callers, RetryRun(c) PROVE CvInv'
  <2>1. 0 \in 0..cvMessages /\ cvCalls' = [cvCalls EXCEPT ![c] = NoCvCall]
        /\ UNCHANGED <<cvWork, cvStale>>
    BY <1>2 DEF RetryRun, Leaves, CvInv, workVars
  <2> QED  BY <1>2, <2>1, NewRunKeeps DEF RetryRun
<1> QED
  BY <1>1, <1>2, AppendMessageKeeps, ResumeKeeps, SessionArrives, WorkerKeeps, CancelsKeeps
     DEF CvNext, CallStep, Closes, cvVars, workVars

-----------------------------------------------------------------------------
(***************************************************************************)
(* A row keeps its signature, and what is in quarantine stays there: the   *)
(* catalog is at least as far as any view that a refresh may have of it.   *)
(***************************************************************************)
CatalogRow == [sig : Sigs \cup {NoSig}, ok : BOOLEAN]

TrueRow(row, t) ==
  row.ok => row.sig # NoSig /\ (Reviewed[t] # NoSig => row.sig = Reviewed[t])

NotBefore(now, view) ==
  view.sig # NoSig => now.sig = view.sig /\ (now.ok => view.ok)

ListingOK(l) ==
  /\ l.offer \in [Tools -> Sigs \cup {NoSig}] /\ l.rows \in [Tools -> CatalogRow]
  /\ \A t \in Tools : TrueRow(l.rows[t], t) /\ NotBefore(tcRow[t], l.rows[t])

TcInv ==
  /\ tcOffer \in [Tools -> Sigs \cup {NoSig}] /\ tcRow \in [Tools -> CatalogRow]
  /\ \A t \in Tools : TrueRow(tcRow[t], t)
  /\ \A p \in Processes : ListingOK(tcListed[p])
  /\ tcListed = [p \in Processes |-> tcListed[p]]
  /\ tcFound \subseteq Tools
  /\ \A t \in tcFound : tcRow[t].sig # NoSig /\ ~tcRow[t].ok
  /\ tcWrong = FALSE

LEMMA NoRowIsRow ==
  /\ NoRow \in CatalogRow /\ ~NoRow.ok /\ NoRow.sig = NoSig
  /\ \A row \in CatalogRow : \A t \in Tools :
       TrueRow(row, t) /\ row.sig = NoSig => row = NoRow
  BY DEF NoRow, CatalogRow, TrueRow

LEMMA EmptyListing ==
  ASSUME TcInv PROVE ListingOK(NotListing)
  BY NoRowIsRow DEF NotListing, Nothing, ListingOK, TrueRow, NotBefore

(***************************************************************************)
(* What one refresh makes of one row.                                      *)
(***************************************************************************)
LEMMA RefreshedRow ==
  ASSUME NEW t \in Tools, NEW row \in CatalogRow, NEW offer \in Sigs \cup {NoSig},
         TrueRow(row, t)
  PROVE  LET made == Refreshed(row, offer, t) IN
         /\ made \in CatalogRow /\ TrueRow(made, t) /\ NotBefore(made, row)
         /\ Faulty(row, offer, t) => made.sig # NoSig /\ ~made.ok
<1> DEFINE made == Refreshed(row, offer, t)
<1>1. CASE row.sig = NoSig /\ offer # NoSig /\ Reviewed[t] \in {NoSig, offer}
  <2>1. made = [sig |-> offer, ok |-> TRUE] BY <1>1 DEF Refreshed, Faulty
  <2> QED BY <1>1, <2>1 DEF CatalogRow, TrueRow, NotBefore, Faulty
<1>2. CASE Faulty(row, offer, t)
  <2>1. made = [row EXCEPT !.ok = FALSE] BY <1>2 DEF Refreshed, Faulty
  <2>2. made \in CatalogRow /\ made.sig = row.sig /\ made.ok = FALSE BY <2>1 DEF CatalogRow
  <2> QED BY <1>2, <2>2 DEF TrueRow, NotBefore, Faulty
<1>3. CASE ~(row.sig = NoSig /\ offer # NoSig /\ Reviewed[t] \in {NoSig, offer})
           /\ ~Faulty(row, offer, t)
  <2>1. made = row BY <1>3 DEF Refreshed
  <2> QED BY <1>3, <2>1 DEF NotBefore
<1> QED BY <1>1, <1>2, <1>3

(***************************************************************************)
(* The catalog that a refresh writes, from a view that may be old.         *)
(***************************************************************************)
LEMMA WrittenRow ==
  ASSUME NEW t \in Tools, NEW now \in CatalogRow, NEW row \in CatalogRow,
         NEW offer \in Sigs \cup {NoSig},
         TrueRow(now, t), TrueRow(row, t), NotBefore(now, row),
         row = NoRow /\ Refreshed(row, offer, t) # NoRow => now = NoRow
  PROVE  LET made == Refreshed(row, offer, t)
             new  == IF made # row THEN made ELSE now IN
         /\ new \in CatalogRow /\ TrueRow(new, t) /\ NotBefore(new, now)
         /\ Faulty(row, offer, t) => new.sig # NoSig /\ ~new.ok
<1> DEFINE made == Refreshed(row, offer, t)
           new  == IF made # row THEN made ELSE now
<1>0. /\ made \in CatalogRow /\ TrueRow(made, t) /\ NotBefore(made, row)
      /\ Faulty(row, offer, t) => made.sig # NoSig /\ ~made.ok
  BY RefreshedRow
<1>1. CASE made = row
  <2>1. new = now BY <1>1
  <2>2. Faulty(row, offer, t) => now.sig # NoSig /\ ~now.ok
    BY <1>0, <1>1 DEF NotBefore
  <2> QED BY <2>1, <2>2 DEF NotBefore
<1>2. CASE made # row
  <2>1. new = made BY <1>2
  <2>2. CASE row = NoRow
    BY <1>0, <1>2, <2>1, <2>2, NoRowIsRow DEF NotBefore
  <2>3. CASE row # NoRow
    <3>1. row.sig # NoSig BY <2>3, NoRowIsRow
    <3>2. Faulty(row, offer, t) BY <1>2, <3>1 DEF Refreshed
    <3> QED BY <1>0, <2>1, <2>3, <3>1, <3>2 DEF NotBefore
  <2> QED BY <2>2, <2>3
<1> QED BY <1>1, <1>2

LEMMA LaterIsNotBefore ==
  ASSUME NEW a, NEW b, NEW c, NotBefore(c, b), NotBefore(b, a)
  PROVE  NotBefore(c, a)
  BY DEF NotBefore

LEMMA WritesKeeps ==
  ASSUME TcInv, NEW p \in Processes, Writes(p)
  PROVE  TcInv'
<1> DEFINE offer == tcListed[p].offer
<1>1. PICK rows \in {tcListed[p].rows, tcRow} :
        LET made(t) == Refreshed(rows[t], offer[t], t)
            fine == \A t \in Tools : rows[t] = NoRow /\ made(t) # NoRow => tcRow[t] = NoRow
        IN /\ tcRow' = IF fine
                         THEN [t \in Tools |-> IF made(t) # rows[t] THEN made(t) ELSE tcRow[t]]
                         ELSE tcRow
           /\ tcFound' = IF fine
                           THEN tcFound \cup {t \in Tools : Faulty(rows[t], offer[t], t)}
                           ELSE tcFound
           /\ tcListed' = [tcListed EXCEPT ![p] = NotListing]
           /\ UNCHANGED <<tcOffer, tcWrong>>
  BY DEF Writes
<1> DEFINE made(t) == Refreshed(rows[t], offer[t], t)
           fine == \A t \in Tools : rows[t] = NoRow /\ made(t) # NoRow => tcRow[t] = NoRow
<1>2. ASSUME NEW t \in Tools
      PROVE  /\ tcRow[t] \in CatalogRow /\ rows[t] \in CatalogRow /\ offer[t] \in Sigs \cup {NoSig}
             /\ TrueRow(tcRow[t], t) /\ TrueRow(rows[t], t) /\ NotBefore(tcRow[t], rows[t])
  BY <1>1 DEF TcInv, ListingOK, NotBefore
<1>3. ASSUME NEW t \in Tools
      PROVE  /\ tcRow'[t] \in CatalogRow /\ TrueRow(tcRow'[t], t) /\ NotBefore(tcRow'[t], tcRow[t])
             /\ t \in tcFound' \ tcFound => tcRow'[t].sig # NoSig /\ ~tcRow'[t].ok
  <2>1. CASE fine
    <3>1. rows[t] = NoRow /\ made(t) # NoRow => tcRow[t] = NoRow BY <2>1
    <3>2. tcRow'[t] = IF made(t) # rows[t] THEN made(t) ELSE tcRow[t] BY <1>1, <2>1
    <3>3. t \in tcFound' \ tcFound => Faulty(rows[t], offer[t], t)
      BY <1>1, <2>1
    <3> HIDE DEF made, offer
    <3> QED BY <1>2, <3>1, <3>2, <3>3, WrittenRow DEF made
  <2>2. CASE ~fine
    <3>1. tcRow' = tcRow /\ tcFound' = tcFound BY <1>1, <2>2
    <3> QED BY <1>2, <3>1 DEF NotBefore
  <2> QED BY <2>1, <2>2
<1>4. tcRow' \in [Tools -> CatalogRow]
  <2>1. tcRow' = [t \in Tools |-> tcRow'[t]] BY <1>1 DEF TcInv
  <2> QED BY <1>3, <2>1
<1>5. tcFound' \subseteq Tools
      /\ \A t \in tcFound' : tcRow'[t].sig # NoSig /\ ~tcRow'[t].ok
  <2>1. tcFound' \subseteq Tools BY <1>1 DEF TcInv
  <2> QED BY <1>3, <2>1 DEF TcInv, NotBefore
<1>6. ASSUME NEW q \in Processes PROVE ListingOK(tcListed[q])'
  <2>1. tcListed'[q] = IF q = p THEN NotListing ELSE tcListed[q] BY <1>1 DEF TcInv
  <2>2. ListingOK(tcListed'[q])
    BY <2>1, EmptyListing DEF TcInv
  <2> QED BY <1>3, <2>2, LaterIsNotBefore DEF ListingOK
<1> QED BY <1>1, <1>3, <1>4, <1>5, <1>6 DEF TcInv

LEMMA TcInvInit == TcInit => TcInv
<1> SUFFICES ASSUME TcInit PROVE TcInv OBVIOUS
<1>1. tcRow \in [Tools -> CatalogRow] /\ \A t \in Tools : TrueRow(tcRow[t], t)
  BY NoRowIsRow DEF TcInit, TrueRow
<1>2. ListingOK(NotListing)
  BY NoRowIsRow DEF NotListing, Nothing, ListingOK, TrueRow, NotBefore
<1> QED BY <1>1, <1>2 DEF TcInit, TcInv

LEMMA TcInvStep == TcInv /\ [TcNext]_tcVars => TcInv'
<1> SUFFICES ASSUME TcInv, [TcNext]_tcVars PROVE TcInv' OBVIOUS
<1>1. ASSUME UNCHANGED <<tcOffer, tcRow, tcListed, tcFound, tcWrong>> PROVE TcInv'
  BY <1>1 DEF TcInv, ListingOK
<1>2. ASSUME NEW t \in Tools, ProviderChanges(t) PROVE TcInv'
  BY <1>2 DEF ProviderChanges, TcInv, ListingOK
<1>3. ASSUME NEW p \in Processes, Lists(p) PROVE TcInv'
  <2> DEFINE l == [busy |-> TRUE, offer |-> tcOffer, rows |-> tcRow]
  <2>1. ListingOK(l) BY DEF TcInv, ListingOK, NotBefore
  <2>2. tcListed' = [tcListed EXCEPT ![p] = l]
        /\ UNCHANGED <<tcOffer, tcRow, tcFound, tcWrong>>
    BY <1>3 DEF Lists
  <2> HIDE DEF l
  <2> QED BY <2>1, <2>2 DEF TcInv, ListingOK
<1>4. ASSUME NEW p \in Processes, ListingFails(p) PROVE TcInv'
  BY <1>4, EmptyListing DEF ListingFails, TcInv, ListingOK
<1>5. ASSUME NEW t \in Tools, NEW sig, Still(sig, t), Sent(t) PROVE TcInv'
  <2>1. tcWrong' = FALSE BY <1>5 DEF Still, Usable, Sent, TcInv
  <2> QED BY <1>5, <2>1 DEF Sent, TcInv, ListingOK
<1> QED
  BY <1>1, <1>2, <1>3, <1>4, <1>5, WritesKeeps
     DEF TcNext, Executes, Preflights, Assembles, Freezes, tcVars

LEMMA TcInvSound == TcInv => CatalogIsSound
BY DEF TcInv, TrueRow, CatalogIsSound, Usable

LEMMA TcTypeInit == TcInit => TcTypeOK
BY DEF TcInit, TcTypeOK, Nothing, NoRow

LEMMA TcTypeStep ==
  ASSUME TcInv, TcTypeOK, [TcNext]_tcVars
  PROVE  TcTypeOK'
<1>1. TcInv'  BY TcInvStep
<1>2. Signatures \in [Tools -> Sigs \cup {NoSig}]  BY DEF Signatures, TcTypeOK
<1>3. /\ tcShown' \in [Engines -> [Tools -> Sigs \cup {NoSig}]]
      /\ tcFrozen' \in [PiRunIds -> [Tools -> Sigs \cup {NoSig}]]
  <2>1. ASSUME UNCHANGED <<tcShown, tcFrozen>>
        PROVE  /\ tcShown' \in [Engines -> [Tools -> Sigs \cup {NoSig}]]
               /\ tcFrozen' \in [PiRunIds -> [Tools -> Sigs \cup {NoSig}]]
    BY <2>1 DEF TcTypeOK
  <2>2. CASE \E e \in Engines : Assembles(e)  BY <1>2, <2>2 DEF Assembles, TcTypeOK
  <2>3. CASE \E r \in PiRunIds : Freezes(r)  BY <1>2, <2>3 DEF Freezes, TcTypeOK
  <2> QED
    BY <2>1, <2>2, <2>3 DEF TcNext, ProviderChanges, Executes, Preflights, Sent, Lists, Writes,
                            ListingFails, tcVars
<1> QED  BY <1>1, <1>3 DEF TcInv, TcTypeOK, TrueRow, CatalogRow

-----------------------------------------------------------------------------
(***************************************************************************)
(* Administration of a tenant.  What a request has seen of the             *)
(* configurations is a beginning of what is there, with the same backends. *)
(***************************************************************************)
ConfigRow == [status : {"draft", "active", "retired"}, backend : Backends]

Earlier(configs) ==
  /\ configs \in Seq(ConfigRow) /\ Len(configs) <= Len(taConfigs)
  /\ \A c \in 1..Len(configs) : configs[c].backend = taConfigs[c].backend

RequestSound(r) ==
  /\ r.op \notin {"none", "message"} => r.key \in Keys
  /\ r.op \in {"version", "switch"} => r.backend \in Backends
  /\ r.op = "status" => r.status \in {"active", "disabled"}
  /\ r.op = "activate" => r.config \in 1..Len(taConfigs)
  /\ r.op = "licensed" => r.license \in 1..taLicenses
  /\ r.op = "message" => Earlier(r.configs)

TaInv ==
  /\ TaTypeOK /\ TenantIsSound
  /\ taRequests = [q \in Requests |-> taRequests[q]]
  /\ \A q \in Requests : RequestSound(taRequests[q])

LEMMA TaInvInit == TaInit => TaInv
<1> SUFFICES ASSUME TaInit PROVE TaInv  OBVIOUS
<1>1. taConfigs \in Seq(ConfigRow) /\ Len(taConfigs) \in Nat
      /\ (taConfigs = <<>> \/ (Len(taConfigs) >= 1 /\ taConfigs[1].status = "active"))
      /\ (\A c \in 1..Len(taConfigs) : taConfigs[c].status = "active" => c = 1)
  <2>1. CASE taConfigs = <<>>  BY <2>1
  <2>2. CASE \E b \in Backends : taConfigs = <<[status |-> "active", backend |-> b]>>
    BY <2>2 DEF ConfigRow
  <2>3. CASE \E b, d \in Backends : taConfigs = <<[status |-> "active", backend |-> b],
                                                  [status |-> "draft", backend |-> d]>>
    <3>1. PICK b \in Backends, d \in Backends :
            taConfigs = <<[status |-> "active", backend |-> b], [status |-> "draft", backend |-> d]>>
      BY <2>3
    <3> DEFINE x == [status |-> "active", backend |-> b]
               y == [status |-> "draft", backend |-> d]
    <3>2. x \in ConfigRow /\ y \in ConfigRow /\ x.status = "active" /\ y.status = "draft"
      BY DEF ConfigRow
    <3>3. taConfigs = <<x, y>>  BY <3>1
    <3> HIDE DEF x, y
    <3> QED  BY <3>2, <3>3
  <2> QED  BY <2>1, <2>2, <2>3 DEF TaInit
<1>2. taTenant = [status |-> "active", backend |-> "current", license |-> 1,
                  config |-> IF taConfigs = <<>> THEN SystemConfig ELSE 1]
  BY DEF TaInit
<1>3. OneActiveConfig
  BY <1>1, <1>2 DEF OneActiveConfig, ActiveConfigs, SystemConfig
<1>4. TaTypeOK
  <2>1. taTenant.config \in 0..Len(taConfigs)  BY <1>1, <1>2 DEF SystemConfig
  <2>2. taTenant \in [status : {"active", "disabled"}, backend : Backends,
                      license : 0..taLicenses, config : 0..Len(taConfigs)]
    BY <1>2, <2>1 DEF TaInit, Backends
  <2>3. taLicenses \in 1..MaxLicenses  BY TenantAssumption DEF TaInit
  <2>4. taRuns = <<>> /\ taKill \in BOOLEAN /\ taEffects \in [Keys -> Nat]
    BY DEF TaInit, Keys
  <2> QED  BY <1>1, <2>2, <2>3, <2>4 DEF TaTypeOK, ConfigRow
<1>5. RunsFitTheirConfig /\ KeysActOnce
  BY DEF TaInit, RunsFitTheirConfig, KeysActOnce, Keys
<1>6. \A q \in Requests : RequestSound(taRequests[q])
  BY DEF TaInit, NoRequest, RequestSound
<1> QED  BY <1>3, <1>4, <1>5, <1>6 DEF TaInv, TenantIsSound, TaInit

(***************************************************************************)
(* Steps of requests that only change what is under way.                   *)
(***************************************************************************)
LEMMA RequestsKeep ==
  ASSUME TaInv, UNCHANGED <<taTenant, taConfigs, taLicenses, taRuns, taEffects>>,
         taKill' \in BOOLEAN, taRequests' = [q \in Requests |-> taRequests'[q]],
         \A q \in Requests : RequestSound(taRequests'[q])
  PROVE  TaInv'
<1>1. TaTypeOK' /\ TenantIsSound'
  BY DEF TaInv, TaTypeOK, TenantIsSound, OneActiveConfig, ActiveConfigs, RunsFitTheirConfig,
         KeysActOnce
<1>2. \A q \in Requests : RequestSound(taRequests[q])'
  BY DEF RequestSound, Earlier
<1> QED  BY <1>1, <1>2 DEF TaInv

LEMMA NoRequestSound == RequestSound(NoRequest)
BY DEF RequestSound, NoRequest

LEMMA ArrivesKeep ==
  ASSUME TaInv, NEW q \in Requests,
         AdminArrives(q) \/ MessageArrives(q) \/ RolledBack(q) \/ LockConfig(q)
  PROVE  TaInv'
<1>0. UNCHANGED <<taTenant, taConfigs, taLicenses, taRuns, taEffects>> /\ taKill' \in BOOLEAN
  BY DEF AdminArrives, MessageArrives, RolledBack, LockConfig, TaInv, TaTypeOK
<1>1. CASE AdminArrives(q)
  <2>1. PICK k \in Keys : \E request \in AdminOps({k}) :
          taRequests' = [taRequests EXCEPT ![q] = request]
    BY <1>1 DEF AdminArrives
  <2>2. PICK request \in AdminOps({k}) : taRequests' = [taRequests EXCEPT ![q] = request]
    BY <2>1
  <2>3. RequestSound(request)
    BY DEF AdminOps, RequestSound
  <2> QED  BY <1>0, <2>2, <2>3, RequestsKeep DEF TaInv
<1>2. CASE MessageArrives(q)
  <2> DEFINE request == [op |-> "message", tenant |-> taTenant, configs |-> taConfigs]
  <2>1. RequestSound(request)
    BY DEF RequestSound, Earlier, TaInv, TaTypeOK, ConfigRow
  <2>2. taRequests' = [taRequests EXCEPT ![q] = request]  BY <1>2 DEF MessageArrives
  <2> HIDE DEF request
  <2> QED  BY <1>0, <2>1, <2>2, RequestsKeep DEF TaInv
<1>3. CASE RolledBack(q)
  <2>1. taRequests' = [taRequests EXCEPT ![q] = NoRequest]  BY <1>3 DEF RolledBack, Ends
  <2> QED  BY <1>0, <2>1, NoRequestSound, RequestsKeep DEF TaInv
<1>4. CASE LockConfig(q)
  <2> DEFINE request == [taRequests[q] EXCEPT !.locked = TRUE]
  <2>1. taRequests' = [taRequests EXCEPT ![q] = request]  BY <1>4 DEF LockConfig
  <2>2. /\ request.op = taRequests[q].op /\ request.key = taRequests[q].key
        /\ request.config = taRequests[q].config /\ taRequests[q].op = "activate"
    BY <1>4 DEF LockConfig
  <2> HIDE DEF request
  <2>3. RequestSound(request)  BY <2>2 DEF RequestSound, TaInv
  <2> QED  BY <1>0, <2>1, <2>3, RequestsKeep DEF TaInv
<1> QED  BY <1>1, <1>2, <1>3, <1>4

LEMMA RestartKeeps ==
  ASSUME TaInv, Restart
  PROVE  TaInv'
BY NoRequestSound, RequestsKeep DEF Restart

(***************************************************************************)
(* Steps that commit: their key had no effect before, and configurations   *)
(* keep their backends.                                                    *)
(***************************************************************************)
LEMMA CommitsOnce ==
  ASSUME TaInv, NEW q \in Requests, Commits(q), taRequests[q].op \notin {"none", "message"}
  PROVE  /\ taEffects' \in [Keys -> Nat] /\ KeysActOnce'
         /\ taRequests' = [taRequests EXCEPT ![q] = NoRequest]
<1>1. taRequests[q].key \in Keys  BY DEF TaInv, RequestSound
<1> QED
  BY <1>1 DEF Commits, Wins, Ends, TaInv, TaTypeOK, TenantIsSound, KeysActOnce

LEMMA LaterRequests ==
  ASSUME TaInv, NEW q \in Requests, taRequests' = [taRequests EXCEPT ![q] = NoRequest],
         taConfigs' \in Seq(ConfigRow), Len(taConfigs) <= Len(taConfigs'),
         \A c \in 1..Len(taConfigs) : taConfigs'[c].backend = taConfigs[c].backend,
         taLicenses' \in Nat, taLicenses <= taLicenses'
  PROVE  /\ taRequests' = [p \in Requests |-> taRequests'[p]]
         /\ \A p \in Requests : RequestSound(taRequests[p])'
<1>1. taConfigs \in Seq(ConfigRow) /\ Len(taConfigs) \in Nat /\ Len(taConfigs') \in Nat
      /\ taLicenses \in Nat
  BY DEF TaInv, TaTypeOK, ConfigRow
<1>2. ASSUME NEW configs, Earlier(configs) PROVE Earlier(configs)'
  BY <1>1, <1>2 DEF Earlier
<1>3. ASSUME NEW p \in Requests PROVE RequestSound(taRequests[p])'
  <2>1. taRequests'[p] = IF p = q THEN NoRequest ELSE taRequests[p]  BY DEF TaInv
  <2>2. CASE p = q  BY <2>1, <2>2 DEF RequestSound, NoRequest
  <2>3. CASE p # q
    <3>1. RequestSound(taRequests[p])  BY DEF TaInv
    <3> QED  BY <1>1, <1>2, <2>1, <2>3, <3>1 DEF RequestSound
  <2> QED  BY <2>2, <2>3
<1> QED  BY <1>3 DEF TaInv

LEMMA TenantChanges ==
  ASSUME TaInv, NEW q \in Requests, Commits(q), taRequests[q].op \notin {"none", "message"},
         taTenant' \in [status : {"active", "disabled"}, backend : Backends,
                        license : 0..taLicenses', config : 0..Len(taConfigs)],
         taTenant'.config = taTenant.config,
         taLicenses' \in 1..MaxLicenses, taLicenses <= taLicenses',
         UNCHANGED <<taConfigs, taKill, taRuns>>
  PROVE  TaInv'
<1>1. taEffects' \in [Keys -> Nat] /\ KeysActOnce'
      /\ taRequests' = [taRequests EXCEPT ![q] = NoRequest]
  BY CommitsOnce
<1>2. taConfigs \in Seq(ConfigRow) /\ Len(taConfigs) \in Nat
  BY DEF TaInv, TaTypeOK, ConfigRow
<1>2a. taLicenses' \in Nat  BY TenantAssumption
<1>2b. /\ taConfigs' \in Seq(ConfigRow) /\ Len(taConfigs) <= Len(taConfigs')
       /\ \A c \in 1..Len(taConfigs) : taConfigs'[c].backend = taConfigs[c].backend
  BY <1>2
<1>3. /\ taRequests' = [p \in Requests |-> taRequests'[p]]
      /\ \A p \in Requests : RequestSound(taRequests[p])'
  BY <1>1, <1>2a, <1>2b, LaterRequests
<1>4. TaTypeOK'  BY <1>1 DEF TaInv, TaTypeOK
<1>5. OneActiveConfig' /\ RunsFitTheirConfig'
  BY DEF TaInv, TenantIsSound, OneActiveConfig, ActiveConfigs, RunsFitTheirConfig
<1> QED  BY <1>1, <1>3, <1>4, <1>5 DEF TaInv, TenantIsSound

LEMMA SwitchKeeps ==
  ASSUME TaInv, NEW q \in Requests, SwitchBackend(q) \/ UpdateStatus(q)
  PROVE  TaInv'
<1> DEFINE T == [status : {"active", "disabled"}, backend : Backends,
                 license : 0..taLicenses, config : 0..Len(taConfigs)]
<1>1. taTenant \in T /\ RequestSound(taRequests[q]) /\ taLicenses \in 1..MaxLicenses
  BY DEF TaInv, TaTypeOK
<1>2. taTenant' \in T /\ taTenant'.config = taTenant.config
  BY <1>1 DEF SwitchBackend, UpdateStatus, RequestSound
<1>3. /\ Commits(q) /\ taRequests[q].op \notin {"none", "message"}
      /\ UNCHANGED <<taConfigs, taLicenses, taKill, taRuns>>
  BY DEF SwitchBackend, UpdateStatus
<1>4. taLicenses <= taLicenses'  BY <1>1, <1>3, TenantAssumption
<1> QED  BY <1>1, <1>2, <1>3, <1>4, TenantChanges

LEMMA LicenseKeeps ==
  ASSUME TaInv, NEW q \in Requests, CreateLicense(q) \/ UpdateLicenseStatus(q)
  PROVE  TaInv'
<1>1. /\ taTenant \in [status : {"active", "disabled"}, backend : Backends,
                       license : 0..taLicenses, config : 0..Len(taConfigs)]
      /\ RequestSound(taRequests[q]) /\ taLicenses \in 1..MaxLicenses /\ MaxLicenses \in Nat
  BY TenantAssumption DEF TaInv, TaTypeOK
<1>2. /\ Commits(q) /\ taRequests[q].op \notin {"none", "message"}
      /\ UNCHANGED <<taConfigs, taKill, taRuns>>
  BY DEF CreateLicense, UpdateLicenseStatus
<1>3. taLicenses' \in 1..MaxLicenses /\ taLicenses <= taLicenses'
  BY <1>1 DEF CreateLicense, UpdateLicenseStatus
<1>4. /\ taTenant' \in [status : {"active", "disabled"}, backend : Backends,
                        license : 0..taLicenses', config : 0..Len(taConfigs)]
      /\ taTenant'.config = taTenant.config
  <2>1. CASE CreateLicense(q)
    <3>1. taTenant' = taTenant /\ taTenant.license \in 0..taLicenses'
      BY <1>1, <1>3, <2>1 DEF CreateLicense
    <3> QED  BY <1>1, <3>1
  <2>2. CASE UpdateLicenseStatus(q)
    <3> DEFINE l == IF taRequests[q].on THEN taRequests[q].license
                    ELSE IF taTenant.license = taRequests[q].license THEN 0 ELSE taTenant.license
    <3>1. taTenant' = [taTenant EXCEPT !.license = l] /\ taLicenses' = taLicenses
      BY <2>2 DEF UpdateLicenseStatus
    <3>2. l \in 0..taLicenses
      BY <1>1, <2>2 DEF UpdateLicenseStatus, RequestSound
    <3> HIDE DEF l
    <3> QED  BY <1>1, <3>1, <3>2
  <2> QED  BY <2>1, <2>2
<1> QED  BY <1>2, <1>3, <1>4, TenantChanges

(***************************************************************************)
(* Configurations.                                                         *)
(***************************************************************************)
LEMMA VersionKeeps ==
  ASSUME TaInv, NEW q \in Requests, CreateTenantVersion(q)
  PROVE  TaInv'
<1> DEFINE row == [status |-> "draft", backend |-> taRequests[q].backend]
<1>1. RequestSound(taRequests[q]) /\ taRequests[q].op = "version" /\ Commits(q)
      /\ taConfigs' = Append(taConfigs, row)
      /\ UNCHANGED <<taTenant, taLicenses, taKill, taRuns>>
  BY DEF TaInv, CreateTenantVersion
<1>2. row \in ConfigRow /\ row.status = "draft"  BY <1>1 DEF ConfigRow, RequestSound
<1> HIDE DEF row
<1>3. /\ taConfigs \in Seq(ConfigRow) /\ taConfigs' \in Seq(ConfigRow)
      /\ Len(taConfigs) \in Nat /\ Len(taConfigs') = Len(taConfigs) + 1
      /\ taConfigs'[Len(taConfigs) + 1] = row
      /\ \A c \in 1..Len(taConfigs) : taConfigs'[c] = taConfigs[c]
  BY <1>1, <1>2, AppendProperties, LenProperties DEF TaInv, TaTypeOK, ConfigRow
<1>4. taEffects' \in [Keys -> Nat] /\ KeysActOnce'
      /\ taRequests' = [taRequests EXCEPT ![q] = NoRequest]
  BY <1>1, CommitsOnce
<1>5. taLicenses \in 1..MaxLicenses /\ MaxLicenses \in Nat
  BY TenantAssumption DEF TaInv, TaTypeOK
<1>5a. taLicenses' \in Nat /\ taLicenses <= taLicenses'  BY <1>1, <1>5
<1>5b. /\ taConfigs' \in Seq(ConfigRow) /\ Len(taConfigs) <= Len(taConfigs')
       /\ \A c \in 1..Len(taConfigs) : taConfigs'[c].backend = taConfigs[c].backend
  BY <1>3
<1>6. /\ taRequests' = [p \in Requests |-> taRequests'[p]]
      /\ \A p \in Requests : RequestSound(taRequests[p])'
  BY <1>4, <1>5a, <1>5b, LaterRequests
<1>7. TaTypeOK'
  <2>1. taTenant' \in [status : {"active", "disabled"}, backend : Backends,
                       license : 0..taLicenses', config : 0..Len(taConfigs')]
    BY <1>1, <1>3 DEF TaInv, TaTypeOK
  <2>2. taRuns' \in Seq([config : 0..Len(taConfigs'), backend : Backends, active : BOOLEAN])
    <3>1. [config : 0..Len(taConfigs), backend : Backends, active : BOOLEAN]
            \subseteq [config : 0..Len(taConfigs'), backend : Backends, active : BOOLEAN]
      BY <1>3
    <3>2. taRuns' \in Seq([config : 0..Len(taConfigs), backend : Backends, active : BOOLEAN])
      BY <1>1 DEF TaInv, TaTypeOK
    <3> DEFINE A == [config : 0..Len(taConfigs), backend : Backends, active : BOOLEAN]
               B == [config : 0..Len(taConfigs'), backend : Backends, active : BOOLEAN]
    <3>3. A \subseteq B /\ taRuns' \in Seq(A)  BY <3>1, <3>2
    <3>4. SUFFICES taRuns' \in Seq(B)  OBVIOUS
    <3> HIDE DEF A, B
    <3> QED  BY <3>3, SeqMonotonic
  <2> QED  BY <1>1, <1>3, <1>4, <1>5, <2>1, <2>2 DEF TaInv, TaTypeOK, ConfigRow
<1>8. OneActiveConfig'
  <2>1. ActiveConfigs' = ActiveConfigs  BY <1>2, <1>3 DEF ActiveConfigs
  <2> QED  BY <1>1, <2>1 DEF TaInv, TenantIsSound, OneActiveConfig
<1>9. RunsFitTheirConfig'
  <2>1. \A i \in 1..Len(taRuns) : taRuns[i].config \in 0..Len(taConfigs)
    <3>1. ASSUME NEW i \in 1..Len(taRuns)
          PROVE  taRuns[i] \in [config : 0..Len(taConfigs), backend : Backends, active : BOOLEAN]
      BY ElementOfSeq DEF TaInv, TaTypeOK
    <3> QED  BY <3>1
  <2> QED  BY <1>1, <1>3, <2>1 DEF TaInv, TenantIsSound, RunsFitTheirConfig, SystemConfig
<1> QED  BY <1>4, <1>6, <1>7, <1>8, <1>9 DEF TaInv, TenantIsSound

LEMMA RunsAre ==
  ASSUME TaInv
  PROVE  /\ Len(taRuns) \in Nat /\ Len(taConfigs) \in Nat
         /\ \A i \in 1..Len(taRuns) : /\ taRuns[i].config \in 0..Len(taConfigs)
                                      /\ taRuns[i].backend \in Backends
         /\ \A c \in 1..Len(taConfigs) : taConfigs[c] \in ConfigRow
<1>1. ASSUME NEW i \in 1..Len(taRuns)
      PROVE  taRuns[i] \in [config : 0..Len(taConfigs), backend : Backends, active : BOOLEAN]
  BY ElementOfSeq DEF TaInv, TaTypeOK
<1>2. ASSUME NEW c \in 1..Len(taConfigs) PROVE taConfigs[c] \in ConfigRow
  BY ElementOfSeq DEF TaInv, TaTypeOK, ConfigRow
<1> QED  BY <1>1, <1>2, LenProperties DEF TaInv, TaTypeOK

LEMMA ActivateConfigKeeps ==
  ASSUME TaInv, NEW q \in Requests, ActivateConfig(q)
  PROVE  TaInv'
<1> DEFINE k == taRequests[q].config
           n == Len(taConfigs)
<1>1. /\ RequestSound(taRequests[q]) /\ taRequests[q].op = "activate" /\ Commits(q)
      /\ taConfigs' = [c \in 1..n |->
           IF c \in Retired(k) THEN [taConfigs[c] EXCEPT !.status = "retired"]
           ELSE IF c = k THEN [taConfigs[c] EXCEPT !.status = "active"] ELSE taConfigs[c]]
      /\ taTenant' = [taTenant EXCEPT !.config = k]
      /\ UNCHANGED <<taLicenses, taKill, taRuns>>
  BY DEF TaInv, ActivateConfig
<1>2. k \in 1..n /\ n \in Nat /\ \A c \in 1..n : taConfigs[c] \in ConfigRow
  BY <1>1, RunsAre DEF RequestSound
<1> HIDE DEF k, n
<1>3. ASSUME NEW c \in 1..n
      PROVE  /\ taConfigs'[c] \in ConfigRow /\ taConfigs'[c].backend = taConfigs[c].backend
             /\ taConfigs'[c].status = "active" <=> c = k
             /\ taConfigs[c].status # "draft" => taConfigs'[c].status # "draft"
  <2>1. taConfigs[c].status = "active" => c \in Retired(k) \/ c = k
    BY DEF Retired, ActiveConfigs, n
  <2>2. k \notin Retired(k)  BY DEF Retired
  <2> QED  BY <1>1, <1>2, <2>1, <2>2 DEF ConfigRow
<1>4. taConfigs' \in Seq(ConfigRow) /\ Len(taConfigs') = n
  <2>1. taConfigs' \in [1..n -> ConfigRow]  BY <1>1, <1>3
  <2> QED  BY <1>2, <2>1, IsASeq
<1>5. taEffects' \in [Keys -> Nat] /\ KeysActOnce'
      /\ taRequests' = [taRequests EXCEPT ![q] = NoRequest]
  BY <1>1, CommitsOnce
<1>6. taLicenses \in 1..MaxLicenses /\ MaxLicenses \in Nat
  BY TenantAssumption DEF TaInv, TaTypeOK
<1>6a. taLicenses' \in Nat /\ taLicenses <= taLicenses'  BY <1>1, <1>6
<1>6b. /\ taConfigs' \in Seq(ConfigRow) /\ Len(taConfigs) <= Len(taConfigs')
       /\ \A c \in 1..Len(taConfigs) : taConfigs'[c].backend = taConfigs[c].backend
  BY <1>2, <1>3, <1>4 DEF n
<1>7. /\ taRequests' = [p \in Requests |-> taRequests'[p]]
      /\ \A p \in Requests : RequestSound(taRequests[p])'
  BY <1>5, <1>6a, <1>6b, LaterRequests
<1>8. TaTypeOK'
  <2>1. taTenant' \in [status : {"active", "disabled"}, backend : Backends,
                       license : 0..taLicenses', config : 0..n]
    <3>1. taTenant \in [status : {"active", "disabled"}, backend : Backends,
                        license : 0..taLicenses, config : 0..n]
      BY DEF TaInv, TaTypeOK, n
    <3>2. k \in 0..n  BY <1>2
    <3> QED  BY <1>1, <3>1, <3>2
  <2> QED  BY <1>1, <1>4, <1>5, <1>6, <2>1 DEF TaInv, TaTypeOK, ConfigRow, n
<1>9. OneActiveConfig'
  <2>1. taTenant'.config = k  BY <1>1 DEF TaInv, TaTypeOK
  <2>2. ActiveConfigs' = {k}  BY <1>2, <1>3, <1>4 DEF ActiveConfigs
  <2> QED  BY <1>2, <2>1, <2>2 DEF OneActiveConfig
<1>10. RunsFitTheirConfig'
  BY <1>1, <1>3, RunsAre DEF TaInv, TenantIsSound, RunsFitTheirConfig, SystemConfig, n
<1> QED  BY <1>5, <1>7, <1>8, <1>9, <1>10 DEF TaInv, TenantIsSound

(***************************************************************************)
(* Runs.                                                                   *)
(***************************************************************************)
LEMMA SnapshotIs ==
  ASSUME TaInv, NEW tenant, NEW configs, Earlier(configs),
         SnapshotForNewRun(tenant, configs) # NoSnapshot
  PROVE  LET s == SnapshotForNewRun(tenant, configs) IN
         /\ s.config = (IF taKill THEN SystemConfig ELSE taTenant.config)
         /\ s.backend \in Backends
         /\ s.config = SystemConfig => s.backend = "current"
         /\ s.config # SystemConfig => /\ s.config \in ActiveConfigs
                                       /\ taConfigs[s.config].backend = s.backend
<1> DEFINE c == IF taKill THEN SystemConfig ELSE taTenant.config
           b == EffectiveRuntimeBackend
<1>1. SnapshotForNewRun(tenant, configs) = [config |-> c, backend |-> b]
  BY DEF SnapshotForNewRun, Pointer
<1>2. IF c = SystemConfig THEN b = "current"
      ELSE c <= Len(configs) /\ configs[c] = [status |-> "active", backend |-> b]
  BY DEF SnapshotForNewRun, Pointer
<1>3. b \in Backends /\ c \in 0..Len(taConfigs)
  BY RunsAre DEF TaInv, TaTypeOK, EffectiveRuntimeBackend, Backends, SystemConfig
<1>4. c # SystemConfig => c \in ActiveConfigs
  BY DEF TaInv, TenantIsSound, OneActiveConfig, SystemConfig
<1>5. c # SystemConfig => taConfigs[c].backend = b
  <2> SUFFICES ASSUME c # SystemConfig PROVE taConfigs[c].backend = b  OBVIOUS
  <2>1. Len(configs) \in Nat  BY DEF Earlier
  <2>2. c \in 1..Len(configs) /\ configs[c].backend = b
    <3> HIDE DEF c, b
    <3> QED  BY <1>2, <1>3, <2>1, RunsAre DEF SystemConfig
  <2> HIDE DEF c
  <2> QED  BY <2>2 DEF Earlier
<1> HIDE DEF c, b
<1> QED  BY <1>1, <1>2, <1>3, <1>4, <1>5 DEF c

LEMMA StartKeeps ==
  ASSUME TaInv, NEW q \in Requests, StartRun(q)
  PROVE  /\ TaInv'
         /\ Len(taRuns') = Len(taRuns) + 1
         /\ LET run == taRuns'[Len(taRuns')] IN
              /\ run.config = (IF taKill THEN SystemConfig ELSE taTenant.config)
              /\ run.config \in {SystemConfig} \cup ActiveConfigs
<1> DEFINE r == taRequests[q]
           s == SnapshotForNewRun(r.tenant, r.configs)
           run == [config |-> s.config, backend |-> s.backend, active |-> TRUE]
           n == Len(taRuns)
<1>1. /\ r.op = "message" /\ s # NoSnapshot /\ taRuns' = Append(taRuns, run)
      /\ taRequests' = [taRequests EXCEPT ![q] = NoRequest]
      /\ UNCHANGED <<taTenant, taConfigs, taLicenses, taKill, taEffects>>
  BY DEF StartRun, Ends
<1>2. Earlier(r.configs)  BY <1>1 DEF TaInv, RequestSound
<1>3. /\ s.config = (IF taKill THEN SystemConfig ELSE taTenant.config)
      /\ s.backend \in Backends
      /\ s.config = SystemConfig => s.backend = "current"
      /\ s.config # SystemConfig => /\ s.config \in ActiveConfigs
                                    /\ taConfigs[s.config].backend = s.backend
  BY <1>1, <1>2, SnapshotIs
<1> HIDE DEF s
<1>4. /\ run \in [config : 0..Len(taConfigs), backend : Backends, active : BOOLEAN]
      /\ run.config = s.config /\ run.backend = s.backend
  BY <1>3, RunsAre DEF TaInv, TaTypeOK, SystemConfig
<1> HIDE DEF run
<1>5. /\ taRuns' \in Seq([config : 0..Len(taConfigs), backend : Backends, active : BOOLEAN])
      /\ n \in Nat /\ Len(taRuns') = n + 1 /\ taRuns'[n + 1] = run
      /\ \A i \in 1..n : taRuns'[i] = taRuns[i]
  BY <1>1, <1>4, AppendProperties, LenProperties DEF TaInv, TaTypeOK
<1>6. TaTypeOK'  BY <1>1, <1>5 DEF TaInv, TaTypeOK
<1>7. OneActiveConfig' /\ KeysActOnce' /\ ActiveConfigs' = ActiveConfigs
  BY <1>1 DEF TaInv, TenantIsSound, OneActiveConfig, ActiveConfigs, KeysActOnce
<1>8. RunsFitTheirConfig'
  <2> SUFFICES ASSUME NEW i \in 1..n + 1
      PROVE  IF taRuns'[i].config = SystemConfig THEN taRuns'[i].backend = "current"
             ELSE /\ taConfigs[taRuns'[i].config].status # "draft"
                  /\ taConfigs[taRuns'[i].config].backend = taRuns'[i].backend
    BY <1>1, <1>5 DEF RunsFitTheirConfig
  <2>1. CASE i = n + 1  BY <1>3, <1>4, <1>5, <2>1 DEF ActiveConfigs
  <2>2. CASE i # n + 1
    <3>1. i \in 1..n /\ taRuns'[i] = taRuns[i]  BY <1>5, <2>2
    <3> QED  BY <3>1 DEF TaInv, TenantIsSound, RunsFitTheirConfig
  <2> QED  BY <2>1, <2>2
<1>9. \A p \in Requests : RequestSound(taRequests[p])'
  <2>1. \A p \in Requests : RequestSound(taRequests'[p])  BY <1>1, NoRequestSound DEF TaInv
  <2> QED  BY <1>1, <2>1 DEF RequestSound, Earlier
<1>10. taRequests' = [p \in Requests |-> taRequests'[p]]  BY <1>1 DEF TaInv
<1> QED  BY <1>3, <1>4, <1>5, <1>6, <1>7, <1>8, <1>9, <1>10 DEF TaInv, TenantIsSound

LEMMA RunEndsKeeps ==
  ASSUME TaInv, RunEnds
  PROVE  TaInv' /\ Len(taRuns') = Len(taRuns)
<1> DEFINE R == [config : 0..Len(taConfigs), backend : Backends, active : BOOLEAN]
<1>1. PICK i \in 1..Len(taRuns) : taRuns' = [taRuns EXCEPT ![i].active = FALSE]
  BY DEF RunEnds
<1>2. UNCHANGED <<taTenant, taConfigs, taLicenses, taKill, taRequests, taEffects>>
  BY DEF RunEnds
<1>3. taRuns \in Seq(R) /\ taRuns[i] \in R  BY ElementOfSeq DEF TaInv, TaTypeOK
<1> DEFINE run == [taRuns[i] EXCEPT !.active = FALSE]
<1>4. run \in R /\ run.config = taRuns[i].config /\ run.backend = taRuns[i].backend
  BY <1>3
<1>5. taRuns' = [taRuns EXCEPT ![i] = run]  BY <1>1
<1> HIDE DEF run
<1>6. taRuns' \in Seq(R) /\ Len(taRuns') = Len(taRuns)
      /\ \A j \in 1..Len(taRuns) : taRuns'[j] = IF j = i THEN run ELSE taRuns[j]
  BY <1>3, <1>4, <1>5, ExceptSeq
<1>7. TaTypeOK'  BY <1>2, <1>6 DEF TaInv, TaTypeOK
<1>8. OneActiveConfig' /\ KeysActOnce'
  BY <1>2 DEF TaInv, TenantIsSound, OneActiveConfig, ActiveConfigs, KeysActOnce
<1>9. RunsFitTheirConfig'
  BY SMTT(15), <1>2, <1>4, <1>6 DEF TaInv, TenantIsSound, RunsFitTheirConfig
<1>10. \A p \in Requests : RequestSound(taRequests[p])'
  BY <1>2 DEF TaInv, RequestSound, Earlier
<1> QED  BY <1>2, <1>6, <1>7, <1>8, <1>9, <1>10 DEF TaInv, TenantIsSound

(***************************************************************************)
(* No step but a start makes a run, and a start makes the right one.       *)
(***************************************************************************)
StartsRight ==
  Len(taRuns') > Len(taRuns) =>
    LET run == taRuns'[Len(taRuns')] IN
    /\ run.config \in {SystemConfig} \cup ActiveConfigs
    /\ ~ taKill => run.config = taTenant.config

LEMMA TaInvStep ==
  ASSUME TaInv, [TaNext]_taVars
  PROVE  TaInv' /\ StartsRight
<1>0. Len(taRuns) \in Nat  BY RunsAre
<1>1. ASSUME NEW q \in Requests, StartRun(q) PROVE TaInv' /\ StartsRight
  BY <1>0, <1>1, StartKeeps DEF StartsRight
<1>2. ASSUME taRuns' = taRuns PROVE StartsRight
  BY <1>0, <1>2 DEF StartsRight
<1>3. ASSUME NEW q \in Requests,
             \/ AdminArrives(q) \/ MessageArrives(q) \/ RolledBack(q) \/ LockConfig(q)
      PROVE  TaInv' /\ StartsRight
  <2>1. taRuns' = taRuns  BY <1>3 DEF AdminArrives, MessageArrives, RolledBack, LockConfig
  <2> QED  BY <1>2, <1>3, <2>1, ArrivesKeep
<1>4. ASSUME NEW q \in Requests,
             \/ CreateTenantVersion(q) \/ ActivateConfig(q) \/ SwitchBackend(q)
             \/ UpdateStatus(q) \/ CreateLicense(q) \/ UpdateLicenseStatus(q)
      PROVE  TaInv' /\ StartsRight
  <2>1. taRuns' = taRuns
    BY <1>4 DEF CreateTenantVersion, ActivateConfig, SwitchBackend, UpdateStatus,
                CreateLicense, UpdateLicenseStatus
  <2> QED  BY <1>2, <1>4, <2>1, VersionKeeps, ActivateConfigKeeps, SwitchKeeps, LicenseKeeps
<1>5. CASE RunEnds  BY <1>0, <1>5, RunEndsKeeps DEF StartsRight
<1>6. CASE Restart
  <2>1. taRuns' = taRuns  BY <1>6 DEF Restart
  <2> QED  BY <1>2, <1>6, <2>1, RestartKeeps
<1>7. CASE UNCHANGED taVars
  <2>1. taRuns' = taRuns  BY <1>7 DEF taVars
  <2>2. TaInv'
    BY <1>7, RequestsKeep DEF taVars, TaInv, TaTypeOK
  <2> QED  BY <1>2, <2>1, <2>2
<1> QED  BY <1>1, <1>3, <1>4, <1>5, <1>6, <1>7 DEF TaNext

-----------------------------------------------------------------------------
(***************************************************************************)
(* Skills.  What is active in a scope is what was activated there last.    *)
(***************************************************************************)
Activations == [active : Nat, percent : 0..100, previous : Nat, before : 0..100]
PastRow == [scope : Scopes, active : Nat, percent : 0..100]

\* The latest of past that is one of a set of places.
IsLatest(i, S) == i \in S /\ \A j \in S : j <= i

PastOf(s) == {i \in 1..Len(skPast) : skPast[i].scope = s}
OthersOf(s) == {i \in 1..Len(skPast) : skPast[i].scope = s
                                       /\ skPast[i].active # skActivations[s].active}

Fit(s, r) == r = 0 \/ (r \in Revisions /\ skRevisions[r] \in {s, Everyone})

Told(past, S, revision, percent) ==
  IF S = {} THEN revision = 0
  ELSE \E i \in S : IsLatest(i, S) /\ past[i].active = revision /\ past[i].percent = percent

PastSound(s) ==
  /\ Told(skPast, PastOf(s), skActivations[s].active, skActivations[s].percent)
  /\ PastOf(s) # {} => skActivations[s].active # 0
  /\ Told(skPast, OthersOf(s), skActivations[s].previous, skActivations[s].before)

SkInv ==
  /\ skRevisions \in Seq(Scopes) /\ skPast \in Seq(PastRow)
  /\ skActivations \in [Scopes -> Activations]
  /\ \A s \in Scopes : Fit(s, skActivations[s].active) /\ Fit(s, skActivations[s].previous)
  /\ \A s \in Scopes : PastSound(s)

LEMMA ToldAlike ==
  ASSUME NEW S, NEW past, NEW later, \A i \in S : later[i] = past[i], NEW rev, NEW percent,
         Told(past, S, rev, percent)
  PROVE  Told(later, S, rev, percent)
BY DEF Told

LEMMA SkInvInit == SkInit => SkInv
<1> SUFFICES ASSUME SkInit PROVE SkInv  OBVIOUS
<1>1. None \in Activations /\ None.active = 0 /\ None.previous = 0  BY DEF None, Activations
<1>2. skPast = <<>> /\ skRevisions = <<>> /\ Len(skPast) = 0  BY DEF SkInit
<1>3. ASSUME NEW s \in Scopes PROVE PastSound(s)
  <2>1. skActivations[s] = None  BY DEF SkInit
  <2>2. PastOf(s) = {} /\ OthersOf(s) = {}  BY <1>2 DEF PastOf, OthersOf
  <2> QED  BY <1>1, <2>1, <2>2 DEF PastSound, Told
<1> QED  BY <1>1, <1>2, <1>3 DEF SkInit, SkInv, Fit

LEMMA CreateRevisionKeeps ==
  ASSUME SkInv, NEW s \in Scopes, CreateRevision(s)
  PROVE  SkInv'
<1> USE DEF CreateRevision, SkInv
<1>1. skRevisions' \in Seq(Scopes) /\ Len(skRevisions') = Len(skRevisions) + 1
      /\ \A r \in Revisions : skRevisions'[r] = skRevisions[r]
  BY AppendProperties DEF Revisions
<1>2. Len(skRevisions) \in Nat  BY LenProperties
<1>3. \A q \in Scopes, r \in Nat : Fit(q, r) => Fit(q, r)'
  BY <1>1, <1>2 DEF Fit, Revisions
<1>4. \A q \in Scopes : PastSound(q)'
  BY DEF PastSound, PastOf, OthersOf
<1> QED  BY <1>1, <1>3, <1>4 DEF Activations

(***************************************************************************)
(* A scope gets another activation, which is written at the end of the     *)
(* past.                                                                   *)
(***************************************************************************)
LEMMA BecomesKeeps ==
  ASSUME SkInv, NEW s \in Scopes, NEW a \in Activations, Becomes(s, a), a.active # 0,
         Fit(s, a.active), Fit(s, a.previous),
         LET old == skActivations[s] IN
           IF a.active = old.active THEN a.previous = old.previous /\ a.before = old.before
           ELSE a.previous = old.active /\ (old.active # 0 => a.before = old.percent)
  PROVE  SkInv'
<1> USE DEF Becomes, SkInv
<1> DEFINE n == Len(skPast)
           row == [scope |-> s, active |-> a.active, percent |-> a.percent]
           old == skActivations[s]
<1>1. row \in PastRow /\ row.scope = s /\ row.active = a.active /\ row.percent = a.percent
  BY DEF Activations, PastRow
<1>0. skPast' = Append(skPast, row)  OBVIOUS
<1> HIDE DEF row
<1>2. /\ skPast' \in Seq(PastRow) /\ Len(skPast') = n + 1 /\ n \in Nat
      /\ skPast'[n + 1] = row /\ \A i \in 1..n : skPast'[i] = skPast[i]
  BY <1>0, <1>1, AppendProperties, LenProperties
<1>3. /\ skActivations' \in [Scopes -> Activations] /\ skActivations'[s] = a
      /\ \A q \in Scopes \ {s} : skActivations'[q] = skActivations[q]
  OBVIOUS
<1>4. \A q \in Scopes : Fit(q, skActivations'[q].active) /\ Fit(q, skActivations'[q].previous)
  BY <1>3
<1>5. \A q \in Scopes, r \in Nat : Fit(q, r) => Fit(q, r)'
  BY DEF Fit, Revisions
<1>6. ASSUME NEW q \in Scopes, q # s PROVE PastSound(q)'
  <2>1. PastOf(q)' = PastOf(q)  BY <1>1, <1>2, <1>6 DEF PastOf
  <2>2. OthersOf(q)' = OthersOf(q)  BY <1>1, <1>2, <1>3, <1>6 DEF OthersOf
  <2>3. \A i \in PastOf(q) \cup OthersOf(q) : skPast'[i] = skPast[i]
    BY <1>2 DEF PastOf, OthersOf
  <2>4. PastSound(q) /\ skActivations'[q] = skActivations[q]  BY <1>6
  <2> HIDE DEF Becomes, SkInv
  <2>5. Told(skPast', PastOf(q), skActivations[q].active, skActivations[q].percent)
    BY <2>3, <2>4, ToldAlike DEF PastSound
  <2>6. Told(skPast', OthersOf(q), skActivations[q].previous, skActivations[q].before)
    BY <2>3, <2>4, ToldAlike DEF PastSound
  <2> QED  BY <2>1, <2>2, <2>4, <2>5, <2>6 DEF PastSound
<1>7. PastSound(s)'
  <2>1. PastOf(s)' = PastOf(s) \cup {n + 1}  BY <1>1, <1>2 DEF PastOf
  <2>2. IsLatest(n + 1, PastOf(s)')  BY <1>2, <2>1 DEF IsLatest, PastOf
  <2>3. n + 1 \notin OthersOf(s)'  BY <1>1, <1>2, <1>3 DEF OthersOf
  <2>6. Told(skPast', PastOf(s)', a.active, a.percent) /\ PastOf(s)' # {} /\ a.active # 0
    BY <1>1, <1>2, <2>1, <2>2 DEF Told
  <2>4. CASE a.active = old.active
    <3>1. OthersOf(s)' = OthersOf(s)  BY <1>2, <1>3, <2>3, <2>4 DEF OthersOf
    <3>2. \A i \in OthersOf(s) : skPast'[i] = skPast[i]  BY <1>2 DEF OthersOf
    <3>3. Told(skPast, OthersOf(s), a.previous, a.before)
      BY <2>4 DEF PastSound
    <3>4. Told(skPast', OthersOf(s), a.previous, a.before)
      <4> HIDE DEF Becomes, SkInv
      <4> QED  BY <3>2, <3>3, ToldAlike
    <3> QED  BY <1>3, <2>6, <3>1, <3>4 DEF PastSound
  <2>5. CASE a.active # old.active
    <3>0. a.previous = old.active /\ (old.active # 0 => a.before = old.percent) /\ PastSound(s)
      BY <2>5
    <3>1. CASE PastOf(s) = {}
      <4>1. OthersOf(s)' = {}  BY <1>2, <2>3, <3>1 DEF OthersOf, PastOf
      <4>2. a.previous = 0  BY <3>0, <3>1 DEF PastSound, Told
      <4> QED  BY <1>3, <2>6, <4>1, <4>2 DEF PastSound, Told
    <3>2. CASE PastOf(s) # {}
      <4>1. PICK i \in PastOf(s) : /\ IsLatest(i, PastOf(s)) /\ old.active # 0
                                   /\ skPast[i].active = old.active
                                   /\ skPast[i].percent = old.percent
        BY <3>0, <3>2 DEF PastSound, Told
      <4>2. i \in 1..n /\ skPast'[i] = skPast[i]  BY <1>2 DEF PastOf
      <4>3. OthersOf(s)' \subseteq PastOf(s)
        BY <1>2, <2>1, <2>3 DEF OthersOf, PastOf
      <4>4. i \in OthersOf(s)'
        BY <1>2, <1>3, <2>5, <4>1, <4>2 DEF OthersOf, PastOf
      <4>5. IsLatest(i, OthersOf(s)')  BY <4>1, <4>3, <4>4 DEF IsLatest
      <4>6. skPast'[i].active = a.previous /\ skPast'[i].percent = a.before
        BY <4>1, <4>2, <3>0
      <4>7. Told(skPast', OthersOf(s)', a.previous, a.before)
        BY <4>4, <4>5, <4>6 DEF Told
      <4> QED  BY <1>3, <2>6, <4>7 DEF PastSound
    <3> QED  BY <3>1, <3>2
  <2> QED  BY <2>4, <2>5
<1> QED  BY <1>2, <1>3, <1>4, <1>5, <1>6, <1>7 DEF Activations

LEMMA ActivateKeeps ==
  ASSUME SkInv, NEW s \in Scopes, ActivateSkill(s)
  PROVE  SkInv'
<1>1. PICK r \in Revisions, percent \in Percents :
        Visible(r, s) /\ Becomes(s, Activated(skActivations[s], r, percent))
  BY DEF ActivateSkill
<1> DEFINE old == skActivations[s]
           a == Activated(old, r, percent)
<1>2. old \in Activations /\ r \in Nat \ {0} /\ percent \in 0..100
      /\ Fit(s, r) /\ Fit(s, old.active) /\ Fit(s, old.previous)
  BY <1>1, SkillAssumption DEF SkInv, Revisions, Fit, Visible
<1>3. /\ a \in Activations /\ a.active = r
      /\ IF r = old.active THEN a.previous = old.previous /\ a.before = old.before
         ELSE a.previous = old.active /\ a.before = old.percent
  <2>1. CASE r = old.active
    <3>1. a = [old EXCEPT !.percent = percent]  BY <2>1 DEF Activated
    <3> QED  BY <1>2, <2>1, <3>1 DEF Activations
  <2>2. CASE r # old.active  BY <1>2, <2>2 DEF Activated, Activations
  <2> QED  BY <2>1, <2>2
<1>4. Becomes(s, a)  BY <1>1
<1> HIDE DEF a
<1>5. Fit(s, a.active) /\ Fit(s, a.previous)  BY <1>2, <1>3
<1> QED  BY <1>2, <1>3, <1>4, <1>5, BecomesKeeps

LEMMA RollbackKeeps ==
  ASSUME SkInv, NEW s \in Scopes, Rollback(s)
  PROVE  SkInv'
<1> DEFINE old == skActivations[s]
           a == [active |-> old.previous, percent |-> old.before,
                 previous |-> old.active, before |-> old.percent]
<1>1. old \in Activations /\ PastSound(s) /\ Fit(s, old.active) /\ Fit(s, old.previous)
  BY DEF SkInv
<1>2. old.previous # 0 /\ Becomes(s, a)  BY DEF Rollback
<1>3. /\ a \in Activations /\ a.active = old.previous /\ a.previous = old.active
      /\ a.before = old.percent
  BY <1>1 DEF Activations
<1>4. old.previous # old.active
  <2>1. PICK i \in OthersOf(s) : skPast[i].active = old.previous  BY <1>1, <1>2 DEF PastSound, Told
  <2> QED  BY <2>1 DEF OthersOf
<1> HIDE DEF a
<1> QED  BY <1>1, <1>2, <1>3, <1>4, BecomesKeeps

LEMMA SkInvStep == SkInv /\ [SkNext]_skVars => SkInv'
<1> SUFFICES ASSUME SkInv, [SkNext]_skVars PROVE SkInv'  OBVIOUS
<1>1. CASE UNCHANGED skVars
  BY <1>1 DEF skVars, SkInv, Fit, Revisions, PastSound, PastOf, OthersOf
<1> QED  BY <1>1, CreateRevisionKeeps, ActivateKeeps, RollbackKeeps DEF SkNext

LEMMA SkInvSound == SkInv => SkTypeOK /\ SkillsAreSound
<1> SUFFICES ASSUME SkInv PROVE SkTypeOK /\ SkillsAreSound  OBVIOUS
<1>1. SkTypeOK
  <2>1. Len(skRevisions) \in Nat  BY DEF SkInv
  <2>2. ASSUME NEW s \in Scopes
        PROVE  skActivations[s] \in [active : 0..Len(skRevisions), percent : 0..100,
                                     previous : 0..Len(skRevisions), before : 0..100]
    <3>1. skActivations[s] \in Activations /\ Fit(s, skActivations[s].active)
          /\ Fit(s, skActivations[s].previous)
      BY DEF SkInv
    <3>2. skActivations[s].active \in 0..Len(skRevisions)
          /\ skActivations[s].previous \in 0..Len(skRevisions)
      BY <2>1, <3>1 DEF Fit, Revisions
    <3> QED  BY <3>1, <3>2 DEF Activations
  <2> QED  BY <2>2 DEF SkInv, SkTypeOK
<1>2. RollbackReturns
  <2> SUFFICES ASSUME NEW s \in Scopes
      PROVE  LET a == skActivations[s]
                 others == {i \in 1..Len(skPast) : skPast[i].scope = s /\ skPast[i].active # a.active}
             IN IF others = {} THEN a.previous = 0
                ELSE LET last == CHOOSE i \in others : \A j \in others : j <= i
                     IN /\ skPast[last].active = a.previous
                        /\ skPast[last].percent = a.before
    BY DEF RollbackReturns
  <2> DEFINE a == skActivations[s]
             others == {i \in 1..Len(skPast) : skPast[i].scope = s /\ skPast[i].active # a.active}
             last == CHOOSE i \in others : \A j \in others : j <= i
  <2>1. others = OthersOf(s)  BY DEF OthersOf
  <2>2. CASE others = {}  BY <2>1, <2>2 DEF SkInv, PastSound, Told
  <2>3. CASE others # {}
    <3>1. PICK i \in others : /\ \A j \in others : j <= i
                              /\ skPast[i].active = a.previous /\ skPast[i].percent = a.before
      BY <2>1, <2>3 DEF SkInv, PastSound, Told, IsLatest
    <3>2. \A k \in others : (\A j \in others : j <= k) => k = i
      BY <3>1
    <3>3. last = i  BY <3>1, <3>2
    <3> QED  BY <2>3, <3>1, <3>3
  <2> QED  BY <2>2, <2>3
<1>3. RunsKeepTheirTenant
  <2> SUFFICES ASSUME NEW t \in SkillTenants, Picked(skActivations, t) # 0
      PROVE  skRevisions[Picked(skActivations, t)] \in {t, Everyone}
    BY DEF RunsKeepTheirTenant
  <2>1. t \in Scopes /\ Everyone \in Scopes  BY DEF Scopes
  <2>2. \/ Picked(skActivations, t) \in {skActivations[t].active, skActivations[t].previous}
        \/ Picked(skActivations, t) \in {skActivations[Everyone].active, skActivations[Everyone].previous}
    BY DEF Picked, PickedOf
  <2> QED  BY <2>1, <2>2 DEF SkInv, Fit
<1> QED  BY <1>1, <1>2, <1>3 DEF SkillsAreSound

-----------------------------------------------------------------------------
(***************************************************************************)
(* The guard of a run tells the last result of each part, its evidence,    *)
(* and how often it came in a row.                                         *)
(***************************************************************************)
LogEntry == [part : Parts, result : Errors \cup Done, evidence : 0..MaxEvidence]
GuardRow == [fp : Errors \cup {Neither}, evidence : 0..MaxEvidence, streak : Nat]

GuardTells(p) ==
  IF RecordedOf(p) = {} THEN lgGuard[p].fp = Neither /\ lgGuard[p].streak = 0
  ELSE LET last == lgLog[LastOf(p)] IN
       /\ lgGuard[p].evidence = last.evidence
       /\ lgGuard[p].fp = (IF last.result \in Done THEN Neither ELSE last.result)
       /\ lgGuard[p].streak = IF last.result \in Done THEN 0 ELSE Cardinality(EqualToLast(p))

LgInv ==
  /\ LgTypeOK
  /\ lgLog \in Seq(LogEntry)
  /\ lgCalls = [w \in ToolWorkers |-> lgCalls[w]]
  /\ \A w \in ToolWorkers : lgCalls[w] # NoToolCall => lgCalls[w] \in LogEntry
  /\ \A p \in Parts : GuardTells(p)

LEMMA LgInvSound == LgInv => LgTypeOK /\ StreakIsTrue
<1> SUFFICES ASSUME LgInv, NEW p \in Parts
             PROVE  lgGuard[p].streak =
                      IF RecordedOf(p) = {} \/ lgLog[LastOf(p)].result \in Done THEN 0
                      ELSE Cardinality(EqualToLast(p))
  BY DEF LgInv, StreakIsTrue
<1> QED  BY DEF LgInv, GuardTells

LEMMA LgInvInit == LgInit => LgInv
<1> SUFFICES ASSUME LgInit PROVE LgInv  OBVIOUS
<1>1. LgTypeOK  BY LoopGuardAssumption DEF LgInit, LgTypeOK, Empty
<1>2. \A p \in Parts : RecordedOf(p) = {}  BY DEF LgInit, RecordedOf
<1> QED  BY <1>1, <1>2 DEF LgInit, LgInv, GuardTells, Empty

LEMMA LastIs ==
  ASSUME LgInv, NEW p \in Parts, RecordedOf(p) # {}
  PROVE  LastOf(p) \in RecordedOf(p) /\ \A j \in RecordedOf(p) : j <= LastOf(p)
<1>1. Len(lgLog) \in Nat /\ RecordedOf(p) \subseteq 0..Len(lgLog)
  BY DEF LgInv, RecordedOf
<1>2. \E i \in RecordedOf(p) : \A j \in RecordedOf(p) : j <= i  BY <1>1, LastNatural
<1> QED  BY <1>2 DEF LastOf

LEMMA NothingRecorded ==
  ASSUME LgInv, UNCHANGED <<lgGuard, lgLog>>, LgTypeOK',
         lgCalls' = [w \in ToolWorkers |-> lgCalls'[w]],
         \A w \in ToolWorkers : lgCalls'[w] # NoToolCall => lgCalls'[w] \in LogEntry
  PROVE  LgInv'
<1>1. ASSUME NEW p \in Parts PROVE GuardTells(p)'
  <2>1. RecordedOf(p)' = RecordedOf(p)  BY DEF RecordedOf
  <2>2. LastOf(p)' = LastOf(p)  BY <2>1 DEF LastOf
  <2>3. EqualToLast(p)' = EqualToLast(p)  BY <2>1, <2>2 DEF EqualToLast
  <2> QED  BY <2>1, <2>2, <2>3 DEF LgInv, GuardTells
<1> QED  BY <1>1 DEF LgInv

(***************************************************************************)
(* One more result of part p: it is the last one now, and continues the    *)
(* row if it equals the one before.                                        *)
(***************************************************************************)
LEMMA OneMoreResult ==
  ASSUME LgInv, NEW p \in Parts, NEW entry \in LogEntry, entry.part = p,
         lgLog' = Append(lgLog, entry)
  PROVE  /\ lgLog' \in Seq(LogEntry)
         /\ RecordedOf(p)' # {} /\ lgLog'[LastOf(p)'] = entry
         /\ Cardinality(EqualToLast(p)') =
              IF RecordedOf(p) # {} /\ lgLog[LastOf(p)] = entry
                THEN Cardinality(EqualToLast(p)) + 1 ELSE 1
         /\ \A q \in Parts \ {p} :
              /\ RecordedOf(q)' = RecordedOf(q) /\ LastOf(q)' = LastOf(q)
              /\ EqualToLast(q)' = EqualToLast(q)
              /\ RecordedOf(q) # {} => lgLog'[LastOf(q)] = lgLog[LastOf(q)]
<1> DEFINE n == Len(lgLog)
<1>1. /\ lgLog' \in Seq(LogEntry) /\ n \in Nat /\ Len(lgLog') = n + 1
      /\ lgLog'[n + 1] = entry /\ \A i \in 1..n : lgLog'[i] = lgLog[i]
  BY AppendProperties, LenProperties DEF LgInv
<1>2. \A i \in 1..n + 1 : i = n + 1 \/ i \in 1..n  BY <1>1
<1>3. \A q : RecordedOf(q) \subseteq 1..n  BY DEF RecordedOf
<1>4. RecordedOf(p)' = RecordedOf(p) \cup {n + 1}  BY <1>1, <1>2 DEF RecordedOf
<1>5. ASSUME NEW q \in Parts \ {p}
      PROVE  /\ RecordedOf(q)' = RecordedOf(q) /\ LastOf(q)' = LastOf(q)
             /\ EqualToLast(q)' = EqualToLast(q)
             /\ RecordedOf(q) # {} => lgLog'[LastOf(q)] = lgLog[LastOf(q)]
  <2>1. RecordedOf(q)' = RecordedOf(q)  BY <1>1, <1>2 DEF RecordedOf
  <2>2. LastOf(q)' = LastOf(q)  BY <2>1 DEF LastOf
  <2>3. RecordedOf(q) # {} => lgLog'[LastOf(q)] = lgLog[LastOf(q)]
    BY <1>1, <1>3, LastIs
  <2>4. EqualToLast(q)' = EqualToLast(q)
    BY <1>1, <1>3, <2>1, <2>2, <2>3 DEF EqualToLast
  <2> QED  BY <2>1, <2>2, <2>3, <2>4
<1> HIDE DEF n
<1>6. n + 1 \in RecordedOf(p)' /\ \A j \in RecordedOf(p)' : j \in Nat /\ j <= n + 1
  BY <1>1, <1>3, <1>4
<1>7. LastOf(p)' = n + 1
  <2>1. LastOf(p)' = CHOOSE i \in RecordedOf(p)' : \A j \in RecordedOf(p)' : j <= i
    BY DEF LastOf
  <2>2. LastOf(p)' \in RecordedOf(p)' /\ \A j \in RecordedOf(p)' : j <= LastOf(p)'
    BY <1>6, <2>1
  <2> QED  BY <1>1, <1>6, <2>2
<1>8. EqualToLast(p)' = {i \in RecordedOf(p)' : \A j \in RecordedOf(p)' : i <= j => lgLog'[j] = entry}
  BY <1>1, <1>7 DEF EqualToLast
<1>9. EqualToLast(p) \subseteq 1..n /\ IsFiniteSet(EqualToLast(p)) /\ n + 1 \notin EqualToLast(p)
  <2>1. EqualToLast(p) \subseteq 1..n  BY <1>3 DEF EqualToLast
  <2>2. IsFiniteSet(1..n)  BY <1>1, FS_Interval
  <2> QED  BY <1>1, <2>1, <2>2, FS_Subset
<1>10. n + 1 \in EqualToLast(p)'  BY <1>1, <1>6, <1>8
<1>11. CASE RecordedOf(p) # {} /\ lgLog[LastOf(p)] = entry
  <2>1. EqualToLast(p) = {i \in RecordedOf(p) : \A j \in RecordedOf(p) : i <= j => lgLog[j] = entry}
    BY <1>11 DEF EqualToLast
  <2>2. ASSUME NEW i \in RecordedOf(p) PROVE i \in EqualToLast(p)' <=> i \in EqualToLast(p)
    BY <1>1, <1>3, <1>4, <1>8, <2>1
  <2>3. EqualToLast(p)' = EqualToLast(p) \cup {n + 1}
    BY <1>4, <1>8, <1>10, <2>1, <2>2
  <2>4. Cardinality(EqualToLast(p)') = Cardinality(EqualToLast(p)) + 1
    BY <1>9, <2>3, FS_AddElement
  <2> QED  BY <1>1, <1>5, <1>6, <1>7, <1>11, <2>4
<1>12. CASE ~ (RecordedOf(p) # {} /\ lgLog[LastOf(p)] = entry)
  <2>1. ASSUME NEW i \in RecordedOf(p) PROVE i \notin EqualToLast(p)'
    <3>1. LastOf(p) \in RecordedOf(p) /\ i <= LastOf(p) /\ lgLog[LastOf(p)] # entry
      BY <1>12, LastIs
    <3>2. LastOf(p) \in RecordedOf(p)' /\ lgLog'[LastOf(p)] # entry
      BY <1>1, <1>3, <1>4, <3>1
    <3> QED  BY <1>8, <3>1, <3>2
  <2>2. EqualToLast(p)' \subseteq RecordedOf(p)'  BY <1>8
  <2>3. ASSUME NEW i \in EqualToLast(p)' PROVE i = n + 1
    <3>1. i \in RecordedOf(p) \cup {n + 1}  BY <1>4, <2>2
    <3> QED  BY <2>1, <3>1
  <2>4. EqualToLast(p)' = {n + 1}  BY <1>10, <2>3
  <2> QED  BY <1>1, <1>4, <1>5, <1>7, <1>12, <2>4, FS_Singleton
<1> QED  BY <1>11, <1>12

LEMMA RecordKeeps ==
  ASSUME LgInv, NEW w \in ToolWorkers, Record(w)
  PROVE  LgInv'
<1>0. PICK call \in LogEntry : call = lgCalls[w]  BY DEF LgInv, Record
<1>0a. PICK p \in Parts : p = call.part  BY DEF LogEntry
<1>0b. PICK entry \in LogEntry :
         entry = [part |-> call.part, result |-> call.result, evidence |-> call.evidence]
  BY DEF LogEntry
<1> DEFINE old == lgGuard[p]
           new == Updated(old, call)
<1>1. /\ lgGuard' = [lgGuard EXCEPT ![p] = new]
      /\ lgLog' = Append(lgLog, entry)
      /\ lgCalls' = [lgCalls EXCEPT ![w] = NoToolCall]
      /\ UNCHANGED <<lgPath, lgEvidence, lgBudget>>
  BY <1>0, <1>0a, <1>0b DEF Record, Ended
<1>2. /\ entry.part = p /\ entry.result = call.result
      /\ entry.evidence = call.evidence
      /\ \A e \in LogEntry : e = [part |-> e.part, result |-> e.result, evidence |-> e.evidence]
  BY <1>0a, <1>0b DEF LogEntry
<1>3. old \in GuardRow /\ lgGuard \in [Parts -> GuardRow] /\ GuardTells(p)
  BY <1>2 DEF LgInv, LgTypeOK, GuardRow
<1>4. Errors \cap (Done \cup {Neither}) = {}  BY LoopGuardAssumption DEF Done, Neither
<1> HIDE DEF old
<1>5. /\ lgLog' \in Seq(LogEntry)
      /\ RecordedOf(p)' # {} /\ lgLog'[LastOf(p)'] = entry
      /\ Cardinality(EqualToLast(p)') =
           IF RecordedOf(p) # {} /\ lgLog[LastOf(p)] = entry
             THEN Cardinality(EqualToLast(p)) + 1 ELSE 1
      /\ \A q \in Parts \ {p} :
           /\ RecordedOf(q)' = RecordedOf(q) /\ LastOf(q)' = LastOf(q)
           /\ EqualToLast(q)' = EqualToLast(q)
           /\ RecordedOf(q) # {} => lgLog'[LastOf(q)] = lgLog[LastOf(q)]
  BY <1>1, <1>2, OneMoreResult
<1>6. new \in GuardRow /\ new.evidence = entry.evidence
      /\ new.fp = (IF entry.result \in Done THEN Neither ELSE entry.result)
      /\ new.streak = IF entry.result \in Done THEN 0 ELSE Cardinality(EqualToLast(p)')
  <2>1. CASE call.result \in Done
    BY <1>1, <1>2, <2>1 DEF Updated, GuardRow, LogEntry
  <2>2. CASE call.result \notin Done
    <3>1. call.result \in Errors /\ call.evidence \in 0..MaxEvidence
      BY <1>1, <2>2 DEF LogEntry
    <3>2. new = [fp |-> call.result, evidence |-> call.evidence,
                 streak |-> IF Same(old, call) THEN old.streak + 1 ELSE 1]
      BY <2>2 DEF Updated
    <3>3. Same(old, call) <=> RecordedOf(p) # {} /\ lgLog[LastOf(p)] = entry
      <4>1. CASE RecordedOf(p) = {}
        BY <1>3, <1>4, <3>1, <4>1 DEF Same, GuardTells, old
      <4>2. CASE RecordedOf(p) # {}
        <5> DEFINE last == lgLog[LastOf(p)]
        <5>1. last \in LogEntry /\ last.part = p
          <6>1. LastOf(p) \in RecordedOf(p)  BY <1>2, <4>2, LastIs
          <6> QED  BY <6>1, ElementOfSeq DEF LgInv, RecordedOf
        <5>2. /\ old.evidence = last.evidence
              /\ old.fp = (IF last.result \in Done THEN Neither ELSE last.result)
          BY <1>3, <4>2 DEF GuardTells, old
        <5>3. Same(old, call) <=> last.result = call.result /\ last.evidence = call.evidence
          BY <1>4, <2>2, <3>1, <5>2 DEF Same
        <5> HIDE DEF last
        <5>4. last = entry <=> last.result = call.result /\ last.evidence = call.evidence
          <6>1. last = [part |-> last.part, result |-> last.result, evidence |-> last.evidence]
            BY <1>2, <5>1
          <6> QED  BY <1>0b, <1>2, <5>1, <6>1
        <5> QED  BY <4>2, <5>3, <5>4 DEF last
      <4> QED  BY <4>1, <4>2
    <3>4. Same(old, call) => old.streak = Cardinality(EqualToLast(p)) /\ old.streak \in Nat
      BY <1>2, <1>3, <2>2, <3>3 DEF GuardTells, old, GuardRow
    <3> QED  BY <1>2, <1>5, <2>2, <3>1, <3>2, <3>3, <3>4 DEF GuardRow
  <2> QED  BY <2>1, <2>2
<1> HIDE DEF new
<1>7. lgGuard' \in [Parts -> GuardRow]  BY <1>1, <1>3, <1>6
<1>8. LgTypeOK'  BY <1>1, <1>7 DEF LgInv, LgTypeOK, GuardRow
<1>9. ASSUME NEW q \in Parts PROVE GuardTells(q)'
  <2>1. CASE q = p
    <3>1. lgGuard'[q] = new  BY <1>1, <1>2, <1>3, <2>1
    <3> QED  BY <1>5, <1>6, <2>1, <3>1 DEF GuardTells
  <2>2. CASE q # p
    <3>1. lgGuard'[q] = lgGuard[q] /\ GuardTells(q)  BY <1>1, <1>3, <2>2 DEF LgInv
    <3> QED  BY <1>5, <2>2, <3>1 DEF GuardTells
  <2> QED  BY <2>1, <2>2
<1>10. lgCalls' = [v \in ToolWorkers |-> lgCalls'[v]]
       /\ \A v \in ToolWorkers : lgCalls'[v] # NoToolCall => lgCalls'[v] \in LogEntry
  BY <1>1 DEF LgInv
<1> QED  BY <1>5, <1>8, <1>9, <1>10 DEF LgInv

LEMMA ToolRunsKeeps ==
  ASSUME LgInv, NEW w \in ToolWorkers, ToolRuns(w)
  PROVE  LgInv'
<1>1. PICK p \in Parts, e \in lgEvidence - 1 .. lgEvidence :
        \E result \in Errors \cup (IF p = "builder" THEN Done ELSE {}) :
          /\ e >= 0
          /\ lgCalls' = [lgCalls EXCEPT ![w] = [part |-> p, result |-> result, evidence |-> e]]
  BY DEF ToolRuns
<1>2. PICK result \in Errors \cup (IF p = "builder" THEN Done ELSE {}) :
          /\ e >= 0
          /\ lgCalls' = [lgCalls EXCEPT ![w] = [part |-> p, result |-> result, evidence |-> e]]
  BY <1>1
<1> DEFINE call == [part |-> p, result |-> result, evidence |-> e]
<1>3. MaxEvidence \in Nat /\ lgEvidence \in 0..MaxEvidence /\ e \in lgEvidence - 1 .. lgEvidence /\ e >= 0
  BY <1>2, LoopGuardAssumption DEF LgInv, LgTypeOK
<1>4. e \in 0..MaxEvidence  BY <1>3
<1>5. call \in LogEntry  BY <1>4 DEF LogEntry
<1>6. LgTypeOK' /\ UNCHANGED <<lgGuard, lgLog>>
  BY SMTT(15), LoopGuardAssumption DEF ToolRuns, LgInv, LgTypeOK
<1>7. lgCalls' = [lgCalls EXCEPT ![w] = call]  BY <1>2
<1> HIDE DEF call
<1> QED  BY <1>5, <1>6, <1>7, NothingRecorded DEF LgInv

LEMMA LgInvStep ==
  ASSUME LgInv, [LgNext]_lgVars
  PROVE  LgInv'
<1>1. ASSUME NEW w \in ToolWorkers, LockWaitTimeout(w) \/ CallLost(w) PROVE LgInv'
  <2>1. /\ lgCalls' = [lgCalls EXCEPT ![w] = NoToolCall]
        /\ UNCHANGED <<lgPath, lgGuard, lgEvidence, lgLog, lgBudget>>
    BY <1>1 DEF LockWaitTimeout, CallLost, Ended
  <2> QED  BY <2>1, NothingRecorded DEF LgInv, LgTypeOK
<1>2. CASE EvidenceGrows
  <2>1. lgEvidence' \in 0..MaxEvidence
    BY <1>2, LoopGuardAssumption DEF EvidenceGrows, LgInv, LgTypeOK
  <2> QED  BY <1>2, <2>1, NothingRecorded DEF EvidenceGrows, LgInv, LgTypeOK
<1>3. CASE UNCHANGED lgVars  BY <1>3, NothingRecorded DEF lgVars, LgInv, LgTypeOK
<1> QED  BY <1>1, <1>2, <1>3, RecordKeeps, ToolRunsKeeps DEF LgNext

-----------------------------------------------------------------------------
(***************************************************************************)
(* Each component on its own.                                              *)
(***************************************************************************)

(***************************************************************************)
(* Over all months, what a user is charged and held is what the rows of    *)
(* the user's permits say, in any order of reservations, settlements,      *)
(* releases and ends of months.                                            *)
(***************************************************************************)
THEOREM CountersStayTrue == LedgerSpec => []UserCountersMatchRows
<1>1. LedgerInit => LedgerTypeOK /\ UserCountersMatchRows  BY LedgerTypeInit, CountersInit
<1>2. ASSUME LedgerTypeOK, UserCountersMatchRows, [LedgerNext]_ledgerVars
      PROVE  LedgerTypeOK' /\ UserCountersMatchRows'
  BY <1>2, LedgerTypeStep, CountersStep
<1> QED  BY <1>1, <1>2, PTL DEF LedgerSpec

(***************************************************************************)
(* A version is the revision that its own run wrote, in order and once;    *)
(* the events tell all of it; a run of the current runtime that completed  *)
(* without a warning, and never lost its worker inside a call, has         *)
(* published whatever it tried to publish; and a formal analysis by Pi     *)
(* that ended well has published a version of its own.                     *)
(***************************************************************************)
THEOREM PublicationStaysSound == PubSpec => []PublicationIsSound
<1>1. PubInv /\ [PubNext]_pubVars => PubInv'  BY PubInvStep
<1> QED  BY <1>1, PubInitSound, PubInvSound, PTL DEF PubSpec

(***************************************************************************)
(* However many requests arrive at once, with views however old: a session *)
(* has one run under way, except for runs that a worker began on its old   *)
(* copy; a key starts one run, a question has one answer.                  *)
(***************************************************************************)
THEOREM SessionStaysSound == CvSpec => []SessionIsSound
<1>1. CvInv /\ [CvNext]_cvVars => CvInv'  BY CvInvStep
<1> QED  BY <1>1, CvInvInit, CvInvSound, PTL DEF CvSpec

(***************************************************************************)
(* However many processes list, write late, collide or fail, and whatever  *)
(* the provider offers in between: a tool that was found changed, or       *)
(* missing although it is reviewed, is usable by nobody again, no call     *)
(* goes to it, and a tool of the manifest is usable under its reviewed     *)
(* signature only.  (Of a missing tool that is not reviewed nothing is     *)
(* said: its row stays as it is.)                                          *)
(***************************************************************************)
THEOREM CatalogStaysSound == TcSpec => []CatalogIsSound
<1> QED  BY TcInvInit, TcInvStep, TcInvSound, PTL DEF TcSpec

(***************************************************************************)
(* However activations, switches, licenses and messages meet: the tenant's *)
(* pointer names its one active configuration, runs fit the configuration  *)
(* they were frozen with, and a write that is sent twice is done once.     *)
(***************************************************************************)
THEOREM TenantStaysSound == TaSpec => []TenantIsSound
<1>1. TaInv /\ [TaNext]_taVars => TaInv'  BY TaInvStep
<1>2. TaInv => TenantIsSound  BY DEF TaInv
<1> QED  BY <1>1, <1>2, TaInvInit, PTL DEF TaSpec

(***************************************************************************)
(* What activations and rollbacks of skills, in any scopes and any number, *)
(* leave to the runs of a tenant.                                          *)
(***************************************************************************)
THEOREM SkillsStaySound == SkSpec => []SkillsAreSound
<1> QED  BY SkInvInit, SkInvStep, SkInvSound, PTL DEF SkSpec

(***************************************************************************)
(* The streak in a guard is the number of equal results at the end of what *)
(* was recorded, for any number of workers, calls and lost calls.          *)
(***************************************************************************)
THEOREM StreakStaysTrue == LgSpec => []StreakIsTrue
<1>1. LgInv /\ [LgNext]_lgVars => LgInv'  BY LgInvStep
<1> QED  BY <1>1, LgInvInit, LgInvSound, PTL DEF LgSpec

-----------------------------------------------------------------------------
(***************************************************************************)
(* All of them.                                                            *)
(***************************************************************************)
TransactionsInv ==
  /\ Accounts /\ UserCountersMatchRows /\ PubInv /\ CvInv
  /\ TcInv /\ TcTypeOK /\ TaInv /\ SkInv /\ LgInv

LEMMA TransactionsInvInit == TransactionsInit => TransactionsInv
BY AccountsInit, CountersInit, PubInitSound, CvInvInit, TcInvInit, TcTypeInit, TaInvInit, SkInvInit,
   LgInvInit
   DEF TransactionsInit, TransactionsInv

(***************************************************************************)
(* A step of the whole is a step of each component, or leaves it alone.    *)
(***************************************************************************)
LEMMA TransactionsSteps ==
  ASSUME [TransactionsNext]_vars
  PROVE  /\ [LedgerNext]_ledgerVars /\ [PubNext]_pubVars /\ [CvNext]_cvVars /\ [TcNext]_tcVars
         /\ [TaNext]_taVars /\ [SkNext]_skVars /\ [LgNext]_lgVars
<1>1. CASE TransactionsNext
  BY <1>1 DEF TransactionsNext, Points, Drafts, Session, Catalog, Tenant, Skills, Guard
<1>2. CASE UNCHANGED vars  BY <1>2 DEF vars
<1> QED  BY <1>1, <1>2

LEMMA TransactionsInvStep ==
  ASSUME TransactionsInv, [TransactionsNext]_vars
  PROVE  TransactionsInv'
<1>1. /\ [LedgerNext]_ledgerVars /\ [PubNext]_pubVars /\ [CvNext]_cvVars /\ [TcNext]_tcVars
      /\ [TaNext]_taVars /\ [SkNext]_skVars /\ [LgNext]_lgVars
  BY TransactionsSteps
<1>2. Accounts /\ LedgerTypeOK /\ UserCountersMatchRows  BY DEF TransactionsInv, Accounts
<1>3. Accounts'  BY <1>1, <1>2, AccountsStep
<1>4. LedgerTypeOK'  BY <1>3 DEF Accounts
<1>5. UserCountersMatchRows'  BY <1>1, <1>2, <1>4, CountersStep
<1>6. PubInv' /\ CvInv'  BY <1>1, PubInvStep, CvInvStep DEF TransactionsInv
<1>7. TcInv' /\ TcTypeOK'  BY <1>1, TcInvStep, TcTypeStep DEF TransactionsInv
<1>8. TaInv' /\ SkInv' /\ LgInv'  BY <1>1, TaInvStep, SkInvStep, LgInvStep DEF TransactionsInv
<1> QED  BY <1>3, <1>5, <1>6, <1>7, <1>8 DEF TransactionsInv

LEMMA TransactionsInvariant == TransactionsSpec => []TransactionsInv
<1>1. TransactionsInv /\ [TransactionsNext]_vars => TransactionsInv'  BY TransactionsInvStep
<1> QED  BY <1>1, TransactionsInvInit, PTL DEF TransactionsSpec

(***************************************************************************)
(* Types, and the bookkeeping of each component.                           *)
(***************************************************************************)
THEOREM TransactionsKeepTypes == TransactionsSpec => []TransactionsTypeOK
<1>1. TransactionsInv => TransactionsTypeOK
  BY PubInvSound, CvInvSound, SkInvSound, LgInvSound
     DEF TransactionsInv, TransactionsTypeOK, Accounts, TaInv
<1> QED  BY <1>1, TransactionsInvariant, PTL

(***************************************************************************)
(* What a session takes in while its runs go on is sound, but for runs     *)
(* that a worker began on its old copy; and so is what a run's guard       *)
(* counts.                                                                 *)
(***************************************************************************)
THEOREM TransactionsKeepConduct == TransactionsSpec => []ConductIsSound
<1>1. TransactionsInv => ConductIsSound
  BY CvInvSound, LgInvSound DEF TransactionsInv, ConductIsSound
<1> QED  BY <1>1, TransactionsInvariant, PTL

(***************************************************************************)
(* What administration decides about new runs is sound.                    *)
(***************************************************************************)
THEOREM TransactionsKeepAdministration == TransactionsSpec => []AdministrationIsSound
<1>1. TransactionsInv => AdministrationIsSound
  BY SkInvSound DEF TransactionsInv, TaInv, AdministrationIsSound
<1> QED  BY <1>1, TransactionsInvariant, PTL

(***************************************************************************)
(* The points, the user's counters, the publications and the catalog too.  *)
(***************************************************************************)
THEOREM TransactionsKeepBooks ==
  TransactionsSpec =>
    [](PointsAreAccounted /\ UserCountersMatchRows /\ PublicationIsSound /\ CatalogIsSound)
<1>1. TransactionsInv =>
        PointsAreAccounted /\ UserCountersMatchRows /\ PublicationIsSound /\ CatalogIsSound
  BY PubInvSound, TcInvSound DEF TransactionsInv, Accounts, PointsAreAccounted
<1> QED  BY <1>1, TransactionsInvariant, PTL

(***************************************************************************)
(* A run starts with what the tenant has at that moment: an active         *)
(* configuration, or the system's, and the one its pointer names unless    *)
(* the kill switch is on, however old the request's view is.               *)
(***************************************************************************)
THEOREM TransactionsStartRight == TransactionsSpec => RunsStartRight
<1>1. TransactionsInv /\ [TransactionsNext]_vars => [StartsRight]_taVars
  <2> SUFFICES ASSUME TransactionsInv, [TransactionsNext]_vars PROVE [StartsRight]_taVars
    OBVIOUS
  <2>1. TaInv /\ [TaNext]_taVars  BY TransactionsSteps DEF TransactionsInv
  <2> QED  BY <2>1, TaInvStep
<1>2. TransactionsSpec => [][StartsRight]_taVars
  BY <1>1, TransactionsInvariant, PTL DEF TransactionsSpec
<1> QED  BY <1>2 DEF RunsStartRight, StartsRight
=============================================================================
