------------------------- MODULE SourceEventsProofs -------------------------
(***************************************************************************)
(* The events of a run, proved for every script, batch size, number of     *)
(* tries, set of processes and of readers: what is stored of an attempt is *)
(* what it said first, each event once (EvInv, StoreInv), the message ends *)
(* with the text of the attempt that answered, nothing follows the         *)
(* terminal event, and readers go forward only.                            *)
(***************************************************************************)
EXTENDS SourceEvents, SequenceTheorems, FiniteSetTheorems, WellFoundedInduction, TLAPS

-----------------------------------------------------------------------------
(***************************************************************************)
(* Finite sets of numbers and their lists.  What would be an induction is  *)
(* a least counterexample: the library's well-foundedness of Nat gives a   *)
(* least member (LeastNatural), and from it a greatest (LastNatural).      *)
(***************************************************************************)

\* A set of numbers that is not empty has a least member.
LEMMA LeastNatural ==
  ASSUME NEW S, S \subseteq Nat, S # {}
  PROVE  \E x \in S : \A y \in S : x <= y
<1>1. PICK x \in S : \A y \in S : ~ (<<y, x>> \in OpToRel(<, Nat))
  BY WFMin, NatLessThanWellFounded
<1>2. ASSUME NEW y \in S PROVE x <= y
  <2>1. x \in Nat /\ y \in Nat  OBVIOUS
  <2>2. <<y, x>> \in OpToRel(<, Nat) <=> y < x
    <3>1. <<y, x>> \in Nat \X Nat /\ <<y, x>>[1] = y /\ <<y, x>>[2] = x  BY <2>1
    <3> QED  BY <3>1 DEF OpToRel
  <2>3. ~ (y < x)  BY <1>1, <2>2
  <2> QED  BY <2>1, <2>3
<1> QED  BY <1>2

\* A bounded one has a greatest.
LEMMA LastNatural ==
  ASSUME NEW n \in Nat, NEW S, S \subseteq 0..n, S # {}
  PROVE  \E x \in S : \A y \in S : y <= x
<1> DEFINE B == {m \in Nat : \A y \in S : y <= m}
<1>1. n \in B  OBVIOUS
<1>2. PICK b \in B : \A m \in B : b <= m  BY <1>1, LeastNatural
<1>3. b \in S
  <2> SUFFICES ASSUME b \notin S PROVE FALSE  OBVIOUS
  <2>1. b \in Nat /\ \A y \in S : y <= b /\ y # b /\ y \in Nat  OBVIOUS
  <2>2. PICK y \in S : TRUE  OBVIOUS
  <2>3. b - 1 \in Nat  BY <2>1, <2>2
  <2>4. b - 1 \in B  BY <2>1, <2>3
  <2> QED  BY <1>2, <2>1, <2>4
<1> QED  BY <1>3

-----------------------------------------------------------------------------
\* s is the list of the n numbers of S.

Lists(s, n, S) ==
  /\ \A i \in 1..n : s[i] \in S
  /\ \A i, j \in 1..n : i < j => s[i] < s[j]
  /\ \A x \in S : \E i \in 1..n : s[i] = x

UpTo(S, n) == {x \in S : x <= n}

\* A list grows by a number greater than all.
LEMMA ListGrows ==
  ASSUME NEW S, IsFiniteSet(S), S \subseteq Nat, NEW b \in Nat, \A x \in S : x < b,
         NEW s \in [1..Cardinality(S) -> S], Lists(s, Cardinality(S), S)
  PROVE  \E t \in [1..Cardinality(S \cup {b}) -> S \cup {b}] :
           Lists(t, Cardinality(S \cup {b}), S \cup {b})
<1> DEFINE n == Cardinality(S)
           t == [i \in 1..(n + 1) |-> IF i = n + 1 THEN b ELSE s[i]]
<1>1. b \notin S  OBVIOUS
<1>2. n \in Nat  BY FS_CardinalityType
<1>3. Cardinality(S \cup {b}) = n + 1  BY <1>1, FS_AddElement
<1> HIDE DEF n
<1>4. \A i \in 1..(n + 1) : i = n + 1 \/ i \in 1..n  BY <1>2
<1>5. n + 1 \in 1..(n + 1) /\ \A i \in 1..n : i \in 1..(n + 1) /\ i # n + 1  BY <1>2
<1>s. s \in [1..n -> S] /\ Lists(s, n, S)  BY DEF n
<1>6. t[n + 1] = b /\ \A i \in 1..n : t[i] = s[i]  BY <1>5
<1>7. t \in [1..(n + 1) -> S \cup {b}]
  <2>1. \A i \in 1..(n + 1) : t[i] \in S \cup {b}  BY <1>4, <1>6, <1>s
  <2>2. t = [i \in 1..(n + 1) |-> t[i]]  OBVIOUS
  <2> HIDE DEF t
  <2> QED  BY <2>1, <2>2
<1> HIDE DEF t
<1>8. Lists(t, n + 1, S \cup {b})
  <2>1. \A i \in 1..(n + 1) : t[i] \in S \cup {b}  BY <1>7
  <2>2. ASSUME NEW i \in 1..(n + 1), NEW j \in 1..(n + 1), i < j PROVE t[i] < t[j]
    <3>1. i \in 1..n  BY <2>2, <1>2
    <3>2. CASE j = n + 1  BY <3>1, <3>2, <1>6, <1>s
    <3>3. CASE j \in 1..n  BY <2>2, <3>1, <3>3, <1>6, <1>s DEF Lists
    <3> QED  BY <3>2, <3>3, <1>4
  <2>3. ASSUME NEW x \in S \cup {b} PROVE \E i \in 1..(n + 1) : t[i] = x
    <3>1. CASE x = b  BY <3>1, <1>5, <1>6
    <3>2. CASE x \in S
      <4>1. PICK i \in 1..n : s[i] = x  BY <3>2, <1>s DEF Lists
      <4> QED  BY <4>1, <1>5, <1>6
    <3> QED  BY <3>1, <3>2
  <2> QED  BY <2>1, <2>2, <2>3 DEF Lists
<1> QED  BY <1>3, <1>7, <1>8

\* A set of numbers up to m is finite.
LEMMA FiniteUpTo ==
  ASSUME NEW m \in Nat, NEW S, S \subseteq 0..m
  PROVE  IsFiniteSet(S) /\ \A x \in S : x \in Nat /\ x <= m
<1>1. 0 \in Int /\ m \in Int  OBVIOUS
<1>2. IsFiniteSet(0..m)  BY <1>1, FS_Interval
<1>3. IsFiniteSet(S)  BY <1>2, FS_Subset
<1>4. \A x \in 0..m : x \in Nat /\ x <= m  OBVIOUS
<1> QED  BY <1>3, <1>4

\* Every finite set of numbers has a list: there is no least bound below which one has none.
LEMMA ListExists ==
  ASSUME NEW m \in Nat, NEW S, S \subseteq 0..m
  PROVE  \E s \in [1..Cardinality(S) -> S] : Lists(s, Cardinality(S), S)
<1> DEFINE Listed(T) == \E s \in [1..Cardinality(T) -> T] : Lists(s, Cardinality(T), T)
           Bad == {n \in Nat : ~ Listed(UpTo(S, n))}
<1>f. \A x \in S : x \in Nat /\ x <= m  BY FiniteUpTo
<1>0. Listed({})
  <2>1. Cardinality({}) = 0  BY FS_EmptySet
  <2>2. 1..0 = {}  OBVIOUS
  <2> DEFINE s == [i \in {} |-> 0]
  <2>3. s \in [{} -> {}]  OBVIOUS
  <2>4. Lists(s, 0, {})  BY <2>2 DEF Lists
  <2> QED  BY <2>1, <2>2, <2>3, <2>4
<1>1. Bad = {}
  <2> SUFFICES ASSUME Bad # {} PROVE FALSE  OBVIOUS
  <2>1. PICK b \in Bad : \A y \in Bad : b <= y  BY LeastNatural
  <2> DEFINE T == {x \in S : x < b}
  <2>b. b \in Nat  OBVIOUS
  <2>t. T \subseteq 0..m /\ T \subseteq Nat /\ \A x \in T : x < b  BY <1>f
  <2>2. Listed(T)
    <3>1. CASE b = 0
      <4>0. \A x \in Nat : ~ (x < 0)  OBVIOUS
      <4>1. T = {}  BY <3>1, <2>t, <4>0
      <4> QED  BY <4>1, <1>0
    <3>2. CASE b # 0
      <4>1. b - 1 \in Nat /\ ~ (b <= b - 1)  BY <3>2, <2>b
      <4>2. b - 1 \notin Bad  BY <4>1, <2>1
      <4>3. \A x \in Nat : x <= b - 1 <=> x < b  BY <3>2, <2>b
      <4>4. UpTo(S, b - 1) = T  BY <4>3, <1>f DEF UpTo
      <4> QED  BY <4>1, <4>2, <4>4
    <3> QED  BY <3>1, <3>2
  <2>3. UpTo(S, b) = T \/ UpTo(S, b) = T \cup {b}
    <3>1. \A x \in Nat : x <= b <=> x < b \/ x = b  BY <2>b
    <3>2. \A x : x \in UpTo(S, b) <=> x \in S /\ (x < b \/ x = b)  BY <3>1, <1>f DEF UpTo
    <3>3. CASE b \in S
      <4>1. \A x : x \in UpTo(S, b) <=> x \in T \cup {b}  BY <3>2, <3>3
      <4> QED  BY <4>1
    <3>4. CASE b \notin S
      <4>1. \A x : x \in UpTo(S, b) <=> x \in T  BY <3>2, <3>4
      <4> QED  BY <4>1
    <3> QED  BY <3>3, <3>4
  <2> HIDE DEF T
  <2>4. Listed(T \cup {b})
    <3>1. IsFiniteSet(T)  BY <2>t, FiniteUpTo
    <3>2. PICK s \in [1..Cardinality(T) -> T] : Lists(s, Cardinality(T), T)  BY <2>2
    <3> QED  BY <3>1, <3>2, <2>b, <2>t, ListGrows
  <2> QED  BY <2>1, <2>2, <2>3, <2>4
<1>2. UpTo(S, m) = S  BY <1>f DEF UpTo
<1> HIDE DEF Listed
<1>3. Listed(UpTo(S, m))  BY <1>1
<1> QED  BY <1>2, <1>3 DEF Listed

\* InOrder(S) is the list of S.
LEMMA InOrderLists ==
  ASSUME NEW m \in Nat, NEW S, S \subseteq 0..m
  PROVE  /\ Cardinality(S) \in Nat
         /\ InOrder(S) \in [1..Cardinality(S) -> S]
         /\ Lists(InOrder(S), Cardinality(S), S)
<1>1. IsFiniteSet(S)  BY FiniteUpTo
<1>2. Cardinality(S) \in Nat  BY <1>1, FS_CardinalityType
<1>3. \E s \in [1..Cardinality(S) -> S] :
        /\ \A i, j \in 1..Cardinality(S) : i < j => s[i] < s[j]
        /\ \A n \in S : \E i \in 1..Cardinality(S) : s[i] = n
  BY ZenonT(30), ListExists DEF Lists
<1>4. /\ InOrder(S) \in [1..Cardinality(S) -> S]
      /\ \A i, j \in 1..Cardinality(S) : i < j => InOrder(S)[i] < InOrder(S)[j]
      /\ \A n \in S : \E i \in 1..Cardinality(S) : InOrder(S)[i] = n
  BY <1>3 DEF InOrder
<1> QED  BY <1>2, <1>4 DEF Lists

Same(s, m, t, n) == m = n /\ \A i \in 1..m : s[i] = t[i]

\* Two lists of the same numbers are equal.
LEMMA ListsAgree ==
  ASSUME NEW S, S \subseteq Nat, NEW m \in Nat, NEW n \in Nat, NEW s, NEW t,
         Lists(s, m, S), Lists(t, n, S)
  PROVE  Same(s, m, t, n)
<1> DEFINE Bad == {i \in 1..m : i \in 1..n /\ s[i] # t[i]}
<1>1. Bad = {}
  <2> SUFFICES ASSUME Bad # {} PROVE FALSE  OBVIOUS
  <2>0. Bad \subseteq Nat  OBVIOUS
  <2>1. PICK b \in Bad : \A y \in Bad : b <= y  BY <2>0, LeastNatural
  <2>2. b \in 1..m /\ b \in 1..n /\ s[b] # t[b] /\ s[b] \in S /\ t[b] \in S  BY <2>1 DEF Lists
  <2>s. \A x \in S : x \in Nat  OBVIOUS
  <2>a. b \in Nat  BY <2>2
  <2>n. b \in Nat /\ s[b] \in Nat /\ t[b] \in Nat  BY <2>2, <2>a, <2>s
  <2>m. \A i \in 1..m : i \in Nat  OBVIOUS
  <2>l. \A i \in 1..n : i \in Nat  OBVIOUS
  <2>3. \A i \in Nat : i < b /\ i # 0 => i \in 1..m /\ i \in 1..n /\ s[i] = t[i]
    <3> SUFFICES ASSUME NEW i \in Nat, i < b, i # 0 PROVE i \in 1..m /\ i \in 1..n /\ s[i] = t[i]
      OBVIOUS
    <3>1. i \in 1..m /\ i \in 1..n  BY <2>2
    <3>2. ~ (b <= i)  BY <2>n
    <3>3. i \notin Bad  BY <3>2, <2>1
    <3> QED  BY <3>1, <3>3
  <2>4. CASE s[b] < t[b]
    <3>1. PICK j \in 1..n : t[j] = s[b]  BY <2>2 DEF Lists
    <3>2. j < b
      <4>1. j = b \/ b < j \/ j < b  BY <2>2
      <4>2. b < j => t[b] < t[j]  BY <2>2 DEF Lists
      <4> QED  BY <4>1, <4>2, <3>1, <2>n, <2>4
    <3>0. j \in Nat /\ j # 0  OBVIOUS
    <3>3. s[j] = s[b] /\ j \in 1..m  BY <3>0, <3>1, <3>2, <2>3
    <3>4. s[j] < s[b]  BY <3>2, <3>3, <2>2 DEF Lists
    <3> QED  BY <3>3, <3>4, <2>n
  <2>5. CASE t[b] < s[b]
    <3>1. PICK j \in 1..m : s[j] = t[b]  BY <2>2 DEF Lists
    <3>2. j < b
      <4>1. j = b \/ b < j \/ j < b  BY <2>2
      <4>2. b < j => s[b] < s[j]  BY <2>2 DEF Lists
      <4> QED  BY <4>1, <4>2, <3>1, <2>n, <2>5
    <3>0. j \in Nat /\ j # 0  OBVIOUS
    <3>3. t[j] = t[b] /\ j \in 1..n  BY <3>0, <3>1, <3>2, <2>3
    <3>4. t[j] < t[b]  BY <3>2, <3>3, <2>2 DEF Lists
    <3> QED  BY <3>3, <3>4, <2>n
  <2>6. s[b] < t[b] \/ t[b] < s[b]  BY <2>2, <2>n
  <2> QED  BY <2>4, <2>5, <2>6
<1>2. ~ (m < n)
  <2> SUFFICES ASSUME m < n PROVE FALSE  OBVIOUS
  <2>1. m + 1 \in 1..n  OBVIOUS
  <2>2. t[m + 1] \in S  BY <2>1 DEF Lists
  <2>3. PICK j \in 1..m : s[j] = t[m + 1]  BY <2>2 DEF Lists
  <2>4. j \in 1..n /\ j < m + 1  OBVIOUS
  <2>5. t[j] < t[m + 1]  BY <2>1, <2>4 DEF Lists
  <2>6. t[j] = t[m + 1]  BY <2>3, <2>4, <1>1
  <2>7. t[m + 1] \in Nat  BY <2>2
  <2> QED  BY <2>5, <2>6, <2>7
<1>3. ~ (n < m)
  <2> SUFFICES ASSUME n < m PROVE FALSE  OBVIOUS
  <2>1. n + 1 \in 1..m  OBVIOUS
  <2>2. s[n + 1] \in S  BY <2>1 DEF Lists
  <2>3. PICK j \in 1..n : t[j] = s[n + 1]  BY <2>2 DEF Lists
  <2>4. j \in 1..m /\ j < n + 1  OBVIOUS
  <2>5. s[j] < s[n + 1]  BY <2>1, <2>4 DEF Lists
  <2>6. s[j] = s[n + 1]  BY <2>3, <2>4, <1>1
  <2>7. s[n + 1] \in Nat  BY <2>2
  <2> QED  BY <2>5, <2>6, <2>7
<1>4. m = n  BY <1>2, <1>3
<1>5. \A i \in 1..m : s[i] = t[i]  BY <1>1, <1>4
<1> QED  BY <1>4, <1>5 DEF Same

-----------------------------------------------------------------------------
(***************************************************************************)
(* The rows and usage records of the run: each says what the worker of its *)
(* attempt said under its number (RowsSaid, UsageSaid), or nobody did      *)
(* (RowsUnsaid); attempts follow one another and numbers rise              *)
(* (RowsOrdered), and of no attempt a number is missed (NoGaps).           *)
(***************************************************************************)
Row == [kind : {"text", "answer", "artifact", "terminal"}, attempt : 0..2, number : Nat]
Record == [attempt : Attempts, number : Nat \ {0}]

Said(a, n, kind) == n \in DOMAIN script.says[a] /\ script.says[a][n] = kind

RowsSaid ==
  \A i \in DOMAIN events : events[i].attempt # 0 =>
    events[i].attempt <= attempt /\ Said(events[i].attempt, events[i].number, events[i].kind)

RowsUnsaid ==
  \A i \in DOMAIN events : events[i].attempt = 0 => events[i].kind \in {"artifact", "terminal"}

UsageSaid == \A u \in usage : Said(u.attempt, u.number, "usage")

RowsOrdered ==
  \A i, j \in DOMAIN events :
    i < j /\ events[i].attempt # 0 /\ events[j].attempt # 0 =>
      \/ events[i].attempt < events[j].attempt
      \/ events[i].attempt = events[j].attempt /\ events[i].number < events[j].number

NoGaps == \A a \in Attempts : \A n \in StoredOf(a) : 1..n \subseteq StoredOf(a)

StoreInv ==
  /\ events \in Seq(Row) /\ usage \subseteq Record
  /\ RowsSaid /\ RowsUnsaid /\ UsageSaid /\ RowsOrdered /\ NoGaps

RequestOK(q) ==
  /\ q \in [attempt : Attempts, first : Nat, last : Nat, try : 0..MaxTries]
  /\ 1 <= q.first /\ q.first <= q.last /\ q.last <= Len(script.says[q.attempt])
  /\ q.attempt <= attempt

\* What the worker of an attempt says, by EventsAssumption.
LEMMA ScriptFacts ==
  ASSUME script \in Scripts, NEW a \in Attempts
  PROVE  script.says[a] \in Seq(Kinds) /\ AnswersOnce(script.says[a])
BY EventsAssumption

\* What is stored of an attempt: its rows and its usage records.
LEMMA StoredMembers ==
  /\ \A a, n : n \in StoredOf(a) <=>
       \/ \E i \in DOMAIN events : events[i].attempt = a /\ events[i].number = n
       \/ \E u \in usage : u.attempt = a /\ u.number = n
  /\ \A a, n : n \in StoredOf(a)' <=>
       \/ \E i \in DOMAIN events' : events'[i].attempt = a /\ events'[i].number = n
       \/ \E u \in usage' : u.attempt = a /\ u.number = n
BY DEF StoredOf

\* What is stored of an attempt is what it said first, up to the high water.
LEMMA StoredUpTo ==
  ASSUME script \in Scripts, StoreInv, NEW a \in Attempts
  PROVE  \E h \in 0..Len(script.says[a]) : StoredOf(a) = 1..h /\ HighWater(a) = h
<1> DEFINE m == Len(script.says[a])
<1>1. m \in Nat /\ DOMAIN script.says[a] = 1..m  BY ScriptFacts
<1>2. ASSUME NEW n \in StoredOf(a) PROVE n \in 1..m
  <2>1. CASE \E i \in DOMAIN events : events[i].attempt = a /\ events[i].number = n
    BY <2>1, <1>1 DEF StoreInv, RowsSaid, Said, Attempts
  <2>2. CASE \E u \in usage : u.attempt = a /\ u.number = n
    BY <2>2, <1>1 DEF StoreInv, UsageSaid, Said
  <2> QED  BY <1>2, <2>1, <2>2, StoredMembers
<1> HIDE DEF m
<1>3. \A n \in StoredOf(a) : n \in Nat /\ n # 0 /\ n \in 0..m  BY <1>1, <1>2
<1>4. PICK h \in 0..m : StoredOf(a) = 1..h
  <2>1. CASE StoredOf(a) = {}
    <3>1. 0 \in 0..m /\ 1..0 = {}  BY <1>1
    <3> QED  BY <2>1, <3>1
  <2>2. CASE StoredOf(a) # {}
    <3>1. StoredOf(a) \subseteq 0..m  BY <1>3
    <3>2. PICK h \in StoredOf(a) : \A n \in StoredOf(a) : n <= h  BY <1>1, <2>2, <3>1, LastNatural
    <3>3. 1..h \subseteq StoredOf(a)  BY DEF StoreInv, NoGaps
    <3>4. \A n \in StoredOf(a) : n \in 1..h  BY <1>2, <3>2
    <3>5. h \in 0..m  BY <1>3
    <3> QED  BY <3>3, <3>4, <3>5
  <2> QED  BY <2>1, <2>2
<1>5. HighWater(a) = h
  <2> DEFINE Is(n) == (n = 0 \/ n \in StoredOf(a)) /\ \A k \in StoredOf(a) : k <= n
  <2>1. h \in Nat  BY <1>1
  <2>2. Is(h)  BY <2>1, <1>4
  <2>3. HighWater(a) = CHOOSE n \in 0..m : Is(n)  BY DEF HighWater, m
  <2>4. HighWater(a) \in 0..m /\ Is(HighWater(a))  BY <2>2, <2>3
  <2>5. HighWater(a) \in Nat  BY <2>4, <1>1
  <2>6. HighWater(a) <= h  BY <2>1, <2>4, <1>4
  <2>7. CASE h = 0  BY <2>5, <2>6, <2>7
  <2>8. CASE h # 0
    <3>1. h \in StoredOf(a)  BY <2>1, <2>8, <1>4
    <3>2. h <= HighWater(a)  BY <3>1, <2>4
    <3> QED  BY <3>2, <2>5, <2>6, <2>1
  <2> QED  BY <2>7, <2>8
<1> QED  BY <1>4, <1>5 DEF m

\* An admitted batch adds what follows the high water, or nothing.
LEMMA Admission ==
  ASSUME script \in Scripts, StoreInv, NEW q, RequestOK(q), Window(q) # Refused
  PROVE  \E h \in 0..Len(script.says[q.attempt]) :
           StoredOf(q.attempt) = 1..h /\ Window(q) = (h + 1)..q.last
<1>1. q.attempt \in Attempts /\ q.first \in Nat /\ q.last \in Nat /\ 1 <= q.first /\ q.first <= q.last
  BY DEF RequestOK
<1>2. PICK h \in 0..Len(script.says[q.attempt]) :
        StoredOf(q.attempt) = 1..h /\ HighWater(q.attempt) = h
  BY <1>1, StoredUpTo
<1>3. h \in Nat
  <2>1. Len(script.says[q.attempt]) \in Nat  BY <1>1, ScriptFacts
  <2> QED  BY <2>1
<1> DEFINE new == (q.first..q.last) \ StoredOf(q.attempt)
<1>4. Window(q) = IF new = {} \/ new = (h + 1)..q.last THEN new ELSE Refused  BY <1>2 DEF Window
<1>5. CASE new = {}
  <2>1. q.last \in q.first..q.last  BY <1>1
  <2>2. q.last \in 1..h  BY <2>1, <1>2, <1>5
  <2>3. (h + 1)..q.last = {}  BY <2>2, <1>3
  <2> QED  BY <2>3, <1>2, <1>4, <1>5
<1>6. CASE new = (h + 1)..q.last
  <2>1. Window(q) = (h + 1)..q.last  BY <1>4, <1>6
  <2> QED  BY <2>1, <1>2
<1> QED  BY <1>4, <1>5, <1>6

\* The rows of an admitted batch: what it says from b to its last event, without the usage.
LEMMA RowsAre ==
  ASSUME script \in Scripts, NEW q, RequestOK(q), NEW b \in Nat \ {0}, Window(q) = b..q.last
  PROVE  /\ Rows(q) \in Seq(Row) /\ Len(Rows(q)) = Cardinality(Visible(q))
         /\ DOMAIN Rows(q) = 1..Len(Rows(q))
         /\ \A i \in DOMAIN Rows(q) :
              /\ Rows(q)[i].attempt = q.attempt /\ Rows(q)[i].number \in b..q.last
              /\ Said(q.attempt, Rows(q)[i].number, Rows(q)[i].kind)
         /\ \A i, j \in DOMAIN Rows(q) : i < j => Rows(q)[i].number < Rows(q)[j].number
         /\ \A n \in Visible(q) : \E i \in DOMAIN Rows(q) : Rows(q)[i].number = n
<1> DEFINE V == Visible(q)
           c == Cardinality(V)
           o == InOrder(V)
           r == [i \in 1..c |-> [kind |-> script.says[q.attempt][o[i]],
                                 attempt |-> q.attempt, number |-> o[i]]]
<1>1. Rows(q) = r  BY DEF Rows
<1>2. /\ q.attempt \in Attempts /\ q.last \in Nat
      /\ q.last <= Len(script.says[q.attempt])  BY DEF RequestOK
<1>3. script.says[q.attempt] \in Seq(Kinds)  BY <1>2, ScriptFacts
<1>4. \A n \in V : /\ n \in b..q.last /\ n \in DOMAIN script.says[q.attempt]
                    /\ script.says[q.attempt][n] \in {"text", "answer"}
  <2> TAKE n \in V
  <2>1. n \in b..q.last /\ script.says[q.attempt][n] # "usage"  BY DEF Visible
  <2>2. n \in 1..Len(script.says[q.attempt])  BY <2>1, <1>2, <1>3
  <2>3. n \in DOMAIN script.says[q.attempt]  BY <2>2, <1>3
  <2>4. script.says[q.attempt][n] \in Kinds  BY <2>2, <1>3
  <2> QED  BY <2>1, <2>3, <2>4 DEF Kinds
<1>5. \A n \in V : n \in Nat  BY <1>4, <1>2
<1>6. V \subseteq 0..q.last
  <2>1. \A n \in V : n \in 0..q.last  BY <1>4, <1>2
  <2> QED  BY <2>1
<1>7. c \in Nat /\ o \in [1..c -> V] /\ Lists(o, c, V)  BY <1>2, <1>6, InOrderLists
<1> HIDE DEF V, c, o
<1>8. \A i \in 1..c : o[i] \in V  BY <1>7
<1>9. \A i \in 1..c : /\ r[i].kind = script.says[q.attempt][o[i]]
                       /\ r[i].attempt = q.attempt /\ r[i].number = o[i]
  OBVIOUS
<1>10. \A i \in 1..c : r[i] \in Row
  <2> TAKE i \in 1..c
  <2>1. o[i] \in Nat /\ script.says[q.attempt][o[i]] \in {"text", "answer"}  BY <1>4, <1>5, <1>8
  <2>2. q.attempt \in 0..2  BY <1>2 DEF Attempts
  <2> QED  BY <2>1, <2>2 DEF Row
<1>11. r \in Seq(Row) /\ Len(r) = c /\ DOMAIN r = 1..c
  <2>1. DOMAIN r = 1..c /\ r = [i \in 1..c |-> r[i]]  OBVIOUS
  <2> HIDE DEF r
  <2>2. r \in [1..c -> Row]  BY <2>1, <1>10
  <2>3. r \in Seq(Row)  BY <2>2, <1>7
  <2>4. Len(r) = c  BY <2>3, <2>1, <1>7
  <2> QED  BY <2>1, <2>3, <2>4
<1> HIDE DEF r
<1>12. \A i \in 1..c : Said(q.attempt, r[i].number, r[i].kind)  BY <1>4, <1>8, <1>9 DEF Said
<1>13. \A i \in 1..c : r[i].attempt = q.attempt /\ r[i].number \in b..q.last  BY <1>4, <1>8, <1>9
<1>14. \A i, j \in 1..c : i < j => r[i].number < r[j].number  BY <1>7, <1>9 DEF Lists
<1>15. \A n \in V : \E i \in 1..c : r[i].number = n  BY <1>7, <1>9 DEF Lists
<1>16. V = Visible(q) /\ c = Cardinality(Visible(q))  BY DEF V, c
<1> QED  BY <1>1, <1>11, <1>12, <1>13, <1>14, <1>15, <1>16

\* Rows that stay, rows that come: the positions of a grown list.
LEMMA Grown ==
  ASSUME NEW s \in Seq(Row), NEW r \in Seq(Row)
  PROVE  /\ s \o r \in Seq(Row) /\ DOMAIN (s \o r) = 1..(Len(s) + Len(r))
         /\ DOMAIN s = 1..Len(s) /\ DOMAIN r = 1..Len(r)
         /\ \A i \in DOMAIN s : i \in DOMAIN (s \o r) /\ (s \o r)[i] = s[i]
         /\ \A i \in DOMAIN r : /\ Len(s) + i \in DOMAIN (s \o r)
                                 /\ (s \o r)[Len(s) + i] = r[i]
         /\ \A i \in DOMAIN (s \o r) :
              \/ i \in DOMAIN s
              \/ \E k \in DOMAIN r : i = Len(s) + k
<1>1. /\ s \o r \in Seq(Row) /\ Len(s \o r) = Len(s) + Len(r)
      /\ \A i \in 1..(Len(s) + Len(r)) : (s \o r)[i] = IF i <= Len(s) THEN s[i] ELSE r[i - Len(s)]
  BY ConcatProperties
<1>2. Len(s) \in Nat /\ Len(r) \in Nat /\ DOMAIN s = 1..Len(s) /\ DOMAIN r = 1..Len(r)  OBVIOUS
<1>3. DOMAIN (s \o r) = 1..(Len(s) + Len(r))  BY <1>1
<1> DEFINE m == Len(s)
           n == Len(r)
<1> HIDE DEF m, n
<1>4. m \in Nat /\ n \in Nat  BY <1>2 DEF m, n
<1>5. \A i \in 1..m : i \in 1..(m + n) /\ i <= m  BY <1>4
<1>6. \A i \in 1..n : m + i \in 1..(m + n) /\ ~ (m + i <= m) /\ (m + i) - m = i  BY <1>4
<1>7. \A i \in 1..(m + n) : i \in 1..m \/ \E k \in 1..n : i = m + k
  <2> SUFFICES ASSUME NEW i \in 1..(m + n), i \notin 1..m PROVE \E k \in 1..n : i = m + k
    OBVIOUS
  <2>1. i - m \in 1..n /\ i = m + (i - m)  BY <1>4
  <2> QED  BY <2>1
<1>8. \A i \in 1..m : (s \o r)[i] = s[i]  BY <1>1, <1>5 DEF m, n
<1>9. \A i \in 1..n : (s \o r)[m + i] = r[i]  BY <1>1, <1>6 DEF m, n
<1> QED  BY <1>1, <1>2, <1>3, <1>5, <1>6, <1>7, <1>8, <1>9 DEF m, n

\* Ingest: a batch that is stored keeps the rows of every attempt whole, ordered and without
\* gaps, and is stored to its last event.
LEMMA StoreKeepsStore ==
  ASSUME script \in Scripts, StoreInv, attempt \in Attempts, NEW q, RequestOK(q), NEW p,
         Admitted(q), Store(q, p), script' = script, attempt' = attempt
  PROVE  StoreInv' /\ 1..q.last \subseteq StoredOf(q.attempt)'
<1> DEFINE e == events
           r == Rows(q)
           a == q.attempt
<1>1. a \in Attempts /\ q.last \in Nat /\ a = attempt  BY DEF RequestOK, Admitted, Leased
<1>2. PICK h \in 0..Len(script.says[q.attempt]) :
        StoredOf(q.attempt) = 1..h /\ Window(q) = (h + 1)..q.last
  BY Admission DEF Admitted
<1>3. h \in Nat
  <2>1. Len(script.says[q.attempt]) \in Nat  BY <1>1, ScriptFacts
  <2> QED  BY <2>1
<1>4. h + 1 \in Nat \ {0}  BY <1>3
<1>5. /\ r \in Seq(Row) /\ Len(r) = Cardinality(Visible(q))
      /\ DOMAIN r = 1..Len(r)
      /\ \A i \in DOMAIN r : /\ r[i].attempt = a /\ r[i].number \in (h + 1)..q.last
                              /\ Said(a, r[i].number, r[i].kind)
      /\ \A i, j \in DOMAIN r : i < j => r[i].number < r[j].number
      /\ \A n \in Visible(q) : \E i \in DOMAIN r : r[i].number = n
  BY <1>2, <1>4, RowsAre
<1>6. events' = e \o r  BY DEF Store
<1>7. usage' = usage \cup {[attempt |-> a, number |-> n] : n \in Window(q) \ Visible(q)}
  BY DEF Store
<1>8. e \in Seq(Row)  BY DEF StoreInv
<1> HIDE DEF e, r, a
<1>9. /\ e \o r \in Seq(Row) /\ DOMAIN (e \o r) = 1..(Len(e) + Len(r))
      /\ DOMAIN e = 1..Len(e) /\ DOMAIN r = 1..Len(r)
      /\ \A i \in DOMAIN e : i \in DOMAIN (e \o r) /\ (e \o r)[i] = e[i]
      /\ \A i \in DOMAIN r : /\ Len(e) + i \in DOMAIN (e \o r)
                              /\ (e \o r)[Len(e) + i] = r[i]
      /\ \A i \in DOMAIN (e \o r) :
           \/ i \in DOMAIN e
           \/ \E k \in DOMAIN r : i = Len(e) + k
  BY <1>5, <1>8, Grown
<1>m. Len(e) \in Nat /\ Len(r) \in Nat  BY <1>5, <1>8
<1>ns. \A x, y, z : Said(x, y, z)' <=> Said(x, y, z)  BY DEF Said
<1>10. events' \in Seq(Row)  BY <1>6, <1>9
<1>11. \A n \in Window(q) \ Visible(q) : n \in (h + 1)..q.last /\ Said(a, n, "usage")
  <2> TAKE n \in Window(q) \ Visible(q)
  <2>1. n \in (h + 1)..q.last /\ script.says[a][n] = "usage"  BY <1>2 DEF Visible, a
  <2>2. script.says[a] \in Seq(Kinds) /\ q.last <= Len(script.says[a])
    BY <1>1, ScriptFacts DEF RequestOK, a
  <2>3. n \in 1..Len(script.says[a])  BY <2>1, <2>2, <1>1, <1>3
  <2> QED  BY <2>1, <2>2, <2>3 DEF Said
<1>12. usage' \subseteq Record
  <2>1. \A n \in (h + 1)..q.last : n \in Nat \ {0}  BY <1>1, <1>3
  <2>2. \A n \in Window(q) \ Visible(q) : [attempt |-> a, number |-> n] \in Record
    BY <1>1, <1>11, <2>1 DEF Record
  <2> QED  BY <1>7, <2>2 DEF StoreInv
<1>13. RowsSaid'
  <2>0. a <= attempt /\ a # 0  BY <1>1 DEF Attempts
  <2>1. \A i \in DOMAIN e : e[i].attempt # 0 =>
          e[i].attempt <= attempt /\ Said(e[i].attempt, e[i].number, e[i].kind)
    BY DEF StoreInv, RowsSaid, e
  <2>2. \A i \in DOMAIN r : r[i].attempt <= attempt /\ Said(r[i].attempt, r[i].number, r[i].kind)
    BY <1>5, <2>0
  <2>3. ASSUME NEW i \in DOMAIN (e \o r), (e \o r)[i].attempt # 0
        PROVE  /\ (e \o r)[i].attempt <= attempt
               /\ Said((e \o r)[i].attempt, (e \o r)[i].number, (e \o r)[i].kind)
    <3>1. CASE i \in DOMAIN e  BY <3>1, <2>1, <2>3, <1>9
    <3>2. CASE \E k \in DOMAIN r : i = Len(e) + k  BY <3>2, <2>2, <1>9
    <3> QED  BY <3>1, <3>2, <1>9
  <2> QED  BY <2>3, <1>6, <1>ns DEF RowsSaid
<1>14. RowsUnsaid'
  <2>0. a # 0  BY <1>1 DEF Attempts
  <2>1. \A i \in DOMAIN e : e[i].attempt = 0 => e[i].kind \in {"artifact", "terminal"}
    BY DEF StoreInv, RowsUnsaid, e
  <2>3. ASSUME NEW i \in DOMAIN (e \o r), (e \o r)[i].attempt = 0
        PROVE  (e \o r)[i].kind \in {"artifact", "terminal"}
    <3>1. CASE i \in DOMAIN e  BY <3>1, <2>1, <2>3, <1>9
    <3>2. CASE \E k \in DOMAIN r : i = Len(e) + k  BY <3>2, <2>0, <2>3, <1>5, <1>9
    <3> QED  BY <3>1, <3>2, <1>9
  <2> QED  BY <2>3, <1>6 DEF RowsUnsaid
<1>15. UsageSaid'
  <2>1. \A u \in usage : Said(u.attempt, u.number, "usage")  BY DEF StoreInv, UsageSaid
  <2>2. \A u \in usage' : Said(u.attempt, u.number, "usage")  BY <2>1, <1>7, <1>11
  <2> QED  BY <2>2, <1>ns DEF UsageSaid
<1>16. RowsOrdered'
  <2>1. \A i, j \in DOMAIN e :
          i < j /\ e[i].attempt # 0 /\ e[j].attempt # 0 =>
            \/ e[i].attempt < e[j].attempt
            \/ e[i].attempt = e[j].attempt /\ e[i].number < e[j].number
    BY DEF StoreInv, RowsOrdered, e
  <2>2. ASSUME NEW i \in DOMAIN e, e[i].attempt # 0, NEW k \in DOMAIN r
        PROVE  \/ e[i].attempt < r[k].attempt
               \/ e[i].attempt = r[k].attempt /\ e[i].number < r[k].number
    <3>0. e[i] \in Row  BY <1>8
    <3>1. e[i].attempt <= attempt /\ e[i].attempt \in 0..2
      <4>1. e[i].attempt \in 0..2  BY <3>0 DEF Row
      <4>2. e[i].attempt <= attempt  BY <2>2 DEF StoreInv, RowsSaid, e
      <4> QED  BY <4>1, <4>2
    <3>2. r[k].attempt = a /\ r[k].number \in (h + 1)..q.last  BY <1>5
    <3>3. CASE e[i].attempt = a
      <4>1. e[i].number \in StoredOf(a)  BY <3>3, StoredMembers DEF e
      <4>2. e[i].number \in 1..h  BY <4>1, <1>2 DEF a
      <4>3. e[i].number < r[k].number  BY <4>2, <3>2, <1>3, <1>1
      <4> QED  BY <4>3, <3>2, <3>3
    <3>4. CASE e[i].attempt # a
      <4>1. a \in 0..2  BY <1>1 DEF Attempts
      <4>2. e[i].attempt < a  BY <4>1, <3>1, <3>4, <1>1
      <4> QED  BY <4>2, <3>2
    <3> QED  BY <3>3, <3>4
  <2>3. ASSUME NEW i \in DOMAIN (e \o r), NEW j \in DOMAIN (e \o r), i < j,
               (e \o r)[i].attempt # 0, (e \o r)[j].attempt # 0
        PROVE  \/ (e \o r)[i].attempt < (e \o r)[j].attempt
               \/ /\ (e \o r)[i].attempt = (e \o r)[j].attempt
                  /\ (e \o r)[i].number < (e \o r)[j].number
    <3>1. CASE j \in DOMAIN e
      <4>1. i \in DOMAIN e  BY <3>1, <2>3, <1>9, <1>m
      <4> QED  BY <4>1, <3>1, <2>1, <2>3, <1>9
    <3>2. CASE i \in DOMAIN e /\ \E k \in DOMAIN r : j = Len(e) + k
      <4>1. PICK k \in DOMAIN r : j = Len(e) + k  BY <3>2
      <4>2. (e \o r)[i] = e[i] /\ (e \o r)[j] = r[k]  BY <3>2, <4>1, <1>9
      <4> QED  BY <4>2, <3>2, <2>2, <2>3
    <3>3. CASE (\E k \in DOMAIN r : i = Len(e) + k) /\ (\E k \in DOMAIN r : j = Len(e) + k)
      <4>1. PICK k \in DOMAIN r : i = Len(e) + k  BY <3>3
      <4>2. PICK l \in DOMAIN r : j = Len(e) + l  BY <3>3
      <4>3. k < l
        <5>1. k \in Nat /\ l \in Nat  BY <1>5, <1>m
        <5> QED  BY <5>1, <4>1, <4>2, <2>3, <1>m
      <4>4. (e \o r)[i] = r[k] /\ (e \o r)[j] = r[l]  BY <4>1, <4>2, <1>9
      <4> QED  BY <4>3, <4>4, <1>5
    <3> QED  BY <3>1, <3>2, <3>3, <1>9
  <2> QED  BY <2>3, <1>6 DEF RowsOrdered
<1>17. \A c, n : n \in StoredOf(c)' <=>
         n \in StoredOf(c) \/ (c = a /\ n \in (h + 1)..q.last)
  <2> TAKE c, n
  <2>1. ASSUME n \in StoredOf(c)' PROVE n \in StoredOf(c) \/ (c = a /\ n \in (h + 1)..q.last)
    <3>1. CASE \E i \in DOMAIN events' : events'[i].attempt = c /\ events'[i].number = n
      <4>1. PICK i \in DOMAIN (e \o r) : (e \o r)[i].attempt = c /\ (e \o r)[i].number = n
        BY <3>1, <1>6
      <4>2. CASE i \in DOMAIN e  BY <4>1, <4>2, <1>9, StoredMembers DEF e
      <4>3. CASE \E k \in DOMAIN r : i = Len(e) + k  BY <4>1, <4>3, <1>5, <1>9
      <4> QED  BY <4>2, <4>3, <1>9
    <3>2. CASE \E u \in usage' : u.attempt = c /\ u.number = n
      <4>1. PICK u \in usage' : u.attempt = c /\ u.number = n  BY <3>2
      <4>2. CASE u \in usage  BY <4>1, <4>2, StoredMembers
      <4>3. CASE u \in {[attempt |-> a, number |-> k] : k \in Window(q) \ Visible(q)}
        BY <4>1, <4>3, <1>11
      <4> QED  BY <4>2, <4>3, <1>7
    <3> QED  BY <2>1, <3>1, <3>2, StoredMembers
  <2>2. ASSUME n \in StoredOf(c) PROVE n \in StoredOf(c)'
    <3>1. CASE \E i \in DOMAIN events : events[i].attempt = c /\ events[i].number = n
      <4>1. PICK i \in DOMAIN e : e[i].attempt = c /\ e[i].number = n  BY <3>1 DEF e
      <4>2. i \in DOMAIN (e \o r) /\ (e \o r)[i] = e[i]  BY <1>9
      <4> QED  BY <4>1, <4>2, <1>6, StoredMembers
    <3>2. CASE \E u \in usage : u.attempt = c /\ u.number = n
      BY <3>2, <1>7, StoredMembers
    <3> QED  BY <2>2, <3>1, <3>2, StoredMembers
  <2>3. ASSUME c = a, n \in (h + 1)..q.last PROVE n \in StoredOf(c)'
    <3>1. n \in Window(q)  BY <2>3, <1>2
    <3>2. CASE n \in Visible(q)
      <4>1. PICK i \in DOMAIN r : r[i].number = n  BY <3>2, <1>5
      <4>2. /\ Len(e) + i \in DOMAIN (e \o r) /\ (e \o r)[Len(e) + i] = r[i]
            /\ r[i].attempt = a
        BY <1>9, <1>5
      <4> QED  BY <4>1, <4>2, <1>6, <2>3, StoredMembers
    <3>3. CASE n \notin Visible(q)
      <4>1. [attempt |-> a, number |-> n] \in usage'  BY <3>1, <3>3, <1>7
      <4> DEFINE u == [attempt |-> a, number |-> n]
      <4>2. u.attempt = a /\ u.number = n  OBVIOUS
      <4> HIDE DEF u
      <4>3. u \in usage'  BY <4>1 DEF u
      <4> QED  BY <4>2, <4>3, <2>3, StoredMembers
    <3> QED  BY <3>2, <3>3
  <2> QED  BY <2>1, <2>2, <2>3
<1>18. 1..q.last \subseteq StoredOf(a)'
  <2>1. \A n \in 1..q.last : n \in 1..h \/ n \in (h + 1)..q.last  BY <1>1, <1>3
  <2> QED  BY <2>1, <1>2, <1>17 DEF a
<1>19. NoGaps'
  <2>1. ASSUME NEW c \in Attempts, NEW n \in StoredOf(c)' PROVE 1..n \subseteq StoredOf(c)'
    <3>1. CASE n \in StoredOf(c)
      <4>1. 1..n \subseteq StoredOf(c)  BY <3>1 DEF StoreInv, NoGaps
      <4> QED  BY <4>1, <1>17
    <3>2. CASE c = a /\ n \in (h + 1)..q.last
      <4>1. \A k \in 1..n : k \in 1..q.last  BY <3>2, <1>1, <1>3
      <4> QED  BY <4>1, <3>2, <1>18
    <3> QED  BY <3>1, <3>2, <1>17
  <2> QED  BY <2>1 DEF NoGaps
<1>20. StoredOf(a)' = StoredOf(q.attempt)'  BY DEF a
<1> QED  BY <1>10, <1>12, <1>13, <1>14, <1>15, <1>16, <1>18, <1>19, <1>20 DEF StoreInv

\* A row that no worker said changes nothing of what they said.
LEMMA TailKeepsStore ==
  ASSUME StoreInv, NEW kind \in {"artifact", "terminal"},
         events' = Append(events, NoSource(kind)), usage' = usage,
         script' = script, attempt' = attempt
  PROVE  StoreInv' /\ \A a \in Attempts : StoredOf(a)' = StoredOf(a)
<1> DEFINE e == events
           f == events'
<1>1. e \in Seq(Row) /\ NoSource(kind) \in Row /\ NoSource(kind).attempt = 0
      /\ NoSource(kind).kind = kind
  BY DEF StoreInv, NoSource, Row
<1>2. /\ f \in Seq(Row) /\ Len(f) = Len(e) + 1
      /\ \A i \in 1..Len(e) : f[i] = e[i]
      /\ f[Len(e) + 1] = NoSource(kind)
  <2>1. f = Append(e, NoSource(kind))  OBVIOUS
  <2> HIDE DEF e, f
  <2> QED  BY <2>1, <1>1, AppendProperties
<1>3. DOMAIN e = 1..Len(e) /\ DOMAIN f = 1..Len(f) /\ Len(e) \in Nat  BY <1>1, <1>2
<1>4. \A i \in DOMAIN f : i \in DOMAIN e \/ i = Len(e) + 1
  <2> HIDE DEF e, f
  <2> QED  BY <1>2, <1>3
<1>5. \A i \in DOMAIN e : i \in DOMAIN f /\ f[i] = e[i]
  <2> HIDE DEF e, f
  <2> QED  BY <1>2, <1>3
<1>6. \A i \in DOMAIN f : f[i].attempt # 0 => i \in DOMAIN e /\ f[i] = e[i]
  <2> HIDE DEF e, f
  <2> QED  BY <1>1, <1>2, <1>4, <1>5
<1>ns. \A x, y, z : Said(x, y, z)' <=> Said(x, y, z)  BY DEF Said
<1>7. RowsSaid'
  <2>1. \A i \in DOMAIN e : e[i].attempt # 0 =>
          e[i].attempt <= attempt /\ Said(e[i].attempt, e[i].number, e[i].kind)
    BY DEF StoreInv, RowsSaid
  <2>2. \A i \in DOMAIN f : f[i].attempt # 0 =>
          f[i].attempt <= attempt /\ Said(f[i].attempt, f[i].number, f[i].kind)
    <3> HIDE DEF e, f
    <3> QED  BY <2>1, <1>6
  <2> QED  BY <2>2, <1>ns DEF RowsSaid
<1>8. RowsUnsaid'
  <2>1. \A i \in DOMAIN e : e[i].attempt = 0 => e[i].kind \in {"artifact", "terminal"}
    BY DEF StoreInv, RowsUnsaid
  <2>2. \A i \in DOMAIN f : f[i].attempt = 0 => f[i].kind \in {"artifact", "terminal"}
    <3> HIDE DEF e, f
    <3> QED  BY <2>1, <1>1, <1>2, <1>4, <1>5
  <2> QED  BY <2>2 DEF RowsUnsaid
<1>9. UsageSaid'  BY <1>ns DEF StoreInv, UsageSaid
<1>10. RowsOrdered'
  <2>1. \A i, j \in DOMAIN e :
          i < j /\ e[i].attempt # 0 /\ e[j].attempt # 0 =>
            \/ e[i].attempt < e[j].attempt
            \/ e[i].attempt = e[j].attempt /\ e[i].number < e[j].number
    BY DEF StoreInv, RowsOrdered
  <2>2. \A i, j \in DOMAIN f :
          i < j /\ f[i].attempt # 0 /\ f[j].attempt # 0 =>
            \/ f[i].attempt < f[j].attempt
            \/ f[i].attempt = f[j].attempt /\ f[i].number < f[j].number
    <3> HIDE DEF e, f
    <3> QED  BY <2>1, <1>6
  <2> QED  BY <2>2 DEF RowsOrdered
<1>11. ASSUME NEW a \in Attempts PROVE StoredOf(a)' = StoredOf(a)
  <2>0. a # 0  BY DEF Attempts
  <2>1. \A n : (\E i \in DOMAIN f : f[i].attempt = a /\ f[i].number = n)
                <=> (\E i \in DOMAIN e : e[i].attempt = a /\ e[i].number = n)
    <3> HIDE DEF e, f
    <3> QED  BY <2>0, <1>5, <1>6
  <2>2. \A n : n \in StoredOf(a)' <=> n \in StoredOf(a)  BY <2>1, StoredMembers
  <2> QED  BY <2>2
<1>12. NoGaps'  BY <1>11 DEF StoreInv, NoGaps
<1> QED  BY <1>2, <1>7, <1>8, <1>9, <1>10, <1>11, <1>12 DEF StoreInv

\* The text of an answer is never empty and is all of its own attempt.
LEMMA FinalTextIs ==
  ASSUME script \in Scripts, NEW a \in Attempts
  PROVE  /\ FinalText(a) \in Seq([attempt : {a}, number : Nat])
         /\ Len(FinalText(a)) \in Nat \ {0}
         /\ TextsSaid(a) # {} =>
              /\ Len(FinalText(a)) = Cardinality(TextsSaid(a))
              /\ \A i \in 1..Len(FinalText(a)) :
                   FinalText(a)[i] = [attempt |-> a, number |-> InOrder(TextsSaid(a))[i]]
              /\ Lists(InOrder(TextsSaid(a)), Cardinality(TextsSaid(a)), TextsSaid(a))
<1> DEFINE T == TextsSaid(a)
           m == Len(script.says[a])
<1>1. m \in Nat /\ T \subseteq 0..m /\ T \subseteq Nat
  <2>1. script.says[a] \in Seq(Kinds)  BY ScriptFacts
  <2>2. m \in Nat /\ DOMAIN script.says[a] = 1..m  BY <2>1
  <2>3. \A n \in T : n \in 1..m  BY <2>2 DEF TextsSaid
  <2> HIDE DEF m, T
  <2>4. \A n \in 1..m : n \in 0..m /\ n \in Nat  BY <2>2
  <2> QED  BY <2>2, <2>3, <2>4
<1>2. CASE T = {}
  <2>1. FinalText(a) = <<[attempt |-> a, number |-> 0]>>  BY <1>2 DEF FinalText
  <2> QED  BY <1>2, <2>1
<1>3. CASE T # {}
  <2> DEFINE c == Cardinality(T)
             o == InOrder(T)
             r == [i \in 1..c |-> [attempt |-> a, number |-> o[i]]]
  <2>1. FinalText(a) = r  BY <1>3 DEF FinalText
  <2> HIDE DEF T
  <2>2. c \in Nat /\ o \in [1..c -> T] /\ Lists(o, c, T)  BY <1>1, InOrderLists
  <2>3. PICK n \in T : TRUE  BY <1>3
  <2>4. c # 0
    <3>1. PICK i \in 1..c : o[i] = n  BY <2>2 DEF Lists
    <3> HIDE DEF c
    <3> QED  BY <3>1
  <2> HIDE DEF c, o
  <2>5. \A i \in 1..c : r[i] = [attempt |-> a, number |-> o[i]] /\ o[i] \in Nat  BY <2>2, <1>1
  <2>6. r = [i \in 1..c |-> r[i]]  OBVIOUS
  <2> HIDE DEF r
  <2> DEFINE R == [attempt : {a}, number : Nat]
  <2>7. \A i \in 1..c : r[i] \in R
    <3> TAKE i \in 1..c
    <3>1. r[i] = [attempt |-> a, number |-> o[i]] /\ o[i] \in Nat  BY <2>5
    <3>2. a \in {a}  OBVIOUS
    <3> QED  BY <3>1, <3>2
  <2> HIDE DEF R
  <2>8. r \in [1..c -> R]  BY <2>6, <2>7
  <2>9. r \in Seq(R)  BY <2>2, <2>8
  <2>10. Len(r) = c  BY <2>2, <2>6, <2>9
  <2> QED  BY <2>1, <2>2, <2>4, <2>5, <2>9, <2>10 DEF T, c, o, R
<1> QED  BY <1>2, <1>3

\* The texts of the rows: a list of rows that are texts.
LEMMA TextsAre ==
  ASSUME NEW e \in Seq(Row)
  PROVE  \E o :
           /\ Cardinality(TextRows(e)) \in Nat
           /\ Lists(o, Cardinality(TextRows(e)), TextRows(e))
           /\ TextsOf(e) \in Seq([attempt : 0..2, number : Nat])
           /\ Len(TextsOf(e)) = Cardinality(TextRows(e))
           /\ \A i \in 1..Len(TextsOf(e)) : TextsOf(e)[i] = Source(e[o[i]])
<1> DEFINE T == TextRows(e)
           c == Cardinality(T)
           o == InOrder(T)
           r == [i \in 1..c |-> Source(e[o[i]])]
<1>1. TextsOf(e) = r  BY DEF TextsOf
<1>2. Len(e) \in Nat /\ DOMAIN e = 1..Len(e)  OBVIOUS
<1>3. \A n \in T : n \in 0..Len(e) /\ n \in DOMAIN e
  <2>1. \A n \in T : n \in DOMAIN e  BY DEF TextRows
  <2> HIDE DEF T
  <2> QED  BY <1>2, <2>1
<1> HIDE DEF T
<1>4. T \subseteq 0..Len(e)  BY <1>3
<1>5. c \in Nat /\ o \in [1..c -> T] /\ Lists(o, c, T)  BY <1>2, <1>4, InOrderLists
<1> HIDE DEF c, o
<1>6. \A i \in 1..c : r[i] = Source(e[o[i]]) /\ o[i] \in DOMAIN e  BY <1>3, <1>5
<1>7. r = [i \in 1..c |-> r[i]]  OBVIOUS
<1> HIDE DEF r
<1> DEFINE R == [attempt : 0..2, number : Nat]
<1>8. \A i \in 1..c : r[i] \in R
  <2> TAKE i \in 1..c
  <2>1. e[o[i]] \in Row  BY <1>6
  <2>2. e[o[i]].attempt \in 0..2 /\ e[o[i]].number \in Nat  BY <2>1 DEF Row
  <2>3. r[i] = [attempt |-> e[o[i]].attempt, number |-> e[o[i]].number]  BY <1>6 DEF Source
  <2> QED  BY <2>2, <2>3
<1> HIDE DEF R
<1>9. r \in [1..c -> R]  BY <1>7, <1>8
<1>10. r \in Seq(R)  BY <1>5, <1>9
<1>11. Len(r) = c  BY <1>5, <1>7, <1>10
<1> QED  BY <1>1, <1>5, <1>6, <1>10, <1>11 DEF T, c, o, R

(***************************************************************************)
(* When all texts of attempt a are rows, at the end of the texts of the    *)
(* run, they are the end of them.                                          *)
(***************************************************************************)
LEMMA TextsEndWith ==
  ASSUME script \in Scripts, NEW a \in Attempts, NEW e \in Seq(Row),
         \A i \in DOMAIN e : e[i].kind = "text" =>
           e[i].attempt # 0 /\ e[i].attempt <= a /\ Said(e[i].attempt, e[i].number, "text"),
         \A i, j \in DOMAIN e :
           i < j /\ e[i].kind = "text" /\ e[j].kind = "text" =>
             \/ e[i].attempt < e[j].attempt
             \/ e[i].attempt = e[j].attempt /\ e[i].number < e[j].number,
         \A n \in TextsSaid(a) :
           \E i \in DOMAIN e : e[i].kind = "text" /\ e[i].attempt = a /\ e[i].number = n
  PROVE  \E k \in 0..Len(TextsOf(e)) :
           /\ \A i \in 1..k : TextsOf(e)[i].attempt # a
           /\ Len(TextsOf(e)) - k = Cardinality(TextsSaid(a))
           /\ \A i \in 1..(Len(TextsOf(e)) - k) :
                TextsOf(e)[k + i] = [attempt |-> a, number |-> InOrder(TextsSaid(a))[i]]
<1> DEFINE t == TextsOf(e)
           m == Len(t)
           S == TextRows(e)
<1>1. PICK o :
        /\ m \in Nat /\ Lists(o, m, S)
        /\ t \in Seq([attempt : 0..2, number : Nat])
        /\ \A i \in 1..m : t[i] = Source(e[o[i]])
  <2>1. PICK o :
           /\ Cardinality(TextRows(e)) \in Nat
           /\ Lists(o, Cardinality(TextRows(e)), TextRows(e))
           /\ TextsOf(e) \in Seq([attempt : 0..2, number : Nat])
           /\ Len(TextsOf(e)) = Cardinality(TextRows(e))
           /\ \A i \in 1..Len(TextsOf(e)) : TextsOf(e)[i] = Source(e[o[i]])
    BY TextsAre
  <2> QED  BY <2>1
<1>2. \A i \in DOMAIN e : i \in S <=> e[i].kind = "text"  BY DEF TextRows
<1>3. \A i \in S : i \in DOMAIN e /\ e[i].kind = "text"  BY DEF TextRows
<1>a. a \in 1..2  BY DEF Attempts
<1> HIDE DEF t, m, S
<1>4. \A i \in 1..m : /\ o[i] \in DOMAIN e /\ e[o[i]].kind = "text"
                       /\ t[i].attempt = e[o[i]].attempt /\ t[i].number = e[o[i]].number
                       /\ t[i] = [attempt |-> t[i].attempt, number |-> t[i].number]
                       /\ t[i].attempt \in 1..a /\ t[i].number \in Nat
                       /\ Said(t[i].attempt, t[i].number, "text")
  <2> TAKE i \in 1..m
  <2>1. o[i] \in S  BY <1>1 DEF Lists
  <2>2. o[i] \in DOMAIN e /\ e[o[i]].kind = "text"  BY <2>1, <1>3
  <2>3. t[i] = Source(e[o[i]])  BY <1>1
  <2>4. t[i] = [attempt |-> e[o[i]].attempt, number |-> e[o[i]].number]  BY <2>3 DEF Source
  <2>5. e[o[i]] \in Row  BY <2>2
  <2>6. e[o[i]].attempt \in 0..2 /\ e[o[i]].number \in Nat  BY <2>5 DEF Row
  <2>7. /\ e[o[i]].attempt # 0 /\ e[o[i]].attempt <= a
        /\ Said(e[o[i]].attempt, e[o[i]].number, "text")
    BY <2>2
  <2>8. e[o[i]].attempt \in 1..a  BY <2>6, <2>7, <1>a
  <2> QED  BY <2>2, <2>4, <2>6, <2>7, <2>8
<1>5. \A i, j \in 1..m : i < j =>
        \/ t[i].attempt < t[j].attempt
        \/ t[i].attempt = t[j].attempt /\ t[i].number < t[j].number
  <2> SUFFICES ASSUME NEW i \in 1..m, NEW j \in 1..m, i < j
               PROVE  \/ t[i].attempt < t[j].attempt
                      \/ t[i].attempt = t[j].attempt /\ t[i].number < t[j].number
    OBVIOUS
  <2>1. o[i] < o[j]  BY <1>1 DEF Lists
  <2>2. \/ e[o[i]].attempt < e[o[j]].attempt
        \/ e[o[i]].attempt = e[o[j]].attempt /\ e[o[i]].number < e[o[j]].number
    BY <2>1, <1>4
  <2> QED  BY <2>2, <1>4
<1> DEFINE K == {i \in 1..m : t[i].attempt # a}
<1>6. PICK k \in 0..m : \A i \in 1..m : i <= k <=> t[i].attempt # a
  <2>1. CASE K = {}
    <3>1. 0 \in 0..m /\ \A i \in 1..m : ~ (i <= 0)  BY <1>1
    <3>2. \A i \in 1..m : t[i].attempt = a  BY <2>1
    <3> QED  BY <3>1, <3>2
  <2>2. CASE K # {}
    <3>1. K \subseteq 0..m  BY <1>1
    <3>2. PICK k \in K : \A i \in K : i <= k  BY <2>2, <3>1, <1>1, LastNatural
    <3>3. k \in 1..m /\ t[k].attempt # a  BY <3>2
    <3>4. ASSUME NEW i \in 1..m, i <= k PROVE t[i].attempt # a
      <4>1. CASE i = k  BY <4>1, <3>3
      <4>2. CASE i # k
        <5>1. i < k  BY <4>2, <3>4, <3>3, <1>1
        <5>2. t[i].attempt <= t[k].attempt
          <6>1. t[i].attempt \in 1..a /\ t[k].attempt \in 1..a  BY <1>4, <3>3
          <6>2. t[i].attempt < t[k].attempt \/ t[i].attempt = t[k].attempt  BY <5>1, <3>3, <1>5
          <6> QED  BY <6>1, <6>2, <1>a
        <5>3. t[i].attempt \in 1..a /\ t[k].attempt \in 1..a  BY <1>4, <3>3
        <5> QED  BY <5>2, <5>3, <3>3, <1>a
      <4> QED  BY <4>1, <4>2
    <3>5. \A i \in 1..m : t[i].attempt # a => i <= k  BY <3>2
    <3>6. k \in 0..m  BY <3>3, <1>1
    <3> QED  BY <3>4, <3>5, <3>6
  <2> QED  BY <2>1, <2>2
<1> DEFINE c == m - k
           s == [i \in 1..c |-> t[k + i].number]
<1>7. c \in Nat /\ k \in Nat  BY <1>1
<1>8. \A i \in 1..c : k + i \in 1..m /\ ~ (k + i <= k)  BY <1>1, <1>7
<1>9. \A i \in 1..c : t[k + i].attempt = a  BY <1>6, <1>8
<1> DEFINE X == TextsSaid(a)
<1>10. Lists(s, c, X)
  <2> HIDE DEF c
  <2>0. \A i \in 1..c : s[i] = t[k + i].number  OBVIOUS
  <2> HIDE DEF s
  <2>1. ASSUME NEW i \in 1..c PROVE s[i] \in X
    <3>0. k + i \in 1..m /\ t[k + i].attempt = a  BY <1>8, <1>9
    <3>1. Said(t[k + i].attempt, t[k + i].number, "text")  BY <3>0, <1>4
    <3>2. Said(a, t[k + i].number, "text")  BY <3>0, <3>1
    <3> QED  BY <3>2, <2>0 DEF Said, TextsSaid
  <2>2. ASSUME NEW i \in 1..c, NEW j \in 1..c, i < j PROVE s[i] < s[j]
    <3>1. k + i < k + j  BY <2>2, <1>7
    <3>2. \/ t[k + i].attempt < t[k + j].attempt
          \/ t[k + i].attempt = t[k + j].attempt /\ t[k + i].number < t[k + j].number
      BY <3>1, <1>5, <1>8
    <3>3. ~ (a < a)  BY <1>a
    <3> QED  BY <3>2, <3>3, <1>9, <2>0
  <2>3. ASSUME NEW x \in X PROVE \E i \in 1..c : s[i] = x
    <3>1. PICK r \in DOMAIN e : e[r].kind = "text" /\ e[r].attempt = a /\ e[r].number = x
      OBVIOUS
    <3>2. PICK j \in 1..m : o[j] = r  BY <3>1, <1>1, <1>2 DEF Lists
    <3>3. t[j].attempt = a /\ t[j].number = x  BY <3>1, <3>2, <1>4
    <3>4. ~ (j <= k)  BY <3>3, <1>6
    <3>5. j - k \in 1..c /\ k + (j - k) = j  BY <3>4, <1>7, <1>1 DEF c
    <3> QED  BY ZenonT(30), <3>3, <3>5, <2>0
  <2> QED  BY <2>1, <2>2, <2>3 DEF Lists
<1>11. X \subseteq Nat /\ Cardinality(X) \in Nat /\ Lists(InOrder(X), Cardinality(X), X)
  <2>1. script.says[a] \in Seq(Kinds)  BY ScriptFacts
  <2> DEFINE l == Len(script.says[a])
  <2>2. l \in Nat /\ DOMAIN script.says[a] = 1..l  BY <2>1
  <2>3. \A n \in X : n \in 1..l  BY <2>2 DEF TextsSaid
  <2> HIDE DEF l, X
  <2>4. \A n \in 1..l : n \in 0..l /\ n \in Nat  BY <2>2
  <2>5. X \subseteq 0..l /\ X \subseteq Nat  BY <2>3, <2>4
  <2> QED  BY <2>2, <2>5, InOrderLists
<1> DEFINE y == InOrder(X)
           d == Cardinality(X)
<1>y. d \in Nat /\ Lists(y, d, X) /\ X \subseteq Nat  BY <1>11
<1> HIDE DEF X, y, d, c, s
<1>z. c = d /\ \A i \in 1..c : s[i] = y[i]
  <2>1. X \subseteq Nat  BY <1>y
  <2>2. c \in Nat  BY <1>7
  <2>3. d \in Nat  BY <1>y
  <2>4. Lists(s, c, X)  BY <1>10
  <2>5. Lists(y, d, X)  BY <1>y
  <2>6. PICK cs, cc, cd, cy, cx : cs = s /\ cc = c /\ cd = d /\ cy = y /\ cx = X  OBVIOUS
  <2>7. cx \subseteq Nat /\ cc \in Nat /\ cd \in Nat /\ Lists(cs, cc, cx) /\ Lists(cy, cd, cx)
    BY <2>1, <2>2, <2>3, <2>4, <2>5, <2>6
  <2>8. Same(cs, cc, cy, cd)  BY <2>7, ListsAgree
  <2>9. cc = cd /\ \A i \in 1..cc : cs[i] = cy[i]  BY <2>8 DEF Same
  <2> QED  BY <2>6, <2>9
<1> USE DEF c, s
<1>12. c = Cardinality(X) /\ \A i \in 1..c : s[i] = y[i]  BY <1>z DEF d
<1>13. \A i \in 1..c : t[k + i] = [attempt |-> a, number |-> y[i]]
  <2> TAKE i \in 1..c
  <2>1. t[k + i].number = y[i]  BY <1>12
  <2>2. t[k + i] = [attempt |-> t[k + i].attempt, number |-> t[k + i].number]  BY <1>4, <1>8
  <2> QED  BY <2>1, <2>2, <1>9
<1>14. \A i \in 1..k : t[i].attempt # a  BY <1>6, <1>1
<1> QED  BY <1>12, <1>13, <1>14 DEF t, m, X, y

-----------------------------------------------------------------------------
(***************************************************************************)
(* The message of the run.                                                 *)
(***************************************************************************)
EndsWithText(text, a) ==
  \E n \in 0..Len(text) :
    /\ \A k \in 1..n : text[k].attempt # a
    /\ SubSeq(text, n + 1, Len(text)) = FinalText(a)

\* The end of a list, member by member.
LEMMA EndOf ==
  ASSUME NEW S, NEW u \in Seq(S), NEW f \in Seq(S), NEW n \in 0..Len(u),
         Len(f) >= 1, Len(u) - n = Len(f), \A i \in 1..Len(f) : u[n + i] = f[i]
  PROVE  SubSeq(u, n + 1, Len(u)) = f
<1> DEFINE l == Len(u)
           c == Len(f)
           v == SubSeq(u, n + 1, l)
<1>1. l \in Nat /\ c \in Nat /\ n \in Nat /\ n <= l /\ c >= 1 /\ l - n = c  OBVIOUS
<1>2. \A i \in 1..l : u[i] \in S  OBVIOUS
<1> HIDE DEF l, c
<1>3. \A i \in (n + 1)..l : i \in 1..l  BY <1>1
<1>4. n + 1 \in Int /\ l \in Int /\ n + 1 <= l /\ l - (n + 1) + 1 = c  BY <1>1
<1>5. \A i \in (n + 1)..l : u[i] \in S  BY <1>2, <1>3
<1>6. /\ v \in Seq(S)
      /\ Len(v) = IF n + 1 <= l THEN l - (n + 1) + 1 ELSE 0
      /\ \A i \in 1..(l - (n + 1) + 1) : v[i] = u[(n + 1) + i - 1]
  BY <1>4, <1>5, SubSeqProperties
<1>7. Len(v) = c /\ \A i \in 1..c : v[i] = u[(n + 1) + i - 1]  BY <1>4, <1>6
<1>8. \A i \in 1..c : (n + 1) + i - 1 = n + i  BY <1>1
<1>9. \A i \in 1..c : v[i] = f[i]
  <2>1. \A i \in 1..c : u[n + i] = f[i]  BY DEF c
  <2> QED  BY <2>1, <1>7, <1>8
<1> HIDE DEF v
<1>10. v = f
  <2>1. Len(v) = Len(f) /\ \A i \in 1..Len(v) : v[i] = f[i]  BY <1>7, <1>9 DEF c
  <2> QED  BY <2>1, <1>6, SeqEqual
<1> QED  BY <1>10 DEF v, l

Sources == [attempt : 0..2, number : Nat]

\* Whatever was streamed before, the merged message ends with the final text.
LEMMA MergedEnds ==
  ASSUME NEW a \in Attempts, NEW t \in Seq(Sources), NEW f \in Seq(Sources), Len(f) >= 1,
         \A i \in 1..Len(f) : f[i].attempt = a,
         NEW k \in 0..Len(t), \A i \in 1..k : t[i].attempt # a,
         \/ k = Len(t)
         \/ Len(t) - k = Len(f) /\ \A i \in 1..Len(f) : t[k + i] = f[i]
  PROVE  \E n \in 0..Len(Merged(t, f)) :
           /\ \A i \in 1..n : Merged(t, f)[i].attempt # a
           /\ SubSeq(Merged(t, f), n + 1, Len(Merged(t, f))) = f
<1>0. Len(t) \in Nat /\ Len(f) \in Nat /\ k \in Nat /\ k <= Len(t)  OBVIOUS
<1>1. CASE Merged(t, f) = f
  <2>1. SubSeq(f, 1, Len(f)) = f  BY SubSeqFull
  <2>2. 0 \in 0..Len(f) /\ (\A i \in 1..0 : f[i].attempt # a) /\ 0 + 1 = 1  BY <1>0
  <2> QED  BY <2>1, <2>2, <1>1
<1>2. CASE Within(f, t) /\ Merged(t, f) = t
  <2>1. PICK i \in 1..Len(t), j \in 1..Len(t) : SubSeq(t, i, j) = f  BY <1>2 DEF Within
  <2>2. k # Len(t)
    <3> SUFFICES ASSUME k = Len(t) PROVE FALSE  OBVIOUS
    <3>1. i \in Int /\ j \in Int /\ \A x \in i..j : x \in 1..Len(t)  BY <1>0
    <3>2. \A x \in i..j : t[x] \in Sources  BY <3>1
    <3>3. /\ Len(f) = IF i <= j THEN j - i + 1 ELSE 0
          /\ \A x \in 1..(j - i + 1) : f[x] = t[i + x - 1]
      BY <3>1, <3>2, <2>1, SubSeqProperties
    <3>4. i <= j  BY <3>3
    <3>5. 1 \in 1..(j - i + 1) /\ i + 1 - 1 = i /\ 1 \in 1..Len(f)  BY <3>1, <3>4, <1>0
    <3>6. f[1] = t[i]  BY <3>3, <3>5
    <3> QED  BY <3>5, <3>6
  <2>3. SubSeq(t, k + 1, Len(t)) = f  BY <2>2, EndOf
  <2> QED  BY <2>3, <1>2
<1>3. CASE ~ Within(f, t) /\ Merged(t, f) = t \o f
  <2>1. k = Len(t)
    <3> SUFFICES ASSUME k # Len(t) PROVE FALSE  OBVIOUS
    <3>1. SubSeq(t, k + 1, Len(t)) = f  BY EndOf
    <3>2. k + 1 \in 1..Len(t) /\ Len(t) \in 1..Len(t)  BY <1>0
    <3> QED  BY <3>1, <3>2, <1>3 DEF Within
  <2>2. /\ t \o f \in Seq(Sources) /\ Len(t \o f) = Len(t) + Len(f)
        /\ \A i \in 1..(Len(t) + Len(f)) :
             (t \o f)[i] = IF i <= Len(t) THEN t[i] ELSE f[i - Len(t)]
    BY ConcatProperties
  <2> DEFINE u == t \o f
  <2> HIDE DEF u
  <2>3. u \in Seq(Sources) /\ Len(u) = Len(t) + Len(f)  BY <2>2 DEF u
  <2>4. \A i \in 1..Len(t) : u[i] = t[i]
    <3>1. \A i \in 1..Len(t) : i \in 1..(Len(t) + Len(f)) /\ i <= Len(t)  BY <1>0
    <3> QED  BY <2>2, <3>1 DEF u
  <2>5. \A i \in 1..Len(f) : u[Len(t) + i] = f[i]
    <3>1. \A i \in 1..Len(f) : /\ Len(t) + i \in 1..(Len(t) + Len(f)) /\ ~ (Len(t) + i <= Len(t))
                                /\ (Len(t) + i) - Len(t) = i
      BY <1>0
    <3> QED  BY <2>2, <3>1 DEF u
  <2>6. Len(t) \in 0..Len(u) /\ Len(u) - Len(t) = Len(f)  BY <2>3, <1>0
  <2>7. SubSeq(u, Len(t) + 1, Len(u)) = f  BY <2>3, <2>5, <2>6, EndOf
  <2>8. \A i \in 1..Len(t) : u[i].attempt # a  BY <2>1, <2>4
  <2> QED  BY <2>6, <2>7, <2>8, <1>3 DEF u
<1> QED  BY <1>1, <1>2, <1>3 DEF Merged

\* Ingest: one answer, and the message ends with its text.
LEMMA StoreKeepsAnswer ==
  ASSUME script \in Scripts, StoreInv, attempt \in Attempts, AnswerHasItsText,
         NEW q, RequestOK(q), NEW p,
         Admitted(q), Store(q, p), script' = script, attempt' = attempt
  PROVE  AnswerHasItsText'
<1> DEFINE a == q.attempt
<1>0. StoreInv' /\ 1..q.last \subseteq StoredOf(a)'  BY StoreKeepsStore
<1>1. a \in Attempts /\ q.last \in Nat /\ a = attempt  BY DEF RequestOK, Admitted, Leased
<1>a. a \in 1..2  BY <1>1 DEF Attempts
<1>2. PICK h \in 0..Len(script.says[q.attempt]) :
        StoredOf(q.attempt) = 1..h /\ Window(q) = (h + 1)..q.last
  BY Admission DEF Admitted
<1>3. h + 1 \in Nat \ {0}
  <2>1. Len(script.says[q.attempt]) \in Nat  BY <1>1, ScriptFacts
  <2> QED  BY <2>1
<1> DEFINE r == Rows(q)
<1>4. /\ r \in Seq(Row)
      /\ DOMAIN r = 1..Len(r)
      /\ \A i \in DOMAIN r : /\ r[i].attempt = a /\ r[i].number \in Window(q)
                              /\ Said(a, r[i].number, r[i].kind)
      /\ \A i, j \in DOMAIN r : i < j => r[i].number < r[j].number
  BY <1>2, <1>3, RowsAre
<1> HIDE DEF r
<1>5. PICK e, f : e = events /\ f = events'  OBVIOUS
<1>6. e \in Seq(Row) /\ f \in Seq(Row) /\ f = e \o r  BY <1>5, <1>0 DEF StoreInv, Store, r
<1>7. /\ \A i \in DOMAIN e : i \in DOMAIN f /\ f[i] = e[i]
      /\ \A i \in DOMAIN r : Len(e) + i \in DOMAIN f /\ f[Len(e) + i] = r[i]
      /\ \A i \in DOMAIN f :
           \/ i \in DOMAIN e
           \/ \E k \in DOMAIN r : i = Len(e) + k
  BY <1>4, <1>6, Grown
<1>8. \A c : FinalText(c)' = FinalText(c)  BY DEF FinalText, TextsSaid
<1>9. \A i, j \in DOMAIN e : e[i].kind = "answer" /\ e[j].kind = "answer" => i = j
  BY <1>5 DEF AnswerHasItsText
<1>10. (message # NoMessage) = (\E i \in DOMAIN e : e[i].kind = "answer")
  BY <1>5 DEF AnswerHasItsText
<1>11. \A i \in DOMAIN e : e[i].kind = "answer" => EndsWithText(message, e[i].attempt)
  BY <1>5 DEF AnswerHasItsText, EndsWithText
<1>12. SUFFICES /\ \A i, j \in DOMAIN f : f[i].kind = "answer" /\ f[j].kind = "answer" => i = j
                /\ (message' # NoMessage) = (\E i \in DOMAIN f : f[i].kind = "answer")
                /\ \A i \in DOMAIN f : f[i].kind = "answer" => EndsWithText(message', f[i].attempt)
  BY <1>5, <1>8, <1>12 DEF AnswerHasItsText, EndsWithText
<1>13. CASE ~ \E n \in Window(q) : script.says[q.attempt][n] = "answer"
  <2>1. message' = message  BY <1>13 DEF Store
  <2>2. \A i \in DOMAIN r : r[i].kind # "answer"  BY <1>4, <1>13 DEF Said
  <2>3. \A i \in DOMAIN f : f[i].kind = "answer" => i \in DOMAIN e /\ f[i] = e[i]  BY <1>7, <2>2
  <2>4. (\E i \in DOMAIN f : f[i].kind = "answer") <=> (\E i \in DOMAIN e : e[i].kind = "answer")
    BY <1>7, <2>3
  <2> QED  BY <2>1, <2>3, <2>4, <1>9, <1>10, <1>11
<1>14. CASE \E n \in Window(q) : script.says[q.attempt][n] = "answer"
  <2>1. PICK w \in Window(q) : script.says[a][w] = "answer"  BY <1>14
  <2>2. message = NoMessage  BY <2>1 DEF Admitted
  <2>3. \A i \in DOMAIN e : e[i].kind # "answer"  BY <2>2, <1>10
  <2>4. message' = Merged(TextsOf(f), FinalText(a))  BY <1>5, <1>14 DEF Store
  <2>5. script.says[a] \in Seq(Kinds) /\ AnswersOnce(script.says[a])  BY <1>1, ScriptFacts
  <2>6. w \in 1..q.last /\ w \in DOMAIN script.says[a]
    <3>1. w \in 1..q.last  BY <1>2, <1>3, <1>1
    <3>2. q.last <= Len(script.says[a]) /\ Len(script.says[a]) \in Nat
          /\ DOMAIN script.says[a] = 1..Len(script.says[a])
      BY <2>5 DEF RequestOK
    <3> QED  BY <3>1, <3>2, <1>1
  <2>7. \A n \in DOMAIN script.says[a] : script.says[a][n] \in {"text", "answer"} => n <= w
    BY <2>1, <2>5, <2>6 DEF AnswersOnce
  <2>8. \A i \in DOMAIN f : f[i].kind = "answer" =>
          \E k \in DOMAIN r : i = Len(e) + k /\ f[i] = r[k] /\ r[k].kind = "answer"
    BY <2>3, <1>7
  <2>9. \A k, l \in DOMAIN r : r[k].kind = "answer" /\ r[l].kind = "answer" => k = l
    <3> SUFFICES ASSUME NEW k \in DOMAIN r, NEW l \in DOMAIN r,
                        r[k].kind = "answer", r[l].kind = "answer"
                 PROVE  k = l
      OBVIOUS
    <3>1. /\ r[k].number \in DOMAIN script.says[a] /\ script.says[a][r[k].number] = "answer"
          /\ r[l].number \in DOMAIN script.says[a] /\ script.says[a][r[l].number] = "answer"
      BY <1>4 DEF Said
    <3>2. r[k].number <= r[l].number /\ r[l].number <= r[k].number
      BY <3>1, <2>5 DEF AnswersOnce
    <3>3. r[k].number \in Nat /\ r[l].number \in Nat
      <4>1. DOMAIN script.says[a] = 1..Len(script.says[a])  BY <2>5
      <4> QED  BY <3>1, <4>1
    <3>4. ~ (k < l) /\ ~ (l < k)
      <4>1. k < l => r[k].number < r[l].number  BY <1>4
      <4>2. l < k => r[l].number < r[k].number  BY <1>4
      <4> QED  BY <4>1, <4>2, <3>2, <3>3
    <3>5. k \in Nat /\ l \in Nat
      <4>1. Len(r) \in Nat /\ DOMAIN r = 1..Len(r)  BY <1>4
      <4> QED  BY <4>1
    <3> QED  BY <3>4, <3>5
  <2>10. \A i, j \in DOMAIN f : f[i].kind = "answer" /\ f[j].kind = "answer" => i = j
    BY <2>8, <2>9
  <2>11. \A n \in 1..q.last :
           \/ \E i \in DOMAIN f : f[i].attempt = a /\ f[i].number = n
           \/ \E u \in usage' : u.attempt = a /\ u.number = n
    BY <1>0, <1>5, StoredMembers
  <2>12. \A n \in 1..q.last : script.says[a][n] # "usage" =>
           \E i \in DOMAIN f : f[i].attempt = a /\ f[i].number = n /\ f[i].kind = script.says[a][n]
    <3> SUFFICES ASSUME NEW n \in 1..q.last, script.says[a][n] # "usage"
                 PROVE  \E i \in DOMAIN f : /\ f[i].attempt = a /\ f[i].number = n
                                            /\ f[i].kind = script.says[a][n]
      OBVIOUS
    <3>1. \A u \in usage' : ~ (u.attempt = a /\ u.number = n)
      BY <1>0 DEF StoreInv, UsageSaid, Said
    <3>2. PICK i \in DOMAIN f : f[i].attempt = a /\ f[i].number = n  BY <3>1, <2>11
    <3>3. f[i].kind = script.says[a][n]
      <4>1. a # 0  BY <1>a
      <4> QED  BY <3>2, <4>1, <1>0, <1>5 DEF StoreInv, RowsSaid, Said
    <3> QED  BY <3>2, <3>3
  <2>13. \E i \in DOMAIN f : f[i].kind = "answer"  BY <2>1, <2>6, <2>12
  <2>14. \A i \in DOMAIN f : f[i].kind = "answer" => f[i].attempt = a  BY <2>8, <1>4
  <2>15. \A n \in TextsSaid(a) :
           \E i \in DOMAIN f : f[i].kind = "text" /\ f[i].attempt = a /\ f[i].number = n
    <3> SUFFICES ASSUME NEW n \in TextsSaid(a)
                 PROVE  \E i \in DOMAIN f : f[i].kind = "text" /\ f[i].attempt = a /\ f[i].number = n
      OBVIOUS
    <3>1. n \in DOMAIN script.says[a] /\ script.says[a][n] = "text"  BY DEF TextsSaid
    <3>2. n <= w  BY <3>1, <2>7
    <3>3. n \in 1..q.last
      <4>1. DOMAIN script.says[a] = 1..Len(script.says[a])  BY <2>5
      <4>2. n \in Nat /\ n >= 1  BY <3>1, <4>1
      <4>3. w \in Nat /\ w <= q.last  BY <2>6, <1>1
      <4> QED  BY <4>2, <4>3, <3>2, <1>1
    <3> QED  BY <3>1, <3>3, <2>12
  <2>16. \A i \in DOMAIN f : f[i].kind = "text" =>
           f[i].attempt # 0 /\ f[i].attempt <= a /\ Said(f[i].attempt, f[i].number, "text")
    <3>1. \A i \in DOMAIN f : f[i].attempt = 0 => f[i].kind \in {"artifact", "terminal"}
      BY <1>0, <1>5 DEF StoreInv, RowsUnsaid
    <3>2. \A i \in DOMAIN f : f[i].attempt # 0 =>
            f[i].attempt <= attempt /\ Said(f[i].attempt, f[i].number, f[i].kind)
      BY <1>0, <1>5 DEF StoreInv, RowsSaid, Said
    <3> QED  BY <3>1, <3>2, <1>1
  <2>17. \A i, j \in DOMAIN f :
           i < j /\ f[i].kind = "text" /\ f[j].kind = "text" =>
             \/ f[i].attempt < f[j].attempt
             \/ f[i].attempt = f[j].attempt /\ f[i].number < f[j].number
    BY <2>16, <1>0, <1>5 DEF StoreInv, RowsOrdered
  <2>18. PICK k \in 0..Len(TextsOf(f)) :
           /\ \A i \in 1..k : TextsOf(f)[i].attempt # a
           /\ Len(TextsOf(f)) - k = Cardinality(TextsSaid(a))
           /\ \A i \in 1..(Len(TextsOf(f)) - k) :
                TextsOf(f)[k + i] = [attempt |-> a, number |-> InOrder(TextsSaid(a))[i]]
    BY <1>1, <1>6, <2>15, <2>16, <2>17, TextsEndWith
  <2>19. TextsOf(f) \in Seq(Sources)  BY <1>6, TextsAre DEF Sources
  <2>20. /\ FinalText(a) \in Seq([attempt : {a}, number : Nat])
         /\ Len(FinalText(a)) \in Nat \ {0}
         /\ TextsSaid(a) # {} =>
              /\ Len(FinalText(a)) = Cardinality(TextsSaid(a))
              /\ \A i \in 1..Len(FinalText(a)) :
                   FinalText(a)[i] = [attempt |-> a, number |-> InOrder(TextsSaid(a))[i]]
    BY <1>1, FinalTextIs
  <2>21. PICK t, g, m : t = TextsOf(f) /\ g = FinalText(a) /\ m = Merged(t, g)  OBVIOUS
  <2>22. g \in Seq(Sources) /\ Len(g) >= 1 /\ \A i \in 1..Len(g) : g[i].attempt = a
    <3> DEFINE A == [attempt : {a}, number : Nat]
    <3>1. \A x \in A : x.attempt = a /\ x \in Sources  BY <1>a DEF Sources
    <3>2. g \in Seq(A) /\ Len(g) \in Nat \ {0}  BY <2>20, <2>21
    <3> HIDE DEF A
    <3>3. \A i \in 1..Len(g) : g[i] \in A  BY <3>2
    <3>4. \A i \in 1..Len(g) : g[i] \in Sources  BY <3>1, <3>3
    <3>5. g = [i \in 1..Len(g) |-> g[i]]  BY <3>2
    <3>6. g \in [1..Len(g) -> Sources]  BY <3>4, <3>5
    <3>7. g \in Seq(Sources)  BY <3>2, <3>6
    <3> QED  BY <3>1, <3>2, <3>3, <3>7
  <2>23. \/ k = Len(t)
         \/ Len(t) - k = Len(g) /\ \A i \in 1..Len(g) : t[k + i] = g[i]
    <3>1. Len(t) \in Nat /\ k \in Nat  BY <2>19, <2>21
    <3>2. CASE TextsSaid(a) = {}
      <4>1. Cardinality(TextsSaid(a)) = 0  BY <3>2, FS_EmptySet
      <4>2. Len(t) - k = 0  BY <4>1, <2>18, <2>21
      <4> QED  BY <4>2, <3>1
    <3>3. CASE TextsSaid(a) # {}  BY <3>3, <2>18, <2>20, <2>21
    <3> QED  BY <3>2, <3>3
  <2>24. \E n \in 0..Len(m) :
           /\ \A i \in 1..n : m[i].attempt # a
           /\ SubSeq(m, n + 1, Len(m)) = g
    <3>1. t \in Seq(Sources) /\ k \in 0..Len(t) /\ \A i \in 1..k : t[i].attempt # a
      BY <2>18, <2>19, <2>21
    <3>2. /\ g \in Seq(Sources) /\ Len(g) >= 1 /\ a \in Attempts
          /\ \A i \in 1..Len(g) : g[i].attempt = a
      BY <2>22, <1>1
    <3> HIDE DEF a
    <3>3. \E n \in 0..Len(Merged(t, g)) :
            /\ \A i \in 1..n : Merged(t, g)[i].attempt # a
            /\ SubSeq(Merged(t, g), n + 1, Len(Merged(t, g))) = g
      BY <3>1, <3>2, <2>23, MergedEnds
    <3>4. m = Merged(t, g)  BY <2>21
    <3> QED  BY <3>3, <3>4
  <2>25. message' = m  BY <2>4, <2>21
  <2>26. EndsWithText(message', a)  BY <2>21, <2>24, <2>25 DEF EndsWithText
  <2>27. message' # NoMessage
    <3> SUFFICES ASSUME m = NoMessage PROVE FALSE  BY <2>25
    <3>1. Len(m) = 1 /\ m[1].attempt = 0 /\ m \in Seq(Sources)  BY DEF NoMessage, Sources
    <3>2. PICK n \in 0..Len(m) : SubSeq(m, n + 1, Len(m)) = g  BY <2>24
    <3>3. CASE n = 0
      <4>1. SubSeq(m, 1, Len(m)) = m  BY <3>1, SubSeqFull
      <4>2. m = g  BY <4>1, <3>2, <3>3
      <4> QED  BY <4>2, <3>1, <2>22, <1>a
    <3>4. CASE n = 1
      <4>1. SubSeq(m, 2, 1) = <<>>  BY SubSeqEmpty
      <4>2. g = <<>>  BY <4>1, <3>1, <3>2, <3>4
      <4> QED  BY <4>2, <2>22
    <3> QED  BY <3>1, <3>2, <3>3, <3>4
  <2> QED  BY <2>10, <2>13, <2>14, <2>26, <2>27
<1> QED  BY <1>13, <1>14

-----------------------------------------------------------------------------
(***************************************************************************)
(* The inductive invariant: the rows, and what the pump, the requests that *)
(* may still arrive, the handlers and the readers know of them.            *)
(***************************************************************************)
RunInv ==
  /\ script \in Scripts /\ status \in {"running", "queued", "ended"} /\ attempt \in Attempts
  /\ status = "queued" => attempt = 1

PumpInv ==
  /\ pump \in [acked : Nat, last : Nat, tries : 0..MaxTries, alive : BOOLEAN]
  /\ pump.acked <= pump.last /\ pump.last <= Len(script.says[attempt])
  /\ 1..pump.acked \subseteq StoredOf(attempt)

WireInv == \A q \in wire : RequestOK(q)

Answered(q) == 1..q.last \subseteq StoredOf(q.attempt)

JobOK(j) ==
  /\ j.list \in Seq(Nat) /\ j.ok \in BOOLEAN
  /\ j.to # NoRequest => RequestOK(j.to) /\ (j.ok => Answered(j.to))

JobsInv == \A j \in jobs : JobOK(j)

Client == [at : Processes \cup {"nowhere"}, phase : {"off", "list", "wait", "done"},
           seen : Nat, queue : Seq(Nat), got : Seq(Nat)]

InOrderTo(list, n) ==
  /\ \A i, j \in 1..Len(list) : i < j => list[i] < list[j]
  /\ \A i \in 1..Len(list) : list[i] <= n

ReadInv ==
  /\ reader \in [Readers -> Client]
  /\ \A c \in Readers : InOrderTo(reader[c].got, reader[c].seen)

EvInv ==
  /\ RunInv /\ StoreInv /\ PumpInv /\ WireInv /\ JobsInv
  /\ TerminalIsLast /\ AnswerHasItsText /\ ReadInv

-----------------------------------------------------------------------------
\* What a step leaves alone when the run and its rows stay as they are.
LEMMA RunAndRowsStay ==
  ASSUME UNCHANGED <<runVars, storeVars>>
  PROVE  /\ \A a : StoredOf(a)' = StoredOf(a)
         /\ \A q : RequestOK(q)' <=> RequestOK(q)
         /\ \A j : JobOK(j)' <=> JobOK(j)
         /\ RunInv => RunInv'
         /\ StoreInv => StoreInv'
         /\ TerminalIsLast => TerminalIsLast'
         /\ AnswerHasItsText => AnswerHasItsText'
<1> USE DEF runVars, storeVars
<1>1. \A a : StoredOf(a)' = StoredOf(a)  BY DEF StoredOf
<1>2. \A q : RequestOK(q)' <=> RequestOK(q)  BY DEF RequestOK
<1>3. \A q : Answered(q)' <=> Answered(q)  BY <1>1 DEF Answered
<1>4. \A j : JobOK(j)' <=> JobOK(j)  BY <1>2, <1>3 DEF JobOK
<1>5. RunInv => RunInv'  BY DEF RunInv
<1>6. StoreInv => StoreInv'
  <2>1. NoGaps => NoGaps'  BY <1>1 DEF NoGaps
  <2>2. \A x, y, z : Said(x, y, z)' <=> Said(x, y, z)  BY DEF Said
  <2>3. RowsSaid => RowsSaid'  BY <2>2 DEF RowsSaid
  <2>4. UsageSaid => UsageSaid'  BY <2>2 DEF UsageSaid
  <2>5. (RowsUnsaid => RowsUnsaid') /\ (RowsOrdered => RowsOrdered')
    BY DEF RowsUnsaid, RowsOrdered
  <2> QED  BY <2>1, <2>3, <2>4, <2>5 DEF StoreInv
<1>7. TerminalIsLast => TerminalIsLast'  BY DEF TerminalIsLast
<1>8. AnswerHasItsText => AnswerHasItsText'
  <2>1. \A a : FinalText(a)' = FinalText(a)  BY DEF FinalText, TextsSaid
  <2> QED  BY <2>1 DEF AnswerHasItsText
<1> QED  BY <1>1, <1>2, <1>4, <1>5, <1>6, <1>7, <1>8

\* Steps that leave the run, its rows and the pump alone keep the invariant of the pump;
LEMMA PumpStays ==
  ASSUME PumpInv, UNCHANGED <<runVars, storeVars, pump>>
  PROVE  PumpInv'
<1>1. \A a : StoredOf(a)' = StoredOf(a)  BY RunAndRowsStay
<1> QED  BY <1>1 DEF PumpInv, runVars

\* those that add no request keep the invariant of the requests,
LEMMA WireStays ==
  ASSUME WireInv, wire' \subseteq wire, UNCHANGED <<runVars, storeVars>>
  PROVE  WireInv'
<1>1. \A q : RequestOK(q)' <=> RequestOK(q)  BY RunAndRowsStay
<1> QED  BY <1>1 DEF WireInv

\* and those that add no handler that of the handlers.
LEMMA JobsStay ==
  ASSUME JobsInv, jobs' \subseteq jobs, UNCHANGED <<runVars, storeVars>>
  PROVE  JobsInv'
<1>1. \A j : JobOK(j)' <=> JobOK(j)  BY RunAndRowsStay
<1> QED  BY <1>1 DEF JobsInv

\* The invariant of the readers is about the readers alone.
LEMMA ReadersStay ==
  ASSUME ReadInv, reader' = reader
  PROVE  ReadInv'
BY DEF ReadInv

\* What the pump sends is what its attempt says next.
LEMMA PumpSends ==
  ASSUME EvInv, UNCHANGED <<runVars, storeVars, jobs, reader>>,
         pump' \in [acked : Nat, last : Nat, tries : 0..MaxTries, alive : BOOLEAN],
         pump'.acked = pump.acked, pump'.acked < pump'.last,
         pump'.last <= Len(script.says[attempt]),
         wire' = wire \cup {Request(pump')}
  PROVE  EvInv'
<1> DEFINE q == Request(pump')
<1>1. PICK p : p = pump'  OBVIOUS
<1>2. /\ p \in [acked : Nat, last : Nat, tries : 0..MaxTries, alive : BOOLEAN]
      /\ p.acked < p.last /\ p.last <= Len(script.says[attempt])
  BY <1>1
<1>3. q = [attempt |-> attempt, first |-> p.acked + 1, last |-> p.last, try |-> p.tries]
  BY <1>1 DEF Request
<1>4. attempt \in Attempts  BY DEF EvInv, RunInv
<1>5. attempt <= attempt  BY <1>4 DEF Attempts
<1>6. /\ p.acked \in Nat /\ p.last \in Nat /\ p.tries \in 0..MaxTries
      /\ p.acked + 1 \in Nat /\ 1 <= p.acked + 1 /\ p.acked + 1 <= p.last
  BY <1>2
<1>7. RequestOK(q)
  <2>1. /\ q.attempt = attempt /\ q.first = p.acked + 1 /\ q.last = p.last
        /\ q \in [attempt : Attempts, first : Nat, last : Nat, try : 0..MaxTries]
    BY <1>3, <1>4, <1>6
  <2> HIDE DEF q
  <2> QED  BY <2>1, <1>2, <1>5, <1>6 DEF RequestOK
<1> HIDE DEF q
<1>8. wire' = wire \cup {q}  BY DEF q
<1>9. WireInv'
  <2>1. \A x : RequestOK(x)' <=> RequestOK(x)  BY RunAndRowsStay
  <2> QED  BY <2>1, <1>7, <1>8 DEF EvInv, WireInv
<1>10. PumpInv'
  <2>1. StoredOf(attempt)' = StoredOf(attempt)
    <3>1. \A a : StoredOf(a)' = StoredOf(a)  BY RunAndRowsStay
    <3> QED  BY <3>1 DEF StoredOf, runVars
  <2>2. 1..p.acked \subseteq StoredOf(attempt) /\ p.acked <= p.last
    <3>1. p.acked = pump.acked  BY <1>1
    <3> QED  BY <3>1, <1>6 DEF EvInv, PumpInv
  <2> QED  BY <2>1, <2>2, <1>1, <1>2 DEF PumpInv, runVars
<1>11. RunInv' /\ StoreInv' /\ TerminalIsLast' /\ AnswerHasItsText'  BY RunAndRowsStay DEF EvInv
<1>12. JobsInv' /\ ReadInv'  BY JobsStay, ReadersStay DEF EvInv
<1> QED  BY <1>9, <1>10, <1>11, <1>12 DEF EvInv

\* Send, Resend and PumpFails.
LEMMA GatewayKeeps ==
  ASSUME EvInv, GatewayStep
  PROVE  EvInv'
<1>1. /\ pump \in [acked : Nat, last : Nat, tries : 0..MaxTries, alive : BOOLEAN]
      /\ pump.acked <= pump.last /\ pump.last <= Len(script.says[attempt])
      /\ MaxTries \in Nat
  BY EventsAssumption DEF EvInv, PumpInv
<1>t. /\ pump.acked \in Nat /\ pump.last \in Nat /\ pump.tries \in 0..MaxTries
      /\ pump.alive \in BOOLEAN
  BY <1>1
<1>2. ASSUME Send PROVE EvInv'
  <2>1. PICK k \in 1..MaxBatch : /\ pump.acked + k <= Len(script.says[attempt])
                                  /\ pump' = [pump EXCEPT !.last = pump.acked + k, !.tries = 0]
    BY <1>2 DEF Send
  <2>2. k \in Nat /\ 0 < k  BY EventsAssumption
  <2> DEFINE l == pump.acked + k
             p1 == [pump EXCEPT !.last = l]
             p2 == [p1 EXCEPT !.tries = 0]
  <2>3. l \in Nat /\ pump.acked < l /\ 0 \in 0..MaxTries  BY <2>2, <1>t, <1>1
  <2>4. l <= Len(script.says[attempt])  BY <2>1
  <2> HIDE DEF l
  <2>5. /\ p1 \in [acked : Nat, last : Nat, tries : 0..MaxTries, alive : BOOLEAN]
        /\ p1.acked = pump.acked /\ p1.last = l
    BY <1>1, <2>3
  <2>6. p2 = pump'  BY <2>1 DEF l
  <2> HIDE DEF p1
  <2>7. /\ p2 \in [acked : Nat, last : Nat, tries : 0..MaxTries, alive : BOOLEAN]
        /\ p2.acked = pump.acked /\ p2.last = l
    BY <2>5, <2>3
  <2> HIDE DEF p2
  <2>8. /\ pump' \in [acked : Nat, last : Nat, tries : 0..MaxTries, alive : BOOLEAN]
        /\ pump'.acked = pump.acked /\ pump'.acked < pump'.last
        /\ pump'.last <= Len(script.says[attempt])
    BY <2>3, <2>4, <2>6, <2>7
  <2>9. UNCHANGED <<runVars, storeVars, jobs, reader>> /\ wire' = wire \cup {Request(pump')}
    BY <1>2 DEF Send
  <2> QED  BY <2>8, <2>9, PumpSends
<1>3. ASSUME Resend PROVE EvInv'
  <2>1. /\ pump' = [pump EXCEPT !.tries = pump.tries + 1] /\ pump.tries < MaxTries
        /\ pump.last > pump.acked
        /\ UNCHANGED <<runVars, storeVars, jobs, reader>> /\ wire' = wire \cup {Request(pump')}
    BY <1>3 DEF Resend, MayResend, Sending
  <2> DEFINE k == pump.tries + 1
             p1 == [pump EXCEPT !.tries = k]
  <2>2. k \in 0..MaxTries /\ pump.acked < pump.last  BY <2>1, <1>t, <1>1
  <2> HIDE DEF k
  <2>3. /\ p1 \in [acked : Nat, last : Nat, tries : 0..MaxTries, alive : BOOLEAN]
        /\ p1.acked = pump.acked /\ p1.last = pump.last
    BY <1>1, <2>2
  <2>4. p1 = pump'  BY <2>1 DEF k
  <2> HIDE DEF p1
  <2>5. /\ pump' \in [acked : Nat, last : Nat, tries : 0..MaxTries, alive : BOOLEAN]
        /\ pump'.acked = pump.acked /\ pump'.acked < pump'.last
        /\ pump'.last <= Len(script.says[attempt])
    BY <2>2, <2>3, <2>4, <1>1
  <2> QED  BY <2>1, <2>5, PumpSends
<1>4. ASSUME PumpFails PROVE EvInv'
  <2>1. /\ pump' = [pump EXCEPT !.alive = FALSE]
        /\ UNCHANGED <<runVars, storeVars, wire, jobs, reader>>
    BY <1>4 DEF PumpFails
  <2> DEFINE p1 == [pump EXCEPT !.alive = FALSE]
  <2>2. /\ p1 \in [acked : Nat, last : Nat, tries : 0..MaxTries, alive : BOOLEAN]
        /\ p1.acked = pump.acked /\ p1.last = pump.last
    BY <1>1
  <2>3. p1 = pump'  BY <2>1
  <2> HIDE DEF p1
  <2>4. /\ pump' \in [acked : Nat, last : Nat, tries : 0..MaxTries, alive : BOOLEAN]
        /\ pump'.acked = pump.acked /\ pump'.last = pump.last
    BY <2>2, <2>3
  <2>5. PumpInv'
    <3>1. \A a : StoredOf(a)' = StoredOf(a)  BY <2>1, RunAndRowsStay
    <3> QED  BY <3>1, <2>1, <2>4 DEF EvInv, PumpInv, runVars
  <2>6. RunInv' /\ StoreInv' /\ TerminalIsLast' /\ AnswerHasItsText'
    BY <2>1, RunAndRowsStay DEF EvInv
  <2>7. WireInv' /\ JobsInv' /\ ReadInv'  BY <2>1, WireStays, JobsStay, ReadersStay DEF EvInv
  <2> QED  BY <2>5, <2>6, <2>7 DEF EvInv
<1> QED  BY <1>2, <1>3, <1>4 DEF GatewayStep

\* Handled adds one job; the others stay, as what is stored only grows.
LEMMA JobsGrow ==
  ASSUME JobsInv, NEW p, NEW n \in Nat, NEW q, NEW ok \in BOOLEAN, Handled(p, n, q, ok),
         events \in Seq(Row),
         script' = script, attempt' = attempt,
         \A a \in Attempts : StoredOf(a) \subseteq StoredOf(a)',
         q # NoRequest => RequestOK(q) /\ (ok => 1..q.last \subseteq StoredOf(q.attempt)')
  PROVE  JobsInv'
<1> DEFINE list == [i \in 1..n |-> Len(events) + i]
           j == [at |-> p, list |-> list, to |-> q, ok |-> ok]
<1>1. jobs' = jobs \cup {j}  BY DEF Handled
<1>2. \A x : RequestOK(x)' <=> RequestOK(x)  BY DEF RequestOK
<1>3. list \in Seq(Nat)
  <2>1. \A i \in 1..n : Len(events) + i \in Nat  OBVIOUS
  <2>2. list \in [1..n -> Nat]  BY <2>1
  <2> HIDE DEF list
  <2> QED  BY <2>2
<1>4. j.list = list /\ j.to = q /\ j.ok = ok  OBVIOUS
<1> HIDE DEF j, list
<1>n. PICK new : new = j  OBVIOUS
<1>5. JobOK(new)'
  <2>1. Answered(q)' <=> 1..q.last \subseteq StoredOf(q.attempt)'  BY DEF Answered
  <2>2. new.list \in Seq(Nat) /\ new.ok \in BOOLEAN /\ new.to = q /\ new.ok = ok
    BY <1>3, <1>4, <1>n
  <2>3. q # NoRequest => RequestOK(q)' /\ (ok => Answered(q)')  BY <2>1, <1>2
  <2> QED  BY <2>2, <2>3 DEF JobOK
<1>6. ASSUME NEW x \in jobs PROVE JobOK(x)'
  <2>1. JobOK(x)  BY DEF JobsInv
  <2>2. CASE x.to = NoRequest  BY <2>1, <2>2 DEF JobOK
  <2>3. CASE x.to # NoRequest
    <3>1. RequestOK(x.to) /\ (x.ok => Answered(x.to))  BY <2>1, <2>3 DEF JobOK
    <3>2. x.to.attempt \in Attempts  BY <3>1 DEF RequestOK
    <3>3. Answered(x.to) => Answered(x.to)'  BY <3>2 DEF Answered
    <3>4. RequestOK(x.to)'  BY <3>1, <1>2
    <3> QED  BY <2>1, <3>1, <3>3, <3>4 DEF JobOK
  <2> QED  BY <2>2, <2>3
<1>7. \A x \in jobs' : JobOK(x)'  BY <1>1, <1>5, <1>6, <1>n
<1> QED  BY <1>7 DEF JobsInv

\* What a pump took as acknowledged stays stored when more is stored.
LEMMA PumpKeeps ==
  ASSUME PumpInv, attempt \in Attempts, pump' = pump, script' = script, attempt' = attempt,
         \A a \in Attempts : StoredOf(a) \subseteq StoredOf(a)'
  PROVE  PumpInv'
<1>1. StoredOf(attempt) \subseteq StoredOf(attempt)'
  <2>1. PICK a \in Attempts : a = attempt  OBVIOUS
  <2>2. StoredOf(a) \subseteq StoredOf(a)'  BY <2>1
  <2>3. StoredOf(a) = StoredOf(attempt)  BY <2>1
  <2>4. StoredOf(a)' = StoredOf(attempt)'  BY <2>1
  <2> QED  BY <2>2, <2>3, <2>4
<1> QED  BY <1>1 DEF PumpInv

\* Requests are about what the worker says, and stay so when one is consumed.
LEMMA WireKeeps ==
  ASSUME WireInv, wire' \subseteq wire, script' = script, attempt' = attempt
  PROVE  WireInv'
BY DEF WireInv, RequestOK

\* Ingest, admitted or refused.
LEMMA IngestKeeps ==
  ASSUME EvInv, NEW q, NEW p, Ingest(q, p)
  PROVE  EvInv'
<1>1. /\ q \in wire /\ wire' = wire \ {q}
      /\ script' = script /\ status' = status /\ attempt' = attempt
      /\ pump' = pump /\ reader' = reader
  BY DEF Ingest, runVars
<1>2. RequestOK(q) /\ q # NoRequest
  <2>1. RequestOK(q)  BY <1>1 DEF EvInv, WireInv
  <2> QED  BY <2>1 DEF RequestOK, NoRequest, Attempts
<1>3. script \in Scripts /\ attempt \in Attempts /\ StoreInv /\ events \in Seq(Row)
  BY DEF EvInv, RunInv, StoreInv
<1>4. CASE Admitted(q) /\ Store(q, p)
  <2>1. StoreInv' /\ 1..q.last \subseteq StoredOf(q.attempt)'  BY <1>1, <1>2, <1>3, <1>4, StoreKeepsStore
  <2>2. AnswerHasItsText'  BY <1>1, <1>2, <1>3, <1>4, StoreKeepsAnswer DEF EvInv
  <2>3. PICK h \in 0..Len(script.says[q.attempt]) :
          StoredOf(q.attempt) = 1..h /\ Window(q) = (h + 1)..q.last
    BY <1>2, <1>3, <1>4, Admission DEF Admitted
  <2>4. h + 1 \in Nat \ {0}
    <3>1. Len(script.says[q.attempt]) \in Nat
      <4>1. q.attempt \in Attempts  BY <1>2 DEF RequestOK
      <4> QED  BY <4>1, <1>3, ScriptFacts
    <3> QED  BY <3>1
  <2>5. /\ Rows(q) \in Seq(Row) /\ Len(Rows(q)) = Cardinality(Visible(q))
        /\ \A i \in DOMAIN Rows(q) :
             /\ Rows(q)[i].attempt = q.attempt /\ Rows(q)[i].number \in (h + 1)..q.last
             /\ Said(q.attempt, Rows(q)[i].number, Rows(q)[i].kind)
    BY <1>2, <1>3, <2>3, <2>4, RowsAre
  <2>6. Cardinality(Visible(q)) \in Nat  BY <2>5
  <2>7. PICK e, f, r : e = events /\ f = events' /\ r = Rows(q)  OBVIOUS
  <2>8. f = e \o r /\ e \in Seq(Row) /\ r \in Seq(Row)  BY <1>3, <1>4, <2>5, <2>7 DEF Store
  <2>9. /\ \A i \in DOMAIN e : i \in DOMAIN f /\ f[i] = e[i]
        /\ \A i \in DOMAIN f :
             \/ i \in DOMAIN e
             \/ \E k \in DOMAIN r : i = Len(e) + k /\ f[i] = r[k]
    BY <2>8, Grown
  <2>10. \A a \in Attempts : StoredOf(a) \subseteq StoredOf(a)'
    <3> SUFFICES ASSUME NEW a \in Attempts, NEW n \in StoredOf(a) PROVE n \in StoredOf(a)'
      OBVIOUS
    <3>1. CASE \E i \in DOMAIN events : events[i].attempt = a /\ events[i].number = n
      <4>1. \E i \in DOMAIN f : f[i].attempt = a /\ f[i].number = n  BY <3>1, <2>7, <2>9
      <4> QED  BY <4>1, <2>7, StoredMembers
    <3>2. CASE \E u \in usage : u.attempt = a /\ u.number = n
      <4>1. usage \subseteq usage'  BY <1>4 DEF Store
      <4> QED  BY <3>2, <4>1, StoredMembers
    <3> QED  BY <3>1, <3>2, StoredMembers
  <2>11. JobsInv'
    <3>1. JobsInv /\ Handled(p, Cardinality(Visible(q)), q, TRUE)  BY <1>4 DEF Store, EvInv
    <3>2. PICK c : c = Cardinality(Visible(q))  OBVIOUS
    <3>3. c \in Nat /\ Handled(p, c, q, TRUE)  BY <3>1, <3>2, <2>6
    <3> QED  BY <3>1, <3>3, <2>1, <2>10, <1>1, <1>2, <1>3, JobsGrow
  <2>12. PumpInv'  BY <1>1, <1>3, <2>10, PumpKeeps DEF EvInv
  <2>13. WireInv'  BY <1>1, WireKeeps DEF EvInv
  <2>14. TerminalIsLast'
    <3>1. status # "ended"  BY <1>4 DEF Admitted, Leased
    <3>2. \A i \in DOMAIN e : e[i].kind # "terminal"  BY <3>1, <2>7 DEF EvInv, TerminalIsLast
    <3>3. \A i \in DOMAIN r : r[i].kind # "terminal"
      <4> SUFFICES ASSUME NEW i \in DOMAIN r, r[i].kind = "terminal" PROVE FALSE
        OBVIOUS
      <4>1. Said(q.attempt, r[i].number, "terminal")  BY <2>5, <2>7
      <4>2. script.says[q.attempt] \in Seq(Kinds)
        <5>1. q.attempt \in Attempts  BY <1>2 DEF RequestOK
        <5> QED  BY <5>1, <1>3, ScriptFacts
      <4>3. "terminal" \in Kinds  BY <4>1, <4>2 DEF Said
      <4> QED  BY <4>3 DEF Kinds
    <3>4. \A i \in DOMAIN f : f[i].kind # "terminal"  BY <2>9, <3>2, <3>3
    <3> QED  BY <3>4, <2>7 DEF TerminalIsLast
  <2>15. RunInv' /\ ReadInv'  BY <1>1, ReadersStay DEF EvInv, RunInv
  <2> QED  BY <2>1, <2>2, <2>11, <2>12, <2>13, <2>14, <2>15 DEF EvInv
<1>5. CASE Handled(p, 0, q, FALSE) /\ UNCHANGED storeVars
  <2>1. UNCHANGED <<runVars, storeVars, pump, reader>> /\ wire' \subseteq wire
    BY <1>1, <1>5 DEF runVars
  <2>2. \A a \in Attempts : StoredOf(a) \subseteq StoredOf(a)'
    <3>1. \A a : StoredOf(a)' = StoredOf(a)  BY <2>1, RunAndRowsStay
    <3> QED  BY <3>1
  <2>3. JobsInv'
    <3>1. JobsInv  BY DEF EvInv
    <3> QED  BY <3>1, <1>1, <1>2, <1>3, <1>5, <2>2, JobsGrow
  <2>4. RunInv' /\ StoreInv' /\ TerminalIsLast' /\ AnswerHasItsText'
    BY <2>1, RunAndRowsStay DEF EvInv
  <2>5. PumpInv' /\ WireInv' /\ ReadInv'
    BY <2>1, PumpStays, WireStays, ReadersStay DEF EvInv
  <2> QED  BY <2>3, <2>4, <2>5 DEF EvInv
<1> QED  BY <1>4, <1>5 DEF Ingest

\* A row at the end that no worker said.
LEMMA TailKeeps ==
  ASSUME EvInv, NEW p, NEW kind \in {"artifact", "terminal"}, AppendLocked(kind, p),
         status # "ended",
         script' = script, attempt' = attempt, pump' = pump, wire' = wire, reader' = reader
  PROVE  /\ StoreInv' /\ PumpInv' /\ WireInv' /\ JobsInv' /\ AnswerHasItsText' /\ ReadInv'
         /\ Len(events') = Len(events) + 1
         /\ \A i \in DOMAIN events' : events'[i].kind = "terminal" =>
              i = Len(events') /\ kind = "terminal"
<1>1. events' = Append(events, NoSource(kind)) /\ usage' = usage /\ message' = message
      /\ Handled(p, 1, NoRequest, TRUE)
  BY DEF AppendLocked
<1>2. script \in Scripts /\ attempt \in Attempts /\ StoreInv /\ events \in Seq(Row) /\ JobsInv
  BY DEF EvInv, RunInv, StoreInv
<1>3. StoreInv' /\ \A a \in Attempts : StoredOf(a)' = StoredOf(a)  BY <1>1, <1>2, TailKeepsStore
<1>4. PumpInv'  BY <1>2, <1>3, PumpKeeps DEF EvInv
<1>5. WireInv'  BY WireKeeps DEF EvInv
<1>6. JobsInv'  BY <1>1, <1>2, <1>3, JobsGrow
<1>7. PICK e, f, x : e = events /\ f = events' /\ x = NoSource(kind)  OBVIOUS
<1>8. f = Append(e, x) /\ e \in Seq(Row) /\ x \in Row /\ x.kind = kind
  BY <1>1, <1>2, <1>7 DEF NoSource, Row
<1>9. f \in Seq(Row) /\ Len(f) = Len(e) + 1 /\ f[Len(e) + 1] = x
      /\ \A i \in 1..Len(e) : f[i] = e[i]
  BY <1>8, AppendProperties
<1>10. \A i \in DOMAIN f : (i \in DOMAIN e /\ f[i] = e[i]) \/ (i = Len(f) /\ f[i] = x)
  <2>1. DOMAIN f = 1..(Len(e) + 1) /\ DOMAIN e = 1..Len(e) /\ Len(e) \in Nat  BY <1>8, <1>9
  <2>2. \A i \in 1..(Len(e) + 1) : i \in 1..Len(e) \/ i = Len(e) + 1  BY <2>1
  <2> QED  BY <2>1, <2>2, <1>9
<1>11. \A i \in DOMAIN e : i \in DOMAIN f /\ f[i] = e[i]
  <2>1. DOMAIN f = 1..(Len(e) + 1) /\ DOMAIN e = 1..Len(e) /\ Len(e) \in Nat  BY <1>8, <1>9
  <2>2. \A i \in 1..Len(e) : i \in 1..(Len(e) + 1)  BY <2>1
  <2> QED  BY <2>1, <2>2, <1>9
<1>12. \A i \in DOMAIN e : e[i].kind # "terminal"  BY <1>7 DEF EvInv, TerminalIsLast
<1>13. AnswerHasItsText'
  <2>1. \A a : FinalText(a)' = FinalText(a)  BY DEF FinalText, TextsSaid
  <2>2. \A i \in DOMAIN f : f[i].kind = "answer" => i \in DOMAIN e /\ f[i] = e[i]
    BY <1>8, <1>10
  <2>3. (\E i \in DOMAIN f : f[i].kind = "answer") <=> (\E i \in DOMAIN e : e[i].kind = "answer")
    BY <2>2, <1>11
  <2>4. /\ \A i, j \in DOMAIN e : e[i].kind = "answer" /\ e[j].kind = "answer" => i = j
        /\ (message # NoMessage) = (\E i \in DOMAIN e : e[i].kind = "answer")
        /\ \A i \in DOMAIN e : e[i].kind = "answer" => EndsWithText(message, e[i].attempt)
    BY <1>7 DEF EvInv, AnswerHasItsText, EndsWithText
  <2>5. /\ \A i, j \in DOMAIN f : f[i].kind = "answer" /\ f[j].kind = "answer" => i = j
        /\ (message # NoMessage) = (\E i \in DOMAIN f : f[i].kind = "answer")
        /\ \A i \in DOMAIN f : f[i].kind = "answer" => EndsWithText(message, f[i].attempt)
    BY <2>2, <2>3, <2>4
  <2> QED  BY <2>1, <2>5, <1>1, <1>7 DEF AnswerHasItsText, EndsWithText
<1>14. \A i \in DOMAIN f : f[i].kind = "terminal" => i = Len(f) /\ kind = "terminal"
  BY <1>8, <1>10, <1>12
<1>15. ReadInv'  BY ReadersStay DEF EvInv
<1> QED  BY <1>3, <1>4, <1>5, <1>6, <1>7, <1>9, <1>13, <1>14, <1>15

\* InternalTool, EndRun, Requeue and ClaimAgain.
LEMMA RunKeeps ==
  ASSUME EvInv, NEW p, InternalTool(p) \/ EndRun(p) \/ Requeue \/ ClaimAgain
  PROVE  EvInv'
<1>1. ASSUME InternalTool(p) PROVE EvInv'
  <2>1. /\ AppendLocked("artifact", p) /\ status = "running"
        /\ script' = script /\ status' = status /\ attempt' = attempt
        /\ pump' = pump /\ wire' = wire /\ reader' = reader
    BY <1>1 DEF InternalTool, Leased, runVars
  <2>2. /\ StoreInv' /\ PumpInv' /\ WireInv' /\ JobsInv' /\ AnswerHasItsText' /\ ReadInv'
        /\ \A i \in DOMAIN events' : events'[i].kind = "terminal" =>
             i = Len(events') /\ "artifact" = "terminal"
    BY <2>1, TailKeeps
  <2>3. TerminalIsLast'  BY <2>2 DEF TerminalIsLast
  <2>4. RunInv'  BY <2>1 DEF EvInv, RunInv
  <2> QED  BY <2>2, <2>3, <2>4 DEF EvInv
<1>2. ASSUME EndRun(p) PROVE EvInv'
  <2>1. /\ AppendLocked("terminal", p) /\ status # "ended" /\ status' = "ended"
        /\ script' = script /\ attempt' = attempt
        /\ pump' = pump /\ wire' = wire /\ reader' = reader
    BY <1>2 DEF EndRun
  <2>2. /\ StoreInv' /\ PumpInv' /\ WireInv' /\ JobsInv' /\ AnswerHasItsText' /\ ReadInv'
        /\ \A i \in DOMAIN events' : events'[i].kind = "terminal" => i = Len(events')
    BY <2>1, TailKeeps
  <2>3. TerminalIsLast'  BY <2>1, <2>2 DEF TerminalIsLast
  <2>4. RunInv'  BY <2>1 DEF EvInv, RunInv
  <2> QED  BY <2>2, <2>3, <2>4 DEF EvInv
<1>3. ASSUME Requeue PROVE EvInv'
  <2>1. /\ status = "running" /\ attempt = 1 /\ status' = "queued"
        /\ script' = script /\ attempt' = attempt
        /\ events' = events /\ usage' = usage /\ message' = message
        /\ pump' = pump /\ wire' = wire /\ jobs' = jobs /\ reader' = reader
    BY <1>3 DEF Requeue, storeVars
  <2>2. \A a : StoredOf(a)' = StoredOf(a)  BY <2>1 DEF StoredOf
  <2>3. StoreInv'
    <3>1. \A x, y, z : Said(x, y, z)' <=> Said(x, y, z)  BY <2>1 DEF Said
    <3>2. RowsSaid' /\ UsageSaid'  BY <2>1, <3>1 DEF EvInv, StoreInv, RowsSaid, UsageSaid
    <3>3. RowsUnsaid' /\ RowsOrdered'  BY <2>1 DEF EvInv, StoreInv, RowsUnsaid, RowsOrdered
    <3>4. NoGaps'  BY <2>2 DEF EvInv, StoreInv, NoGaps
    <3> QED  BY <2>1, <3>2, <3>3, <3>4 DEF EvInv, StoreInv
  <2>4. RunInv'  BY <2>1 DEF EvInv, RunInv
  <2>5. PumpInv'
    <3>1. attempt \in Attempts  BY DEF EvInv, RunInv
    <3> QED  BY <2>1, <2>2, <3>1, PumpKeeps DEF EvInv
  <2>6. WireInv'  BY <2>1, WireKeeps DEF EvInv
  <2>7. JobsInv'
    <3>1. \A x : RequestOK(x)' <=> RequestOK(x)  BY <2>1 DEF RequestOK
    <3>2. \A x : Answered(x)' <=> Answered(x)  BY <2>2 DEF Answered
    <3> QED  BY <2>1, <3>1, <3>2 DEF EvInv, JobsInv, JobOK
  <2>8. AnswerHasItsText'
    <3>1. \A a : FinalText(a)' = FinalText(a)  BY <2>1 DEF FinalText, TextsSaid
    <3> QED  BY <2>1, <3>1 DEF EvInv, AnswerHasItsText
  <2>9. TerminalIsLast'  BY <2>1 DEF EvInv, TerminalIsLast
  <2>10. ReadInv'  BY <2>1, ReadersStay DEF EvInv
  <2> QED  BY <2>3, <2>4, <2>5, <2>6, <2>7, <2>8, <2>9, <2>10 DEF EvInv
<1>4. ASSUME ClaimAgain PROVE EvInv'
  <2>1. /\ status = "queued" /\ status' = "running" /\ attempt' = attempt + 1
        /\ script' = script
        /\ events' = events /\ usage' = usage /\ message' = message
        /\ pump' = NewPump /\ wire' = wire /\ jobs' = jobs /\ reader' = reader
    BY <1>4 DEF ClaimAgain, storeVars
  <2>2. attempt = 1 /\ attempt' = 2  BY <2>1 DEF EvInv, RunInv
  <2>3. \A a : StoredOf(a)' = StoredOf(a)  BY <2>1 DEF StoredOf
  <2>4. StoreInv'
    <3>1. \A x, y, z : Said(x, y, z)' <=> Said(x, y, z)  BY <2>1 DEF Said
    <3>2. events \in Seq(Row)  BY DEF EvInv, StoreInv
    <3>3. \A i \in DOMAIN events : events[i].attempt \in 0..2
      <4>1. \A i \in DOMAIN events : events[i] \in Row  BY <3>2
      <4> QED  BY <4>1 DEF Row
    <3>4. \A i \in DOMAIN events : events[i].attempt <= attempt'  BY <3>3, <2>2
    <3>5. RowsSaid'  BY <2>1, <3>1, <3>4 DEF EvInv, StoreInv, RowsSaid
    <3>6. UsageSaid'  BY <2>1, <3>1 DEF EvInv, StoreInv, UsageSaid
    <3>7. RowsUnsaid' /\ RowsOrdered'  BY <2>1 DEF EvInv, StoreInv, RowsUnsaid, RowsOrdered
    <3>8. NoGaps'  BY <2>3 DEF EvInv, StoreInv, NoGaps
    <3> QED  BY <2>1, <3>5, <3>6, <3>7, <3>8 DEF EvInv, StoreInv
  <2>5. RunInv'  BY <2>1, <2>2 DEF EvInv, RunInv, Attempts
  <2>6. PumpInv'
    <3>1. pump'.acked = 0 /\ pump'.last = 0
          /\ pump' \in [acked : Nat, last : Nat, tries : 0..MaxTries, alive : BOOLEAN]
      <4>1. 0 \in 0..MaxTries /\ 0 \in Nat  BY EventsAssumption
      <4> QED  BY <4>1, <2>1 DEF NewPump
    <3>2. script.says[2] \in Seq(Kinds)  BY ScriptFacts DEF EvInv, RunInv, Attempts
    <3>3. Len(script.says[2]) \in Nat  BY <3>2
    <3>4. 0 <= Len(script.says[2]) /\ 1..0 = {}  BY <3>3
    <3> QED  BY <2>1, <2>2, <3>1, <3>4 DEF PumpInv
  <2>w. \A x : RequestOK(x) => RequestOK(x)'
    <3> SUFFICES ASSUME NEW x, RequestOK(x) PROVE RequestOK(x)'
      OBVIOUS
    <3>1. x.attempt <= attempt'
      <4>1. x.attempt \in 1..2  BY DEF RequestOK, Attempts
      <4> QED  BY <4>1, <2>2
    <3> QED  BY <2>1, <3>1 DEF RequestOK
  <2>7. WireInv'  BY <2>1, <2>w DEF EvInv, WireInv
  <2>8. JobsInv'
    <3>1. \A x : Answered(x)' <=> Answered(x)  BY <2>3 DEF Answered
    <3> QED  BY <2>1, <2>w, <3>1 DEF EvInv, JobsInv, JobOK
  <2>9. AnswerHasItsText'
    <3>1. \A a : FinalText(a)' = FinalText(a)  BY <2>1 DEF FinalText, TextsSaid
    <3> QED  BY <2>1, <3>1 DEF EvInv, AnswerHasItsText
  <2>10. TerminalIsLast'  BY <2>1 DEF EvInv, TerminalIsLast
  <2>11. ReadInv'  BY <2>1, ReadersStay DEF EvInv
  <2> QED  BY <2>4, <2>5, <2>6, <2>7, <2>8, <2>9, <2>10, <2>11 DEF EvInv
<1> QED  BY <1>1, <1>2, <1>3, <1>4

\* What a step of the broker or of a reader has to keep.
LEMMA OnlyReaders ==
  ASSUME EvInv, UNCHANGED <<runVars, storeVars, pump, wire>>, JobsInv', ReadInv'
  PROVE  EvInv'
<1>1. RunInv' /\ StoreInv' /\ TerminalIsLast' /\ AnswerHasItsText'  BY RunAndRowsStay DEF EvInv
<1>2. PumpInv' /\ WireInv'  BY PumpStays, WireStays DEF EvInv
<1> QED  BY <1>1, <1>2 DEF EvInv

\* Fields of a client that do not matter for the order of what it got.
LEMMA ReadersKept ==
  ASSUME ReadInv, reader' \in [Readers -> Client],
         \A c \in Readers : reader'[c].got = reader[c].got /\ reader'[c].seen = reader[c].seen
  PROVE  ReadInv'
BY DEF ReadInv

\* A client that loses its stream keeps what it got.
LEMMA Elsewhere ==
  ASSUME NEW r \in Client
  PROVE  LET n == [r EXCEPT !.at = "nowhere", !.phase = "off", !.queue = <<>>] IN
         n \in Client /\ n.got = r.got /\ n.seen = r.seen
<1> DEFINE r1 == [r EXCEPT !.at = "nowhere"]
           r2 == [r1 EXCEPT !.phase = "off"]
           r3 == [r2 EXCEPT !.queue = <<>>]
<1>1. r1 \in Client /\ r1.got = r.got /\ r1.seen = r.seen  BY DEF Client
<1>2. r3 = [r EXCEPT !.at = "nowhere", !.phase = "off", !.queue = <<>>]  OBVIOUS
<1> HIDE DEF r1
<1>3. r2 \in Client /\ r2.got = r.got /\ r2.seen = r.seen  BY <1>1 DEF Client
<1> HIDE DEF r2
<1>4. r3 \in Client /\ r3.got = r.got /\ r3.seen = r.seen
  <2>1. <<>> \in Seq(Nat)  OBVIOUS
  <2> QED  BY <1>3, <2>1 DEF Client
<1> HIDE DEF r3
<1> QED  BY <1>2, <1>4

\* Publish: the broker gives rows to queues and to no list of what a client got.
LEMMA PublishKeeps ==
  ASSUME EvInv, NEW j \in jobs, Publish(j)
  PROVE  EvInv'
<1>1. /\ j.list # <<>>
      /\ jobs' = (jobs \ {j}) \cup {[j EXCEPT !.list = Tail(j.list)]}
      /\ reader' = [c \in Readers |->
           IF reader[c].at = j.at
           THEN [reader[c] EXCEPT !.queue = Append(reader[c].queue, Head(j.list))]
           ELSE reader[c]]
      /\ UNCHANGED <<runVars, storeVars, pump, wire>>
  BY DEF Publish
<1>2. JobOK(j)  BY DEF EvInv, JobsInv
<1>3. j.list \in Seq(Nat) /\ Tail(j.list) \in Seq(Nat) /\ Head(j.list) \in Nat
  BY <1>1, <1>2, HeadTailProperties DEF JobOK
<1>4. JobsInv'
  <2> DEFINE k == [j EXCEPT !.list = Tail(j.list)]
  <2>0. PICK x : x = Tail(j.list)  OBVIOUS
  <2>1. \/ k.list = Tail(j.list) /\ k.ok = j.ok /\ k.to = j.to
        \/ k = j
    OBVIOUS
  <2>2. JobOK(k)
    <3> HIDE DEF k
    <3> QED  BY <2>1, <1>2, <1>3 DEF JobOK
  <2>3. \A y : JobOK(y)' <=> JobOK(y)  BY <1>1, RunAndRowsStay
  <2>4. \A y \in jobs' : JobOK(y)
    <3>1. jobs' = (jobs \ {j}) \cup {k}  BY <1>1
    <3> HIDE DEF k
    <3> QED  BY <3>1, <2>2 DEF EvInv, JobsInv
  <2> QED  BY <2>3, <2>4 DEF JobsInv
<1>5. ReadInv'
  <2>1. ReadInv  BY DEF EvInv
  <2>2. ASSUME NEW c \in Readers
        PROVE  reader'[c] \in Client /\ reader'[c].got = reader[c].got
               /\ reader'[c].seen = reader[c].seen
    <3>1. reader[c] \in Client  BY <2>1 DEF ReadInv
    <3>2. PICK r, h : r = reader[c] /\ h = Head(j.list)  OBVIOUS
    <3>3. Append(r.queue, h) \in Seq(Nat)
      <4>1. r.queue \in Seq(Nat)  BY <3>1, <3>2 DEF Client
      <4> QED  BY <4>1, <3>2, <1>3, AppendProperties
    <3> DEFINE n == [r EXCEPT !.queue = Append(r.queue, h)]
    <3>4. n \in Client /\ n.got = r.got /\ n.seen = r.seen  BY <3>1, <3>2, <3>3 DEF Client
    <3>5. reader'[c] = n \/ reader'[c] = r  BY <1>1, <3>2
    <3> HIDE DEF n
    <3> QED  BY <3>1, <3>2, <3>4, <3>5
  <2>3. reader' \in [Readers -> Client]
    <3>1. reader' = [c \in Readers |-> reader'[c]]  BY <1>1
    <3> QED  BY <3>1, <2>2
  <2> QED  BY <2>1, <2>2, <2>3, ReadersKept
<1> QED  BY <1>1, <1>4, <1>5, OnlyReaders

\* Answer: the pump advances only past what the handler that answers it has stored.
LEMMA AnswerKeeps ==
  ASSUME EvInv, NEW j \in jobs, NEW arrives \in BOOLEAN, Answer(j, arrives)
  PROVE  EvInv'
<1> DEFINE current == pump.alive /\ Sending /\ j.to = Request(pump)
<1>1. /\ jobs' = jobs \ {j}
      /\ pump' = IF ~arrives \/ ~current THEN pump
                 ELSE IF j.ok THEN [pump EXCEPT !.acked = pump.last, !.tries = 0]
                 ELSE [pump EXCEPT !.alive = FALSE]
      /\ UNCHANGED <<runVars, storeVars, wire, reader>>
  BY DEF Answer
<1>2. JobOK(j)  BY DEF EvInv, JobsInv
<1>3. /\ pump \in [acked : Nat, last : Nat, tries : 0..MaxTries, alive : BOOLEAN]
      /\ pump.acked <= pump.last /\ pump.last <= Len(script.says[attempt])
      /\ 1..pump.acked \subseteq StoredOf(attempt) /\ attempt \in Attempts
  BY DEF EvInv, PumpInv, RunInv
<1>4. \A a : StoredOf(a)' = StoredOf(a)  BY <1>1, RunAndRowsStay
<1>5. script' = script /\ attempt' = attempt  BY <1>1 DEF runVars
<1>6. PumpInv'
  <2>1. CASE pump' = pump  BY <2>1, <1>1, PumpStays DEF EvInv
  <2>2. CASE current /\ j.ok /\ pump' = [pump EXCEPT !.acked = pump.last, !.tries = 0]
    <3>1. j.to = [attempt |-> attempt, first |-> pump.acked + 1, last |-> pump.last,
                  try |-> pump.tries]
      BY <2>2 DEF Request
    <3>2. j.to.attempt = attempt /\ j.to.last = pump.last  BY <3>1
    <3>3. j.to # NoRequest
      <4>1. attempt # 0  BY <1>3 DEF Attempts
      <4> QED  BY <3>2, <4>1 DEF NoRequest
    <3>4. 1..pump.last \subseteq StoredOf(attempt)
      <4>1. Answered(j.to)  BY <1>2, <2>2, <3>3 DEF JobOK
      <4> QED  BY <3>2, <4>1 DEF Answered
    <3> DEFINE p1 == [pump EXCEPT !.acked = pump.last]
               p2 == [p1 EXCEPT !.tries = 0]
    <3>5. /\ p1 \in [acked : Nat, last : Nat, tries : 0..MaxTries, alive : BOOLEAN]
          /\ p1.acked = pump.last /\ p1.last = pump.last
      BY <1>3
    <3>6. pump' = p2  BY <2>2
    <3> HIDE DEF p1
    <3>7. 0 \in 0..MaxTries  BY EventsAssumption
    <3>8. /\ p2 \in [acked : Nat, last : Nat, tries : 0..MaxTries, alive : BOOLEAN]
          /\ p2.acked = pump.last /\ p2.last = pump.last
      BY <3>5, <3>7
    <3> HIDE DEF p2
    <3>9. /\ pump' \in [acked : Nat, last : Nat, tries : 0..MaxTries, alive : BOOLEAN]
          /\ pump'.acked = pump.last /\ pump'.last = pump.last /\ pump'.acked <= pump'.last
      <4>1. pump.last \in Nat  BY <1>3
      <4>2. pump.last <= pump.last  BY <4>1
      <4> QED  BY <3>6, <3>8, <4>2
    <3> QED  BY <3>4, <3>9, <1>3, <1>4, <1>5 DEF PumpInv
  <2>3. CASE pump' = [pump EXCEPT !.alive = FALSE]
    <3> DEFINE p1 == [pump EXCEPT !.alive = FALSE]
    <3>1. /\ p1 \in [acked : Nat, last : Nat, tries : 0..MaxTries, alive : BOOLEAN]
          /\ p1.acked = pump.acked /\ p1.last = pump.last
      BY <1>3
    <3>2. pump' = p1  BY <2>3
    <3> HIDE DEF p1
    <3>3. /\ pump' \in [acked : Nat, last : Nat, tries : 0..MaxTries, alive : BOOLEAN]
          /\ pump'.acked = pump.acked /\ pump'.last = pump.last
      BY <3>1, <3>2
    <3> QED  BY <3>3, <1>3, <1>4, <1>5 DEF PumpInv
  <2> QED  BY <1>1, <2>1, <2>2, <2>3
<1>7. JobsInv'
  <2>1. jobs' \subseteq jobs /\ UNCHANGED <<runVars, storeVars>>  BY <1>1
  <2> QED  BY <2>1, JobsStay DEF EvInv
<1>8. RunInv' /\ StoreInv' /\ TerminalIsLast' /\ AnswerHasItsText'
  BY <1>1, RunAndRowsStay DEF EvInv
<1>9. WireInv' /\ ReadInv'  BY <1>1, WireStays, ReadersStay DEF EvInv
<1> QED  BY <1>6, <1>7, <1>8, <1>9 DEF EvInv

\* ProcessDies.
LEMMA DeathKeeps ==
  ASSUME EvInv, NEW p, ProcessDies(p)
  PROVE  EvInv'
<1>1. /\ jobs' \subseteq jobs
      /\ reader' = [c \in Readers |-> IF reader[c].at = p THEN Nowhere(c) ELSE reader[c]]
      /\ UNCHANGED <<runVars, storeVars, pump, wire>>
  BY DEF ProcessDies
<1>2. JobsInv'  BY <1>1, JobsStay DEF EvInv
<1>3. ReadInv  BY DEF EvInv
<1>4. ASSUME NEW c \in Readers
      PROVE  reader'[c] \in Client /\ reader'[c].got = reader[c].got
             /\ reader'[c].seen = reader[c].seen
  <2>1. PICK r : r = reader[c]  OBVIOUS
  <2>2. r \in Client  BY <1>3, <2>1 DEF ReadInv
  <2>3. reader'[c] = r \/ reader'[c] = [r EXCEPT !.at = "nowhere", !.phase = "off", !.queue = <<>>]
    BY <1>1, <2>1 DEF Nowhere
  <2> QED  BY <2>1, <2>2, <2>3, Elsewhere
<1>5. reader' \in [Readers -> Client]
  <2>1. reader' = [c \in Readers |-> reader'[c]]  BY <1>1
  <2> QED  BY <2>1, <1>4
<1>6. ReadInv'  BY <1>3, <1>4, <1>5, ReadersKept
<1> QED  BY <1>1, <1>2, <1>6, OnlyReaders

-----------------------------------------------------------------------------
\* What a reader gets goes on after what it has.
LEMMA Delivered ==
  ASSUME NEW got \in Seq(Nat), NEW seen \in Nat, InOrderTo(got, seen),
         NEW list \in Seq(Nat), \A i \in 1..Len(list) : seen < list[i],
         \A i, j \in 1..Len(list) : i < j => list[i] < list[j]
  PROVE  LET last == IF list = <<>> THEN seen ELSE Last(list) IN
         got \o list \in Seq(Nat) /\ last \in Nat /\ InOrderTo(got \o list, last)
<1> DEFINE last == IF list = <<>> THEN seen ELSE Last(list)
           m == Len(got)
           n == Len(list)
           all == got \o list
<1>1. m \in Nat /\ n \in Nat  OBVIOUS
<1>g. \A i \in 1..m : got[i] \in Nat /\ got[i] <= seen  BY DEF InOrderTo
<1>o. \A i, j \in 1..m : i < j => got[i] < got[j]  BY DEF InOrderTo
<1>l. \A i \in 1..n : list[i] \in Nat /\ seen < list[i]  OBVIOUS
<1>p. \A i, j \in 1..n : i < j => list[i] < list[j]  OBVIOUS
<1>2. /\ all \in Seq(Nat) /\ Len(all) = m + n
      /\ \A i \in 1..(m + n) : all[i] = IF i <= m THEN got[i] ELSE list[i - m]
  BY ConcatProperties
<1>3. last \in Nat /\ seen <= last /\ \A i \in 1..n : list[i] <= last
  <2>1. CASE list = <<>>  BY <2>1
  <2>2. CASE list # <<>>
    <3>1. n # 0  BY <2>2
    <3>2. last = list[n] /\ n \in 1..n  BY <2>2, <3>1, <1>1 DEF Last
    <3>3. last \in Nat /\ seen < last  BY <3>2, <1>l
    <3>4. ASSUME NEW i \in 1..n PROVE list[i] <= last
      <4> HIDE DEF n, last
      <4>1. i = n \/ i < n  BY <1>1
      <4>2. list[i] \in Nat  BY <1>l
      <4>3. CASE i = n  BY <4>2, <4>3, <3>2
      <4>4. CASE i < n
        <5>1. list[i] < list[n]  BY <4>4, <3>2, <1>p
        <5> QED  BY <5>1, <4>2, <3>2, <3>3
      <4> QED  BY <4>1, <4>3, <4>4
    <3> QED  BY <3>3, <3>4
  <2> QED  BY <2>1, <2>2
<1> HIDE DEF last, m, n, all
<1>4. \A i \in 1..m : i \in 1..(m + n) /\ i <= m  BY <1>1
<1>5. \A i \in 1..(m + n) : i \in 1..m \/ (~ (i <= m) /\ i - m \in 1..n)  BY <1>1
<1>6. \A i \in 1..(m + n) :
        \/ i \in 1..m /\ all[i] = got[i]
        \/ ~ (i <= m) /\ i - m \in 1..n /\ all[i] = list[i - m]
  BY <1>2, <1>4, <1>5
<1>7. ASSUME NEW i \in 1..(m + n), NEW j \in 1..(m + n), i < j PROVE all[i] < all[j]
  <2>1. CASE i \in 1..m /\ j \in 1..m
    <3>1. all[i] = got[i] /\ all[j] = got[j]  BY <2>1, <1>2, <1>4
    <3> QED  BY <3>1, <2>1, <1>7, <1>o
  <2>2. CASE i \in 1..m /\ ~ (j <= m)
    <3>1. all[i] = got[i] /\ all[j] = list[j - m] /\ j - m \in 1..n  BY <2>2, <1>2, <1>4, <1>5
    <3>2. got[i] \in Nat /\ got[i] <= seen /\ list[j - m] \in Nat /\ seen < list[j - m]
      BY <3>1, <2>2, <1>g, <1>l
    <3> QED  BY <3>1, <3>2
  <2>3. CASE ~ (i <= m) /\ ~ (j <= m)
    <3>1. /\ all[i] = list[i - m] /\ i - m \in 1..n
          /\ all[j] = list[j - m] /\ j - m \in 1..n
      BY <2>3, <1>2, <1>5
    <3>2. i - m < j - m  BY <1>7, <1>1
    <3> QED  BY <3>1, <3>2, <1>p
  <2>4. CASE ~ (i <= m) /\ j \in 1..m  BY <2>4, <1>7, <1>1
  <2> QED  BY <2>1, <2>2, <2>3, <2>4, <1>5
<1>8. ASSUME NEW i \in 1..(m + n) PROVE all[i] <= last
  <2>1. CASE i \in 1..m
    <3>1. all[i] = got[i] /\ got[i] \in Nat /\ got[i] <= seen  BY <2>1, <1>2, <1>4, <1>g
    <3> QED  BY <3>1, <1>3
  <2>2. CASE ~ (i <= m) /\ i - m \in 1..n
    <3>1. all[i] = list[i - m]  BY <2>2, <1>2
    <3> QED  BY <3>1, <2>2, <1>3
  <2> QED  BY <2>1, <2>2, <1>5
<1>9. InOrderTo(all, last)  BY <1>2, <1>7, <1>8 DEF InOrderTo
<1> QED  BY <1>2, <1>3, <1>9 DEF all, last

\* The rows after n, in order.
LEMMA AfterIs ==
  ASSUME events \in Seq(Row), NEW n \in Nat
  PROVE  /\ After(n) \in Seq(Nat)
         /\ \A i \in 1..Len(After(n)) : n < After(n)[i]
         /\ \A i, j \in 1..Len(After(n)) : i < j => After(n)[i] < After(n)[j]
<1> DEFINE l == Len(events) - n
           s == [i \in 1..l |-> n + i]
<1>1. l \in Int  OBVIOUS
<1>2. After(n) = s  BY DEF After
<1>3. PICK k \in Nat : 1..l = 1..k
  <2>1. CASE l >= 0  BY <1>1, <2>1
  <2>2. CASE l < 0
    <3>1. 1..l = {} /\ 1..0 = {} /\ 0 \in Nat  BY <1>1, <2>2
    <3> QED  BY <3>1
  <2> QED  BY <1>1, <2>1, <2>2
<1> HIDE DEF l
<1>4. \A i \in 1..k : s[i] = n + i /\ n + i \in Nat /\ n < n + i
  <2>1. \A i \in 1..k : i \in 1..l  BY <1>3
  <2>2. \A i \in 1..k : n + i \in Nat /\ n < n + i  OBVIOUS
  <2> QED  BY <2>1, <2>2
<1>5. s = [i \in 1..k |-> s[i]]  BY <1>3
<1> HIDE DEF s
<1>6. s \in [1..k -> Nat]  BY <1>4, <1>5
<1>7. s \in Seq(Nat)  BY <1>6
<1>8. Len(s) = k  BY <1>5, <1>7
<1>9. \A i, j \in 1..k : i < j => s[i] < s[j]
  <2>1. \A i, j \in 1..k : i < j => n + i < n + j  OBVIOUS
  <2> QED  BY <2>1, <1>4
<1> QED  BY <1>2, <1>4, <1>7, <1>8, <1>9

\* A client after a delivery, whatever becomes of its connection.
LEMMA ClientGets ==
  ASSUME NEW r \in Client, InOrderTo(r.got, r.seen), NEW g \in Seq(Nat), NEW s \in Nat,
         InOrderTo(g, s), NEW at \in Processes \cup {"nowhere"},
         NEW phase \in {"off", "list", "wait", "done"}, NEW queue \in Seq(Nat)
  PROVE  LET d == [r EXCEPT !.got = g, !.seen = s]
             n == [d EXCEPT !.at = at, !.phase = phase, !.queue = queue]
         IN  n \in Client /\ InOrderTo(n.got, n.seen)
<1> DEFINE r1 == [r EXCEPT !.got = g]
           d  == [r1 EXCEPT !.seen = s]
           n1 == [d EXCEPT !.at = at]
           n2 == [n1 EXCEPT !.phase = phase]
           n3 == [n2 EXCEPT !.queue = queue]
<1>1. r1 \in Client /\ r1.got = g  BY DEF Client
<1>e. n3 = [[r EXCEPT !.got = g, !.seen = s] EXCEPT !.at = at, !.phase = phase, !.queue = queue]
  OBVIOUS
<1> HIDE DEF r1
<1>2. d \in Client /\ d.got = g /\ d.seen = s  BY <1>1 DEF Client
<1> HIDE DEF d
<1>3. n1 \in Client /\ n1.got = g /\ n1.seen = s  BY <1>2 DEF Client
<1> HIDE DEF n1
<1>4. n2 \in Client /\ n2.got = g /\ n2.seen = s  BY <1>3 DEF Client
<1> HIDE DEF n2
<1>5. n3 \in Client /\ n3.got = g /\ n3.seen = s  BY <1>4 DEF Client
<1> HIDE DEF n3
<1>6. InOrderTo(n3.got, n3.seen)  BY <1>5
<1> QED  BY <1>e, <1>5, <1>6

\* A step of one reader.
LEMMA OneReader ==
  ASSUME EvInv, NEW c \in Readers, NEW n \in Client, InOrderTo(n.got, n.seen),
         reader' = [reader EXCEPT ![c] = n],
         UNCHANGED <<runVars, storeVars, pump, wire, jobs>>
  PROVE  EvInv'
<1>1. ReadInv  BY DEF EvInv
<1>2. ReadInv'
  <2>1. reader' \in [Readers -> Client]  BY <1>1 DEF ReadInv
  <2>2. \A x \in Readers : x # c => reader'[x] = reader[x]  BY <1>1 DEF ReadInv
  <2>3. reader'[c] = n  BY <1>1 DEF ReadInv
  <2> QED  BY <2>1, <2>2, <2>3, <1>1 DEF ReadInv
<1>3. JobsInv'  BY JobsStay DEF EvInv
<1> QED  BY <1>2, <1>3, OnlyReaders

\* ListAfter, FromBroker, Poll, Disconnect and Connect.
LEMMA StreamKeeps ==
  ASSUME EvInv, NEW c \in Readers,
         StreamStep(c) \/ Disconnect(c) \/ \E p \in Processes : Connect(c, p)
  PROVE  EvInv'
<1>1. reader[c] \in Client /\ InOrderTo(reader[c].got, reader[c].seen)  BY DEF EvInv, ReadInv
<1>2. PICK r : r = reader[c]  OBVIOUS
<1>3. r \in Client /\ InOrderTo(r.got, r.seen)  BY <1>1, <1>2
<1>4. /\ r.got \in Seq(Nat) /\ r.seen \in Nat /\ r.queue \in Seq(Nat)
      /\ r.at \in Processes \cup {"nowhere"} /\ r.phase \in {"off", "list", "wait", "done"}
  BY <1>3 DEF Client
<1>5. <<>> \in Seq(Nat)  OBVIOUS
<1>6. ASSUME NEW list \in Seq(Nat), \A i \in 1..Len(list) : r.seen < list[i],
             \A i, j \in 1..Len(list) : i < j => list[i] < list[j],
             NEW at \in Processes \cup {"nowhere"},
             NEW phase \in {"off", "list", "wait", "done"}, NEW queue \in Seq(Nat),
             NEW n,
             n = [Deliver(c, list) EXCEPT !.at = at, !.phase = phase, !.queue = queue],
             reader' = [reader EXCEPT ![c] = n],
             UNCHANGED <<runVars, storeVars, pump, wire, jobs>>
      PROVE  EvInv'
  <2> DEFINE g == r.got \o list
             s == IF list = <<>> THEN r.seen ELSE Last(list)
  <2>1. g \in Seq(Nat) /\ s \in Nat /\ InOrderTo(g, s)  BY <1>3, <1>4, <1>6, Delivered
  <2>2. Deliver(c, list) = [r EXCEPT !.got = g, !.seen = s]  BY <1>2 DEF Deliver
  <2> HIDE DEF g, s
  <2> DEFINE d == [r EXCEPT !.got = g, !.seen = s]
             x == [d EXCEPT !.at = at, !.phase = phase, !.queue = queue]
  <2>3. x \in Client /\ InOrderTo(x.got, x.seen)  BY <2>1, <1>3, ClientGets
  <2>4. n = x  BY <2>2, <1>6
  <2> HIDE DEF x
  <2>5. n \in Client /\ InOrderTo(n.got, n.seen)  BY <2>3, <2>4
  <2> QED  BY <2>5, <1>6, OneReader
<1>7. ASSUME ListAfter(c) PROVE EvInv'
  <2>1. PICK list : list = After(reader[c].seen)  OBVIOUS
  <2>2. /\ list \in Seq(Nat) /\ \A i \in 1..Len(list) : r.seen < list[i]
        /\ \A i, j \in 1..Len(list) : i < j => list[i] < list[j]
    <3>1. events \in Seq(Row)  BY DEF EvInv, StoreInv
    <3>2. list = After(r.seen)  BY <2>1, <1>2
    <3>3. r.seen \in Nat  BY <1>4
    <3> QED  BY <3>1, <3>2, <3>3, AfterIs
  <2>3. UNCHANGED <<runVars, storeVars, pump, wire, jobs>>  BY <1>7 DEF ListAfter
  <2>4. reader' = [reader EXCEPT ![c] =
          IF list # <<>> /\ IsTerminal(Last(list))
          THEN [Deliver(c, list) EXCEPT !.at = "nowhere", !.phase = "done", !.queue = <<>>]
          ELSE [Deliver(c, list) EXCEPT !.phase = "wait"]]
    BY <1>7, <2>1 DEF ListAfter
  <2>5. CASE reader' = [reader EXCEPT ![c] =
          [Deliver(c, list) EXCEPT !.at = "nowhere", !.phase = "done", !.queue = <<>>]]
    <3>1. PICK n : n = [Deliver(c, list) EXCEPT !.at = "nowhere", !.phase = "done", !.queue = <<>>]
      OBVIOUS
    <3>2. reader' = [reader EXCEPT ![c] = n]  BY <2>5, <3>1
    <3> QED  BY <3>1, <3>2, <2>2, <2>3, <1>5, <1>6
  <2>6. CASE reader' = [reader EXCEPT ![c] = [Deliver(c, list) EXCEPT !.phase = "wait"]]
    <3> DEFINE s == IF list = <<>> THEN r.seen ELSE Last(list)
               g == r.got \o list
    <3>1. PICK d : d = Deliver(c, list)  OBVIOUS
    <3>2. d = [r EXCEPT !.got = g, !.seen = s]  BY <3>1, <1>2 DEF Deliver
    <3> HIDE DEF s, g
    <3>3. d.at = r.at /\ d.queue = r.queue
      BY <3>2, <1>3 DEF Client
    <3>4. [d EXCEPT !.phase = "wait"] = [d EXCEPT !.at = r.at, !.phase = "wait", !.queue = r.queue]
      BY <3>2, <3>3, <1>3 DEF Client
    <3>5. PICK n : n = [d EXCEPT !.phase = "wait"]  OBVIOUS
    <3>6. reader' = [reader EXCEPT ![c] = n]  BY <2>6, <3>1, <3>5
    <3>7. n = [Deliver(c, list) EXCEPT !.at = r.at, !.phase = "wait", !.queue = r.queue]
      BY <3>1, <3>4, <3>5
    <3> QED  BY <3>6, <3>7, <2>2, <2>3, <1>4, <1>6
  <2> QED  BY <2>4, <2>5, <2>6
<1>8. ASSUME FromBroker(c) PROVE EvInv'
  <2>1. PICK h : h = Head(r.queue)  OBVIOUS
  <2>2. PICK list : list = IF IsNew(c, h) THEN <<h>> ELSE <<>>  OBVIOUS
  <2>3. r.queue # <<>> /\ UNCHANGED <<runVars, storeVars, pump, wire, jobs>>
    BY <1>8, <1>2 DEF FromBroker
  <2>4. h \in Nat /\ Tail(r.queue) \in Seq(Nat)  BY <2>1, <2>3, <1>4, HeadTailProperties
  <2>5. /\ list \in Seq(Nat) /\ \A i \in 1..Len(list) : r.seen < list[i]
        /\ \A i, j \in 1..Len(list) : i < j => list[i] < list[j]
    <3>1. CASE IsNew(c, h)
      <4>1. list = <<h>> /\ r.seen < h  BY <3>1, <2>2, <2>4, <1>2, <1>4 DEF IsNew
      <4>2. <<h>> \in Seq(Nat) /\ Len(<<h>>) = 1 /\ <<h>>[1] = h  BY <2>4
      <4>3. \A i \in 1..1 : i = 1  OBVIOUS
      <4>4. \A i \in 1..Len(list) : list[i] = h  BY <4>1, <4>2, <4>3
      <4>5. \A i, j \in 1..Len(list) : ~ (i < j)  BY <4>1, <4>2, <4>3
      <4> QED  BY <4>1, <4>2, <4>4, <4>5
    <3>2. CASE ~ IsNew(c, h)
      <4>1. list = <<>> /\ Len(list) = 0  BY <3>2, <2>2
      <4> QED  BY <4>1
    <3> QED  BY <3>1, <3>2
  <2>6. reader' = [reader EXCEPT ![c] =
          IF list # <<>> /\ IsTerminal(h)
          THEN [Deliver(c, list) EXCEPT !.at = "nowhere", !.phase = "done", !.queue = <<>>]
          ELSE [Deliver(c, list) EXCEPT !.phase = "list", !.queue = Tail(@)]]
    BY <1>8, <2>1, <2>2, <1>2 DEF FromBroker
  <2>7. CASE reader' = [reader EXCEPT ![c] =
          [Deliver(c, list) EXCEPT !.at = "nowhere", !.phase = "done", !.queue = <<>>]]
    <3>1. PICK n : n = [Deliver(c, list) EXCEPT !.at = "nowhere", !.phase = "done", !.queue = <<>>]
      OBVIOUS
    <3>2. reader' = [reader EXCEPT ![c] = n]  BY <2>7, <3>1
    <3> QED  BY <3>1, <3>2, <2>5, <2>3, <1>5, <1>6
  <2>8. CASE reader' = [reader EXCEPT ![c] =
               [Deliver(c, list) EXCEPT !.phase = "list", !.queue = Tail(@)]]
    <3> DEFINE s == IF list = <<>> THEN r.seen ELSE Last(list)
               g == r.got \o list
               t == Tail(r.queue)
    <3>1. PICK d : d = Deliver(c, list)  OBVIOUS
    <3>2. d = [r EXCEPT !.got = g, !.seen = s]  BY <3>1, <1>2 DEF Deliver
    <3> HIDE DEF s, g, t
    <3>3. d.at = r.at /\ d.queue = r.queue  BY <3>2, <1>3 DEF Client
    <3>4. [d EXCEPT !.phase = "list", !.queue = t]
            = [d EXCEPT !.at = r.at, !.phase = "list", !.queue = t]
      BY <3>2, <3>3, <1>3 DEF Client
    <3>5. PICK n : n = [d EXCEPT !.phase = "list", !.queue = t]  OBVIOUS
    <3>6. reader' = [reader EXCEPT ![c] = n]  BY <2>8, <3>1, <3>3, <3>5 DEF t
    <3>7. n = [Deliver(c, list) EXCEPT !.at = r.at, !.phase = "list", !.queue = t]
      BY <3>1, <3>4, <3>5
    <3>8. t \in Seq(Nat)  BY <2>4 DEF t
    <3> QED  BY <3>6, <3>7, <3>8, <2>3, <2>5, <1>4, <1>6
  <2> QED  BY <2>6, <2>7, <2>8
<1>9. ASSUME Poll(c) PROVE EvInv'
  <2>1. reader' = [reader EXCEPT ![c] = [r EXCEPT !.phase = "list"]]
        /\ UNCHANGED <<runVars, storeVars, pump, wire, jobs>>
    BY <1>9, <1>2 DEF Poll
  <2>2. PICK n : n = [r EXCEPT !.phase = "list"]  OBVIOUS
  <2>3. n \in Client /\ n.got = r.got /\ n.seen = r.seen  BY <2>2, <1>3 DEF Client
  <2>4. InOrderTo(n.got, n.seen) /\ reader' = [reader EXCEPT ![c] = n]  BY <2>1, <2>2, <2>3, <1>3
  <2> QED  BY <2>1, <2>3, <2>4, OneReader
<1>10. ASSUME Disconnect(c) PROVE EvInv'
  <2>1. /\ reader' = [reader EXCEPT ![c] =
               [r EXCEPT !.at = "nowhere", !.phase = "off", !.queue = <<>>]]
        /\ UNCHANGED <<runVars, storeVars, pump, wire, jobs>>
    BY <1>10, <1>2 DEF Disconnect, Nowhere
  <2>2. PICK n : n = [r EXCEPT !.at = "nowhere", !.phase = "off", !.queue = <<>>]  OBVIOUS
  <2>3. n \in Client /\ n.got = r.got /\ n.seen = r.seen  BY <2>2, <1>3, Elsewhere
  <2>4. InOrderTo(n.got, n.seen) /\ reader' = [reader EXCEPT ![c] = n]  BY <2>1, <2>2, <2>3, <1>3
  <2> QED  BY <2>1, <2>3, <2>4, OneReader
<1>11. ASSUME NEW p \in Processes, Connect(c, p) PROVE EvInv'
  <2>1. /\ reader' = [reader EXCEPT ![c] = [r EXCEPT !.at = p, !.phase = "list"]]
        /\ UNCHANGED <<runVars, storeVars, pump, wire, jobs>>
    BY <1>11, <1>2 DEF Connect
  <2> DEFINE r1 == [r EXCEPT !.at = p]
             n == [r1 EXCEPT !.phase = "list"]
  <2>2. r1 \in Client /\ r1.got = r.got /\ r1.seen = r.seen  BY <1>3 DEF Client
  <2>3. n = [r EXCEPT !.at = p, !.phase = "list"]  OBVIOUS
  <2> HIDE DEF r1
  <2>4. n \in Client /\ n.got = r.got /\ n.seen = r.seen  BY <2>2 DEF Client
  <2> HIDE DEF n
  <2>5. PICK k : k = n  OBVIOUS
  <2>6. k \in Client /\ InOrderTo(k.got, k.seen) /\ reader' = [reader EXCEPT ![c] = k]
    BY <2>1, <2>3, <2>4, <2>5, <1>3
  <2> QED  BY <2>1, <2>6, OneReader
<1> QED  BY <1>7, <1>8, <1>9, <1>10, <1>11 DEF StreamStep

\* A run starts sound,
LEMMA EvInitial ==
  ASSUME Init
  PROVE  EvInv
<1> USE DEF Init
<1>1. RunInv  BY DEF RunInv, Attempts
<1>2. StoreInv
  <2>1. events = <<>> /\ DOMAIN events = {} /\ events \in Seq(Row) /\ usage = {}  OBVIOUS
  <2>2. \A a : StoredOf(a) = {}  BY <2>1, StoredMembers
  <2>3. NoGaps  BY <2>2 DEF NoGaps
  <2>4. RowsSaid /\ RowsUnsaid /\ UsageSaid /\ RowsOrdered
    BY <2>1 DEF RowsSaid, RowsUnsaid, UsageSaid, RowsOrdered
  <2> QED  BY <2>1, <2>3, <2>4 DEF StoreInv
<1>3. PumpInv
  <2>1. 0 \in 0..MaxTries  BY EventsAssumption
  <2>2. script.says[1] \in Seq(Kinds)  BY ScriptFacts DEF Attempts
  <2>3. Len(script.says[1]) \in Nat  BY <2>2
  <2>4. 0 <= Len(script.says[1]) /\ 1..0 = {} /\ 0 \in Nat  BY <2>3
  <2>5. pump.acked = 0 /\ pump.last = 0
        /\ pump \in [acked : Nat, last : Nat, tries : 0..MaxTries, alive : BOOLEAN]
    BY <2>1, <2>4 DEF NewPump
  <2> QED  BY <2>4, <2>5 DEF PumpInv
<1>4. WireInv /\ JobsInv  BY DEF WireInv, JobsInv
<1>5. TerminalIsLast  BY DEF TerminalIsLast
<1>6. AnswerHasItsText
  <2>1. DOMAIN events = {} /\ message = NoMessage  OBVIOUS
  <2>2. (message # NoMessage) = (\E i \in DOMAIN events : events[i].kind = "answer")  BY <2>1
  <2> QED  BY <2>1, <2>2 DEF AnswerHasItsText
<1>7. ReadInv
  <2> DEFINE r == [at |-> "nowhere", phase |-> "off", seen |-> 0, queue |-> <<>>, got |-> <<>>]
  <2>1. r \in Client  BY DEF Client
  <2>2. InOrderTo(r.got, r.seen)  BY DEF InOrderTo
  <2>3. \A c \in Readers : reader[c] = r  OBVIOUS
  <2>4. reader \in [Readers -> Client]  BY <2>1
  <2> QED  BY <2>2, <2>3, <2>4 DEF ReadInv
<1> QED  BY <1>1, <1>2, <1>3, <1>4, <1>5, <1>6, <1>7 DEF EvInv

\* stays sound when nothing happens,
LEMMA EvStutters ==
  ASSUME EvInv, UNCHANGED vars
  PROVE  EvInv'
<1>1. UNCHANGED <<runVars, storeVars, pump, wire, jobs, reader>>  BY DEF vars, runVars, storeVars
<1>2. JobsInv' /\ ReadInv'  BY <1>1, JobsStay, ReadersStay DEF EvInv
<1> QED  BY <1>1, <1>2, OnlyReaders

\* and by every step.
LEMMA EvSteps ==
  ASSUME EvInv, Next
  PROVE  EvInv'
<1>1. CASE GatewayStep  BY <1>1, GatewayKeeps
<1>2. CASE Requeue \/ ClaimAgain
  <2>1. PICK p : p = 0  OBVIOUS
  <2> QED  BY <1>2, RunKeeps
<1>3. CASE AnswerStep  BY <1>3, PublishKeeps, AnswerKeeps DEF AnswerStep
<1>4. ASSUME NEW p \in Processes, HandlerStep(p) PROVE EvInv'
  BY <1>4, IngestKeeps, RunKeeps, DeathKeeps DEF HandlerStep
<1>5. ASSUME NEW c \in Readers,
             StreamStep(c) \/ Disconnect(c) \/ \E p \in Processes : Connect(c, p)
      PROVE  EvInv'
  BY <1>5, StreamKeeps
<1> QED  BY <1>1, <1>2, <1>3, <1>4, <1>5 DEF Next

(***************************************************************************)
(* The inductive invariant of the events of a run: what is stored of every *)
(* attempt is a beginning of what it said (StoreInv), the pump, the        *)
(* requests and the handlers speak of what is stored, the story of the run *)
(* is whole and readers are in order.                                      *)
(***************************************************************************)
THEOREM EventsInvHolds == Spec => []EvInv
<1>1. Init => EvInv  BY EvInitial
<1>2. EvInv /\ [Next]_vars => EvInv'  BY EvSteps, EvStutters
<1> QED  BY <1>1, <1>2, PTL DEF Spec

(***************************************************************************)
(* What it says of the shapes of the state, of the exactness of the store  *)
(* and of the readers.                                                     *)
(***************************************************************************)
LEMMA EvInvTypes == EvInv => TypeOK
<1> SUFFICES ASSUME EvInv PROVE TypeOK  OBVIOUS
<1>1. RunInv /\ StoreInv /\ PumpInv /\ WireInv /\ ReadInv  BY DEF EvInv
<1>2. \A i \in DOMAIN events : events[i].kind \in {"text", "answer", "artifact", "terminal"}
  <2>1. events \in Seq(Row)  BY <1>1 DEF StoreInv
  <2>2. \A i \in DOMAIN events : events[i] \in Row  BY <2>1
  <2> QED  BY <2>2 DEF Row
<1>3. usage \subseteq [attempt : Attempts, number : Nat \ {0}]  BY <1>1 DEF StoreInv, Record
<1>4. \A q \in wire : q.attempt \in Attempts /\ q.first <= q.last /\ q.try \in 0..MaxTries
  BY <1>1 DEF WireInv, RequestOK
<1>5. \A c \in Readers : reader[c].phase \in {"off", "list", "wait", "done"}
  BY <1>1 DEF ReadInv, Client
<1> QED  BY <1>1, <1>2, <1>3, <1>4, <1>5 DEF RunInv, PumpInv, TypeOK

LEMMA EvInvExact == EvInv => SourceExactlyOnce
<1> SUFFICES ASSUME EvInv, NEW a \in Attempts
             PROVE  /\ \A n \in StoredOf(a) : 1..n \subseteq StoredOf(a)
                    /\ \A i, j \in RowsOf(a) : i < j => events[i].number < events[j].number
                    /\ \A i \in RowsOf(a) : events[i].kind = script.says[a][events[i].number]
                    /\ \A i \in RowsOf(a), u \in usage : Source(events[i]) # u
                    /\ a = attempt => 1..pump.acked \subseteq StoredOf(a)
  BY DEF SourceExactlyOnce
<1>1. StoreInv /\ PumpInv  BY DEF EvInv
<1>2. a \in Nat /\ a # 0 /\ ~ (a < a)  BY DEF Attempts
<1>3. \A n \in StoredOf(a) : 1..n \subseteq StoredOf(a)  BY <1>1 DEF StoreInv, NoGaps
<1>4. \A i \in RowsOf(a) : i \in DOMAIN events /\ events[i].attempt = a  BY DEF RowsOf
<1>5. \A i, j \in RowsOf(a) : i < j => events[i].number < events[j].number
  BY <1>1, <1>2, <1>4 DEF StoreInv, RowsOrdered
<1>6. \A i \in RowsOf(a) : Said(a, events[i].number, events[i].kind)
  BY <1>1, <1>2, <1>4 DEF StoreInv, RowsSaid
<1>7. ASSUME NEW i \in RowsOf(a), NEW u \in usage, Source(events[i]) = u PROVE FALSE
  <2>1. u.attempt = a /\ u.number = events[i].number  BY <1>4, <1>7 DEF Source
  <2>2. Said(a, events[i].number, "usage")  BY <2>1, <1>1 DEF StoreInv, UsageSaid
  <2>3. events[i].kind = "usage"  BY <2>2, <1>6 DEF Said
  <2>4. events[i] \in Row
    <3>1. events \in Seq(Row)  BY <1>1 DEF StoreInv
    <3> QED  BY <3>1, <1>4
  <2> QED  BY <2>3, <2>4 DEF Row
<1>8. a = attempt => 1..pump.acked \subseteq StoredOf(a)  BY <1>1 DEF PumpInv
<1> QED  BY <1>3, <1>5, <1>6, <1>7, <1>8 DEF Said

LEMMA EvInvReaders == EvInv => ReadersInOrder
<1> SUFFICES ASSUME EvInv, NEW c \in Readers, NEW i \in 2..Len(reader[c].got)
             PROVE  reader[c].got[i - 1] < reader[c].got[i]
  BY DEF ReadersInOrder
<1>1. InOrderTo(reader[c].got, reader[c].seen)  BY DEF EvInv, ReadInv
<1>2. reader[c].got \in Seq(Nat)  BY DEF EvInv, ReadInv, Client
<1>3. PICK n : n = Len(reader[c].got)  OBVIOUS
<1>4. n \in Nat /\ i \in 2..n  BY <1>2, <1>3
<1>5. i \in 1..n /\ i - 1 \in 1..n /\ i - 1 < i  BY <1>4
<1> QED  BY <1>1, <1>3, <1>5 DEF InOrderTo

(***************************************************************************)
(* Type correctness, with the pump never past the script of its attempt.   *)
(***************************************************************************)
THEOREM EventsKeepTypes == Spec => []TypeOK
BY EventsInvHolds, EvInvTypes, PTL

(***************************************************************************)
(* ingest_worker_events (service.py), with batches repeated after lost     *)
(* answers, late ones and those of lost attempts: each source event is     *)
(* stored once, over both tables, in order and without holes, and nothing  *)
(* acknowledged is missing.                                                *)
(***************************************************************************)
THEOREM SourceEventsAreExact == Spec => []SourceExactlyOnce
BY EventsInvHolds, EvInvExact, PTL

(***************************************************************************)
(* settle_terminal and _append_gateway_assistant_message: the terminal     *)
(* event is the last of the run, there is one answer, and the message ends *)
(* with every text of the attempt that gave it, once and in order.         *)
(***************************************************************************)
THEOREM StoryStaysWhole == Spec => []StoryIsWhole
<1>1. EvInv => StoryIsWhole  BY DEF EvInv, StoryIsWhole
<1> QED  BY <1>1, EventsInvHolds, PTL

(***************************************************************************)
(* AgentEventStream.stream: however often a client reconnects, and to      *)
(* whichever process, it never gets an event twice or after a later one.   *)
(***************************************************************************)
THEOREM ReadersStayInOrder == Spec => []ReadersInOrder
BY EventsInvHolds, EvInvReaders, PTL
=============================================================================
