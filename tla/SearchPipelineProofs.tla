------------------------ MODULE SearchPipelineProofs ------------------------
(***************************************************************************)
(* Both searches keep the promise of SearchSpec, for every snapshot, every *)
(* request and however the workers of a batch search share its budget.     *)
(***************************************************************************)
EXTENDS SearchPipeline, FiniteSetTheorems, SequenceTheorems, TLAPS

-----------------------------------------------------------------------------
(* Sets put in order. *)

\* The elements of S that the relation puts before x.
Below(S, R, x) == {y \in S : <<y, x>> \in R}

StrictOrder(S, R) ==
  /\ \A x \in S : <<x, x>> \notin R
  /\ \A x, y, z \in S : <<x, y>> \in R /\ <<y, z>> \in R => <<x, z>> \in R
  /\ \A x, y \in S : x # y => <<x, y>> \in R \/ <<y, x>> \in R

\* In a finite ordered set every place is taken by one element.
LEMMA Ranks ==
  ASSUME NEW S, IsFiniteSet(S), NEW R, StrictOrder(S, R)
  PROVE  /\ Cardinality(S) \in Nat
         /\ \A x \in S : Cardinality(Below(S, R, x)) \in 0 .. Cardinality(S) - 1
         /\ \A x, y \in S : <<x, y>> \in R => Cardinality(Below(S, R, x)) < Cardinality(Below(S, R, y))
         /\ \A n \in 1 .. Cardinality(S) : \E x \in S : Cardinality(Below(S, R, x)) = n - 1
<1> DEFINE f == [x \in S |-> Cardinality(Below(S, R, x))]
           T == 0 .. Cardinality(S) - 1
<1>1. Cardinality(S) \in Nat
  BY FS_CardinalityType
<1>2. ASSUME NEW x \in S
      PROVE  IsFiniteSet(Below(S, R, x)) /\ Cardinality(Below(S, R, x)) \in T
  <2>1. Below(S, R, x) \subseteq S \ {x}
    BY DEF Below, StrictOrder
  <2>2. IsFiniteSet(S \ {x}) /\ Cardinality(S \ {x}) = Cardinality(S) - 1
    BY FS_RemoveElement
  <2>3. IsFiniteSet(Below(S, R, x)) /\ Cardinality(Below(S, R, x)) <= Cardinality(S) - 1
    BY <2>1, <2>2, FS_Subset
  <2>4. Cardinality(Below(S, R, x)) \in Nat
    BY <2>3, FS_CardinalityType
  <2> QED BY <1>1, <2>3, <2>4
<1>3. ASSUME NEW x \in S, NEW y \in S, <<x, y>> \in R
      PROVE  Cardinality(Below(S, R, x)) < Cardinality(Below(S, R, y))
  <2>1. Below(S, R, x) \subseteq Below(S, R, y) /\ x \in Below(S, R, y) /\ x \notin Below(S, R, x)
    BY <1>3 DEF Below, StrictOrder
  <2>2. /\ Cardinality(Below(S, R, x)) <= Cardinality(Below(S, R, y))
        /\ Cardinality(Below(S, R, x)) # Cardinality(Below(S, R, y))
    BY <1>2, <2>1, FS_Subset
  <2> QED BY <1>2, <2>2
<1>4. f \in Injection(S, T)
  <2>1. f \in [S -> T]
    BY <1>2
  <2>2. \A x, y \in S : f[x] = f[y] => x = y
    <3> SUFFICES ASSUME NEW x \in S, NEW y \in S, x # y PROVE f[x] # f[y]
      OBVIOUS
    <3>1. f[x] \in Int /\ f[y] \in Int
      BY <1>1, <2>1
    <3>2. f[x] < f[y] \/ f[y] < f[x]
      BY <1>3 DEF StrictOrder
    <3> QED BY <3>1, <3>2
  <2> QED BY <2>1, <2>2 DEF Injection, IsInjective
<1>5. IsFiniteSet(T) /\ Cardinality(T) = Cardinality(S)
  BY <1>1, FS_Interval
<1>6. f \in Surjection(S, T)
  BY <1>4, <1>5, FS_Injection
<1>7. \A n \in 1 .. Cardinality(S) : \E x \in S : Cardinality(Below(S, R, x)) = n - 1
  <2> SUFFICES ASSUME NEW n \in 1 .. Cardinality(S) PROVE \E x \in S : f[x] = n - 1
    OBVIOUS
  <2>1. n - 1 \in T
    BY <1>1
  <2> QED BY <1>6, <2>1 DEF Surjection
<1> QED BY <1>1, <1>2, <1>3, <1>7

\* The elements of S in the order of R.
Listing(S, R) == [n \in 1 .. Cardinality(S) |-> CHOOSE x \in S : Cardinality(Below(S, R, x)) = n - 1]

(* A finite set has a listing in the order R: as long as the set, with every element, and
   increasing. *)
LEMMA Listed ==
  ASSUME NEW S, IsFiniteSet(S), NEW R, StrictOrder(S, R)
  PROVE  /\ Cardinality(S) \in Nat /\ Listing(S, R) \in Seq(S) /\ Len(Listing(S, R)) = Cardinality(S)
         /\ \A x \in S : \E n \in 1 .. Cardinality(S) : Listing(S, R)[n] = x
         /\ \A m, n \in 1 .. Cardinality(S) : m < n => <<Listing(S, R)[m], Listing(S, R)[n]>> \in R
<1> DEFINE c == Cardinality(S)
           rank(x) == Cardinality(Below(S, R, x))
           l == Listing(S, R)
<1>1. /\ c \in Nat
      /\ \A x \in S : rank(x) \in 0 .. c - 1
      /\ \A x, y \in S : <<x, y>> \in R => rank(x) < rank(y)
      /\ \A n \in 1 .. c : \E x \in S : rank(x) = n - 1
  BY Ranks
<1>2. \A n \in 1 .. c : l[n] \in S /\ rank(l[n]) = n - 1
  BY <1>1 DEF Listing
<1>3. l \in Seq(S) /\ Len(l) = c
  <2>1. l \in [1 .. c -> S]
    BY <1>2 DEF Listing
  <2> HIDE DEF l
  <2> QED BY <1>1, <2>1
<1> HIDE DEF rank, l
<1>4. ASSUME NEW x \in S, NEW y \in S, x # y PROVE rank(x) # rank(y)
  <2>1. rank(x) \in Int /\ rank(y) \in Int
    BY <1>1
  <2>2. <<x, y>> \in R \/ <<y, x>> \in R
    BY <1>4 DEF StrictOrder
  <2>3. rank(x) < rank(y) \/ rank(y) < rank(x)
    BY <1>1, <2>2
  <2> QED BY <2>1, <2>3
<1>5. \A x \in S : \E n \in 1 .. c : l[n] = x
  <2> SUFFICES ASSUME NEW x \in S PROVE \E n \in 1 .. c : l[n] = x
    OBVIOUS
  <2>1. rank(x) + 1 \in 1 .. c /\ (rank(x) + 1) - 1 = rank(x)
    BY <1>1
  <2>2. l[rank(x) + 1] = x
    BY <1>2, <1>4, <2>1
  <2> QED BY <2>1, <2>2
<1>6. \A m, n \in 1 .. c : m < n => <<l[m], l[n]>> \in R
  <2> SUFFICES ASSUME NEW m \in 1 .. c, NEW n \in 1 .. c, m < n PROVE <<l[m], l[n]>> \in R
    OBVIOUS
  <2>1. rank(l[m]) < rank(l[n])
    BY <1>2
  <2>2. l[m] # l[n] /\ ~(<<l[n], l[m]>> \in R)
    BY <1>1, <1>2, <2>1
  <2> QED BY <1>2, <2>2 DEF StrictOrder
<1> QED BY <1>1, <1>3, <1>5, <1>6 DEF l

Less(S) == {p \in S \X S : p[1] < p[2]}

\* InOrder lists a set of positions in increasing order.
LEMMA InOrderLists ==
  ASSUME NEW S \in SUBSET Nat, IsFiniteSet(S)
  PROVE  /\ Cardinality(S) \in Nat /\ InOrder(S) \in Seq(S) /\ Len(InOrder(S)) = Cardinality(S)
         /\ \A i \in S : \E n \in 1 .. Cardinality(S) : InOrder(S)[n] = i
         /\ \A m, n \in 1 .. Cardinality(S) : m < n => InOrder(S)[m] < InOrder(S)[n]
         /\ \A i, j \in S : i < j => Before(S, i) < Before(S, j)
         /\ \A i \in S : Before(S, i) \in 0 .. Cardinality(S) - 1
         /\ \A n \in 1 .. Cardinality(S) : \E i \in S : Before(S, i) = n - 1
<1>1. StrictOrder(S, Less(S))
  BY DEF StrictOrder, Less
<1>2. \A i, j \in S : <<i, j>> \in Less(S) <=> i < j
  BY DEF Less
<1>3. \A i \in S : Before(S, i) = Cardinality(Below(S, Less(S), i))
  <2> SUFFICES ASSUME NEW i \in S PROVE {j \in S : j < i} = Below(S, Less(S), i)
    BY DEF Before
  <2> QED BY <1>2 DEF Below
<1>4. InOrder(S) = Listing(S, Less(S))
  <2>1. \A n \in 1 .. Cardinality(S) :
          (CHOOSE i \in S : Before(S, i) = n - 1) = (CHOOSE i \in S : Cardinality(Below(S, Less(S), i)) = n - 1)
    BY <1>3
  <2> QED BY <2>1 DEF InOrder, Listing
<1>5. /\ Cardinality(S) \in Nat /\ InOrder(S) \in Seq(S) /\ Len(InOrder(S)) = Cardinality(S)
      /\ \A i \in S : \E n \in 1 .. Cardinality(S) : InOrder(S)[n] = i
      /\ \A m, n \in 1 .. Cardinality(S) : m < n => <<InOrder(S)[m], InOrder(S)[n]>> \in Less(S)
  BY <1>1, <1>4, Listed
<1>6. \A m, n \in 1 .. Cardinality(S) : m < n => InOrder(S)[m] < InOrder(S)[n]
  <2>1. \A n \in 1 .. Cardinality(S) : InOrder(S)[n] \in S
    BY <1>5
  <2> SUFFICES ASSUME NEW m \in 1 .. Cardinality(S), NEW n \in 1 .. Cardinality(S), m < n
               PROVE  InOrder(S)[m] < InOrder(S)[n]
    OBVIOUS
  <2>2. <<InOrder(S)[m], InOrder(S)[n]>> \in Less(S)
    BY <1>5
  <2> QED BY <1>2, <2>1, <2>2
<1>7. /\ \A i, j \in S : i < j => Before(S, i) < Before(S, j)
      /\ \A i \in S : Before(S, i) \in 0 .. Cardinality(S) - 1
      /\ \A n \in 1 .. Cardinality(S) : \E i \in S : Before(S, i) = n - 1
  <2> DEFINE rank(i) == Cardinality(Below(S, Less(S), i))
  <2>1. /\ \A i \in S : rank(i) \in 0 .. Cardinality(S) - 1
        /\ \A i, j \in S : <<i, j>> \in Less(S) => rank(i) < rank(j)
        /\ \A n \in 1 .. Cardinality(S) : \E i \in S : rank(i) = n - 1
    BY <1>1, Ranks
  <2>2. \A i \in S : Before(S, i) = rank(i)
    BY <1>3
  <2> HIDE DEF rank
  <2> QED BY <1>2, <2>1, <2>2
<1> QED BY <1>5, <1>6, <1>7

Place(S, h) == Cardinality({k \in S : Ahead(k, h)})
Leads(S) == {p \in S \X S : Ahead(p[1], p[2])}

\* Ranked lists matches of different paths without repeating one.
LEMMA RankedLists ==
  ASSUME NEW S, IsFiniteSet(S), \A h \in S : h.path \in Nat /\ h.score \in Int,
         \A h, k \in S : h.path = k.path => h = k
  PROVE  /\ Cardinality(S) \in Nat /\ Ranked(S) \in Seq(S) /\ Len(Ranked(S)) = Cardinality(S)
         /\ \A h \in S : \E n \in 1 .. Cardinality(S) : Ranked(S)[n] = h
         /\ \A m, n \in 1 .. Cardinality(S) : m # n => Ranked(S)[m] # Ranked(S)[n]
<1>2. \A h, k \in S : <<h, k>> \in Leads(S) <=> Ahead(h, k)
  BY DEF Leads
<1>1. StrictOrder(S, Leads(S))
  BY <1>2 DEF StrictOrder, Ahead
<1>3. \A h \in S : Place(S, h) = Cardinality(Below(S, Leads(S), h))
  <2> SUFFICES ASSUME NEW h \in S PROVE {k \in S : Ahead(k, h)} = Below(S, Leads(S), h)
    BY DEF Place
  <2> QED BY <1>2 DEF Below
<1>4. Ranked(S) = Listing(S, Leads(S))
  <2>1. \A n \in 1 .. Cardinality(S) :
          (CHOOSE h \in S : Place(S, h) = n - 1)
            = (CHOOSE h \in S : Cardinality(Below(S, Leads(S), h)) = n - 1)
    BY <1>3
  <2>2. Ranked(S) = [n \in 1 .. Cardinality(S) |-> CHOOSE h \in S : Place(S, h) = n - 1]
    BY DEF Ranked, Place
  <2> QED BY <2>1, <2>2 DEF Listing
<1>5. /\ Cardinality(S) \in Nat /\ Ranked(S) \in Seq(S) /\ Len(Ranked(S)) = Cardinality(S)
      /\ \A h \in S : \E n \in 1 .. Cardinality(S) : Ranked(S)[n] = h
      /\ \A m, n \in 1 .. Cardinality(S) : m < n => <<Ranked(S)[m], Ranked(S)[n]>> \in Leads(S)
  BY <1>1, <1>4, Listed
<1>6. ASSUME NEW m \in 1 .. Cardinality(S), NEW n \in 1 .. Cardinality(S), m < n
      PROVE  Ranked(S)[m] # Ranked(S)[n]
  <2>1. Ranked(S)[m] \in S /\ Ranked(S)[n] \in S
    BY <1>5
  <2>2. <<Ranked(S)[m], Ranked(S)[n]>> \in Leads(S)
    BY <1>5, <1>6
  <2> QED BY <1>1, <2>1, <2>2 DEF StrictOrder
<1>7. ASSUME NEW m \in 1 .. Cardinality(S), NEW n \in 1 .. Cardinality(S), m # n
      PROVE  Ranked(S)[m] # Ranked(S)[n]
  <2>1. m < n \/ n < m
    BY <1>5, <1>7
  <2> QED BY <1>6, <2>1
<1> QED BY <1>5, <1>7

-----------------------------------------------------------------------------
(* What a segment's search keeps. *)

Increasing(f) == \A m, n \in 1 .. Len(f) : m < n => f[m] < f[n]
Holds(f, i)   == \E n \in 1 .. Len(f) : f[n] = i

\* What is still to be looked at and what got through are matches, in order.
Split(f, t, M) ==
  /\ f \in Seq(M) /\ t \in Seq(M) /\ Increasing(f) /\ Increasing(t)
  /\ \A m \in 1 .. Len(t), n \in 1 .. Len(f) : t[m] < f[n]

\* No match is in neither.
Covers(f, t, M) == \A i \in M : Holds(f, i) \/ Holds(t, i)

(* The first match of a list, and what is left behind it. *)
LEMMA HeadOf ==
  ASSUME NEW M \in SUBSET Nat, NEW f \in Seq(M), f # <<>>
  PROVE  /\ Len(f) \in Nat /\ Len(f) >= 1 /\ Head(f) = f[1] /\ Head(f) \in M
         /\ Tail(f) \in Seq(M) /\ Len(Tail(f)) = Len(f) - 1
         /\ \A n \in 1 .. Len(Tail(f)) : Tail(f)[n] = f[n + 1]
         /\ \A i : Holds(f, i) => i = Head(f) \/ Holds(Tail(f), i)
<1>1. /\ Len(f) \in Nat /\ Len(f) >= 1 /\ Head(f) = f[1] /\ Head(f) \in M
      /\ Tail(f) \in Seq(M) /\ Len(Tail(f)) = Len(f) - 1
      /\ \A n \in 1 .. Len(Tail(f)) : Tail(f)[n] = f[n + 1]
  OBVIOUS
<1>2. ASSUME NEW i, Holds(f, i), i # Head(f) PROVE Holds(Tail(f), i)
  <2>1. PICK n \in 1 .. Len(f) : f[n] = i
    BY <1>2 DEF Holds
  <2>2. n # 1
    BY <1>1, <1>2, <2>1
  <2>3. n - 1 \in 1 .. Len(Tail(f)) /\ (n - 1) + 1 = n
    BY <1>1, <2>2
  <2>4. Tail(f)[n - 1] = i
    BY <1>1, <2>1, <2>3
  <2> QED BY <2>3, <2>4 DEF Holds
<1> QED BY <1>1, <1>2

\* A match is taken up: it gets through or is dropped.
LEMMA TakeUp ==
  ASSUME NEW M \in SUBSET Nat, NEW f, NEW t, Split(f, t, M), f # <<>>
  PROVE  /\ Split(Tail(f), t, M)
         /\ Split(Tail(f), Append(t, Head(f)), M)
         /\ Len(Append(t, Head(f))) = Len(t) + 1 /\ Append(t, Head(f))[Len(t) + 1] = Head(f)
         /\ \A n \in 1 .. Len(t) : Append(t, Head(f))[n] = t[n]
         /\ Covers(f, t, M) => Covers(Tail(f), Append(t, Head(f)), M)
<1> DEFINE g == Tail(f)
           u == Append(t, Head(f))
<1>0. f \in Seq(M) /\ t \in Seq(M)
  BY DEF Split
<1>1. /\ Len(f) \in Nat /\ Len(f) >= 1 /\ Head(f) = f[1] /\ Head(f) \in M
      /\ g \in Seq(M) /\ Len(g) = Len(f) - 1
      /\ \A n \in 1 .. Len(g) : g[n] = f[n + 1]
      /\ \A i : Holds(f, i) => i = Head(f) \/ Holds(g, i)
  BY <1>0, HeadOf
<1>2. /\ u \in Seq(M) /\ Len(t) \in Nat /\ Len(u) = Len(t) + 1 /\ u[Len(t) + 1] = Head(f)
      /\ \A n \in 1 .. Len(t) : u[n] = t[n]
  BY <1>0, <1>1
<1> HIDE DEF g, u
<1>4. Increasing(g)
  <2> SUFFICES ASSUME NEW m \in 1 .. Len(g), NEW n \in 1 .. Len(g), m < n PROVE g[m] < g[n]
    BY DEF Increasing
  <2>1. m + 1 \in 1 .. Len(f) /\ n + 1 \in 1 .. Len(f) /\ m + 1 < n + 1
    BY <1>1
  <2>2. f[m + 1] < f[n + 1]
    BY <2>1 DEF Split, Increasing
  <2> QED BY <1>1, <2>2
<1>5. \A n \in 1 .. Len(g) : f[1] < g[n]
  <2> SUFFICES ASSUME NEW n \in 1 .. Len(g) PROVE f[1] < f[n + 1]
    BY <1>1
  <2>1. n + 1 \in 1 .. Len(f) /\ 1 \in 1 .. Len(f) /\ 1 < n + 1
    BY <1>1
  <2> QED BY <2>1 DEF Split, Increasing
<1>6. \A m \in 1 .. Len(t), n \in 1 .. Len(g) : t[m] < g[n]
  <2> SUFFICES ASSUME NEW m \in 1 .. Len(t), NEW n \in 1 .. Len(g) PROVE t[m] < f[n + 1]
    BY <1>1
  <2>1. n + 1 \in 1 .. Len(f)
    BY <1>1
  <2> QED BY <2>1 DEF Split
<1>7. Split(g, t, M)
  BY <1>0, <1>1, <1>4, <1>6 DEF Split
<1>8. Increasing(u)
  <2> SUFFICES ASSUME NEW m \in 1 .. Len(u), NEW n \in 1 .. Len(u), m < n PROVE u[m] < u[n]
    BY DEF Increasing
  <2>1. m \in 1 .. Len(t)
    BY <1>2
  <2>2. CASE n = Len(t) + 1
    <3>1. 1 \in 1 .. Len(f)
      BY <1>1
    <3>2. t[m] < f[1]
      BY <2>1, <3>1 DEF Split
    <3> QED BY <1>1, <1>2, <2>1, <2>2, <3>2
  <2>3. CASE n # Len(t) + 1
    <3>1. n \in 1 .. Len(t)
      BY <1>2, <2>3
    <3>2. t[m] < t[n]
      BY <2>1, <3>1 DEF Split, Increasing
    <3> QED BY <1>2, <2>1, <3>1, <3>2
  <2> QED BY <2>2, <2>3
<1>9. Split(g, u, M)
  <2>1. ASSUME NEW m \in 1 .. Len(u), NEW n \in 1 .. Len(g) PROVE u[m] < g[n]
    <3>1. m \in 1 .. Len(t) \/ m = Len(t) + 1
      BY <1>2
    <3> QED BY <1>1, <1>2, <1>5, <1>6, <3>1
  <2> QED BY <1>1, <1>2, <1>4, <1>8, <2>1 DEF Split
<1>10. ASSUME Covers(f, t, M) PROVE Covers(g, u, M)
  <2> SUFFICES ASSUME NEW i \in M PROVE Holds(g, i) \/ Holds(u, i)
    BY DEF Covers
  <2>1. CASE Holds(f, i)
    <3>1. CASE i = Head(f)
      <4>1. Len(t) + 1 \in 1 .. Len(u)
        BY <1>2
      <4> QED BY <1>2, <3>1, <4>1 DEF Holds
    <3> QED BY <1>1, <2>1, <3>1
  <2>2. CASE Holds(t, i)
    <3>1. \A n \in 1 .. Len(t) : n \in 1 .. Len(u)
      BY <1>2
    <3> QED BY <1>2, <2>2, <3>1 DEF Holds
  <2> QED BY <1>10, <2>1, <2>2 DEF Covers
<1> QED BY <1>2, <1>7, <1>9, <1>10 DEF g, u

\* What a search of a segment keeps, listed.
LEMMA ListKept ==
  ASSUME NEW M \in SUBSET Nat, IsFiniteSet(M), NEW r \in SUBSET M
  PROVE  /\ Split(InOrder(r), <<>>, M) /\ Len(InOrder(r)) = Cardinality(r)
         /\ \A i \in r : Holds(InOrder(r), i)
<1>1. IsFiniteSet(r) /\ r \in SUBSET Nat
  BY FS_Subset
<1>2. /\ Cardinality(r) \in Nat /\ InOrder(r) \in Seq(r) /\ Len(InOrder(r)) = Cardinality(r)
      /\ \A i \in r : \E n \in 1 .. Cardinality(r) : InOrder(r)[n] = i
      /\ \A m, n \in 1 .. Cardinality(r) : m < n => InOrder(r)[m] < InOrder(r)[n]
  BY <1>1, InOrderLists
<1>3. InOrder(r) \in Seq(M)
  <2>1. \A n \in 1 .. Cardinality(r) : InOrder(r)[n] \in r
    BY <1>2
  <2>2. InOrder(r) \in [1 .. Cardinality(r) -> M]
    BY <2>1 DEF InOrder
  <2> QED BY <1>2, <2>2
<1>4. <<>> \in Seq(M) /\ Len(<<>>) = 0
  OBVIOUS
<1> QED BY <1>2, <1>3, <1>4 DEF Split, Increasing, Holds

-----------------------------------------------------------------------------
(* The invariant. *)

Stages == {"idle", "search", "tag", "done", "failed"}

TypeInv ==
  /\ index \in Indexes /\ request \in Requests
  /\ worker \in [Segs -> Stages]
  /\ found \in [Segs -> Seq(Nat)] /\ tagged \in [Segs -> Seq(Nat)]
  /\ \A s \in Segs : Split(found[s], tagged[s], AllMatches(s))
  /\ budget \in Nat /\ seg \in 0 .. Len(index) /\ search \in {"running", "ok", "error"}

\* A worker that is through with its segment has passed on every match of it, or the budget is
\* used up; while it goes through them, what is left of the budget is no more than it will use.
Accounted(s) ==
  /\ worker[s] \in {"idle", "search"} => found[s] = <<>> /\ tagged[s] = <<>>
  /\ worker[s] = "done" => found[s] = <<>>
  /\ worker[s] \in {"tag", "done"} =>
       budget <= Len(found[s]) \/ Covers(found[s], tagged[s], AllMatches(s))

BatchInv ==
  Batch => /\ search # "ok" => merged = <<>>
           /\ \A s \in Segs : Accounted(s)
           /\ IsFiniteSet(Tagged) /\ Cardinality(Tagged) + budget = Limit

Cap == IF Batch THEN Limit ELSE Max(1, Limit)

\* The paths of a segment have been sent.
Passed(s) == \A i \in AllMatches(s) : index[s].files[i].path \in SentPaths

StreamInv ==
  Stream =>
    /\ \A s \in Segs : tagged[s] = <<>>
    /\ sent \subseteq Hits /\ IsFiniteSet(sent) /\ Cardinality(sent) <= Cap
    /\ \A h, k \in sent : h.path = k.path => h = k
    /\ search = "running" =>
         /\ Cardinality(sent) < Cap
         /\ \A s \in Segs : (s > seg => Passed(s)) /\ (s < seg => worker[s] = "idle")
         /\ seg > 0 /\ worker[seg] = "tag" =>
              \A i \in AllMatches(seg) : Holds(found[seg], i) \/ index[seg].files[i].path \in SentPaths

Inv == TypeInv /\ BatchInv /\ StreamInv

-----------------------------------------------------------------------------
(* Facts about the state. *)

(* What types say of the snapshot and the request: finitely many matches per segment, each
   a candidate file. *)
LEMMA Snapshot ==
  ASSUME TypeInv
  PROVE  /\ Len(index) \in Nat /\ request \in Request /\ Limit \in Nat /\ Cap \in Nat
         /\ PerPage \in Nat /\ Page \in Nat \ {0}
         /\ (Batch <=> ~Stream) /\ (request.mode = "batch" \/ request.mode = "stream")
         /\ \A s \in Segs :
              /\ s \in Nat /\ AllMatches(s) \in SUBSET Nat /\ IsFiniteSet(AllMatches(s))
              /\ \A i \in AllMatches(s) : index[s].files[i] \in Candidate
<1>1. index \in Seq(Segment) /\ request \in Request
  BY PipelineAssumption DEF TypeInv
<1>2. /\ request.mode \in {"batch", "stream"} /\ request.limit \in Nat /\ request.page \in Nat
      /\ request.perPage \in Nat
  BY <1>1 DEF Request
<1>3. PerPage \in Nat /\ Page \in Nat \ {0}
  BY <1>2, PipelineAssumption DEF PerPage, Page, Min, Max
<1>4. Page * PerPage \in Nat
  BY <1>3
<1>5. Limit \in Nat /\ Cap \in Nat
  BY <1>2, <1>4 DEF Limit, Cap, Max
<1>6. Len(index) \in Nat /\ \A s \in Segs : s \in Nat /\ index[s] \in Segment
  BY <1>1 DEF Segs
<1>7. ASSUME NEW s \in Segs
      PROVE  /\ AllMatches(s) \in SUBSET Nat /\ IsFiniteSet(AllMatches(s))
             /\ \A i \in AllMatches(s) : index[s].files[i] \in Candidate
  <2>1. index[s].files \in Seq(Candidate)
    BY <1>6 DEF Segment
  <2>2. /\ Len(index[s].files) \in Nat
        /\ \A i \in 1 .. Len(index[s].files) : index[s].files[i] \in Candidate
    BY <2>1
  <2>3. AllMatches(s) \subseteq 1 .. Len(index[s].files) /\ IsFiniteSet(1 .. Len(index[s].files))
    BY <2>2, FS_Interval DEF AllMatches
  <2> QED BY <2>2, <2>3, FS_Subset
<1> QED BY <1>1, <1>2, <1>3, <1>5, <1>6, <1>7 DEF Batch, Stream

\* A step of the search does not change what it is about.
LEMMA Fixed ==
  ASSUME UNCHANGED <<index, request>>
  PROVE  /\ Hits' = Hits /\ Limit' = Limit /\ Cap' = Cap /\ Batch' = Batch /\ Stream' = Stream
         /\ Unambiguous' = Unambiguous /\ Segs' = Segs /\ PerPage' = PerPage /\ Page' = Page
         /\ \A s : AllMatches(s)' = AllMatches(s)
<1>1. \A s : AllMatches(s)' = AllMatches(s)
  BY DEF AllMatches
<1>2. Batch' = Batch /\ Stream' = Stream /\ Segs' = Segs /\ PerPage' = PerPage /\ Page' = Page
  BY DEF Batch, Stream, Segs, PerPage, Page
<1>3. Limit' = Limit
  BY <1>2 DEF Limit
<1> QED BY <1>1, <1>2, <1>3 DEF Cap, Hits, Unambiguous

\* A limited search of a segment keeps every match, or as many as it may.
LEMMA KeepsEnough ==
  ASSUME TypeInv, NEW s \in Segs, NEW limit \in Nat, NEW r \in SegmentResults(s, limit)
  PROVE  /\ r \in SUBSET AllMatches(s) /\ IsFiniteSet(r) /\ Cardinality(r) \in Nat
         /\ r = AllMatches(s) \/ limit <= Cardinality(r)
<1> DEFINE all == AllMatches(s)
<1>1. all \in SUBSET Nat /\ IsFiniteSet(all)
  BY Snapshot
<1> HIDE DEF all
<1>2. Cardinality(all) \in Nat
  BY <1>1, FS_CardinalityType
<1>3. CASE Parallel(s)
  <2>1. r \in SUBSET all /\ Cardinality(r) = Min(limit, Cardinality(all))
    BY <1>3 DEF SegmentResults, all
  <2>2. IsFiniteSet(r)
    BY <1>1, <2>1, FS_Subset
  <2>3. CASE limit < Cardinality(all)
    BY <1>2, <2>1, <2>2, <2>3 DEF Min, all
  <2>4. CASE ~(limit < Cardinality(all))
    <3>1. Cardinality(r) = Cardinality(all)
      BY <2>1, <2>4 DEF Min
    <3>2. r = all
      BY <1>1, <2>1, <3>1, FS_Subset
    <3> QED BY <1>2, <2>2, <3>2 DEF all
  <2> QED BY <2>3, <2>4
<1>4. CASE ~Parallel(s)
  <2> DEFINE a == Allowance(limit)
  <2>1. r = {i \in all : Before(all, i) < a}
    BY <1>4 DEF SegmentResults, all
  <2>2. a \in Nat /\ limit <= a
    BY DEF Allowance, Max
  <2> HIDE DEF a
  <2>3. r \in SUBSET all
    BY <2>1
  <2>4. IsFiniteSet(r) /\ Cardinality(r) \in Nat
    BY <1>1, <2>3, FS_Subset, FS_CardinalityType
  <2>5. ASSUME r # all PROVE a <= Cardinality(r)
    <3>1. /\ \A i \in all : Before(all, i) \in 0 .. Cardinality(all) - 1
          /\ \A n \in 1 .. Cardinality(all) : \E i \in all : Before(all, i) = n - 1
      BY <1>1, InOrderLists
    <3>2. PICK i \in all : ~(Before(all, i) < a)
      BY <2>1, <2>5
    <3>3. a <= Cardinality(all) - 1
      BY <1>2, <2>2, <3>1, <3>2
    <3>4. \A n \in 1 .. a : \E j \in r : Before(all, j) = n - 1
      <4> SUFFICES ASSUME NEW n \in 1 .. a PROVE \E j \in r : Before(all, j) = n - 1
        OBVIOUS
      <4>1. n \in 1 .. Cardinality(all) /\ n - 1 < a
        BY <1>2, <2>2, <3>3
      <4> QED BY <2>1, <3>1, <4>1
    <3> DEFINE g == [n \in 1 .. a |-> CHOOSE j \in r : Before(all, j) = n - 1]
    <3>5. \A n \in 1 .. a : g[n] \in r /\ Before(all, g[n]) = n - 1
      BY <3>4
    <3>6. g \in [1 .. a -> r]
      BY <3>5
    <3> HIDE DEF g
    <3>7. \A m, n \in 1 .. a : g[m] = g[n] => m = n
      BY <2>2, <3>5
    <3>8. g \in Injection(1 .. a, r)
      BY <3>6, <3>7 DEF Injection, IsInjective
    <3>9. Cardinality(1 .. a) <= Cardinality(r)
      BY <2>4, <3>8, FS_Injection
    <3>10. Cardinality(1 .. a) = a
      BY <2>2, FS_Interval
    <3> QED BY <3>9, <3>10
  <2> QED BY <2>2, <2>3, <2>4, <2>5 DEF all
<1> QED BY <1>3, <1>4

-----------------------------------------------------------------------------
(* Steps of the promise. *)

\* The promise counts as the search does.
LEMMA SameCount == \A S : Promise!Cardinality(S) = Cardinality(S)
  BY DEF Promise!Cardinality, Cardinality

(* A step that leaves the answer and the state of the search alone is a stutter of
   SearchSpec. *)
LEMMA StutterStep ==
  ASSUME UNCHANGED <<index, request, search>>, Answer' = Answer
  PROVE  UNCHANGED Promise!specVars
  BY Fixed DEF Promise!specVars, Cap

\* Reporting more matches, or none, and ending or not.
LEMMA ReportStep ==
  ASSUME UNCHANGED <<index, request>>, search = "running", NEW new \in SUBSET Hits,
         search' \in {"running", "ok", "error"}, Answer' = Answer \cup new,
         \A h, k \in Answer' : h.path = k.path => h = k, Cardinality(Answer') <= Cap,
         Stream \/ Unambiguous =>
           /\ \A h \in new : \A k \in Hits : k.path = h.path => k.seg <= h.seg
           /\ search' = "ok" => \/ Cardinality(Answer') = Cap
                                \/ \A h \in Hits : \E k \in Answer' : k.path = h.path
  PROVE  Promise!SpecNext
<1>1. /\ Hits' = Hits /\ Limit' = Limit /\ Cap' = Cap /\ Batch' = Batch /\ Stream' = Stream
      /\ Unambiguous' = Unambiguous
  BY Fixed
<1>2. UNCHANGED <<Hits, IF Batch THEN Limit ELSE Max(1, Limit), Stream \/ Unambiguous>>
  BY <1>1
<1>3. (Stream \/ Unambiguous) => \A h \in new : Promise!Newest(h)
  BY DEF Promise!Newest
<1>4. search' = "ok" /\ (Stream \/ Unambiguous) => Promise!Complete(Answer')
  BY SameCount DEF Promise!Complete, Cap
<1>5. Cardinality(Answer') <= (IF Batch THEN Limit ELSE Max(1, Limit))
  BY DEF Cap
<1>6. Promise!Report(new, search')
  BY <1>2, <1>3, <1>4, <1>5, SameCount DEF Promise!Report
<1> QED BY <1>6 DEF Promise!SpecNext

-----------------------------------------------------------------------------
(* The invariant holds initially and under the steps of a batch search. *)

Step == Inv' /\ [Promise!SpecNext]_(Promise!specVars)

(* Nothing found and nothing tagged split any set of matches. *)
LEMMA EmptySplit == \A M : Split(<<>>, <<>>, M)
<1>1. \A M : <<>> \in Seq(M)
  OBVIOUS
<1>2. Len(<<>>) = 0
  OBVIOUS
<1> QED BY <1>1, <1>2 DEF Split, Increasing

(* The invariant holds at the start, which maps to a start of SearchSpec. *)
LEMMA InitHolds ==
  ASSUME Init
  PROVE  Inv /\ Promise!SpecInit
<1>1. index \in Indexes /\ request \in Requests /\ index \in Seq(Segment) /\ Len(index) \in Nat
  BY PipelineAssumption DEF Init
<1>2. /\ worker \in [Segs -> Stages] /\ found \in [Segs -> Seq(Nat)] /\ tagged \in [Segs -> Seq(Nat)]
      /\ \A s \in Segs : worker[s] = "idle" /\ found[s] = <<>> /\ tagged[s] = <<>>
  <2>1. <<>> \in Seq(Nat)
    OBVIOUS
  <2> QED BY <2>1 DEF Init, Stages
<1>3. PerPage \in Nat /\ Page \in Nat \ {0} /\ request.limit \in Nat
  BY <1>1, PipelineAssumption DEF PerPage, Page, Min, Max, Request
<1>4. Page * PerPage \in Nat
  BY <1>3
<1>5. budget = Limit /\ Limit \in Nat
  BY <1>3, <1>4 DEF Init, Limit
<1>6. seg = Len(index) /\ seg \in 0 .. Len(index) /\ search = "running" /\ merged = <<>> /\ sent = {}
  BY <1>1 DEF Init
<1>7. TypeInv
  BY <1>1, <1>2, <1>5, <1>6, EmptySplit DEF TypeInv
<1>8. IsFiniteSet({}) /\ Cardinality({}) = 0
  BY FS_EmptySet
<1>9. BatchInv
  <2>1. Tagged = {}
    <3>1. \A s \in Segs : Len(tagged[s]) = 0
      BY <1>2
    <3>2. \A s \in Segs : {TaggedAs(s, n) : n \in 1 .. Len(tagged[s])} = {}
      BY <3>1
    <3> QED BY <3>2 DEF Tagged
  <2>2. \A s \in Segs : Accounted(s)
    BY <1>2 DEF Accounted
  <2>3. IsFiniteSet(Tagged) /\ Cardinality(Tagged) + budget = Limit
    BY <1>5, <1>8, <2>1
  <2> QED BY <1>6, <2>2, <2>3 DEF BatchInv
<1>10. StreamInv
  <2> SUFFICES ASSUME Stream PROVE StreamInv
    BY DEF StreamInv
  <2>1. Cap \in Nat /\ 0 < Cap
    BY <1>5, <1>7, Snapshot DEF Cap, Max
  <2>2. \A s \in Segs : ~(s > seg)
    BY <1>1, <1>6 DEF Segs
  <2>3. ~(seg > 0 /\ worker[seg] = "tag")
    BY <1>1, <1>2, <1>6 DEF Segs
  <2> QED BY <1>2, <1>6, <1>8, <2>1, <2>2, <2>3 DEF StreamInv
<1>11. Answer = {}
  <2>1. Len(merged) = 0
    BY <1>6
  <2> QED BY <1>6, <2>1 DEF Answer
<1> QED BY <1>6, <1>7, <1>9, <1>10, <1>11 DEF Inv, Promise!SpecInit

\* What holds after any step that leaves the snapshot, the request and the answer alone.
LEMMA BatchQuiet ==
  ASSUME Inv, Batch, UNCHANGED <<index, request, search, merged>>, TypeInv',
         \A s \in Segs : Accounted(s)', IsFiniteSet(Tagged)', Cardinality(Tagged)' + budget' = Limit
  PROVE  Step
<1>1. /\ Limit' = Limit /\ Batch' = Batch /\ Stream' = Stream /\ Segs' = Segs
  BY Fixed
<1>2. ~Stream'
  BY <1>1, Snapshot DEF Inv
<1>3. BatchInv'
  BY <1>1 DEF Inv, BatchInv
<1>4. Answer' = Answer
  BY <1>1 DEF Answer
<1>5. UNCHANGED Promise!specVars
  BY <1>4, StutterStep
<1> QED BY <1>2, <1>3, <1>5 DEF Step, Inv, StreamInv

(* What was tagged only changes with the tagged lists. *)
LEMMA TaggedKept ==
  ASSUME UNCHANGED <<index, request, tagged>>
  PROVE  Tagged' = Tagged
<1>1. Segs' = Segs
  BY Fixed
<1>2. \A s, n : TaggedAs(s, n)' = TaggedAs(s, n)
  BY DEF TaggedAs, Score, FilenameMatchScore
<1> QED BY <1>1, <1>2 DEF Tagged

(* A worker that looks at the budget keeps the invariant; one that finds it used up
   reports nothing. *)
LEMMA StartSegmentStep ==
  ASSUME Inv, NEW s \in Segs, StartSegment(s)
  PROVE  Step
<1>0. UNCHANGED <<index, request, search, merged, found, tagged, budget, seg>> /\ Batch
  BY DEF StartSegment, streamVars
<1>1. /\ Segs' = Segs /\ \A t : AllMatches(t)' = AllMatches(t)
  BY <1>0, Fixed
<1>2. /\ worker' \in [Segs -> Stages] /\ \A t \in Segs \ {s} : worker'[t] = worker[t]
      /\ worker'[s] \in {"done", "search", "failed"} /\ (worker'[s] = "done" => budget = 0)
  BY DEF Inv, TypeInv, StartSegment, Stages
<1>3. TypeInv'
  BY <1>0, <1>1, <1>2 DEF Inv, TypeInv
<1>4. ASSUME NEW t \in Segs PROVE Accounted(t)'
  <2>1. Accounted(t)
    BY <1>0 DEF Inv, BatchInv
  <2>2. CASE t # s
    BY <1>0, <1>1, <1>2, <2>1, <2>2 DEF Accounted
  <2>3. CASE t = s
    <3>1. found[s] = <<>> /\ tagged[s] = <<>> /\ Len(found[s]) = 0
      BY <2>1, <2>3 DEF Accounted, StartSegment
    <3> QED BY <1>0, <1>1, <1>2, <2>3, <3>1 DEF Accounted, Inv, TypeInv
  <2> QED BY <2>2, <2>3
<1>5. Tagged' = Tagged
  BY <1>0, TaggedKept
<1> QED BY <1>0, <1>3, <1>4, <1>5, BatchQuiet DEF Inv, BatchInv

(* A worker that searches its segment under the budget it saw keeps the invariant. *)
LEMMA SearchSegmentStep ==
  ASSUME Inv, NEW s \in Segs, SearchSegment(s)
  PROVE  Step
<1>0. UNCHANGED <<index, request, search, merged, tagged, budget, seg>> /\ Batch
  BY DEF SearchSegment, streamVars
<1>1. /\ Segs' = Segs /\ \A t : AllMatches(t)' = AllMatches(t)
  BY <1>0, Fixed
<1>2. found[s] = <<>> /\ tagged[s] = <<>> /\ worker[s] = "search"
  BY <1>0 DEF Inv, BatchInv, Accounted, SearchSegment
<1>3. AllMatches(s) \in SUBSET Nat /\ IsFiniteSet(AllMatches(s)) /\ budget \in Nat
  BY Snapshot DEF Inv, TypeInv
<1>4. /\ worker' \in [Segs -> Stages] /\ found' \in [Segs -> Seq(Nat)]
      /\ \A t \in Segs \ {s} : worker'[t] = worker[t] /\ found'[t] = found[t]
      /\ Split(found'[s], <<>>, AllMatches(s))
      /\ \/ worker'[s] = "failed"
         \/ worker'[s] = "tag" /\ (budget <= Len(found'[s]) \/ Covers(found'[s], <<>>, AllMatches(s)))
  <2>1. CASE SegmentFails(s, budget)
    <3>1. worker' = [worker EXCEPT ![s] = "failed"] /\ found' = found
      BY <2>1 DEF SearchSegment
    <3> QED BY <1>2, <3>1, EmptySplit DEF Inv, TypeInv, Stages
  <2>2. CASE ~SegmentFails(s, budget)
    <3>1. PICK r \in SegmentResults(s, budget) : found' = [found EXCEPT ![s] = InOrder(r)]
      BY <2>2 DEF SearchSegment
    <3>2. worker' = [worker EXCEPT ![s] = "tag"]
      BY <2>2 DEF SearchSegment
    <3>3. /\ r \in SUBSET AllMatches(s) /\ Cardinality(r) \in Nat
          /\ r = AllMatches(s) \/ budget <= Cardinality(r)
      BY <1>3, KeepsEnough DEF Inv
    <3>4. /\ Split(InOrder(r), <<>>, AllMatches(s)) /\ Len(InOrder(r)) = Cardinality(r)
          /\ \A i \in r : Holds(InOrder(r), i)
      BY <1>3, <3>3, ListKept
    <3>5. InOrder(r) \in Seq(Nat)
      BY <1>3, <3>4 DEF Split
    <3>6. found'[s] = InOrder(r) /\ found' \in [Segs -> Seq(Nat)]
      BY <3>1, <3>5 DEF Inv, TypeInv
    <3>7. budget <= Len(found'[s]) \/ Covers(found'[s], <<>>, AllMatches(s))
      BY <3>3, <3>4, <3>6 DEF Covers
    <3> QED BY <3>1, <3>2, <3>4, <3>6, <3>7 DEF Inv, TypeInv, Stages
  <2> QED BY <2>1, <2>2
<1>5. TypeInv'
  BY <1>0, <1>1, <1>2, <1>4 DEF Inv, TypeInv
<1>6. ASSUME NEW t \in Segs PROVE Accounted(t)'
  <2>1. Accounted(t)
    BY <1>0 DEF Inv, BatchInv
  <2>2. CASE t # s
    BY <1>0, <1>1, <1>4, <2>1, <2>2 DEF Accounted
  <2>3. CASE t = s
    BY <1>0, <1>1, <1>2, <1>4, <2>3 DEF Accounted
  <2> QED BY <2>2, <2>3
<1>7. Tagged' = Tagged
  BY <1>0, TaggedKept
<1> QED BY <1>0, <1>5, <1>6, <1>7, BatchQuiet DEF Inv, BatchInv

(* A worker that ends has tagged all it found or met an empty budget. *)
LEMMA EndSegmentStep ==
  ASSUME Inv, NEW s \in Segs, EndSegment(s)
  PROVE  Step
<1>0. UNCHANGED <<index, request, search, merged, found, tagged, budget, seg>> /\ Batch
  BY DEF EndSegment, streamVars
<1>1. /\ Segs' = Segs /\ \A t : AllMatches(t)' = AllMatches(t)
  BY <1>0, Fixed
<1>2. /\ worker' \in [Segs -> Stages] /\ \A t \in Segs \ {s} : worker'[t] = worker[t]
      /\ worker'[s] = "done" /\ worker[s] = "tag" /\ found[s] = <<>>
  BY DEF Inv, TypeInv, EndSegment, Stages
<1>3. TypeInv'
  BY <1>0, <1>1, <1>2 DEF Inv, TypeInv
<1>4. ASSUME NEW t \in Segs PROVE Accounted(t)'
  <2>1. Accounted(t)
    BY <1>0 DEF Inv, BatchInv
  <2>2. CASE t # s
    BY <1>0, <1>1, <1>2, <2>1, <2>2 DEF Accounted
  <2>3. CASE t = s
    BY <1>0, <1>1, <1>2, <2>1, <2>3 DEF Accounted
  <2> QED BY <2>2, <2>3
<1>5. Tagged' = Tagged
  BY <1>0, TaggedKept
<1> QED BY <1>0, <1>3, <1>4, <1>5, BatchQuiet DEF Inv, BatchInv

\* One more match of s has got through.
LEMMA TaggedGrows ==
  ASSUME TypeInv, NEW s \in Segs, NEW i \in Nat, UNCHANGED <<index, request>>,
         tagged' = [tagged EXCEPT ![s] = Append(@, i)], IsFiniteSet(Tagged)
  PROVE  IsFiniteSet(Tagged)' /\ Cardinality(Tagged)' = Cardinality(Tagged) + 1
<1>1. Segs' = Segs
  BY Fixed
<1>0. /\ tagged \in [Segs -> Seq(Nat)] /\ tagged[s] \in Seq(Nat) /\ Len(tagged[s]) \in Nat
  BY DEF TypeInv
<1>a. PICK m \in Nat : m = Len(tagged[s]) + 1
  BY <1>0
<1> DEFINE new == TaggedAs(s, m)'
<1>2. /\ tagged \in [Segs -> Seq(Nat)] /\ tagged[s] \in Seq(Nat) /\ Len(tagged[s]) \in Nat
      /\ m = Len(tagged[s]) + 1
  BY <1>0, <1>a
<1>3. /\ \A t \in Segs \ {s} : tagged'[t] = tagged[t] /\ Len(tagged'[t]) = Len(tagged[t])
      /\ Len(tagged'[s]) = m /\ \A n \in 1 .. Len(tagged[s]) : tagged'[s][n] = tagged[s][n]
  BY <1>2
<1>4. ASSUME NEW t \in Segs, NEW n \in 1 .. Len(tagged[t])
      PROVE  TaggedAs(t, n)' = TaggedAs(t, n)
  <2>1. tagged'[t][n] = tagged[t][n]
    BY <1>3
  <2> QED BY <2>1 DEF TaggedAs, Score, FilenameMatchScore
<1>5. new \notin Tagged
  <2> SUFFICES ASSUME NEW t \in Segs, NEW n \in 1 .. Len(tagged[t]), new = TaggedAs(t, n) PROVE FALSE
    BY DEF Tagged
  <2>1. new.seg = s /\ new.at = m /\ TaggedAs(t, n).seg = t /\ TaggedAs(t, n).at = n
    BY DEF TaggedAs
  <2>2. t = s /\ n = m
    BY <2>1
  <2> QED BY <1>2, <2>2
<1> HIDE DEF new
<1>6. Tagged' = Tagged \cup {new}
  <2>1. ASSUME NEW h \in Tagged' PROVE h \in Tagged \cup {new}
    <3>0. PICK t \in Segs : \E n \in 1 .. Len(tagged'[t]) : h = TaggedAs(t, n)'
      BY <1>1 DEF Tagged
    <3>1. PICK n \in 1 .. Len(tagged'[t]) : h = TaggedAs(t, n)'
      BY <3>0
    <3>2. CASE t = s /\ n = m
      BY <3>1, <3>2 DEF new
    <3>3. CASE ~(t = s /\ n = m)
      <4>1. n \in 1 .. Len(tagged[t])
        BY <1>2, <1>3, <3>1, <3>3
      <4> QED BY <1>4, <3>1, <4>1 DEF Tagged
    <3> QED BY <3>2, <3>3
  <2>2. ASSUME NEW h \in Tagged PROVE h \in Tagged'
    <3>0. PICK t \in Segs : \E n \in 1 .. Len(tagged[t]) : h = TaggedAs(t, n)
      BY DEF Tagged
    <3>1. PICK n \in 1 .. Len(tagged[t]) : h = TaggedAs(t, n)
      BY <3>0
    <3>2. h = TaggedAs(t, n)'
      BY <1>4, <3>1
    <3>3. n \in 1 .. Len(tagged'[t])
      BY <1>2, <1>3, <3>1
    <3> QED BY <1>1, <3>2, <3>3 DEF Tagged
  <2>3. new \in Tagged'
    <3>1. m \in 1 .. Len(tagged'[s])
      BY <1>2, <1>3
    <3> QED BY <1>1, <3>1 DEF Tagged, new
  <2> QED BY <2>1, <2>2, <2>3
<1> QED BY <1>5, <1>6, FS_AddElement

(* Taking one from the budget and tagging a match keeps their sum at the limit. *)
LEMMA TagMatchStep ==
  ASSUME Inv, NEW s \in Segs, TagMatch(s)
  PROVE  Step
<1> DEFINE M == AllMatches(s)
<1>0. UNCHANGED <<index, request, search, merged, worker, seg>> /\ Batch /\ worker[s] = "tag"
  BY DEF TagMatch, streamVars
<1>1. /\ Segs' = Segs /\ \A t : AllMatches(t)' = AllMatches(t)
  BY <1>0, Fixed
<1>2. M \in SUBSET Nat /\ budget \in Nat /\ Limit \in Nat
  BY Snapshot DEF Inv, TypeInv
<1>3. Split(found[s], tagged[s], M) /\ found[s] # <<>>
  BY DEF Inv, TypeInv, TagMatch
<1>4. /\ found[s] \in Seq(Nat) /\ Len(found[s]) \in Nat /\ Head(found[s]) \in M
      /\ Tail(found[s]) \in Seq(Nat) /\ Len(Tail(found[s])) = Len(found[s]) - 1
  <2>1. found[s] \in Seq(M) /\ found[s] \in Seq(Nat)
    BY <1>3 DEF Split, Inv, TypeInv
  <2> QED BY <1>2, <1>3, <2>1, HeadOf
<1>5. /\ Split(Tail(found[s]), tagged[s], M)
      /\ Split(Tail(found[s]), Append(tagged[s], Head(found[s])), M)
      /\ Covers(found[s], tagged[s], M) => Covers(Tail(found[s]), Append(tagged[s], Head(found[s])), M)
  BY <1>2, <1>3, TakeUp
<1>6. /\ found' \in [Segs -> Seq(Nat)] /\ found'[s] = Tail(found[s])
      /\ \A t \in Segs \ {s} : found'[t] = found[t]
  BY <1>4 DEF Inv, TypeInv, TagMatch
<1>7. /\ IsFiniteSet(Tagged) /\ Cardinality(Tagged) + budget = Limit /\ Cardinality(Tagged) \in Nat
      /\ \A t \in Segs : Accounted(t)
  BY <1>0, FS_CardinalityType DEF Inv, BatchInv
<1>8. CASE budget > 0
  <2>1. budget' = budget - 1 /\ tagged' = [tagged EXCEPT ![s] = Append(@, Head(found[s]))]
    BY <1>8 DEF TagMatch
  <2>2. Head(found[s]) \in Nat
    BY <1>2, <1>4
  <2>3. /\ tagged' \in [Segs -> Seq(Nat)] /\ tagged'[s] = Append(tagged[s], Head(found[s]))
        /\ \A t \in Segs \ {s} : tagged'[t] = tagged[t]
    <3>1. tagged[s] \in Seq(Nat)
      BY DEF Inv, TypeInv
    <3>2. Append(tagged[s], Head(found[s])) \in Seq(Nat)
      BY <2>2, <3>1
    <3> QED BY <2>1, <3>2 DEF Inv, TypeInv
  <2>4. TypeInv'
    <3>1. budget' \in Nat
      BY <1>2, <1>8, <2>1
    <3>2. ASSUME NEW t \in Segs PROVE Split(found'[t], tagged'[t], AllMatches(t))
      BY <1>5, <1>6, <2>3 DEF Inv, TypeInv
    <3> QED BY <1>0, <1>1, <1>6, <2>3, <3>1, <3>2 DEF Inv, TypeInv
  <2>5. IsFiniteSet(Tagged)' /\ Cardinality(Tagged)' = Cardinality(Tagged) + 1
    BY <1>0, <1>7, <2>1, <2>2, TaggedGrows DEF Inv
  <2>6. Cardinality(Tagged)' + budget' = Limit
    BY <1>2, <1>7, <2>1, <2>5
  <2>7. ASSUME NEW t \in Segs PROVE Accounted(t)'
    <3>1. Accounted(t) /\ Len(found[t]) \in Nat
      BY <1>7 DEF Inv, TypeInv
    <3>2. CASE t # s
      <4>1. budget <= Len(found[t]) => budget' <= Len(found'[t])
        BY <1>2, <1>6, <2>1, <3>1, <3>2
      <4> QED BY <1>0, <1>1, <1>6, <2>3, <3>1, <3>2, <4>1 DEF Accounted
    <3>3. CASE t = s
      <4>1. budget <= Len(found[s]) => budget' <= Len(found'[s])
        BY <1>2, <1>4, <1>6, <2>1
      <4> QED BY <1>0, <1>1, <1>5, <1>6, <2>3, <3>1, <3>3, <4>1 DEF Accounted
    <3> QED BY <3>2, <3>3
  <2> QED BY <1>0, <2>4, <2>5, <2>6, <2>7, BatchQuiet
<1>9. CASE ~(budget > 0)
  <2>1. budget' = 0 /\ budget = 0 /\ tagged' = tagged
    BY <1>2, <1>9 DEF TagMatch
  <2>2. TypeInv'
    <3>1. ASSUME NEW t \in Segs PROVE Split(found'[t], tagged'[t], AllMatches(t))
      BY <1>5, <1>6, <2>1 DEF Inv, TypeInv
    <3> QED BY <1>0, <1>1, <1>6, <2>1, <3>1 DEF Inv, TypeInv
  <2>3. Tagged' = Tagged
    BY <1>0, <2>1, TaggedKept
  <2>4. ASSUME NEW t \in Segs PROVE Accounted(t)'
    <3>1. Accounted(t) /\ Len(found'[t]) \in Nat
      BY <1>6, <1>7
    <3>2. budget' <= Len(found'[t])
      BY <2>1, <3>1
    <3>3. CASE t # s
      BY <1>0, <1>6, <2>1, <3>1, <3>2, <3>3 DEF Accounted
    <3>4. CASE t = s
      BY <1>0, <3>2, <3>4 DEF Accounted
    <3> QED BY <3>3, <3>4
  <2> QED BY <1>0, <1>7, <2>1, <2>2, <2>3, <2>4, BatchQuiet
<1> QED BY <1>8, <1>9

\* What is tagged, and where it comes from.
LEMMA TaggedFrom ==
  ASSUME TypeInv, NEW h \in Tagged
  PROVE  \E s \in Segs : \E n \in 1 .. Len(tagged[s]) :
           /\ h = TaggedAs(s, n) /\ h.seg = s /\ h.at = n /\ h.path = index[s].files[tagged[s][n]].path
           /\ tagged[s][n] \in AllMatches(s) /\ s \in Nat /\ n \in Nat /\ h.path \in Nat /\ h.score \in Int
<1>1. PICK s \in Segs : \E n \in 1 .. Len(tagged[s]) : h = TaggedAs(s, n)
  BY DEF Tagged
<1>2. PICK n \in 1 .. Len(tagged[s]) : h = TaggedAs(s, n)
  BY <1>1
<1> DEFINE i == tagged[s][n]
           c == index[s].files[i]
<1>3. tagged[s] \in Seq(AllMatches(s)) /\ s \in Nat
  BY Snapshot DEF TypeInv, Split
<1>4. n \in Nat /\ i \in AllMatches(s)
  BY <1>3
<1>5. c \in Candidate
  BY <1>4, Snapshot
<1>6. h.seg = s /\ h.at = n /\ h.path = c.path /\ h.score = Score(c)
  BY <1>2 DEF TaggedAs
<1> HIDE DEF c, i
<1>7. c.path \in Nat /\ c.depth \in Nat /\ c.density \in Nat /\ c.fresh \in Nat
  <2>1. c.path \in Path /\ c.depth \in Nat /\ c.density \in 0 .. 100 /\ c.fresh \in 0 .. 100
    BY <1>5 DEF Candidate
  <2>2. c.path \in Nat
    <3>1. Path \subseteq Nat
      BY PipelineAssumption
    <3> QED BY <2>1, <3>1
  <2>3. \A x \in 0 .. 100 : x \in Nat
    OBVIOUS
  <2>4. c.density \in Nat /\ c.fresh \in Nat
    BY <2>1, <2>3
  <2> QED BY <2>1, <2>2, <2>4
<1>8. Score(c) \in Int
  <2>1. BaseScore(request.verifier) \in Int /\ FilenameMatchScore(c) \in Int
    BY DEF BaseScore, FilenameMatchScore
  <2>2. PathDepthScore(c.depth) \in Int
    <3>1. 100 * c.depth \in Int
      BY <1>7
    <3>2. (100 * c.depth) \div MaxPathDepth \in Int
      BY <3>1, PipelineAssumption
    <3> QED BY <3>2 DEF PathDepthScore
  <2>3. 30 * BaseScore(request.verifier) \in Int /\ 15 * FilenameMatchScore(c) \in Int
    BY <2>1
  <2>4. 15 * PathDepthScore(c.depth) \in Int
    BY <2>2
  <2>5. 25 * c.density \in Int /\ 15 * c.fresh \in Int
    BY <1>7
  <2> QED BY <2>3, <2>4, <2>5 DEF Score
<1> QED BY <1>2, <1>3, <1>4, <1>6, <1>7, <1>8 DEF c, i

\* The merge keeps one match of a path; of paths with one live copy it keeps every match.
LEMMA WinnersAreOne ==
  ASSUME TypeInv, IsFiniteSet(Tagged)
  PROVE  /\ Winners \subseteq Tagged /\ IsFiniteSet(Winners) /\ Cardinality(Winners) \in Nat
         /\ Cardinality(Winners) <= Cardinality(Tagged)
         /\ \A h, k \in Winners : h.path = k.path => h = k
         /\ Unambiguous => Winners = Tagged
<1>1. Winners \subseteq Tagged
  BY DEF Winners
<1>2. IsFiniteSet(Winners) /\ Cardinality(Winners) \in Nat /\ Cardinality(Winners) <= Cardinality(Tagged)
  BY <1>1, FS_Subset, FS_CardinalityType
<1>3. ASSUME NEW h \in Winners, NEW k \in Winners, h.path = k.path PROVE h = k
  <2>1. h \in Tagged /\ k \in Tagged
    BY <1>1
  <2>2. PICK s \in Segs : \E n \in 1 .. Len(tagged[s]) :
           h = TaggedAs(s, n) /\ h.seg = s /\ h.at = n /\ s \in Nat /\ n \in Nat
    BY <2>1, TaggedFrom
  <2>3. PICK t \in Segs : \E n \in 1 .. Len(tagged[t]) :
           k = TaggedAs(t, n) /\ k.seg = t /\ k.at = n /\ t \in Nat /\ n \in Nat
    BY <2>1, TaggedFrom
  <2>4. /\ k.seg < h.seg \/ (k.seg = h.seg /\ k.at >= h.at)
        /\ h.seg < k.seg \/ (h.seg = k.seg /\ h.at >= k.at)
    BY <1>3, <2>1 DEF Winners
  <2>5. h.seg = k.seg /\ h.at = k.at
    BY <2>2, <2>3, <2>4
  <2> QED BY <2>2, <2>3, <2>5
<1>4. ASSUME Unambiguous, NEW h \in Tagged PROVE h \in Winners
  <2> SUFFICES ASSUME NEW k \in Tagged, k.path = h.path
               PROVE  k.seg < h.seg \/ (k.seg = h.seg /\ k.at >= h.at)
    BY DEF Winners
  <2>1. PICK s \in Segs : \E n \in 1 .. Len(tagged[s]) :
           /\ h.seg = s /\ h.at = n /\ h.path = index[s].files[tagged[s][n]].path
           /\ tagged[s][n] \in AllMatches(s) /\ n \in Nat
    BY TaggedFrom
  <2>2. PICK n \in 1 .. Len(tagged[s]) :
           /\ h.seg = s /\ h.at = n /\ h.path = index[s].files[tagged[s][n]].path
           /\ tagged[s][n] \in AllMatches(s) /\ n \in Nat
    BY <2>1
  <2>3. PICK t \in Segs : \E m \in 1 .. Len(tagged[t]) :
           /\ k.seg = t /\ k.at = m /\ k.path = index[t].files[tagged[t][m]].path
           /\ tagged[t][m] \in AllMatches(t) /\ m \in Nat
    BY TaggedFrom
  <2>4. PICK m \in 1 .. Len(tagged[t]) :
           /\ k.seg = t /\ k.at = m /\ k.path = index[t].files[tagged[t][m]].path
           /\ tagged[t][m] \in AllMatches(t) /\ m \in Nat
    BY <2>3
  <2>5. s = t /\ tagged[s][n] = tagged[t][m]
    BY <1>4, <2>2, <2>4 DEF Unambiguous
  <2>6. Increasing(tagged[s]) /\ AllMatches(s) \in SUBSET Nat
    BY Snapshot DEF TypeInv, Split
  <2>7. tagged[s][n] \in Nat
    BY <2>2, <2>6
  <2>8. ~(m < n)
    BY <2>2, <2>4, <2>5, <2>6, <2>7 DEF Increasing
  <2> QED BY <2>2, <2>4, <2>5, <2>8
<1> QED BY <1>1, <1>2, <1>3, <1>4

\* A match as the promise sees it.
Seen(h) == [path |-> h.path, seg |-> h.seg]

Shown(ans) == {[path |-> ans[i].path, seg |-> ans[i].seg] : i \in 1 .. Len(ans)}

\* The answer that is merged.
LEMMA MergedAnswer ==
  ASSUME TypeInv, IsFiniteSet(Tagged), Cardinality(Tagged) <= Limit,
         NEW ans, ans = SubSeq(Ranked(Winners), 1, Min(Limit, Cardinality(Winners))),
         NEW A, A = Shown(ans)
  PROVE  /\ ans = Ranked(Winners) /\ Len(ans) = Cardinality(Winners)
         /\ \A h \in A : \E w \in Winners : h = Seen(w)
         /\ \A w \in Winners : Seen(w) \in A
         /\ IsFiniteSet(A) /\ Cardinality(A) = Cardinality(Winners)
<1> DEFINE W == Winners
           R == Ranked(Winners)
<1>1. /\ W \subseteq Tagged /\ IsFiniteSet(W) /\ Cardinality(W) \in Nat
      /\ Cardinality(W) <= Cardinality(Tagged) /\ \A h, k \in W : h.path = k.path => h = k
  BY WinnersAreOne
<1>2. \A h \in W : h.path \in Nat /\ h.score \in Int
  BY <1>1, TaggedFrom
<1> HIDE DEF W
<1>3. /\ R \in Seq(W) /\ Len(R) = Cardinality(W)
      /\ \A h \in W : \E n \in 1 .. Cardinality(W) : R[n] = h
  BY <1>1, <1>2, RankedLists DEF W
<1>4. Min(Limit, Cardinality(W)) = Cardinality(W)
  <2>1. Limit \in Nat /\ Cardinality(Tagged) \in Nat
    BY Snapshot, FS_CardinalityType
  <2> QED BY <1>1, <2>1 DEF Min
<1>5. ans = R
  <2>1. ans = SubSeq(R, 1, Len(R))
    BY <1>3, <1>4 DEF W
  <2> HIDE DEF R
  <2>2. SubSeq(R, 1, Len(R)) = R
    BY <1>3, SubSeqFull
  <2> QED BY <2>1, <2>2
<1> HIDE DEF R
<1>6. \A h \in A : \E w \in W : h = Seen(w)
  <2>1. \A i \in 1 .. Len(R) : R[i] \in W
    BY <1>3
  <2> QED BY <1>5, <2>1 DEF Seen, Shown
<1>7. \A w \in W : Seen(w) \in A
  BY <1>3, <1>5 DEF Seen, Shown
<1>8. IsFiniteSet(A) /\ Cardinality(A) = Cardinality(W)
  <2> DEFINE f == [w \in W |-> Seen(w)]
  <2>1. f \in [W -> A]
    BY <1>7
  <2>2. \A v, w \in W : f[v] = f[w] => v = w
    BY <1>1 DEF Seen
  <2>3. \A h \in A : \E w \in W : f[w] = h
    BY <1>6
  <2> HIDE DEF f
  <2>4. f \in Bijection(W, A)
    BY <2>1, <2>2, <2>3 DEF Bijection, Injection, Surjection, IsInjective
  <2>5. ExistsBijection(W, A)
    BY <2>4 DEF ExistsBijection
  <2> QED BY <1>1, <2>5, FS_Bijection
<1> QED BY <1>3, <1>5, <1>6, <1>7, <1>8 DEF R, W

(* Merging reports the winners, one per path, within the limit: a step of SearchSpec. *)
LEMMA MergeStep ==
  ASSUME Inv, Merge
  PROVE  Step
<1>0. /\ UNCHANGED <<index, request, found, tagged, worker, budget, seg>> /\ Batch /\ search = "running"
      /\ search' \in {"ok", "error"}
  BY DEF Merge, streamVars
<1>1. /\ Limit' = Limit /\ Batch' = Batch /\ Stream' = Stream /\ Segs' = Segs /\ Cap' = Cap
      /\ \A t : AllMatches(t)' = AllMatches(t)
  BY <1>0, Fixed
<1>2. /\ IsFiniteSet(Tagged) /\ Cardinality(Tagged) + budget = Limit /\ Cardinality(Tagged) \in Nat
      /\ \A t \in Segs : Accounted(t)
      /\ budget \in Nat /\ Limit \in Nat /\ Cap = Limit /\ ~Stream
  BY <1>0, FS_CardinalityType, Snapshot DEF Inv, TypeInv, BatchInv, Cap
<1>3. Cardinality(Tagged) <= Limit
  BY <1>2
<1>4. TypeInv'
  BY <1>0, <1>1 DEF Inv, TypeInv
<1>5. \A t \in Segs : Accounted(t)'
  BY <1>0, <1>1, <1>2 DEF Accounted
<1>6. Tagged' = Tagged
  BY <1>0, TaggedKept
<1>7. merged = <<>> /\ Len(merged) = 0
  BY <1>0 DEF Inv, BatchInv
<1>8. Answer = {}
  BY <1>0, <1>7 DEF Answer
<1>9. CASE \E s \in Segs : worker[s] = "failed"
  <2>1. search' = "error" /\ merged' = merged
    BY <1>9 DEF Merge
  <2>2. Answer' = {}
    BY <1>0, <1>1, <1>7, <2>1 DEF Answer
  <2>3. BatchInv'
    BY <1>0, <1>1, <1>2, <1>5, <1>6, <1>7, <2>1 DEF BatchInv
  <2>4. Cardinality({}) = 0
    BY FS_EmptySet
  <2>5. Promise!SpecNext
    <3>1. {} \in SUBSET Hits /\ Answer' = Answer \cup {}
      BY <1>8, <2>2
    <3> QED BY <1>0, <1>2, <2>1, <2>2, <2>4, <3>1, ReportStep
  <2> QED BY <1>1, <1>2, <1>4, <2>3, <2>5 DEF Step, Inv, StreamInv
<1>10. CASE ~(\E s \in Segs : worker[s] = "failed")
  <2>1. search' = "ok" /\ merged' = SubSeq(Ranked(Winners), 1, Min(Limit, Cardinality(Winners)))
    BY <1>10 DEF Merge
  <2>2. BatchInv'
    BY <1>0, <1>1, <1>2, <1>5, <1>6, <2>1 DEF BatchInv
  <2>3. Answer' = Shown(merged')
    BY <1>0, <1>1 DEF Answer, Shown
  <2>4. /\ \A h \in Answer' : \E w \in Winners : h = Seen(w)
        /\ \A w \in Winners : Seen(w) \in Answer'
        /\ IsFiniteSet(Answer') /\ Cardinality(Answer') = Cardinality(Winners)
    BY <1>2, <1>3, <2>1, <2>3, MergedAnswer DEF Inv
  <2>5. /\ Winners \subseteq Tagged /\ Cardinality(Winners) \in Nat
        /\ Cardinality(Winners) <= Cardinality(Tagged)
        /\ \A h, k \in Winners : h.path = k.path => h = k
        /\ Unambiguous => Winners = Tagged
    BY <1>2, WinnersAreOne DEF Inv
  <2>6. \A h, k \in Answer' : h.path = k.path => h = k
    <3> SUFFICES ASSUME NEW h \in Answer', NEW k \in Answer', h.path = k.path PROVE h = k
      OBVIOUS
    <3>1. PICK v \in Winners : h = Seen(v)
      BY <2>4
    <3>2. PICK w \in Winners : k = Seen(w)
      BY <2>4
    <3>3. v.path = w.path
      BY <3>1, <3>2 DEF Seen
    <3> QED BY <2>5, <3>1, <3>2, <3>3
  <2>7. \A h \in Answer' : \E s \in Segs : \E i \in AllMatches(s) : h = [path |-> index[s].files[i].path, seg |-> s]
    <3> SUFFICES ASSUME NEW h \in Answer'
                 PROVE  \E s \in Segs : \E i \in AllMatches(s) : h = [path |-> index[s].files[i].path, seg |-> s]
      OBVIOUS
    <3>1. PICK w \in Winners : h = Seen(w)
      BY <2>4
    <3>2. w \in Tagged
      BY <2>5
    <3>3. PICK s \in Segs : \E n \in 1 .. Len(tagged[s]) :
             /\ w.seg = s /\ w.path = index[s].files[tagged[s][n]].path /\ tagged[s][n] \in AllMatches(s)
      BY <3>2, TaggedFrom DEF Inv
    <3> QED BY <3>1, <3>3 DEF Seen
  <2>8. Answer' \in SUBSET Hits
    BY <2>7 DEF Hits
  <2>9. Cardinality(Answer') <= Cap
    BY <1>2, <1>3, <2>4, <2>5
  <2>10. ASSUME Unambiguous, NEW h \in Answer', NEW k \in Hits, k.path = h.path PROVE k.seg <= h.seg
    <3>1. PICK s \in Segs : \E i \in AllMatches(s) : h = [path |-> index[s].files[i].path, seg |-> s]
      BY <2>7
    <3>2. PICK i \in AllMatches(s) : h = [path |-> index[s].files[i].path, seg |-> s]
      BY <3>1
    <3>3. PICK t \in Segs : \E j \in AllMatches(t) : k = [path |-> index[t].files[j].path, seg |-> t]
      BY DEF Hits
    <3>4. PICK j \in AllMatches(t) : k = [path |-> index[t].files[j].path, seg |-> t]
      BY <3>3
    <3>5. s = t
      BY <2>10, <3>2, <3>4 DEF Unambiguous
    <3>6. s \in Nat
      BY Snapshot DEF Inv
    <3> QED BY <3>2, <3>4, <3>5, <3>6
  <2>11. ASSUME Unambiguous
         PROVE  Cardinality(Answer') = Cap \/ \A h \in Hits : \E k \in Answer' : k.path = h.path
    <3>1. CASE budget = 0
      BY <1>2, <2>4, <2>5, <2>11, <3>1
    <3>2. CASE budget # 0
      <4> SUFFICES ASSUME NEW h \in Hits PROVE \E k \in Answer' : k.path = h.path
        OBVIOUS
      <4>1. PICK s \in Segs : \E i \in AllMatches(s) : h = [path |-> index[s].files[i].path, seg |-> s]
        BY DEF Hits
      <4>2. PICK i \in AllMatches(s) : h = [path |-> index[s].files[i].path, seg |-> s]
        BY <4>1
      <4>3. worker[s] = "done"
        BY <1>10 DEF Merge
      <4>4. found[s] = <<>> /\ Len(found[s]) = 0
        BY <1>2, <4>3 DEF Accounted
      <4>5. Covers(found[s], tagged[s], AllMatches(s))
        BY <1>2, <3>2, <4>3, <4>4 DEF Accounted
      <4>6. Holds(tagged[s], i)
        BY <4>4, <4>5 DEF Covers, Holds
      <4>7. PICK n \in 1 .. Len(tagged[s]) : tagged[s][n] = i
        BY <4>6 DEF Holds
      <4>8. TaggedAs(s, n) \in Winners
        BY <2>5, <2>11 DEF Tagged
      <4>9. Seen(TaggedAs(s, n)).path = h.path
        BY <4>2, <4>7 DEF Seen, TaggedAs
      <4> QED BY <2>4, <4>8, <4>9
    <3> QED BY <3>1, <3>2
  <2>12. Answer' = Answer \cup Answer'
    BY <1>8
  <2>13. Promise!SpecNext
    <3>1. PICK new \in SUBSET Hits : new = Answer'
      BY <2>8
    <3> QED BY <1>0, <1>2, <2>1, <2>6, <2>9, <2>10, <2>11, <2>12, <3>1, ReportStep
  <2> QED BY <1>1, <1>2, <1>4, <2>2, <2>13 DEF Step, Inv, StreamInv
<1> QED BY <1>9, <1>10


-----------------------------------------------------------------------------
(* The steps of a streaming search. *)

(* A step of a stream that sends nothing stutters. *)
LEMMA StreamQuiet ==
  ASSUME Inv, Stream, UNCHANGED <<index, request, search, sent>>, TypeInv', StreamInv'
  PROVE  Step
<1>1. /\ Batch' = Batch /\ Stream' = Stream
  BY Fixed
<1>2. ~Batch /\ ~Batch'
  BY <1>1, Snapshot DEF Inv
<1>3. Answer' = Answer
  BY <1>2 DEF Answer
<1>4. UNCHANGED Promise!specVars
  BY <1>3, StutterStep
<1> QED BY <1>2, <1>4 DEF Step, Inv, BatchInv

(* Searching the next segment of a stream stutters. *)
LEMMA StreamSegmentStep ==
  ASSUME Inv, StreamSegment
  PROVE  Step
<1>0. /\ UNCHANGED <<index, request, tagged, budget, seg, sent>> /\ Stream /\ search = "running"
      /\ seg > 0 /\ worker[seg] = "idle"
  BY DEF StreamSegment, streamVars
<1>1. /\ Segs' = Segs /\ Cap' = Cap /\ Hits' = Hits /\ Stream' = Stream
      /\ \A t : AllMatches(t)' = AllMatches(t)
  BY <1>0, Fixed
<1>2. SentPaths' = SentPaths
  BY <1>0 DEF SentPaths
<1>3. seg \in Segs /\ Len(index) \in Nat /\ seg \in Nat
  BY <1>0, Snapshot DEF Inv, TypeInv, Segs
<1>4. ~Batch /\ ~Batch'
  BY <1>0, <1>1, Snapshot, Fixed DEF Inv
<1>5. CASE index[seg].readable
  <2>1. /\ found' = [found EXCEPT ![seg] = InOrder(AllMatches(seg))]
        /\ worker' = [worker EXCEPT ![seg] = "tag"] /\ search' = search
    BY <1>5 DEF StreamSegment
  <2>2. AllMatches(seg) \in SUBSET Nat /\ IsFiniteSet(AllMatches(seg)) /\ AllMatches(seg) \in SUBSET AllMatches(seg)
    BY <1>3, Snapshot DEF Inv
  <2>3. /\ Split(InOrder(AllMatches(seg)), <<>>, AllMatches(seg))
        /\ \A i \in AllMatches(seg) : Holds(InOrder(AllMatches(seg)), i)
    BY <2>2, ListKept
  <2>4. InOrder(AllMatches(seg)) \in Seq(Nat)
    BY <2>2, <2>3 DEF Split
  <2>5. /\ found' \in [Segs -> Seq(Nat)] /\ worker' \in [Segs -> Stages]
        /\ found'[seg] = InOrder(AllMatches(seg)) /\ worker'[seg] = "tag"
        /\ \A t \in Segs \ {seg} : found'[t] = found[t] /\ worker'[t] = worker[t]
    BY <1>3, <2>1, <2>4 DEF Inv, TypeInv, Stages
  <2>6. tagged[seg] = <<>>
    BY <1>0, <1>3 DEF Inv, StreamInv
  <2>7. TypeInv'
    <3>1. ASSUME NEW t \in Segs PROVE Split(found'[t], tagged[t], AllMatches(t))
      BY <2>3, <2>5, <2>6 DEF Inv, TypeInv
    <3> QED BY <1>0, <1>1, <2>1, <2>5, <3>1 DEF Inv, TypeInv
  <2>8. StreamInv'
    <3>1. ASSUME NEW t \in Segs PROVE /\ t > seg => Passed(t)'
                                      /\ t < seg => worker'[t] = "idle"
      <4>1. (t > seg => Passed(t)) /\ (t < seg => worker[t] = "idle")
        BY <1>0 DEF Inv, StreamInv
      <4>2. Passed(t)' = Passed(t)
        BY <1>0, <1>1, <1>2 DEF Passed
      <4>3. t < seg => t # seg
        BY <1>3, Snapshot DEF Inv
      <4> QED BY <2>5, <4>1, <4>2, <4>3
    <3>2. \A i \in AllMatches(seg) : Holds(found'[seg], i)
      BY <2>3, <2>5
    <3> QED BY <1>0, <1>1, <3>1, <3>2 DEF Inv, StreamInv
  <2> QED BY <1>0, <2>1, <2>7, <2>8, StreamQuiet
<1>6. CASE ~index[seg].readable
  <2>1. search' = "error" /\ found' = found /\ worker' = worker
    BY <1>6 DEF StreamSegment
  <2>2. TypeInv'
    BY <1>0, <1>1, <2>1 DEF Inv, TypeInv
  <2>3. StreamInv'
    BY <1>0, <1>1, <2>1 DEF Inv, StreamInv
  <2>4. Answer = sent /\ Answer' = sent
    BY <1>0, <1>4 DEF Answer
  <2>5. {} \in SUBSET Hits /\ Answer' = Answer \cup {} /\ Cardinality(Answer') <= Cap
        /\ \A h, k \in Answer' : h.path = k.path => h = k
    BY <1>0, <2>4 DEF Inv, StreamInv
  <2>6. Promise!SpecNext
    BY <1>0, <2>1, <2>5, ReportStep
  <2> QED BY <1>4, <2>2, <2>3, <2>6 DEF Step, Inv, BatchInv
<1> QED BY <1>5, <1>6

(* Sending a match of a stream, or skipping it, is a step of SearchSpec or a stutter. *)
LEMMA StreamMatchStep ==
  ASSUME Inv, StreamMatch
  PROVE  Step
<1>0. /\ UNCHANGED <<index, request, tagged, budget, worker, seg>> /\ Stream /\ search = "running"
      /\ seg > 0 /\ worker[seg] = "tag" /\ found[seg] # <<>> /\ found' = [found EXCEPT ![seg] = Tail(@)]
  BY DEF StreamMatch, batchVars
<1>1. /\ Segs' = Segs /\ Cap' = Cap /\ Hits' = Hits /\ Stream' = Stream
      /\ \A t : AllMatches(t)' = AllMatches(t)
  BY <1>0, Fixed
<1>3. seg \in Segs /\ Len(index) \in Nat /\ seg \in Nat
  BY <1>0, Snapshot DEF Inv, TypeInv, Segs
<1>4. ~Batch /\ ~Batch'
  BY <1>0, <1>1, Snapshot, Fixed DEF Inv
<1> DEFINE M == AllMatches(seg)
           i0 == Head(found[seg])
           p == index[seg].files[i0].path
<1>5. M \in SUBSET Nat /\ Split(found[seg], tagged[seg], M)
  BY <1>3, Snapshot DEF Inv, TypeInv
<1>6. Split(Tail(found[seg]), tagged[seg], M)
  BY <1>0, <1>5, TakeUp
<1>7. /\ i0 \in M /\ \A i : Holds(found[seg], i) => i = i0 \/ Holds(Tail(found[seg]), i)
  <2>1. found[seg] \in Seq(M)
    BY <1>5 DEF Split
  <2> QED BY <1>0, <1>5, <2>1, HeadOf
<1>8. /\ found' \in [Segs -> Seq(Nat)] /\ found'[seg] = Tail(found[seg])
      /\ \A t \in Segs \ {seg} : found'[t] = found[t]
  <2>1. Tail(found[seg]) \in Seq(Nat)
    BY <1>5, <1>6 DEF Split
  <2> QED BY <1>0, <1>3, <2>1 DEF Inv, TypeInv
<1>9. search' \in {"running", "ok"} => TypeInv'
  <2>1. ASSUME NEW t \in Segs PROVE Split(found'[t], tagged[t], AllMatches(t))
    BY <1>6, <1>8 DEF Inv, TypeInv
  <2> QED BY <1>0, <1>1, <1>8, <2>1 DEF Inv, TypeInv
<1>10. \A i \in M : Holds(found[seg], i) \/ index[seg].files[i].path \in SentPaths
  BY <1>0 DEF Inv, StreamInv
<1>11. /\ sent \subseteq Hits /\ IsFiniteSet(sent) /\ Cardinality(sent) < Cap /\ Cap \in Nat
       /\ Cardinality(sent) \in Nat /\ \A h, k \in sent : h.path = k.path => h = k
       /\ \A t \in Segs : (t > seg => Passed(t)) /\ (t < seg => worker[t] = "idle")
       /\ \A t \in Segs : tagged[t] = <<>>
  BY <1>0, Snapshot, FS_CardinalityType DEF Inv, StreamInv
<1>12. Record(seg, i0).path = p /\ Record(seg, i0).seg = seg
  BY DEF Record
<1>13. CASE p \in SentPaths
  <2>1. UNCHANGED <<sent, search>>
    BY <1>12, <1>13 DEF StreamMatch
  <2>2. SentPaths' = SentPaths
    BY <2>1 DEF SentPaths
  <2>3. \A t \in Segs : Passed(t)' = Passed(t)
    BY <1>0, <1>1, <2>2 DEF Passed
  <2>4. \A i \in M : Holds(found'[seg], i) \/ index[seg].files[i].path \in SentPaths
    BY <1>7, <1>8, <1>10, <1>13
  <2>5. StreamInv'
    BY <1>0, <1>1, <1>11, <2>1, <2>2, <2>3, <2>4 DEF StreamInv
  <2> QED BY <1>0, <1>9, <2>1, <2>5, StreamQuiet
<1>14. CASE p \notin SentPaths
  <2> DEFINE new == [path |-> p, seg |-> seg]
  <2>1. /\ sent' = sent \cup {new}
        /\ search' = IF Cardinality(sent') >= Limit THEN "ok" ELSE "running"
    BY <1>12, <1>14 DEF StreamMatch
  <2>2. new \in Hits
    BY <1>3, <1>7 DEF Hits
  <2>3. \A h \in sent : h.path # p
    BY <1>14 DEF SentPaths
  <2>4. new.path = p /\ new.seg = seg
    OBVIOUS
  <2> HIDE DEF new
  <2>5. new \notin sent
    BY <2>3, <2>4
  <2>6. IsFiniteSet(sent') /\ Cardinality(sent') = Cardinality(sent) + 1
    BY <1>11, <2>1, <2>5, FS_AddElement
  <2>7. sent' \subseteq Hits /\ \A h, k \in sent' : h.path = k.path => h = k
    BY <1>11, <2>1, <2>2, <2>3, <2>4
  <2>8. Cardinality(sent') <= Cap /\ Cardinality(sent') \in Nat
    BY <1>11, <2>6
  <2>9. /\ search' = "running" => Cardinality(sent') < Cap
        /\ search' = "ok" => Cardinality(sent') = Cap
        /\ search' \in {"running", "ok"}
    <3>1. Limit \in Nat /\ Cap = (IF 1 < Limit THEN Limit ELSE 1)
      BY <1>4, Snapshot DEF Inv, Cap, Max
    <3>2. CASE Cardinality(sent') >= Limit
      BY <1>11, <2>1, <2>6, <3>1, <3>2
    <3>3. CASE ~(Cardinality(sent') >= Limit)
      BY <1>11, <2>1, <2>6, <2>8, <3>1, <3>3
    <3> QED BY <3>2, <3>3
  <2>10. SentPaths \subseteq SentPaths' /\ p \in SentPaths'
    BY <2>1, <2>4 DEF SentPaths
  <2>11. \A t \in Segs : Passed(t) => Passed(t)'
    BY <1>0, <1>1, <2>10 DEF Passed
  <2>12. \A i \in M : Holds(found'[seg], i) \/ index[seg].files[i].path \in SentPaths'
    BY <1>7, <1>8, <1>10, <2>10
  <2>13. StreamInv'
    BY <1>0, <1>1, <1>11, <2>6, <2>7, <2>8, <2>9, <2>11, <2>12 DEF StreamInv
  <2>14. Answer = sent /\ Answer' = sent'
    BY <1>4 DEF Answer
  <2>15. \A h \in {new} : \A k \in Hits : k.path = h.path => k.seg <= h.seg
    <3> SUFFICES ASSUME NEW k \in Hits, k.path = p PROVE k.seg <= seg
      BY <2>4
    <3>1. PICK t \in Segs : \E j \in AllMatches(t) : k = [path |-> index[t].files[j].path, seg |-> t]
      BY DEF Hits
    <3>2. k.seg = t /\ \E j \in AllMatches(t) : k.path = index[t].files[j].path
      BY <3>1
    <3>3. t \in Nat
      BY Snapshot DEF Inv
    <3>4. ~Passed(t)
      BY <1>14, <3>2 DEF Passed
    <3> QED BY <1>3, <1>11, <3>2, <3>3, <3>4
  <2>16. Promise!SpecNext
    <3>1. PICK n \in SUBSET Hits : n = {new}
      BY <2>2
    <3> QED BY <1>0, <2>1, <2>7, <2>8, <2>9, <2>14, <2>15, <3>1, ReportStep
  <2> QED BY <1>4, <1>9, <2>9, <2>13, <2>16 DEF Step, Inv, BatchInv
<1> QED BY <1>13, <1>14

(* Going on to the next segment keeps all matches behind it sent. *)
LEMMA NextSegmentStep ==
  ASSUME Inv, NextSegment
  PROVE  Step
<1>0. /\ UNCHANGED <<index, request, tagged, budget, worker, found, sent, search>> /\ Stream
      /\ search = "running" /\ seg > 0 /\ worker[seg] = "tag" /\ found[seg] = <<>> /\ seg' = seg - 1
  BY DEF NextSegment, batchVars
<1>1. /\ Segs' = Segs /\ Cap' = Cap /\ Hits' = Hits /\ Stream' = Stream
      /\ \A t : AllMatches(t)' = AllMatches(t)
  BY <1>0, Fixed
<1>2. seg \in Segs /\ Len(index) \in Nat /\ seg \in 0 .. Len(index)
  BY <1>0, Snapshot DEF Inv, TypeInv, Segs
<1>3. seg' \in 0 .. Len(index)
  BY <1>0, <1>2
<1>4. TypeInv'
  BY <1>0, <1>1, <1>3 DEF Inv, TypeInv
<1>5. SentPaths' = SentPaths
  BY <1>0 DEF SentPaths
<1>6. \A t \in Segs : Passed(t)' = Passed(t)
  BY <1>0, <1>1, <1>5 DEF Passed
<1>7. Passed(seg)
  <2>1. \A i : ~Holds(found[seg], i)
    <3>1. Len(found[seg]) = 0
      BY <1>0
    <3> QED BY <3>1 DEF Holds
  <2> QED BY <1>0, <2>1 DEF Inv, StreamInv, Passed
<1>8. \A t \in Segs : (t > seg' => Passed(t)') /\ (t < seg' => worker[t] = "idle")
  <2> SUFFICES ASSUME NEW t \in Segs PROVE (t > seg' => Passed(t)) /\ (t < seg' => worker[t] = "idle")
    BY <1>6
  <2>1. (t > seg => Passed(t)) /\ (t < seg => worker[t] = "idle")
    BY <1>0 DEF Inv, StreamInv
  <2>2. t \in Nat
    BY Snapshot DEF Inv
  <2> QED BY <1>0, <1>2, <1>7, <2>1, <2>2
<1>9. seg' > 0 => worker[seg'] = "idle"
  <2>1. seg' > 0 => seg' \in Segs /\ seg' < seg
    BY <1>0, <1>2 DEF Segs
  <2> QED BY <1>0, <2>1 DEF Inv, StreamInv
<1>10. StreamInv'
  BY <1>0, <1>1, <1>8, <1>9 DEF Inv, StreamInv
<1> QED BY <1>0, <1>4, <1>10, StreamQuiet

(* A stream ends with every path sent or with its limit reached. *)
LEMMA EndStreamStep ==
  ASSUME Inv, EndStream
  PROVE  Step
<1>0. /\ UNCHANGED <<index, request, tagged, budget, worker, found, sent, seg>> /\ Stream
      /\ search = "running" /\ seg = 0 /\ search' = "ok"
  BY DEF EndStream, batchVars, streamVars
<1>1. /\ Segs' = Segs /\ Cap' = Cap /\ Hits' = Hits /\ Stream' = Stream
      /\ \A t : AllMatches(t)' = AllMatches(t)
  BY <1>0, Fixed
<1>2. ~Batch /\ ~Batch'
  BY <1>0, <1>1, Snapshot, Fixed DEF Inv
<1>3. TypeInv'
  BY <1>0, <1>1 DEF Inv, TypeInv
<1>4. StreamInv'
  BY <1>0, <1>1 DEF Inv, StreamInv
<1>5. Answer = sent /\ Answer' = sent
  BY <1>0, <1>2 DEF Answer
<1>6. \A h \in Hits : \E k \in sent : k.path = h.path
  <2> SUFFICES ASSUME NEW h \in Hits PROVE h.path \in SentPaths
    BY DEF SentPaths
  <2>1. PICK t \in Segs : \E j \in AllMatches(t) : h = [path |-> index[t].files[j].path, seg |-> t]
    BY DEF Hits
  <2>2. t > seg
    BY <1>0, Snapshot DEF Inv, Segs
  <2>3. Passed(t)
    BY <1>0, <2>2 DEF Inv, StreamInv
  <2> QED BY <2>1, <2>3 DEF Passed
<1>7. /\ {} \in SUBSET Hits /\ Answer' = Answer \cup {} /\ Cardinality(Answer') <= Cap
      /\ \A h, k \in Answer' : h.path = k.path => h = k
  BY <1>0, <1>5 DEF Inv, StreamInv
<1>8. Promise!SpecNext
  BY <1>0, <1>5, <1>6, <1>7, ReportStep
<1> QED BY <1>2, <1>3, <1>4, <1>8 DEF Step, Inv, BatchInv

\* The bridge, the socket, the client and the reply do not touch the search.
LEMMA AsideStep ==
  ASSUME Inv, UNCHANGED <<index, request, worker, found, budget, tagged, merged, seg, sent, search>>
  PROVE  Step
<1>1. /\ Segs' = Segs /\ Cap' = Cap /\ Hits' = Hits /\ Stream' = Stream /\ Batch' = Batch
      /\ Limit' = Limit /\ \A t : AllMatches(t)' = AllMatches(t)
  BY Fixed
<1>2. TypeInv'
  BY <1>1 DEF Inv, TypeInv
<1>3. Tagged' = Tagged
  BY TaggedKept
<1>4. \A t \in Segs : Accounted(t)' = Accounted(t)
  BY <1>1 DEF Accounted
<1>5. BatchInv'
  BY <1>1, <1>3, <1>4 DEF Inv, BatchInv
<1>6. SentPaths' = SentPaths
  BY DEF SentPaths
<1>7. \A t \in Segs : Passed(t)' = Passed(t)
  BY <1>1, <1>6 DEF Passed
<1>8. StreamInv'
  BY <1>1, <1>6, <1>7 DEF Inv, StreamInv
<1>9. Answer' = Answer
  BY <1>1 DEF Answer
<1> QED BY <1>2, <1>5, <1>8, <1>9, StutterStep DEF Step, Inv

(* Every step keeps the invariant and is a step of SearchSpec or a stutter. *)
LEMMA NextStep ==
  ASSUME Inv, [Next]_vars
  PROVE  Step
<1>1. CASE \E s \in Segs : StartSegment(s) \/ SearchSegment(s) \/ TagMatch(s) \/ EndSegment(s)
  BY <1>1, StartSegmentStep, SearchSegmentStep, TagMatchStep, EndSegmentStep
<1>2. CASE Merge
  BY <1>2, MergeStep
<1>3. CASE SendPage
  BY <1>3, AsideStep DEF SendPage, batchVars
<1>4. CASE StreamSegment \/ StreamMatch \/ NextSegment \/ EndStream
  BY <1>4, StreamSegmentStep, StreamMatchStep, NextSegmentStep, EndStreamStep
<1>5. CASE Bridge \/ BridgeEnds \/ WriteFrame \/ LoopEnds \/ Disconnect
  BY <1>5, AsideStep DEF Bridge, BridgeEnds, WriteFrame, LoopEnds, Disconnect, batchVars
<1>6. CASE Reply
  BY <1>6, AsideStep DEF Reply, batchVars, streamVars
<1>7. CASE UNCHANGED vars
  BY <1>7, AsideStep DEF vars, batchVars, streamVars
<1> QED BY <1>1, <1>2, <1>3, <1>4, <1>5, <1>6, <1>7 DEF Next

\* A search keeps the promise of SearchSpec (multi_search.rs), whether it is
\* a batch search whose workers share a budget or a streaming one: it reports
\* live matches only, no path twice and never more than the limit; a stream,
\* and a batch search of a snapshot in which no path has two live copies,
\* reports the newest copy of every path and ends without an error only at
\* the limit or with every path reported.
THEOREM SearchKeepsPromise == Spec => KeepsPromise
<1>1. Init => Inv /\ Promise!SpecInit
  BY InitHolds
<1>2. Inv /\ [Next]_vars => Inv' /\ [Promise!SpecNext]_(Promise!specVars)
  BY NextStep DEF Step
<1> QED BY <1>1, <1>2, PTL DEF Spec, KeepsPromise, Promise!SearchPromise

-----------------------------------------------------------------------------
(* The pages of a batch search. *)

PageInv ==
  Batch => /\ reply = "done" => search = "ok" /\ total = Len(Paginate(merged))
           /\ search = "ok" => /\ Len(merged) \in Nat
                               /\ Unambiguous => Len(merged) = Min(Limit, Cardinality(Hits))

\* The matches of the snapshot are finitely many.
LEMMA HitsFinite ==
  ASSUME TypeInv
  PROVE  IsFiniteSet(Hits)
<1> DEFINE Of(s) == {[path |-> index[s].files[i].path, seg |-> s] : i \in AllMatches(s)}
           All == {Of(s) : s \in Segs}
<1>1. ASSUME NEW s \in Segs PROVE IsFiniteSet(Of(s))
  <2> DEFINE f == [i \in AllMatches(s) |-> [path |-> index[s].files[i].path, seg |-> s]]
  <2>1. IsFiniteSet(AllMatches(s))
    BY Snapshot
  <2>2. f \in Surjection(AllMatches(s), Of(s))
    BY DEF Surjection
  <2> HIDE DEF Of, f
  <2> QED BY <2>1, <2>2, FS_Surjection
<1>2. IsFiniteSet(Segs)
  BY Snapshot, FS_Interval DEF Segs
<1>3. IsFiniteSet(All)
  <2> DEFINE g == [s \in Segs |-> Of(s)]
  <2> HIDE DEF Of
  <2>1. g \in Surjection(Segs, All)
    BY DEF Surjection
  <2> HIDE DEF g, All
  <2> QED BY <1>2, <2>1, FS_Surjection
<1>4. \A T \in All : IsFiniteSet(T)
  <2> HIDE DEF Of
  <2> QED BY <1>1
<1>5. Hits = UNION All
  BY DEF Hits
<1> HIDE DEF All
<1> QED BY <1>3, <1>4, <1>5, FS_UNION

\* Of paths with one live copy, the merge keeps as many as there are, or as it may.
LEMMA MergeCounts ==
  ASSUME Inv, Merge, search' = "ok"
  PROVE  /\ Len(merged') \in Nat
         /\ Unambiguous => Len(merged') = Min(Limit, Cardinality(Hits))
<1>1. /\ UNCHANGED <<index, request>> /\ Batch /\ search = "running"
      /\ merged' = SubSeq(Ranked(Winners), 1, Min(Limit, Cardinality(Winners)))
  BY DEF Merge
<1>2. /\ Hits' = Hits /\ Batch' = Batch /\ Limit' = Limit /\ Cap = Limit /\ Limit \in Nat
  BY <1>1, Fixed, Snapshot DEF Inv, Cap
<1>3. Answer' = Shown(merged') /\ Answer = {}
  <2>1. merged = <<>> /\ Len(merged) = 0
    BY <1>1 DEF Inv, BatchInv
  <2>2. Answer = {}
    BY <1>1, <2>1 DEF Answer
  <2>3. Answer' = Shown(merged')
    BY <1>1, <1>2 DEF Answer, Shown
  <2> QED BY <2>2, <2>3
<1>4. IsFiniteSet(Tagged) /\ Cardinality(Tagged) <= Limit
  <2>1. /\ IsFiniteSet(Tagged) /\ Cardinality(Tagged) + budget = Limit /\ budget \in Nat
        /\ Cardinality(Tagged) \in Nat
    BY <1>1, FS_CardinalityType DEF Inv, TypeInv, BatchInv
  <2> QED BY <1>2, <2>1
<1>5. /\ Len(merged') = Cardinality(Winners) /\ IsFiniteSet(Answer')
      /\ Cardinality(Answer') = Cardinality(Winners) /\ Cardinality(Winners) \in Nat
  BY <1>1, <1>3, <1>4, MergedAnswer, WinnersAreOne DEF Inv
<1>6. Promise!SpecNext
  BY <1>1, MergeStep DEF Step, Promise!specVars
<1>7. PICK new \in SUBSET Hits, end \in {"running", "ok", "error"} : Promise!Report(new, end)
  BY <1>6 DEF Promise!SpecNext
<1>8. /\ Answer' = new /\ end = "ok" /\ Cardinality(Answer') <= Cap
      /\ Unambiguous => Promise!Complete(Answer')
  BY <1>3, <1>7, SameCount DEF Promise!Report, Cap
<1>9. ASSUME Unambiguous PROVE Len(merged') = Min(Limit, Cardinality(Hits))
  <2>1. Answer' \subseteq Hits /\ IsFiniteSet(Hits) /\ Cardinality(Hits) \in Nat
    BY <1>8, HitsFinite, FS_CardinalityType DEF Inv
  <2>2. Cardinality(Answer') <= Cardinality(Hits)
    BY <2>1, FS_Subset
  <2>3. Cardinality(Answer') = Cap \/ \A h \in Hits : \E k \in Answer' : k.path = h.path
    BY <1>8, <1>9, SameCount DEF Promise!Complete, Cap
  <2>4. CASE Cardinality(Answer') = Cap
    BY <1>2, <1>5, <2>1, <2>2, <2>4 DEF Min
  <2>5. CASE \A h \in Hits : \E k \in Answer' : k.path = h.path
    <3>1. ASSUME NEW h \in Hits PROVE h \in Answer'
      <4>1. PICK k \in Answer' : k.path = h.path
        BY <2>5
      <4>2. k \in Hits
        BY <2>1
      <4>3. PICK s \in Segs : \E i \in AllMatches(s) : h = [path |-> index[s].files[i].path, seg |-> s]
        BY DEF Hits
      <4>4. PICK i \in AllMatches(s) : h = [path |-> index[s].files[i].path, seg |-> s]
        BY <4>3
      <4>5. PICK t \in Segs : \E j \in AllMatches(t) : k = [path |-> index[t].files[j].path, seg |-> t]
        BY <4>2 DEF Hits
      <4>6. PICK j \in AllMatches(t) : k = [path |-> index[t].files[j].path, seg |-> t]
        BY <4>5
      <4>7. index[s].files[i].path = index[t].files[j].path
        BY <4>1, <4>4, <4>6
      <4>8. s = t /\ i = j
        BY <1>9, <4>7 DEF Unambiguous
      <4> QED BY <4>4, <4>6, <4>8
    <3>2. Answer' = Hits
      BY <2>1, <3>1
    <3> QED BY <1>2, <1>5, <1>8, <2>1, <3>2 DEF Min
  <2> QED BY <2>3, <2>4, <2>5
<1> QED BY <1>5, <1>9

(* A step that leaves the merged list and the reply alone keeps the invariant of pages. *)
LEMMA PageQuiet ==
  ASSUME PageInv, UNCHANGED <<index, request, search, merged, reply, total>>
  PROVE  PageInv'
<1>1. /\ Batch' = Batch /\ Limit' = Limit /\ Unambiguous' = Unambiguous /\ Hits' = Hits
      /\ Page' = Page /\ PerPage' = PerPage
  BY Fixed
<1>2. Paginate(merged)' = Paginate(merged)
  BY <1>1 DEF Paginate
<1> QED BY <1>1, <1>2 DEF PageInv

(* Every step keeps the invariant of pages. *)
LEMMA PageStep ==
  ASSUME Inv, PageInv, [Next]_vars
  PROVE  PageInv'
<1>1. CASE \E s \in Segs : StartSegment(s) \/ SearchSegment(s) \/ TagMatch(s) \/ EndSegment(s)
  BY <1>1, PageQuiet DEF StartSegment, SearchSegment, TagMatch, EndSegment, streamVars
<1>2. CASE Merge
  <2>1. UNCHANGED <<index, request, reply, total>> /\ Batch /\ search = "running"
    BY <1>2 DEF Merge, streamVars
  <2>2. /\ Batch' = Batch /\ Limit' = Limit /\ Unambiguous' = Unambiguous /\ Hits' = Hits
    BY <2>1, Fixed
  <2>3. reply # "done"
    BY <2>1 DEF PageInv
  <2> QED BY <1>2, <2>1, <2>2, <2>3, MergeCounts DEF PageInv
<1>3. CASE SendPage
  <2>1. /\ UNCHANGED <<index, request, search, merged>> /\ (reply' = "done" => search = "ok")
        /\ total' = Len(Paginate(merged))
    BY <1>3 DEF SendPage, batchVars
  <2>2. /\ Batch' = Batch /\ Limit' = Limit /\ Unambiguous' = Unambiguous /\ Hits' = Hits
        /\ Page' = Page /\ PerPage' = PerPage
    BY <2>1, Fixed
  <2>3. Paginate(merged)' = Paginate(merged)
    BY <2>1, <2>2 DEF Paginate
  <2> QED BY <2>1, <2>2, <2>3 DEF PageInv
<1>4. CASE \/ StreamSegment \/ StreamMatch \/ NextSegment \/ EndStream
           \/ Bridge \/ BridgeEnds \/ WriteFrame \/ LoopEnds \/ Reply \/ Disconnect
  <2>1. Stream /\ UNCHANGED <<index, request>>
    BY <1>4 DEF StreamSegment, StreamMatch, NextSegment, EndStream, Bridge, BridgeEnds, WriteFrame,
                LoopEnds, Reply, Disconnect
  <2>2. ~Batch'
    BY <2>1, Fixed, Snapshot DEF Inv
  <2> QED BY <2>2 DEF PageInv
<1>5. CASE UNCHANGED vars
  BY <1>5, PageQuiet DEF vars, batchVars, streamVars
<1> QED BY <1>1, <1>2, <1>3, <1>4, <1>5 DEF Next

(* A merged list as long as the limit allows gives full pages. *)
LEMMA PageCount ==
  ASSUME TypeInv, PageInv
  PROVE  PagesFull
<1> SUFFICES ASSUME reply = "done", Batch, Unambiguous
             PROVE  total = Min(PerPage, Max(Cardinality(Hits), (Page - 1) * PerPage) - (Page - 1) * PerPage)
  BY DEF PagesFull
<1> DEFINE H == Cardinality(Hits)
           a == (Page - 1) * PerPage
           L == Len(merged)
<1>1. PerPage \in Nat /\ Page \in Nat \ {0} /\ Page - 1 \in Nat
  BY Snapshot
<1>2. H \in Nat
  BY HitsFinite, FS_CardinalityType
<1>3. a \in Nat
  BY <1>1
<1>4. Page * PerPage = a + PerPage
  BY <1>1
<1>5. Limit = a + PerPage
  BY <1>4 DEF Limit
<1>6. /\ search = "ok" /\ total = Len(Paginate(merged)) /\ L \in Nat
      /\ L = Min(Limit, H)
  BY DEF PageInv
<1> HIDE DEF H, a, L
<1>7. Min(Page * PerPage, L) = L
  BY <1>1, <1>2, <1>3, <1>4, <1>5, <1>6 DEF Min
<1>8. Paginate(merged) = SubSeq(merged, a + 1, L)
  BY <1>7 DEF Paginate, a, L
<1>9. Len(Paginate(merged)) = IF a + 1 <= L THEN L - (a + 1) + 1 ELSE 0
  <2> DEFINE S == {merged[i] : i \in a + 1 .. L}
  <2>1. \A i \in a + 1 .. L : merged[i] \in S
    OBVIOUS
  <2>2. a + 1 \in Int /\ L \in Int
    BY <1>3, <1>6
  <2> HIDE DEF S
  <2> QED BY <1>8, <2>1, <2>2, SubSeqProperties
<1>10. Len(Paginate(merged)) = Min(PerPage, Max(H, a) - a)
  BY <1>1, <1>2, <1>3, <1>5, <1>6, <1>9 DEF Min, Max
<1> QED BY <1>6, <1>10 DEF H, a

\* Page n of a batch search (paginate in daemon.rs) is full as long as more
\* than n pages' worth of files match, and holds what is left on the last
\* page, although the search that fills it stops at n pages' worth of matches
\* and its workers take them from one budget in any order.
THEOREM PagesAreFull == Spec => []PagesFull
<1>1. Init => Inv /\ PageInv
  <2>1. Init => search = "running" /\ reply = "none"
    BY DEF Init
  <2> QED BY <2>1, InitHolds DEF PageInv
<1>2. Inv /\ PageInv /\ [Next]_vars => Inv' /\ PageInv'
  BY NextStep, PageStep DEF Step
<1>3. Inv /\ PageInv => PagesFull
  BY PageCount DEF Inv
<1> QED BY <1>1, <1>2, <1>3, PTL DEF Spec

-----------------------------------------------------------------------------
(* What a stream's client receives. *)

Line    == Nat \X Nat
Message == [path : Nat, seg : Nat, lines : Nat]

\* What has left the bridge.
Out == client \o frames

\* Every message is of a file sent, with the lines of its first copy, and of another file than the rest.
ChannelInv ==
  /\ channel \in Seq(Message)
  /\ \A i \in 1 .. Len(channel) :
       Seen(channel[i]) \in sent /\ channel[i].lines = LinesOf(Seen(channel[i]))
  /\ \A i, j \in 1 .. Len(channel) : i # j => channel[i].path # channel[j].path

\* What has left the bridge are lines of files sent, file by file, of none that is still in the
\* channel and of each that is not.
OutInv(o) ==
  /\ o \in Seq(Line)
  /\ \A i \in 1 .. Len(o) : \E h \in sent :
       h.path \in request.glob /\ o[i][1] = h.path /\ o[i][2] \in 1 .. LinesOf(h)
  /\ \A i, j \in 1 .. Len(o) : i < j /\ o[i][1] = o[j][1] => o[i][2] < o[j][2]
  /\ \A i \in 1 .. Len(o), j \in 1 .. Len(channel) : o[i][1] # channel[j].path
  /\ \A h \in sent : h.path \in request.glob =>
       \/ \E j \in 1 .. Len(channel) : Seen(channel[j]) = h
       \/ \A n \in 1 .. LinesOf(h) : \E i \in 1 .. Len(o) : o[i] = <<h.path, n>>

ClientInv ==
  Stream =>
    /\ ~bridging => channel = <<>> /\ search # "running"
    /\ reply = "done" => ~writing /\ ~bridging
    /\ ChannelInv
    /\ connected => /\ client \in Seq(Line) /\ frames \in Seq(Line) /\ total = Len(client)
                    /\ ~writing => frames = <<>> /\ ~bridging
                    /\ OutInv(Out)

(* The lines of a match only change with the snapshot. *)
LEMMA LinesKept ==
  ASSUME UNCHANGED <<index, request>>
  PROVE  \A h : LinesOf(h)' = LinesOf(h)
  BY DEF LinesOf, AllMatches

(* Nothing is on its way at the start. *)
LEMMA ClientInit ==
  ASSUME Init
  PROVE  ClientInv
<1>1. /\ bridging = TRUE /\ writing = TRUE /\ reply = "none" /\ channel = <<>> /\ client = <<>>
      /\ frames = <<>> /\ total = 0 /\ sent = {}
  BY DEF Init
<1>2. <<>> \in Seq(Line) /\ <<>> \in Seq(Message) /\ Len(<<>>) = 0
  OBVIOUS
<1>3. Out = <<>>
  BY <1>1 DEF Out
<1> QED BY <1>1, <1>2, <1>3 DEF ClientInv, ChannelInv, OutInv

(* A step that moves nothing between search, channels and client keeps the invariant if
   whoever ends has nothing left to pass on. *)
LEMMA ClientQuiet ==
  ASSUME ClientInv, UNCHANGED <<index, request, sent, channel, frames, client, total>>,
         search = "running" \/ search' = search, connected' => connected,
         ~bridging' => channel = <<>> /\ search' # "running",
         reply' = "done" => ~writing' /\ ~bridging',
         connected' /\ ~writing' => frames = <<>> /\ ~bridging'
  PROVE  ClientInv'
<1>1. Stream' = Stream /\ \A h : LinesOf(h)' = LinesOf(h)
  BY Fixed, LinesKept
<1>2. ChannelInv => ChannelInv'
  BY <1>1 DEF ChannelInv
<1>3. Out' = Out /\ (OutInv(Out) => OutInv(Out)')
  <2>1. Out' = Out
    BY DEF Out
  <2> QED BY <1>1, <2>1 DEF OutInv
<1> QED BY <1>1, <1>2, <1>3 DEF ClientInv

\* The first copy of a path in its segment is the one that is sent.
LEMMA SentLines ==
  ASSUME TypeInv, NEW s \in Segs, NEW i \in AllMatches(s),
         \A j \in AllMatches(s) : index[s].files[j].path = index[s].files[i].path => i <= j
  PROVE  LinesOf([path |-> index[s].files[i].path, seg |-> s]) = index[s].files[i].lines
<1> DEFINE p == index[s].files[i].path
           copies == {j \in AllMatches(s) : index[s].files[j].path = p}
<1>1. AllMatches(s) \in SUBSET Nat
  BY Snapshot
<1>2. i \in copies /\ \A j \in copies : i <= j
  OBVIOUS
<1>3. \A j \in copies : (\A k \in copies : j <= k) => j = i
  BY <1>1, <1>2
<1>4. (CHOOSE j \in copies : \A k \in copies : j <= k) = i
  BY <1>2, <1>3
<1> QED BY <1>4 DEF LinesOf

(* A match sent lies last in the channel to the bridge. *)
LEMMA ClientStreamMatch ==
  ASSUME Inv, ClientInv, StreamMatch
  PROVE  ClientInv'
<1>0. /\ UNCHANGED <<index, request, reply, frames, bridging, writing, total, client, connected>>
      /\ Stream /\ search = "running" /\ seg > 0 /\ worker[seg] = "tag" /\ found[seg] # <<>>
  BY DEF StreamMatch
<1>1. Stream' = Stream /\ \A h : LinesOf(h)' = LinesOf(h)
  BY <1>0, Fixed, LinesKept
<1>2. seg \in Segs /\ seg \in Nat
  BY <1>0, Snapshot DEF Inv, TypeInv, Segs
<1> DEFINE M == AllMatches(seg)
           i0 == Head(found[seg])
           p == index[seg].files[i0].path
           m == Record(seg, i0)
<1>3. M \in SUBSET Nat /\ found[seg] \in Seq(M) /\ Increasing(found[seg])
  BY <1>2, Snapshot DEF Inv, TypeInv, Split
<1>4. i0 \in M /\ Len(found[seg]) \in Nat /\ Len(found[seg]) >= 1 /\ i0 = found[seg][1]
  BY <1>0, <1>3, HeadOf
<1>5. bridging
  BY <1>0 DEF ClientInv
<1>6. m.path = p /\ m.seg = seg /\ m.lines = index[seg].files[i0].lines /\ m \in Message
  <2>1. index[seg].files[i0] \in Candidate
    BY <1>2, <1>4, Snapshot DEF Inv
  <2>2. index[seg].files[i0].path \in Path /\ index[seg].files[i0].lines \in Nat
    BY <2>1 DEF Candidate
  <2>3. Path \subseteq Nat
    BY PipelineAssumption
  <2>4. p \in Nat
    BY <2>2, <2>3
  <2> QED BY <1>2, <2>2, <2>4 DEF Record, Message
<1>7. CASE p \in SentPaths
  <2>1. UNCHANGED <<sent, channel, search>>
    BY <1>6, <1>7 DEF StreamMatch
  <2> QED BY <1>0, <1>5, <2>1, ClientQuiet DEF ClientInv
<1>8. CASE p \notin SentPaths
  <2> DEFINE new == [path |-> p, seg |-> seg]
  <2>1. sent' = sent \cup {new} /\ channel' = Append(channel, m)
    BY <1>6, <1>8 DEF StreamMatch
  <2>2. Seen(m) = new /\ new.path = p
    BY <1>6 DEF Seen
  <2>3. LinesOf(new) = m.lines
    <3>1. ASSUME NEW j \in M, index[seg].files[j].path = p PROVE i0 <= j
      <4>1. Holds(found[seg], j)
        BY <1>0, <1>8, <3>1 DEF Inv, StreamInv
      <4>2. PICK n \in 1 .. Len(found[seg]) : found[seg][n] = j
        BY <4>1 DEF Holds
      <4>3. n = 1 \/ found[seg][1] < found[seg][n]
        BY <1>3, <1>4 DEF Increasing
      <4> QED BY <1>3, <1>4, <4>2, <4>3
    <3> QED BY <1>2, <1>4, <1>6, <3>1, SentLines DEF Inv
  <2>4. \A h \in sent : h.path # p
    BY <1>8 DEF SentPaths
  <2>5. ChannelInv /\ channel \in Seq(Message) /\ Len(channel) \in Nat
    BY <1>0 DEF ClientInv, ChannelInv
  <2> HIDE DEF m, new, p
  <2>6. /\ channel' \in Seq(Message) /\ Len(channel') = Len(channel) + 1
        /\ channel'[Len(channel) + 1] = m /\ \A i \in 1 .. Len(channel) : channel'[i] = channel[i]
    BY <1>6, <2>1, <2>5
  <2>7. \A i \in 1 .. Len(channel) : channel[i].path # p
    <3> SUFFICES ASSUME NEW i \in 1 .. Len(channel) PROVE channel[i].path # p
      OBVIOUS
    <3>1. Seen(channel[i]) \in sent /\ Seen(channel[i]).path = channel[i].path
      BY <2>5 DEF ChannelInv, Seen
    <3> QED BY <2>4, <3>1
  <2>8. ChannelInv'
    <3>1. ASSUME NEW i \in 1 .. Len(channel')
          PROVE  Seen(channel'[i]) \in sent' /\ channel'[i].lines = LinesOf(Seen(channel'[i]))
      <4>1. CASE i \in 1 .. Len(channel)
        BY <2>1, <2>5, <2>6, <4>1 DEF ChannelInv
      <4>2. CASE i = Len(channel) + 1
        BY <2>1, <2>2, <2>3, <2>6, <4>2
      <4> QED BY <2>5, <2>6, <4>1, <4>2
    <3>2. ASSUME NEW i \in 1 .. Len(channel'), NEW j \in 1 .. Len(channel'), i # j
          PROVE  channel'[i].path # channel'[j].path
      <4>1. CASE i \in 1 .. Len(channel) /\ j \in 1 .. Len(channel)
        BY <2>5, <2>6, <3>2, <4>1 DEF ChannelInv
      <4>2. CASE i = Len(channel) + 1 /\ j \in 1 .. Len(channel)
        BY <1>6, <2>6, <2>7, <4>2
      <4>3. CASE j = Len(channel) + 1 /\ i \in 1 .. Len(channel)
        BY <1>6, <2>6, <2>7, <4>3
      <4> QED BY <2>5, <2>6, <3>2, <4>1, <4>2, <4>3
    <3> QED BY <1>1, <2>6, <3>1, <3>2 DEF ChannelInv
  <2>9. Out' = Out
    BY <1>0 DEF Out
  <2>10. ASSUME NEW o, OutInv(o) PROVE OutInv(o)'
    <3>1. \A i \in 1 .. Len(o) : \E h \in sent :
                h.path \in request.glob /\ o[i][1] = h.path /\ o[i][2] \in 1 .. LinesOf(h)
      BY <2>10 DEF OutInv
    <3>2. \A i \in 1 .. Len(o) : o[i][1] # p
      BY <2>4, <3>1
    <3>3. ASSUME NEW i \in 1 .. Len(o), NEW j \in 1 .. Len(channel') PROVE o[i][1] # channel'[j].path
      <4>1. CASE j \in 1 .. Len(channel)
        BY <2>6, <2>10, <4>1 DEF OutInv
      <4>2. CASE j = Len(channel) + 1
        BY <1>6, <2>6, <3>2, <4>2
      <4> QED BY <2>5, <2>6, <4>1, <4>2
    <3>4. ASSUME NEW h \in sent', h.path \in request.glob
          PROVE  \/ \E j \in 1 .. Len(channel') : Seen(channel'[j]) = h
                 \/ \A n \in 1 .. LinesOf(h) : \E i \in 1 .. Len(o) : o[i] = <<h.path, n>>
      <4>1. CASE h \in sent
        <5>1. \A j \in 1 .. Len(channel) : j \in 1 .. Len(channel')
          BY <2>5, <2>6
        <5> QED BY <2>6, <2>10, <3>4, <4>1, <5>1 DEF OutInv
      <4>2. CASE h = new
        <5>1. Len(channel) + 1 \in 1 .. Len(channel')
          BY <2>5, <2>6
        <5> QED BY <2>2, <2>6, <4>2, <5>1
      <4> QED BY <2>1, <4>1, <4>2
    <3>5. \A i \in 1 .. Len(o) : \E h \in sent' :
            h.path \in request.glob /\ o[i][1] = h.path /\ o[i][2] \in 1 .. LinesOf(h)
      BY <2>1, <3>1
    <3> QED BY <1>0, <1>1, <2>10, <3>3, <3>4, <3>5 DEF OutInv
  <2>11. ASSUME OutInv(Out) PROVE OutInv(Out)'
    <3>1. PICK o : o = Out
      OBVIOUS
    <3>2. OutInv(o)'
      BY <2>10, <2>11, <3>1
    <3> QED BY <2>9, <3>1, <3>2
  <2> QED BY <1>0, <1>1, <1>5, <2>8, <2>11 DEF ClientInv
<1> QED BY <1>7, <1>8

(* The bridge turns a match into its lines, or into nothing where the glob excludes its
   path. *)
LEMMA FormattedLines ==
  ASSUME NEW m \in Message
  PROVE  /\ Formatted(m) \in Seq(Line) /\ Len(Formatted(m)) \in Nat
         /\ m.path \in request.glob => Len(Formatted(m)) = m.lines
         /\ m.path \notin request.glob => Len(Formatted(m)) = 0
         /\ \A n \in 1 .. Len(Formatted(m)) : Formatted(m)[n] = <<m.path, n>>
<1>1. m.path \in Nat /\ m.lines \in Nat
  BY DEF Message
<1>2. CASE m.path \in request.glob
  <2>1. Formatted(m) = [n \in 1 .. m.lines |-> <<m.path, n>>]
    BY <1>2 DEF Formatted
  <2>2. Formatted(m) \in [1 .. m.lines -> Line]
    BY <1>1, <2>1 DEF Line
  <2>3. Formatted(m) \in Seq(Line) /\ Len(Formatted(m)) = m.lines
    BY <1>1, <2>2
  <2> QED BY <1>1, <1>2, <2>1, <2>3
<1>3. CASE m.path \notin request.glob
  <2>1. Formatted(m) = <<>> /\ <<>> \in Seq(Line) /\ Len(<<>>) = 0
    BY <1>3 DEF Formatted
  <2> QED BY <1>3, <2>1
<1> QED BY <1>2, <1>3

TakesOne == channel # <<>> /\ channel' = Tail(channel)

\* A file leaves the channel.
LEMMA BridgeOut ==
  ASSUME ChannelInv, TakesOne, UNCHANGED <<index, request, sent>>,
         NEW o, OutInv(o), NEW q, q = o \o Formatted(Head(channel))
  PROVE  ChannelInv' /\ OutInv(q)'
<1> DEFINE m == Head(channel)
           F == Formatted(m)
           o2 == o \o F
<1>1. \A h : LinesOf(h)' = LinesOf(h)
  BY LinesKept
<1>2. /\ channel \in Seq(Message) /\ Len(channel) \in Nat /\ Len(channel) >= 1 /\ m = channel[1]
      /\ m \in Message /\ channel' \in Seq(Message) /\ Len(channel') = Len(channel) - 1
      /\ \A j \in 1 .. Len(channel') : channel'[j] = channel[j + 1]
  <2>1. channel \in Seq(Message)
    BY DEF ChannelInv
  <2> QED BY <2>1 DEF TakesOne
<1>3. \A j \in 1 .. Len(channel') : j + 1 \in 1 .. Len(channel) /\ j + 1 # 1
  BY <1>2
<1>4. 1 \in 1 .. Len(channel)
  BY <1>2
<1>5. Seen(m) \in sent /\ m.lines = LinesOf(Seen(m)) /\ Seen(m).path = m.path
  BY <1>2, <1>4 DEF ChannelInv, Seen
<1>6. ChannelInv'
  <2>1. ASSUME NEW i \in 1 .. Len(channel')
        PROVE  Seen(channel'[i]) \in sent /\ channel'[i].lines = LinesOf(Seen(channel'[i]))
    BY <1>2, <1>3 DEF ChannelInv
  <2>2. ASSUME NEW i \in 1 .. Len(channel'), NEW j \in 1 .. Len(channel'), i # j
        PROVE  channel'[i].path # channel'[j].path
    <3>1. i + 1 # j + 1
      BY <2>2
    <3> QED BY <1>2, <1>3, <3>1 DEF ChannelInv
  <2> QED BY <1>1, <1>2, <2>1, <2>2 DEF ChannelInv
<1>7. \A j \in 1 .. Len(channel') : channel'[j].path # m.path
  BY <1>2, <1>3, <1>4 DEF ChannelInv
<1>8. /\ F \in Seq(Line) /\ Len(F) \in Nat
      /\ m.path \in request.glob => Len(F) = m.lines
      /\ m.path \notin request.glob => Len(F) = 0
      /\ \A n \in 1 .. Len(F) : F[n] = <<m.path, n>>
  BY <1>2, FormattedLines
<1> HIDE DEF F, m
<1>9. o \in Seq(Line) /\ Len(o) \in Nat
  BY DEF OutInv
<1>10. /\ o2 \in Seq(Line) /\ Len(o2) = Len(o) + Len(F)
       /\ \A i \in 1 .. Len(o) : o2[i] = o[i]
       /\ \A n \in 1 .. Len(F) : o2[Len(o) + n] = <<m.path, n>>
  <2>1. /\ o2 \in Seq(Line) /\ Len(o2) = Len(o) + Len(F)
        /\ \A i \in 1 .. Len(o) + Len(F) : o2[i] = IF i <= Len(o) THEN o[i] ELSE F[i - Len(o)]
    BY <1>8, <1>9, ConcatProperties
  <2> HIDE DEF o2
  <2>2. ASSUME NEW i \in 1 .. Len(o) PROVE o2[i] = o[i]
    <3>1. i \in 1 .. Len(o) + Len(F) /\ i <= Len(o)
      BY <1>8, <1>9
    <3> QED BY <2>1, <3>1
  <2>3. ASSUME NEW n \in 1 .. Len(F) PROVE o2[Len(o) + n] = <<m.path, n>>
    <3>1. Len(o) + n \in 1 .. Len(o) + Len(F) /\ ~(Len(o) + n <= Len(o)) /\ (Len(o) + n) - Len(o) = n
      BY <1>8, <1>9
    <3>2. o2[Len(o) + n] = F[n]
      BY <2>1, <3>1
    <3> QED BY <1>8, <3>2
  <2> QED BY <2>1, <2>2, <2>3
<1> HIDE DEF o2
<1>11. ASSUME NEW i \in 1 .. Len(o2)
       PROVE  i \in 1 .. Len(o) \/ \E n \in 1 .. Len(F) : i = Len(o) + n
  <2>1. CASE i <= Len(o)
    BY <1>9, <2>1
  <2>2. CASE ~(i <= Len(o))
    <3>1. i - Len(o) \in 1 .. Len(F) /\ i = Len(o) + (i - Len(o))
      BY <1>8, <1>9, <1>10, <2>2
    <3> QED BY <3>1
  <2> QED BY <2>1, <2>2
<1>12. \A n \in 1 .. Len(F) : /\ o2[Len(o) + n][1] = m.path /\ o2[Len(o) + n][2] = n
                              /\ m.path \in request.glob /\ n \in 1 .. m.lines
  BY <1>8, <1>10
<1>13. ASSUME NEW i \in 1 .. Len(o2)
       PROVE  \E h \in sent : h.path \in request.glob /\ o2[i][1] = h.path /\ o2[i][2] \in 1 .. LinesOf(h)
  <2>1. CASE i \in 1 .. Len(o)
    BY <1>10, <2>1 DEF OutInv
  <2>2. CASE \E n \in 1 .. Len(F) : i = Len(o) + n
    BY <1>5, <1>12, <2>2
  <2> QED BY <1>11, <2>1, <2>2
<1>14. \A i \in 1 .. Len(o) : o[i][1] # m.path
  BY <1>2, <1>4 DEF OutInv
<1>15. ASSUME NEW i \in 1 .. Len(o2), NEW j \in 1 .. Len(o2), i < j, o2[i][1] = o2[j][1]
       PROVE  o2[i][2] < o2[j][2]
  <2>1. CASE i \in 1 .. Len(o) /\ j \in 1 .. Len(o)
    BY <1>10, <1>15, <2>1 DEF OutInv
  <2>2. CASE i \in 1 .. Len(o) /\ \E n \in 1 .. Len(F) : j = Len(o) + n
    BY <1>10, <1>12, <1>14, <1>15, <2>2
  <2>3. CASE ~(i \in 1 .. Len(o)) /\ j \in 1 .. Len(o)
    BY <1>9, <1>15, <2>3
  <2>4. ASSUME NEW k \in 1 .. Len(F), NEW n \in 1 .. Len(F), i = Len(o) + k, j = Len(o) + n
        PROVE  o2[i][2] < o2[j][2]
    <3>1. k < n
      BY <1>8, <1>9, <1>15, <2>4
    <3> QED BY <1>12, <2>4, <3>1
  <2> QED BY <1>11, <2>1, <2>2, <2>3, <2>4
<1>16. ASSUME NEW i \in 1 .. Len(o2), NEW j \in 1 .. Len(channel')
       PROVE  o2[i][1] # channel'[j].path
  <2>1. CASE i \in 1 .. Len(o)
    BY <1>2, <1>3, <1>10, <2>1 DEF OutInv
  <2>2. CASE \E n \in 1 .. Len(F) : i = Len(o) + n
    BY <1>7, <1>12, <2>2
  <2> QED BY <1>11, <2>1, <2>2
<1>17. ASSUME NEW h \in sent, h.path \in request.glob
       PROVE  \/ \E j \in 1 .. Len(channel') : Seen(channel'[j]) = h
              \/ \A n \in 1 .. LinesOf(h) : \E i \in 1 .. Len(o2) : o2[i] = <<h.path, n>>
  <2>1. CASE h = Seen(m)
    <3>1. Len(F) = LinesOf(h) /\ h.path = m.path
      BY <1>5, <1>8, <1>17, <2>1
    <3>2. \A n \in 1 .. Len(F) : Len(o) + n \in 1 .. Len(o2)
      BY <1>8, <1>9, <1>10
    <3> QED BY <1>10, <3>1, <3>2
  <2>2. ASSUME NEW j \in 1 .. Len(channel), Seen(channel[j]) = h, h # Seen(m)
        PROVE  \E k \in 1 .. Len(channel') : Seen(channel'[k]) = h
    <3>1. j # 1
      BY <1>2, <2>2
    <3>2. j - 1 \in 1 .. Len(channel') /\ (j - 1) + 1 = j
      BY <1>2, <3>1
    <3>3. channel'[j - 1] = channel[j]
      BY <1>2, <3>2
    <3> QED BY <2>2, <3>2, <3>3
  <2>3. CASE \A n \in 1 .. LinesOf(h) : \E i \in 1 .. Len(o) : o[i] = <<h.path, n>>
    <3>1. \A i \in 1 .. Len(o) : i \in 1 .. Len(o2)
      BY <1>8, <1>9, <1>10
    <3> QED BY <1>10, <2>3, <3>1
  <2>4. \/ \E j \in 1 .. Len(channel) : Seen(channel[j]) = h
        \/ \A n \in 1 .. LinesOf(h) : \E i \in 1 .. Len(o) : o[i] = <<h.path, n>>
    BY <1>17 DEF OutInv
  <2> QED BY <2>1, <2>2, <2>3, <2>4
<1>18. OutInv(q)'
  <2>1. q = o2
    BY DEF o2, F, m
  <2>2. q \in Seq(Line) /\ sent' = sent /\ request' = request
    BY <1>10, <2>1
  <2>3. \A i \in 1 .. Len(q) : \E h \in sent' :
          h.path \in request'.glob /\ q[i][1] = h.path /\ q[i][2] \in 1 .. LinesOf(h)'
    BY <1>1, <1>13, <2>1, <2>2
  <2>4. \A i, j \in 1 .. Len(q) : i < j /\ q[i][1] = q[j][1] => q[i][2] < q[j][2]
    BY <1>15, <2>1
  <2>5. \A i \in 1 .. Len(q), j \in 1 .. Len(channel') : q[i][1] # channel'[j].path
    BY <1>16, <2>1
  <2>6. \A h \in sent' : h.path \in request'.glob =>
          \/ \E j \in 1 .. Len(channel') : Seen(channel'[j]) = h
          \/ \A n \in 1 .. LinesOf(h)' : \E i \in 1 .. Len(q) : q[i] = <<h.path, n>>
    BY <1>1, <1>17, <2>1, <2>2
  <2> QED BY <2>2, <2>3, <2>4, <2>5, <2>6 DEF OutInv
<1> QED BY <1>6, <1>18

(* The bridge passes the lines on in order, behind those already queued. *)
LEMMA ClientBridge ==
  ASSUME ClientInv, Bridge
  PROVE  ClientInv'
<1>1. /\ UNCHANGED <<index, request, search, reply, sent, bridging, writing, total, client, connected>>
      /\ Stream /\ bridging /\ channel # <<>> /\ channel' = Tail(channel)
      /\ frames' = frames \o Formatted(Head(channel))
  BY DEF Bridge
<1>2. Stream' = Stream
  BY <1>1, Fixed
<1>3. ChannelInv /\ Head(channel) \in Message
  <2>1. ChannelInv /\ channel \in Seq(Message)
    BY <1>1 DEF ClientInv, ChannelInv
  <2> QED BY <1>1, <2>1
<1>4. ASSUME connected
      PROVE  /\ client \in Seq(Line) /\ frames' \in Seq(Line) /\ total = Len(client) /\ writing
             /\ OutInv(Out)' /\ ChannelInv'
  <2>1. /\ client \in Seq(Line) /\ frames \in Seq(Line) /\ total = Len(client) /\ OutInv(Out) /\ writing
    BY <1>1, <1>4 DEF ClientInv
  <2>2. Formatted(Head(channel)) \in Seq(Line)
    BY <1>3, FormattedLines
  <2>3. frames' \in Seq(Line)
    BY <1>1, <2>1, <2>2
  <2>4. Out' = Out \o Formatted(Head(channel))
    BY <1>1, <2>1, <2>2, ConcatAssociative DEF Out
  <2>5. PICK o : o = Out
    OBVIOUS
  <2>6. PICK q : q = Out'
    OBVIOUS
  <2>7. ChannelInv' /\ OutInv(q)'
    BY <1>1, <1>3, <2>1, <2>4, <2>5, <2>6, BridgeOut DEF TakesOne
  <2> QED BY <2>1, <2>3, <2>6, <2>7
<1>5. ChannelInv'
  <2>1. \A h : LinesOf(h)' = LinesOf(h)
    BY <1>1, LinesKept
  <2>2. /\ channel \in Seq(Message) /\ Len(channel) \in Nat /\ channel' \in Seq(Message)
        /\ Len(channel') = Len(channel) - 1 /\ \A j \in 1 .. Len(channel') : channel'[j] = channel[j + 1]
    <3>1. channel \in Seq(Message)
      BY <1>3 DEF ChannelInv
    <3> QED BY <1>1, <3>1
  <2>3. \A j \in 1 .. Len(channel') : j + 1 \in 1 .. Len(channel)
    BY <2>2
  <2>4. \A i, j \in 1 .. Len(channel') : i # j => i + 1 # j + 1
    BY <2>2
  <2> QED BY <1>1, <1>3, <2>1, <2>2, <2>3, <2>4 DEF ChannelInv
<1> QED BY <1>1, <1>2, <1>4, <1>5 DEF ClientInv

(* The writer passes one line on to the client, or finds that it left. *)
LEMMA ClientWriteFrame ==
  ASSUME ClientInv, WriteFrame
  PROVE  ClientInv'
<1>1. /\ UNCHANGED <<index, request, search, reply, sent, channel, bridging, connected>>
      /\ Stream /\ writing /\ frames # <<>> /\ frames' = Tail(frames) /\ total' = total + 1
      /\ connected => client' = Append(client, Head(frames)) /\ writing' = writing
  BY DEF WriteFrame
<1>2. Stream' = Stream /\ \A h : LinesOf(h)' = LinesOf(h)
  BY <1>1, Fixed, LinesKept
<1>3. ChannelInv'
  BY <1>1, <1>2 DEF ClientInv, ChannelInv
<1>4. ASSUME connected
      PROVE  client' \in Seq(Line) /\ frames' \in Seq(Line) /\ total' = Len(client') /\ Out' = Out
  <2>1. /\ client \in Seq(Line) /\ frames \in Seq(Line) /\ total = Len(client)
    BY <1>1, <1>4 DEF ClientInv
  <2>2. /\ Head(frames) \in Line /\ Tail(frames) \in Seq(Line) /\ <<Head(frames)>> \in Seq(Line)
        /\ frames = <<Head(frames)>> \o Tail(frames)
    BY <1>1, <2>1
  <2>3. /\ client' = client \o <<Head(frames)>> /\ client' \in Seq(Line) /\ total' = Len(client')
    <3>1. client' = Append(client, Head(frames))
      BY <1>1, <1>4
    <3>2. Append(client, Head(frames)) = client \o <<Head(frames)>>
      BY <2>1, <2>2, AppendIsConcat
    <3>3. client' \in Seq(Line) /\ Len(client') = Len(client) + 1
      BY <2>1, <2>2, <3>1
    <3> QED BY <1>1, <2>1, <3>1, <3>2, <3>3
  <2>4. (client \o <<Head(frames)>>) \o Tail(frames) = client \o (<<Head(frames)>> \o Tail(frames))
    BY <2>1, <2>2, ConcatAssociative
  <2> QED BY <1>1, <2>2, <2>3, <2>4 DEF Out
<1>5. ASSUME connected, OutInv(Out) PROVE OutInv(Out)'
  <2>1. PICK o : o = Out
    OBVIOUS
  <2>2. OutInv(o)'
    BY <1>1, <1>2, <1>5, <2>1 DEF OutInv
  <2> QED BY <1>4, <1>5, <2>1, <2>2
<1>6. reply # "done"
  BY <1>1 DEF ClientInv
<1> QED BY <1>1, <1>2, <1>3, <1>4, <1>5, <1>6 DEF ClientInv

(* Every step keeps the invariant of the channels. *)
LEMMA ClientStep ==
  ASSUME Inv, ClientInv, [Next]_vars
  PROVE  ClientInv'
<1>1. CASE \/ \E s \in Segs : StartSegment(s) \/ SearchSegment(s) \/ TagMatch(s) \/ EndSegment(s)
           \/ Merge \/ SendPage
  <2>1. Batch /\ UNCHANGED <<index, request>>
    BY <1>1 DEF StartSegment, SearchSegment, TagMatch, EndSegment, Merge, SendPage
  <2>2. ~Stream'
    BY <2>1, Fixed, Snapshot DEF Inv
  <2> QED BY <2>2 DEF ClientInv
<1>2. CASE StreamSegment \/ EndStream
  <2>1. /\ UNCHANGED <<index, request, reply, sent, channel, frames, bridging, writing, total, client,
                       connected>>
        /\ search = "running" /\ Stream
    BY <1>2 DEF StreamSegment, EndStream, streamVars
  <2> QED BY <2>1, ClientQuiet DEF ClientInv
<1>3. CASE StreamMatch
  BY <1>3, ClientStreamMatch
<1>4. CASE NextSegment
  <2>1. /\ UNCHANGED <<index, request, reply, search, sent, channel, frames, bridging, writing, total,
                       client, connected>> /\ Stream
    BY <1>4 DEF NextSegment
  <2> QED BY <2>1, ClientQuiet DEF ClientInv
<1>5. CASE Bridge
  BY <1>5, ClientBridge
<1>6. CASE BridgeEnds
  <2>1. /\ UNCHANGED <<index, request, reply, search, sent, channel, frames, writing, total, client,
                       connected>>
        /\ Stream /\ bridging /\ channel = <<>> /\ search # "running" /\ bridging' = FALSE
    BY <1>6 DEF BridgeEnds
  <2> QED BY <2>1, ClientQuiet DEF ClientInv
<1>7. CASE WriteFrame
  BY <1>7, ClientWriteFrame
<1>8. CASE LoopEnds
  <2>1. /\ UNCHANGED <<index, request, reply, search, sent, channel, frames, bridging, total, client,
                       connected>>
        /\ Stream /\ writing /\ frames = <<>> /\ ~bridging /\ writing' = FALSE
    BY <1>8 DEF LoopEnds
  <2> QED BY <2>1, ClientQuiet DEF ClientInv
<1>9. CASE Reply
  <2>1. /\ UNCHANGED <<index, request, search, sent, channel, frames, bridging, writing, total, client,
                       connected>>
        /\ Stream /\ ~writing /\ ~bridging /\ search # "running"
    BY <1>9 DEF Reply, streamVars
  <2> QED BY <2>1, ClientQuiet DEF ClientInv
<1>10. CASE Disconnect
  <2>1. /\ UNCHANGED <<index, request, reply, search, sent, channel, frames, bridging, writing, total,
                       client>>
        /\ Stream /\ connected' = FALSE
    BY <1>10 DEF Disconnect
  <2> QED BY <2>1, ClientQuiet DEF ClientInv
<1>11. CASE UNCHANGED vars
  <2>1. UNCHANGED <<index, request, reply, search, sent, channel, frames, bridging, writing, total,
                    client, connected>>
    BY <1>11 DEF vars, streamVars
  <2>2. CASE Stream
    BY <2>1, <2>2, ClientQuiet DEF ClientInv
  <2>3. CASE ~Stream
    BY <2>1, <2>3, Fixed DEF ClientInv
  <2> QED BY <2>2, <2>3
<1> QED BY <1>1, <1>2, <1>3, <1>4, <1>5, <1>6, <1>7, <1>8, <1>9, <1>10, <1>11 DEF Next

(* With empty channels the client has all lines: the invariant gives the property. *)
LEMMA ClientHasAll ==
  ASSUME ClientInv
  PROVE  ClientGetsAll
<1> SUFFICES ASSUME reply = "done", Stream, connected
             PROVE  /\ total = Len(client)
                    /\ {client[i] : i \in 1..Len(client)} =
                         UNION {{<<h.path, n>> : n \in 1..LinesOf(h)} :
                                  h \in {k \in sent : k.path \in request.glob}}
                    /\ \A i, j \in 1..Len(client) : i < j =>
                         /\ client[i] # client[j]
                         /\ client[i][1] = client[j][1] => client[i][2] < client[j][2]
  BY DEF ClientGetsAll
<1>1. /\ channel = <<>> /\ frames = <<>> /\ total = Len(client) /\ OutInv(Out) /\ client \in Seq(Line)
  BY DEF ClientInv
<1>2. Out = client /\ Len(channel) = 0
  BY <1>1, ConcatEmptySeq DEF Out
<1>3. OutInv(client)
  BY <1>1, <1>2
<1>4. \A i \in 1 .. Len(client) :
        /\ client[i] = <<client[i][1], client[i][2]>> /\ client[i][1] \in Nat /\ client[i][2] \in Nat
  <2>1. \A i \in 1 .. Len(client) : client[i] \in Line
    BY <1>1
  <2> QED BY <2>1 DEF Line
<1>5. ASSUME NEW i \in 1 .. Len(client)
      PROVE  \E h \in {k \in sent : k.path \in request.glob} : \E n \in 1 .. LinesOf(h) :
               client[i] = <<h.path, n>>
  BY <1>3, <1>4 DEF OutInv
<1>6. ASSUME NEW h \in {k \in sent : k.path \in request.glob}, NEW n \in 1 .. LinesOf(h)
      PROVE  \E i \in 1 .. Len(client) : client[i] = <<h.path, n>>
  <2>1. ~ \E j \in 1 .. Len(channel) : Seen(channel[j]) = h
    BY <1>2
  <2> QED BY <1>3, <2>1 DEF OutInv
<1>7. {client[i] : i \in 1..Len(client)} =
         UNION {{<<h.path, n>> : n \in 1..LinesOf(h)} : h \in {k \in sent : k.path \in request.glob}}
  <2> DEFINE Mine == {k \in sent : k.path \in request.glob}
             All  == UNION {{<<h.path, n>> : n \in 1..LinesOf(h)} : h \in Mine}
  <2>1. ASSUME NEW i \in 1 .. Len(client) PROVE client[i] \in All
    <3>1. PICK h \in Mine : \E n \in 1 .. LinesOf(h) : client[i] = <<h.path, n>>
      BY <1>5
    <3>2. client[i] \in {<<h.path, n>> : n \in 1..LinesOf(h)}
      BY <3>1
    <3> HIDE DEF Mine
    <3> QED BY <3>2
  <2>2. ASSUME NEW x \in All PROVE x \in {client[i] : i \in 1..Len(client)}
    <3>1. PICK h \in Mine : x \in {<<h.path, n>> : n \in 1..LinesOf(h)}
      OBVIOUS
    <3>2. PICK n \in 1 .. LinesOf(h) : x = <<h.path, n>>
      BY <3>1
    <3>3. \E i \in 1 .. Len(client) : client[i] = <<h.path, n>>
      BY <1>6
    <3> QED BY <3>2, <3>3
  <2> HIDE DEF All
  <2>3. {client[i] : i \in 1..Len(client)} = All
    BY <2>1, <2>2
  <2> QED BY <2>3 DEF All
<1>8. ASSUME NEW i \in 1 .. Len(client), NEW j \in 1 .. Len(client), i < j
      PROVE  /\ client[i] # client[j]
             /\ client[i][1] = client[j][1] => client[i][2] < client[j][2]
  <2>1. client[i][1] = client[j][1] => client[i][2] < client[j][2]
    BY <1>3, <1>8 DEF OutInv
  <2> QED BY <1>4, <2>1
<1> QED BY <1>1, <1>7, <1>8

\* A client that is still there when a stream (Search and QuerySearch of
\* daemon.rs) ends without an error has received the lines of every file sent
\* that its glob lets pass, each once and in order, and is told as many,
\* however the search, the bridge and the writer run against each other.
THEOREM ClientReceivesAll == Spec => []ClientGetsAll
<1>1. Init => Inv /\ ClientInv
  BY InitHolds, ClientInit
<1>2. Inv /\ ClientInv /\ [Next]_vars => Inv' /\ ClientInv'
  BY NextStep, ClientStep DEF Step
<1>3. ClientInv => ClientGetsAll
  BY ClientHasAll
<1> QED BY <1>1, <1>2, <1>3, PTL DEF Spec
=============================================================================
