----------------------- MODULE TpClosuresQueueRefinement -----------------------
(***************************************************************************)
(* The closures queue implements ClosureFifo, for every set of pushers and  *)
(* owners, every size and all closures, but for the one step that takes the *)
(* last closure out when it ends where the memory ends.  The contents of    *)
(* the fifo are read off the memory: the closures that begin between the    *)
(* head and the tail, numbered by how far the head has to go to come to     *)
(* them.  A push adds the last of them and a pop takes the first.           *)
(***************************************************************************)
EXTENDS TpClosuresQueueProofs, FiniteSetTheorems

-----------------------------------------------------------------------------
(* The order of the contents, for a head h.                                   *)

ReachFrom(h, a) == IF a < h THEN QueueSize + a ELSE a

EarlierFrom(h, starts, a) == {b \in starts : ReachFrom(h, b) < ReachFrom(h, a)}

Ranked(h, starts, n) == {a \in starts : Cardinality(EarlierFrom(h, starts, a)) = n - 1}

NthFrom(h, starts, n) == CHOOSE a \in Ranked(h, starts, n) : TRUE

LEMMA ReachInt ==
  ASSUME NEW h \in Nat, NEW a \in Nat
  PROVE  ReachFrom(h, a) \in Int
BY SizeAssumption DEF ReachFrom

\* What comes before a is less than all.
LEMMA EarlierCount ==
  ASSUME NEW h \in Nat, NEW S \in SUBSET Nat, IsFiniteSet(S), NEW a \in S
  PROVE  /\ IsFiniteSet(EarlierFrom(h, S, a))
         /\ Cardinality(EarlierFrom(h, S, a)) \in Nat
         /\ Cardinality(EarlierFrom(h, S, a)) < Cardinality(S)
<1>1. a \notin EarlierFrom(h, S, a)
  BY ReachInt DEF EarlierFrom
<1>2. EarlierFrom(h, S, a) \in SUBSET S
  BY DEF EarlierFrom
<1>3. /\ IsFiniteSet(EarlierFrom(h, S, a))
      /\ Cardinality(EarlierFrom(h, S, a)) <= Cardinality(S)
      /\ Cardinality(S) = Cardinality(EarlierFrom(h, S, a)) => S = EarlierFrom(h, S, a)
  BY <1>2, FS_Subset
<1>4. Cardinality(EarlierFrom(h, S, a)) \in Nat /\ Cardinality(S) \in Nat
  BY <1>3, FS_CardinalityType
<1>. QED
  BY <1>1, <1>3, <1>4

\* A start that comes after all others is the last, and leaves them their places.
LEMMA NthOfMore ==
  ASSUME NEW h \in Nat, NEW S \in SUBSET Nat, IsFiniteSet(S), NEW x \in Nat \ S,
         \A b \in S : ReachFrom(h, b) < ReachFrom(h, x)
  PROVE  /\ \A n \in 1..Cardinality(S) : NthFrom(h, S \cup {x}, n) = NthFrom(h, S, n)
         /\ NthFrom(h, S \cup {x}, Cardinality(S) + 1) = x
<1>. DEFINE T == S \cup {x}
<1>1. ASSUME NEW a \in S
      PROVE  EarlierFrom(h, T, a) = EarlierFrom(h, S, a)
  <2>1. ReachFrom(h, a) < ReachFrom(h, x) /\ ReachFrom(h, a) \in Int /\ ReachFrom(h, x) \in Int
    BY ReachInt
  <2>. QED
    BY <2>1 DEF EarlierFrom
<1>2. EarlierFrom(h, T, x) = S
  <2>1. ~(ReachFrom(h, x) < ReachFrom(h, x))
    <3>1. ReachFrom(h, x) \in Int
      BY ReachInt
    <3>. QED
      BY <3>1
  <2>. QED
    BY <2>1 DEF EarlierFrom
<1>3. Cardinality(S) \in Nat
  BY FS_CardinalityType
<1>4. ASSUME NEW n \in 1..Cardinality(S)
      PROVE  Ranked(h, T, n) = Ranked(h, S, n)
  <2>1. Cardinality(EarlierFrom(h, T, x)) # n - 1
    BY <1>2, <1>3
  <2>. QED
    BY <1>1, <2>1 DEF Ranked
<1>5. Ranked(h, T, Cardinality(S) + 1) = {x}
  <2>1. ASSUME NEW a \in S
        PROVE  Cardinality(EarlierFrom(h, T, a)) # (Cardinality(S) + 1) - 1
    <3>1. Cardinality(EarlierFrom(h, S, a)) \in Nat
          /\ Cardinality(EarlierFrom(h, S, a)) < Cardinality(S)
      BY EarlierCount
    <3>2. EarlierFrom(h, T, a) = EarlierFrom(h, S, a)
      BY <1>1
    <3>. QED
      BY <1>3, <3>1, <3>2
  <2>2. Cardinality(EarlierFrom(h, T, x)) = (Cardinality(S) + 1) - 1
    BY <1>2, <1>3
  <2>. QED
    BY <2>1, <2>2 DEF Ranked
<1>6. \A n \in 1..Cardinality(S) : NthFrom(h, T, n) = NthFrom(h, S, n)
  BY <1>4 DEF NthFrom
<1>7. NthFrom(h, T, Cardinality(S) + 1) = x
  BY <1>5 DEF NthFrom
<1>. QED
  BY <1>6, <1>7

\* The first start is the one that all others come after.
LEMMA NthFirst ==
  ASSUME NEW h \in Nat, NEW S \in SUBSET Nat, IsFiniteSet(S), NEW x \in S,
         \A a \in S \ {x} : ReachFrom(h, x) < ReachFrom(h, a)
  PROVE  /\ Cardinality(EarlierFrom(h, S, x)) = 0
         /\ NthFrom(h, S, 1) = x
<1>1. EarlierFrom(h, S, x) = {}
  <2>1. ASSUME NEW a \in S
        PROVE  ~(ReachFrom(h, a) < ReachFrom(h, x))
    <3>1. ReachFrom(h, a) \in Int /\ ReachFrom(h, x) \in Int
      BY ReachInt
    <3>. QED
      BY <3>1
  <2>. QED
    BY <2>1 DEF EarlierFrom
<1>2. Cardinality(EarlierFrom(h, S, x)) = 0
  BY <1>1, FS_EmptySet
<1>3. ASSUME NEW a \in S \ {x}
      PROVE  Cardinality(EarlierFrom(h, S, a)) # 0
  <2>1. EarlierFrom(h, S, a) # {}
    BY DEF EarlierFrom
  <2>. QED
    BY <2>1, EarlierCount, FS_EmptySet
<1>4. Ranked(h, S, 1) = {x}
  <2>1. \A a \in S : Cardinality(EarlierFrom(h, S, a)) = 1 - 1 <=> a = x
    BY <1>2, <1>3
  <2>. QED
    BY <2>1 DEF Ranked
<1>. QED
  BY <1>2, <1>4 DEF NthFrom

\* When it is taken away the others move up by one, if the head that moves
\* does not change their order.
LEMMA NthOfRest ==
  ASSUME NEW h \in Nat, NEW g \in Nat, NEW S \in SUBSET Nat, IsFiniteSet(S), NEW x \in S,
         \A a \in S \ {x} : ReachFrom(h, x) < ReachFrom(h, a),
         \A a, b \in S \ {x} :
            ReachFrom(g, b) < ReachFrom(g, a) <=> ReachFrom(h, b) < ReachFrom(h, a)
  PROVE  \A n \in 1..(Cardinality(S) - 1) : NthFrom(g, S \ {x}, n) = NthFrom(h, S, n + 1)
<1>. DEFINE T == S \ {x}
<1>1. Cardinality(EarlierFrom(h, S, x)) = 0
  BY NthFirst
<1>2. ASSUME NEW a \in T
      PROVE  /\ Cardinality(EarlierFrom(h, S, a)) = Cardinality(EarlierFrom(g, T, a)) + 1
             /\ Cardinality(EarlierFrom(g, T, a)) \in Nat
  <2>1. EarlierFrom(g, T, a) = EarlierFrom(h, S, a) \ {x}
    BY DEF EarlierFrom
  <2>2. x \in EarlierFrom(h, S, a)
    BY DEF EarlierFrom
  <2>3. IsFiniteSet(EarlierFrom(h, S, a)) /\ Cardinality(EarlierFrom(h, S, a)) \in Nat
    BY EarlierCount
  <2>4. /\ Cardinality(EarlierFrom(g, T, a)) = Cardinality(EarlierFrom(h, S, a)) - 1
        /\ IsFiniteSet(EarlierFrom(g, T, a))
    <3>1. /\ IsFiniteSet(EarlierFrom(h, S, a) \ {x})
          /\ Cardinality(EarlierFrom(h, S, a) \ {x}) = Cardinality(EarlierFrom(h, S, a)) - 1
      BY <2>2, <2>3, FS_RemoveElement
    <3>. QED
      BY <2>1, <3>1
  <2>5. Cardinality(EarlierFrom(g, T, a)) \in Nat
    BY <2>4, FS_CardinalityType
  <2>. QED
    BY <2>3, <2>4, <2>5
<1>3. ASSUME NEW n \in 1..(Cardinality(S) - 1)
      PROVE  Ranked(g, T, n) = Ranked(h, S, n + 1)
  <2>1. Cardinality(S) \in Nat
    BY FS_CardinalityType
  <2>2. x \notin Ranked(h, S, n + 1)
    BY <1>1, <2>1 DEF Ranked
  <2>. HIDE DEF T
  <2>3. ASSUME NEW a \in T
        PROVE  a \in Ranked(g, T, n) <=> a \in Ranked(h, S, n + 1)
    <3>1. a \in S
      BY DEF T
    <3>. QED
      BY <1>2, <2>1, <3>1 DEF Ranked
  <2>4. Ranked(g, T, n) \subseteq T /\ Ranked(h, S, n + 1) \subseteq T
    BY <2>2 DEF Ranked, T
  <2>. QED
    BY <2>3, <2>4
<1>. QED
  BY <1>3 DEF NthFrom

\* Every number up to that of the starts is the place of one.
LEMMA NthIsStart ==
  ASSUME NEW h \in Nat, NEW S \in SUBSET Offsets, IsFiniteSet(S), NEW n \in 1..Cardinality(S)
  PROVE  NthFrom(h, S, n) \in S
<1>. DEFINE N == Cardinality(S)
            place == [a \in S |-> Cardinality(EarlierFrom(h, S, a))]
<1>0. N \in Nat /\ S \in SUBSET Nat /\ QueueSize \in Nat
  BY FS_CardinalityType, SizeAssumption DEF Offsets
<1>1. \A a \in S : place[a] \in 0..(N - 1) /\ IsFiniteSet(EarlierFrom(h, S, a))
  BY <1>0, EarlierCount
<1>2. ASSUME NEW a \in S, NEW b \in S, ReachFrom(h, a) < ReachFrom(h, b)
      PROVE  place[a] # place[b]
  <2>1. EarlierFrom(h, S, a) \in SUBSET EarlierFrom(h, S, b)
    <3>1. ASSUME NEW e \in S, ReachFrom(h, e) < ReachFrom(h, a)
          PROVE  ReachFrom(h, e) < ReachFrom(h, b)
      <4>1. /\ ReachFrom(h, e) \in Int /\ ReachFrom(h, a) \in Int
            /\ ReachFrom(h, b) \in Int
        BY <1>0, ReachInt
      <4>. QED
        BY <1>2, <3>1, <4>1
    <3>. QED
      BY <3>1 DEF EarlierFrom
  <2>2. a \in EarlierFrom(h, S, b) /\ a \notin EarlierFrom(h, S, a)
    <3>1. ReachFrom(h, a) \in Int
      BY <1>0, ReachInt
    <3>. QED
      BY <1>2, <3>1 DEF EarlierFrom
  <2>3. Cardinality(EarlierFrom(h, S, a)) # Cardinality(EarlierFrom(h, S, b))
    BY <1>1, <2>1, <2>2, FS_Subset
  <2>. QED
    BY <2>3
<1>3. ASSUME NEW a \in S, NEW b \in S, a # b
      PROVE  place[a] # place[b]
  <2>1. ReachFrom(h, a) < ReachFrom(h, b) \/ ReachFrom(h, b) < ReachFrom(h, a)
    BY <1>0, <1>3 DEF ReachFrom, Offsets
  <2>. QED
    BY <1>2, <2>1
<1>4. place \in Injection(S, 0..(N - 1))
  <2>1. place \in [S -> 0..(N - 1)]
    BY <1>1
  <2>. HIDE DEF place
  <2>. QED
    BY <1>3, <2>1 DEF Injection, IsInjective
<1>5. IsFiniteSet(0..(N - 1)) /\ Cardinality(0..(N - 1)) = N
  <2>1. 0 \in Int /\ N - 1 \in Int /\ ~(0 > N - 1) /\ (N - 1) - 0 + 1 = N
    <3>1. N \in Nat \ {0}
      BY <1>0
    <3>. HIDE DEF N
    <3>. QED
      BY <3>1
  <2>. HIDE DEF N
  <2>. QED
    BY <2>1, FS_Interval
<1>6. place \in Surjection(S, 0..(N - 1))
  <2>. HIDE DEF place
  <2>. QED
    BY <1>4, <1>5, FS_Injection
<1>7. PICK a \in S : place[a] = n - 1
  <2>1. n - 1 \in 0..(N - 1)
    BY <1>0
  <2>. HIDE DEF place
  <2>. QED
    BY <1>6, <2>1 DEF Surjection
<1>8. a \in Ranked(h, S, n)
  BY <1>7 DEF Ranked
<1>9. NthFrom(h, S, n) \in Ranked(h, S, n)
  BY <1>8 DEF NthFrom
<1>. QED
  BY <1>9 DEF Ranked

-----------------------------------------------------------------------------
(* The contents of a memory w with head h, tail t and padding p.              *)

LiveFrom(h, t, p) == IF h <= t THEN h..(t - 1) ELSE h..(QueueSize - p - 1) \cup 0..(t - 1)

StartsFrom(w, h, t, p) == {a \in LiveFrom(h, t, p) : \E d \in Closures : w[a] = <<d, 0>>}

LiesIn(w, d, a) == /\ a + ClosureSize[d] <= QueueSize
                   /\ \A k \in 0..(ClosureSize[d] - 1) : w[a + k] = <<d, k>>

WholeFrom(w, a) == IF w[a] # Garbage /\ LiesIn(w, w[a][1], a) THEN w[a][1] ELSE Garbage

ContentsFrom(w, h, t, p) ==
  [n \in 1..Cardinality(StartsFrom(w, h, t, p)) |->
     WholeFrom(w, NthFrom(h, StartsFrom(w, h, t, p), n))]

\* RingInv, of any memory.
Geometry(w, h, t, p) ==
  /\ h \in Offsets /\ t \in Addresses /\ p \in Addresses
  /\ w \in [Offsets -> Words]
  /\ h = t => h = 0
  /\ h <= t => p = 0 /\ Tiled(w, 0, h) /\ Tiled(w, h, t)
  /\ t < h => /\ h < QueueSize - p
              /\ Tiled(w, h, QueueSize - p)
              /\ Tiled(w, 0, t)

LEMMA GeometryNumbers ==
  ASSUME NEW w, NEW h, NEW t, NEW p, Geometry(w, h, t, p)
  PROVE  /\ QueueSize \in Nat /\ h \in Nat /\ t \in Nat /\ p \in Nat
         /\ h < QueueSize /\ t <= QueueSize /\ p <= QueueSize
         /\ LiveFrom(h, t, p) \subseteq Offsets
         /\ LiveFrom(h, t, p) \subseteq Nat
<1>1. /\ QueueSize \in Nat /\ h \in Nat /\ t \in Nat /\ p \in Nat
      /\ h < QueueSize /\ t <= QueueSize /\ p <= QueueSize
  BY SizeAssumption DEF Geometry, Offsets, Addresses
<1>2. LiveFrom(h, t, p) \subseteq Offsets
  BY <1>1 DEF LiveFrom, Offsets
<1>3. Offsets \subseteq Nat
  BY <1>1 DEF Offsets
<1>. QED
  BY <1>1, <1>2, <1>3

LEMMA StartsFinite ==
  ASSUME NEW w, NEW h, NEW t, NEW p, Geometry(w, h, t, p)
  PROVE  /\ StartsFrom(w, h, t, p) \in SUBSET Offsets
         /\ StartsFrom(w, h, t, p) \in SUBSET Nat
         /\ IsFiniteSet(StartsFrom(w, h, t, p))
         /\ Cardinality(StartsFrom(w, h, t, p)) \in Nat
<1>1. StartsFrom(w, h, t, p) \in SUBSET Offsets /\ StartsFrom(w, h, t, p) \in SUBSET Nat
  BY GeometryNumbers DEF StartsFrom
<1>2. IsFiniteSet(Offsets)
  BY FS_Interval, SizeAssumption DEF Offsets
<1>3. IsFiniteSet(StartsFrom(w, h, t, p))
  BY <1>1, <1>2, FS_Subset
<1>. QED
  BY <1>1, <1>3, FS_CardinalityType

\* Where a closure begins it lies whole.
LEMMA StartIsWhole ==
  ASSUME NEW w, NEW h, NEW t, NEW p, Geometry(w, h, t, p), NEW a \in StartsFrom(w, h, t, p)
  PROVE  /\ w[a][1] \in Closures
         /\ w[a] = <<w[a][1], 0>>
         /\ WholeFrom(w, a) = w[a][1]
<1>1. PICK d \in Closures : w[a] = <<d, 0>>
  BY DEF StartsFrom
<1>2. /\ QueueSize \in Nat /\ h \in Nat /\ t \in Nat /\ p \in Nat
      /\ h < QueueSize /\ t <= QueueSize /\ a \in Nat
      /\ ClosureSize[d] \in Nat \ {0}
  BY GeometryNumbers, SizeAssumption DEF StartsFrom
<1>3. w[a][1] = d /\ w[a] # Garbage
  BY <1>1, GarbageAssumption
<1>4. PICK lo \in Nat, hi \in Nat : hi <= QueueSize /\ a \in lo..(hi - 1) /\ Tiled(w, lo, hi)
  <2>1. CASE h <= t
    <3>1. Tiled(w, h, t) /\ a \in h..(t - 1)
      BY <2>1 DEF Geometry, StartsFrom, LiveFrom
    <3>. QED
      BY <1>2, <3>1
  <2>2. CASE t < h
    <3>1. Tiled(w, h, QueueSize - p) /\ Tiled(w, 0, t) /\ QueueSize - p \in Nat
      BY <1>2, <2>2 DEF Geometry
    <3>2. a \in h..((QueueSize - p) - 1) \/ a \in 0..(t - 1)
      BY <1>2, <2>2 DEF StartsFrom, LiveFrom
    <3>. QED
      BY <1>2, <3>1, <3>2
  <2>. QED
    BY <1>2, <2>1, <2>2
<1>5. /\ a + ClosureSize[d] <= hi
      /\ \A k \in 0..(ClosureSize[d] - 1) : w[a + k] = <<d, k>>
  BY <1>1, <1>4 DEF Tiled
<1>6. LiesIn(w, d, a)
  BY <1>2, <1>4, <1>5 DEF LiesIn
<1>. QED
  BY <1>1, <1>3, <1>6 DEF WholeFrom

\* The head is a start when the queue is not empty, and the first of them.
LEMMA HeadIsFirst ==
  ASSUME NEW w, NEW h, NEW t, NEW p, Geometry(w, h, t, p)
  PROVE  /\ h = t => StartsFrom(w, h, t, p) = {}
         /\ h # t => h \in StartsFrom(w, h, t, p)
         /\ \A a \in StartsFrom(w, h, t, p) \ {h} : ReachFrom(h, h) < ReachFrom(h, a)
<1>0. /\ QueueSize \in Nat /\ h \in Nat /\ t \in Nat /\ p \in Nat
      /\ h < QueueSize /\ t <= QueueSize
      /\ LiveFrom(h, t, p) \subseteq Nat
  BY GeometryNumbers
<1>1. h = t => StartsFrom(w, h, t, p) = {}
  BY <1>0 DEF StartsFrom, LiveFrom
<1>2. ASSUME h < t
      PROVE  h \in StartsFrom(w, h, t, p)
  <2>1. \E d \in Closures : w[h] = <<d, 0>>
    BY <1>0, <1>2 DEF Geometry, Tiled
  <2>2. h \in LiveFrom(h, t, p)
    BY <1>0, <1>2 DEF LiveFrom
  <2>. QED
    BY <2>1, <2>2 DEF StartsFrom
<1>3. ASSUME t < h
      PROVE  h \in StartsFrom(w, h, t, p)
  <2>1. \E d \in Closures : w[h] = <<d, 0>>
    BY <1>0, <1>3 DEF Geometry, Tiled
  <2>2. h \in LiveFrom(h, t, p)
    BY <1>0, <1>3 DEF LiveFrom, Geometry
  <2>. QED
    BY <2>1, <2>2 DEF StartsFrom
<1>4. ASSUME NEW a \in StartsFrom(w, h, t, p) \ {h}
      PROVE  ReachFrom(h, h) < ReachFrom(h, a)
  BY <1>0 DEF StartsFrom, ReachFrom
<1>. QED
  BY <1>0, <1>1, <1>2, <1>3, <1>4

\* The contents when one more closure begins at x, behind the others.
LEMMA ContentsOfMore ==
  ASSUME NEW w, NEW h, NEW t, NEW p, Geometry(w, h, t, p),
         NEW v, NEW u, NEW q, Geometry(v, h, u, q),
         NEW x \in Nat, NEW d \in Closures, v[x] = <<d, 0>>,
         x \notin StartsFrom(w, h, t, p),
         StartsFrom(v, h, u, q) = StartsFrom(w, h, t, p) \cup {x},
         \A b \in StartsFrom(w, h, t, p) : v[b] = w[b] /\ ReachFrom(h, b) < ReachFrom(h, x)
  PROVE  ContentsFrom(v, h, u, q) = Append(ContentsFrom(w, h, t, p), d)
<1>. DEFINE S == StartsFrom(w, h, t, p)
            T == StartsFrom(v, h, u, q)
            N == Cardinality(S)
<1>0. h \in Nat /\ IsFiniteSet(S) /\ S \in SUBSET Nat /\ N \in Nat
  BY StartsFinite, GeometryNumbers
<1>1. Cardinality(T) = N + 1
  BY <1>0, FS_AddElement
<1>2. /\ \A n \in 1..N : NthFrom(h, T, n) = NthFrom(h, S, n)
      /\ NthFrom(h, T, N + 1) = x
  <2>1. x \in Nat \ S /\ T = S \cup {x} /\ \A b \in S : ReachFrom(h, b) < ReachFrom(h, x)
    OBVIOUS
  <2>2. S \in SUBSET Nat /\ IsFiniteSet(S)
    BY <1>0
  <2>. HIDE DEF S, T
  <2>3. /\ \A n \in 1..Cardinality(S) : NthFrom(h, S \cup {x}, n) = NthFrom(h, S, n)
        /\ NthFrom(h, S \cup {x}, Cardinality(S) + 1) = x
    BY <1>0, <2>1, <2>2, NthOfMore
  <2>. QED
    BY <2>1, <2>3
<1>3. ASSUME NEW n \in 1..N
      PROVE  WholeFrom(v, NthFrom(h, T, n)) = WholeFrom(w, NthFrom(h, S, n))
  <2>1. NthFrom(h, S, n) \in S /\ NthFrom(h, S, n) \in T
    BY <1>0, NthIsStart, StartsFinite
  <2>. DEFINE a == NthFrom(h, S, n)
  <2>2. WholeFrom(v, a) = v[a][1] /\ WholeFrom(w, a) = w[a][1] /\ v[a] = w[a]
    BY <2>1, StartIsWhole
  <2>. QED
    BY <1>2, <2>2
<1>4. WholeFrom(v, NthFrom(h, T, N + 1)) = d
  <2>1. WholeFrom(v, x) = v[x][1]
    BY StartIsWhole
  <2>. QED
    BY <1>2, <2>1
<1>. DEFINE s == ContentsFrom(w, h, t, p)
            r == ContentsFrom(v, h, u, q)
<1>5. /\ s = [n \in 1..N |-> s[n]]
      /\ \A n \in 1..N : s[n] = WholeFrom(w, NthFrom(h, S, n))
  BY DEF ContentsFrom
<1>6. /\ r = [n \in 1..(N + 1) |-> r[n]]
      /\ \A n \in 1..(N + 1) : r[n] = WholeFrom(v, NthFrom(h, T, n))
  BY <1>1 DEF ContentsFrom
<1>. HIDE DEF s, r, N, S, T
<1>7. \A n \in 1..(N + 1) : r[n] = IF n <= N THEN s[n] ELSE d
  BY <1>0, <1>3, <1>4, <1>5, <1>6
<1>8. Append(s, d) = [n \in 1..(N + 1) |-> IF n <= N THEN s[n] ELSE d]
  BY <1>0, <1>5
<1>9. r = Append(s, d)
  BY <1>0, <1>6, <1>7, <1>8
<1>. QED
  BY <1>9 DEF s, r

\* The contents when the first closure is gone.
LEMMA ContentsOfRest ==
  ASSUME NEW w, NEW h, NEW t, NEW p, Geometry(w, h, t, p), h # t,
         NEW g, NEW u, NEW q, Geometry(w, g, u, q),
         StartsFrom(w, g, u, q) = StartsFrom(w, h, t, p) \ {h},
         \A a, b \in StartsFrom(w, h, t, p) \ {h} :
            ReachFrom(g, b) < ReachFrom(g, a) <=> ReachFrom(h, b) < ReachFrom(h, a)
  PROVE  ContentsFrom(w, g, u, q) = Tail(ContentsFrom(w, h, t, p))
<1>. DEFINE S == StartsFrom(w, h, t, p)
            T == StartsFrom(w, g, u, q)
            N == Cardinality(S)
<1>0. h \in Nat /\ g \in Nat /\ IsFiniteSet(S) /\ S \in SUBSET Nat /\ N \in Nat
  BY StartsFinite, GeometryNumbers
<1>1. h \in S /\ \A a \in S \ {h} : ReachFrom(h, h) < ReachFrom(h, a)
  BY HeadIsFirst
<1>2. Cardinality(T) = N - 1
  BY <1>0, <1>1, FS_RemoveElement
<1>3. \A n \in 1..(N - 1) : NthFrom(g, T, n) = NthFrom(h, S, n + 1)
  <2>1. /\ T = S \ {h}
        /\ \A a, b \in S \ {h} :
              ReachFrom(g, b) < ReachFrom(g, a) <=> ReachFrom(h, b) < ReachFrom(h, a)
    OBVIOUS
  <2>. HIDE DEF S, T
  <2>. QED
    BY <1>0, <1>1, <2>1, NthOfRest
<1>4. N >= 1
  <2>1. N # 0
    BY <1>0, <1>1, FS_EmptySet
  <2>. QED
    BY <1>0, <2>1
<1>. DEFINE s == ContentsFrom(w, h, t, p)
            r == ContentsFrom(w, g, u, q)
<1>5. /\ s = [n \in 1..N |-> s[n]]
      /\ \A n \in 1..N : s[n] = WholeFrom(w, NthFrom(h, S, n))
  BY DEF ContentsFrom
<1>6. /\ r = [n \in 1..(N - 1) |-> r[n]]
      /\ \A n \in 1..(N - 1) : r[n] = WholeFrom(w, NthFrom(g, T, n))
  BY <1>2 DEF ContentsFrom
<1>. HIDE DEF s, r, N, S, T
<1>7. \A n \in 1..(N - 1) : r[n] = s[n + 1]
  BY <1>0, <1>3, <1>5, <1>6
<1>8. Tail(s) = [n \in 1..(N - 1) |-> s[n + 1]]
  BY <1>0, <1>4, <1>5
<1>9. r = Tail(s)
  BY <1>0, <1>6, <1>7, <1>8
<1>. QED
  BY <1>9 DEF s, r

\* The queue looks empty when it is, and its first closure lies at the head.
LEMMA ContentsEmpty ==
  ASSUME NEW w, NEW h, NEW t, NEW p, Geometry(w, h, t, p)
  PROVE  /\ h = t <=> ContentsFrom(w, h, t, p) = <<>>
         /\ h # t => Head(ContentsFrom(w, h, t, p)) = WholeFrom(w, h)
<1>. DEFINE S == StartsFrom(w, h, t, p)
            N == Cardinality(S)
            s == ContentsFrom(w, h, t, p)
<1>0. h \in Nat /\ IsFiniteSet(S) /\ S \in SUBSET Nat /\ N \in Nat
  BY StartsFinite, GeometryNumbers
<1>1. /\ s = [n \in 1..N |-> s[n]]
      /\ \A n \in 1..N : s[n] = WholeFrom(w, NthFrom(h, S, n))
  BY DEF ContentsFrom
<1>2. CASE h = t
  <2>1. N = 0
    BY <1>2, HeadIsFirst, FS_EmptySet
  <2>. HIDE DEF s, N
  <2>2. s = <<>>
    BY <1>1, <2>1
  <2>. QED
    BY <1>2, <2>2 DEF s
<1>3. CASE h # t
  <2>1. h \in S /\ \A a \in S \ {h} : ReachFrom(h, h) < ReachFrom(h, a)
    BY <1>3, HeadIsFirst
  <2>2. N # 0
    BY <1>0, <2>1, FS_EmptySet
  <2>3. NthFrom(h, S, 1) = h
    BY <1>0, <2>1, NthFirst
  <2>. HIDE DEF s, N, S
  <2>4. s # <<>> /\ Head(s) = s[1] /\ s[1] = WholeFrom(w, h)
    BY <1>0, <1>1, <2>2, <2>3
  <2>. QED
    BY <1>3, <2>4 DEF s
<1>. QED
  BY <1>2, <1>3

-----------------------------------------------------------------------------
(* What the steps do to the contents.                                         *)

LEMMA WordIsStart ==
  ASSUME NEW w \in [Offsets -> Words], NEW a \in Offsets
  PROVE  (w[a] # Garbage /\ w[a][2] = 0) <=> \E d \in Closures : w[a] = <<d, 0>>
<1>1. ASSUME w[a] # Garbage, w[a][2] = 0
      PROVE  \E d \in Closures : w[a] = <<d, 0>>
  BY <1>1 DEF Words
<1>2. ASSUME NEW d \in Closures, w[a] = <<d, 0>>
      PROVE  w[a] # Garbage /\ w[a][2] = 0
  BY <1>2, GarbageAssumption
<1>. QED
  BY <1>1, <1>2

LEMMA ContentsAre ==
  ASSUME Geometry(space, headAddress, tailAddress, padding)
  PROVE  /\ Contents = ContentsFrom(space, headAddress, tailAddress, padding)
         /\ \A a : WholeAt(a) = WholeFrom(space, a)
<1>1. Live = LiveFrom(headAddress, tailAddress, padding)
  BY DEF Live, LiveFrom
<1>2. Starts = StartsFrom(space, headAddress, tailAddress, padding)
  BY <1>1, WordIsStart, GeometryNumbers DEF Starts, StartsFrom, Geometry
<1>3. \A a : WholeAt(a) = WholeFrom(space, a)
  BY DEF WholeAt, WholeFrom, LiesAt, LiesIn
<1>4. \A n : Nth(Starts, n) = NthFrom(headAddress, Starts, n)
  BY DEF Nth, NthFrom, Ranked, Earlier, EarlierFrom, Reach, ReachFrom
<1>. QED
  BY <1>2, <1>3, <1>4 DEF Contents, ContentsFrom

LEMMA NextContentsAre ==
  ASSUME Geometry(space', headAddress', tailAddress', padding')
  PROVE  /\ Contents' = ContentsFrom(space', headAddress', tailAddress', padding')
         /\ \A a : WholeAt(a)' = WholeFrom(space', a)
<1>1. Live' = LiveFrom(headAddress', tailAddress', padding')
  BY DEF Live, LiveFrom
<1>2. Starts' = StartsFrom(space', headAddress', tailAddress', padding')
  BY <1>1, WordIsStart, GeometryNumbers DEF Starts, StartsFrom, Geometry
<1>3. \A a : WholeAt(a)' = WholeFrom(space', a)
  BY DEF WholeAt, WholeFrom, LiesAt, LiesIn
<1>4. \A n : Nth(Starts, n)' = NthFrom(headAddress', Starts', n)
  BY DEF Nth, NthFrom, Ranked, Earlier, EarlierFrom, Reach, ReachFrom
<1>. QED
  BY <1>2, <1>3, <1>4 DEF Contents, ContentsFrom

LEMMA RingIsGeometry ==
  /\ RingInv => Geometry(space, headAddress, tailAddress, padding)
  /\ RingInv' => Geometry(space', headAddress', tailAddress', padding')
BY DEF RingInv, Geometry

Bytes(x, d) == x..(x + ClosureSize[d] - 1)

\* Closure d is written where nothing was, at x.
Grown(w, h, t, p, v, u, q, x, d) ==
  /\ x \in Nat /\ d \in Closures
  /\ LiveFrom(h, u, q) = LiveFrom(h, t, p) \cup Bytes(x, d)
  /\ \A a \in LiveFrom(h, t, p) : v[a] = w[a] /\ a \notin Bytes(x, d)
  /\ LiesIn(v, d, x)

LEMMA StartsOfMore ==
  ASSUME NEW w, NEW h, NEW t, NEW p, NEW v, NEW u, NEW q, NEW x, NEW d,
         Grown(w, h, t, p, v, u, q, x, d)
  PROVE  /\ StartsFrom(v, h, u, q) = StartsFrom(w, h, t, p) \cup {x}
         /\ x \notin StartsFrom(w, h, t, p)
         /\ v[x] = <<d, 0>>
<1>. USE DEF Bytes, Grown
<1>1. /\ ClosureSize[d] \in Nat \ {0}
      /\ \A k \in 0..(ClosureSize[d] - 1) : v[x + k] = <<d, k>>
  BY SizeAssumption DEF LiesIn
<1>2. x \in x..(x + ClosureSize[d] - 1) /\ v[x] = <<d, 0>>
  BY <1>1
<1>3. x \notin LiveFrom(h, t, p)
  BY <1>2
<1>4. ASSUME NEW a \in x..(x + ClosureSize[d] - 1), NEW e \in Closures, v[a] = <<e, 0>>
      PROVE  a = x
  <2>1. a - x \in 0..(ClosureSize[d] - 1) /\ x + (a - x) = a
    BY <1>1
  <2>2. v[a] = <<d, a - x>>
    BY <1>1, <2>1
  <2>. QED
    BY <1>4, <2>1, <2>2
<1>5. ASSUME NEW a
      PROVE  a \in StartsFrom(v, h, u, q) <=> a \in StartsFrom(w, h, t, p) \/ a = x
  <2>1. CASE a \in LiveFrom(h, t, p)
    BY <1>3, <2>1 DEF StartsFrom
  <2>2. CASE a \in x..(x + ClosureSize[d] - 1)
    BY <1>2, <1>4, <2>2 DEF StartsFrom
  <2>3. CASE a \notin LiveFrom(h, u, q)
    BY <1>2, <2>3 DEF StartsFrom
  <2>. QED
    BY <2>1, <2>2, <2>3
<1>. QED
  BY <1>2, <1>3, <1>5 DEF StartsFrom

LEMMA InsertAppends ==
  ASSUME RingInv,
         NEW c \in Cores, arg[c] \in Closures, Fits(arg[c]),
         InsertAtTail(c) \/ InsertAtInit(c)
  PROVE  /\ Contents' = Append(Contents, arg[c])
         /\ headAddress # tailAddress =>
               WholeFrom(space', headAddress) = WholeFrom(space, headAddress)
<1>. DEFINE d == arg[c]
            h == headAddress
            t == tailAddress
            p == padding
            u == tailAddress'
            q == padding'
            Goal == \E x \in Nat :
                      /\ LiveFrom(h, u, q) = LiveFrom(h, t, p) \cup x..(x + ClosureSize[d] - 1)
                      /\ \A a \in LiveFrom(h, t, p) :
                            /\ a \notin x..(x + ClosureSize[d] - 1)
                            /\ ReachFrom(h, a) < ReachFrom(h, x)
                      /\ space' = CopiedTo(x, d)
                      /\ x + ClosureSize[d] <= QueueSize
<1>0. /\ h \in Nat /\ t \in Nat /\ p \in Nat /\ h < QueueSize /\ t <= QueueSize
      /\ QueueSize \in Nat /\ ClosureSize[d] \in Nat \ {0}
      /\ t < h => h < QueueSize - p
      /\ h <= t => p = 0
      /\ h = t => h = 0
      /\ Geometry(space, h, t, p)
  BY SizeAssumption, RingIsGeometry DEF RingInv, Offsets, Addresses
<1>1. RingInv' /\ headAddress' = h /\ Geometry(space', h, u, q)
  BY InsertAtTailRing, InsertAtInitRing, RingIsGeometry
<1>2. ASSUME InsertAtTail(c)
      PROVE  Goal
  <2>1. space' = CopiedTo(t, d) /\ u = t + ClosureSize[d] /\ q = p
    BY <1>2 DEF InsertAtTail
  <2>2. t + ClosureSize[d] <= QueueSize /\ (t < h => t + ClosureSize[d] < h)
    <3>1. t + ClosureSize[d] <= QueueSize
      BY <1>2, InsertAtTailRing
    <3>2. t < h => ClosureSize[d] < h - t
      BY <1>0 DEF Fits, MaxFreeSpace
    <3>. QED
      BY <1>0, <3>1, <3>2
  <2>3. LiveFrom(h, u, q) = LiveFrom(h, t, p) \cup t..(t + ClosureSize[d] - 1)
    <3>1. CASE h <= t
      BY <1>0, <2>1, <3>1 DEF LiveFrom
    <3>2. CASE t < h
      BY <1>0, <2>1, <2>2, <3>2 DEF LiveFrom
    <3>. QED
      BY <1>0, <3>1, <3>2
  <2>4. \A a \in LiveFrom(h, t, p) : /\ a \notin t..(t + ClosureSize[d] - 1)
                                     /\ ReachFrom(h, a) < ReachFrom(h, t)
    BY <1>0, <2>2 DEF LiveFrom, ReachFrom
  <2>5. t + ClosureSize[d] <= QueueSize
    BY <1>0, <2>2
  <2>. HIDE DEF d, h, t, p, u, q
  <2>. QED
    BY <1>0, <2>1, <2>3, <2>4, <2>5
<1>3. ASSUME InsertAtInit(c)
      PROVE  Goal
  <2>1. space' = CopiedTo(0, d) /\ u = ClosureSize[d] /\ q = QueueSize - t
    BY <1>3 DEF InsertAtInit, RightOfTail
  <2>2. h < t /\ ClosureSize[d] < h
    BY <1>0, <1>1, <1>3, <2>1, InsertAtInitRing
  <2>3. LiveFrom(h, u, q) = LiveFrom(h, t, p) \cup 0..(0 + ClosureSize[d] - 1)
    BY <1>0, <2>1, <2>2 DEF LiveFrom
  <2>4. \A a \in LiveFrom(h, t, p) : /\ a \notin 0..(0 + ClosureSize[d] - 1)
                                     /\ ReachFrom(h, a) < ReachFrom(h, 0)
    BY <1>0, <2>2 DEF LiveFrom, ReachFrom
  <2>5. 0 \in Nat /\ 0 + ClosureSize[d] <= QueueSize
    BY <1>0, <2>2
  <2>. HIDE DEF d, h, t, p, u, q
  <2>. QED
    BY <1>0, <2>1, <2>3, <2>4, <2>5
<1>4. Goal
  BY <1>2, <1>3
<1>5. PICK x \in Nat :
          /\ LiveFrom(h, u, q) = LiveFrom(h, t, p) \cup x..(x + ClosureSize[d] - 1)
          /\ \A a \in LiveFrom(h, t, p) : /\ a \notin x..(x + ClosureSize[d] - 1)
                                          /\ ReachFrom(h, a) < ReachFrom(h, x)
          /\ space' = CopiedTo(x, d)
          /\ x + ClosureSize[d] <= QueueSize
  BY <1>4
<1>6. /\ \A a \in LiveFrom(h, t, p) : space'[a] = space[a]
      /\ \A k \in 0..(ClosureSize[d] - 1) : space'[x + k] = <<d, k>>
  <2>1. /\ \A k \in 0..(ClosureSize[d] - 1) : CopiedTo(x, d)[x + k] = <<d, k>>
        /\ \A i \in Offsets : i < x \/ i >= x + ClosureSize[d] => CopiedTo(x, d)[i] = space[i]
    BY <1>5, CopiedWords DEF RingInv
  <2>2. LiveFrom(h, t, p) \subseteq Offsets /\ LiveFrom(h, t, p) \subseteq Nat
    BY <1>0, GeometryNumbers
  <2>3. ASSUME NEW a \in LiveFrom(h, t, p)
        PROVE  a < x \/ a >= x + ClosureSize[d]
    BY <1>0, <1>5, <2>2
  <2>. QED
    BY <1>5, <2>1, <2>2, <2>3
<1>7. /\ StartsFrom(space', h, u, q) = StartsFrom(space, h, t, p) \cup {x}
      /\ x \notin StartsFrom(space, h, t, p)
      /\ space'[x] = <<d, 0>>
  <2>1. Grown(space, h, t, p, space', u, q, x, d)
    BY <1>0, <1>5, <1>6 DEF Bytes, Grown, LiesIn
  <2>. HIDE DEF d, h, t, p, u, q, Goal
  <2>. QED
    BY <2>1, StartsOfMore
<1>. HIDE DEF d
<1>8. \A b \in StartsFrom(space, h, t, p) : /\ space'[b] = space[b]
                                           /\ ReachFrom(h, b) < ReachFrom(h, x)
  BY <1>5, <1>6 DEF StartsFrom
<1>9. ContentsFrom(space', h, u, q) = Append(ContentsFrom(space, h, t, p), d)
  BY <1>0, <1>1, <1>7, <1>8, ContentsOfMore DEF d
<1>10. Contents' = Append(Contents, d)
  BY <1>0, <1>1, <1>9, ContentsAre, NextContentsAre
<1>11. ASSUME h # t
       PROVE  WholeFrom(space', h) = WholeFrom(space, h)
  <2>1. h \in StartsFrom(space, h, t, p)
    BY <1>0, <1>11, HeadIsFirst
  <2>. QED
    BY <1>0, <1>1, <1>7, <1>8, <2>1, StartIsWhole
<1>. QED
  BY <1>10, <1>11 DEF d

\* No closure begins inside the first one of a row.
LEMMA FirstOfRow ==
  ASSUME NEW w, NEW lo \in Nat, NEW hi \in Nat, lo < hi, Tiled(w, lo, hi),
         NEW a \in lo..(hi - 1), NEW e \in Closures, w[a] = <<e, 0>>, a # lo
  PROVE  a \in (lo + ClosureSize[w[lo][1]])..(hi - 1)
<1>. DEFINE d == w[lo][1]
<1>1. /\ ClosureSize[d] \in Nat \ {0}
      /\ \A k \in 0..(ClosureSize[d] - 1) : w[lo + k] = <<d, k>>
  BY TiledRest
<1>2. ASSUME a < lo + ClosureSize[d]
      PROVE  FALSE
  <2>1. a - lo \in 0..(ClosureSize[d] - 1) /\ lo + (a - lo) = a /\ a - lo # 0
    BY <1>1, <1>2
  <2>2. w[a] = <<d, a - lo>>
    BY <1>1, <2>1
  <2>. QED
    BY <2>1, <2>2
<1>. QED
  BY <1>1, <1>2

LEMMA PopTakesFirst ==
  ASSUME RingInv,
         NEW c \in Cores, headAddress # tailAddress, PopAdvance(c), ~Stranded'
  PROVE  Contents' = Tail(Contents)
<1>. DEFINE w == space
            h == headAddress
            t == tailAddress
            p == padding
            g == headAddress'
            u == tailAddress'
            q == padding'
            d == w[h][1]
            next == h + ClosureSize[d]
            end == IF h < t THEN t ELSE QueueSize - p
            Begins(a) == \E e \in Closures : w[a] = <<e, 0>>
            Goal == /\ StartsFrom(w, g, u, q) = StartsFrom(w, h, t, p) \ {h}
                    /\ \A a, b \in StartsFrom(w, h, t, p) \ {h} :
                          ReachFrom(g, b) < ReachFrom(g, a) <=> ReachFrom(h, b) < ReachFrom(h, a)
<1>0. /\ h \in Nat /\ t \in Nat /\ p \in Nat /\ h < QueueSize /\ t <= QueueSize
      /\ QueueSize \in Nat
      /\ h < t => p = 0
      /\ t < h => h < QueueSize - p
  BY SizeAssumption DEF RingInv, Offsets, Addresses
<1>1. /\ space' = w
      /\ Geometry(w, h, t, p)
      /\ Geometry(space', g, u, q)
  BY PopAdvanceRing, RingIsGeometry DEF PopAdvance
<1>2. Tiled(w, h, end) /\ h < end /\ end \in Nat
  BY <1>0 DEF RingInv
<1>3. ClosureSize[d] \in Nat \ {0} /\ next <= end
  BY <1>0, <1>2, TiledRest
<1>4. \A a \in h..(end - 1) : Begins(a) /\ a # h => a \in next..(end - 1)
  BY <1>0, <1>2, FirstOfRow
<1>5. PopAdvance(c) /\ (h < t => next # QueueSize)
  <2>1. ASSUME h < t, next = QueueSize
        PROVE  FALSE
    <3>1. t = QueueSize
      BY <1>0, <1>3, <2>1
    <3>2. headAddress' = 0 /\ tailAddress' = QueueSize
      BY <1>0, <2>1, <3>1, SizeAssumption DEF PopAdvance, TopSize
    <3>. QED
      BY <3>2 DEF Stranded
  <2>. QED
    BY <2>1
<1>6. ASSUME h < t, next = t
      PROVE  Goal
  <2>1. g = 0 /\ u = 0 /\ q = 0
    BY <1>0, <1>3, <1>5, <1>6 DEF PopAdvance, TopSize
  <2>. HIDE DEF w, h, t, p, g, u, q, next, d, Begins
  <2>2. StartsFrom(w, 0, 0, 0) = {}
    BY DEF StartsFrom, LiveFrom
  <2>3. StartsFrom(w, h, t, p) \ {h} = {}
    BY <1>0, <1>4, <1>6 DEF StartsFrom, LiveFrom, Begins
  <2>. QED
    BY <2>1, <2>2, <2>3
<1>7. ASSUME h < t, next # t
      PROVE  Goal
  <2>1. g = next /\ u = t /\ q = p
    BY <1>0, <1>3, <1>5, <1>7 DEF PopAdvance, TopSize
  <2>. HIDE DEF w, h, t, p, g, u, q, next, d, Begins
  <2>2. LiveFrom(next, t, p) = next..(t - 1) /\ LiveFrom(h, t, p) = h..(t - 1)
    BY <1>0, <1>3, <1>7 DEF LiveFrom, next
  <2>3. StartsFrom(w, next, t, p) = StartsFrom(w, h, t, p) \ {h}
    <3>1. next..(t - 1) \subseteq h..(t - 1) /\ h \notin next..(t - 1)
      BY <1>0, <1>3 DEF next
    <3>2. \A a \in h..(t - 1) : Begins(a) /\ a # h => a \in next..(t - 1)
      BY <1>4, <1>7
    <3>. QED
      BY <2>2, <3>1, <3>2 DEF StartsFrom, Begins
  <2>4. \A a \in next..(t - 1) : ReachFrom(next, a) = a /\ ReachFrom(h, a) = a
    BY <1>0, <1>3 DEF ReachFrom, next
  <2>5. \A a \in StartsFrom(w, h, t, p) \ {h} : a \in next..(t - 1)
    BY <2>2, <2>3 DEF StartsFrom
  <2>. QED
    BY <2>1, <2>3, <2>4, <2>5
<1>8. ASSUME t < h, next = end
      PROVE  Goal
  <2>1. g = 0 /\ u = t /\ q = 0
    BY <1>0, <1>3, <1>5, <1>8 DEF PopAdvance, TopSize
  <2>. HIDE DEF w, h, t, p, g, u, q, next, d, Begins
  <2>2. LiveFrom(0, t, 0) = 0..(t - 1) /\ LiveFrom(h, t, p) = h..(end - 1) \cup 0..(t - 1)
    BY <1>0, <1>8 DEF LiveFrom
  <2>3. \A a \in h..(end - 1) : ~(Begins(a) /\ a # h)
    BY <1>0, <1>2, <1>4, <1>8
  <2>4. StartsFrom(w, 0, t, 0) = StartsFrom(w, h, t, p) \ {h}
    <3>1. h \notin 0..(t - 1)
      BY <1>0, <1>8
    <3>. QED
      BY <2>2, <2>3, <3>1 DEF StartsFrom, Begins
  <2>5. \A a \in 0..(t - 1) : ReachFrom(0, a) = a /\ ReachFrom(h, a) = QueueSize + a
    BY <1>0, <1>8 DEF ReachFrom
  <2>6. \A a \in StartsFrom(w, h, t, p) \ {h} : a \in 0..(t - 1)
    BY <2>2, <2>4 DEF StartsFrom
  <2>7. \A a, b \in 0..(t - 1) : b < a <=> QueueSize + b < QueueSize + a
    BY <1>0
  <2>. QED
    BY <2>1, <2>4, <2>5, <2>6, <2>7
<1>9. ASSUME t < h, next # end
      PROVE  Goal
  <2>1. g = next /\ u = t /\ q = p
    BY <1>0, <1>3, <1>5, <1>9 DEF PopAdvance, TopSize
  <2>. HIDE DEF w, h, t, p, g, u, q, next, d, Begins
  <2>2. /\ LiveFrom(next, t, p) = next..(end - 1) \cup 0..(t - 1)
        /\ LiveFrom(h, t, p) = h..(end - 1) \cup 0..(t - 1)
    BY <1>0, <1>3, <1>9 DEF LiveFrom, next
  <2>3. StartsFrom(w, next, t, p) = StartsFrom(w, h, t, p) \ {h}
    <3>1. next..(end - 1) \subseteq h..(end - 1) /\ h \notin next..(end - 1) /\ h \notin 0..(t - 1)
      BY <1>0, <1>2, <1>3, <1>9 DEF next
    <3>. HIDE DEF end
    <3>. QED
      BY <1>4, <2>2, <3>1 DEF StartsFrom, Begins
  <2>4. /\ \A a \in next..(end - 1) : ReachFrom(next, a) = a /\ ReachFrom(h, a) = a
        /\ \A a \in 0..(t - 1) : ReachFrom(next, a) = QueueSize + a /\ ReachFrom(h, a) = QueueSize + a
    BY <1>0, <1>2, <1>3, <1>9 DEF ReachFrom, next
  <2>. HIDE DEF end
  <2>5. \A a \in StartsFrom(w, h, t, p) \ {h} : a \in next..(end - 1) \cup 0..(t - 1)
    BY <2>2, <2>3 DEF StartsFrom
  <2>. QED
    BY <2>1, <2>3, <2>4, <2>5
<1>10. Goal
  BY <1>0, <1>6, <1>7, <1>8, <1>9
<1>11. ContentsFrom(w, g, u, q) = Tail(ContentsFrom(w, h, t, p))
  <2>1. Geometry(w, g, u, q) /\ h # t
    BY <1>1
  <2>. HIDE DEF w, h, t, p, g, u, q
  <2>. QED
    BY <1>1, <1>10, <2>1, ContentsOfRest
<1>. QED
  BY <1>1, <1>11, ContentsAre, NextContentsAre

-----------------------------------------------------------------------------
(* What a step of one core changes of the state that ClosureFifo sees.        *)

Holds(c) == IF top[c] = NoPointer THEN Garbage ELSE WholeFrom(space, top[c])

Stages == [c \in Cores |-> Stage(c)]

Holding == [c \in Cores |-> Holds(c)]

LEMMA HoldingIs ==
  /\ [c \in Cores |-> IF top[c] = NoPointer THEN Garbage ELSE WholeAt(top[c])] = Holding
  /\ [c \in Cores |-> IF top[c] = NoPointer THEN Garbage ELSE WholeAt(top[c])]' = Holding'
BY DEF Holding, Holds, WholeAt, WholeFrom, LiesAt, LiesIn

LEMMA StagesMove ==
  ASSUME NEW c \in Cores, OthersStay(c)
  PROVE  /\ Stages[c] = Stage(c)
         /\ Stages' = [Stages EXCEPT ![c] = Stage(c)']
<1>1. \A d \in Cores \ {c} : Stage(d)' = Stage(d)
  BY DEF OthersStay, Stage
<1>. QED
  BY <1>1 DEF Stages

LEMMA HoldingMoves ==
  ASSUME NEW c \in Cores, OthersStay(c),
         \A d \in Cores \ {c} : top[d] # NoPointer => WholeFrom(space', top[d]) = WholeFrom(space, top[d])
  PROVE  Holding' = [Holding EXCEPT ![c] = Holds(c)']
<1>1. \A d \in Cores \ {c} : Holds(d)' = Holds(d)
  BY DEF OthersStay, Holds
<1>. QED
  BY <1>1 DEF Holding

LEMMA RingSeen ==
  ASSUME UNCHANGED ring
  PROVE  /\ Contents' = Contents
         /\ \A a : WholeFrom(space', a) = WholeFrom(space, a)
BY DEF ring, Contents, Starts, Live, Nth, Earlier, Reach, WholeAt, LiesAt

LEMMA StillHolds ==
  ASSUME NEW c \in Cores, top'[c] = top[c],
         top[c] # NoPointer => WholeFrom(space', top[c]) = WholeFrom(space, top[c]),
         Holding' = [Holding EXCEPT ![c] = Holds(c)']
  PROVE  Holding' = Holding
<1>1. Holds(c)' = Holds(c)
  BY DEF Holds
<1>. QED
  BY <1>1 DEF Holding

\* A step that leaves the ring alone.
LEMMA QuietStep ==
  ASSUME FullInv, NEW c \in Cores, Calls(c) \/ Step(c), UNCHANGED ring
  PROVE  /\ Contents' = Contents
         /\ Stages[c] = Stage(c)
         /\ Stages' = [Stages EXCEPT ![c] = Stage(c)']
         /\ Holding' = [Holding EXCEPT ![c] = Holds(c)']
         /\ top'[c] = top[c] => Holding' = Holding
<1>1. OthersStay(c)
  BY StepsStay DEF FullInv
<1>2. Holding' = [Holding EXCEPT ![c] = Holds(c)']
  BY <1>1, RingSeen, HoldingMoves
<1>. QED
  BY <1>1, <1>2, RingSeen, StagesMove, StillHolds

\* A step that puts a closure in the ring: what the owner holds stays.
LEMMA InsertStep ==
  ASSUME FullInv, NEW c \in Cores,
         InsertAtTail(c) \/ InsertAtInit(c)
  PROVE  /\ Contents' = Append(Contents, arg[c])
         /\ Stages[c] = Stage(c)
         /\ Stages' = [Stages EXCEPT ![c] = Stage(c)']
         /\ Holding' = Holding
<1>0. pc[c] = "insert"
  BY DEF InsertAtTail, InsertAtInit, Goto
<1>1. OthersStay(c)
  BY StepsStay DEF FullInv, Step
<1>2. /\ Contents' = Append(Contents, arg[c])
      /\ headAddress # tailAddress => WholeFrom(space', headAddress) = WholeFrom(space, headAddress)
  BY <1>0, ReadyToInsert, InsertAppends DEF FullInv
<1>3. \A d \in Cores : top[d] # NoPointer => WholeFrom(space', top[d]) = WholeFrom(space, top[d])
  BY <1>2 DEF FullInv, FoundInv
<1>4. top' = top
  BY DEF InsertAtTail, InsertAtInit
<1>5. Holding' = Holding
  BY <1>1, <1>3, <1>4, HoldingMoves, StillHolds
<1>. QED
  BY <1>1, <1>2, <1>5, StagesMove

\* A step that takes the first closure out of it: nobody else holds one.
LEMMA RemoveStep ==
  ASSUME FullInv, NEW c \in Cores,
         PopAdvance(c), ~Stranded'
  PROVE  /\ Contents # <<>>
         /\ Contents' = Tail(Contents)
         /\ queueOwner = c
         /\ Stages[c] = Stage(c)
         /\ Stages' = [Stages EXCEPT ![c] = Stage(c)']
         /\ Holding' = [Holding EXCEPT ![c] = Garbage]
<1>0. headAddress # tailAddress /\ queueOwner = c
  BY ReadyToAdvance DEF PopAdvance, Goto
<1>1. OthersStay(c)
  BY StepsStay DEF FullInv, Step
<1>2. Contents' = Tail(Contents)
  BY <1>0, PopTakesFirst DEF FullInv
<1>3. Contents # <<>>
  BY <1>0, ContentsEmpty, ContentsAre, RingIsGeometry DEF FullInv
<1>4. \A d \in Cores \ {c} : top[d] = NoPointer
  BY <1>0, OneOwner DEF FullInv
<1>5. Holds(c)' = Garbage
  BY DEF PopAdvance, FullInv, OwnerInv, ControlType, Holds
<1>6. Holding' = [Holding EXCEPT ![c] = Garbage]
  BY <1>1, <1>4, <1>5, HoldingMoves
<1>. QED
  BY <1>0, <1>1, <1>2, <1>3, <1>6, StagesMove

-----------------------------------------------------------------------------
(* Every step is one of ClosureFifo, or none.                                 *)

\* What a step of core c knows of the functions.
LEMMA TypesSeen ==
  ASSUME FullInv
  PROVE  /\ pc \in [Cores -> Locations] /\ op \in [Cores -> Operations]
         /\ arg \in [Cores -> Closures \cup {Garbage}]
         /\ result \in [Cores -> Results]
         /\ top = [d \in Cores |-> top[d]]
         /\ \A c \in Cores : LocalInv(c)
         /\ CheckedOwnerStays /\ ControlPlaces /\ FoundInv
BY DEF FullInv, OwnerInv, CallInv, ControlType

\* The queue looks empty exactly when it is.
LEMMA EmptySeen ==
  ASSUME FullInv
  PROVE  /\ QueueIsEmpty <=> Contents = <<>>
         /\ ~QueueIsEmpty => Head(Contents) = WholeFrom(space, headAddress)
BY ContentsEmpty, ContentsAre, RingIsGeometry DEF FullInv, QueueIsEmpty

LEMMA AskMaps ==
  ASSUME FullInv, NEW c \in Cores, Calls(c)
  PROVE  Fifo!AskPush(c) \/ Fifo!AskOther(c)
<1>1. PICK o \in {"push", "own", "disown", "peak", "pop", "popAndDisown", "test"},
           l \in {"lock", "owner", "body"} :
         /\ Call(c, o, l)
         /\ IF o = "push" THEN \E d \in Closures : arg' = [arg EXCEPT ![c] = d]
                          ELSE UNCHANGED arg
  BY DEF Calls, CallPush, CallOwn, CallPeakOrDisown, CallPop, CallIsEmpty
<1>2. UNCHANGED <<ring, queueOwner, top, result>>
  BY <1>1 DEF Call
<1>3. Stage(c) = "idle" /\ Stage(c)' = o
  BY <1>1, TypesSeen DEF Call, Goto, Stage
<1>4. /\ Contents' = Contents
      /\ Stages[c] = "idle" /\ Stages' = [Stages EXCEPT ![c] = o]
      /\ Holding' = Holding
  BY <1>2, <1>3, QuietStep
<1>5. arg[c] = Garbage
  BY <1>1, TypesSeen DEF Call, Goto, LocalInv
<1>6. CASE o = "push"
  BY <1>1, <1>2, <1>4, <1>6, HoldingIs DEF Fifo!AskPush, Fifo!Ask, Stages
<1>7. CASE o # "push"
  <2>1. arg' = [arg EXCEPT ![c] = Garbage]
    BY <1>1, <1>5, <1>7, TypesSeen
  <2>2. Fifo!Ask(c, o, Garbage)
    BY <1>2, <1>4, <2>1, HoldingIs DEF Fifo!Ask, Stages
  <2>. QED
    BY <1>7, <2>2 DEF Fifo!AskOther
<1>. QED
  BY <1>6, <1>7

\* Steps that ClosureFifo does not see.
LEMMA HiddenMaps ==
  ASSUME FullInv, NEW c \in Cores,
         IsOwner(c) \/ Lock(c) \/ PushFits(c) \/ PeakFound(c) \/ PopFound(c) \/ Unlock(c)
  PROVE  UNCHANGED Fifo!vars
<1>1. UNCHANGED <<ring, queueOwner, op, arg, top, result>>
  BY DEF IsOwner, Lock, PushFits, PeakFound, PopFound, Unlock
<1>2. Stage(c)' = Stage(c)
  <2>. USE <1>1, TypesSeen DEF Goto, Stage, LocalInv, ControlPlaces
  <2>1. CASE IsOwner(c)
    BY <2>1 DEF IsOwner, AfterOwner
  <2>2. CASE Lock(c)
    BY <2>2 DEF Lock
  <2>3. CASE PushFits(c)
    BY <2>3 DEF PushFits
  <2>4. CASE PeakFound(c)
    BY <2>4 DEF PeakFound
  <2>5. CASE PopFound(c)
    BY <2>5 DEF PopFound
  <2>6. CASE Unlock(c)
    BY <2>6 DEF Unlock
  <2>. QED
    BY <2>1, <2>2, <2>3, <2>4, <2>5, <2>6
<1>3. Contents' = Contents /\ Stages' = Stages /\ Holding' = Holding
  <2>1. Step(c)
    BY DEF Step
  <2>2. Stages' = [Stages EXCEPT ![c] = Stage(c)]
    BY <1>1, <1>2, <2>1, QuietStep
  <2>. QED
    BY <1>1, <2>1, <2>2, QuietStep DEF Stages
<1>. QED
  BY <1>1, <1>3, HoldingIs DEF Fifo!vars, Stages

LEMMA PushMaps ==
  ASSUME FullInv, NEW c \in Cores
  PROVE  /\ InsertAtTail(c) \/ InsertAtInit(c) => Fifo!Insert(c)
         /\ PushRefused(c) => Fifo!Refuse(c)
<1>. USE TypesSeen
<1>0. /\ headAddress \in Nat /\ tailAddress \in Nat
      /\ headAddress < QueueSize /\ tailAddress <= QueueSize /\ QueueSize \in Nat
      /\ \A d \in Closures : ClosureSize[d] \in Nat
  BY SizeAssumption DEF FullInv, RingInv, Offsets, Addresses
<1>1. ASSUME InsertAtTail(c) \/ InsertAtInit(c)
      PROVE  Fifo!Insert(c)
  <2>0. pc[c] = "insert" /\ pc' = [pc EXCEPT ![c] = "unlock"]
        /\ result' = [result EXCEPT ![c] = "SUCCESS_OP"]
        /\ UNCHANGED <<queueOwner, op, arg, top>>
    BY <1>1 DEF InsertAtTail, InsertAtInit, Goto, Answer
  <2>1. Stage(c) = "push" /\ Stage(c)' = "done"
    BY <2>0 DEF Stage, ControlPlaces
  <2>2. arg[c] \in {d \in Closures : ClosureSize[d] < QueueSize}
    BY <1>0, <2>0, ReadyToInsert DEF Fits, MaxFreeSpace, RightOfTail, LeftOfHead
  <2>3. /\ Contents' = Append(Contents, arg[c])
        /\ Stages[c] = "push" /\ Stages' = [Stages EXCEPT ![c] = "done"]
        /\ Holding' = Holding
    BY <1>1, <2>1, InsertStep
  <2>. QED
    BY <2>0, <2>2, <2>3, HoldingIs DEF Fifo!Insert, Fifo!Answered, Stages
<1>2. ASSUME PushRefused(c)
      PROVE  Fifo!Refuse(c)
  <2>0. /\ pc[c] = "body" /\ pc' = [pc EXCEPT ![c] = "unlock"] /\ op[c] = "push"
        /\ result' = [result EXCEPT ![c] = "NOT_ENOUGH_SPACE"]
        /\ UNCHANGED <<ring, queueOwner, op, arg, top>>
        /\ Step(c)
    BY <1>2 DEF PushRefused, Goto, Answer, Step
  <2>1. Stage(c) = "push" /\ Stage(c)' = "done"
    BY <2>0 DEF Stage
  <2>2. Contents # <<>> \/ arg[c] \notin {d \in Closures : ClosureSize[d] < QueueSize}
    <3>1. QueueIsEmpty => headAddress = 0 /\ tailAddress = 0
      BY DEF QueueIsEmpty, FullInv, RingInv
    <3>2. QueueIsEmpty => MaxFreeSpace = QueueSize
      BY <1>0, <3>1 DEF MaxFreeSpace, RightOfTail, LeftOfHead
    <3>. QED
      BY <1>2, <3>2, EmptySeen DEF PushRefused, Fits
  <2>3. /\ Contents' = Contents
        /\ Stages[c] = "push" /\ Stages' = [Stages EXCEPT ![c] = "done"]
        /\ Holding' = Holding
    BY <2>0, <2>1, QuietStep
  <2>. QED
    BY <2>0, <2>2, <2>3, HoldingIs DEF Fifo!Refuse, Fifo!Answered, Stages
<1>. QED
  BY <1>1, <1>2

LEMMA OwnMaps ==
  ASSUME FullInv, NEW c \in Cores
  PROVE  /\ Own(c) => Fifo!Own(c)
         /\ OwnRefused(c) => Fifo!NotOwner(c)
<1>. USE TypesSeen
<1>1. ASSUME Own(c) \/ OwnRefused(c)
      PROVE  /\ Contents' = Contents
             /\ Stages[c] = "own" /\ Stages' = [Stages EXCEPT ![c] = "done"]
             /\ Holding' = Holding
  <2>1. /\ op[c] = "own" /\ pc[c] = "body" /\ pc' = [pc EXCEPT ![c] = "unlock"]
        /\ UNCHANGED <<ring, op, top>>
        /\ Step(c)
    BY <1>1 DEF Own, OwnRefused, Goto, Step
  <2>2. Stage(c) = "own" /\ Stage(c)' = "done"
    BY <2>1 DEF Stage
  <2>. QED
    BY <2>1, <2>2, QuietStep
<1>2. CASE Own(c)
  BY <1>1, <1>2, HoldingIs DEF Own, OwnRefused, Answer, Fifo!Own, Fifo!Answered, Stages
<1>3. CASE OwnRefused(c)
  BY <1>1, <1>3, HoldingIs DEF Own, OwnRefused, Answer, Fifo!NotOwner, Fifo!Answered, Stages
<1>. QED
  BY <1>2, <1>3 DEF Own, OwnRefused

\* Who is not the owner holds nothing.
LEMMA NotOwnerMaps ==
  ASSUME FullInv, NEW c \in Cores, NotOwner(c)
  PROVE  Fifo!NotOwner(c)
<1>. USE TypesSeen
<1>0. /\ pc[c] = "owner" /\ pc' = [pc EXCEPT ![c] = "return"]
      /\ queueOwner # c
      /\ result' = [result EXCEPT ![c] = "NOT_OWNER"]
      /\ UNCHANGED <<ring, queueOwner, op, arg>>
      /\ Step(c)
  BY DEF NotOwner, Goto, Answer, Step
<1>1. top'[c] = top[c]
  BY <1>0 DEF NotOwner, CheckedOwnerStays
<1>2. Stage(c) = op[c] /\ Stage(c)' = "done" /\ op[c] \in {"disown", "peak", "pop", "popAndDisown"}
  BY <1>0 DEF Stage, ControlPlaces
<1>3. /\ Contents' = Contents
      /\ Stages[c] = op[c] /\ Stages' = [Stages EXCEPT ![c] = "done"]
      /\ Holding' = Holding
  BY <1>0, <1>1, <1>2, QuietStep
<1>. QED
  BY <1>0, <1>2, <1>3, HoldingIs DEF Fifo!NotOwner, Fifo!Answered, Stages

\* The last store of disown gives the queue up; that of popAndDisown too, of
\* which the answer was given when the closure was removed.
LEMMA DisownMaps ==
  ASSUME FullInv, NEW c \in Cores, Disown(c)
  PROVE  Fifo!Disown(c) \/ Fifo!Release(c)
<1>. USE TypesSeen
<1>0. /\ pc[c] = "disown" /\ pc' = [pc EXCEPT ![c] = "return"]
      /\ queueOwner = c /\ queueOwner' = 0
      /\ top' = [top EXCEPT ![c] = NoPointer]
      /\ result' = [result EXCEPT ![c] = "SUCCESS_OP"]
      /\ UNCHANGED <<ring, op, arg>>
      /\ Step(c)
  BY DEF Disown, Goto, Answer, Step, CheckedOwnerStays, PastOwnerTest
<1>1. Stage(c)' = "done"
  BY <1>0 DEF Stage
<1>2. Holds(c)' = Garbage
  BY <1>0 DEF Holds
<1>3. /\ Contents' = Contents
      /\ Stages[c] = Stage(c) /\ Stages' = [Stages EXCEPT ![c] = "done"]
      /\ Holding' = [Holding EXCEPT ![c] = Garbage]
      /\ top'[c] = top[c] => Holding' = Holding
  BY <1>0, <1>1, <1>2, QuietStep
<1>4. CASE op[c] = "disown"
  <2>1. Stage(c) = "disown"
    BY <1>0, <1>4 DEF Stage
  <2>. QED
    BY <1>0, <1>3, <2>1, HoldingIs DEF Fifo!Disown, Fifo!Answered, Stages
<1>5. CASE op[c] = "popAndDisown"
  <2>1. Stage(c) = "release" /\ top[c] = NoPointer /\ result[c] = "SUCCESS_OP"
    BY <1>0, <1>5 DEF Stage, LocalInv
  <2>2. Holding' = Holding /\ result' = result
    BY <1>0, <1>3, <2>1
  <2>. QED
    BY <1>0, <1>3, <2>1, <2>2, HoldingIs DEF Fifo!Release, Stages
<1>. QED
  BY <1>0, <1>4, <1>5 DEF LocalInv

\* peakTopElement and isTpClosureQueueEmpty.
LEMMA LookMaps ==
  ASSUME FullInv, NEW c \in Cores
  PROVE  /\ PeakEmpty(c) => Fifo!FindEmpty(c)
         /\ PeakLoad(c) => Fifo!Peak(c)
         /\ IsEmpty(c) => Fifo!Test(c)
<1>. USE TypesSeen
<1>1. ASSUME PeakEmpty(c) \/ PeakLoad(c) \/ IsEmpty(c)
      PROVE  /\ Contents' = Contents
             /\ Stages[c] = op[c] /\ Stages' = [Stages EXCEPT ![c] = "done"]
             /\ op[c] = IF IsEmpty(c) THEN "test" ELSE "peak"
             /\ Holding' = [Holding EXCEPT ![c] = Holds(c)']
             /\ top'[c] = top[c] => Holding' = Holding
             /\ UNCHANGED <<ring, queueOwner, op, arg>>
  <2>1. /\ pc[c] \in {"body", "load"} /\ pc' = [pc EXCEPT ![c] = "return"]
        /\ UNCHANGED <<ring, queueOwner, op, arg>>
        /\ Step(c)
    BY <1>1 DEF PeakEmpty, PeakLoad, IsEmpty, Goto, Step
  <2>2. Stage(c) = op[c] /\ Stage(c)' = "done"
    BY <2>1 DEF Stage
  <2>3. op[c] = IF IsEmpty(c) THEN "test" ELSE "peak"
    BY <1>1 DEF PeakEmpty, PeakLoad, IsEmpty, Goto, ControlPlaces
  <2>. QED
    BY <2>1, <2>2, <2>3, QuietStep
<1>2. ASSUME PeakEmpty(c)
      PROVE  Fifo!FindEmpty(c)
  <2>1. queueOwner = c /\ Contents = <<>> /\ op[c] = "peak"
    BY <1>2, EmptySeen DEF PeakEmpty, Goto, CheckedOwnerStays, PastOwnerTest
  <2>2. top'[c] = top[c]
    BY <1>2 DEF PeakEmpty, FoundInv, QueueIsEmpty
  <2>. QED
    BY <1>1, <1>2, <2>1, <2>2, HoldingIs DEF PeakEmpty, Answer, Fifo!FindEmpty, Fifo!Answered, Stages
<1>3. ASSUME PeakLoad(c)
      PROVE  Fifo!Peak(c)
  <2>1. queueOwner = c /\ op[c] = "peak" /\ ~QueueIsEmpty
    BY <1>3 DEF PeakLoad, Goto, CheckedOwnerStays, PastOwnerTest, ControlPlaces, FoundInv,
                QueueIsEmpty
  <2>2. Contents # <<>> /\ Head(Contents) = WholeFrom(space, headAddress)
    BY <2>1, EmptySeen
  <2>3. Holds(c)' = Head(Contents)
    <3>1. top'[c] = headAddress /\ headAddress # NoPointer /\ space' = space
      BY <1>3, SizeAssumption DEF PeakLoad, ring, FullInv, RingInv, Offsets, NoPointer
    <3>. QED
      BY <2>2, <3>1 DEF Holds
  <2>. QED
    BY <1>1, <1>3, <2>1, <2>2, <2>3, HoldingIs DEF PeakLoad, Answer, Fifo!Peak, Fifo!Answered, Stages
<1>4. ASSUME IsEmpty(c)
      PROVE  Fifo!Test(c)
  BY <1>1, <1>4, EmptySeen, HoldingIs DEF IsEmpty, Answer, Fifo!Test, Fifo!Answered, Stages
<1>. QED
  BY <1>2, <1>3, <1>4

\* popTopElementQueue and popTopElementAndDisownQueue.
LEMMA PopMaps ==
  ASSUME FullInv, NEW c \in Cores
  PROVE  /\ PopEmpty(c) => Fifo!FindEmpty(c)
         /\ PopAdvance(c) => Fifo!Remove(c) \/ Stranded'
<1>. USE TypesSeen
<1>1. ASSUME PopEmpty(c)
      PROVE  Fifo!FindEmpty(c)
  <2>0. /\ pc[c] = "body" /\ pc' = [pc EXCEPT ![c] = "return"]
        /\ op[c] \in {"pop", "popAndDisown"}
        /\ result' = [result EXCEPT ![c] = "EMPTY_QUEUE"]
        /\ UNCHANGED <<ring, queueOwner, op, arg, top>>
        /\ Step(c)
    BY <1>1 DEF PopEmpty, Goto, Answer, Step
  <2>1. queueOwner = c /\ Contents = <<>>
    BY <1>1, <2>0, EmptySeen DEF PopEmpty, CheckedOwnerStays, PastOwnerTest
  <2>2. Stage(c) = op[c] /\ Stage(c)' = "done"
    BY <2>0 DEF Stage
  <2>3. /\ Contents' = Contents
        /\ Stages[c] = op[c] /\ Stages' = [Stages EXCEPT ![c] = "done"]
        /\ Holding' = Holding
    BY <2>0, <2>2, QuietStep
  <2>. QED
    BY <2>0, <2>1, <2>3, HoldingIs DEF Fifo!FindEmpty, Fifo!Answered, Stages
<1>2. ASSUME PopAdvance(c), ~Stranded'
      PROVE  Fifo!Remove(c)
  <2>0. /\ pc[c] = "advance" /\ pc' = [pc EXCEPT ![c] = "unlock"]
        /\ result' = [result EXCEPT ![c] = "SUCCESS_OP"]
        /\ UNCHANGED <<queueOwner, op, arg>>
        /\ op[c] \in {"pop", "popAndDisown"}
    BY <1>2 DEF PopAdvance, Goto, Answer, ControlPlaces
  <2>1. Stage(c) = op[c] /\ Stage(c)' = IF op[c] = "pop" THEN "done" ELSE "release"
    BY <2>0 DEF Stage
  <2>2. /\ Contents # <<>> /\ Contents' = Tail(Contents) /\ queueOwner = c
        /\ Stages[c] = op[c]
        /\ Stages' = [Stages EXCEPT ![c] = IF Stages[c] = "pop" THEN "done" ELSE "release"]
        /\ Holding' = [Holding EXCEPT ![c] = Garbage]
    BY <1>2, <2>1, RemoveStep
  <2>. QED
    BY <2>0, <2>2, HoldingIs DEF Fifo!Remove, Stages
<1>. QED
  BY <1>1, <1>2

LEMMA ReturnMaps ==
  ASSUME FullInv, NEW c \in Cores, Return(c)
  PROVE  Fifo!Return(c)
<1>. USE TypesSeen
<1>0. /\ pc[c] = "return" /\ pc' = [pc EXCEPT ![c] = "idle"]
      /\ arg' = [arg EXCEPT ![c] = Garbage]
      /\ result' = [result EXCEPT ![c] = "NONE"]
      /\ UNCHANGED <<ring, queueOwner, top>>
      /\ Step(c)
  BY DEF Return, Goto, Answer, Step
<1>1. Stage(c) = "done" /\ Stage(c)' = "idle"
  BY <1>0 DEF Stage
<1>2. /\ Contents' = Contents
      /\ Stages[c] = "done" /\ Stages' = [Stages EXCEPT ![c] = "idle"]
      /\ Holding' = Holding
  BY <1>0, <1>1, QuietStep
<1>. QED
  BY <1>0, <1>2, HoldingIs DEF Fifo!Return, Stages

LEMMA InitMaps ==
  ASSUME FullInv, Init
  PROVE  Fifo!Init
<1>1. Contents = <<>>
  BY EmptySeen DEF Init, QueueIsEmpty
<1>2. [c \in Cores |-> Stage(c)] = [c \in Cores |-> "idle"]
  BY DEF Init, Stage
<1>3. [c \in Cores |-> IF top[c] = NoPointer THEN Garbage ELSE WholeAt(top[c])]
        = [c \in Cores |-> Garbage]
  BY DEF Init
<1>. QED
  BY <1>1, <1>2, <1>3 DEF Init, Fifo!Init

\* Every step but one is a step of ClosureFifo.
FifoNext == Fifo!Next \/ \E c \in Cores : PopAdvance(c) /\ Stranded'

LEMMA StepMaps ==
  ASSUME FullInv, [Next]_vars
  PROVE  [FifoNext]_(Fifo!vars)
<1>1. CASE UNCHANGED vars
  <2>1. Contents' = Contents /\ UNCHANGED <<queueOwner, arg, result>>
    BY <1>1, RingSeen DEF vars, ring
  <2>2. Stages' = Stages
    BY <1>1 DEF vars, Stages, Stage
  <2>3. Holding' = Holding
    BY <1>1 DEF vars, Holding, Holds
  <2>. QED
    BY <2>1, <2>2, <2>3, HoldingIs DEF Fifo!vars, Stages
<1>2. ASSUME NEW c \in Cores, Calls(c)
      PROVE  FifoNext
  BY <1>2, AskMaps DEF FifoNext, Fifo!Next
<1>3. ASSUME NEW c \in Cores, Step(c)
      PROVE  [FifoNext]_(Fifo!vars)
  <2>. USE DEF FifoNext, Fifo!Next
  <2>1. CASE IsOwner(c) \/ Lock(c) \/ PushFits(c) \/ PeakFound(c) \/ PopFound(c) \/ Unlock(c)
    BY <2>1, HiddenMaps
  <2>2. CASE InsertAtTail(c) \/ InsertAtInit(c) \/ PushRefused(c)
    BY <2>2, PushMaps
  <2>3. CASE Own(c) \/ OwnRefused(c)
    BY <2>3, OwnMaps
  <2>4. CASE NotOwner(c)
    BY <2>4, NotOwnerMaps
  <2>5. CASE Disown(c)
    BY <2>5, DisownMaps
  <2>6. CASE PeakEmpty(c) \/ PeakLoad(c) \/ IsEmpty(c)
    BY <2>6, LookMaps
  <2>7. CASE PopEmpty(c) \/ PopAdvance(c)
    BY <2>7, PopMaps
  <2>8. CASE Return(c)
    BY <2>8, ReturnMaps
  <2>. QED
    BY <1>3, <2>1, <2>2, <2>3, <2>4, <2>5, <2>6, <2>7, <2>8 DEF Step
<1>. QED
  BY <1>1, <1>2, <1>3 DEF Next

\* FifoUnlessStranded: for all cores, closures, sizes and whatever queueOwner
\* held, closures come out of pushTpClosureQueue, peakTopElement and
\* popTopElementQueue whole, in the order they went in, to the owner alone; the
\* one the owner has peaked at is not overwritten; an empty queue refuses none
\* that can fit.  One step is different: the pop of the last closure when that
\* ends at the very end of the memory.
THEOREM FifoForEverySize == Spec => FifoUnlessStranded
<1>1. FullInv /\ Init => Fifo!Init
  BY InitMaps
<1>2. FullInv /\ [Next]_vars => [FifoNext]_(Fifo!vars)
  BY StepMaps
<1>. QED
  BY <1>1, <1>2, FullInit, FullStep, PTL DEF Spec, FifoUnlessStranded, FifoNext

\* A queue in which that never happens implements ClosureFifo.
THEOREM ImplementsFifo == Spec /\ []~Stranded => ImplementsClosureFifo
<1>1. ~Stranded' /\ [FifoNext]_(Fifo!vars) => [Fifo!Next]_(Fifo!vars)
  BY DEF FifoNext
<1>. QED
  BY <1>1, FifoForEverySize, PTL DEF FifoUnlessStranded, FifoNext, ImplementsClosureFifo, Fifo!Spec
=============================================================================
