----------------------------- MODULE ListProofs -----------------------------
(***************************************************************************)
(* Facts about the lists of Lists, and about loops over them. A recursive   *)
(* function is followed turn by turn by a set of numbers that holds 0 and,  *)
(* with n, n + 1.                                                           *)
(***************************************************************************)
EXTENDS Lists, WellFoundedInduction, FiniteSetTheorems, SequenceTheorems, TLAPS

-----------------------------------------------------------------------------
\* Numbers, loops, and the items of a list at chosen positions.

\* The numbers up to n are n.
LEMMA NumbersCount ==
  ASSUME NEW n \in Nat
  PROVE  IsFiniteSet(1 .. n) /\ Cardinality(1 .. n) = n
BY FS_Interval

\* A list with one item more.
LEMMA AppendAre ==
  ASSUME NEW S, NEW s \in Seq(S), NEW x \in S
  PROVE  /\ Append(s, x) \in Seq(S) /\ DOMAIN Append(s, x) = DOMAIN s \cup {Len(s) + 1}
         /\ Append(s, x)[Len(s) + 1] = x
         /\ \A i \in DOMAIN s : Append(s, x)[i] = s[i]
OBVIOUS

\* Every set of numbers that has a member has a least one.
LEMMA LeastNumber ==
  ASSUME NEW T \in SUBSET Nat, T # {}
  PROVE  \E n \in T : \A m \in T : n <= m
<1> DEFINE R == OpToRel(<, Nat)
<1>1. IsWellFoundedOn(R, Nat)
  BY Zenon, NatLessThanWellFounded
<1>2. \A m, n \in Nat : m < n => <<m, n>> \in R
  BY DEF OpToRel
<1> HIDE DEF R
<1>3. PICK n \in T : \A m \in T : ~ (<<m, n>> \in R)
  BY Zenon, <1>1, WFMin
<1>4. \A m \in T : ~ (m < n)
  BY Zenon, <1>2, <1>3
<1> QED
  BY <1>4

\* Induction, over a set: what holds of 0 and passes on holds up to N.
LEMMA UpTo ==
  ASSUME NEW N \in Nat, NEW T \in SUBSET Nat, 0 \in T,
         \A n \in 0 .. N - 1 : n \in T => n + 1 \in T
  PROVE  0 .. N \subseteq T
<1> DEFINE left == (0 .. N) \ T
<1>1. SUFFICES ASSUME left # {} PROVE FALSE
  OBVIOUS
<1>2. left \in SUBSET Nat
  OBVIOUS
<1>3. PICK n \in left : \A m \in left : n <= m
  <2> HIDE DEF left
  <2> QED BY <1>1, <1>2, LeastNumber
<1>4. n # 0 /\ n - 1 \in 0 .. N - 1 /\ n - 1 \notin left
  BY <1>3
<1> QED
  BY <1>3, <1>4

\* A loop of N turns over states in D, and a run of it.
Turns(N, D, turn) == turn \in [1 .. N -> [D -> D]]
Run(N, D, start, turn, run) ==
  /\ run \in [0 .. N -> D]
  /\ run[0] = start
  /\ \A n \in 1 .. N : run[n] = turn[n][run[n - 1]]

\* Every loop has a run.
LEMMA LoopRuns ==
  ASSUME NEW N \in Nat, NEW D, NEW start \in D, NEW turn, Turns(N, D, turn)
  PROVE  \E run : Run(N, D, start, turn, run)
<1> DEFINE T == {m \in 0 .. N : \E run : Run(m, D, start, turn, run)}
<1>1. 0 \in T
  <2>1. Run(0, D, start, turn, [n \in 0 .. 0 |-> start])
    BY DEF Run
  <2> QED
    BY <2>1
<1>2. ASSUME NEW m \in 0 .. N - 1, m \in T
      PROVE  m + 1 \in T
  <2>1. PICK run : Run(m, D, start, turn, run)
    BY <1>2
  <2> DEFINE next == [n \in 0 .. m + 1 |-> IF n = m + 1 THEN turn[m + 1][run[m]] ELSE run[n]]
  <2>2. turn[m + 1] \in [D -> D] /\ run \in [0 .. m -> D] /\ run[m] \in D
    BY <2>1 DEF Run, Turns
  <2>3. next \in [0 .. m + 1 -> D]
    BY <2>2
  <2>4. next[0] = start
    BY <2>1 DEF Run
  <2>5. ASSUME NEW n \in 1 .. m + 1
        PROVE  next[n] = turn[n][next[n - 1]]
    <3>1. CASE n = m + 1
      BY <3>1
    <3>2. CASE n \in 1 .. m
      BY <3>2, <2>1 DEF Run
    <3> QED
      BY <3>1, <3>2
  <2>6. Run(m + 1, D, start, turn, next)
    BY Zenon, <2>3, <2>4, <2>5 DEF Run
  <2>7. m + 1 \in 0 .. N
    OBVIOUS
  <2> QED
    BY <2>6, <2>7
<1>3. 0 .. N \subseteq T
  <2>1. T \in SUBSET Nat
    OBVIOUS
  <2> HIDE DEF T
  <2> QED
    BY <1>1, <1>2, <2>1, UpTo
<1> QED
  BY <1>3

-----------------------------------------------------------------------------
LEMMA ListingOfSeq ==
  ASSUME NEW S, NEW s \in Seq(S)
  PROVE  Listing(s) /\ ToSet(s) \subseteq S
  BY DEF Listing, ToSet

LEMMA ListingOfDomain ==
  ASSUME NEW n \in Nat, NEW s, s = [i \in 1 .. n |-> s[i]]
  PROVE  Listing(s) /\ Len(s) = n
<1>1. s \in [1 .. n -> ToSet(s)]
  BY DEF ToSet
<1> QED
  BY <1>1 DEF Listing

\* What filtering a sequence leaves: after n of its items, sequences of them.
Among(s, positions, n, among) ==
  /\ among[0] = <<>>
  /\ \A k \in 1 .. n : among[k] = IF k \in positions THEN Append(among[k - 1], s[k]) ELSE among[k - 1]

LEMMA ItemsAtRuns ==
  ASSUME NEW S, NEW s \in Seq(S), NEW positions
  PROVE  \E among \in [0 .. Len(s) -> Seq(S)] :
           /\ Among(s, positions, Len(s), among)
           /\ ItemsAt(s, positions) = among[Len(s)]
<1> DEFINE N == Len(s)
           turn == [n \in 1 .. N |-> [t \in Seq(S) |-> IF n \in positions THEN Append(t, s[n]) ELSE t]]
           Loop(f) == f = [n \in 0 .. Len(s) |->
                             IF n = 0 THEN <<>>
                             ELSE IF n \in positions THEN Append(f[n - 1], s[n]) ELSE f[n - 1]]
<1>1. N \in Nat /\ \A n \in 1 .. N : s[n] \in S
  OBVIOUS
<1>2. Turns(N, Seq(S), turn)
  <2>1. \A n \in 1 .. N, t \in Seq(S) : Append(t, s[n]) \in Seq(S)
    BY <1>1
  <2> QED
    BY <2>1 DEF Turns
<1>3. <<>> \in Seq(S)
  OBVIOUS
<1>4. PICK run : Run(N, Seq(S), <<>>, turn, run)
  <2> HIDE DEF N, turn
  <2> QED
    BY Zenon, <1>1, <1>2, <1>3, LoopRuns
<1>5. Loop(run)
  <2>1. run = [n \in 0 .. N |-> run[n]]
    BY <1>4 DEF Run
  <2>2. ASSUME NEW n \in 0 .. N
        PROVE  run[n] = IF n = 0 THEN <<>>
                        ELSE IF n \in positions THEN Append(run[n - 1], s[n]) ELSE run[n - 1]
    <3>1. CASE n = 0
      BY <3>1, <1>4 DEF Run
    <3>2. CASE n # 0
      <4>1. n \in 1 .. N /\ run[n - 1] \in Seq(S)
        BY <3>2, <1>1, <1>4 DEF Run
      <4> QED
        BY Zenon, <4>1, <3>2, <1>4 DEF Run
    <3> QED
      BY <3>1, <3>2
  <2> QED
    BY <2>1, <2>2
<1> DEFINE it == CHOOSE f : Loop(f)
<1>6. Loop(it)
  BY Zenon, <1>5
<1>7. ItemsAt(s, positions) = it[N]
  BY DEF ItemsAt
<1> HIDE DEF it
<1>8. /\ it[0] = <<>>
      /\ \A k \in 1 .. N : it[k] = IF k \in positions THEN Append(it[k - 1], s[k]) ELSE it[k - 1]
  <2>1. \A n \in 0 .. N : it[n] = IF n = 0 THEN <<>>
                                  ELSE IF n \in positions THEN Append(it[n - 1], s[n]) ELSE it[n - 1]
    BY Zenon, <1>6
  <2> HIDE DEF N
  <2>2. 0 \in 0 .. N /\ \A k \in 1 .. N : k \in 0 .. N /\ k # 0
    BY <1>1
  <2> QED
    BY Zenon, <2>1, <2>2
<1> DEFINE T == {n \in 0 .. N : it[n] \in Seq(S)}
<1>9. 0 .. N \subseteq T
  <2>1. 0 \in T
    <3>1. 0 \in 0 .. N
      BY <1>1
    <3> QED
      BY Zenon, <3>1, <1>8, <1>3
  <2>2. ASSUME NEW n \in 0 .. N - 1, n \in T
        PROVE  n + 1 \in T
    <3>1. n + 1 \in 1 .. N /\ it[n] \in Seq(S) /\ (n + 1) - 1 = n
      BY <2>2, <1>1
    <3>2. it[n + 1] = IF n + 1 \in positions THEN Append(it[n], s[n + 1]) ELSE it[n]
      BY <3>1, <1>8
    <3>3. it[n + 1] \in Seq(S)
      <4> HIDE DEF N
      <4> QED BY <3>1, <3>2, <1>1
    <3>4. n + 1 \in 0 .. N
      BY <1>1
    <3> QED
      BY <3>3, <3>4
  <2>3. T \in SUBSET Nat /\ N \in Nat
    BY <1>1
  <2> HIDE DEF T, N
  <2> QED
    BY Zenon, <2>1, <2>2, <2>3, UpTo
<1>10. it \in [0 .. N -> Seq(S)]
  BY <1>6, <1>9
<1> QED
  BY <1>7, <1>8, <1>10 DEF Among
\* What is left of a sequence is a sequence of its items; the items at the positions are all there.
LEMMA ItemsAtIsSeq ==
  ASSUME NEW S, NEW s \in Seq(S), NEW positions
  PROVE  ItemsAt(s, positions) \in Seq(S)
<1>1. PICK among \in [0 .. Len(s) -> Seq(S)] : ItemsAt(s, positions) = among[Len(s)]
  BY ItemsAtRuns
<1> QED
  BY <1>1

LEMMA ItemsAtAreThere ==
  ASSUME NEW s, Listing(s), NEW positions
  PROVE  /\ \A i \in DOMAIN ItemsAt(s, positions) :
               \E k \in DOMAIN s \cap positions : ItemsAt(s, positions)[i] = s[k]
         /\ \A k \in DOMAIN s \cap positions :
               \E i \in DOMAIN ItemsAt(s, positions) : ItemsAt(s, positions)[i] = s[k]
<1> DEFINE S == ToSet(s)
<1>0. s \in Seq(S)
  BY DEF Listing
<1> HIDE DEF S
<1>s. Len(s) \in Nat /\ \A n \in 1 .. Len(s) : s[n] \in S
  BY <1>0
<1>1. PICK among \in [0 .. Len(s) -> Seq(S)] :
        /\ Among(s, positions, Len(s), among)
        /\ ItemsAt(s, positions) = among[Len(s)]
  BY Zenon, <1>0, ItemsAtRuns
<1> DEFINE Of(n) == /\ \A i \in DOMAIN among[n] : \E k \in (1 .. n) \cap positions : among[n][i] = s[k]
                    /\ \A k \in (1 .. n) \cap positions : \E i \in DOMAIN among[n] : among[n][i] = s[k]
           T == {n \in 0 .. Len(s) : Of(n)}
<1>2. 0 \in T
  <2>1. among[0] = <<>> /\ DOMAIN among[0] = {}
    BY <1>1 DEF Among
  <2> QED
    BY <2>1
<1>3. ASSUME NEW n \in 0 .. Len(s) - 1, n \in T
      PROVE  n + 1 \in T
  <2>0. n \in 0 .. Len(s) /\ n + 1 \in 1 .. Len(s) /\ among[n] \in Seq(S) /\ s[n + 1] \in S
    BY <1>s
  <2>1. /\ n \in 0 .. Len(s) /\ n + 1 \in 1 .. Len(s) /\ among[n] \in Seq(S) /\ s[n + 1] \in S
        /\ Of(n)
    BY Zenon, <1>3, <2>0
  <2>2. among[n + 1] = IF n + 1 \in positions THEN Append(among[n], s[n + 1]) ELSE among[n]
    BY <2>1, <1>1 DEF Among
  <2>3. 1 .. n + 1 = (1 .. n) \cup {n + 1}
    BY <2>1
  <2>4. CASE n + 1 \notin positions
    <3>1. among[n + 1] = among[n] /\ (1 .. n + 1) \cap positions = (1 .. n) \cap positions
      BY <2>2, <2>3, <2>4
    <3>2. Of(n + 1)
      <4>1. \A i \in DOMAIN among[n + 1] : \E k \in (1 .. n + 1) \cap positions : among[n + 1][i] = s[k]
        BY <3>1, <2>1
      <4>2. \A k \in (1 .. n + 1) \cap positions : \E i \in DOMAIN among[n + 1] : among[n + 1][i] = s[k]
        BY <3>1, <2>1
      <4> QED
        BY <4>1, <4>2
    <3> QED
      BY <3>2, <2>1
  <2>5. CASE n + 1 \in positions
    <3>1. /\ DOMAIN among[n + 1] = DOMAIN among[n] \cup {Len(among[n]) + 1}
          /\ among[n + 1][Len(among[n]) + 1] = s[n + 1]
          /\ \A i \in DOMAIN among[n] : among[n + 1][i] = among[n][i]
      BY <2>1, <2>2, <2>5, AppendAre
    <3>2. ASSUME NEW i \in DOMAIN among[n + 1]
          PROVE  \E k \in (1 .. n + 1) \cap positions : among[n + 1][i] = s[k]
      <4>1. CASE i = Len(among[n]) + 1
        <5>1. n + 1 \in (1 .. n + 1) \cap positions /\ among[n + 1][i] = s[n + 1]
          BY <4>1, <3>1, <2>3, <2>5
        <5> QED
          BY <5>1
      <4>2. CASE i \in DOMAIN among[n]
        <5>1. PICK k \in (1 .. n) \cap positions : among[n][i] = s[k]
          BY <4>2, <2>1
        <5>2. k \in (1 .. n + 1) \cap positions /\ among[n + 1][i] = s[k]
          BY <5>1, <4>2, <3>1, <2>3
        <5> QED
          BY <5>2
      <4> QED
        BY <4>1, <4>2, <3>1
    <3>3. \A k \in (1 .. n + 1) \cap positions : \E i \in DOMAIN among[n + 1] : among[n + 1][i] = s[k]
      BY <3>1, <2>1, <2>3, <2>5
    <3> QED
      BY <3>2, <3>3, <2>1
  <2> QED
    BY <2>4, <2>5
<1>4. Len(s) \in T
  <2>1. T \in SUBSET Nat /\ Len(s) \in Nat
    BY <1>0
  <2> HIDE DEF T
  <2>2. 0 .. Len(s) \subseteq T
    BY Zenon, <1>2, <1>3, <2>1, UpTo
  <2> QED
    BY <2>1, <2>2
<1>5. Of(Len(s)) /\ DOMAIN s = 1 .. Len(s)
  BY <1>0, <1>4
<1> QED
  BY <1>1, <1>5

LEMMA ItemsAtAreItems ==
  ASSUME NEW s, Listing(s), NEW positions, NEW i \in DOMAIN ItemsAt(s, positions)
  PROVE  \E k \in DOMAIN s \cap positions : ItemsAt(s, positions)[i] = s[k]
  BY ItemsAtAreThere

LEMMA ItemsAreKept ==
  ASSUME NEW s, Listing(s), NEW positions, NEW k \in DOMAIN s, k \in positions
  PROVE  \E i \in DOMAIN ItemsAt(s, positions) : ItemsAt(s, positions)[i] = s[k]
  BY ItemsAtAreThere

\* While every position is one of them, the items keep their places.
LEMMA ItemsAtFront ==
  ASSUME NEW S, NEW s \in Seq(S), NEW positions, NEW m \in 0 .. Len(s), 1 .. m \subseteq positions
  PROVE  /\ 1 .. m \subseteq DOMAIN ItemsAt(s, positions)
         /\ \A j \in 1 .. m : ItemsAt(s, positions)[j] = s[j]
<1>1. PICK among \in [0 .. Len(s) -> Seq(S)] :
        /\ Among(s, positions, Len(s), among)
        /\ ItemsAt(s, positions) = among[Len(s)]
  BY ItemsAtRuns
<1> DEFINE least(n) == IF n <= m THEN n ELSE m
           Kin(n) == /\ n <= m => Len(among[n]) = n
                     /\ 1 .. least(n) \subseteq DOMAIN among[n]
                     /\ \A j \in 1 .. least(n) : among[n][j] = s[j]
           T == {n \in 0 .. Len(s) : Kin(n)}
<1>2. 0 \in T
  <2>1. among[0] = <<>>
    BY <1>1 DEF Among
  <2> QED
    BY <2>1
<1>3. ASSUME NEW n \in 0 .. Len(s) - 1, n \in T
      PROVE  n + 1 \in T
  <2>1. /\ n \in 0 .. Len(s) /\ n + 1 \in 1 .. Len(s) /\ among[n] \in Seq(S) /\ s[n + 1] \in S
        /\ Kin(n)
    BY <1>3
  <2>2. among[n + 1] = IF n + 1 \in positions THEN Append(among[n], s[n + 1]) ELSE among[n]
    BY <2>1, <1>1 DEF Among
  <2>3. CASE n + 1 \in 1 .. m
    <3>1. /\ Len(among[n]) = n /\ n + 1 \in positions
          /\ \A j \in 1 .. n : among[n][j] = s[j]
      BY <2>1, <2>3
    <3>2. /\ Len(among[n + 1]) = n + 1 /\ DOMAIN among[n + 1] = 1 .. n + 1
          /\ among[n + 1][n + 1] = s[n + 1]
          /\ \A j \in 1 .. n : among[n + 1][j] = among[n][j]
      BY <2>1, <2>2, <3>1
    <3>3. least(n + 1) = n + 1 /\ 1 .. n + 1 = (1 .. n) \cup {n + 1}
      BY <2>3, <2>1
    <3>4. Kin(n + 1)
      BY <3>1, <3>2, <3>3
    <3> QED
      BY <3>4, <2>1
  <2>4. CASE n + 1 \notin 1 .. m
    <3>1. least(n) = m /\ least(n + 1) = m /\ ~ (n + 1 <= m)
      BY <2>1, <2>4
    <3>2. /\ DOMAIN among[n] \subseteq DOMAIN among[n + 1]
          /\ \A i \in DOMAIN among[n] : among[n + 1][i] = among[n][i]
      BY <2>1, <2>2
    <3>3. Kin(n + 1)
      BY <3>1, <3>2, <2>1
    <3> QED
      BY <3>3, <2>1
  <2> QED
    BY <2>3, <2>4
<1>4. Len(s) \in T
  <2>1. T \in SUBSET Nat /\ Len(s) \in Nat
    OBVIOUS
  <2> HIDE DEF T
  <2>2. 0 .. Len(s) \subseteq T
    BY Zenon, <1>2, <1>3, <2>1, UpTo
  <2> QED
    BY <2>1, <2>2
<1>5. Kin(Len(s)) /\ least(Len(s)) = m
  BY <1>4
<1> QED
  BY Zenon, <1>1, <1>5

\* Where any two of n things are told apart, and consistently, one of them comes before all others.
LEMMA FirstOfAll ==
  ASSUME NEW n \in Nat, n # 0, NEW R,
         \A i, j \in 1 .. n : i # j => <<i, j>> \in R \/ <<j, i>> \in R,
         \A i, j, k \in 1 .. n : <<i, j>> \in R /\ <<j, k>> \in R => <<i, k>> \in R
  PROVE  \E k \in 1 .. n : \A j \in (1 .. n) \ {k} : <<k, j>> \in R
<1> DEFINE First(m, k) == \A j \in (1 .. m) \ {k} : <<k, j>> \in R
           T == {m \in 0 .. n : m = 0 \/ \E k \in 1 .. m : First(m, k)}
<1>1. 0 \in T
  OBVIOUS
<1>2. ASSUME NEW m \in 0 .. n - 1, m \in T
      PROVE  m + 1 \in T
  <2>1. m + 1 \in 1 .. n /\ 1 .. m + 1 = (1 .. m) \cup {m + 1}
    OBVIOUS
  <2>2. CASE m = 0
    <3>1. 1 \in 1 .. 1 /\ First(1, 1)
      OBVIOUS
    <3> QED
      BY <2>1, <2>2, <3>1
  <2>3. CASE m # 0
    <3>1. PICK k \in 1 .. m : First(m, k)
      BY Zenon, <1>2, <2>3
    <3>2. CASE <<k, m + 1>> \in R
      <4>1. First(m + 1, k) /\ k \in 1 .. m + 1
        BY <3>1, <3>2, <2>1
      <4>2. m + 1 \in 0 .. n
        BY <2>1
      <4> HIDE DEF First
      <4> QED
        BY <4>1, <4>2
    <3>3. CASE <<m + 1, k>> \in R
      <4>1. ASSUME NEW j \in (1 .. m + 1) \ {m + 1}
            PROVE  <<m + 1, j>> \in R
        <5>1. j \in 1 .. n /\ k \in 1 .. n /\ m + 1 \in 1 .. n /\ j \in 1 .. m
          BY <2>1
        <5>2. j = k \/ <<k, j>> \in R
          BY <3>1, <5>1
        <5> QED
          BY <5>1, <5>2, <3>3
      <4>2. First(m + 1, m + 1) /\ m + 1 \in 1 .. m + 1 /\ m + 1 \in 0 .. n
        BY <4>1, <2>1
      <4> HIDE DEF First
      <4> QED
        BY <4>2
    <3>4. k \in 1 .. n /\ m + 1 \in 1 .. n /\ k # m + 1
      BY <2>1
    <3> QED
      BY Zenon, <3>2, <3>3, <3>4
  <2> QED
    BY Zenon, <2>2, <2>3
<1>3. n \in T
  <2>1. T \in SUBSET Nat
    OBVIOUS
  <2> HIDE DEF T
  <2>2. 0 .. n \subseteq T
    BY <1>1, <1>2, <2>1, UpTo
  <2> QED
    BY <2>2
<1> QED
  BY Zenon, <1>3

LEMMA ImageIsFinite ==
  ASSUME NEW f, IsFiniteSet(DOMAIN f)
  PROVE  IsFiniteSet({f[x] : x \in DOMAIN f})
<1> DEFINE T == {f[x] : x \in DOMAIN f}
           g == [x \in DOMAIN f |-> f[x]]
<1>1. g \in Surjection(DOMAIN f, T)
  BY DEF Surjection
<1>2. IsFiniteSet(T)
  <2> HIDE DEF T, g
  <2> QED
    BY <1>1, FS_Surjection
<1> QED
  BY <1>2

\* Flattening, followed turn by turn: what each item adds to.
LEMMA FlattenFollows ==
  ASSUME NEW S, NEW a \in Seq(Seq(S)), NEW G \in [0 .. Len(a) -> SUBSET Seq(S)],
         <<>> \in G[0],
         \A n \in 1 .. Len(a) : \A s \in G[n - 1] : s \o a[n] \in G[n]
  PROVE  FlattenSeq(a) \in G[Len(a)]
<1> DEFINE N == Len(a)
           D == Seq(S)
           turn == [n \in 1 .. N |-> [s \in D |-> s \o a[n]]]
           Loop(f) == f = [n \in 1 .. N |-> IF n = 1 THEN a[n] ELSE f[n - 1] \o a[n]]
<1>1. N \in Nat /\ \A n \in 1 .. N : a[n] \in Seq(S)
  OBVIOUS
<1>2. CASE N = 0
  <2>1. FlattenSeq(a) = a /\ a = <<>>
    BY <1>2 DEF FlattenSeq
  <2> QED
    BY <2>1, <1>2
<1>3. CASE N # 0
  <2> HIDE DEF N
  <2>1. PICK run : Run(N, D, <<>>, turn, run)
    <3>1. Turns(N, D, turn)
      BY <1>1 DEF Turns
    <3>2. <<>> \in D
      OBVIOUS
    <3> HIDE DEF D, turn
    <3> QED
      BY <1>1, <3>1, <3>2, LoopRuns
  <2>2. /\ run \in [0 .. N -> D] /\ run[0] = <<>>
        /\ \A n \in 1 .. N : run[n] = run[n - 1] \o a[n]
    <3>1. \A n \in 1 .. N : n - 1 \in 0 .. N
      BY <1>1
    <3> HIDE DEF D
    <3> QED
      BY Zenon, <2>1, <3>1 DEF Run
  <2> DEFINE whole == [n \in 1 .. N |-> run[n]]
  <2>3. Loop(whole)
    <3>1. ASSUME NEW n \in 1 .. N
          PROVE  run[n] = IF n = 1 THEN a[n] ELSE whole[n - 1] \o a[n]
      <4>1. CASE n = 1
        <5>0. a[n] \in Seq(S)
          BY <1>1
        <5>1. n - 1 = 0 /\ run[n] = <<>> \o a[n]
          <6>1. n - 1 = 0
            BY <4>1
          <6>2. run[n] = run[n - 1] \o a[n]
            BY Zenon, <2>2
          <6>3. run[n - 1] = <<>>
            BY <6>1, <2>2
          <6> QED
            BY <6>1, <6>2, <6>3
        <5>2. <<>> \o a[n] = a[n]
          BY <5>0
        <5> QED
          BY <4>1, <5>1, <5>2
      <4>2. CASE n # 1
        <5>1. n - 1 \in 1 .. N
          BY <4>2, <1>1
        <5> QED
          BY Zenon, <4>2, <5>1, <2>2
      <4> QED
        BY <4>1, <4>2
    <3> QED
      BY Zenon, <3>1
  <2>4. PICK f : f = CHOOSE g : Loop(g)
    BY Zenon
  <2>5. Loop(f)
    <3> HIDE DEF whole
    <3> QED
      BY Zenon, <2>3, <2>4
  <2>6. FlattenSeq(a) = f[N]
    BY <1>3, <2>4 DEF FlattenSeq, N
  <2>g. \A n \in 1 .. N : \A s \in G[n - 1] : s \in Seq(S) /\ s \o a[n] \in G[n]
    <3>1. \A n \in 1 .. N : n - 1 \in 0 .. N
      BY <1>1
    <3> QED
      BY Zenon, <3>1 DEF N
  <2> DEFINE T == {n \in 0 .. N : n = 0 \/ f[n] \in G[n]}
  <2>7. 0 .. N \subseteq T
    <3>1. T \in SUBSET Nat /\ 0 \in T
      BY <1>1
    <3>2. ASSUME NEW n \in 0 .. N - 1, n \in T
          PROVE  n + 1 \in T
      <4>1. n + 1 \in 1 .. N /\ n + 1 \in 0 .. N /\ (n + 1) - 1 = n
        BY <1>1
      <4>2. f[n + 1] = IF n + 1 = 1 THEN a[n + 1] ELSE f[n] \o a[n + 1]
        BY Zenon, <4>1, <2>5
      <4> HIDE DEF Loop, turn, D
      <4>3. CASE n = 0
        <5>1. a[n + 1] \in Seq(S) /\ <<>> \o a[n + 1] = a[n + 1]
          BY <4>1, <1>1
        <5>2. <<>> \o a[n + 1] \in G[n + 1]
          BY Zenon, <4>1, <4>3, <2>g
        <5> QED
          BY <4>1, <4>2, <4>3, <5>1, <5>2
      <4>4. CASE n # 0
        <5>1. f[n + 1] = f[n] \o a[n + 1] /\ f[n] \in G[n]
          <6>1. n + 1 # 1 /\ f[n] \in G[n]
            BY <4>4, <3>2, <1>1
          <6> QED
            BY Zenon, <4>2, <6>1
        <5>2. f[n + 1] \in G[n + 1]
          BY Zenon, <4>1, <5>1, <2>g
        <5> QED
          BY <4>1, <5>2
      <4> QED
        BY <4>3, <4>4
    <3> HIDE DEF T
    <3> QED
      BY Zenon, <1>1, <3>1, <3>2, UpTo
  <2>8. N \in T
    BY <1>1, <2>7
  <2> QED
    BY <2>8, <1>3, <2>6 DEF N
<1> QED
  BY <1>2, <1>3

\* One after the other, sequences are a sequence.
LEMMA FlattenIsSeq ==
  ASSUME NEW S, NEW a \in Seq(Seq(S))
  PROVE  FlattenSeq(a) \in Seq(S)
<1> DEFINE G == [n \in 0 .. Len(a) |-> Seq(S)]
<1>1. Len(a) \in Nat /\ \A n \in 1 .. Len(a) : a[n] \in Seq(S) /\ n \in 0 .. Len(a) /\ n - 1 \in 0 .. Len(a)
  OBVIOUS
<1>2. /\ 0 \in 0 .. Len(a) /\ Len(a) \in 0 .. Len(a)
      /\ \A n \in 0 .. Len(a) : G[n] = Seq(S)
      /\ G \in [0 .. Len(a) -> SUBSET Seq(S)]
  BY <1>1
<1> HIDE DEF G
<1>3. ASSUME NEW n \in 1 .. Len(a), NEW s \in G[n - 1]
      PROVE  s \o a[n] \in G[n]
  <2>1. s \in Seq(S) /\ a[n] \in Seq(S) /\ G[n] = Seq(S)
    BY Zenon, <1>1, <1>2
  <2>2. s \o a[n] \in Seq(S)
    BY <2>1
  <2> QED
    BY <2>1, <2>2
<1>4. <<>> \in G[0]
  BY <1>2
<1>5. FlattenSeq(a) \in G[Len(a)]
  BY Zenon, <1>2, <1>3, <1>4, FlattenFollows
<1> QED
  BY <1>2, <1>5

-----------------------------------------------------------------------------
\* What a list holds, and that it is one.
LEMMA EmptyList == Listing(<<>>) /\ ToSet(<<>>) = {}
BY DEF Listing, ToSet

LEMMA ListOfOne ==
  ASSUME NEW x
  PROVE  Listing(<<x>>) /\ ToSet(<<x>>) = {x} /\ Len(<<x>>) = 1
BY DEF Listing, ToSet

LEMMA HeadOfList ==
  ASSUME NEW s, Listing(s)
  PROVE  /\ s = <<>> <=> ToSet(s) = {}
         /\ s # <<>> => 1 \in DOMAIN s /\ s[1] \in ToSet(s) /\ Len(s) >= 1
         /\ Len(s) \in Nat /\ DOMAIN s = 1 .. Len(s)
         /\ s = [i \in 1 .. Len(s) |-> s[i]]
<1>1. s \in Seq(ToSet(s))
  BY DEF Listing
<1>2. Len(s) \in Nat /\ DOMAIN s = 1 .. Len(s) /\ s = [i \in 1 .. Len(s) |-> s[i]]
  BY <1>1
<1>3. s # <<>> => 1 \in DOMAIN s /\ Len(s) >= 1
  BY <1>1
<1>4. \A i \in DOMAIN s : s[i] \in ToSet(s)
  BY DEF ToSet
<1>5. s = <<>> => ToSet(s) = {}
  BY EmptyList
<1> QED
  BY <1>2, <1>3, <1>4, <1>5

LEMMA ListWithOneMore ==
  ASSUME NEW s, Listing(s), NEW x
  PROVE  /\ Listing(Append(s, x)) /\ ToSet(Append(s, x)) = ToSet(s) \cup {x}
         /\ Len(Append(s, x)) = Len(s) + 1 /\ Append(s, x)[Len(s) + 1] = x
         /\ \A i \in DOMAIN s : Append(s, x)[i] = s[i]
         /\ DOMAIN Append(s, x) = DOMAIN s \cup {Len(s) + 1}
<1> DEFINE S == ToSet(s) \cup {x}
           t == Append(s, x)
<1>1. s \in Seq(S)
  BY DEF Listing
<1>2. x \in S
  OBVIOUS
<1> HIDE DEF S
<1>3. /\ t \in Seq(S) /\ DOMAIN t = DOMAIN s \cup {Len(s) + 1}
      /\ t[Len(s) + 1] = x /\ \A i \in DOMAIN s : t[i] = s[i]
  BY <1>1, <1>2
<1>4. Len(t) = Len(s) + 1
  BY <1>1, <1>2
<1> HIDE DEF t
<1>5. ToSet(t) = ToSet(s) \cup {x}
  <2>1. ASSUME NEW y \in ToSet(t) PROVE y \in ToSet(s) \cup {x}
    <3>1. PICK i \in DOMAIN t : y = t[i]
      BY <2>1 DEF ToSet
    <3>2. CASE i \in DOMAIN s
      BY <3>1, <3>2, <1>3 DEF ToSet
    <3>3. CASE i = Len(s) + 1
      BY <3>1, <3>3, <1>3
    <3> QED
      BY <3>1, <3>2, <3>3, <1>3
  <2>2. ASSUME NEW y \in ToSet(s) PROVE y \in ToSet(t)
    <3>1. PICK i \in DOMAIN s : y = s[i]
      BY <2>2 DEF ToSet
    <3> QED
      BY <3>1, <1>3 DEF ToSet
  <2>3. x \in ToSet(t)
    BY <1>3 DEF ToSet
  <2> QED
    BY <2>1, <2>2, <2>3
<1>6. Listing(t)
  BY <1>3, <1>5 DEF Listing, S
<1> QED
  BY <1>3, <1>4, <1>5, <1>6 DEF t

LEMMA ListsTogether ==
  ASSUME NEW s, Listing(s), NEW t, Listing(t)
  PROVE  /\ Listing(s \o t) /\ ToSet(s \o t) = ToSet(s) \cup ToSet(t)
         /\ Len(s \o t) = Len(s) + Len(t)
         /\ \A i \in DOMAIN s : (s \o t)[i] = s[i]
<1> DEFINE S == ToSet(s) \cup ToSet(t)
           u == s \o t
<1>1. s \in Seq(S) /\ t \in Seq(S)
  BY DEF Listing
<1> HIDE DEF S
<1>2. /\ u \in Seq(S) /\ Len(u) = Len(s) + Len(t) /\ Len(s) \in Nat /\ Len(t) \in Nat
      /\ DOMAIN s = 1 .. Len(s) /\ DOMAIN t = 1 .. Len(t) /\ DOMAIN u = 1 .. Len(u)
  BY <1>1
<1>3. \A i \in 1 .. Len(u) : u[i] = IF i <= Len(s) THEN s[i] ELSE t[i - Len(s)]
  BY <1>1, <1>2
<1> HIDE DEF u
<1>4. ToSet(u) = ToSet(s) \cup ToSet(t)
  <2>1. ASSUME NEW y \in ToSet(u) PROVE y \in ToSet(s) \cup ToSet(t)
    <3>1. PICK i \in 1 .. Len(u) : y = u[i]
      BY <2>1, <1>2 DEF ToSet
    <3>2. CASE i <= Len(s)
      <4>1. i \in DOMAIN s /\ y = s[i]
        BY <3>1, <3>2, <1>2, <1>3
      <4> QED
        BY <4>1 DEF ToSet
    <3>3. CASE ~(i <= Len(s))
      <4>1. i - Len(s) \in DOMAIN t /\ y = t[i - Len(s)]
        BY <3>1, <3>3, <1>2, <1>3
      <4> QED
        BY <4>1 DEF ToSet
    <3> QED
      BY <3>2, <3>3
  <2>2. ASSUME NEW y \in ToSet(s) PROVE y \in ToSet(u)
    <3>1. PICK i \in DOMAIN s : y = s[i]
      BY <2>2 DEF ToSet
    <3>2. i \in DOMAIN u /\ u[i] = s[i]
      BY <3>1, <1>2, <1>3
    <3> QED
      BY <3>1, <3>2 DEF ToSet
  <2>3. ASSUME NEW y \in ToSet(t) PROVE y \in ToSet(u)
    <3>1. PICK i \in DOMAIN t : y = t[i]
      BY <2>3 DEF ToSet
    <3>2. i + Len(s) \in DOMAIN u /\ u[i + Len(s)] = t[i]
      BY <3>1, <1>2, <1>3
    <3> QED
      BY <3>1, <3>2 DEF ToSet
  <2> QED
    BY <2>1, <2>2, <2>3
<1>5. Listing(u)
  BY <1>2, <1>4 DEF Listing, S
<1>6. \A i \in DOMAIN s : u[i] = s[i]
  BY <1>2, <1>3
<1> QED
  BY <1>2, <1>4, <1>5, <1>6 DEF u

\* The items at some positions are a list of those.
LEMMA ItemsAtList ==
  ASSUME NEW s, Listing(s), NEW positions
  PROVE  /\ Listing(ItemsAt(s, positions))
         /\ ToSet(ItemsAt(s, positions)) = {s[k] : k \in DOMAIN s \cap positions}
<1>1. ItemsAt(s, positions) \in Seq(ToSet(s))
  BY ItemsAtIsSeq DEF Listing
<1>2. Listing(ItemsAt(s, positions))
  BY <1>1, ListingOfSeq
<1>3. ToSet(ItemsAt(s, positions)) = {s[k] : k \in DOMAIN s \cap positions}
  <2>1. ASSUME NEW x \in ToSet(ItemsAt(s, positions))
        PROVE  x \in {s[k] : k \in DOMAIN s \cap positions}
    <3>1. PICK i \in DOMAIN ItemsAt(s, positions) : x = ItemsAt(s, positions)[i]
      BY <2>1 DEF ToSet
    <3> QED
      BY <3>1, ItemsAtAreItems
  <2>2. ASSUME NEW k \in DOMAIN s \cap positions
        PROVE  s[k] \in ToSet(ItemsAt(s, positions))
    <3>1. PICK i \in DOMAIN ItemsAt(s, positions) : ItemsAt(s, positions)[i] = s[k]
      BY ItemsAreKept
    <3> QED
      BY <3>1 DEF ToSet
  <2> QED
    BY <2>1, <2>2
<1> QED
  BY <1>2, <1>3

\* Every item of a list stands somewhere first.
LEMMA FirstPlace ==
  ASSUME NEW s, Listing(s), NEW x \in ToSet(s)
  PROVE  \E k \in DOMAIN s : s[k] = x /\ \A j \in 1 .. k - 1 : s[j] # x
<1> DEFINE T == {k \in DOMAIN s : s[k] = x}
<1>1. DOMAIN s = 1 .. Len(s) /\ Len(s) \in Nat
  BY HeadOfList
<1>2. T \in SUBSET Nat /\ T # {}
  BY <1>1 DEF ToSet
<1>3. PICK k \in T : \A m \in T : k <= m
  <2> HIDE DEF T
  <2> QED
    BY <1>2, LeastNumber
<1>4. ASSUME NEW j \in 1 .. k - 1 PROVE s[j] # x
  <2>0. k \in DOMAIN s
    BY Zenon, <1>3
  <2>1. j \in DOMAIN s /\ ~(k <= j)
    <3> HIDE DEF T
    <3> QED
      BY <1>1, <2>0
  <2>2. s[j] = x => j \in T
    BY Zenon, <2>1
  <2> QED
    BY Zenon, <2>1, <2>2, <1>3
<1> QED
  BY <1>3, <1>4

\* Without its repetitions a list holds the same.
LEMMA DistinctList ==
  ASSUME NEW s, Listing(s)
  PROVE  Listing(Distinct(s)) /\ ToSet(Distinct(s)) = ToSet(s)
<1> DEFINE firsts == {k \in DOMAIN s : \A j \in 1 .. k - 1 : s[j] # s[k]}
<1>1. /\ Listing(Distinct(s))
      /\ ToSet(Distinct(s)) = {s[k] : k \in DOMAIN s \cap firsts}
  <2>1. Distinct(s) = ItemsAt(s, firsts)
    BY Zenon DEF Distinct
  <2> HIDE DEF firsts
  <2> QED
    BY <2>1, ItemsAtList
<1>2. ASSUME NEW x \in ToSet(s) PROVE x \in {s[k] : k \in DOMAIN s \cap firsts}
  BY FirstPlace
<1>3. {s[k] : k \in DOMAIN s \cap firsts} \subseteq ToSet(s)
  BY DEF ToSet
<1> QED
  BY <1>1, <1>2, <1>3

\* Lists one after the other.
LEMMA FlattenList ==
  ASSUME NEW n \in Nat, NEW a, a = [i \in 1 .. n |-> a[i]], \A i \in 1 .. n : Listing(a[i])
  PROVE  /\ Listing(FlattenSeq(a))
         /\ ToSet(FlattenSeq(a)) = UNION {ToSet(a[i]) : i \in 1 .. n}
<1> DEFINE S == UNION {ToSet(a[i]) : i \in 1 .. n}
           Of(m) == UNION {ToSet(a[i]) : i \in 1 .. m}
           G == [m \in 0 .. n |-> {s \in Seq(S) : ToSet(s) = Of(m)}]
<1>1. \A i \in 1 .. n : a[i] \in Seq(S)
  <2> TAKE i \in 1 .. n
  <2>1. a[i] \in Seq(ToSet(a[i])) /\ ToSet(a[i]) \subseteq S
    BY DEF Listing
  <2> HIDE DEF S
  <2> QED
    BY <2>1
<1>2. a \in Seq(Seq(S)) /\ Len(a) = n
  <2> HIDE DEF S
  <2>1. a \in [1 .. n -> Seq(S)]
    BY <1>1
  <2> QED
    BY <2>1
<1>3. FlattenSeq(a) \in G[n]
  <2>1. G \in [0 .. n -> SUBSET Seq(S)]
    BY Zenon
  <2>2. <<>> \in G[0]
    <3>1. Of(0) = {}
      OBVIOUS
    <3>2. <<>> \in Seq(S) /\ ToSet(<<>>) = {} /\ 0 \in 0 .. n
      BY EmptyList
    <3> QED
      BY Zenon, <3>1, <3>2
  <2>3. ASSUME NEW m \in 1 .. n, NEW s \in G[m - 1] PROVE s \o a[m] \in G[m]
    <3>1. m - 1 \in 0 .. n /\ m \in 0 .. n /\ 1 .. m = (1 .. m - 1) \cup {m}
      OBVIOUS
    <3>2. s \in Seq(S) /\ ToSet(s) = Of(m - 1)
      BY Zenon, <3>1, <2>3
    <3>3. Of(m) = Of(m - 1) \cup ToSet(a[m])
      BY <3>1
    <3>4. Listing(s) /\ Listing(a[m])
      BY <3>2, ListingOfSeq
    <3>5. s \o a[m] \in Seq(S)
      <4> HIDE DEF S
      <4> QED
        BY <3>2, <1>1
    <3>6. ToSet(s \o a[m]) = Of(m)
      <4> HIDE DEF Of
      <4> QED
        BY <3>2, <3>3, <3>4, ListsTogether
    <3> QED
      BY Zenon, <3>1, <3>5, <3>6
  <2> HIDE DEF S, G
  <2>4. \A m \in 1 .. Len(a) : \A s \in G[m - 1] : s \o a[m] \in G[m]
    BY <2>3, <1>2
  <2> QED
    BY <2>1, <2>2, <2>4, <1>2, FlattenFollows
<1>4. FlattenSeq(a) \in Seq(S) /\ ToSet(FlattenSeq(a)) = Of(n)
  BY <1>3
<1> HIDE DEF S
<1>5. Listing(FlattenSeq(a))
  BY <1>4, ListingOfSeq
<1> QED
  BY <1>4, <1>5
=============================================================================
