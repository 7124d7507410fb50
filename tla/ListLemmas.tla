------------------------------ MODULE ListLemmas ------------------------------
(* Induction over numbers, and what it says of loops over a list.            *)
EXTENDS Lists, Integers, FiniteSetTheorems, TLAPS

\* Every set of natural numbers that is not empty has a smallest element.
LEMMA LeastNumber ==
  ASSUME NEW T, T \subseteq Nat, T # {}
  PROVE  \E m \in T : \A n \in T : m <= n
<1> DEFINE U == {1 .. m : m \in T}
<1>1. U \subseteq FiniteSubsetsOf(Nat) /\ U # {}
  <2>1. \A m \in Nat : 1 .. m \in SUBSET Nat
    OBVIOUS
  <2>2. \A m \in Nat : IsFiniteSet(1 .. m)
    BY FS_Interval
  <2> QED BY <2>1, <2>2 DEF FiniteSubsetsOf
<1>2. PICK u \in U : \A v \in U : ~ (<<v, u>> \in StrictSubsetOrdering(Nat))
  BY <1>1, FS_StrictSubsetOrderingWellFounded, WFMin
<1>3. PICK m \in T : u = 1 .. m
  OBVIOUS
<1>4. ASSUME NEW n \in T, n < m PROVE FALSE
  <2> DEFINE a == 1 .. n
             b == 1 .. m
  <2>1. a \in U /\ a \subseteq b /\ m \in b /\ m \notin a
    BY <1>4
  <2>2. a \in SUBSET Nat /\ b \in SUBSET Nat
    BY <1>4
  <2> HIDE DEF a, b
  <2>3. <<a, b>> \in StrictSubsetOrdering(Nat)
    BY <2>1, <2>2 DEF StrictSubsetOrdering
  <2> QED BY <1>2, <1>3, <2>1, <2>3 DEF b
<1> QED BY <1>4

\* A set with 0 in it and with each number its successor holds all natural numbers.
LEMMA SetInduction ==
  ASSUME NEW T, 0 \in T, \A n \in Nat : n \in T => n + 1 \in T
  PROVE  Nat \subseteq T
<1>1. SUFFICES ASSUME Nat \ T # {} PROVE FALSE
  OBVIOUS
<1>2. PICK m \in Nat \ T : \A n \in Nat \ T : m <= n
  BY <1>1, LeastNumber
<1>3. m - 1 \in Nat /\ m - 1 \in T
  BY <1>2
<1> QED BY <1>2, <1>3

\* f holds the states after each of n rounds.
Loop(f, n, V, base, round) ==
  f \in [0 .. n -> V] /\ f[0] = base /\ \A i \in 1 .. n : f[i] = round[i][f[i - 1]]

\* A loop of n rounds over a state in V runs.
LEMMA LoopRuns ==
  ASSUME NEW V, NEW base \in V, NEW round \in [Nat -> [V -> V]]
  PROVE  \A n \in Nat : \E f : Loop(f, n, V, base, round)
<1> DEFINE T == {n \in Nat : \E f : Loop(f, n, V, base, round)}
<1>1. 0 \in T
  <2>1. Loop([i \in 0 .. 0 |-> base], 0, V, base, round)
    BY DEF Loop
  <2> QED BY <2>1
<1>2. ASSUME NEW n \in Nat, n \in T PROVE n + 1 \in T
  <2>1. PICK f : Loop(f, n, V, base, round)
    BY <1>2
  <2> DEFINE g == [i \in 0 .. n + 1 |-> IF i <= n THEN f[i] ELSE round[n + 1][f[n]]]
  <2>2. g \in [0 .. n + 1 -> V]
    BY <2>1 DEF Loop
  <2>3. g[0] = base /\ \A i \in 1 .. n + 1 : g[i] = round[i][g[i - 1]]
    BY <2>1 DEF Loop
  <2> HIDE DEF g
  <2>4. Loop(g, n + 1, V, base, round)
    BY <2>2, <2>3 DEF Loop
  <2> QED BY <2>4
<1> HIDE DEF T
<1>3. Nat \subseteq T
  BY <1>1, <1>2, SetInduction
<1> QED BY <1>3 DEF T

\* The loop that Selected stands for.
Selecting(f, s, I) ==
  /\ f[0] = << >>
  /\ \A i \in 1 .. Len(s) : f[i] = IF i \in I THEN Append(f[i - 1], s[i]) ELSE f[i - 1]

\* Selected runs through the list.
LEMMA SelectedLoop ==
  ASSUME NEW S, NEW s \in Seq(S), NEW I
  PROVE  \E f \in [0 .. Len(s) -> Seq(S)] : Selecting(f, s, I) /\ Selected(s, I) = f[Len(s)]
<1> DEFINE body(f, i) ==
             IF i = 0 THEN << >> ELSE IF i \in I THEN Append(f[i - 1], s[i]) ELSE f[i - 1]
           Defines(f) == f = [i \in 0 .. Len(s) |-> body(f, i)]
<1>1. \E f : Defines(f)
  <2> DEFINE round == [i \in Nat |-> [v \in Seq(S) |->
                         IF i \in I /\ i \in 1 .. Len(s) THEN Append(v, s[i]) ELSE v]]
  <2>1. round \in [Nat -> [Seq(S) -> Seq(S)]] /\ << >> \in Seq(S)
    OBVIOUS
  <2> HIDE DEF round, body
  <2>2. Len(s) \in Nat
    OBVIOUS
  <2>3. PICK f : Loop(f, Len(s), Seq(S), << >>, round)
    BY <2>1, <2>2, LoopRuns
  <2>4. ASSUME NEW i \in 0 .. Len(s) PROVE f[i] = body(f, i)
    <3>1. CASE i = 0
      BY <2>3, <3>1 DEF body, Loop
    <3>2. CASE i # 0
      <4>1. f[i - 1] \in Seq(S) /\ f[i] = round[i][f[i - 1]]
        BY <2>3, <3>2 DEF Loop
      <4> QED BY <3>2, <4>1 DEF round, body
    <3> QED BY <3>1, <3>2
  <2>5. f = [i \in 0 .. Len(s) |-> body(f, i)]
    BY <2>3, <2>4 DEF Loop
  <2> QED BY <2>5
<1> DEFINE h == CHOOSE f : Defines(f)
<1>2. Defines(h)
  BY <1>1
<1>3. Selected(s, I) = h[Len(s)]
  BY DEF Selected
<1> HIDE DEF h
<1>4. Selecting(h, s, I)
  <2> HIDE DEF body
  <2>1. \A i \in 0 .. Len(s) : h[i] = body(h, i)
    BY <1>2
  <2> USE DEF body
  <2>2. h[0] = << >>
    BY <2>1
  <2>3. \A i \in 1 .. Len(s) : h[i] = IF i \in I THEN Append(h[i - 1], s[i]) ELSE h[i - 1]
    BY <2>1
  <2> QED BY <2>2, <2>3 DEF Selecting
<1>5. h \in [0 .. Len(s) -> Seq(S)]
  <2> DEFINE T == {n \in Nat : n <= Len(s) => h[n] \in Seq(S)}
  <2>1. 0 \in T
    <3>1. h[0] = << >> /\ << >> \in Seq(S)
      BY <1>4 DEF Selecting
    <3> QED BY <3>1
  <2>2. ASSUME NEW n \in Nat, n \in T PROVE n + 1 \in T
    <3>1. SUFFICES ASSUME n + 1 <= Len(s) PROVE h[n + 1] \in Seq(S)
      OBVIOUS
    <3>2. h[n] \in Seq(S) /\ s[n + 1] \in S
      BY <2>2, <3>1
    <3> DEFINE i == n + 1
    <3>3. i \in 1 .. Len(s) /\ i - 1 = n
      BY <3>1
    <3> HIDE DEF i
    <3>4. h[i] = IF i \in I THEN Append(h[n], s[i]) ELSE h[n]
      BY <1>4, <3>3 DEF Selecting
    <3> QED BY <3>2, <3>4 DEF i
  <2> HIDE DEF T
  <2>3. Nat \subseteq T
    BY <2>1, <2>2, SetInduction
  <2>4. \A n \in 0 .. Len(s) : h[n] \in Seq(S)
    BY <2>3 DEF T
  <2> QED BY <1>2, <2>4
<1> QED BY <1>3, <1>4, <1>5

\* m tells for each place of t from which of the places I of s, up to n, it comes.
Comes(m, t, s, I, n) ==
  /\ m \in [1 .. Len(t) -> {i \in I : i \in 1 .. n}]
  /\ \A k \in 1 .. Len(t) : t[k] = s[m[k]]
  /\ \A k, l \in 1 .. Len(t) : k < l => m[k] < m[l]
  /\ \A i \in I : i \in 1 .. n => \E k \in 1 .. Len(t) : m[k] = i

\* What is selected comes from the places I, from each of them, in order.
LEMMA SelectedComes ==
  ASSUME NEW S, NEW s \in Seq(S), NEW I
  PROVE  Selected(s, I) \in Seq(S) /\ \E m : Comes(m, Selected(s, I), s, I, Len(s))
<1>1. PICK f \in [0 .. Len(s) -> Seq(S)] : Selecting(f, s, I) /\ Selected(s, I) = f[Len(s)]
  BY SelectedLoop
<1> DEFINE T == {n \in Nat : n <= Len(s) => \E m : Comes(m, f[n], s, I, n)}
<1>2. 0 \in T
  <2>1. f[0] = << >>
    BY <1>1 DEF Selecting
  <2>2. Comes(<< >>, << >>, s, I, 0)
    BY DEF Comes
  <2> QED BY <2>1, <2>2
<1>3. ASSUME NEW n \in Nat, n \in T PROVE n + 1 \in T
  <2>1. SUFFICES ASSUME n + 1 <= Len(s) PROVE \E m : Comes(m, f[n + 1], s, I, n + 1)
    OBVIOUS
  <2>2. PICK m : Comes(m, f[n], s, I, n)
    BY <1>3, <2>1
  <2>3. f[n + 1] = IF n + 1 \in I THEN Append(f[n], s[n + 1]) ELSE f[n]
    BY <1>1, <2>1 DEF Selecting
  <2>4. f[n] \in Seq(S) /\ s[n + 1] \in S
    BY <2>1
  <2>5. CASE n + 1 \in I
    <3> DEFINE t == f[n]
               q == [k \in 1 .. Len(t) + 1 |-> IF k <= Len(t) THEN m[k] ELSE n + 1]
    <3>1. f[n + 1] = Append(t, s[n + 1]) /\ Len(f[n + 1]) = Len(t) + 1
      BY <2>3, <2>4, <2>5
    <3> DEFINE u == f[n + 1]
    <3>2. Len(u) = Len(t) + 1 /\ Len(t) \in Nat /\ u[Len(t) + 1] = s[n + 1]
          /\ \A k \in 1 .. Len(t) : u[k] = t[k]
      BY <2>4, <3>1
    <3> HIDE DEF u, t
    <3>3. Comes(m, t, s, I, n)
      BY <2>2 DEF t
    <3>4. q \in [1 .. Len(u) -> {i \in I : i \in 1 .. n + 1}]
      BY <2>5, <3>2, <3>3 DEF Comes
    <3>5. \A k \in 1 .. Len(u) : u[k] = s[q[k]]
      BY <3>2, <3>3 DEF Comes
    <3>6. ASSUME NEW k \in 1 .. Len(u), NEW l \in 1 .. Len(u), k < l PROVE q[k] < q[l]
      <4>1. k \in 1 .. Len(t) /\ q[k] = m[k] /\ m[k] \in 1 .. n
        BY <3>2, <3>3, <3>6 DEF Comes
      <4>2. CASE l \in 1 .. Len(t)
        BY <4>1, <4>2, <3>3, <3>6 DEF Comes
      <4>3. CASE l = Len(t) + 1
        <5>1. q[l] = n + 1
          BY <4>3, <3>2
        <5> QED BY <4>1, <5>1
      <4>4. l \in 1 .. Len(t) + 1
        BY <3>2
      <4>5. l \in 1 .. Len(t) \/ l = Len(t) + 1
        BY <3>2, <4>4
      <4> QED BY <4>2, <4>3, <4>5
    <3>7. \A i \in I : i \in 1 .. n + 1 => \E k \in 1 .. Len(u) : q[k] = i
      BY <3>2, <3>3 DEF Comes
    <3>8. Comes(q, u, s, I, n + 1)
      BY <3>4, <3>5, <3>6, <3>7 DEF Comes
    <3>9. Comes(q, f[n + 1], s, I, n + 1)
      BY <3>8 DEF u
    <3> QED BY <3>9
  <2>6. CASE n + 1 \notin I
    <3>1. Comes(m, f[n], s, I, n + 1)
      BY <2>2, <2>6 DEF Comes
    <3> QED BY <2>3, <2>6, <3>1
  <2> QED BY <2>5, <2>6
<1> HIDE DEF T
<1>4. Nat \subseteq T
  BY <1>2, <1>3, SetInduction
<1> QED BY <1>1, <1>4 DEF T

\* One place: its element alone.
LEMMA SelectedOne ==
  ASSUME NEW S, NEW s \in Seq(S), NEW I, NEW i \in 1 .. Len(s),
         \A j \in 1 .. Len(s) : j \in I <=> j = i
  PROVE  Selected(s, I) = <<s[i]>>
<1>1. Selected(s, I) \in Seq(S)
  BY SelectedComes
<1>2. PICK m : Comes(m, Selected(s, I), s, I, Len(s))
  BY SelectedComes
<1> DEFINE t == Selected(s, I)
<1>3. Len(t) = 1 /\ t[1] = s[i]
  <2> HIDE DEF t
  <2>1. Len(t) \in Nat /\ i \in I
    BY <1>1 DEF t
  <2>2. Comes(m, t, s, I, Len(s))
    BY <1>2 DEF t
  <2>3. \A k \in 1 .. Len(t) : m[k] = i
    BY <2>2 DEF Comes
  <2>4. 1 \in 1 .. Len(t)
    BY <2>1, <2>2 DEF Comes
  <2>5. 2 \notin 1 .. Len(t)
    BY <2>2, <2>3, <2>4 DEF Comes
  <2> DEFINE j == Len(t)
  <2>6. j = 1
    <3>1. j \in Nat /\ 1 \in 1 .. j /\ 2 \notin 1 .. j
      BY <2>1, <2>4, <2>5
    <3> HIDE DEF j
    <3> QED BY <3>1
  <2>7. t[1] = s[m[1]] /\ m[1] = i
    BY <2>2, <2>3, <2>4 DEF Comes
  <2> QED BY <2>6, <2>7
<1> HIDE DEF t
<1>4. t \in Seq(S) /\ t = <<s[i]>>
  BY <1>1, <1>3 DEF t
<1> QED BY <1>4 DEF t

\* The elements that are selected are those at the places I.
LEMMA SelectedElements ==
  ASSUME NEW S, NEW s \in Seq(S), NEW I
  PROVE  \A x : (\E k \in 1 .. Len(Selected(s, I)) : Selected(s, I)[k] = x)
                  <=> (\E i \in 1 .. Len(s) : i \in I /\ s[i] = x)
<1>1. PICK m : Comes(m, Selected(s, I), s, I, Len(s))
  BY SelectedComes
<1> QED BY <1>1 DEF Comes

\* The sum of a list of numbers is a number.
LEMMA TotalIsNumber ==
  ASSUME NEW s \in Seq(Int)
  PROVE  Total(s) \in Int
<1> DEFINE body(f, i) == IF i = 0 THEN 0 ELSE f[i - 1] + s[i]
           Defines(f) == f = [i \in 0 .. Len(s) |-> body(f, i)]
<1>1. Len(s) \in Nat
  OBVIOUS
<1>2. \E f : Defines(f)
  <2> DEFINE round == [i \in Nat |-> [v \in Int |-> IF i \in 1 .. Len(s) THEN v + s[i] ELSE v]]
  <2>1. round \in [Nat -> [Int -> Int]] /\ 0 \in Int
    <3>1. \A i \in 1 .. Len(s) : s[i] \in Int
      OBVIOUS
    <3> QED BY <3>1
  <2> HIDE DEF round, body
  <2>2. PICK f : Loop(f, Len(s), Int, 0, round)
    BY <1>1, <2>1, LoopRuns
  <2>3. ASSUME NEW i \in 0 .. Len(s) PROVE f[i] = body(f, i)
    <3>1. CASE i = 0
      BY <2>2, <3>1 DEF body, Loop
    <3>2. CASE i # 0
      <4>1. f[i - 1] \in Int /\ f[i] = round[i][f[i - 1]] /\ i \in 1 .. Len(s) /\ i \in Nat
        BY <2>2, <3>2 DEF Loop
      <4> QED BY <3>2, <4>1 DEF round, body
    <3> QED BY <3>1, <3>2
  <2>4. f = [i \in 0 .. Len(s) |-> body(f, i)]
    BY <2>2, <2>3 DEF Loop
  <2> QED BY <2>4
<1> DEFINE h == CHOOSE f : Defines(f)
<1>3. Defines(h)
  BY <1>2
<1>4. Total(s) = h[Len(s)]
  BY DEF Total
<1> HIDE DEF h
<1>5. \A i \in 0 .. Len(s) : h[i] = IF i = 0 THEN 0 ELSE h[i - 1] + s[i]
  BY <1>3
<1> DEFINE T == {n \in Nat : n <= Len(s) => h[n] \in Int}
<1>6. 0 \in T
  BY <1>1, <1>5
<1>7. ASSUME NEW n \in Nat, n \in T PROVE n + 1 \in T
  <2>1. SUFFICES ASSUME n + 1 <= Len(s) PROVE h[n + 1] \in Int
    OBVIOUS
  <2> DEFINE i == n + 1
  <2>2. i \in 1 .. Len(s) /\ i - 1 = n /\ h[n] \in Int /\ s[i] \in Int
    BY <1>7, <2>1
  <2> HIDE DEF i
  <2>3. h[i] = h[n] + s[i]
    BY <1>5, <2>2
  <2> QED BY <2>2, <2>3 DEF i
<1> HIDE DEF T
<1>8. Nat \subseteq T
  BY <1>6, <1>7, SetInduction
<1> QED BY <1>1, <1>4, <1>8 DEF T
=============================================================================
