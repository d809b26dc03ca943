-------------------------- MODULE PlanModelProofs --------------------------
(***************************************************************************)
(* For plans of every length: Kahn's loop sorts exactly the plans without  *)
(* a cycle and without an unknown step, and its result has every step      *)
(* after its dependencies, each once.                                      *)
(***************************************************************************)
EXTENDS PlanModel, WellFoundedInduction, SequenceTheorems, FiniteSetTheorems, TLAPS

-----------------------------------------------------------------------------
(***************************************************************************)
(* Induction over sets of numbers.                                         *)
(***************************************************************************)
Below == {p \in Nat \X Nat : p[1] < p[2]}

LEMMA Least ==
  ASSUME NEW S \in SUBSET Nat, S # {}
  PROVE  \E m \in S : \A k \in S : m <= k
<1>1. IsWellFoundedOn(Below, Nat)
  BY NatLessThanWellFounded DEF OpToRel, Below
<1>2. PICK x \in S : \A y \in S : ~ (<<y, x>> \in Below)
  BY <1>1, WFMin
<1>3. \A k \in S : k \in Nat /\ x \in Nat /\ ~ (k < x)
  BY <1>2 DEF Below
<1>4. \A k \in S : x <= k
  BY <1>3
<1> QED
  BY <1>4

LEMMA Closed ==
  ASSUME NEW S, 0 \in S, \A n \in Nat : n \in S => n + 1 \in S
  PROVE  Nat \subseteq S
<1>1. CASE Nat \ S # {}
  <2>1. PICK m \in Nat \ S : \A k \in Nat \ S : m <= k
    BY <1>1, Least
  <2>2. m # 0 /\ m - 1 \in Nat /\ m - 1 \notin Nat \ S
    BY <2>1
  <2> QED
    BY <2>1, <2>2
<1> QED
  BY <1>1

\* Up to N, which is where the loops of the model stop.
LEMMA Rounds ==
  ASSUME NEW S, 0 \in S, \A n \in 0 .. N - 1 : n \in S => n + 1 \in S
  PROVE  0 .. N \subseteq S
<1> DEFINE T == {n \in Nat : n \in 0 .. N => n \in S}
<1>1. 0 \in T
  OBVIOUS
<1>2. ASSUME NEW n \in Nat, n \in T PROVE n + 1 \in T
  <2>1. n + 1 \in 0 .. N => n \in 0 .. N - 1 /\ n \in 0 .. N
    BY PlanAssumption
  <2> QED
    BY <1>2, <2>1
<1>3. Nat \subseteq T
  <2> HIDE DEF T
  <2> QED
    BY <1>1, <1>2, Closed
<1>4. 0 .. N \subseteq T
  BY <1>3, PlanAssumption
<1> QED
  BY <1>4

-----------------------------------------------------------------------------
(***************************************************************************)
(* The loops obey their equations.                                         *)
(***************************************************************************)
LEMMA KeptRounds ==
  ASSUME NEW S
  PROVE  Kept(S) = [n \in 0 .. N |-> IF n = 0 THEN <<>>
                                     ELSE IF n \in S THEN Append(Kept(S)[n - 1], n)
                                     ELSE Kept(S)[n - 1]]
<1> DEFINE F(f, m) == f = [n \in 0 .. m |-> IF n = 0 THEN <<>>
                                            ELSE IF n \in S THEN Append(f[n - 1], n)
                                            ELSE f[n - 1]]
           Up == {m \in Nat : \E f : F(f, m)}
<1>1. 0 \in Up
  <2>1. F([n \in 0 .. 0 |-> <<>>], 0)
    OBVIOUS
  <2> QED
    BY <2>1
<1>2. ASSUME NEW m \in Nat, m \in Up PROVE m + 1 \in Up
  <2>1. PICK f : F(f, m)
    BY <1>2
  <2> DEFINE last == IF m + 1 \in S THEN Append(f[m], m + 1) ELSE f[m]
             g    == [n \in 0 .. m + 1 |-> IF n = m + 1 THEN last ELSE f[n]]
  <2>2. F(g, m + 1)
    <3>1. ASSUME NEW n \in 0 .. m + 1
          PROVE  g[n] = IF n = 0 THEN <<>> ELSE IF n \in S THEN Append(g[n - 1], n) ELSE g[n - 1]
      <4>1. CASE n = m + 1
        <5>1. g[n] = last /\ n - 1 = m /\ m \in 0 .. m + 1 /\ n # 0
          BY <4>1
        <5>2. g[m] = f[m]
          BY <5>1
        <5> QED
          BY <4>1, <5>1, <5>2
      <4>2. CASE n # m + 1
        <5>1. n \in 0 .. m /\ g[n] = f[n]
          BY <4>2
        <5>2. n # 0 => n - 1 \in 0 .. m + 1 /\ n - 1 # m + 1 /\ g[n - 1] = f[n - 1]
          BY <5>1
        <5>3. f[n] = IF n = 0 THEN <<>> ELSE IF n \in S THEN Append(f[n - 1], n) ELSE f[n - 1]
          BY <2>1, <5>1
        <5> HIDE DEF g
        <5> QED
          BY <5>1, <5>2, <5>3
      <4> QED
        BY <4>1, <4>2
    <3> QED
      BY <3>1
  <2> HIDE DEF F, g
  <2>3. \E h : F(h, m + 1)
    BY <2>2
  <2> QED
    BY <2>3
<1>3. N \in Up
  BY <1>1, <1>2, Closed, PlanAssumption
<1>4. \E f : F(f, N)
  BY <1>3
<1>5. Kept(S) = CHOOSE f : F(f, N)
  BY DEF Kept
<1> QED
  BY <1>4, <1>5

LEMMA KahnRounds ==
  ASSUME NEW d
  PROVE  KahnLoop(d) = [n \in 0 .. N |-> IF n = 0 THEN KahnStart(d)
                                         ELSE IF KahnLoop(d)[n - 1].queue = <<>> THEN KahnLoop(d)[n - 1]
                                         ELSE KahnRound(KahnLoop(d)[n - 1])]
<1> DEFINE F(f, m) == f = [n \in 0 .. m |-> IF n = 0 THEN KahnStart(d)
                                            ELSE IF f[n - 1].queue = <<>> THEN f[n - 1]
                                            ELSE KahnRound(f[n - 1])]
           Up == {m \in Nat : \E f : F(f, m)}
<1>1. 0 \in Up
  <2>1. F([n \in 0 .. 0 |-> KahnStart(d)], 0)
    OBVIOUS
  <2> QED
    BY <2>1
<1>2. ASSUME NEW m \in Nat, m \in Up PROVE m + 1 \in Up
  <2>1. PICK f : F(f, m)
    BY <1>2
  <2> DEFINE last == IF f[m].queue = <<>> THEN f[m] ELSE KahnRound(f[m])
             g    == [n \in 0 .. m + 1 |-> IF n = m + 1 THEN last ELSE f[n]]
  <2>2. F(g, m + 1)
    <3>1. ASSUME NEW n \in 0 .. m + 1
          PROVE  g[n] = IF n = 0 THEN KahnStart(d)
                        ELSE IF g[n - 1].queue = <<>> THEN g[n - 1]
                        ELSE KahnRound(g[n - 1])
      BY <2>1
    <3> QED
      BY <3>1
  <2> HIDE DEF F, g
  <2>3. \E h : F(h, m + 1)
    BY <2>2
  <2> QED
    BY <2>3
<1>3. N \in Up
  BY <1>1, <1>2, Closed, PlanAssumption
<1>4. \E f : F(f, N)
  BY <1>3
<1>5. KahnLoop(d) = CHOOSE f : F(f, N)
  BY DEF KahnLoop
<1> QED
  BY <1>4, <1>5

-----------------------------------------------------------------------------
(***************************************************************************)
(* Sequences of steps.                                                     *)
(***************************************************************************)
Elements(q)   == {q[i] : i \in 1 .. Len(q)}
Distinct(q)   == \A i, j \in 1 .. Len(q) : q[i] = q[j] => i = j
Increasing(q) == \A i, j \in 1 .. Len(q) : i < j => q[i] < q[j]

LEMMA Appended ==
  ASSUME NEW q \in Seq(Steps), NEW s \in Steps
  PROVE  /\ Append(q, s) \in Seq(Steps)
         /\ Elements(Append(q, s)) = Elements(q) \cup {s}
         /\ Distinct(q) /\ s \notin Elements(q) => Distinct(Append(q, s))
<1> DEFINE p == Append(q, s)
<1>1. /\ p \in Seq(Steps) /\ Len(p) = Len(q) + 1 /\ Len(q) \in Nat
      /\ \A i \in 1 .. Len(q) : p[i] = q[i]
      /\ p[Len(q) + 1] = s
  BY AppendProperties, LenProperties
<1> HIDE DEF p
<1>2. Elements(p) = Elements(q) \cup {s}
  <2>1. ASSUME NEW x \in Elements(p) PROVE x \in Elements(q) \cup {s}
    <3>1. PICK i \in 1 .. Len(p) : x = p[i]
      BY DEF Elements
    <3>2. i = Len(q) + 1 \/ i \in 1 .. Len(q)
      BY <1>1
    <3> QED
      BY <1>1, <3>1, <3>2 DEF Elements
  <2>2. ASSUME NEW x \in Elements(q) PROVE x \in Elements(p)
    <3>1. PICK i \in 1 .. Len(q) : x = q[i]
      BY DEF Elements
    <3>2. i \in 1 .. Len(p) /\ x = p[i]
      BY <1>1, <3>1
    <3> QED
      BY <3>2 DEF Elements
  <2>3. s \in Elements(p)
    <3>1. Len(q) + 1 \in 1 .. Len(p)
      BY <1>1
    <3> QED
      BY <1>1, <3>1 DEF Elements
  <2> QED
    BY <2>1, <2>2, <2>3
<1>3. ASSUME Distinct(q), s \notin Elements(q) PROVE Distinct(p)
  <2> SUFFICES ASSUME NEW i \in 1 .. Len(p), NEW j \in 1 .. Len(p), p[i] = p[j] PROVE i = j
    BY DEF Distinct
  <2>1. \A k \in 1 .. Len(q) : p[k] # s
    BY <1>1, <1>3 DEF Elements
  <2>2. (i = Len(q) + 1 \/ i \in 1 .. Len(q)) /\ (j = Len(q) + 1 \/ j \in 1 .. Len(q))
    BY <1>1
  <2> QED
    BY <1>1, <1>3, <2>1, <2>2 DEF Distinct
<1> QED
  BY <1>1, <1>2, <1>3 DEF p

LEMMA Dequeued ==
  ASSUME NEW q \in Seq(Steps), q # <<>>, Distinct(q)
  PROVE  /\ Head(q) \in Elements(q) /\ Head(q) \in Steps
         /\ Tail(q) \in Seq(Steps) /\ Distinct(Tail(q))
         /\ Elements(Tail(q)) = Elements(q) \ {Head(q)}
<1> DEFINE t == Tail(q)
<1>1. Len(q) \in Nat \ {0}
  BY EmptySeq
<1>2. Head(q) = q[1] /\ Head(q) \in Steps
  BY HeadTailProperties
<1>3. t \in Seq(Steps) /\ Len(t) = Len(q) - 1 /\ \A i \in 1 .. Len(t) : t[i] = q[i + 1]
  BY HeadTailProperties
<1> HIDE DEF t
<1>4. 1 \in 1 .. Len(q) /\ \A i \in 1 .. Len(t) : i + 1 \in 1 .. Len(q)
  BY <1>1, <1>3
<1>5. Head(q) \in Elements(q)
  BY <1>2, <1>4 DEF Elements
<1>6. Distinct(t)
  <2> SUFFICES ASSUME NEW i \in 1 .. Len(t), NEW j \in 1 .. Len(t), t[i] = t[j] PROVE i = j
    BY DEF Distinct
  <2>1. i + 1 = j + 1
    BY <1>3, <1>4 DEF Distinct
  <2> QED
    BY <2>1
<1>7. Elements(t) = Elements(q) \ {Head(q)}
  <2>1. ASSUME NEW x \in Elements(t) PROVE x \in Elements(q) /\ x # Head(q)
    <3>1. PICK i \in 1 .. Len(t) : x = t[i]
      BY DEF Elements
    <3>2. x = q[i + 1] /\ i + 1 \in 1 .. Len(q) /\ i + 1 # 1
      BY <1>3, <1>4, <3>1
    <3> QED
      BY <1>2, <1>4, <3>2 DEF Elements, Distinct
  <2>2. ASSUME NEW x \in Elements(q), x # Head(q) PROVE x \in Elements(t)
    <3>1. PICK i \in 1 .. Len(q) : x = q[i]
      BY DEF Elements
    <3>2. i - 1 \in 1 .. Len(t) /\ (i - 1) + 1 = i
      BY <1>1, <1>2, <1>3, <2>2, <3>1
    <3>3. x = t[i - 1]
      BY <1>3, <3>1, <3>2
    <3> QED
      BY <3>2, <3>3 DEF Elements
  <2> QED
    BY <2>1, <2>2
<1> QED
  BY <1>2, <1>3, <1>5, <1>6, <1>7 DEF t

LEMMA Joined ==
  ASSUME NEW q \in Seq(Steps), NEW r \in Seq(Steps)
  PROVE  /\ q \o r \in Seq(Steps)
         /\ Elements(q \o r) = Elements(q) \cup Elements(r)
         /\ Distinct(q) /\ Distinct(r) /\ Elements(q) \cap Elements(r) = {} => Distinct(q \o r)
<1> DEFINE p == q \o r
<1>1. /\ p \in Seq(Steps) /\ Len(p) = Len(q) + Len(r) /\ Len(q) \in Nat /\ Len(r) \in Nat
      /\ \A i \in 1 .. Len(q) + Len(r) : p[i] = IF i <= Len(q) THEN q[i] ELSE r[i - Len(q)]
  BY ConcatProperties, LenProperties
<1> HIDE DEF p
<1>2. \A i \in 1 .. Len(p) : \/ i \in 1 .. Len(q) /\ p[i] = q[i]
                             \/ i - Len(q) \in 1 .. Len(r) /\ p[i] = r[i - Len(q)]
  BY <1>1
<1>3. \A i \in 1 .. Len(q) : i \in 1 .. Len(p) /\ p[i] = q[i]
  BY <1>1
<1>4. \A i \in 1 .. Len(r) : i + Len(q) \in 1 .. Len(p) /\ p[i + Len(q)] = r[i]
  <2> TAKE i \in 1 .. Len(r)
  <2>1. i + Len(q) \in 1 .. Len(q) + Len(r) /\ ~ (i + Len(q) <= Len(q)) /\ (i + Len(q)) - Len(q) = i
    BY <1>1
  <2> QED
    BY <1>1, <2>1
<1>5. Elements(p) = Elements(q) \cup Elements(r)
  <2>1. Elements(p) \subseteq Elements(q) \cup Elements(r)
    BY <1>2 DEF Elements
  <2>2. Elements(q) \subseteq Elements(p)
    BY <1>3 DEF Elements
  <2>3. Elements(r) \subseteq Elements(p)
    BY <1>4 DEF Elements
  <2> QED
    BY <2>1, <2>2, <2>3
<1>6. ASSUME Distinct(q), Distinct(r), Elements(q) \cap Elements(r) = {} PROVE Distinct(p)
  <2> SUFFICES ASSUME NEW i \in 1 .. Len(p), NEW j \in 1 .. Len(p), p[i] = p[j] PROVE i = j
    BY DEF Distinct
  <2>1. \A k \in 1 .. Len(q), l \in 1 .. Len(r) : q[k] # r[l]
    BY <1>6 DEF Elements
  <2>2. CASE i \in 1 .. Len(q) /\ p[i] = q[i] /\ j \in 1 .. Len(q) /\ p[j] = q[j]
    BY <1>6, <2>2 DEF Distinct
  <2>3. CASE /\ i - Len(q) \in 1 .. Len(r) /\ p[i] = r[i - Len(q)]
             /\ j - Len(q) \in 1 .. Len(r) /\ p[j] = r[j - Len(q)]
    <3>1. i - Len(q) = j - Len(q)
      BY <1>6, <2>3 DEF Distinct
    <3> QED
      BY <1>1, <3>1
  <2> QED
    BY <1>2, <2>1, <2>2, <2>3
<1> QED
  BY <1>1, <1>5, <1>6 DEF p

(***************************************************************************)
(* InOrder lists a set of steps in the order of the plan ("preserves       *)
(* original order for ties", plan-model.ts:202), each of them once.        *)
(***************************************************************************)
LEMMA InOrderLists ==
  ASSUME NEW S \in SUBSET Steps
  PROVE  /\ InOrder(S) \in Seq(Steps) /\ Elements(InOrder(S)) = S
         /\ Increasing(InOrder(S)) /\ Distinct(InOrder(S))
<1> DEFINE Good(n) == /\ Kept(S)[n] \in Seq(Steps)
                      /\ Elements(Kept(S)[n]) = S \cap (1 .. n)
                      /\ Increasing(Kept(S)[n])
           Up      == {n \in 0 .. N : Good(n)}
<1>1. 0 \in Up
  <2>1. Kept(S)[0] = <<>>
    <3>1. 0 \in 0 .. N
      BY PlanAssumption
    <3> QED
      BY <3>1, KeptRounds
  <2>2. <<>> \in Seq(Steps) /\ Len(<<>>) = 0
    BY EmptySeq
  <2>3. Elements(<<>>) = {} /\ Increasing(<<>>)
    BY <2>2 DEF Elements, Increasing
  <2>4. S \cap (1 .. 0) = {} /\ 0 \in 0 .. N
    BY PlanAssumption
  <2>5. Good(0)
    BY <2>1, <2>2, <2>3, <2>4
  <2> QED
    BY <2>4, <2>5
<1>2. ASSUME NEW n \in 0 .. N - 1, n \in Up PROVE n + 1 \in Up
  <2> DEFINE k == Kept(S)[n]
  <2>1. /\ n + 1 \in 0 .. N /\ n + 1 # 0 /\ (n + 1) - 1 = n /\ n \in Nat
        /\ n + 1 \in Steps /\ n \in 0 .. N
    BY PlanAssumption DEF Steps
  <2>2. k \in Seq(Steps) /\ Elements(k) = S \cap (1 .. n) /\ Increasing(k)
    BY <1>2
  <2>3. Kept(S)[n + 1] = IF n + 1 \in S THEN Append(k, n + 1) ELSE k
    <3>1. Kept(S)[n + 1] = IF n + 1 = 0 THEN <<>>
                           ELSE IF n + 1 \in S THEN Append(Kept(S)[(n + 1) - 1], n + 1)
                           ELSE Kept(S)[(n + 1) - 1]
      <4> DEFINE f == Kept(S)
      <4>1. f = [m \in 0 .. N |-> IF m = 0 THEN <<>>
                                  ELSE IF m \in S THEN Append(f[m - 1], m)
                                  ELSE f[m - 1]]
        BY KeptRounds
      <4> HIDE DEF f
      <4>2. \A m \in 0 .. N : f[m] = IF m = 0 THEN <<>>
                                     ELSE IF m \in S THEN Append(f[m - 1], m)
                                     ELSE f[m - 1]
        BY <4>1
      <4> QED
        BY <2>1, <4>2 DEF f
    <3> QED
      BY <2>1, <3>1
  <2>4. 1 .. n + 1 = (1 .. n) \cup {n + 1}
    BY <2>1
  <2> HIDE DEF k
  <2>5. CASE n + 1 \notin S
    <3>1. S \cap (1 .. n + 1) = S \cap (1 .. n)
      BY <2>4, <2>5
    <3> QED
      BY <2>1, <2>2, <2>3, <2>5, <3>1
  <2>6. CASE n + 1 \in S
    <3> DEFINE p == Append(k, n + 1)
    <3>1. p \in Seq(Steps) /\ Elements(p) = Elements(k) \cup {n + 1}
      BY <2>1, <2>2, Appended
    <3>2. Elements(p) = S \cap (1 .. n + 1)
      BY <2>2, <2>4, <2>6, <3>1
    <3>3. Increasing(p)
      <4>1. /\ Len(p) = Len(k) + 1 /\ Len(k) \in Nat /\ p[Len(k) + 1] = n + 1
            /\ \A i \in 1 .. Len(k) : p[i] = k[i]
        BY <2>1, <2>2, AppendProperties, LenProperties
      <4>2. \A i \in 1 .. Len(k) : k[i] \in 1 .. n
        BY <2>2 DEF Elements
      <4> HIDE DEF p
      <4> SUFFICES ASSUME NEW i \in 1 .. Len(p), NEW j \in 1 .. Len(p), i < j PROVE p[i] < p[j]
        BY DEF Increasing
      <4>3. i \in 1 .. Len(k) /\ (j \in 1 .. Len(k) \/ j = Len(k) + 1)
        BY <4>1
      <4>4. CASE j \in 1 .. Len(k)
        BY <2>2, <4>1, <4>3, <4>4 DEF Increasing
      <4>5. CASE j = Len(k) + 1
        <5>1. p[j] = n + 1 /\ p[i] \in 1 .. n
          BY <4>1, <4>2, <4>3, <4>5
        <5> QED
          BY <2>1, <5>1
      <4> QED
        BY <4>3, <4>4, <4>5
    <3> QED
      BY <2>1, <2>3, <2>6, <3>1, <3>2, <3>3
  <2> QED
    BY <2>5, <2>6
<1>3. Good(N)
  <2>1. 0 .. N \subseteq Up
    <3> HIDE DEF Up
    <3> QED
      BY <1>1, <1>2, Rounds
  <2> QED
    BY <2>1, PlanAssumption
<1>4. S \cap (1 .. N) = S
  BY DEF Steps
<1>5. InOrder(S) \in Seq(Steps) /\ Elements(InOrder(S)) = S /\ Increasing(InOrder(S))
  BY <1>3, <1>4 DEF InOrder
<1>6. Distinct(InOrder(S))
  <2> DEFINE q == InOrder(S)
  <2>1. Len(q) \in Nat /\ \A i \in 1 .. Len(q) : q[i] \in Nat
    BY <1>5, LenProperties, ElementOfSeq, PlanAssumption DEF Steps
  <2>2. \A i, j \in 1 .. Len(q) : i < j => q[i] < q[j]
    BY <1>5 DEF Increasing
  <2> HIDE DEF q
  <2>3. \A i, j \in 1 .. Len(q) : q[i] = q[j] => i = j
    <3> TAKE i, j \in 1 .. Len(q)
    <3>1. i < j \/ j < i \/ i = j
      BY <2>1
    <3> QED
      BY <2>1, <2>2, <3>1
  <2> QED
    BY <2>3 DEF Distinct, q
<1> QED
  BY <1>5, <1>6

-----------------------------------------------------------------------------
(***************************************************************************)
(* Kahn's loop.  Each step is in the result, or in the queue with nothing  *)
(* left to wait for, or waits for something; what it waits for is what the *)
(* result does not have.                                                   *)
(***************************************************************************)
Ordered(d, order) == \A i \in 1 .. Len(order) : d[order[i]] \subseteq {order[j] : j \in 1 .. i - 1}

Ready(q) == {s \in Steps : q.open[s] = {}}

KahnInv(d, q) ==
  /\ q.queue \in Seq(Steps) /\ Distinct(q.queue)
  /\ q.sorted \in Seq(Steps) /\ Distinct(q.sorted)
  /\ \A s \in Steps : q.open[s] = d[s] \ Elements(q.sorted)
  /\ Elements(q.sorted) \cap Elements(q.queue) = {}
  /\ Elements(q.sorted) \cup Elements(q.queue) = Ready(q)
  /\ Ordered(d, q.sorted)

LEMMA KahnStarts ==
  ASSUME NEW d \in RawPlans
  PROVE  KahnInv(d, KahnStart(d)) /\ KahnStart(d).sorted = <<>>
<1> DEFINE q == KahnStart(d)
           Z == {s \in Steps : d[s] = {}}
<1>1. q.queue = InOrder(Z) /\ q.open = d /\ q.sorted = <<>>
  BY DEF KahnStart
<1>2. InOrder(Z) \in Seq(Steps) /\ Elements(InOrder(Z)) = Z /\ Distinct(InOrder(Z))
  BY InOrderLists
<1>3. <<>> \in Seq(Steps) /\ Len(<<>>) = 0
  BY EmptySeq
<1>4. Elements(<<>>) = {} /\ Distinct(<<>>) /\ Ordered(d, <<>>)
  BY <1>3 DEF Elements, Distinct, Ordered
<1>5. Ready(q) = Z
  BY <1>1 DEF Ready
<1> HIDE DEF q, Z
<1>6. KahnInv(d, q)
  BY <1>1, <1>2, <1>3, <1>4, <1>5 DEF KahnInv
<1> QED
  BY <1>1, <1>6 DEF q

LEMMA KahnGoesOn ==
  ASSUME NEW d \in RawPlans, NEW q, KahnInv(d, q), q.queue # <<>>
  PROVE  KahnInv(d, KahnRound(q)) /\ Len(KahnRound(q).sorted) = Len(q.sorted) + 1
<1> DEFINE h == Head(q.queue)
           R == Released(q, h)
           r == KahnRound(q)
<1>1. /\ r.queue = Tail(q.queue) \o InOrder(R)
      /\ r.open = [s \in Steps |-> q.open[s] \ {h}]
      /\ r.sorted = Append(q.sorted, h)
  BY DEF KahnRound
<1>2. /\ q.queue \in Seq(Steps) /\ Distinct(q.queue)
      /\ q.sorted \in Seq(Steps) /\ Distinct(q.sorted)
      /\ \A s \in Steps : q.open[s] = d[s] \ Elements(q.sorted)
      /\ Elements(q.sorted) \cap Elements(q.queue) = {}
      /\ Elements(q.sorted) \cup Elements(q.queue) = Ready(q)
      /\ Ordered(d, q.sorted)
  BY DEF KahnInv
<1>3. /\ h \in Elements(q.queue) /\ h \in Steps
      /\ Tail(q.queue) \in Seq(Steps) /\ Distinct(Tail(q.queue))
      /\ Elements(Tail(q.queue)) = Elements(q.queue) \ {h}
  BY <1>2, Dequeued
<1>4. R \subseteq Steps /\ \A s \in Steps : s \in R <=> q.open[s] = {h}
  BY DEF Released
<1>5. InOrder(R) \in Seq(Steps) /\ Elements(InOrder(R)) = R /\ Distinct(InOrder(R))
  BY <1>4, InOrderLists
<1>6. R \cap Ready(q) = {}
  BY <1>4 DEF Ready
<1>7. h \notin Elements(q.sorted)
  BY <1>2, <1>3
<1>8. r.sorted \in Seq(Steps) /\ Distinct(r.sorted) /\ Elements(r.sorted) = Elements(q.sorted) \cup {h}
  BY <1>1, <1>2, <1>3, <1>7, Appended
<1>9. Elements(Tail(q.queue)) \cap R = {}
  BY <1>2, <1>3, <1>6
<1>10. r.queue \in Seq(Steps) /\ Distinct(r.queue) /\ Elements(r.queue) = (Elements(q.queue) \ {h}) \cup R
  <2> DEFINE t == Tail(q.queue)
             l == InOrder(R)
  <2>1. /\ t \in Seq(Steps) /\ Distinct(t) /\ Elements(t) = Elements(q.queue) \ {h}
        /\ l \in Seq(Steps) /\ Distinct(l) /\ Elements(l) = R /\ Elements(t) \cap Elements(l) = {}
        /\ r.queue = t \o l
    BY <1>1, <1>3, <1>5, <1>9
  <2> HIDE DEF t, l, r
  <2>2. t \o l \in Seq(Steps) /\ Distinct(t \o l) /\ Elements(t \o l) = Elements(t) \cup Elements(l)
    BY <2>1, Joined
  <2> QED
    BY <2>1, <2>2
<1>11. \A s \in Steps : r.open[s] = q.open[s] \ {h}
  BY <1>1
<1>12. /\ Len(r.sorted) = Len(q.sorted) + 1 /\ Len(q.sorted) \in Nat
       /\ r.sorted[Len(q.sorted) + 1] = h
       /\ \A i \in 1 .. Len(q.sorted) : r.sorted[i] = q.sorted[i]
  BY <1>1, <1>2, <1>3, AppendProperties, LenProperties
<1> HIDE DEF h, R, r
<1>13. \A s \in Steps : r.open[s] = d[s] \ Elements(r.sorted)
  BY <1>2, <1>8, <1>11
<1>14. Elements(r.sorted) \cap Elements(r.queue) = {}
  BY <1>2, <1>3, <1>6, <1>8, <1>10
<1>15. Elements(r.sorted) \cup Elements(r.queue) = Ready(r)
  <2>1. \A s \in Steps : s \in Ready(r) <=> s \in Ready(q) \/ s \in R
    BY <1>4, <1>11 DEF Ready
  <2>2. Ready(r) = Ready(q) \cup R
    BY <1>4, <2>1 DEF Ready
  <2> QED
    BY <1>2, <1>3, <1>8, <1>10, <2>2
<1>16. Ordered(d, r.sorted)
  <2> SUFFICES ASSUME NEW i \in 1 .. Len(r.sorted)
               PROVE  d[r.sorted[i]] \subseteq {r.sorted[j] : j \in 1 .. i - 1}
    BY DEF Ordered
  <2>1. CASE i \in 1 .. Len(q.sorted)
    <3>1. d[q.sorted[i]] \subseteq {q.sorted[j] : j \in 1 .. i - 1}
      BY <1>2, <2>1 DEF Ordered
    <3>2. \A j \in 1 .. i - 1 : j \in 1 .. Len(q.sorted)
      BY <1>12, <2>1
    <3>3. {q.sorted[j] : j \in 1 .. i - 1} = {r.sorted[j] : j \in 1 .. i - 1}
      BY <1>12, <3>2
    <3> QED
      BY <1>12, <2>1, <3>1, <3>3
  <2>2. CASE i = Len(q.sorted) + 1
    <3>1. q.open[h] = {}
      BY <1>2, <1>3 DEF Ready
    <3>2. d[h] \subseteq Elements(q.sorted)
      BY <1>2, <1>3, <3>1
    <3>3. i - 1 = Len(q.sorted)
      BY <1>12, <2>2
    <3>4. Elements(q.sorted) \subseteq {r.sorted[j] : j \in 1 .. i - 1}
      BY <1>12, <3>3 DEF Elements
    <3> QED
      BY <1>12, <2>2, <3>2, <3>4
  <2> QED
    BY <1>12, <2>1, <2>2
<1>17. KahnInv(d, r)
  BY <1>8, <1>10, <1>13, <1>14, <1>15, <1>16 DEF KahnInv
<1> QED
  BY <1>12, <1>17 DEF r

\* After n rounds: n steps are sorted, unless nothing is left in the queue.
LEMMA KahnLoops ==
  ASSUME NEW d \in RawPlans
  PROVE  /\ KahnInv(d, KahnLoop(d)[N])
         /\ Len(KahnLoop(d)[N].sorted) <= N
         /\ Len(KahnLoop(d)[N].sorted) = N \/ KahnLoop(d)[N].queue = <<>>
<1> DEFINE q(n) == KahnLoop(d)[n]
           Good(n) == /\ KahnInv(d, q(n))
                      /\ Len(q(n).sorted) \in Nat /\ Len(q(n).sorted) <= n
                      /\ Len(q(n).sorted) = n \/ q(n).queue = <<>>
           Up == {n \in 0 .. N : Good(n)}
<1>1. /\ q(0) = KahnStart(d)
      /\ \A n \in 0 .. N - 1 : q(n + 1) = IF q(n).queue = <<>> THEN q(n) ELSE KahnRound(q(n))
  <2> DEFINE f == KahnLoop(d)
  <2>1. f = [n \in 0 .. N |-> IF n = 0 THEN KahnStart(d)
                              ELSE IF f[n - 1].queue = <<>> THEN f[n - 1]
                              ELSE KahnRound(f[n - 1])]
    BY KahnRounds
  <2> HIDE DEF f
  <2>2. \A n \in 0 .. N : f[n] = IF n = 0 THEN KahnStart(d)
                                 ELSE IF f[n - 1].queue = <<>> THEN f[n - 1]
                                 ELSE KahnRound(f[n - 1])
    BY <2>1
  <2>3. \A n \in 0 .. N - 1 : n + 1 \in 0 .. N /\ n + 1 # 0 /\ (n + 1) - 1 = n
    BY PlanAssumption
  <2>4. 0 \in 0 .. N
    BY PlanAssumption
  <2> QED
    BY <2>2, <2>3, <2>4 DEF f
<1>2. 0 \in Up
  <2>1. KahnInv(d, q(0)) /\ q(0).sorted = <<>>
    BY <1>1, KahnStarts
  <2>2. Len(q(0).sorted) = 0
    BY <2>1, EmptySeq
  <2> QED
    BY <2>1, <2>2, PlanAssumption
<1>3. ASSUME NEW n \in 0 .. N - 1, n \in Up PROVE n + 1 \in Up
  <2>1. n + 1 \in 0 .. N /\ n \in Nat
    BY PlanAssumption
  <2>2. Good(n) /\ q(n + 1) = IF q(n).queue = <<>> THEN q(n) ELSE KahnRound(q(n))
    BY <1>1, <1>3
  <2> HIDE DEF q
  <2>3. Good(n + 1)
    <3>1. CASE q(n).queue = <<>>
      BY <2>1, <2>2, <3>1
    <3>2. CASE q(n).queue # <<>>
      <4>1. /\ KahnInv(d, KahnRound(q(n)))
            /\ Len(KahnRound(q(n)).sorted) = Len(q(n).sorted) + 1
        BY <2>2, <3>2, KahnGoesOn
      <4> QED
        BY <2>1, <2>2, <3>2, <4>1
    <3> QED
      BY <3>1, <3>2
  <2> QED
    BY <2>1, <2>3
<1>4. Good(N)
  <2>1. 0 .. N \subseteq Up
    <3> HIDE DEF Up
    <3> QED
      BY <1>2, <1>3, Rounds
  <2> QED
    BY <2>1, PlanAssumption
<1> QED
  BY <1>4

(***************************************************************************)
(* The result has every step of it once, after its dependencies.           *)
(***************************************************************************)
THEOREM KahnOrders ==
  ASSUME NEW d \in RawPlans
  PROVE  Kahn(d) \in Seq(Steps) /\ Distinct(Kahn(d)) /\ Ordered(d, Kahn(d))
BY KahnLoops DEF Kahn, KahnInv

\* A result has as many steps as its length says.
LEMMA Pigeons ==
  ASSUME NEW q \in Seq(Steps), Distinct(q)
  PROVE  /\ Len(q) = N => Elements(q) = Steps
         /\ Elements(q) = Steps => Len(q) = N
<1>1. q \in [1 .. Len(q) -> Steps] /\ Len(q) \in Nat
  BY LenProperties
<1>2. q \in Injection(1 .. Len(q), Steps)
  BY <1>1 DEF Distinct, Injection, IsInjective
<1>3. IsFiniteSet(Steps) /\ Cardinality(Steps) = N
  BY FS_Interval, PlanAssumption DEF Steps
<1>4. Cardinality(1 .. Len(q)) = Len(q)
  <2>1. Cardinality(1 .. Len(q)) = IF 1 > Len(q) THEN 0 ELSE Len(q) - 1 + 1
    BY <1>1, FS_Interval
  <2> QED
    BY <1>1, <2>1
<1>5. Len(q) = N <=> q \in Surjection(1 .. Len(q), Steps)
  BY <1>2, <1>3, <1>4, FS_Injection
<1>6. q \in Surjection(1 .. Len(q), Steps) <=> Elements(q) = Steps
  BY <1>1 DEF Surjection, Elements
<1> QED
  BY <1>5, <1>6

(***************************************************************************)
(* validatePlan accepts exactly the plans without an unknown dependency    *)
(* and without a cycle ("Throws on: ... circular deps, dangling dependsOn",*)
(* plan-model.ts:154).                                                     *)
(***************************************************************************)
THEOREM ValidIsAcyclic ==
  ASSUME NEW d \in RawPlans
  PROVE  Valid(d) <=> Acyclic(d) /\ \A s \in Steps : Ghost \notin d[s]
<1> DEFINE q == KahnLoop(d)[N]
<1>1. /\ KahnInv(d, q) /\ Kahn(d) = q.sorted
      /\ Len(q.sorted) = N \/ q.queue = <<>>
  BY KahnLoops DEF Kahn
<1> HIDE DEF q
<1>2. /\ q.sorted \in Seq(Steps) /\ Distinct(q.sorted) /\ Ordered(d, q.sorted)
      /\ \A s \in Steps : q.open[s] = d[s] \ Elements(q.sorted)
      /\ Elements(q.sorted) \cup Elements(q.queue) = Ready(q)
  BY <1>1 DEF KahnInv
<1>3. ASSUME Len(q.sorted) = N PROVE Acyclic(d)
  <2> SUFFICES ASSUME NEW S \in SUBSET Steps, S # {} PROVE \E s \in S : d[s] \cap S = {}
    BY DEF Acyclic
  <2> DEFINE I == {i \in 1 .. N : q.sorted[i] \in S}
  <2>1. Elements(q.sorted) = Steps
    BY <1>2, <1>3, Pigeons
  <2>2. I # {} /\ I \in SUBSET Nat
    <3>1. PICK s \in S : s \in Elements(q.sorted)
      BY <2>1
    <3>2. PICK i \in 1 .. Len(q.sorted) : s = q.sorted[i]
      BY <3>1 DEF Elements
    <3>3. i \in I
      BY <1>3, <3>1, <3>2
    <3> QED
      BY <3>3, PlanAssumption
  <2>3. PICK m \in I : \A k \in I : m <= k
    <3> HIDE DEF I
    <3> QED
      BY <2>2, Least
  <2>4. d[q.sorted[m]] \subseteq {q.sorted[j] : j \in 1 .. m - 1}
    BY <1>2, <1>3 DEF Ordered
  <2>5. \A j \in 1 .. m - 1 : j \in 1 .. N /\ ~ (m <= j)
    BY PlanAssumption
  <2>6. \A j \in 1 .. m - 1 : q.sorted[j] \notin S
    BY <2>3, <2>5
  <2>7. d[q.sorted[m]] \cap S = {}
    BY <2>4, <2>6
  <2> QED
    BY <2>7
<1>4. ASSUME Acyclic(d), \A s \in Steps : Ghost \notin d[s] PROVE Len(q.sorted) = N
  <2> SUFFICES ASSUME q.queue = <<>> PROVE Len(q.sorted) = N
    BY <1>1
  <2> DEFINE S == Steps \ Elements(q.sorted)
  <2>1. Elements(q.queue) = {}
    <3>1. Len(<<>>) = 0
      BY EmptySeq
    <3> QED
      BY <3>1 DEF Elements
  <2>2. ASSUME S # {} PROVE FALSE
    <3>1. PICK s \in S : d[s] \cap S = {}
      BY <1>4, <2>2 DEF Acyclic
    <3>2. d[s] \subseteq Steps
      BY <1>4 DEF RawPlans
    <3>3. q.open[s] = {}
      BY <1>2, <3>1, <3>2
    <3> QED
      BY <1>2, <2>1, <3>1, <3>3 DEF Ready
  <2>3. Elements(q.sorted) \subseteq Steps
    BY <1>2, LenProperties DEF Elements
  <2>4. Elements(q.sorted) = Steps
    BY <2>2, <2>3
  <2> QED
    BY <1>2, <2>4, Pigeons
<1> QED
  BY <1>1, <1>3, <1>4 DEF Valid

(***************************************************************************)
(* The levels of a valid plan reach every step: the next level is empty    *)
(* only when no step is left.                                              *)
(***************************************************************************)
LEMMA LevelsReachAll ==
  ASSUME NEW d \in RawPlans, Valid(d), NEW S \in SUBSET Steps, NextLevel(d, S) = {}
  PROVE  S = Steps
<1>1. Acyclic(d) /\ \A s \in Steps : Ghost \notin d[s]
  BY ValidIsAcyclic
<1>2. ASSUME Steps \ S # {} PROVE FALSE
  <2>1. PICK s \in Steps \ S : d[s] \cap (Steps \ S) = {}
    BY <1>1, <1>2 DEF Acyclic
  <2>2. d[s] \subseteq S
    BY <1>1, <2>1 DEF RawPlans
  <2> QED
    BY <2>1, <2>2 DEF NextLevel
<1> QED
  BY <1>2
=============================================================================
