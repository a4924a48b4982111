----------------------------- MODULE InputProofs -----------------------------
(***************************************************************************)
(* What is made of a request, for texts, tables and names of any length:   *)
(* which route gets it, what the functions on texts make of their input,   *)
(* and what a name query is answered with.                                 *)
(***************************************************************************)
EXTENDS Text, CaptDns, Routes, FiniteSetTheorems, SequenceTheorems, WellFoundedInduction, TLAPS

-----------------------------------------------------------------------------
(* Folds and recursive functions: what they are, by induction over numbers. *)

\* Induction over 0 .. n, for the set of places where something holds.
LEMMA UpTo ==
  ASSUME NEW n \in Nat, NEW T, 0 \in T, \A k \in 0 .. n - 1 : k \in T => k + 1 \in T
  PROVE  \A k \in 0 .. n : k \in T
<1> DEFINE U == { k \in 0 .. n : k \notin T }
<1> SUFFICES ASSUME U # {} PROVE FALSE
  OBVIOUS
<1>1. U \subseteq Nat
  OBVIOUS
<1>2. PICK i \in U : \A j \in U : ~ (<<j, i>> \in OpToRel(<, Nat))
  <2> HIDE DEF U
  <2> QED BY <1>1, NatLessThanWellFounded, WFMin, Zenon
<1>3. i # 0 /\ i - 1 \in 0 .. n - 1
  OBVIOUS
<1>4. i - 1 \in U
  OBVIOUS
<1>5. <<i - 1, i>> \in OpToRel(<, Nat)
  BY <1>3 DEF OpToRel
<1> QED BY <1>2, <1>4, <1>5

\* f goes n steps of G from b on, through values of S.
Steps(f, n, S, b, G) ==
  f \in [0 .. n -> S] /\ f[0] = b /\ \A k \in 1 .. n : f[k] = G[<<k, f[k - 1]>>]

Leads(G, n, S) == \A k \in 1 .. n : \A s \in S : G[<<k, s>>] \in S

\* Steps that stay in S can be gone.
LEMMA StepsExist ==
  ASSUME NEW n \in Nat, NEW S, NEW b \in S, NEW G, Leads(G, n, S)
  PROVE  \E f : Steps(f, n, S, b, G)
<1> DEFINE T == { m \in 0 .. n :
             \E f \in [0 .. m -> S] : f[0] = b /\ \A k \in 1 .. m : f[k] = G[<<k, f[k - 1]>>] }
<1>1. 0 \in T
  <2> DEFINE g == [k \in 0 .. 0 |-> b]
  <2>1. g \in [0 .. 0 -> S] /\ g[0] = b
    OBVIOUS
  <2> HIDE DEF g
  <2>2. \A k \in 1 .. 0 : g[k] = G[<<k, g[k - 1]>>]
    OBVIOUS
  <2> QED BY <2>1, <2>2
<1>2. ASSUME NEW m \in 0 .. n - 1, m \in T
      PROVE  m + 1 \in T
  <2>1. PICK f \in [0 .. m -> S] : f[0] = b /\ \A k \in 1 .. m : f[k] = G[<<k, f[k - 1]>>]
    BY <1>2
  <2>2. G[<<m + 1, f[m]>>] \in S
    BY <2>1 DEF Leads
  <2> DEFINE g == [k \in 0 .. m + 1 |-> IF k = m + 1 THEN G[<<m + 1, f[m]>>] ELSE f[k]]
  <2>3. g \in [0 .. m + 1 -> S] /\ g[m + 1] = G[<<m + 1, f[m]>>] /\ \A k \in 0 .. m : g[k] = f[k]
    BY <2>2
  <2> HIDE DEF g
  <2>4. ASSUME NEW k \in 1 .. m + 1
        PROVE  g[k] = G[<<k, g[k - 1]>>]
    <3>1. CASE k = m + 1
      <4>1. k - 1 = m /\ g[m] = f[m]
        BY <2>3, <3>1
      <4> QED BY <2>3, <3>1, <4>1
    <3>2. CASE k # m + 1
      <4>1. k \in 1 .. m /\ k \in 0 .. m /\ k - 1 \in 0 .. m
        BY <3>2
      <4> QED BY <2>1, <2>3, <4>1
    <3> QED BY <3>1, <3>2
  <2>5. g[0] = b
    BY <2>1, <2>3
  <2> QED BY <2>3, <2>4, <2>5
<1> HIDE DEF T
<1>3. n \in T
  BY <1>1, <1>2, UpTo
<1> QED BY <1>3 DEF T, Steps

\* Two ways along the same steps agree.
LEMMA StepsAgree ==
  ASSUME NEW n \in Nat, NEW f, NEW g, NEW G, f[0] = g[0],
         \A k \in 1 .. n : f[k] = G[<<k, f[k - 1]>>],
         \A k \in 1 .. n : g[k] = G[<<k, g[k - 1]>>]
  PROVE  \A k \in 0 .. n : f[k] = g[k]
<1> DEFINE T == { k \in 0 .. n : f[k] = g[k] }
<1>1. ASSUME NEW k \in 0 .. n - 1, k \in T
      PROVE  k + 1 \in T
  <2>1. k + 1 \in 1 .. n /\ (k + 1) - 1 = k /\ f[k] = g[k]
    BY <1>1
  <2>2. f[k + 1] = G[<<k + 1, f[(k + 1) - 1]>>] /\ g[k + 1] = G[<<k + 1, g[(k + 1) - 1]>>]
    BY <2>1
  <2> QED BY <2>1, <2>2
<1> HIDE DEF T
<1>2. 0 \in T
  BY DEF T
<1>3. \A k \in 0 .. n : k \in T
  BY <1>1, <1>2, UpTo
<1> QED BY <1>3 DEF T

\* FlattenSeq joins from left to right.
LEMMA FlattenIs ==
  ASSUME NEW S, NEW seqs \in Seq(Seq(S))
  PROVE  \E f \in [0 .. Len(seqs) -> Seq(S)] :
           /\ f[0] = <<>> /\ \A k \in 1 .. Len(seqs) : f[k] = f[k - 1] \o seqs[k]
           /\ FlattenSeq(seqs) = f[Len(seqs)]
<1> DEFINE n == Len(seqs)
           G == [p \in (1 .. n) \X Seq(S) |-> p[2] \o seqs[p[1]]]
<1>1. n \in Nat /\ \A k \in 1 .. n : seqs[k] \in Seq(S)
  OBVIOUS
<1>2. Leads(G, n, Seq(S))
  BY <1>1 DEF Leads
<1>3. <<>> \in Seq(S)
  OBVIOUS
<1> HIDE DEF G, n
<1>4. PICK f : Steps(f, n, Seq(S), <<>>, G)
  BY <1>1, <1>2, <1>3, StepsExist
<1>14. f \in [0 .. n -> Seq(S)] /\ f[0] = <<>> /\ \A k \in 1 .. n : f[k] = G[<<k, f[k - 1]>>]
  BY <1>4 DEF Steps
<1>5. ASSUME NEW k \in 1 .. n
      PROVE  f[k - 1] \in Seq(S) /\ f[k] = f[k - 1] \o seqs[k]
  <2>1. f[k - 1] \in Seq(S)
    <3>1. k - 1 \in 0 .. n
      BY <1>1
    <3> QED BY <1>14, <3>1
  <2>2. <<k, f[k - 1]>> \in (1 .. n) \X Seq(S)
    BY <2>1
  <2>3. G[<<k, f[k - 1]>>] = f[k - 1] \o seqs[k]
    BY <2>2 DEF G
  <2> QED BY <1>14, <2>1, <2>3
<1>11. n # 0 => f[1] = f[0] \o seqs[1]
  <2>1. \A k \in 1 .. n, j \in Nat : j = k - 1 => f[k] = f[j] \o seqs[k]
    BY <1>5
  <2>2. n # 0 => 0 \in Nat /\ 1 \in 1 .. n /\ 0 = 1 - 1
    BY <1>1
  <2> QED BY <2>1, <2>2, Zenon
<1>6. CASE n = 0
  <2>1. seqs = <<>>
    BY <1>6, EmptySeq DEF n
  <2>2. FlattenSeq(seqs) = <<>>
    BY <1>6, <2>1 DEF FlattenSeq, n
  <2> QED BY <1>14, <1>5, <1>6, <2>2 DEF n
<1>7. CASE n # 0
  <2> DEFINE Def(h) == [i \in 1 .. n |-> IF i = 1 THEN seqs[i] ELSE h[i - 1] \o seqs[i]]
             c == CHOOSE h : h = Def(h)
             h0 == [i \in 1 .. n |-> f[i]]
  <2>1. h0 = Def(h0)
    <3>1. ASSUME NEW i \in 1 .. n
          PROVE  f[i] = IF i = 1 THEN seqs[i] ELSE h0[i - 1] \o seqs[i]
      <4>1. CASE i = 1
        <5>1. f[1] = f[0] \o seqs[1]
          BY <1>7, <1>11
        <5>2. seqs[1] \in Seq(S)
          BY <4>1, <1>1
        <5> QED BY <4>1, <5>1, <5>2, <1>14, ConcatEmptySeq
      <4>2. CASE i # 1
        <5>1. i - 1 \in 1 .. n /\ h0[i - 1] = f[i - 1]
          BY <4>2, <1>1
        <5> QED BY <4>2, <5>1, <1>5
      <4> QED BY <4>1, <4>2
    <3> QED BY <3>1
  <2>2. c = Def(c)
    <3> HIDE DEF h0, Def
    <3> QED BY <2>1, Zenon
  <2>3. FlattenSeq(seqs) = c[n]
    BY <1>7, Zenon DEF FlattenSeq, n
  <2> HIDE DEF c, h0
  <2>4. \A i \in 1 .. n : c[i] = IF i = 1 THEN seqs[i] ELSE c[i - 1] \o seqs[i]
    <3> DEFINE d == Def(c)
    <3>1. \A i \in 1 .. n : d[i] = IF i = 1 THEN seqs[i] ELSE c[i - 1] \o seqs[i]
      OBVIOUS
    <3>2. d = c
      BY <2>2
    <3> HIDE DEF d
    <3> QED BY <3>1, <3>2
  <2> DEFINE T == { k \in 0 .. n : k = 0 \/ c[k] = f[k] }
  <2>5. \A k \in 0 .. n - 1 : k \in T => k + 1 \in T
    <3> SUFFICES ASSUME NEW k \in 0 .. n - 1, k \in T PROVE c[k + 1] = f[k + 1]
      BY <1>1
    <3>1. CASE k = 0
      <4>1. f[1] = f[0] \o seqs[1]
        BY <1>7, <1>11
      <4>2. c[1] = seqs[1]
        BY <1>1, <1>7, <2>4
      <4>3. seqs[1] \in Seq(S)
        BY <1>1, <1>7
      <4> QED BY <3>1, <4>1, <4>2, <4>3, <1>14, ConcatEmptySeq
    <3>2. CASE k # 0
      <4>1. k + 1 \in 1 .. n /\ k + 1 # 1 /\ (k + 1) - 1 = k /\ c[k] = f[k]
        BY <3>2, <1>1
      <4>2. c[k + 1] = c[k] \o seqs[k + 1] /\ f[k + 1] = f[k] \o seqs[k + 1]
        BY <4>1, <2>4, <1>5
      <4> QED BY <4>1, <4>2
    <3> QED BY <3>1, <3>2
  <2>6. 0 \in T
    BY <1>1
  <2>7. n \in T
    <3> HIDE DEF T
    <3>1. \A k \in 0 .. n : k \in T
      BY <1>1, <2>5, <2>6, UpTo, Zenon
    <3> QED BY <1>1, <3>1
  <2> QED BY <1>1, <1>14, <1>5, <1>7, <2>3, <2>7 DEF n
<1> QED BY <1>6, <1>7 DEF n

\* The greatest of some numbers up to n.
LEMMA MaxIs ==
  ASSUME NEW n \in Nat, NEW s \in SUBSET (1 .. n), s # {}
  PROVE  Max(s) \in s /\ \A y \in s : y <= Max(s)
<1> DEFINE U == { k \in 0 .. n : n - k \in s }
<1>1. PICK x \in s : TRUE
  OBVIOUS
<1>2. n - x \in 0 .. n /\ n - (n - x) = x
  OBVIOUS
<1>3. U \subseteq Nat /\ U # {}
  <2>1. n - x \in U
    BY <1>2
  <2> HIDE DEF U
  <2>2. U \subseteq 0 .. n
    BY DEF U
  <2> QED BY <2>1, <2>2
<1>4. PICK i \in U : \A j \in U : ~ (<<j, i>> \in OpToRel(<, Nat))
  <2> HIDE DEF U
  <2> QED BY <1>3, NatLessThanWellFounded, WFMin, Zenon
<1>5. ASSUME NEW y \in s
      PROVE  y <= n - i
  <2>1. n - y \in 0 .. n /\ n - (n - y) = y
    OBVIOUS
  <2>2. n - y \in U
    BY <2>1
  <2>3. ~ (n - y < i)
    <3>1. n - y < i => <<n - y, i>> \in OpToRel(<, Nat)
      BY <1>3, <2>2 DEF OpToRel
    <3> QED BY <1>4, <2>2, <3>1
  <2> QED BY <2>3
<1>6. n - i \in s
  OBVIOUS
<1>7. \E m \in s : \A y \in s : m >= y
  BY <1>5, <1>6
<1>8. Max(s) \in s /\ \A y \in s : Max(s) >= y
  BY <1>7, Zenon DEF Max
<1> QED BY <1>8

Folds1(h, n, b, G) ==
  h = [s \in SUBSET (1 .. n) |-> IF s = {} THEN b ELSE G[<<Max(s), h[s \ {Max(s)}]>>]]

\* A fold over 1 .. n, which takes the greatest place off, exists.
LEMMA FoldExists ==
  ASSUME NEW n \in Nat, NEW S, NEW b \in S, NEW G, Leads(G, n, S)
  PROVE  \E h \in [SUBSET (1 .. n) -> S] : Folds1(h, n, b, G)
<1> DEFINE T == { m \in 0 .. n : \E h \in [SUBSET (1 .. m) -> S] : Folds1(h, m, b, G) }
<1>1. 0 \in T
  <2> DEFINE h == [s \in SUBSET (1 .. 0) |-> b]
  <2>1. h \in [SUBSET (1 .. 0) -> S]
    OBVIOUS
  <2>2. \A s \in SUBSET (1 .. 0) : s = {}
    OBVIOUS
  <2>3. Folds1(h, 0, b, G)
    BY <2>2 DEF Folds1
  <2> QED BY <2>1, <2>3
<1>2. ASSUME NEW m \in 0 .. n - 1, m \in T
      PROVE  m + 1 \in T
  <2>1. PICK h \in [SUBSET (1 .. m) -> S] : Folds1(h, m, b, G)
    BY <1>2, Zenon
  <2> DEFINE g == [s \in SUBSET (1 .. m + 1) |-> IF m + 1 \in s THEN G[<<m + 1, h[s \ {m + 1}]>>] ELSE h[s]]
  <2>2. \A s \in SUBSET (1 .. m + 1) : s \ {m + 1} \in SUBSET (1 .. m)
    OBVIOUS
  <2>3. \A s \in SUBSET (1 .. m + 1) : m + 1 \notin s => s \in SUBSET (1 .. m)
    OBVIOUS
  <2>4. g \in [SUBSET (1 .. m + 1) -> S]
    <3>1. \A v \in S : G[<<m + 1, v>>] \in S
      BY DEF Leads
    <3> QED BY <2>1, <2>2, <2>3, <3>1
  <2>5. \A s \in SUBSET (1 .. m) : s \in SUBSET (1 .. m + 1) /\ g[s] = h[s]
    OBVIOUS
  <2>6. \A s \in SUBSET (1 .. m + 1) : m + 1 \in s => g[s] = G[<<m + 1, h[s \ {m + 1}]>>]
    OBVIOUS
  <2>7. \A s \in SUBSET (1 .. m) : h[s] = IF s = {} THEN b ELSE G[<<Max(s), h[s \ {Max(s)}]>>]
    <3> DEFINE d == [s \in SUBSET (1 .. m) |-> IF s = {} THEN b ELSE G[<<Max(s), h[s \ {Max(s)}]>>]]
    <3>1. h = d
      BY <2>1, Zenon DEF Folds1
    <3>2. \A s \in SUBSET (1 .. m) : d[s] = IF s = {} THEN b ELSE G[<<Max(s), h[s \ {Max(s)}]>>]
      BY Zenon
    <3> HIDE DEF d
    <3> QED BY <3>1, <3>2, Zenon
  <2>8. DOMAIN g = SUBSET (1 .. m + 1)
    OBVIOUS
  <2> HIDE DEF g
  <2>9. ASSUME NEW s \in SUBSET (1 .. m + 1)
        PROVE  g[s] = IF s = {} THEN b ELSE G[<<Max(s), g[s \ {Max(s)}]>>]
    <3>1. CASE m + 1 \in s
      <4>1. Max(s) \in s /\ m + 1 <= Max(s)
        <5>1. m + 1 \in Nat /\ s # {}
          BY <3>1
        <5> QED BY <3>1, <5>1, MaxIs
      <4>2. Max(s) = m + 1 /\ s # {}
        <5>1. Max(s) \in 1 .. m + 1
          BY <4>1
        <5> QED BY <3>1, <4>1, <5>1
      <4> QED BY <2>2, <2>5, <2>6, <3>1, <4>2
    <3>2. CASE m + 1 \notin s
      <4>1. s \in SUBSET (1 .. m) /\ g[s] = h[s]
        BY <2>3, <2>5, <3>2
      <4>2. s \ {Max(s)} \in SUBSET (1 .. m)
        BY <4>1
      <4> QED BY <2>5, <2>7, <4>1, <4>2
    <3> QED BY <3>1, <3>2
  <2>10. Folds1(g, m + 1, b, G)
    <3> DEFINE d == [s \in SUBSET (1 .. m + 1) |-> IF s = {} THEN b ELSE G[<<Max(s), g[s \ {Max(s)}]>>]]
    <3>1. DOMAIN d = SUBSET (1 .. m + 1) /\ \A s \in SUBSET (1 .. m + 1) : d[s] = g[s]
      BY <2>9
    <3>2. d = g
      <4> HIDE DEF d
      <4>1. d = [s \in SUBSET (1 .. m + 1) |-> d[s]]
        BY DEF d
      <4>2. g = [s \in SUBSET (1 .. m + 1) |-> g[s]]
        BY <2>4
      <4> QED BY <3>1, <4>1, <4>2
    <3> QED BY <3>2, Zenon DEF Folds1
  <2> QED BY <2>4, <2>10
<1> HIDE DEF T
<1>3. n \in T
  BY <1>1, <1>2, UpTo
<1> QED BY <1>3 DEF T

FoldSteps(c, n, S, G) ==
  \A s \in SUBSET (1 .. n) :
    s # {} /\ c[s \ {Max(s)}] \in S => c[s] = G[<<Max(s), c[s \ {Max(s)}]>>]

\* What such a fold gives is where its steps lead.
LEMMA FoldRuns ==
  ASSUME NEW n \in Nat, NEW S, NEW b \in S, NEW G, Leads(G, n, S),
         NEW c, c[{}] = b, FoldSteps(c, n, S, G)
  PROVE  \E f : Steps(f, n, S, b, G) /\ c[1 .. n] = f[n]
<1> DEFINE f == [k \in 0 .. n |-> c[1 .. k]]
           T == { k \in 0 .. n : c[1 .. k] \in S }
<1>1. ASSUME NEW k \in 0 .. n - 1, c[1 .. k] \in S
      PROVE  c[1 .. k + 1] = G[<<k + 1, c[1 .. k]>>] /\ c[1 .. k + 1] \in S
  <2> DEFINE s == 1 .. k + 1
  <2>1. s \in SUBSET (1 .. n) /\ s # {} /\ k + 1 \in s /\ \A y \in s : y <= k + 1
    OBVIOUS
  <2>2. Max(s) \in s /\ \A y \in s : y <= Max(s)
    <3> HIDE DEF s
    <3> QED BY <2>1, MaxIs
  <2>3. Max(s) = k + 1
    <3>1. k + 1 <= Max(s) /\ Max(s) <= k + 1 /\ Max(s) \in Int
      BY <2>1, <2>2
    <3> QED BY <3>1
  <2>4. s \ {k + 1} = 1 .. k
    OBVIOUS
  <2> HIDE DEF s
  <2>5. c[s] = G[<<k + 1, c[1 .. k]>>]
    BY <1>1, <2>1, <2>3, <2>4 DEF FoldSteps
  <2>6. G[<<k + 1, c[1 .. k]>>] \in S
    BY <1>1 DEF Leads
  <2> QED BY <2>5, <2>6 DEF s
<1>2. \A k \in 0 .. n : k \in T
  <2>1. 1 .. 0 = {}
    OBVIOUS
  <2>2. 0 \in T
    BY <2>1
  <2>3. ASSUME NEW k \in 0 .. n - 1, k \in T
        PROVE  k + 1 \in T
    <3>1. c[1 .. k] \in S
      BY <2>3
    <3>2. c[1 .. k + 1] \in S
      BY <1>1, <3>1
    <3> QED BY <3>2
  <2> HIDE DEF T
  <2> QED BY <2>2, <2>3, UpTo
<1>3. \A k \in 0 .. n : f[k] = c[1 .. k] /\ c[1 .. k] \in S
  BY <1>2
<1>4. f \in [0 .. n -> S] /\ f[0] = b
  <2>1. 1 .. 0 = {}
    OBVIOUS
  <2> QED BY <1>3, <2>1
<1>5. ASSUME NEW k \in 1 .. n
      PROVE  f[k] = G[<<k, f[k - 1]>>]
  <2>1. k - 1 \in 0 .. n - 1 /\ (k - 1) + 1 = k /\ k - 1 \in 0 .. n
    OBVIOUS
  <2> HIDE DEF f
  <2> QED BY <1>1, <1>3, <2>1
<1> HIDE DEF f
<1> QED BY <1>3, <1>4, <1>5 DEF Steps

\* Induction from n down to 1.
LEMMA DownFrom ==
  ASSUME NEW n \in Nat, NEW T,
         \A i \in 1 .. n : (\A j \in i + 1 .. n : j \in T) => i \in T
  PROVE  \A i \in 1 .. n : i \in T
<1> DEFINE U == { k \in 0 .. n : \A j \in n - k + 1 .. n : j \in T }
<1>1. 0 \in U
  OBVIOUS
<1>2. ASSUME NEW k \in 0 .. n - 1, k \in U
      PROVE  k + 1 \in U
  <2>1. \A j \in n - k + 1 .. n : j \in T
    BY <1>2
  <2>2. n - k \in 1 .. n
    OBVIOUS
  <2>3. n - k \in T
    BY <2>1, <2>2
  <2>4. \A j \in n - (k + 1) + 1 .. n : j = n - k \/ j \in n - k + 1 .. n
    OBVIOUS
  <2> QED BY <2>1, <2>3, <2>4
<1> HIDE DEF U
<1>3. n \in U
  BY <1>1, <1>2, UpTo
<1> QED BY <1>3 DEF U

\* f is given, place by place, by what it is at the later places up to n.
Backwards(f, m, n, S, H) ==
  f \in [m .. n -> S] /\ \A i \in m .. n : f[i] = H[<<i, [j \in i + 1 .. n |-> f[j]]>>]

LeadsBack(H, n, S) == \A i \in 1 .. n : \A g \in [i + 1 .. n -> S] : H[<<i, g>>] \in S

LEMMA BackExists ==
  ASSUME NEW n \in Nat, NEW S, NEW H, LeadsBack(H, n, S)
  PROVE  \E f : Backwards(f, 1, n, S, H)
<1> DEFINE T == { m \in 0 .. n : \E f : Backwards(f, n - m + 1, n, S, H) }
<1>1. 0 \in T
  <2> DEFINE f == [j \in n + 1 .. n |-> 0]
  <2>1. f \in [n - 0 + 1 .. n -> S] /\ n - 0 + 1 .. n = {}
    OBVIOUS
  <2>2. Backwards(f, n - 0 + 1, n, S, H)
    BY <2>1 DEF Backwards
  <2> QED BY <2>2
<1>2. ASSUME NEW m \in 0 .. n - 1, m \in T
      PROVE  m + 1 \in T
  <2> DEFINE p == n - m
  <2>1. p \in 1 .. n /\ n - m + 1 = p + 1 /\ n - (m + 1) + 1 = p
    OBVIOUS
  <2>2. PICK f : Backwards(f, p + 1, n, S, H)
    BY <1>2, <2>1
  <2> HIDE DEF p
  <2>3. f \in [p + 1 .. n -> S] /\ \A i \in p + 1 .. n : f[i] = H[<<i, [j \in i + 1 .. n |-> f[j]]>>]
    BY <2>2 DEF Backwards
  <2> DEFINE v == H[<<p, f>>]
             g == [i \in p .. n |-> IF i = p THEN v ELSE f[i]]
  <2>4. v \in S
    BY <2>1, <2>3 DEF LeadsBack
  <2> HIDE DEF v
  <2>5. g \in [p .. n -> S] /\ g[p] = v /\ \A i \in p + 1 .. n : g[i] = f[i]
    BY <2>1, <2>3, <2>4
  <2> HIDE DEF g
  <2>6. ASSUME NEW i \in p .. n
        PROVE  g[i] = H[<<i, [j \in i + 1 .. n |-> g[j]]>>]
    <3>1. CASE i = p
      <4>1. [j \in i + 1 .. n |-> g[j]] = [j \in p + 1 .. n |-> f[j]]
        BY <3>1, <2>5
      <4>2. f = [j \in p + 1 .. n |-> f[j]]
        BY <2>3
      <4> QED BY <3>1, <4>1, <4>2, <2>5 DEF v
    <3>2. CASE i # p
      <4>1. i \in p + 1 .. n /\ \A j \in i + 1 .. n : j \in p + 1 .. n
        BY <3>2, <2>1
      <4>2. [j \in i + 1 .. n |-> g[j]] = [j \in i + 1 .. n |-> f[j]]
        BY <4>1, <2>5
      <4> QED BY <4>1, <4>2, <2>3, <2>5
    <3> QED BY <3>1, <3>2
  <2>7. Backwards(g, p, n, S, H)
    BY <2>5, <2>6 DEF Backwards
  <2> QED BY <2>1, <2>7
<1> HIDE DEF T
<1>3. n \in T
  BY <1>1, <1>2, UpTo
<1>4. PICK f : Backwards(f, n - n + 1, n, S, H)
  BY <1>3 DEF T
<1>5. n - n + 1 = 1
  OBVIOUS
<1> QED BY <1>4, <1>5

\* A sequence is the beginning of another one, place by place.
LEMMA PrefixIs ==
  ASSUME NEW S, NEW s \in Seq(S), NEW t \in Seq(S), Len(s) <= Len(t)
  PROVE  SubSeq(s, 1, Len(s)) = SubSeq(t, 1, Len(s)) <=> \A k \in 1 .. Len(s) : s[k] = t[k]
<1>1. Len(s) \in Nat /\ Len(t) \in Nat
  OBVIOUS
<1>2. \A k \in 1 .. Len(s) : s[k] \in S /\ t[k] \in S
  BY <1>1
<1>3. /\ SubSeq(t, 1, Len(s)) \in Seq(S) /\ Len(SubSeq(t, 1, Len(s))) = Len(s)
      /\ \A k \in 1 .. Len(s) : SubSeq(t, 1, Len(s))[k] = t[k]
  BY <1>1, <1>2, SubSeqProperties
<1>4. SubSeq(s, 1, Len(s)) = s
  BY SubSeqFull
<1>5. ASSUME \A k \in 1 .. Len(s) : s[k] = t[k]
      PROVE  s = SubSeq(t, 1, Len(s))
  BY <1>3, <1>5, SeqEqual
<1> QED BY <1>3, <1>4, <1>5

-----------------------------------------------------------------------------
(* The text of a request.                                                  *)

ByteTexts == Seq(Nat)

LEMMA BytesAre == Seq(Byte) \subseteq ByteTexts /\ Seq(Byte \ {0}) \subseteq ByteTexts
<1>1. Byte \subseteq Nat /\ Byte \ {0} \subseteq Nat
  BY DEF Byte
<1> HIDE DEF Byte
<1> QED BY <1>1, SeqMonotonic, Zenon DEF ByteTexts

\* The arguments of each function.
LEMMA CallsTyped ==
  ASSUME xcall \in Calls
  PROVE  /\ xcall.fn \in {"decode", "find", "header", "html", "js", "decode64", "encode64"}
         /\ xcall.fn = "decode" => xcall.in \in ByteTexts /\ xcall.room \in Nat \ {0}
         /\ xcall.fn = "find" => xcall.in \in ByteTexts /\ xcall.arg \in ByteTexts /\ xcall.room \in Nat \ {0}
         /\ xcall.fn = "header" => xcall.in \in Seq(STRING \X ByteTexts) /\ xcall.room \in Nat \ {0}
         /\ xcall.fn \in {"html", "js"} => xcall.in \in ByteTexts /\ xcall.room \in Nat
         /\ xcall.fn = "decode64" => xcall.in \in Seq(0 .. Bad) /\ xcall.room \in Nat
         /\ xcall.fn = "encode64" => xcall.in \in Seq(Byte) /\ xcall.room \in Nat
<1>1. PICK fn \in {"decode", "find", "header", "html", "js", "decode64", "encode64"}, args \in {ArgNames, {<<>>}} :
        xcall \in CallsOf(fn, args) /\ (fn = "find" => args = ArgNames)
  BY DEF Calls
<1>2. xcall.fn = fn /\ xcall.in \in Inputs[fn] /\ xcall.arg \in args /\ xcall.room \in Sizes[fn]
  BY <1>1 DEF CallsOf
<1>3. Seq(STRING \X (Seq(Byte \ {0}))) \subseteq Seq(STRING \X ByteTexts)
  <2>1. STRING \X (Seq(Byte \ {0})) \subseteq STRING \X ByteTexts
    BY BytesAre
  <2> QED BY <2>1, SeqMonotonic
<1>4. fn = "decode" => xcall.in \in ByteTexts /\ xcall.room \in Nat \ {0}
  BY <1>2, BytesAre, TextAssumption
<1>5. fn = "find" => xcall.in \in ByteTexts /\ xcall.arg \in ByteTexts /\ xcall.room \in Nat \ {0}
  BY <1>1, <1>2, BytesAre, TextAssumption
<1>6. fn = "header" => xcall.in \in Seq(STRING \X ByteTexts) /\ xcall.room \in Nat \ {0}
  BY <1>2, <1>3, TextAssumption
<1>7. fn \in {"html", "js"} => xcall.in \in ByteTexts /\ xcall.room \in Nat
  BY <1>2, BytesAre, TextAssumption
<1>8. fn = "decode64" => xcall.in \in Seq(0 .. Bad) /\ xcall.room \in Nat
  BY <1>2, TextAssumption
<1>9. fn = "encode64" => xcall.in \in Seq(Byte) /\ xcall.room \in Nat
  BY <1>2, TextAssumption
<1> QED BY <1>2, <1>4, <1>5, <1>6, <1>7, <1>8, <1>9

\* The decoder's state, and that a byte leads from one to another.
DecodeStates == [read : Nat, esced : 0 .. 2, escVal : Nat, out : ByteTexts]

LEMMA HexValIs == ASSUME NEW c \in Nat PROVE httpdHexVal(c) \in Nat
  BY DEF httpdHexVal

\* A turn of the loop, in each of the decoder's three states.
LEMMA DecodeByteIs ==
  ASSUME NEW s \in DecodeStates, NEW c \in Nat, NEW retLen \in Nat
  PROVE  LET t == DecodeByte(s, c, retLen) IN
         /\ t \in DecodeStates
         /\ ~ HasRoom(s.out, retLen) => t = s
         /\ HasRoom(s.out, retLen) =>
              /\ t.read = s.read + 1
              /\ s.esced = 1 => t.esced = 2 /\ t.escVal = 16 * httpdHexVal(c) /\ t.out = s.out
              /\ s.esced = 2 => t.esced = 0 /\ t.out = Append(s.out, s.escVal + httpdHexVal(c))
              /\ s.esced = 0 /\ c = Percent => t.esced = 1 /\ t.out = s.out
              /\ s.esced = 0 /\ c # Percent =>
                   t.esced = 0 /\ t.out = Append(s.out, IF c = Plus THEN 32 ELSE c)
<1> DEFINE t == DecodeByte(s, c, retLen)
           h == httpdHexVal(c)
           r == [s EXCEPT !.read = s.read + 1]
           r1 == [r EXCEPT !.escVal = 16 * h]
           r11 == [r1 EXCEPT !.esced = 2]
           x == Append(s.out, s.escVal + h)
           r2 == [r EXCEPT !.out = x]
           r22 == [r2 EXCEPT !.esced = 0]
           r3 == [r EXCEPT !.esced = 1]
           r4 == [r EXCEPT !.out = Append(s.out, IF c = Plus THEN 32 ELSE c)]
<1>1. h \in Nat
  BY HexValIs
<1> HIDE DEF h
<1>2. r \in DecodeStates /\ r.read = s.read + 1 /\ r.out = s.out /\ r.esced = s.esced /\ r.escVal = s.escVal
  BY DEF DecodeStates
<1>3. 16 * h \in Nat /\ s.escVal + h \in Nat /\ s.out \in ByteTexts
  BY <1>1 DEF DecodeStates
<1>4. t = IF ~ HasRoom(s.out, retLen) THEN s
          ELSE IF s.esced = 1 THEN r11 ELSE IF s.esced = 2 THEN r22 ELSE IF c = Percent THEN r3 ELSE r4
  <2>1. r.out = s.out /\ r.escVal = s.escVal /\ r.esced = s.esced
    BY <1>2
  <2> QED BY <2>1 DEF DecodeByte, h
<1> HIDE DEF r, t
<1>5. r1 \in DecodeStates /\ r1.escVal = 16 * h /\ r1.read = s.read + 1 /\ r1.out = s.out
  BY <1>2, <1>3 DEF DecodeStates
<1>20. x \in ByteTexts
  BY <1>3 DEF ByteTexts
<1> HIDE DEF x
<1>6. r2 \in DecodeStates /\ r2.out = x /\ r2.read = s.read + 1
  BY <1>2, <1>20 DEF DecodeStates
<1>7. r3 \in DecodeStates /\ r3.esced = 1 /\ r3.read = s.read + 1 /\ r3.out = s.out
  BY <1>2 DEF DecodeStates
<1>8. r4 \in DecodeStates /\ r4.out = Append(s.out, IF c = Plus THEN 32 ELSE c) /\ r4.read = s.read + 1
      /\ r4.esced = s.esced
  <2>1. Append(s.out, IF c = Plus THEN 32 ELSE c) \in ByteTexts
    BY <1>3 DEF ByteTexts
  <2> QED BY <1>2, <2>1 DEF DecodeStates
<1> HIDE DEF r1, r2, r3, r4
<1>9. r11 \in DecodeStates /\ r11.esced = 2 /\ r11.escVal = 16 * h /\ r11.read = s.read + 1 /\ r11.out = s.out
  BY <1>5 DEF DecodeStates
<1>10. r22 \in DecodeStates /\ r22.esced = 0 /\ r22.out = x /\ r22.read = s.read + 1
  BY <1>6 DEF DecodeStates
<1> HIDE DEF r11, r22
<1>11. s.esced \in {0, 1, 2}
  BY DEF DecodeStates
<1> QED BY <1>4, <1>7, <1>8, <1>9, <1>10, <1>11 DEF t, h, x

\* The reference, equation by equation.
PlainFrom(F, val, i) ==
  IF i > Len(val) THEN <<>>
  ELSE IF val[i] # Percent THEN <<IF val[i] = Plus THEN 32 ELSE val[i]>> \o F[i + 1]
  ELSE IF i + 2 > Len(val) THEN <<>>
  ELSE <<16 * httpdHexVal(val[i + 1]) + httpdHexVal(val[i + 2])>> \o F[i + 3]

LEMMA PlainlyIs ==
  ASSUME NEW val \in ByteTexts
  PROVE  \E F \in [1 .. Len(val) + 3 -> ByteTexts] :
           /\ \A i \in 1 .. Len(val) + 3 : F[i] = PlainFrom(F, val, i)
           /\ Plainly(val) = F[1]
<1> DEFINE n == Len(val)
           N == n + 3
           H == [p \in (1 .. N) \X UNION { [i + 1 .. N -> ByteTexts] : i \in 1 .. N } |-> PlainFrom(p[2], val, p[1])]
<1>1. n \in Nat /\ N \in Nat /\ \A i \in 1 .. n : val[i] \in Nat /\ httpdHexVal(val[i]) \in Nat
  <2>1. n \in Nat /\ \A i \in 1 .. n : val[i] \in Nat
    BY DEF ByteTexts
  <2> HIDE DEF n
  <2> QED BY <2>1, HexValIs
<1>2. ASSUME NEW i \in 1 .. N, NEW F, \A j \in i + 1 .. N : F[j] \in ByteTexts
      PROVE  PlainFrom(F, val, i) \in ByteTexts
  <2>1. CASE i > n
    BY <2>1 DEF PlainFrom, ByteTexts
  <2>2. CASE i <= n /\ val[i] # Percent
    <3>1. F[i + 1] \in ByteTexts /\ val[i] \in Nat
      BY <1>1, <1>2, <2>2
    <3>2. PlainFrom(F, val, i) = <<IF val[i] = Plus THEN 32 ELSE val[i]>> \o F[i + 1]
      BY <2>2, <1>1 DEF PlainFrom
    <3> QED BY <3>1, <3>2 DEF ByteTexts
  <2>3. CASE i <= n /\ val[i] = Percent /\ i + 2 > n
    BY <2>3, <1>1 DEF PlainFrom, ByteTexts
  <2>4. CASE i <= n /\ val[i] = Percent /\ i + 2 <= n
    <3>1. F[i + 3] \in ByteTexts /\ i + 1 \in 1 .. n /\ i + 2 \in 1 .. n
      BY <1>1, <1>2, <2>4
    <3>2. 16 * httpdHexVal(val[i + 1]) + httpdHexVal(val[i + 2]) \in Nat
      BY <1>1, <3>1
    <3>3. PlainFrom(F, val, i) = <<16 * httpdHexVal(val[i + 1]) + httpdHexVal(val[i + 2])>> \o F[i + 3]
      BY <2>4, <1>1 DEF PlainFrom
    <3> QED BY <3>1, <3>2, <3>3 DEF ByteTexts
  <2> QED BY <1>1, <2>1, <2>2, <2>3, <2>4
<1> HIDE DEF n
<1>3. ASSUME NEW i \in 1 .. N, NEW g \in [i + 1 .. N -> ByteTexts]
      PROVE  H[<<i, g>>] = PlainFrom(g, val, i)
  <2>1. <<i, g>> \in (1 .. N) \X UNION { [j + 1 .. N -> ByteTexts] : j \in 1 .. N }
    OBVIOUS
  <2> QED BY <2>1
<1>4. LeadsBack(H, N, ByteTexts)
  BY <1>2, <1>3 DEF LeadsBack
<1> HIDE DEF H
<1>5. PICK F : Backwards(F, 1, N, ByteTexts, H)
  BY <1>1, <1>4, BackExists
<1>6. F \in [1 .. N -> ByteTexts] /\ \A i \in 1 .. N : F[i] = H[<<i, [j \in i + 1 .. N |-> F[j]]>>]
  BY <1>5 DEF Backwards
<1>7. ASSUME NEW i \in 1 .. N
      PROVE  F[i] = PlainFrom(F, val, i)
  <2> DEFINE g == [j \in i + 1 .. N |-> F[j]]
  <2>1. g \in [i + 1 .. N -> ByteTexts] /\ \A j \in i + 1 .. N : g[j] = F[j]
    BY <1>6
  <2>2. F[i] = PlainFrom(g, val, i)
    BY <1>3, <1>6, <2>1
  <2> HIDE DEF g
  <2>3. PlainFrom(g, val, i) = PlainFrom(F, val, i)
    <3>1. i <= n => i + 1 \in i + 1 .. N /\ i + 3 \in i + 1 .. N
      BY <1>1
    <3>2. i <= n => g[i + 1] = F[i + 1] /\ g[i + 3] = F[i + 3]
      BY <2>1, <3>1
    <3>3. i <= n \/ i > n
      BY <1>1
    <3> QED BY <3>2, <3>3, Zenon DEF PlainFrom, n
  <2> QED BY <2>2, <2>3
<1>8. F = [i \in 1 .. N |-> PlainFrom(F, val, i)]
  BY <1>6, <1>7
<1> DEFINE c == CHOOSE f : f = [i \in 1 .. n + 3 |->
                  IF i > n THEN <<>>
                  ELSE IF val[i] # Percent THEN <<IF val[i] = Plus THEN 32 ELSE val[i]>> \o f[i + 1]
                  ELSE IF i + 2 > n THEN <<>>
                  ELSE <<16 * httpdHexVal(val[i + 1]) + httpdHexVal(val[i + 2])>> \o f[i + 3]]
<1>9. Plainly(val) = c[1]
  BY Zenon DEF Plainly, n
<1>10. c = [i \in 1 .. N |-> PlainFrom(c, val, i)]
  BY <1>8, Zenon DEF PlainFrom, n
<1> HIDE DEF c
<1>11. \A i \in 1 .. N : c[i] = PlainFrom(c, val, i)
  BY <1>10, Zenon
<1>12. \A i \in 1 .. N : c[i] \in ByteTexts
  <2> DEFINE T == { i \in 1 .. N : c[i] \in ByteTexts }
  <2>1. ASSUME NEW i \in 1 .. N, \A j \in i + 1 .. N : j \in T
        PROVE  i \in T
    <3>1. \A j \in i + 1 .. N : c[j] \in ByteTexts
      BY <2>1
    <3> QED BY <1>2, <1>11, <3>1
  <2> HIDE DEF T
  <2>2. \A i \in 1 .. N : i \in T
    BY <1>1, <2>1, DownFrom
  <2> QED BY <2>2 DEF T
<1>13. c \in [1 .. N -> ByteTexts]
  BY <1>10, <1>12
<1> QED BY <1>9, <1>11, <1>13 DEF n

\* The steps of the decoder over a text.
LEMMA DecodeRuns ==
  ASSUME NEW val \in ByteTexts, NEW retLen \in Nat
  PROVE  \E st \in [0 .. Len(val) -> DecodeStates] :
           /\ st[0] = [read |-> 0, esced |-> 0, escVal |-> 0, out |-> <<>>]
           /\ \A k \in 1 .. Len(val) : st[k] = DecodeByte(st[k - 1], val[k], retLen)
           /\ httpdUrlDecode(val, retLen) =
                [ok |-> IF st[Len(val)].read = Len(val) THEN 1 ELSE 0, out |-> st[Len(val)].out]
<1> DEFINE n == Len(val)
           S == DecodeStates
           b == [read |-> 0, esced |-> 0, escVal |-> 0, out |-> <<>>]
           G == [p \in (1 .. n) \X S |-> DecodeByte(p[2], val[p[1]], retLen)]
           c == CHOOSE iter : iter = [s \in SUBSET (DOMAIN val) |->
                  IF s = {} THEN b ELSE DecodeByte(iter[s \ {Max(s)}], val[Max(s)], retLen)]
           fin == c[DOMAIN val]
<1>1. n \in Nat /\ DOMAIN val = 1 .. n /\ \A k \in 1 .. n : val[k] \in Nat
  BY DEF ByteTexts
<1>2. httpdUrlDecode(val, retLen) = [ok |-> IF fin.read = Len(val) THEN 1 ELSE 0, out |-> fin.out]
  BY Zenon DEF httpdUrlDecode, FoldLeft, MapThenFoldSet
<1> HIDE DEF n
<1>3. b \in S
  BY DEF DecodeStates, ByteTexts
<1> HIDE DEF S, b
<1>4. ASSUME NEW k \in 1 .. n, NEW s \in S
      PROVE  G[<<k, s>>] = DecodeByte(s, val[k], retLen) /\ G[<<k, s>>] \in S
  <2>1. DecodeByte(s, val[k], retLen) \in S
    BY <1>1, DecodeByteIs DEF S
  <2> QED BY <2>1
<1> HIDE DEF G
<1>5. Leads(G, n, S)
  BY <1>4 DEF Leads
<1>6. PICK h \in [SUBSET (1 .. n) -> S] : Folds1(h, n, b, G)
  BY <1>1, <1>3, <1>5, FoldExists
<1> DEFINE D(f) == [s \in SUBSET (1 .. n) |->
                     IF s = {} THEN b ELSE DecodeByte(f[s \ {Max(s)}], val[Max(s)], retLen)]
<1>7. h = D(h)
  <2> DEFINE e == [s \in SUBSET (1 .. n) |-> IF s = {} THEN b ELSE G[<<Max(s), h[s \ {Max(s)}]>>]]
  <2>1. h = e
    BY <1>6, Zenon DEF Folds1
  <2>2. ASSUME NEW s \in SUBSET (1 .. n), s # {}
        PROVE  G[<<Max(s), h[s \ {Max(s)}]>>] = DecodeByte(h[s \ {Max(s)}], val[Max(s)], retLen)
    <3>1. Max(s) \in 1 .. n
      BY <1>1, <2>2, MaxIs
    <3>2. h[s \ {Max(s)}] \in S
      BY <1>6
    <3> QED BY <1>4, <3>1, <3>2
  <2>3. e = D(h)
    BY <2>2
  <2> QED BY <2>1, <2>3, Zenon
<1>8. c = D(c)
  BY <1>1, <1>7, Zenon
<1>9. \A s \in SUBSET (1 .. n) :
        c[s] = IF s = {} THEN b ELSE DecodeByte(c[s \ {Max(s)}], val[Max(s)], retLen)
  <2> DEFINE d == D(c)
  <2>1. \A s \in SUBSET (1 .. n) :
          d[s] = IF s = {} THEN b ELSE DecodeByte(c[s \ {Max(s)}], val[Max(s)], retLen)
    BY Zenon
  <2>2. c = d
    BY <1>8, Zenon
  <2> HIDE DEF d, c
  <2> QED BY <2>1, <2>2, Zenon
<1> HIDE DEF c
<1>10. c[{}] = b
  BY <1>9
<1>11. ASSUME NEW s \in SUBSET (1 .. n), s # {}, c[s \ {Max(s)}] \in S
       PROVE  c[s] = G[<<Max(s), c[s \ {Max(s)}]>>]
  <2>1. Max(s) \in 1 .. n
    BY <1>1, <1>11, MaxIs
  <2> QED BY <1>4, <1>9, <1>11, <2>1
<1>12. PICK st : Steps(st, n, S, b, G) /\ c[1 .. n] = st[n]
  <2>1. FoldSteps(c, n, S, G)
    BY <1>11 DEF FoldSteps
  <2>2. n \in Nat
    BY <1>1
  <2> QED BY <1>3, <1>5, <1>10, <2>1, <2>2, FoldRuns
<1>13. /\ st \in [0 .. n -> S] /\ st[0] = b /\ \A k \in 1 .. n : st[k] = G[<<k, st[k - 1]>>]
  BY <1>12 DEF Steps
<1>14. ASSUME NEW k \in 1 .. n
       PROVE  st[k] = DecodeByte(st[k - 1], val[k], retLen)
  <2>1. k - 1 \in 0 .. n
    BY <1>1
  <2>2. st[k - 1] \in S
    BY <1>13, <2>1
  <2> QED BY <1>4, <1>13, <2>2
<1>15. fin = st[n]
  BY <1>1, <1>12
<1> HIDE DEF fin
<1> QED BY <1>2, <1>13, <1>14, <1>15 DEF n, S, b

LEMMA AppendBefore ==
  ASSUME NEW S, NEW s \in Seq(S), NEW x \in S, NEW t \in Seq(S)
  PROVE  Append(s, x) \o t = s \o (<<x>> \o t)
<1>1. Append(s, x) = s \o <<x>> /\ <<x>> \in Seq(S)
  BY AppendIsConcat
<1> QED BY <1>1, ConcatAssociative

LEMMA BeginsWith ==
  ASSUME NEW S, NEW s \in Seq(S), NEW t \in Seq(S)
  PROVE  SubSeq(s \o t, 1, Len(s)) = s
<1> DEFINE u == s \o t
           v == SubSeq(u, 1, Len(s))
<1>1. Len(s) \in Nat /\ Len(t) \in Nat
  OBVIOUS
<1>2. u \in Seq(S) /\ Len(u) = Len(s) + Len(t) /\ \A i \in 1 .. Len(s) + Len(t) : u[i] = IF i <= Len(s) THEN s[i] ELSE t[i - Len(s)]
  BY ConcatProperties
<1>3. \A i \in 1 .. Len(s) : u[i] = s[i] /\ u[i] \in S
  BY <1>1, <1>2
<1> HIDE DEF u
<1>4. /\ v \in Seq(S) /\ Len(v) = IF 1 <= Len(s) THEN Len(s) - 1 + 1 ELSE 0
      /\ \A i \in 1 .. Len(s) - 1 + 1 : v[i] = u[1 + i - 1]
  BY <1>1, <1>3, SubSeqProperties
<1> HIDE DEF v
<1>5. Len(v) = Len(s) /\ \A i \in 1 .. Len(s) : v[i] = s[i]
  BY <1>1, <1>3, <1>4
<1> QED BY <1>4, <1>5, SeqEqual DEF v, u

\* The decoder after k bytes: what it has decoded, followed by what the reference
\* makes of the text from the place on that it is at, or where its % stands, is
\* the whole; it falls behind only when its buffer is full.
Decoding(s, k, F, val, room) ==
  /\ s \in DecodeStates /\ s.read <= k /\ s.esced <= s.read /\ Len(s.out) <= room
  /\ F[1] = s.out \o F[s.read + 1 - s.esced]
  /\ s.esced >= 1 => val[s.read + 1 - s.esced] = Percent
  /\ s.esced = 2 => s.escVal = 16 * httpdHexVal(val[s.read])
  /\ Len(s.out) < room => s.read = k
  /\ s.esced # 0 => Len(s.out) < room

LEMMA DecodingKept ==
  ASSUME NEW val \in ByteTexts, NEW room \in Nat, NEW F \in [1 .. Len(val) + 3 -> ByteTexts],
         \A i \in 1 .. Len(val) + 3 : F[i] = PlainFrom(F, val, i),
         NEW k \in 1 .. Len(val), NEW s, Decoding(s, k - 1, F, val, room)
  PROVE  Decoding(DecodeByte(s, val[k], room + 1), k, F, val, room)
<1> DEFINE n == Len(val)
           c == val[k]
           h == httpdHexVal(c)
<1>1. n \in Nat /\ k \in 1 .. n /\ c \in Nat /\ h \in Nat
  <2>1. n \in Nat /\ c \in Nat
    BY DEF ByteTexts
  <2> QED BY <2>1, HexValIs
<1>2. PICK t : t = DecodeByte(s, c, room + 1)
  OBVIOUS
<1>3. s \in DecodeStates /\ s.read \in Nat /\ s.esced \in 0 .. 2 /\ s.escVal \in Nat /\ s.out \in ByteTexts /\ Len(s.out) \in Nat
  BY DEF Decoding, DecodeStates, ByteTexts
<1>4. HasRoom(s.out, room + 1) <=> Len(s.out) < room
  BY <1>3 DEF HasRoom
<1>5. /\ t \in DecodeStates
      /\ ~ (Len(s.out) < room) => t = s
      /\ Len(s.out) < room =>
           /\ t.read = s.read + 1
           /\ s.esced = 1 => t.esced = 2 /\ t.escVal = 16 * h /\ t.out = s.out
           /\ s.esced = 2 => t.esced = 0 /\ t.out = Append(s.out, s.escVal + h)
           /\ s.esced = 0 /\ c = Percent => t.esced = 1 /\ t.out = s.out
           /\ s.esced = 0 /\ c # Percent =>
                t.esced = 0 /\ t.out = Append(s.out, IF c = Plus THEN 32 ELSE c)
  <2>1. room + 1 \in Nat
    OBVIOUS
  <2>2. LET u == DecodeByte(s, c, room + 1) IN
         /\ u \in DecodeStates
         /\ ~ HasRoom(s.out, room + 1) => u = s
         /\ HasRoom(s.out, room + 1) =>
              /\ u.read = s.read + 1
              /\ s.esced = 1 => u.esced = 2 /\ u.escVal = 16 * httpdHexVal(c) /\ u.out = s.out
              /\ s.esced = 2 => u.esced = 0 /\ u.out = Append(s.out, s.escVal + httpdHexVal(c))
              /\ s.esced = 0 /\ c = Percent => u.esced = 1 /\ u.out = s.out
              /\ s.esced = 0 /\ c # Percent =>
                   u.esced = 0 /\ u.out = Append(s.out, IF c = Plus THEN 32 ELSE c)
    <3> HIDE DEF c
    <3> QED BY <1>1, <1>3, <2>1, DecodeByteIs
  <2> HIDE DEF c
  <2> QED BY <1>2, <1>4, <2>2 DEF h
<1> HIDE DEF n, c, h
<1>6. CASE ~ (Len(s.out) < room)
  <2>1. t = s /\ s.read <= k
    BY <1>1, <1>3, <1>5, <1>6 DEF Decoding
  <2>2. Decoding(s, k, F, val, room)
    BY <2>1, <1>6 DEF Decoding
  <2> QED BY <1>2, <2>1, <2>2 DEF c
<1>7. CASE Len(s.out) < room
  <2>1. s.read = k - 1 /\ t.read = k /\ F[1] = s.out \o F[k - s.esced]
        /\ (s.esced >= 1 => val[k - s.esced] = Percent)
        /\ (s.esced = 2 => s.escVal = 16 * httpdHexVal(val[k - 1]))
        /\ s.esced <= k - 1
    <3>1. s.read = k - 1
      BY <1>7 DEF Decoding
    <3>2. s.read + 1 - s.esced = k - s.esced
      BY <1>1, <1>3, <3>1
    <3>3. t.read = k
      BY <1>1, <1>5, <1>7, <3>1
    <3>4. F[1] = s.out \o F[k - s.esced]
      BY <3>2 DEF Decoding
    <3>5. s.esced >= 1 => val[k - s.esced] = Percent
      BY <3>2 DEF Decoding
    <3>6. s.esced = 2 => s.escVal = 16 * httpdHexVal(val[k - 1])
      BY <3>1 DEF Decoding
    <3>7. s.esced <= k - 1
      BY <3>1 DEF Decoding
    <3> QED BY <3>1, <3>3, <3>4, <3>5, <3>6, <3>7
  <2>2. ASSUME NEW x \in Nat, NEW j \in 1 .. n + 3, F[k - s.esced] = <<x>> \o F[j],
               t.out = Append(s.out, x)
        PROVE  F[1] = t.out \o F[j] /\ Len(t.out) = Len(s.out) + 1
    <3>1. F[j] \in ByteTexts
      BY <2>2 DEF n
    <3>2. Append(s.out, x) \o F[j] = s.out \o (<<x>> \o F[j])
      <4>1. s.out \in Seq(Nat) /\ F[j] \in Seq(Nat) /\ x \in Nat
        BY <3>1, <1>3, <2>2 DEF ByteTexts
      <4>2. PICK p, q : p = s.out /\ q = F[j]
        OBVIOUS
      <4>3. p \in Seq(Nat) /\ q \in Seq(Nat)
        BY <4>1, <4>2
      <4>4. Append(p, x) \o q = p \o (<<x>> \o q)
        BY <4>1, <4>3, AppendBefore
      <4> QED BY <4>2, <4>4
    <3>3. Len(Append(s.out, x)) = Len(s.out) + 1
      <4>1. s.out \in Seq(Nat)
        BY <1>3 DEF ByteTexts
      <4> QED BY <4>1
    <3> QED BY <2>1, <2>2, <3>2, <3>3
  <2>3. \A i \in 1 .. n + 3 : F[i] = PlainFrom(F, val, i)
    BY DEF n
  <2>8. ASSUME F[1] = t.out \o F[k + 1 - t.esced], t.esced \in 0 .. 2, t.esced <= k,
               Len(t.out) <= room,
               t.esced >= 1 => val[k + 1 - t.esced] = Percent,
               t.esced = 2 => t.escVal = 16 * httpdHexVal(val[k]),
               t.esced # 0 => Len(t.out) < room
        PROVE  Decoding(DecodeByte(s, val[k], room + 1), k, F, val, room)
    <3>1. t.read = k /\ k <= k
      BY <1>1, <2>1
    <3>2. Decoding(t, k, F, val, room)
      BY <1>5, <2>8, <3>1, Zenon DEF Decoding
    <3> QED BY <1>2, <3>2 DEF c
  <2>4. CASE s.esced = 0 /\ c # Percent
    <3>1. F[k] = <<IF c = Plus THEN 32 ELSE c>> \o F[k + 1]
      <4>1. k \in 1 .. n + 3 /\ ~ (k > n)
        BY <1>1
      <4>2. F[k] = PlainFrom(F, val, k)
        BY <2>3, <4>1
      <4> QED BY <2>4, <4>1, <4>2, Zenon DEF PlainFrom, c, n
    <3>2. t.esced = 0 /\ t.out = Append(s.out, IF c = Plus THEN 32 ELSE c)
      BY <1>5, <1>7, <2>4
    <3>3. k - s.esced = k /\ (IF c = Plus THEN 32 ELSE c) \in Nat /\ k + 1 \in 1 .. n + 3
      BY <1>1, <2>4
    <3>4. F[1] = t.out \o F[k + 1] /\ Len(t.out) = Len(s.out) + 1
      BY <2>2, <3>1, <3>2, <3>3
    <3> QED BY <1>1, <1>3, <1>5, <1>7, <2>1, <2>8, <3>2, <3>4
  <2>5. CASE s.esced = 0 /\ c = Percent
    <3>1. t.esced = 1 /\ t.out = s.out
      BY <1>5, <1>7, <2>5
    <3>2. k - s.esced = k /\ k + 1 - 1 = k
      BY <1>1, <2>5
    <3>3. F[1] = t.out \o F[k] /\ val[k] = Percent /\ Len(t.out) < room
      BY <1>7, <2>1, <2>5, <3>1, <3>2 DEF c
    <3> QED BY <1>1, <1>5, <1>7, <2>1, <2>8, <3>1, <3>2, <3>3
  <2>6. CASE s.esced = 1
    <3>1. t.esced = 2 /\ t.out = s.out /\ t.escVal = 16 * h
      BY <1>5, <1>7, <2>6
    <3>2. k + 1 - 2 = k - 1 /\ k - s.esced = k - 1
      BY <1>1, <2>6
    <3>3. F[1] = t.out \o F[k - 1] /\ val[k - 1] = Percent /\ Len(t.out) < room
          /\ t.escVal = 16 * httpdHexVal(val[k])
      BY <1>7, <2>1, <2>6, <3>1, <3>2 DEF h, c
    <3>4. 2 <= k
      BY <1>1, <2>1, <2>6
    <3> QED BY <1>1, <1>5, <1>7, <2>1, <2>8, <3>1, <3>2, <3>3, <3>4
  <2>7. CASE s.esced = 2
    <3>1. t.esced = 0 /\ t.out = Append(s.out, s.escVal + h)
      BY <1>5, <1>7, <2>7
    <3>2. k - s.esced = k - 2 /\ (k - 2) + 1 = k - 1 /\ (k - 2) + 2 = k /\ (k - 2) + 3 = k + 1
          /\ k - 2 \in 1 .. n + 3 /\ k + 1 \in 1 .. n + 3 /\ ~ (k - 2 > n) /\ ~ (k > n)
      BY <1>1, <2>1, <2>7
    <3>3. val[k - 2] = Percent
      BY <2>1, <2>7, <3>2
    <3>4. F[k - 2] = <<16 * httpdHexVal(val[k - 1]) + h>> \o F[k + 1]
      BY <2>3, <3>2, <3>3 DEF PlainFrom, h, c, n
    <3>5. s.escVal + h \in Nat /\ s.escVal = 16 * httpdHexVal(val[k - 1])
      BY <1>1, <1>3, <2>1, <2>7
    <3>6. F[1] = t.out \o F[k + 1] /\ Len(t.out) = Len(s.out) + 1
      BY <2>2, <3>1, <3>2, <3>4, <3>5
    <3>7. k + 1 - t.esced = k + 1 /\ t.esced \in 0 .. 2 /\ t.esced <= k
      BY <1>1, <3>1
    <3>8. ~ (t.esced >= 1) /\ ~ (t.esced = 2) /\ ~ (t.esced # 0)
      BY <3>1
    <3>9. Len(t.out) <= room
      BY <1>3, <1>7, <3>6
    <3> QED BY <2>8, <3>6, <3>7, <3>8, <3>9, Zenon
  <2>9. s.esced \in {0, 1, 2}
    BY <1>3
  <2>10. (s.esced = 0 /\ c # Percent) \/ (s.esced = 0 /\ c = Percent) \/ s.esced = 1 \/ s.esced = 2
    BY <2>9
  <2> QED BY <2>4, <2>5, <2>6, <2>7, <2>10, Zenon
<1> QED BY <1>6, <1>7

\* The reference for a % that is cut off, equation by equation.
CutFrom(C, val, i) ==
  IF i > Len(val) THEN FALSE
  ELSE IF val[i] # Percent THEN C[i + 1]
  ELSE i + 2 > Len(val) \/ C[i + 3]

LEMMA EscapeCutIs ==
  ASSUME NEW val \in ByteTexts
  PROVE  \E C \in [1 .. Len(val) + 3 -> BOOLEAN] :
               /\ \A i \in 1 .. Len(val) + 3 : C[i] = CutFrom(C, val, i)
               /\ EscapeCut(val) = C[1]
<1> DEFINE n == Len(val)
           N == n + 3
           H == [p \in (1 .. N) \X UNION { [i + 1 .. N -> BOOLEAN] : i \in 1 .. N } |-> CutFrom(p[2], val, p[1])]
<1>1. n \in Nat /\ N \in Nat
  BY DEF ByteTexts
<1>2. ASSUME NEW i \in 1 .. N, NEW F, \A j \in i + 1 .. N : F[j] \in BOOLEAN
      PROVE  CutFrom(F, val, i) \in BOOLEAN
  <2>1. CASE i > n
    BY <2>1, Zenon DEF CutFrom
  <2>2. CASE ~(i > n)
    <3>1. i + 1 \in i + 1 .. N /\ i + 3 \in i + 1 .. N
      BY <1>1, <2>2
    <3> QED BY <1>2, <2>2, <3>1, Zenon DEF CutFrom
  <2> QED BY <2>1, <2>2
<1> HIDE DEF n
<1>3. ASSUME NEW i \in 1 .. N, NEW g \in [i + 1 .. N -> BOOLEAN]
      PROVE  H[<<i, g>>] = CutFrom(g, val, i)
  <2>1. <<i, g>> \in (1 .. N) \X UNION { [j + 1 .. N -> BOOLEAN] : j \in 1 .. N }
    OBVIOUS
  <2> QED BY <2>1, Zenon
<1>4. LeadsBack(H, N, BOOLEAN)
  <2> SUFFICES ASSUME NEW i \in 1 .. N, NEW g \in [i + 1 .. N -> BOOLEAN]
               PROVE  H[<<i, g>>] \in BOOLEAN
    BY Zenon DEF LeadsBack
  <2>1. \A j \in i + 1 .. N : g[j] \in BOOLEAN
    BY Zenon
  <2>2. CutFrom(g, val, i) \in BOOLEAN
    BY <1>2, <2>1, Zenon
  <2> QED BY <1>3, <2>2, Zenon
<1> HIDE DEF H
<1>5. PICK F : Backwards(F, 1, N, BOOLEAN, H)
  BY <1>1, <1>4, BackExists
<1>6. F \in [1 .. N -> BOOLEAN] /\ \A i \in 1 .. N : F[i] = H[<<i, [j \in i + 1 .. N |-> F[j]]>>]
  BY <1>5 DEF Backwards
<1>7. ASSUME NEW i \in 1 .. N
      PROVE  F[i] = CutFrom(F, val, i)
  <2> DEFINE g == [j \in i + 1 .. N |-> F[j]]
  <2>0. \A j \in i + 1 .. N : j \in 1 .. N
    BY <1>1
  <2>1. g \in [i + 1 .. N -> BOOLEAN] /\ \A j \in i + 1 .. N : g[j] = F[j]
    BY <1>6, <2>0, Zenon
  <2>2. F[i] = CutFrom(g, val, i)
    BY <1>3, <1>6, <2>1, Zenon
  <2> HIDE DEF g
  <2>3. CutFrom(g, val, i) = CutFrom(F, val, i)
    <3>1. ~(i > n) => i + 1 \in i + 1 .. N /\ i + 3 \in i + 1 .. N
      BY <1>1
    <3>2. ~(i > n) => g[i + 1] = F[i + 1] /\ g[i + 3] = F[i + 3]
      BY <2>1, <3>1, Zenon
    <3> QED BY <3>2, Zenon DEF CutFrom, n
  <2> QED BY <2>2, <2>3, Zenon
<1>8. F = [i \in 1 .. N |-> CutFrom(F, val, i)]
  BY <1>6, <1>7, Zenon
<1> DEFINE c == CHOOSE f : f = [i \in 1 .. n + 3 |->
                  IF i > n THEN FALSE
                  ELSE IF val[i] # Percent THEN f[i + 1]
                  ELSE i + 2 > n \/ f[i + 3]]
<1>9. EscapeCut(val) = c[1]
  BY Zenon DEF EscapeCut, n
<1>10. c = [i \in 1 .. N |-> CutFrom(c, val, i)]
  BY <1>8, Zenon DEF CutFrom, n
<1> HIDE DEF c
<1>11. \A i \in 1 .. N : c[i] = CutFrom(c, val, i)
  BY <1>10, Zenon
<1>12. \A i \in 1 .. N : c[i] \in BOOLEAN
  <2> DEFINE T == { i \in 1 .. N : c[i] \in BOOLEAN }
  <2>1. ASSUME NEW i \in 1 .. N, \A j \in i + 1 .. N : j \in T
        PROVE  i \in T
    <3>1. \A j \in i + 1 .. N : c[j] \in BOOLEAN
      BY <2>1, Zenon
    <3>2. CutFrom(c, val, i) \in BOOLEAN
      BY <1>2, <3>1, Zenon
    <3> QED BY <1>11, <3>2, Zenon
  <2> HIDE DEF T
  <2>2. \A i \in 1 .. N : i \in T
    BY <1>1, <2>1, DownFrom
  <2> QED BY <2>2, Zenon DEF T
<1>13. c \in [1 .. N -> BOOLEAN]
  BY <1>10, <1>12, Zenon
<1> QED BY <1>9, <1>11, <1>13, Zenon DEF n

\* A byte of the text does not change whether there is one to come.
CutsRun(C, val) ==
  /\ C \in [1 .. Len(val) + 3 -> BOOLEAN]
  /\ \A i \in 1 .. Len(val) + 3 : C[i] = CutFrom(C, val, i)

CutAt(C, s) == C[s.read + 1 - s.esced]

LEMMA CutKept ==
  ASSUME NEW val \in ByteTexts, NEW room \in Nat, NEW F, NEW C, CutsRun(C, val),
         NEW k \in 1 .. Len(val), NEW s, NEW i, i = k - 1, Decoding(s, i, F, val, room),
         NEW r, r = room + 1, NEW t, t = DecodeByte(s, val[k], r)
  PROVE  CutAt(C, s) = CutAt(C, t)
<1> USE DEF CutsRun, CutAt
<1>1. Len(val) \in Nat /\ val[k] \in Nat /\ room + 1 \in Nat
  BY DEF ByteTexts
<1>2. s \in DecodeStates /\ s.read \in Nat /\ s.esced \in 0 .. 2 /\ Len(s.out) \in Nat
  BY DEF Decoding, DecodeStates, ByteTexts
<1>3. HasRoom(s.out, room + 1) <=> Len(s.out) < room
  BY <1>2 DEF HasRoom
<1>4. /\ ~ (Len(s.out) < room) => t = s
      /\ Len(s.out) < room =>
           /\ t.read = s.read + 1
           /\ s.esced = 1 => t.esced = 2
           /\ s.esced = 2 => t.esced = 0
           /\ s.esced = 0 /\ val[k] = Percent => t.esced = 1
           /\ s.esced = 0 /\ val[k] # Percent => t.esced = 0
  <2>1. PICK c, q : c = val[k] /\ q = room + 1
    OBVIOUS
  <2>2. c \in Nat /\ q \in Nat /\ t = DecodeByte(s, c, q)
    BY <1>1, <2>1
  <2>3. /\ ~ HasRoom(s.out, q) => t = s
        /\ HasRoom(s.out, q) =>
              /\ t.read = s.read + 1
              /\ s.esced = 1 => t.esced = 2
              /\ s.esced = 2 => t.esced = 0
              /\ s.esced = 0 /\ c = Percent => t.esced = 1
              /\ s.esced = 0 /\ c # Percent => t.esced = 0
    <3>1. s \in DecodeStates
      BY <1>2
    <3> DEFINE u == DecodeByte(s, c, q)
    <3>2. /\ ~ HasRoom(s.out, q) => u = s
          /\ HasRoom(s.out, q) =>
                /\ u.read = s.read + 1
                /\ s.esced = 1 => u.esced = 2
                /\ s.esced = 2 => u.esced = 0
                /\ s.esced = 0 /\ c = Percent => u.esced = 1
                /\ s.esced = 0 /\ c # Percent => u.esced = 0
      BY <2>2, <3>1, DecodeByteIs
    <3> HIDE DEF u
    <3>3. t = u
      BY <2>2 DEF u
    <3> QED BY <3>2, <3>3
  <2> QED BY <1>3, <2>1, <2>3
<1>5. CASE ~ (Len(s.out) < room)
  BY <1>4, <1>5
<1>6. CASE Len(s.out) < room
  <2>1. s.read = k - 1 /\ t.read = k /\ s.esced <= k - 1
    BY <1>1, <1>2, <1>4, <1>6 DEF Decoding
  <2>2. CASE s.esced = 0 /\ val[k] # Percent
    <3>1. s.read + 1 - s.esced = k /\ t.read + 1 - t.esced = k + 1 /\ k \in 1 .. Len(val) + 3 /\ ~ (k > Len(val))
      BY <1>1, <1>4, <1>6, <2>1, <2>2
    <3>2. C[k] = CutFrom(C, val, k)
      BY <3>1
    <3> QED BY <2>2, <3>1, <3>2, Zenon DEF CutFrom
  <2>3. CASE s.esced = 0 /\ val[k] = Percent
    BY <1>1, <1>4, <1>6, <2>1, <2>3
  <2>4. CASE s.esced = 1
    BY <1>1, <1>4, <1>6, <2>1, <2>4
  <2>5. CASE s.esced = 2
    <3>1. s.read + 1 - s.esced = k - 2 /\ t.read + 1 - t.esced = k + 1 /\ (k - 2) + 3 = k + 1
          /\ k - 2 \in 1 .. Len(val) + 3 /\ ~ (k - 2 > Len(val)) /\ ~ ((k - 2) + 2 > Len(val))
          /\ s.esced >= 1 /\ k + 1 \in 1 .. Len(val) + 3
      BY <1>1, <1>4, <1>6, <2>1, <2>5
    <3>2. val[k - 2] = Percent
      BY <3>1 DEF Decoding
    <3>3. C[k - 2] = CutFrom(C, val, k - 2) /\ C[k + 1] = CutFrom(C, val, k + 1)
      BY <3>1
    <3>4. C[k - 2] = (FALSE \/ C[k + 1])
      BY <3>1, <3>2, <3>3, Zenon DEF CutFrom
    <3>5. C[k + 1] \in BOOLEAN
      BY <3>1, Zenon
    <3> QED BY <3>1, <3>4, <3>5, Zenon
  <2>6. s.esced = 0 \/ s.esced = 1 \/ s.esced = 2
    BY <1>2
  <2> QED BY <2>2, <2>3, <2>4, <2>5, <2>6
<1> QED BY <1>5, <1>6

\* Decoding over any text and any buffer gives as much of the reference as fits.
LEMMA DecodeGivesPlainly ==
  ASSUME NEW val \in ByteTexts, NEW retLen \in Nat \ {0}
  PROVE  LET r == httpdUrlDecode(val, retLen)
             full == Plainly(val)
         IN  /\ full \in ByteTexts /\ r.out \in ByteTexts
             /\ r.out = SubSeq(full, 1, Min2(Len(full), retLen - 1))
             /\ r.ok \in {0, 1}
             /\ r.ok = 1 <=> Len(full) < retLen - 1 \/ (Len(full) = retLen - 1 /\ ~EscapeCut(val))
<1> DEFINE n == Len(val)
           full == Plainly(val)
           room == retLen - 1
<1>1. room \in Nat /\ room + 1 = retLen /\ n \in Nat /\ \A k \in 1 .. n : val[k] \in Nat
  BY DEF ByteTexts
<1>2. PICK F \in [1 .. Len(val) + 3 -> ByteTexts] :
        /\ \A i \in 1 .. Len(val) + 3 : F[i] = PlainFrom(F, val, i)
        /\ Plainly(val) = F[1]
  BY PlainlyIs
<1>3. PICK st \in [0 .. Len(val) -> DecodeStates] :
        /\ st[0] = [read |-> 0, esced |-> 0, escVal |-> 0, out |-> <<>>]
        /\ \A k \in 1 .. Len(val) : st[k] = DecodeByte(st[k - 1], val[k], retLen)
        /\ httpdUrlDecode(val, retLen) =
             [ok |-> IF st[Len(val)].read = Len(val) THEN 1 ELSE 0, out |-> st[Len(val)].out]
  BY DecodeRuns
<1> HIDE DEF n, room
<1>4. Decoding(st[0], 0, F, val, room)
  <2>1. F[1] \in ByteTexts
    BY <1>1, <1>2 DEF n
  <2>2. <<>> \o F[1] = F[1] /\ Len(<<>>) = 0 /\ <<>> \in ByteTexts
    BY <2>1, ConcatEmptySeq DEF ByteTexts
  <2>3. st[0] \in DecodeStates
    BY <1>1, <1>3 DEF n
  <2>4. st[0].read = 0 /\ st[0].esced = 0 /\ st[0].out = <<>> /\ 0 + 1 - 0 = 1
    BY <1>3
  <2> QED BY <1>1, <2>2, <2>3, <2>4 DEF Decoding
<1>5. \A k \in 0 .. n : Decoding(st[k], k, F, val, room)
  <2> DEFINE T == { k \in 0 .. n : Decoding(st[k], k, F, val, room) }
  <2>1. ASSUME NEW k \in 0 .. n - 1, k \in T
        PROVE  k + 1 \in T
    <3>1. k + 1 \in 1 .. Len(val) /\ (k + 1) - 1 = k /\ k + 1 \in 0 .. n
      BY <1>1 DEF n
    <3>2. Decoding(st[k], (k + 1) - 1, F, val, room)
      BY <2>1, <3>1
    <3>3. st[k + 1] = DecodeByte(st[k], val[k + 1], room + 1)
      BY <1>1, <1>3, <3>1
    <3>4. Decoding(DecodeByte(st[k], val[k + 1], room + 1), k + 1, F, val, room)
      BY <1>1, <1>2, <3>1, <3>2, DecodingKept
    <3> QED BY <3>1, <3>3, <3>4
  <2>2. 0 \in T
    BY <1>1, <1>4
  <2> HIDE DEF T
  <2>3. \A k \in 0 .. n : k \in T
    BY <1>1, <2>1, <2>2, UpTo
  <2> QED BY <2>3 DEF T
<1>20. PICK C \in [1 .. Len(val) + 3 -> BOOLEAN] :
         /\ \A i \in 1 .. Len(val) + 3 : C[i] = CutFrom(C, val, i)
         /\ EscapeCut(val) = C[1]
  BY EscapeCutIs
<1>21. \A k \in 0 .. n : C[1] = C[st[k].read + 1 - st[k].esced]
  <2> DEFINE T == { k \in 0 .. n : C[1] = C[st[k].read + 1 - st[k].esced] }
  <2>1. ASSUME NEW k \in 0 .. n - 1, k \in T
        PROVE  k + 1 \in T
    <3>1. k + 1 \in 1 .. Len(val) /\ (k + 1) - 1 = k /\ k + 1 \in 0 .. n /\ k \in 0 .. n
      BY <1>1 DEF n
    <3>2. PICK j, u, t : j = k + 1 /\ u = st[k] /\ t = st[k + 1]
      OBVIOUS
    <3>3. j \in 1 .. Len(val) /\ j - 1 = k /\ Decoding(u, j - 1, F, val, room)
      BY <1>5, <3>1, <3>2
    <3>4. t = DecodeByte(u, val[j], room + 1)
      BY <1>1, <1>3, <3>1, <3>2
    <3>5. CutAt(C, u) = CutAt(C, t)
      <4>1. room \in Nat
        BY <1>1
      <4>2. CutsRun(C, val)
        BY <1>20 DEF CutsRun
      <4>3. PICK i, x : i = j - 1 /\ x = room + 1
        OBVIOUS
      <4>4. j \in 1 .. Len(val) /\ Decoding(u, i, F, val, room)
        BY <3>3, <4>3, Zenon
      <4>5. t = DecodeByte(u, val[j], x)
        BY <3>4, <4>3, Zenon
      <4> QED BY <4>1, <4>2, <4>3, <4>4, <4>5, CutKept
    <3>6. C[1] = C[u.read + 1 - u.esced]
      BY <2>1, <3>2
    <3> QED BY <3>1, <3>2, <3>5, <3>6 DEF CutAt
  <2>2. 0 \in T
    <3>1. st[0].read = 0 /\ st[0].esced = 0
      BY <1>3
    <3>2. st[0].read + 1 - st[0].esced = 1 /\ 0 \in 0 .. n
      BY <1>1, <3>1
    <3> QED BY <3>2
  <2> HIDE DEF T
  <2>3. \A k \in 0 .. n : k \in T
    BY <1>1, <2>1, <2>2, UpTo
  <2> QED BY <2>3 DEF T
<1>6. PICK s \in {st[n]} : s = st[n]
  OBVIOUS
<1>7. Decoding(s, n, F, val, room) /\ s \in DecodeStates
  <2>1. n \in 0 .. n
    BY <1>1
  <2>2. Decoding(s, n, F, val, room)
    BY <1>5, <1>6, <2>1
  <2> QED BY <2>2 DEF Decoding
<1>8. s.read \in Nat /\ s.esced \in 0 .. 2 /\ s.out \in ByteTexts /\ Len(s.out) \in Nat /\ s.read <= n
  BY <1>7 DEF Decoding, DecodeStates, ByteTexts
<1>9. httpdUrlDecode(val, retLen) = [ok |-> IF s.read = n THEN 1 ELSE 0, out |-> s.out]
  BY <1>3, <1>6 DEF n
<1>10. F[s.read + 1 - s.esced] \in ByteTexts /\ F[1] \in ByteTexts /\ F[1] = s.out \o F[s.read + 1 - s.esced]
  <2>1. s.read + 1 - s.esced \in 1 .. n + 3 /\ 1 \in 1 .. n + 3
    BY <1>1, <1>7, <1>8 DEF Decoding
  <2> QED BY <1>2, <1>7, <2>1 DEF Decoding, n
<1>11. SubSeq(F[1], 1, Len(s.out)) = s.out /\ Len(F[1]) = Len(s.out) + Len(F[s.read + 1 - s.esced])
  <2> DEFINE g == F[s.read + 1 - s.esced]
  <2>1. s.out \in Seq(Nat) /\ g \in Seq(Nat)
    BY <1>8, <1>10 DEF ByteTexts
  <2>2. F[1] = s.out \o g
    BY <1>10
  <2> HIDE DEF g
  <2>3. SubSeq(s.out \o g, 1, Len(s.out)) = s.out
    BY <2>1, BeginsWith
  <2>4. Len(s.out \o g) = Len(s.out) + Len(g)
    BY <2>1
  <2> QED BY <2>2, <2>3, <2>4 DEF g
<1>12. Len(F[s.read + 1 - s.esced]) \in Nat /\ Len(F[1]) \in Nat
  <2>1. \A x \in ByteTexts : Len(x) \in Nat
    BY DEF ByteTexts
  <2> HIDE DEF full
  <2> QED BY <1>10, <2>1
<1>13. s.read = n => F[s.read + 1 - s.esced] = <<>>
  <2> SUFFICES ASSUME s.read = n PROVE F[n + 1 - s.esced] = <<>>
    OBVIOUS
  <2>1. n + 1 - s.esced \in 1 .. n + 3
    BY <1>1, <1>7, <1>8 DEF Decoding
  <2>2. F[n + 1 - s.esced] = PlainFrom(F, val, n + 1 - s.esced)
    BY <1>2, <2>1 DEF n
  <2>3. n + 1 - s.esced > n \/ (val[n + 1 - s.esced] = Percent /\ (n + 1 - s.esced) + 2 > n)
    BY <1>1, <1>7, <1>8 DEF Decoding
  <2> QED BY <2>2, <2>3 DEF PlainFrom, n
<1> DEFINE r == httpdUrlDecode(val, retLen)
<1>17. r.out = s.out /\ r.ok = (IF s.read = n THEN 1 ELSE 0)
  BY <1>9
<1> HIDE DEF r, full
<1>22. EscapeCut(val) = C[s.read + 1 - s.esced]
  <2>1. n \in 0 .. n
    BY <1>1
  <2> QED BY <1>6, <1>20, <1>21, <2>1
<1>23. Len(s.out) = room /\ Len(F[1]) = room => (s.read = n <=> ~EscapeCut(val))
  <2> SUFFICES ASSUME Len(s.out) = room, Len(F[1]) = room
               PROVE  s.read = n <=> ~EscapeCut(val)
    OBVIOUS
  <2>1. s.esced = 0
    BY <1>1, <1>7 DEF Decoding
  <2>2. PICK q : q = s.read + 1
    OBVIOUS
  <2>3. q \in 1 .. n + 3 /\ q <= n + 1 /\ s.read + 1 - s.esced = q /\ (s.read = n <=> q > n)
    BY <1>1, <1>8, <2>1, <2>2
  <2>4. F[q] \in ByteTexts /\ Len(F[q]) = 0
    <3>1. PICK g : g = F[q]
      OBVIOUS
    <3>2. F[s.read + 1 - s.esced] = g
      BY <2>3, <3>1, Zenon
    <3>3. g \in ByteTexts /\ Len(F[1]) = Len(s.out) + Len(g) /\ Len(g) \in Nat
      BY <1>10, <1>11, <1>12, <3>2, Zenon
    <3>4. Len(g) = 0
      BY <1>1, <3>3
    <3> QED BY <3>1, <3>3, <3>4
  <2>5. F[q] = PlainFrom(F, val, q) /\ C[q] = CutFrom(C, val, q)
    BY <1>2, <1>20, <2>3 DEF n
  <2>6. CASE q > n
    <3>1. C[q] = FALSE
      BY <2>5, <2>6, Zenon DEF CutFrom, n
    <3> QED BY <1>22, <2>3, <2>6, <3>1
  <2>7. CASE ~(q > n)
    <3>1. \A x \in Nat, y \in ByteTexts : Len(<<x>> \o y) > 0
      <4> SUFFICES ASSUME NEW x \in Nat, NEW y \in Seq(Nat) PROVE Len(<<x>> \o y) > 0
        BY DEF ByteTexts
      <4>1. Len(<<x>> \o y) = Len(<<x>>) + Len(y) /\ Len(<<x>>) = 1 /\ Len(y) \in Nat
        OBVIOUS
      <4> QED BY <4>1
    <3>2. q \in 1 .. n /\ q + 1 \in 1 .. n + 3 /\ q + 3 \in 1 .. n + 3
      BY <1>1, <2>3, <2>7
    <3>3. F[q + 1] \in ByteTexts /\ F[q + 3] \in ByteTexts /\ val[q] \in Nat
      BY <1>1, <1>2, <3>2 DEF n
    <3>4. val[q] = Percent
      <4> SUFFICES ASSUME val[q] # Percent PROVE FALSE
        OBVIOUS
      <4>1. F[q] = <<IF val[q] = Plus THEN 32 ELSE val[q]>> \o F[q + 1]
        BY <2>5, <2>7, Zenon DEF PlainFrom, n
      <4>2. PICK x : x = IF val[q] = Plus THEN 32 ELSE val[q]
        OBVIOUS
      <4>3. x \in Nat /\ F[q] = <<x>> \o F[q + 1]
        BY <3>3, <4>1, <4>2
      <4>4. Len(F[q]) > 0
        BY <3>1, <3>3, <4>3
      <4> QED BY <2>4, <4>4
    <3>5. q + 2 > n
      <4> SUFFICES ASSUME ~(q + 2 > n) PROVE FALSE
        OBVIOUS
      <4>1. F[q] = <<16 * httpdHexVal(val[q + 1]) + httpdHexVal(val[q + 2])>> \o F[q + 3]
        BY <2>5, <2>7, <3>4, Zenon DEF PlainFrom, n
      <4>2. val[q + 1] \in Nat /\ val[q + 2] \in Nat
        BY <1>1, <3>2
      <4>3. PICK x : x = 16 * httpdHexVal(val[q + 1]) + httpdHexVal(val[q + 2])
        OBVIOUS
      <4>4. httpdHexVal(val[q + 1]) \in Nat /\ httpdHexVal(val[q + 2]) \in Nat
        BY <4>2, HexValIs
      <4>5. x \in Nat /\ F[q] = <<x>> \o F[q + 3]
        BY <4>1, <4>3, <4>4
      <4>6. Len(F[q]) > 0
        BY <3>1, <3>3, <4>5
      <4> QED BY <2>4, <4>6
    <3>6. C[q] = (TRUE \/ C[q + 3])
      BY <2>5, <2>7, <3>4, <3>5, Zenon DEF CutFrom, n
    <3> QED BY <1>22, <2>3, <2>7, <3>6, Zenon
  <2> QED BY <2>6, <2>7
<1>16. SUFFICES /\ s.out = SubSeq(F[1], 1, Min2(Len(F[1]), room))
                /\ r.ok \in {0, 1}
                /\ r.ok = 1 <=> Len(F[1]) < room \/ (Len(F[1]) = room /\ ~EscapeCut(val))
  <2>1. full = F[1] /\ F[1] \in ByteTexts /\ s.out \in ByteTexts
    BY <1>2, <1>8, <1>10 DEF full
  <2> QED BY <1>17, <2>1 DEF r, full, room
<1>14. CASE Len(s.out) < room
  <2>1. s.read = n
    BY <1>7, <1>14 DEF Decoding
  <2>2. Len(F[s.read + 1 - s.esced]) = 0
    BY <2>1, <1>13
  <2>3. Len(F[1]) = Len(s.out) /\ Min2(Len(F[1]), room) = Len(s.out)
    BY <1>1, <1>8, <1>11, <1>14, <2>2 DEF Min2
  <2>4. r.ok = 1
    BY <1>17, <2>1
  <2>5. Len(F[1]) < room
    BY <1>14, <2>3
  <2>6. s.out = SubSeq(F[1], 1, Min2(Len(F[1]), room))
    BY <1>11, <2>3
  <2> QED BY <2>4, <2>5, <2>6
<1>15. CASE ~ (Len(s.out) < room)
  <2>1. Len(s.out) = room
    BY <1>1, <1>7, <1>8, <1>15 DEF Decoding
  <2>2. Min2(Len(F[1]), room) = Len(s.out)
    BY <1>1, <1>8, <1>11, <1>12, <2>1 DEF Min2
  <2>3. Len(F[1]) > room => s.read # n
    <3>1. Len(<<>>) = 0
      OBVIOUS
    <3> QED BY <1>1, <1>8, <1>11, <1>13, <2>1, <3>1
  <2>4. Len(F[1]) > room => r.ok = 0
    BY <1>17, <2>3
  <2>5. ~ (Len(F[1]) < room)
    BY <1>1, <1>11, <1>12, <2>1
  <2>6. Len(F[1]) = room => (r.ok = 1 <=> ~EscapeCut(val))
    BY <1>17, <1>23, <2>1
  <2>7. Len(F[1]) = room \/ Len(F[1]) > room
    BY <1>1, <1>12, <2>5
  <2>8. r.ok \in {0, 1}
    BY <1>17
  <2>9. ~(Len(F[1]) = room) \/ ~(Len(F[1]) > room)
    BY <1>1, <1>12
  <2>10. r.ok = 1 <=> Len(F[1]) < room \/ (Len(F[1]) = room /\ ~EscapeCut(val))
    BY <2>4, <2>5, <2>6, <2>7, <2>9
  <2> QED BY <1>11, <2>2, <2>8, <2>10
<1> QED BY <1>14, <1>15

DecodedInv == xcall \in Calls /\ (xresult = NoResult \/ xresult = Result(xcall))

\* A call that is done has done that.
LEMMA CallsDecode == DecodedInv => UrlDecoded
<1> SUFFICES ASSUME DecodedInv, Called("decode") PROVE UrlDecoded
  BY DEF UrlDecoded
<1>1. xcall \in Calls /\ xcall.fn = "decode" /\ xresult = Result(xcall)
  BY DEF DecodedInv, Called
<1>2. xresult = httpdUrlDecode(xcall.in, xcall.room)
  BY <1>1 DEF Result
<1>3. xcall.in \in ByteTexts /\ xcall.room \in Nat \ {0}
  BY <1>1, CallsTyped
<1> QED BY <1>2, <1>3, DecodeGivesPlainly, Zenon DEF UrlDecoded

\* httpdUrlDecode, for any texts and any sizes of buffer: what it writes is the
\* beginning of the decoded text, as much as fits, and it says whether that was
\* all; a % without its digits that is left when the buffer is full counts as
\* text that did not fit.
THEOREM DecodedWhole == TextSpec => []UrlDecoded
<1>1. TextInit => DecodedInv
  BY DEF TextInit, DecodedInv
<1>2. DecodedInv /\ [TextNext]_textVars => DecodedInv'
  BY DEF DecodedInv, TextNext, textVars
<1>3. DecodedInv => UrlDecoded
  BY CallsDecode
<1> QED BY <1>1, <1>2, <1>3, PTL DEF TextSpec

\* The header lines of a request, and what was copied of the values so far.
HeaderLines(names) == Seq(names \X ByteTexts)
HeaderCopies == [ok : 0 .. 1, out : ByteTexts]

\* What is copied of a line.
HeaderCopy(acc, l, header, retLen) ==
  IF l[1] # header THEN acc
  ELSE LET room == retLen - Len(acc.out) - 1 IN
       [ok |-> 1, out |-> acc.out \o SubSeq(l[2], 1, IF Len(l[2]) < room THEN Len(l[2]) ELSE room)]

\* As much of a text as fits.
Fitting(s, room) == SubSeq(s, 1, Min2(Len(s), room))

LEMMA FittingIs ==
  ASSUME NEW S, NEW s \in Seq(S), NEW room \in Nat
  PROVE  /\ Fitting(s, room) \in Seq(S)
         /\ Len(Fitting(s, room)) = Min2(Len(s), room)
         /\ \A k \in 1 .. Min2(Len(s), room) : Fitting(s, room)[k] = s[k]
<1> DEFINE m == Min2(Len(s), room)
<1>1. m \in Nat /\ m <= Len(s) /\ Len(s) \in Nat /\ m <= room
  BY DEF Min2
<1>2. \A k \in 1 .. m : s[k] \in S
  BY <1>1
<1> HIDE DEF m
<1>3. /\ SubSeq(s, 1, m) \in Seq(S) /\ Len(SubSeq(s, 1, m)) = IF 1 <= m THEN m - 1 + 1 ELSE 0
      /\ \A k \in 1 .. m - 1 + 1 : SubSeq(s, 1, m)[k] = s[1 + k - 1]
  BY <1>1, <1>2, SubSeqProperties
<1>4. m - 1 + 1 = m /\ \A k \in 1 .. m : 1 + k - 1 = k
  BY <1>1
<1>5. Len(SubSeq(s, 1, m)) = m /\ \A k \in 1 .. m : SubSeq(s, 1, m)[k] = s[k]
  BY <1>1, <1>3, <1>4
<1> QED BY <1>3, <1>5 DEF Fitting, m

LEMMA Min2Split ==
  ASSUME NEW p \in Nat, NEW q \in Nat, NEW r \in Nat
  PROVE  /\ Min2(p + q, r) = Min2(p, r) + Min2(q, r - Min2(p, r))
         /\ Min2(p, r) \in Nat /\ Min2(p, r) <= p /\ Min2(p, r) <= r
  BY DEF Min2

\* What fits of two texts is what fits of the first, and of the second what fits
\* behind that.
LEMMA FittingJoined ==
  ASSUME NEW S, NEW s \in Seq(S), NEW t \in Seq(S), NEW room \in Nat
  PROVE  Fitting(s \o t, room) = Fitting(s, room) \o Fitting(t, room - Len(Fitting(s, room)))
<1> DEFINE m == Min2(Len(s), room)
           left == room - m
           a == Fitting(s, room)
           b == Fitting(t, left)
           u == s \o t
           w == Fitting(u, room)
<1>1. m \in Nat /\ left \in Nat /\ Len(s) \in Nat /\ Len(t) \in Nat /\ m <= Len(s)
      /\ (m = Len(s) \/ (m = room /\ left = 0))
  BY DEF Min2
<1>2. a \in Seq(S) /\ Len(a) = m /\ \A k \in 1 .. m : a[k] = s[k]
  BY FittingIs
<1>3. b \in Seq(S) /\ Len(b) = Min2(Len(t), left) /\ \A k \in 1 .. Min2(Len(t), left) : b[k] = t[k]
  <2> HIDE DEF left
  <2> QED BY <1>1, FittingIs
<1>4. u \in Seq(S) /\ Len(u) = Len(s) + Len(t)
      /\ \A k \in 1 .. Len(s) + Len(t) : u[k] = IF k <= Len(s) THEN s[k] ELSE t[k - Len(s)]
  BY ConcatProperties
<1> HIDE DEF a, b, u
<1>5. w \in Seq(S) /\ Len(w) = Min2(Len(u), room) /\ \A k \in 1 .. Min2(Len(u), room) : w[k] = u[k]
  BY <1>4, FittingIs
<1> HIDE DEF w
<1>6. a \o b \in Seq(S) /\ Len(a \o b) = Len(a) + Len(b)
      /\ \A k \in 1 .. Len(a) + Len(b) : (a \o b)[k] = IF k <= Len(a) THEN a[k] ELSE b[k - Len(a)]
  BY <1>2, <1>3, ConcatProperties
<1>7. Len(w) = Len(a) + Len(b)
  <2>1. Min2(Len(s) + Len(t), room) = m + Min2(Len(t), left)
    BY <1>1, Min2Split
  <2> HIDE DEF m, left
  <2> QED BY <1>2, <1>3, <1>4, <1>5, <2>1
<1>8. ASSUME NEW k \in 1 .. Len(w)
      PROVE  w[k] = (a \o b)[k]
  <2>1. k \in 1 .. Min2(Len(u), room) /\ k \in 1 .. Len(s) + Len(t) /\ w[k] = u[k]
    BY <1>1, <1>4, <1>5 DEF Min2
  <2>2. CASE k <= m
    <3>1. u[k] = s[k]
      BY <1>1, <1>4, <2>1, <2>2
    <3>2. (a \o b)[k] = s[k]
      BY <1>1, <1>2, <1>6, <1>7, <2>1, <2>2
    <3> QED BY <2>1, <3>1, <3>2
  <2>3. CASE ~ (k <= m)
    <3>1. m = Len(s)
      BY <1>1, <1>5, <2>1, <2>3 DEF Min2
    <3>2. k - m \in 1 .. Min2(Len(t), left)
      BY <1>1, <1>2, <1>3, <1>7, <2>3
    <3>3. (a \o b)[k] = t[k - m]
      BY <1>1, <1>2, <1>3, <1>6, <1>7, <2>3, <3>2
    <3>4. u[k] = t[k - m]
      BY <1>1, <1>4, <2>1, <2>3, <3>1
    <3> QED BY <2>1, <3>3, <3>4
  <2> QED BY <2>2, <2>3
<1>9. w = a \o b
  BY <1>5, <1>6, <1>7, <1>8, SeqEqual
<1> QED BY <1>2, <1>9 DEF w, a, b, u, left

LEMMA HeaderCopyIs ==
  ASSUME NEW N, NEW acc \in HeaderCopies, NEW l \in N \X ByteTexts, NEW header, NEW retLen \in Nat,
         Len(acc.out) <= retLen - 1
  PROVE  /\ HeaderCopy(acc, l, header, retLen) \in HeaderCopies
         /\ Len(HeaderCopy(acc, l, header, retLen).out) <= retLen - 1
         /\ l[1] # header => HeaderCopy(acc, l, header, retLen) = acc
         /\ l[1] = header =>
              /\ HeaderCopy(acc, l, header, retLen).ok = 1
              /\ HeaderCopy(acc, l, header, retLen).out = acc.out \o Fitting(l[2], retLen - 1 - Len(acc.out))
<1> DEFINE room == retLen - Len(acc.out) - 1
           v == l[2]
           o == acc.out
<1>1. v \in Seq(Nat) /\ o \in Seq(Nat) /\ Len(v) \in Nat /\ Len(o) \in Nat /\ room \in Nat
  BY DEF HeaderCopies, ByteTexts
<1>2. room = retLen - 1 - Len(acc.out) /\ (IF Len(v) < room THEN Len(v) ELSE room) = Min2(Len(v), room)
  BY <1>1 DEF Min2
<1>3. CASE l[1] # header
  BY <1>3 DEF HeaderCopy
<1>4. CASE l[1] = header
  <2>1. HeaderCopy(acc, l, header, retLen) = [ok |-> 1, out |-> o \o Fitting(v, room)]
    <3>1. HeaderCopy(acc, l, header, retLen) =
            [ok |-> 1, out |-> o \o SubSeq(v, 1, IF Len(v) < room THEN Len(v) ELSE room)]
      BY <1>4 DEF HeaderCopy
    <3> HIDE DEF room, v, o
    <3> QED BY <1>2, <3>1 DEF Fitting
  <2> HIDE DEF v, o
  <2>2. Fitting(v, room) \in Seq(Nat) /\ Len(Fitting(v, room)) = Min2(Len(v), room)
    <3> HIDE DEF room
    <3> QED BY <1>1, FittingIs
  <2>3. o \o Fitting(v, room) \in Seq(Nat) /\ Len(o \o Fitting(v, room)) = Len(o) + Min2(Len(v), room)
    <3> DEFINE f == Fitting(v, room)
    <3>1. f \in Seq(Nat) /\ Len(f) = Min2(Len(v), room)
      BY <2>2
    <3> HIDE DEF f, room
    <3>2. o \o f \in Seq(Nat) /\ Len(o \o f) = Len(o) + Len(f)
      BY <1>1, <3>1, ConcatProperties
    <3> QED BY <3>1, <3>2 DEF f
  <2>4. Len(o) + Min2(Len(v), room) <= retLen - 1
    <3>1. Min2(Len(v), room) <= room /\ Min2(Len(v), room) \in Nat
      <4> HIDE DEF room
      <4> QED BY <1>1, Min2Split
    <3>2. room = retLen - Len(o) - 1
      BY DEF o
    <3> HIDE DEF room
    <3> QED BY <1>1, <3>1, <3>2
  <2>5. [ok |-> 1, out |-> o \o Fitting(v, room)] \in HeaderCopies
    BY <2>3 DEF HeaderCopies, ByteTexts
  <2> HIDE DEF room
  <2> DEFINE x == o \o Fitting(v, room)
             r == [ok |-> 1, out |-> x]
  <2>6. r.ok = 1 /\ r.out = x
    OBVIOUS
  <2>7. HeaderCopy(acc, l, header, retLen) = r /\ r \in HeaderCopies /\ Len(x) <= retLen - 1
    BY <2>1, <2>3, <2>4, <2>5
  <2>8. x = acc.out \o Fitting(l[2], retLen - 1 - Len(acc.out))
    BY <1>2 DEF v, o
  <2> HIDE DEF x, r
  <2> QED BY <1>4, <2>6, <2>7, <2>8
<1> QED BY <1>3, <1>4

\* The copying over the lines of a request.
HeaderRun(st, lines, header, retLen) ==
  /\ st \in [0 .. Len(lines) -> HeaderCopies]
  /\ st[0] = [ok |-> 0, out |-> <<>>]
  /\ \A k \in 1 .. Len(lines) :
       /\ Len(st[k - 1].out) <= retLen - 1
       /\ st[k] = HeaderCopy(st[k - 1], lines[k], header, retLen)
  /\ httpdGetHeader(lines, header, retLen) = st[Len(lines)]

LEMMA HeaderRuns ==
  ASSUME NEW N, NEW lines \in HeaderLines(N), NEW header, NEW retLen \in Nat \ {0}
  PROVE  \E st : HeaderRun(st, lines, header, retLen)
<1> DEFINE n == Len(lines)
           S == { acc \in HeaderCopies : Len(acc.out) <= retLen - 1 }
           b == [ok |-> 0, out |-> <<>>]
           G == [p \in (1 .. n) \X S |-> HeaderCopy(p[2], lines[p[1]], header, retLen)]
           c == CHOOSE iter : iter = [s \in SUBSET (DOMAIN lines) |->
                  IF s = {} THEN b ELSE HeaderCopy(iter[s \ {Max(s)}], lines[Max(s)], header, retLen)]
           fin == c[DOMAIN lines]
<1>1. n \in Nat /\ DOMAIN lines = 1 .. n /\ \A k \in 1 .. n : lines[k] \in N \X ByteTexts
  BY DEF HeaderLines
<1>2. httpdGetHeader(lines, header, retLen) = fin
  BY Zenon DEF httpdGetHeader, FoldLeft, MapThenFoldSet, HeaderCopy
<1> HIDE DEF n
<1>3. b \in S
  <2>1. b.ok = 0 /\ b.out = <<>> /\ <<>> \in ByteTexts /\ Len(<<>>) = 0
    BY DEF ByteTexts
  <2>2. b \in HeaderCopies
    BY <2>1 DEF HeaderCopies
  <2> HIDE DEF b
  <2> QED BY <2>1, <2>2
<1> HIDE DEF b
<1>4. ASSUME NEW k \in 1 .. n, NEW s \in S
      PROVE  G[<<k, s>>] = HeaderCopy(s, lines[k], header, retLen) /\ G[<<k, s>>] \in S
  <2>1. HeaderCopy(s, lines[k], header, retLen) \in S
    BY <1>1, HeaderCopyIs
  <2>2. <<k, s>> \in (1 .. n) \X S
    OBVIOUS
  <2> HIDE DEF S
  <2> QED BY <2>1, <2>2
<1> HIDE DEF S
<1> HIDE DEF G
<1>5. Leads(G, n, S)
  BY <1>4 DEF Leads
<1>6. PICK h \in [SUBSET (1 .. n) -> S] : Folds1(h, n, b, G)
  BY <1>1, <1>3, <1>5, FoldExists
<1> DEFINE D(f) == [s \in SUBSET (1 .. n) |->
                     IF s = {} THEN b ELSE HeaderCopy(f[s \ {Max(s)}], lines[Max(s)], header, retLen)]
<1>7. h = D(h)
  <2> DEFINE e == [s \in SUBSET (1 .. n) |-> IF s = {} THEN b ELSE G[<<Max(s), h[s \ {Max(s)}]>>]]
  <2>1. h = e
    BY <1>6, Zenon DEF Folds1
  <2>2. ASSUME NEW s \in SUBSET (1 .. n), s # {}
        PROVE  G[<<Max(s), h[s \ {Max(s)}]>>] = HeaderCopy(h[s \ {Max(s)}], lines[Max(s)], header, retLen)
    <3>1. Max(s) \in 1 .. n
      BY <1>1, <2>2, MaxIs
    <3>2. h[s \ {Max(s)}] \in S
      BY <1>6
    <3> QED BY <1>4, <3>1, <3>2
  <2>3. e = D(h)
    BY <2>2
  <2> QED BY <2>1, <2>3, Zenon
<1>8. c = D(c)
  BY <1>1, <1>7, Zenon
<1>9. \A s \in SUBSET (1 .. n) :
        c[s] = IF s = {} THEN b ELSE HeaderCopy(c[s \ {Max(s)}], lines[Max(s)], header, retLen)
  <2> DEFINE d == D(c)
  <2>1. \A s \in SUBSET (1 .. n) :
          d[s] = IF s = {} THEN b ELSE HeaderCopy(c[s \ {Max(s)}], lines[Max(s)], header, retLen)
    BY Zenon
  <2>2. c = d
    BY <1>8, Zenon
  <2> HIDE DEF d, c
  <2> QED BY <2>1, <2>2, Zenon
<1> HIDE DEF c
<1>10. c[{}] = b
  BY <1>9
<1>11. ASSUME NEW s \in SUBSET (1 .. n), s # {}, c[s \ {Max(s)}] \in S
       PROVE  c[s] = G[<<Max(s), c[s \ {Max(s)}]>>]
  <2>1. Max(s) \in 1 .. n
    BY <1>1, <1>11, MaxIs
  <2> QED BY <1>4, <1>9, <1>11, <2>1
<1>12. PICK st : Steps(st, n, S, b, G) /\ c[1 .. n] = st[n]
  <2>1. FoldSteps(c, n, S, G)
    BY <1>11 DEF FoldSteps
  <2>2. n \in Nat
    BY <1>1
  <2> QED BY <1>3, <1>5, <1>10, <2>1, <2>2, FoldRuns
<1>13. /\ st \in [0 .. n -> S] /\ st[0] = b /\ \A k \in 1 .. n : st[k] = G[<<k, st[k - 1]>>]
  BY <1>12 DEF Steps
<1>14. ASSUME NEW k \in 1 .. n
       PROVE  st[k] = HeaderCopy(st[k - 1], lines[k], header, retLen) /\ Len(st[k - 1].out) <= retLen - 1
  <2>1. k - 1 \in 0 .. n
    BY <1>1
  <2>2. st[k - 1] \in S
    BY <1>13, <2>1
  <2>3. Len(st[k - 1].out) <= retLen - 1
    BY <2>2 DEF S
  <2> QED BY <1>4, <1>13, <2>2, <2>3
<1>15. fin = st[n]
  BY <1>1, <1>12
<1>16. st \in [0 .. n -> HeaderCopies]
  <2>1. S \subseteq HeaderCopies
    BY DEF S
  <2> QED BY <1>13, <2>1
<1> HIDE DEF fin
<1> QED BY <1>2, <1>13, <1>14, <1>15, <1>16, Zenon DEF HeaderRun, n, b

\* The values of the lines that have the name, joined.
HeaderValues(lines, header) ==
  [k \in DOMAIN lines |-> IF k \in { j \in DOMAIN lines : lines[j][1] = header } THEN lines[k][2] ELSE <<>>]

LEMMA HeaderGivesJoined ==
  ASSUME NEW N, NEW lines \in HeaderLines(N), NEW header, NEW retLen \in Nat \ {0}
  PROVE  LET mine == { k \in DOMAIN lines : lines[k][1] = header }
             r == httpdGetHeader(lines, header, retLen)
         IN  /\ r.ok = IF mine = {} THEN 0 ELSE 1
             /\ r.out = Fitting(FlattenSeq(HeaderValues(lines, header)), retLen - 1)
<1> DEFINE n == Len(lines)
           room == retLen - 1
           vals == HeaderValues(lines, header)
           Mine(k) == \E j \in 1 .. k : lines[j][1] = header
<1>1. n \in Nat /\ room \in Nat /\ DOMAIN lines = 1 .. n /\ \A k \in 1 .. n : lines[k] \in N \X Seq(Nat)
  BY DEF HeaderLines, ByteTexts
<1>2. vals \in Seq(Seq(Nat)) /\ Len(vals) = n
      /\ \A k \in 1 .. n : vals[k] = IF lines[k][1] = header THEN lines[k][2] ELSE <<>>
  <2>1. <<>> \in Seq(Nat)
    OBVIOUS
  <2> QED BY <1>1, <2>1 DEF HeaderValues
<1>3. PICK f \in [0 .. Len(vals) -> Seq(Nat)] :
        /\ f[0] = <<>> /\ \A k \in 1 .. Len(vals) : f[k] = f[k - 1] \o vals[k]
        /\ FlattenSeq(vals) = f[Len(vals)]
  <2> HIDE DEF vals
  <2> QED BY <1>2, FlattenIs
<1>4. PICK st \in [0 .. Len(lines) -> HeaderCopies] :
        /\ st[0] = [ok |-> 0, out |-> <<>>]
        /\ \A k \in 1 .. Len(lines) :
             /\ Len(st[k - 1].out) <= retLen - 1
             /\ st[k] = HeaderCopy(st[k - 1], lines[k], header, retLen)
        /\ httpdGetHeader(lines, header, retLen) = st[Len(lines)]
  <2>1. PICK st : HeaderRun(st, lines, header, retLen)
    <3>1. lines \in HeaderLines(N)
      OBVIOUS
    <3> QED BY <3>1, HeaderRuns
  <2> QED BY <2>1 DEF HeaderRun
<1> HIDE DEF vals, n
<1> DEFINE T == { k \in 0 .. n : st[k].out = Fitting(f[k], room) /\ (st[k].ok = 0 <=> ~ Mine(k)) }
<1>5. 0 \in T
  <2>1. Fitting(<<>>, room) = <<>>
    <3>1. Len(<<>>) = 0 /\ Min2(0, room) = 0
      BY <1>1 DEF Min2
    <3>2. SubSeq(<<>>, 1, 0) = <<>>
      BY SubSeqEmpty
    <3> QED BY <3>1, <3>2 DEF Fitting
  <2>2. st[0].out = <<>> /\ st[0].ok = 0 /\ f[0] = <<>>
    BY <1>3, <1>4
  <2>3. ~ Mine(0)
    OBVIOUS
  <2>4. 0 \in 0 .. n
    BY <1>1
  <2> HIDE DEF Mine
  <2> QED BY <2>1, <2>2, <2>3, <2>4
<1>6. ASSUME NEW k \in 0 .. n - 1, k \in T
      PROVE  k + 1 \in T
  <2>1. k \in 0 .. n /\ k + 1 \in 1 .. n /\ (k + 1) - 1 = k /\ k + 1 \in 0 .. n
    BY <1>1
  <2>2. st[k].out = Fitting(f[k], room) /\ (st[k].ok = 0 <=> ~ Mine(k))
    BY <1>6
  <2>3. f[k] \in Seq(Nat) /\ vals[k + 1] \in Seq(Nat) /\ f[k + 1] = f[k] \o vals[k + 1]
    <3>1. \A j \in 1 .. Len(vals) : f[j] = f[j - 1] \o vals[j]
      BY <1>3
    <3>2. f[k + 1] = f[(k + 1) - 1] \o vals[k + 1]
      BY <1>2, <2>1, <3>1
    <3>3. f[k] \in Seq(Nat)
      BY <1>2, <2>1
    <3>4. vals[k + 1] \in Seq(Nat)
      BY <1>2, <2>1, ElementOfSeq
    <3> QED BY <2>1, <3>2, <3>3, <3>4
  <2>4. /\ st[k] \in HeaderCopies /\ Len(st[k].out) <= retLen - 1
        /\ st[k + 1] = HeaderCopy(st[k], lines[k + 1], header, retLen)
        /\ lines[k + 1] \in N \X ByteTexts
    <3>1. Len(st[(k + 1) - 1].out) <= retLen - 1 /\ st[k + 1] = HeaderCopy(st[(k + 1) - 1], lines[k + 1], header, retLen)
      BY <1>4, <2>1 DEF n
    <3> QED BY <1>1, <1>4, <2>1, <3>1 DEF n, ByteTexts
  <2>5. Mine(k + 1) <=> Mine(k) \/ lines[k + 1][1] = header
    <3>1. \A j \in 1 .. k + 1 : j \in 1 .. k \/ j = k + 1
      BY <2>1
    <3>2. 1 .. k \subseteq 1 .. k + 1 /\ k + 1 \in 1 .. k + 1
      BY <2>1
    <3> QED BY <3>1, <3>2
  <2> HIDE DEF Mine
  <2>8. \A acc \in HeaderCopies, l \in N \X ByteTexts :
          Len(acc.out) <= retLen - 1 =>
            /\ l[1] # header => HeaderCopy(acc, l, header, retLen) = acc
            /\ l[1] = header =>
                 /\ HeaderCopy(acc, l, header, retLen).ok = 1
                 /\ HeaderCopy(acc, l, header, retLen).out = acc.out \o Fitting(l[2], retLen - 1 - Len(acc.out))
    BY HeaderCopyIs
  <2> HIDE DEF room
  <2>6. CASE lines[k + 1][1] # header
    <3>1. st[k + 1] = st[k]
      BY <2>4, <2>6, <2>8
    <3>2. f[k + 1] = f[k]
      BY <1>2, <2>1, <2>3, <2>6, ConcatEmptySeq
    <3> QED BY <2>1, <2>2, <2>5, <2>6, <3>1, <3>2
  <2>7. CASE lines[k + 1][1] = header
    <3>1. st[k + 1].ok = 1 /\ st[k + 1].out = st[k].out \o Fitting(lines[k + 1][2], retLen - 1 - Len(st[k].out))
      <4>1. PICK acc, l, u : acc = st[k] /\ l = lines[k + 1] /\ u = st[k + 1]
        OBVIOUS
      <4>2. acc \in HeaderCopies /\ l \in N \X ByteTexts /\ Len(acc.out) <= retLen - 1
            /\ u = HeaderCopy(acc, l, header, retLen) /\ l[1] = header
        BY <2>4, <2>7, <4>1
      <4>3. u.ok = 1 /\ u.out = acc.out \o Fitting(l[2], retLen - 1 - Len(acc.out))
        BY <2>8, <4>2
      <4> QED BY <4>1, <4>3
    <3>2. vals[k + 1] = lines[k + 1][2]
      BY <1>2, <2>1, <2>7
    <3>3. Fitting(f[k] \o vals[k + 1], room) = Fitting(f[k], room) \o Fitting(vals[k + 1], room - Len(Fitting(f[k], room)))
      <4> HIDE DEF room
      <4> QED BY <1>1, <2>3, FittingJoined
    <3>4. st[k + 1].out = Fitting(f[k + 1], room)
      BY <2>2, <2>3, <3>1, <3>2, <3>3 DEF room
    <3> QED BY <2>1, <2>5, <2>7, <3>1, <3>4
  <2> QED BY <2>6, <2>7
<1> HIDE DEF T
<1>7. n \in T
  <2>1. n \in Nat /\ n \in 0 .. n
    BY <1>1
  <2>2. \A k \in 0 .. n : k \in T
    BY <1>5, <1>6, <2>1, UpTo
  <2> QED BY <2>1, <2>2
<1>8. st[n].out = Fitting(f[n], room) /\ (st[n].ok = 0 <=> ~ Mine(n)) /\ st[n].ok \in 0 .. 1
  <2>1. st[n] \in HeaderCopies
    BY <1>1 DEF n
  <2> QED BY <1>7, <2>1 DEF T, HeaderCopies
<1>9. httpdGetHeader(lines, header, retLen) = st[n] /\ FlattenSeq(vals) = f[n]
  BY <1>2, <1>3, <1>4 DEF n
<1>10. { k \in DOMAIN lines : lines[k][1] = header } = {} <=> ~ Mine(n)
  BY <1>1
<1> HIDE DEF Mine
<1> QED BY <1>8, <1>9, <1>10 DEF vals

LEMMA HeaderCallsOf ==
  ASSUME xcall \in Calls, xcall.fn = "header"
  PROVE  xcall.in \in HeaderLines(STRING) /\ xcall.room \in Nat \ {0}
BY CallsTyped DEF HeaderLines

\* A call that is done has done that.
LEMMA CallsJoin == DecodedInv => HeaderJoined
<1> SUFFICES ASSUME DecodedInv, Called("header") PROVE HeaderJoined
  BY DEF HeaderJoined
<1>1. xcall \in Calls /\ xcall.fn = "header" /\ xresult = Result(xcall)
  BY DEF DecodedInv, Called
<1>2. xresult = httpdGetHeader(xcall.in, "Cookie", xcall.room)
  BY <1>1 DEF Result
<1>3. xcall.in \in HeaderLines(STRING) /\ xcall.room \in Nat \ {0}
  BY <1>1, HeaderCallsOf
<1>4. LET mine == { k \in DOMAIN xcall.in : xcall.in[k][1] = "Cookie" }
      IN  /\ xresult.ok = IF mine = {} THEN 0 ELSE 1
          /\ xresult.out = Fitting(FlattenSeq(HeaderValues(xcall.in, "Cookie")), xcall.room - 1)
  BY <1>2, <1>3, HeaderGivesJoined
<1> QED BY <1>4, Zenon DEF HeaderJoined, HeaderValues, Fitting

\* httpdGetHeader, for any header lines and any sizes of buffer: the
\* values of the lines that have the name are joined and cut where the buffer
\* ends, and it says whether there was one.
THEOREM HeadersJoinedWhole == TextSpec => []HeaderJoined
<1>1. TextInit => DecodedInv
  BY DEF TextInit, DecodedInv
<1>2. DecodedInv /\ [TextNext]_textVars => DecodedInv'
  BY DEF DecodedInv, TextNext, textVars
<1>3. DecodedInv => HeaderJoined
  BY CallsJoin
<1> QED BY <1>1, <1>2, <1>3, PTL DEF TextSpec

\* The sender's state, in the middle of a text.
EscapeStates ==
  [ok : 0 .. 1, sends : Nat, out : ByteTexts, start : Nat, end : Nat, eos : 0 .. 1]

\* A send succeeds, with all of its text, or fails, and then nothing follows.
SendsPart(s, piece, t) ==
  /\ t \in EscapeStates /\ t.start = s.start /\ t.end = s.end /\ t.eos = s.eos
  /\ \/ s.ok = 1 /\ t.ok = 1 /\ t.out = s.out \o piece
     \/ s.ok = 1 /\ t.ok = 0 /\ t.out = s.out /\ piece # <<>>
     \/ s.ok = 0 /\ t.ok = 0 /\ t.out = s.out

LEMMA SendPartIs ==
  ASSUME NEW s \in EscapeStates, NEW piece \in ByteTexts, NEW fails
  PROVE  SendsPart(s, piece, SendPart(s, piece, fails))
<1> DEFINE x == s.out \o piece
           n == s.sends + 1
           q == [s EXCEPT !.ok = 0]
           a == [s EXCEPT !.out = x]
           r == [a EXCEPT !.sends = n]
<1>1. /\ s.out \in ByteTexts /\ s.ok \in 0 .. 1 /\ s.sends \in Nat /\ n \in Nat
      /\ s.out \in Seq(Nat) /\ piece \in Seq(Nat)
  BY DEF EscapeStates, ByteTexts
<1>2. x \in ByteTexts
  <2>1. s.out \o piece \in Seq(Nat)
    BY <1>1, ConcatProperties
  <2> QED BY <2>1 DEF ByteTexts
<1>3. SendPart(s, piece, fails) = IF s.ok = 0 \/ piece = <<>> THEN s ELSE IF n = fails THEN q ELSE r
  BY DEF SendPart
<1>4. q \in EscapeStates /\ q.start = s.start /\ q.end = s.end /\ q.eos = s.eos /\ q.ok = 0 /\ q.out = s.out
  BY DEF EscapeStates
<1>5. r \in EscapeStates /\ r.start = s.start /\ r.end = s.end /\ r.eos = s.eos /\ r.ok = s.ok /\ r.out = x
  <2> HIDE DEF x, n
  <2> QED BY <1>1, <1>2 DEF EscapeStates
<1>6. piece = <<>> => x = s.out
  BY <1>1, ConcatEmptySeq
<1> HIDE DEF q, r, n
<1>7. s.ok = 0 \/ s.ok = 1
  BY <1>1
<1> QED BY <1>3, <1>4, <1>5, <1>6, <1>7 DEF SendsPart

EscapeOf(fn, data, j) == IF data[j] \in Special(fn) THEN 256 + data[j] ELSE data[j]

\* The sender before place s.end of the text, of which k characters were looked
\* at: what it sent is the beginning of the text, replaced, up to where it will
\* send from if nothing failed; what it did not send yet needs no escape.
Escaping(s, k, fn, data) ==
  /\ s \in EscapeStates
  /\ 1 <= s.start /\ s.start <= s.end /\ s.end <= k + 1
  /\ \A j \in 1 .. s.end - 1 : data[j] # 0
  /\ s.eos = 0 => s.end = k + 1
  /\ s.eos = 1 => s.end <= k /\ data[s.end] = 0
  /\ \A j \in s.start .. s.end - 1 : data[j] \notin Special(fn)
  /\ s.ok = 1 => Len(s.out) = s.start - 1
  /\ s.ok = 0 => Len(s.out) < s.start - 1
  /\ \A j \in 1 .. Len(s.out) : s.out[j] = EscapeOf(fn, data, j)

\* The text up to the place looked at goes out without an escape.
LEMMA PlainPartGoes ==
  ASSUME NEW data \in ByteTexts, NEW fn, NEW k \in 0 .. Len(data), NEW s, Escaping(s, k, fn, data), NEW t,
         SendsPart(s, SubSeq(data, s.start, s.end - 1), t)
  PROVE  /\ SubSeq(data, s.start, s.end - 1) \in ByteTexts
         /\ t \in EscapeStates /\ t.start = s.start /\ t.end = s.end /\ t.eos = s.eos
         /\ t.ok = 1 => s.ok = 1 /\ Len(t.out) = s.end - 1
         /\ t.ok = 0 => Len(t.out) < s.end - 1
         /\ \A j \in 1 .. Len(t.out) : t.out[j] = EscapeOf(fn, data, j)
<1> DEFINE piece == SubSeq(data, s.start, s.end - 1)
<1>1. /\ Len(data) \in Nat /\ s.start \in Nat /\ s.end \in Nat /\ s.out \in Seq(Nat) /\ Len(s.out) \in Nat
      /\ s.ok \in 0 .. 1 /\ 1 <= s.start /\ s.start <= s.end /\ s.end <= k + 1 /\ s.end - 1 <= Len(data)
  BY DEF Escaping, EscapeStates, ByteTexts
<1>2. \A j \in s.start .. s.end - 1 : data[j] \in Nat
  BY <1>1 DEF ByteTexts
<1>3. /\ piece \in Seq(Nat) /\ Len(piece) = IF s.start <= s.end - 1 THEN s.end - 1 - s.start + 1 ELSE 0
      /\ \A j \in 1 .. s.end - 1 - s.start + 1 : piece[j] = data[s.start + j - 1]
  BY <1>1, <1>2, SubSeqProperties
<1> HIDE DEF piece
<1>4. Len(piece) = s.end - s.start /\ \A j \in 1 .. s.end - s.start : piece[j] = data[s.start + j - 1]
  BY <1>1, <1>3
<1>5. t \in EscapeStates /\ t.start = s.start /\ t.end = s.end /\ t.eos = s.eos
  BY DEF SendsPart
<1>6. CASE s.ok = 1 /\ t.ok = 1 /\ t.out = s.out \o piece
  <2>1. Len(s.out) = s.start - 1
    BY <1>6 DEF Escaping
  <2>2. Len(t.out) = Len(s.out) + Len(piece)
        /\ \A j \in 1 .. Len(s.out) + Len(piece) : t.out[j] = IF j <= Len(s.out) THEN s.out[j] ELSE piece[j - Len(s.out)]
    <3>1. PICK o, u : o = s.out /\ u = t.out
      OBVIOUS
    <3>2. o \in Seq(Nat) /\ piece \in Seq(Nat) /\ u = o \o piece
      BY <1>1, <1>3, <1>6, <3>1
    <3>3. Len(u) = Len(o) + Len(piece)
          /\ \A j \in 1 .. Len(o) + Len(piece) : u[j] = IF j <= Len(o) THEN o[j] ELSE piece[j - Len(o)]
      BY <3>2, ConcatProperties
    <3> QED BY <3>1, <3>3
  <2>3. Len(t.out) = s.end - 1
    BY <1>1, <1>4, <2>1, <2>2
  <2>4. ASSUME NEW j \in 1 .. Len(t.out)
        PROVE  t.out[j] = EscapeOf(fn, data, j)
    <3>1. CASE j <= Len(s.out)
      <4>1. t.out[j] = s.out[j] /\ j \in 1 .. Len(s.out)
        BY <1>1, <2>2, <3>1
      <4> QED BY <4>1 DEF Escaping
    <3>2. CASE ~ (j <= Len(s.out))
      <4>1. j - Len(s.out) \in 1 .. s.end - s.start /\ s.start + (j - Len(s.out)) - 1 = j /\ j \in s.start .. s.end - 1
        <5>1. j \in Nat /\ 1 <= j /\ j <= s.end - 1 /\ s.start - 1 < j
          BY <1>1, <2>1, <2>3, <3>2
        <5>2. j - Len(s.out) = j - (s.start - 1)
          BY <2>1
        <5>3. \A p, e, i \in Nat : 1 <= i /\ i <= e - 1 /\ p - 1 < i /\ 1 <= p =>
                i - (p - 1) \in 1 .. e - p /\ p + (i - (p - 1)) - 1 = i /\ i \in p .. e - 1
          OBVIOUS
        <5>4. j - (s.start - 1) \in 1 .. s.end - s.start /\ s.start + (j - (s.start - 1)) - 1 = j
              /\ j \in s.start .. s.end - 1
          BY <1>1, <5>1, <5>3
        <5> QED BY <5>2, <5>4
      <4>2. t.out[j] = piece[j - Len(s.out)]
        BY <1>1, <2>2, <3>2
      <4>3. t.out[j] = data[j]
        BY <1>4, <4>1, <4>2
      <4>4. data[j] \notin Special(fn)
        BY <4>1 DEF Escaping
      <4> QED BY <4>3, <4>4 DEF EscapeOf
    <3> QED BY <3>1, <3>2
  <2> QED BY <1>3, <1>5, <1>6, <2>3, <2>4 DEF piece, ByteTexts
<1>7. CASE s.ok = 1 /\ t.ok = 0 /\ t.out = s.out /\ piece # <<>>
  <2>1. Len(s.out) = s.start - 1 /\ s.start < s.end
    <3>1. Len(piece) # 0
      BY <1>3, <1>7, EmptySeq
    <3> QED BY <1>1, <1>4, <1>7, <3>1 DEF Escaping
  <2>2. \A j \in 1 .. Len(t.out) : t.out[j] = EscapeOf(fn, data, j)
    BY <1>7 DEF Escaping
  <2> QED BY <1>1, <1>3, <1>5, <1>7, <2>1, <2>2 DEF piece, ByteTexts
<1>8. CASE s.ok = 0 /\ t.ok = 0 /\ t.out = s.out
  <2>1. Len(s.out) < s.start - 1
    BY <1>8 DEF Escaping
  <2>2. \A j \in 1 .. Len(t.out) : t.out[j] = EscapeOf(fn, data, j)
    BY <1>8 DEF Escaping
  <2> QED BY <1>1, <1>3, <1>5, <1>8, <2>1, <2>2 DEF piece, ByteTexts
<1> QED BY <1>6, <1>7, <1>8 DEF SendsPart, piece

\* A turn of the loop keeps it.
LEMMA EscapingKept ==
  ASSUME NEW data \in ByteTexts, NEW fn, NEW fails, NEW k \in 1 .. Len(data), NEW s,
         Escaping(s, k - 1, fn, data)
  PROVE  Escaping(EscapeStep(fn, data, s, k, fails), k, fn, data)
<1>1. /\ Len(data) \in Nat /\ s \in EscapeStates /\ s.start \in Nat /\ s.end \in Nat /\ s.out \in Seq(Nat)
      /\ Len(s.out) \in Nat /\ s.ok \in 0 .. 1 /\ s.eos \in 0 .. 1 /\ data[k] \in Nat
      /\ 1 <= s.start /\ s.start <= s.end /\ s.end <= k
  BY DEF Escaping, EscapeStates, ByteTexts
<1>2. CASE s.eos = 1
  <2>1. EscapeStep(fn, data, s, k, fails) = s
    BY <1>1, <1>2 DEF EscapeStep, EscapeStates
  <2>2. s.end <= k /\ s.end <= k + 1 /\ s.eos # 0
    BY <1>1, <1>2
  <2>3. Escaping(s, k, fn, data)
    BY <1>2, <2>2, Zenon DEF Escaping
  <2> QED BY <2>1, <2>3
<1>3. s.eos = 0 => s.end = k
  BY <1>1 DEF Escaping
<1>4. CASE s.eos = 0 /\ data[k] = 0
  <2> DEFINE t == [s EXCEPT !.eos = 1]
  <2>1. EscapeStep(fn, data, s, k, fails) = t
    BY <1>4 DEF EscapeStep
  <2>2. /\ t \in EscapeStates /\ t.start = s.start /\ t.end = s.end /\ t.out = s.out /\ t.ok = s.ok
        /\ t.eos = 1
    BY <1>1 DEF EscapeStates
  <2> HIDE DEF t
  <2>3. Escaping(t, k, fn, data)
    BY <1>1, <1>3, <1>4, <2>2 DEF Escaping
  <2> QED BY <2>1, <2>3
<1>5. CASE s.eos = 0 /\ data[k] # 0 /\ data[k] \notin Special(fn)
  <2> DEFINE t == [s EXCEPT !.end = k + 1]
  <2>1. EscapeStep(fn, data, s, k, fails) = t
    BY <1>5 DEF EscapeStep
  <2>2. /\ t \in EscapeStates /\ t.start = s.start /\ t.end = k + 1 /\ t.out = s.out /\ t.ok = s.ok
        /\ t.eos = 0
    BY <1>1, <1>5 DEF EscapeStates
  <2> HIDE DEF t
  <2>3. \A j \in 1 .. t.end - 1 : data[j] # 0
    <3>1. \A j \in 1 .. t.end - 1 : j \in 1 .. s.end - 1 \/ j = k
      BY <1>1, <1>3, <1>5, <2>2
    <3>2. \A j \in 1 .. s.end - 1 : data[j] # 0
      BY DEF Escaping
    <3> QED BY <1>5, <3>1, <3>2
  <2>4. \A j \in t.start .. t.end - 1 : data[j] \notin Special(fn)
    <3>1. \A j \in t.start .. t.end - 1 : j \in s.start .. s.end - 1 \/ j = k
      BY <1>1, <1>3, <1>5, <2>2
    <3>2. \A j \in s.start .. s.end - 1 : data[j] \notin Special(fn)
      BY DEF Escaping
    <3> QED BY <1>5, <3>1, <3>2
  <2>5. /\ t.ok = 1 => Len(t.out) = t.start - 1
        /\ t.ok = 0 => Len(t.out) < t.start - 1
        /\ \A j \in 1 .. Len(t.out) : t.out[j] = EscapeOf(fn, data, j)
    BY <2>2 DEF Escaping
  <2>6. 1 <= t.start /\ t.start <= t.end /\ t.end <= k + 1 /\ t.end = k + 1
    BY <1>1, <2>2
  <2>7. t.eos # 1
    BY <2>2
  <2>8. Escaping(t, k, fn, data)
    BY <2>2, <2>3, <2>4, <2>5, <2>6, <2>7, Zenon DEF Escaping
  <2> QED BY <2>1, <2>8
<1>6. CASE s.eos = 0 /\ data[k] # 0 /\ data[k] \in Special(fn)
  <2> DEFINE piece == SubSeq(data, s.start, k - 1)
             esc == <<256 + data[k]>>
             t == SendPart(s, piece, fails)
             u == SendPart(t, esc, fails)
             a == [u EXCEPT !.start = k + 1]
             v == [a EXCEPT !.end = k + 1]
  <2>1. EscapeStep(fn, data, s, k, fails) = v
    BY <1>6 DEF EscapeStep
  <2>2. s.end = k /\ Escaping(s, k - 1, fn, data) /\ k - 1 \in 0 .. Len(data)
    BY <1>1, <1>3, <1>6
  <2>3. piece \in ByteTexts
    <3>1. \A j \in s.start .. k - 1 : data[j] \in Nat
      BY <1>1 DEF ByteTexts
    <3> QED BY <1>1, <3>1, SubSeqProperties DEF ByteTexts
  <2>4. SendsPart(s, piece, t)
    BY <1>1, <2>3, SendPartIs
  <2> HIDE DEF t
  <2>5. /\ t \in EscapeStates /\ t.start = s.start /\ t.end = s.end /\ t.eos = s.eos
        /\ t.ok = 1 => s.ok = 1 /\ Len(t.out) = s.end - 1
        /\ t.ok = 0 => Len(t.out) < s.end - 1
        /\ \A j \in 1 .. Len(t.out) : t.out[j] = EscapeOf(fn, data, j)
    <3>1. PICK i : i = k - 1
      OBVIOUS
    <3>2. i \in 0 .. Len(data) /\ Escaping(s, i, fn, data) /\ piece = SubSeq(data, s.start, s.end - 1)
      BY <2>2, <3>1
    <3>3. SendsPart(s, SubSeq(data, s.start, s.end - 1), t)
      BY <2>4, <3>2
    <3> HIDE DEF piece
    <3> QED BY <3>2, <3>3, PlainPartGoes
  <2>6. esc \in ByteTexts /\ Len(esc) = 1 /\ esc[1] = 256 + data[k]
    BY <1>1 DEF ByteTexts
  <2>7. SendsPart(t, esc, u)
    BY <2>5, <2>6, SendPartIs
  <2> HIDE DEF u, esc, piece
  <2>8. u \in EscapeStates /\ u.start = s.start /\ u.end = s.end /\ u.eos = 0 /\ u.ok \in 0 .. 1 /\ u.out \in Seq(Nat)
    BY <1>6, <2>5, <2>7 DEF SendsPart, EscapeStates, ByteTexts
  <2>9. t.ok \in 0 .. 1 /\ t.out \in Seq(Nat) /\ Len(t.out) \in Nat
    BY <2>5 DEF EscapeStates, ByteTexts
  <2>10. /\ u.ok = 1 => Len(u.out) = k
         /\ u.ok = 0 => Len(u.out) < k
         /\ \A j \in 1 .. Len(u.out) : u.out[j] = EscapeOf(fn, data, j)
    <3>1. CASE t.ok = 1 /\ u.ok = 1 /\ u.out = t.out \o esc
      <4>1. Len(t.out) = k - 1
        BY <2>2, <2>5, <3>1
      <4>2. Len(u.out) = k /\ \A j \in 1 .. k : u.out[j] = IF j <= k - 1 THEN t.out[j] ELSE esc[j - (k - 1)]
        <5>1. PICK o, w : o = t.out /\ w = u.out
          OBVIOUS
        <5>2. o \in Seq(Nat) /\ esc \in Seq(Nat) /\ w = o \o esc /\ Len(o) = k - 1
          BY <2>6, <2>9, <3>1, <4>1, <5>1 DEF ByteTexts
        <5>3. Len(w) = Len(o) + Len(esc)
              /\ \A j \in 1 .. Len(o) + Len(esc) : w[j] = IF j <= Len(o) THEN o[j] ELSE esc[j - Len(o)]
          BY <5>2, ConcatProperties
        <5> QED BY <1>1, <2>6, <5>1, <5>2, <5>3
      <4>3. ASSUME NEW j \in 1 .. k
            PROVE  u.out[j] = EscapeOf(fn, data, j)
        <5>1. CASE j <= k - 1
          <6>1. j \in 1 .. Len(t.out) /\ u.out[j] = t.out[j]
            BY <4>1, <4>2, <5>1
          <6>2. t.out[j] = EscapeOf(fn, data, j)
            BY <2>5, <6>1, Zenon
          <6> QED BY <6>1, <6>2
        <5>2. CASE j = k
          <6>1. u.out[k] = esc[k - (k - 1)] /\ k - (k - 1) = 1
            BY <4>2
          <6> QED BY <1>6, <2>6, <5>2, <6>1 DEF EscapeOf
        <5> QED BY <5>1, <5>2
      <4>4. Len(u.out) = k
        BY <4>2
      <4> HIDE DEF esc
      <4> QED BY <3>1, <4>3, <4>4
    <3>2. CASE t.ok = 1 /\ u.ok = 0 /\ u.out = t.out
      <4>1. Len(t.out) = k - 1
        BY <2>2, <2>5, <3>2
      <4> QED BY <2>5, <3>2, <4>1
    <3>3. CASE t.ok = 0 /\ u.ok = 0 /\ u.out = t.out
      <4>1. Len(t.out) < k
        BY <2>2, <2>5, <2>9, <3>3
      <4> QED BY <2>5, <3>3, <4>1
    <3> QED BY <2>7, <3>1, <3>2, <3>3 DEF SendsPart
  <2>11. /\ v \in EscapeStates /\ v.start = k + 1 /\ v.end = k + 1 /\ v.out = u.out /\ v.ok = u.ok /\ v.eos = 0
    <3>1. /\ a \in EscapeStates /\ a.start = k + 1 /\ a.out = u.out /\ a.ok = u.ok /\ a.eos = 0
      BY <2>8 DEF EscapeStates
    <3> HIDE DEF a
    <3> QED BY <3>1 DEF EscapeStates
  <2> HIDE DEF v
  <2>12. \A j \in 1 .. v.end - 1 : data[j] # 0
    <3>1. \A j \in 1 .. v.end - 1 : j \in 1 .. s.end - 1 \/ j = k
      BY <2>2, <2>11
    <3>2. \A j \in 1 .. s.end - 1 : data[j] # 0
      BY DEF Escaping
    <3> QED BY <1>6, <3>1, <3>2
  <2>13. \A j \in v.start .. v.end - 1 : FALSE
    BY <2>11
  <2>14. 1 <= v.start /\ v.start <= v.end /\ v.end <= k + 1 /\ v.end = k + 1 /\ v.eos # 1
         /\ v.start - 1 = k
    BY <2>11
  <2>15. /\ v.ok = 1 => Len(v.out) = v.start - 1
         /\ v.ok = 0 => Len(v.out) < v.start - 1
         /\ \A j \in 1 .. Len(v.out) : v.out[j] = EscapeOf(fn, data, j)
    BY <2>10, <2>11, <2>14
  <2>16. Escaping(v, k, fn, data)
    BY <2>11, <2>12, <2>13, <2>14, <2>15, Zenon DEF Escaping
  <2> QED BY <2>1, <2>16
<1> QED BY <1>1, <1>2, <1>4, <1>5, <1>6

Escapers == { s \in EscapeStates : 1 <= s.start }

LEMMA EscapeStepStays ==
  ASSUME NEW data \in ByteTexts, NEW fn, NEW fails, NEW k \in 1 .. Len(data), NEW s \in Escapers
  PROVE  EscapeStep(fn, data, s, k, fails) \in Escapers
<1>1. /\ Len(data) \in Nat /\ s \in EscapeStates /\ s.start \in Nat /\ 1 <= s.start /\ k \in Nat
      /\ data[k] \in Nat
  BY DEF Escapers, EscapeStates, ByteTexts
<1> DEFINE e == [s EXCEPT !.eos = 1]
           g == [s EXCEPT !.end = k + 1]
           piece == SubSeq(data, s.start, k - 1)
           esc == <<256 + data[k]>>
           t == SendPart(s, piece, fails)
           u == SendPart(t, esc, fails)
           a == [u EXCEPT !.start = k + 1]
           v == [a EXCEPT !.end = k + 1]
<1>2. EscapeStep(fn, data, s, k, fails) = IF s.eos = 1 \/ data[k] = 0 THEN e
                                          ELSE IF data[k] \notin Special(fn) THEN g ELSE v
  BY DEF EscapeStep
<1>3. e \in Escapers /\ g \in Escapers
  BY <1>1 DEF Escapers, EscapeStates
<1>4. piece \in ByteTexts /\ esc \in ByteTexts
  <2>1. \A j \in s.start .. k - 1 : data[j] \in Nat
    BY <1>1 DEF ByteTexts
  <2> QED BY <1>1, <2>1, SubSeqProperties DEF ByteTexts
<1> HIDE DEF e, g, piece, esc
<1>5. t \in EscapeStates
  BY <1>1, <1>4, SendPartIs DEF SendsPart
<1> HIDE DEF t
<1>6. u \in EscapeStates
  BY <1>4, <1>5, SendPartIs DEF SendsPart
<1> HIDE DEF u
<1>7. a \in EscapeStates /\ a.start = k + 1
  BY <1>1, <1>6 DEF EscapeStates
<1> HIDE DEF a
<1>8. v \in EscapeStates /\ v.start = k + 1
  BY <1>1, <1>7 DEF EscapeStates
<1> HIDE DEF v
<1>9. v \in Escapers
  BY <1>1, <1>8 DEF Escapers
<1> QED BY <1>2, <1>3, <1>9

\* The loop over a text, and the last send.
EscapeRun(st, fn, data, fails) ==
  /\ st \in [0 .. Len(data) -> Escapers]
  /\ st[0] = [ok |-> 1, sends |-> 0, out |-> <<>>, start |-> 1, end |-> 1, eos |-> 0]
  /\ \A k \in 1 .. Len(data) : st[k] = EscapeStep(fn, data, st[k - 1], k, fails)
  /\ LET s == st[Len(data)]
         t == SendPart(s, SubSeq(data, s.start, s.end - 1), fails)
     IN httpdSend_escaped(fn, data, fails) = [ok |-> IF data = <<>> THEN 0 ELSE t.ok, out |-> t.out]

LEMMA EscapeRuns ==
  ASSUME NEW data \in ByteTexts, NEW fn, NEW fails
  PROVE  \E st : EscapeRun(st, fn, data, fails)
<1> DEFINE n == Len(data)
           S == Escapers
           ids == [k \in 1 .. n |-> k]
           b == [ok |-> 1, sends |-> 0, out |-> <<>>, start |-> 1, end |-> 1, eos |-> 0]
           G == [p \in (1 .. n) \X S |-> EscapeStep(fn, data, p[2], p[1], fails)]
           c == CHOOSE iter : iter = [s \in SUBSET (DOMAIN ids) |->
                  IF s = {} THEN b ELSE EscapeStep(fn, data, iter[s \ {Max(s)}], ids[Max(s)], fails)]
           fin == c[DOMAIN ids]
           SentLast(s) == SendPart(s, SubSeq(data, s.start, s.end - 1), fails)
<1>1. n \in Nat /\ DOMAIN ids = 1 .. n /\ \A k \in 1 .. n : ids[k] = k
  BY DEF ByteTexts
<1>2. httpdSend_escaped(fn, data, fails) = [ok |-> IF data = <<>> THEN 0 ELSE SentLast(fin).ok, out |-> SentLast(fin).out]
  BY Zenon DEF httpdSend_escaped, FoldLeft, MapThenFoldSet
<1> HIDE DEF n, ids
<1>3. b \in S
  <2>1. b \in EscapeStates /\ b.start = 1
    BY DEF EscapeStates, ByteTexts
  <2> HIDE DEF b
  <2> QED BY <2>1 DEF Escapers
<1> HIDE DEF b
<1>4. ASSUME NEW k \in 1 .. n, NEW s \in S
      PROVE  G[<<k, s>>] = EscapeStep(fn, data, s, k, fails) /\ G[<<k, s>>] \in S
  <2>1. EscapeStep(fn, data, s, k, fails) \in S
    BY EscapeStepStays DEF n
  <2>2. <<k, s>> \in (1 .. n) \X S
    OBVIOUS
  <2> HIDE DEF S
  <2> QED BY <2>1, <2>2
<1> HIDE DEF S, G
<1>5. Leads(G, n, S)
  BY <1>4 DEF Leads
<1>6. PICK h \in [SUBSET (1 .. n) -> S] : Folds1(h, n, b, G)
  BY <1>1, <1>3, <1>5, FoldExists
<1> DEFINE D(f) == [s \in SUBSET (1 .. n) |->
                     IF s = {} THEN b ELSE EscapeStep(fn, data, f[s \ {Max(s)}], ids[Max(s)], fails)]
<1>7. h = D(h)
  <2> DEFINE e == [s \in SUBSET (1 .. n) |-> IF s = {} THEN b ELSE G[<<Max(s), h[s \ {Max(s)}]>>]]
  <2>1. h = e
    BY <1>6, Zenon DEF Folds1
  <2>2. ASSUME NEW s \in SUBSET (1 .. n), s # {}
        PROVE  G[<<Max(s), h[s \ {Max(s)}]>>] = EscapeStep(fn, data, h[s \ {Max(s)}], ids[Max(s)], fails)
    <3>1. Max(s) \in 1 .. n
      BY <1>1, <2>2, MaxIs
    <3>2. h[s \ {Max(s)}] \in S
      BY <1>6
    <3> QED BY <1>1, <1>4, <3>1, <3>2
  <2>3. e = D(h)
    BY <2>2
  <2> QED BY <2>1, <2>3, Zenon
<1>8. c = D(c)
  BY <1>1, <1>7, Zenon
<1>9. \A s \in SUBSET (1 .. n) :
        c[s] = IF s = {} THEN b ELSE EscapeStep(fn, data, c[s \ {Max(s)}], ids[Max(s)], fails)
  <2> DEFINE d == D(c)
  <2>1. \A s \in SUBSET (1 .. n) :
          d[s] = IF s = {} THEN b ELSE EscapeStep(fn, data, c[s \ {Max(s)}], ids[Max(s)], fails)
    BY Zenon
  <2>2. c = d
    BY <1>8, Zenon
  <2> HIDE DEF d, c
  <2> QED BY <2>1, <2>2, Zenon
<1> HIDE DEF c
<1>10. c[{}] = b
  BY <1>9
<1>11. ASSUME NEW s \in SUBSET (1 .. n), s # {}, c[s \ {Max(s)}] \in S
       PROVE  c[s] = G[<<Max(s), c[s \ {Max(s)}]>>]
  <2>1. Max(s) \in 1 .. n
    BY <1>1, <1>11, MaxIs
  <2>2. ids[Max(s)] = Max(s)
    BY <1>1, <2>1
  <2>3. c[s] = EscapeStep(fn, data, c[s \ {Max(s)}], Max(s), fails)
    BY <1>9, <1>11, <2>2
  <2> QED BY <1>4, <1>11, <2>1, <2>3
<1>12. PICK st : Steps(st, n, S, b, G) /\ c[1 .. n] = st[n]
  <2>1. FoldSteps(c, n, S, G)
    BY <1>11 DEF FoldSteps
  <2>2. n \in Nat
    BY <1>1
  <2> QED BY <1>3, <1>5, <1>10, <2>1, <2>2, FoldRuns
<1>13. /\ st \in [0 .. n -> S] /\ st[0] = b /\ \A k \in 1 .. n : st[k] = G[<<k, st[k - 1]>>]
  BY <1>12 DEF Steps
<1>14. ASSUME NEW k \in 1 .. n
       PROVE  st[k] = EscapeStep(fn, data, st[k - 1], k, fails)
  <2>1. k - 1 \in 0 .. n
    BY <1>1
  <2>2. st[k - 1] \in S
    BY <1>13, <2>1
  <2> QED BY <1>4, <1>13, <2>2
<1>15. fin = st[n]
  BY <1>1, <1>12
<1> HIDE DEF fin
<1>16. httpdSend_escaped(fn, data, fails) = [ok |-> IF data = <<>> THEN 0 ELSE SentLast(st[n]).ok, out |-> SentLast(st[n]).out]
  BY <1>2, <1>15
<1> QED BY <1>13, <1>14, <1>16, Zenon DEF EscapeRun, n, S, b

\* The text up to its end, and what is sent for it.
EscapedText(fn, data) ==
  LET n == IF \E k \in DOMAIN data : data[k] = 0
           THEN (CHOOSE k \in DOMAIN data : data[k] = 0 /\ \A j \in 1 .. k - 1 : data[j] # 0) - 1
           ELSE Len(data)
  IN [k \in 1 .. n |-> IF data[k] \in Special(fn) THEN 256 + data[k] ELSE data[k]]

LEMMA EscapeGives ==
  ASSUME NEW data \in ByteTexts, NEW fn, NEW fails
  PROVE  LET r == httpdSend_escaped(fn, data, fails)
             all == EscapedText(fn, data)
         IN /\ r.ok \in 0 .. 1 /\ Len(r.out) <= Len(data)
            /\ IF r.ok = 1 THEN r.out = all
               ELSE data # <<>> => IsPrefix(r.out, all) /\ r.out # all
<1> DEFINE n == Len(data)
<1>1. n \in Nat /\ DOMAIN data = 1 .. n /\ \A k \in 1 .. n : data[k] \in Nat
  BY DEF ByteTexts
<1>2. PICK st : EscapeRun(st, fn, data, fails)
  BY EscapeRuns
<1>3. /\ st[0] = [ok |-> 1, sends |-> 0, out |-> <<>>, start |-> 1, end |-> 1, eos |-> 0]
      /\ st[0] \in Escapers
      /\ \A k \in 1 .. n : st[k] = EscapeStep(fn, data, st[k - 1], k, fails)
  BY <1>1, <1>2 DEF EscapeRun
<1>4. Escaping(st[0], 0, fn, data)
  <2>1. PICK s : s = st[0]
    OBVIOUS
  <2>2. /\ s \in EscapeStates /\ s.start = 1 /\ s.end = 1 /\ s.eos = 0 /\ s.ok = 1 /\ s.out = <<>> /\ Len(s.out) = 0
    BY <1>3, <2>1 DEF Escapers
  <2>3. Escaping(s, 0, fn, data)
    BY <2>2 DEF Escaping
  <2> QED BY <2>1, <2>3
<1>5. \A k \in 0 .. n : Escaping(st[k], k, fn, data)
  <2> DEFINE T == { k \in 0 .. n : Escaping(st[k], k, fn, data) }
  <2>1. ASSUME NEW k \in 0 .. n - 1, k \in T
        PROVE  k + 1 \in T
    <3>1. k + 1 \in 1 .. n /\ (k + 1) - 1 = k /\ k + 1 \in 0 .. n
      BY <1>1
    <3>2. Escaping(st[k], (k + 1) - 1, fn, data)
      BY <2>1, <3>1
    <3>3. st[k + 1] = EscapeStep(fn, data, st[k], k + 1, fails)
      BY <1>3, <3>1
    <3>4. Escaping(EscapeStep(fn, data, st[k], k + 1, fails), k + 1, fn, data)
      BY <3>1, <3>2, EscapingKept
    <3> QED BY <3>1, <3>3, <3>4
  <2>2. 0 \in T
    BY <1>1, <1>4
  <2> HIDE DEF T
  <2>3. \A k \in 0 .. n : k \in T
    BY <1>1, <2>1, <2>2, UpTo
  <2> QED BY <2>3 DEF T
<1>6. PICK s : s = st[n]
  OBVIOUS
<1>7. Escaping(s, n, fn, data)
  BY <1>1, <1>5, <1>6
<1> DEFINE piece == SubSeq(data, s.start, s.end - 1)
           t == SendPart(s, piece, fails)
           r == httpdSend_escaped(fn, data, fails)
           all == EscapedText(fn, data)
<1>8. r.ok = (IF data = <<>> THEN 0 ELSE t.ok) /\ r.out = t.out
  <2>1. r = [ok |-> IF data = <<>> THEN 0 ELSE t.ok, out |-> t.out]
    BY <1>2, <1>6, Zenon DEF EscapeRun, n
  <2> HIDE DEF t
  <2> QED BY <2>1
<1>9. /\ s \in EscapeStates /\ s.start \in Nat /\ s.end \in Nat /\ 1 <= s.start /\ s.start <= s.end /\ s.end <= n + 1
      /\ s.eos \in 0 .. 1
  BY <1>7 DEF Escaping, EscapeStates
<1>10. piece \in ByteTexts
  <2>1. \A j \in s.start .. s.end - 1 : data[j] \in Nat
    BY <1>1, <1>9
  <2> QED BY <1>9, <2>1, SubSeqProperties DEF ByteTexts
<1>11. SendsPart(s, piece, t)
  BY <1>9, <1>10, SendPartIs
<1> HIDE DEF t
<1>12. /\ t \in EscapeStates
       /\ t.ok = 1 => Len(t.out) = s.end - 1
       /\ t.ok = 0 => Len(t.out) < s.end - 1
       /\ \A j \in 1 .. Len(t.out) : t.out[j] = EscapeOf(fn, data, j)
  <2>1. n \in 0 .. Len(data)
    BY <1>1
  <2>2. SendsPart(s, SubSeq(data, s.start, s.end - 1), t)
    BY <1>11
  <2> HIDE DEF piece, n
  <2>6. PICK u : u = t
    OBVIOUS
  <2>7. PICK k \in 0 .. Len(data) : k = n
    BY <2>1
  <2>3. u = t /\ k = n
    BY <2>6, <2>7
  <2>4. Escaping(s, k, fn, data) /\ SendsPart(s, SubSeq(data, s.start, s.end - 1), u)
    BY <1>7, <2>2, <2>3
  <2>5. /\ u \in EscapeStates
        /\ u.ok = 1 => Len(u.out) = s.end - 1
        /\ u.ok = 0 => Len(u.out) < s.end - 1
        /\ \A j \in 1 .. Len(u.out) : u.out[j] = EscapeOf(fn, data, j)
    BY <2>4, PlainPartGoes
  <2> QED BY <2>3, <2>5, Zenon
<1>13. t.out \in Seq(Nat) /\ Len(t.out) \in Nat /\ t.ok \in 0 .. 1
  BY <1>12 DEF EscapeStates, ByteTexts
<1> HIDE DEF r, piece
<1>14. all = [k \in 1 .. s.end - 1 |-> EscapeOf(fn, data, k)]
  <2> DEFINE m == IF \E k \in DOMAIN data : data[k] = 0
                  THEN (CHOOSE k \in DOMAIN data : data[k] = 0 /\ \A j \in 1 .. k - 1 : data[j] # 0) - 1
                  ELSE Len(data)
  <2>1. \A j \in 1 .. s.end - 1 : data[j] # 0
    BY <1>7 DEF Escaping
  <2>2. m = s.end - 1
    <3>1. CASE s.eos = 1
      <4>1. s.end \in 1 .. n /\ data[s.end] = 0
        BY <1>1, <1>7, <1>9, <3>1 DEF Escaping
      <4>2. \A k \in 1 .. n : data[k] = 0 /\ (\A j \in 1 .. k - 1 : data[j] # 0) => k = s.end
        <5> SUFFICES ASSUME NEW k \in 1 .. n, data[k] = 0, \A j \in 1 .. k - 1 : data[j] # 0, k # s.end PROVE FALSE
          OBVIOUS
        <5>1. k \in 1 .. s.end - 1 \/ s.end \in 1 .. k - 1
          BY <1>1, <1>9, <4>1
        <5> QED BY <2>1, <4>1, <5>1
      <4>3. (CHOOSE k \in DOMAIN data : data[k] = 0 /\ \A j \in 1 .. k - 1 : data[j] # 0) = s.end
        BY <1>1, <2>1, <4>1, <4>2
      <4> QED BY <1>1, <4>1, <4>3
    <3>2. CASE s.eos = 0
      <4>1. s.end - 1 = n
        BY <1>1, <1>7, <1>9, <3>2 DEF Escaping
      <4>2. ~ \E k \in DOMAIN data : data[k] = 0
        BY <1>1, <2>1, <4>1
      <4> QED BY <4>1, <4>2
    <3> QED BY <1>9, <3>1, <3>2
  <2>3. all = [k \in 1 .. m |-> EscapeOf(fn, data, k)]
    BY Zenon DEF EscapedText, EscapeOf
  <2> HIDE DEF m, all
  <2> QED BY <2>2, <2>3
<1> HIDE DEF all
<1>15. all \in Seq(Nat) /\ Len(all) = s.end - 1 /\ \A k \in 1 .. s.end - 1 : all[k] = EscapeOf(fn, data, k)
  <2>1. \A k \in 1 .. s.end - 1 : EscapeOf(fn, data, k) \in Nat
    BY <1>1, <1>9 DEF EscapeOf
  <2>2. s.end - 1 \in Nat
    BY <1>9
  <2> QED BY <1>14, <2>1, <2>2
<1>16. ASSUME t.ok = 1
       PROVE  IF r.ok = 1 THEN r.out = all
             ELSE data # <<>> => IsPrefix(r.out, all) /\ r.out # all
  <2>1. t.out = all
    BY <1>12, <1>13, <1>15, <1>16, SeqEqual
  <2>2. data = <<>> => r.ok = 0
    BY <1>8
  <2> QED BY <1>8, <1>16, <2>1, <2>2
<1>17. ASSUME t.ok = 0
       PROVE  IF r.ok = 1 THEN r.out = all
             ELSE data # <<>> => IsPrefix(r.out, all) /\ r.out # all
  <2>1. Len(t.out) < Len(all) /\ t.out # all
    BY <1>12, <1>13, <1>15, <1>17
  <2>2. \A k \in 1 .. Len(t.out) : t.out[k] = all[k]
    BY <1>9, <1>12, <1>13, <1>15, <2>1
  <2>3. IsPrefix(t.out, all)
    BY <1>13, <1>15, <2>1, <2>2, PrefixIs DEF IsPrefix
  <2>4. r.ok # 1
    BY <1>8, <1>17
  <2> QED BY <1>8, <2>1, <2>3, <2>4
<1>18. r.ok \in 0 .. 1 /\ Len(r.out) <= Len(data)
  <2>1. Len(t.out) <= s.end - 1
    BY <1>9, <1>12, <1>13
  <2>2. Len(t.out) <= Len(data)
    BY <1>1, <1>9, <1>13, <2>1 DEF n
  <2> QED BY <1>8, <1>13, <2>2
<1> QED BY <1>13, <1>16, <1>17, <1>18 DEF r, all

LEMMA EscapeCallsOf ==
  ASSUME xcall \in Calls, xcall.fn \in {"html", "js"}
  PROVE  xcall.in \in ByteTexts
BY CallsTyped

\* A call that is done has done that.
LEMMA CallsEscape == DecodedInv => Escaped
<1> SUFFICES ASSUME DecodedInv, NEW fn \in {"html", "js"}, Called(fn)
             PROVE  LET data == xcall.in
                        n == IF \E k \in DOMAIN data : data[k] = 0
                             THEN (CHOOSE k \in DOMAIN data : data[k] = 0 /\ \A j \in 1 .. k - 1 : data[j] # 0) - 1
                             ELSE Len(data)
                        all == [k \in 1 .. n |-> IF data[k] \in Special(fn) THEN 256 + data[k] ELSE data[k]]
                    IN IF xresult.ok = 1 THEN xresult.out = all
                       ELSE data # <<>> => IsPrefix(xresult.out, all) /\ xresult.out # all
  BY Zenon DEF Escaped
<1>1. xcall \in Calls /\ xcall.fn = fn /\ xresult = Result(xcall)
  BY DEF DecodedInv, Called
<1>2. xresult = httpdSend_escaped(fn, xcall.in, xcall.room)
  BY <1>1 DEF Result
<1>3. xcall.in \in ByteTexts
  BY <1>1, EscapeCallsOf
<1>4. IF xresult.ok = 1 THEN xresult.out = EscapedText(fn, xcall.in)
      ELSE xcall.in # <<>> => IsPrefix(xresult.out, EscapedText(fn, xcall.in)) /\ xresult.out # EscapedText(fn, xcall.in)
  BY <1>2, <1>3, EscapeGives
<1> QED BY <1>4, Zenon DEF EscapedText

\* httpdSend_html and httpdSend_js, for any texts and whichever send fails: the
\* text up to its end is sent with each special character replaced and no other,
\* or a real beginning of that, and the call reports which.
THEOREM EscapedWhole == TextSpec => []Escaped
<1>1. TextInit => DecodedInv
  BY DEF TextInit, DecodedInv
<1>2. DecodedInv /\ [TextNext]_textVars => DecodedInv'
  BY DEF DecodedInv, TextNext, textVars
<1>3. DecodedInv => Escaped
  BY CallsEscape
<1> QED BY <1>1, <1>2, <1>3, PTL DEF TextSpec

\* The lines that are searched, and where an argument begins.
ArgLines == Seq(Nat)
ArgStarts(line) == { k \in 1 .. Len(line) : k = 1 \/ line[k - 1] = Ampersand }
ArgHit(line, arg, k) == k + Len(arg) <= Len(line) /\ SubSeq(line, k, k + Len(arg)) = Append(arg, Equals)

\* The place behind the value that begins at p.
ArgEnd(line, p) == IF NextAmpersand(line, p) = 0 THEN Len(line) + 1 ELSE NextAmpersand(line, p)

\* What is returned for the argument at k.
ArgAnswer(line, arg, k, room) ==
  LET value == httpdUrlDecode(SubSeq(line, k + Len(arg) + 1, ArgEnd(line, k + Len(arg) + 1) - 1), room).out
  IN [ok |-> Len(value) + 1, out |-> value]

NoArg == [ok |-> -1, out |-> <<>>]

\* The loop at place p, from what its later turns return.
ArgTurn(g, line, arg, p, room) ==
  IF p = Len(line) + 1 \/ line[p] \in LineEnd THEN NoArg
  ELSE IF ArgHit(line, arg, p) THEN ArgAnswer(line, arg, p, room)
  ELSE IF NextAmpersand(line, p) = 0 THEN NoArg ELSE g[NextAmpersand(line, p) + 1]

LEMMA NextAmpersandIs ==
  ASSUME NEW line \in ArgLines, NEW p \in Nat, 1 <= p
  PROVE  \/ NextAmpersand(line, p) = 0 /\ \A k \in p .. Len(line) : line[k] # Ampersand
         \/ /\ NextAmpersand(line, p) \in p .. Len(line) /\ line[NextAmpersand(line, p)] = Ampersand
            /\ \A k \in p .. Len(line) : line[k] = Ampersand => NextAmpersand(line, p) <= k
<1> DEFINE at == { k \in p .. Len(line) : line[k] = Ampersand }
           m == CHOOSE k \in at : \A l \in at : k <= l
<1>1. NextAmpersand(line, p) = IF at = {} THEN 0 ELSE m
  BY DEF NextAmpersand
<1>2. at \subseteq Nat
  OBVIOUS
<1>3. CASE at = {}
  BY <1>1, <1>3
<1>4. CASE at # {}
  <2>1. PICK i \in at : \A j \in at : ~ (<<j, i>> \in OpToRel(<, Nat))
    <3> HIDE DEF at
    <3> QED BY <1>2, <1>4, NatLessThanWellFounded, WFMin, Zenon
  <2>2. ASSUME NEW j \in at
        PROVE  i <= j
    <3>1. i \in Nat /\ j \in Nat
      BY <1>2
    <3>2. j < i => <<j, i>> \in OpToRel(<, Nat)
      BY <3>1 DEF OpToRel
    <3> HIDE DEF at
    <3>3. ~ (j < i)
      BY <2>1, <3>2, Zenon
    <3> QED BY <3>1, <3>3
  <2>3. m \in at /\ \A l \in at : m <= l
    <3> HIDE DEF at
    <3> QED BY <2>2, Zenon
  <2>4. NextAmpersand(line, p) = m
    BY <1>1, <1>4
  <2> HIDE DEF m
  <2> QED BY <2>3, <2>4
<1> QED BY <1>3, <1>4

ArgAnswers == [ok : Int, out : ByteTexts]

LEMMA ArgLinesAre ==
  ASSUME NEW line \in ArgLines, NEW p \in Nat, NEW e \in Int, 1 <= p, e <= Len(line)
  PROVE  SubSeq(line, p, e) \in ByteTexts
<1>1. Len(line) \in Nat /\ \A k \in 1 .. Len(line) : line[k] \in Nat
  BY DEF ArgLines
<1>2. \A k \in p .. e : line[k] \in Nat
  BY <1>1
<1> QED BY <1>1, <1>2, SubSeqProperties DEF ByteTexts

LEMMA ArgAnswerIs ==
  ASSUME NEW line \in ArgLines, NEW arg \in ArgLines, NEW k \in 1 .. Len(line), ArgHit(line, arg, k), NEW room \in Nat \ {0}
  PROVE  ArgAnswer(line, arg, k, room) \in ArgAnswers
<1>1. Len(line) \in Nat /\ k + Len(arg) + 1 \in Nat /\ k + Len(arg) + 1 <= Len(line) + 1
  BY DEF ArgLines, ArgHit
<1>2. ArgEnd(line, k + Len(arg) + 1) - 1 \in Int /\ ArgEnd(line, k + Len(arg) + 1) - 1 <= Len(line)
  BY <1>1, NextAmpersandIs DEF ArgEnd
<1> DEFINE v == SubSeq(line, k + Len(arg) + 1, ArgEnd(line, k + Len(arg) + 1) - 1)
           o == httpdUrlDecode(v, room).out
<1>3. v \in ByteTexts
  BY <1>1, <1>2, ArgLinesAre
<1> HIDE DEF v
<1>4. o \in ByteTexts
  BY <1>3, DecodeGivesPlainly
<1>5. ArgAnswer(line, arg, k, room) = [ok |-> Len(o) + 1, out |-> o]
  BY DEF ArgAnswer, v
<1> HIDE DEF o
<1>6. Len(o) + 1 \in Int
  BY <1>4 DEF ByteTexts
<1> QED BY <1>4, <1>5, <1>6 DEF ArgAnswers

\* The turns of the loop.
FindRun(F, line, arg, room) ==
  /\ F \in [1 .. Len(line) + 1 -> ArgAnswers]
  /\ \A p \in 1 .. Len(line) + 1 : F[p] = ArgTurn(F, line, arg, p, room)
  /\ httpdFindArg(line, arg, room) = F[1]

LEMMA FindRuns ==
  ASSUME NEW line \in ArgLines, NEW arg \in ArgLines, NEW room \in Nat \ {0}
  PROVE  \E F : FindRun(F, line, arg, room)
<1> DEFINE n == Len(line)
           N == n + 1
           R == ArgAnswers
           H == [p \in (1 .. N) \X UNION { [i + 1 .. N -> R] : i \in 1 .. N } |-> ArgTurn(p[2], line, arg, p[1], room)]
           Next1(p) == NextAmpersand(line, p) + 1
<1>1. n \in Nat /\ N \in Nat /\ N = n + 1
  BY DEF ArgLines
<1>2. NoArg \in R
  BY DEF NoArg, ArgAnswers, ByteTexts
<1>3. \A i \in 1 .. N : i # N /\ NextAmpersand(line, i) # 0 => Next1(i) \in i + 1 .. N
  BY <1>1, NextAmpersandIs
<1>4. ASSUME NEW i \in 1 .. N, NEW g, \A j \in i + 1 .. N : g[j] \in R
      PROVE  ArgTurn(g, line, arg, i, room) \in R
  <2>1. CASE i = N \/ line[i] \in LineEnd
    BY <1>2, <2>1 DEF ArgTurn
  <2>2. CASE i # N /\ line[i] \notin LineEnd /\ ArgHit(line, arg, i)
    <3>1. i \in 1 .. Len(line)
      BY <1>1, <2>2
    <3>2. ArgAnswer(line, arg, i, room) \in R
      BY <2>2, <3>1, ArgAnswerIs
    <3> QED BY <2>2, <3>2 DEF ArgTurn
  <2>3. CASE i # N /\ line[i] \notin LineEnd /\ ~ ArgHit(line, arg, i) /\ NextAmpersand(line, i) = 0
    BY <1>2, <2>3 DEF ArgTurn
  <2>4. CASE i # N /\ line[i] \notin LineEnd /\ ~ ArgHit(line, arg, i) /\ NextAmpersand(line, i) # 0
    <3>1. g[Next1(i)] \in R
      BY <1>3, <1>4, <2>4
    <3> QED BY <2>4, <3>1 DEF ArgTurn
  <2> QED BY <2>1, <2>2, <2>3, <2>4
<1> HIDE DEF R
<1>5. ASSUME NEW i \in 1 .. N, NEW g \in [i + 1 .. N -> R]
      PROVE  H[<<i, g>>] = ArgTurn(g, line, arg, i, room)
  <2>1. <<i, g>> \in (1 .. N) \X UNION { [j + 1 .. N -> R] : j \in 1 .. N }
    OBVIOUS
  <2> QED BY <2>1
<1>6. LeadsBack(H, N, R)
  BY <1>4, <1>5 DEF LeadsBack
<1> HIDE DEF H, N
<1>7. PICK F : Backwards(F, 1, N, R, H)
  BY <1>1, <1>6, BackExists
<1>8. F \in [1 .. N -> R] /\ \A i \in 1 .. N : F[i] = H[<<i, [j \in i + 1 .. N |-> F[j]]>>]
  BY <1>7 DEF Backwards
<1>9. ASSUME NEW i \in 1 .. N
      PROVE  F[i] = ArgTurn(F, line, arg, i, room)
  <2> DEFINE g == [j \in i + 1 .. N |-> F[j]]
  <2>1. g \in [i + 1 .. N -> R] /\ \A j \in i + 1 .. N : g[j] = F[j]
    BY <1>8
  <2>2. F[i] = ArgTurn(g, line, arg, i, room)
    BY <1>5, <1>8, <2>1
  <2> HIDE DEF g
  <2>3. ArgTurn(g, line, arg, i, room) = ArgTurn(F, line, arg, i, room)
    <3>1. i # N /\ NextAmpersand(line, i) # 0 => g[Next1(i)] = F[Next1(i)]
      BY <1>3, <2>1
    <3> QED BY <3>1, Zenon DEF ArgTurn, N, n
  <2> QED BY <2>2, <2>3
<1>10. F = [i \in 1 .. N |-> ArgTurn(F, line, arg, i, room)]
  BY <1>8, <1>9
<1> DEFINE one == arg
           c == CHOOSE find : find = [p \in 1 .. n + 1 |->
                  IF p = n + 1 \/ line[p] \in LineEnd THEN NoArg
                  ELSE IF p + Len(one) <= n /\ SubSeq(line, p, p + Len(one)) = Append(one, Equals)
                       THEN LET amp == NextAmpersand(line, p + Len(one) + 1)
                                e == IF amp = 0 THEN n ELSE amp - 1
                                value == httpdUrlDecode(SubSeq(line, p + Len(one) + 1, e), room).out
                            IN [ok |-> Len(value) + 1, out |-> value]
                       ELSE IF NextAmpersand(line, p) = 0 THEN NoArg ELSE find[NextAmpersand(line, p) + 1]]
<1>11. httpdFindArg(line, arg, room) = c[1]
  BY Zenon DEF httpdFindArg, NoArg, n
<1> DEFINE D(f) == [p \in 1 .. n + 1 |->
                  IF p = n + 1 \/ line[p] \in LineEnd THEN NoArg
                  ELSE IF p + Len(one) <= n /\ SubSeq(line, p, p + Len(one)) = Append(one, Equals)
                       THEN LET amp == NextAmpersand(line, p + Len(one) + 1)
                                e == IF amp = 0 THEN n ELSE amp - 1
                                value == httpdUrlDecode(SubSeq(line, p + Len(one) + 1, e), room).out
                            IN [ok |-> Len(value) + 1, out |-> value]
                       ELSE IF NextAmpersand(line, p) = 0 THEN NoArg ELSE f[NextAmpersand(line, p) + 1]]
           E(f) == [p \in 1 .. N |-> ArgTurn(f, line, arg, p, room)]
<1>12. ASSUME NEW f
       PROVE  D(f) = E(f)
  <2> DEFINE d == D(f)
             e == E(f)
             Value(p) == LET amp == NextAmpersand(line, p + Len(one) + 1)
                             z == IF amp = 0 THEN n ELSE amp - 1
                             value == httpdUrlDecode(SubSeq(line, p + Len(one) + 1, z), room).out
                         IN [ok |-> Len(value) + 1, out |-> value]
             Hits(p) == p + Len(one) <= n /\ SubSeq(line, p, p + Len(one)) = Append(one, Equals)
  <2>1. ASSUME NEW p \in 1 .. N
        PROVE  d[p] = ArgTurn(f, line, arg, p, room)
    <3>1. d[p] = IF p = n + 1 \/ line[p] \in LineEnd THEN NoArg
                 ELSE IF Hits(p) THEN Value(p)
                 ELSE IF NextAmpersand(line, p) = 0 THEN NoArg ELSE f[NextAmpersand(line, p) + 1]
      BY Zenon DEF N
    <3>2. p # n + 1 => p \in 1 .. Len(line)
      BY <1>1 DEF N
    <3>3. p # n + 1 => (Hits(p) <=> ArgHit(line, arg, p))
      BY Zenon DEF ArgHit, n
    <3>4. p # n + 1 => Value(p) = ArgAnswer(line, arg, p, room)
      <4> SUFFICES ASSUME p # n + 1 PROVE Value(p) = ArgAnswer(line, arg, p, room)
        OBVIOUS
      <4>1. ArgEnd(line, p + Len(one) + 1) - 1 =
              IF NextAmpersand(line, p + Len(one) + 1) = 0 THEN n ELSE NextAmpersand(line, p + Len(one) + 1) - 1
        BY <1>1 DEF ArgEnd, n
      <4> QED BY <4>1, Zenon DEF ArgAnswer
    <3> HIDE DEF d, Hits, Value
    <3> QED BY <3>1, <3>3, <3>4, Zenon DEF ArgTurn, n
  <2>2. d = [p \in 1 .. N |-> d[p]]
    BY DEF N
  <2> HIDE DEF d
  <2>3. d = e
    BY <2>1, <2>2
  <2> QED BY <2>3 DEF d
<1>13. F = D(F)
  BY <1>10, <1>12, Zenon
<1>14. c = D(c)
  BY <1>13, Zenon
<1> HIDE DEF c, D
<1>15. c = E(c)
  BY <1>12, <1>14, Zenon
<1>16. \A p \in 1 .. N : c[p] = ArgTurn(c, line, arg, p, room)
  BY <1>15, Zenon
<1>17. \A p \in 1 .. N : c[p] \in R
  <2> DEFINE T == { i \in 1 .. N : c[i] \in R }
  <2>1. ASSUME NEW i \in 1 .. N, \A j \in i + 1 .. N : j \in T
        PROVE  i \in T
    <3>1. \A j \in i + 1 .. N : c[j] \in R
      BY <2>1
    <3> QED BY <1>4, <1>16, <3>1
  <2> HIDE DEF T
  <2>2. \A i \in 1 .. N : i \in T
    BY <1>1, <2>1, DownFrom
  <2> QED BY <2>2 DEF T
<1>18. c \in [1 .. N -> R]
  BY <1>15, <1>17
<1> QED BY <1>11, <1>16, <1>18, Zenon DEF FindRun, R, N, n

\* What the loop finds from place p on: the first argument of that name before
\* an argument that begins with the end of the line, or none.
ArgFoundAt(line, arg, p, room, k, r) ==
  /\ k \in ArgStarts(line) /\ p <= k /\ ArgHit(line, arg, k)
  /\ \A j \in ArgStarts(line) : p <= j /\ j <= k => line[j] \notin LineEnd
  /\ \A j \in ArgStarts(line) : p <= j /\ j < k => ~ ArgHit(line, arg, j)
  /\ r = ArgAnswer(line, arg, k, room)

NoneFoundFrom(line, arg, p, r) ==
  /\ r = NoArg
  /\ \A k \in ArgStarts(line) : p <= k /\ ArgHit(line, arg, k) =>
       \E j \in ArgStarts(line) : p <= j /\ j <= k /\ line[j] \in LineEnd

FoundFrom(line, arg, p, room, r) ==
  NoneFoundFrom(line, arg, p, r) \/ \E k \in ArgStarts(line) : ArgFoundAt(line, arg, p, room, k, r)

\* An argument that is not there is passed by.
LEMMA FoundFurther ==
  ASSUME NEW line \in ArgLines, NEW arg \in ArgLines, NEW room, NEW r, NEW p \in ArgStarts(line), NEW q \in Nat,
         p < q, \A j \in ArgStarts(line) : p <= j => j = p \/ q <= j,
         line[p] \notin LineEnd, ~ ArgHit(line, arg, p), FoundFrom(line, arg, q, room, r)
  PROVE  FoundFrom(line, arg, p, room, r)
<1>1. ArgStarts(line) \subseteq Nat /\ p \in Nat /\ Len(line) \in Nat
  BY DEF ArgStarts, ArgLines
<1> HIDE DEF ArgStarts
<1>2. CASE NoneFoundFrom(line, arg, q, r)
  <2>1. ASSUME NEW k \in ArgStarts(line), p <= k, ArgHit(line, arg, k)
        PROVE  \E j \in ArgStarts(line) : p <= j /\ j <= k /\ line[j] \in LineEnd
    <3>1. q <= k
      BY <2>1
    <3>2. PICK j \in ArgStarts(line) : q <= j /\ j <= k /\ line[j] \in LineEnd
      BY <1>2, <2>1, <3>1 DEF NoneFoundFrom
    <3>3. p <= j
      BY <1>1, <3>2
    <3> QED BY <3>2, <3>3
  <2>2. NoneFoundFrom(line, arg, p, r)
    BY <1>2, <2>1 DEF NoneFoundFrom
  <2> QED BY <2>2 DEF FoundFrom
<1>3. ASSUME NEW k \in ArgStarts(line), ArgFoundAt(line, arg, q, room, k, r)
      PROVE  FoundFrom(line, arg, p, room, r)
  <2>1. q <= k /\ p <= k /\ ArgHit(line, arg, k) /\ r = ArgAnswer(line, arg, k, room)
    BY <1>1, <1>3 DEF ArgFoundAt
  <2>2. ASSUME NEW j \in ArgStarts(line), p <= j, j <= k
        PROVE  line[j] \notin LineEnd /\ (j < k => ~ ArgHit(line, arg, j))
    <3>1. CASE j = p
      BY <3>1
    <3>2. CASE q <= j
      BY <1>3, <2>2, <3>2 DEF ArgFoundAt
    <3> QED BY <2>2, <3>1, <3>2
  <2>3. \A j \in ArgStarts(line) : p <= j /\ j < k => ~ ArgHit(line, arg, j)
    BY <1>1, <2>2
  <2>4. ArgFoundAt(line, arg, p, room, k, r)
    BY <2>1, <2>2, <2>3 DEF ArgFoundAt
  <2> QED BY <2>4 DEF FoundFrom
<1> QED BY <1>2, <1>3 DEF FoundFrom

LEMMA FindFinds ==
  ASSUME NEW line \in ArgLines, NEW arg \in ArgLines, NEW room \in Nat \ {0}, NEW F, FindRun(F, line, arg, room)
  PROVE  FoundFrom(line, arg, 1, room, F[1])
<1> DEFINE n == Len(line)
           N == n + 1
           Start(p) == p = N \/ p \in ArgStarts(line)
           T == { p \in 1 .. N : Start(p) => FoundFrom(line, arg, p, room, F[p]) }
<1>1. n \in Nat /\ N \in Nat /\ N = n + 1 /\ ArgStarts(line) \subseteq 1 .. n
  BY DEF ArgLines, ArgStarts
<1>2. ASSUME NEW p \in 1 .. N, \A j \in p + 1 .. N : j \in T, Start(p)
      PROVE  FoundFrom(line, arg, p, room, F[p])
  <2>1. F[p] = ArgTurn(F, line, arg, p, room)
    BY DEF FindRun
  <2>2. CASE p = N
    <3>1. F[p] = NoArg
      BY <2>1, <2>2 DEF ArgTurn
    <3>2. \A k \in ArgStarts(line) : ~ (p <= k)
      BY <1>1, <2>2
    <3> QED BY <3>1, <3>2 DEF FoundFrom, NoneFoundFrom
  <2>3. CASE p # N /\ line[p] \in LineEnd
    <3>1. F[p] = NoArg
      BY <2>1, <2>3 DEF ArgTurn
    <3>2. p \in ArgStarts(line) /\ p <= p
      BY <1>2, <2>3
    <3> QED BY <2>3, <3>1, <3>2 DEF FoundFrom, NoneFoundFrom
  <2>4. CASE p # N /\ line[p] \notin LineEnd /\ ArgHit(line, arg, p)
    <3>1. F[p] = ArgAnswer(line, arg, p, room)
      BY <2>1, <2>4 DEF ArgTurn
    <3>2. p \in ArgStarts(line) /\ p <= p
      BY <1>2, <2>4
    <3>3. \A j \in ArgStarts(line) : (p <= j /\ j <= p => j = p) /\ ~ (p <= j /\ j < p)
      BY <1>1
    <3>4. ArgFoundAt(line, arg, p, room, p, F[p])
      <4> HIDE DEF N, n
      <4> QED BY <2>4, <3>1, <3>2, <3>3, Zenon DEF ArgFoundAt
    <3> QED BY <3>2, <3>4 DEF FoundFrom
  <2>5. CASE p # N /\ line[p] \notin LineEnd /\ ~ ArgHit(line, arg, p) /\ NextAmpersand(line, p) = 0
    <3>1. F[p] = NoArg
      BY <2>1, <2>5 DEF ArgTurn
    <3>2. \A k \in p .. Len(line) : line[k] # Ampersand
      BY <1>1, <2>5, NextAmpersandIs
    <3>3. ASSUME NEW k \in ArgStarts(line), p <= k
          PROVE  k = p
      <4>1. k # p => k - 1 \in p .. Len(line) /\ k # 1
        BY <1>1, <3>3
      <4>2. k = 1 \/ line[k - 1] = Ampersand
        BY DEF ArgStarts
      <4> QED BY <3>2, <4>1, <4>2
    <3> QED BY <2>5, <3>1, <3>3 DEF FoundFrom, NoneFoundFrom
  <2>6. CASE p # N /\ line[p] \notin LineEnd /\ ~ ArgHit(line, arg, p) /\ NextAmpersand(line, p) # 0
    <3> DEFINE m == NextAmpersand(line, p)
               q == m + 1
    <3>1. F[p] = F[q]
      BY <2>1, <2>6 DEF ArgTurn
    <3>2. m \in p .. Len(line) /\ line[m] = Ampersand /\ \A k \in p .. Len(line) : line[k] = Ampersand => m <= k
      BY <1>1, <2>6, NextAmpersandIs
    <3> HIDE DEF m
    <3>3. q \in p + 1 .. N /\ q - 1 = m /\ q \in Nat /\ p < q
      BY <1>1, <3>2
    <3>4. Start(q)
      <4>1. q # N => q \in 1 .. Len(line)
        BY <1>1, <3>3
      <4> QED BY <3>2, <3>3, <4>1 DEF ArgStarts
    <3>5. FoundFrom(line, arg, q, room, F[q])
      BY <1>2, <3>3, <3>4
    <3>6. ASSUME NEW j \in ArgStarts(line), p <= j
          PROVE  j = p \/ q <= j
      <4>1. j # p => j - 1 \in p .. Len(line) /\ j # 1
        BY <1>1, <3>6
      <4>2. j = 1 \/ line[j - 1] = Ampersand
        BY DEF ArgStarts
      <4>3. j # p => m <= j - 1
        BY <3>2, <4>1, <4>2
      <4> QED BY <1>1, <3>2, <4>3
    <3>7. p \in ArgStarts(line)
      BY <1>2, <2>6
    <3> HIDE DEF q, N
    <3> QED BY <2>6, <3>1, <3>3, <3>5, <3>6, <3>7, FoundFurther
  <2> QED BY <2>2, <2>3, <2>4, <2>5, <2>6
<1>3. \A p \in 1 .. N : (\A j \in p + 1 .. N : j \in T) => p \in T
  <2> HIDE DEF Start, N
  <2> QED BY <1>2
<1> HIDE DEF T
<1>4. \A p \in 1 .. N : p \in T
  BY <1>1, <1>3, DownFrom
<1>5. 1 \in 1 .. N /\ (1 = N \/ 1 \in 1 .. n)
  BY <1>1
<1>6. Start(1)
  BY <1>5 DEF ArgStarts
<1> QED BY <1>4, <1>5, <1>6 DEF T

\* The answer is the value decoded, as much of it as fits.
ArgValue(line, arg, k) == Plainly(SubSeq(line, k + Len(arg) + 1, ArgEnd(line, k + Len(arg) + 1) - 1))

ArgCut(line, p, room, r, value) ==
  /\ r.out = SubSeq(value, 1, Min2(Len(value), room - 1))
  /\ value \in ByteTexts /\ r.out \in ByteTexts /\ r.ok = Len(r.out) + 1
  /\ p \in Nat /\ ArgEnd(line, p) \in p .. Len(line) + 1
  /\ ArgEnd(line, p) > Len(line) \/ line[ArgEnd(line, p)] = Ampersand
  /\ \A j \in p .. Len(line) + 1 : j > Len(line) \/ line[j] = Ampersand => ArgEnd(line, p) <= j

LEMMA ArgAnswerCut ==
  ASSUME NEW line \in ArgLines, NEW arg \in ArgLines, NEW k \in 1 .. Len(line), ArgHit(line, arg, k), NEW room \in Nat \ {0}
  PROVE  ArgCut(line, k + Len(arg) + 1, room, ArgAnswer(line, arg, k, room), ArgValue(line, arg, k))
<1> DEFINE p == k + Len(arg) + 1
           e == ArgEnd(line, p)
           v == SubSeq(line, p, e - 1)
           o == httpdUrlDecode(v, room).out
           r == ArgAnswer(line, arg, k, room)
<1>1. Len(line) \in Nat /\ p \in Nat /\ p <= Len(line) + 1 /\ 1 <= p
  BY DEF ArgLines, ArgHit
<1>2. r = [ok |-> Len(o) + 1, out |-> o]
  BY Zenon DEF ArgAnswer
<1>3. ArgValue(line, arg, k) = Plainly(v)
  BY Zenon DEF ArgValue
<1> HIDE DEF p, r
<1>4. /\ e \in p .. Len(line) + 1 /\ (e > Len(line) \/ line[e] = Ampersand)
      /\ \A j \in p .. Len(line) + 1 : j > Len(line) \/ line[j] = Ampersand => e <= j
  BY <1>1, NextAmpersandIs DEF ArgEnd
<1> HIDE DEF e
<1>5. e - 1 \in Int /\ e - 1 <= Len(line)
  BY <1>1, <1>4
<1>6. v \in ByteTexts
  BY <1>1, <1>5, ArgLinesAre
<1> HIDE DEF v
<1>7. /\ Plainly(v) \in ByteTexts /\ o \in ByteTexts
      /\ o = SubSeq(Plainly(v), 1, Min2(Len(Plainly(v)), room - 1))
  BY <1>6, DecodeGivesPlainly
<1> HIDE DEF o
<1>8. r.ok = Len(o) + 1 /\ r.out = o
  BY <1>2
<1>9. /\ r.out = SubSeq(ArgValue(line, arg, k), 1, Min2(Len(ArgValue(line, arg, k)), room - 1))
      /\ ArgValue(line, arg, k) \in ByteTexts /\ r.out \in ByteTexts /\ r.ok = Len(r.out) + 1
  BY <1>3, <1>7, <1>8, Zenon
<1>10. ArgCut(line, p, room, r, ArgValue(line, arg, k))
  BY <1>1, <1>4, <1>9, Zenon DEF ArgCut, e
<1> QED BY <1>10, Zenon DEF r, p

LEMMA ArgCallsOf ==
  ASSUME xcall \in Calls, xcall.fn = "find"
  PROVE  xcall.in \in ArgLines /\ xcall.arg \in ArgLines /\ xcall.room \in Nat \ {0}
BY CallsTyped DEF ArgLines, ByteTexts

LEMMA FoundIsRight ==
  ASSUME xcall.in \in ArgLines, xcall.arg \in ArgLines, xcall.room \in Nat \ {0},
         FoundFrom(xcall.in, xcall.arg, 1, xcall.room, xresult)
  PROVE  ArgFound
<1> DEFINE line == xcall.in
           arg == xcall.arg
           room == xcall.room
           live == { k \in Names : \A j \in Names : j <= k => line[j] \notin LineEnd }
           hits == { k \in live : /\ k + Len(arg) <= Len(line)
                                  /\ SubSeq(line, k, k + Len(arg)) = Append(arg, Equals) }
           kk == CHOOSE j \in hits : \A i \in hits : j <= i
           from == kk + Len(arg) + 1
           ends == { j \in from .. Len(line) + 1 : j > Len(line) \/ line[j] = Ampersand }
           e == CHOOSE j \in ends : \A i \in ends : j <= i
           value == Plainly(SubSeq(line, from, e - 1))
<1> SUFFICES IF hits = {} THEN xresult.ok = -1
             ELSE /\ xresult.ok >= 0
                  /\ xresult.out = SubSeq(value, 1, Min2(Len(value), room - 1))
  BY Zenon DEF ArgFound
<1>1. Names = ArgStarts(line) /\ Names \subseteq 1 .. Len(line) /\ Len(line) \in Nat
  BY DEF Names, ArgStarts, ArgLines
<1>2. \A k \in Names : 1 <= k /\ k \in Nat
  BY <1>1
<1>3. hits = { k \in live : ArgHit(line, arg, k) }
  BY DEF ArgHit
<1>4. CASE NoneFoundFrom(line, arg, 1, xresult)
  <2>1. hits = {}
    <3> SUFFICES ASSUME NEW k \in live, ArgHit(line, arg, k) PROVE FALSE
      BY <1>3
    <3>1. k \in Names /\ \A j \in Names : j <= k => line[j] \notin LineEnd
      OBVIOUS
    <3> HIDE DEF live
    <3>2. \E j \in Names : 1 <= j /\ j <= k /\ line[j] \in LineEnd
      BY <1>1, <1>2, <1>4, <3>1 DEF NoneFoundFrom
    <3> QED BY <3>1, <3>2
  <2>2. xresult.ok = -1
    BY <1>4 DEF NoneFoundFrom, NoArg
  <2> QED BY <2>1, <2>2
<1>5. ASSUME NEW k \in ArgStarts(line), ArgFoundAt(line, arg, 1, room, k, xresult)
      PROVE  hits # {} /\ xresult.ok >= 0 /\ xresult.out = SubSeq(value, 1, Min2(Len(value), room - 1))
  <2>1. /\ ArgHit(line, arg, k) /\ xresult = ArgAnswer(line, arg, k, room)
        /\ \A j \in Names : j <= k => line[j] \notin LineEnd
        /\ \A j \in Names : j < k => ~ ArgHit(line, arg, j)
    BY <1>1, <1>2, <1>5 DEF ArgFoundAt
  <2>2. k \in Names /\ k \in Nat
    BY <1>1, <1>2
  <2>3. k \in hits
    BY <1>3, <2>1, <2>2
  <2>4. \A j \in hits : j \in Names /\ ArgHit(line, arg, j)
    BY <1>3
  <2> HIDE DEF live, hits
  <2>5. ASSUME NEW j \in hits
        PROVE  j \in Nat /\ k <= j
    <3>1. j \in Names /\ ArgHit(line, arg, j)
      BY <2>4
    <3>2. j \in Nat
      BY <1>2, <3>1
    <3>3. ~ (j < k)
      BY <2>1, <3>1, Zenon
    <3> QED BY <2>2, <3>2, <3>3
  <2>6. kk = k
    <3>1. \A j \in hits : (\A i \in hits : j <= i) => j = k
      BY <2>2, <2>3, <2>5
    <3>2. kk \in hits /\ \A i \in hits : kk <= i
      BY <2>3, <2>5
    <3> QED BY <3>1, <3>2
  <2>7. from = k + Len(arg) + 1
    BY <2>6
  <2> HIDE DEF kk, from
  <2> DEFINE z == ArgEnd(line, from)
             v == ArgValue(line, arg, k)
  <2>8. k \in 1 .. Len(line)
    BY <1>1, <2>2
  <2> DEFINE r == ArgAnswer(line, arg, k, room)
  <2>10. /\ r.out = SubSeq(v, 1, Min2(Len(v), room - 1))
         /\ r.out \in ByteTexts /\ r.ok = Len(r.out) + 1
         /\ from \in Nat /\ z \in from .. Len(line) + 1 /\ (z > Len(line) \/ line[z] = Ampersand)
         /\ \A j \in from .. Len(line) + 1 : j > Len(line) \/ line[j] = Ampersand => z <= j
    <3>1. ArgCut(line, k + Len(arg) + 1, room, r, v)
      BY <2>1, <2>8, ArgAnswerCut, Zenon
    <3> HIDE DEF r, v
    <3>2. ArgCut(line, from, room, r, v)
      BY <2>7, <3>1, Zenon
    <3> QED BY <3>2, Zenon DEF ArgCut
  <2>11. v = Plainly(SubSeq(line, from, z - 1))
    BY <2>7, Zenon DEF ArgValue
  <2> HIDE DEF z, v
  <2>12. z \in ends /\ (\A i \in ends : z <= i) /\ \A j \in ends : j \in Nat
    BY <1>1, <2>10
  <2>13. e = z
    <3> HIDE DEF ends
    <3>1. \A j \in ends : (\A i \in ends : j <= i) => j = z
      BY <2>12
    <3>2. e \in ends /\ \A i \in ends : e <= i
      BY <2>12
    <3> QED BY <3>1, <3>2
  <2> HIDE DEF e
  <2>14. value = v
    BY <2>11, <2>13, Zenon
  <2>15. xresult = r
    BY <2>1
  <2> HIDE DEF r
  <2>16. r.ok >= 0
    BY <2>10 DEF ByteTexts
  <2> HIDE DEF value
  <2> QED BY <2>3, <2>10, <2>14, <2>15, <2>16, Zenon
<1> QED BY <1>4, <1>5 DEF FoundFrom

\* A call that is done has done that.
LEMMA CallsFind == DecodedInv => ArgFound
<1> SUFFICES ASSUME DecodedInv, Called("find") PROVE ArgFound
  BY DEF ArgFound
<1>1. xcall \in Calls /\ xcall.fn = "find" /\ xresult = Result(xcall)
  BY DEF DecodedInv, Called
<1>2. xresult = httpdFindArg(xcall.in, xcall.arg, xcall.room)
  BY <1>1 DEF Result
<1>3. xcall.in \in ArgLines /\ xcall.arg \in ArgLines /\ xcall.room \in Nat \ {0}
  BY <1>1, ArgCallsOf
<1>4. PICK F : FindRun(F, xcall.in, xcall.arg, xcall.room)
  BY <1>3, FindRuns
<1>5. FoundFrom(xcall.in, xcall.arg, 1, xcall.room, F[1])
  BY <1>3, <1>4, FindFinds
<1>6. xresult = F[1]
  BY <1>2, <1>4 DEF FindRun
<1> QED BY <1>3, <1>5, <1>6, FoundIsRight

\* httpdFindArg, for any lines, names and sizes of buffer: what it writes is the
\* decoded value of the first argument of the name, before an argument that
\* begins with the end of the line, cut where the buffer ends.
THEOREM FirstArgFound == TextSpec => []ArgFound
<1>1. TextInit => DecodedInv
  BY DEF TextInit, DecodedInv
<1>2. DecodedInv /\ [TextNext]_textVars => DecodedInv'
  BY DEF DecodedInv, TextNext, textVars
<1>3. DecodedInv => ArgFound
  BY CallsFind
<1> QED BY <1>1, <1>2, <1>3, PTL DEF TextSpec

-----------------------------------------------------------------------------
(* base64: a group of three bytes is four digits.                          *)

\* What is known of a state of the coder and the decoder.
Coders == [v : Nat, rem : {0, 2, 4, 6}, out : Seq(Nat), ok : 0 .. 1, stop : 0 .. 1]

Coder(r, rem, out, ok, stop) == r.rem = rem /\ r.out = out /\ r.ok = ok /\ r.stop = stop

\* The powers that are needed.
LEMMA Powers == 2 ^ 0 = 1 /\ 2 ^ 2 = 4 /\ 2 ^ 4 = 16 /\ 2 ^ 6 = 64 /\ 2 ^ 8 = 256 /\ 2 ^ 22 = 4194304
BY SMT

\* Another digit, and the bits that it completes to a byte.
DigitSays(w, v, ch) ==
  /\ w \in Nat
  /\ w % 64 = ch /\ w % 16 = ch % 16 /\ w % 4 = ch % 4
  /\ Bits(w, 4, 8) = (v % 64) * 4 + ch \div 16
  /\ Bits(w, 2, 8) = (v % 16) * 16 + ch \div 4
  /\ Bits(w, 0, 8) = (v % 4) * 64 + ch
  /\ Bits(w, 4, 8) \in Nat /\ Bits(w, 2, 8) \in Nat /\ Bits(w, 0, 8) \in Nat

\* They are those of the number.
LEMMA DigitBits ==
  ASSUME NEW v \in Nat, NEW ch \in 0 .. 63
  PROVE  DigitSays(Shifted(v, 6, ch), v, ch)
<1>0. PICK w : w = Shifted(v, 6, ch)
  OBVIOUS
<1>1. w = (v * 64 + ch) % 4194304
  BY <1>0, Powers DEF Shifted
<1>2. w \in Nat
  BY <1>1
<1>3. w % 64 = ch /\ w % 16 = ch % 16 /\ w % 4 = ch % 4
  BY <1>1
<1>4. Bits(w, 4, 8) = (w \div 16) % 256 /\ Bits(w, 2, 8) = (w \div 4) % 256 /\ Bits(w, 0, 8) = (w \div 1) % 256
  BY Powers DEF Bits
<1>5. (w \div 16) % 256 = (v % 64) * 4 + ch \div 16
  BY <1>1
<1>6. (w \div 4) % 256 = (v % 16) * 16 + ch \div 4
  BY <1>1
<1>7. (w \div 1) % 256 = (v % 4) * 64 + ch
  BY <1>1
<1>8. (w \div 16) % 256 \in Nat /\ (w \div 4) % 256 \in Nat /\ (w \div 1) % 256 \in Nat
  BY <1>2
<1> QED BY <1>0, <1>2, <1>3, <1>4, <1>5, <1>6, <1>7, <1>8 DEF DigitSays

\* Another byte, and the bits that it completes to digits.
ByteSays(w, v, ch) ==
  /\ w \in Nat
  /\ w % 4 = ch % 4 /\ w % 16 = ch % 16
  /\ Bits(w, 2, 6) = ch \div 4
  /\ Bits(w, 4, 6) = (v % 4) * 16 + ch \div 16
  /\ Bits(w, 6, 6) = (v % 16) * 4 + ch \div 64
  /\ Bits(w, 0, 6) = ch % 64

\* They are those of the number.
LEMMA ByteBits ==
  ASSUME NEW v \in Nat, NEW ch \in 0 .. 255
  PROVE  ByteSays(Shifted(v, 8, ch), v, ch)
<1>0. PICK w : w = Shifted(v, 8, ch)
  OBVIOUS
<1>1. w = (v * 256 + ch) % 4194304
  BY <1>0, Powers DEF Shifted
<1>2. w \in Nat /\ w % 4 = ch % 4 /\ w % 16 = ch % 16
  BY <1>1
<1>3. Bits(w, 2, 6) = (w \div 4) % 64 /\ Bits(w, 4, 6) = (w \div 16) % 64
      /\ Bits(w, 6, 6) = (w \div 64) % 64 /\ Bits(w, 0, 6) = (w \div 1) % 64
  BY Powers DEF Bits
<1>4. (w \div 4) % 64 = ch \div 4
  BY <1>1
<1>5. (w \div 16) % 64 = (v % 4) * 16 + ch \div 16
  BY <1>1
<1>6. (w \div 64) % 64 = (v % 16) * 4 + ch \div 64
  BY <1>1
<1>7. (w \div 1) % 64 = ch % 64
  BY <1>1
<1> QED BY <1>0, <1>2, <1>3, <1>4, <1>5, <1>6, <1>7 DEF ByteSays

\* The bits that are left in the end, filled up with zeros.
LEMMA LastBits ==
  ASSUME NEW v \in Nat
  PROVE  Bits(Shifted(v, 4, 0), 0, 6) = (v % 4) * 16 /\ Bits(Shifted(v, 2, 0), 0, 6) = (v % 16) * 4
<1>1. Shifted(v, 4, 0) = (v * 16 + 0) % 4194304 /\ Shifted(v, 2, 0) = (v * 4 + 0) % 4194304
  BY Powers DEF Shifted
<1>2. \A w : Bits(w, 0, 6) = (w \div 1) % 64
  BY Powers DEF Bits
<1>3. (((v * 16 + 0) % 4194304) \div 1) % 64 = (v % 4) * 16
  OBVIOUS
<1>4. (((v * 4 + 0) % 4194304) \div 1) % 64 = (v % 16) * 4
  OBVIOUS
<1> QED BY <1>1, <1>2, <1>3, <1>4

\* What writing x does.
Emitted(r, s, x, room) ==
  /\ r \in Coders /\ r.v = s.v /\ r.rem = s.rem /\ r.stop = s.stop
  /\ s.ok = 0 => r = s
  /\ s.ok = 1 => IF Len(s.out) < room THEN r.ok = 1 /\ r.out = Append(s.out, x) ELSE r.ok = 0 /\ r.out = s.out

\* There is room, or writing fails.
LEMMA EmitIs ==
  ASSUME NEW s \in Coders, NEW x \in Nat, NEW room \in Nat
  PROVE  Emitted(Emit(s, x, room), s, x, room)
<1>0. PICK r : r = Emit(s, x, room)
  OBVIOUS
<1>1. s.out \in Seq(Nat) /\ Len(s.out) \in Nat /\ Append(s.out, x) \in Seq(Nat) /\ s.ok \in 0 .. 1
  BY DEF Coders
<1>5. s = [v |-> s.v, rem |-> s.rem, out |-> s.out, ok |-> s.ok, stop |-> s.stop]
      /\ s.v \in Nat /\ s.rem \in {0, 2, 4, 6} /\ s.stop \in 0 .. 1
  BY DEF Coders
<1>2. CASE s.ok = 1 /\ Len(s.out) < room
  <2>1. r = [s EXCEPT !.out = Append(s.out, x)]
    BY <1>0, <1>1, <1>2 DEF Emit
  <2>2. r = [v |-> s.v, rem |-> s.rem, out |-> Append(s.out, x), ok |-> s.ok, stop |-> s.stop]
    BY <1>5, <2>1
  <2>3. r.v = s.v /\ r.rem = s.rem /\ r.out = Append(s.out, x) /\ r.ok = s.ok /\ r.stop = s.stop
    BY <2>2
  <2>4. r \in Coders
    BY <1>1, <1>5, <2>2 DEF Coders
  <2>5. s.ok = 1 => IF Len(s.out) < room THEN r.ok = 1 /\ r.out = Append(s.out, x) ELSE r.ok = 0 /\ r.out = s.out
    BY <1>2, <2>3
  <2>6. s.ok # 0
    BY <1>2
  <2> QED BY <1>0, <2>3, <2>4, <2>5, <2>6, Zenon DEF Emitted
<1>3. CASE s.ok = 1 /\ ~ (Len(s.out) < room)
  <2>1. r = [s EXCEPT !.ok = 0]
    BY <1>0, <1>1, <1>3 DEF Emit
  <2>2. r = [v |-> s.v, rem |-> s.rem, out |-> s.out, ok |-> 0, stop |-> s.stop]
    BY <1>5, <2>1
  <2>3. r.v = s.v /\ r.rem = s.rem /\ r.out = s.out /\ r.ok = 0 /\ r.stop = s.stop
    BY <2>2
  <2>4. r \in Coders
    BY <1>1, <1>5, <2>2 DEF Coders
  <2>5. s.ok = 1 => IF Len(s.out) < room THEN r.ok = 1 /\ r.out = Append(s.out, x) ELSE r.ok = 0 /\ r.out = s.out
    BY <1>3, <2>3
  <2>6. s.ok # 0
    BY <1>3
  <2> QED BY <1>0, <2>3, <2>4, <2>5, <2>6, Zenon DEF Emitted
<1>4. CASE s.ok = 0
  BY <1>0, <1>4 DEF Emit, Emitted
<1> QED BY <1>0, <1>1, <1>2, <1>3, <1>4

\* The state with other bits.
With(s, v, rem) == [s EXCEPT !.v = v, !.rem = rem]

HasBits(r, s, v, rem) ==
  r \in Coders /\ r.v = v /\ r.rem = rem /\ r.out = s.out /\ r.ok = s.ok /\ r.stop = s.stop

\* It has those bits.
LEMMA WithIs ==
  ASSUME NEW s \in Coders, NEW v \in Nat, NEW rem \in {0, 2, 4, 6}
  PROVE  HasBits(With(s, v, rem), s, v, rem)
<1>1. PICK r : r = With(s, v, rem)
  OBVIOUS
<1>2. HasBits(r, s, v, rem)
  BY <1>1 DEF With, Coders, HasBits
<1> QED BY <1>1, <1>2

\* Reading a digit of base64.
LEMMA Decode64StepIs ==
  ASSUME NEW s \in Coders, NEW ch \in 0 .. 63, s.ok = 1, s.stop = 0, NEW room \in Nat,
         NEW r, r = Decode64Step(s, ch, room), NEW w, w = Shifted(s.v, 6, ch)
  PROVE  /\ s.rem = 0 => r = With(s, w, 6)
         /\ s.rem = 2 => r = Emit(With(s, w, 0), Bits(w, 0, 8), room)
         /\ s.rem = 4 => r = Emit(With(s, w, 2), Bits(w, 2, 8), room)
         /\ s.rem = 6 => r = Emit(With(s, w, 4), Bits(w, 4, 8), room)
<1> DEFINE t == [s EXCEPT !.v = Shifted(s.v, 6, ch), !.rem = s.rem + 6]
<1>1. ch # Space /\ ch \notin {Pad, Bad}
  BY DEF Space, Pad, Bad
<1>2. r = IF t.rem < 8 THEN t ELSE Emit([t EXCEPT !.rem = t.rem - 8], Bits(t.v, t.rem - 8, 8), room)
  BY <1>1 DEF Decode64Step
<1>3. t.v = w /\ t.rem = s.rem + 6 /\ t = With(s, w, s.rem + 6)
  BY DEF Coders, With
<1>4. [t EXCEPT !.rem = t.rem - 8] = With(s, w, (s.rem + 6) - 8)
  BY DEF Coders, With
<1> HIDE DEF t
<1>5. r = IF s.rem + 6 < 8 THEN With(s, w, s.rem + 6)
          ELSE Emit(With(s, w, (s.rem + 6) - 8), Bits(w, (s.rem + 6) - 8, 8), room)
  BY <1>2, <1>3, <1>4
<1>6. CASE s.rem = 0
  BY <1>5, <1>6
<1>7. CASE s.rem = 2
  BY <1>5, <1>7
<1>8. CASE s.rem = 4
  BY <1>5, <1>8
<1>9. CASE s.rem = 6
  BY <1>5, <1>9
<1> QED BY <1>6, <1>7, <1>8, <1>9 DEF Coders

\* What a digit of base64 leaves: a byte more, or the place is not enough.
Byte64(r, s, byte, rem, room) ==
  /\ r.rem = rem /\ r.stop = 0
  /\ IF Len(s.out) < room THEN r.ok = 1 /\ r.out = Append(s.out, byte) ELSE r.ok = 0 /\ r.out = s.out

\* What reading a digit leaves.
DigitGives(r, s, ch, room) ==
  /\ r \in Coders
  /\ s.rem = 0 => r.rem = 6 /\ r.out = s.out /\ r.ok = 1 /\ r.stop = 0 /\ r.v % 64 = ch
  /\ s.rem = 2 => Byte64(r, s, (s.v % 4) * 64 + ch, 0, room)
  /\ s.rem = 4 => Byte64(r, s, (s.v % 16) * 16 + ch \div 4, 2, room) /\ r.v % 4 = ch % 4
  /\ s.rem = 6 => Byte64(r, s, (s.v % 64) * 4 + ch \div 16, 4, room) /\ r.v % 16 = ch % 16

\* Reading a digit of base64, by the bits that are waiting.
LEMMA DigitRead ==
  ASSUME NEW s \in Coders, NEW ch \in 0 .. 63, s.ok = 1, s.stop = 0, NEW room \in Nat
  PROVE  DigitGives(Decode64Step(s, ch, room), s, ch, room)
<1>0. PICK r : r = Decode64Step(s, ch, room)
  OBVIOUS
<1>1. s.v \in Nat /\ s.rem \in {0, 2, 4, 6}
  BY DEF Coders
<1>9. PICK v \in Nat : v = s.v
  BY <1>1
<1>2. PICK w : w = Shifted(v, 6, ch)
  OBVIOUS
<1>3. /\ w \in Nat /\ w % 64 = ch /\ w % 16 = ch % 16 /\ w % 4 = ch % 4
      /\ Bits(w, 4, 8) = (v % 64) * 4 + ch \div 16
      /\ Bits(w, 2, 8) = (v % 16) * 16 + ch \div 4
      /\ Bits(w, 0, 8) = (v % 4) * 64 + ch
      /\ Bits(w, 4, 8) \in Nat /\ Bits(w, 2, 8) \in Nat /\ Bits(w, 0, 8) \in Nat
  <2>1. DigitSays(w, v, ch)
    BY <1>2, DigitBits
  <2> QED BY <2>1 DEF DigitSays
<1>10. w \in Nat
  BY <1>3
<1>11. SUFFICES /\ r \in Coders
                /\ s.rem = 0 => r.rem = 6 /\ r.out = s.out /\ r.ok = 1 /\ r.stop = 0 /\ r.v % 64 = ch
                /\ s.rem = 2 => Byte64(r, s, (s.v % 4) * 64 + ch, 0, room)
                /\ s.rem = 4 => Byte64(r, s, (s.v % 16) * 16 + ch \div 4, 2, room) /\ r.v % 4 = ch % 4
                /\ s.rem = 6 => Byte64(r, s, (s.v % 64) * 4 + ch \div 16, 4, room) /\ r.v % 16 = ch % 16
  BY <1>0, Zenon DEF DigitGives
<1>4. CASE s.rem = 0
  <2>1. r = With(s, w, 6)
    BY <1>2, <1>4, <1>9, <1>0, Decode64StepIs
  <2>2. r \in Coders /\ r.v = w /\ r.rem = 6 /\ r.out = s.out /\ r.ok = s.ok /\ r.stop = s.stop
    <3>1. HasBits(r, s, w, 6)
      BY <1>10, <2>1, WithIs
    <3> QED BY <3>1 DEF HasBits
  <2> QED BY <1>3, <1>4, <2>2
<1>5. ASSUME NEW rem \in {0, 2, 4}, NEW byte \in Nat, r = Emit(With(s, w, rem), byte, room)
      PROVE  r \in Coders /\ Byte64(r, s, byte, rem, room) /\ r.v = w
  <2>1. PICK u : u = With(s, w, rem)
    OBVIOUS
  <2>2. u \in Coders /\ u.v = w /\ u.rem = rem /\ u.out = s.out /\ u.ok = s.ok /\ u.stop = s.stop
    <3>1. HasBits(u, s, w, rem)
      BY <1>10, <2>1, WithIs
    <3> QED BY <3>1 DEF HasBits
  <2>3. r = Emit(u, byte, room)
    BY <1>5, <2>1
  <2>4. /\ r \in Coders /\ r.v = u.v /\ r.rem = u.rem /\ r.stop = u.stop
        /\ IF Len(u.out) < room THEN r.ok = 1 /\ r.out = Append(u.out, byte) ELSE r.ok = 0 /\ r.out = u.out
    <3>1. Emitted(r, u, byte, room)
      BY <2>2, <2>3, EmitIs
    <3> QED BY <2>2, <3>1 DEF Emitted
  <2> QED BY <2>2, <2>4 DEF Byte64
<1>6. CASE s.rem = 2
  <2>1. r = Emit(With(s, w, 0), Bits(w, 0, 8), room)
    BY <1>2, <1>6, <1>9, <1>0, Decode64StepIs
  <2>2. r \in Coders /\ Byte64(r, s, Bits(w, 0, 8), 0, room)
    BY <1>3, <1>5, <2>1
  <2> QED BY <1>3, <1>6, <1>9, <2>2
<1>7. CASE s.rem = 4
  <2>1. r = Emit(With(s, w, 2), Bits(w, 2, 8), room)
    BY <1>2, <1>7, <1>9, <1>0, Decode64StepIs
  <2>2. r \in Coders /\ Byte64(r, s, Bits(w, 2, 8), 2, room) /\ r.v = w
    BY <1>3, <1>5, <2>1
  <2> QED BY <1>3, <1>7, <1>9, <2>2
<1>8. CASE s.rem = 6
  <2>1. r = Emit(With(s, w, 4), Bits(w, 4, 8), room)
    BY <1>2, <1>8, <1>9, <1>0, Decode64StepIs
  <2>2. r \in Coders /\ Byte64(r, s, Bits(w, 4, 8), 4, room) /\ r.v = w
    BY <1>3, <1>5, <2>1
  <2> QED BY <1>3, <1>8, <1>9, <2>2
<1> QED BY <1>1, <1>4, <1>6, <1>7, <1>8

\* The end of the text was read.
Stopped64(r, s) == r.stop = 1 /\ r.ok = 1 /\ r.out = s.out /\ r.rem = s.rem

\* Whatever is read.
LEMMA Decode64Stays ==
  ASSUME NEW s \in Coders, NEW ch \in 0 .. 66, NEW room \in Nat
  PROVE  /\ Decode64Step(s, ch, room) \in Coders
         /\ s.stop = 1 \/ s.ok = 0 \/ ch = Space => Decode64Step(s, ch, room) = s
         /\ s.stop = 0 /\ s.ok = 1 /\ ch \in {Pad, Bad} =>
              Stopped64(Decode64Step(s, ch, room), s)
<1>1. s.stop \in 0 .. 1 /\ s.ok \in 0 .. 1
  BY DEF Coders
<1>2. CASE s.stop = 1 \/ s.ok = 0 \/ ch = Space
  <2>1. Decode64Step(s, ch, room) = s
    BY <1>2 DEF Decode64Step
  <2>2. ~ (s.stop = 0 /\ s.ok = 1 /\ ch \in {Pad, Bad})
    BY <1>2 DEF Pad, Bad, Space
  <2> QED BY <2>1, <2>2
<1>3. CASE s.stop = 0 /\ s.ok = 1 /\ ch \in {Pad, Bad}
  <2>1. ch # Space
    BY <1>3 DEF Pad, Bad, Space
  <2>2. Decode64Step(s, ch, room) = [s EXCEPT !.stop = 1]
    BY <1>3, <2>1 DEF Decode64Step
  <2>3. PICK r : r = [s EXCEPT !.stop = 1]
    OBVIOUS
  <2>4. r \in Coders /\ Stopped64(r, s)
    BY <1>3, <2>3 DEF Coders, Stopped64
  <2> QED BY <1>3, <2>1, <2>2, <2>3, <2>4
<1>4. CASE s.stop = 0 /\ s.ok = 1 /\ ch # Space /\ ch \notin {Pad, Bad}
  <2>1. ch \in 0 .. 63
    BY <1>4 DEF Pad, Bad, Space
  <2>2. Decode64Step(s, ch, room) \in Coders
    BY <1>4, <2>1, DigitRead DEF DigitGives
  <2> QED BY <1>4, <2>2
<1> QED BY <1>1, <1>2, <1>3, <1>4

\* What base64 is written with: digits, padding, blanks and others.
Symbols64 == 0 .. 66

\* The loop of libesphttpd_base64_decode, and its states.
Read64(in, room) == FoldLeft(LAMBDA acc, ch : Decode64Step(acc, ch, room), Code64, in)

Read64Run(st, in, room) ==
  /\ st \in [0 .. Len(in) -> Coders] /\ st[0] = Code64
  /\ \A k \in 1 .. Len(in) : st[k] = Decode64Step(st[k - 1], in[k], room)
  /\ Read64(in, room) = st[Len(in)]

\* The start.
LEMMA Code64Is == Code64 \in Coders /\ Code64.rem = 0 /\ Code64.out = <<>> /\ Code64.ok = 1 /\ Code64.stop = 0
BY DEF Code64, Coders

\* The loop goes through such states.
LEMMA Read64Runs ==
  ASSUME NEW in \in Seq(Symbols64), NEW room \in Nat
  PROVE  \E st : Read64Run(st, in, room)
<1> DEFINE n == Len(in)
           S == Coders
           b == Code64
           Go(s, x) == Decode64Step(s, x, room)
           G == [p \in (1 .. n) \X S |-> Go(p[2], in[p[1]])]
           c == CHOOSE iter : iter = [s \in SUBSET (DOMAIN in) |->
                  IF s = {} THEN b ELSE Go(iter[s \ {Max(s)}], in[Max(s)])]
           fin == c[DOMAIN in]
<1>1. n \in Nat /\ DOMAIN in = 1 .. n /\ \A k \in 1 .. n : in[k] \in Symbols64
  OBVIOUS
<1>2. Read64(in, room) = fin
  BY Zenon DEF Read64, FoldLeft, MapThenFoldSet
<1>3. b \in S
  BY Code64Is
<1>4. ASSUME NEW k \in 1 .. n, NEW s \in S
      PROVE  G[<<k, s>>] = Go(s, in[k]) /\ G[<<k, s>>] \in S
  <2>1. in[k] \in Symbols64
    BY <1>1
  <2> DEFINE x == in[k]
  <2>2. x \in Symbols64
    BY <2>1
  <2> HIDE DEF x
  <2>3. Go(s, x) \in S
    BY <2>2, Decode64Stays DEF Symbols64
  <2>4. <<k, s>> \in (1 .. n) \X S
    OBVIOUS
  <2> HIDE DEF S, Go
  <2> QED BY <2>3, <2>4 DEF x
<1> HIDE DEF n, b, S, G, Go
<1>5. Leads(G, n, S)
  BY <1>4 DEF Leads
<1>6. PICK h \in [SUBSET (1 .. n) -> S] : Folds1(h, n, b, G)
  BY <1>1, <1>3, <1>5, FoldExists
<1> DEFINE D(f) == [s \in SUBSET (1 .. n) |-> IF s = {} THEN b ELSE Go(f[s \ {Max(s)}], in[Max(s)])]
<1>7. h = D(h)
  <2> DEFINE e == [s \in SUBSET (1 .. n) |-> IF s = {} THEN b ELSE G[<<Max(s), h[s \ {Max(s)}]>>]]
  <2>1. h = e
    BY <1>6, Zenon DEF Folds1
  <2>2. ASSUME NEW s \in SUBSET (1 .. n), s # {}
        PROVE  G[<<Max(s), h[s \ {Max(s)}]>>] = Go(h[s \ {Max(s)}], in[Max(s)])
    <3>1. Max(s) \in 1 .. n
      BY <1>1, <2>2, MaxIs
    <3>2. h[s \ {Max(s)}] \in S
      BY <1>6
    <3> QED BY <1>4, <3>1, <3>2
  <2>3. e = D(h)
    BY <2>2
  <2> QED BY <2>1, <2>3, Zenon
<1>8. c = D(c)
  BY <1>1, <1>7, Zenon
<1>9. \A s \in SUBSET (1 .. n) : c[s] = IF s = {} THEN b ELSE Go(c[s \ {Max(s)}], in[Max(s)])
  <2> DEFINE d == D(c)
  <2>1. \A s \in SUBSET (1 .. n) : d[s] = IF s = {} THEN b ELSE Go(c[s \ {Max(s)}], in[Max(s)])
    BY Zenon
  <2>2. c = d
    BY <1>8, Zenon
  <2> HIDE DEF d, c
  <2> QED BY <2>1, <2>2, Zenon
<1> HIDE DEF c
<1>10. c[{}] = b
  BY <1>9
<1>11. ASSUME NEW s \in SUBSET (1 .. n), s # {}, c[s \ {Max(s)}] \in S
       PROVE  c[s] = G[<<Max(s), c[s \ {Max(s)}]>>]
  <2>1. Max(s) \in 1 .. n
    BY <1>1, <1>11, MaxIs
  <2>2. c[s] = Go(c[s \ {Max(s)}], in[Max(s)])
    BY <1>9, <1>11
  <2> QED BY <1>4, <1>11, <2>1, <2>2
<1>12. PICK st : Steps(st, n, S, b, G) /\ c[1 .. n] = st[n]
  <2>1. FoldSteps(c, n, S, G)
    BY <1>11 DEF FoldSteps
  <2>2. n \in Nat
    BY <1>1
  <2> QED BY <1>3, <1>5, <1>10, <2>1, <2>2, FoldRuns
<1>13. /\ st \in [0 .. n -> S] /\ st[0] = b /\ \A k \in 1 .. n : st[k] = G[<<k, st[k - 1]>>]
  BY <1>12 DEF Steps
<1>14. ASSUME NEW k \in 1 .. n
       PROVE  st[k] = Go(st[k - 1], in[k])
  <2>1. k - 1 \in 0 .. n
    BY <1>1
  <2>2. st[k - 1] \in S
    BY <1>13, <2>1
  <2> QED BY <1>4, <1>13, <2>2
<1>15. fin = st[n]
  BY <1>1, <1>12
<1> HIDE DEF fin
<1>16. Read64(in, room) = st[n]
  BY <1>2, <1>15
<1> QED BY <1>13, <1>14, <1>16, Zenon DEF Read64Run, n, S, b, Go


\* The loop of libesphttpd_base64_encode, and its states.
Write64(in, room) == FoldLeft(LAMBDA acc, ch : Encode64Step(acc, ch, room), Code64, in)

\* The padding.
Padded64(s, pads, room) == FoldLeft(LAMBDA acc, x : Emit(acc, x, room), s, pads)

Padded64Run(st, s, pads, room) ==
  /\ st \in [0 .. Len(pads) -> Coders] /\ st[0] = s
  /\ \A k \in 1 .. Len(pads) : st[k] = Emit(st[k - 1], pads[k], room)
  /\ Padded64(s, pads, room) = st[Len(pads)]

\* Writing keeps the state what it is.
LEMMA EmitStays ==
  ASSUME NEW s \in Coders, NEW x \in {Pad}, NEW room \in Nat
  PROVE  Emit(s, x, room) \in Coders
<1>1. x \in Nat
  BY DEF Pad
<1> QED BY <1>1, EmitIs DEF Emitted

\* It is written one by one.
LEMMA Padded64Runs ==
  ASSUME NEW s0 \in Coders, NEW pads \in Seq({Pad}), NEW room \in Nat
  PROVE  \E st : Padded64Run(st, s0, pads, room)
<1> DEFINE n == Len(pads)
           S == Coders
           b == s0
           Go(s, x) == Emit(s, x, room)
           G == [p \in (1 .. n) \X S |-> Go(p[2], pads[p[1]])]
           c == CHOOSE iter : iter = [s \in SUBSET (DOMAIN pads) |->
                  IF s = {} THEN b ELSE Go(iter[s \ {Max(s)}], pads[Max(s)])]
           fin == c[DOMAIN pads]
<1>1. n \in Nat /\ DOMAIN pads = 1 .. n /\ \A k \in 1 .. n : pads[k] \in {Pad}
  OBVIOUS
<1>2. Padded64(s0, pads, room) = fin
  BY Zenon DEF Padded64, FoldLeft, MapThenFoldSet
<1>3. b \in S
  BY Zenon
<1>4. ASSUME NEW k \in 1 .. n, NEW s \in S
      PROVE  G[<<k, s>>] = Go(s, pads[k]) /\ G[<<k, s>>] \in S
  <2>1. pads[k] \in {Pad}
    BY <1>1
  <2> DEFINE x == pads[k]
  <2>2. x \in {Pad}
    BY <2>1
  <2> HIDE DEF x
  <2>3. Go(s, x) \in S
    BY <2>2, EmitStays
  <2>4. <<k, s>> \in (1 .. n) \X S
    OBVIOUS
  <2> HIDE DEF S, Go
  <2> QED BY <2>3, <2>4 DEF x
<1> HIDE DEF n, b, S, G, Go
<1>5. Leads(G, n, S)
  BY <1>4 DEF Leads
<1>6. PICK h \in [SUBSET (1 .. n) -> S] : Folds1(h, n, b, G)
  BY <1>1, <1>3, <1>5, FoldExists
<1> DEFINE D(f) == [s \in SUBSET (1 .. n) |-> IF s = {} THEN b ELSE Go(f[s \ {Max(s)}], pads[Max(s)])]
<1>7. h = D(h)
  <2> DEFINE e == [s \in SUBSET (1 .. n) |-> IF s = {} THEN b ELSE G[<<Max(s), h[s \ {Max(s)}]>>]]
  <2>1. h = e
    BY <1>6, Zenon DEF Folds1
  <2>2. ASSUME NEW s \in SUBSET (1 .. n), s # {}
        PROVE  G[<<Max(s), h[s \ {Max(s)}]>>] = Go(h[s \ {Max(s)}], pads[Max(s)])
    <3>1. Max(s) \in 1 .. n
      BY <1>1, <2>2, MaxIs
    <3>2. h[s \ {Max(s)}] \in S
      BY <1>6
    <3> QED BY <1>4, <3>1, <3>2
  <2>3. e = D(h)
    BY <2>2
  <2> QED BY <2>1, <2>3, Zenon
<1>8. c = D(c)
  BY <1>1, <1>7, Zenon
<1>9. \A s \in SUBSET (1 .. n) : c[s] = IF s = {} THEN b ELSE Go(c[s \ {Max(s)}], pads[Max(s)])
  <2> DEFINE d == D(c)
  <2>1. \A s \in SUBSET (1 .. n) : d[s] = IF s = {} THEN b ELSE Go(c[s \ {Max(s)}], pads[Max(s)])
    BY Zenon
  <2>2. c = d
    BY <1>8, Zenon
  <2> HIDE DEF d, c
  <2> QED BY <2>1, <2>2, Zenon
<1> HIDE DEF c
<1>10. c[{}] = b
  BY <1>9
<1>11. ASSUME NEW s \in SUBSET (1 .. n), s # {}, c[s \ {Max(s)}] \in S
       PROVE  c[s] = G[<<Max(s), c[s \ {Max(s)}]>>]
  <2>1. Max(s) \in 1 .. n
    BY <1>1, <1>11, MaxIs
  <2>2. c[s] = Go(c[s \ {Max(s)}], pads[Max(s)])
    BY <1>9, <1>11
  <2> QED BY <1>4, <1>11, <2>1, <2>2
<1>12. PICK st : Steps(st, n, S, b, G) /\ c[1 .. n] = st[n]
  <2>1. FoldSteps(c, n, S, G)
    BY <1>11 DEF FoldSteps
  <2>2. n \in Nat
    BY <1>1
  <2> QED BY <1>3, <1>5, <1>10, <2>1, <2>2, FoldRuns
<1>13. /\ st \in [0 .. n -> S] /\ st[0] = b /\ \A k \in 1 .. n : st[k] = G[<<k, st[k - 1]>>]
  BY <1>12 DEF Steps
<1>14. ASSUME NEW k \in 1 .. n
       PROVE  st[k] = Go(st[k - 1], pads[k])
  <2>1. k - 1 \in 0 .. n
    BY <1>1
  <2>2. st[k - 1] \in S
    BY <1>13, <2>1
  <2> QED BY <1>4, <1>13, <2>2
<1>15. fin = st[n]
  BY <1>1, <1>12
<1> HIDE DEF fin
<1>16. Padded64(s0, pads, room) = st[n]
  BY <1>2, <1>15
<1> QED BY <1>13, <1>14, <1>16, Zenon DEF Padded64Run, n, S, b, Go

\* What libesphttpd_base64_decode has read of a text, and of one digit more.
LEMMA Read64Next ==
  ASSUME NEW in \in Seq(Symbols64), NEW x \in Symbols64, NEW room \in Nat
  PROVE  /\ Read64(in, room) \in Coders
         /\ Read64(Append(in, x), room) = Decode64Step(Read64(in, room), x, room)
<1> DEFINE n == Len(in)
           t == Append(in, x)
<1>1. n \in Nat /\ t \in Seq(Symbols64) /\ Len(t) = n + 1 /\ t[n + 1] = x /\ \A k \in 1 .. n : t[k] = in[k]
  OBVIOUS
<1>2. PICK f : Read64Run(f, in, room)
  BY Read64Runs
<1> HIDE DEF t
<1>3. PICK g : Read64Run(g, t, room)
  BY <1>1, Read64Runs
<1> HIDE DEF n
<1>4. \A k \in 0 .. n : f[k] = g[k]
  <2> DEFINE T == { k \in 0 .. n : f[k] = g[k] }
  <2>1. 0 \in T
    BY <1>1, <1>2, <1>3 DEF Read64Run
  <2>2. ASSUME NEW k \in 0 .. n - 1, k \in T
        PROVE  k + 1 \in T
    <3>1. k + 1 \in 1 .. n /\ k + 1 \in 1 .. n + 1 /\ (k + 1) - 1 = k /\ f[k] = g[k] /\ k + 1 \in 0 .. n
      BY <1>1, <2>2
    <3>2. f[k + 1] = Decode64Step(f[k], in[k + 1], room)
      BY <1>2, <3>1 DEF Read64Run, n
    <3>3. g[k + 1] = Decode64Step(g[k], t[k + 1], room)
      BY <1>1, <1>3, <3>1 DEF Read64Run
    <3>4. t[k + 1] = in[k + 1]
      BY <1>1, <3>1
    <3>5. f[k + 1] = g[k + 1]
      BY <3>1, <3>2, <3>3, <3>4
    <3> QED BY <3>1, <3>5
  <2> HIDE DEF T
  <2>3. \A k \in 0 .. n : k \in T
    BY <1>1, <2>1, <2>2, UpTo
  <2> QED BY <2>3 DEF T
<1>5. Read64(in, room) = g[n] /\ Read64(in, room) \in Coders
  <2>1. n \in 0 .. n
    BY <1>1
  <2>2. Read64(in, room) = f[n] /\ f[n] \in Coders
    BY <1>2, <2>1 DEF Read64Run, n
  <2> QED BY <1>4, <2>1, <2>2
<1>6. Read64(t, room) = Decode64Step(g[n], t[n + 1], room)
  <2>1. n + 1 \in 1 .. n + 1 /\ (n + 1) - 1 = n
    BY <1>1
  <2> QED BY <1>1, <1>3, <2>1 DEF Read64Run
<1> QED BY <1>1, <1>5, <1>6 DEF t

\* Of nothing.
LEMMA ReadNothing ==
  ASSUME NEW room \in Nat
  PROVE  Read64(<<>>, room) = Code64
<1>1. <<>> \in Seq(Symbols64) /\ Len(<<>>) = 0
  OBVIOUS
<1>2. PICK f : Read64Run(f, <<>>, room)
  BY <1>1, Read64Runs
<1> QED BY <1>1, <1>2 DEF Read64Run

\* Between two bytes at most four bits are waiting.
Encoders == { s \in Coders : s.rem \in {0, 2, 4} /\ s.stop = 0 }

\* Writing a byte.
LEMMA Encode64StepIs ==
  ASSUME NEW s \in Encoders, NEW ch, NEW room \in Nat, NEW w, w = Shifted(s.v, 8, ch), w \in Nat,
         Bits(w, 2, 6) \in Nat, Bits(w, 4, 6) \in Nat, Bits(w, 6, 6) \in Nat
  PROVE  /\ s.rem = 0 => Encode64Step(s, ch, room) = Emit(With(s, w, 2), Bits(w, 2, 6), room)
         /\ s.rem = 2 => Encode64Step(s, ch, room) = Emit(With(s, w, 4), Bits(w, 4, 6), room)
         /\ s.rem = 4 => Encode64Step(s, ch, room)
                           = Emit(With(Emit(With(s, w, 6), Bits(w, 6, 6), room), w, 0), Bits(w, 0, 6), room)
<1> DEFINE t == [s EXCEPT !.v = w, !.rem = s.rem + 8]
           digit(u) == IF u.rem < 6 THEN u ELSE Emit([u EXCEPT !.rem = u.rem - 6], Bits(u.v, u.rem - 6, 6), room)
           a == digit(t)
<1>1. Encode64Step(s, ch, room) = digit(a)
  BY DEF Encode64Step
<1>2. s \in Coders /\ s.rem \in {0, 2, 4}
  BY DEF Encoders
<1>3. t.v = w /\ t.rem = s.rem + 8 /\ [t EXCEPT !.rem = t.rem - 6] = With(s, w, (s.rem + 8) - 6)
  BY <1>2 DEF Coders, With
<1>4. a = Emit(With(s, w, (s.rem + 8) - 6), Bits(w, (s.rem + 8) - 6, 6), room)
  <2> HIDE DEF t
  <2> QED BY <1>2, <1>3
<1> HIDE DEF t, a
<1>5. ASSUME NEW rem \in {2, 4, 6}, (s.rem + 8) - 6 = rem, Bits(w, rem, 6) \in Nat
      PROVE  a \in Coders /\ a.v = w /\ a.rem = rem /\ a = Emit(With(s, w, rem), Bits(w, rem, 6), room)
  <2>1. PICK u : u = With(s, w, rem)
    OBVIOUS
  <2>2. HasBits(u, s, w, rem)
    BY <1>2, <2>1, WithIs
  <2>3. u \in Coders /\ u.v = w /\ u.rem = rem
    BY <2>2 DEF HasBits
  <2>4. a = Emit(u, Bits(w, rem, 6), room)
    <3> QED BY <1>4, <1>5, <2>1, Zenon
  <2>5. Emitted(a, u, Bits(w, rem, 6), room)
    BY <1>5, <2>3, <2>4, EmitIs
  <2> QED BY <2>1, <2>3, <2>4, <2>5 DEF Emitted
<1>6. CASE s.rem = 0
  <2>1. a.rem = 2 /\ a = Emit(With(s, w, 2), Bits(w, 2, 6), room)
    BY <1>5, <1>6
  <2> QED BY <1>1, <1>6, <2>1
<1>7. CASE s.rem = 2
  <2>1. a.rem = 4 /\ a = Emit(With(s, w, 4), Bits(w, 4, 6), room)
    BY <1>5, <1>7
  <2> QED BY <1>1, <1>7, <2>1
<1>8. CASE s.rem = 4
  <2>1. a \in Coders /\ a.v = w /\ a.rem = 6 /\ a = Emit(With(s, w, 6), Bits(w, 6, 6), room)
    BY <1>5, <1>8
  <2>2. [a EXCEPT !.rem = 6 - 6] = With(a, w, 0)
    <3>1. a = [v |-> w, rem |-> a.rem, out |-> a.out, ok |-> a.ok, stop |-> a.stop]
      BY <2>1 DEF Coders
    <3>2. [a EXCEPT !.rem = 6 - 6] = [v |-> w, rem |-> 0, out |-> a.out, ok |-> a.ok, stop |-> a.stop]
      BY <3>1
    <3>3. With(a, w, 0) = [v |-> w, rem |-> 0, out |-> a.out, ok |-> a.ok, stop |-> a.stop]
      <4>1. PICK x : x = With(a, w, 0)
        OBVIOUS
      <4>2. HasBits(x, a, w, 0)
        BY <2>1, <4>1, WithIs
      <4>3. x \in Coders /\ x.v = w /\ x.rem = 0 /\ x.out = a.out /\ x.ok = a.ok /\ x.stop = a.stop
        BY <4>2 DEF HasBits
      <4>4. x = [v |-> x.v, rem |-> x.rem, out |-> x.out, ok |-> x.ok, stop |-> x.stop]
        BY <4>3 DEF Coders
      <4> QED BY <4>1, <4>3, <4>4
    <3> QED BY <3>2, <3>3
  <2>3. digit(a) = Emit([a EXCEPT !.rem = 6 - 6], Bits(w, 6 - 6, 6), room)
    BY <2>1
  <2> HIDE DEF digit
  <2>4. digit(a) = Emit(With(a, w, 0), Bits(w, 0, 6), room)
    BY <2>2, <2>3
  <2> QED BY <1>1, <1>8, <2>1, <2>4
<1> QED BY <1>2, <1>6, <1>7, <1>8

\* What is encoded, and what base64 has for digits.
Octets == 0 .. 255
Digits64 == 0 .. 63

\* r is s with a digit more written, if there is room, and with other bits waiting.
OneDigit(r, s, w, rem, x, room, n) ==
  /\ r \in Coders /\ r.v = w /\ r.rem = rem /\ r.stop = 0
  /\ s.ok = 0 => r.ok = 0
  /\ s.ok = 1 /\ ~ (Len(s.out) < room) => r.ok = 0
  /\ s.ok = 1 /\ Len(s.out) < room =>
       /\ r.ok = 1 /\ r.out \in Seq(Symbols64) /\ Len(r.out) = Len(s.out) + 1
       /\ Read64(r.out, n) = Decode64Step(Read64(s.out, n), x, n)

\* Digits are written like that.
LEMMA DigitWritten ==
  ASSUME NEW s \in Coders, s.stop = 0, s.ok = 1 => s.out \in Seq(Symbols64), NEW w \in Nat, NEW rem \in {0, 2, 4, 6},
         NEW x \in Digits64, NEW room \in Nat, NEW n \in Nat
  PROVE  OneDigit(Emit(With(s, w, rem), x, room), s, w, rem, x, room, n)
<1>1. PICK t : t = With(s, w, rem)
  OBVIOUS
<1>2. HasBits(t, s, w, rem)
  BY <1>1, WithIs
<1>3. t \in Coders /\ t.v = w /\ t.rem = rem /\ t.out = s.out /\ t.ok = s.ok /\ t.stop = 0
  BY <1>2 DEF HasBits
<1>4. PICK r : r = Emit(t, x, room)
  OBVIOUS
<1>5. x \in Nat /\ x \in Symbols64
  BY DEF Digits64, Symbols64
<1>6. Emitted(r, t, x, room)
  BY <1>3, <1>4, <1>5, EmitIs
<1>7. r \in Coders /\ r.v = w /\ r.rem = rem /\ r.stop = 0 /\ (s.ok = 0 => r.ok = 0)
      /\ (s.ok = 1 /\ ~ (Len(s.out) < room) => r.ok = 0)
      /\ (s.ok = 1 /\ Len(s.out) < room => r.ok = 1 /\ r.out = Append(s.out, x))
  BY <1>3, <1>6 DEF Emitted
<1>8. ASSUME s.ok = 1, Len(s.out) < room
      PROVE  /\ r.out \in Seq(Symbols64) /\ Len(r.out) = Len(s.out) + 1
             /\ Read64(r.out, n) = Decode64Step(Read64(s.out, n), x, n)
  <2>1. s.out \in Seq(Symbols64) /\ r.out = Append(s.out, x)
    BY <1>7, <1>8
  <2>2. PICK o \in Seq(Symbols64) : o = s.out
    BY <2>1
  <2>3. Read64(Append(o, x), n) = Decode64Step(Read64(o, n), x, n)
    BY <1>5, Read64Next
  <2>4. Append(o, x) \in Seq(Symbols64) /\ Len(Append(o, x)) = Len(o) + 1
    BY <1>5
  <2> QED BY <2>1, <2>2, <2>3, <2>4
<1>9. OneDigit(r, s, w, rem, x, room, n)
  BY <1>7, <1>8, Zenon DEF OneDigit
<1> QED BY <1>1, <1>4, <1>9

\* One byte more of a text.
LEMMA ByteMore ==
  ASSUME NEW in \in Seq(Octets), NEW k \in 0 .. Len(in) - 1
  PROVE  /\ SubSeq(in, 1, k) \in Seq(Octets) /\ Len(SubSeq(in, 1, k)) = k
         /\ Append(SubSeq(in, 1, k), in[k + 1]) = SubSeq(in, 1, k + 1)
<1>1. k \in Nat /\ k + 1 \in 1 .. Len(in) /\ \A i \in 1 .. k + 1 : in[i] \in Octets
  OBVIOUS
<1>2. /\ SubSeq(in, 1, k) \in Seq(Octets) /\ Len(SubSeq(in, 1, k)) = k
      /\ \A i \in 1 .. k : SubSeq(in, 1, k)[i] = in[i]
  OBVIOUS
<1>3. /\ SubSeq(in, 1, k + 1) \in Seq(Octets) /\ Len(SubSeq(in, 1, k + 1)) = k + 1
      /\ \A i \in 1 .. k + 1 : SubSeq(in, 1, k + 1)[i] = in[i]
  OBVIOUS
<1> DEFINE a == SubSeq(in, 1, k)
           b == SubSeq(in, 1, k + 1)
           c == Append(a, in[k + 1])
<1>4. /\ a \in Seq(Octets) /\ Len(a) = k /\ b \in Seq(Octets) /\ Len(b) = k + 1 /\ in[k + 1] \in Octets
      /\ \A i \in 1 .. k : a[i] = in[i]
      /\ \A i \in 1 .. k + 1 : b[i] = in[i]
  BY <1>1, <1>2, <1>3
<1> HIDE DEF a, b
<1>5. c \in Seq(Octets) /\ Len(c) = k + 1 /\ c[k + 1] = in[k + 1] /\ \A i \in 1 .. k : c[i] = in[i]
  BY <1>1, <1>4
<1>6. \A i \in 1 .. k + 1 : c[i] = b[i]
  BY <1>1, <1>4, <1>5
<1> HIDE DEF c
<1>7. c = b
  BY <1>1, <1>4, <1>5, <1>6
<1> QED BY <1>2, <1>7 DEF a, b, c

\* What the decoder has of k bytes, the last j of them in a group that is not
\* complete, from the digits written so far, and what is not yet written.
Reads(d, v, in, k, j) ==
  /\ d.ok = 1 /\ d.stop = 0
  /\ j = 0 => d.rem = 0 /\ d.out = SubSeq(in, 1, k)
  /\ j = 1 => d.rem = 6 /\ d.out = SubSeq(in, 1, k - 1) /\ d.v % 64 = in[k] \div 4 /\ v % 4 = in[k] % 4
  /\ j = 2 => d.rem = 4 /\ d.out = SubSeq(in, 1, k - 1) /\ d.v % 16 = in[k] \div 16 /\ v % 16 = in[k] % 16

\* The coder has written m groups of three bytes and j bytes more, or had no room.
Coupled(s, in, m, j, room) ==
  /\ s \in Coders /\ s.stop = 0 /\ s.rem = 2 * j
  /\ s.ok = 0 => 4 * m + j > room
  /\ s.ok = 1 => /\ 4 * m + j <= room /\ s.out \in Seq(Symbols64) /\ Len(s.out) = 4 * m + j
                 /\ Reads(Read64(s.out, Len(in)), s.v, in, 3 * m + j, j)

\* The bits of a byte, put together again.
LEMMA BitsBack ==
  ASSUME NEW b \in Octets, NEW ch \in Octets
  PROVE  /\ ch \div 4 \in Digits64 /\ ch % 64 \in Digits64
         /\ (b % 4) * 16 + ch \div 16 \in Digits64 /\ (b % 16) * 4 + ch \div 64 \in Digits64
         /\ (b \div 4) * 4 + ((b % 4) * 16 + ch \div 16) \div 16 = b
         /\ ((b % 4) * 16 + ch \div 16) % 16 = ch \div 16
         /\ (b \div 16) * 16 + ((b % 16) * 4 + ch \div 64) \div 4 = b
         /\ ((b % 16) * 4 + ch \div 64) % 4 = ch \div 64
         /\ (ch \div 64) * 64 + (ch % 64) = ch
<1>1. b \in 0 .. 255 /\ ch \in 0 .. 255
  BY DEF Octets
<1>2. ch \div 4 \in Digits64 /\ ch % 64 \in Digits64
  BY <1>1 DEF Digits64
<1>3. (b % 4) * 16 + ch \div 16 \in Digits64
  BY <1>1 DEF Digits64
<1>4. (b % 16) * 4 + ch \div 64 \in Digits64
  BY <1>1 DEF Digits64
<1>5. (b \div 4) * 4 + ((b % 4) * 16 + ch \div 16) \div 16 = b
  BY <1>1
<1>6. ((b % 4) * 16 + ch \div 16) % 16 = ch \div 16
  BY <1>1
<1>7. (b \div 16) * 16 + ((b % 16) * 4 + ch \div 64) \div 4 = b
  BY <1>1
<1>8. ((b % 16) * 4 + ch \div 64) % 4 = ch \div 64
  BY <1>1
<1>9. (ch \div 64) * 64 + (ch % 64) = ch
  BY <1>1
<1> QED BY <1>2, <1>3, <1>4, <1>5, <1>6, <1>7, <1>8, <1>9

\* What libesphttpd_base64_encode writes for a byte, with w the bits then and d, x
\* and y what it has for digits.
EncodesTo(r, s, w, ch, room) ==
  /\ s.rem = 0 => r = Emit(With(s, w, 2), ch \div 4, room)
  /\ s.rem = 2 => r = Emit(With(s, w, 4), (s.v % 4) * 16 + ch \div 16, room)
  /\ s.rem = 4 => r = Emit(With(Emit(With(s, w, 6), (s.v % 16) * 4 + ch \div 64, room), w, 0), ch % 64, room)
  /\ w \in Nat /\ w % 4 = ch % 4 /\ w % 16 = ch % 16

\* The digits of the byte.
LEMMA ByteWritten ==
  ASSUME NEW s \in Encoders, NEW ch \in Octets, NEW room \in Nat
  PROVE  EncodesTo(Encode64Step(s, ch, room), s, Shifted(s.v, 8, ch), ch, room)
<1>1. ch \in 0 .. 255 /\ s.v \in Nat /\ s \in Coders
  BY DEF Octets, Encoders, Coders
<1>2. PICK v \in Nat : v = s.v
  BY <1>1
<1>3. PICK w : w = Shifted(v, 8, ch)
  OBVIOUS
<1>4. ByteSays(w, v, ch)
  BY <1>1, <1>3, ByteBits
<1>5. /\ w \in Nat /\ w % 4 = ch % 4 /\ w % 16 = ch % 16
      /\ Bits(w, 2, 6) = ch \div 4
      /\ Bits(w, 4, 6) = (v % 4) * 16 + ch \div 16
      /\ Bits(w, 6, 6) = (v % 16) * 4 + ch \div 64
      /\ Bits(w, 0, 6) = ch % 64
  BY <1>4 DEF ByteSays
<1>6. ch \div 4 \in Nat /\ (v % 4) * 16 + ch \div 16 \in Nat /\ (v % 16) * 4 + ch \div 64 \in Nat
  BY <1>1
<1>7. w = Shifted(s.v, 8, ch)
  BY <1>2, <1>3
<1>8. Bits(w, 2, 6) \in Nat /\ Bits(w, 4, 6) \in Nat /\ Bits(w, 6, 6) \in Nat
  BY <1>5, <1>6
<1> DEFINE r == Encode64Step(s, ch, room)
<1>9. /\ s.rem = 0 => r = Emit(With(s, w, 2), Bits(w, 2, 6), room)
      /\ s.rem = 2 => r = Emit(With(s, w, 4), Bits(w, 4, 6), room)
      /\ s.rem = 4 => r = Emit(With(Emit(With(s, w, 6), Bits(w, 6, 6), room), w, 0), Bits(w, 0, 6), room)
  BY <1>5, <1>7, <1>8, Encode64StepIs
<1> HIDE DEF r
<1>10. /\ s.rem = 0 => r = Emit(With(s, w, 2), ch \div 4, room)
       /\ s.rem = 2 => r = Emit(With(s, w, 4), (s.v % 4) * 16 + ch \div 16, room)
       /\ s.rem = 4 => r = Emit(With(Emit(With(s, w, 6), (s.v % 16) * 4 + ch \div 64, room), w, 0), ch % 64, room)
  BY <1>2, <1>5, <1>9
<1>11. EncodesTo(r, s, w, ch, room)
  BY <1>5, <1>10, Zenon DEF EncodesTo
<1> QED BY <1>7, <1>11 DEF r

\* A state with that many bits.
Holding(r, rem, stop) == r \in Coders /\ r.rem = rem /\ r.stop = stop

\* A digit written leaves a state with those bits.
LEMMA DigitStays ==
  ASSUME NEW s \in Coders, NEW w \in Nat, NEW rem \in {0, 2, 4, 6}, NEW x \in Nat, NEW room \in Nat
  PROVE  Holding(Emit(With(s, w, rem), x, room), rem, s.stop)
<1>1. PICK t : t = With(s, w, rem)
  OBVIOUS
<1>2. HasBits(t, s, w, rem)
  BY <1>1, WithIs
<1>3. t \in Coders /\ t.rem = rem /\ t.stop = s.stop
  BY <1>2 DEF HasBits
<1>4. PICK r : r = Emit(t, x, room)
  OBVIOUS
<1>5. Emitted(r, t, x, room)
  BY <1>3, <1>4, EmitIs
<1>6. Holding(r, rem, s.stop)
  BY <1>3, <1>5 DEF Emitted, Holding
<1> QED BY <1>1, <1>4, <1>6

\* Writing a byte leaves at most four bits.
LEMMA WriterStays ==
  ASSUME NEW s \in Encoders, NEW ch \in Octets, NEW room \in Nat
  PROVE  Encode64Step(s, ch, room) \in Encoders
<1>1. s \in Coders /\ s.rem \in {0, 2, 4} /\ s.stop = 0 /\ s.v \in Nat /\ ch \in 0 .. 255
  BY DEF Encoders, Coders, Octets
<1>2. PICK r : r = Encode64Step(s, ch, room)
  OBVIOUS
<1>3. PICK w : w = Shifted(s.v, 8, ch)
  OBVIOUS
<1>4. EncodesTo(r, s, w, ch, room)
  BY <1>2, <1>3, ByteWritten
<1>5. w \in Nat
  BY <1>4 DEF EncodesTo
<1>6. ch \div 4 \in Nat /\ (s.v % 4) * 16 + ch \div 16 \in Nat /\ (s.v % 16) * 4 + ch \div 64 \in Nat /\ ch % 64 \in Nat
  <2>1. PICK v \in Nat : v = s.v
    BY <1>1
  <2>2. ch \div 4 \in Nat /\ (v % 4) * 16 + ch \div 16 \in Nat /\ (v % 16) * 4 + ch \div 64 \in Nat /\ ch % 64 \in Nat
    BY <1>1
  <2> QED BY <2>1, <2>2
<1>7. CASE s.rem = 0
  <2>1. r = Emit(With(s, w, 2), ch \div 4, room)
    BY <1>4, <1>7 DEF EncodesTo
  <2>2. Holding(r, 2, s.stop)
    BY <1>1, <1>5, <1>6, <2>1, DigitStays
  <2> QED BY <1>1, <1>2, <2>2 DEF Encoders, Holding
<1>8. CASE s.rem = 2
  <2>1. r = Emit(With(s, w, 4), (s.v % 4) * 16 + ch \div 16, room)
    BY <1>4, <1>8 DEF EncodesTo
  <2>2. Holding(r, 4, s.stop)
    BY <1>1, <1>5, <1>6, <2>1, DigitStays
  <2> QED BY <1>1, <1>2, <2>2 DEF Encoders, Holding
<1>9. CASE s.rem = 4
  <2>1. PICK a : a = Emit(With(s, w, 6), (s.v % 16) * 4 + ch \div 64, room)
    OBVIOUS
  <2>2. r = Emit(With(a, w, 0), ch % 64, room)
    BY <1>4, <1>9, <2>1 DEF EncodesTo
  <2>3. Holding(a, 6, s.stop)
    BY <1>1, <1>5, <1>6, <2>1, DigitStays
  <2>4. a \in Coders /\ a.stop = 0
    BY <1>1, <2>3 DEF Holding
  <2>5. Holding(r, 0, a.stop)
    BY <1>5, <1>6, <2>2, <2>4, DigitStays
  <2> QED BY <1>2, <2>4, <2>5 DEF Encoders, Holding
<1> QED BY <1>1, <1>7, <1>8, <1>9

\* The states of the loop of libesphttpd_base64_encode.
Write64Run(st, in, room) ==
  /\ st \in [0 .. Len(in) -> Encoders] /\ st[0] = Code64
  /\ \A k \in 1 .. Len(in) : st[k] = Encode64Step(st[k - 1], in[k], room)
  /\ Write64(in, room) = st[Len(in)]

\* It begins so.
LEMMA WriterStarts == Code64 \in Encoders
BY Code64Is DEF Encoders

\* The loop goes through such states.
LEMMA Write64Runs ==
  ASSUME NEW in \in Seq(Octets), NEW room \in Nat
  PROVE  \E st : Write64Run(st, in, room)
<1> DEFINE n == Len(in)
           S == Encoders
           b == Code64
           Go(s, x) == Encode64Step(s, x, room)
           G == [p \in (1 .. n) \X S |-> Go(p[2], in[p[1]])]
           c == CHOOSE iter : iter = [s \in SUBSET (DOMAIN in) |->
                  IF s = {} THEN b ELSE Go(iter[s \ {Max(s)}], in[Max(s)])]
           fin == c[DOMAIN in]
<1>1. n \in Nat /\ DOMAIN in = 1 .. n /\ \A k \in 1 .. n : in[k] \in Octets
  OBVIOUS
<1>2. Write64(in, room) = fin
  BY Zenon DEF Write64, FoldLeft, MapThenFoldSet
<1>3. b \in S
  BY WriterStarts
<1>4. ASSUME NEW k \in 1 .. n, NEW s \in S
      PROVE  G[<<k, s>>] = Go(s, in[k]) /\ G[<<k, s>>] \in S
  <2>1. in[k] \in Octets
    BY <1>1
  <2> DEFINE x == in[k]
  <2>2. x \in Octets
    BY <2>1
  <2> HIDE DEF x
  <2>3. Go(s, x) \in S
    BY <2>2, WriterStays
  <2>4. <<k, s>> \in (1 .. n) \X S
    OBVIOUS
  <2> HIDE DEF S, Go
  <2> QED BY <2>3, <2>4 DEF x
<1> HIDE DEF n, b, S, G, Go
<1>5. Leads(G, n, S)
  BY <1>4 DEF Leads
<1>6. PICK h \in [SUBSET (1 .. n) -> S] : Folds1(h, n, b, G)
  BY <1>1, <1>3, <1>5, FoldExists
<1> DEFINE D(f) == [s \in SUBSET (1 .. n) |-> IF s = {} THEN b ELSE Go(f[s \ {Max(s)}], in[Max(s)])]
<1>7. h = D(h)
  <2> DEFINE e == [s \in SUBSET (1 .. n) |-> IF s = {} THEN b ELSE G[<<Max(s), h[s \ {Max(s)}]>>]]
  <2>1. h = e
    BY <1>6, Zenon DEF Folds1
  <2>2. ASSUME NEW s \in SUBSET (1 .. n), s # {}
        PROVE  G[<<Max(s), h[s \ {Max(s)}]>>] = Go(h[s \ {Max(s)}], in[Max(s)])
    <3>1. Max(s) \in 1 .. n
      BY <1>1, <2>2, MaxIs
    <3>2. h[s \ {Max(s)}] \in S
      BY <1>6
    <3> QED BY <1>4, <3>1, <3>2
  <2>3. e = D(h)
    BY <2>2
  <2> QED BY <2>1, <2>3, Zenon
<1>8. c = D(c)
  BY <1>1, <1>7, Zenon
<1>9. \A s \in SUBSET (1 .. n) : c[s] = IF s = {} THEN b ELSE Go(c[s \ {Max(s)}], in[Max(s)])
  <2> DEFINE d == D(c)
  <2>1. \A s \in SUBSET (1 .. n) : d[s] = IF s = {} THEN b ELSE Go(c[s \ {Max(s)}], in[Max(s)])
    BY Zenon
  <2>2. c = d
    BY <1>8, Zenon
  <2> HIDE DEF d, c
  <2> QED BY <2>1, <2>2, Zenon
<1> HIDE DEF c
<1>10. c[{}] = b
  BY <1>9
<1>11. ASSUME NEW s \in SUBSET (1 .. n), s # {}, c[s \ {Max(s)}] \in S
       PROVE  c[s] = G[<<Max(s), c[s \ {Max(s)}]>>]
  <2>1. Max(s) \in 1 .. n
    BY <1>1, <1>11, MaxIs
  <2>2. c[s] = Go(c[s \ {Max(s)}], in[Max(s)])
    BY <1>9, <1>11
  <2> QED BY <1>4, <1>11, <2>1, <2>2
<1>12. PICK st : Steps(st, n, S, b, G) /\ c[1 .. n] = st[n]
  <2>1. FoldSteps(c, n, S, G)
    BY <1>11 DEF FoldSteps
  <2>2. n \in Nat
    BY <1>1
  <2> QED BY <1>3, <1>5, <1>10, <2>1, <2>2, FoldRuns
<1>13. /\ st \in [0 .. n -> S] /\ st[0] = b /\ \A k \in 1 .. n : st[k] = G[<<k, st[k - 1]>>]
  BY <1>12 DEF Steps
<1>14. ASSUME NEW k \in 1 .. n
       PROVE  st[k] = Go(st[k - 1], in[k])
  <2>1. k - 1 \in 0 .. n
    BY <1>1
  <2>2. st[k - 1] \in S
    BY <1>13, <2>1
  <2> QED BY <1>4, <1>13, <2>2
<1>15. fin = st[n]
  BY <1>1, <1>12
<1> HIDE DEF fin
<1>16. Write64(in, room) = st[n]
  BY <1>2, <1>15
<1> QED BY <1>13, <1>14, <1>16, Zenon DEF Write64Run, n, S, b, Go

\* A byte that completes what was read.
ReadOne(r, rem, in, k) ==
  r \in Coders /\ r.ok = 1 /\ r.stop = 0 /\ r.rem = rem /\ r.out = SubSeq(in, 1, k + 1)

\* The same, and bits of another byte are waiting.
ReadWith(r, rem, in, k, q, left) == ReadOne(r, rem, in, k) /\ r.v % q = left

\* A byte is read when it is complete, as there is room for all of them.
LEMMA ByteFits ==
  ASSUME NEW in \in Seq(Octets), NEW k \in 0 .. Len(in) - 1, NEW d \in Coders, NEW r \in Coders, NEW byte,
         NEW rem \in {0, 2, 4, 6}, d.out = SubSeq(in, 1, k), Byte64(r, d, byte, rem, Len(in)), byte = in[k + 1]
  PROVE  ReadOne(r, rem, in, k)
<1>1. Len(d.out) = k /\ k < Len(in) /\ Append(SubSeq(in, 1, k), in[k + 1]) = SubSeq(in, 1, k + 1)
  BY ByteMore
<1>2. r.rem = rem /\ r.stop = 0 /\ r.ok = 1 /\ r.out = Append(d.out, byte)
  BY <1>1 DEF Byte64
<1> QED BY <1>1, <1>2 DEF ReadOne

\* The digit of the first byte of a group.
LEMMA ReadsFirst ==
  ASSUME NEW in \in Seq(Octets), NEW k \in 0 .. Len(in) - 1, NEW d \in Coders, NEW v \in Nat, NEW w \in Nat,
         NEW ch \in Octets, ch = in[k + 1], Reads(d, v, in, k, 0), w % 4 = ch % 4
  PROVE  Reads(Decode64Step(d, ch \div 4, Len(in)), w, in, k + 1, 1)
<1>1. d.ok = 1 /\ d.stop = 0 /\ d.rem = 0 /\ d.out = SubSeq(in, 1, k)
  BY DEF Reads
<1>8. ch \div 4 \in 0 .. 63
  <2>1. ch \div 4 \in Digits64
    BY BitsBack, Zenon
  <2> QED BY <2>1 DEF Digits64
<1>9. (k + 1) - 1 = k /\ Len(in) \in Nat
  OBVIOUS
<1>2. ch \div 4 \in 0 .. 63 /\ (k + 1) - 1 = k /\ Len(in) \in Nat
  BY <1>8, <1>9
<1>3. PICK r : r = Decode64Step(d, ch \div 4, Len(in))
  OBVIOUS
<1>4. PICK x \in 0 .. 63 : x = ch \div 4
  BY <1>2
<1>7. DigitGives(r, d, x, Len(in))
  BY <1>1, <1>2, <1>3, <1>4, DigitRead
<1>5. r.rem = 6 /\ r.out = d.out /\ r.ok = 1 /\ r.stop = 0 /\ r.v % 64 = x
  BY <1>1, <1>7 DEF DigitGives
<1>6. Reads(r, w, in, k + 1, 1)
  BY <1>1, <1>2, <1>4, <1>5 DEF Reads
<1> QED BY <1>3, <1>6

\* The digit that has the rest of it.
LEMMA ReadsSecond ==
  ASSUME NEW in \in Seq(Octets), NEW k \in 1 .. Len(in), NEW d \in Coders, NEW v \in Nat,
         NEW ch \in Octets, Reads(d, v, in, k, 1), NEW x, x = (v % 4) * 16 + ch \div 16
  PROVE  ReadWith(Decode64Step(d, x, Len(in)), 4, in, k - 1, 16, ch \div 16)
<1>8. PICK r : r = Decode64Step(d, x, Len(in))
  OBVIOUS
<1>9. PICK b \in Octets : b = in[k]
  OBVIOUS
<1>1. d.ok = 1 /\ d.stop = 0 /\ d.rem = 6 /\ d.out = SubSeq(in, 1, k - 1) /\ d.v % 64 = b \div 4 /\ v % 4 = b % 4
  BY <1>9 DEF Reads
<1>2. x = (b % 4) * 16 + ch \div 16
  BY <1>1
<1>3. x \in 0 .. 63 /\ (b \div 4) * 4 + x \div 16 = b /\ x % 16 = ch \div 16
  BY <1>2, BitsBack DEF Digits64
<1>4. k - 1 \in 0 .. Len(in) - 1 /\ (k - 1) + 1 = k /\ Len(in) \in Nat
  OBVIOUS
<1>5. r \in Coders /\ Byte64(r, d, (d.v % 64) * 4 + x \div 16, 4, Len(in)) /\ r.v % 16 = x % 16
  <2>1. DigitGives(r, d, x, Len(in))
    BY <1>1, <1>3, <1>4, <1>8, DigitRead
  <2> QED BY <1>1, <2>1 DEF DigitGives
<1>6. Byte64(r, d, b, 4, Len(in))
  BY <1>1, <1>3, <1>5
<1>7. ReadOne(r, 4, in, k - 1)
  BY <1>1, <1>4, <1>5, <1>6, <1>9, ByteFits
<1> QED BY <1>3, <1>5, <1>7, <1>8 DEF ReadWith

\* The same of the second byte.
LEMMA ReadsThird ==
  ASSUME NEW in \in Seq(Octets), NEW k \in 1 .. Len(in), NEW d \in Coders, NEW v \in Nat,
         NEW ch \in Octets, Reads(d, v, in, k, 2), NEW x, x = (v % 16) * 4 + ch \div 64
  PROVE  ReadWith(Decode64Step(d, x, Len(in)), 2, in, k - 1, 4, ch \div 64)
<1>8. PICK r : r = Decode64Step(d, x, Len(in))
  OBVIOUS
<1>9. PICK b \in Octets : b = in[k]
  OBVIOUS
<1>1. d.ok = 1 /\ d.stop = 0 /\ d.rem = 4 /\ d.out = SubSeq(in, 1, k - 1) /\ d.v % 16 = b \div 16 /\ v % 16 = b % 16
  BY <1>9 DEF Reads
<1>2. x = (b % 16) * 4 + ch \div 64
  BY <1>1
<1>3. x \in 0 .. 63 /\ (b \div 16) * 16 + x \div 4 = b /\ x % 4 = ch \div 64
  BY <1>2, BitsBack DEF Digits64
<1>4. k - 1 \in 0 .. Len(in) - 1 /\ (k - 1) + 1 = k /\ Len(in) \in Nat
  OBVIOUS
<1>5. r \in Coders /\ Byte64(r, d, (d.v % 16) * 16 + x \div 4, 2, Len(in)) /\ r.v % 4 = x % 4
  <2>1. DigitGives(r, d, x, Len(in))
    BY <1>1, <1>3, <1>4, <1>8, DigitRead
  <2> QED BY <1>1, <2>1 DEF DigitGives
<1>6. Byte64(r, d, b, 2, Len(in))
  BY <1>1, <1>3, <1>5
<1>7. ReadOne(r, 2, in, k - 1)
  BY <1>1, <1>4, <1>5, <1>6, <1>9, ByteFits
<1> QED BY <1>3, <1>5, <1>7, <1>8 DEF ReadWith

\* The last digit of a group.
LEMMA ReadsFourth ==
  ASSUME NEW in \in Seq(Octets), NEW k \in 0 .. Len(in) - 1, NEW d \in Coders,
         NEW ch \in Octets, ch = in[k + 1], d.ok = 1, d.stop = 0, d.rem = 2, d.out = SubSeq(in, 1, k),
         d.v % 4 = ch \div 64, NEW x, x = ch % 64
  PROVE  ReadOne(Decode64Step(d, x, Len(in)), 0, in, k)
<1>4. PICK r : r = Decode64Step(d, x, Len(in))
  OBVIOUS
<1>1. x \in 0 .. 63 /\ (ch \div 64) * 64 + x = ch /\ Len(in) \in Nat
  BY BitsBack DEF Digits64
<1>2. r \in Coders /\ Byte64(r, d, (d.v % 4) * 64 + x, 0, Len(in))
  <2>1. DigitGives(r, d, x, Len(in))
    BY <1>1, <1>4, DigitRead
  <2> QED BY <2>1 DEF DigitGives
<1>3. Byte64(r, d, ch, 0, Len(in))
  BY <1>1, <1>2
<1> QED BY <1>2, <1>3, <1>4, ByteFits

\* With a digit written there was room for it, or writing failed.
Grown(r, s, x, room, n) ==
  /\ s.ok = 1 /\ Len(s.out) < room /\ r.out \in Seq(Symbols64) /\ Len(r.out) = Len(s.out) + 1
  /\ Read64(r.out, n) = Decode64Step(Read64(s.out, n), x, n)

\* One of the two.
LEMMA DigitFitsOrNot ==
  ASSUME NEW r, NEW s \in Coders, NEW w, NEW rem, NEW x, NEW room \in Nat, NEW n, OneDigit(r, s, w, rem, x, room, n)
  PROVE  /\ r.ok = 1 => Grown(r, s, x, room, n)
         /\ r.ok = 0 => s.ok = 0 \/ (s.ok = 1 /\ ~ (Len(s.out) < room))
         /\ r \in Coders /\ r.v = w /\ r.rem = rem /\ r.stop = 0 /\ r.ok \in 0 .. 1
<1>1. s.ok \in 0 .. 1 /\ r \in Coders
  BY DEF Coders, OneDigit
<1>2. r.ok \in 0 .. 1
  BY <1>1 DEF Coders
<1>3. r.v = w /\ r.rem = rem /\ r.stop = 0
  BY DEF OneDigit
<1>4. s.ok = 0 => r.ok = 0
  BY DEF OneDigit
<1>5. s.ok = 1 /\ ~ (Len(s.out) < room) => r.ok = 0
  BY DEF OneDigit
<1>6. s.ok = 1 /\ Len(s.out) < room => r.ok = 1 /\ Grown(r, s, x, room, n)
  BY DEF OneDigit, Grown
<1> QED BY <1>1, <1>2, <1>3, <1>4, <1>5, <1>6

\* What is known of a state with no group begun, with one byte of a group, with two.
LEMMA CoupledIs ==
  ASSUME NEW s, NEW in \in Seq(Octets), NEW m \in Nat, NEW j \in 0 .. 2, NEW room \in Nat,
         Coupled(s, in, m, j, room)
  PROVE  /\ s \in Encoders /\ s \in Coders /\ s.stop = 0 /\ s.rem = 2 * j /\ s.v \in Nat /\ s.ok \in 0 .. 1
         /\ s.ok = 0 => 4 * m + j > room
         /\ s.ok = 1 => /\ 4 * m + j <= room /\ s.out \in Seq(Symbols64) /\ Len(s.out) = 4 * m + j
                        /\ Reads(Read64(s.out, Len(in)), s.v, in, 3 * m + j, j)
                        /\ Read64(s.out, Len(in)) \in Coders
<1>1. s \in Coders /\ s.stop = 0 /\ s.rem = 2 * j
  BY DEF Coupled
<1>2. s \in Encoders
  BY <1>1 DEF Encoders
<1>3. s.v \in Nat /\ s.ok \in 0 .. 1
  BY <1>1 DEF Coders
<1>4. s.ok = 0 => 4 * m + j > room
  BY DEF Coupled
<1>5. s.ok = 1 => /\ 4 * m + j <= room /\ s.out \in Seq(Symbols64) /\ Len(s.out) = 4 * m + j
                  /\ Reads(Read64(s.out, Len(in)), s.v, in, 3 * m + j, j)
  BY DEF Coupled
<1>6. ASSUME s.ok = 1
      PROVE  Read64(s.out, Len(in)) \in Coders
  <2>1. PICK o \in Seq(Symbols64) : o = s.out
    BY <1>5, <1>6
  <2>2. 0 \in Symbols64 /\ Len(in) \in Nat
    BY DEF Symbols64
  <2>3. Read64(o, Len(in)) \in Coders
    BY <2>2, Read64Next
  <2> QED BY <2>1, <2>3
<1> QED BY <1>1, <1>2, <1>3, <1>4, <1>5, <1>6

\* The first byte of a group.
LEMMA CoupledFirst ==
  ASSUME NEW s, NEW in \in Seq(Octets), NEW m \in Nat, NEW room \in Nat, Coupled(s, in, m, 0, room),
         3 * m < Len(in), NEW ch \in Octets, ch = in[3 * m + 1]
  PROVE  Coupled(Encode64Step(s, ch, room), in, m, 1, room)
<1> DEFINE n == Len(in)
<1>1. /\ s \in Encoders /\ s \in Coders /\ s.stop = 0 /\ s.rem = 0 /\ s.v \in Nat /\ s.ok \in 0 .. 1
      /\ s.ok = 0 => 4 * m > room
      /\ s.ok = 1 => /\ s.out \in Seq(Symbols64) /\ Len(s.out) = 4 * m
                     /\ Reads(Read64(s.out, n), s.v, in, 3 * m, 0)
                     /\ Read64(s.out, n) \in Coders
  <2>1. 4 * m + 0 = 4 * m /\ 3 * m + 0 = 3 * m /\ 2 * 0 = 0 /\ 0 \in 0 .. 2
    OBVIOUS
  <2> HIDE DEF n
  <2> QED BY <2>1, CoupledIs DEF n
<1>2. n \in Nat /\ 3 * m \in 0 .. n - 1
  OBVIOUS
<1>3. PICK r : r = Encode64Step(s, ch, room)
  OBVIOUS
<1>4. PICK w : w = Shifted(s.v, 8, ch)
  OBVIOUS
<1>5. EncodesTo(r, s, w, ch, room)
  BY <1>1, <1>3, <1>4, ByteWritten
<1>6. w \in Nat /\ w % 4 = ch % 4 /\ r = Emit(With(s, w, 2), ch \div 4, room)
  BY <1>1, <1>5 DEF EncodesTo
<1>7. ch \div 4 \in Digits64
  BY BitsBack, Zenon
<1>8. OneDigit(r, s, w, 2, ch \div 4, room, n)
  BY <1>1, <1>2, <1>6, <1>7, DigitWritten
<1> HIDE DEF n
<1>9. /\ r.ok = 1 => Grown(r, s, ch \div 4, room, n)
      /\ r.ok = 0 => s.ok = 0 \/ (s.ok = 1 /\ ~ (Len(s.out) < room))
      /\ r \in Coders /\ r.v = w /\ r.rem = 2 /\ r.stop = 0 /\ r.ok \in 0 .. 1
  BY <1>1, <1>8, DigitFitsOrNot
<1>10. ASSUME r.ok = 0
       PROVE  4 * m + 1 > room
  BY <1>1, <1>9, <1>10
<1>11. ASSUME r.ok = 1
       PROVE  /\ 4 * m + 1 <= room /\ r.out \in Seq(Symbols64) /\ Len(r.out) = 4 * m + 1
              /\ Reads(Read64(r.out, n), r.v, in, 3 * m + 1, 1)
  <2>1. Grown(r, s, ch \div 4, room, n)
    BY <1>9, <1>11
  <2>2. /\ s.ok = 1 /\ Len(s.out) < room /\ r.out \in Seq(Symbols64) /\ Len(r.out) = Len(s.out) + 1
        /\ Read64(r.out, n) = Decode64Step(Read64(s.out, n), ch \div 4, n)
    BY <2>1 DEF Grown
  <2>3. PICK d \in Coders : d = Read64(s.out, n)
    BY <1>1, <2>2
  <2>4. Reads(d, s.v, in, 3 * m, 0)
    BY <1>1, <2>2, <2>3
  <2>5. Reads(Decode64Step(d, ch \div 4, n), w, in, 3 * m + 1, 1)
    BY <1>1, <1>2, <1>6, <2>4, ReadsFirst DEF n
  <2>6. Reads(Read64(r.out, n), r.v, in, 3 * m + 1, 1)
    BY <1>9, <2>2, <2>3, <2>5
  <2>8. PICK l \in Nat : l = Len(s.out) /\ l = 4 * m /\ l < room
    BY <1>1, <2>2
  <2>9. l + 1 = Len(r.out)
    BY <2>2, <2>8
  <2>7. 4 * m + 1 <= room /\ Len(r.out) = 4 * m + 1
    BY <2>8, <2>9
  <2> QED BY <2>2, <2>6, <2>7
<1>12. r.rem = 2 * 1
  BY <1>9
<1> QED BY <1>3, <1>9, <1>10, <1>11, <1>12 DEF Coupled, n

\* What one digit more says of the room.
LEMMA RoomForOne ==
  ASSUME NEW l \in Nat, NEW o, NEW out \in Seq(Symbols64), NEW room \in Nat, Len(o) = l, Len(o) < room,
         Len(out) = Len(o) + 1
  PROVE  l + 1 <= room /\ Len(out) = l + 1
OBVIOUS

\* Bits of two bytes make a digit.
LEMMA MixedDigits ==
  ASSUME NEW v \in Nat, NEW ch \in Octets
  PROVE  (v % 4) * 16 + ch \div 16 \in Digits64 /\ (v % 16) * 4 + ch \div 64 \in Digits64
<1>1. ch \in 0 .. 255
  BY DEF Octets
<1>2. (v % 4) * 16 + ch \div 16 \in Digits64
  BY <1>1 DEF Digits64
<1>3. (v % 16) * 4 + ch \div 64 \in Digits64
  BY <1>1 DEF Digits64
<1> QED BY <1>2, <1>3

\* The second byte of a group.
LEMMA CoupledSecond ==
  ASSUME NEW s, NEW in \in Seq(Octets), NEW m \in Nat, NEW room \in Nat, Coupled(s, in, m, 1, room),
         3 * m + 1 < Len(in), NEW ch \in Octets, ch = in[3 * m + 2]
  PROVE  Coupled(Encode64Step(s, ch, room), in, m, 2, room)
<1> DEFINE n == Len(in)
           x == (s.v % 4) * 16 + ch \div 16
<1>1. /\ s \in Encoders /\ s \in Coders /\ s.stop = 0 /\ s.rem = 2 /\ s.v \in Nat /\ s.ok \in 0 .. 1
      /\ s.ok = 0 => 4 * m + 1 > room
      /\ s.ok = 1 => /\ s.out \in Seq(Symbols64) /\ Len(s.out) = 4 * m + 1
                     /\ Reads(Read64(s.out, n), s.v, in, 3 * m + 1, 1)
                     /\ Read64(s.out, n) \in Coders
  <2>1. 2 * 1 = 2 /\ 1 \in 0 .. 2
    OBVIOUS
  <2> HIDE DEF n
  <2> QED BY <2>1, CoupledIs DEF n
<1>2. n \in Nat /\ 3 * m + 1 \in 1 .. n /\ in[3 * m + 1] \in Octets
  OBVIOUS
<1>3. PICK r : r = Encode64Step(s, ch, room)
  OBVIOUS
<1>4. PICK w : w = Shifted(s.v, 8, ch)
  OBVIOUS
<1>5. EncodesTo(r, s, w, ch, room)
  BY <1>1, <1>3, <1>4, ByteWritten
<1>6. w \in Nat /\ w % 16 = ch % 16 /\ r = Emit(With(s, w, 4), x, room)
  BY <1>1, <1>5 DEF EncodesTo
<1>7. x \in Digits64
  BY <1>1, MixedDigits
<1> HIDE DEF x
<1>8. OneDigit(r, s, w, 4, x, room, n)
  BY <1>1, <1>2, <1>6, <1>7, DigitWritten
<1> HIDE DEF n
<1>9. /\ r.ok = 1 => Grown(r, s, x, room, n)
      /\ r.ok = 0 => s.ok = 0 \/ (s.ok = 1 /\ ~ (Len(s.out) < room))
      /\ r \in Coders /\ r.v = w /\ r.rem = 4 /\ r.stop = 0 /\ r.ok \in 0 .. 1
  BY <1>1, <1>8, DigitFitsOrNot
<1>10. ASSUME r.ok = 0
       PROVE  4 * m + 2 > room
  BY <1>1, <1>9, <1>10
<1>11. ASSUME r.ok = 1
       PROVE  /\ 4 * m + 2 <= room /\ r.out \in Seq(Symbols64) /\ Len(r.out) = 4 * m + 2
              /\ Reads(Read64(r.out, n), r.v, in, 3 * m + 2, 2)
  <2>1. Grown(r, s, x, room, n)
    BY <1>9, <1>11
  <2>2. /\ s.ok = 1 /\ Len(s.out) < room /\ r.out \in Seq(Symbols64) /\ Len(r.out) = Len(s.out) + 1
        /\ Read64(r.out, n) = Decode64Step(Read64(s.out, n), x, n)
    BY <2>1 DEF Grown
  <2>3. PICK d \in Coders : d = Read64(s.out, n)
    BY <1>1, <2>2
  <2>4. Reads(d, s.v, in, 3 * m + 1, 1)
    BY <1>1, <2>2, <2>3
  <2>5. PICK e : e = Decode64Step(d, x, n)
    OBVIOUS
  <2>6. ReadWith(e, 4, in, (3 * m + 1) - 1, 16, ch \div 16)
    <3>1. s.v \in Nat /\ 3 * m + 1 \in 1 .. Len(in) /\ in[3 * m + 1] \in Octets
      BY <1>1, <1>2 DEF n
    <3>2. x = (s.v % 4) * 16 + ch \div 16 /\ e = Decode64Step(d, x, Len(in))
      BY <2>5 DEF n, x
    <3> QED BY <2>4, <3>1, <3>2, ReadsSecond
  <2>7. (((3 * m + 1) - 1) + 1 = 3 * m + 1) /\ ((3 * m + 2) - 1 = 3 * m + 1)
    OBVIOUS
  <2>8. Reads(e, w, in, 3 * m + 2, 2)
    <3>1. e.ok = 1 /\ e.stop = 0 /\ e.rem = 4 /\ e.out = SubSeq(in, 1, (3 * m + 2) - 1)
      BY <2>6, <2>7 DEF ReadWith, ReadOne
    <3>2. e.v % 16 = in[3 * m + 2] \div 16 /\ w % 16 = in[3 * m + 2] % 16
      BY <1>6, <2>6 DEF ReadWith
    <3> QED BY <3>1, <3>2 DEF Reads
  <2>9. Reads(Read64(r.out, n), r.v, in, 3 * m + 2, 2)
    BY <1>9, <2>2, <2>3, <2>5, <2>8
  <2>10. Len(s.out) = 4 * m + 1 /\ 4 * m + 1 \in Nat /\ (4 * m + 1) + 1 = 4 * m + 2
    BY <1>1, <2>2
  <2>11. 4 * m + 2 <= room /\ Len(r.out) = 4 * m + 2
    BY <2>2, <2>10, RoomForOne
  <2> QED BY <2>2, <2>9, <2>11
<1>12. r.rem = 2 * 2
  BY <1>9
<1> QED BY <1>3, <1>9, <1>10, <1>11, <1>12 DEF Coupled, n

\* The third byte of a group, which takes two digits.
LEMMA CoupledThird ==
  ASSUME NEW s, NEW in \in Seq(Octets), NEW m \in Nat, NEW room \in Nat, Coupled(s, in, m, 2, room),
         3 * m + 2 < Len(in), NEW ch \in Octets, ch = in[3 * m + 3]
  PROVE  Coupled(Encode64Step(s, ch, room), in, m + 1, 0, room)
<1> DEFINE n == Len(in)
           x == (s.v % 16) * 4 + ch \div 64
           y == ch % 64
<1>1. /\ s \in Encoders /\ s \in Coders /\ s.stop = 0 /\ s.rem = 4 /\ s.v \in Nat /\ s.ok \in 0 .. 1
      /\ s.ok = 0 => 4 * m + 2 > room
      /\ s.ok = 1 => /\ s.out \in Seq(Symbols64) /\ Len(s.out) = 4 * m + 2
                     /\ Reads(Read64(s.out, n), s.v, in, 3 * m + 2, 2)
                     /\ Read64(s.out, n) \in Coders
  <2>1. 2 * 2 = 4 /\ 2 \in 0 .. 2
    OBVIOUS
  <2> HIDE DEF n
  <2> QED BY <2>1, CoupledIs DEF n
<1>2. n \in Nat /\ 3 * m + 2 \in 1 .. n /\ 3 * m + 2 \in 0 .. n - 1 /\ (3 * m + 2) + 1 = 3 * m + 3
  OBVIOUS
<1>3. PICK r : r = Encode64Step(s, ch, room)
  OBVIOUS
<1>4. PICK w : w = Shifted(s.v, 8, ch)
  OBVIOUS
<1>5. PICK a : a = Emit(With(s, w, 6), x, room)
  OBVIOUS
<1>6. EncodesTo(r, s, w, ch, room)
  BY <1>1, <1>3, <1>4, ByteWritten
<1>7. w \in Nat /\ r = Emit(With(a, w, 0), y, room)
  BY <1>1, <1>5, <1>6 DEF EncodesTo
<1>8. x \in Digits64
  BY <1>1, MixedDigits
<1>9. y \in Digits64
  BY BitsBack, Zenon DEF y
<1> HIDE DEF x, y
<1>10. OneDigit(a, s, w, 6, x, room, n)
  BY <1>1, <1>2, <1>5, <1>7, <1>8, DigitWritten
<1> HIDE DEF n
<1>11. /\ a.ok = 1 => Grown(a, s, x, room, n)
       /\ a.ok = 0 => s.ok = 0 \/ (s.ok = 1 /\ ~ (Len(s.out) < room))
       /\ a \in Coders /\ a.v = w /\ a.rem = 6 /\ a.stop = 0 /\ a.ok \in 0 .. 1
  BY <1>1, <1>10, DigitFitsOrNot
<1>12. a.ok = 1 => a.out \in Seq(Symbols64)
  BY <1>11 DEF Grown
<1>13. OneDigit(r, a, w, 0, y, room, n)
  BY <1>2, <1>7, <1>9, <1>11, <1>12, DigitWritten
<1>14. /\ r.ok = 1 => Grown(r, a, y, room, n)
       /\ r.ok = 0 => a.ok = 0 \/ (a.ok = 1 /\ ~ (Len(a.out) < room))
       /\ r \in Coders /\ r.v = w /\ r.rem = 0 /\ r.stop = 0 /\ r.ok \in 0 .. 1
  BY <1>11, <1>13, DigitFitsOrNot
<1>15. ASSUME a.ok = 1
       PROVE  /\ s.ok = 1 /\ 4 * m + 3 <= room /\ a.out \in Seq(Symbols64) /\ Len(a.out) = 4 * m + 3
              /\ Read64(a.out, n) = Decode64Step(Read64(s.out, n), x, n)
  <2>1. Grown(a, s, x, room, n)
    BY <1>11, <1>15
  <2>2. /\ s.ok = 1 /\ Len(s.out) < room /\ a.out \in Seq(Symbols64) /\ Len(a.out) = Len(s.out) + 1
        /\ Read64(a.out, n) = Decode64Step(Read64(s.out, n), x, n)
    BY <2>1 DEF Grown
  <2>3. Len(s.out) = 4 * m + 2 /\ 4 * m + 2 \in Nat /\ (4 * m + 2) + 1 = 4 * m + 3
    BY <1>1, <2>2
  <2>4. 4 * m + 3 <= room /\ Len(a.out) = 4 * m + 3
    BY <2>2, <2>3, RoomForOne
  <2> QED BY <2>2, <2>4
<1>16. ASSUME r.ok = 0
       PROVE  4 * (m + 1) > room
  <2>1. CASE a.ok = 0
    BY <1>1, <1>11, <2>1
  <2>2. CASE a.ok = 1
    <3>1. Len(a.out) = 4 * m + 3 /\ ~ (Len(a.out) < room)
      BY <1>14, <1>15, <1>16, <2>2
    <3> QED BY <3>1
  <2> QED BY <1>11, <2>1, <2>2
<1>17. ASSUME r.ok = 1
       PROVE  /\ 4 * (m + 1) <= room /\ r.out \in Seq(Symbols64) /\ Len(r.out) = 4 * (m + 1)
              /\ Reads(Read64(r.out, n), r.v, in, 3 * (m + 1), 0)
  <2>1. Grown(r, a, y, room, n)
    BY <1>14, <1>17
  <2>2. /\ a.ok = 1 /\ Len(a.out) < room /\ r.out \in Seq(Symbols64) /\ Len(r.out) = Len(a.out) + 1
        /\ Read64(r.out, n) = Decode64Step(Read64(a.out, n), y, n)
    BY <2>1 DEF Grown
  <2>3. /\ s.ok = 1 /\ Len(a.out) = 4 * m + 3
        /\ Read64(a.out, n) = Decode64Step(Read64(s.out, n), x, n)
    BY <1>15, <2>2
  <2>4. PICK d \in Coders : d = Read64(s.out, n)
    BY <1>1, <2>3
  <2>5. Reads(d, s.v, in, 3 * m + 2, 2)
    BY <1>1, <2>3, <2>4
  <2>6. PICK e : e = Decode64Step(d, x, n)
    OBVIOUS
  <2>7. ReadWith(e, 2, in, (3 * m + 2) - 1, 4, ch \div 64)
    <3>1. s.v \in Nat /\ 3 * m + 2 \in 1 .. Len(in)
      BY <1>1, <1>2 DEF n
    <3>2. x = (s.v % 16) * 4 + ch \div 64 /\ e = Decode64Step(d, x, Len(in))
      BY <2>6 DEF n, x
    <3> QED BY <2>5, <3>1, <3>2, ReadsThird
  <2>8. e \in Coders /\ e.ok = 1 /\ e.stop = 0 /\ e.rem = 2 /\ e.out = SubSeq(in, 1, 3 * m + 2) /\ e.v % 4 = ch \div 64
    <3>1. ((3 * m + 2) - 1) + 1 = 3 * m + 2
      OBVIOUS
    <3> QED BY <2>7, <3>1 DEF ReadWith, ReadOne
  <2>9. PICK f : f = Decode64Step(e, y, n)
    OBVIOUS
  <2>10. ReadOne(f, 0, in, 3 * m + 2)
    <3>1. 3 * m + 2 \in 0 .. Len(in) - 1 /\ ch = in[(3 * m + 2) + 1]
      BY <1>2 DEF n
    <3>2. y = ch % 64 /\ f = Decode64Step(e, y, Len(in))
      BY <2>9 DEF n, y
    <3> QED BY <2>8, <3>1, <3>2, ReadsFourth
  <2>11. Reads(f, w, in, 3 * (m + 1), 0)
    <3>1. (3 * m + 2) + 1 = 3 * (m + 1)
      OBVIOUS
    <3> QED BY <2>10, <3>1 DEF ReadOne, Reads
  <2>12. Read64(r.out, n) = f
    BY <2>2, <2>3, <2>4, <2>6, <2>9
  <2>13. Reads(Read64(r.out, n), r.v, in, 3 * (m + 1), 0)
    BY <1>14, <2>11, <2>12
  <2>14. 4 * m + 3 \in Nat /\ (4 * m + 3) + 1 = 4 * (m + 1)
    OBVIOUS
  <2>15. 4 * (m + 1) <= room /\ Len(r.out) = 4 * (m + 1)
    BY <2>2, <2>3, <2>14, RoomForOne
  <2> QED BY <2>2, <2>13, <2>15
<1>18. r.rem = 2 * 0 /\ 4 * (m + 1) + 0 = 4 * (m + 1) /\ 3 * (m + 1) + 0 = 3 * (m + 1)
  BY <1>14
<1> QED BY <1>3, <1>14, <1>16, <1>17, <1>18 DEF Coupled, n

\* A text is what begins it of its own length.
LEMMA WholeOf ==
  ASSUME NEW in \in Seq(Octets)
  PROVE  SubSeq(in, 1, Len(in)) = in /\ SubSeq(in, 1, 0) = <<>>
OBVIOUS

\* The coder begins with nothing.
LEMMA CoupledStart ==
  ASSUME NEW in \in Seq(Octets), NEW room \in Nat
  PROVE  Coupled(Code64, in, 0, 0, room)
<1>1. Code64 \in Coders /\ Code64.rem = 0 /\ Code64.out = <<>> /\ Code64.ok = 1 /\ Code64.stop = 0
  BY Code64Is
<1>2. Len(in) \in Nat /\ <<>> \in Seq(Symbols64) /\ Len(<<>>) = 0
  OBVIOUS
<1>3. Read64(<<>>, Len(in)) = Code64
  BY <1>2, ReadNothing
<1>4. Reads(Code64, Code64.v, in, 0, 0)
  BY <1>1, WholeOf DEF Reads
<1>5. 2 * 0 = 0 /\ 4 * 0 + 0 = 0 /\ 3 * 0 + 0 = 0 /\ 0 <= room
  OBVIOUS
<1>6. Code64.ok # 0
  BY <1>1
<1> QED BY <1>1, <1>2, <1>3, <1>4, <1>5, <1>6 DEF Coupled

\* What the coder has of the first k bytes.
HasWritten(s, in, k, room) == \E m \in Nat, j \in 0 .. 2 : k = 3 * m + j /\ Coupled(s, in, m, j, room)

\* One byte after another.
LEMMA EncodeCouples ==
  ASSUME NEW in \in Seq(Octets), NEW room \in Nat
  PROVE  HasWritten(Write64(in, room), in, Len(in), room)
<1> DEFINE n == Len(in)
<1>1. n \in Nat
  OBVIOUS
<1>2. PICK st : Write64Run(st, in, room)
  BY Write64Runs
<1> DEFINE U == { k \in 0 .. n : HasWritten(st[k], in, k, room) }
<1>3. 0 \in U
  <2>1. Coupled(st[0], in, 0, 0, room)
    BY <1>2, CoupledStart DEF Write64Run
  <2>2. HasWritten(st[0], in, 0, room)
    BY <2>1 DEF HasWritten
  <2> QED BY <1>1, <2>2
<1>4. ASSUME NEW k \in 0 .. n - 1, k \in U
      PROVE  k + 1 \in U
  <2>1. k \in 0 .. n /\ k + 1 \in 1 .. n /\ (k + 1) - 1 = k /\ k < n /\ k + 1 \in 0 .. n
    BY <1>1
  <2>2. st[k + 1] = Encode64Step(st[k], in[k + 1], room)
    BY <1>2, <2>1 DEF Write64Run
  <2>3. PICK m \in Nat, j \in 0 .. 2 : k = 3 * m + j /\ Coupled(st[k], in, m, j, room)
    BY <1>4 DEF HasWritten
  <2>4. PICK ch \in Octets : ch = in[k + 1]
    BY <2>1
  <2> HIDE DEF n
  <2>5. CASE j = 0
    <3>1. Coupled(st[k], in, m, 0, room) /\ 3 * m < Len(in) /\ ch = in[3 * m + 1]
      BY <2>1, <2>3, <2>4, <2>5 DEF n
    <3>2. Coupled(st[k + 1], in, m, 1, room)
      BY <2>2, <2>4, <3>1, CoupledFirst
    <3>3. k + 1 = 3 * m + 1 /\ 1 \in 0 .. 2
      BY <2>3, <2>5
    <3>4. HasWritten(st[k + 1], in, k + 1, room)
      BY <3>2, <3>3 DEF HasWritten
    <3> QED BY <2>1, <3>4
  <2>6. CASE j = 1
    <3>1. Coupled(st[k], in, m, 1, room) /\ 3 * m + 1 < Len(in) /\ ch = in[3 * m + 2]
      BY <2>1, <2>3, <2>4, <2>6 DEF n
    <3>2. Coupled(st[k + 1], in, m, 2, room)
      BY <2>2, <2>4, <3>1, CoupledSecond
    <3>3. k + 1 = 3 * m + 2 /\ 2 \in 0 .. 2
      BY <2>3, <2>6
    <3>4. HasWritten(st[k + 1], in, k + 1, room)
      BY <3>2, <3>3 DEF HasWritten
    <3> QED BY <2>1, <3>4
  <2>7. CASE j = 2
    <3>1. Coupled(st[k], in, m, 2, room) /\ 3 * m + 2 < Len(in) /\ ch = in[3 * m + 3]
      BY <2>1, <2>3, <2>4, <2>7 DEF n
    <3>2. Coupled(st[k + 1], in, m + 1, 0, room)
      BY <2>2, <2>4, <3>1, CoupledThird
    <3>3. k + 1 = 3 * (m + 1) + 0 /\ m + 1 \in Nat /\ 0 \in 0 .. 2
      BY <2>3, <2>7
    <3>4. HasWritten(st[k + 1], in, k + 1, room)
      BY <3>2, <3>3 DEF HasWritten
    <3> QED BY <2>1, <3>4
  <2> QED BY <2>3, <2>5, <2>6, <2>7
<1> HIDE DEF U
<1>5. \A k \in 0 .. n : k \in U
  BY <1>1, <1>3, <1>4, UpTo
<1>6. HasWritten(st[n], in, n, room)
  BY <1>1, <1>5 DEF U
<1> QED BY <1>2, <1>6 DEF Write64Run

\* All bytes are written, as c digits and padding that read as the text, or there
\* was no room for that many.
Done64(t, in, c, room) ==
  /\ t \in Coders
  /\ t.ok = 0 => c > room
  /\ t.ok = 1 => /\ c <= room /\ t.out \in Seq(Symbols64) /\ Len(t.out) = c
                 /\ Read64(t.out, Len(in)).ok = 1 /\ Read64(t.out, Len(in)).out = in

\* The digit for the bits that are left.
LastOf(s, room) ==
  IF s.rem = 0 THEN s ELSE Emit(s, Bits(Shifted(s.v, 6 - s.rem, 0), 0, 6), room)

\* One digit more.
LEMMA LastWritten ==
  ASSUME NEW s \in Coders, s.stop = 0, s.ok = 1 => s.out \in Seq(Symbols64), NEW x \in Digits64, NEW room \in Nat,
         NEW n \in Nat, NEW t, t = Emit(s, x, room)
  PROVE  OneDigit(t, s, s.v, s.rem, x, room, n)
<1>1. s.v \in Nat /\ s.rem \in {0, 2, 4, 6}
  BY DEF Coders
<1>2. With(s, s.v, s.rem) = s
  BY DEF Coders, With
<1>3. OneDigit(Emit(With(s, s.v, s.rem), x, room), s, s.v, s.rem, x, room, n)
  BY <1>1, DigitWritten
<1> QED BY <1>2, <1>3

\* No bits are left.
LEMMA LastOfNone ==
  ASSUME NEW s, NEW in \in Seq(Octets), NEW m \in Nat, NEW room \in Nat, Coupled(s, in, m, 0, room), Len(in) = 3 * m
  PROVE  Done64(LastOf(s, room), in, 4 * m, room)
<1> DEFINE n == Len(in)
<1>1. /\ s \in Coders /\ s.rem = 0
      /\ s.ok = 0 => 4 * m > room
      /\ s.ok = 1 => /\ 4 * m <= room /\ s.out \in Seq(Symbols64) /\ Len(s.out) = 4 * m
                     /\ Reads(Read64(s.out, n), s.v, in, 3 * m, 0)
  <2>1. 4 * m + 0 = 4 * m /\ 3 * m + 0 = 3 * m /\ 2 * 0 = 0 /\ 0 \in 0 .. 2
    OBVIOUS
  <2> HIDE DEF n
  <2> QED BY <2>1, CoupledIs DEF n
<1>2. LastOf(s, room) = s
  BY <1>1 DEF LastOf
<1>3. ASSUME s.ok = 1
      PROVE  Read64(s.out, n).ok = 1 /\ Read64(s.out, n).out = in
  <2>1. Reads(Read64(s.out, n), s.v, in, n, 0)
    BY <1>1, <1>3
  <2> QED BY <2>1, WholeOf DEF Reads
<1> QED BY <1>1, <1>2, <1>3 DEF Done64

\* Two are.
LEMMA LastOfOne ==
  ASSUME NEW s, NEW in \in Seq(Octets), NEW m \in Nat, NEW room \in Nat, Coupled(s, in, m, 1, room),
         Len(in) = 3 * m + 1
  PROVE  Done64(LastOf(s, room), in, 4 * m + 2, room)
<1> DEFINE n == Len(in)
           x == (s.v % 4) * 16 + 0 \div 16
<1>1. /\ s \in Coders /\ s.stop = 0 /\ s.rem = 2 /\ s.v \in Nat /\ s.ok \in 0 .. 1
      /\ s.ok = 0 => 4 * m + 1 > room
      /\ s.ok = 1 => /\ s.out \in Seq(Symbols64) /\ Len(s.out) = 4 * m + 1
                     /\ Reads(Read64(s.out, n), s.v, in, 3 * m + 1, 1)
                     /\ Read64(s.out, n) \in Coders
  <2>1. 2 * 1 = 2 /\ 1 \in 0 .. 2
    OBVIOUS
  <2> HIDE DEF n
  <2> QED BY <2>1, CoupledIs DEF n
<1>2. n \in Nat /\ 3 * m + 1 \in 1 .. n
  OBVIOUS
<1>3. PICK t : t = LastOf(s, room)
  OBVIOUS
<1>4. 0 \in Octets
  BY DEF Octets
<1>5. x \in Digits64
  BY <1>1, <1>4, MixedDigits
<1>6. Bits(Shifted(s.v, 4, 0), 0, 6) = x
  <2>1. Bits(Shifted(s.v, 4, 0), 0, 6) = (s.v % 4) * 16
    BY <1>1, LastBits
  <2>2. PICK q \in Nat : q = s.v % 4
    BY <1>1
  <2>3. q * 16 = q * 16 + 0 \div 16
    OBVIOUS
  <2> QED BY <2>1, <2>2, <2>3
<1> HIDE DEF x
<1>7. t = Emit(s, x, room)
  <2>1. 6 - 2 = 4
    OBVIOUS
  <2> QED BY <1>1, <1>3, <1>6, <2>1 DEF LastOf
<1>8. OneDigit(t, s, s.v, 2, x, room, n)
  BY <1>1, <1>2, <1>5, <1>7, LastWritten
<1> HIDE DEF n
<1>9. /\ t.ok = 1 => Grown(t, s, x, room, n)
      /\ t.ok = 0 => s.ok = 0 \/ (s.ok = 1 /\ ~ (Len(s.out) < room))
      /\ t \in Coders /\ t.ok \in 0 .. 1
  BY <1>1, <1>8, DigitFitsOrNot
<1>10. ASSUME t.ok = 0
       PROVE  4 * m + 2 > room
  BY <1>1, <1>9, <1>10
<1>11. ASSUME t.ok = 1
       PROVE  /\ 4 * m + 2 <= room /\ t.out \in Seq(Symbols64) /\ Len(t.out) = 4 * m + 2
              /\ Read64(t.out, n).ok = 1 /\ Read64(t.out, n).out = in
  <2>1. Grown(t, s, x, room, n)
    BY <1>9, <1>11
  <2>2. /\ s.ok = 1 /\ Len(s.out) < room /\ t.out \in Seq(Symbols64) /\ Len(t.out) = Len(s.out) + 1
        /\ Read64(t.out, n) = Decode64Step(Read64(s.out, n), x, n)
    BY <2>1 DEF Grown
  <2>3. PICK d \in Coders : d = Read64(s.out, n)
    BY <1>1, <2>2
  <2>4. Reads(d, s.v, in, 3 * m + 1, 1)
    BY <1>1, <2>2, <2>3
  <2>5. PICK e : e = Decode64Step(d, x, n)
    OBVIOUS
  <2>6. ReadWith(e, 4, in, (3 * m + 1) - 1, 16, 0 \div 16)
    <3>1. s.v \in Nat /\ 3 * m + 1 \in 1 .. Len(in)
      BY <1>1, <1>2 DEF n
    <3>2. x = (s.v % 4) * 16 + 0 \div 16 /\ e = Decode64Step(d, x, Len(in))
      BY <2>5 DEF n, x
    <3> QED BY <1>4, <2>4, <3>1, <3>2, ReadsSecond
  <2>7. e.ok = 1 /\ e.out = in
    <3>1. ((3 * m + 1) - 1) + 1 = Len(in)
      OBVIOUS
    <3> QED BY <2>6, <3>1, WholeOf DEF ReadWith, ReadOne
  <2>8. Len(s.out) = 4 * m + 1 /\ 4 * m + 1 \in Nat /\ (4 * m + 1) + 1 = 4 * m + 2
    BY <1>1, <2>2
  <2>9. 4 * m + 2 <= room /\ Len(t.out) = 4 * m + 2
    BY <2>2, <2>8, RoomForOne
  <2> QED BY <2>2, <2>3, <2>5, <2>7, <2>9
<1> QED BY <1>3, <1>9, <1>10, <1>11 DEF Done64, n

\* Four are.
LEMMA LastOfTwo ==
  ASSUME NEW s, NEW in \in Seq(Octets), NEW m \in Nat, NEW room \in Nat, Coupled(s, in, m, 2, room),
         Len(in) = 3 * m + 2
  PROVE  Done64(LastOf(s, room), in, 4 * m + 3, room)
<1> DEFINE n == Len(in)
           x == (s.v % 16) * 4 + 0 \div 64
<1>1. /\ s \in Coders /\ s.stop = 0 /\ s.rem = 4 /\ s.v \in Nat /\ s.ok \in 0 .. 1
      /\ s.ok = 0 => 4 * m + 2 > room
      /\ s.ok = 1 => /\ s.out \in Seq(Symbols64) /\ Len(s.out) = 4 * m + 2
                     /\ Reads(Read64(s.out, n), s.v, in, 3 * m + 2, 2)
                     /\ Read64(s.out, n) \in Coders
  <2>1. 2 * 2 = 4 /\ 2 \in 0 .. 2
    OBVIOUS
  <2> HIDE DEF n
  <2> QED BY <2>1, CoupledIs DEF n
<1>2. n \in Nat /\ 3 * m + 2 \in 1 .. n
  OBVIOUS
<1>3. PICK t : t = LastOf(s, room)
  OBVIOUS
<1>4. 0 \in Octets
  BY DEF Octets
<1>5. x \in Digits64
  BY <1>1, <1>4, MixedDigits
<1>6. Bits(Shifted(s.v, 2, 0), 0, 6) = x
  <2>1. Bits(Shifted(s.v, 2, 0), 0, 6) = (s.v % 16) * 4
    BY <1>1, LastBits
  <2>2. PICK q \in Nat : q = s.v % 16
    BY <1>1
  <2>3. q * 4 = q * 4 + 0 \div 64
    OBVIOUS
  <2> QED BY <2>1, <2>2, <2>3
<1> HIDE DEF x
<1>7. t = Emit(s, x, room)
  <2>1. 6 - 4 = 2
    OBVIOUS
  <2> QED BY <1>1, <1>3, <1>6, <2>1 DEF LastOf
<1>8. OneDigit(t, s, s.v, 4, x, room, n)
  BY <1>1, <1>2, <1>5, <1>7, LastWritten
<1> HIDE DEF n
<1>9. /\ t.ok = 1 => Grown(t, s, x, room, n)
      /\ t.ok = 0 => s.ok = 0 \/ (s.ok = 1 /\ ~ (Len(s.out) < room))
      /\ t \in Coders /\ t.ok \in 0 .. 1
  BY <1>1, <1>8, DigitFitsOrNot
<1>10. ASSUME t.ok = 0
       PROVE  4 * m + 3 > room
  BY <1>1, <1>9, <1>10
<1>11. ASSUME t.ok = 1
       PROVE  /\ 4 * m + 3 <= room /\ t.out \in Seq(Symbols64) /\ Len(t.out) = 4 * m + 3
              /\ Read64(t.out, n).ok = 1 /\ Read64(t.out, n).out = in
  <2>1. Grown(t, s, x, room, n)
    BY <1>9, <1>11
  <2>2. /\ s.ok = 1 /\ Len(s.out) < room /\ t.out \in Seq(Symbols64) /\ Len(t.out) = Len(s.out) + 1
        /\ Read64(t.out, n) = Decode64Step(Read64(s.out, n), x, n)
    BY <2>1 DEF Grown
  <2>3. PICK d \in Coders : d = Read64(s.out, n)
    BY <1>1, <2>2
  <2>4. Reads(d, s.v, in, 3 * m + 2, 2)
    BY <1>1, <2>2, <2>3
  <2>5. PICK e : e = Decode64Step(d, x, n)
    OBVIOUS
  <2>6. ReadWith(e, 2, in, (3 * m + 2) - 1, 4, 0 \div 64)
    <3>1. s.v \in Nat /\ 3 * m + 2 \in 1 .. Len(in)
      BY <1>1, <1>2 DEF n
    <3>2. x = (s.v % 16) * 4 + 0 \div 64 /\ e = Decode64Step(d, x, Len(in))
      BY <2>5 DEF n, x
    <3> QED BY <1>4, <2>4, <3>1, <3>2, ReadsThird
  <2>7. e.ok = 1 /\ e.out = in
    <3>1. ((3 * m + 2) - 1) + 1 = Len(in)
      OBVIOUS
    <3> QED BY <2>6, <3>1, WholeOf DEF ReadWith, ReadOne
  <2>8. Len(s.out) = 4 * m + 2 /\ 4 * m + 2 \in Nat /\ (4 * m + 2) + 1 = 4 * m + 3
    BY <1>1, <2>2
  <2>9. 4 * m + 3 <= room /\ Len(t.out) = 4 * m + 3
    BY <2>2, <2>8, RoomForOne
  <2> QED BY <2>2, <2>3, <2>5, <2>7, <2>9
<1> QED BY <1>3, <1>9, <1>10, <1>11 DEF Done64, n

\* Padding ends what is read.
LEMMA PadMore ==
  ASSUME NEW t, NEW in \in Seq(Octets), NEW c \in Nat, NEW room \in Nat, Done64(t, in, c, room)
  PROVE  Done64(Emit(t, Pad, room), in, c + 1, room)
<1> DEFINE n == Len(in)
<1>1. /\ t \in Coders /\ t.ok \in 0 .. 1
      /\ t.ok = 0 => c > room
      /\ t.ok = 1 => /\ c <= room /\ t.out \in Seq(Symbols64) /\ Len(t.out) = c
                     /\ Read64(t.out, n).ok = 1 /\ Read64(t.out, n).out = in
  BY DEF Done64, Coders
<1>2. Pad \in Nat /\ Pad \in Symbols64 /\ Pad \in 0 .. 66 /\ n \in Nat
  BY DEF Pad, Symbols64
<1>3. PICK r : r = Emit(t, Pad, room)
  OBVIOUS
<1>4. Emitted(r, t, Pad, room)
  BY <1>1, <1>2, <1>3, EmitIs
<1>5. /\ r \in Coders
      /\ t.ok = 0 => r = t
      /\ t.ok = 1 => IF Len(t.out) < room THEN r.ok = 1 /\ r.out = Append(t.out, Pad) ELSE r.ok = 0 /\ r.out = t.out
  BY <1>4 DEF Emitted
<1> HIDE DEF n
<1>6. CASE t.ok = 0
  BY <1>1, <1>3, <1>5, <1>6 DEF Done64
<1>7. CASE t.ok = 1 /\ ~ (Len(t.out) < room)
  BY <1>1, <1>3, <1>5, <1>7 DEF Done64
<1>8. CASE t.ok = 1 /\ Len(t.out) < room
  <2>1. r.ok = 1 /\ r.out = Append(t.out, Pad)
    BY <1>5, <1>8
  <2>2. PICK o \in Seq(Symbols64) : o = t.out
    BY <1>1, <1>8
  <2>3. Append(o, Pad) \in Seq(Symbols64) /\ Len(Append(o, Pad)) = Len(o) + 1
    BY <1>2
  <2>4. Read64(Append(o, Pad), n) = Decode64Step(Read64(o, n), Pad, n) /\ Read64(o, n) \in Coders
    BY <1>2, Read64Next
  <2>5. PICK d \in Coders : d = Read64(o, n)
    BY <2>4
  <2>6. d.ok = 1 /\ d.out = in /\ d.stop \in 0 .. 1
    BY <1>1, <1>8, <2>2, <2>5 DEF Coders
  <2>7. Decode64Step(d, Pad, n).ok = 1 /\ Decode64Step(d, Pad, n).out = in
    <3>1. CASE d.stop = 1
      <4>1. Decode64Step(d, Pad, n) = d
        BY <1>2, <3>1, Decode64Stays
      <4> QED BY <2>6, <4>1
    <3>2. CASE d.stop = 0
      <4>1. Stopped64(Decode64Step(d, Pad, n), d)
        BY <1>2, <2>6, <3>2, Decode64Stays
      <4> QED BY <2>6, <4>1 DEF Stopped64
    <3> QED BY <2>6, <3>1, <3>2
  <2>8. c + 1 <= room /\ Len(r.out) = c + 1
    <3>1. Len(r.out) = Len(t.out) + 1 /\ r.out \in Seq(Symbols64)
      BY <2>1, <2>2, <2>3
    <3> QED BY <1>1, <1>8, <3>1, RoomForOne
  <2>9. r.out \in Seq(Symbols64) /\ Read64(r.out, n).ok = 1 /\ Read64(r.out, n).out = in
    BY <2>1, <2>2, <2>3, <2>4, <2>5, <2>7
  <2> QED BY <1>3, <1>5, <2>1, <2>8, <2>9 DEF Done64, n
<1> QED BY <1>1, <1>6, <1>7, <1>8

\* However much of it.
LEMMA PadsMore ==
  ASSUME NEW t, NEW in \in Seq(Octets), NEW c \in Nat, NEW room \in Nat, Done64(t, in, c, room),
         NEW pads \in Seq({Pad})
  PROVE  Done64(Padded64(t, pads, room), in, c + Len(pads), room)
<1> DEFINE p == Len(pads)
<1>1. p \in Nat
  OBVIOUS
<1>2. t \in Coders
  BY DEF Done64
<1>3. PICK st : Padded64Run(st, t, pads, room)
  BY <1>2, Padded64Runs
<1> DEFINE U == { k \in 0 .. p : Done64(st[k], in, c + k, room) }
<1>4. 0 \in U
  <2>1. st[0] = t /\ c + 0 = c
    BY <1>3 DEF Padded64Run
  <2> QED BY <1>1, <2>1
<1>5. ASSUME NEW k \in 0 .. p - 1, k \in U
      PROVE  k + 1 \in U
  <2>1. k + 1 \in 1 .. p /\ (k + 1) - 1 = k /\ k + 1 \in 0 .. p /\ pads[k + 1] = Pad /\ c + k \in Nat
        /\ (c + k) + 1 = c + (k + 1)
    BY <1>1
  <2>2. st[k + 1] = Emit(st[k], Pad, room)
    BY <1>3, <2>1 DEF Padded64Run
  <2>3. Done64(st[k], in, c + k, room)
    BY <1>5
  <2>4. Done64(st[k + 1], in, (c + k) + 1, room)
    BY <2>1, <2>2, <2>3, PadMore
  <2> QED BY <2>1, <2>4
<1> HIDE DEF U
<1>6. \A k \in 0 .. p : k \in U
  BY <1>1, <1>4, <1>5, UpTo
<1>7. Done64(st[p], in, c + p, room)
  BY <1>1, <1>6 DEF U
<1> QED BY <1>3, <1>7 DEF Padded64Run

\* The padding that a number of digits needs.
PadsFor(l) == [k \in 1 .. (4 - (l % 4)) % 4 |-> Pad]

\* That many.
LEMMA PadsForIs ==
  ASSUME NEW l \in Nat
  PROVE  /\ PadsFor(l) \in Seq({Pad}) /\ Len(PadsFor(l)) \in Nat
         /\ \A m \in Nat : /\ l = 4 * m => Len(PadsFor(l)) = 0
                           /\ l = 4 * m + 2 => Len(PadsFor(l)) = 2
                           /\ l = 4 * m + 3 => Len(PadsFor(l)) = 1
<1> DEFINE p == (4 - (l % 4)) % 4
<1>1. p \in Nat
  OBVIOUS
<1>2. \A m \in Nat : /\ l = 4 * m => p = 0
                     /\ l = 4 * m + 2 => p = 2
                     /\ l = 4 * m + 3 => p = 1
  OBVIOUS
<1> HIDE DEF p
<1>3. [k \in 1 .. p |-> Pad] \in Seq({Pad}) /\ Len([k \in 1 .. p |-> Pad]) = p
  BY <1>1
<1>4. PadsFor(l) = [k \in 1 .. p |-> Pad]
  BY DEF PadsFor, p
<1> QED BY <1>1, <1>2, <1>3, <1>4

\* What has to be said of a text that was encoded.
EncodedRight(r, in, room) ==
  LET size == 4 * ((Len(in) + 2) \div 3) IN
  /\ r.ok = IF room > size THEN 1 ELSE 0
  /\ r.ok = 1 => Len(r.out) = size /\ libesphttpd_base64_decode(r.out, Len(in)).out = in

\* The end of libesphttpd_base64_encode.
LEMMA Finishes ==
  ASSUME NEW t, NEW in \in Seq(Octets), NEW c \in Nat, NEW room \in Nat, Done64(t, in, c, room),
         NEW l \in Nat, NEW size \in Nat, size = 4 * ((Len(in) + 2) \div 3),
         c <= size, t.ok = 1 => c + Len(PadsFor(l)) = size,
         NEW u, u = Padded64(t, PadsFor(l), room),
         NEW r, r.ok = IF u.ok = 1 /\ Len(u.out) < room THEN 1 ELSE 0, r.out = IF r.ok = 1 THEN u.out ELSE <<>>
  PROVE  EncodedRight(r, in, room)
<1>1. PICK p \in Nat : p = Len(PadsFor(l))
  BY PadsForIs
<1>2. PadsFor(l) \in Seq({Pad})
  BY PadsForIs
<1>3. Done64(u, in, c + p, room)
  BY <1>1, <1>2, PadsMore
<1>4. /\ u.ok \in 0 .. 1
      /\ u.ok = 0 => c + p > room
      /\ u.ok = 1 => /\ c + p <= room /\ Len(u.out) = c + p
                     /\ Read64(u.out, Len(in)).ok = 1 /\ Read64(u.out, Len(in)).out = in
  BY <1>3 DEF Done64, Coders
<1>5. t.ok \in 0 .. 1 /\ (t.ok = 0 => c > room)
  BY DEF Done64, Coders
<1>6. CASE t.ok = 0
  <2>1. u.ok = 0 /\ ~ (room > size)
    BY <1>4, <1>5, <1>6
  <2>2. r.ok = 0
    BY <2>1
  <2> QED BY <2>1, <2>2 DEF EncodedRight
<1>7. CASE t.ok = 1
  <2>1. c + p = size
    BY <1>1, <1>7
  <2>2. r.ok = IF room > size THEN 1 ELSE 0
    BY <1>4, <2>1
  <2>3. ASSUME r.ok = 1
        PROVE  Len(r.out) = size /\ libesphttpd_base64_decode(r.out, Len(in)).out = in
    <3>1. u.ok = 1 /\ r.out = u.out
      BY <1>4, <2>3
    <3>2. Read64(u.out, Len(in)).ok = 1 /\ Read64(u.out, Len(in)).out = in /\ Len(u.out) = size
      BY <1>4, <2>1, <3>1
    <3>3. libesphttpd_base64_decode(u.out, Len(in)).out = Read64(u.out, Len(in)).out
      BY <3>2, Zenon DEF libesphttpd_base64_decode, Read64
    <3> QED BY <3>1, <3>2, <3>3
  <2> QED BY <2>2, <2>3 DEF EncodedRight
<1> QED BY <1>5, <1>6, <1>7

\* The parts of libesphttpd_base64_encode.
LEMMA EncodeParts ==
  ASSUME NEW in, NEW room, NEW s, s = Write64(in, room), NEW t, t = LastOf(s, room),
         NEW u, u = Padded64(t, PadsFor(Len(t.out)), room)
  PROVE  libesphttpd_base64_encode(in, room)
           = [ok |-> IF u.ok = 1 /\ Len(u.out) < room THEN 1 ELSE 0,
              out |-> IF (IF u.ok = 1 /\ Len(u.out) < room THEN 1 ELSE 0) = 1 THEN u.out ELSE <<>>]
BY Zenon DEF libesphttpd_base64_encode, Write64, LastOf, Padded64, PadsFor

\* libesphttpd_base64_encode gives the text of the right length, if there is room
\* for it and the end, and that reads as what was encoded.
LEMMA EncodesRight ==
  ASSUME NEW in \in Seq(Octets), NEW room \in Nat
  PROVE  EncodedRight(libesphttpd_base64_encode(in, room), in, room)
<1> DEFINE s == Write64(in, room)
           size == 4 * ((Len(in) + 2) \div 3)
<1>1. PICK m \in Nat, j \in 0 .. 2 : Len(in) = 3 * m + j /\ Coupled(s, in, m, j, room)
  BY EncodeCouples DEF HasWritten
<1> DEFINE t == LastOf(s, room)
           u == Padded64(t, PadsFor(Len(t.out)), room)
           r == libesphttpd_base64_encode(in, room)
<1>2. r = [ok |-> IF u.ok = 1 /\ Len(u.out) < room THEN 1 ELSE 0,
           out |-> IF (IF u.ok = 1 /\ Len(u.out) < room THEN 1 ELSE 0) = 1 THEN u.out ELSE <<>>]
  BY Zenon, EncodeParts
<1> HIDE DEF r
<1>3. r.ok = (IF u.ok = 1 /\ Len(u.out) < room THEN 1 ELSE 0) /\ r.out = IF r.ok = 1 THEN u.out ELSE <<>>
  <2> HIDE DEF u, t, s
  <2> QED BY <1>2
<1>4. PICK c \in Nat : Done64(t, in, c, room) /\ c <= size /\ size \in Nat
                       /\ \A l \in Nat : l = c => c + Len(PadsFor(l)) = size
  <2> HIDE DEF s, t
  <2>1. CASE j = 0
    <3>1. Coupled(s, in, m, 0, room) /\ Len(in) = 3 * m
      BY <1>1, <2>1
    <3>2. Done64(t, in, 4 * m, room)
      BY <3>1, LastOfNone DEF t
    <3>3. size = 4 * m /\ 4 * m \in Nat
      BY <3>1
    <3> HIDE DEF size
    <3>4. \A l \in Nat : l = 4 * m => Len(PadsFor(l)) = 0
      BY PadsForIs
    <3> QED BY <3>2, <3>3, <3>4
  <2>2. CASE j = 1
    <3>1. Coupled(s, in, m, 1, room) /\ Len(in) = 3 * m + 1
      BY <1>1, <2>2
    <3>2. Done64(t, in, 4 * m + 2, room)
      BY <3>1, LastOfOne DEF t
    <3>3. size = 4 * m + 4 /\ 4 * m + 2 \in Nat
      BY <3>1
    <3> HIDE DEF size
    <3>4. \A l \in Nat : l = 4 * m + 2 => Len(PadsFor(l)) = 2
      BY PadsForIs
    <3>5. 4 * m + 2 <= size /\ (4 * m + 2) + 2 = size /\ size \in Nat
      BY <3>3
    <3>6. \A l \in Nat : l = 4 * m + 2 => (4 * m + 2) + Len(PadsFor(l)) = size
      BY <3>4, <3>5
    <3> QED BY <3>2, <3>3, <3>5, <3>6
  <2>3. CASE j = 2
    <3>1. Coupled(s, in, m, 2, room) /\ Len(in) = 3 * m + 2
      BY <1>1, <2>3
    <3>2. Done64(t, in, 4 * m + 3, room)
      BY <3>1, LastOfTwo DEF t
    <3>3. size = 4 * m + 4 /\ 4 * m + 3 \in Nat
      BY <3>1
    <3> HIDE DEF size
    <3>4. \A l \in Nat : l = 4 * m + 3 => Len(PadsFor(l)) = 1
      BY PadsForIs
    <3>5. 4 * m + 3 <= size /\ (4 * m + 3) + 1 = size /\ size \in Nat
      BY <3>3
    <3>6. \A l \in Nat : l = 4 * m + 3 => (4 * m + 3) + Len(PadsFor(l)) = size
      BY <3>4, <3>5
    <3> QED BY <3>2, <3>3, <3>5, <3>6
  <2> QED BY <1>1, <2>1, <2>2, <2>3
<1> HIDE DEF s, t
<1>5. t.ok = 1 => c + Len(PadsFor(Len(t.out))) = size
  BY <1>4 DEF Done64
<1>6. Len(t.out) \in Nat
  BY <1>4 DEF Done64, Coders
<1> QED BY <1>3, <1>4, <1>5, <1>6, Finishes DEF r, u

\* The digits among the first k symbols, up to the end of the text.
DigitAt(in, k) == in[k] < Pad /\ \A j \in 1 .. k : in[j] \notin {Pad, Bad}
DigitsUpTo(in, k) == { i \in 1 .. k : DigitAt(in, i) }

\* The end is among them.
Ended(in, k) == \E j \in 1 .. k : in[j] \in {Pad, Bad}

\* What the decoder has of them: six bits each, or they are too many.
Counted(s, in, k, room) ==
  /\ s \in Coders
  /\ s.ok = 0 => 6 * Cardinality(DigitsUpTo(in, k)) >= 8 * room + 8
  /\ s.ok = 1 => /\ Len(s.out) <= room
                 /\ s.rem + 8 * Len(s.out) = 6 * Cardinality(DigitsUpTo(in, k))
                 /\ (s.stop = 1 <=> Ended(in, k))

\* One symbol more is a digit or it is not.
LEMMA DigitsNext ==
  ASSUME NEW in \in Seq(Symbols64), NEW k \in 0 .. Len(in) - 1
  PROVE  /\ Cardinality(DigitsUpTo(in, k)) \in Nat
         /\ DigitAt(in, k + 1) => Cardinality(DigitsUpTo(in, k + 1)) = Cardinality(DigitsUpTo(in, k)) + 1
         /\ ~ DigitAt(in, k + 1) => Cardinality(DigitsUpTo(in, k + 1)) = Cardinality(DigitsUpTo(in, k))
<1>1. k \in Nat
  OBVIOUS
<1>2. IsFiniteSet(DigitsUpTo(in, k)) /\ Cardinality(DigitsUpTo(in, k)) \in Nat
  <2>1. IsFiniteSet(1 .. k)
    BY <1>1, FS_Interval
  <2>2. DigitsUpTo(in, k) \subseteq 1 .. k
    BY DEF DigitsUpTo
  <2> QED BY <2>1, <2>2, FS_Subset, FS_CardinalityType
<1>3. CASE DigitAt(in, k + 1)
  <2>1. DigitsUpTo(in, k + 1) = DigitsUpTo(in, k) \cup {k + 1}
    BY <1>1, <1>3 DEF DigitsUpTo
  <2>2. k + 1 \notin DigitsUpTo(in, k)
    BY <1>1 DEF DigitsUpTo
  <2> QED BY <1>2, <1>3, <2>1, <2>2, FS_AddElement
<1>4. CASE ~ DigitAt(in, k + 1)
  <2>1. DigitsUpTo(in, k + 1) = DigitsUpTo(in, k)
    BY <1>1, <1>4 DEF DigitsUpTo
  <2> QED BY <1>2, <1>4, <2>1
<1> QED BY <1>2, <1>3, <1>4

\* A digit more than c was read, or there is no room for as many.
CountsOne(r, room, c) ==
  /\ r \in Coders /\ r.stop = 0
  /\ r.ok = 0 => 6 * (c + 1) >= 8 * room + 8
  /\ r.ok = 1 => Len(r.out) <= room /\ r.rem + 8 * Len(r.out) = 6 * (c + 1)

\* A digit.
LEMMA CountedDigit ==
  ASSUME NEW s \in Coders, s.ok = 1, s.stop = 0, NEW x \in 0 .. 63, NEW room \in Nat, NEW c \in Nat,
         Len(s.out) <= room, s.rem + 8 * Len(s.out) = 6 * c
  PROVE  CountsOne(Decode64Step(s, x, room), room, c)
<1>9. PICK r : r = Decode64Step(s, x, room)
  OBVIOUS
<1>1. DigitGives(r, s, x, room)
  BY <1>9, DigitRead
<1>2. s.rem \in {0, 2, 4, 6} /\ s.out \in Seq(Nat) /\ Len(s.out) \in Nat
  BY DEF Coders
<1>3. r \in Coders
  BY <1>1 DEF DigitGives
<1>4. ASSUME NEW byte, NEW rem \in Nat, Byte64(r, s, byte, rem, room), rem + 2 = s.rem
      PROVE  /\ r.stop = 0
             /\ r.ok = 0 => 6 * (c + 1) >= 8 * room + 8
             /\ r.ok = 1 => Len(r.out) <= room /\ r.rem + 8 * Len(r.out) = 6 * (c + 1)
  <2>1. r.rem = rem /\ r.stop = 0
    BY <1>4 DEF Byte64
  <2>2. CASE Len(s.out) < room
    <3>1. r.ok = 1 /\ r.out = Append(s.out, byte)
      BY <1>4, <2>2 DEF Byte64
    <3>2. Len(r.out) = Len(s.out) + 1
      BY <1>2, <3>1
    <3>3. PICK l \in Nat : l = Len(s.out)
      BY <1>2
    <3>4. l + 1 <= room /\ rem + 8 * (l + 1) = 6 * (c + 1)
      BY <1>4, <2>2, <3>3
    <3> QED BY <2>1, <3>1, <3>2, <3>3, <3>4
  <2>3. CASE ~ (Len(s.out) < room)
    <3>1. r.ok = 0
      BY <1>4, <2>3 DEF Byte64
    <3> QED BY <1>2, <1>4, <2>1, <2>3, <3>1
  <2> QED BY <2>2, <2>3
<1>10. SUFFICES /\ r.stop = 0
                /\ r.ok = 0 => 6 * (c + 1) >= 8 * room + 8
                /\ r.ok = 1 => Len(r.out) <= room /\ r.rem + 8 * Len(r.out) = 6 * (c + 1)
  BY <1>3, <1>9 DEF CountsOne
<1>5. CASE s.rem = 0
  <2>1. r.rem = 6 /\ r.out = s.out /\ r.ok = 1 /\ r.stop = 0
    BY <1>1, <1>5 DEF DigitGives
  <2> QED BY <1>2, <1>3, <1>5, <2>1
<1>6. CASE s.rem = 2
  <2>1. Byte64(r, s, (s.v % 4) * 64 + x, 0, room)
    BY <1>1, <1>6 DEF DigitGives
  <2> QED BY <1>3, <1>4, <1>6, <2>1
<1>7. CASE s.rem = 4
  <2>1. Byte64(r, s, (s.v % 16) * 16 + x \div 4, 2, room)
    BY <1>1, <1>7 DEF DigitGives
  <2> QED BY <1>3, <1>4, <1>7, <2>1
<1>8. CASE s.rem = 6
  <2>1. Byte64(r, s, (s.v % 64) * 4 + x \div 16, 4, room)
    BY <1>1, <1>8 DEF DigitGives
  <2> QED BY <1>3, <1>4, <1>8, <2>1
<1> QED BY <1>2, <1>5, <1>6, <1>7, <1>8

\* What a symbol does to a state that has c digits.
SymbolGives(r, s, x, room, c) ==
  /\ s.ok = 0 \/ s.stop = 1 \/ x = Space => r = s
  /\ s.ok = 1 /\ s.stop = 0 /\ x \in {Pad, Bad} => r \in Coders /\ Stopped64(r, s)
  /\ s.ok = 1 /\ s.stop = 0 /\ x < Pad => CountsOne(r, room, c)

\* It is one of those.
LEMMA SymbolRead ==
  ASSUME NEW s \in Coders, NEW x \in Symbols64, NEW room \in Nat, NEW c \in Nat,
         s.ok = 1 => Len(s.out) <= room /\ s.rem + 8 * Len(s.out) = 6 * c
  PROVE  SymbolGives(Decode64Step(s, x, room), s, x, room, c)
<1>1. x \in 0 .. 66
  BY DEF Symbols64
<1>2. PICK r : r = Decode64Step(s, x, room)
  OBVIOUS
<1>3. s.ok = 0 \/ s.stop = 1 \/ x = Space => r = s
  BY <1>1, <1>2, Decode64Stays
<1>4. s.ok = 1 /\ s.stop = 0 /\ x \in {Pad, Bad} => r \in Coders /\ Stopped64(r, s)
  BY <1>1, <1>2, Decode64Stays
<1>5. ASSUME s.ok = 1, s.stop = 0, x < Pad
      PROVE  CountsOne(r, room, c)
  <2>1. x \in 0 .. 63
    BY <1>1, <1>5 DEF Pad
  <2> QED BY <1>2, <1>5, <2>1, CountedDigit
<1>6. SymbolGives(r, s, x, room, c)
  BY <1>3, <1>4, <1>5, Zenon DEF SymbolGives
<1> QED BY <1>2, <1>6

\* One symbol more.
LEMMA CountedNext ==
  ASSUME NEW in \in Seq(Symbols64), NEW k \in 0 .. Len(in) - 1, NEW room \in Nat, NEW s, Counted(s, in, k, room),
         NEW x \in Symbols64, x = in[k + 1]
  PROVE  Counted(Decode64Step(s, x, room), in, k + 1, room)
<1> DEFINE c == Cardinality(DigitsUpTo(in, k))
           e == Cardinality(DigitsUpTo(in, k + 1))
<1>1. k \in Nat /\ \A j : j \in 1 .. k + 1 <=> j \in 1 .. k \/ j = k + 1
  OBVIOUS
<1>2. c \in Nat /\ (DigitAt(in, k + 1) => e = c + 1) /\ (~ DigitAt(in, k + 1) => e = c)
  BY DigitsNext
<1>3. e \in Nat /\ e >= c
  BY <1>2
<1> HIDE DEF c, e
<1>4. /\ s \in Coders /\ s.ok \in 0 .. 1 /\ s.stop \in 0 .. 1
      /\ s.ok = 0 => 6 * c >= 8 * room + 8
      /\ s.ok = 1 => Len(s.out) <= room /\ s.rem + 8 * Len(s.out) = 6 * c /\ (s.stop = 1 <=> Ended(in, k))
  BY DEF Counted, Coders, c
<1>5. PICK r : r = Decode64Step(s, x, room)
  OBVIOUS
<1>6. SymbolGives(r, s, x, room, c)
  BY <1>2, <1>4, <1>5, SymbolRead
<1>7. Ended(in, k + 1) <=> Ended(in, k) \/ x \in {Pad, Bad}
  BY <1>1 DEF Ended
<1>8. DigitAt(in, k + 1) <=> x < Pad /\ ~ Ended(in, k + 1)
  BY DEF DigitAt, Ended
<1>9. CASE s.ok = 0
  <2>1. r = s
    BY <1>6, <1>9 DEF SymbolGives
  <2>2. 6 * e >= 8 * room + 8
    BY <1>2, <1>3, <1>4, <1>9
  <2> QED BY <1>4, <1>5, <1>9, <2>1, <2>2 DEF Counted, e
<1>10. CASE s.ok = 1 /\ s.stop = 1
  <2>1. r = s
    BY <1>6, <1>10 DEF SymbolGives
  <2>2. Ended(in, k) /\ Ended(in, k + 1) /\ e = c
    BY <1>2, <1>4, <1>7, <1>8, <1>10
  <2> QED BY <1>4, <1>5, <1>10, <2>1, <2>2 DEF Counted, e
<1>11. CASE s.ok = 1 /\ s.stop = 0 /\ x = Space
  <2>1. r = s
    BY <1>6, <1>11 DEF SymbolGives
  <2>2. ~ (x < Pad) /\ x \notin {Pad, Bad}
    BY <1>11 DEF Space, Pad, Bad
  <2>3. ~ Ended(in, k + 1) /\ e = c
    BY <1>2, <1>4, <1>7, <1>8, <1>11, <2>2
  <2> QED BY <1>4, <1>5, <1>11, <2>1, <2>3 DEF Counted, e
<1>12. CASE s.ok = 1 /\ s.stop = 0 /\ x \in {Pad, Bad}
  <2>1. Stopped64(r, s) /\ r \in Coders
    BY <1>6, <1>12 DEF SymbolGives
  <2>2. r.stop = 1 /\ r.ok = 1 /\ r.out = s.out /\ r.rem = s.rem
    BY <2>1 DEF Stopped64
  <2>3. Ended(in, k + 1) /\ e = c
    BY <1>2, <1>7, <1>8, <1>12
  <2> QED BY <1>4, <1>5, <1>12, <2>1, <2>2, <2>3 DEF Counted, e
<1>13. CASE s.ok = 1 /\ s.stop = 0 /\ x # Space /\ x \notin {Pad, Bad}
  <2>1. x < Pad
    <3>1. \A z \in Symbols64 : z # Space /\ z \notin {Pad, Bad} => z < Pad
      BY DEF Space, Pad, Bad, Symbols64
    <3> QED BY <1>13, <3>1, Zenon
  <2>2. ~ Ended(in, k + 1) /\ e = c + 1
    BY <1>2, <1>4, <1>7, <1>8, <1>13, <2>1
  <2>3. /\ r \in Coders /\ r.stop = 0
        /\ r.ok = 0 => 6 * (c + 1) >= 8 * room + 8
        /\ r.ok = 1 => Len(r.out) <= room /\ r.rem + 8 * Len(r.out) = 6 * (c + 1)
    BY <1>6, <1>13, <2>1 DEF SymbolGives, CountsOne
  <2> QED BY <1>5, <2>2, <2>3 DEF Counted, e
<1> QED BY <1>4, <1>9, <1>10, <1>11, <1>12, <1>13

\* Of all of them.
LEMMA DecodeCounts ==
  ASSUME NEW in \in Seq(Symbols64), NEW room \in Nat
  PROVE  Counted(Read64(in, room), in, Len(in), room)
<1> DEFINE n == Len(in)
<1>1. n \in Nat
  OBVIOUS
<1>2. PICK st : Read64Run(st, in, room)
  BY Read64Runs
<1> DEFINE U == { k \in 0 .. n : Counted(st[k], in, k, room) }
<1>3. 0 \in U
  <2>1. 1 .. 0 = {}
    OBVIOUS
  <2>2. DigitsUpTo(in, 0) = {} /\ ~ Ended(in, 0)
    BY <2>1 DEF DigitsUpTo, Ended
  <2>3. Cardinality(DigitsUpTo(in, 0)) = 0
    BY <2>2, FS_EmptySet
  <2>4. Code64 \in Coders /\ Code64.rem = 0 /\ Len(Code64.out) = 0 /\ Code64.ok = 1 /\ Code64.stop = 0
    BY Code64Is
  <2>5. Counted(Code64, in, 0, room)
    BY <2>2, <2>3, <2>4 DEF Counted
  <2>6. st[0] = Code64
    BY <1>2 DEF Read64Run
  <2> QED BY <1>1, <2>5, <2>6
<1>4. ASSUME NEW k \in 0 .. n - 1, k \in U
      PROVE  k + 1 \in U
  <2>1. k + 1 \in 1 .. n /\ (k + 1) - 1 = k /\ k + 1 \in 0 .. n
    BY <1>1
  <2>2. st[k + 1] = Decode64Step(st[k], in[k + 1], room)
    BY <1>2, <2>1 DEF Read64Run
  <2>3. PICK x \in Symbols64 : x = in[k + 1]
    BY <2>1
  <2>4. Counted(st[k], in, k, room)
    BY <1>4
  <2>5. Counted(Decode64Step(st[k], x, room), in, k + 1, room)
    BY <2>3, <2>4, CountedNext
  <2> QED BY <2>1, <2>2, <2>3, <2>5
<1> HIDE DEF U
<1>5. \A k \in 0 .. n : k \in U
  BY <1>1, <1>3, <1>4, UpTo
<1>6. Counted(st[n], in, n, room)
  BY <1>1, <1>5 DEF U
<1> QED BY <1>2, <1>6 DEF Read64Run

\* What has to be said of a text that was decoded.
DecodedRight(r, in, room) ==
  LET size == (6 * Cardinality(DigitsUpTo(in, Len(in)))) \div 8 IN
  IF size > room THEN r.ok = 0 ELSE r.ok = 1 /\ Len(r.out) = size

\* libesphttpd_base64_decode gives as many bytes as the digits hold, or there is
\* no room for them.
LEMMA DecodesRight ==
  ASSUME NEW in \in Seq(Symbols64), NEW room \in Nat
  PROVE  DecodedRight(libesphttpd_base64_decode(in, room), in, room)
<1> DEFINE s == Read64(in, room)
           r == libesphttpd_base64_decode(in, room)
           c == Cardinality(DigitsUpTo(in, Len(in)))
<1>1. r = [ok |-> s.ok, out |-> IF s.ok = 1 THEN s.out ELSE <<>>]
  BY Zenon DEF libesphttpd_base64_decode, Read64
<1>2. Counted(s, in, Len(in), room)
  BY DecodeCounts
<1>3. c \in Nat
  <2>1. IsFiniteSet(1 .. Len(in))
    BY FS_Interval
  <2>2. DigitsUpTo(in, Len(in)) \subseteq 1 .. Len(in)
    BY DEF DigitsUpTo
  <2> QED BY <2>1, <2>2, FS_Subset, FS_CardinalityType
<1> HIDE DEF s, r, c
<1>4. /\ s.ok \in 0 .. 1 /\ s.rem \in {0, 2, 4, 6} /\ Len(s.out) \in Nat
      /\ s.ok = 0 => 6 * c >= 8 * room + 8
      /\ s.ok = 1 => Len(s.out) <= room /\ s.rem + 8 * Len(s.out) = 6 * c
  BY <1>2 DEF Counted, Coders, c
<1>5. r.ok = s.ok /\ (s.ok = 1 => r.out = s.out)
  BY <1>1
<1>6. CASE s.ok = 0
  <2>1. (6 * c) \div 8 > room
    BY <1>3, <1>4, <1>6
  <2> QED BY <1>5, <1>6, <2>1 DEF DecodedRight, r, c
<1>7. CASE s.ok = 1
  <2>1. PICK l \in Nat, m \in {0, 2, 4, 6} : l = Len(s.out) /\ m = s.rem
    BY <1>4
  <2>2. l <= room /\ m + 8 * l = 6 * c
    BY <1>4, <1>7, <2>1
  <2>3. (6 * c) \div 8 = l
    BY <1>3, <2>2
  <2> QED BY <1>5, <1>7, <2>1, <2>2, <2>3 DEF DecodedRight, r, c
<1> QED BY <1>4, <1>6, <1>7

\* The calls of base64 are of bytes and of symbols.
LEMMA CallsOf64 ==
  ASSUME xcall \in Calls
  PROVE  /\ xcall.fn = "encode64" => xcall.in \in Seq(Octets) /\ xcall.room \in Nat
         /\ xcall.fn = "decode64" => xcall.in \in Seq(Symbols64) /\ xcall.room \in Nat
<1>1. Octets = Byte /\ Symbols64 = 0 .. Bad
  BY DEF Octets, Byte, Symbols64, Bad
<1> QED BY <1>1, CallsTyped

\* A call that is done has done that.
LEMMA CallsReadBack == DecodedInv => RoundTrip
<1>1. ASSUME DecodedInv, Called("encode64")
      PROVE  EncodedRight(xresult, xcall.in, xcall.room)
  <2>1. xcall \in Calls /\ xcall.fn = "encode64" /\ xresult = Result(xcall)
    BY <1>1 DEF DecodedInv, Called
  <2>2. xresult = libesphttpd_base64_encode(xcall.in, xcall.room)
    BY <2>1 DEF Result
  <2> QED BY <2>1, <2>2, CallsOf64, EncodesRight
<1>2. ASSUME DecodedInv, Called("decode64")
      PROVE  DecodedRight(xresult, xcall.in, xcall.room)
  <2>1. xcall \in Calls /\ xcall.fn = "decode64" /\ xresult = Result(xcall)
    BY <1>2 DEF DecodedInv, Called
  <2>2. xresult = libesphttpd_base64_decode(xcall.in, xcall.room)
    BY <2>1 DEF Result
  <2> QED BY <2>1, <2>2, CallsOf64, DecodesRight
<1>3. ASSUME DecodedInv, Called("decode64")
      PROVE  { k \in DOMAIN xcall.in :
                 xcall.in[k] < Pad /\ \A j \in 1 .. k : xcall.in[j] \notin {Pad, Bad} }
               = DigitsUpTo(xcall.in, Len(xcall.in))
  <2>1. xcall.in \in Seq(Symbols64)
    BY <1>3, CallsOf64 DEF DecodedInv, Called
  <2>2. DOMAIN xcall.in = 1 .. Len(xcall.in)
    BY <2>1
  <2> QED BY <2>2, Zenon DEF DigitsUpTo, DigitAt
<1> QED BY <1>1, <1>2, <1>3, Zenon DEF RoundTrip, EncodedRight, DecodedRight

\* libesphttpd_base64_encode and libesphttpd_base64_decode, for any bytes, any
\* digits and any sizes of buffer: what is encoded has the right length and reads as it was, there is an
\* answer if and only if the buffer has room for it and its end, and what is
\* decoded has as many bytes as its digits hold, if the buffer has room for them.
THEOREM EncodedReadsBack == TextSpec => []RoundTrip
<1>1. TextInit => DecodedInv
  BY DEF TextInit, DecodedInv
<1>2. DecodedInv /\ [TextNext]_textVars => DecodedInv'
  BY DEF DecodedInv, TextNext, textVars
<1>3. DecodedInv => RoundTrip
  BY CallsReadBack
<1> QED BY <1>1, <1>2, <1>3, PTL DEF TextSpec

-----------------------------------------------------------------------------
(* Routes.                                                                 *)

Lines == Seq(STRING)
RouteCgis == {"auth", "redirect", "tohost", "apclient", "file"}

LEMMA EntriesAre ==
  ASSUME NEW e \in Entries
  PROVE  /\ e.url \in Lines /\ Len(e.url) \in Nat \ {0}
         /\ e.cgi \in RouteCgis /\ e.base \in {"", "plain", "ex"}
<1>1. e.url \in Patterns /\ e.cgi \in RouteCgis /\ e.base \in {"", "plain", "ex"}
  BY DEF Entries, RouteCgis
<1>2. e.url \in Seq(STRING) /\ e.url # <<>>
  BY <1>1, RoutesAssumption
<1> QED BY <1>1, <1>2, EmptySeq DEF Lines

LEMMA TablesAre ==
  ASSUME NEW table \in Tables
  PROVE  /\ Len(table) \in Nat /\ DOMAIN table = 1 .. Len(table)
         /\ \A i \in 1 .. Len(table) : table[i] \in Entries
<1>1. PICK n \in 0 .. MaxRoutes : table \in [1 .. n -> Entries]
  <2>1. \E n \in 0 .. MaxRoutes : table \in [1 .. n -> Entries]
    BY DEF Tables
  <2> QED BY <2>1
<1> QED BY <1>1, RoutesAssumption

LEMMA RequestsAre ==
  ASSUME NEW r \in RequestSet
  PROVE  /\ r.url \in Lines /\ Len(r.url) \in Nat \ {0}
         /\ r.auth \in Authorizations /\ r.host \in {"NULL", "ip", "same", "other"}
         /\ r.exists \in 0 .. 1 /\ r.memory \in 0 .. 1
<1>1. /\ r.url \in Urls /\ r.host \in {"NULL", "ip", "same", "other"}
      /\ r.auth \in AuthHeaders \cup {NoAuth} /\ r.exists \in 0 .. 1 /\ r.memory \in 0 .. 1
  <2>2. CASE r \in { Request(u, h, NoAuth, 1, m) : u \in Urls, h \in {"NULL", "ip", "same", "other"}, m \in 0 .. 1 }
    BY <2>2 DEF Request
  <2>3. CASE r \in { Request(u, "other", g, e, 1) : u \in Urls, g \in AuthHeaders, e \in 0 .. 1 }
    BY <2>3 DEF Request
  <2> QED BY <2>2, <2>3 DEF RequestSet
<1>2. r.url \in Seq(STRING) /\ r.url # <<>>
  BY <1>1, RoutesAssumption
<1>3. NoAuth \in Authorizations
  <2>1. <<>> \in Seq(0 .. Bad)
    OBVIOUS
  <2> QED BY <2>1, Zenon DEF NoAuth, Authorizations
<1>4. r.auth \in Authorizations
  BY <1>1, <1>3, RoutesAssumption
<1> QED BY <1>1, <1>2, <1>4, EmptySeq DEF Lines

\* What the code compares is what a pattern stands for.
LEMMA MatchesTakes ==
  ASSUME rtable \in Tables, rreq \in RequestSet, NEW i \in 1 .. Len(rtable)
  PROVE  Matches(rtable[i].url, rreq.url) <=> Takes(i)
<1> DEFINE u == rtable[i].url
           w == rreq.url
           n == Len(u)
           f == SubSeq(u, 1, n - 1)
<1>1. u \in Lines /\ w \in Lines /\ n \in Nat \ {0} /\ Len(w) \in Nat
  <2>1. rtable[i] \in Entries
    BY TablesAre
  <2> QED BY <2>1, EntriesAre, RequestsAre
<1> HIDE DEF u, w
<1>2. \A k \in 1 .. n - 1 : u[k] \in STRING
  BY <1>1 DEF Lines
<1>3. f \in Lines /\ Len(f) = n - 1 /\ \A k \in 1 .. n - 1 : f[k] = u[k]
  <2>1. 1 \in Int /\ n - 1 \in Int
    BY <1>1
  <2>2. /\ f \in Seq(STRING) /\ Len(f) = IF 1 <= n - 1 THEN (n - 1) - 1 + 1 ELSE 0
        /\ \A k \in 1 .. (n - 1) - 1 + 1 : f[k] = u[1 + k - 1]
    BY <1>2, <2>1, SubSeqProperties
  <2> HIDE DEF f, n
  <2> QED BY <1>1, <2>1, <2>2 DEF Lines
<1>4. Len(f) <= Len(w) => (SubSeq(f, 1, Len(f)) = SubSeq(w, 1, Len(f)) <=> \A k \in 1 .. Len(f) : f[k] = w[k])
  BY <1>1, <1>3, PrefixIs DEF Lines
<1>5. IsPrefix(Front(u), w) <=> Len(w) >= n - 1 /\ \A k \in 1 .. n - 1 : u[k] = w[k]
  <2>1. Front(u) = f
    BY DEF Front
  <2> HIDE DEF f
  <2> QED BY <2>1, <1>1, <1>3, <1>4 DEF IsPrefix
<1>6. Matches(u, w) <=> u = w \/ (u[n] = "*" /\ Len(w) >= n - 1 /\ \A k \in 1 .. n - 1 : u[k] = w[k])
  BY <1>5 DEF Matches, Last
<1> QED BY <1>6 DEF Takes, u, w

\* What is decoded of a header is bytes.
LEMMA DecodedBytes ==
  ASSUME NEW in \in Seq(Symbols64), NEW room \in Nat
  PROVE  libesphttpd_base64_decode(in, room).out \in Seq(Nat)
<1>1. PICK s : s = Read64(in, room)
  OBVIOUS
<1>2. s.out \in Seq(Nat)
  <2>1. Counted(s, in, Len(in), room)
    BY <1>1, DecodeCounts
  <2> QED BY <2>1 DEF Counted, Coders
<1>3. libesphttpd_base64_decode(in, room) = [ok |-> s.ok, out |-> IF s.ok = 1 THEN s.out ELSE <<>>]
  BY <1>1, Zenon DEF libesphttpd_base64_decode, Read64
<1>4. <<>> \in Seq(Nat)
  OBVIOUS
<1> QED BY <1>2, <1>3, <1>4

\* So is the string in it.
LEMMA UserpassIs ==
  ASSUME NEW auth \in Authorizations
  PROVE  Userpass(auth) \in Seq(Nat)
<1>1. userpassSize \in Nat /\ userpassSize >= 2
  BY RoutesAssumption DEF userpassSize
<1>2. auth.code \in Seq(Symbols64) /\ Len(auth.code) \in Nat
  <2>1. 0 .. Bad = Symbols64
    BY DEF Bad, Symbols64
  <2>2. auth.code \in Seq(0 .. Bad)
    BY DEF Authorizations
  <2> QED BY <2>1, <2>2
<1> DEFINE fits == 10 * userpassSize - 7
           kept == IF Len(auth.code) <= fits THEN auth.code ELSE SubSeq(auth.code, 1, fits)
<1>3. kept \in Seq(Symbols64)
  <2>1. CASE Len(auth.code) <= fits
    BY <1>2, <2>1
  <2>2. CASE ~(Len(auth.code) <= fits)
    <3>1. PICK c, m : c = auth.code /\ m = fits
      OBVIOUS
    <3>2. c \in Seq(Symbols64) /\ m \in Int /\ 1 \in Int /\ m < Len(c)
      BY <1>1, <1>2, <2>2, <3>1
    <3>3. \A i \in 1 .. m : c[i] \in Symbols64
      BY <3>2
    <3>4. SubSeq(c, 1, m) \in Seq(Symbols64)
      BY <3>2, <3>3, SubSeqProperties
    <3> QED BY <2>2, <3>1, <3>4
  <2> QED BY <2>1, <2>2
<1> HIDE DEF fits
<1>4. PICK k : k = kept
  OBVIOUS
<1>5. Decoded(auth) = libesphttpd_base64_decode(k, userpassSize).out
  BY <1>4, Zenon DEF Decoded, fits
<1>6. PICK w : w = Decoded(auth)
  OBVIOUS
<1>7. w \in Seq(Nat)
  <2>1. k \in Seq(Symbols64)
    BY <1>3, <1>4
  <2> HIDE DEF kept
  <2> QED BY <1>1, <1>5, <1>6, <2>1, DecodedBytes
<1> DEFINE K == { i \in DOMAIN w : \A j \in 1 .. i : w[j] # 0 }
<1>8. Cardinality(K) \in 0 .. Len(w)
  <2>1. K \in SUBSET (1 .. Len(w)) /\ Len(w) \in Nat
    BY <1>7
  <2>2. IsFiniteSet(1 .. Len(w)) /\ Cardinality(1 .. Len(w)) = Len(w)
    BY <2>1, FS_Interval
  <2> HIDE DEF K
  <2>3. IsFiniteSet(K) /\ Cardinality(K) <= Cardinality(1 .. Len(w))
    BY <2>1, <2>2, FS_Subset
  <2>4. Cardinality(K) \in Nat
    BY <2>3, FS_CardinalityType
  <2> QED BY <2>1, <2>2, <2>3, <2>4
<1>9. PICK c : c = Cardinality(K)
  OBVIOUS
<1>10. Userpass(auth) = SubSeq(w, 1, c)
  BY <1>6, <1>9, Zenon DEF Userpass, Terminated
<1>11. c \in 0 .. Len(w)
  BY <1>8, <1>9
<1> HIDE DEF K
<1>12. 1 \in Int /\ c \in Int /\ \A i \in 1 .. c : w[i] \in Nat
  BY <1>7, <1>11
<1>13. SubSeq(w, 1, c) \in Seq(Nat)
  BY <1>7, <1>12, SubSeqProperties
<1> QED BY <1>10, <1>13

\* A user that is let in sent a user and its password, the colon between them.
LEMMA AuthenticatedKnown ==
  ASSUME rreq \in RequestSet, rreq.auth.scheme = "Basic", Authenticated(Userpass(rreq.auth))
  PROVE  KnownUser
<1> DEFINE g == Userpass(rreq.auth)
<1>1. PICK no \in DOMAIN UserPw :
        /\ Len(g) = Len(UserPw[no][1]) + Len(UserPw[no][2]) + 1
        /\ IsPrefix(UserPw[no][1], g) /\ g[Len(UserPw[no][1]) + 1] = Colon
        /\ SubSeq(g, Len(UserPw[no][1]) + 2, Len(g)) = UserPw[no][2]
  BY DEF Authenticated
<1> DEFINE a == UserPw[no][1]
           b == UserPw[no][2]
           n == Len(a)
           h == a \o <<Colon>>
<1>2. a \in Seq(Nat) /\ b \in Seq(Nat)
  <2>1. UserPw \in Seq(Strings(AUTH_MAX_USER_LEN) \X Strings(AUTH_MAX_PASS_LEN))
    BY RoutesAssumption
  <2>2. UserPw[no] \in Strings(AUTH_MAX_USER_LEN) \X Strings(AUTH_MAX_PASS_LEN)
    BY <2>1
  <2>3. \A size : Strings(size) \subseteq Seq(Nat)
    <3>1. 1 .. 255 \subseteq Nat
      OBVIOUS
    <3>2. Seq(1 .. 255) \subseteq Seq(Nat)
      BY <3>1, SeqMonotonic
    <3> QED BY <3>2 DEF Strings
  <2> QED BY <2>2, <2>3
<1>3. g \in Seq(Nat) /\ Colon \in Nat
  BY UserpassIs, RequestsAre DEF Colon
<1>4. /\ n \in Nat /\ Len(b) \in Nat /\ Len(g) = n + Len(b) + 1 /\ g[n + 1] = Colon
      /\ IsPrefix(a, g) /\ SubSeq(g, n + 2, Len(g)) = b
  <2>1. n \in Nat /\ Len(b) \in Nat
    <3> HIDE DEF a, b
    <3> QED BY <1>2 
  <2> QED BY <1>1, <2>1, Zenon
<1> HIDE DEF g, a, b
<1>5. \A k \in 1 .. n : g[k] = a[k]
  BY <1>2, <1>3, <1>4, PrefixIs DEF IsPrefix
<1>6. \A k \in 1 .. Len(b) : b[k] = g[n + 1 + k]
  <2>1. \A k \in n + 2 .. Len(g) : g[k] \in Nat
    <3> HIDE DEF n
    <3> QED BY <1>3, <1>4
  <2>2. \A k \in 1 .. Len(g) - (n + 2) + 1 : SubSeq(g, n + 2, Len(g))[k] = g[n + 2 + k - 1]
    BY <1>4, <2>1, SubSeqProperties
  <2> QED BY <1>4, <2>2
<1>7. h \in Seq(Nat) /\ Len(h) = n + 1 /\ \A k \in 1 .. n + 1 : h[k] = g[k]
  <2>1. h \in Seq(Nat) /\ Len(h) = n + 1 /\ h[n + 1] = Colon /\ \A k \in 1 .. n : h[k] = a[k]
    BY <1>2, <1>3
  <2>2. \A k \in 1 .. n + 1 : k \in 1 .. n \/ k = n + 1
    BY <1>2
  <2>3. \A k \in 1 .. n : a[k] = g[k]
    BY <1>5
  <2> HIDE DEF h, n
  <2> QED BY <1>4, <2>1, <2>2, <2>3
<1> HIDE DEF h, n
<1>8. /\ h \o b \in Seq(Nat) /\ Len(h \o b) = Len(g)
      /\ \A k \in 1 .. Len(g) : (h \o b)[k] = IF k <= n + 1 THEN h[k] ELSE b[k - (n + 1)]
  <2>1. /\ h \o b \in Seq(Nat) /\ Len(h \o b) = Len(h) + Len(b)
        /\ \A k \in 1 .. Len(h) + Len(b) : (h \o b)[k] = IF k <= Len(h) THEN h[k] ELSE b[k - Len(h)]
    BY <1>2, <1>7, ConcatProperties 
  <2>2. Len(h) + Len(b) = Len(g)
    BY <1>4, <1>7
  <2> QED BY <1>7, <2>1, <2>2
<1>9. \A k \in 1 .. Len(g) : (h \o b)[k] = g[k]
  <2> TAKE k \in 1 .. Len(g)
  <2>1. CASE k <= n + 1
    BY <2>1, <1>4, <1>7, <1>8
  <2>2. CASE k > n + 1
    <3>1. k - (n + 1) \in 1 .. Len(b)
      BY <2>2, <1>3, <1>4 
    <3>2. b[k - (n + 1)] = g[n + 1 + (k - (n + 1))] /\ n + 1 + (k - (n + 1)) = k
      <4>1. b[k - (n + 1)] = g[n + 1 + (k - (n + 1))]
        BY <3>1, <1>6, Zenon
      <4>2. n + 1 + (k - (n + 1)) = k
        BY <1>4
      <4> QED BY <4>1, <4>2
    <3> QED BY <2>2, <3>1, <3>2, <1>4, <1>8
  <2>3. k <= n + 1 \/ k > n + 1
    BY <1>3, <1>4
  <2> QED BY <2>1, <2>2, <2>3, Zenon
<1>10. g = h \o b
  BY <1>3, <1>8, <1>9, SeqEqual 
<1> QED BY <1>10 DEF KnownUser, g, h, a, b

\* Entry i lets the request go on.
LetBy(i) ==
  Takes(i) =>
    /\ rtable[i].cgi # "redirect"
    /\ rtable[i].cgi = "auth" => KnownUser \/ rreq.auth.scheme = "bare"
    /\ rtable[i].cgi = "file" => rreq.exists = 0
    /\ rtable[i].cgi = "tohost" => rreq.host # "other"

\* The entries before the one that is looked at let the request go on; an answer
\* comes from this one, and a file is the one its path names.
RoutesInv ==
  /\ RoutesTypeOK
  /\ \A i \in 1 .. rat - 1 : LetBy(i)
  /\ ranswer # Unanswered =>
       /\ ranswer.by = rat
       /\ rat <= Len(rtable) => Takes(rat)
       /\ ranswer.what = "file" =>
            rat <= Len(rtable) /\ ranswer.path = getFilepath(rtable[rat], rreq.url)

\* What the handler of an entry says.
LEMMA CallsAre ==
  ASSUME rreq \in RequestSet, NEW e \in Entries, NEW what \in Calls1(e, rreq)
  PROVE  /\ what \in {"nothing", "401", "302", "crash", "file", "notfound", "authenticated"}
         /\ PassesOn(what) =>
              /\ e.cgi # "redirect"
              /\ e.cgi = "auth" => KnownUser \/ rreq.auth.scheme = "bare"
              /\ e.cgi = "file" => rreq.exists = 0
              /\ e.cgi = "tohost" => rreq.host # "other"
<1>1. e.cgi \in RouteCgis
  BY EntriesAre
<1>2. rreq.exists \in 0 .. 1 /\ rreq.host \in {"NULL", "ip", "same", "other"}
  BY RequestsAre
<1>3. CASE e.cgi = "auth"
  <2>1. Calls1(e, rreq) = authBasic(rreq)
    BY <1>3 DEF Calls1
  <2>2. what \in {"authenticated", "401", "crash"} /\ (what = "authenticated" => KnownUser \/ rreq.auth.scheme = "bare")
    <3>1. rreq.auth.scheme \in {"none", "other", "bare", "Basic"}
      BY RequestsAre DEF Authorizations
    <3>2. CASE rreq.auth.scheme = "Basic"
      <4>1. what \in {IF Authenticated(Userpass(rreq.auth)) THEN "authenticated" ELSE "401"} \/ what = "crash"
        BY <2>1, <3>2 DEF authBasic
      <4> QED BY <3>2, <4>1, AuthenticatedKnown
    <3>3. CASE rreq.auth.scheme = "bare"
      BY <2>1, <3>3 DEF authBasic
    <3>4. CASE rreq.auth.scheme \in {"none", "other"}
      BY <2>1, <3>4 DEF authBasic
    <3> QED BY <3>1, <3>2, <3>3, <3>4
  <2> QED BY <1>3, <2>1, <2>2 DEF PassesOn
<1>4. CASE e.cgi = "redirect"
  <2>1. what = "302"
    BY <1>4 DEF Calls1, cgiRedirect
  <2> QED BY <1>4, <2>1 DEF PassesOn
<1>5. CASE e.cgi = "tohost"
  <2>1. what = cgiRedirectToHostname(rreq)
    BY <1>5 DEF Calls1
  <2>2. /\ cgiRedirectToHostname(rreq) \in {"notfound", "nothing", "302"}
        /\ cgiRedirectToHostname(rreq) = "notfound" => rreq.host # "other"
    BY DEF cgiRedirectToHostname
  <2> QED BY <1>5, <2>1, <2>2 DEF PassesOn
<1>6. CASE e.cgi = "apclient"
  <2>1. what = "notfound"
    BY <1>6 DEF Calls1, cgiRedirectApClientToHostname
  <2> QED BY <1>6, <2>1 DEF PassesOn
<1>7. CASE e.cgi = "file"
  <2>1. what = FileHandler(rreq)
    BY <1>7 DEF Calls1
  <2>2. FileHandler(rreq) \in {"file", "notfound"} /\ (FileHandler(rreq) = "notfound" => rreq.exists = 0)
    BY <1>2 DEF FileHandler
  <2> QED BY <1>7, <2>1, <2>2 DEF PassesOn
<1> QED BY <1>1, <1>3, <1>4, <1>5, <1>6, <1>7 DEF RouteCgis

LEMMA RoutesInitRight ==
  ASSUME RoutesInit
  PROVE  RoutesInv
<1>1. Len(rtable) \in Nat /\ rat = 1
  BY TablesAre DEF RoutesInit
<1>2. ranswer.by = 0 /\ ranswer.what = "nothing"
  BY DEF RoutesInit, Unanswered
<1> QED BY <1>1, <1>2 DEF RoutesInit, RoutesInv, RoutesTypeOK

LEMMA RoutesNextRight ==
  ASSUME RoutesInv, RoutesNext
  PROVE  RoutesInv'
<1>1. /\ rtable \in Tables /\ rreq \in RequestSet /\ rtable' = rtable /\ rreq' = rreq
      /\ Len(rtable) \in Nat /\ rat \in 1 .. Len(rtable) + 1
  BY TablesAre DEF RoutesInv, RoutesTypeOK, RoutesNext, Lookup, LookupEnds
<1>2. \A i \in Nat : (Takes(i)' <=> Takes(i)) /\ (LetBy(i)' <=> LetBy(i))
  BY <1>1 DEF Takes, LetBy, KnownUser
<1>3. CASE Lookup
  <2> DEFINE e == rtable[rat]
  <2>4. PICK what \in IF Matches(e.url, rreq.url) THEN Calls1(e, rreq) ELSE {"notfound"} :
          IF PassesOn(what) THEN rat' = rat + 1 /\ ranswer' = ranswer
          ELSE /\ ranswer' = [by |-> rat, what |-> what,
                              path |-> IF what = "file" THEN getFilepath(e, rreq.url) ELSE <<>>]
               /\ rat' = rat
    BY <1>3, Zenon DEF Lookup
  <2>1. rat \in 1 .. Len(rtable) /\ e \in Entries
    BY <1>1, <1>3, TablesAre DEF Lookup
  <2>2. Matches(e.url, rreq.url) <=> Takes(rat)
    BY <1>1, <2>1, MatchesTakes
  <2>3. /\ what \in {"nothing", "401", "302", "crash", "file", "notfound", "authenticated"}
        /\ PassesOn(what) => LetBy(rat)
        /\ ~ PassesOn(what) => Takes(rat)
    <3>1. CASE Matches(e.url, rreq.url)
      <4>1. what \in Calls1(e, rreq)
        BY <3>1
      <4>2. Takes(rat)
        BY <2>2, <3>1
      <4> QED BY <1>1, <2>1, <4>1, <4>2, CallsAre DEF LetBy
    <3>2. CASE ~ Matches(e.url, rreq.url)
      <4>1. what = "notfound" /\ ~ Takes(rat)
        BY <2>2, <3>2
      <4> QED BY <4>1 DEF LetBy, PassesOn
    <3> QED BY <3>1, <3>2
  <2>5. ranswer = Unanswered
    BY <1>3 DEF Lookup
  <2>6. CASE PassesOn(what)
    <3>1. rat' = rat + 1 /\ ranswer' = Unanswered /\ LetBy(rat)
      BY <2>3, <2>4, <2>5, <2>6
    <3>2. \A i \in 1 .. rat' - 1 : LetBy(i)'
      BY <1>1, <1>2, <2>1, <3>1 DEF RoutesInv
    <3>3. RoutesTypeOK'
      BY <1>1, <2>1, <3>1, <2>5 DEF RoutesInv, RoutesTypeOK
    <3> QED BY <3>1, <3>2, <3>3 DEF RoutesInv, Unanswered
  <2>7. CASE ~ PassesOn(what)
    <3>1. /\ rat' = rat /\ Takes(rat) /\ ranswer'.by = rat /\ ranswer'.what = what
          /\ what = "file" => ranswer'.path = getFilepath(e, rreq.url)
      BY <2>3, <2>4, <2>7
    <3>2. what \in {"nothing", "401", "302", "crash", "file"}
      BY <2>3, <2>7 DEF PassesOn
    <3>3. RoutesTypeOK'
      BY <1>1, <2>1, <3>1, <3>2 DEF RoutesTypeOK
    <3>4. \A i \in 1 .. rat' - 1 : LetBy(i)'
      BY <1>1, <1>2, <3>1 DEF RoutesInv
    <3>5. Takes(rat)'
      <4>1. Takes(rat) /\ rat' = rat /\ rtable' = rtable /\ rreq' = rreq
        BY <1>1, <3>1
      <4> QED BY <4>1 DEF Takes
    <3>6. ranswer'.what = "file" => ranswer'.path = getFilepath(rtable'[rat'], rreq'.url)
      <4>1. e = rtable'[rat'] /\ rreq' = rreq
        BY <1>1, <3>1
      <4> HIDE DEF e
      <4> QED BY <3>1, <4>1
    <3> QED BY <1>1, <2>1, <3>1, <3>3, <3>4, <3>5, <3>6 DEF RoutesInv
  <2> QED BY <2>6, <2>7
<1>4. CASE LookupEnds
  <2>1. /\ rat' = rat /\ rat = Len(rtable) + 1 /\ ranswer'.by = rat /\ ranswer'.what = "404"
    BY <1>4 DEF LookupEnds
  <2>2. RoutesTypeOK'
    BY <1>1, <2>1 DEF RoutesTypeOK
  <2>3. \A i \in 1 .. rat' - 1 : LetBy(i)'
    BY <1>1, <1>2, <2>1 DEF RoutesInv
  <2> QED BY <1>1, <2>1, <2>2, <2>3 DEF RoutesInv
<1> QED BY <1>3, <1>4 DEF RoutesNext

\* What a URL below a route has more than it.
LEMMA RestBelow ==
  ASSUME NEW route \in Lines, NEW url \in Lines, NEW n \in Nat, n = Len(route), n >= 2,
         Len(url) >= n - 1, \A k \in 1 .. n - 1 : route[k] = url[k],
         Len(url) >= n => url[n] # route[n]
  PROVE  Rest(route, url) = SubSeq(url, n, Len(url))
<1> DEFINE common == { k \in 0 .. Len(url) : k <= Len(route) /\ SubSeq(route, 1, k) = SubSeq(url, 1, k) }
           most(c) == c \in common /\ \A d \in common : d <= c
<1>1. Len(url) \in Nat /\ Len(route) = n
  BY DEF Lines
<1>2. ASSUME NEW k \in 1 .. n, k <= Len(url)
      PROVE  SubSeq(route, 1, k) = SubSeq(url, 1, k) <=> \A j \in 1 .. k : route[j] = url[j]
  <2> DEFINE s == SubSeq(route, 1, k)
             t == SubSeq(url, 1, k)
  <2>1. \A j \in 1 .. k : route[j] \in STRING /\ url[j] \in STRING
    BY <1>1, <1>2 DEF Lines
  <2>2. s \in Lines /\ Len(s) = k /\ \A j \in 1 .. k : s[j] = route[j]
    <3>1. /\ s \in Seq(STRING) /\ Len(s) = IF 1 <= k THEN k - 1 + 1 ELSE 0
          /\ \A j \in 1 .. k - 1 + 1 : s[j] = route[1 + j - 1]
      BY <2>1, SubSeqProperties
    <3> HIDE DEF s
    <3> QED BY <3>1 DEF Lines
  <2>3. t \in Lines /\ Len(t) = k /\ \A j \in 1 .. k : t[j] = url[j]
    <3>1. /\ t \in Seq(STRING) /\ Len(t) = IF 1 <= k THEN k - 1 + 1 ELSE 0
          /\ \A j \in 1 .. k - 1 + 1 : t[j] = url[1 + j - 1]
      BY <2>1, SubSeqProperties
    <3> HIDE DEF t
    <3> QED BY <3>1 DEF Lines
  <2> HIDE DEF s, t
  <2>4. (\A j \in 1 .. k : route[j] = url[j]) => s = t
    BY <2>2, <2>3, SeqEqual DEF Lines
  <2>5. s = t => \A j \in 1 .. k : route[j] = url[j]
    BY <2>2, <2>3
  <2> QED BY <2>4, <2>5 DEF s, t
<1>3. n - 1 \in common
  BY <1>1, <1>2
<1>4. \A d \in common : d <= n - 1
  <2> SUFFICES ASSUME NEW d \in common, d = n PROVE FALSE
    BY <1>1
  <2>1. d <= Len(url) /\ SubSeq(route, 1, d) = SubSeq(url, 1, d)
    OBVIOUS
  <2>2. route[n] = url[n]
    BY <1>2, <2>1
  <2> QED BY <2>1, <2>2
<1>5. \A c : most(c) <=> c = n - 1
  <2>1. \A c, d \in Int : c <= d /\ d <= c => c = d
    OBVIOUS
  <2>2. \A c \in common : c \in Int
    OBVIOUS
  <2> HIDE DEF common
  <2> QED BY <1>3, <1>4, <2>1, <2>2
<1>6. (CHOOSE c \in common : \A d \in common : d <= c) = n - 1
  <2> HIDE DEF common
  <2> QED BY <1>5, Zenon
<1>7. Rest(route, url) = SubSeq(url, (CHOOSE c \in common : \A d \in common : d <= c) + 1, Len(url))
  BY Zenon DEF Rest
<1>8. (n - 1) + 1 = n
  OBVIOUS
<1> HIDE DEF common
<1> QED BY <1>6, <1>7, <1>8, Zenon

LEMMA RoutesUnchangedRight ==
  ASSUME RoutesInv, UNCHANGED routeVars
  PROVE  RoutesInv'
  BY DEF RoutesInv, routeVars, RoutesTypeOK, LetBy, Takes, KnownUser

LEMMA RoutesInvIsEnough ==
  ASSUME RoutesInv
  PROVE  FirstRouteAnswers /\ PathBelowBase
<1>1. /\ rtable \in Tables /\ rreq \in RequestSet /\ Len(rtable) \in Nat /\ rat \in 1 .. Len(rtable) + 1
  BY TablesAre DEF RoutesInv, RoutesTypeOK
<1>2. FirstRouteAnswers
  BY <1>1 DEF RoutesInv, FirstRouteAnswers, LetBy
<1>3. PathBelowBase
  <2> DEFINE r == rtable[rat]
             u == r.url
             w == rreq.url
             n == Len(u)
             below == SubSeq(w, n, Len(w))
  <2> SUFFICES ASSUME ranswer.what = "file", r.base = "ex", n >= 2, u[n] = "*", u[n - 1] = "/",
                      below # <<>> => below[1] # "*", Base \notin RegularFiles
               PROVE  ranswer.path = Base \o <<"/">> \o
                           (IF below # <<>> /\ below[1] = "/" THEN Tail(below) ELSE below)
    <3>1. ranswer.what = "file" => ranswer.by = rat
      BY DEF RoutesInv, Unanswered
    <3> QED BY <3>1 DEF PathBelowBase
  <2>1. ranswer # Unanswered
    BY DEF Unanswered
  <2>2. rat \in 1 .. Len(rtable) /\ Takes(rat) /\ ranswer.path = getFilepath(r, w)
    BY <1>1, <2>1 DEF RoutesInv
  <2>3. r \in Entries
    BY <1>1, <2>2, TablesAre
  <2>4. u \in Lines /\ w \in Lines /\ n \in Nat /\ Len(w) \in Nat
    BY <1>1, <2>3, EntriesAre, RequestsAre DEF Lines
  <2>5. /\ u = w \/ (Len(w) >= n - 1 /\ \A k \in 1 .. n - 1 : u[k] = w[k])
    BY <2>2 DEF Takes
  <2> HIDE DEF u, w
  <2>6. Len(w) >= n - 1 /\ \A k \in 1 .. n - 1 : u[k] = w[k]
    BY <2>4, <2>5
  <2>7. Len(w) >= n => w[n] # u[n]
    <3> SUFFICES ASSUME Len(w) >= n PROVE w[n] # "*"
      OBVIOUS
    <3>1. \A j \in n .. Len(w) : w[j] \in STRING
      BY <2>4 DEF Lines
    <3>2. /\ Len(below) = IF n <= Len(w) THEN Len(w) - n + 1 ELSE 0
          /\ \A j \in 1 .. Len(w) - n + 1 : below[j] = w[n + j - 1]
      BY <2>4, <3>1, SubSeqProperties
    <3>3. Len(below) >= 1 /\ below[1] = w[n]
      <4> HIDE DEF below, n
      <4> QED BY <2>4, <3>2
    <3>4. below # <<>>
      <4> HIDE DEF below
      <4> QED BY <3>3
    <3> QED BY <3>3, <3>4
  <2>8. Rest(u, w) = below
    BY <2>4, <2>6, <2>7, RestBelow
  <2> DEFINE name == IF below # <<>> /\ below[1] = "/" THEN Tail(below) ELSE below
  <2>9. getFilepath(r, w) = Base \o <<"/">> \o name
    <3>1. r.base # "" /\ r.base # "plain" /\ Rest(r.url, w) = below
      BY <2>8 DEF u
    <3> HIDE DEF below, n, r
    <3> QED BY <3>1, Zenon DEF getFilepath
  <2> QED BY <2>2, <2>9, Zenon
<1> QED BY <1>2, <1>3

\* For every table of routes and every request (httpdProcessRequest): the request
\* is answered by the first route whose pattern takes its URL and that does not
\* pass it on, and a file route below a base serves the path the URL names there.
THEOREM RoutesRight == RoutesSpec => [](FirstRouteAnswers /\ PathBelowBase)
<1>1. RoutesInv /\ [RoutesNext]_routeVars => RoutesInv'
  BY RoutesNextRight, RoutesUnchangedRight
<1> QED BY <1>1, RoutesInitRight, RoutesInvIsEnough, PTL DEF RoutesSpec

-----------------------------------------------------------------------------
(* The DNS server: every reply is right.                                    *)

\* A label in a packet.
LabelBytes(l) == <<Len(l)>> \o l

\* A name label by label: in a packet, and with dots.
NameRun(n, e, d) ==
  /\ e \in [0 .. Len(n) -> Seq(Nat)] /\ e[0] = <<>>
  /\ \A k \in 1 .. Len(n) : e[k] = e[k - 1] \o LabelBytes(n[k])
  /\ Encoded(n) = e[Len(n)] \o <<0>>
  /\ d \in [0 .. Len(n) -> Seq(Nat)] /\ d[0] = <<>>
  /\ \A k \in 1 .. Len(n) : d[k] = (IF d[k - 1] = <<>> THEN <<>> ELSE Append(d[k - 1], Dot)) \o n[k]

\* What a label is.
LEMMA LabelsAre ==
  ASSUME NEW l \in Labels
  PROVE  /\ l \in Seq(Nat) /\ Len(l) \in 1 .. 63 /\ \A j \in 1 .. Len(l) : l[j] \in Nat /\ l[j] # Dot
         /\ LabelBytes(l) \in Seq(Nat) /\ Len(LabelBytes(l)) = Len(l) + 1 /\ LabelBytes(l)[1] = Len(l)
         /\ \A j \in 1 .. Len(l) : LabelBytes(l)[j + 1] = l[j]
<1> DEFINE S == (1 .. 255) \ {Dot}
<1>1. l \in Seq(S) /\ Len(l) \in 1 .. 63
  BY DEF Labels
<1>2. \A x \in S : x \in Nat /\ x # Dot
  OBVIOUS
<1> HIDE DEF S
<1>3. l \in Seq(Nat) /\ \A j \in 1 .. Len(l) : l[j] \in Nat /\ l[j] # Dot
  <2>1. S \subseteq Nat
    BY <1>2
  <2>2. \A j \in 1 .. Len(l) : l[j] \in S
    BY <1>1, ElementOfSeq
  <2> QED BY <1>1, <1>2, <2>1, <2>2, SeqMonotonic
<1>4. <<Len(l)>> \in Seq(Nat) /\ Len(<<Len(l)>>) = 1 /\ <<Len(l)>>[1] = Len(l)
  BY <1>1
<1> DEFINE h == <<Len(l)>>
<1>5. h \in Seq(Nat) /\ Len(h) = 1 /\ h[1] = Len(l)
  BY <1>4
<1> HIDE DEF h
<1>6. /\ h \o l \in Seq(Nat) /\ Len(h \o l) = Len(h) + Len(l)
      /\ \A i \in 1 .. Len(h) + Len(l) : (h \o l)[i] = IF i <= Len(h) THEN h[i] ELSE l[i - Len(h)]
  BY <1>3, <1>5, ConcatProperties
<1>7. LabelBytes(l) = h \o l
  BY DEF LabelBytes, h
<1> DEFINE w == h \o l
<1>8. /\ w \in Seq(Nat) /\ Len(w) = 1 + Len(l)
      /\ \A i \in 1 .. 1 + Len(l) : w[i] = IF i <= 1 THEN h[i] ELSE l[i - 1]
  BY <1>5, <1>6
<1> HIDE DEF w
<1>9. w[1] = Len(l) /\ \A j \in 1 .. Len(l) : w[j + 1] = l[j]
  BY <1>1, <1>5, <1>8
<1> QED BY <1>1, <1>3, <1>7, <1>8, <1>9 DEF w

\* Every name goes on label by label.
LEMMA NamesRun ==
  ASSUME NEW n \in Seq(Labels)
  PROVE  \E e, d : NameRun(n, e, d)
<1> DEFINE L == Len(n)
           ws == [k \in DOMAIN n |-> LabelBytes(n[k])]
<1>1. L \in Nat /\ DOMAIN n = 1 .. L /\ \A k \in 1 .. L : n[k] \in Labels
  OBVIOUS
<1>2. ws \in Seq(Seq(Nat)) /\ Len(ws) = L /\ \A k \in 1 .. L : ws[k] = LabelBytes(n[k])
  <2>1. \A k \in 1 .. L : LabelBytes(n[k]) \in Seq(Nat)
    BY <1>1, LabelsAre
  <2> HIDE DEF L
  <2> QED BY <1>1, <2>1
<1>3. Encoded(n) = FlattenSeq(ws) \o <<0>>
  BY DEF Encoded, LabelBytes
<1> HIDE DEF ws
<1>12. PICK e \in [0 .. Len(ws) -> Seq(Nat)] :
         /\ e[0] = <<>> /\ \A k \in 1 .. Len(ws) : e[k] = e[k - 1] \o ws[k]
         /\ FlattenSeq(ws) = e[Len(ws)]
  <2> HIDE DEF L
  <2> QED BY <1>2, FlattenIs
<1>4. /\ e \in [0 .. L -> Seq(Nat)] /\ e[0] = <<>> /\ \A k \in 1 .. L : e[k] = e[k - 1] \o LabelBytes(n[k])
      /\ Encoded(n) = e[L] \o <<0>>
  <2> HIDE DEF L
  <2> QED BY <1>2, <1>3, <1>12
<1> DEFINE Next1(s, l) == (IF s = <<>> THEN <<>> ELSE Append(s, Dot)) \o l
           G == [p \in (1 .. L) \X Seq(Nat) |-> Next1(p[2], n[p[1]])]
<1>5. ASSUME NEW s \in Seq(Nat), NEW l \in Labels
      PROVE  Next1(s, l) \in Seq(Nat)
  <2>1. l \in Seq(Nat) /\ Dot \in Nat
    BY LabelsAre DEF Dot
  <2>2. Append(s, Dot) \in Seq(Nat) /\ <<>> \in Seq(Nat)
    BY <2>1, AppendProperties
  <2>3. \A v \in Seq(Nat) : v \o l \in Seq(Nat)
    BY <2>1, ConcatProperties
  <2> QED BY <2>2, <2>3
<1>6. ASSUME NEW k \in 1 .. L, NEW s \in Seq(Nat)
      PROVE  G[<<k, s>>] = Next1(s, n[k]) /\ G[<<k, s>>] \in Seq(Nat)
  <2>1. n[k] \in Labels
    BY <1>1
  <2>2. Next1(s, n[k]) \in Seq(Nat)
    BY <1>5, <2>1
  <2>3. <<k, s>> \in (1 .. L) \X Seq(Nat)
    OBVIOUS
  <2> HIDE DEF Next1, L
  <2> QED BY <2>2, <2>3
<1> HIDE DEF G, L
<1>7. Leads(G, L, Seq(Nat))
  BY <1>6 DEF Leads
<1>8. <<>> \in Seq(Nat)
  OBVIOUS
<1>9. PICK d : Steps(d, L, Seq(Nat), <<>>, G)
  BY <1>1, <1>7, <1>8, StepsExist
<1>10. /\ d \in [0 .. L -> Seq(Nat)] /\ d[0] = <<>> /\ \A k \in 1 .. L : d[k] = G[<<k, d[k - 1]>>]
  BY <1>9 DEF Steps
<1>11. ASSUME NEW k \in 1 .. L
       PROVE  d[k] = Next1(d[k - 1], n[k])
  <2>1. k - 1 \in 0 .. L
    BY <1>1
  <2>2. d[k - 1] \in Seq(Nat)
    BY <1>10, <2>1
  <2> HIDE DEF Next1
  <2> QED BY <1>6, <1>10, <2>2
<1> QED BY <1>4, <1>10, <1>11, Zenon DEF NameRun, L

\* w is in the packet behind place p.
Holds(packet, p, w) ==
  /\ packet \in Seq(Nat) /\ w \in Seq(Nat) /\ p \in Nat /\ p + Len(w) <= Len(packet)
  /\ \A j \in 1 .. Len(w) : packet[p + j] = w[j]

\* So are its parts.
LEMMA HoldsParts ==
  ASSUME NEW packet, NEW p, NEW v \in Seq(Nat), NEW w \in Seq(Nat), Holds(packet, p, v \o w)
  PROVE  Holds(packet, p, v) /\ Holds(packet, p + Len(v), w)
<1> DEFINE t == v \o w
<1>1. /\ t \in Seq(Nat) /\ Len(t) = Len(v) + Len(w)
      /\ \A i \in 1 .. Len(v) + Len(w) : t[i] = IF i <= Len(v) THEN v[i] ELSE w[i - Len(v)]
  BY ConcatProperties
<1>2. Holds(packet, p, t)
  OBVIOUS
<1> HIDE DEF t
<1>3. packet \in Seq(Nat) /\ p \in Nat /\ p + Len(t) <= Len(packet) /\ \A j \in 1 .. Len(t) : packet[p + j] = t[j]
  BY <1>2 DEF Holds
<1>4. Len(v) \in Nat /\ Len(w) \in Nat /\ Len(packet) \in Nat
  BY <1>3
<1>5. ASSUME NEW j \in 1 .. Len(v)
      PROVE  packet[p + j] = v[j]
  <2>1. j \in 1 .. Len(t) /\ j \in 1 .. Len(v) + Len(w) /\ j <= Len(v)
    BY <1>1, <1>4
  <2>2. t[j] = v[j] /\ packet[p + j] = t[j]
    BY <1>1, <1>3, <2>1
  <2> QED BY <2>2
<1>6. ASSUME NEW j \in 1 .. Len(w)
      PROVE  packet[(p + Len(v)) + j] = w[j]
  <2>1. Len(v) + j \in 1 .. Len(t) /\ (Len(v) + j) - Len(v) = j /\ ~ (Len(v) + j <= Len(v))
    BY <1>1, <1>4
  <2>2. t[Len(v) + j] = w[j]
    BY <1>1, <2>1
  <2>3. packet[p + (Len(v) + j)] = t[Len(v) + j]
    BY <1>3, <2>1
  <2>4. p + (Len(v) + j) = (p + Len(v)) + j
    BY <1>3, <1>4
  <2> QED BY <2>2, <2>3, <2>4
<1>7. p + Len(v) <= Len(packet) /\ (p + Len(v)) + Len(w) <= Len(packet) /\ p + Len(v) \in Nat
  BY <1>1, <1>3, <1>4
<1> QED BY <1>3, <1>5, <1>6, <1>7 DEF Holds

\* Where the labels of a name are.
LabelsAt(packet, p, n, e) ==
  /\ \A k \in 1 .. Len(n) : Holds(packet, p + Len(e[k - 1]), LabelBytes(n[k])) /\ Len(e[k]) = Len(e[k - 1]) + 1 + Len(n[k])
  /\ p + Len(e[Len(n)]) + 1 <= Len(packet) /\ packet[p + Len(e[Len(n)]) + 1] = 0
  /\ \A k \in 0 .. Len(n) : Len(e[k]) \in Nat /\ k <= Len(e[k])
  /\ Len(Encoded(n)) = Len(e[Len(n)]) + 1

\* A packet that has a name has its labels.
LEMMA LabelsHeld ==
  ASSUME NEW n \in Seq(Labels), NEW e, NEW d, NameRun(n, e, d), NEW packet, NEW p, Holds(packet, p, Encoded(n))
  PROVE  LabelsAt(packet, p, n, e)
<1> DEFINE L == Len(n)
<1>1. L \in Nat /\ \A k \in 1 .. L : n[k] \in Labels
  OBVIOUS
<1>2. /\ e \in [0 .. L -> Seq(Nat)] /\ e[0] = <<>>
      /\ \A k \in 1 .. L : e[k] = e[k - 1] \o LabelBytes(n[k])
      /\ Encoded(n) = e[L] \o <<0>>
  BY DEF NameRun
<1>3. packet \in Seq(Nat) /\ p \in Nat
  BY DEF Holds
<1> HIDE DEF L
<1>4. ASSUME NEW k \in 1 .. L
      PROVE  /\ k - 1 \in 0 .. L /\ e[k - 1] \in Seq(Nat) /\ LabelBytes(n[k]) \in Seq(Nat) /\ e[k] \in Seq(Nat)
             /\ e[k] = e[k - 1] \o LabelBytes(n[k])
             /\ Len(n[k]) \in 1 .. 63 /\ Len(LabelBytes(n[k])) = Len(n[k]) + 1
  <2>1. n[k] \in Labels /\ k - 1 \in 0 .. L /\ k \in 0 .. L
    BY <1>1
  <2> QED BY <1>2, <2>1, LabelsAre
<1>5. e[L] \in Seq(Nat) /\ <<0>> \in Seq(Nat) /\ Len(<<0>>) = 1 /\ <<0>>[1] = 0
  BY <1>1, <1>2
<1>6. Holds(packet, p, e[L]) /\ Holds(packet, p + Len(e[L]), <<0>>)
  <2> DEFINE z == <<0>>
  <2>1. z \in Seq(Nat) /\ Holds(packet, p, e[L] \o z)
    BY <1>2, <1>5
  <2> HIDE DEF z
  <2>2. Holds(packet, p, e[L]) /\ Holds(packet, p + Len(e[L]), z)
    BY <1>5, <2>1, HoldsParts
  <2> QED BY <2>2 DEF z
<1>7. \A k \in 0 .. L : Holds(packet, p, e[L - k])
  <2> DEFINE T == { k \in 0 .. L : Holds(packet, p, e[L - k]) }
  <2>1. 0 \in T
    <3>1. L - 0 = L /\ 0 \in 0 .. L
      BY <1>1
    <3> QED BY <1>6, <3>1
  <2>2. ASSUME NEW k \in 0 .. L - 1, k \in T
        PROVE  k + 1 \in T
    <3>1. PICK j \in 1 .. L : j = L - k
      BY <1>1
    <3>2. L - (k + 1) = j - 1 /\ k + 1 \in 0 .. L
      BY <1>1, <3>1
    <3>3. Holds(packet, p, e[j - 1] \o LabelBytes(n[j]))
      BY <1>4, <2>2, <3>1
    <3>4. Holds(packet, p, e[j - 1])
      BY <1>4, <3>3, HoldsParts
    <3> QED BY <3>2, <3>4
  <2> HIDE DEF T
  <2>3. \A k \in 0 .. L : k \in T
    BY <1>1, <2>1, <2>2, UpTo
  <2> QED BY <2>3 DEF T
<1>8. ASSUME NEW k \in 1 .. L
      PROVE  Holds(packet, p + Len(e[k - 1]), LabelBytes(n[k])) /\ Len(e[k]) = Len(e[k - 1]) + 1 + Len(n[k])
  <2>1. L - k \in 0 .. L /\ L - (L - k) = k
    BY <1>1
  <2>2. Holds(packet, p, e[k])
    BY <1>7, <2>1
  <2>3. Holds(packet, p, e[k - 1] \o LabelBytes(n[k]))
    BY <1>4, <2>2
  <2>4. Holds(packet, p + Len(e[k - 1]), LabelBytes(n[k]))
    BY <1>4, <2>3, HoldsParts
  <2>5. Len(e[k - 1] \o LabelBytes(n[k])) = Len(e[k - 1]) + Len(LabelBytes(n[k]))
    BY <1>4, ConcatProperties
  <2>6. PICK a, m : a = Len(e[k - 1]) /\ m = Len(n[k])
    OBVIOUS
  <2>7. Len(e[k]) = Len(e[k - 1]) + Len(LabelBytes(n[k]))
    BY <1>4, <2>5
  <2>10. e[k - 1] \in Seq(Nat) /\ Len(n[k]) \in 1 .. 63 /\ Len(LabelBytes(n[k])) = Len(n[k]) + 1
    BY <1>4
  <2>8. a \in Nat /\ m \in Nat
    BY <2>6, <2>10
  <2>11. Len(e[k]) = a + (m + 1)
    BY <2>6, <2>7, <2>10
  <2>12. a + (m + 1) = a + 1 + m
    BY <2>8
  <2>9. Len(e[k]) = Len(e[k - 1]) + 1 + Len(n[k])
    BY <2>6, <2>11, <2>12
  <2> QED BY <2>4, <2>9
<1>9. /\ p + Len(e[L]) + 1 <= Len(packet) /\ packet[p + Len(e[L]) + 1] = 0
  <2>1. p + Len(e[L]) \in Nat /\ Len(packet) \in Nat
    BY <1>3, <1>5
  <2>2. PICK q \in Nat : q = p + Len(e[L])
    BY <2>1
  <2>3. Holds(packet, q, <<0>>)
    BY <1>6, <2>2
  <2>4. 1 \in 1 .. Len(<<0>>)
    BY <1>5
  <2>5. packet[q + 1] = 0 /\ q + 1 <= Len(packet)
    BY <1>5, <2>3, <2>4 DEF Holds
  <2> QED BY <2>2, <2>5
<1>10. \A k \in 0 .. L : Len(e[k]) \in Nat /\ k <= Len(e[k])
  <2> DEFINE T == { k \in 0 .. L : Len(e[k]) \in Nat /\ k <= Len(e[k]) }
  <2>1. 0 \in T
    BY <1>1, <1>2
  <2>2. ASSUME NEW k \in 0 .. L - 1, k \in T
        PROVE  k + 1 \in T
    <3>1. k + 1 \in 1 .. L /\ (k + 1) - 1 = k /\ k + 1 \in 0 .. L
      BY <1>1
    <3>2. Len(e[k + 1]) = Len(e[k]) + 1 + Len(n[k + 1]) /\ Len(n[k + 1]) \in 1 .. 63
      BY <1>4, <1>8, <3>1
    <3>3. Len(e[k]) \in Nat /\ k <= Len(e[k])
      BY <2>2
    <3>4. PICK a, m : a = Len(e[k]) /\ m = Len(n[k + 1])
      OBVIOUS
    <3>5. a \in Nat /\ m \in 1 .. 63 /\ k <= a /\ Len(e[k + 1]) = a + 1 + m
      BY <3>2, <3>3, <3>4
    <3>6. Len(e[k + 1]) \in Nat /\ k + 1 <= Len(e[k + 1])
      BY <3>5
    <3> QED BY <3>1, <3>6
  <2> HIDE DEF T
  <2>3. \A k \in 0 .. L : k \in T
    BY <1>1, <2>1, <2>2, UpTo
  <2> QED BY <2>3 DEF T
<1>11. Len(Encoded(n)) = Len(e[L]) + 1
  <2>1. Len(e[L] \o <<0>>) = Len(e[L]) + Len(<<0>>)
    BY <1>5, ConcatProperties
  <2> QED BY <1>2, <1>5, <2>1
<1> QED BY <1>8, <1>9, <1>10, <1>11 DEF LabelsAt, L

\* A state of labelToStr's loop.
At(at, res, end, done) == [at |-> at, res |-> res, end |-> end, done |-> done]

\* A state that moves on, or is moved.
Moved(s, a, u, t) == [s EXCEPT !.at = a, !.res = u] = t
MovedTo(s, a, y, t) == [s EXCEPT !.end = y, !.at = a] = t

\* To where it is then.
LEMMA Moves ==
  ASSUME NEW q, NEW r, NEW x, NEW y, NEW done, NEW a, NEW u, NEW s, s = At(q, r, x, done)
  PROVE  Moved(s, a, u, At(a, u, x, done)) /\ MovedTo(s, a, y, At(a, r, y, done))
<1>1. s = [at |-> q, res |-> r, end |-> x, done |-> done]
  BY DEF At
<1>2. PICK t : t = [s EXCEPT !.at = a]
  OBVIOUS
<1>3. t = [at |-> a, res |-> r, end |-> x, done |-> done]
  BY <1>1, <1>2
<1>4. [t EXCEPT !.res = u] = [at |-> a, res |-> u, end |-> x, done |-> done]
  BY <1>3
<1>5. [s EXCEPT !.at = a, !.res = u] = [t EXCEPT !.res = u]
  BY <1>2
<1>6. PICK v : v = [s EXCEPT !.end = y]
  OBVIOUS
<1>7. v = [at |-> q, res |-> r, end |-> y, done |-> done]
  BY <1>1, <1>6
<1>8. [v EXCEPT !.at = a] = [at |-> a, res |-> r, end |-> y, done |-> done]
  BY <1>7
<1>9. [s EXCEPT !.end = y, !.at = a] = [v EXCEPT !.at = a]
  BY <1>6
<1> QED BY <1>4, <1>5, <1>8, <1>9, Zenon DEF At, Moved, MovedTo

\* A label is copied behind a dot.
LEMMA LabelCopied ==
  ASSUME NEW packet \in Seq(Nat), NEW q \in Nat, NEW r \in Seq(Nat), NEW x, NEW l \in Labels,
         Holds(packet, q, LabelBytes(l))
  PROVE  LabelTurn(packet, At(q, r, x, 0))
           = At(q + 1 + Len(l), (IF r = <<>> THEN <<>> ELSE Append(r, Dot)) \o l, x,
                IF packet[q + 1 + Len(l) + 1] = 0 THEN 1 ELSE 0)
<1>1. /\ l \in Seq(Nat) /\ Len(l) \in 1 .. 63
      /\ LabelBytes(l) \in Seq(Nat) /\ Len(LabelBytes(l)) = Len(l) + 1 /\ LabelBytes(l)[1] = Len(l)
      /\ \A j \in 1 .. Len(l) : LabelBytes(l)[j + 1] = l[j]
  BY LabelsAre
<1>2. q + (Len(l) + 1) <= Len(packet) /\ \A j \in 1 .. Len(l) + 1 : packet[q + j] = LabelBytes(l)[j]
  BY <1>1 DEF Holds
<1>3. PICK b \in 1 .. 63 : b = Len(l)
  BY <1>1
<1>4. packet[q + 1] = b
  <2>1. 1 \in 1 .. Len(l) + 1
    BY <1>1
  <2> QED BY <1>1, <1>2, <1>3, <2>1
<1>5. SubSeq(packet, q + 2, q + 1 + b) = l
  <2>1. \A i \in q + 2 .. q + 1 + b : packet[i] \in Nat
    BY <1>2, <1>3
  <2>2. q + 2 \in Int /\ q + 1 + b \in Int /\ (q + 1 + b) - (q + 2) + 1 = b /\ q + 2 <= q + 1 + b
    OBVIOUS
  <2> DEFINE w == SubSeq(packet, q + 2, q + 1 + b)
  <2>3. /\ w \in Seq(Nat) /\ Len(w) = IF q + 2 <= q + 1 + b THEN (q + 1 + b) - (q + 2) + 1 ELSE 0
        /\ \A i \in 1 .. (q + 1 + b) - (q + 2) + 1 : w[i] = packet[q + 2 + i - 1]
    BY <2>1, <2>2, SubSeqProperties
  <2> HIDE DEF w
  <2>4. ASSUME NEW j \in 1 .. b
        PROVE  w[j] = l[j]
    <3>1. w[j] = packet[q + 2 + j - 1] /\ q + 2 + j - 1 = q + (j + 1) /\ j + 1 \in 1 .. b + 1
      BY <2>2, <2>3
    <3>2. packet[q + (j + 1)] = LabelBytes(l)[j + 1]
      BY <1>2, <1>3, <3>1
    <3> QED BY <1>1, <1>3, <3>1, <3>2
  <2>5. Len(w) = Len(l)
    BY <1>3, <2>2, <2>3
  <2>6. w = l
    BY <1>1, <1>3, <2>3, <2>4, <2>5, SeqEqual
  <2> QED BY <2>6 DEF w
<1> DEFINE s == At(q, r, x, 0)
           u == (IF r = <<>> THEN <<>> ELSE Append(r, Dot)) \o l
           t == [s EXCEPT !.at = @ + 1 + packet[s.at + 1],
                          !.res = (IF @ = <<>> THEN <<>> ELSE Append(@, Dot))
                                  \o SubSeq(packet, s.at + 2, s.at + 1 + packet[s.at + 1])]
<1>6. s.done = 0 /\ s.at = q /\ s.res = r /\ s.end = x
  BY DEF At
<1>7. t = At(q + 1 + b, u, x, 0)
  <2>1. t = [s EXCEPT !.at = q + 1 + b, !.res = u]
    BY <1>4, <1>5, <1>6
  <2>3. s = At(q, r, x, 0)
    OBVIOUS
  <2> HIDE DEF u, s
  <2>4. Moved(s, q + 1 + b, u, At(q + 1 + b, u, x, 0))
    BY <2>3, Moves
  <2>2. [s EXCEPT !.at = q + 1 + b, !.res = u] = At(q + 1 + b, u, x, 0)
    BY <2>4, Zenon DEF Moved
  <2> QED BY <2>1, <2>2
<1>8. LabelTurn(packet, s) = IF packet[t.at + 1] = 0 THEN [t EXCEPT !.done = 1] ELSE t
  <2>1. packet[s.at + 1] < 64 /\ ~ (s.done = 1)
    <3> HIDE DEF s
    <3>2. s.at = q /\ s.done = 0
      BY <1>6
    <3>3. packet[s.at + 1] = b
      BY <1>4, <3>2, Zenon
    <3>1. packet[s.at + 1] = b /\ s.done = 0 /\ b < 64
      BY <3>2, <3>3
    <3> QED BY <3>1
  <2> HIDE DEF s
  <2> QED BY <2>1, Zenon DEF LabelTurn
<1> HIDE DEF t, s, u
<1>9. t.at = q + 1 + b /\ [t EXCEPT !.done = 1] = At(q + 1 + b, u, x, 1)
  BY <1>7 DEF At
<1>10. LabelTurn(packet, s) = At(q + 1 + b, u, x, IF packet[q + 1 + b + 1] = 0 THEN 1 ELSE 0)
  <2>1. CASE packet[q + 1 + b + 1] = 0
    BY <1>8, <1>9, <2>1
  <2>2. CASE packet[q + 1 + b + 1] # 0
    BY <1>7, <1>8, <1>9, <2>2
  <2> QED BY <2>1, <2>2
<1> QED BY <1>3, <1>10 DEF s, u

\* A pointer to the first name is followed.
LEMMA PointerFollowed ==
  ASSUME NEW packet, NEW q \in Nat, packet[q + 1] = 192, packet[q + 2] = 12, packet[1] # 0
  PROVE  LabelTurn(packet, At(q, <<>>, -1, 0)) = At(0, <<>>, q + 2, 0)
<1> DEFINE s == At(q, <<>>, -1, 0)
           t == [s EXCEPT !.end = s.at + 2,
                          !.at = 256 * (packet[s.at + 1] - 192) + packet[s.at + 2] - HeaderLen]
<1>1. s.done = 0 /\ s.at = q
  BY DEF At
<1>2. 256 * (packet[s.at + 1] - 192) + packet[s.at + 2] - HeaderLen = 0
  BY <1>1 DEF HeaderLen
<1>3. t = At(0, <<>>, q + 2, 0)
  <2>1. t = [s EXCEPT !.end = q + 2, !.at = 0]
    BY <1>1, <1>2
  <2>3. s = At(q, <<>>, -1, 0)
    OBVIOUS
  <2> HIDE DEF s
  <2>5. PICK e, x : e = <<>> /\ x = -1
    OBVIOUS
  <2>6. s = At(q, e, x, 0)
    BY <2>3, <2>5
  <2>7. MovedTo(s, 0, q + 2, At(0, e, q + 2, 0))
    BY <2>6, Moves
  <2>4. MovedTo(s, 0, q + 2, At(0, <<>>, q + 2, 0))
    BY <2>5, <2>7, Zenon
  <2>2. [s EXCEPT !.end = q + 2, !.at = 0] = At(0, <<>>, q + 2, 0)
    BY <2>4, Zenon DEF MovedTo
  <2> QED BY <2>1, <2>2
<1>4. LabelTurn(packet, s) = IF packet[t.at + 1] = 0 THEN [t EXCEPT !.done = 1] ELSE t
  <2>1. ~ (packet[s.at + 1] < 64) /\ ~ (s.done = 1)
    BY <1>1
  <2> HIDE DEF s
  <2> QED BY <2>1, Zenon DEF LabelTurn
<1> HIDE DEF t, s
<1>5. t.at + 1 = 1
  BY <1>3 DEF At
<1>6. LabelTurn(packet, s) = t
  BY <1>4, <1>5
<1> QED BY <1>3, <1>6 DEF s

\* The states that labelToStr's loop goes through.
TurnsRun(st, packet, at, S) ==
  LET n == Len([i \in 1 .. Len(packet) |-> i])
  IN /\ st \in [0 .. n -> S] /\ st[0] = At(at, <<>>, -1, 0)
     /\ \A k \in 1 .. n : st[k] = LabelTurn(packet, st[k - 1])
     /\ LabelsRead(packet, at) = st[n]

\* The loop goes through them.
LEMMA TurnsRuns ==
  ASSUME NEW packet \in Seq(Nat), NEW at, NEW S, At(at, <<>>, -1, 0) \in S,
         \A s \in S : LabelTurn(packet, s) \in S
  PROVE  \E st : TurnsRun(st, packet, at, S)
<1> DEFINE n == Len([i \in 1 .. Len(packet) |-> i])
           b == At(at, <<>>, -1, 0)
           Go(s, x) == LabelTurn(packet, s)
           G == [p \in (1 .. n) \X S |-> Go(p[2], [i \in 1 .. Len(packet) |-> i][p[1]])]
           c == CHOOSE iter : iter = [s \in SUBSET (DOMAIN [i \in 1 .. Len(packet) |-> i]) |->
                  IF s = {} THEN b ELSE Go(iter[s \ {Max(s)}], [i \in 1 .. Len(packet) |-> i][Max(s)])]
           fin == c[DOMAIN [i \in 1 .. Len(packet) |-> i]]
<1>1. n \in Nat /\ DOMAIN [i \in 1 .. Len(packet) |-> i] = 1 .. n /\ \A k \in 1 .. n : [i \in 1 .. Len(packet) |-> i][k] \in Nat
  OBVIOUS
<1>2. LabelsRead(packet, at) = fin
  BY Zenon DEF LabelsRead, At, FoldLeft, MapThenFoldSet
<1>3. b \in S
  BY Zenon
<1>4. ASSUME NEW k \in 1 .. n, NEW s \in S
      PROVE  G[<<k, s>>] = Go(s, [i \in 1 .. Len(packet) |-> i][k]) /\ G[<<k, s>>] \in S
  <2>1. [i \in 1 .. Len(packet) |-> i][k] \in Nat
    BY <1>1
  <2> DEFINE x == [i \in 1 .. Len(packet) |-> i][k]
  <2>2. x \in Nat
    BY <2>1
  <2> HIDE DEF x
  <2>3. Go(s, x) \in S
    BY <2>2, Zenon
  <2>4. <<k, s>> \in (1 .. n) \X S
    OBVIOUS
  <2> HIDE DEF Go
  <2> QED BY <2>3, <2>4 DEF x
<1> HIDE DEF n, b, G, Go
<1>5. Leads(G, n, S)
  BY <1>4 DEF Leads
<1>6. PICK h \in [SUBSET (1 .. n) -> S] : Folds1(h, n, b, G)
  BY <1>1, <1>3, <1>5, FoldExists
<1> DEFINE D(f) == [s \in SUBSET (1 .. n) |-> IF s = {} THEN b ELSE Go(f[s \ {Max(s)}], [i \in 1 .. Len(packet) |-> i][Max(s)])]
<1>7. h = D(h)
  <2> DEFINE e == [s \in SUBSET (1 .. n) |-> IF s = {} THEN b ELSE G[<<Max(s), h[s \ {Max(s)}]>>]]
  <2>1. h = e
    BY <1>6, Zenon DEF Folds1
  <2>2. ASSUME NEW s \in SUBSET (1 .. n), s # {}
        PROVE  G[<<Max(s), h[s \ {Max(s)}]>>] = Go(h[s \ {Max(s)}], [i \in 1 .. Len(packet) |-> i][Max(s)])
    <3>1. Max(s) \in 1 .. n
      BY <1>1, <2>2, MaxIs
    <3>2. h[s \ {Max(s)}] \in S
      BY <1>6
    <3> QED BY <1>4, <3>1, <3>2
  <2>3. e = D(h)
    BY <2>2
  <2> QED BY <2>1, <2>3, Zenon
<1>8. c = D(c)
  BY <1>1, <1>7, Zenon
<1>9. \A s \in SUBSET (1 .. n) : c[s] = IF s = {} THEN b ELSE Go(c[s \ {Max(s)}], [i \in 1 .. Len(packet) |-> i][Max(s)])
  <2> DEFINE d == D(c)
  <2>1. \A s \in SUBSET (1 .. n) : d[s] = IF s = {} THEN b ELSE Go(c[s \ {Max(s)}], [i \in 1 .. Len(packet) |-> i][Max(s)])
    BY Zenon
  <2>2. c = d
    BY <1>8, Zenon
  <2> HIDE DEF d, c
  <2> QED BY <2>1, <2>2, Zenon
<1> HIDE DEF c
<1>10. c[{}] = b
  BY <1>9
<1>11. ASSUME NEW s \in SUBSET (1 .. n), s # {}, c[s \ {Max(s)}] \in S
       PROVE  c[s] = G[<<Max(s), c[s \ {Max(s)}]>>]
  <2>1. Max(s) \in 1 .. n
    BY <1>1, <1>11, MaxIs
  <2>2. c[s] = Go(c[s \ {Max(s)}], [i \in 1 .. Len(packet) |-> i][Max(s)])
    BY <1>9, <1>11
  <2> QED BY <1>4, <1>11, <2>1, <2>2
<1>12. PICK st : Steps(st, n, S, b, G) /\ c[1 .. n] = st[n]
  <2>1. FoldSteps(c, n, S, G)
    BY <1>11 DEF FoldSteps
  <2>2. n \in Nat
    BY <1>1
  <2> QED BY <1>3, <1>5, <1>10, <2>1, <2>2, FoldRuns
<1>13. /\ st \in [0 .. n -> S] /\ st[0] = b /\ \A k \in 1 .. n : st[k] = G[<<k, st[k - 1]>>]
  BY <1>12 DEF Steps
<1>14. ASSUME NEW k \in 1 .. n
       PROVE  st[k] = Go(st[k - 1], [i \in 1 .. Len(packet) |-> i][k])
  <2>1. k - 1 \in 0 .. n
    BY <1>1
  <2>2. st[k - 1] \in S
    BY <1>13, <2>1
  <2> QED BY <1>4, <1>13, <2>2
<1>15. fin = st[n]
  BY <1>1, <1>12
<1> HIDE DEF fin
<1>16. LabelsRead(packet, at) = st[n]
  BY <1>2, <1>15
<1> QED BY <1>13, <1>14, <1>16, Zenon DEF TurnsRun, n, b, Go

\* The loop ends where a chain of turns does.
LEMMA TurnsLead ==
  ASSUME NEW packet \in Seq(Nat), NEW at, NEW m \in Nat, m <= Len(packet), NEW c,
         c[0] = At(at, <<>>, -1, 0), \A i \in 0 .. m - 1 : LabelTurn(packet, c[i]) = c[i + 1], c[m].done = 1
  PROVE  LabelsRead(packet, at) = c[m]
<1> DEFINE S == { c[i] : i \in 0 .. m }
           n == Len([i \in 1 .. Len(packet) |-> i])
<1>1. n = Len(packet) /\ n \in Nat
  OBVIOUS
<1>2. \A i \in 0 .. m : c[i] \in S
  OBVIOUS
<1>3. ASSUME NEW s \in S
      PROVE  LabelTurn(packet, s) \in S
  <2>1. PICK i \in 0 .. m : s = c[i]
    OBVIOUS
  <2>2. CASE i = m
    <3>1. LabelTurn(packet, s) = s
      BY <2>1, <2>2, Zenon DEF LabelTurn
    <3> QED BY <3>1
  <2>3. CASE i # m
    <3>1. i \in 0 .. m - 1 /\ i + 1 \in 0 .. m
      BY <2>3
    <3>2. LabelTurn(packet, s) = c[i + 1]
      BY <2>1, <3>1
    <3> QED BY <1>2, <3>1, <3>2
  <2> QED BY <2>2, <2>3
<1>4. At(at, <<>>, -1, 0) \in S
  <2>1. 0 \in 0 .. m
    OBVIOUS
  <2> QED BY <1>2, <2>1
<1> HIDE DEF S
<1>5. PICK st : TurnsRun(st, packet, at, S)
  BY <1>3, <1>4, TurnsRuns
<1>6. /\ st[0] = At(at, <<>>, -1, 0) /\ \A k \in 1 .. n : st[k] = LabelTurn(packet, st[k - 1])
      /\ LabelsRead(packet, at) = st[n]
  BY <1>5 DEF TurnsRun
<1> HIDE DEF n
<1> DEFINE T == { k \in 0 .. n : (k <= m => st[k] = c[k]) /\ (m <= k => st[k] = c[m]) }
<1>7. 0 \in T
  <2>1. m <= 0 => m = 0
    OBVIOUS
  <2> QED BY <1>1, <1>6, <2>1
<1>8. ASSUME NEW k \in 0 .. n - 1, k \in T
      PROVE  k + 1 \in T
  <2>1. k + 1 \in 1 .. n /\ (k + 1) - 1 = k /\ k + 1 \in 0 .. n
    BY <1>1
  <2>2. st[k + 1] = LabelTurn(packet, st[k])
    BY <1>6, <2>1
  <2>3. CASE k < m
    <3>1. st[k] = c[k] /\ k \in 0 .. m - 1
      BY <1>8, <2>3
    <3>2. st[k + 1] = c[k + 1]
      BY <2>2, <3>1
    <3>3. m <= k + 1 => m = k + 1
      BY <2>3
    <3> QED BY <2>1, <3>2, <3>3
  <2>4. CASE ~ (k < m)
    <3>1. st[k] = c[m] /\ ~ (k + 1 <= m)
      BY <1>8, <2>4
    <3>2. LabelTurn(packet, c[m]) = c[m]
      BY Zenon DEF LabelTurn
    <3>3. st[k + 1] = c[m]
      BY <2>2, <3>1, <3>2
    <3> QED BY <2>1, <3>1, <3>3
  <2> QED BY <2>3, <2>4
<1> HIDE DEF T
<1>9. \A k \in 0 .. n : k \in T
  BY <1>1, <1>7, <1>8, UpTo
<1>10. n \in T /\ m <= n
  BY <1>1, <1>9
<1> QED BY <1>6, <1>10 DEF T

\* Behind k labels.
NameState(p, n, e, d, k, end) == At(p + Len(e[k]), d[k], end, IF k = Len(n) THEN 1 ELSE 0)

\* One label more.
LEMMA NameTurn ==
  ASSUME NEW n \in Seq(Labels), NEW e, NEW d, NameRun(n, e, d), NEW packet \in Seq(Nat), NEW p \in Nat,
         LabelsAt(packet, p, n, e), NEW end, NEW k \in 0 .. Len(n) - 1
  PROVE  LabelTurn(packet, NameState(p, n, e, d, k, end)) = NameState(p, n, e, d, k + 1, end)
<1> DEFINE L == Len(n)
           q == p + Len(e[k])
           l == n[k + 1]
<1>1. L \in Nat /\ k + 1 \in 1 .. L /\ (k + 1) - 1 = k /\ k \in 0 .. L /\ k + 1 \in 0 .. L /\ l \in Labels
  OBVIOUS
<1>2. d[k] \in Seq(Nat) /\ d[k + 1] = (IF d[k] = <<>> THEN <<>> ELSE Append(d[k], Dot)) \o l
  BY <1>1 DEF NameRun
<1>3. Len(e[k]) \in Nat /\ Len(l) \in 1 .. 63
  BY <1>1, LabelsAre DEF LabelsAt
<1>4. Holds(packet, q, LabelBytes(l)) /\ Len(e[k + 1]) = Len(e[k]) + 1 + Len(l) /\ q \in Nat
  <2>1. PICK j \in 1 .. L : j = k + 1 /\ j - 1 = k
    BY <1>1
  <2>2. Holds(packet, p + Len(e[j - 1]), LabelBytes(n[j])) /\ Len(e[j]) = Len(e[j - 1]) + 1 + Len(n[j])
    BY DEF LabelsAt
  <2>3. p + Len(e[k]) \in Nat
    BY <1>3
  <2> QED BY <2>1, <2>2, <2>3
<1>5. q + 1 + Len(l) = p + Len(e[k + 1])
  <2>1. PICK a, m : a = Len(e[k]) /\ m = Len(l)
    OBVIOUS
  <2>2. a \in Nat /\ m \in Nat /\ Len(e[k + 1]) = a + 1 + m
    BY <1>3, <1>4, <2>1
  <2>3. p + a + 1 + m = p + (a + 1 + m)
    BY <2>2
  <2> QED BY <2>1, <2>2, <2>3
<1>6. packet[p + Len(e[k + 1]) + 1] = 0 <=> k + 1 = L
  <2>1. CASE k + 1 = L
    BY <2>1 DEF LabelsAt
  <2>2. CASE k + 1 # L
    <3>1. k + 2 \in 1 .. L /\ (k + 2) - 1 = k + 1 /\ n[k + 2] \in Labels
      BY <1>1, <2>2
    <3>2. PICK w \in Labels : w = n[k + 2]
      BY <3>1
    <3>7. PICK j \in 1 .. L : j = k + 2 /\ j - 1 = k + 1
      BY <3>1
    <3>8. Holds(packet, p + Len(e[j - 1]), LabelBytes(n[j]))
      BY DEF LabelsAt
    <3>3. Len(w) \in 1 .. 63 /\ Len(LabelBytes(w)) = Len(w) + 1 /\ LabelBytes(w)[1] = Len(w)
      BY LabelsAre
    <3>10. PICK a \in 1 .. 63 : a = Len(w)
      BY <3>3
    <3>11. Len(LabelBytes(w)) = a + 1 /\ a # 0
      BY <3>3, <3>10
    <3>4. 1 \in 1 .. Len(LabelBytes(w)) /\ Len(w) # 0
      BY <3>10, <3>11
    <3>9. Holds(packet, p + Len(e[k + 1]), LabelBytes(w))
      BY <3>2, <3>7, <3>8
    <3>5. packet[p + Len(e[k + 1]) + 1] = Len(w)
      BY <3>3, <3>4, <3>9 DEF Holds
    <3> QED BY <2>2, <3>4, <3>5, Zenon
  <2> QED BY <2>1, <2>2
<1> DEFINE r == d[k]
           v == (IF r = <<>> THEN <<>> ELSE Append(r, Dot)) \o l
           z == packet[q + 1 + Len(l) + 1]
<1>7. r \in Seq(Nat) /\ v = d[k + 1]
  BY <1>2
<1> HIDE DEF q, l, r
<1>8. LabelTurn(packet, At(q, r, end, 0)) = At(q + 1 + Len(l), v, end, IF z = 0 THEN 1 ELSE 0)
  BY <1>1, <1>4, <1>7, LabelCopied
<1>9. z = packet[p + Len(e[k + 1]) + 1]
  BY <1>5, Zenon
<1> HIDE DEF z, v
<1>10. (IF z = 0 THEN 1 ELSE 0) = IF k + 1 = L THEN 1 ELSE 0
  BY <1>6, <1>9
<1>11. (IF k = L THEN 1 ELSE 0) = 0
  BY <1>1
<1>12. NameState(p, n, e, d, k, end) = At(q, r, end, 0)
  BY <1>11 DEF NameState, q, r
<1>13. NameState(p, n, e, d, k + 1, end) = At(q + 1 + Len(l), v, end, IF z = 0 THEN 1 ELSE 0)
  BY <1>5, <1>7, <1>10, Zenon DEF NameState, L
<1> QED BY <1>8, <1>12, <1>13

\* A name read at a place, and the place behind it.
NameRead(r, res, next) == r.res = res /\ r.next = next

\* What labelToStr makes of the state in which the loop ends.
LEMMA LabelToStrIs ==
  ASSUME NEW packet, NEW at, NEW a, NEW res, NEW end, NEW done, LabelsRead(packet, at) = At(a, res, end, done)
  PROVE  NameRead(labelToStr(packet, at), res, IF end = -1 THEN a + 1 ELSE end)
<1> DEFINE s == LabelsRead(packet, at)
<1>1. s.at = a /\ s.res = res /\ s.end = end
  BY DEF At
<1>2. NextField(s) = IF end = -1 THEN a + 1 ELSE end
  <2> HIDE DEF s
  <2> QED BY <1>1, Zenon DEF NextField
<1>3. labelToStr(packet, at) = [res |-> s.res, next |-> NextField(s)]
  BY Zenon DEF labelToStr
<1> HIDE DEF s
<1> QED BY <1>1, <1>2, <1>3 DEF NameRead

\* A name that is spelled out.
LEMMA SpelledName ==
  ASSUME NEW n \in Seq(Labels), n # <<>>, NEW e, NEW d, NameRun(n, e, d), NEW packet, NEW p,
         Holds(packet, p, Encoded(n))
  PROVE  NameRead(labelToStr(packet, p), d[Len(n)], p + Len(Encoded(n)))
<1> DEFINE L == Len(n)
           c == [k \in 0 .. L |-> NameState(p, n, e, d, k, -1)]
<1>1. L \in Nat /\ L # 0 /\ packet \in Seq(Nat) /\ p \in Nat /\ Len(packet) \in Nat
  BY EmptySeq DEF Holds
<1>2. LabelsAt(packet, p, n, e)
  BY LabelsHeld
<1>3. \A k \in 0 .. L : c[k] = NameState(p, n, e, d, k, -1)
  OBVIOUS
<1> HIDE DEF c
<1>4. c[0] = At(p, <<>>, -1, 0)
  <2>1. e[0] = <<>> /\ d[0] = <<>> /\ Len(<<>>) = 0
    BY DEF NameRun
  <2>2. p + Len(e[0]) = p /\ (IF 0 = L THEN 1 ELSE 0) = 0 /\ 0 \in 0 .. L
    BY <1>1, <2>1
  <2>3. c[0] = At(p + Len(e[0]), d[0], -1, IF 0 = L THEN 1 ELSE 0)
    BY <1>3, <2>2, Zenon DEF NameState
  <2> QED BY <2>1, <2>2, <2>3, Zenon
<1>5. ASSUME NEW k \in 0 .. L - 1
      PROVE  LabelTurn(packet, c[k]) = c[k + 1]
  <2>1. k \in 0 .. L /\ k + 1 \in 0 .. L
    BY <1>1
  <2>2. LabelTurn(packet, NameState(p, n, e, d, k, -1)) = NameState(p, n, e, d, k + 1, -1)
    <3> PICK x : x = -1
      OBVIOUS
    <3>1. LabelTurn(packet, NameState(p, n, e, d, k, x)) = NameState(p, n, e, d, k + 1, x)
      BY <1>1, <1>2, NameTurn
    <3> QED BY <3>1
  <2> QED BY <1>3, <2>1, <2>2
<1>6. c[L] = At(p + Len(e[L]), d[L], -1, 1)
  <2>1. L \in 0 .. L
    BY <1>1
  <2>2. c[L] = NameState(p, n, e, d, L, -1)
    BY <1>3, <2>1
  <2> QED BY <2>2, Zenon DEF NameState
<1>7. Len(e[L]) \in Nat /\ L <= Len(e[L]) /\ p + Len(e[L]) + 1 <= Len(packet) /\ Len(Encoded(n)) = Len(e[L]) + 1
  <2>1. L \in 0 .. L
    BY <1>1
  <2> QED BY <1>2, <2>1 DEF LabelsAt
<1> HIDE DEF L
<1>8. LabelsRead(packet, p) = c[L]
  <2>1. L <= Len(packet)
    BY <1>1, <1>7
  <2>2. c[L].done = 1
    BY <1>6 DEF At
  <2> QED BY <1>1, <1>4, <1>5, <2>1, <2>2, TurnsLead
<1>9. NameRead(labelToStr(packet, p), d[L], IF -1 = -1 THEN p + Len(e[L]) + 1 ELSE -1)
  <2>1. LabelsRead(packet, p) = At(p + Len(e[L]), d[L], -1, 1)
    BY <1>6, <1>8
  <2> QED BY <2>1, LabelToStrIs, Zenon
<1>10. p + Len(e[L]) + 1 = p + Len(Encoded(n))
  BY <1>1, <1>7
<1> QED BY <1>9, <1>10 DEF L

\* A pointer to the first name.
LEMMA PointedName ==
  ASSUME NEW n \in Seq(Labels), n # <<>>, NEW e, NEW d, NameRun(n, e, d), NEW packet,
         Holds(packet, 0, Encoded(n)), NEW q \in Nat, packet[q + 1] = 192, packet[q + 2] = 12
  PROVE  NameRead(labelToStr(packet, q), d[Len(n)], q + 2)
<1> DEFINE L == Len(n)
           c == [k \in 0 .. L + 1 |-> IF k = 0 THEN At(q, <<>>, -1, 0) ELSE NameState(0, n, e, d, k - 1, q + 2)]
<1>1. L \in Nat /\ L # 0 /\ packet \in Seq(Nat) /\ 0 \in Nat /\ Len(packet) \in Nat
  BY EmptySeq DEF Holds
<1>2. LabelsAt(packet, 0, n, e)
  BY LabelsHeld
<1>3. c[0] = At(q, <<>>, -1, 0) /\ \A k \in 1 .. L + 1 : c[k] = NameState(0, n, e, d, k - 1, q + 2)
  BY <1>1
<1> HIDE DEF c
<1>4. packet[1] # 0 /\ Len(e[0]) = 0 /\ d[0] = <<>>
  <2>1. e[0] = <<>> /\ d[0] = <<>> /\ Len(<<>>) = 0
    BY DEF NameRun
  <2>2. PICK w \in Labels : w = n[1]
    BY <1>1
  <2>3. 1 \in 1 .. L /\ 1 - 1 = 0
    BY <1>1
  <2>4. Holds(packet, 0 + Len(e[1 - 1]), LabelBytes(n[1]))
    BY <1>2, <2>3 DEF LabelsAt
  <2>5. Holds(packet, 0, LabelBytes(w))
    BY <2>1, <2>2, <2>3, <2>4
  <2>6. Len(w) \in 1 .. 63 /\ Len(LabelBytes(w)) = Len(w) + 1 /\ LabelBytes(w)[1] = Len(w)
    BY LabelsAre
  <2>7. PICK a \in 1 .. 63 : a = Len(w)
    BY <2>6
  <2>8. 1 \in 1 .. Len(LabelBytes(w))
    BY <2>6, <2>7
  <2>9. packet[0 + 1] = Len(w)
    BY <2>5, <2>6, <2>8 DEF Holds
  <2>10. a # 0 /\ 0 + 1 = 1
    OBVIOUS
  <2> QED BY <2>1, <2>7, <2>9, <2>10
<1>5. LabelTurn(packet, c[0]) = c[1]
  <2>1. LabelTurn(packet, At(q, <<>>, -1, 0)) = At(0, <<>>, q + 2, 0)
    BY <1>4, PointerFollowed
  <2>2. c[1] = NameState(0, n, e, d, 0, q + 2)
    <3>1. 1 \in 1 .. L + 1 /\ 1 - 1 = 0
      BY <1>1
    <3> QED BY <1>3, <3>1
  <2>3. (IF 0 = Len(n) THEN 1 ELSE 0) = 0 /\ 0 + Len(e[0]) = 0
    BY <1>1, <1>4
  <2>4. c[1] = At(0, <<>>, q + 2, 0)
    BY <1>4, <2>2, <2>3, Zenon DEF NameState
  <2> QED BY <1>3, <2>1, <2>4
<1>6. ASSUME NEW k \in 0 .. L
      PROVE  LabelTurn(packet, c[k]) = c[k + 1]
  <2>1. CASE k = 0
    <3>1. k + 1 = 1
      BY <2>1
    <3> QED BY <1>5, <2>1, <3>1
  <2>2. CASE k # 0
    <3>1. PICK j \in 0 .. L - 1 : j = k - 1
      BY <1>1, <2>2
    <3>2. k = j + 1 /\ k \in 1 .. L + 1 /\ k + 1 \in 1 .. L + 1 /\ (k + 1) - 1 = k
      BY <1>1, <3>1
    <3>3. c[k] = NameState(0, n, e, d, j, q + 2) /\ c[k + 1] = NameState(0, n, e, d, k, q + 2)
      BY <1>3, <3>1, <3>2
    <3>4. LabelTurn(packet, NameState(0, n, e, d, j, q + 2)) = NameState(0, n, e, d, j + 1, q + 2)
      <4> PICK p, x : p = 0 /\ x = q + 2
        OBVIOUS
      <4>1. LabelsAt(packet, p, n, e) /\ p \in Nat
        BY <1>2
      <4>2. LabelTurn(packet, NameState(p, n, e, d, j, x)) = NameState(p, n, e, d, j + 1, x)
        BY <1>1, <4>1, NameTurn
      <4> QED BY <4>2
    <3> QED BY <3>2, <3>3, <3>4
  <2> QED BY <2>1, <2>2
<1>7. c[L + 1] = At(0 + Len(e[L]), d[L], q + 2, 1)
  <2>1. L + 1 \in 1 .. L + 1 /\ (L + 1) - 1 = L
    BY <1>1
  <2>2. c[L + 1] = NameState(0, n, e, d, L, q + 2)
    BY <1>3, <2>1
  <2> QED BY <2>2, Zenon DEF NameState
<1>8. L + 1 <= Len(packet)
  <2>1. L \in 0 .. L
    BY <1>1
  <2>2. Len(e[L]) \in Nat /\ L <= Len(e[L]) /\ 0 + Len(e[L]) + 1 <= Len(packet)
    BY <1>2, <2>1 DEF LabelsAt
  <2> QED BY <1>1, <2>2
<1> HIDE DEF L
<1>9. LabelsRead(packet, q) = c[L + 1]
  <2>1. PICK m \in Nat : m = L + 1
    BY <1>1
  <2>2. \A i \in 0 .. m - 1 : LabelTurn(packet, c[i]) = c[i + 1]
    BY <1>1, <1>6, <2>1
  <2>3. c[m].done = 1
    BY <1>7, <2>1 DEF At
  <2>5. m <= Len(packet) /\ c[0] = At(q, <<>>, -1, 0)
    BY <1>3, <1>8, <2>1
  <2>4. LabelsRead(packet, q) = c[m]
    BY <1>1, <2>2, <2>3, <2>5, TurnsLead
  <2> QED BY <2>1, <2>4
<1>10. NameRead(labelToStr(packet, q), d[L], IF q + 2 = -1 THEN 0 + Len(e[L]) + 1 ELSE q + 2)
  <2>1. LabelsRead(packet, q) = At(0 + Len(e[L]), d[L], q + 2, 1)
    BY <1>7, <1>9
  <2>2. PICK a, y, r : a = 0 + Len(e[L]) /\ y = q + 2 /\ r = d[L]
    OBVIOUS
  <2>3. LabelsRead(packet, q) = At(a, r, y, 1)
    BY <2>1, <2>2
  <2>4. NameRead(labelToStr(packet, q), r, IF y = -1 THEN a + 1 ELSE y)
    BY <2>3, LabelToStrIs
  <2> QED BY <2>2, <2>4
<1>11. q + 2 # -1
  OBVIOUS
<1> QED BY <1>10, <1>11 DEF L

\* A state of strToLabel's loop.
PartStates == [out : Seq(Nat), part : Seq(Nat)]

PartsAre(s, out, part) == s = [out |-> out, part |-> part]

\* One character.
LEMMA PartTurnIs ==
  ASSUME NEW s, NEW out \in Seq(Nat), NEW part \in Seq(Nat), PartsAre(s, out, part), NEW c \in Nat
  PROVE  /\ PartTurn(s, c) \in PartStates
         /\ c = Dot => PartsAre(PartTurn(s, c), out \o LabelBytes(part), <<>>)
         /\ c # Dot => PartsAre(PartTurn(s, c), out, Append(part, c))
<1>1. s = [out |-> out, part |-> part] /\ s.out = out /\ s.part = part
  BY DEF PartsAre
<1>2. CASE c = Dot
  <2>1. PartTurn(s, c) = [out |-> out \o LabelBytes(part), part |-> <<>>]
    BY <1>1, <1>2, Zenon DEF PartTurn, LabelBytes
  <2>2. LabelBytes(part) \in Seq(Nat) /\ <<>> \in Seq(Nat)
    <3>1. <<Len(part)>> \in Seq(Nat)
      OBVIOUS
    <3> QED BY <3>1, ConcatProperties DEF LabelBytes
  <2>3. out \o LabelBytes(part) \in Seq(Nat)
    BY <2>2, ConcatProperties
  <2>4. PICK a \in Seq(Nat), b \in Seq(Nat) : a = out \o LabelBytes(part) /\ b = <<>>
    BY <2>2, <2>3
  <2>5. PartTurn(s, c) = [out |-> a, part |-> b]
    BY <2>1, <2>4
  <2>6. PartTurn(s, c) \in PartStates
    BY <2>5 DEF PartStates
  <2>7. PartsAre(PartTurn(s, c), out \o LabelBytes(part), <<>>)
    BY <2>1, Zenon DEF PartsAre
  <2> QED BY <1>2, <2>6, <2>7
<1>3. CASE c # Dot
  <2>1. PartTurn(s, c) = [s EXCEPT !.part = Append(part, c)]
    <3>1. PartTurn(s, c) = [s EXCEPT !.part = Append(s.part, c)]
      BY <1>3, Zenon DEF PartTurn
    <3> QED BY <1>1, <3>1
  <2>2. [s EXCEPT !.part = Append(part, c)] = [out |-> out, part |-> Append(part, c)]
    <3>1. PICK q \in Seq(Nat) : q = Append(part, c)
      BY AppendProperties
    <3>2. [s EXCEPT !.part = q] = [out |-> out, part |-> q]
      BY <1>1
    <3> QED BY <3>1, <3>2
  <2>3. Append(part, c) \in Seq(Nat)
    BY AppendProperties
  <2> QED BY <1>3, <2>1, <2>2, <2>3 DEF PartStates, PartsAre
<1> QED BY <1>2, <1>3

\* Whatever the state is.
LEMMA PartsStay ==
  ASSUME NEW s \in PartStates, NEW x \in Nat
  PROVE  PartTurn(s, x) \in PartStates
<1>1. PICK out \in Seq(Nat), part \in Seq(Nat) : PartsAre(s, out, part)
  BY DEF PartStates, PartsAre
<1> QED BY <1>1, PartTurnIs

\* In the beginning.
LEMMA PartsStart == [out |-> <<>>, part |-> <<>>] \in PartStates
BY DEF PartStates

\* The states that the loop goes through.
PartsRun(st, str) ==
  /\ st \in [0 .. Len(str) -> PartStates] /\ st[0] = [out |-> <<>>, part |-> <<>>]
  /\ \A k \in 1 .. Len(str) : st[k] = PartTurn(st[k - 1], str[k])
  /\ PartsOf(str) = st[Len(str)]

\* The loop goes through them.
LEMMA PartsRuns ==
  ASSUME NEW str \in Seq(Nat)
  PROVE  \E st : PartsRun(st, str)
<1> DEFINE n == Len(str)
           S == PartStates
           b == [out |-> <<>>, part |-> <<>>]
           Go(s, x) == PartTurn(s, x)
           G == [p \in (1 .. n) \X S |-> Go(p[2], str[p[1]])]
           c == CHOOSE iter : iter = [s \in SUBSET (DOMAIN str) |->
                  IF s = {} THEN b ELSE Go(iter[s \ {Max(s)}], str[Max(s)])]
           fin == c[DOMAIN str]
<1>1. n \in Nat /\ DOMAIN str = 1 .. n /\ \A k \in 1 .. n : str[k] \in Nat
  OBVIOUS
<1>2. PartsOf(str) = fin
  BY Zenon DEF PartsOf, FoldLeft, MapThenFoldSet
<1>3. b \in S
  BY PartsStart
<1>4. ASSUME NEW k \in 1 .. n, NEW s \in S
      PROVE  G[<<k, s>>] = Go(s, str[k]) /\ G[<<k, s>>] \in S
  <2>1. str[k] \in Nat
    BY <1>1
  <2> DEFINE x == str[k]
  <2>2. x \in Nat
    BY <2>1
  <2> HIDE DEF x
  <2>3. Go(s, x) \in S
    BY <2>2, PartsStay
  <2>4. <<k, s>> \in (1 .. n) \X S
    OBVIOUS
  <2> HIDE DEF S, Go
  <2> QED BY <2>3, <2>4 DEF x
<1> HIDE DEF n, b, S, G, Go
<1>5. Leads(G, n, S)
  BY <1>4 DEF Leads
<1>6. PICK h \in [SUBSET (1 .. n) -> S] : Folds1(h, n, b, G)
  BY <1>1, <1>3, <1>5, FoldExists
<1> DEFINE D(f) == [s \in SUBSET (1 .. n) |-> IF s = {} THEN b ELSE Go(f[s \ {Max(s)}], str[Max(s)])]
<1>7. h = D(h)
  <2> DEFINE e == [s \in SUBSET (1 .. n) |-> IF s = {} THEN b ELSE G[<<Max(s), h[s \ {Max(s)}]>>]]
  <2>1. h = e
    BY <1>6, Zenon DEF Folds1
  <2>2. ASSUME NEW s \in SUBSET (1 .. n), s # {}
        PROVE  G[<<Max(s), h[s \ {Max(s)}]>>] = Go(h[s \ {Max(s)}], str[Max(s)])
    <3>1. Max(s) \in 1 .. n
      BY <1>1, <2>2, MaxIs
    <3>2. h[s \ {Max(s)}] \in S
      BY <1>6
    <3> QED BY <1>4, <3>1, <3>2
  <2>3. e = D(h)
    BY <2>2
  <2> QED BY <2>1, <2>3, Zenon
<1>8. c = D(c)
  BY <1>1, <1>7, Zenon
<1>9. \A s \in SUBSET (1 .. n) : c[s] = IF s = {} THEN b ELSE Go(c[s \ {Max(s)}], str[Max(s)])
  <2> DEFINE d == D(c)
  <2>1. \A s \in SUBSET (1 .. n) : d[s] = IF s = {} THEN b ELSE Go(c[s \ {Max(s)}], str[Max(s)])
    BY Zenon
  <2>2. c = d
    BY <1>8, Zenon
  <2> HIDE DEF d, c
  <2> QED BY <2>1, <2>2, Zenon
<1> HIDE DEF c
<1>10. c[{}] = b
  BY <1>9
<1>11. ASSUME NEW s \in SUBSET (1 .. n), s # {}, c[s \ {Max(s)}] \in S
       PROVE  c[s] = G[<<Max(s), c[s \ {Max(s)}]>>]
  <2>1. Max(s) \in 1 .. n
    BY <1>1, <1>11, MaxIs
  <2>2. c[s] = Go(c[s \ {Max(s)}], str[Max(s)])
    BY <1>9, <1>11
  <2> QED BY <1>4, <1>11, <2>1, <2>2
<1>12. PICK st : Steps(st, n, S, b, G) /\ c[1 .. n] = st[n]
  <2>1. FoldSteps(c, n, S, G)
    BY <1>11 DEF FoldSteps
  <2>2. n \in Nat
    BY <1>1
  <2> QED BY <1>3, <1>5, <1>10, <2>1, <2>2, FoldRuns
<1>13. /\ st \in [0 .. n -> S] /\ st[0] = b /\ \A k \in 1 .. n : st[k] = G[<<k, st[k - 1]>>]
  BY <1>12 DEF Steps
<1>14. ASSUME NEW k \in 1 .. n
       PROVE  st[k] = Go(st[k - 1], str[k])
  <2>1. k - 1 \in 0 .. n
    BY <1>1
  <2>2. st[k - 1] \in S
    BY <1>13, <2>1
  <2> QED BY <1>4, <1>13, <2>2
<1>15. fin = st[n]
  BY <1>1, <1>12
<1> HIDE DEF fin
<1>16. PartsOf(str) = st[n]
  BY <1>2, <1>15
<1> QED BY <1>13, <1>14, <1>16, Zenon DEF PartsRun, n, S, b, Go

\* One character more.
LEMMA PartsNext ==
  ASSUME NEW str \in Seq(Nat), NEW x \in Nat
  PROVE  /\ PartsOf(str) \in PartStates
         /\ PartsOf(Append(str, x)) = PartTurn(PartsOf(str), x)
<1> DEFINE n == Len(str)
           t == Append(str, x)
<1>1. n \in Nat /\ t \in Seq(Nat) /\ Len(t) = n + 1 /\ t[n + 1] = x /\ \A k \in 1 .. n : t[k] = str[k]
  OBVIOUS
<1>2. PICK f : PartsRun(f, str)
  BY PartsRuns
<1> HIDE DEF t
<1>3. PICK g : PartsRun(g, t)
  BY <1>1, PartsRuns
<1> HIDE DEF n
<1>4. \A k \in 0 .. n : f[k] = g[k]
  <2> DEFINE T == { k \in 0 .. n : f[k] = g[k] }
  <2>1. 0 \in T
    BY <1>1, <1>2, <1>3 DEF PartsRun
  <2>2. ASSUME NEW k \in 0 .. n - 1, k \in T
        PROVE  k + 1 \in T
    <3>1. k + 1 \in 1 .. n /\ k + 1 \in 1 .. n + 1 /\ (k + 1) - 1 = k /\ f[k] = g[k] /\ k + 1 \in 0 .. n
      BY <1>1, <2>2
    <3>2. f[k + 1] = PartTurn(f[k], str[k + 1])
      BY <1>2, <3>1 DEF PartsRun, n
    <3>3. g[k + 1] = PartTurn(g[k], t[k + 1])
      BY <1>1, <1>3, <3>1 DEF PartsRun
    <3>4. t[k + 1] = str[k + 1]
      BY <1>1, <3>1
    <3>5. f[k + 1] = g[k + 1]
      BY <3>1, <3>2, <3>3, <3>4
    <3> QED BY <3>1, <3>5
  <2> HIDE DEF T
  <2>3. \A k \in 0 .. n : k \in T
    BY <1>1, <2>1, <2>2, UpTo
  <2> QED BY <2>3 DEF T
<1>5. PartsOf(str) = g[n] /\ PartsOf(str) \in PartStates
  <2>1. n \in 0 .. n
    BY <1>1
  <2>2. PartsOf(str) = f[n] /\ f[n] \in PartStates
    BY <1>2, <2>1 DEF PartsRun, n
  <2> QED BY <1>4, <2>1, <2>2
<1>6. PartsOf(t) = PartTurn(g[n], t[n + 1])
  <2>1. n + 1 \in 1 .. n + 1 /\ (n + 1) - 1 = n
    BY <1>1
  <2> QED BY <1>1, <1>3, <2>1 DEF PartsRun
<1> QED BY <1>1, <1>5, <1>6 DEF t

\* Of nothing.
LEMMA PartsNone == PartsAre(PartsOf(<<>>), <<>>, <<>>)
<1>1. <<>> \in Seq(Nat) /\ Len(<<>>) = 0
  OBVIOUS
<1>2. PICK f : PartsRun(f, <<>>)
  BY <1>1, PartsRuns
<1> QED BY <1>1, <1>2 DEF PartsRun, PartsAre

\* One character more of a label.
LEMMA LabelMore ==
  ASSUME NEW l \in Seq(Nat), NEW k \in 0 .. Len(l) - 1
  PROVE  /\ SubSeq(l, 1, k) \in Seq(Nat) /\ SubSeq(l, 1, k + 1) \in Seq(Nat)
         /\ Append(SubSeq(l, 1, k), l[k + 1]) = SubSeq(l, 1, k + 1)
<1> DEFINE a == SubSeq(l, 1, k)
           b == SubSeq(l, 1, k + 1)
<1>1. Len(l) \in Nat /\ \A i \in 1 .. Len(l) : l[i] \in Nat
  OBVIOUS
<1>2. a \in Seq(Nat) /\ Len(a) = k /\ \A i \in 1 .. k : a[i] = l[i]
  <2>1. \A i \in 1 .. k : l[i] \in Nat
    BY <1>1
  <2>2. Len(a) = IF 1 <= k THEN k - 1 + 1 ELSE 0
    BY <2>1, SubSeqProperties
  <2>3. a \in Seq(Nat) /\ \A i \in 1 .. k - 1 + 1 : a[i] = l[1 + i - 1]
    BY <2>1, SubSeqProperties
  <2> HIDE DEF a
  <2> QED BY <2>2, <2>3
<1>3. b \in Seq(Nat) /\ Len(b) = k + 1 /\ \A i \in 1 .. k + 1 : b[i] = l[i]
  <2>1. \A i \in 1 .. k + 1 : l[i] \in Nat
    BY <1>1
  <2>2. Len(b) = IF 1 <= k + 1 THEN (k + 1) - 1 + 1 ELSE 0
    BY <2>1, SubSeqProperties
  <2>3. b \in Seq(Nat) /\ \A i \in 1 .. (k + 1) - 1 + 1 : b[i] = l[1 + i - 1]
    BY <2>1, SubSeqProperties
  <2> HIDE DEF b
  <2> QED BY <2>2, <2>3
<1> HIDE DEF a, b
<1>4. l[k + 1] \in Nat
  BY <1>1
<1>5. PICK x \in Nat : x = l[k + 1]
  BY <1>4
<1>6. Append(a, x) \in Seq(Nat) /\ Len(Append(a, x)) = k + 1 /\ Append(a, x)[k + 1] = x
      /\ \A i \in 1 .. k : Append(a, x)[i] = a[i]
  BY <1>2, AppendProperties
<1>7. ASSUME NEW i \in 1 .. k + 1
      PROVE  Append(a, x)[i] = b[i]
  <2>1. i \in 1 .. k \/ i = k + 1
    OBVIOUS
  <2> QED BY <1>2, <1>3, <1>5, <1>6, <2>1
<1>8. Append(a, x) = b
  BY <1>3, <1>6, <1>7, SeqEqual
<1> QED BY <1>2, <1>3, <1>5, <1>8 DEF a, b

\* Appending to the second of two sequences.
LEMMA AppendAfter ==
  ASSUME NEW s \in Seq(Nat), NEW t \in Seq(Nat), NEW x \in Nat
  PROVE  Append(s \o t, x) = s \o Append(t, x)
<1>1. <<x>> \in Seq(Nat)
  OBVIOUS
<1>2. s \o t \in Seq(Nat)
  BY ConcatProperties
<1>3. Append(t, x) = t \o <<x>> /\ Append(s \o t, x) = (s \o t) \o <<x>>
  BY <1>2, AppendIsConcat
<1>4. (s \o t) \o <<x>> = s \o (t \o <<x>>)
  BY <1>1, ConcatAssociative
<1> QED BY <1>3, <1>4

\* The characters of a label.
LEMMA LabelIsPart ==
  ASSUME NEW str \in Seq(Nat), NEW out \in Seq(Nat), PartsAre(PartsOf(str), out, <<>>), NEW l \in Labels
  PROVE  PartsAre(PartsOf(str \o l), out, l)
<1>1. l \in Seq(Nat) /\ Len(l) \in Nat /\ \A j \in 1 .. Len(l) : l[j] \in Nat /\ l[j] # Dot
  BY LabelsAre
<1> DEFINE p(k) == SubSeq(l, 1, k)
           T == { k \in 0 .. Len(l) : p(k) \in Seq(Nat) /\ PartsAre(PartsOf(str \o p(k)), out, p(k)) }
<1>2. 0 \in T
  <2>1. p(0) = <<>> /\ <<>> \in Seq(Nat)
    BY SubSeqEmpty
  <2>2. str \o <<>> = str
    BY ConcatEmptySeq
  <2>3. 0 \in 0 .. Len(l)
    BY <1>1
  <2>4. PartsAre(PartsOf(str \o p(0)), out, p(0))
    BY <2>1, <2>2, Zenon
  <2>5. p(0) \in Seq(Nat)
    BY <2>1
  <2> HIDE DEF p
  <2> QED BY <2>3, <2>4, <2>5
<1>3. ASSUME NEW k \in 0 .. Len(l) - 1, k \in T
      PROVE  k + 1 \in T
  <2>1. k + 1 \in 1 .. Len(l) /\ k + 1 \in 0 .. Len(l)
    BY <1>1
  <2>2. PICK x \in Nat : x = l[k + 1] /\ x # Dot
    BY <1>1, <2>1
  <2>3. p(k) \in Seq(Nat) /\ p(k + 1) \in Seq(Nat) /\ Append(p(k), x) = p(k + 1)
    BY <1>1, <2>2, LabelMore
  <2>4. PartsAre(PartsOf(str \o p(k)), out, p(k))
    BY <1>3
  <2>5. PICK a, b : a = p(k) /\ b = p(k + 1)
    OBVIOUS
  <2> HIDE DEF p
  <2>6. a \in Seq(Nat) /\ b \in Seq(Nat) /\ Append(a, x) = b /\ PartsAre(PartsOf(str \o a), out, a)
    BY <2>3, <2>4, <2>5
  <2>7. str \o a \in Seq(Nat) /\ <<x>> \in Seq(Nat)
    BY <2>6, ConcatProperties
  <2>8. Append(str \o a, x) = str \o b
    <3>1. Append(str \o a, x) = str \o Append(a, x)
      BY <2>6, AppendAfter, Zenon
    <3> QED BY <2>6, <3>1, Zenon
  <2>9. PartsOf(Append(str \o a, x)) = PartTurn(PartsOf(str \o a), x)
    BY <2>7, PartsNext
  <2>10. PartsAre(PartTurn(PartsOf(str \o a), x), out, Append(a, x))
    BY <2>2, <2>6, PartTurnIs
  <2>11. PartsAre(PartsOf(str \o b), out, b)
    BY <2>6, <2>8, <2>9, <2>10, Zenon
  <2> QED BY <2>1, <2>5, <2>6, <2>11
<1> HIDE DEF T
<1>4. \A k \in 0 .. Len(l) : k \in T
  BY <1>1, <1>2, <1>3, UpTo
<1>5. Len(l) \in T
  BY <1>1, <1>4
<1>6. p(Len(l)) = l
  BY <1>1, SubSeqFull
<1> QED BY <1>5, <1>6 DEF T

\* A dotted name is written as it is encoded.
LEMMA NameWritten ==
  ASSUME NEW n \in Seq(Labels), n # <<>>, NEW e, NEW d, NameRun(n, e, d)
  PROVE  strToLabel(d[Len(n)]) = Encoded(n)
<1> DEFINE L == Len(n)
           T == { k \in 0 .. L - 1 : PartsAre(PartsOf(d[k + 1]), e[k], n[k + 1]) /\ d[k + 1] # <<>> }
<1>1. L \in Nat /\ L # 0 /\ \A k \in 1 .. L : n[k] \in Labels
  BY EmptySeq
<1>2. /\ e \in [0 .. L -> Seq(Nat)] /\ d \in [0 .. L -> Seq(Nat)] /\ e[0] = <<>> /\ d[0] = <<>>
      /\ Encoded(n) = e[L] \o <<0>>
  BY DEF NameRun
<1>3. ASSUME NEW k \in 0 .. L - 1
      PROVE  /\ n[k + 1] \in Labels /\ n[k + 1] \in Seq(Nat) /\ Len(n[k + 1]) \in 1 .. 63
             /\ e[k] \in Seq(Nat) /\ d[k] \in Seq(Nat) /\ d[k + 1] \in Seq(Nat)
             /\ e[k + 1] = e[k] \o LabelBytes(n[k + 1])
             /\ d[k + 1] = (IF d[k] = <<>> THEN <<>> ELSE Append(d[k], Dot)) \o n[k + 1]
  <2>1. PICK j \in 1 .. L : j = k + 1 /\ j - 1 = k
    BY <1>1
  <2>2. n[j] \in Labels /\ k \in 0 .. L /\ j \in 0 .. L
    BY <1>1, <2>1
  <2>3. n[j] \in Seq(Nat) /\ Len(n[j]) \in 1 .. 63
    BY <2>2, LabelsAre
  <2>4. e[j] = e[j - 1] \o LabelBytes(n[j]) /\ d[j] = (IF d[j - 1] = <<>> THEN <<>> ELSE Append(d[j - 1], Dot)) \o n[j]
    BY DEF NameRun
  <2> QED BY <1>2, <2>1, <2>2, <2>3, <2>4
<1>4. ASSUME NEW k \in 0 .. L - 1, NEW str \in Seq(Nat), PartsAre(PartsOf(str), e[k], <<>>), d[k + 1] = str \o n[k + 1]
      PROVE  k \in T
  <2>1. PICK l \in Labels : l = n[k + 1]
    BY <1>3
  <2>2. l \in Seq(Nat) /\ Len(l) \in 1 .. 63
    BY LabelsAre
  <2>3. PartsAre(PartsOf(str \o l), e[k], l)
    BY <1>3, <1>4, LabelIsPart
  <2>4. Len(str \o l) = Len(str) + Len(l)
    BY <2>2, ConcatProperties
  <2>5. Len(str) \in Nat
    OBVIOUS
  <2>6. Len(str \o l) # 0
    <3>1. PICK a \in Nat, m \in 1 .. 63 : a = Len(str) /\ m = Len(l)
      BY <2>2, <2>5
    <3>2. Len(str \o l) = a + m
      BY <2>4, <3>1
    <3> QED BY <3>2
  <2>7. str \o l # <<>>
    BY <2>6
  <2> QED BY <1>4, <2>1, <2>3, <2>7
<1>5. 0 \in T
  <2>1. 0 \in 0 .. L - 1 /\ <<>> \in Seq(Nat)
    BY <1>1
  <2>2. d[0 + 1] = <<>> \o n[0 + 1]
    BY <1>2, <1>3, <2>1
  <2>3. PartsAre(PartsOf(<<>>), e[0], <<>>)
    BY <1>2, PartsNone
  <2> QED BY <1>4, <2>1, <2>2, <2>3
<1>6. ASSUME NEW k \in 0 .. (L - 1) - 1, k \in T
      PROVE  k + 1 \in T
  <2>1. k \in 0 .. L - 1 /\ k + 1 \in 0 .. L - 1
    BY <1>1
  <2>2. PICK s, o, w : s = d[k + 1] /\ o = e[k] /\ w = n[k + 1]
    OBVIOUS
  <2>3. s \in Seq(Nat) /\ o \in Seq(Nat) /\ w \in Seq(Nat) /\ PartsAre(PartsOf(s), o, w) /\ s # <<>> /\ Dot \in Nat
    BY <1>3, <1>6, <2>1, <2>2 DEF Dot
  <2>4. PartsOf(Append(s, Dot)) = PartTurn(PartsOf(s), Dot) /\ Append(s, Dot) \in Seq(Nat)
    BY <2>3, PartsNext, AppendProperties
  <2>5. PartsAre(PartTurn(PartsOf(s), Dot), o \o LabelBytes(w), <<>>)
    BY <2>3, PartTurnIs
  <2>6. e[k + 1] = o \o LabelBytes(w)
    BY <1>3, <2>1, <2>2
  <2>7. d[(k + 1) + 1] = Append(s, Dot) \o n[(k + 1) + 1]
    BY <1>3, <2>1, <2>2, <2>3
  <2> HIDE DEF T
  <2> QED BY <1>4, <2>1, <2>4, <2>5, <2>6, <2>7
<1> HIDE DEF T
<1>7. \A k \in 0 .. L - 1 : k \in T
  <2>1. PICK m \in Nat : m = L - 1
    BY <1>1
  <2> QED BY <1>5, <1>6, <2>1, UpTo
<1>8. PICK m \in 0 .. L - 1 : m + 1 = L
  BY <1>1
<1>9. PartsAre(PartsOf(d[L]), e[m], n[L])
  <2>1. m \in T
    BY <1>7
  <2> QED BY <1>8, <2>1 DEF T
<1>10. e[L] = e[m] \o LabelBytes(n[L])
  BY <1>3, <1>8
<1> DEFINE s == PartsOf(d[L])
<1>11. s.out = e[m] /\ s.part = n[L]
  BY <1>9 DEF PartsAre
<1>12. strToLabel(d[L]) = (s.out \o LabelBytes(s.part)) \o <<0>>
  BY Zenon DEF strToLabel, LabelBytes
<1> HIDE DEF s
<1> QED BY <1>2, <1>10, <1>11, <1>12, Zenon DEF L

\* One sequence joined.
LEMMA FlattenOne ==
  ASSUME NEW S, NEW seqs \in Seq(Seq(S)), Len(seqs) = 1
  PROVE  FlattenSeq(seqs) = seqs[1]
<1>1. PICK f \in [0 .. Len(seqs) -> Seq(S)] :
        /\ f[0] = <<>> /\ \A k \in 1 .. Len(seqs) : f[k] = f[k - 1] \o seqs[k]
        /\ FlattenSeq(seqs) = f[Len(seqs)]
  BY FlattenIs
<1>2. 1 \in 1 .. Len(seqs) /\ 1 - 1 = 0
  OBVIOUS
<1>3. f[1] = <<>> \o seqs[1]
  BY <1>1, <1>2
<1>4. seqs[1] \in Seq(S)
  BY <1>2, ElementOfSeq
<1> QED BY <1>1, <1>3, <1>4, ConcatEmptySeq

\* Two sequences joined.
LEMMA FlattenTwo ==
  ASSUME NEW S, NEW seqs \in Seq(Seq(S)), Len(seqs) = 2
  PROVE  FlattenSeq(seqs) = seqs[1] \o seqs[2]
<1>1. PICK f \in [0 .. Len(seqs) -> Seq(S)] :
        /\ f[0] = <<>> /\ \A k \in 1 .. Len(seqs) : f[k] = f[k - 1] \o seqs[k]
        /\ FlattenSeq(seqs) = f[Len(seqs)]
  BY FlattenIs
<1>2. 1 \in 1 .. Len(seqs) /\ 1 - 1 = 0 /\ 2 \in 1 .. Len(seqs) /\ 2 - 1 = 1
  OBVIOUS
<1>3. f[1] = <<>> \o seqs[1] /\ f[2] = f[1] \o seqs[2]
  BY <1>1, <1>2
<1>4. seqs[1] \in Seq(S)
  BY <1>2, ElementOfSeq
<1>5. <<>> \o seqs[1] = seqs[1]
  BY <1>4, ConcatEmptySeq
<1> QED BY <1>1, <1>3, <1>5

\* A pair of bytes.
Pair(a, b) == <<a, b>>

\* What a pair is.
LEMMA PairIs ==
  ASSUME NEW a \in Nat, NEW b \in Nat
  PROVE  Pair(a, b) \in Seq(Nat) /\ Len(Pair(a, b)) = 2 /\ Pair(a, b)[1] = a /\ Pair(a, b)[2] = b
BY DEF Pair

\* The numbers that are written.
LEMMA Numbers ==
  /\ n16(1) = Pair(0, 1) /\ n16(2) = Pair(0, 2) /\ n16(15) = Pair(0, 15) /\ n16(256) = Pair(1, 0)
  /\ n16(4) = Pair(0, 4) /\ n16(20) = Pair(0, 20) /\ n16(192 * 256 + HeaderLen) = Pair(192, 12)
  /\ n16(41) = Pair(0, 41) /\ n16(512) = Pair(2, 0)
<1>1. 1 \div 256 = 0 /\ 1 % 256 = 1 /\ 2 \div 256 = 0 /\ 2 % 256 = 2 /\ 15 \div 256 = 0 /\ 15 % 256 = 15
  OBVIOUS
<1>2. 256 \div 256 = 1 /\ 256 % 256 = 0 /\ 4 \div 256 = 0 /\ 4 % 256 = 4 /\ 20 \div 256 = 0 /\ 20 % 256 = 20
  OBVIOUS
<1>3. (192 * 256 + HeaderLen) \div 256 = 192 /\ (192 * 256 + HeaderLen) % 256 = 12
  BY DEF HeaderLen
<1>4. 41 \div 256 = 0 /\ 41 % 256 = 41 /\ 512 \div 256 = 2 /\ 512 % 256 = 0
  OBVIOUS
<1> QED BY <1>1, <1>2, <1>3, <1>4 DEF n16, Pair

\* w is s and t, of the lengths m and n, one behind the other.
Abuts(w, s, m, t, n) ==
  /\ w \in Seq(Nat) /\ Len(w) = m + n
  /\ \A i \in 1 .. m : w[i] = s[i]
  /\ \A i \in 1 .. n : w[m + i] = t[i]

\* What two joined sequences are.
LEMMA Joined ==
  ASSUME NEW s \in Seq(Nat), NEW t \in Seq(Nat), NEW m \in Nat, NEW n \in Nat, Len(s) = m, Len(t) = n
  PROVE  Abuts(s \o t, s, m, t, n)
<1>1. /\ s \o t \in Seq(Nat) /\ Len(s \o t) = Len(s) + Len(t)
      /\ \A i \in 1 .. Len(s) + Len(t) : (s \o t)[i] = IF i <= Len(s) THEN s[i] ELSE t[i - Len(s)]
  BY ConcatProperties
<1> DEFINE w == s \o t
<1> HIDE DEF w
<1>2. w \in Seq(Nat) /\ Len(w) = m + n /\ \A i \in 1 .. m + n : w[i] = IF i <= m THEN s[i] ELSE t[i - m]
  BY <1>1 DEF w
<1>3. \A i \in 1 .. m : w[i] = s[i]
  BY <1>2
<1>4. ASSUME NEW i \in 1 .. n
      PROVE  w[m + i] = t[i]
  <2>1. m + i \in 1 .. m + n /\ ~ (m + i <= m) /\ (m + i) - m = i
    OBVIOUS
  <2> QED BY <1>2, <2>1
<1>5. Abuts(w, s, m, t, n)
  BY <1>2, <1>3, <1>4 DEF Abuts
<1> QED BY <1>5 DEF w

\* Where an index of two joined sequences is.
LEMMA InOneOfTwo ==
  ASSUME NEW m \in Nat, NEW n \in Nat, NEW i \in 1 .. m + n
  PROVE  i \in 1 .. m \/ \E j \in 1 .. n : i = m + j
<1>1. CASE i <= m
  BY <1>1
<1>2. CASE i > m
  <2>1. i - m \in 1 .. n /\ i = m + (i - m)
    BY <1>2
  <2> QED BY <2>1
<1> QED BY <1>1, <1>2

\* Two sequences of one length that agree but for some places.
Agree(x, y, m, P) ==
  /\ x \in Seq(Nat) /\ y \in Seq(Nat) /\ Len(x) = m /\ Len(y) = m
  /\ \A i \in 1 .. m : x[i] = y[i] \/ i \in P

\* They still do with a tail.
LEMMA AgreeLonger ==
  ASSUME NEW x, NEW y, NEW t \in Seq(Nat), NEW m \in Nat, NEW n \in Nat, n = Len(t), NEW P, Agree(x, y, m, P)
  PROVE  Agree(x \o t, y \o t, m + n, P)
<1>1. x \in Seq(Nat) /\ y \in Seq(Nat) /\ Len(x) = m /\ Len(y) = m
  BY DEF Agree
<1>2. Abuts(x \o t, x, m, t, n) /\ Abuts(y \o t, y, m, t, n)
  BY <1>1, Joined
<1>3. PICK v, w : v = x \o t /\ w = y \o t
  OBVIOUS
<1>4. Abuts(v, x, m, t, n) /\ Abuts(w, y, m, t, n)
  BY <1>2, <1>3
<1>5. \A i \in 1 .. m + n : v[i] = w[i] \/ i \in P
  <2>1. \A i \in 1 .. m : v[i] = w[i] \/ i \in P
    BY <1>4 DEF Abuts, Agree
  <2>2. \A i \in 1 .. n : v[m + i] = w[m + i]
    BY <1>4 DEF Abuts
  <2>3. ASSUME NEW i \in 1 .. m + n
        PROVE  v[i] = w[i] \/ i \in P
    <3>1. i \in 1 .. m \/ \E j \in 1 .. n : i = m + j
      BY InOneOfTwo
    <3> QED BY <2>1, <2>2, <3>1
  <2> QED BY <2>3
<1>6. Agree(v, w, m + n, P)
  BY <1>4, <1>5 DEF Abuts, Agree
<1> QED BY <1>3, <1>6

\* The places of four bytes behind a head.
Four(a) == { a + j : j \in 1 .. 4 }

\* Four bytes between a head and a tail.
LEMMA FourBetween ==
  ASSUME NEW h \in Seq(Nat), NEW t \in Seq(Nat), NEW u \in Seq(Nat), NEW v \in Seq(Nat), NEW w \in Seq(Nat),
         NEW a \in Nat, Len(h) = a, NEW b \in Nat, Len(t) = b, NEW c \in Nat, Len(u) = c, Len(v) = 4, Len(w) = 4
  PROVE  Agree(((h \o v) \o t) \o u, ((h \o w) \o t) \o u, a + 4 + b + c, Four(a))
<1>1. Abuts(h \o v, h, a, v, 4) /\ Abuts(h \o w, h, a, w, 4)
  BY Joined
<1>2. PICK x, y : x = h \o v /\ y = h \o w
  OBVIOUS
<1>3. Abuts(x, h, a, v, 4) /\ Abuts(y, h, a, w, 4)
  BY <1>1, <1>2
<1>4. \A i \in 1 .. a + 4 : x[i] = y[i] \/ i \in Four(a)
  <2>1. \A i \in 1 .. a : x[i] = y[i]
    BY <1>3 DEF Abuts
  <2>2. \A i \in 1 .. 4 : a + i \in Four(a)
    BY DEF Four
  <2>3. ASSUME NEW i \in 1 .. a + 4
        PROVE  x[i] = y[i] \/ i \in Four(a)
    <3>1. i \in 1 .. a \/ \E j \in 1 .. 4 : i = a + j
      BY InOneOfTwo
    <3> QED BY <2>1, <2>2, <3>1
  <2> QED BY <2>3
<1>5. Agree(x, y, a + 4, Four(a))
  BY <1>3, <1>4 DEF Abuts, Agree
<1>6. PICK m \in Nat : m = a + 4
  OBVIOUS
<1>7. Agree(x \o t, y \o t, m + b, Four(a))
  BY <1>5, <1>6, AgreeLonger
<1>8. PICK n \in Nat : n = m + b
  OBVIOUS
<1>9. Agree((x \o t) \o u, (y \o t) \o u, n + c, Four(a))
  BY <1>7, <1>8, AgreeLonger
<1> QED BY <1>2, <1>6, <1>8, <1>9

\* A record.
RR(name, type, class, ttl, data) ==
  name \o n16(type) \o n16(class) \o ttl \o n16(Len(data)) \o data

\* The time to live that is half left as it was.
HalfOf(name, stale) ==
  <<0, 0, IF Len(name) + 6 + 1 <= Len(stale) THEN stale[Len(name) + 6 + 1] ELSE 0,
    IF Len(name) + 6 + 2 <= Len(stale) THEN stale[Len(name) + 6 + 2] ELSE 0>>

\* It has four bytes.
LEMMA HalfIs ==
  ASSUME NEW E \in Seq(Nat), NEW stale \in Seq(Nat)
  PROVE  HalfOf(E, stale) \in Seq(Nat) /\ Len(HalfOf(E, stale)) = 4
<1>1. ASSUME NEW k \in Nat, k > 0
      PROVE  (IF Len(E) + 6 + k <= Len(stale) THEN stale[Len(E) + 6 + k] ELSE 0) \in Nat
  <2>1. PICK i \in Nat : i = Len(E) + 6 + k /\ i > 0
    BY <1>1
  <2>2. CASE i <= Len(stale)
    <3>1. i \in 1 .. Len(stale)
      BY <2>1, <2>2
    <3>2. stale[i] \in Nat
      BY <3>1, ElementOfSeq
    <3> QED BY <2>1, <3>2
  <2> QED BY <2>1, <2>2
<1>2. PICK x \in Nat, y \in Nat :
        /\ x = (IF Len(E) + 6 + 1 <= Len(stale) THEN stale[Len(E) + 6 + 1] ELSE 0)
        /\ y = (IF Len(E) + 6 + 2 <= Len(stale) THEN stale[Len(E) + 6 + 2] ELSE 0)
  BY <1>1
<1>3. HalfOf(E, stale) = <<0, 0, x, y>>
  BY <1>2, Zenon DEF HalfOf
<1> QED BY <1>3

\* What the server answers with.
LEMMA DataIs ==
  /\ Ip \in Seq(Nat) /\ Len(Ip) = 4 /\ Server \in Seq(Nat) /\ Len(Server) = 4
  /\ Link \in Seq(Nat) /\ Len(Link) = 20
<1>1. Ip \in Seq(Nat) /\ Len(Ip) = 4 /\ Server \in Seq(Nat) /\ Len(Server) = 4
  BY DEF Ip, Server
<1>2. PICK h, t : h = <<0, 10, 0, 1>> /\ t = [k \in 1 .. 16 |-> 104]
  OBVIOUS
<1>3. h \in Seq(Nat) /\ Len(h) = 4
  BY <1>2
<1>4. t \in Seq(Nat) /\ Len(t) = 16
  BY <1>2
<1>5. Abuts(h \o t, h, 4, t, 16)
  BY <1>3, <1>4, Joined
<1>6. h \o t \in Seq(Nat) /\ Len(h \o t) = 20
  BY <1>5 DEF Abuts
<1>7. Link = h \o t
  BY <1>2 DEF Link
<1> QED BY <1>1, <1>6, <1>7

\* The records by type.
LEMMA RecordByType ==
  ASSUME NEW E, NEW stale
  PROVE  /\ Record(E, A, stale) = RR(E, A, 1, <<0, 0, 0, 0>>, Ip)
         /\ Record(E, NS, stale) = RR(E, NS, 1, HalfOf(E, stale), Server)
         /\ Record(E, URI, stale) = RR(E, URI, 256, HalfOf(E, stale), Link)
         /\ Record(E, MX, stale) = <<>>
<1>1. A # NS /\ A # URI /\ NS # URI /\ MX # A /\ MX # NS /\ MX # URI
  BY DEF A, NS, URI, MX
<1>2. Record(E, A, stale) = RR(E, A, 1, <<0, 0, 0, 0>>, Ip)
  BY <1>1, Zenon DEF Record, RR
<1>3. Record(E, NS, stale) = RR(E, NS, 1, HalfOf(E, stale), Server)
  BY <1>1, Zenon DEF Record, RR, HalfOf
<1>4. Record(E, URI, stale) = RR(E, URI, 256, HalfOf(E, stale), Link)
  BY <1>1, Zenon DEF Record, RR, HalfOf
<1>5. Record(E, MX, stale) = <<>>
  BY <1>1, Zenon DEF Record
<1> QED BY <1>2, <1>3, <1>4, <1>5

\* Two records that differ in the time to live.
LEMMA RecordsAgree ==
  ASSUME NEW E \in Seq(Nat), NEW a \in Nat, Len(E) = a, NEW type, NEW class, NEW data \in Seq(Nat), NEW c \in Nat,
         Len(data) = c, n16(type) \in Seq(Nat), Len(n16(type)) = 2, n16(class) \in Seq(Nat), Len(n16(class)) = 2,
         n16(c) \in Seq(Nat), Len(n16(c)) = 2,
         NEW v \in Seq(Nat), NEW w \in Seq(Nat), Len(v) = 4, Len(w) = 4
  PROVE  Agree(RR(E, type, class, v, data), RR(E, type, class, w, data), a + 4 + 4 + 2 + c, Four(a + 4))
<1>1. PICK t, u, l : t = n16(type) /\ u = n16(class) /\ l = n16(c)
  OBVIOUS
<1>2. t \in Seq(Nat) /\ Len(t) = 2 /\ u \in Seq(Nat) /\ Len(u) = 2 /\ l \in Seq(Nat) /\ Len(l) = 2
  BY <1>1
<1>3. Abuts(E \o t, E, a, t, 2)
  BY <1>2, Joined
<1>4. PICK h, m : h = E \o t /\ m = a + 2
  OBVIOUS
<1>12. m \in Nat
  BY <1>4
<1>5. h \in Seq(Nat) /\ Len(h) = m
  BY <1>3, <1>4 DEF Abuts
<1>6. Abuts(h \o u, h, m, u, 2)
  BY <1>2, <1>5, <1>12, Joined
<1>7. PICK g, n : g = h \o u /\ n = m + 2
  OBVIOUS
<1>13. n \in Nat
  BY <1>7, <1>12
<1>8. g \in Seq(Nat) /\ Len(g) = n
  BY <1>6, <1>7 DEF Abuts
<1>9. Agree(((g \o v) \o l) \o data, ((g \o w) \o l) \o data, n + 4 + 2 + c, Four(n))
  BY <1>2, <1>8, <1>13, FourBetween
<1>10. n = a + 4 /\ n + 4 + 2 + c = a + 4 + 4 + 2 + c
  BY <1>4, <1>7
<1>11. /\ RR(E, type, class, v, data) = ((g \o v) \o l) \o data
       /\ RR(E, type, class, w, data) = ((g \o w) \o l) \o data
  BY <1>1, <1>4, <1>7, Zenon DEF RR
<1> QED BY <1>9, <1>10, <1>11, Zenon

\* A record for each type that is known, the same whatever was in the buffer
\* but for its time to live.
LEMMA RecordIs ==
  ASSUME NEW E \in Seq(Nat), NEW a \in Nat, Len(E) = a, NEW type \in Types, type # MX, NEW stale \in Seq(Nat)
  PROVE  \E m \in Nat : m # 0 /\ m <= a + 30 /\ Agree(Record(E, type, stale), Record(E, type, <<>>), m, Four(a + 4))
<1>1. /\ n16(1) \in Seq(Nat) /\ Len(n16(1)) = 2 /\ n16(2) \in Seq(Nat) /\ Len(n16(2)) = 2
      /\ n16(256) \in Seq(Nat) /\ Len(n16(256)) = 2 /\ n16(4) \in Seq(Nat) /\ Len(n16(4)) = 2
      /\ n16(20) \in Seq(Nat) /\ Len(n16(20)) = 2
  BY Numbers, PairIs
<1>2. <<>> \in Seq(Nat) /\ <<0, 0, 0, 0>> \in Seq(Nat) /\ Len(<<0, 0, 0, 0>>) = 4
  OBVIOUS
<1>3. PICK v, w, z : v = HalfOf(E, stale) /\ w = HalfOf(E, <<>>) /\ z = <<0, 0, 0, 0>>
  OBVIOUS
<1>4. /\ v \in Seq(Nat) /\ Len(v) = 4 /\ w \in Seq(Nat) /\ Len(w) = 4 /\ z \in Seq(Nat) /\ Len(z) = 4
  BY <1>2, <1>3, HalfIs
<1>5. CASE type = A
  <2>1. Agree(RR(E, A, 1, z, Ip), RR(E, A, 1, z, Ip), a + 4 + 4 + 2 + 4, Four(a + 4))
    BY <1>1, <1>4, DataIs, RecordsAgree DEF A
  <2>2. Record(E, type, stale) = RR(E, A, 1, z, Ip) /\ Record(E, type, <<>>) = RR(E, A, 1, z, Ip)
    BY <1>3, <1>5, RecordByType, Zenon
  <2>3. PICK m \in Nat : m = a + 4 + 4 + 2 + 4
    OBVIOUS
  <2> QED BY <2>1, <2>2, <2>3
<1>6. CASE type = NS
  <2>1. Agree(RR(E, NS, 1, v, Server), RR(E, NS, 1, w, Server), a + 4 + 4 + 2 + 4, Four(a + 4))
    BY <1>1, <1>4, DataIs, RecordsAgree DEF NS
  <2>2. Record(E, type, stale) = RR(E, NS, 1, v, Server) /\ Record(E, type, <<>>) = RR(E, NS, 1, w, Server)
    BY <1>3, <1>6, RecordByType, Zenon
  <2>3. PICK m \in Nat : m = a + 4 + 4 + 2 + 4
    OBVIOUS
  <2> QED BY <2>1, <2>2, <2>3
<1>7. CASE type = URI
  <2>1. Agree(RR(E, URI, 256, v, Link), RR(E, URI, 256, w, Link), a + 4 + 4 + 2 + 20, Four(a + 4))
    BY <1>1, <1>4, DataIs, RecordsAgree DEF URI
  <2>2. Record(E, type, stale) = RR(E, URI, 256, v, Link) /\ Record(E, type, <<>>) = RR(E, URI, 256, w, Link)
    BY <1>3, <1>7, RecordByType, Zenon
  <2>3. PICK m \in Nat : m = a + 4 + 4 + 2 + 20
    OBVIOUS
  <2> QED BY <2>1, <2>2, <2>3
<1> QED BY <1>5, <1>6, <1>7 DEF Types

\* A record is a sequence of bytes.
LEMMA RecordTyped ==
  ASSUME NEW E \in Seq(Nat), NEW type \in Types
  PROVE  Record(E, type, <<>>) \in Seq(Nat)
<1>1. CASE type = MX
  <2>1. Record(E, MX, <<>>) = <<>>
    BY RecordByType
  <2>2. Record(E, type, <<>>) = <<>>
    BY <1>1, <2>1, Zenon
  <2>3. <<>> \in Seq(Nat)
    OBVIOUS
  <2> QED BY <2>2, <2>3, Zenon
<1>2. CASE type # MX
  <2>1. PICK a \in Nat : a = Len(E)
    OBVIOUS
  <2>2. <<>> \in Seq(Nat)
    OBVIOUS
  <2>3. PICK m \in Nat : Agree(Record(E, type, <<>>), Record(E, type, <<>>), m, Four(a + 4))
    BY <1>2, <2>1, <2>2, RecordIs
  <2> QED BY <2>3 DEF Agree
<1> QED BY <1>1, <1>2

\* The buffer holds w but for some places, and more, within a bound.
Buffered(reply, w, m, P, K) ==
  /\ reply \in Seq(Nat) /\ m <= Len(reply) /\ Len(reply) <= K
  /\ \A k \in 1 .. m : reply[k] = w[k] \/ k \in P

\* A record put behind what is in the buffer.
LEMMA RecordPut ==
  ASSUME NEW K \in Nat, NEW w \in Seq(Nat), NEW m \in Nat, Len(w) = m, NEW P, NEW reply, Buffered(reply, w, m, P, K),
         NEW rr, NEW r, NEW n \in Nat, NEW Q, Agree(rr, r, n, Q), m + n <= K, NEW PQ, P \subseteq PQ,
         \A j \in Q : m + j \in PQ
  PROVE  Buffered(SubSeq(reply, 1, m) \o rr \o SubSeq(reply, m + n + 1, Len(reply)), w \o r, m + n, PQ, K)
<1>1. reply \in Seq(Nat) /\ m <= Len(reply) /\ Len(reply) <= K /\ Len(reply) \in Nat
  BY DEF Buffered
<1>2. PICK l \in Nat : l = Len(reply)
  BY <1>1
<1>3. PICK a, b : a = SubSeq(reply, 1, m) /\ b = SubSeq(reply, m + n + 1, l)
  OBVIOUS
<1>4. a \in Seq(Nat) /\ Len(a) = m /\ \A i \in 1 .. m : a[i] = reply[i]
  <2>1. \A i \in 1 .. m : reply[i] \in Nat
    BY <1>1
  <2>2. SubSeq(reply, 1, m) \in Seq(Nat)
    BY <2>1, SubSeqProperties
  <2>3. Len(SubSeq(reply, 1, m)) = IF 1 <= m THEN m - 1 + 1 ELSE 0
    BY <2>1, SubSeqProperties
  <2>4. \A i \in 1 .. m - 1 + 1 : SubSeq(reply, 1, m)[i] = reply[1 + i - 1]
    BY <2>1, SubSeqProperties
  <2> QED BY <1>3, <2>2, <2>3, <2>4
<1>5. PICK q \in Nat : q = Len(b) /\ b \in Seq(Nat) /\ m + n + q <= K
  <2>1. \A i \in m + n + 1 .. l : reply[i] \in Nat
    BY <1>1, <1>2
  <2>2. PICK x \in Nat : x = m + n + 1
    OBVIOUS
  <2>3. SubSeq(reply, x, l) \in Seq(Nat)
    BY <2>1, <2>2, SubSeqProperties
  <2>4. Len(SubSeq(reply, x, l)) = IF x <= l THEN l - x + 1 ELSE 0
    BY <2>1, <2>2, SubSeqProperties
  <2>5. b = SubSeq(reply, x, l)
    BY <1>3, <2>2
  <2>6. Len(b) \in Nat /\ m + n + Len(b) <= K
    <3>1. PICK y : y = Len(b)
      OBVIOUS
    <3>2. y = IF x <= l THEN l - x + 1 ELSE 0
      BY <2>4, <2>5, <3>1
    <3>3. l <= K
      BY <1>1, <1>2
    <3>4. y \in Nat /\ m + n + y <= K
      BY <2>2, <3>2, <3>3
    <3> QED BY <3>1, <3>4
  <2> QED BY <2>3, <2>5, <2>6
<1>6. rr \in Seq(Nat) /\ Len(rr) = n /\ r \in Seq(Nat) /\ Len(r) = n
  BY DEF Agree
<1>7. Abuts(a \o rr, a, m, rr, n) /\ Abuts(w \o r, w, m, r, n)
  BY <1>4, <1>6, Joined
<1>8. PICK c, v, k : c = a \o rr /\ v = w \o r /\ k = m + n
  OBVIOUS
<1>9. c \in Seq(Nat) /\ Len(c) = k /\ Abuts(c, a, m, rr, n) /\ Abuts(v, w, m, r, n)
  BY <1>7, <1>8 DEF Abuts
<1>16. k \in Nat
  BY <1>8
<1>10. Abuts(c \o b, c, k, b, q)
  BY <1>5, <1>9, <1>16, Joined
<1>11. PICK z : z = c \o b
  OBVIOUS
<1>12. z \in Seq(Nat) /\ Len(z) = k + q /\ \A i \in 1 .. k : z[i] = c[i]
  BY <1>10, <1>11 DEF Abuts
<1>13. ASSUME NEW i \in 1 .. k
       PROVE  z[i] = v[i] \/ i \in PQ
  <2>1. i \in 1 .. m \/ \E j \in 1 .. n : i = m + j
    BY <1>8, InOneOfTwo
  <2>2. CASE i \in 1 .. m
    <3>1. z[i] = reply[i] /\ v[i] = w[i]
      BY <1>4, <1>9, <1>12, <2>2 DEF Abuts
    <3> QED BY <2>2, <3>1 DEF Buffered
  <2>3. CASE \E j \in 1 .. n : i = m + j
    <3>1. PICK j \in 1 .. n : i = m + j
      BY <2>3
    <3>2. c[m + j] = rr[j] /\ v[m + j] = r[j]
      BY <1>9 DEF Abuts
    <3>3. rr[j] = r[j] \/ j \in Q
      BY DEF Agree
    <3> QED BY <1>12, <3>1, <3>2, <3>3
  <2> QED BY <2>1, <2>2, <2>3
<1>14. Buffered(z, v, k, PQ, K)
  <2>1. k <= k + q /\ k + q <= K
    BY <1>5, <1>8, <1>16
  <2> QED BY <1>12, <1>13, <2>1 DEF Buffered
<1>15. z = SubSeq(reply, 1, m) \o rr \o SubSeq(reply, m + n + 1, Len(reply))
  BY <1>2, <1>3, <1>8, <1>11
<1> QED BY <1>8, <1>14, <1>15

\* The name at a place, spelled out.
LEMMA NameThere ==
  ASSUME NEW n \in Seq(Labels), n # <<>>, NEW packet, NEW p, Holds(packet, p, Encoded(n))
  PROVE  strToLabel(labelToStr(packet, p).res) = Encoded(n) /\ labelToStr(packet, p).next = p + Len(Encoded(n))
<1>1. PICK e, d : NameRun(n, e, d)
  BY NamesRun
<1>2. NameRead(labelToStr(packet, p), d[Len(n)], p + Len(Encoded(n)))
  BY <1>1, SpelledName
<1>3. strToLabel(d[Len(n)]) = Encoded(n)
  BY <1>1, NameWritten
<1> QED BY <1>2, <1>3, Zenon DEF NameRead

\* The name that is pointed to.
LEMMA NamePointed ==
  ASSUME NEW n \in Seq(Labels), n # <<>>, NEW packet, Holds(packet, 0, Encoded(n)), NEW q \in Nat,
         packet[q + 1] = 192, packet[q + 2] = 12
  PROVE  strToLabel(labelToStr(packet, q).res) = Encoded(n) /\ labelToStr(packet, q).next = q + 2
<1>1. PICK e, d : NameRun(n, e, d)
  BY NamesRun
<1>2. NameRead(labelToStr(packet, q), d[Len(n)], q + 2)
  BY <1>1, PointedName
<1>3. strToLabel(d[Len(n)]) = Encoded(n)
  BY <1>1, NameWritten
<1> QED BY <1>2, <1>3, Zenon DEF NameRead

\* A state of captdnsRecv's loop: the question at place p is next, and behind
\* the m bytes of w the next answer is put.
Turned(s, p, w, m, c, P, K) ==
  s.p = p /\ s.rend = m /\ s.count = c /\ Buffered(s.reply, w, m, P, K)

\* What the four fields are.
LEMMA StateFieldsAre ==
  ASSUME NEW s, NEW p, NEW m, NEW c, NEW reply, s = [p |-> p, rend |-> m, count |-> c, reply |-> reply]
  PROVE  s.p = p /\ s.rend = m /\ s.count = c /\ s.reply = reply
OBVIOUS

\* What is made of a question with record rr.
Answers1(t, x, m, c, rr, reply) ==
  /\ t.p = x + 4 /\ t.rend = m + Len(rr) /\ t.count = c + (IF rr = <<>> THEN 0 ELSE 1)
  /\ t.reply = SubSeq(reply, 1, m) \o rr \o SubSeq(reply, m + Len(rr) + 1, Len(reply))

\* The turn for one question.
LEMMA AnsweredFields ==
  ASSUME NEW packet, NEW s, NEW p, NEW m, NEW c, NEW reply, s.p = p, s.rend = m, s.count = c, s.reply = reply,
         NEW E, strToLabel(labelToStr(packet, p).res) = E, NEW x, labelToStr(packet, p).next = x,
         NEW type, TypeAt(packet, x) = type, NEW rr, rr = Record(E, type, SubSeq(reply, m + 1, Len(reply))),
         NEW t, t = Answered(packet, s)
  PROVE  Answers1(t, x, m, c, rr, reply)
<1> DEFINE l == labelToStr(packet, s.p)
           ty == TypeAt(packet, l.next)
           r == Record(strToLabel(l.res), ty, SubSeq(s.reply, s.rend + 1, Len(s.reply)))
           rend == s.rend + Len(r)
<1>1. Answered(packet, s) =
        [p |-> l.next + 4, rend |-> rend, count |-> s.count + (IF r = <<>> THEN 0 ELSE 1),
         reply |-> SubSeq(s.reply, 1, s.rend) \o r \o SubSeq(s.reply, rend + 1, Len(s.reply))]
  BY Zenon DEF Answered
<1>2. l.next = x /\ ty = type /\ strToLabel(l.res) = E
  BY Zenon
<1>3. r = rr
  BY <1>2, Zenon
<1> HIDE DEF l, ty, r
<1>4. PICK a, b, y, z :
        /\ a = l.next + 4 /\ b = rend /\ y = s.count + (IF r = <<>> THEN 0 ELSE 1)
        /\ z = SubSeq(s.reply, 1, s.rend) \o r \o SubSeq(s.reply, rend + 1, Len(s.reply))
  OBVIOUS
<1>5. t = [p |-> a, rend |-> b, count |-> y, reply |-> z]
  BY <1>1, <1>4, Zenon
<1>6. t.p = a /\ t.rend = b /\ t.count = y /\ t.reply = z
  BY <1>5, StateFieldsAre
<1> QED BY <1>2, <1>3, <1>4, <1>6, Zenon DEF Answers1

\* What a question leaves open in the reply.
LeftOpen(m, a, type) == IF type = MX THEN {} ELSE Four(m + a + 4)

\* The record of a question is put behind what is there.
QuestionDone(t, x, w, m, c, P, E, a, type, K) ==
  \E n \in Nat :
    /\ Len(Record(E, type, <<>>)) = n /\ Record(E, type, <<>>) \in Seq(Nat) /\ n <= a + 30
    /\ Turned(t, x + 4, w \o Record(E, type, <<>>), m + n, c + (IF type = MX THEN 0 ELSE 1),
              P \cup LeftOpen(m, a, type), K)

\* A question answered.
LEMMA QuestionAnswered ==
  ASSUME NEW packet, NEW K \in Nat, NEW s, NEW p, NEW w \in Seq(Nat), NEW m \in Nat, Len(w) = m, NEW c \in Nat, NEW P,
         Turned(s, p, w, m, c, P, K), NEW E \in Seq(Nat), NEW a \in Nat, Len(E) = a,
         strToLabel(labelToStr(packet, p).res) = E, NEW x \in Nat, labelToStr(packet, p).next = x,
         NEW type \in Types, TypeAt(packet, x) = type, m + Len(Record(E, type, <<>>)) <= K
  PROVE  QuestionDone(Answered(packet, s), x, w, m, c, P, E, a, type, K)
<1>1. PICK reply : reply = s.reply
  OBVIOUS
<1>2. s.p = p /\ s.rend = m /\ s.count = c /\ s.reply = reply /\ Buffered(reply, w, m, P, K)
  BY <1>1 DEF Turned
<1>3. PICK stale : stale = SubSeq(reply, m + 1, Len(reply))
  OBVIOUS
<1>4. stale \in Seq(Nat)
  <2>1. reply \in Seq(Nat) /\ Len(reply) \in Nat
    BY <1>2 DEF Buffered
  <2>2. \A i \in m + 1 .. Len(reply) : reply[i] \in Nat
    BY <2>1
  <2>3. PICK l \in Int, q \in Int : l = Len(reply) /\ q = m + 1
    BY <2>1
  <2>4. SubSeq(reply, q, l) \in Seq(Nat)
    BY <2>2, <2>3, SubSeqProperties
  <2> QED BY <1>3, <2>3, <2>4
<1>5. PICK rr, r, t : rr = Record(E, type, stale) /\ r = Record(E, type, <<>>) /\ t = Answered(packet, s)
  OBVIOUS
<1>6. PICK n \in Nat :
        /\ n <= a + 30 /\ Agree(rr, r, n, IF type = MX THEN {} ELSE Four(a + 4))
        /\ n = 0 <=> type = MX
  <2>1. CASE type = MX
    <3>1. rr = <<>> /\ r = <<>>
      <4>1. Record(E, MX, stale) = <<>> /\ Record(E, MX, <<>>) = <<>>
        BY RecordByType
      <4> QED BY <1>5, <2>1, <4>1, Zenon
    <3>2. Agree(rr, r, 0, {})
      BY <3>1 DEF Agree
    <3> QED BY <2>1, <3>2
  <2>2. CASE type # MX
    <3>1. PICK n \in Nat : n # 0 /\ n <= a + 30 /\ Agree(rr, r, n, Four(a + 4))
      BY <1>4, <1>5, <2>2, RecordIs
    <3> QED BY <2>2, <3>1
  <2> QED BY <2>1, <2>2
<1>7. rr \in Seq(Nat) /\ Len(rr) = n /\ r \in Seq(Nat) /\ Len(r) = n
  BY <1>6 DEF Agree
<1>8. rr = <<>> <=> type = MX
  BY <1>6, <1>7, EmptySeq
<1>9. Answers1(t, x, m, c, rr, reply)
  BY <1>2, <1>3, <1>5, AnsweredFields
<1>10. PICK Q, PQ : Q = (IF type = MX THEN {} ELSE Four(a + 4)) /\ PQ = P \cup LeftOpen(m, a, type)
  OBVIOUS
<1>11. P \subseteq PQ /\ \A j \in Q : m + j \in PQ
  <2>1. \A j \in Four(a + 4) : m + j \in Four(m + a + 4)
    BY DEF Four
  <2> QED BY <1>10, <2>1 DEF LeftOpen
<1>12. m + n <= K
  BY <1>5, <1>7
<1>13. Agree(rr, r, n, Q)
  BY <1>6, <1>10
<1>14. Buffered(SubSeq(reply, 1, m) \o rr \o SubSeq(reply, m + n + 1, Len(reply)), w \o r, m + n, PQ, K)
  BY <1>2, <1>11, <1>12, <1>13, RecordPut
<1>15. Turned(t, x + 4, w \o r, m + n, c + (IF type = MX THEN 0 ELSE 1), PQ, K)
  BY <1>7, <1>8, <1>9, <1>14, Zenon DEF Turned, Answers1
<1> QED BY <1>5, <1>6, <1>7, <1>10, <1>15 DEF QuestionDone

\* The subsets of one and of two numbers.
LEMMA Pairs ==
  ASSUME NEW s \in SUBSET (1 .. 2), s # {}
  PROVE  \/ s = {1} /\ Max(s) = 1 /\ s \ {Max(s)} = {}
         \/ s = {2} /\ Max(s) = 2 /\ s \ {Max(s)} = {}
         \/ s = 1 .. 2 /\ Max(s) = 2 /\ s \ {Max(s)} = {1}
<1>1. s = {1} \/ s = {2} \/ s = 1 .. 2
  <2>1. \A x \in 1 .. 2 : x = 1 \/ x = 2
    OBVIOUS
  <2>2. \A x \in s : x \in 1 .. 2 /\ (x = 1 \/ x = 2)
    BY <2>1
  <2>3. 1 \in s \/ 2 \in s
    BY <2>2
  <2>4. CASE 1 \in s /\ 2 \in s
    <3>1. s = 1 .. 2
      BY <2>1, <2>2, <2>4
    <3> QED BY <3>1
  <2>5. CASE 2 \notin s
    <3>1. s = {1}
      BY <2>2, <2>3, <2>5
    <3> QED BY <3>1
  <2>6. CASE 1 \notin s
    <3>1. s = {2}
      BY <2>2, <2>3, <2>6
    <3> QED BY <3>1
  <2> QED BY <2>4, <2>5, <2>6
<1>2. 2 \in Nat
  OBVIOUS
<1>3. Max(s) \in s /\ \A x \in s : x <= Max(s)
  BY <1>2, MaxIs
<1>4. CASE s = {1}
  BY <1>3, <1>4
<1>5. CASE s = {2}
  BY <1>3, <1>5
<1>6. CASE s = 1 .. 2
  <2>1. 2 \in s /\ Max(s) \in 1 .. 2
    BY <1>3, <1>6
  <2>2. Max(s) = 2
    BY <1>3, <2>1
  <2>3. (1 .. 2) \ {2} = {1}
    OBVIOUS
  <2> QED BY <1>6, <2>2, <2>3
<1> QED BY <1>1, <1>4, <1>5, <1>6

\* The loop over two questions.
LEMMA TwoAnswered ==
  ASSUME NEW packet, NEW b
  PROVE  AllAnswered(packet, 2, b) = Answered(packet, Answered(packet, b))
<1> DEFINE seq == [k \in 1 .. 2 |-> k]
           Go(s) == Answered(packet, s)
           D(f) == [s \in SUBSET DOMAIN seq |-> IF s = {} THEN b ELSE Go(f[s \ {Max(s)}])]
           c == CHOOSE iter : iter = [s \in SUBSET DOMAIN seq |-> IF s = {} THEN b ELSE Go(iter[s \ {Max(s)}])]
           h == [s \in SUBSET (1 .. 2) |-> IF s = {} THEN b ELSE IF s = 1 .. 2 THEN Go(Go(b)) ELSE Go(b)]
<1>1. AllAnswered(packet, 2, b) = c[DOMAIN seq]
  BY Zenon DEF AllAnswered, FoldLeft, MapThenFoldSet
<1>2. DOMAIN seq = 1 .. 2
  OBVIOUS
<1> HIDE DEF seq, Go
<1>3. h = D(h)
  <2>1. ASSUME NEW s \in SUBSET (1 .. 2)
        PROVE  h[s] = IF s = {} THEN b ELSE Go(h[s \ {Max(s)}])
    <3>1. {} \in SUBSET (1 .. 2) /\ {1} \in SUBSET (1 .. 2) /\ {1} # 1 .. 2 /\ {2} # 1 .. 2 /\ {1} # {}
          /\ {2} # {} /\ 1 .. 2 # {}
      <4>1. 1 \in 1 .. 2 /\ 2 \in 1 .. 2 /\ 1 # 2
        OBVIOUS
      <4> QED BY <4>1
    <3>2. h[{}] = b /\ h[{1}] = Go(b)
      BY <3>1
    <3>3. h[s] = IF s = {} THEN b ELSE IF s = 1 .. 2 THEN Go(Go(b)) ELSE Go(b)
      OBVIOUS
    <3> HIDE DEF h
    <3>4. CASE s = {}
      BY <3>3, <3>4
    <3>5. CASE s = {1} /\ s \ {Max(s)} = {}
      BY <3>1, <3>2, <3>3, <3>5, Zenon
    <3>6. CASE s = {2} /\ s \ {Max(s)} = {}
      BY <3>1, <3>2, <3>3, <3>6, Zenon
    <3>7. CASE s = 1 .. 2 /\ s \ {Max(s)} = {1}
      BY <3>1, <3>2, <3>3, <3>7, Zenon
    <3> QED BY <3>4, <3>5, <3>6, <3>7, Pairs
  <2> DEFINE e == [s \in SUBSET (1 .. 2) |-> IF s = {} THEN b ELSE Go(h[s \ {Max(s)}])]
  <2>2. h = e
    <3>1. h = [s \in SUBSET (1 .. 2) |-> h[s]]
      OBVIOUS
    <3> QED BY <2>1, <3>1
  <2> QED BY <1>2, <2>2, Zenon
<1>4. c = D(c)
  BY <1>3, Zenon
<1>5. \A s \in SUBSET (1 .. 2) : c[s] = IF s = {} THEN b ELSE Go(c[s \ {Max(s)}])
  <2> DEFINE d == D(c)
  <2>1. \A s \in SUBSET (1 .. 2) : d[s] = IF s = {} THEN b ELSE Go(c[s \ {Max(s)}])
    BY <1>2, Zenon
  <2>2. c = d
    BY <1>4, Zenon
  <2> HIDE DEF d, c
  <2> QED BY <2>1, <2>2, Zenon
<1> HIDE DEF c, h
<1>6. {1} \in SUBSET (1 .. 2) /\ {1} # {} /\ {} \in SUBSET (1 .. 2) /\ 1 .. 2 # {} /\ {1} # 1 .. 2 /\ {2} # {1}
  <2>1. 1 \in 1 .. 2 /\ 2 \in 1 .. 2 /\ 1 # 2
    OBVIOUS
  <2> QED BY <2>1
<1>7. c[{}] = b
  BY <1>5, <1>6
<1>8. c[{1}] = Go(b)
  <2>1. {1} \ {Max({1})} = {}
    BY <1>6, Pairs
  <2>2. c[{1}] = Go(c[{1} \ {Max({1})}])
    BY <1>5, <1>6
  <2> QED BY <1>7, <2>1, <2>2, Zenon
<1>9. c[1 .. 2] = Go(Go(b))
  <2>1. (1 .. 2) \ {Max(1 .. 2)} = {1}
    <3>1. {2} # 1 .. 2
      BY <1>6
    <3> QED BY <1>6, <3>1, Pairs
  <2>2. c[1 .. 2] = Go(c[(1 .. 2) \ {Max(1 .. 2)}])
    BY <1>5, <1>6
  <2> QED BY <1>8, <2>1, <2>2, Zenon
<1> QED BY <1>1, <1>2, <1>9, Zenon DEF Go

\* The loop over one question.
LEMMA OneAnswered ==
  ASSUME NEW packet, NEW b
  PROVE  AllAnswered(packet, 1, b) = Answered(packet, b)
<1> DEFINE seq == [k \in 1 .. 1 |-> k]
           Go(s) == Answered(packet, s)
           D(f) == [s \in SUBSET DOMAIN seq |-> IF s = {} THEN b ELSE Go(f[s \ {Max(s)}])]
           c == CHOOSE iter : iter = [s \in SUBSET DOMAIN seq |-> IF s = {} THEN b ELSE Go(iter[s \ {Max(s)}])]
           h == [s \in SUBSET (1 .. 1) |-> IF s = {} THEN b ELSE Go(b)]
<1>1. AllAnswered(packet, 1, b) = c[DOMAIN seq]
  BY Zenon DEF AllAnswered, FoldLeft, MapThenFoldSet
<1>2. DOMAIN seq = 1 .. 1
  OBVIOUS
<1> HIDE DEF seq, Go
<1>6. {} \in SUBSET (1 .. 1) /\ 1 .. 1 # {} /\ 1 .. 1 \in SUBSET (1 .. 1) /\ 1 .. 1 = {1}
  <2>1. 1 \in 1 .. 1
    OBVIOUS
  <2> QED BY <2>1
<1>10. ASSUME NEW s \in SUBSET (1 .. 1), s # {}
       PROVE  s \ {Max(s)} = {}
  <2>1. s = {1}
    BY <1>6, <1>10
  <2>2. s \in SUBSET (1 .. 2)
    BY <2>1
  <2>3. {2} # {1} /\ 1 .. 2 # {1}
    <3>1. 1 \in 1 .. 2 /\ 2 \in 1 .. 2 /\ 1 # 2
      OBVIOUS
    <3> QED BY <3>1
  <2> QED BY <1>10, <2>1, <2>2, <2>3, Pairs
<1>3. h = D(h)
  <2>1. ASSUME NEW s \in SUBSET (1 .. 1)
        PROVE  h[s] = IF s = {} THEN b ELSE Go(h[s \ {Max(s)}])
    <3>1. h[{}] = b
      BY <1>6
    <3>2. h[s] = IF s = {} THEN b ELSE Go(b)
      OBVIOUS
    <3> HIDE DEF h
    <3>3. CASE s = {}
      BY <3>2, <3>3
    <3>4. CASE s # {}
      <4>1. s \ {Max(s)} = {}
        BY <1>10, <3>4
      <4> QED BY <3>1, <3>2, <3>4, <4>1, Zenon
    <3> QED BY <3>3, <3>4
  <2> DEFINE e == [s \in SUBSET (1 .. 1) |-> IF s = {} THEN b ELSE Go(h[s \ {Max(s)}])]
  <2>2. h = e
    <3>1. h = [s \in SUBSET (1 .. 1) |-> h[s]]
      OBVIOUS
    <3> QED BY <2>1, <3>1
  <2> QED BY <1>2, <2>2, Zenon
<1>4. c = D(c)
  BY <1>3, Zenon
<1>5. \A s \in SUBSET (1 .. 1) : c[s] = IF s = {} THEN b ELSE Go(c[s \ {Max(s)}])
  <2> DEFINE d == D(c)
  <2>1. \A s \in SUBSET (1 .. 1) : d[s] = IF s = {} THEN b ELSE Go(c[s \ {Max(s)}])
    BY <1>2, Zenon
  <2>2. c = d
    BY <1>4, Zenon
  <2> HIDE DEF d, c
  <2> QED BY <2>1, <2>2, Zenon
<1> HIDE DEF c, h
<1>7. c[{}] = b
  BY <1>5, <1>6
<1>8. c[1 .. 1] = Go(b)
  <2>1. (1 .. 1) \ {Max(1 .. 1)} = {}
    BY <1>6, <1>10
  <2>2. c[1 .. 1] = Go(c[(1 .. 1) \ {Max(1 .. 1)}])
    BY <1>5, <1>6
  <2> QED BY <1>7, <2>1, <2>2, Zenon
<1> QED BY <1>1, <1>2, <1>8, Zenon DEF Go

\* The bytes of a question.
Asked(q) ==
  (IF q.compressed = 1 THEN n16(192 * 256 + HeaderLen) ELSE Encoded(q.labels)) \o n16(q.type) \o n16(1)

\* An encoded name.
LEMMA EncodedIs ==
  ASSUME NEW n \in Seq(Labels)
  PROVE  Encoded(n) \in Seq(Nat)
<1>1. PICK e, d : NameRun(n, e, d)
  BY NamesRun
<1>2. Len(n) \in 0 .. Len(n)
  OBVIOUS
<1>3. e[Len(n)] \in Seq(Nat) /\ Encoded(n) = e[Len(n)] \o <<0>>
  BY <1>1, <1>2 DEF NameRun
<1>4. <<0>> \in Seq(Nat)
  OBVIOUS
<1> QED BY <1>3, <1>4, ConcatProperties

\* The type of a question is two bytes that are read back.
LEMMA TypeIs ==
  ASSUME NEW type \in Types, NEW packet, NEW x, Holds(packet, x, n16(type))
  PROVE  n16(type) \in Seq(Nat) /\ Len(n16(type)) = 2 /\ TypeAt(packet, x) = type
<1>1. ASSUME NEW a \in Nat, NEW b \in Nat, n16(type) = Pair(a, b), 256 * a + b = type
      PROVE  n16(type) \in Seq(Nat) /\ Len(n16(type)) = 2 /\ TypeAt(packet, x) = type
  <2>1. Pair(a, b) \in Seq(Nat) /\ Len(Pair(a, b)) = 2 /\ Pair(a, b)[1] = a /\ Pair(a, b)[2] = b
    BY PairIs
  <2>2. Holds(packet, x, Pair(a, b))
    BY <1>1
  <2>3. 1 \in 1 .. Len(Pair(a, b)) /\ 2 \in 1 .. Len(Pair(a, b))
    BY <2>1
  <2>4. packet[x + 1] = a /\ packet[x + 2] = b
    BY <2>1, <2>2, <2>3 DEF Holds
  <2>5. TypeAt(packet, x) = 256 * a + b
    BY <2>4, Zenon DEF TypeAt
  <2> QED BY <1>1, <2>1, <2>5
<1>2. type = 1 \/ type = 2 \/ type = 256 \/ type = 15
  BY DEF Types, A, NS, URI, MX
<1>3. CASE type = 1
  <2>1. n16(type) = Pair(0, 1) /\ 256 * 0 + 1 = type
    BY <1>3, Numbers
  <2> QED BY <1>1, <2>1
<1>4. CASE type = 2
  <2>1. n16(type) = Pair(0, 2) /\ 256 * 0 + 2 = type
    BY <1>4, Numbers
  <2> QED BY <1>1, <2>1
<1>5. CASE type = 256
  <2>1. n16(type) = Pair(1, 0) /\ 256 * 1 + 0 = type
    BY <1>5, Numbers
  <2> QED BY <1>1, <2>1
<1>6. CASE type = 15
  <2>1. n16(type) = Pair(0, 15) /\ 256 * 0 + 15 = type
    BY <1>6, Numbers
  <2> QED BY <1>1, <2>1
<1> QED BY <1>2, <1>3, <1>4, <1>5, <1>6

\* What n16 makes of a type.
LEMMA TypeWritten ==
  ASSUME NEW type \in Types
  PROVE  n16(type) \in Seq(Nat) /\ Len(n16(type)) = 2 /\ n16(1) \in Seq(Nat) /\ Len(n16(1)) = 2
<1>1. type = 1 \/ type = 2 \/ type = 256 \/ type = 15
  BY DEF Types, A, NS, URI, MX
<1>2. \E x \in Nat, y \in Nat : n16(type) = Pair(x, y)
  BY <1>1, Numbers
<1>3. n16(1) = Pair(0, 1)
  BY Numbers
<1> QED BY <1>2, <1>3, PairIs

\* A name with type and class behind it.
LEMMA QuestionParts ==
  ASSUME NEW E \in Seq(Nat), NEW a \in Nat, Len(E) = a, NEW type \in Types
  PROVE  /\ E \o n16(type) \o n16(1) \in Seq(Nat) /\ Len(E \o n16(type) \o n16(1)) = a + 4
<1>1. PICK t, u : t = n16(type) /\ u = n16(1)
  OBVIOUS
<1>2. t \in Seq(Nat) /\ Len(t) = 2 /\ u \in Seq(Nat) /\ Len(u) = 2
  BY <1>1, TypeWritten
<1>3. Abuts(E \o t, E, a, t, 2)
  BY <1>2, Joined
<1>4. PICK h : h = E \o t
  OBVIOUS
<1>5. PICK m \in Nat : m = a + 2
  OBVIOUS
<1>6. h \in Seq(Nat) /\ Len(h) = m
  BY <1>3, <1>4, <1>5 DEF Abuts
<1>7. Abuts(h \o u, h, m, u, 2)
  BY <1>2, <1>6, Joined
<1>8. h \o u \in Seq(Nat) /\ Len(h \o u) = a + 4
  BY <1>5, <1>7 DEF Abuts
<1> QED BY <1>1, <1>4, <1>8

\* They are held where the question is.
LEMMA QuestionHeld ==
  ASSUME NEW E \in Seq(Nat), NEW a \in Nat, Len(E) = a, NEW type \in Types, NEW packet, NEW p,
         Holds(packet, p, E \o n16(type) \o n16(1))
  PROVE  Holds(packet, p, E) /\ TypeAt(packet, p + a) = type
<1>1. PICK t, u, h : t = n16(type) /\ u = n16(1) /\ h = E \o t
  OBVIOUS
<1>2. t \in Seq(Nat) /\ u \in Seq(Nat)
  BY <1>1, TypeWritten
<1>3. h \in Seq(Nat)
  BY <1>1, <1>2, ConcatProperties
<1>4. Holds(packet, p, h \o u)
  BY <1>1, Zenon
<1>5. Holds(packet, p, h)
  BY <1>2, <1>3, <1>4, HoldsParts
<1>6. Holds(packet, p, E \o t)
  BY <1>1, <1>5
<1>7. Holds(packet, p, E) /\ Holds(packet, p + a, t)
  BY <1>2, <1>6, HoldsParts
<1>8. Holds(packet, p + a, n16(type))
  BY <1>1, <1>7
<1> QED BY <1>7, <1>8, TypeIs

\* A question is read: its name, its type and the place of that.
QuestionRead(packet, p, E, x, type) ==
  /\ strToLabel(labelToStr(packet, p).res) = E /\ labelToStr(packet, p).next = x
  /\ TypeAt(packet, x) = type

\* A question whose name is spelled out is read as it is.
LEMMA SpelledRead ==
  ASSUME NEW n \in Seq(Labels), n # <<>>, NEW a \in Nat, Len(Encoded(n)) = a, NEW type \in Types, NEW packet, NEW p,
         Holds(packet, p, Encoded(n) \o n16(type) \o n16(1)), NEW x, x = p + a
  PROVE  QuestionRead(packet, p, Encoded(n), x, type) /\ x \in Nat /\ Holds(packet, p, Encoded(n))
<1>1. Encoded(n) \in Seq(Nat)
  BY EncodedIs
<1>2. Holds(packet, p, Encoded(n)) /\ TypeAt(packet, p + a) = type
  BY <1>1, QuestionHeld
<1>3. p \in Nat
  BY DEF Holds
<1>4. strToLabel(labelToStr(packet, p).res) = Encoded(n) /\ labelToStr(packet, p).next = p + Len(Encoded(n))
  BY <1>2, NameThere
<1> QED BY <1>2, <1>3, <1>4 DEF QuestionRead

\* One with a pointer to the first name is read with that name.
LEMMA PointerRead ==
  ASSUME NEW n \in Seq(Labels), n # <<>>, NEW type \in Types, NEW packet, Holds(packet, 0, Encoded(n)), NEW q \in Nat,
         Holds(packet, q, Pair(192, 12) \o n16(type) \o n16(1))
  PROVE  /\ strToLabel(labelToStr(packet, q).res) = Encoded(n) /\ labelToStr(packet, q).next = q + 2
         /\ TypeAt(packet, q + 2) = type /\ q + 2 \in Nat
<1>1. /\ Pair(192, 12) \in Seq(Nat) /\ Len(Pair(192, 12)) = 2
      /\ Pair(192, 12)[1] = 192 /\ Pair(192, 12)[2] = 12
  BY PairIs
<1>2. Holds(packet, q, Pair(192, 12)) /\ TypeAt(packet, q + 2) = type
  <2>1. PICK E, a : E = Pair(192, 12) /\ a = 2
    OBVIOUS
  <2>2. E \in Seq(Nat) /\ Len(E) = a /\ a \in Nat
    BY <1>1, <2>1
  <2>3. Holds(packet, q, E \o n16(type) \o n16(1))
    BY <2>1, Zenon
  <2>4. Holds(packet, q, E) /\ TypeAt(packet, q + a) = type
    BY <2>2, <2>3, QuestionHeld
  <2> QED BY <2>1, <2>4
<1>3. 1 \in 1 .. Len(Pair(192, 12)) /\ 2 \in 1 .. Len(Pair(192, 12))
  BY <1>1
<1>4. packet[q + 1] = 192 /\ packet[q + 2] = 12
  BY <1>1, <1>2, <1>3 DEF Holds
<1>5. strToLabel(labelToStr(packet, q).res) = Encoded(n) /\ labelToStr(packet, q).next = q + 2
  BY <1>4, NamePointed
<1> QED BY <1>2, <1>5

\* The loop's first state: the packet is copied into the buffer.
LEMMA Copied ==
  ASSUME NEW packet \in Seq(Nat), NEW m \in Nat, Len(packet) = m, NEW K \in Nat, m <= K,
         NEW reply \in Seq(Nat), Len(reply) <= K
  PROVE  Turned([p |-> 0, rend |-> Len(packet), count |-> 0,
                 reply |-> packet \o SubSeq(reply, Len(packet) + 1, Len(reply))], 0, packet, m, 0, {}, K)
<1>1. Buffered(reply, <<>>, 0, {}, K)
  BY DEF Buffered
<1>2. Agree(packet, packet, m, {})
  BY DEF Agree
<1>3. <<>> \in Seq(Nat) /\ Len(<<>>) = 0 /\ 0 + m <= K
  OBVIOUS
<1>4. Buffered(SubSeq(reply, 1, 0) \o packet \o SubSeq(reply, 0 + m + 1, Len(reply)), <<>> \o packet, 0 + m, {}, K)
  <2>1. PICK e, z, P : e = <<>> /\ z = 0 /\ P = {}
    OBVIOUS
  <2>2. e \in Seq(Nat) /\ z \in Nat /\ Len(e) = z /\ z + m <= K
    BY <1>3, <2>1
  <2>3. Buffered(reply, e, z, P, K) /\ Agree(packet, packet, m, P)
    BY <1>1, <1>2, <2>1, Zenon
  <2>4. P \subseteq P /\ \A j \in P : z + j \in P
    BY <2>1
  <2>5. Buffered(SubSeq(reply, 1, z) \o packet \o SubSeq(reply, z + m + 1, Len(reply)), e \o packet, z + m, P, K)
    BY <2>2, <2>3, <2>4, RecordPut
  <2> QED BY <2>1, <2>5, Zenon
<1>5. SubSeq(reply, 1, 0) = <<>>
  BY SubSeqEmpty
<1>6. <<>> \o packet = packet
  BY ConcatEmptySeq
<1>7. 0 + m = m
  OBVIOUS
<1>8. Buffered(packet \o SubSeq(reply, m + 1, Len(reply)), packet, m, {}, K)
  BY <1>4, <1>5, <1>6, <1>7, Zenon
<1>9. PICK b : b = packet \o SubSeq(reply, m + 1, Len(reply))
  OBVIOUS
<1>10. PICK s : s = [p |-> 0, rend |-> m, count |-> 0, reply |-> b]
  OBVIOUS
<1>11. Turned(s, 0, packet, m, 0, {}, K)
  <2>1. s.p = 0 /\ s.rend = m /\ s.count = 0 /\ s.reply = b
    BY <1>10
  <2> QED BY <1>8, <1>9, <2>1 DEF Turned
<1> QED BY <1>9, <1>10, <1>11, Zenon

\* All questions of a query.
AskedAll(query) == [k \in DOMAIN query.qs |-> Asked(query.qs[k])]

\* What is behind them.
Tail1(query) == IF query.additional = 1 THEN <<0>> \o n16(41) \o n16(512) \o <<0, 0, 0, 0, 0, 0>> ELSE <<>>

\* A packet.
LEMMA PacketIs ==
  ASSUME NEW query
  PROVE  Packet(query) = FlattenSeq(AskedAll(query)) \o Tail1(query)
BY Zenon DEF Packet, AskedAll, Asked, Tail1

\* An additional record.
LEMMA TailIs ==
  ASSUME NEW query
  PROVE  Tail1(query) \in Seq(Nat)
<1>1. CASE query.additional = 1
  <2>1. PICK a, b, c, d : a = <<0>> /\ b = n16(41) /\ c = n16(512) /\ d = <<0, 0, 0, 0, 0, 0>>
    OBVIOUS
  <2>2. /\ a \in Seq(Nat) /\ Len(a) = 1 /\ b \in Seq(Nat) /\ Len(b) = 2 /\ c \in Seq(Nat) /\ Len(c) = 2
        /\ d \in Seq(Nat) /\ Len(d) = 6
    <3>1. n16(41) = Pair(0, 41) /\ n16(512) = Pair(2, 0)
      BY Numbers
    <3>2. b \in Seq(Nat) /\ Len(b) = 2 /\ c \in Seq(Nat) /\ Len(c) = 2
      BY <2>1, <3>1, PairIs
    <3>3. a \in Seq(Nat) /\ Len(a) = 1 /\ d \in Seq(Nat) /\ Len(d) = 6
      BY <2>1
    <3> QED BY <3>2, <3>3
  <2>3. Abuts(a \o b, a, 1, b, 2)
    BY <2>2, Joined
  <2>4. a \o b \in Seq(Nat) /\ Len(a \o b) = 3
    BY <2>3 DEF Abuts
  <2>5. Abuts((a \o b) \o c, a \o b, 3, c, 2)
    BY <2>2, <2>4, Joined
  <2>6. (a \o b) \o c \in Seq(Nat) /\ Len((a \o b) \o c) = 5
    BY <2>5 DEF Abuts
  <2>7. Abuts(((a \o b) \o c) \o d, (a \o b) \o c, 5, d, 6)
    BY <2>2, <2>6, Joined
  <2>8. ((a \o b) \o c) \o d \in Seq(Nat) /\ Len(((a \o b) \o c) \o d) = 11
    BY <2>7 DEF Abuts
  <2>9. Tail1(query) = ((a \o b) \o c) \o d
    BY <1>1, <2>1, Zenon DEF Tail1
  <2> QED BY <1>1, <2>8, <2>9
<1>2. CASE query.additional # 1
  <2>1. Tail1(query) = <<>>
    BY <1>2 DEF Tail1
  <2> QED BY <2>1
<1> QED BY <1>1, <1>2

\* The questions of a query with one.
LEMMA AskedOne ==
  ASSUME NEW query, NEW q, query.qs = <<q>>, Asked(q) \in Seq(Nat)
  PROVE  FlattenSeq(AskedAll(query)) = Asked(q)
<1>1. DOMAIN query.qs = 1 .. 1 /\ query.qs[1] = q
  OBVIOUS
<1>2. PICK a \in Seq(Nat) : a = Asked(q)
  OBVIOUS
<1>3. AskedAll(query) = [k \in 1 .. 1 |-> Asked(query.qs[k])]
  BY <1>1, Zenon DEF AskedAll
<1>4. \A k \in 1 .. 1 : Asked(query.qs[k]) = a
  <2>1. \A k \in 1 .. 1 : k = 1
    OBVIOUS
  <2> QED BY <1>1, <1>2, <2>1, Zenon
<1>5. AskedAll(query) = [k \in 1 .. 1 |-> a]
  BY <1>3, <1>4
<1>6. PICK f : f = [k \in 1 .. 1 |-> a]
  OBVIOUS
<1>7. f \in Seq(Seq(Nat)) /\ Len(f) = 1 /\ f[1] = a
  BY <1>6
<1>8. FlattenSeq(f) = f[1]
  BY <1>7, FlattenOne
<1> QED BY <1>2, <1>5, <1>6, <1>7, <1>8

\* The questions of a query with two.
LEMMA AskedTwo ==
  ASSUME NEW query, NEW q, NEW r, query.qs = <<q, r>>, Asked(q) \in Seq(Nat), Asked(r) \in Seq(Nat)
  PROVE  FlattenSeq(AskedAll(query)) = Asked(q) \o Asked(r)
<1>1. DOMAIN query.qs = 1 .. 2 /\ query.qs[1] = q /\ query.qs[2] = r
  OBVIOUS
<1>2. PICK a \in Seq(Nat), b \in Seq(Nat) : a = Asked(q) /\ b = Asked(r)
  OBVIOUS
<1>3. AskedAll(query) = [k \in 1 .. 2 |-> Asked(query.qs[k])]
  BY <1>1, Zenon DEF AskedAll
<1>4. \A k \in 1 .. 2 : Asked(query.qs[k]) = IF k = 1 THEN a ELSE b
  <2>1. \A k \in 1 .. 2 : k = 1 \/ k = 2
    OBVIOUS
  <2>2. 2 # 1
    OBVIOUS
  <2> QED BY <1>1, <1>2, <2>1, <2>2, Zenon
<1>5. AskedAll(query) = [k \in 1 .. 2 |-> IF k = 1 THEN a ELSE b]
  BY <1>3, <1>4
<1>6. PICK f : f = [k \in 1 .. 2 |-> IF k = 1 THEN a ELSE b]
  OBVIOUS
<1>7. f \in Seq(Seq(Nat)) /\ Len(f) = 2 /\ f[1] = a /\ f[2] = b
  BY <1>6
<1>8. FlattenSeq(f) = f[1] \o f[2]
  BY <1>7, FlattenTwo
<1> QED BY <1>2, <1>5, <1>6, <1>7, <1>8

\* ReplyExact for a query and its reply.
RightReply(query, sent, count, reply) ==
  /\ count = Cardinality(Known(query)) /\ sent = Len(Sections(query))
  /\ \A k \in 1 .. sent : reply[k] = Sections(query)[k] \/ k \in TtlPlaces(query)

\* Where the answer to a question begins.
PlaceOf(query, k) == Len(Packet(query)) + Len(FlattenSeq(SubSeq(Answers(query), 1, k - 1)))

\* The places that are left open.
LEMMA InPlaces ==
  ASSUME NEW query, NEW k \in Known(query), NEW b, PlaceOf(query, k) = b,
         NEW a, Len(Encoded(query.qs[k].labels)) = a
  PROVE  Four(b + a + 4) \subseteq TtlPlaces(query)
<1> DEFINE F(i) == { PlaceOf(query, i) + Len(Encoded(query.qs[i].labels)) + 4 + j : j \in 1 .. 4 }
<1>1. TtlPlaces(query) = UNION { F(i) : i \in Known(query) }
  BY Zenon DEF TtlPlaces, PlaceOf
<1>2. F(k) = Four(b + a + 4)
  BY Zenon DEF Four
<1> HIDE DEF F
<1> QED BY <1>1, <1>2

\* The answers to a query with one question.
LEMMA AnswersOne ==
  ASSUME NEW query, NEW q, query.qs = <<q>>, NEW r \in Seq(Nat), Record(Encoded(q.labels), q.type, <<>>) = r
  PROVE  FlattenSeq(Answers(query)) = r /\ PlaceOf(query, 1) = Len(Packet(query)) + 0
<1>1. DOMAIN query.qs = 1 .. 1 /\ query.qs[1] = q
  OBVIOUS
<1>2. Answers(query) = [k \in 1 .. 1 |-> Record(Encoded(query.qs[k].labels), query.qs[k].type, <<>>)]
  BY <1>1, Zenon DEF Answers
<1>3. \A k \in 1 .. 1 : Record(Encoded(query.qs[k].labels), query.qs[k].type, <<>>) = r
  <2>1. \A k \in 1 .. 1 : k = 1
    OBVIOUS
  <2> QED BY <1>1, <2>1, Zenon
<1>4. Answers(query) = [k \in 1 .. 1 |-> r]
  BY <1>2, <1>3
<1>5. PICK f : f = [k \in 1 .. 1 |-> r]
  OBVIOUS
<1>6. f \in Seq(Seq(Nat)) /\ Len(f) = 1 /\ f[1] = r
  BY <1>5
<1>7. FlattenSeq(f) = f[1]
  BY <1>6, FlattenOne
<1>8. SubSeq(f, 1, 0) = <<>>
  BY SubSeqEmpty
<1>9. FlattenSeq(<<>>) = <<>> /\ Len(<<>>) = 0
  <2>1. Len(<<>>) = 0
    OBVIOUS
  <2> QED BY <2>1, Zenon DEF FlattenSeq
<1>10. 1 - 1 = 0
  OBVIOUS
<1>11. PlaceOf(query, 1) = Len(Packet(query)) + 0
  BY <1>4, <1>5, <1>8, <1>9, <1>10, Zenon DEF PlaceOf
<1> QED BY <1>4, <1>5, <1>6, <1>7, <1>11

\* The answers to a query with two questions.
LEMMA AnswersTwo ==
  ASSUME NEW query, NEW q, NEW p, query.qs = <<q, p>>,
         NEW r \in Seq(Nat), Record(Encoded(q.labels), q.type, <<>>) = r,
         NEW u \in Seq(Nat), Record(Encoded(p.labels), p.type, <<>>) = u
  PROVE  /\ FlattenSeq(Answers(query)) = r \o u
         /\ PlaceOf(query, 1) = Len(Packet(query)) + 0 /\ PlaceOf(query, 2) = Len(Packet(query)) + Len(r)
<1>1. DOMAIN query.qs = 1 .. 2 /\ query.qs[1] = q /\ query.qs[2] = p
  OBVIOUS
<1>2. Answers(query) = [k \in 1 .. 2 |-> Record(Encoded(query.qs[k].labels), query.qs[k].type, <<>>)]
  BY <1>1, Zenon DEF Answers
<1>3. \A k \in 1 .. 2 : Record(Encoded(query.qs[k].labels), query.qs[k].type, <<>>) = IF k = 1 THEN r ELSE u
  <2>1. \A k \in 1 .. 2 : k = 1 \/ k = 2
    OBVIOUS
  <2>2. 2 # 1
    OBVIOUS
  <2> QED BY <1>1, <2>1, <2>2, Zenon
<1>4. Answers(query) = [k \in 1 .. 2 |-> IF k = 1 THEN r ELSE u]
  BY <1>2, <1>3
<1>5. PICK f : f = [k \in 1 .. 2 |-> IF k = 1 THEN r ELSE u]
  OBVIOUS
<1>6. f \in Seq(Seq(Nat)) /\ Len(f) = 2 /\ f[1] = r /\ f[2] = u
  BY <1>5
<1>7. FlattenSeq(f) = f[1] \o f[2]
  BY <1>6, FlattenTwo
<1>8. SubSeq(f, 1, 0) = <<>>
  BY SubSeqEmpty
<1>9. FlattenSeq(<<>>) = <<>> /\ Len(<<>>) = 0
  <2>1. Len(<<>>) = 0
    OBVIOUS
  <2> QED BY <2>1, Zenon DEF FlattenSeq
<1>10. 1 - 1 = 0 /\ 2 - 1 = 1
  OBVIOUS
<1>11. PlaceOf(query, 1) = Len(Packet(query)) + 0
  BY <1>4, <1>5, <1>8, <1>9, <1>10, Zenon DEF PlaceOf
<1>12. PICK g : g = SubSeq(f, 1, 1)
  OBVIOUS
<1>13. g \in Seq(Seq(Nat)) /\ Len(g) = 1 /\ g[1] = r
  <2>1. \A i \in 1 .. 1 : f[i] \in Seq(Nat)
    <3>1. \A i \in 1 .. 1 : i = 1
      OBVIOUS
    <3> QED BY <1>6, <3>1
  <2>2. SubSeq(f, 1, 1) \in Seq(Seq(Nat))
    BY <2>1, SubSeqProperties
  <2>3. Len(SubSeq(f, 1, 1)) = IF 1 <= 1 THEN 1 - 1 + 1 ELSE 0
    BY <2>1, SubSeqProperties
  <2>4. \A i \in 1 .. 1 - 1 + 1 : SubSeq(f, 1, 1)[i] = f[1 + i - 1]
    BY <2>1, SubSeqProperties
  <2>5. SubSeq(f, 1, 1)[1] = f[1]
    <3>1. 1 \in 1 .. 1 - 1 + 1 /\ 1 + 1 - 1 = 1
      OBVIOUS
    <3> QED BY <2>4, <3>1
  <2> QED BY <1>6, <1>12, <2>2, <2>3, <2>5
<1>14. FlattenSeq(g) = r
  BY <1>13, FlattenOne
<1>15. PlaceOf(query, 2) = Len(Packet(query)) + Len(r)
  BY <1>4, <1>5, <1>10, <1>12, <1>14, Zenon DEF PlaceOf
<1> QED BY <1>4, <1>5, <1>6, <1>7, <1>11, <1>15

\* How many of the questions are known.
LEMMA KnownOne ==
  ASSUME NEW query, NEW q, query.qs = <<q>>
  PROVE  /\ Cardinality(Known(query)) = IF q.type = MX THEN 0 ELSE 1
         /\ q.type # MX => 1 \in Known(query)
<1>1. \A k : k \in Known(query) <=> k = 1 /\ q.type # MX
  <2>1. DOMAIN query.qs = 1 .. 1 /\ query.qs[1] = q
    OBVIOUS
  <2>2. \A k : k \in 1 .. 1 <=> k = 1
    OBVIOUS
  <2> QED BY <2>1, <2>2, Zenon DEF Known
<1>2. CASE q.type = MX
  <2>1. Known(query) = {}
    BY <1>1, <1>2
  <2> QED BY <1>2, <2>1, FS_EmptySet
<1>3. CASE q.type # MX
  <2>1. Known(query) = {1}
    BY <1>1, <1>3
  <2>2. Cardinality({1}) = 1
    BY FS_Singleton
  <2> QED BY <1>3, <2>1, <2>2
<1> QED BY <1>2, <1>3

\* And of two.
LEMMA KnownTwo ==
  ASSUME NEW query, NEW q, NEW p, query.qs = <<q, p>>
  PROVE  /\ Cardinality(Known(query)) = (IF q.type = MX THEN 0 ELSE 1) + (IF p.type = MX THEN 0 ELSE 1)
         /\ q.type # MX => 1 \in Known(query)
         /\ p.type # MX => 2 \in Known(query)
<1>1. \E S : /\ S = Known(query) /\ (1 \in S <=> q.type # MX) /\ (2 \in S <=> p.type # MX)
             /\ \A k : k \in S => k = 1 \/ k = 2
  <2>1. DOMAIN query.qs = 1 .. 2 /\ query.qs[1] = q /\ query.qs[2] = p
    OBVIOUS
  <2>2. \A k : k \in 1 .. 2 <=> k = 1 \/ k = 2
    OBVIOUS
  <2>3. \A k : k \in Known(query) <=> k \in 1 .. 2 /\ query.qs[k].type # MX
    BY <2>1, Zenon DEF Known
  <2>4. 1 \in Known(query) <=> q.type # MX
    BY <2>1, <2>2, <2>3, Zenon
  <2>5. 2 \in Known(query) <=> p.type # MX
    BY <2>1, <2>2, <2>3, Zenon
  <2>6. \A k : k \in Known(query) => k = 1 \/ k = 2
    BY <2>2, <2>3, Zenon
  <2>7. PICK S : S = Known(query)
    OBVIOUS
  <2>8. (1 \in S <=> q.type # MX) /\ (2 \in S <=> p.type # MX) /\ \A k : k \in S => k = 1 \/ k = 2
    BY <2>4, <2>5, <2>6, <2>7
  <2> QED BY <2>7, <2>8
<1>8. PICK S : /\ S = Known(query) /\ (1 \in S <=> q.type # MX) /\ (2 \in S <=> p.type # MX)
               /\ \A k : k \in S => k = 1 \/ k = 2
  BY <1>1
<1>2. Cardinality({}) = 0 /\ Cardinality({1}) = 1 /\ Cardinality({2}) = 1
  BY FS_EmptySet, FS_Singleton
<1>3. Cardinality({1, 2}) = 2
  <2>1. IsFiniteSet({1}) /\ 2 \notin {1}
    <3>1. 2 # 1
      OBVIOUS
    <3>2. IsFiniteSet({1})
      BY FS_Singleton, Zenon
    <3> QED BY <3>1, <3>2
  <2>2. Cardinality({1} \cup {2}) = Cardinality({1}) + 1
    BY <2>1, FS_AddElement
  <2>3. {1} \cup {2} = {1, 2}
    OBVIOUS
  <2> QED BY <1>2, <2>2, <2>3
<1>4. CASE q.type = MX /\ p.type = MX
  <2>1. S = {}
    BY <1>8, <1>4
  <2> QED BY <1>2, <1>4, <1>8, <2>1
<1>5. CASE q.type # MX /\ p.type = MX
  <2>1. S = {1}
    BY <1>8, <1>5
  <2> QED BY <1>2, <1>5, <1>8, <2>1
<1>6. CASE q.type = MX /\ p.type # MX
  <2>1. S = {2}
    BY <1>8, <1>6
  <2> QED BY <1>2, <1>6, <1>8, <2>1
<1>7. CASE q.type # MX /\ p.type # MX
  <2>1. S = {1, 2}
    BY <1>8, <1>7
  <2> QED BY <1>3, <1>7, <1>8, <2>1
<1> QED BY <1>4, <1>5, <1>6, <1>7

\* A first question is one for a name that is spelled out.
LEMMA FirstQuestionIs ==
  ASSUME NEW q \in First
  PROVE  /\ q.compressed = 0 /\ q.type \in Types /\ q.labels \in Seq(Labels) /\ q.labels # <<>>
         /\ Encoded(q.labels) \in Seq(Nat) /\ Len(Encoded(q.labels)) \in Nat
<1>1. PICK n \in DnsNames, t \in Types : q = Question(n, t, 0)
  BY DEF First
<1>2. q.compressed = 0 /\ q.type = t /\ q.labels = n
  BY <1>1 DEF Question
<1>3. n \in Seq(Labels) /\ n # <<>>
  BY <1>1, CaptDnsAssumption DEF HostNames
<1>4. Encoded(n) \in Seq(Nat)
  BY <1>3, EncodedIs
<1> QED BY <1>1, <1>2, <1>3, <1>4

\* The bytes of a question whose name is spelled out.
LEMMA AskedSpelled ==
  ASSUME NEW q \in First, NEW a \in Nat, a = Len(Encoded(q.labels))
  PROVE  /\ Asked(q) = Encoded(q.labels) \o n16(q.type) \o n16(1)
         /\ Asked(q) \in Seq(Nat) /\ Len(Asked(q)) = a + 4
<1>1. Asked(q) = Encoded(q.labels) \o n16(q.type) \o n16(1)
  <2>1. q.compressed # 1
    BY FirstQuestionIs
  <2> QED BY <2>1, Zenon DEF Asked
<1> QED BY <1>1, FirstQuestionIs, QuestionParts

\* What a right reply is, in the buffer.
ReplyIn(query, t) ==
  /\ t.reply \in Seq(Nat) /\ Len(t.reply) <= 500 /\ t.rend \in 0 .. Len(t.reply) /\ t.count \in 0 .. 2
  /\ RightReply(query, t.rend, t.count, t.reply)

\* The reply to a query with one question.
LEMMA RepliesOne ==
  ASSUME NEW query, NEW q \in First, query.qs = <<q>>, Len(Sections(query)) <= 500, NEW reply \in Seq(Nat), Len(reply) <= 500,
         NEW packet, packet = Packet(query)
  PROVE  ReplyIn(query, AllAnswered(packet, 1,
           [p |-> 0, rend |-> Len(packet), count |-> 0, reply |-> packet \o SubSeq(reply, Len(packet) + 1, Len(reply))]))
<1>1. PICK a \in Nat, E \in Seq(Nat) : a = Len(E) /\ E = Encoded(q.labels)
  BY FirstQuestionIs
<1>2. PICK h : h = Asked(q)
  OBVIOUS
<1>3. h = E \o n16(q.type) \o n16(1) /\ h \in Seq(Nat) /\ Len(h) = a + 4
  BY <1>1, <1>2, AskedSpelled
<1>4. PICK v : v = Tail1(query)
  OBVIOUS
<1>5. v \in Seq(Nat) /\ Len(v) \in Nat
  BY <1>4, TailIs
<1>6. packet = h \o v
  BY <1>2, <1>3, <1>4, PacketIs, AskedOne
<1>7. PICK b \in Nat, k \in Nat : b = Len(v) /\ k = a + 4
  BY <1>5
<1>8. Abuts(packet, h, k, v, b)
  BY <1>3, <1>5, <1>6, <1>7, Joined
<1>9. PICK m \in Nat : m = Len(packet) /\ m = k + b /\ packet \in Seq(Nat)
  BY <1>8 DEF Abuts
<1>10. Holds(packet, 0, h)
  <2>1. \A j \in 1 .. k : 0 + j = j
    OBVIOUS
  <2>2. \A j \in 1 .. Len(h) : packet[0 + j] = h[j]
    BY <1>3, <1>7, <1>8, <2>1 DEF Abuts
  <2>3. 0 \in Nat /\ 0 + Len(h) <= Len(packet)
    BY <1>3, <1>7, <1>9
  <2> QED BY <1>3, <1>9, <2>2, <2>3 DEF Holds
<1>11. PICK s : s = [p |-> 0, rend |-> Len(packet), count |-> 0,
                     reply |-> packet \o SubSeq(reply, Len(packet) + 1, Len(reply))]
  OBVIOUS
<1>17. PICK r \in Seq(Nat) : r = Record(E, q.type, <<>>)
  BY <1>1, FirstQuestionIs, RecordTyped
<1>23. PICK l \in Nat : l = Len(r)
  OBVIOUS
<1>24. FlattenSeq(Answers(query)) = r /\ PlaceOf(query, 1) = Len(packet) + 0
  BY <1>1, <1>17, AnswersOne
<1>25. Sections(query) = packet \o r
  BY <1>24, Zenon DEF Sections
<1>26. Len(Sections(query)) = m + l
  <2>1. Abuts(packet \o r, packet, m, r, l)
    BY <1>9, <1>23, Joined
  <2> QED BY <1>25, <2>1 DEF Abuts
<1>27. m + l <= 500
  BY <1>26
<1>12. PICK K \in Nat : K = 500 /\ m <= K /\ Len(reply) <= K /\ m + l <= K
  BY <1>27
<1>13. Turned(s, 0, packet, m, 0, {}, K)
  BY <1>9, <1>11, <1>12, Copied
<1>14. PICK x \in Nat :
         /\ strToLabel(labelToStr(packet, 0).res) = E /\ labelToStr(packet, 0).next = x
         /\ TypeAt(packet, x) = q.type
  <2>1. PICK n, type : n = q.labels /\ type = q.type
    OBVIOUS
  <2>2. n \in Seq(Labels) /\ n # <<>> /\ type \in Types
    BY <2>1, FirstQuestionIs
  <2>3. Holds(packet, 0, Encoded(n) \o n16(type) \o n16(1))
    BY <1>1, <1>3, <1>10, <2>1
  <2>4. Len(Encoded(n)) = a
    BY <1>1, <2>1
  <2>5. PICK x : x = 0 + a
    OBVIOUS
  <2>6. QuestionRead(packet, 0, Encoded(n), x, type) /\ x \in Nat
    BY <1>1, <2>2, <2>3, <2>4, <2>5, SpelledRead
  <2> QED BY <1>1, <2>1, <2>6 DEF QuestionRead
<1>15. PICK t : t = AllAnswered(packet, 1, s)
  OBVIOUS
<1>16. t = Answered(packet, s)
  BY <1>15, OneAnswered
<1>18. PICK n \in Nat :
         /\ Len(r) = n /\ r \in Seq(Nat) /\ n <= a + 30
         /\ Turned(t, x + 4, packet \o r, m + n, 0 + (IF q.type = MX THEN 0 ELSE 1),
                   {} \cup LeftOpen(m, a, q.type), K)
  <2>1. PICK P, z, type : P = {} /\ z = 0 /\ type = q.type
    OBVIOUS
  <2>2. Turned(s, z, packet, m, z, P, K)
    BY <1>13, <2>1
  <2>3. type \in Types /\ z \in Nat
    BY <2>1, FirstQuestionIs
  <2>4. strToLabel(labelToStr(packet, z).res) = E /\ labelToStr(packet, z).next = x /\ TypeAt(packet, x) = type
    BY <1>14, <2>1
  <2>6. m + Len(Record(E, type, <<>>)) <= K
    BY <1>12, <1>17, <1>23, <2>1
  <2>5. QuestionDone(Answered(packet, s), x, packet, m, z, P, E, a, type, K)
    BY <1>1, <1>9, <2>2, <2>3, <2>4, <2>6, QuestionAnswered
  <2> QED BY <1>16, <1>17, <2>1, <2>5, Zenon DEF QuestionDone
<1>19. PICK c, P : c = 0 + (IF q.type = MX THEN 0 ELSE 1) /\ P = {} \cup LeftOpen(m, a, q.type)
  OBVIOUS
<1>20. t.rend = m + n /\ t.count = c /\ Buffered(t.reply, packet \o r, m + n, P, K)
  BY <1>18, <1>19 DEF Turned
<1>21. t.reply \in Seq(Nat) /\ Len(t.reply) <= 500 /\ t.rend \in 0 .. Len(t.reply) /\ t.count \in 0 .. 2
  <2>1. c = 0 \/ c = 1
    BY <1>19
  <2>2. t.reply \in Seq(Nat) /\ m + n <= Len(t.reply) /\ Len(t.reply) <= K
    BY <1>20 DEF Buffered
  <2> QED BY <1>12, <1>20, <2>1, <2>2
<1>22. RightReply(query, t.rend, t.count, t.reply)
  <2>1. c = Cardinality(Known(query))
    <3>1. Cardinality(Known(query)) = IF q.type = MX THEN 0 ELSE 1
      BY KnownOne
    <3> QED BY <1>19, <3>1
  <2>5. Len(Sections(query)) = m + n
    BY <1>18, <1>23, <1>26
  <2>6. P \subseteq TtlPlaces(query)
    <3>1. CASE q.type = MX
      BY <1>19, <3>1 DEF LeftOpen
    <3>2. CASE q.type # MX
      <4>1. 1 \in Known(query)
        BY <3>2, KnownOne
      <4>2. PlaceOf(query, 1) = m
        BY <1>9, <1>24
      <4>3. query.qs[1] = q
        OBVIOUS
      <4>4. Len(Encoded(query.qs[1].labels)) = a
        BY <1>1, <4>3, Zenon
      <4>5. Four(m + a + 4) \subseteq TtlPlaces(query)
        BY <4>1, <4>2, <4>4, InPlaces
      <4> QED BY <1>19, <3>2, <4>5 DEF LeftOpen
    <3> QED BY <3>1, <3>2
  <2>7. \A i \in 1 .. m + n : t.reply[i] = (packet \o r)[i] \/ i \in TtlPlaces(query)
    BY <1>20, <2>6 DEF Buffered
  <2> QED BY <1>20, <1>25, <2>1, <2>5, <2>7 DEF RightReply
<1> QED BY <1>11, <1>15, <1>21, <1>22 DEF ReplyIn

\* What a second question is.
LEMMA SecondIs ==
  ASSUME NEW q \in First, NEW r \in Seconds(q)
  PROVE  /\ r.type \in Types /\ r.labels \in Seq(Labels) /\ r.labels # <<>>
         /\ Encoded(r.labels) \in Seq(Nat) /\ Len(Encoded(r.labels)) \in Nat
         /\ Asked(r) \in Seq(Nat) /\ Len(Asked(r)) \in Nat
<1>1. CASE r \in First
  <2>1. PICK a \in Nat : a = Len(Encoded(r.labels))
    BY <1>1, FirstQuestionIs
  <2>2. Asked(r) \in Seq(Nat) /\ Len(Asked(r)) = a + 4
    BY <1>1, <2>1, AskedSpelled
  <2>3. Len(Asked(r)) \in Nat
    BY <2>1, <2>2
  <2> QED BY <1>1, <2>2, <2>3, FirstQuestionIs
<1>2. ASSUME NEW t \in Types, r = Question(q.labels, t, 1)
      PROVE  /\ r.type \in Types /\ r.labels = q.labels
             /\ Asked(r) \in Seq(Nat) /\ Len(Asked(r)) \in Nat
  <2>1. r.type = t /\ r.labels = q.labels /\ r.compressed = 1
    BY <1>2 DEF Question
  <2>2. Asked(r) = Pair(192, 12) \o n16(t) \o n16(1)
    <3>1. n16(192 * 256 + HeaderLen) = Pair(192, 12)
      BY Numbers
    <3> QED BY <2>1, <3>1, Zenon DEF Asked
  <2>3. PICK E, a : E = Pair(192, 12) /\ a = 2
    OBVIOUS
  <2>4. E \in Seq(Nat) /\ Len(E) = a /\ a \in Nat
    BY <2>3, PairIs
  <2>5. E \o n16(t) \o n16(1) \in Seq(Nat) /\ Len(E \o n16(t) \o n16(1)) = a + 4
    BY <2>4, QuestionParts
  <2>6. PICK w : w = E \o n16(t) \o n16(1)
    OBVIOUS
  <2>7. w \in Seq(Nat) /\ Len(w) \in Nat
    BY <2>3, <2>5, <2>6
  <2> QED BY <2>1, <2>2, <2>3, <2>6, <2>7, Zenon
<1>3. CASE r \notin First
  <2>1. PICK t \in Types : r = Question(q.labels, t, 1)
    BY <1>3 DEF Seconds
  <2>2. /\ r.type \in Types /\ r.labels = q.labels
        /\ Asked(r) \in Seq(Nat) /\ Len(Asked(r)) \in Nat
    BY <1>2, <2>1
  <2> QED BY <2>2, FirstQuestionIs
<1> QED BY <1>1, <1>3

\* It is read with its name.
LEMMA SecondRead ==
  ASSUME NEW q \in First, NEW r \in Seconds(q), NEW packet, Holds(packet, 0, Encoded(q.labels)),
         NEW p \in Nat, Holds(packet, p, Asked(r))
  PROVE  \E x \in Nat : QuestionRead(packet, p, Encoded(r.labels), x, r.type)
<1>1. CASE r \in First
  <2>1. PICK n, type, a : n = r.labels /\ type = r.type /\ a = Len(Encoded(n))
    OBVIOUS
  <2>2. n \in Seq(Labels) /\ n # <<>> /\ type \in Types /\ a \in Nat
    BY <1>1, <2>1, FirstQuestionIs
  <2>3. Asked(r) = Encoded(n) \o n16(type) \o n16(1)
    BY <1>1, <2>1, AskedSpelled
  <2>4. Holds(packet, p, Encoded(n) \o n16(type) \o n16(1))
    BY <2>3
  <2>5. Len(Encoded(n)) = a
    BY <2>1
  <2>6. PICK x : x = p + a
    OBVIOUS
  <2>7. QuestionRead(packet, p, Encoded(n), x, type) /\ x \in Nat
    BY <2>2, <2>4, <2>5, <2>6, SpelledRead
  <2> QED BY <2>1, <2>7
<1>2. CASE r \notin First
  <2>1. PICK t \in Types : r = Question(q.labels, t, 1)
    BY <1>2 DEF Seconds
  <2>2. r.type = t /\ r.labels = q.labels /\ r.compressed = 1
    BY <2>1 DEF Question
  <2>3. Asked(r) = Pair(192, 12) \o n16(t) \o n16(1)
    <3>1. n16(192 * 256 + HeaderLen) = Pair(192, 12)
      BY Numbers
    <3> QED BY <2>2, <3>1, Zenon DEF Asked
  <2>4. PICK n : n = q.labels
    OBVIOUS
  <2>5. n \in Seq(Labels) /\ n # <<>>
    BY <2>4, FirstQuestionIs
  <2>6. Holds(packet, p, Pair(192, 12) \o n16(t) \o n16(1))
    BY <2>3
  <2>7. Holds(packet, 0, Encoded(n))
    BY <2>4
  <2>8. /\ strToLabel(labelToStr(packet, p).res) = Encoded(n) /\ labelToStr(packet, p).next = p + 2
        /\ TypeAt(packet, p + 2) = t /\ p + 2 \in Nat
    BY <2>5, <2>6, <2>7, PointerRead
  <2> QED BY <2>2, <2>4, <2>8 DEF QuestionRead
<1> QED BY <1>1, <1>2

\* A sequence that begins another one is held at its beginning, and one that
\* follows behind it.
LEMMA HeldInParts ==
  ASSUME NEW u \in Seq(Nat), NEW v \in Seq(Nat), NEW k \in Nat, Len(u) = k
  PROVE  Holds(u \o v, 0, u) /\ Holds(u \o v, k, v)
<1>1. PICK l \in Nat : l = Len(v)
  OBVIOUS
<1>2. Abuts(u \o v, u, k, v, l)
  BY <1>1, Joined
<1>3. PICK w : w = u \o v
  OBVIOUS
<1>4. w \in Seq(Nat) /\ Len(w) = k + l /\ (\A i \in 1 .. k : w[i] = u[i]) /\ \A i \in 1 .. l : w[k + i] = v[i]
  BY <1>2, <1>3 DEF Abuts
<1>5. Holds(w, 0, u)
  <2>1. \A j \in 1 .. k : 0 + j = j
    OBVIOUS
  <2>2. \A j \in 1 .. Len(u) : w[0 + j] = u[j]
    BY <1>4, <2>1
  <2>3. 0 \in Nat /\ 0 + Len(u) <= Len(w)
    BY <1>4
  <2> QED BY <1>4, <2>2, <2>3 DEF Holds
<1>6. Holds(w, k, v)
  <2>1. k + Len(v) <= Len(w)
    BY <1>1, <1>4
  <2> QED BY <1>1, <1>4, <2>1 DEF Holds
<1> QED BY <1>3, <1>5, <1>6

\* Two joins after each other.
LEMMA JoinAssociates ==
  ASSUME NEW u \in Seq(Nat), NEW v \in Seq(Nat), NEW w \in Seq(Nat)
  PROVE  (u \o v) \o w = u \o (v \o w)
BY ConcatAssociative

\* Both records are put behind what is there.
BothDone(t, y, packet, m, r, u, a, type, b, kind, K) ==
  \E k \in Nat, l \in Nat :
    /\ r \in Seq(Nat) /\ Len(r) = k /\ u \in Seq(Nat) /\ Len(u) = l
    /\ Turned(t, y + 4, (packet \o r) \o u, (m + k) + l,
              (0 + (IF type = MX THEN 0 ELSE 1)) + (IF kind = MX THEN 0 ELSE 1),
              ({} \cup LeftOpen(m, a, type)) \cup LeftOpen(m + k, b, kind), K)

\* The loop over two questions whose names are read.
LEMMA TwoTurns ==
  ASSUME NEW packet \in Seq(Nat), NEW m \in Nat, Len(packet) = m, NEW K \in Nat, NEW s,
         Turned(s, 0, packet, m, 0, {}, K),
         NEW E \in Seq(Nat), NEW a \in Nat, Len(E) = a, NEW x \in Nat, NEW type \in Types,
         QuestionRead(packet, 0, E, x, type),
         NEW F \in Seq(Nat), NEW b \in Nat, Len(F) = b, NEW y \in Nat, NEW kind \in Types,
         NEW p, p = x + 4, QuestionRead(packet, p, F, y, kind),
         NEW r \in Seq(Nat), r = Record(E, type, <<>>), NEW u \in Seq(Nat), u = Record(F, kind, <<>>), m + Len(r) + Len(u) <= K
  PROVE  BothDone(AllAnswered(packet, 2, s), y, packet, m, r, u, a, type, b, kind, K)
<1>1. PICK P, z, v : P = {} /\ z = 0 /\ v = Answered(packet, s)
  OBVIOUS
<1>2. Turned(s, z, packet, m, z, P, K) /\ z \in Nat
  BY <1>1
<1>3. /\ strToLabel(labelToStr(packet, z).res) = E /\ labelToStr(packet, z).next = x
      /\ TypeAt(packet, x) = type
  BY <1>1 DEF QuestionRead
<1>4. m + Len(Record(E, type, <<>>)) <= K
  <2>1. Len(r) \in Nat /\ Len(u) \in Nat
    OBVIOUS
  <2> QED BY <2>1
<1>5. QuestionDone(Answered(packet, s), x, packet, m, z, P, E, a, type, K)
  BY <1>2, <1>3, <1>4, QuestionAnswered
<1>6. PICK k \in Nat :
        /\ Len(r) = k /\ r \in Seq(Nat) /\ k <= a + 30
        /\ Turned(v, x + 4, packet \o r, m + k, z + (IF type = MX THEN 0 ELSE 1), P \cup LeftOpen(m, a, type), K)
  BY <1>1, <1>5, Zenon DEF QuestionDone
<1>7. PICK w, n, c, Q :
        /\ w = packet \o r /\ n = m + k /\ c = z + (IF type = MX THEN 0 ELSE 1)
        /\ Q = P \cup LeftOpen(m, a, type)
  OBVIOUS
<1>8. Turned(v, p, w, n, c, Q, K)
  BY <1>6, <1>7, Zenon
<1>9. p \in Nat /\ n \in Nat /\ c \in Nat
  BY <1>1, <1>7
<1>10. w \in Seq(Nat) /\ Len(w) = n
  <2>1. Abuts(packet \o r, packet, m, r, k)
    BY <1>6, Joined
  <2> QED BY <1>7, <2>1 DEF Abuts
<1>11. n + Len(Record(F, kind, <<>>)) <= K
  BY <1>6, <1>7
<1>12. /\ strToLabel(labelToStr(packet, p).res) = F /\ labelToStr(packet, p).next = y
       /\ TypeAt(packet, y) = kind
  BY DEF QuestionRead
<1>13. QuestionDone(Answered(packet, v), y, w, n, c, Q, F, b, kind, K)
  BY <1>8, <1>9, <1>10, <1>11, <1>12, QuestionAnswered
<1>14. PICK l \in Nat :
         /\ Len(u) = l /\ u \in Seq(Nat)
         /\ Turned(Answered(packet, v), y + 4, w \o u, n + l, c + (IF kind = MX THEN 0 ELSE 1), Q \cup LeftOpen(n, b, kind), K)
  BY <1>13, Zenon DEF QuestionDone
<1>15. AllAnswered(packet, 2, s) = Answered(packet, v)
  BY <1>1, TwoAnswered
<1>16. Turned(AllAnswered(packet, 2, s), y + 4, (packet \o r) \o u, (m + k) + l,
              (0 + (IF type = MX THEN 0 ELSE 1)) + (IF kind = MX THEN 0 ELSE 1),
              ({} \cup LeftOpen(m, a, type)) \cup LeftOpen(m + k, b, kind), K)
  BY <1>1, <1>7, <1>14, <1>15, Zenon
<1> QED BY <1>6, <1>14, <1>16 DEF BothDone

\* The loop has put the records r and u, of the names with a and b bytes, behind
\* the packet of a query for q and p.
BothPut(query, q, p, packet, m, r, k, u, l, a, b, t) ==
  /\ q \in First /\ p \in Seconds(q) /\ query.qs = <<q, p>>
  /\ packet \in Seq(Nat) /\ packet = Packet(query) /\ m \in Nat /\ Len(packet) = m
  /\ r \in Seq(Nat) /\ k \in Nat /\ Len(r) = k /\ r = Record(Encoded(q.labels), q.type, <<>>)
  /\ u \in Seq(Nat) /\ l \in Nat /\ Len(u) = l /\ u = Record(Encoded(p.labels), p.type, <<>>)
  /\ a \in Nat /\ a = Len(Encoded(q.labels)) /\ b \in Nat /\ b = Len(Encoded(p.labels))
  /\ \E x : Turned(t, x, (packet \o r) \o u, (m + k) + l,
                   (0 + (IF q.type = MX THEN 0 ELSE 1)) + (IF p.type = MX THEN 0 ELSE 1),
                   ({} \cup LeftOpen(m, a, q.type)) \cup LeftOpen(m + k, b, p.type), 500)

\* What the loop leaves for a query with two questions is a right reply.
LEMMA TwoRight ==
  ASSUME NEW query, NEW q, NEW p, NEW packet, NEW m, NEW r, NEW k, NEW u, NEW l, NEW a, NEW b, NEW t,
         BothPut(query, q, p, packet, m, r, k, u, l, a, b, t)
  PROVE  ReplyIn(query, t)
<1>14. PICK P, c, w, n :
         /\ P = ({} \cup LeftOpen(m, a, q.type)) \cup LeftOpen(m + k, b, p.type)
         /\ c = (0 + (IF q.type = MX THEN 0 ELSE 1)) + (IF p.type = MX THEN 0 ELSE 1)
         /\ w = (packet \o r) \o u /\ n = (m + k) + l
  OBVIOUS
<1>15. PICK x : Turned(t, x, w, n, c, P, 500)
  BY <1>14, Zenon DEF BothPut
<1>16. /\ q \in First /\ p \in Seconds(q) /\ query.qs = <<q, p>>
       /\ packet \in Seq(Nat) /\ packet = Packet(query) /\ m \in Nat /\ Len(packet) = m
       /\ r \in Seq(Nat) /\ k \in Nat /\ Len(r) = k /\ r = Record(Encoded(q.labels), q.type, <<>>)
       /\ u \in Seq(Nat) /\ l \in Nat /\ Len(u) = l /\ u = Record(Encoded(p.labels), p.type, <<>>)
       /\ a \in Nat /\ a = Len(Encoded(q.labels)) /\ b \in Nat /\ b = Len(Encoded(p.labels))
  BY Zenon DEF BothPut
<1> USE <1>16
<1>1. t.rend = m + k + l /\ t.count = c /\ Buffered(t.reply, w, n, P, 500) /\ n = (m + k) + l
  BY <1>14, <1>15 DEF Turned
<1>2. t.reply \in Seq(Nat) /\ Len(t.reply) <= 500 /\ t.rend \in 0 .. Len(t.reply) /\ t.count \in 0 .. 2
  <2>1. c = 0 \/ c = 1 \/ c = 2
    BY <1>14
  <2>2. t.reply \in Seq(Nat) /\ (m + k) + l <= Len(t.reply) /\ Len(t.reply) <= 500
    BY <1>1 DEF Buffered
  <2> QED BY <1>1, <2>1, <2>2
<1>3. c = Cardinality(Known(query))
  <2>1. Cardinality(Known(query)) = (IF q.type = MX THEN 0 ELSE 1) + (IF p.type = MX THEN 0 ELSE 1)
    BY KnownTwo
  <2> QED BY <1>14, <2>1
<1>4. /\ FlattenSeq(Answers(query)) = r \o u
      /\ PlaceOf(query, 1) = Len(packet) + 0 /\ PlaceOf(query, 2) = Len(packet) + Len(r)
  BY AnswersTwo
<1>5. Sections(query) = (packet \o r) \o u
  <2>1. Sections(query) = packet \o (r \o u)
    BY <1>4, Zenon DEF Sections
  <2>2. (packet \o r) \o u = packet \o (r \o u)
    BY JoinAssociates
  <2> QED BY <2>1, <2>2
<1>6. Len(Sections(query)) = (m + k) + l
  <2>1. Abuts(packet \o r, packet, m, r, k)
    BY Joined
  <2>2. PICK v, i : v = packet \o r /\ i = m + k
    OBVIOUS
  <2>3. v \in Seq(Nat) /\ Len(v) = i /\ i \in Nat
    BY <2>1, <2>2 DEF Abuts
  <2>4. Abuts(v \o u, v, i, u, l)
    BY <2>3, Joined
  <2>5. Len(v \o u) = i + l
    BY <2>4 DEF Abuts
  <2> QED BY <1>5, <2>2, <2>5
<1>7. query.qs[1] = q /\ query.qs[2] = p
  OBVIOUS
<1>8. LeftOpen(m, a, q.type) \subseteq TtlPlaces(query)
  <2>1. CASE q.type = MX
    BY <2>1 DEF LeftOpen
  <2>2. CASE q.type # MX
    <3>1. 1 \in Known(query)
      BY <2>2, KnownTwo
    <3>2. PlaceOf(query, 1) = m
      BY <1>4
    <3>3. Len(Encoded(query.qs[1].labels)) = a
      BY <1>7, Zenon
    <3>4. Four(m + a + 4) \subseteq TtlPlaces(query)
      BY <3>1, <3>2, <3>3, InPlaces
    <3> QED BY <2>2, <3>4 DEF LeftOpen
  <2> QED BY <2>1, <2>2
<1>9. LeftOpen(m + k, b, p.type) \subseteq TtlPlaces(query)
  <2>1. CASE p.type = MX
    BY <2>1 DEF LeftOpen
  <2>2. CASE p.type # MX
    <3>1. 2 \in Known(query)
      BY <2>2, KnownTwo
    <3>2. PlaceOf(query, 2) = m + k
      BY <1>4
    <3>3. Len(Encoded(query.qs[2].labels)) = b
      BY <1>7, Zenon
    <3>4. Four(m + k + b + 4) \subseteq TtlPlaces(query)
      BY <3>1, <3>2, <3>3, InPlaces
    <3> QED BY <2>2, <3>4 DEF LeftOpen
  <2> QED BY <2>1, <2>2
<1>10. P \subseteq TtlPlaces(query)
  BY <1>8, <1>9, <1>14
<1>12. \A i \in 1 .. n : t.reply[i] = w[i] \/ i \in TtlPlaces(query)
  BY <1>1, <1>10 DEF Buffered
<1>13. RightReply(query, t.rend, t.count, t.reply)
  <2>1. t.rend = n /\ n = Len(Sections(query)) /\ Sections(query) = w
    BY <1>1, <1>5, <1>6, <1>14
  <2> QED BY <1>1, <1>3, <1>12, <2>1, Zenon DEF RightReply
<1> QED BY <1>2, <1>13 DEF ReplyIn

\* The reply to a query with two questions.
LEMMA RepliesTwo ==
  ASSUME NEW query, NEW q \in First, NEW p \in Seconds(q), query.qs = <<q, p>>, Len(Sections(query)) <= 500,
         NEW reply \in Seq(Nat), Len(reply) <= 500, NEW packet, packet = Packet(query)
  PROVE  ReplyIn(query, AllAnswered(packet, 2,
           [p |-> 0, rend |-> Len(packet), count |-> 0, reply |-> packet \o SubSeq(reply, Len(packet) + 1, Len(reply))]))
<1>1. PICK a \in Nat, E \in Seq(Nat) : a = Len(E) /\ E = Encoded(q.labels)
  BY FirstQuestionIs
<1>2. PICK b \in Nat, F \in Seq(Nat) : b = Len(F) /\ F = Encoded(p.labels)
  BY SecondIs
<1>3. PICK h \in Seq(Nat) : h = Asked(q) /\ h = E \o n16(q.type) \o n16(1) /\ Len(h) = a + 4
  BY <1>1, AskedSpelled
<1>24. PICK z \in Seq(Nat), e \in Seq(Nat) : z = Asked(p) /\ e = Tail1(query)
  BY SecondIs, TailIs
<1>4. PICK v \in Seq(Nat), n \in Nat : v = z \o e /\ n = Len(v)
  <2>1. z \o e \in Seq(Nat) /\ Len(z \o e) \in Nat
    BY ConcatProperties
  <2> QED BY <2>1
<1>5. packet = h \o v
  <2>1. FlattenSeq(AskedAll(query)) = h \o z
    BY <1>3, <1>24, AskedTwo
  <2>2. Packet(query) = (h \o z) \o e
    BY <1>24, <2>1, PacketIs, Zenon
  <2> QED BY <1>4, <2>2, JoinAssociates
<1>6. PICK g \in Nat : g = a + 4
  OBVIOUS
<1>7. Holds(packet, 0, h) /\ Holds(packet, g, v)
  BY <1>3, <1>5, <1>6, HeldInParts
<1>8. Abuts(packet, h, g, v, n)
  BY <1>3, <1>4, <1>5, <1>6, Joined
<1>9. PICK m \in Nat : m = Len(packet) /\ m = g + n /\ packet \in Seq(Nat)
  BY <1>8 DEF Abuts
<1>10. PICK s : s = [p |-> 0, rend |-> Len(packet), count |-> 0,
                     reply |-> packet \o SubSeq(reply, Len(packet) + 1, Len(reply))]
  OBVIOUS
<1>25. PICK r \in Seq(Nat), u \in Seq(Nat) : r = Record(E, q.type, <<>>) /\ u = Record(F, p.type, <<>>)
  <2>1. PICK type \in Types, kind \in Types : type = q.type /\ kind = p.type
    BY FirstQuestionIs, SecondIs
  <2> QED BY <2>1, RecordTyped
<1>26. m + Len(r) + Len(u) <= 500
  <2>1. FlattenSeq(Answers(query)) = r \o u
    BY <1>1, <1>2, <1>25, AnswersTwo
  <2>2. Sections(query) = packet \o (r \o u)
    BY <2>1, Zenon DEF Sections
  <2>3. r \o u \in Seq(Nat) /\ Len(r \o u) = Len(r) + Len(u)
    BY ConcatProperties
  <2>4. PICK w \in Seq(Nat) : w = r \o u
    BY <2>3
  <2>5. Len(packet \o w) = Len(packet) + Len(w)
    BY <1>9, ConcatProperties
  <2>6. PICK i \in Nat, k \in Nat, l \in Nat : i = Len(w) /\ k = Len(r) /\ l = Len(u)
    OBVIOUS
  <2>7. i = k + l /\ m + i <= 500
    BY <1>9, <2>2, <2>3, <2>4, <2>5, <2>6
  <2> QED BY <2>6, <2>7
<1>11. PICK K \in Nat : K = 500 /\ m <= K /\ Len(reply) <= K /\ m + Len(r) + Len(u) <= K
  <2>1. Len(r) \in Nat /\ Len(u) \in Nat
    OBVIOUS
  <2> QED BY <1>26, <2>1
<1>12. Turned(s, 0, packet, m, 0, {}, K)
  BY <1>9, <1>10, <1>11, Copied
<1>13. PICK type, kind : type = q.type /\ kind = p.type
  OBVIOUS
<1>14. type \in Types /\ kind \in Types
  BY <1>13, FirstQuestionIs, SecondIs
<1>15. QuestionRead(packet, 0, E, a, type) /\ Holds(packet, 0, E)
  <2>1. PICK lab : lab = q.labels
    OBVIOUS
  <2>2. lab \in Seq(Labels) /\ lab # <<>>
    BY <2>1, FirstQuestionIs
  <2>3. Holds(packet, 0, Encoded(lab) \o n16(type) \o n16(1))
    BY <1>1, <1>3, <1>7, <1>13, <2>1
  <2>4. Len(Encoded(lab)) = a
    BY <1>1, <2>1
  <2>5. a = 0 + a
    OBVIOUS
  <2>6. QuestionRead(packet, 0, Encoded(lab), a, type) /\ Holds(packet, 0, Encoded(lab))
    BY <1>14, <2>2, <2>3, <2>4, <2>5, SpelledRead
  <2> QED BY <1>1, <2>1, <2>6
<1>16. PICK y \in Nat : QuestionRead(packet, g, F, y, kind)
  <2>3. Holds(packet, g, z)
    BY <1>4, <1>7, HoldsParts
  <2>1. Holds(packet, 0, Encoded(q.labels)) /\ Holds(packet, g, Asked(p))
    BY <1>1, <1>15, <1>24, <2>3
  <2>2. \E y \in Nat : QuestionRead(packet, g, Encoded(p.labels), y, p.type)
    BY <2>1, SecondRead
  <2> QED BY <1>2, <1>13, <2>2, Zenon
<1>17. r = Record(E, type, <<>>) /\ u = Record(F, kind, <<>>)
  BY <1>13, <1>25
<1>18. PICK k \in Nat, l \in Nat :
         /\ r \in Seq(Nat) /\ Len(r) = k /\ u \in Seq(Nat) /\ Len(u) = l
         /\ Turned(AllAnswered(packet, 2, s), y + 4, (packet \o r) \o u, (m + k) + l,
                   (0 + (IF type = MX THEN 0 ELSE 1)) + (IF kind = MX THEN 0 ELSE 1),
                   ({} \cup LeftOpen(m, a, type)) \cup LeftOpen(m + k, b, kind), K)
  <2>1. BothDone(AllAnswered(packet, 2, s), y, packet, m, r, u, a, type, b, kind, K)
    <3>1. packet \in Seq(Nat) /\ Len(packet) = m /\ Len(E) = a /\ Len(F) = b
      BY <1>1, <1>2, <1>9
    <3>2. QuestionRead(packet, 0, E, a, type) /\ g = a + 4 /\ m + Len(r) + Len(u) <= K
      BY <1>6, <1>11, <1>15
    <3> QED BY <1>12, <1>14, <1>16, <1>17, <3>1, <3>2, TwoTurns, Zenon
  <2> QED BY <2>1, Zenon DEF BothDone
<1>19. PICK t, x, c, P :
         /\ t = AllAnswered(packet, 2, s) /\ x = y + 4
         /\ c = (0 + (IF q.type = MX THEN 0 ELSE 1)) + (IF p.type = MX THEN 0 ELSE 1)
         /\ P = ({} \cup LeftOpen(m, a, q.type)) \cup LeftOpen(m + k, b, p.type)
  OBVIOUS
<1>20. Turned(t, x, (packet \o r) \o u, (m + k) + l, c, P, 500)
  BY <1>11, <1>13, <1>18, <1>19, Zenon
<1>21. r = Record(Encoded(q.labels), q.type, <<>>) /\ u = Record(Encoded(p.labels), p.type, <<>>)
  BY <1>1, <1>2, <1>13, <1>17, Zenon
<1>22. ReplyIn(query, t)
  <2>1. \E o : Turned(t, o, (packet \o r) \o u, (m + k) + l,
                      (0 + (IF q.type = MX THEN 0 ELSE 1)) + (IF p.type = MX THEN 0 ELSE 1),
                      ({} \cup LeftOpen(m, a, q.type)) \cup LeftOpen(m + k, b, p.type), 500)
    BY <1>19, <1>20, Zenon
  <2>2. a = Len(Encoded(q.labels)) /\ b = Len(Encoded(p.labels)) /\ Len(packet) = m
    BY <1>1, <1>2, <1>9
  <2>3. BothPut(query, q, p, packet, m, r, k, u, l, a, b, t)
    BY <1>9, <1>18, <1>21, <2>1, <2>2, Zenon DEF BothPut
  <2> QED BY <2>3, TwoRight
<1> QED BY <1>10, <1>19, <1>22

\* The queries that are answered.
LEMMA QueryIs ==
  ASSUME NEW query \in Queries, query.dropped # 1
  PROVE  /\ Len(Sections(query)) <= 500
         /\ \/ \E q \in First : query.qs = <<q>>
            \/ \E q \in First : \E p \in Seconds(q) : query.qs = <<q, p>>
<1> DEFINE Q1 == { <<q>> : q \in First }
           Q2(q) == { <<q, r>> : r \in Seconds(q) }
           Q3 == UNION { Q2(q) : q \in First }
           S1 == [qs : Q1 \cup Q3, additional : Additional, dropped : {0}]
           S2 == [qs : Q1, additional : {0}, dropped : {1}]
<1>1. Queries = { k \in S1 : HasReplyRoom(k) } \cup S2
  BY Zenon DEF Queries
<1>2. query \notin S2
  BY DEF S2
<1>3. query \in S1 /\ HasReplyRoom(query)
  <2> HIDE DEF S1, S2
  <2> QED BY <1>1, <1>2
<1>4. query.qs \in Q1 \cup Q3
  <2> HIDE DEF Q1, Q3
  <2> QED BY <1>3
<1>5. Len(Sections(query)) <= 500
  BY <1>3 DEF HasReplyRoom, DnsLen, HeaderLen
<1>6. CASE query.qs \in Q1
  BY <1>5, <1>6, Zenon
<1>7. CASE query.qs \in Q3
  <2>1. PICK q \in First : query.qs \in Q2(q)
    BY <1>7
  <2>2. \E r \in Seconds(q) : query.qs = <<q, r>>
    BY <2>1
  <2> QED BY <1>5, <2>2, Zenon
<1> QED BY <1>4, <1>6, <1>7

\* Every query that is not dropped gets a right reply.
LEMMA Replied ==
  ASSUME NEW query \in Queries, query.dropped # 1, NEW reply \in Seq(Nat), Len(reply) <= 500,
         NEW packet, packet = Packet(query)
  PROVE  ReplyIn(query, AllAnswered(packet, Len(query.qs),
           [p |-> 0, rend |-> Len(packet), count |-> 0, reply |-> packet \o SubSeq(reply, Len(packet) + 1, Len(reply))]))
<1>1. PICK s : s = [p |-> 0, rend |-> Len(packet), count |-> 0,
                    reply |-> packet \o SubSeq(reply, Len(packet) + 1, Len(reply))]
  OBVIOUS
<1>2. CASE \E q \in First : query.qs = <<q>>
  <2>1. PICK q \in First : query.qs = <<q>>
    BY <1>2
  <2>2. Len(query.qs) = 1
    BY <2>1
  <2>3. ReplyIn(query, AllAnswered(packet, 1, s))
    BY <1>1, <2>1, QueryIs, RepliesOne
  <2> QED BY <1>1, <2>2, <2>3, Zenon
<1>3. CASE \E q \in First : \E p \in Seconds(q) : query.qs = <<q, p>>
  <2>4. PICK q \in First : \E p \in Seconds(q) : query.qs = <<q, p>>
    BY <1>3
  <2>1. PICK p \in Seconds(q) : query.qs = <<q, p>>
    BY <2>4
  <2>2. Len(query.qs) = 2
    BY <2>1
  <2>3. ReplyIn(query, AllAnswered(packet, 2, s))
    BY <1>1, <2>1, QueryIs, RepliesTwo
  <2> QED BY <1>1, <2>2, <2>3, Zenon
<1> QED BY <1>2, <1>3, QueryIs

\* The buffer's type, with what the replies are.
DnsInv == dreply \in Seq(Nat) /\ DnsTypeOK /\ ReplyExact

\* ReplyExact is about the last query.
LEMMA ReplyExactIs ==
  ReplyExact <=> (dsent >= 0 => RightReply(dquery, dsent, dcount, dreply))
BY Zenon DEF ReplyExact, RightReply

\* At first nothing was sent.
LEMMA DnsBegins == DnsInit => DnsInv
<1> SUFFICES ASSUME DnsInit
             PROVE  DnsInv
  OBVIOUS
<1>1. dreply = <<>> /\ dsent = -1 /\ dcount = 0 /\ drounds = 0 /\ dquery = NoQuery
  BY DEF DnsInit
<1>2. ReplyExact
  <2>1. ~ (dsent >= 0)
    BY <1>1
  <2> QED BY <2>1, ReplyExactIs
<1>3. dreply \in Seq(Nat) /\ Len(dreply) = 0
  BY <1>1
<1>4. DnsTypeOK
  <2>1. dquery \in Queries \cup {NoQuery}
    BY <1>1, Zenon
  <2>2. drounds \in 0 .. MaxQueries
    BY <1>1, CaptDnsAssumption
  <2>3. dcount \in 0 .. 2 /\ dsent \in -1 .. Len(dreply) /\ Len(dreply) <= DnsLen - HeaderLen
    BY <1>1, <1>3 DEF DnsLen, HeaderLen
  <2> QED BY <2>1, <2>2, <2>3 DEF DnsTypeOK
<1> QED BY <1>2, <1>3, <1>4 DEF DnsInv

\* A query keeps them right.
LEMMA DnsGoesOn == DnsInv /\ [DnsNext]_dnsVars => DnsInv'
<1> SUFFICES ASSUME DnsInv, [DnsNext]_dnsVars
             PROVE  DnsInv'
  OBVIOUS
<1>1. dreply \in Seq(Nat) /\ Len(dreply) <= 500 /\ drounds \in 0 .. MaxQueries
  BY DEF DnsInv, DnsTypeOK, DnsLen, HeaderLen
<1>2. ASSUME NEW query \in Queries, captdnsRecv(query)
      PROVE  DnsInv'
  <2>1. drounds' \in 0 .. MaxQueries /\ dquery' = query /\ dquery' \in Queries \cup {NoQuery}
    BY <1>1, <1>2, CaptDnsAssumption DEF captdnsRecv
  <2>2. CASE query.dropped = 1
    <3>1. dsent' = -1 /\ dcount' = 0 /\ dreply' = dreply
      BY <1>2, <2>2 DEF captdnsRecv
    <3>2. ReplyExact'
      <4>1. ~ (dsent' >= 0)
        BY <3>1
      <4>2. ReplyExact' <=> (dsent' >= 0 => RightReply(dquery', dsent', dcount', dreply'))
        BY Zenon DEF ReplyExact, RightReply
      <4> QED BY <4>1, <4>2
    <3>3. DnsTypeOK'
      <4>1. dcount' \in 0 .. 2 /\ dsent' \in -1 .. Len(dreply') /\ Len(dreply') <= DnsLen - HeaderLen
        BY <1>1, <3>1 DEF DnsLen, HeaderLen
      <4> QED BY <2>1, <4>1 DEF DnsTypeOK
    <3> QED BY <1>1, <3>1, <3>2, <3>3 DEF DnsInv
  <2>3. CASE query.dropped # 1
    <3>1. PICK packet, s : packet = Packet(query) /\ s = AllAnswered(packet, Len(query.qs),
                             [p |-> 0, rend |-> Len(packet), count |-> 0,
                              reply |-> packet \o SubSeq(dreply, Len(packet) + 1, Len(dreply))])
      OBVIOUS
    <3>2. dreply' = s.reply /\ dsent' = s.rend /\ dcount' = s.count
      BY <1>2, <2>3, <3>1, Zenon DEF captdnsRecv
    <3>3. ReplyIn(query, s)
      BY <1>1, <2>3, <3>1, Replied
    <3>4. /\ dreply' \in Seq(Nat) /\ Len(dreply') <= 500 /\ dsent' \in 0 .. Len(dreply') /\ dcount' \in 0 .. 2
          /\ RightReply(query, dsent', dcount', dreply')
      BY <3>2, <3>3, Zenon DEF ReplyIn
    <3>5. ReplyExact'
      <4>1. ReplyExact' <=> (dsent' >= 0 => RightReply(dquery', dsent', dcount', dreply'))
        BY Zenon DEF ReplyExact, RightReply
      <4> QED BY <2>1, <3>4, <4>1, Zenon
    <3>6. DnsTypeOK'
      <4>1. dsent' \in -1 .. Len(dreply') /\ Len(dreply') <= DnsLen - HeaderLen
        BY <3>4 DEF DnsLen, HeaderLen
      <4> QED BY <2>1, <3>4, <4>1 DEF DnsTypeOK
    <3> QED BY <3>4, <3>5, <3>6 DEF DnsInv
  <2> QED BY <2>2, <2>3
<1>3. CASE UNCHANGED dnsVars
  BY <1>3, Zenon DEF dnsVars, DnsInv, DnsTypeOK, ReplyExact
<1> QED BY <1>2, <1>3 DEF DnsNext

\* captdnsRecv, for queries with one or two questions whose names and labels are
\* of any length as long as the reply has room, with or without an additional
\* record: what is sent answers each question that the server knows, in order
\* and under its own name, and nothing else.
THEOREM RepliesRight == DnsSpec => []ReplyExact
<1>1. DnsInv => ReplyExact
  BY DEF DnsInv
<1> QED BY <1>1, DnsBegins, DnsGoesOn, PTL DEF DnsSpec

-----------------------------------------------------------------------------
(* What a call on a text writes fits its buffer.                           *)

\* What a call returns and writes is in its range.
Fits(r, c) ==
  /\ r.ok \in IF c.fn = "find" THEN -2 .. c.room ELSE {-2, 0, 1}
  /\ Len(r.out) <= RoomFor(c)

\* httpdUrlDecode leaves room for its terminator.
LEMMA DecodeFits ==
  ASSUME xcall \in Calls, xcall.fn = "decode", NEW r, r = Result(xcall)
  PROVE  Fits(r, xcall)
<1>1. r = httpdUrlDecode(xcall.in, xcall.room)
  BY DEF Result
<1>2. xcall.in \in ByteTexts /\ xcall.room \in Nat \ {0}
  BY CallsTyped
<1>3. PICK full : full \in ByteTexts /\ r.out = Fitting(full, xcall.room - 1)
  <2>1. PICK full : full = Plainly(xcall.in)
    OBVIOUS
  <2>2. full \in ByteTexts /\ r.out = SubSeq(full, 1, Min2(Len(full), xcall.room - 1))
    BY <1>1, <1>2, <2>1, DecodeGivesPlainly
  <2> QED BY <2>2 DEF Fitting
<1>4. xcall.room - 1 \in Nat /\ Len(full) \in Nat
  BY <1>2, <1>3 DEF ByteTexts
<1>5. Len(r.out) = Min2(Len(full), xcall.room - 1)
  BY <1>3, <1>4, FittingIs DEF ByteTexts
<1>6. Len(r.out) <= xcall.room - 1
  BY <1>4, <1>5 DEF Min2
<1>7. r.ok \in 0 .. 1
  <2>1. PICK m, out : r = [ok |-> IF m = Len(xcall.in) THEN 1 ELSE 0, out |-> out]
    BY <1>1, Zenon DEF httpdUrlDecode
  <2> QED BY <2>1
<1> QED BY <1>2, <1>6, <1>7 DEF Fits, RoomFor

\* The value of an argument fits, and is counted with its terminator.
LEMMA ArgAnswerFits ==
  ASSUME NEW line \in ArgLines, NEW arg \in ArgLines, NEW k \in 1 .. Len(line), ArgHit(line, arg, k), NEW room \in Nat \ {0},
         NEW r, r = ArgAnswer(line, arg, k, room)
  PROVE  Len(r.out) \in Nat /\ Len(r.out) <= room - 1 /\ r.ok = Len(r.out) + 1
<1>1. Len(line) \in Nat /\ k + Len(arg) + 1 \in Nat /\ k + Len(arg) + 1 <= Len(line) + 1
  BY DEF ArgLines, ArgHit
<1>2. ArgEnd(line, k + Len(arg) + 1) - 1 \in Int /\ ArgEnd(line, k + Len(arg) + 1) - 1 <= Len(line)
  BY <1>1, NextAmpersandIs DEF ArgEnd
<1> DEFINE v == SubSeq(line, k + Len(arg) + 1, ArgEnd(line, k + Len(arg) + 1) - 1)
           o == httpdUrlDecode(v, room).out
           full == Plainly(v)
<1>3. v \in ByteTexts
  BY <1>1, <1>2, ArgLinesAre
<1> HIDE DEF v
<1>4. full \in ByteTexts /\ o = Fitting(full, room - 1)
  BY <1>3, DecodeGivesPlainly DEF Fitting
<1>5. r = [ok |-> Len(o) + 1, out |-> o]
  BY DEF ArgAnswer, v
<1> HIDE DEF o, full
<1>6. full \in Seq(Nat) /\ room - 1 \in Nat /\ Len(full) \in Nat
  BY <1>4 DEF ByteTexts
<1>7. Len(o) = Min2(Len(full), room - 1)
  BY <1>4, <1>6, FittingIs
<1>8. Len(o) \in Nat /\ Len(o) <= room - 1
  BY <1>6, <1>7 DEF Min2
<1> QED BY <1>5, <1>8

\* httpdFindArg answers in its buffer, or none.
LEMMA FindFits ==
  ASSUME xcall \in Calls, xcall.fn = "find", NEW r, r = Result(xcall)
  PROVE  Fits(r, xcall)
<1>1. r = httpdFindArg(xcall.in, xcall.arg, xcall.room)
  BY DEF Result
<1>2. xcall.in \in ArgLines /\ xcall.arg \in ArgLines /\ xcall.room \in Nat \ {0}
  BY ArgCallsOf
<1>3. PICK F : FindRun(F, xcall.in, xcall.arg, xcall.room)
  BY <1>2, FindRuns
<1>4. FoundFrom(xcall.in, xcall.arg, 1, xcall.room, r)
  <2>1. r = F[1]
    BY <1>1, <1>3 DEF FindRun
  <2> QED BY <1>2, <1>3, <2>1, FindFinds
<1>5. CASE NoneFoundFrom(xcall.in, xcall.arg, 1, r)
  <2>1. r.ok = -1 /\ r.out = <<>> /\ Len(r.out) = 0
    BY <1>5 DEF NoneFoundFrom, NoArg
  <2> QED BY <1>2, <2>1 DEF Fits, RoomFor
<1>6. ASSUME NEW k \in ArgStarts(xcall.in), ArgFoundAt(xcall.in, xcall.arg, 1, xcall.room, k, r)
      PROVE  Fits(r, xcall)
  <2>1. k \in 1 .. Len(xcall.in) /\ ArgHit(xcall.in, xcall.arg, k) /\ r = ArgAnswer(xcall.in, xcall.arg, k, xcall.room)
    BY <1>6 DEF ArgFoundAt, ArgStarts
  <2>2. Len(r.out) \in Nat /\ Len(r.out) <= xcall.room - 1 /\ r.ok = Len(r.out) + 1
    BY <1>2, <2>1, ArgAnswerFits
  <2>12. r.ok \in -2 .. xcall.room
    BY <1>2, <2>2
  <2>13. RoomFor(xcall) = xcall.room - 1
    BY <1>2 DEF RoomFor
  <2> QED BY <2>2, <2>12, <2>13 DEF Fits
<1> QED BY <1>4, <1>5, <1>6 DEF FoundFrom

\* httpdGetHeader joins in its buffer.
LEMMA HeaderFits ==
  ASSUME xcall \in Calls, xcall.fn = "header", NEW r, r = Result(xcall)
  PROVE  Fits(r, xcall)
<1> DEFINE N == STRING
           vals == HeaderValues(xcall.in, "Cookie")
<1>1. r = httpdGetHeader(xcall.in, "Cookie", xcall.room)
  BY DEF Result
<1>2. xcall.in \in HeaderLines(N) /\ xcall.room \in Nat \ {0}
  BY HeaderCallsOf
<1>3. r.ok \in 0 .. 1 /\ r.out = Fitting(FlattenSeq(vals), xcall.room - 1)
  BY <1>1, <1>2, HeaderGivesJoined
<1>4. vals \in Seq(Seq(Nat))
  <2>1. DOMAIN xcall.in = 1 .. Len(xcall.in) /\ Len(xcall.in) \in Nat /\ \A k \in 1 .. Len(xcall.in) : xcall.in[k][2] \in Seq(Nat)
    BY <1>2 DEF HeaderLines, ByteTexts
  <2>2. <<>> \in Seq(Nat)
    OBVIOUS
  <2> QED BY <2>1, <2>2 DEF HeaderValues
<1> HIDE DEF vals, N
<1>5. FlattenSeq(vals) \in Seq(Nat) /\ xcall.room - 1 \in Nat
  <2>1. Len(vals) \in 0 .. Len(vals)
    BY <1>4
  <2>2. PICK f \in [0 .. Len(vals) -> Seq(Nat)] : FlattenSeq(vals) = f[Len(vals)]
    BY <1>4, FlattenIs
  <2> QED BY <1>2, <2>1, <2>2
<1>6. Len(r.out) <= xcall.room - 1
  <2>1. Len(r.out) = Min2(Len(FlattenSeq(vals)), xcall.room - 1)
    BY <1>3, <1>5, FittingIs
  <2> QED BY <1>5, <2>1 DEF Min2
<1> QED BY <1>2, <1>3, <1>6 DEF Fits, RoomFor

\* httpdSend_html and httpdSend_js send no more parts than there are characters.
LEMMA EscapeFits ==
  ASSUME xcall \in Calls, xcall.fn \in {"html", "js"}, NEW r, r = Result(xcall)
  PROVE  Fits(r, xcall)
<1>1. r = httpdSend_escaped(xcall.fn, xcall.in, xcall.room)
  BY DEF Result
<1>2. xcall.in \in ByteTexts
  BY EscapeCallsOf
<1>3. r.ok \in 0 .. 1 /\ Len(r.out) <= Len(xcall.in)
  BY <1>1, <1>2, EscapeGives
<1> QED BY <1>3 DEF Fits, RoomFor

\* libesphttpd_base64_decode writes no more than its buffer holds.
LEMMA Decode64Fits ==
  ASSUME xcall \in Calls, xcall.fn = "decode64", NEW r, r = Result(xcall)
  PROVE  Fits(r, xcall)
<1>1. r = libesphttpd_base64_decode(xcall.in, xcall.room)
  BY DEF Result
<1>2. xcall.in \in Seq(Symbols64) /\ xcall.room \in Nat
  BY CallsOf64
<1>3. PICK size \in Nat : IF size > xcall.room THEN r.ok = 0 ELSE r.ok = 1 /\ Len(r.out) = size
  <2>1. IsFiniteSet(DigitsUpTo(xcall.in, Len(xcall.in)))
    <3>1. IsFiniteSet(1 .. Len(xcall.in))
      BY <1>2, FS_Interval
    <3>2. DigitsUpTo(xcall.in, Len(xcall.in)) \subseteq 1 .. Len(xcall.in)
      BY DEF DigitsUpTo
    <3> QED BY <3>1, <3>2, FS_Subset
  <2>2. Cardinality(DigitsUpTo(xcall.in, Len(xcall.in))) \in Nat
    BY <2>1, FS_CardinalityType
  <2>3. PICK c \in Nat : c = Cardinality(DigitsUpTo(xcall.in, Len(xcall.in)))
    BY <2>2
  <2>4. (6 * c) \div 8 \in Nat
    OBVIOUS
  <2>5. DecodedRight(r, xcall.in, xcall.room)
    BY <1>1, <1>2, DecodesRight
  <2> QED BY <2>3, <2>4, <2>5 DEF DecodedRight
<1>4. r.ok = 0 => Len(r.out) = 0
  <2>1. PICK s : r = [ok |-> s.ok, out |-> IF s.ok = 1 THEN s.out ELSE <<>>]
    BY <1>1, Zenon DEF libesphttpd_base64_decode
  <2> QED BY <2>1
<1> QED BY <1>2, <1>3, <1>4 DEF Fits, RoomFor

\* libesphttpd_base64_encode leaves room for its terminator.
LEMMA Encode64Fits ==
  ASSUME xcall \in Calls, xcall.fn = "encode64", NEW r, r = Result(xcall)
  PROVE  Fits(r, xcall)
<1>1. r = libesphttpd_base64_encode(xcall.in, xcall.room)
  BY DEF Result
<1>2. xcall.in \in Seq(Octets) /\ xcall.room \in Nat
  BY CallsOf64
<1>3. PICK size \in Nat : r.ok = (IF xcall.room > size THEN 1 ELSE 0) /\ (r.ok = 1 => Len(r.out) = size)
  <2>1. PICK n \in Nat : n = Len(xcall.in)
    BY <1>2
  <2>2. 4 * ((n + 2) \div 3) \in Nat
    OBVIOUS
  <2>3. EncodedRight(r, xcall.in, xcall.room)
    BY <1>1, <1>2, EncodesRight
  <2> QED BY <2>1, <2>2, <2>3 DEF EncodedRight
<1>4. r.ok = 0 => Len(r.out) = 0
  <2>1. PICK ok, out : r = [ok |-> ok, out |-> IF ok = 1 THEN out ELSE <<>>]
    BY <1>1, Zenon DEF libesphttpd_base64_encode
  <2> QED BY <2>1
<1> QED BY <1>2, <1>3, <1>4 DEF Fits, RoomFor

\* All calls together.
LEMMA CallsFit == DecodedInv => TextTypeOK
<1> SUFFICES ASSUME DecodedInv PROVE TextTypeOK
  OBVIOUS
<1>1. xcall \in Calls
  BY DEF DecodedInv
<1>2. xcall.fn \in {"decode", "find", "header", "html", "js", "decode64", "encode64"} /\ xcall.room \in Nat
  BY <1>1, CallsTyped
<1>3. xresult = Result(xcall) => Fits(xresult, xcall)
  BY <1>1, <1>2, DecodeFits, FindFits, HeaderFits, EscapeFits, Decode64Fits, Encode64Fits
<1>4. xresult = NoResult => Fits(xresult, xcall)
  <2> SUFFICES ASSUME xresult = NoResult PROVE Fits(xresult, xcall)
    OBVIOUS
  <2>1. xresult.ok = -2 /\ Len(xresult.out) = 0
    BY DEF NoResult
  <2>2. 0 <= RoomFor(xcall)
    <3>1. xcall.room \in Nat
      BY <1>2
    <3>2. xcall.fn \in {"html", "js"} => Len(xcall.in) \in Nat
      BY <1>1, EscapeCallsOf DEF ByteTexts
    <3> QED BY <3>1, <3>2 DEF RoomFor
  <2> QED BY <1>2, <2>1, <2>2 DEF Fits
<1> QED BY <1>1, <1>3, <1>4 DEF DecodedInv, TextTypeOK, Fits

\* A call on a text never writes behind the buffer that it was given, whose
\* terminator has room too: httpdUrlDecode, httpdFindArg, httpdGetHeader and
\* base64, for any texts, names and sizes of buffer.
THEOREM ResultsFit == TextSpec => []TextTypeOK
<1>1. TextInit => DecodedInv
  BY DEF TextInit, DecodedInv
<1>2. DecodedInv /\ [TextNext]_textVars => DecodedInv'
  BY DEF DecodedInv, TextNext, textVars
<1>3. DecodedInv => TextTypeOK
  BY CallsFit
<1> QED BY <1>1, <1>2, <1>3, PTL DEF TextSpec
==============================================================================
