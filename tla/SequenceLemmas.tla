--------------------------- MODULE SequenceLemmas ---------------------------
(***************************************************************************)
(* What the proofs need of sequences that are computed by going through    *)
(* another one.                                                            *)
(*                                                                         *)
(* The library states induction and recursion with operators as            *)
(* parameters, which the provers cannot instantiate; here they are stated  *)
(* with sets and functions.  From them follows that what is defined in     *)
(* Selection.tla exists, keeps the order, and holds what it should; and    *)
(* that records numbered as they come, such as the lines of a session, are *)
(* a sequence that is determined by what it holds.                         *)
(***************************************************************************)
EXTENDS Selection, SequenceTheorems, WellFoundedInduction, TLAPS

\* A set of naturals that is not empty has a least one.
LEMMA Least ==
  ASSUME NEW S \in SUBSET Nat, S # {}
  PROVE  \E x \in S : \A y \in S : x <= y
<1> DEFINE R == { p \in Nat \X Nat : p[1] < p[2] }
<1>1. R = OpToRel(<, Nat)
  BY SMT DEF OpToRel
<1>2. IsWellFoundedOn(R, Nat)
  BY <1>1, NatLessThanWellFounded
<1>3. PICK x \in S : \A y \in S : <<y, x>> \notin R
  <2> HIDE DEF R
  <2> QED BY <1>2, WFMin
<1>4. \A y \in S : x \in Nat /\ y \in Nat /\ ~(y < x)
  BY <1>3
<1> QED BY <1>4

\* Induction, stated with a set: the provers can instantiate it.
LEMMA Induct ==
  ASSUME NEW S \in SUBSET Nat, 0 \in S, \A n \in Nat : n \in S => n + 1 \in S
  PROVE  \A n \in Nat : n \in S
<1> DEFINE T == Nat \ S
<1>1. SUFFICES ASSUME T # {} PROVE FALSE
  OBVIOUS
<1>2. PICK x \in T : \A y \in T : x <= y
  <2> HIDE DEF T
  <2>1. T \in SUBSET Nat
    BY DEF T
  <2> QED BY <1>1, <2>1, Least
<1>3. x \in Nat /\ x # 0 /\ x - 1 \in Nat /\ (x - 1) + 1 = x
  BY <1>2
<1>4. x - 1 \in S
  BY <1>2, <1>3
<1> QED BY <1>2, <1>3, <1>4

\* g is what the recursion over 1 .. N makes of a base and a step.
Unrolls(g, N, V, base, step) ==
  /\ g \in [0 .. N -> V] /\ g[0] = base
  /\ \A n \in 1 .. N : g[n] = step[n][g[n - 1]]

\* A function that is defined by recursion exists.
LEMMA Recursion ==
  ASSUME NEW N \in Nat, NEW V, NEW base \in V, NEW step \in [1 .. N -> [V -> V]]
  PROVE  \E g : Unrolls(g, N, V, base, step)
<1> DEFINE S == { m \in Nat : m <= N => \E g : Unrolls(g, m, V, base, step) }
<1>1. 0 \in S
  <2>1. Unrolls([i \in 0 .. 0 |-> base], 0, V, base, step)
    BY DEF Unrolls
  <2> QED BY <2>1
<1>2. ASSUME NEW m \in Nat, m \in S PROVE m + 1 \in S
  <2>1. SUFFICES ASSUME m + 1 <= N PROVE \E g : Unrolls(g, m + 1, V, base, step)
    OBVIOUS
  <2>2. PICK g : Unrolls(g, m, V, base, step)
    BY <1>2, <2>1
  <2> DEFINE h == [i \in 0 .. m + 1 |-> IF i = m + 1 THEN step[m + 1][g[m]] ELSE g[i]]
  <2>3. step[m + 1] \in [V -> V] /\ g[m] \in V
    BY <2>1, <2>2 DEF Unrolls
  <2>4. h \in [0 .. m + 1 -> V]
    BY <2>2, <2>3 DEF Unrolls
  <2>5. h[0] = base /\ \A n \in 1 .. m : h[n] = g[n] /\ h[n - 1] = g[n - 1]
    BY <2>2 DEF Unrolls
  <2>6. h[m + 1] = step[m + 1][h[m]]
    OBVIOUS
  <2>7. \A n \in 1 .. m + 1 : h[n] = step[n][h[n - 1]]
    <3> HIDE DEF h
    <3>1. \A n \in 1 .. m : h[n] = step[n][h[n - 1]]
      BY <2>2, <2>5 DEF Unrolls
    <3> TAKE n \in 1 .. m + 1
    <3>2. CASE n = m + 1
      <4>1. n - 1 = m
        BY <3>2
      <4> QED BY <2>6, <3>2, <4>1
    <3>3. CASE n # m + 1
      BY <3>1, <3>3
    <3> QED BY <3>2, <3>3
  <2>8. Unrolls(h, m + 1, V, base, step)
    <3> HIDE DEF h
    <3> QED BY <2>4, <2>5, <2>7 DEF Unrolls
  <2> HIDE DEF h
  <2> QED BY <2>8
<1>3. N \in S
  <2> HIDE DEF S
  <2>1. S \in SUBSET Nat
    BY DEF S
  <2> QED BY <1>1, <1>2, <2>1, Induct
<1> QED BY <1>3

\* The two equations of Selected, for every part of the sequence.
SelectsBy(part, A, s, at) ==
  /\ part \in [0 .. Len(s) -> Seq(A)]
  /\ part[0] = <<>> /\ part[Len(s)] = Selected(s, at)
  /\ \A n \in 1 .. Len(s) : part[n] = IF n \in at THEN Append(part[n - 1], s[n]) ELSE part[n - 1]

\* A selection is that of its beginnings, grown element by element.
LEMMA SelectedParts ==
  ASSUME NEW A, NEW s \in Seq(A), NEW at
  PROVE  \E part : SelectsBy(part, A, s, at)
<1> DEFINE N == Len(s)
           V == Seq(A)
           base == <<>>
           step == [n \in 1 .. N |-> [v \in V |-> IF n \in at THEN Append(v, s[n]) ELSE v]]
           Is(g) == g = [n \in 0 .. N |-> IF n = 0 THEN <<>> ELSE
                           IF n \in at THEN Append(g[n - 1], s[n]) ELSE g[n - 1]]
<1>1. N \in Nat /\ base \in V /\ \A n \in 1 .. N : s[n] \in A
  BY ElementOfSeq, EmptySeq
<1>2. \A n \in 1 .. N, v \in V : Append(v, s[n]) \in V
  BY <1>1, AppendProperties
<1>3. step \in [1 .. N -> [V -> V]]
  <2> HIDE DEF V
  <2> QED BY <1>2
<1>4. PICK g : Unrolls(g, N, V, base, step)
  <2> HIDE DEF step, N, V, base
  <2> QED BY <1>1, <1>3, Recursion
<1>5. \A n \in 1 .. N : g[n - 1] \in V /\ g[n] = IF n \in at THEN Append(g[n - 1], s[n]) ELSE g[n - 1]
  <2> HIDE DEF V, N
  <2>1. \A n \in 1 .. N : g[n - 1] \in V
    BY <1>1, <1>4 DEF Unrolls
  <2>2. \A n \in 1 .. N, v \in V : step[n][v] = IF n \in at THEN Append(v, s[n]) ELSE v
    OBVIOUS
  <2> HIDE DEF step
  <2> QED BY <2>1, <2>2, <1>4 DEF Unrolls
<1>6. \A n \in 0 .. N : g[n] = IF n = 0 THEN <<>> ELSE IF n \in at THEN Append(g[n - 1], s[n]) ELSE g[n - 1]
  <2> HIDE DEF step, V, N
  <2>1. \A n \in 0 .. N : n = 0 \/ n \in 1 .. N
    BY <1>1
  <2> QED BY <1>4, <1>5, <2>1 DEF Unrolls
<1>7. Is(g)
  <2>1. g = [n \in 0 .. N |-> g[n]]
    <3> HIDE DEF N, V, step
    <3> QED BY <1>4 DEF Unrolls
  <2> HIDE DEF N
  <2> QED BY <1>6, <2>1
<1> DEFINE part == CHOOSE h : Is(h)
<1>8. Is(part)
  <2> HIDE DEF Is
  <2> QED BY <1>7
<1>9. Selected(s, at) = part[N]
  BY DEF Selected
<1>10. part[0] = <<>> /\ \A n \in 1 .. N : part[n] = IF n \in at THEN Append(part[n - 1], s[n]) ELSE part[n - 1]
  <2> HIDE DEF part
  <2>1. \A n \in 0 .. N : part[n] = IF n = 0 THEN <<>> ELSE IF n \in at THEN Append(part[n - 1], s[n]) ELSE part[n - 1]
    BY <1>8
  <2> QED BY <1>1, <2>1
<1>11. part \in [0 .. N -> Seq(A)]
  <2> HIDE DEF part
  <2>0. \A n \in Nat : n <= N => part[n] \in Seq(A)
    <3> DEFINE S == { n \in Nat : n <= N => part[n] \in Seq(A) }
    <3>1. 0 \in S
      BY <1>10, <1>1
    <3>2. ASSUME NEW n \in Nat, n \in S PROVE n + 1 \in S
      <4>1. n + 1 <= N => n + 1 \in 1 .. N /\ (n + 1) - 1 = n
        BY <1>1
      <4>2. SUFFICES ASSUME n + 1 <= N PROVE part[n + 1] \in V
        OBVIOUS
      <4>3. part[n] \in V
        BY <3>2, <4>2
      <4>4. part[n + 1] = IF n + 1 \in at THEN Append(part[n], s[n + 1]) ELSE part[n]
        BY <4>1, <4>2, <1>10
      <4> HIDE DEF V
      <4> QED BY <4>1, <4>2, <4>3, <4>4, <1>2
    <3> HIDE DEF S
    <3>3. S \in SUBSET Nat
      BY DEF S
    <3>4. \A n \in Nat : n \in S
      BY <3>1, <3>2, <3>3, Induct
    <3> QED BY <3>4 DEF S
  <2>1. part = [n \in 0 .. N |-> part[n]]
    BY <1>8
  <2> QED BY <2>0, <2>1, <1>1
<1> HIDE DEF part
<1>12. SelectsBy(part, A, s, at)
  BY <1>9, <1>10, <1>11 DEF SelectsBy
<1> QED BY <1>12

\* Nothing is selected of nothing.
LEMMA SelectedEmpty ==
  ASSUME NEW A, NEW at
  PROVE  Selected(<<>>, at) = <<>>
<1>1. <<>> \in Seq(A) /\ Len(<<>>) = 0
  BY EmptySeq
<1>2. PICK part : SelectsBy(part, A, <<>>, at)
  BY <1>1, SelectedParts
<1> QED BY <1>1, <1>2 DEF SelectsBy

\* What the parts of two sequences have in common, their selections have.
LEMMA SelectedAppend ==
  ASSUME NEW A, NEW s \in Seq(A), NEW x \in A, NEW at, NEW more, more \cap 1 .. Len(s) = at \cap 1 .. Len(s)
  PROVE  /\ Selected(s, at) \in Seq(A)
         /\ Selected(Append(s, x), more) =
              IF Len(s) + 1 \in more THEN Append(Selected(s, at), x) ELSE Selected(s, at)
<1> DEFINE t == Append(s, x)
           N == Len(s)
<1>1. N \in Nat /\ t \in Seq(A) /\ Len(t) = N + 1 /\ t[N + 1] = x /\ \A n \in 1 .. N : t[n] = s[n]
  BY AppendProperties, LenProperties
<1>a. PICK p : SelectsBy(p, A, s, at)
  BY SelectedParts
<1>2. /\ p \in [0 .. N -> Seq(A)] /\ p[0] = <<>> /\ p[N] = Selected(s, at)
      /\ \A n \in 1 .. N : p[n] = IF n \in at THEN Append(p[n - 1], s[n]) ELSE p[n - 1]
  BY <1>a DEF SelectsBy
<1> HIDE DEF t
<1>b. PICK q : SelectsBy(q, A, t, more)
  BY <1>1, SelectedParts
<1>3. /\ q \in [0 .. Len(t) -> Seq(A)] /\ q[0] = <<>> /\ q[Len(t)] = Selected(t, more)
      /\ \A n \in 1 .. Len(t) : q[n] = IF n \in more THEN Append(q[n - 1], t[n]) ELSE q[n - 1]
  BY <1>b DEF SelectsBy
<1> HIDE DEF N
<1>4. \A n \in Nat : n <= N => q[n] = p[n]
  <2> DEFINE S == { n \in Nat : n <= N => q[n] = p[n] }
  <2>1. 0 \in S
    BY <1>2, <1>3
  <2>2. ASSUME NEW n \in Nat, n \in S PROVE n + 1 \in S
    <3>1. SUFFICES ASSUME n + 1 <= N PROVE q[n + 1] = p[n + 1]
      OBVIOUS
    <3>2. /\ n + 1 \in 1 .. N /\ n + 1 \in 1 .. Len(t) /\ (n + 1) - 1 = n /\ q[n] = p[n] /\ t[n + 1] = s[n + 1]
          /\ n + 1 \in more <=> n + 1 \in at
      BY <2>2, <3>1, <1>1 DEF N
    <3>3. p[n + 1] = IF n + 1 \in at THEN Append(p[n], s[n + 1]) ELSE p[n]
      BY <1>2, <3>2
    <3>4. q[n + 1] = IF n + 1 \in more THEN Append(q[n], t[n + 1]) ELSE q[n]
      BY <1>3, <3>2
    <3> QED BY <3>2, <3>3, <3>4
  <2> HIDE DEF S
  <2>3. S \in SUBSET Nat
    BY DEF S
  <2>4. \A n \in Nat : n \in S
    BY <2>1, <2>2, <2>3, Induct
  <2> QED BY <2>4 DEF S
<1>5. q[N] = p[N] /\ p[N] \in Seq(A)
  BY <1>1, <1>2, <1>4
<1>6. q[N + 1] = IF N + 1 \in more THEN Append(q[N], x) ELSE q[N]
  <2>1. N + 1 \in 1 .. Len(t) /\ (N + 1) - 1 = N
    BY <1>1
  <2> QED BY <1>1, <1>3, <2>1
<1> QED BY <1>1, <1>2, <1>3, <1>5, <1>6 DEF N, t

\* r is the elements of s at the positions of D, and from says whence.
Picks(r, s, D, from) ==
  /\ from \in [1 .. Len(r) -> D]
  /\ \A k \in 1 .. Len(r) : r[k] = s[from[k]]
  /\ \A i \in D : \E k \in 1 .. Len(r) : from[k] = i
  /\ \A k, l \in 1 .. Len(r) : k < l => from[k] < from[l]

Picked(r, s, D) == \E from : Picks(r, s, D, from)

\* One more element, picked from the next position.
LEMMA PicksOneMore ==
  ASSUME NEW A, NEW r \in Seq(A), NEW s, NEW n \in Nat, NEW D \in SUBSET (1 .. n), Picked(r, s, D),
         s[n + 1] \in A
  PROVE  Picked(Append(r, s[n + 1]), s, D \cup {n + 1})
<1>0. PICK from : Picks(r, s, D, from)
  BY DEF Picked
<1> DEFINE x == s[n + 1]
           t == Append(r, x)
           N == Len(r)
           E == D \cup {n + 1}
           more == [k \in 1 .. N + 1 |-> IF k = N + 1 THEN n + 1 ELSE from[k]]
<1>1. N \in Nat /\ Len(t) = N + 1 /\ t[N + 1] = x /\ \A k \in 1 .. N : t[k] = r[k]
  BY AppendProperties, LenProperties
<1> HIDE DEF N, t, x
<1>2. /\ from \in [1 .. N -> D] /\ \A k \in 1 .. N : r[k] = s[from[k]]
      /\ \A i \in D : \E k \in 1 .. N : from[k] = i
      /\ \A k, l \in 1 .. N : k < l => from[k] < from[l]
  BY <1>0 DEF Picks, N
<1>3. more[N + 1] = n + 1 /\ \A k \in 1 .. N : more[k] = from[k] /\ from[k] \in 1 .. n
  <2>1. \A k \in 1 .. N : from[k] \in 1 .. n
    BY <1>2
  <2> QED BY <1>1, <2>1
<1>4. more \in [1 .. N + 1 -> E]
  BY <1>1, <1>2
<1> HIDE DEF more
<1>5. \A k \in 1 .. N + 1 : k \in 1 .. N \/ k = N + 1
  BY <1>1
<1>6. \A k \in 1 .. N + 1 : t[k] = s[more[k]]
  BY <1>1, <1>2, <1>3, <1>5 DEF x
<1>7. \A i \in E : \E k \in 1 .. N + 1 : more[k] = i
  <2>1. N + 1 \in 1 .. N + 1 /\ \A k \in 1 .. N : k \in 1 .. N + 1
    BY <1>1
  <2>2. ASSUME NEW i \in D PROVE \E k \in 1 .. N + 1 : more[k] = i
    BY <1>2, <1>3, <2>1
  <2> QED BY <2>1, <2>2, <1>3
<1>8. \A k, l \in 1 .. N + 1 : k < l => more[k] < more[l]
  <2> TAKE k, l \in 1 .. N + 1
  <2> HAVE k < l
  <2>1. k \in 1 .. N
    BY <1>1
  <2>2. CASE l = N + 1
    BY <1>3, <2>1, <2>2
  <2>3. CASE l \in 1 .. N
    BY <1>2, <1>3, <2>1, <2>3
  <2> QED BY <1>5, <2>2, <2>3
<1>9. Picks(t, s, E, more)
  BY <1>1, <1>4, <1>6, <1>7, <1>8 DEF Picks
<1> HIDE DEF E
<1> QED BY <1>9 DEF t, x, E, Picked

\* A selection holds what is at the positions, each once, in their order, and nothing else.
LEMMA SelectedPicks ==
  ASSUME NEW A, NEW s \in Seq(A), NEW at
  PROVE  /\ Selected(s, at) \in Seq(A)
         /\ Picked(Selected(s, at), s, at \cap 1 .. Len(s))
<1> DEFINE N == Len(s)
<1>1. N \in Nat /\ \A n \in 1 .. N : s[n] \in A
  BY ElementOfSeq, LenProperties
<1>a. PICK p : SelectsBy(p, A, s, at)
  BY SelectedParts
<1>2. /\ p \in [0 .. N -> Seq(A)] /\ p[0] = <<>> /\ p[N] = Selected(s, at)
      /\ \A n \in 1 .. N : p[n] = IF n \in at THEN Append(p[n - 1], s[n]) ELSE p[n - 1]
  BY <1>a DEF SelectsBy
<1> HIDE DEF N
<1> DEFINE S == { n \in Nat : n <= N => Picked(p[n], s, at \cap 1 .. n) }
<1>3. 0 \in S
  <2>1. Picks(<<>>, s, {}, <<>>)
    BY EmptySeq DEF Picks
  <2>2. at \cap 1 .. 0 = {}
    OBVIOUS
  <2>3. Picked(<<>>, s, {})
    BY <2>1 DEF Picked
  <2> QED BY <1>2, <2>2, <2>3
<1>4. ASSUME NEW n \in Nat, n \in S PROVE n + 1 \in S
  <2>1. SUFFICES ASSUME n + 1 <= N PROVE Picked(p[n + 1], s, at \cap 1 .. n + 1)
    OBVIOUS
  <2>2. n + 1 \in 1 .. N /\ (n + 1) - 1 = n /\ n \in 0 .. N
    BY <2>1, <1>1
  <2>3. Picked(p[n], s, at \cap 1 .. n)
    BY <1>4, <2>1, <1>1
  <2>4. p[n + 1] = IF n + 1 \in at THEN Append(p[n], s[n + 1]) ELSE p[n]
    BY <1>2, <2>2
  <2>5. p[n] \in Seq(A) /\ s[n + 1] \in A
    BY <1>1, <1>2, <2>2
  <2>6. CASE n + 1 \in at
    <3>1. at \cap 1 .. n + 1 = (at \cap 1 .. n) \cup {n + 1}
      BY <2>6
    <3>2. at \cap 1 .. n \in SUBSET (1 .. n)
      OBVIOUS
    <3>3. Picked(Append(p[n], s[n + 1]), s, (at \cap 1 .. n) \cup {n + 1})
      <4> DEFINE D == at \cap 1 .. n
      <4>1. D \in SUBSET (1 .. n) /\ Picked(p[n], s, D)
        BY <2>3, <3>2
      <4> HIDE DEF D
      <4>2. Picked(Append(p[n], s[n + 1]), s, D \cup {n + 1})
        BY <2>5, <4>1, PicksOneMore
      <4> QED BY <4>2 DEF D
    <3> QED BY <2>4, <2>6, <3>1, <3>3
  <2>7. CASE n + 1 \notin at
    <3>1. at \cap 1 .. n + 1 = at \cap 1 .. n
      BY <2>7
    <3> QED BY <2>3, <2>4, <2>7, <3>1
  <2> QED BY <2>6, <2>7
<1> HIDE DEF S
<1>5. S \in SUBSET Nat
  BY DEF S
<1>6. N \in S
  BY <1>1, <1>3, <1>4, <1>5, Induct
<1>7. Picked(p[N], s, at \cap 1 .. N)
  BY <1>1, <1>6 DEF S
<1>8. p[N] \in Seq(A)
  BY <1>1, <1>2
<1> QED BY <1>2, <1>7, <1>8 DEF N

-----------------------------------------------------------------------------
\* Functions that grow, over beginnings of the naturals.
Grows(f, N) == f \in [1 .. N -> Int] /\ \A k, l \in 1 .. N : k < l => f[k] < f[l]

\* Each value of the one is one of the other.
Covers(f, N, g, M) == \A k \in 1 .. N : \E l \in 1 .. M : f[k] = g[l]

\* Two that grow through the same values are the same.
LEMMA GrowAlike ==
  ASSUME NEW N \in Nat, NEW M \in Nat, NEW f, NEW g, Grows(f, N), Grows(g, M),
         Covers(f, N, g, M), Covers(g, M, f, N)
  PROVE  N = M /\ \A k \in 1 .. N : f[k] = g[k]
<1>0. /\ \A k \in 1 .. N : \E l \in 1 .. M : f[k] = g[l]
      /\ \A l \in 1 .. M : \E k \in 1 .. N : f[k] = g[l]
  BY DEF Covers
<1> DEFINE S == { n \in Nat : n <= N /\ n <= M => \A k \in 1 .. n : f[k] = g[k] }
<1>1. 0 \in S
  OBVIOUS
<1>2. ASSUME NEW n \in Nat, n \in S PROVE n + 1 \in S
  <2>1. SUFFICES ASSUME n + 1 <= N, n + 1 <= M PROVE \A k \in 1 .. n + 1 : f[k] = g[k]
    OBVIOUS
  <2>2. \A k \in 1 .. n : f[k] = g[k]
    BY <1>2, <2>1
  <2>3. n + 1 \in 1 .. N /\ n + 1 \in 1 .. M
    BY <2>1
  <2>4. f[n + 1] \in Int /\ g[n + 1] \in Int
    BY <2>3 DEF Grows
  <2>5. PICK l \in 1 .. M : f[n + 1] = g[l]
    BY <1>0, <2>3
  <2>6. ~(l <= n)
    <3>1. SUFFICES ASSUME l <= n PROVE FALSE
      OBVIOUS
    <3>2. l \in 1 .. n /\ l \in 1 .. N /\ l < n + 1
      BY <3>1, <2>1
    <3>3. f[l] < f[n + 1] /\ f[l] = f[n + 1]
      BY <2>2, <2>3, <2>5, <3>2 DEF Grows
    <3> QED BY <2>4, <3>3
  <2>7. g[n + 1] <= f[n + 1]
    <3>1. CASE l = n + 1
      BY <2>4, <2>5, <3>1
    <3>2. CASE l # n + 1
      <4>1. n + 1 < l
        BY <2>6, <3>2
      <4> QED BY <2>3, <2>4, <2>5, <4>1 DEF Grows
    <3> QED BY <3>1, <3>2
  <2>8. PICK m \in 1 .. N : f[m] = g[n + 1]
    BY <1>0, <2>3
  <2>9. ~(m <= n)
    <3>1. SUFFICES ASSUME m <= n PROVE FALSE
      OBVIOUS
    <3>2. m \in 1 .. n /\ m \in 1 .. M /\ m < n + 1
      BY <3>1, <2>1
    <3>3. g[m] < g[n + 1] /\ g[m] = g[n + 1]
      BY <2>2, <2>3, <2>8, <3>2 DEF Grows
    <3> QED BY <2>4, <3>3
  <2>10. f[n + 1] <= g[n + 1]
    <3>1. CASE m = n + 1
      BY <2>4, <2>8, <3>1
    <3>2. CASE m # n + 1
      <4>1. n + 1 < m
        BY <2>9, <3>2
      <4> QED BY <2>3, <2>4, <2>8, <4>1 DEF Grows
    <3> QED BY <3>1, <3>2
  <2>11. f[n + 1] = g[n + 1]
    BY <2>4, <2>7, <2>10
  <2>12. \A k \in 1 .. n + 1 : k = n + 1 \/ k \in 1 .. n
    OBVIOUS
  <2> QED BY <2>2, <2>11, <2>12
<1>3. \A n \in Nat : n <= N /\ n <= M => \A k \in 1 .. n : f[k] = g[k]
  <2>1. S \in SUBSET Nat
    OBVIOUS
  <2> HIDE DEF S
  <2>2. \A n \in Nat : n \in S
    BY <1>1, <1>2, <2>1, Induct
  <2> QED BY <2>2 DEF S
<1>4. ~(N < M)
  <2>1. SUFFICES ASSUME N < M PROVE FALSE
    OBVIOUS
  <2>2. N + 1 \in 1 .. M
    BY <2>1
  <2>3. PICK k \in 1 .. N : f[k] = g[N + 1]
    BY <1>0, <2>2
  <2>4. k \in 1 .. M /\ k < N + 1 /\ f[k] = g[k]
    BY <1>3, <2>1
  <2>5. g[k] < g[N + 1] /\ g[k] \in Int
    BY <2>2, <2>4 DEF Grows
  <2> QED BY <2>3, <2>4, <2>5
<1>5. ~(M < N)
  <2>1. SUFFICES ASSUME M < N PROVE FALSE
    OBVIOUS
  <2>2. M + 1 \in 1 .. N
    BY <2>1
  <2>3. PICK l \in 1 .. M : f[M + 1] = g[l]
    BY <1>0, <2>2
  <2>4. l \in 1 .. N /\ l < M + 1 /\ f[l] = g[l]
    BY <1>3, <2>1
  <2>5. f[l] < f[M + 1] /\ f[l] \in Int
    BY <2>2, <2>4 DEF Grows
  <2> QED BY <2>3, <2>4, <2>5
<1>6. N = M
  BY <1>4, <1>5
<1> QED BY <1>3, <1>6

\* What holds an element of a selection, and what a selection holds.
LEMMA SelectedHolds ==
  ASSUME NEW A, NEW s \in Seq(A), NEW at
  PROVE  /\ \A k \in 1 .. Len(Selected(s, at)) : \E i \in at \cap 1 .. Len(s) : Selected(s, at)[k] = s[i]
         /\ \A i \in at \cap 1 .. Len(s) : \E k \in 1 .. Len(Selected(s, at)) : Selected(s, at)[k] = s[i]
<1>1. PICK from : Picks(Selected(s, at), s, at \cap 1 .. Len(s), from)
  BY SelectedPicks DEF Picked
<1> QED BY <1>1 DEF Picks

-----------------------------------------------------------------------------
(* Sequences of records that are numbered as they come.                    *)

\* In the order of their numbers; the numbers of a set; what a sequence holds.
Ordered(s) == \A i, j \in 1 .. Len(s) : i < j => s[i].n < s[j].n
Numerals(A) == \A x \in A : x.n \in Int
Among(s, x) == \E i \in 1 .. Len(s) : s[i] = x

\* They are determined by what they hold.
LEMMA OrderedAlike ==
  ASSUME NEW A, Numerals(A), NEW s \in Seq(A), NEW t \in Seq(A), Ordered(s), Ordered(t),
         \A x \in A : Among(s, x) <=> Among(t, x)
  PROVE  s = t
<1>1. /\ Len(s) \in Nat /\ Len(t) \in Nat
      /\ \A i \in 1 .. Len(s) : s[i] \in A /\ s[i].n \in Int
      /\ \A i \in 1 .. Len(t) : t[i] \in A /\ t[i].n \in Int
  BY LenProperties, ElementOfSeq DEF Numerals
<1> DEFINE f == [i \in 1 .. Len(s) |-> s[i].n]
           g == [i \in 1 .. Len(t) |-> t[i].n]
<1>2. \A k \in 1 .. Len(s) : \E l \in 1 .. Len(t) : s[k] = t[l]
  BY <1>1 DEF Among
<1>3. \A l \in 1 .. Len(t) : \E k \in 1 .. Len(s) : s[k] = t[l]
  BY <1>1 DEF Among
<1>4. Grows(f, Len(s)) /\ Grows(g, Len(t))
  BY <1>1 DEF Grows, Ordered
<1>5. Len(s) = Len(t) /\ \A k \in 1 .. Len(s) : f[k] = g[k]
  <2>1. Covers(f, Len(s), g, Len(t))
    BY <1>2 DEF Covers
  <2>2. Covers(g, Len(t), f, Len(s))
    BY <1>3 DEF Covers
  <2> HIDE DEF f, g
  <2> QED BY <1>1, <1>4, <2>1, <2>2, GrowAlike
<1>6. ASSUME NEW k \in 1 .. Len(s) PROVE s[k] = t[k]
  <2>1. PICK l \in 1 .. Len(t) : s[k] = t[l]
    BY <1>2
  <2>2. t[k].n = t[l].n /\ k \in 1 .. Len(t) /\ t[k].n \in Int
    BY <1>1, <1>5, <2>1
  <2>3. ~(k < l) /\ ~(l < k)
    BY <2>2 DEF Ordered
  <2>4. k = l
    BY <1>1, <2>3
  <2> QED BY <2>1, <2>4
<1> QED BY <1>1, <1>5, <1>6, SeqEqual

\* A selection of them is one too.
LEMMA SelectedOrdered ==
  ASSUME NEW A, NEW s \in Seq(A), NEW at, Ordered(s)
  PROVE  Ordered(Selected(s, at))
<1> DEFINE r == Selected(s, at)
<1>1. PICK from : Picks(r, s, at \cap 1 .. Len(s), from)
  BY SelectedPicks DEF Picked
<1> HIDE DEF r
<1>2. \A k \in 1 .. Len(r) : r[k] = s[from[k]] /\ from[k] \in 1 .. Len(s)
  BY <1>1 DEF Picks
<1>3. \A k, l \in 1 .. Len(r) : k < l => from[k] < from[l]
  BY <1>1 DEF Picks
<1>4. Ordered(r)
  BY <1>2, <1>3 DEF Ordered
<1> QED BY <1>4 DEF r

\* The first m of them are those up to the m-th.
LEMMA OrderedBeginning ==
  ASSUME NEW A, Numerals(A), NEW s \in Seq(A), Ordered(s), NEW m \in 0 .. Len(s)
  PROVE  /\ SubSeq(s, 1, m) \in Seq(A) /\ Len(SubSeq(s, 1, m)) = m /\ Ordered(SubSeq(s, 1, m))
         /\ \A i \in 1 .. m : SubSeq(s, 1, m)[i] = s[i] /\ i \in 1 .. Len(s)
<1>1. Len(s) \in Nat /\ m \in Nat /\ \A i \in 1 .. m : i \in 1 .. Len(s) /\ 1 + i - 1 = i
  BY LenProperties
<1>2. \A i \in 1 .. m : s[i] \in A
  BY <1>1, ElementOfSeq
<1>3. /\ SubSeq(s, 1, m) \in Seq(A) /\ Len(SubSeq(s, 1, m)) = m
      /\ \A i \in 1 .. m : SubSeq(s, 1, m)[i] = s[i]
  BY <1>1, <1>2, SubSeqProperties
<1>4. Ordered(SubSeq(s, 1, m))
  BY <1>1, <1>3 DEF Ordered
<1> QED BY <1>1, <1>3, <1>4

\* Selecting those of a set.
LEMMA SelectedAmong ==
  ASSUME NEW A, NEW s \in Seq(A), NEW at, NEW S, \A i \in 1 .. Len(s) : i \in at <=> s[i] \in S
  PROVE  \A x : Among(Selected(s, at), x) <=> Among(s, x) /\ x \in S
<1> DEFINE r == Selected(s, at)
<1>1. /\ \A k \in 1 .. Len(r) : \E i \in at \cap 1 .. Len(s) : r[k] = s[i]
      /\ \A i \in at \cap 1 .. Len(s) : \E k \in 1 .. Len(r) : r[k] = s[i]
  BY SelectedHolds
<1> HIDE DEF r
<1>2. ASSUME NEW x, Among(r, x) PROVE Among(s, x) /\ x \in S
  BY <1>1, <1>2 DEF Among
<1>3. ASSUME NEW x, Among(s, x), x \in S PROVE Among(r, x)
  <2>1. PICK i \in 1 .. Len(s) : s[i] = x
    BY <1>3 DEF Among
  <2>2. i \in at \cap 1 .. Len(s)
    BY <1>3, <2>1
  <2> QED BY <1>1, <2>1, <2>2 DEF Among
<1>4. \A x : Among(r, x) <=> Among(s, x) /\ x \in S
  BY <1>2, <1>3
<1> QED BY <1>4 DEF r

\* A selection that begins where the sequence does.
BeginsWith(r, s, at) ==
  /\ Len(r) \in Nat /\ Len(r) >= 1 /\ r[1] = s[1]
  /\ \A k \in 2 .. Len(r) : \E i \in at \ {1} : r[k] = s[i]
  /\ \A k, l \in 2 .. Len(r) : k < l => \E i, j \in at \ {1} : i < j /\ r[k] = s[i] /\ r[l] = s[j]
  /\ \A i \in at : \E k \in 1 .. Len(r) : r[k] = s[i]

\* It keeps the first element and the order of the others.
LEMMA SelectedBegins ==
  ASSUME NEW A, NEW s \in Seq(A), NEW at \in SUBSET (1 .. Len(s)), 1 \in at
  PROVE  BeginsWith(Selected(s, at), s, at)
<1>0. PICK r : r = Selected(s, at)
  OBVIOUS
<1>1. r \in Seq(A) /\ Len(r) \in Nat /\ Len(s) \in Nat /\ at \cap 1 .. Len(s) = at
  BY <1>0, SelectedPicks, LenProperties
<1>2. PICK from : Picks(r, s, at, from)
  BY <1>0, <1>1, SelectedPicks DEF Picked
<1>3. /\ \A k \in 1 .. Len(r) : r[k] = s[from[k]] /\ from[k] \in at /\ from[k] \in Nat
      /\ \A i \in at : \E k \in 1 .. Len(r) : from[k] = i
      /\ \A k, l \in 1 .. Len(r) : k < l => from[k] < from[l]
  BY <1>1, <1>2 DEF Picks
<1>4. PICK k \in 1 .. Len(r) : from[k] = 1
  BY <1>3
<1>5. Len(r) >= 1 /\ 1 \in 1 .. Len(r)
  BY <1>1, <1>4
<1>6. from[1] \in 1 .. Len(s)
  BY <1>3, <1>5
<1>7. k = 1
  <2>1. ~(1 < k)
    BY <1>3, <1>4, <1>5, <1>6
  <2> QED BY <2>1
<1>8. \A l \in 2 .. Len(r) : l \in 1 .. Len(r) /\ from[l] \in at \ {1}
  <2>1. ASSUME NEW l \in 2 .. Len(r) PROVE l \in 1 .. Len(r) /\ from[l] \in at \ {1}
    <3>1. l \in 1 .. Len(r) /\ 1 < l
      OBVIOUS
    <3>2. from[1] < from[l]
      BY <1>3, <1>5, <3>1
    <3> QED BY <1>3, <1>4, <1>7, <3>1, <3>2
  <2> QED BY <2>1
<1>9. r[1] = s[1]
  BY <1>3, <1>4, <1>7
<1>10. \A l \in 2 .. Len(r) : \E i \in at \ {1} : r[l] = s[i]
  BY <1>3, <1>8
<1>11. \A m, l \in 2 .. Len(r) : m < l => \E i, j \in at \ {1} : i < j /\ r[m] = s[i] /\ r[l] = s[j]
  <2>1. SUFFICES ASSUME NEW m \in 2 .. Len(r), NEW l \in 2 .. Len(r), m < l
                 PROVE  \E i, j \in at \ {1} : i < j /\ r[m] = s[i] /\ r[l] = s[j]
    OBVIOUS
  <2>2. /\ m \in 1 .. Len(r) /\ l \in 1 .. Len(r) /\ from[m] \in at \ {1} /\ from[l] \in at \ {1}
    BY <1>8
  <2>3. from[m] < from[l] /\ r[m] = s[from[m]] /\ r[l] = s[from[l]]
    BY <1>3, <2>1, <2>2
  <2> QED BY <2>2, <2>3
<1>12. \A i \in at : \E l \in 1 .. Len(r) : r[l] = s[i]
  BY <1>3
<1> QED BY <1>0, <1>1, <1>5, <1>9, <1>10, <1>11, <1>12 DEF BeginsWith
=============================================================================
