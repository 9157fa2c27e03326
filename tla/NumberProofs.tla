---------------------------- MODULE NumberProofs ----------------------------
(***************************************************************************)
(* Induction and recursion over numbers and sequences for other proofs.    *)
(* Where the theorems of the library take an operator, those here take a   *)
(* set or a function, as the loops they are about are functions.           *)
(***************************************************************************)
EXTENDS Integers, SequenceTheorems, WellFoundedInduction, TLAPS

Less == {pair \in Nat \X Nat : pair[1] < pair[2]}

\* A set of natural numbers has a least one.
LEMMA Least ==
  ASSUME NEW S \in SUBSET Nat, S # {}
  PROVE  \E n \in S : \A m \in S : n <= m
<1>1. IsWellFoundedOn(Less, Nat)
  BY NatLessThanWellFounded DEF OpToRel, Less
<1>2. \E n \in S : \A m \in S : <<m, n>> \notin Less
  BY <1>1, WFMin
<1>3. \A m, n \in Nat : m < n => <<m, n>> \in Less
  BY DEF Less
<1>4. PICK n \in S : \A m \in S : <<m, n>> \notin Less
  BY <1>2
<1>5. ASSUME NEW m \in S PROVE n <= m
  <2>1. m \in Nat /\ n \in Nat /\ ~(m < n)
    BY <1>3, <1>4
  <2>. QED
    BY <2>1
<1>. QED
  BY <1>5

\* A set with zero and with the successors of its members has all natural numbers.
LEMMA Induction ==
  ASSUME NEW S, 0 \in S, \A n \in Nat : n \in S => n + 1 \in S
  PROVE  \A n \in Nat : n \in S
<1>. DEFINE Missing == Nat \ S
<1>1. SUFFICES ASSUME Missing # {} PROVE FALSE
  OBVIOUS
<1>2. PICK n \in Missing : \A m \in Missing : n <= m
  <2>1. Missing \in SUBSET Nat
    OBVIOUS
  <2>. QED
    BY <1>1, <2>1, Least
<1>3. n \in Nat /\ n # 0
  OBVIOUS
<1>4. n - 1 \in Nat /\ n - 1 < n /\ (n - 1) + 1 = n
  BY <1>3
<1>5. n - 1 \in S
  BY <1>2, <1>4
<1>. QED
  BY <1>4, <1>5
-----------------------------------------------------------------------------
\* The n-th value of a loop that starts with v0 and computes the i-th value by step[<<i, v>>].
Run(n, V, v0, step) ==
  {f \in [0 .. n -> V] : f[0] = v0 /\ \A i \in 1 .. n : f[i] = step[<<i, f[i - 1]>>]}

LEMMA RunsAgree ==
  ASSUME NEW V, NEW v0, NEW step, NEW n \in Nat, NEW m \in Nat,
         NEW f \in Run(n, V, v0, step), NEW g \in Run(m, V, v0, step)
  PROVE  \A i \in Nat : i <= n /\ i <= m => f[i] = g[i]
<1>. DEFINE S == {i \in Nat : i <= n /\ i <= m => f[i] = g[i]}
<1>1. 0 \in S
  BY DEF Run
<1>2. ASSUME NEW i \in Nat, i \in S PROVE i + 1 \in S
  <2>1. SUFFICES ASSUME i + 1 <= n, i + 1 <= m PROVE f[i + 1] = g[i + 1]
    OBVIOUS
  <2>2. f[i] = g[i]
    BY <1>2, <2>1
  <2>3. i + 1 \in 1 .. n /\ i + 1 \in 1 .. m /\ (i + 1) - 1 = i
    BY <2>1
  <2>4. f[i + 1] = step[<<i + 1, f[i]>>] /\ g[i + 1] = step[<<i + 1, g[i]>>]
    BY <2>3 DEF Run
  <2>. QED
    BY <2>2, <2>4
<1>. HIDE DEF S
<1>3. \A i \in Nat : i \in S
  BY <1>1, <1>2, Induction
<1>. QED
  BY <1>3 DEF S

LEMMA RunExists ==
  ASSUME NEW V, NEW v0 \in V, NEW step \in [Nat \X V -> V], NEW n \in Nat
  PROVE  Run(n, V, v0, step) # {}
<1>. DEFINE S == {k \in Nat : Run(k, V, v0, step) # {}}
<1>1. 0 \in S
  <2>. DEFINE f == [i \in 0 .. 0 |-> v0]
  <2>1. f \in Run(0, V, v0, step)
    BY DEF Run
  <2>. QED
    BY <2>1
<1>2. ASSUME NEW k \in Nat, k \in S PROVE k + 1 \in S
  <2>1. PICK f : f \in Run(k, V, v0, step)
    BY <1>2
  <2>2. /\ f \in [0 .. k -> V] /\ f[0] = v0 /\ \A i \in 1 .. k : f[i] = step[<<i, f[i - 1]>>]
    BY <2>1 DEF Run
  <2>. DEFINE last == step[<<k + 1, f[k]>>]
              g    == [i \in 0 .. k + 1 |-> IF i = k + 1 THEN last ELSE f[i]]
  <2>3. last \in V
    <3>1. f[k] \in V
      BY <2>2
    <3>2. <<k + 1, f[k]>> \in Nat \X V
      BY <3>1
    <3>. QED
      BY <3>2
  <2>4. g \in [0 .. k + 1 -> V]
    <3>. HIDE DEF last
    <3>1. \A i \in 0 .. k + 1 : i # k + 1 => i \in 0 .. k
      OBVIOUS
    <3>. QED
      BY <2>2, <2>3, <3>1
  <2>5. g[0] = v0
    BY <2>2
  <2>6. ASSUME NEW i \in 1 .. k + 1 PROVE g[i] = step[<<i, g[i - 1]>>]
    <3>1. i - 1 \in 0 .. k + 1 /\ i - 1 # k + 1 /\ i \in 0 .. k + 1
      OBVIOUS
    <3>2. g[i - 1] = f[i - 1]
      BY <3>1
    <3>3. CASE i = k + 1
      <4>1. g[i] = last /\ i - 1 = k
        BY <3>1, <3>3
      <4>. QED
        BY <3>2, <3>3, <4>1
    <3>4. CASE i # k + 1
      <4>1. g[i] = f[i] /\ i \in 1 .. k
        BY <3>1, <3>4
      <4>. HIDE DEF g
      <4>. QED
        BY <2>2, <3>2, <4>1
    <3>. QED
      BY <3>3, <3>4
  <2>. HIDE DEF g
  <2>7. g \in Run(k + 1, V, v0, step)
    BY <2>4, <2>5, <2>6 DEF Run
  <2>. QED
    BY <2>7
<1>. HIDE DEF S
<1>3. n \in S
  BY <1>1, <1>2, Induction
<1>. QED
  BY <1>3 DEF S

\* A loop has a value after any number of turns.
IsLoop(h, V, v0, step) ==
  h \in [Nat -> V] /\ h[0] = v0 /\ \A n \in Nat : h[n + 1] = step[<<n + 1, h[n]>>]

LEMMA PrimitiveRecursion ==
  ASSUME NEW V, NEW v0 \in V, NEW step \in [Nat \X V -> V]
  PROVE  \E h : IsLoop(h, V, v0, step)
<1>. DEFINE run(n) == CHOOSE f : f \in Run(n, V, v0, step)
            h == [n \in Nat |-> run(n)[n]]
<1>1. ASSUME NEW n \in Nat
      PROVE  run(n) \in Run(n, V, v0, step)
  BY RunExists
<1>. HIDE DEF run
<1>2. h \in [Nat -> V]
  <2>1. ASSUME NEW n \in Nat PROVE run(n)[n] \in V
    <3>1. run(n) \in [0 .. n -> V] /\ n \in 0 .. n
      BY <1>1 DEF Run
    <3>. QED
      BY <3>1
  <2>. QED
    BY <2>1
<1>3. h[0] = v0
  BY <1>1 DEF Run
<1>4. ASSUME NEW n \in Nat PROVE h[n + 1] = step[<<n + 1, h[n]>>]
  <2>1. /\ n + 1 \in Nat /\ n + 1 \in 1 .. n + 1 /\ (n + 1) - 1 = n
        /\ n <= n + 1 /\ n <= n
    OBVIOUS
  <2>2. run(n + 1)[n + 1] = step[<<n + 1, run(n + 1)[n]>>]
    BY <1>1, <2>1 DEF Run
  <2>3. run(n + 1)[n] = run(n)[n]
    BY <1>1, <2>1, RunsAgree
  <2>4. h[n + 1] = run(n + 1)[n + 1] /\ h[n] = run(n)[n]
    BY <2>1
  <2>. QED
    BY <2>2, <2>3, <2>4
<1>. HIDE DEF h
<1>5. IsLoop(h, V, v0, step)
  BY <1>2, <1>3, <1>4 DEF IsLoop
<1>. QED
  BY <1>5

\* The same with a turn that does not ask for its number.
Iterates(h, V, start, next) ==
  h \in [Nat -> V] /\ h = [i \in Nat |-> IF i = 0 THEN start ELSE next[h[i - 1]]]

LEMMA Iteration ==
  ASSUME NEW V, NEW start \in V, NEW next \in [V -> V]
  PROVE  \E h : Iterates(h, V, start, next)
<1>. DEFINE step == [p \in Nat \X V |-> next[p[2]]]
<1>1. step \in [Nat \X V -> V]
  OBVIOUS
<1>2. ASSUME NEW n \in Nat, NEW s \in V PROVE step[<<n, s>>] = next[s]
  OBVIOUS
<1>. HIDE DEF step
<1>3. PICK h : IsLoop(h, V, start, step)
  BY <1>1, PrimitiveRecursion
<1>4. ASSUME NEW i \in Nat PROVE h[i] = IF i = 0 THEN start ELSE next[h[i - 1]]
  <2>1. CASE i = 0
    BY <1>3, <2>1 DEF IsLoop
  <2>2. CASE i # 0
    <3>1. i - 1 \in Nat /\ (i - 1) + 1 = i
      BY <2>2
    <3>2. h[i - 1] \in V /\ h[i] = step[<<i, h[i - 1]>>]
      BY <1>3, <3>1 DEF IsLoop
    <3>3. step[<<i, h[i - 1]>>] = next[h[i - 1]]
      BY <1>2, <3>2
    <3>. QED
      BY <2>2, <3>2, <3>3
  <2>. QED
    BY <2>1, <2>2
<1>5. Iterates(h, V, start, next)
  BY <1>3, <1>4 DEF IsLoop, Iterates
<1>. QED
  BY <1>5
-----------------------------------------------------------------------------
(* Sequences.                                                               *)

LEMMA ButLast ==
  ASSUME NEW A, NEW s \in Seq(A), s # <<>>
  PROVE  /\ Len(s) \in Nat \ {0} /\ s[Len(s)] \in A
         /\ SubSeq(s, 1, Len(s) - 1) \in Seq(A)
         /\ Len(SubSeq(s, 1, Len(s) - 1)) = Len(s) - 1
         /\ \A i \in 1 .. Len(s) - 1 : SubSeq(s, 1, Len(s) - 1)[i] = s[i]
         /\ s = Append(SubSeq(s, 1, Len(s) - 1), s[Len(s)])
<1>. DEFINE n == Len(s) - 1
            f == SubSeq(s, 1, n)
<1>1. Len(s) \in Nat /\ Len(s) # 0 /\ DOMAIN s = 1 .. Len(s)
  BY EmptySeq, LenProperties
<1>2. n \in Nat /\ n \in Int /\ 1 \in Int /\ Len(s) = n + 1
  BY <1>1
<1>3. \A i \in 1 .. Len(s) : s[i] \in A
  BY <1>1, ElementOfSeq
<1>. HIDE DEF n
<1>4. \A i \in 1 .. n : s[i] \in A
  BY <1>2, <1>3
<1>5. /\ f \in Seq(A) /\ Len(f) = IF 1 <= n THEN n - 1 + 1 ELSE 0
      /\ \A i \in 1 .. n - 1 + 1 : f[i] = s[1 + i - 1]
  BY <1>2, <1>4, SubSeqProperties
<1>. HIDE DEF f
<1>6. Len(f) = n /\ \A i \in 1 .. n : f[i] = s[i]
  <2>1. \A i \in 1 .. n : i \in 1 .. n - 1 + 1 /\ 1 + i - 1 = i
    BY <1>2
  <2>. QED
    BY <1>2, <1>5, <2>1
<1>7. s[Len(s)] \in A
  BY <1>2, <1>3
<1>8. s = Append(f, s[Len(s)])
  <2>. DEFINE t == Append(f, s[Len(s)])
  <2>1. /\ t \in Seq(A) /\ Len(t) = Len(f) + 1
        /\ \A i \in 1 .. Len(f) : t[i] = f[i]
        /\ t[Len(f) + 1] = s[Len(s)]
    BY <1>5, <1>7, AppendProperties
  <2>. HIDE DEF t
  <2>2. \A i \in 1 .. Len(s) : s[i] = t[i]
    BY <1>2, <1>6, <2>1
  <2>. QED
    BY <1>2, <1>6, <2>1, <2>2, SeqEqual DEF t
<1>. QED
  BY <1>1, <1>2, <1>5, <1>6, <1>7, <1>8 DEF n, f

LEMMA AppendParts ==
  ASSUME NEW A, NEW s \in Seq(A), NEW e \in A
  PROVE  LET t == Append(s, e) IN
         /\ t \in Seq(A) /\ t # <<>> /\ Len(t) = Len(s) + 1
         /\ SubSeq(t, 1, Len(t) - 1) = s /\ t[Len(t)] = e
<1>. DEFINE t == Append(s, e)
            f == SubSeq(t, 1, Len(t) - 1)
<1>1. /\ t \in Seq(A) /\ t # <<>> /\ Len(t) = Len(s) + 1 /\ t[Len(s) + 1] = e
  BY AppendProperties
<1>. HIDE DEF t
<1>2. f \in Seq(A) /\ t[Len(t)] \in A /\ t = Append(f, t[Len(t)])
  BY <1>1, ButLast
<1>. HIDE DEF f
<1>3. Append(f, t[Len(t)]) = Append(s, e)
  BY <1>2 DEF t
<1>4. f = s
  BY <1>2, <1>3, AppendInjective
<1>. QED
  BY <1>1, <1>4 DEF t, f

\* F is what a loop over a sequence computes that turns the value it has and the next element
\* into a value.
IsSequenceLoop(F, A, V, v0, turn) ==
  /\ F \in [Seq(A) -> V]
  /\ \A s \in Seq(A) :
       F[s] = IF s = <<>> THEN v0 ELSE turn[<<F[SubSeq(s, 1, Len(s) - 1)], s[Len(s)]>>]

LEMMA SequenceRecursion ==
  ASSUME NEW A, NEW V, NEW v0 \in V, NEW turn \in [V \X A -> V]
  PROVE  \E F : IsSequenceLoop(F, A, V, v0, turn)
<1>. DEFINE front(s) == SubSeq(s, 1, Len(s) - 1)
            step(s) == [p \in Nat \X V |-> IF p[1] \in DOMAIN s THEN turn[<<p[2], s[p[1]]>>]
                                           ELSE v0]
            run(s) == CHOOSE h : IsLoop(h, V, v0, step(s))
            F == [s \in Seq(A) |-> run(s)[Len(s)]]
<1>0. ASSUME NEW s \in Seq(A)
      PROVE  Len(s) \in Nat /\ DOMAIN s = 1 .. Len(s) /\ \A i \in DOMAIN s : s[i] \in A
  BY LenProperties, ElementOfSeq
<1>1. ASSUME NEW s \in Seq(A), NEW n \in Nat, NEW v \in V
      PROVE  /\ n \in DOMAIN s => step(s)[<<n, v>>] = turn[<<v, s[n]>>]
             /\ step(s)[<<n, v>>] \in V
  <2>1. ASSUME n \in DOMAIN s PROVE turn[<<v, s[n]>>] \in V
    <3>1. <<v, s[n]>> \in V \X A
      BY <1>0, <2>1
    <3>. QED
      BY <3>1
  <2>2. step(s)[<<n, v>>] = IF n \in DOMAIN s THEN turn[<<v, s[n]>>] ELSE v0
    OBVIOUS
  <2>. HIDE DEF step
  <2>. QED
    BY <2>1, <2>2
<1>2. ASSUME NEW s \in Seq(A) PROVE IsLoop(run(s), V, v0, step(s))
  <2>1. step(s) \in [Nat \X V -> V]
    <3>1. ASSUME NEW p \in Nat \X V
          PROVE  (IF p[1] \in DOMAIN s THEN turn[<<p[2], s[p[1]]>>] ELSE v0) \in V
      <4>1. PICK n \in Nat, v \in V : p = <<n, v>>
        OBVIOUS
      <4>2. step(s)[<<n, v>>] = IF n \in DOMAIN s THEN turn[<<v, s[n]>>] ELSE v0
        OBVIOUS
      <4>3. step(s)[<<n, v>>] \in V
        BY <1>1
      <4>. HIDE DEF step
      <4>. QED
        BY <4>1, <4>2, <4>3
    <3>. QED
      BY <3>1
  <2>. DEFINE st == step(s)
  <2>2. st \in [Nat \X V -> V]
    BY <2>1
  <2>. HIDE DEF st
  <2>3. \E h : IsLoop(h, V, v0, st)
    BY <2>2, PrimitiveRecursion
  <2>4. \E h : IsLoop(h, V, v0, step(s))
    BY <2>3 DEF st
  <2>. HIDE DEF step
  <2>. QED
    BY <2>4
<1>. HIDE DEF run, step
<1>3. ASSUME NEW s \in Seq(A), NEW n \in Nat
      PROVE  /\ run(s)[n] \in V /\ run(s)[0] = v0
             /\ n + 1 \in DOMAIN s => run(s)[n + 1] = turn[<<run(s)[n], s[n + 1]>>]
  <2>1. run(s)[n] \in V /\ run(s)[0] = v0 /\ run(s)[n + 1] = step(s)[<<n + 1, run(s)[n]>>]
    BY <1>2 DEF IsLoop
  <2>2. n + 1 \in Nat
    OBVIOUS
  <2>3. n + 1 \in DOMAIN s => step(s)[<<n + 1, run(s)[n]>>] = turn[<<run(s)[n], s[n + 1]>>]
    BY <1>1, <2>1, <2>2
  <2>. QED
    BY <2>1, <2>3
<1>4. ASSUME NEW s \in Seq(A), s # <<>>
      PROVE  \A n \in Nat : n <= Len(s) - 1 => run(front(s))[n] = run(s)[n]
  <2>. DEFINE t == front(s)
              S == {n \in Nat : n <= Len(s) - 1 => run(t)[n] = run(s)[n]}
  <2>1. /\ t \in Seq(A) /\ Len(s) \in Nat /\ Len(t) = Len(s) - 1
        /\ \A i \in 1 .. Len(s) - 1 : t[i] = s[i]
    BY <1>4, ButLast
  <2>. HIDE DEF t
  <2>2. DOMAIN t = 1 .. Len(t) /\ DOMAIN s = 1 .. Len(s)
    BY <1>0, <2>1
  <2>3. 0 \in S
    BY <1>3, <2>1
  <2>4. ASSUME NEW n \in Nat, n \in S PROVE n + 1 \in S
    <3>1. SUFFICES ASSUME n + 1 <= Len(s) - 1 PROVE run(t)[n + 1] = run(s)[n + 1]
      OBVIOUS
    <3>2. /\ n + 1 \in DOMAIN t /\ n + 1 \in DOMAIN s /\ t[n + 1] = s[n + 1]
          /\ run(t)[n] = run(s)[n]
      BY <2>1, <2>2, <2>4, <3>1
    <3>3. run(t)[n + 1] = turn[<<run(t)[n], t[n + 1]>>]
      BY <1>3, <2>1, <3>2
    <3>4. run(s)[n + 1] = turn[<<run(s)[n], s[n + 1]>>]
      BY <1>3, <3>2
    <3>. QED
      BY <3>2, <3>3, <3>4
  <2>. HIDE DEF S
  <2>5. \A n \in Nat : n \in S
    BY <2>3, <2>4, Induction
  <2>. QED
    BY <2>5 DEF S, t
<1>5. F \in [Seq(A) -> V]
  BY <1>0, <1>3
<1>6. ASSUME NEW s \in Seq(A)
      PROVE  F[s] = IF s = <<>> THEN v0 ELSE turn[<<F[front(s)], s[Len(s)]>>]
  <2>1. CASE s = <<>>
    BY <1>3, <2>1
  <2>2. CASE s # <<>>
    <3>1. front(s) \in Seq(A) /\ Len(front(s)) = Len(s) - 1 /\ Len(s) \in Nat \ {0}
      BY <2>2, ButLast
    <3>. HIDE DEF front
    <3>2. PICK n \in Nat : n + 1 = Len(s)
      <4>1. Len(s) - 1 \in Nat /\ (Len(s) - 1) + 1 = Len(s)
        BY <3>1
      <4>. QED
        BY <4>1
    <3>3. Len(front(s)) = n /\ n <= Len(s) - 1 /\ n + 1 \in DOMAIN s
      BY <1>0, <3>1, <3>2
    <3>4. F[s] = run(s)[n + 1] /\ F[front(s)] = run(front(s))[n]
      BY <3>1, <3>2, <3>3
    <3>5. run(front(s))[n] = run(s)[n]
      BY <1>4, <2>2, <3>3
    <3>6. run(s)[n + 1] = turn[<<run(s)[n], s[n + 1]>>]
      BY <1>3, <3>3
    <3>. QED
      BY <2>2, <3>2, <3>4, <3>5, <3>6
  <2>. QED
    BY <2>1, <2>2
<1>. HIDE DEF F
<1>7. IsSequenceLoop(F, A, V, v0, turn)
  BY <1>5, <1>6 DEF IsSequenceLoop
<1>. QED
  BY <1>7
-----------------------------------------------------------------------------
(* Arithmetic.                                                              *)

LEMMA Product ==
  ASSUME NEW v \in Nat, NEW b \in Nat
  PROVE  v * b \in Nat
OBVIOUS

\* A number with one more digit.
LEMMA DigitAdded ==
  ASSUME NEW v \in Nat, NEW p \in Nat, NEW digit \in Nat, NEW base \in Nat, v < p, digit < base
  PROVE  v * base + digit < p * base
<1>1. (v + 1) * base <= p * base
  OBVIOUS
<1>2. (v + 1) * base = v * base + base
  OBVIOUS
<1>3. v * base \in Nat /\ p * base \in Nat
  BY Product
<1>. QED
  BY <1>1, <1>2, <1>3

LEMMA SmallRemainder ==
  ASSUME NEW x \in Nat, NEW width \in Nat, x < width
  PROVE  x % width = x
OBVIOUS

LEMMA Remainder ==
  ASSUME NEW x \in Nat, NEW width \in Nat, width # 0
  PROVE  x % width \in Nat
OBVIOUS
=============================================================================
