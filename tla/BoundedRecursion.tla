-------------------------- MODULE BoundedRecursion --------------------------
(***************************************************************************)
(* Functions defined by recursion over an initial segment of the naturals: *)
(* they exist, and their values stay in any set the step keeps.  Induction *)
(* is stated over sets, so that facts can be cited with a set for the      *)
(* property and no operator has to be instantiated.                        *)
(***************************************************************************)
EXTENDS Integers, TLAPS, WellFoundedInduction

\* Every nonempty set of naturals has a least element.
LEMMA LeastNat ==
  ASSUME NEW T \in SUBSET Nat, T # {}
  PROVE  \E n \in T : \A m \in T : n <= m
<1>1. PICK n \in T : \A m \in T : ~(<<m, n>> \in OpToRel(<, Nat))
  BY NatLessThanWellFounded, WFMin
<1>2. \A m \in T : ~(m < n)
  BY <1>1 DEF OpToRel
<1>3. QED
  BY <1>2

\* Induction: a set of naturals closed under successor holds them all.
LEMMA SetInduction ==
  ASSUME NEW S, 0 \in S, \A n \in Nat : n \in S => n + 1 \in S
  PROVE  Nat \subseteq S
<1> SUFFICES ASSUME Nat \ S # {}
             PROVE  FALSE
  OBVIOUS
<1>1. PICK n \in Nat \ S : \A m \in Nat \ S : n <= m
  BY LeastNat
<1>2. n # 0 /\ n - 1 \in Nat
  BY <1>1
<1>3. n - 1 \in S
  BY <1>1, <1>2
<1>4. QED
  BY <1>1, <1>2, <1>3

\* f holds the iterates of step from base.
Iterates(f, N, base, step) ==
  f = [n \in 0 .. N |-> IF n = 0 THEN base ELSE step[f[n - 1]]]

\* The iterates of a function exist, as far as one likes.
LEMMA IteratesExist ==
  ASSUME NEW D, NEW base \in D, NEW step \in [D -> D], NEW N \in Nat
  PROVE  \E f \in [0 .. N -> D] : Iterates(f, N, base, step)
<1> DEFINE S == {n \in Nat : \E f \in [0 .. n -> D] : Iterates(f, n, base, step)}
<1>1. 0 \in S
  <2> DEFINE f == [n \in 0 .. 0 |-> base]
  <2>1. f \in [0 .. 0 -> D]
    OBVIOUS
  <2>2. Iterates(f, 0, base, step)
    BY DEF Iterates
  <2>3. QED
    BY <2>1, <2>2
<1>2. ASSUME NEW n \in Nat, n \in S
      PROVE  n + 1 \in S
  <2>1. PICK f \in [0 .. n -> D] : Iterates(f, n, base, step)
    BY <1>2
  <2> DEFINE g == [i \in 0 .. n + 1 |-> IF i = n + 1 THEN step[f[n]] ELSE f[i]]
  <2>2. g \in [0 .. n + 1 -> D]
    BY <2>1
  <2>3. ASSUME NEW i \in 0 .. n + 1
        PROVE  g[i] = IF i = 0 THEN base ELSE step[g[i - 1]]
    <3>1. CASE i = n + 1
      BY <3>1
    <3>2. CASE i # n + 1
      <4>1. i \in 0 .. n /\ g[i] = f[i]
        BY <3>2
      <4>2. f[i] = IF i = 0 THEN base ELSE step[f[i - 1]]
        BY <2>1, <4>1 DEF Iterates
      <4>3. i # 0 => g[i - 1] = f[i - 1]
        BY <4>1
      <4>4. QED
        BY <4>1, <4>2, <4>3
    <3>3. QED
      BY <3>1, <3>2
  <2>4. Iterates(g, n + 1, base, step)
    BY <2>2, <2>3 DEF Iterates
  <2>5. QED
    BY <2>2, <2>4
<1>3. N \in S
  BY <1>1, <1>2, SetInduction
<1>4. QED
  BY <1>3

\* f is defined by recursion with a step that also looks at the argument.
Recurses(f, N, base, step) ==
  f = [n \in 0 .. N |-> IF n = 0 THEN base ELSE step[<<n, f[n - 1]>>]]

\* Such a function exists.
LEMMA RecursionExists ==
  ASSUME NEW D, NEW base \in D, NEW N \in Nat, NEW step \in [(1 .. N) \X D -> D]
  PROVE  \E f \in [0 .. N -> D] : Recurses(f, N, base, step)
<1> DEFINE S == {m \in Nat : m <= N => \E f \in [0 .. m -> D] : Recurses(f, m, base, step)}
<1>1. 0 \in S
  <2> DEFINE f == [n \in 0 .. 0 |-> base]
  <2>1. f \in [0 .. 0 -> D] /\ Recurses(f, 0, base, step)
    BY DEF Recurses
  <2>2. QED
    BY <2>1
<1>2. ASSUME NEW m \in Nat, m \in S
      PROVE  m + 1 \in S
  <2> SUFFICES ASSUME m + 1 <= N PROVE \E f \in [0 .. m + 1 -> D] : Recurses(f, m + 1, base, step)
    OBVIOUS
  <2>1. PICK f \in [0 .. m -> D] : Recurses(f, m, base, step)
    BY <1>2
  <2> DEFINE g == [n \in 0 .. m + 1 |-> IF n = m + 1 THEN step[<<m + 1, f[m]>>] ELSE f[n]]
  <2>2. <<m + 1, f[m]>> \in (1 .. N) \X D
    OBVIOUS
  <2>3. g \in [0 .. m + 1 -> D]
    BY <2>1, <2>2
  <2>4. ASSUME NEW n \in 0 .. m + 1
        PROVE  g[n] = IF n = 0 THEN base ELSE step[<<n, g[n - 1]>>]
    <3>1. CASE n = m + 1
      <4>1. n # 0 /\ n - 1 = m /\ g[n] = step[<<n, f[m]>>] /\ g[m] = f[m]
        BY <3>1
      <4>2. QED
        BY <4>1, Zenon
    <3>2. CASE n # m + 1
      <4>1. n \in 0 .. m /\ g[n] = f[n]
        BY <3>2
      <4>2. f[n] = IF n = 0 THEN base ELSE step[<<n, f[n - 1]>>]
        BY <2>1, <4>1 DEF Recurses
      <4>3. n # 0 => g[n - 1] = f[n - 1]
        BY <4>1
      <4>4. QED
        BY <4>1, <4>2, <4>3
    <3>3. QED
      BY <3>1, <3>2
  <2>5. Recurses(g, m + 1, base, step)
    BY <2>3, <2>4 DEF Recurses
  <2>6. QED
    BY <2>3, <2>5
<1>3. N \in S
  BY <1>1, <1>2, SetInduction
<1>4. QED
  BY <1>3

\* All values of a function with a recursive equation lie where the first does.
LEMMA IteratesStay ==
  ASSUME NEW D, NEW N \in Nat, NEW f, f[0] \in D,
         \A n \in 1 .. N : f[n - 1] \in D => f[n] \in D
  PROVE  \A n \in 0 .. N : f[n] \in D
<1> DEFINE S == {n \in Nat : n <= N => f[n] \in D}
<1>1. 0 \in S
  OBVIOUS
<1>2. ASSUME NEW n \in Nat, n \in S
      PROVE  n + 1 \in S
  <2>1. n + 1 <= N => n \in 0 .. N /\ n + 1 \in 1 .. N /\ (n + 1) - 1 = n
    OBVIOUS
  <2>2. QED
    BY <1>2, <2>1
<1>3. Nat \subseteq S
  BY <1>1, <1>2, SetInduction
<1>4. QED
  BY <1>3
=============================================================================
