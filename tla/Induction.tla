------------------------------ MODULE Induction ------------------------------
(***************************************************************************)
(* Induction and recursion over natural numbers, stated with sets and      *)
(* functions instead of predicates and operators, so that a proof cites    *)
(* them with the set of the numbers it is about.  They rest on the         *)
(* well-foundedness of < alone.                                            *)
(***************************************************************************)
EXTENDS Integers, WellFoundedInduction, TLAPS

\* A nonempty set of natural numbers has a least element.
LEMMA LeastElement ==
    ASSUME NEW T \in SUBSET Nat, T # {}
    PROVE  \E x \in T : \A y \in T : x <= y
<1>1. PICK R : R = {p \in Nat \X Nat : p[1] < p[2]}
  OBVIOUS
<1>2. IsWellFoundedOn(R, Nat)
  BY <1>1, NatLessThanWellFounded DEF OpToRel
<1>3. PICK x \in T : \A y \in T : ~(<<y, x>> \in R)
  BY <1>2, WFMin
<1>4. ASSUME NEW y \in T PROVE x <= y
  <2>1. x \in Nat /\ y \in Nat /\ <<y, x>> \notin R
    BY <1>3
  <2>2. ~(y < x)
    BY <1>1, <2>1
  <2> QED BY <2>1, <2>2
<1> QED BY <1>4

\* Induction up to n: a set with 0 and the successors of its elements below n has all
\* numbers up to n.
LEMMA UpTo ==
    ASSUME NEW n \in Nat, NEW S, 0 \in S, \A k \in 0..(n - 1) : k \in S => k + 1 \in S
    PROVE  0..n \subseteq S
<1> SUFFICES ASSUME (0..n) \ S # {}
             PROVE  FALSE
  OBVIOUS
<1>1. PICK T : T = (0..n) \ S
  OBVIOUS
<1>2. T \in SUBSET Nat /\ T # {}
  BY <1>1
<1>3. PICK x \in T : \A y \in T : x <= y
  BY <1>2, LeastElement
<1>4. x \in 1..n /\ x - 1 \in 0..(n - 1) /\ x - 1 \notin T
  BY <1>1, <1>3
<1>5. x - 1 \in S /\ x = (x - 1) + 1
  BY <1>1, <1>4
<1> QED BY <1>1, <1>4, <1>5

\* The same for all natural numbers.
LEMMA Always ==
    ASSUME NEW S, 0 \in S, \A k \in Nat : k \in S => k + 1 \in S
    PROVE  Nat \subseteq S
<1> SUFFICES ASSUME NEW n \in Nat PROVE n \in S
  OBVIOUS
<1>1. 0..n \subseteq S
  BY UpTo
<1> QED BY <1>1

\* f begins with b and goes on with step up to n.
Follows(f, n, b, step) ==
    /\ f[0] = b
    /\ \A k \in 1..n : f[k] = step[<<k, f[k - 1]>>]

\* Recursion up to n: there is a function that begins with b and goes on with step.
LEMMA Recursion ==
    ASSUME NEW n \in Nat, NEW V, NEW b \in V, NEW step \in [(1..n) \X V -> V]
    PROVE  \E f \in [0..n -> V] : Follows(f, n, b, step)
<1>1. PICK S : S = {m \in 0..n : \E f \in [0..m -> V] : Follows(f, m, b, step)}
  OBVIOUS
<1>2. 0 \in S
  <2>1. PICK f : f = [k \in 0..0 |-> b]
    OBVIOUS
  <2>2. f \in [0..0 -> V] /\ Follows(f, 0, b, step)
    BY <2>1 DEF Follows
  <2> QED BY <1>1, <2>2
<1>3. ASSUME NEW m \in 0..(n - 1), m \in S
      PROVE  m + 1 \in S
  <2>1. PICK f \in [0..m -> V] : Follows(f, m, b, step)
    BY <1>1, <1>3
  <2>2. f[m] \in V /\ m + 1 \in 1..n /\ m \in Nat
    OBVIOUS
  <2>3. PICK x : x = step[<<m + 1, f[m]>>]
    OBVIOUS
  <2>4. x \in V
    BY <2>2, <2>3
  <2>5. PICK g : g = [k \in 0..(m + 1) |-> IF k <= m THEN f[k] ELSE x]
    OBVIOUS
  <2>6. g \in [0..(m + 1) -> V]
    BY <2>2, <2>4, <2>5
  <2>7. Follows(g, m + 1, b, step)
    <3>1. g[0] = b
      BY <2>1, <2>2, <2>5 DEF Follows
    <3>2. ASSUME NEW k \in 1..(m + 1) PROVE g[k] = step[<<k, g[k - 1]>>]
      <4>1. CASE k <= m
        BY <2>1, <2>2, <2>5, <4>1 DEF Follows
      <4>2. CASE k = m + 1
        <5>1. k - 1 = m /\ g[m] = f[m] /\ g[m + 1] = x
          BY <2>2, <2>5, <4>2
        <5> QED BY <2>3, <4>2, <5>1
      <4> QED BY <2>2, <4>1, <4>2
    <3> QED BY <3>1, <3>2 DEF Follows
  <2> QED BY <1>1, <2>2, <2>6, <2>7
<1>4. n \in S
  BY <1>2, <1>3, UpTo
<1> QED BY <1>1, <1>4
=============================================================================
