----------------------------- MODULE ScopeProofs -----------------------------
(***************************************************************************)
(* The walk from a scope to the root, for trees of any size: it ends, it   *)
(* visits no scope twice, and the argument that it finds for a number is   *)
(* the one at that place of the list that it collects.  All of this needs  *)
(* no more than that scopes point to parents allocated before them.  And   *)
(* what the operations do to a memory that is well-formed.                 *)
(***************************************************************************)
EXTENDS Scope, Induction, SequenceTheorems, TLAPS

\* Scopes point to parents allocated before them.
Tree ==
    /\ \E L : scopes \in Seq([arr : Nat, len : Nat, parent : Nat, loc : L])
    /\ \A s \in DOMAIN scopes : scopes[s].parent < s

\* Nodes are numbered, and their fields are numbers.
LEMMA TreeFacts ==
    Tree =>
        /\ Len(scopes) \in Nat /\ DOMAIN scopes = 1..Len(scopes)
        /\ \A s \in DOMAIN scopes : /\ scopes[s].arr \in Nat /\ scopes[s].len \in Nat
                                    /\ scopes[s].parent \in Nat /\ scopes[s].parent < s
<1> SUFFICES ASSUME Tree
             PROVE  /\ Len(scopes) \in Nat /\ DOMAIN scopes = 1..Len(scopes)
                    /\ \A s \in DOMAIN scopes :
                          /\ scopes[s].arr \in Nat /\ scopes[s].len \in Nat
                          /\ scopes[s].parent \in Nat /\ scopes[s].parent < s
  OBVIOUS
<1>1. PICK L : scopes \in Seq([arr : Nat, len : Nat, parent : Nat, loc : L])
  BY DEF Tree
<1>2. Len(scopes) \in Nat /\ DOMAIN scopes = 1..Len(scopes)
  BY <1>1, LenProperties
<1>3. ASSUME NEW s \in DOMAIN scopes
      PROVE  scopes[s] \in [arr : Nat, len : Nat, parent : Nat, loc : L]
  BY <1>1, <1>2, ElementOfSeq
<1> QED BY <1>2, <1>3 DEF Tree

\* What defines a walk: it begins at s, and goes on at the parent.
PathIsWalk(s) ==
    /\ Path(s) \in [0..Len(scopes) -> 0..Len(scopes)]
    /\ Path(s)[0] = s
    /\ \A k \in 1..Len(scopes) :
          Path(s)[k] = IF Path(s)[k - 1] = 0 THEN 0 ELSE scopes[Path(s)[k - 1]].parent

\* Path is that walk.
LEMMA PathFacts == Tree => \A s \in DOMAIN scopes : PathIsWalk(s)
<1> SUFFICES ASSUME Tree, NEW s \in DOMAIN scopes
             PROVE  PathIsWalk(s)
  OBVIOUS
<1>1. PICK n \in Nat : n = Len(scopes) /\ DOMAIN scopes = 1..n
  BY TreeFacts
<1> DEFINE up(x) == IF x = 0 THEN 0 ELSE scopes[x].parent
<1>2. PICK step : step = [p \in (1..n) \X (0..n) |-> up(p[2])]
  OBVIOUS
<1>3. \A x \in 0..n : up(x) \in 0..n
  BY <1>1, TreeFacts
<1>4. s \in 0..n /\ step \in [(1..n) \X (0..n) -> 0..n]
  <2> HIDE DEF up
  <2> QED BY <1>1, <1>2, <1>3
<1>5. PICK f \in [0..n -> 0..n] : Follows(f, n, s, step)
  BY <1>4, Recursion
<1>6. ASSUME NEW k \in 1..n PROVE f[k] = up(f[k - 1])
  <2> HIDE DEF up
  <2>1. k - 1 \in 0..n
    OBVIOUS
  <2>2. PICK x \in 0..n : x = f[k - 1]
    BY <1>5, <2>1
  <2>3. f[k] = step[<<k, x>>]
    BY <1>5, <2>2 DEF Follows
  <2>4. step[<<k, x>>] = up(x)
    BY <1>2
  <2> QED BY <2>2, <2>3, <2>4
<1>7. f = [k \in 0..n |-> IF k = 0 THEN s ELSE up(f[k - 1])]
  <2> HIDE DEF up
  <2>1. PICK h : h = [k \in 0..n |-> IF k = 0 THEN s ELSE up(f[k - 1])]
    OBVIOUS
  <2>2. ASSUME NEW k \in 0..n PROVE f[k] = h[k]
    <3>1. CASE k = 0 BY <1>5, <2>1, <3>1 DEF Follows
    <3>2. CASE k # 0
      <4>1. k \in 1..n
        BY <3>2
      <4> QED BY <1>6, <2>1, <4>1
    <3> QED BY <3>1, <3>2
  <2>3. f = h
    BY <1>5, <2>1, <2>2
  <2> QED BY <2>1, <2>3
<1>8. PICK g : g = Path(s)
  OBVIOUS
<1>9. g = [k \in 0..n |-> IF k = 0 THEN s ELSE up(g[k - 1])]
  BY <1>1, <1>7, <1>8 DEF Path
<1>10. PICK S : S = {k \in 0..n : g[k] \in 0..n}
  OBVIOUS
<1>11. 0 \in S
  BY <1>4, <1>9, <1>10
<1>12. ASSUME NEW k \in 1..n PROVE g[k] = up(g[k - 1])
  <2> HIDE DEF up
  <2>1. k \in 0..n /\ k # 0
    OBVIOUS
  <2> QED BY <1>9, <2>1
<1>13. ASSUME NEW k \in 0..(n - 1), k \in S PROVE k + 1 \in S
  <2> HIDE DEF up
  <2>1. k + 1 \in 1..n /\ (k + 1) - 1 = k /\ g[k] \in 0..n
    BY <1>10, <1>13
  <2>2. g[k + 1] = up(g[k])
    BY <1>12, <2>1
  <2>3. g[k + 1] \in 0..n
    BY <1>3, <2>1, <2>2
  <2> QED BY <1>10, <2>1, <2>3
<1>14. 0..n \subseteq S
  BY <1>11, <1>13, UpTo
<1>15. g \in [0..n -> 0..n] /\ g[0] = s
  <2>1. g = [k \in 0..n |-> g[k]]
    <3> HIDE DEF up
    <3> QED BY <1>9
  <2>2. g[0] = s
    BY <1>9
  <2>3. \A k \in 0..n : g[k] \in 0..n
    BY <1>10, <1>14
  <2> QED BY <2>1, <2>2, <2>3
<1> QED BY <1>1, <1>8, <1>12, <1>15 DEF PathIsWalk


\* What defines the number of arguments passed: each node on the walk adds its own.
HeldIsSum(s) ==
    /\ Held(s) \in [0..Len(scopes) -> Nat]
    /\ Held(s)[0] = 0
    /\ \A k \in 1..Len(scopes) :
          Held(s)[k] = Held(s)[k - 1]
                     + (IF Path(s)[k - 1] = 0 THEN 0 ELSE scopes[Path(s)[k - 1]].len)

\* Held is that sum.
LEMMA HeldFacts == Tree => \A s \in DOMAIN scopes : HeldIsSum(s)
<1> SUFFICES ASSUME Tree, NEW s \in DOMAIN scopes
             PROVE  HeldIsSum(s)
  OBVIOUS
<1>1. PICK n \in Nat : n = Len(scopes) /\ DOMAIN scopes = 1..n
  BY TreeFacts
<1>2. PICK p : p = Path(s)
  OBVIOUS
<1>3. p \in [0..n -> 0..n]
  BY <1>1, <1>2, PathFacts DEF PathIsWalk
<1> DEFINE own(k) == IF p[k - 1] = 0 THEN 0 ELSE scopes[p[k - 1]].len
<1>4. \A k \in 1..n : own(k) \in Nat
  <2> SUFFICES ASSUME NEW k \in 1..n PROVE own(k) \in Nat
    OBVIOUS
  <2>1. PICK x \in 0..n : x = p[k - 1]
    BY <1>3
  <2> QED BY <1>1, <2>1, TreeFacts
<1> HIDE DEF own
<1>5. PICK step : step = [q \in (1..n) \X Nat |-> q[2] + own(q[1])]
  OBVIOUS
<1>6. step \in [(1..n) \X Nat -> Nat]
  <2>1. \A q \in (1..n) \X Nat : q[2] + own(q[1]) \in Nat
    BY <1>4
  <2> QED BY <1>5, <2>1
<1>7. PICK f \in [0..n -> Nat] : Follows(f, n, 0, step)
  BY <1>6, Recursion
<1>8. ASSUME NEW k \in 1..n PROVE f[k] = f[k - 1] + own(k)
  <2>1. PICK x \in Nat : x = f[k - 1]
    BY <1>7
  <2>2. f[k] = step[<<k, x>>]
    BY <1>7, <2>1 DEF Follows
  <2>3. step[<<k, x>>] = x + own(k)
    BY <1>5
  <2> QED BY <2>1, <2>2, <2>3
<1>9. f = [k \in 0..n |-> IF k = 0 THEN 0 ELSE f[k - 1] + own(k)]
  <2>1. PICK h : h = [k \in 0..n |-> IF k = 0 THEN 0 ELSE f[k - 1] + own(k)]
    OBVIOUS
  <2>2. ASSUME NEW k \in 0..n PROVE f[k] = h[k]
    <3>1. CASE k = 0
      BY <1>7, <2>1, <3>1 DEF Follows
    <3>2. CASE k # 0
      <4>1. k \in 1..n
        BY <3>2
      <4> QED BY <1>8, <2>1, <4>1
    <3> QED BY <3>1, <3>2
  <2>3. f = h
    BY <1>7, <2>1, <2>2
  <2> QED BY <2>1, <2>3
<1>10. PICK g : g = Held(s)
  OBVIOUS
<1>11. g = [k \in 0..n |-> IF k = 0 THEN 0 ELSE g[k - 1] + own(k)]
  BY <1>1, <1>2, <1>9, <1>10 DEF Held, own
<1>12. ASSUME NEW k \in 1..n PROVE g[k] = g[k - 1] + own(k)
  <2>1. k \in 0..n /\ k # 0
    OBVIOUS
  <2> QED BY <1>11, <2>1
<1>13. PICK S : S = {k \in 0..n : g[k] \in Nat}
  OBVIOUS
<1>14. 0 \in S
  BY <1>11, <1>13
<1>15. ASSUME NEW k \in 0..(n - 1), k \in S PROVE k + 1 \in S
  <2>1. k + 1 \in 1..n /\ (k + 1) - 1 = k /\ g[k] \in Nat
    BY <1>13, <1>15
  <2>2. g[k + 1] = g[k] + own(k + 1) /\ own(k + 1) \in Nat
    BY <1>4, <1>12, <2>1
  <2>3. g[k + 1] \in Nat
    BY <2>1, <2>2
  <2> QED BY <1>13, <2>1, <2>3
<1>16. 0..n \subseteq S
  BY <1>14, <1>15, UpTo
<1>17. g \in [0..n -> Nat] /\ g[0] = 0
  <2>1. g = [k \in 0..n |-> g[k]]
    BY <1>11
  <2>2. g[0] = 0
    BY <1>11
  <2>3. \A k \in 0..n : g[k] \in Nat
    BY <1>13, <1>16
  <2> QED BY <2>1, <2>2, <2>3
<1> QED BY <1>1, <1>2, <1>10, <1>12, <1>17 DEF HeldIsSum, own

\* The values that the windows of scopes hold.
Slots == UNION { {arrays[scopes[s].arr][i] : i \in 1..scopes[s].len} : s \in DOMAIN scopes }

\* The arguments of a scope, and the same from the newest on, are its window read in either
\* direction.
LEMMA OwnArgsFacts ==
    Tree => \A s \in DOMAIN scopes :
        /\ OwnArgs(s) \in Seq(Slots)
        /\ Len(OwnArgs(s)) = scopes[s].len
        /\ \A i \in 1..scopes[s].len : OwnArgs(s)[i] = arrays[scopes[s].arr][i]
        /\ Reverse(OwnArgs(s)) \in Seq(Slots)
        /\ Len(Reverse(OwnArgs(s))) = scopes[s].len
        /\ \A i \in 1..scopes[s].len :
              Reverse(OwnArgs(s))[i] = arrays[scopes[s].arr][scopes[s].len - i + 1]
<1> SUFFICES ASSUME Tree, NEW s \in DOMAIN scopes
             PROVE  /\ OwnArgs(s) \in Seq(Slots)
                    /\ Len(OwnArgs(s)) = scopes[s].len
                    /\ \A i \in 1..scopes[s].len : OwnArgs(s)[i] = arrays[scopes[s].arr][i]
                    /\ Reverse(OwnArgs(s)) \in Seq(Slots)
                    /\ Len(Reverse(OwnArgs(s))) = scopes[s].len
                    /\ \A i \in 1..scopes[s].len :
                          Reverse(OwnArgs(s))[i] = arrays[scopes[s].arr][scopes[s].len - i + 1]
  OBVIOUS
<1>1. PICK n \in Nat : n = scopes[s].len
  BY TreeFacts
<1>2. PICK a : a = arrays[scopes[s].arr]
  OBVIOUS
<1>3. \A i \in 1..n : a[i] \in Slots
  BY <1>1, <1>2 DEF Slots
<1>4. PICK q : q = OwnArgs(s)
  OBVIOUS
<1>5. q = [i \in 1..n |-> a[i]]
  BY <1>1, <1>2, <1>4 DEF OwnArgs
<1>6. q \in Seq(Slots) /\ Len(q) = n /\ \A i \in 1..n : q[i] = a[i]
  BY <1>3, <1>5
<1>7. PICK r : r = Reverse(q)
  OBVIOUS
<1>8. r = [i \in 1..n |-> q[(n - i) + 1]]
  BY <1>6, <1>7 DEF Reverse
<1>9. ASSUME NEW i \in 1..n
      PROVE  (n - i) + 1 \in 1..n /\ q[(n - i) + 1] = a[n - i + 1] /\ q[(n - i) + 1] \in Slots
  <2>1. PICK j \in 1..n : j = (n - i) + 1
    OBVIOUS
  <2> QED BY <1>3, <1>6, <2>1
<1>10. r \in Seq(Slots) /\ Len(r) = n /\ \A i \in 1..n : r[i] = a[n - i + 1]
  BY <1>8, <1>9
<1> QED BY <1>1, <1>2, <1>4, <1>6, <1>7, <1>10

\* What defines the list collected: each node on the walk appends its own arguments.
ViewIsList(s) ==
    /\ View(s) \in [0..Len(scopes) -> Seq(Slots)]
    /\ View(s)[0] = <<>>
    /\ \A k \in 1..Len(scopes) :
          View(s)[k] = View(s)[k - 1] \o
             (IF Path(s)[k - 1] = 0 THEN <<>> ELSE Reverse(OwnArgs(Path(s)[k - 1])))

\* View is that list.
LEMMA ViewFacts == Tree => \A s \in DOMAIN scopes : ViewIsList(s)
<1> SUFFICES ASSUME Tree, NEW s \in DOMAIN scopes
             PROVE  ViewIsList(s)
  OBVIOUS
<1>1. PICK n \in Nat : n = Len(scopes) /\ DOMAIN scopes = 1..n
  BY TreeFacts
<1>2. PICK p : p = Path(s)
  OBVIOUS
<1>3. p \in [0..n -> 0..n]
  BY <1>1, <1>2, PathFacts DEF PathIsWalk
<1> DEFINE own(k) == IF p[k - 1] = 0 THEN <<>> ELSE Reverse(OwnArgs(p[k - 1]))
<1>4. ASSUME NEW k \in 1..n PROVE own(k) \in Seq(Slots)
  <2>1. PICK x \in 0..n : x = p[k - 1]
    BY <1>3
  <2>2. CASE x = 0
    BY <2>1, <2>2
  <2>3. CASE x # 0
    <3>1. x \in DOMAIN scopes
      BY <1>1, <2>3
    <3>2. Reverse(OwnArgs(x)) \in Seq(Slots)
      BY <3>1, OwnArgsFacts
    <3> QED BY <2>1, <2>3, <3>2
  <2> QED BY <2>2, <2>3
<1> HIDE DEF own
<1>5. PICK step : step = [q \in (1..n) \X Seq(Slots) |-> q[2] \o own(q[1])]
  OBVIOUS
<1>6. step \in [(1..n) \X Seq(Slots) -> Seq(Slots)]
  <2>1. ASSUME NEW q \in (1..n) \X Seq(Slots) PROVE q[2] \o own(q[1]) \in Seq(Slots)
    <3>1. PICK k \in 1..n : k = q[1]
      OBVIOUS
    <3>2. PICK l \in Seq(Slots) : l = q[2]
      OBVIOUS
    <3>3. own(k) \in Seq(Slots)
      BY <1>4
    <3> QED BY <3>1, <3>2, <3>3, ConcatProperties
  <2> QED BY <1>5, <2>1
<1>7. PICK f \in [0..n -> Seq(Slots)] : Follows(f, n, <<>>, step)
  <2>1. <<>> \in Seq(Slots)
    OBVIOUS
  <2> QED BY <1>6, <2>1, Recursion
<1>8. ASSUME NEW k \in 1..n PROVE f[k] = f[k - 1] \o own(k)
  <2>1. PICK x \in Seq(Slots) : x = f[k - 1]
    BY <1>7
  <2>2. f[k] = step[<<k, x>>]
    BY <1>7, <2>1 DEF Follows
  <2>3. step[<<k, x>>] = x \o own(k)
    BY <1>5
  <2> QED BY <2>1, <2>2, <2>3
<1>9. f = [k \in 0..n |-> IF k = 0 THEN <<>> ELSE f[k - 1] \o own(k)]
  <2>1. PICK h : h = [k \in 0..n |-> IF k = 0 THEN <<>> ELSE f[k - 1] \o own(k)]
    OBVIOUS
  <2>2. ASSUME NEW k \in 0..n PROVE f[k] = h[k]
    <3>1. CASE k = 0
      BY <1>7, <2>1, <3>1 DEF Follows
    <3>2. CASE k # 0
      <4>1. k \in 1..n
        BY <3>2
      <4> QED BY <1>8, <2>1, <4>1
    <3> QED BY <3>1, <3>2
  <2>3. f = h
    BY <1>7, <2>1, <2>2
  <2> QED BY <2>1, <2>3
<1>10. PICK g : g = View(s)
  OBVIOUS
<1>11. g = [k \in 0..n |-> IF k = 0 THEN <<>> ELSE g[k - 1] \o own(k)]
  BY <1>1, <1>2, <1>9, <1>10 DEF View, own
<1>12. ASSUME NEW k \in 1..n PROVE g[k] = g[k - 1] \o own(k)
  <2>1. k \in 0..n /\ k # 0
    OBVIOUS
  <2> QED BY <1>11, <2>1
<1>13. PICK S : S = {k \in 0..n : g[k] \in Seq(Slots)}
  OBVIOUS
<1>14. 0 \in S
  <2>1. g[0] = <<>> /\ <<>> \in Seq(Slots) /\ 0 \in 0..n
    BY <1>11
  <2> QED BY <1>13, <2>1
<1>15. ASSUME NEW k \in 0..(n - 1), k \in S PROVE k + 1 \in S
  <2>1. k + 1 \in 1..n /\ (k + 1) - 1 = k /\ g[k] \in Seq(Slots)
    BY <1>13, <1>15
  <2>2. g[k + 1] = g[k] \o own(k + 1) /\ own(k + 1) \in Seq(Slots)
    BY <1>4, <1>12, <2>1
  <2>3. g[k + 1] \in Seq(Slots)
    BY <2>1, <2>2, ConcatProperties
  <2> QED BY <1>13, <2>1, <2>3
<1>16. 0..n \subseteq S
  BY <1>14, <1>15, UpTo
<1>17. g \in [0..n -> Seq(Slots)] /\ g[0] = <<>>
  <2>1. g = [k \in 0..n |-> g[k]]
    BY <1>11
  <2>2. g[0] = <<>>
    BY <1>11
  <2>3. \A k \in 0..n : g[k] \in Seq(Slots)
    BY <1>13, <1>16
  <2> QED BY <2>1, <2>2, <2>3
<1> QED BY <1>1, <1>2, <1>10, <1>12, <1>17 DEF ViewIsList, own

-----------------------------------------------------------------------------

\* The walk moves to scopes allocated earlier, so that it is past the root after at
\* most as many steps as there are scopes, and visits no scope twice.
LEMMA WalkDescends ==
    Tree => \A s \in DOMAIN scopes : \A j, k \in 0..Len(scopes) :
        j < k => /\ Path(s)[j] = 0 => Path(s)[k] = 0
                 /\ Path(s)[k] # 0 => Path(s)[k] + (k - j) <= Path(s)[j]
<1> SUFFICES ASSUME Tree, NEW s \in DOMAIN scopes, NEW j \in 0..Len(scopes)
             PROVE  \A k \in 0..Len(scopes) :
                       j < k => /\ Path(s)[j] = 0 => Path(s)[k] = 0
                                /\ Path(s)[k] # 0 => Path(s)[k] + (k - j) <= Path(s)[j]
  OBVIOUS
<1>1. PICK n \in Nat : n = Len(scopes) /\ DOMAIN scopes = 1..n
  BY TreeFacts
<1>2. PICK p : p = Path(s)
  OBVIOUS
<1>3. /\ p \in [0..n -> 0..n]
      /\ \A k \in 1..n : p[k] = IF p[k - 1] = 0 THEN 0 ELSE scopes[p[k - 1]].parent
  BY <1>1, <1>2, PathFacts DEF PathIsWalk
<1>4. PICK S : S = {k \in 0..n : \/ k <= j
                                 \/ p[k] = 0
                                 \/ p[j] # 0 /\ p[k] + (k - j) <= p[j]}
  OBVIOUS
<1>5. 0 \in S
  BY <1>1, <1>4
<1>6. ASSUME NEW k \in 0..(n - 1), k \in S PROVE k + 1 \in S
  <2>1. k + 1 \in 1..n /\ (k + 1) - 1 = k /\ k \in 0..n
    OBVIOUS
  <2>2. PICK x \in 0..n : x = p[k]
    BY <1>3, <2>1
  <2>3. p[k + 1] = IF x = 0 THEN 0 ELSE scopes[x].parent
    BY <1>3, <2>1, <2>2
  <2>4. x # 0 => scopes[x].parent \in Nat /\ scopes[x].parent + 1 <= x
    BY <1>1, TreeFacts
  <2>5. PICK y \in 0..n : y = p[k + 1]
    BY <1>3, <2>1
  <2>6. PICK z \in 0..n : z = p[j]
    BY <1>1, <1>3
  <2>7. \/ k + 1 <= j
        \/ y = 0
        \/ z # 0 /\ y + (k + 1 - j) <= z
    <3>1. k <= j \/ x = 0 \/ (z # 0 /\ x + (k - j) <= z)
      BY <1>4, <1>6, <2>2, <2>6
    <3>2. y = 0 \/ (x # 0 /\ y + 1 <= x)
      BY <2>3, <2>4, <2>5
    <3>3. k = j => x = z
      BY <2>2, <2>6
    <3>4. j \in Nat /\ k \in Nat
      BY <1>1
    <3> QED BY <3>1, <3>2, <3>3, <3>4
  <2> QED BY <1>4, <2>1, <2>5, <2>6, <2>7
<1>7. 0..n \subseteq S
  BY <1>5, <1>6, UpTo
<1>8. ASSUME NEW k \in 0..n, j < k
      PROVE  /\ p[j] = 0 => p[k] = 0
             /\ p[k] # 0 => p[k] + (k - j) <= p[j]
  <2>1. k <= j \/ p[k] = 0 \/ (p[j] # 0 /\ p[k] + (k - j) <= p[j])
    BY <1>4, <1>7
  <2>2. ~(k <= j)
    BY <1>1, <1>8
  <2> QED BY <2>1, <2>2
<1> QED BY <1>1, <1>2, <1>8

\* Parents were allocated earlier, so that the root is behind every scope after so many steps
\* as there are scopes.
LEMMA WalkEnds ==
    Tree => \A s \in DOMAIN scopes : Path(s)[Len(scopes)] = 0
<1> SUFFICES ASSUME Tree, NEW s \in DOMAIN scopes
             PROVE  Path(s)[Len(scopes)] = 0
  OBVIOUS
<1>1. PICK n \in Nat : n = Len(scopes) /\ DOMAIN scopes = 1..n
  BY TreeFacts
<1>2. PICK x \in 0..n : x = Path(s)[n]
  BY <1>1, PathFacts DEF PathIsWalk
<1>3. Path(s)[0] = s /\ s \in 1..n
  BY <1>1, PathFacts DEF PathIsWalk
<1>4. x # 0 => x + (n - 0) <= s
  BY <1>1, <1>2, <1>3, WalkDescends
<1> QED BY <1>1, <1>2, <1>3, <1>4

\* The arguments visited grow along the walk, and those seen already stay in place.
LEMMA WalkCollects ==
    Tree => \A s \in DOMAIN scopes : \A j, k \in 0..Len(scopes) :
        j <= k => /\ Held(s)[j] <= Held(s)[k]
                  /\ Len(View(s)[k]) = Held(s)[k]
                  /\ \A i \in 1..Held(s)[j] : View(s)[k][i] = View(s)[j][i]
<1> SUFFICES ASSUME Tree, NEW s \in DOMAIN scopes
             PROVE  \A j, k \in 0..Len(scopes) :
                       j <= k => /\ Held(s)[j] <= Held(s)[k]
                                 /\ Len(View(s)[k]) = Held(s)[k]
                                 /\ \A i \in 1..Held(s)[j] : View(s)[k][i] = View(s)[j][i]
  OBVIOUS
<1>1. PICK n \in Nat : n = Len(scopes) /\ DOMAIN scopes = 1..n
  BY TreeFacts
<1>2. PICK p : p = Path(s)
  OBVIOUS
<1>3. PICK h : h = Held(s)
  OBVIOUS
<1>4. PICK v : v = View(s)
  OBVIOUS
<1>5. /\ p \in [0..n -> 0..n]
      /\ h \in [0..n -> Nat] /\ h[0] = 0
      /\ v \in [0..n -> Seq(Slots)] /\ v[0] = <<>>
  BY <1>1, <1>2, <1>3, <1>4, PathFacts, HeldFacts, ViewFacts
     DEF PathIsWalk, HeldIsSum, ViewIsList
\* One step of the walk adds the arguments of one scope at the end.
<1>6. ASSUME NEW k \in 0..(n - 1)
      PROVE  \E own \in Seq(Slots) : /\ h[k + 1] = h[k] + Len(own)
                                    /\ v[k + 1] = v[k] \o own
  <2>1. k + 1 \in 1..n /\ (k + 1) - 1 = k /\ k \in 0..n
    OBVIOUS
  <2>2. PICK x \in 0..n : x = p[k]
    BY <1>5, <2>1
  <2>3. h[k + 1] = h[k] + (IF x = 0 THEN 0 ELSE scopes[x].len)
    BY <1>1, <1>2, <1>3, <2>1, <2>2, HeldFacts DEF HeldIsSum
  <2>4. v[k + 1] = v[k] \o (IF x = 0 THEN <<>> ELSE Reverse(OwnArgs(x)))
    BY <1>1, <1>2, <1>4, <2>1, <2>2, ViewFacts DEF ViewIsList
  <2>5. CASE x = 0
    <3>1. <<>> \in Seq(Slots) /\ Len(<<>>) = 0
      OBVIOUS
    <3> QED BY <2>3, <2>4, <2>5, <3>1
  <2>6. CASE x # 0
    <3>1. x \in DOMAIN scopes
      BY <1>1, <2>6
    <3>2. Reverse(OwnArgs(x)) \in Seq(Slots) /\ Len(Reverse(OwnArgs(x))) = scopes[x].len
      BY <3>1, OwnArgsFacts
    <3> QED BY <2>3, <2>4, <2>6, <3>2
  <2> QED BY <2>5, <2>6
<1>7. \A k \in 0..n : Len(v[k]) = h[k]
  <2>1. PICK S : S = {k \in 0..n : Len(v[k]) = h[k]}
    OBVIOUS
  <2>2. 0 \in S
    BY <1>5, <2>1
  <2>3. ASSUME NEW k \in 0..(n - 1), k \in S PROVE k + 1 \in S
    <3>1. PICK own \in Seq(Slots) : h[k + 1] = h[k] + Len(own) /\ v[k + 1] = v[k] \o own
      BY <1>6
    <3>2. PICK l \in Seq(Slots) : l = v[k]
      <4>1. k \in 0..n
        OBVIOUS
      <4> QED BY <1>5, <4>1
    <3>3. Len(l \o own) = Len(l) + Len(own)
      BY <3>2, ConcatProperties
    <3>4. Len(l) = h[k] /\ k + 1 \in 0..n
      BY <2>1, <2>3, <3>2
    <3> QED BY <2>1, <3>1, <3>2, <3>3, <3>4
  <2>4. 0..n \subseteq S
    BY <2>2, <2>3, UpTo
  <2> QED BY <2>1, <2>4
<1>8. ASSUME NEW j \in 0..n
      PROVE  \A k \in 0..n : \/ k < j
                              \/ /\ h[j] <= h[k]
                                 /\ \A i \in 1..h[j] : v[k][i] = v[j][i]
  <2>1. PICK S : S = {k \in 0..n : \/ k < j
                                   \/ /\ h[j] <= h[k]
                                      /\ \A i \in 1..h[j] : v[k][i] = v[j][i]}
    OBVIOUS
  <2>2. 0 \in S
    <3>1. h[0] \in Nat /\ (0 < j \/ 0 = j)
      BY <1>5
    <3> QED BY <2>1, <3>1
  <2>3. ASSUME NEW k \in 0..(n - 1), k \in S PROVE k + 1 \in S
    <3>1. PICK own \in Seq(Slots) : h[k + 1] = h[k] + Len(own) /\ v[k + 1] = v[k] \o own
      BY <1>6
    <3>2. k \in 0..n /\ k + 1 \in 0..n
      OBVIOUS
    <3>3. /\ v[k] \in Seq(Slots) /\ Len(v[k]) = h[k] /\ h[k] \in Nat /\ h[j] \in Nat
          /\ Len(own) \in Nat
      BY <1>5, <1>7, <3>2, LenProperties
    <3>4. /\ Len(v[k + 1]) = h[k] + Len(own)
          /\ \A i \in 1..h[k] : v[k + 1][i] = v[k][i]
      <4>1. PICK l \in Seq(Slots) : l = v[k]
        BY <3>3
      <4>2. /\ Len(l \o own) = Len(l) + Len(own)
            /\ \A i \in 1..Len(l) : (l \o own)[i] = l[i]
        BY <3>3, <4>1, ConcatProperties
      <4> QED BY <3>1, <3>3, <4>1, <4>2
    <3>5. CASE k < j
      <4>1. k + 1 < j \/ k + 1 = j
        BY <3>5
      <4>2. CASE k + 1 = j
        BY <2>1, <3>1, <3>2, <3>3, <3>4, <4>2
      <4>3. CASE k + 1 < j
        BY <2>1, <3>1, <3>2, <3>4, <4>3
      <4> QED BY <4>1, <4>2, <4>3
    <3>6. CASE ~(k < j)
      <4>1. h[j] <= h[k] /\ \A i \in 1..h[j] : v[k][i] = v[j][i]
        BY <2>1, <2>3, <3>6
      <4>2. h[j] <= h[k + 1]
        BY <3>1, <3>3, <4>1
      <4>3. \A i \in 1..h[j] : v[k + 1][i] = v[j][i]
        BY <3>3, <3>4, <4>1
      <4> QED BY <2>1, <3>1, <3>2, <3>4, <4>2, <4>3
    <3> QED BY <3>5, <3>6
  <2>4. 0..n \subseteq S
    BY <2>2, <2>3, UpTo
  <2> QED BY <2>1, <2>4
<1>9. ASSUME NEW j \in 0..n, NEW k \in 0..n, j <= k
      PROVE  /\ h[j] <= h[k]
             /\ Len(v[k]) = h[k]
             /\ \A i \in 1..h[j] : v[k][i] = v[j][i]
  <2>1. ~(k < j)
    BY <1>9
  <2> QED BY <1>7, <1>8, <2>1
<1> QED BY <1>1, <1>3, <1>4, <1>9

\* The list of all arguments of s.
LEMMA VisibleFacts ==
    Tree => \A s \in DOMAIN scopes :
        /\ Visible(s) \in Seq(Slots)
        /\ Len(Visible(s)) = Held(s)[Len(scopes)]
        /\ Held(s)[Len(scopes)] \in Nat
<1> SUFFICES ASSUME Tree, NEW s \in DOMAIN scopes
             PROVE  /\ Visible(s) \in Seq(Slots)
                    /\ Len(Visible(s)) = Held(s)[Len(scopes)]
                    /\ Held(s)[Len(scopes)] \in Nat
  OBVIOUS
<1>0. PICK n \in Nat : n = Len(scopes)
  BY TreeFacts
<1>1. n = Len(scopes) /\ n \in 0..n /\ n <= n
  BY <1>0
<1>2. View(s)[n] \in Seq(Slots) /\ Held(s)[n] \in Nat
  BY <1>1, ViewFacts, HeldFacts DEF ViewIsList, HeldIsSum
<1>3. Len(View(s)[n]) = Held(s)[n]
  BY <1>1, WalkCollects
<1> QED BY <1>1, <1>2, <1>3 DEF Visible

\* Wherever the walk finds argument n, the list has it at place n, counted from 0.
LEMMA PlaceFacts ==
    Tree => \A s \in DOMAIN scopes : \A n \in Nat : \A k \in ArgAt(s, n) :
        /\ Path(s)[k] \in DOMAIN scopes
        /\ k + 1 \in 1..Len(scopes)
        /\ Held(s)[k] \in Nat /\ Held(s)[k + 1] \in Nat
        /\ Held(s)[k] <= n /\ n < Held(s)[k + 1]
        /\ Held(s)[k + 1] <= Held(s)[Len(scopes)]
        /\ Visible(s)[n + 1] = arrays[scopes[Path(s)[k]].arr]
                                     [scopes[Path(s)[k]].len - (n - Held(s)[k])]
<1> SUFFICES ASSUME Tree, NEW s \in DOMAIN scopes, NEW n \in Nat, NEW k \in ArgAt(s, n)
             PROVE  /\ Path(s)[k] \in DOMAIN scopes
                    /\ k + 1 \in 1..Len(scopes)
                    /\ Held(s)[k] \in Nat /\ Held(s)[k + 1] \in Nat
                    /\ Held(s)[k] <= n /\ n < Held(s)[k + 1]
                    /\ Held(s)[k + 1] <= Held(s)[Len(scopes)]
                    /\ Visible(s)[n + 1] = arrays[scopes[Path(s)[k]].arr]
                                                 [scopes[Path(s)[k]].len - (n - Held(s)[k])]
  OBVIOUS
<1>1. PICK N \in Nat : N = Len(scopes) /\ DOMAIN scopes = 1..N
  BY TreeFacts
<1>2. k \in 0..N /\ Path(s)[k] # 0 /\ n - Held(s)[k] \in 0..(scopes[Path(s)[k]].len - 1)
  BY <1>1 DEF ArgAt
<1>3. k # N /\ k \in 0..(N - 1) /\ k + 1 \in 1..N /\ (k + 1) - 1 = k /\ k + 1 <= N
      /\ k + 1 \in 0..N
  BY <1>1, <1>2, WalkEnds
<1>4. PICK x \in 1..N : x = Path(s)[k]
  BY <1>1, <1>2, PathFacts DEF PathIsWalk
<1>5. PICK h \in Nat : h = Held(s)[k]
  BY <1>1, <1>2, HeldFacts DEF HeldIsSum
<1>6. PICK len \in Nat : len = scopes[x].len
  BY <1>1, TreeFacts
<1>7. PICK m \in 0..(len - 1) : m = n - h
  BY <1>2, <1>4, <1>5, <1>6
<1>8. Held(s)[k + 1] = h + len
  BY <1>1, <1>2, <1>3, <1>4, <1>5, <1>6, HeldFacts DEF HeldIsSum
<1>9. Held(s)[k + 1] <= Held(s)[N] /\ h <= n /\ n < h + len /\ n + 1 \in 1..(h + len)
  <2>1. Held(s)[k + 1] <= Held(s)[N]
    BY <1>1, <1>3, WalkCollects
  <2>2. n = h + m
    BY <1>7
  <2> QED BY <2>1, <2>2
<1>10. Visible(s)[n + 1] = View(s)[k + 1][n + 1]
  <2>1. \A i \in 1..Held(s)[k + 1] : View(s)[N][i] = View(s)[k + 1][i]
    BY <1>1, <1>3, WalkCollects
  <2> QED BY <1>1, <1>8, <1>9, <2>1 DEF Visible
<1>11. PICK own \in Seq(Slots) :
          /\ own = Reverse(OwnArgs(x)) /\ Len(own) = len
          /\ \A i \in 1..len : own[i] = arrays[scopes[x].arr][len - i + 1]
  BY <1>1, <1>6, OwnArgsFacts
<1>12. PICK v \in Seq(Slots) : v = View(s)[k] /\ Len(v) = h
  <2>1. View(s)[k] \in Seq(Slots)
    BY <1>1, <1>2, ViewFacts DEF ViewIsList
  <2>2. Len(View(s)[k]) = Held(s)[k]
    BY <1>1, <1>2, WalkCollects
  <2> QED BY <1>5, <2>1, <2>2
<1>13. View(s)[k + 1] = v \o own
  BY <1>1, <1>2, <1>3, <1>4, <1>11, <1>12, ViewFacts DEF ViewIsList
<1>14. (v \o own)[n + 1] = own[m + 1]
  <2>1. n + 1 \in 1..(Len(v) + Len(own)) /\ ~(n + 1 <= Len(v)) /\ n + 1 - Len(v) = m + 1
    BY <1>7, <1>9, <1>11, <1>12
  <2> QED BY <2>1, ConcatProperties
<1>15. own[m + 1] = arrays[scopes[x].arr][len - m]
  <2>1. m + 1 \in 1..len /\ len - (m + 1) + 1 = len - m
    OBVIOUS
  <2> QED BY <1>11, <2>1
<1>16. Visible(s)[n + 1] = arrays[scopes[x].arr][len - (n - h)]
  BY <1>7, <1>10, <1>13, <1>14, <1>15
<1>17. Held(s)[k + 1] \in Nat /\ n < Held(s)[k + 1]
  BY <1>8, <1>9
<1>18. /\ Path(s)[k] \in DOMAIN scopes /\ k + 1 \in 1..Len(scopes)
       /\ Held(s)[k] \in Nat /\ Held(s)[k] <= n
       /\ Held(s)[k + 1] <= Held(s)[Len(scopes)]
  BY <1>1, <1>3, <1>4, <1>5, <1>9
<1>19. Visible(s)[n + 1] = arrays[scopes[Path(s)[k]].arr]
                                [scopes[Path(s)[k]].len - (n - Held(s)[k])]
  BY <1>4, <1>5, <1>6, <1>16
<1> QED BY <1>17, <1>18, <1>19

\* The walk finds an argument for every number below the length, and for no other.
LEMMA PlaceExists ==
    Tree => \A s \in DOMAIN scopes : \A n \in Nat :
        ArgAt(s, n) # {} <=> n < Held(s)[Len(scopes)]
<1> SUFFICES ASSUME Tree, NEW s \in DOMAIN scopes, NEW n \in Nat
             PROVE  ArgAt(s, n) # {} <=> n < Held(s)[Len(scopes)]
  OBVIOUS
<1>1. PICK N \in Nat : N = Len(scopes) /\ DOMAIN scopes = 1..N
  BY TreeFacts
<1>2. PICK h \in [0..N -> Nat] : h = Held(s) /\ h[0] = 0
  BY <1>1, HeldFacts DEF HeldIsSum
<1>3. ASSUME ArgAt(s, n) # {} PROVE n < h[N]
  <2>1. PICK k \in ArgAt(s, n) : TRUE
    BY <1>3
  <2>2. h[k + 1] \in Nat /\ n < h[k + 1] /\ h[k + 1] <= h[N]
    BY <1>1, <1>2, <2>1, PlaceFacts
  <2>3. h[N] \in Nat
    BY <1>2
  <2> QED BY <2>2, <2>3
<1>4. ASSUME n < h[N] PROVE ArgAt(s, n) # {}
  <2>1. PICK T : T = {k \in 0..N : n < h[k]}
    OBVIOUS
  <2>2. T \in SUBSET Nat /\ N \in T
    BY <1>4, <2>1
  <2>3. PICK j \in T : \A k \in T : j <= k
    BY <2>2, LeastElement
  <2>4. j \in 0..N /\ n < h[j] /\ j # 0
    BY <1>2, <2>1, <2>3
  <2>5. PICK k \in 0..N : k = j - 1 /\ j \in 1..N
    BY <2>4
  <2>6. h[k] <= n
    <3>1. k \notin T
      BY <2>3, <2>4, <2>5
    <3>2. h[k] \in Nat
      BY <1>2
    <3> QED BY <2>1, <3>1, <3>2
  <2>7. PICK x \in 0..N : x = Path(s)[k]
    BY <1>1, PathFacts DEF PathIsWalk
  <2>8. h[j] = h[k] + (IF x = 0 THEN 0 ELSE scopes[x].len)
    BY <1>1, <1>2, <2>5, <2>7, HeldFacts DEF HeldIsSum
  <2>9. h[j] \in Nat /\ h[k] \in Nat
    BY <1>2, <2>4
  <2>10. x # 0
    BY <2>4, <2>6, <2>8, <2>9
  <2>11. scopes[x].len \in Nat
    BY <1>1, <2>10, TreeFacts
  <2>12. n - h[k] \in 0..(scopes[x].len - 1)
    <3>1. PICK a, b, c \in Nat : a = h[k] /\ b = h[j] /\ c = scopes[x].len
      BY <2>9, <2>11
    <3>2. b = a + c /\ a <= n /\ n < b
      BY <2>4, <2>6, <2>8, <2>10, <3>1
    <3>3. n - a \in 0..(c - 1)
      BY <3>2
    <3> QED BY <3>1, <3>3
  <2>13. k \in ArgAt(s, n)
    BY <1>1, <1>2, <2>7, <2>10, <2>12 DEF ArgAt
  <2> QED BY <2>13
<1> QED BY <1>1, <1>2, <1>3, <1>4

\* The numbered argument is the element of the list at that place.
LEMMA ArgIsElement ==
    Tree => \A s \in DOMAIN scopes : \A n \in Nat :
        n < Len(Visible(s)) => Arg(s, n) = Visible(s)[n + 1]
<1> SUFFICES ASSUME Tree, NEW s \in DOMAIN scopes, NEW n \in Nat, n < Len(Visible(s))
             PROVE  Arg(s, n) = Visible(s)[n + 1]
  OBVIOUS
<1>1. PICK k : k = CHOOSE j \in ArgAt(s, n) : TRUE
  OBVIOUS
<1>2. k \in ArgAt(s, n)
  BY <1>1, PlaceExists, VisibleFacts
<1>3. Visible(s)[n + 1] = arrays[scopes[Path(s)[k]].arr]
                               [scopes[Path(s)[k]].len - (n - Held(s)[k])]
  BY <1>2, PlaceFacts
<1> QED BY <1>1, <1>3 DEF Arg

-----------------------------------------------------------------------------
(***************************************************************************)
(* The same facts about the next state.                                    *)
(***************************************************************************)

LEMMA TreeNext ==
    (Tree =>
        /\ Len(scopes) \in Nat /\ DOMAIN scopes = 1..Len(scopes)
        /\ \A s \in DOMAIN scopes : /\ scopes[s].arr \in Nat /\ scopes[s].len \in Nat
                                    /\ scopes[s].parent \in Nat /\ scopes[s].parent < s)'
BY TreeFacts, PTL

\* The facts about walks, in the state after a step.
LEMMA PathNext == (Tree => \A s \in DOMAIN scopes : PathIsWalk(s))'
BY PathFacts, PTL

\* Likewise for the numbers passed,
LEMMA HeldNext == (Tree => \A s \in DOMAIN scopes : HeldIsSum(s))'
BY HeldFacts, PTL

\* for the list collected,
LEMMA ViewNext == (Tree => \A s \in DOMAIN scopes : ViewIsList(s))'
BY ViewFacts, PTL

\* and all of it,
LEMMA VisibleNext ==
    (Tree => \A s \in DOMAIN scopes :
        /\ Visible(s) \in Seq(Slots)
        /\ Len(Visible(s)) = Held(s)[Len(scopes)]
        /\ Held(s)[Len(scopes)] \in Nat)'
BY VisibleFacts, PTL

\* for the place where a number is found,
LEMMA PlaceNext ==
    (Tree => \A s \in DOMAIN scopes : \A n \in Nat : \A k \in ArgAt(s, n) :
        /\ Path(s)[k] \in DOMAIN scopes
        /\ k + 1 \in 1..Len(scopes)
        /\ Held(s)[k] \in Nat /\ Held(s)[k + 1] \in Nat
        /\ Held(s)[k] <= n /\ n < Held(s)[k + 1]
        /\ Held(s)[k + 1] <= Held(s)[Len(scopes)]
        /\ Visible(s)[n + 1] = arrays[scopes[Path(s)[k]].arr]
                                     [scopes[Path(s)[k]].len - (n - Held(s)[k])])'
BY PlaceFacts, PTL

\* and for the numbers that are found.
LEMMA PlaceExistsNext ==
    (Tree => \A s \in DOMAIN scopes : \A n \in Nat :
        ArgAt(s, n) # {} <=> n < Held(s)[Len(scopes)])'
BY PlaceExists, PTL

\* Where no parent changes, neither do the walks.
LEMMA SamePath ==
    ASSUME Tree, Tree', Len(scopes') = Len(scopes),
           \A t \in DOMAIN scopes : scopes'[t].parent = scopes[t].parent,
           NEW s \in DOMAIN scopes
    PROVE  Path(s)' = Path(s)
<1>1. PICK n \in Nat : n = Len(scopes) /\ n = Len(scopes') /\ DOMAIN scopes = 1..n /\ DOMAIN scopes' = 1..n
  BY TreeFacts, TreeNext
<1>2. PICK p \in [0..n -> 0..n] : p = Path(s)
  BY <1>1, PathFacts DEF PathIsWalk
<1>3. PICK q \in [0..n -> 0..n] : q = Path(s)'
  BY <1>1, PathNext DEF PathIsWalk
<1>4. p[0] = s /\ \A k \in 1..n : p[k] = IF p[k - 1] = 0 THEN 0 ELSE scopes[p[k - 1]].parent
  BY <1>1, <1>2, PathFacts DEF PathIsWalk
<1>5. q[0] = s /\ \A k \in 1..n : q[k] = IF q[k - 1] = 0 THEN 0 ELSE scopes'[q[k - 1]].parent
  BY <1>1, <1>3, PathNext DEF PathIsWalk
<1>6. PICK S : S = {k \in 0..n : q[k] = p[k]}
  OBVIOUS
<1>7. 0 \in S
  BY <1>4, <1>5, <1>6
<1>8. ASSUME NEW k \in 0..(n - 1), k \in S PROVE k + 1 \in S
  <2>1. k + 1 \in 1..n /\ (k + 1) - 1 = k /\ k \in 0..n
    OBVIOUS
  <2>2. PICK x \in 0..n : x = p[k] /\ x = q[k]
    BY <1>2, <1>6, <1>8, <2>1
  <2>3. p[k + 1] = IF x = 0 THEN 0 ELSE scopes[x].parent
    BY <1>4, <2>1, <2>2
  <2>4. q[k + 1] = IF x = 0 THEN 0 ELSE scopes'[x].parent
    BY <1>5, <2>1, <2>2
  <2>5. x # 0 => scopes'[x].parent = scopes[x].parent
    BY <1>1
  <2>6. q[k + 1] = p[k + 1] /\ k + 1 \in 0..n
    BY <2>1, <2>3, <2>4, <2>5
  <2> QED BY <1>6, <2>6
<1>9. 0..n \subseteq S
  BY <1>7, <1>8, UpTo
<1>10. \A k \in 0..n : q[k] = p[k]
  BY <1>6, <1>9
<1>11. q = p
  BY <1>10
<1> QED BY <1>2, <1>3, <1>11

\* The list that a scope sees stays the same if the scopes up to the root do: their parents and
\* what their windows hold.
LEMMA SameVisible ==
    ASSUME Tree, Tree', Len(scopes) <= Len(scopes'), NEW P \in SUBSET DOMAIN scopes,
           \A t \in P :
              /\ scopes[t].parent = 0 \/ scopes[t].parent \in P
              /\ scopes'[t].parent = scopes[t].parent
              /\ scopes'[t].len = scopes[t].len
              /\ \A i \in 1..scopes[t].len :
                    arrays'[scopes'[t].arr][i] = arrays[scopes[t].arr][i],
           NEW s \in P
    PROVE  Visible(s)' = Visible(s)
<1>1. PICK n \in Nat : n = Len(scopes) /\ DOMAIN scopes = 1..n
  BY TreeFacts
<1>2. PICK m \in Nat : m = Len(scopes') /\ DOMAIN scopes' = 1..m
  BY TreeNext
<1>3. n <= m /\ s \in DOMAIN scopes /\ s \in DOMAIN scopes'
  BY <1>1, <1>2
<1>4. PICK p : p = Path(s)
  OBVIOUS
<1>5. PICK q : q = Path(s)'
  OBVIOUS
<1>6. PICK v : v = View(s)
  OBVIOUS
<1>7. PICK w : w = View(s)'
  OBVIOUS
<1> DEFINE own(t) == [i \in 1..scopes'[t].len |-> arrays'[scopes'[t].arr][i]]
<1>8. p[0] = s /\ \A k \in 1..n : p[k] = IF p[k - 1] = 0 THEN 0 ELSE scopes[p[k - 1]].parent
  BY <1>1, <1>4, PathFacts DEF PathIsWalk
<1>9. q[0] = s /\ \A k \in 1..m : q[k] = IF q[k - 1] = 0 THEN 0 ELSE scopes'[q[k - 1]].parent
  BY <1>2, <1>3, <1>5, PathNext DEF PathIsWalk
<1>10. /\ v[0] = <<>>
       /\ \A k \in 1..n : v[k] = v[k - 1] \o (IF p[k - 1] = 0 THEN <<>> ELSE Reverse(OwnArgs(p[k - 1])))
  BY <1>1, <1>3, <1>4, <1>6, ViewFacts DEF ViewIsList
<1>11. (ViewIsList(s))'
  BY <1>3, ViewNext
<1>12. /\ w \in [0..m -> Seq(Slots')] /\ w[0] = <<>>
       /\ \A k \in 1..m : w[k] = w[k - 1] \o (IF q[k - 1] = 0 THEN <<>> ELSE Reverse(own(q[k - 1])))
  BY <1>2, <1>5, <1>7, <1>11 DEF ViewIsList, OwnArgs
<1>13. ASSUME NEW t \in P
       PROVE  OwnArgs(t) = own(t)
  <2>1. PICK b \in Nat : b = scopes[t].len /\ b = scopes'[t].len
    BY TreeFacts
  <2>2. \A i \in 1..b : arrays'[scopes'[t].arr][i] = arrays[scopes[t].arr][i]
    BY <2>1
  <2>3. OwnArgs(t) = [i \in 1..b |-> arrays[scopes[t].arr][i]]
    BY <2>1 DEF OwnArgs
  <2> QED BY <2>1, <2>2, <2>3
<1> HIDE DEF own
<1>14. PICK S : S = {k \in 0..n : q[k] = p[k] /\ p[k] \in P \cup {0} /\ w[k] = v[k]}
  OBVIOUS
<1>15. 0 \in S
  BY <1>8, <1>9, <1>10, <1>12, <1>14
<1>16. ASSUME NEW k \in 0..(n - 1), k \in S PROVE k + 1 \in S
  <2>1. k + 1 \in 1..n /\ (k + 1) - 1 = k /\ k \in 0..n /\ k + 1 \in 1..m /\ k + 1 \in 0..n
    BY <1>1, <1>2, <1>3
  <2>2. PICK x \in P \cup {0} : x = p[k] /\ x = q[k]
    BY <1>14, <1>16
  <2>3. w[k] = v[k]
    BY <1>14, <1>16
  <2>10. PICK j : j = k + 1
    OBVIOUS
  <2>11. j \in 1..n /\ j \in 1..m /\ j - 1 = k
    BY <2>1, <2>10
  <2>12. p[j] = IF p[j - 1] = 0 THEN 0 ELSE scopes[p[j - 1]].parent
    BY <1>8, <2>11, Zenon
  <2>4. p[j] = IF x = 0 THEN 0 ELSE scopes[x].parent
    BY <2>2, <2>11, <2>12, Zenon
  <2>13. q[j] = IF q[j - 1] = 0 THEN 0 ELSE scopes'[q[j - 1]].parent
    BY <1>9, <2>11, Zenon
  <2>5. q[j] = IF x = 0 THEN 0 ELSE scopes'[x].parent
    BY <2>2, <2>11, <2>13, Zenon
  <2>6. q[j] = p[j] /\ p[j] \in P \cup {0}
    BY <2>4, <2>5
  <2>14. v[j] = v[j - 1] \o (IF p[j - 1] = 0 THEN <<>> ELSE Reverse(OwnArgs(p[j - 1])))
    BY <1>10, <2>11, Zenon
  <2>7. v[j] = v[k] \o (IF x = 0 THEN <<>> ELSE Reverse(OwnArgs(x)))
    BY <2>2, <2>11, <2>14, Zenon
  <2>15. w[j] = w[j - 1] \o (IF q[j - 1] = 0 THEN <<>> ELSE Reverse(own(q[j - 1])))
    BY <1>12, <2>11, Zenon
  <2>8. w[j] = w[k] \o (IF x = 0 THEN <<>> ELSE Reverse(own(x)))
    BY <2>2, <2>11, <2>15, Zenon
  <2>9. w[j] = v[j]
    <3>1. CASE x = 0
      BY <2>3, <2>7, <2>8, <3>1
    <3>2. CASE x # 0
      <4>1. x \in P
        BY <3>2
      <4>2. OwnArgs(x) = own(x)
        BY <1>13, <4>1
      <4> QED BY <2>3, <2>7, <2>8, <3>2, <4>2
    <3> QED BY <3>1, <3>2
  <2> QED BY <1>14, <2>1, <2>6, <2>9, <2>10
<1>17. 0..n \subseteq S
  BY <1>15, <1>16, UpTo
<1>18. p[n] = 0
  BY <1>1, <1>3, <1>4, WalkEnds
<1>19. n \in S
  BY <1>17
<1>20. PICK u : u = v[n]
  OBVIOUS
<1>21. q[n] = 0 /\ w[n] = u
  BY <1>14, <1>18, <1>19, <1>20
<1>22. PICK d \in Nat : d = m - n
  BY <1>3
<1>23. PICK R : R = {k \in 0..d : q[n + k] = 0 /\ w[n + k] = u}
  OBVIOUS
<1>24. 0 \in R
  BY <1>21, <1>23
<1>25. ASSUME NEW k \in 0..(d - 1), k \in R PROVE k + 1 \in R
  <2>1. PICK j \in 0..m : j = n + k
    BY <1>22
  <2>2. j + 1 \in 1..m /\ (j + 1) - 1 = j /\ n + (k + 1) = j + 1 /\ k + 1 \in 0..d
    BY <1>22, <2>1
  <2>3. q[j] = 0 /\ w[j] = u
    BY <1>23, <1>25, <2>1
  <2>4. PICK i : i = j + 1
    OBVIOUS
  <2>5. i \in 1..m /\ i - 1 = j
    BY <2>2, <2>4
  <2>6. q[i] = (IF q[i - 1] = 0 THEN 0 ELSE scopes'[q[i - 1]].parent)
        /\ w[i] = w[i - 1] \o (IF q[i - 1] = 0 THEN <<>> ELSE Reverse(own(q[i - 1])))
    BY <1>9, <1>12, <2>5, Zenon
  <2>7. q[i] = 0 /\ w[i] = w[j] \o <<>>
    BY <2>3, <2>5, <2>6
  <2>8. w[j] \in Seq(Slots')
    BY <1>12
  <2>9. w[i] = u
    BY <2>3, <2>7, <2>8
  <2> QED BY <1>23, <2>2, <2>4, <2>7, <2>9
<1>26. 0..d \subseteq R
  BY <1>24, <1>25, UpTo
<1>27. w[m] = u
  <2>1. d \in R /\ n + d = m
    BY <1>22, <1>26
  <2> QED BY <1>23, <2>1
<1>28. Visible(s) = v[n] /\ Visible(s)' = w[m]
  BY <1>1, <1>2, <1>6, <1>7 DEF Visible
<1> QED BY <1>20, <1>27, <1>28

-----------------------------------------------------------------------------

\* A drop that ends at node k of the walk empties the nodes before it and leaves those
\* after it alone.
LEMMA DropByNode ==
    ASSUME Tree, NEW s \in DOMAIN scopes, NEW n \in Nat, DropArgs(s, n)
    PROVE  /\ Tree'
           /\ Len(scopes') = Len(scopes)
           /\ \A t \in DOMAIN scopes : scopes'[t].parent = scopes[t].parent
           /\ \E k \in DropEnds(s, n) :
                 /\ scopes'[Path(s)[k]].arr = scopes[Path(s)[k]].arr
                 /\ scopes'[Path(s)[k]].len = scopes[Path(s)[k]].len - (n - Held(s)[k])
                 /\ \A j \in 0..(Len(scopes) - 1) :
                       Path(s)[j] # 0 =>
                          /\ j < k => scopes'[Path(s)[j]].len = 0
                          /\ j > k => scopes'[Path(s)[j]] = scopes[Path(s)[j]]
<1>1. PICK N \in Nat : N = Len(scopes) /\ DOMAIN scopes = 1..N
  BY TreeFacts
<1>2. PICK L : scopes \in Seq([arr : Nat, len : Nat, parent : Nat, loc : L])
  BY DEF Tree
<1>3. PICK Node : Node = [arr : Nat, len : Nat, parent : Nat, loc : L]
  OBVIOUS
<1>4. PICK p \in [0..N -> 0..N] : p = Path(s)
  BY <1>1, PathFacts DEF PathIsWalk
<1>5. PICK k \in DropEnds(s, n) :
         scopes' = [t \in DOMAIN scopes |->
             IF t = Path(s)[k] THEN [scopes[t] EXCEPT !.len = @ - (n - Held(s)[k])]
             ELSE IF \E j \in 0..(k - 1) : Path(s)[j] = t
             THEN [scopes[t] EXCEPT !.arr = 0, !.len = 0]
             ELSE scopes[t]]
  BY DEF DropArgs
<1>6. k \in 0..N /\ p[k] # 0 /\ n - Held(s)[k] \in 0..scopes[p[k]].len
  BY <1>1, <1>4 DEF DropEnds
<1>0. k \in 0..N
  BY <1>6
<1>7. PICK m : m = n - Held(s)[k]
  OBVIOUS
<1>8. PICK passed : passed = {t \in 1..N : \E j \in 0..(k - 1) : Path(s)[j] = t}
  OBVIOUS
<1>9. \A t \in 1..N : scopes[t] \in Node
  BY <1>1, <1>2, <1>3, ElementOfSeq
<1>10. ASSUME NEW t \in 1..N
       PROVE  /\ scopes'[t] \in Node
              /\ scopes'[t].parent = scopes[t].parent
              /\ t = p[k] => /\ scopes'[t].arr = scopes[t].arr
                             /\ scopes'[t].len = scopes[t].len - m
              /\ t # p[k] /\ t \in passed => scopes'[t].len = 0
              /\ t # p[k] /\ t \notin passed => scopes'[t] = scopes[t]
  <2>1. PICK r \in Node : r = scopes[t]
    BY <1>9
  <2>2. CASE t = p[k]
    <3>1. scopes'[t] = [r EXCEPT !.len = @ - m]
      BY <1>1, <1>4, <1>5, <1>7, <2>1, <2>2
    <3>2. m \in 0..r.len /\ r.len \in Nat
      BY <1>3, <1>6, <1>7, <2>1, <2>2
    <3>3. PICK l \in Nat : l = r.len - m
      BY <3>2
    <3>4. scopes'[t] = [r EXCEPT !.len = l]
      BY <3>1, <3>3
    <3> QED BY <1>3, <2>1, <2>2, <3>3, <3>4
  <2>3. CASE t # p[k] /\ t \in passed
    <3>1. scopes'[t] = [r EXCEPT !.arr = 0, !.len = 0]
      BY <1>1, <1>4, <1>5, <1>8, <2>1, <2>3
    <3>2. PICK z \in Nat : z = 0
      OBVIOUS
    <3>0. PICK q : q = [r EXCEPT !.arr = z]
      OBVIOUS
    <3>3. q \in Node /\ q = [r EXCEPT !.arr = z] /\ q.parent = r.parent
      BY <1>3, <3>0
    <3>4. scopes'[t] = [q EXCEPT !.len = z]
      BY <1>3, <3>1, <3>2, <3>3
    <3>5. scopes'[t] \in Node /\ scopes'[t].parent = r.parent /\ scopes'[t].len = z
      BY <1>3, <3>3, <3>4
    <3> QED BY <2>1, <2>3, <3>2, <3>5
  <2>4. CASE t # p[k] /\ t \notin passed
    <3>1. scopes'[t] = r
      BY <1>1, <1>4, <1>5, <1>8, <2>1, <2>4
    <3> QED BY <2>1, <2>4, <3>1
  <2> QED BY <2>2, <2>3, <2>4
<1>11. scopes' \in Seq(Node) /\ Len(scopes') = N /\ DOMAIN scopes' = 1..N
  <2>1. DOMAIN scopes' = 1..N /\ scopes' = [t \in 1..N |-> scopes'[t]]
    BY <1>1, <1>5
  <2>2. scopes' \in [1..N -> Node]
    BY <1>10, <2>1
  <2> QED BY <2>1, <2>2
<1>12. Tree'
  BY <1>1, <1>3, <1>10, <1>11, TreeFacts DEF Tree
<1>13. ASSUME NEW j \in 0..(N - 1), p[j] # 0
       PROVE  /\ j < k => scopes'[p[j]].len = 0
              /\ j > k => scopes'[p[j]] = scopes[p[j]]
  <2>1. j \in 0..N /\ p[j] \in 1..N
    BY <1>4, <1>13
  <2>2. ASSUME j < k PROVE scopes'[p[j]].len = 0
    <3>1. p[k] + (k - j) <= p[j]
      BY <1>1, <1>4, <1>6, <2>1, <2>2, WalkDescends
    <3>2. p[j] # p[k]
      BY <1>4, <1>6, <2>1, <2>2, <3>1
    <3>3. p[j] \in passed
      BY <1>4, <1>6, <1>8, <2>1, <2>2
    <3> QED BY <1>10, <2>1, <3>2, <3>3
  <2>3. ASSUME j > k PROVE scopes'[p[j]] = scopes[p[j]]
    <3>1. ASSUME NEW i \in 0..k PROVE p[i] # p[j]
      <4>1. i < j /\ i \in 0..N
        BY <1>0, <2>3
      <4>2. p[j] + (j - i) <= p[i]
        BY <1>1, <1>4, <1>13, <2>1, <4>1, WalkDescends
      <4> QED BY <1>4, <2>1, <4>1, <4>2
    <3>2. p[j] # p[k]
      BY <1>6, <3>1
    <3>3. p[j] \notin passed
      BY <1>4, <1>6, <1>8, <3>1
    <3> QED BY <1>10, <2>1, <3>2, <3>3
  <2> QED BY <2>2, <2>3
<1>14. /\ scopes'[p[k]].arr = scopes[p[k]].arr
       /\ scopes'[p[k]].len = scopes[p[k]].len - (n - Held(s)[k])
  BY <1>4, <1>6, <1>7, <1>10
<1> QED BY <1>1, <1>4, <1>10, <1>11, <1>12, <1>13, <1>14

\* Such a drop changes what the walk has passed at its nodes: nothing as far as the
\* node where the drop ends, and n less after it.
LEMMA DropHeld ==
    ASSUME Tree, NEW s \in DOMAIN scopes, NEW n \in Nat, DropArgs(s, n)
    PROVE  \E k \in 0..(Len(scopes) - 1), last \in DOMAIN scopes, m \in Nat :
              /\ m <= scopes[last].len
              /\ last = Path(s)[k] /\ m = n - Held(s)[k]
              /\ scopes'[last].arr = scopes[last].arr
              /\ scopes'[last].len = scopes[last].len - m
              /\ \A j \in 0..(Len(scopes) - 1) : \A x \in DOMAIN scopes :
                    x = Path(s)[j] => /\ j < k => scopes'[x].len = 0
                                      /\ j > k => scopes'[x] = scopes[x]
              /\ \A j \in 0..Len(scopes) :
                    Held(s)'[j] = IF j <= k THEN 0 ELSE Held(s)[j] - n
<1>1. PICK N \in Nat : N = Len(scopes) /\ DOMAIN scopes = 1..N
  BY TreeFacts
<1>2. PICK k \in DropEnds(s, n) :
         /\ scopes'[Path(s)[k]].arr = scopes[Path(s)[k]].arr
         /\ scopes'[Path(s)[k]].len = scopes[Path(s)[k]].len - (n - Held(s)[k])
         /\ \A j \in 0..(Len(scopes) - 1) :
               Path(s)[j] # 0 =>
                  /\ j < k => scopes'[Path(s)[j]].len = 0
                  /\ j > k => scopes'[Path(s)[j]] = scopes[Path(s)[j]]
  BY DropByNode
<1>3. /\ Tree' /\ Len(scopes') = N /\ DOMAIN scopes' = 1..N /\ arrays' = arrays
      /\ Path(s)' = Path(s)
  <2>1. Tree' /\ Len(scopes') = N /\ Path(s)' = Path(s)
    BY <1>1, DropByNode, SamePath
  <2> QED BY <2>1, TreeNext DEF DropArgs
<1>4. PICK p \in [0..N -> 0..N] : p = Path(s) /\ p = Path(s)'
  BY <1>1, <1>3, PathFacts DEF PathIsWalk
<1>5. PICK h \in [0..N -> Nat] : h = Held(s) /\ h[0] = 0
  BY <1>1, HeldFacts DEF HeldIsSum
<1>6. PICK g \in [0..N -> Nat] : g = Held(s)' /\ g[0] = 0
  BY <1>1, <1>3, HeldNext DEF HeldIsSum
<1>7. k \in 0..N /\ p[k] # 0
  BY <1>1, <1>4 DEF DropEnds
<1>8. k # N
  BY <1>1, <1>4, <1>7, WalkEnds
<1>9. PICK last \in 1..N : last = p[k]
  BY <1>4, <1>7
<1>10. PICK len \in Nat : len = scopes[last].len
  BY <1>1, TreeFacts
<1>11. PICK m \in 0..len : m = n - h[k]
  BY <1>4, <1>5, <1>9, <1>10 DEF DropEnds
<1>12. scopes'[last].len = len - m /\ scopes'[last].arr = scopes[last].arr
  BY <1>2, <1>4, <1>5, <1>9, <1>10, <1>11
<1>13. ASSUME NEW j \in 0..(N - 1), NEW x \in 1..N, x = p[j]
       PROVE  /\ j < k => scopes'[x].len = 0
              /\ j > k => scopes'[x] = scopes[x]
  <2>1. x # 0
    OBVIOUS
  <2> QED BY <1>1, <1>2, <1>4, <1>13, <2>1
<1>14. \A i \in 1..N : h[i] = h[i - 1] + (IF p[i - 1] = 0 THEN 0 ELSE scopes[p[i - 1]].len)
  BY <1>1, <1>4, <1>5, HeldFacts DEF HeldIsSum
<1>15. \A i \in 1..N : g[i] = g[i - 1] + (IF p[i - 1] = 0 THEN 0 ELSE scopes'[p[i - 1]].len)
  BY <1>1, <1>3, <1>4, <1>6, HeldNext DEF HeldIsSum
<1>16. \A x \in 1..N : scopes[x].len \in Nat /\ scopes'[x].len \in Nat
  BY <1>1, <1>3, TreeFacts, TreeNext
<1>17. PICK S : S = {i \in 0..N : g[i] = IF i <= k THEN 0 ELSE h[i] - n}
  OBVIOUS
<1>18. 0 \in S
  BY <1>6, <1>7, <1>17
<1>19. ASSUME NEW i \in 0..(N - 1), i \in S PROVE i + 1 \in S
  <2>1. i + 1 \in 1..N /\ (i + 1) - 1 = i /\ i \in 0..N /\ i + 1 \in 0..N
    OBVIOUS
  <2>2. PICK x \in 0..N : x = p[i]
    BY <1>4, <2>1
  <2>3. PICK a \in Nat : a = h[i]
    BY <1>5, <2>1
  <2>4. PICK b \in Nat : b = g[i]
    BY <1>6, <2>1
  <2>0. x # 0 => x \in 1..N /\ scopes[x].len \in Nat /\ scopes'[x].len \in Nat
    <3>1. x # 0 => x \in 1..N
      OBVIOUS
    <3> QED BY <1>16, <3>1
  <2>5. PICK o \in Nat : o = (IF x = 0 THEN 0 ELSE scopes[x].len)
    BY <2>0
  <2>6. PICK q \in Nat : q = (IF x = 0 THEN 0 ELSE scopes'[x].len)
    BY <2>0
  <2>7. h[i + 1] = a + o
    BY <1>14, <2>1, <2>2, <2>3, <2>5
  <2>8. g[i + 1] = b + q
    BY <1>15, <2>1, <2>2, <2>4, <2>6
  <2>9. b = IF i <= k THEN 0 ELSE a - n
    BY <1>17, <1>19, <2>3, <2>4
  <2>10. k \in Nat
    BY <1>7
  <2>11. b + q = IF i + 1 <= k THEN 0 ELSE (a + o) - n
    <3>1. CASE i < k
      <4>1. q = 0
        BY <1>13, <2>2, <2>6, <2>0, <3>1
      <4> QED BY <2>9, <2>10, <3>1, <4>1
    <3>2. CASE i = k
      <4>1. x = last /\ x # 0
        BY <1>9, <2>2, <3>2
      <4>2. o = len /\ q = len - m
        BY <1>10, <1>12, <2>5, <2>6, <4>1
      <4>3. m = n - a
        BY <1>11, <2>3, <3>2
      <4> QED BY <2>9, <2>10, <3>2, <4>2, <4>3
    <3>3. CASE i > k
      <4>1. q = o
        BY <1>13, <2>2, <2>5, <2>6, <2>0, <3>3
      <4>2. ~(i <= k) /\ ~(i + 1 <= k)
        BY <2>10, <3>3
      <4>3. b = a - n
        BY <2>9, <4>2
      <4> QED BY <4>1, <4>2, <4>3
    <3> QED BY <2>10, <3>1, <3>2, <3>3
  <2>12. g[i + 1] = IF i + 1 <= k THEN 0 ELSE h[i + 1] - n
    BY <2>7, <2>8, <2>11
  <2> QED BY <1>17, <2>1, <2>12
<1>20. 0..N \subseteq S
  BY <1>18, <1>19, UpTo
<1>21. \A j \in 0..N : g[j] = IF j <= k THEN 0 ELSE h[j] - n
  BY <1>17, <1>20
<1>22. k \in 0..(N - 1)
  BY <1>7, <1>8
<1>23. /\ last = Path(s)[k] /\ m = n - Held(s)[k] /\ last \in DOMAIN scopes
       /\ m \in Nat /\ m <= scopes[last].len
       /\ scopes'[last].arr = scopes[last].arr /\ scopes'[last].len = scopes[last].len - m
  BY <1>1, <1>4, <1>5, <1>9, <1>10, <1>11, <1>12
<1>24. \A j \in 0..(N - 1) : \A x \in DOMAIN scopes :
          x = Path(s)[j] => /\ j < k => scopes'[x].len = 0
                            /\ j > k => scopes'[x] = scopes[x]
  BY <1>1, <1>4, <1>13
<1>25. \A j \in 0..N : Held(s)'[j] = IF j <= k THEN 0 ELSE Held(s)[j] - n
  BY <1>5, <1>6, <1>21
<1> QED BY <1>1, <1>22, <1>23, <1>24, <1>25

\* A sequence that has the elements of another one from n + 1 on is that part of it.
LEMMA CutIsSubSeq ==
    ASSUME NEW S, NEW old \in Seq(S), NEW T, NEW new \in Seq(T), NEW n \in Nat,
           Len(new) = Len(old) - n,
           \A i \in Nat : i < Len(new) => new[i + 1] = old[n + i + 1]
    PROVE  new = SubSeq(old, n + 1, Len(old))
<1>1. PICK total \in Nat : total = Len(old)
  OBVIOUS
<1>2. PICK l \in Nat : l = Len(new)
  OBVIOUS
<1>3. PICK b \in Nat : b = n + 1
  OBVIOUS
<1>4. PICK cut : cut = SubSeq(old, b, total)
  OBVIOUS
<1>5. \A i \in b..total : old[i] \in S
  BY <1>1, <1>3, ElementOfSeq
<1>6. /\ cut \in Seq(S)
      /\ Len(cut) = IF b <= total THEN total - b + 1 ELSE 0
      /\ \A i \in 1..(total - b + 1) : cut[i] = old[b + i - 1]
  BY <1>4, <1>5, SubSeqProperties
<1>7. Len(cut) = l /\ total - b + 1 = l
  BY <1>1, <1>2, <1>3, <1>6
<1>8. ASSUME NEW i \in 1..l PROVE new[i] = cut[i]
  <2>1. PICK j \in Nat : j = i - 1
    OBVIOUS
  <2>2. j < l /\ i = j + 1 /\ b + i - 1 = n + j + 1
    BY <1>3, <2>1
  <2>3. new[i] = old[n + j + 1]
    BY <1>2, <2>2
  <2> QED BY <1>6, <1>7, <2>2, <2>3
<1>9. cut = [i \in 1..l |-> cut[i]] /\ new = [i \in 1..l |-> new[i]]
  BY <1>2, <1>6, <1>7
<1>10. new = cut
  BY <1>8, <1>9
<1> QED BY <1>1, <1>3, <1>4, <1>10

\* A drop of n arguments takes the first n off the list of the scope it starts at.
LEMMA DropIsCut ==
    ASSUME Tree, NEW s \in DOMAIN scopes, NEW n \in Nat, DropArgs(s, n)
    PROVE  Visible(s)' = SubSeq(Visible(s), n + 1, Len(Visible(s)))
<1>1. PICK N \in Nat : N = Len(scopes) /\ DOMAIN scopes = 1..N
  BY TreeFacts
<1>0. PICK k \in 0..(Len(scopes) - 1), last \in DOMAIN scopes, m \in Nat :
         /\ m <= scopes[last].len
         /\ last = Path(s)[k] /\ m = n - Held(s)[k]
         /\ scopes'[last].arr = scopes[last].arr
         /\ scopes'[last].len = scopes[last].len - m
         /\ \A j \in 0..(Len(scopes) - 1) : \A x \in DOMAIN scopes :
               x = Path(s)[j] => /\ j < k => scopes'[x].len = 0
                                 /\ j > k => scopes'[x] = scopes[x]
         /\ \A j \in 0..Len(scopes) : Held(s)'[j] = IF j <= k THEN 0 ELSE Held(s)[j] - n
  BY DropHeld
<1>2. /\ k \in 0..(N - 1) /\ last \in 1..N
      /\ m <= scopes[last].len
      /\ last = Path(s)[k] /\ m = n - Held(s)[k]
      /\ scopes'[last].arr = scopes[last].arr
      /\ scopes'[last].len = scopes[last].len - m
      /\ \A j \in 0..(N - 1) : \A x \in 1..N :
            x = Path(s)[j] => /\ j < k => scopes'[x].len = 0
                              /\ j > k => scopes'[x] = scopes[x]
      /\ \A j \in 0..N : Held(s)'[j] = IF j <= k THEN 0 ELSE Held(s)[j] - n
  BY <1>1, <1>0
<1>3. /\ Tree' /\ Len(scopes') = N /\ DOMAIN scopes' = 1..N /\ arrays' = arrays
      /\ Path(s)' = Path(s)
  <2>1. Tree' /\ Len(scopes') = N /\ Path(s)' = Path(s)
    BY <1>1, DropByNode, SamePath
  <2> QED BY <2>1, TreeNext DEF DropArgs
<1>4. PICK p \in [0..N -> 0..N] : p = Path(s) /\ p = Path(s)'
  BY <1>1, <1>3, PathFacts DEF PathIsWalk
<1>5. PICK h \in [0..N -> Nat] : h = Held(s)
  BY <1>1, HeldFacts DEF HeldIsSum
<1>6. PICK g \in [0..N -> Nat] : g = Held(s)'
  BY <1>1, <1>3, HeldNext DEF HeldIsSum
<1>7. p[N] = 0
  BY <1>1, <1>4, WalkEnds
<1>8. PICK old \in Seq(Slots) : old = Visible(s) /\ Len(old) = h[N]
  BY <1>1, <1>5, VisibleFacts
<1>9. PICK new \in Seq(Slots') : new = Visible(s)' /\ Len(new) = g[N]
  BY <1>1, <1>3, <1>6, VisibleNext
<1>10. PICK total, left \in Nat : total = h[N] /\ left = g[N]
  BY <1>5, <1>6
<1>11. left = total - n
  BY <1>2, <1>5, <1>6, <1>10
<1>12. ASSUME NEW i \in Nat, i < left
       PROVE  new[i + 1] = old[n + i + 1]
  <2>1. PICK j \in ArgAt(s, i)' : TRUE
    BY <1>1, <1>3, <1>6, <1>10, <1>12, PlaceExistsNext
  <2>2. j \in 0..N /\ p[j] # 0 /\ i - g[j] \in 0..(scopes'[p[j]].len - 1)
    BY <1>3, <1>4, <1>6, <2>1 DEF ArgAt
  <2>3. j \in 0..(N - 1)
    <3>1. j # N /\ j \in 0..N
      BY <1>7, <2>2
    <3> QED BY <3>1
  <2>4. PICK x \in 1..N : x = p[j]
    <3>1. PICK y \in 0..N : y = p[j]
      BY <2>2
    <3>2. y \in 1..N
      BY <2>2, <3>1
    <3> QED BY <3>1, <3>2
  <2>5. PICK l, l2 \in Nat : l = scopes[x].len /\ l2 = scopes'[x].len
    BY <1>1, <1>3, TreeFacts, TreeNext
  <2>6. PICK a \in Nat : a = h[j]
    BY <1>5, <2>2
  <2>7. PICK b \in Nat : b = g[j]
    BY <1>6, <2>2
  <2>8. i - b \in 0..(l2 - 1)
    BY <2>2, <2>4, <2>5, <2>7
  <2>9. /\ x = Path(s)[j]
        /\ j < k => l2 = 0
        /\ j > k => scopes'[x] = scopes[x]
    BY <1>2, <1>4, <2>3, <2>4, <2>5
  <2>10. b = IF j <= k THEN 0 ELSE a - n
    BY <1>2, <1>5, <1>6, <2>2, <2>6, <2>7
  <2>11. ~(j < k)
    BY <2>8, <2>9
  <2>12. new[i + 1] = arrays[scopes'[x].arr][l2 - (i - b)]
    <3>1. Visible(s)'[i + 1] = arrays'[scopes'[Path(s)'[j]].arr]
                                      [scopes'[Path(s)'[j]].len - (i - Held(s)'[j])]
      BY <1>1, <1>3, <2>1, PlaceNext
    <3>2. /\ Path(s)'[j] = x /\ Held(s)'[j] = b /\ Visible(s)' = new /\ arrays' = arrays
          /\ scopes'[x].len = l2
      BY <1>3, <1>4, <1>6, <1>9, <2>4, <2>5, <2>7
    <3> QED BY <3>1, <3>2
  <2>13. /\ scopes'[x].arr = scopes[x].arr
         /\ \/ b = 0 /\ l2 = l - m /\ m = n - a
            \/ b = a - n /\ l2 = l
    <3>1. CASE j = k
      <4>1. x = last /\ b = 0
        BY <1>2, <1>4, <2>4, <2>10, <3>1
      <4>2. l2 = l - m
        BY <1>2, <2>5, <4>1
      <4>3. m = n - a
        BY <1>2, <1>5, <2>6, <3>1
      <4> QED BY <1>2, <4>1, <4>2, <4>3
    <3>2. CASE j > k
      <4>1. scopes'[x].arr = scopes[x].arr /\ l2 = l
        BY <2>5, <2>9, <3>2
      <4>2. b = a - n
        BY <2>3, <2>10, <3>2
      <4> QED BY <4>1, <4>2
    <3> QED BY <2>3, <2>11, <3>1, <3>2
  <2>16. (n + i) - a \in 0..(l - 1) /\ l - ((n + i) - a) = l2 - (i - b)
    <3>1. PICK z \in Nat : i = b + z /\ z < l2
      BY <2>8
    <3>2. CASE b = 0 /\ l2 = l - m /\ m = n - a
      <4>1. (n + i) - a = m + z
        BY <3>1, <3>2
      <4>2. m + z \in 0..(l - 1) /\ l - (m + z) = l2 - z /\ i - b = z
        BY <3>1, <3>2
      <4> QED BY <4>1, <4>2
    <3>3. CASE b = a - n /\ l2 = l
      <4>1. (n + i) - a = z
        BY <3>1, <3>3
      <4>2. z \in 0..(l - 1) /\ l - z = l2 - z /\ i - b = z
        BY <3>1, <3>3
      <4> QED BY <4>1, <4>2
    <3> QED BY <2>13, <3>2, <3>3
  <2>14. j \in ArgAt(s, n + i)
    <3>1. (n + i) - Held(s)[j] \in 0..(scopes[Path(s)[j]].len - 1)
      BY <1>4, <1>5, <2>4, <2>5, <2>6, <2>16
    <3>2. j \in 0..Len(scopes) /\ Path(s)[j] # 0
      BY <1>1, <1>4, <2>2
    <3> QED BY <3>1, <3>2 DEF ArgAt
  <2>15. old[(n + i) + 1] = arrays[scopes[x].arr][l - ((n + i) - a)]
    <3>1. n + i \in Nat
      OBVIOUS
    <3>2. Visible(s)[(n + i) + 1] = arrays[scopes[Path(s)[j]].arr]
                                          [scopes[Path(s)[j]].len - ((n + i) - Held(s)[j])]
      BY <2>14, <3>1, PlaceFacts
    <3>3. Path(s)[j] = x /\ Held(s)[j] = a /\ Visible(s) = old /\ scopes[x].len = l
      BY <1>4, <1>5, <1>8, <2>4, <2>5, <2>6
    <3> QED BY <3>2, <3>3
  <2> QED BY <2>12, <2>13, <2>16, <2>15
<1>13. Len(new) = Len(old) - n /\ \A i \in Nat : i < Len(new) => new[i + 1] = old[n + i + 1]
  BY <1>8, <1>9, <1>10, <1>11, <1>12
<1>14. new = SubSeq(old, n + 1, Len(old))
  BY <1>13, CutIsSubSeq
<1> QED BY <1>8, <1>9, <1>14

-----------------------------------------------------------------------------
(***************************************************************************)
(* Sequences.                                                              *)
(***************************************************************************)

LEMMA FrontFacts ==
    ASSUME NEW S, NEW q \in Seq(S), q # <<>>
    PROVE  /\ Front(q) \in Seq(S)
           /\ Len(Front(q)) = Len(q) - 1
           /\ \A i \in 1..(Len(q) - 1) : Front(q)[i] = q[i]
<1>1. Len(q) \in Nat \ {0}
  BY EmptySeq
<1>2. \A i \in 1..(Len(q) - 1) : q[i] \in S
  BY <1>1, ElementOfSeq
<1> DEFINE n == Len(q) - 1
<1>3. /\ SubSeq(q, 1, n) \in Seq(S)
      /\ Len(SubSeq(q, 1, n)) = IF 1 <= n THEN n - 1 + 1 ELSE 0
      /\ \A i \in 1..(n - 1 + 1) : SubSeq(q, 1, n)[i] = q[1 + i - 1]
  <2>1. n \in Int /\ \A i \in 1..n : q[i] \in S
    BY <1>1, <1>2
  <2> HIDE DEF n
  <2> QED
    BY <2>1, SubSeqProperties
<1>4. n - 1 + 1 = n /\ \A i \in 1..n : 1 + i - 1 = i
  BY <1>1
<1>5. Len(SubSeq(q, 1, n)) = n /\ \A i \in 1..n : SubSeq(q, 1, n)[i] = q[i]
  <2> HIDE DEF n
  <2> QED
    BY <1>1, <1>3, <1>4 DEF n
<1> QED
  BY <1>3, <1>5 DEF Front

\* The last element is one.
LEMMA LastFacts ==
    ASSUME NEW S, NEW q \in Seq(S), q # <<>>
    PROVE  Len(q) \in DOMAIN q /\ Last(q) \in S /\ Last(q) = q[Len(q)]
<1>1. Len(q) \in Nat \ {0} /\ DOMAIN q = 1..Len(q)
  BY EmptySeq, LenProperties
<1> QED
  BY <1>1, ElementOfSeq DEF Last

\* A function on 1..n is a sequence of length n.
LEMMA Comprehension ==
    ASSUME NEW S, NEW n \in Nat, NEW q \in [1..n -> S]
    PROVE  q \in Seq(S) /\ Len(q) = n /\ DOMAIN q = 1..n
  OBVIOUS

-----------------------------------------------------------------------------
(***************************************************************************)
(* The operations of scope.go keep the memory well-formed, whatever the    *)
(* arguments and places are.                                               *)
(***************************************************************************)

\* Scope nodes at places of L.
Nodes(L) == [arr : Nat, len : Nat, parent : Nat, loc : L]

\* Pointers point to allocated scopes and arrays, a slice is a window on its array,
\* and a scope was allocated after its parent; slots hold members of A.
WellFormed(A, L) ==
    /\ arrays \in Seq(Seq(A))
    /\ scopes \in Seq(Nodes(L))
    /\ scopes # <<>>
    /\ \A s \in DOMAIN scopes :
          /\ scopes[s].arr <= Len(arrays)
          /\ scopes[s].len <= Cap(scopes[s].arr)
          /\ scopes[s].parent < s

\* Its scopes form a tree.
LEMMA WellFormedTree == ASSUME NEW A, NEW L, WellFormed(A, L) PROVE Tree
  BY DEF WellFormed, Tree, Nodes

\* Capacities and windows.
LEMMA Windows ==
    ASSUME NEW A, NEW L, WellFormed(A, L), NEW s \in DOMAIN scopes
    PROVE  /\ scopes[s] \in Nodes(L)
           /\ scopes[s].arr \in Nat /\ scopes[s].len \in Nat /\ scopes[s].parent \in Nat
           /\ s \in Nat \ {0}
           /\ Cap(scopes[s].arr) \in Nat
           /\ scopes[s].arr # 0 => /\ scopes[s].arr \in DOMAIN arrays
                                   /\ arrays[scopes[s].arr] \in Seq(A)
<1>1. scopes[s] \in Nodes(L) /\ s \in Nat \ {0}
  BY ElementOfSeq, LenProperties DEF WellFormed
<1>2. scopes[s].arr \in Nat /\ scopes[s].len \in Nat /\ scopes[s].parent \in Nat
  BY <1>1 DEF Nodes
<1>3. ASSUME scopes[s].arr # 0
      PROVE  scopes[s].arr \in DOMAIN arrays /\ arrays[scopes[s].arr] \in Seq(A)
  BY <1>2, <1>3, ElementOfSeq, LenProperties DEF WellFormed
<1>4. Cap(scopes[s].arr) \in Nat
  BY <1>3, LenProperties DEF Cap
<1> QED
  BY <1>1, <1>2, <1>3, <1>4

\* A scope whose slice was set to nil.
LEMMA NilSlice ==
    ASSUME NEW L, NEW r \in Nodes(L)
    PROVE  LET q == [r EXCEPT !.arr = 0, !.len = 0]
           IN  q \in Nodes(L) /\ q.arr = 0 /\ q.len = 0 /\ q.parent = r.parent
<1> DEFINE zero == 0
           q == [r EXCEPT !.arr = zero, !.len = zero]
<1>1. zero \in Nat
  OBVIOUS
<1> HIDE DEF zero
<1>2. q \in Nodes(L) /\ q.arr = zero /\ q.len = zero /\ q.parent = r.parent
  BY <1>1 DEF Nodes
<1> QED
  BY <1>2 DEF zero

\* A push keeps memory well-formed.
LEMMA PushFits ==
    ASSUME NEW A, NEW L, WellFormed(A, L), ZeroArg \in A,
           NEW s \in DOMAIN scopes, NEW v \in A, PushArg(s, v)
    PROVE  WellFormed(A, L)' /\ DOMAIN scopes' = DOMAIN scopes
<1> DEFINE a == scopes[s].arr
           n == scopes[s].len
<1>1. /\ a \in Nat /\ n \in Nat /\ Cap(a) \in Nat
      /\ arrays \in Seq(Seq(A)) /\ Len(arrays) \in Nat
      /\ DOMAIN arrays = 1..Len(arrays) /\ DOMAIN scopes = 1..Len(scopes)
  BY Windows, LenProperties DEF WellFormed
<1>2. CASE n < Cap(a)
  <2>1. a # 0 /\ a \in DOMAIN arrays /\ arrays[a] \in Seq(A) /\ n + 1 \in 1..Len(arrays[a])
    BY <1>1, <1>2, Windows DEF Cap
  <2> DEFINE filled == [arrays[a] EXCEPT ![n + 1] = v]
  <2>2. filled \in Seq(A) /\ Len(filled) = Len(arrays[a])
    BY <2>1, ExceptSeq 
  <2>3. /\ arrays' = [arrays EXCEPT ![a] = filled]
        /\ scopes' = [scopes EXCEPT ![s] = [@ EXCEPT !.len = n + 1]]
    BY <1>1, <1>2 DEF PushArg
  <2>4. /\ arrays' \in Seq(Seq(A)) /\ Len(arrays') = Len(arrays)
        /\ \A b \in 1..Len(arrays) : Len(arrays'[b]) = Len(arrays[b])
    <3> HIDE DEF filled
    <3> QED
      BY <1>1, <2>1, <2>2, <2>3, ExceptSeq
  <2>5. \A b \in 0..Len(arrays) : Cap(b)' = Cap(b)
    BY <1>1, <2>4 DEF Cap
  <2>6. scopes' \in Seq(Nodes(L)) /\ DOMAIN scopes' = DOMAIN scopes /\ scopes' # <<>>
    <3>1. [scopes[s] EXCEPT !.len = n + 1] \in Nodes(L)
      <4>1. scopes[s] \in Nodes(L) /\ n + 1 \in Nat
        BY <1>1, Windows
      <4> HIDE DEF n
      <4> QED
        BY <4>1 DEF Nodes
    <3> QED
      BY <1>1, <2>3, <3>1, ExceptSeq, LenProperties DEF WellFormed
  <2>7. ASSUME NEW t \in DOMAIN scopes
        PROVE  (/\ scopes[t].arr <= Len(arrays)
                /\ scopes[t].len <= Cap(scopes[t].arr)
                /\ scopes[t].parent < t)'
    <3>1. /\ scopes'[t].arr = scopes[t].arr /\ scopes'[t].parent = scopes[t].parent
          /\ scopes'[t].len = IF t = s THEN n + 1 ELSE scopes[t].len
      <4>1. CASE t = s
        BY <1>1, <2>3, <4>1, Windows DEF Nodes
      <4>2. CASE t # s
        BY <2>3, <4>2
      <4> QED
        BY <4>1, <4>2
    <3>2. scopes[t].arr \in 0..Len(arrays)
      BY <1>1, Windows DEF WellFormed
    <3>3. Cap(scopes[t].arr)' = Cap(scopes[t].arr)
      BY <1>1, <2>4, <3>1, <3>2 DEF Cap
    <3> QED
      BY <1>1, <1>2, <2>4, <3>1, <3>3, Windows DEF WellFormed
  <2> QED
    BY <2>4, <2>6, <2>7 DEF WellFormed
<1>3. CASE n >= Cap(a)
  <2> DEFINE grown == [i \in 1..Grown(n) |-> IF i <= n THEN arrays[a][i]
                                             ELSE IF i = n + 1 THEN v ELSE ZeroArg]
  <2>1. /\ arrays' = Append(arrays, grown)
        /\ scopes' = [scopes EXCEPT ![s] =
                         [@ EXCEPT !.arr = Len(arrays) + 1, !.len = n + 1]]
    BY <1>1, <1>3 DEF PushArg
  <2>2. Grown(n) \in Nat /\ n + 1 <= Grown(n)
    BY <1>1 DEF Grown
  <2>3. grown \in Seq(A) /\ Len(grown) = Grown(n)
    <3>1. ASSUME NEW i \in 1..Grown(n), i <= n
          PROVE  arrays[a][i] \in A
      <4>1. a # 0 /\ n = Len(arrays[a])
        BY <1>1, <1>3, <3>1 DEF Cap, WellFormed
      <4> QED
        BY <1>1, <3>1, <4>1, Windows, ElementOfSeq
    <3>2. grown \in [1..Grown(n) -> A]
      BY <3>1 
    <3> QED
      BY <2>2, <3>2, Comprehension
  <2>4. /\ arrays' \in Seq(Seq(A)) /\ Len(arrays') = Len(arrays) + 1
        /\ arrays'[Len(arrays) + 1] = grown
        /\ \A b \in 1..Len(arrays) : arrays'[b] = arrays[b]
    <3> HIDE DEF grown
    <3> QED
      BY <1>1, <2>1, <2>3, AppendProperties
  <2>5. scopes' \in Seq(Nodes(L)) /\ DOMAIN scopes' = DOMAIN scopes /\ scopes' # <<>>
    <3>1. [scopes[s] EXCEPT !.arr = Len(arrays) + 1, !.len = n + 1] \in Nodes(L)
      <4> DEFINE new == Len(arrays) + 1
      <4>1. scopes[s] \in Nodes(L) /\ n + 1 \in Nat /\ new \in Nat
        BY <1>1, Windows
      <4> HIDE DEF n, new
      <4>2. [scopes[s] EXCEPT !.arr = new, !.len = n + 1] \in Nodes(L)
        BY <4>1 DEF Nodes
      <4> QED
        BY <4>2 DEF new
    <3> QED
      BY <1>1, <2>1, <3>1, ExceptSeq, LenProperties DEF WellFormed
  <2>6. ASSUME NEW t \in DOMAIN scopes
        PROVE  (/\ scopes[t].arr <= Len(arrays)
                /\ scopes[t].len <= Cap(scopes[t].arr)
                /\ scopes[t].parent < t)'
    <3>1. CASE t = s
      <4>1. /\ scopes'[t].arr = Len(arrays) + 1 /\ scopes'[t].len = n + 1
            /\ scopes'[t].parent = scopes[t].parent
        BY <1>1, <2>1, <3>1, Windows DEF Nodes
      <4>2. Cap(scopes[t].arr)' = Grown(n)
        <5> HIDE DEF grown, n, a
        <5> QED
          BY <1>1, <2>3, <2>4, <4>1 DEF Cap
      <4> QED
        BY <1>1, <2>2, <2>4, <4>1, <4>2 DEF WellFormed
    <3>2. CASE t # s
      <4>1. scopes'[t] = scopes[t]
        BY <2>1, <3>2
      <4>2. scopes[t].arr \in 0..Len(arrays)
        BY <1>1, Windows DEF WellFormed
      <4>3. Cap(scopes[t].arr)' = Cap(scopes[t].arr)
        BY <1>1, <2>4, <4>1, <4>2 DEF Cap
      <4> QED
        BY <1>1, <2>4, <4>1, <4>2, <4>3 DEF WellFormed
    <3> QED
      BY <3>1, <3>2
  <2> QED
    BY <2>4, <2>5, <2>6 DEF WellFormed
<1> QED
  BY <1>1, <1>2, <1>3

\* A drop only shortens windows, or resets them.
LEMMA DropFits ==
    ASSUME NEW A, NEW L, WellFormed(A, L), NEW s \in DOMAIN scopes, NEW n \in Nat, DropArgs(s, n)
    PROVE  /\ WellFormed(A, L)'
           /\ arrays' = arrays
           /\ DOMAIN scopes' = DOMAIN scopes
           /\ \A t \in DOMAIN scopes :
                 \/ scopes'[t].arr = 0 /\ scopes'[t].len = 0
                 \/ scopes'[t].arr = scopes[t].arr /\ scopes'[t].len \in 0..scopes[t].len
<1>1. PICK k \in DropEnds(s, n) :
         scopes' = [t \in DOMAIN scopes |->
             IF t = Path(s)[k] THEN [scopes[t] EXCEPT !.len = @ - (n - Held(s)[k])]
             ELSE IF \E j \in 0..(k - 1) : Path(s)[j] = t
             THEN [scopes[t] EXCEPT !.arr = 0, !.len = 0]
             ELSE scopes[t]]
  BY DEF DropArgs
<1> DEFINE m == n - Held(s)[k]
           last == Path(s)[k]
           passed(t) == \E j \in 0..(k - 1) : Path(s)[j] = t
<1>2. m \in 0..scopes[last].len /\ UNCHANGED arrays
  BY DEF DropEnds, DropArgs
<1>3. DOMAIN scopes' = 1..Len(scopes) /\ Len(scopes) \in Nat /\ DOMAIN scopes = 1..Len(scopes)
  BY <1>1, LenProperties DEF WellFormed
<1>4. ASSUME NEW t \in DOMAIN scopes
      PROVE  /\ scopes'[t] \in Nodes(L)
             /\ scopes'[t].parent = scopes[t].parent
             /\ \/ scopes'[t].arr = 0 /\ scopes'[t].len = 0
                \/ scopes'[t].arr = scopes[t].arr /\ scopes'[t].len \in 0..scopes[t].len
  <2>0. scopes[t] \in Nodes(L)
    BY Windows
  <2> HIDE DEF m, last, passed
  <2>1. CASE t = last
    <3>1. scopes'[t] = [scopes[t] EXCEPT !.len = @ - m]
      BY <1>1, <2>1 DEF m, last
    <3>2. scopes[t].len - m \in Nat /\ scopes[t].len - m \in 0..scopes[t].len
      BY <1>2, <2>0, <2>1 DEF Nodes
    <3> QED
      BY <2>0, <3>1, <3>2 DEF Nodes
  <2>2. CASE t # last /\ passed(t)
    <3>1. scopes'[t] = [scopes[t] EXCEPT !.arr = 0, !.len = 0]
      BY <1>1, <2>2 DEF last, passed
    <3>2. /\ scopes'[t] \in Nodes(L) /\ scopes'[t].parent = scopes[t].parent
          /\ scopes'[t].arr = 0 /\ scopes'[t].len = 0
      BY <2>0, <3>1, NilSlice
    <3> QED
      BY <3>2
  <2>3. CASE t # last /\ ~passed(t)
    <3>1. scopes'[t] = scopes[t]
      BY <1>1, <2>3 DEF last, passed
    <3> QED
      BY <2>0, <3>1 DEF Nodes
  <2> QED
    BY <2>1, <2>2, <2>3
<1>5. scopes' \in Seq(Nodes(L)) /\ Len(scopes') = Len(scopes) /\ scopes' # <<>>
  <2>1. scopes' \in [1..Len(scopes) -> Nodes(L)]
    <3>1. scopes' = [t \in 1..Len(scopes) |-> scopes'[t]]
      BY <1>1, <1>3
    <3> QED
      BY <1>3, <1>4, <3>1
  <2> QED
    <3>1. Len(scopes) # 0
      BY EmptySeq DEF WellFormed
    <3>2. scopes' \in Seq(Nodes(L)) /\ Len(scopes') = Len(scopes)
      BY <1>3, <2>1, Comprehension
    <3> QED
      BY <3>1, <3>2, EmptySeq
<1>6. ASSUME NEW t \in DOMAIN scopes
      PROVE  (/\ scopes[t].arr <= Len(arrays)
              /\ scopes[t].len <= Cap(scopes[t].arr)
              /\ scopes[t].parent < t)'
  <2>1. /\ scopes[t].arr <= Len(arrays) /\ scopes[t].len <= Cap(scopes[t].arr)
        /\ scopes[t].parent < t /\ scopes[t].arr \in Nat /\ scopes[t].len \in Nat
        /\ Cap(scopes[t].arr) \in Nat /\ Len(arrays) \in Nat
    BY Windows, LenProperties DEF WellFormed
  <2> QED
    BY <1>2, <1>4, <2>1 DEF Cap
<1> QED
  BY <1>2, <1>3, <1>4, <1>5, <1>6 DEF WellFormed

\* A shift adds nodes without arguments, and changes none.
LEMMA ShiftFits ==
    ASSUME NEW A, NEW L, WellFormed(A, L), NEW s \in DOMAIN scopes, NEW m \in Nat \ {0},
           NEW locs \in [1..m -> L], Shift(s, locs)
    PROVE  /\ WellFormed(A, L)'
           /\ arrays' = arrays
           /\ Len(scopes') = Len(scopes) + m
           /\ \A t \in DOMAIN scopes : t \in DOMAIN scopes' /\ scopes'[t] = scopes[t]
           /\ \A t \in DOMAIN scopes' \ DOMAIN scopes :
                 scopes'[t].arr = 0 /\ scopes'[t].len = 0
<1> DEFINE n == Len(scopes)
           node(i) == [arr |-> 0, len |-> 0, loc |-> locs[i],
                       parent |-> IF i = 1 THEN s ELSE n + i - 1]
           nodes == [i \in 1..m |-> node(i)]
<1>1. /\ n \in Nat \ {0} /\ DOMAIN scopes = 1..n /\ s \in 1..n
      /\ scopes \in Seq(Nodes(L))
  BY LenProperties, EmptySeq DEF WellFormed
<1>2. Len(locs) = m
  OBVIOUS
<1>3. scopes' = scopes \o nodes /\ arrays' = arrays
  BY <1>2 DEF Shift
<1>4. ASSUME NEW i \in 1..m
      PROVE  /\ node(i) \in Nodes(L) /\ node(i).arr = 0 /\ node(i).len = 0
             /\ node(i).parent = IF i = 1 THEN s ELSE n + i - 1
  <2>1. (IF i = 1 THEN s ELSE n + i - 1) \in Nat
    BY <1>1
  <2>2. locs[i] \in L
    OBVIOUS
  <2> QED
    BY <2>1, <2>2 DEF Nodes
<1> HIDE DEF node
<1>5. nodes \in Seq(Nodes(L)) /\ Len(nodes) = m /\ \A i \in 1..m : nodes[i] = node(i)
  <2>1. nodes \in [1..m -> Nodes(L)]
    BY <1>4
  <2> QED
    BY <2>1, Comprehension
<1> HIDE DEF nodes
<1>6. /\ scopes' \in Seq(Nodes(L)) /\ Len(scopes') = n + m
      /\ \A t \in 1..(n + m) : scopes'[t] = IF t <= n THEN scopes[t] ELSE nodes[t - n]
  BY <1>1, <1>3, <1>5, ConcatProperties
<1>7. DOMAIN scopes' = 1..(n + m) /\ scopes' # <<>>
  BY <1>1, <1>6, LenProperties, EmptySeq
<1>8. ASSUME NEW t \in DOMAIN scopes
      PROVE  t \in DOMAIN scopes' /\ scopes'[t] = scopes[t]
  BY <1>1, <1>6, <1>7
<1>9. ASSUME NEW t \in DOMAIN scopes' \ DOMAIN scopes
      PROVE  scopes'[t].arr = 0 /\ scopes'[t].len = 0 /\ scopes'[t].parent < t
  <2>1. t \in (n + 1)..(n + m)
    BY <1>1, <1>7
  <2>2. PICK i \in 1..m : t = n + i /\ t - n = i
    <3>1. t - n \in 1..m /\ t = n + (t - n)
      BY <1>1, <2>1
    <3> QED
      BY <3>1
  <2>3. scopes'[t] = node(i)
    <3>1. ~(t <= n) /\ t \in 1..(n + m)
      BY <1>1, <2>1
    <3>2. scopes'[t] = nodes[t - n]
      BY <1>6, <3>1
    <3> QED
      BY <1>5, <2>2, <3>2
  <2>4. n + i - 1 < t /\ s < t
    BY <1>1, <2>1, <2>2
  <2> QED
    BY <1>4, <2>3, <2>4
<1>10. ASSUME NEW t \in DOMAIN scopes'
       PROVE  (/\ scopes[t].arr <= Len(arrays)
               /\ scopes[t].len <= Cap(scopes[t].arr)
               /\ scopes[t].parent < t)'
  <2>1. CASE t \in DOMAIN scopes
    BY <1>3, <1>8, <2>1 DEF WellFormed, Cap
  <2>2. CASE t \notin DOMAIN scopes
    <3>1. Len(arrays) \in Nat
      BY LenProperties DEF WellFormed
    <3> QED
      BY <1>3, <1>9, <2>2, <3>1 DEF Cap
  <2> QED
    BY <2>1, <2>2
<1> QED
  BY <1>3, <1>6, <1>7, <1>8, <1>9, <1>10 DEF WellFormed

\* A shift to the parent adds a copy.
LEMMA ParentFits ==
    ASSUME NEW A, NEW L, WellFormed(A, L), NEW s \in DOMAIN scopes, ShiftToParent(s)
    PROVE  /\ WellFormed(A, L)'
           /\ \A t \in DOMAIN scopes : t \in DOMAIN scopes'
           /\ Len(scopes') \in DOMAIN scopes'
<1> DEFINE n == Len(scopes)
           p == scopes[s].parent
<1>1. /\ n \in Nat \ {0} /\ DOMAIN scopes = 1..n /\ s \in 1..n
      /\ scopes \in Seq(Nodes(L)) /\ Len(arrays) \in Nat
  BY LenProperties, EmptySeq DEF WellFormed
<1>2. p \in 1..n /\ scopes[p] \in Nodes(L) /\ arrays' = arrays
  BY <1>1, Windows, ElementOfSeq DEF WellFormed, ShiftToParent
<1>3. /\ scopes' \in Seq(Nodes(L)) /\ scopes' # <<>> /\ Len(scopes') = n + 1
      /\ DOMAIN scopes' = 1..(n + 1)
      /\ \A t \in 1..n : scopes'[t] = scopes[t]
      /\ scopes'[n + 1] = scopes[p]
  BY <1>1, <1>2, AppendProperties, LenProperties DEF ShiftToParent
<1>4. ASSUME NEW t \in DOMAIN scopes'
      PROVE  (/\ scopes[t].arr <= Len(arrays)
              /\ scopes[t].len <= Cap(scopes[t].arr)
              /\ scopes[t].parent < t)'
  <2>1. CASE t \in 1..n
    BY <1>1, <1>2, <1>3, <2>1 DEF WellFormed, Cap
  <2>2. CASE t = n + 1
    <3>1. scopes[p].parent < p /\ scopes[p].parent \in Nat
      BY <1>1, <1>2, Windows DEF WellFormed
    <3> QED
      BY <1>1, <1>2, <1>3, <2>2, <3>1 DEF WellFormed, Cap
  <2> QED
    BY <1>3, <2>1, <2>2
<1> QED
  BY <1>1, <1>2, <1>3, <1>4 DEF WellFormed

\* Init of the root scope leaves its arguments alone.
LEMMA RootFits ==
    ASSUME NEW A, NEW L, WellFormed(A, L), NEW r \in L, InitRoot(r), UNCHANGED arrays
    PROVE  /\ WellFormed(A, L)'
           /\ DOMAIN scopes' = DOMAIN scopes /\ 1 \in DOMAIN scopes
           /\ \A t \in DOMAIN scopes :
                 scopes'[t].arr = scopes[t].arr /\ scopes'[t].len = scopes[t].len
<1>1. /\ Len(scopes) \in Nat \ {0} /\ DOMAIN scopes = 1..Len(scopes)
      /\ scopes \in Seq(Nodes(L)) /\ 1 \in DOMAIN scopes
  BY LenProperties, EmptySeq DEF WellFormed
<1> DEFINE root == [scopes[1] EXCEPT !.loc = r, !.parent = 0]
<1>2. /\ root \in Nodes(L) /\ root.arr = scopes[1].arr /\ root.len = scopes[1].len
      /\ root.parent = 0
  <2>1. scopes[1] \in Nodes(L) /\ r \in L
    BY <1>1, Windows
  <2> QED
    BY <2>1 DEF Nodes
<1>3. scopes' = [scopes EXCEPT ![1] = root]
  BY DEF InitRoot
<1> HIDE DEF root
<1>4. /\ scopes' \in Seq(Nodes(L)) /\ DOMAIN scopes' = DOMAIN scopes /\ scopes' # <<>>
      /\ \A t \in DOMAIN scopes : scopes'[t] = IF t = 1 THEN root ELSE scopes[t]
  BY <1>1, <1>2, <1>3, ExceptSeq, EmptySeq
<1>5. ASSUME NEW t \in DOMAIN scopes
      PROVE  (/\ scopes[t].arr <= Len(arrays)
              /\ scopes[t].len <= Cap(scopes[t].arr)
              /\ scopes[t].parent < t)'
  BY <1>1, <1>2, <1>4 DEF WellFormed, Cap
<1> QED
  BY <1>1, <1>2, <1>4, <1>5 DEF WellFormed

\* What append does: the slice of s grows, in its array or in a new one.
LEMMA PushWrites ==
    ASSUME NEW A, NEW L, WellFormed(A, L), ZeroArg \in A,
           NEW s \in DOMAIN scopes, NEW v \in A, PushArg(s, v)
    PROVE  LET a == scopes[s].arr
               n == scopes[s].len
               b == scopes'[s].arr
           IN  /\ \A t \in DOMAIN scopes : t # s => scopes'[t] = scopes[t]
               /\ scopes'[s].len = n + 1
               /\ b = Len(arrays) + 1 \/ (b = a /\ a # 0)
               /\ \A c \in 1..Len(arrays) : c # b => arrays'[c] = arrays[c]
               /\ \A i \in 1..n : arrays'[b][i] = arrays[a][i]
               /\ arrays'[b][n + 1] = v
<1> DEFINE a == scopes[s].arr
           n == scopes[s].len
<1>1. /\ a \in Nat /\ n \in Nat /\ Cap(a) \in Nat /\ scopes[s] \in Nodes(L)
      /\ arrays \in Seq(Seq(A)) /\ Len(arrays) \in Nat
      /\ DOMAIN arrays = 1..Len(arrays) /\ DOMAIN scopes = 1..Len(scopes)
  BY Windows, LenProperties DEF WellFormed
<1>2. CASE n < Cap(a)
  <2>1. a # 0 /\ a \in DOMAIN arrays /\ arrays[a] \in Seq(A) /\ n + 1 \in 1..Len(arrays[a])
    BY <1>1, <1>2, Windows DEF Cap
  <2> DEFINE filled == [arrays[a] EXCEPT ![n + 1] = v]
             node == [scopes[s] EXCEPT !.len = n + 1]
  <2>2. /\ filled[n + 1] = v
        /\ \A i \in 1..n : filled[i] = arrays[a][i]
    <3>1. \A i \in 1..Len(arrays[a]) : filled[i] = IF i = n + 1 THEN v ELSE arrays[a][i]
      BY <2>1, ExceptSeq 
    <3> QED
      BY <1>1, <2>1, <3>1
  <2>3. node.len = n + 1 /\ node.arr = a
    BY <1>1 DEF Nodes
  <2>4. /\ arrays' = [arrays EXCEPT ![a] = filled]
        /\ scopes' = [scopes EXCEPT ![s] = node]
    BY <1>1, <1>2 DEF PushArg
  <2> HIDE DEF filled, node
  <2> QED
    BY <1>1, <2>1, <2>2, <2>3, <2>4
<1>3. CASE n >= Cap(a)
  <2> DEFINE grown == [i \in 1..Grown(n) |-> IF i <= n THEN arrays[a][i]
                                             ELSE IF i = n + 1 THEN v ELSE ZeroArg]
             new == Len(arrays) + 1
             node == [scopes[s] EXCEPT !.arr = new, !.len = n + 1]
  <2>1. n + 1 \in 1..Grown(n) /\ \A i \in 1..n : i \in 1..Grown(n)
    BY <1>1 DEF Grown
  <2>2. grown[n + 1] = v /\ \A i \in 1..n : grown[i] = arrays[a][i]
    BY <1>1, <2>1
  <2>3. node.len = n + 1 /\ node.arr = new
    BY <1>1 DEF Nodes
  <2>4. arrays' = Append(arrays, grown) /\ scopes' = [scopes EXCEPT ![s] = node]
    BY <1>1, <1>3 DEF PushArg
  <2> HIDE DEF grown, node
  <2>5. arrays'[new] = grown /\ \A c \in 1..Len(arrays) : arrays'[c] = arrays[c]
    BY <1>1, <2>4
  <2> QED
    BY <1>1, <2>2, <2>3, <2>4, <2>5
<1> QED
  BY <1>1, <1>2, <1>3

\* The slots of a window after a push, into a shared array also: those before it, or
\* the new argument.
LEMMA PushedSlots ==
    ASSUME NEW A, NEW L, WellFormed(A, L), ZeroArg \in A,
           NEW s \in DOMAIN scopes, NEW v \in A, PushArg(s, v),
           NEW t \in DOMAIN scopes, NEW i \in 1..scopes'[t].len
    PROVE  \/ arrays'[scopes'[t].arr][i] = v
           \/ /\ i \in 1..scopes[t].len
              /\ arrays'[scopes'[t].arr][i] = arrays[scopes[t].arr][i]
<1>1. PICK a \in Nat : a = scopes[s].arr
  BY Windows
<1>2. PICK n \in Nat : n = scopes[s].len
  BY Windows
<1>3. /\ Len(arrays) \in Nat /\ DOMAIN arrays = 1..Len(arrays)
      /\ arrays \in Seq(Seq(A))
      /\ scopes[t].arr \in 0..Len(arrays) /\ scopes[t].len \in Nat
      /\ scopes[t].len <= Cap(scopes[t].arr)
  BY Windows, LenProperties DEF WellFormed
<1>4. /\ t # s => scopes'[t] = scopes[t]
      /\ scopes'[s].len = n + 1
      /\ \A j \in 1..n : arrays'[scopes'[s].arr][j] = arrays[a][j]
      /\ arrays'[scopes'[s].arr][n + 1] = v
  BY <1>1, <1>2, PushWrites
<1>5. CASE t = s
  <2>1. i \in 1..n \/ i = n + 1
    BY <1>4, <1>5
  <2> QED BY <1>1, <1>2, <1>4, <1>5, <2>1
<1>6. CASE t # s
  <2>1. PICK c \in 0..Len(arrays) : c = scopes[t].arr
    BY <1>3
  <2>2. i \in 1..scopes[t].len /\ c = scopes'[t].arr
    BY <1>4, <1>6, <2>1
  <2>3. c # 0 /\ i \in 1..Len(arrays[c]) /\ arrays[c] \in Seq(A)
    <3>1. c # 0
      BY <1>3, <2>1, <2>2 DEF Cap
    <3>2. arrays[c] \in Seq(A) /\ scopes[t].len <= Len(arrays[c])
      BY <1>3, <2>1, <3>1, ElementOfSeq DEF Cap
    <3> QED BY <1>3, <2>2, <3>1, <3>2, LenProperties
  <2>4. CASE n < Cap(a)
    <3>1. a # 0 /\ a \in DOMAIN arrays
      BY <1>1, <1>2, <2>4, Windows DEF Cap
    <3>2. arrays' = [arrays EXCEPT ![a] = [@ EXCEPT ![n + 1] = v]]
      BY <1>1, <1>2, <2>4, Windows DEF PushArg
    <3>3. PICK q : q = [arrays[a] EXCEPT ![n + 1] = v]
      OBVIOUS
    <3>4. c # a => arrays'[c] = arrays[c]
      BY <1>3, <2>3, <3>2
    <3>5. c = a => arrays'[c] = q
      BY <3>1, <3>2, <3>3
    <3>6. c = a => i \in DOMAIN arrays[a]
      BY <2>3, LenProperties
    <3>7. c = a => q[i] = IF i = n + 1 THEN v ELSE arrays[a][i]
      BY <3>3, <3>6
    <3> QED BY <2>1, <2>2, <3>4, <3>5, <3>7
  <2>5. CASE ~(n < Cap(a))
    <3>1. n >= Cap(a)
      BY <1>1, <2>5, Windows
    <3>2. PICK q : arrays' = Append(arrays, q)
      BY <1>1, <1>2, <2>5, <3>1 DEF PushArg
    <3>3. arrays'[c] = arrays[c]
      BY <1>3, <2>3, <3>2
    <3> QED BY <2>1, <2>2, <3>3
  <2> QED BY <2>4, <2>5
<1> QED BY <1>5, <1>6

\* Every scope is the copy of one, after a shift to the parent.
LEMMA ParentCopies ==
    ASSUME NEW A, NEW L, WellFormed(A, L), NEW s \in DOMAIN scopes, ShiftToParent(s)
    PROVE  /\ arrays' = arrays
           /\ \A t \in DOMAIN scopes' : \E u \in DOMAIN scopes : scopes'[t] = scopes[u]
<1>1. /\ scopes[s].parent \in DOMAIN scopes /\ arrays' = arrays
      /\ scopes' = Append(scopes, scopes[scopes[s].parent])
      /\ DOMAIN scopes = 1..Len(scopes) /\ Len(scopes) \in Nat
  <2>1. DOMAIN scopes = 1..Len(scopes) /\ Len(scopes) \in Nat
    BY LenProperties DEF WellFormed
  <2>2. scopes[s].parent \in Nat /\ scopes[s].parent # 0 /\ scopes[s].parent < s
    BY Windows DEF ShiftToParent, WellFormed
  <2> QED BY <2>1, <2>2 DEF ShiftToParent
<1>2. PICK p \in DOMAIN scopes : scopes' = Append(scopes, scopes[p])
  BY <1>1
<1>3. ASSUME NEW t \in DOMAIN scopes'
      PROVE  \E u \in DOMAIN scopes : scopes'[t] = scopes[u]
  <2>1. PICK r \in Nodes(L) : r = scopes[p]
    BY Windows
  <2>2. /\ Len(scopes') = Len(scopes) + 1 /\ DOMAIN scopes' = 1..(Len(scopes) + 1)
        /\ \A i \in 1..Len(scopes) : scopes'[i] = scopes[i]
        /\ scopes'[Len(scopes) + 1] = r
    BY <1>2, <2>1, AppendProperties, LenProperties DEF WellFormed
  <2>3. t \in 1..Len(scopes) \/ t = Len(scopes) + 1
    BY <1>1, <2>2
  <2> QED BY <1>1, <2>1, <2>2, <2>3
<1> QED BY <1>1, <1>3
=============================================================================
