--------------------------- MODULE EvalScopeProofs ---------------------------
(***************************************************************************)
(* What evaluations do to the scopes and arguments of those around them:   *)
(* that those in subscopes keep them and ranges remove their own, in       *)
(* programs without drop_args; and, in those that have it too, that the    *)
(* memory is well-formed after every step, and that arguments are numbered *)
(* as they are written.                                                    *)
(***************************************************************************)
EXTENDS EvalProofs, ScopeProofs

-----------------------------------------------------------------------------
(***************************************************************************)
(* Nested evaluations.  There are n of them; evaluation d is in scope      *)
(* at[d], and                                                              *)
(*                                                                         *)
(*    owe[d]   arguments of its scope are those that it pushed for an      *)
(*             element of a range,                                         *)
(*    sub[d]   says whether it was evaluated in a subscope,                *)
(*    base[d]  arguments of its scope lie below them: what it and those    *)
(*             that it calls leave alone,                                  *)
(*    up[d]    is a set of scopes with those on its walk to the root.      *)
(*                                                                         *)
(* Copies of scopes share arrays, and two that do are both written to only *)
(* if one evaluation can end in one of them and another one in the other.  *)
(* None can: of two scopes that share an array, both on walks of active    *)
(* evaluations, the newer one is on the walk of a later evaluation alone,  *)
(* it is no shorter, and evaluations in it only touch what is beyond the   *)
(* arguments of the other one (Apart).                                     *)
(***************************************************************************)

\* Scopes are numbered, and so are their parents, arrays and arguments.
Numbered(sc) ==
    \A s \in DOMAIN sc : /\ s \in Nat /\ s # 0
                         /\ sc[s].arr \in Nat /\ sc[s].len \in Nat
                         /\ sc[s].parent \in Nat /\ sc[s].parent < s

\* Walks stay in their sets.
Walks(n, at, up, sc) ==
    \A d \in 1..n :
        /\ at[d] \in DOMAIN sc /\ at[d] \in up[d] /\ up[d] \subseteq DOMAIN sc
        /\ \A x \in up[d] : x <= at[d] /\ (sc[x].parent = 0 \/ sc[x].parent \in up[d])

\* Later evaluations are in newer scopes, those in subscopes in scopes of their own.
Ordered(n, at, sub) ==
    /\ n # 0 => at[1] = 1
    /\ \A d, e \in 1..n : d < e => at[d] <= at[e] /\ (sub[e] => at[d] < at[e])

\* Scopes that share an array.
Apart(n, at, base, up, sc) ==
    \A d, e \in 1..n : d <= e =>
        \A x \in up[d], y \in up[e] :
            (x # y /\ sc[x].arr = sc[y].arr /\ sc[x].arr # 0) =>
                /\ d < e /\ x < y /\ sc[x].len <= sc[y].len
                /\ \A g \in 1..n : at[g] = y => sc[x].len <= base[g]

\* Evaluations in the same scope keep their arguments one above the other.
Stacked(n, at, owe, base, sc) ==
    \A d \in 1..n :
        /\ base[d] \in Nat /\ owe[d] \in Nat /\ base[d] + owe[d] <= sc[at[d]].len
        /\ \A e \in 1..n : d < e /\ at[d] = at[e] => base[d] + owe[d] <= base[e]

\* What n frames have of the scopes: those that the d-th can reach, where it is, and how
\* many arguments it owes and found.
Nest(n, at, owe, sub, base, up, sc) ==
    /\ Walks(n, at, up, sc)
    /\ Ordered(n, at, sub)
    /\ Apart(n, at, base, up, sc)
    /\ Stacked(n, at, owe, base, sc)

\* Only the last of n frames changes, and that not its scope.
SameButLast(n, at, owe, sub, base, at2, owe2, sub2, base2) ==
    /\ \A d \in 1..n : at2[d] = at[d] /\ (sub2[d] => sub[d])
    /\ \A d \in 1..(n - 1) : owe2[d] = owe[d] /\ base2[d] = base[d]

\* Only scope y changes, and takes no array that another scope has.
OnlyScope(y, sc, sc2) ==
    /\ DOMAIN sc2 = DOMAIN sc
    /\ \A s \in DOMAIN sc : s # y => sc2[s] = sc[s]
    /\ sc2[y].parent = sc[y].parent
    /\ sc2[y].arr = sc[y].arr \/ \A s \in DOMAIN sc : sc[s].arr # sc2[y].arr

\* The last evaluation changes its scope, in its array or with one of its own, above its
\* base.
LEMMA NestTouched ==
    ASSUME NEW n \in Nat, n # 0, NEW at, NEW owe, NEW sub, NEW base, NEW up, NEW sc,
           Nest(n, at, owe, sub, base, up, sc), Numbered(sc),
           NEW at2, NEW owe2, NEW sub2, NEW base2, NEW sc2, Numbered(sc2),
           SameButLast(n, at, owe, sub, base, at2, owe2, sub2, base2),
           base2[n] \in Nat, owe2[n] \in Nat, base[n] <= base2[n],
           base2[n] + owe2[n] <= sc2[at[n]].len,
           OnlyScope(at[n], sc, sc2)
    PROVE  Nest(n, at2, owe2, sub2, base2, up, sc2)
<1> USE DEF SameButLast, OnlyScope
<1>1. PICK y0 : y0 = at[n]
  OBVIOUS
<1>2. n \in 1..n /\ y0 \in DOMAIN sc
  BY <1>1 DEF Nest, Walks
<1>3. \A d \in 1..n : d # n => d \in 1..(n - 1) /\ d < n
  OBVIOUS
<1>4. Walks(n, at2, up, sc2)
  <2>1. \A s \in DOMAIN sc : sc2[s].parent = sc[s].parent
    BY <1>1
  <2> QED BY <2>1 DEF Nest, Walks
<1>5. Ordered(n, at2, sub2)
  BY <1>2 DEF Nest, Ordered
<1>6. \A d \in 1..n : /\ base[d] \in Nat /\ owe[d] \in Nat /\ base2[d] \in Nat /\ owe2[d] \in Nat
                      /\ base[d] <= base2[d]
                      /\ at[d] = y0 /\ d # n => base2[d] + owe2[d] <= base[n]
  BY <1>1, <1>2, <1>3 DEF Nest, Stacked
<1>7. Apart(n, at2, base2, up, sc2)
  <2> SUFFICES ASSUME NEW d \in 1..n, NEW e \in 1..n, d <= e, NEW x \in up[d], NEW y \in up[e],
                      x # y, sc2[x].arr = sc2[y].arr, sc2[x].arr # 0
               PROVE  /\ d < e /\ x < y /\ sc2[x].len <= sc2[y].len
                      /\ \A g \in 1..n : at[g] = y => sc2[x].len <= base2[g]
    BY DEF Apart
  <2>1. x \in DOMAIN sc /\ y \in DOMAIN sc /\ y <= at[e] /\ at[e] <= y0
    BY <1>1, <1>2, <1>3 DEF Nest, Walks, Ordered, Numbered
  <2>2. x \in Nat /\ y \in Nat /\ y0 \in Nat /\ at[e] \in Nat
    BY <1>2, <2>1 DEF Numbered, Nest, Walks
  <2>3. sc[x].arr = sc[y].arr /\ sc[x].arr # 0
    <3>1. CASE x # y0 /\ y # y0
      BY <1>1, <2>1, <3>1
    <3>2. CASE x = y0 \/ y = y0
      BY <1>1, <2>1, <3>2
    <3> QED BY <3>1, <3>2
  <2>4. /\ d < e /\ x < y /\ sc[x].len <= sc[y].len
        /\ \A g \in 1..n : at[g] = y => sc[x].len <= base[g]
    BY <2>3 DEF Nest, Apart
  <2>5. x # y0
    BY <2>1, <2>2, <2>4
  <2>6. sc2[x] = sc[x] /\ sc[x].len \in Nat
    BY <1>1, <2>1, <2>5 DEF Numbered
  <2>7. \A g \in 1..n : at[g] = y => sc2[x].len <= base2[g]
    BY <1>6, <2>4, <2>6
  <2>8. sc2[x].len <= sc2[y].len
    <3>1. CASE y # y0
      BY <1>1, <2>1, <2>4, <2>6, <3>1
    <3>2. CASE y = y0
      <4>1. sc2[x].len <= base2[n]
        BY <1>1, <1>2, <2>7, <3>2
      <4>2. sc2[y0].len \in Nat /\ base2[n] <= sc2[y0].len
        BY <1>1, <1>2 DEF Numbered
      <4> QED BY <2>6, <3>2, <4>1, <4>2
    <3> QED BY <3>1, <3>2
  <2> QED BY <2>4, <2>7, <2>8
<1>8. Stacked(n, at2, owe2, base2, sc2)
  <2>1. ASSUME NEW d \in 1..n
        PROVE  base2[d] + owe2[d] <= sc2[at[d]].len
    <3>1. CASE d = n
      BY <3>1
    <3>2. CASE d # n /\ at[d] # y0
      BY <1>1, <1>3, <3>2 DEF Nest, Stacked, Walks
    <3>3. CASE d # n /\ at[d] = y0
      <4>1. sc2[y0].len \in Nat /\ base2[n] <= sc2[y0].len
        BY <1>1, <1>2 DEF Numbered
      <4> QED BY <1>2, <1>6, <3>3, <4>1
    <3> QED BY <3>1, <3>2, <3>3
  <2>2. ASSUME NEW d \in 1..n, NEW e \in 1..n, d < e, at[d] = at[e]
        PROVE  base2[d] + owe2[d] <= base2[e]
    <3>1. d \in 1..(n - 1) /\ base2[d] + owe2[d] = base[d] + owe[d]
      BY <2>2
    <3>2. base[d] + owe[d] <= base[e] /\ base[e] <= base2[e]
      BY <1>6, <2>2 DEF Nest, Stacked
    <3> QED BY <1>6, <3>1, <3>2
  <2> QED BY <1>6, <2>1, <2>2 DEF Stacked
<1> QED BY <1>4, <1>5, <1>7, <1>8 DEF Nest

\* The frames up to the m-th are as they were.
SameTo(m, at, owe, sub, base, up, at2, owe2, sub2, base2, up2) ==
    \A d \in 1..m : /\ at2[d] = at[d] /\ owe2[d] = owe[d] /\ (sub2[d] => sub[d])
                    /\ base2[d] = base[d] /\ up2[d] = up[d]

\* It calls another one.
LEMMA NestCalls ==
    ASSUME NEW n \in Nat, n # 0, NEW at, NEW owe, NEW sub, NEW base, NEW up, NEW sc,
           Nest(n, at, owe, sub, base, up, sc), Numbered(sc),
           NEW at2, NEW owe2, NEW sub2, NEW base2, NEW up2,
           SameTo(n, at, owe, sub, base, up, at2, owe2, sub2, base2, up2),
           at2[n + 1] = at[n], owe2[n + 1] = 0, ~sub2[n + 1],
           base2[n + 1] = base[n] + owe[n], up2[n + 1] = up[n]
    PROVE  Nest(n + 1, at2, owe2, sub2, base2, up2, sc)
<1> USE DEF SameTo
<1>1. n \in 1..n /\ 1 \in 1..n /\ \A d \in 1..(n + 1) : d \in 1..n \/ d = n + 1
  OBVIOUS
<1>2. \A d \in 1..n : at[d] \in DOMAIN sc /\ at[d] \in Nat /\ d # n + 1
  BY DEF Nest, Walks, Numbered
<1>3. Walks(n + 1, at2, up2, sc)
  BY <1>1 DEF Nest, Walks
<1>4. Ordered(n + 1, at2, sub2)
  <2>1. ASSUME NEW d \in 1..(n + 1), NEW e \in 1..(n + 1), d < e
        PROVE  at2[d] <= at2[e] /\ (sub2[e] => at2[d] < at2[e])
    <3>1. d \in 1..n
      BY <2>1
    <3>2. CASE e \in 1..n
      BY <2>1, <3>1, <3>2 DEF Nest, Ordered
    <3>3. CASE e = n + 1
      <4>1. d < n \/ d = n
        BY <3>1
      <4>2. at[d] <= at[n]
        BY <1>1, <1>2, <3>1, <4>1 DEF Nest, Ordered
      <4> QED BY <3>1, <3>3, <4>2
    <3> QED BY <1>1, <3>2, <3>3
  <2> QED BY <1>1, <2>1 DEF Nest, Ordered
<1>5. \A d \in 1..n : base[d] \in Nat /\ owe[d] \in Nat
  BY DEF Nest, Stacked
<1>6. Apart(n + 1, at2, base2, up2, sc)
  <2> SUFFICES ASSUME NEW d \in 1..(n + 1), NEW e \in 1..(n + 1), d <= e,
                      NEW x \in up2[d], NEW y \in up2[e],
                      x # y, sc[x].arr = sc[y].arr, sc[x].arr # 0
               PROVE  /\ d < e /\ x < y /\ sc[x].len <= sc[y].len
                      /\ \A g \in 1..(n + 1) : at2[g] = y => sc[x].len <= base2[g]
    BY DEF Apart
  <2>1. PICK d1 \in 1..n : up2[d] = up[d1] /\ d1 = IF d = n + 1 THEN n ELSE d
    BY <1>1
  <2>2. PICK e1 \in 1..n : up2[e] = up[e1] /\ e1 = IF e = n + 1 THEN n ELSE e
    BY <1>1
  <2>3. d1 <= e1
    BY <2>1, <2>2
  <2>4. /\ d1 < e1 /\ x < y /\ sc[x].len <= sc[y].len
        /\ \A g \in 1..n : at[g] = y => sc[x].len <= base[g]
    BY <2>1, <2>2, <2>3 DEF Nest, Apart
  <2>5. d < e
    BY <2>1, <2>2, <2>4
  <2>6. sc[x].len \in Nat
    <3>1. x \in DOMAIN sc
      BY <2>1 DEF Nest, Walks
    <3> QED BY <3>1 DEF Numbered
  <2>7. ASSUME NEW g \in 1..(n + 1), at2[g] = y
        PROVE  sc[x].len <= base2[g]
    <3>1. CASE g \in 1..n
      BY <2>4, <2>7, <3>1
    <3>2. CASE g = n + 1
      <4>1. sc[x].len <= base[n]
        BY <1>1, <2>4, <2>7, <3>2
      <4> QED BY <1>1, <1>5, <2>6, <3>2, <4>1
    <3> QED BY <1>1, <3>1, <3>2
  <2> QED BY <2>4, <2>5, <2>7
<1>7. Stacked(n + 1, at2, owe2, base2, sc)
  <2>1. ASSUME NEW d \in 1..(n + 1)
        PROVE  base2[d] \in Nat /\ owe2[d] \in Nat /\ base2[d] + owe2[d] <= sc[at2[d]].len
    <3>1. CASE d \in 1..n
      BY <3>1 DEF Nest, Stacked
    <3>2. CASE d = n + 1
      <4>1. base[n] + owe[n] <= sc[at[n]].len
        BY <1>1 DEF Nest, Stacked
      <4> QED BY <1>1, <1>5, <3>2, <4>1
    <3> QED BY <1>1, <3>1, <3>2
  <2>2. ASSUME NEW d \in 1..(n + 1), NEW e \in 1..(n + 1), d < e, at2[d] = at2[e]
        PROVE  base2[d] + owe2[d] <= base2[e]
    <3>1. d \in 1..n
      BY <2>2
    <3>2. CASE e \in 1..n
      BY <2>2, <3>1, <3>2 DEF Nest, Stacked
    <3>3. CASE e = n + 1 /\ d = n
      BY <1>1, <1>5, <3>3
    <3>4. CASE e = n + 1 /\ d # n
      <4>1. d < n /\ at[d] = at[n]
        BY <2>2, <3>1, <3>4
      <4>2. base[d] + owe[d] <= base[n]
        BY <1>1, <3>1, <4>1 DEF Nest, Stacked
      <4> QED BY <1>1, <1>5, <3>1, <3>4, <4>2
    <3> QED BY <1>1, <3>2, <3>3, <3>4
  <2> QED BY <2>1, <2>2 DEF Stacked
<1> QED BY <1>3, <1>4, <1>6, <1>7 DEF Nest

\* It ends.
LEMMA NestEnds ==
    ASSUME NEW n \in Nat, n # 0, NEW at, NEW owe, NEW sub, NEW base, NEW up, NEW sc,
           Nest(n, at, owe, sub, base, up, sc),
           NEW at2, NEW owe2, NEW sub2, NEW base2, NEW up2,
           SameTo(n - 1, at, owe, sub, base, up, at2, owe2, sub2, base2, up2)
    PROVE  Nest(n - 1, at2, owe2, sub2, base2, up2, sc)
<1> USE DEF SameTo
<1>1. \A d \in 1..(n - 1) : d \in 1..n
  OBVIOUS
<1>2. Walks(n - 1, at2, up2, sc)
  BY <1>1 DEF Nest, Walks
<1>3. Ordered(n - 1, at2, sub2)
  <2>1. n - 1 # 0 => 1 \in 1..(n - 1)
    OBVIOUS
  <2> QED BY <1>1, <2>1 DEF Nest, Ordered
<1>4. Apart(n - 1, at2, base2, up2, sc)
  BY <1>1 DEF Nest, Apart
<1>5. Stacked(n - 1, at2, owe2, base2, sc)
  BY <1>1 DEF Nest, Stacked
<1> QED BY <1>2, <1>3, <1>4, <1>5 DEF Nest

\* The scopes in new, up to z, are added below scope y, without arguments, and to the walk
\* that was w.
Opened(new, y, z, w, w2, sc, sc2) ==
    /\ new = DOMAIN sc2 \ DOMAIN sc /\ w2 = w \cup new
    /\ \A s \in new : /\ s <= z /\ sc2[s].arr = 0
                      /\ sc2[s].parent = y \/ sc2[s].parent \in new

\* It enters a scope below the one that it is in.
LEMMA NestShifts ==
    ASSUME NEW n \in Nat, n > 1, NEW at, NEW owe, NEW sub, NEW base, NEW up, NEW sc,
           Nest(n, at, owe, sub, base, up, sc), Numbered(sc),
           NEW at2, NEW owe2, NEW sub2, NEW base2, NEW up2, NEW sc2, Numbered(sc2),
           SameTo(n - 1, at, owe, sub, base, up, at2, owe2, sub2, base2, up2),
           \A s \in DOMAIN sc : s \in DOMAIN sc2 /\ sc2[s] = sc[s] /\ s < at2[n],
           at2[n] \in DOMAIN sc2,
           NEW new, Opened(new, at[n], at2[n], up[n], up2[n], sc, sc2),
           owe2[n] = 0, base2[n] = 0
    PROVE  Nest(n, at2, owe2, sub2, base2, up2, sc2)
<1> USE DEF SameTo, Opened
<1>1. n \in 1..n /\ 1 \in 1..(n - 1) /\ \A d \in 1..n : d = n \/ (d \in 1..(n - 1) /\ d < n)
  OBVIOUS
<1>2. PICK z : z = at2[n]
  OBVIOUS
<1>3. z \in new /\ z \in Nat /\ \A s \in DOMAIN sc : s \in Nat /\ s # z /\ s < z
  <2>1. z \notin DOMAIN sc
    BY <1>2 DEF Numbered
  <2> QED BY <1>2, <2>1 DEF Numbered
<1>4. \A d \in 1..(n - 1) : /\ d \in 1..n /\ at[d] \in DOMAIN sc /\ at[d] \in Nat /\ at[d] # z
                            /\ up[d] \subseteq DOMAIN sc
  BY <1>1, <1>3 DEF Nest, Walks
<1>5. Walks(n, at2, up2, sc2)
  <2>1. ASSUME NEW d \in 1..(n - 1)
        PROVE  /\ at2[d] \in DOMAIN sc2 /\ at2[d] \in up2[d] /\ up2[d] \subseteq DOMAIN sc2
               /\ \A x \in up2[d] : x <= at2[d] /\ (sc2[x].parent = 0 \/ sc2[x].parent \in up2[d])
    BY <1>4 DEF Nest, Walks
  <2>2. at[n] \in up[n] /\ up[n] \subseteq DOMAIN sc
    BY <1>1 DEF Nest, Walks
  <2>3. ASSUME NEW x \in up2[n]
        PROVE  x <= at2[n] /\ (sc2[x].parent = 0 \/ sc2[x].parent \in up2[n])
    <3>1. CASE x \in new
      BY <2>2, <3>1
    <3>2. CASE x \in up[n]
      <4>1. x \in DOMAIN sc /\ sc2[x] = sc[x] /\ x < z /\ x \in Nat
        BY <1>3, <2>2, <3>2
      <4>2. sc[x].parent = 0 \/ sc[x].parent \in up[n]
        BY <1>1, <3>2 DEF Nest, Walks
      <4> QED BY <1>2, <1>3, <4>1, <4>2
    <3> QED BY <3>1, <3>2
  <2>4. /\ at2[n] \in DOMAIN sc2 /\ at2[n] \in up2[n] /\ up2[n] \subseteq DOMAIN sc2
        /\ \A x \in up2[n] : x <= at2[n] /\ (sc2[x].parent = 0 \/ sc2[x].parent \in up2[n])
    BY <1>2, <1>3, <2>2, <2>3
  <2> QED BY <1>1, <2>1, <2>4 DEF Walks
<1>6. Ordered(n, at2, sub2)
  <2>1. ASSUME NEW d \in 1..n, NEW e \in 1..n, d < e
        PROVE  at2[d] <= at2[e] /\ (sub2[e] => at2[d] < at2[e])
    <3>1. d \in 1..(n - 1) /\ at2[d] \in DOMAIN sc
      BY <1>4, <2>1
    <3>2. CASE e = n
      BY <1>2, <1>3, <3>1, <3>2
    <3>3. CASE e # n
      BY <1>1, <1>4, <2>1, <3>1, <3>3 DEF Nest, Ordered
    <3> QED BY <3>2, <3>3
  <2>2. at2[1] = 1
    BY <1>1 DEF Nest, Ordered
  <2> QED BY <2>1, <2>2 DEF Ordered
<1>7. Apart(n, at2, base2, up2, sc2)
  <2> SUFFICES ASSUME NEW d \in 1..n, NEW e \in 1..n, d <= e, NEW x \in up2[d], NEW y \in up2[e],
                      x # y, sc2[x].arr = sc2[y].arr, sc2[x].arr # 0
               PROVE  /\ d < e /\ x < y /\ sc2[x].len <= sc2[y].len
                      /\ \A g \in 1..n : at2[g] = y => sc2[x].len <= base2[g]
    BY DEF Apart
  <2>1. x \in up[d] /\ y \in up[e]
    BY <1>1
  <2>2. x \in DOMAIN sc /\ y \in DOMAIN sc
    BY <2>1 DEF Nest, Walks
  <2>3. sc2[x] = sc[x] /\ sc2[y] = sc[y]
    BY <2>2
  <2>4. /\ d < e /\ x < y /\ sc[x].len <= sc[y].len
        /\ \A g \in 1..n : at[g] = y => sc[x].len <= base[g]
    BY <2>1, <2>3 DEF Nest, Apart
  <2>5. ASSUME NEW g \in 1..n, at2[g] = y
        PROVE  sc2[x].len <= base2[g]
    <3>1. g # n
      BY <1>2, <1>3, <2>2, <2>5
    <3> QED BY <1>1, <1>4, <2>3, <2>4, <2>5, <3>1
  <2> QED BY <2>3, <2>4, <2>5
<1>8. Stacked(n, at2, owe2, base2, sc2)
  <2>1. ASSUME NEW d \in 1..n
        PROVE  base2[d] \in Nat /\ owe2[d] \in Nat /\ base2[d] + owe2[d] <= sc2[at2[d]].len
    <3>1. CASE d = n
      BY <3>1 DEF Numbered
    <3>2. CASE d # n
      BY <1>1, <1>4, <3>2 DEF Nest, Stacked
    <3> QED BY <3>1, <3>2
  <2>2. ASSUME NEW d \in 1..n, NEW e \in 1..n, d < e, at2[d] = at2[e]
        PROVE  base2[d] + owe2[d] <= base2[e]
    <3>1. d \in 1..(n - 1)
      BY <2>2
    <3>2. e # n
      BY <1>2, <1>4, <2>2, <3>1
    <3> QED BY <1>1, <1>4, <2>2, <3>1, <3>2 DEF Nest, Stacked
  <2> QED BY <2>1, <2>2 DEF Stacked
<1> QED BY <1>5, <1>6, <1>7, <1>8 DEF Nest

\* It goes on in a copy of the parent scope.
LEMMA NestCopies ==
    ASSUME NEW n \in Nat, n > 1, NEW at, NEW owe, NEW sub, NEW base, NEW up, NEW sc,
           Nest(n, at, owe, sub, base, up, sc), Numbered(sc),
           NEW at2, NEW owe2, NEW sub2, NEW base2, NEW up2, NEW sc2, Numbered(sc2),
           SameTo(n - 1, at, owe, sub, base, up, at2, owe2, sub2, base2, up2),
           \A s \in DOMAIN sc : s \in DOMAIN sc2 /\ sc2[s] = sc[s] /\ s < at2[n],
           at2[n] \in DOMAIN sc2,
           NEW p, p = sc[at[n]].parent, p # 0, sc2[at2[n]] = sc[p],
           owe2[n] = 0, base2[n] = sc[p].len, up2[n] = {at2[n]} \cup {x \in up[n] : x < p}
    PROVE  Nest(n, at2, owe2, sub2, base2, up2, sc2)
<1> USE DEF SameTo
<1>1. n \in 1..n /\ 1 \in 1..(n - 1) /\ \A d \in 1..n : d = n \/ (d \in 1..(n - 1) /\ d < n)
  OBVIOUS
<1>2. PICK z : z = at2[n]
  OBVIOUS
<1>3. z \in Nat /\ z \notin DOMAIN sc /\ \A s \in DOMAIN sc : s \in Nat /\ s # z /\ s < z
  BY <1>2 DEF Numbered
<1>4. \A d \in 1..(n - 1) : /\ d \in 1..n /\ at[d] \in DOMAIN sc /\ at[d] \in Nat /\ at[d] # z
                            /\ up[d] \subseteq DOMAIN sc
  BY <1>1, <1>3 DEF Nest, Walks
<1>5. p \in up[n] /\ p \in DOMAIN sc /\ p \in Nat /\ up[n] \subseteq DOMAIN sc
  BY <1>1 DEF Nest, Walks, Numbered
<1>6. sc[p].len \in Nat /\ sc[p].parent \in Nat /\ sc[p].parent < p
  BY <1>5 DEF Numbered
<1>7. Walks(n, at2, up2, sc2)
  <2>1. ASSUME NEW d \in 1..(n - 1)
        PROVE  /\ at2[d] \in DOMAIN sc2 /\ at2[d] \in up2[d] /\ up2[d] \subseteq DOMAIN sc2
               /\ \A x \in up2[d] : x <= at2[d] /\ (sc2[x].parent = 0 \/ sc2[x].parent \in up2[d])
    BY <1>4 DEF Nest, Walks
  <2>2. ASSUME NEW x \in up2[n]
        PROVE  x <= at2[n] /\ (sc2[x].parent = 0 \/ sc2[x].parent \in up2[n])
    <3>1. PICK w : w \in up[n] /\ sc2[x].parent = sc[w].parent /\ w <= p /\ w \in DOMAIN sc
      <4>1. CASE x = z
        <5>1. sc2[x] = sc[p]
          BY <1>2, <4>1
        <5> QED BY <1>5, <5>1
      <4>2. CASE x # z
        <5>1. x \in up[n] /\ x < p /\ x \in DOMAIN sc
          BY <1>2, <1>5, <2>2, <4>2
        <5>2. sc2[x] = sc[x] /\ x \in Nat
          BY <1>3, <5>1
        <5> QED BY <1>5, <5>1, <5>2
      <4> QED BY <4>1, <4>2
    <3>2. sc[w].parent = 0 \/ sc[w].parent \in up[n]
      BY <1>1, <3>1 DEF Nest, Walks
    <3>3. sc[w].parent < p
      BY <1>5, <3>1 DEF Numbered
    <3>4. x <= at2[n]
      BY <1>2, <1>3, <1>5
    <3> QED BY <3>1, <3>2, <3>3, <3>4
  <2>3. at2[n] \in DOMAIN sc2 /\ at2[n] \in up2[n] /\ up2[n] \subseteq DOMAIN sc2
    BY <1>5
  <2> QED BY <1>1, <2>1, <2>2, <2>3 DEF Walks
<1>8. Ordered(n, at2, sub2)
  <2>1. ASSUME NEW d \in 1..n, NEW e \in 1..n, d < e
        PROVE  at2[d] <= at2[e] /\ (sub2[e] => at2[d] < at2[e])
    <3>1. d \in 1..(n - 1) /\ at2[d] \in DOMAIN sc
      BY <1>4, <2>1
    <3>2. CASE e = n
      BY <1>2, <1>3, <3>1, <3>2
    <3>3. CASE e # n
      BY <1>1, <1>4, <2>1, <3>1, <3>3 DEF Nest, Ordered
    <3> QED BY <3>2, <3>3
  <2>2. at2[1] = 1
    BY <1>1 DEF Nest, Ordered
  <2> QED BY <2>1, <2>2 DEF Ordered
<1>9. Apart(n, at2, base2, up2, sc2)
  <2> SUFFICES ASSUME NEW d \in 1..n, NEW e \in 1..n, d <= e, NEW x \in up2[d], NEW y \in up2[e],
                      x # y, sc2[x].arr = sc2[y].arr, sc2[x].arr # 0
               PROVE  /\ d < e /\ x < y /\ sc2[x].len <= sc2[y].len
                      /\ \A g \in 1..n : at2[g] = y => sc2[x].len <= base2[g]
    BY DEF Apart
  <2>1. up2[d] \subseteq up[d] \cup {z} /\ up2[e] \subseteq up[e] \cup {z}
    BY <1>1, <1>2
  <2>2. up[d] \subseteq DOMAIN sc /\ up[e] \subseteq DOMAIN sc
    BY DEF Nest, Walks
  <2>3. CASE x # z /\ y # z
    <3>1. x \in up[d] /\ y \in up[e] /\ sc2[x] = sc[x] /\ sc2[y] = sc[y] /\ y \in DOMAIN sc
      BY <2>1, <2>2, <2>3
    <3>2. /\ d < e /\ x < y /\ sc[x].len <= sc[y].len
          /\ \A g \in 1..n : at[g] = y => sc[x].len <= base[g]
      BY <3>1 DEF Nest, Apart
    <3>3. ASSUME NEW g \in 1..n, at2[g] = y
          PROVE  sc2[x].len <= base2[g]
      <4>1. g # n
        BY <1>2, <2>3, <3>3
      <4> QED BY <1>1, <1>4, <3>1, <3>2, <3>3, <4>1
    <3> QED BY <3>1, <3>2, <3>3
  <2>4. CASE y = z
    <3>1. e = n
      BY <1>1, <1>3, <1>4, <2>4
    <3>2. x \in up[d] /\ x \in DOMAIN sc /\ sc2[x] = sc[x] /\ sc2[y] = sc[p] /\ x < z
      BY <1>2, <1>3, <2>1, <2>2, <2>4
    <3>3. \A g \in 1..n : at2[g] = y => g = n
      BY <1>1, <1>4, <2>4
    <3>4. d # n
      <4> SUFFICES ASSUME d = n PROVE FALSE
        OBVIOUS
      <4>1. x < p /\ x # p /\ x \in up[n]
        BY <1>2, <1>5, <2>4, <3>2 DEF Numbered
      <4> QED BY <1>1, <1>5, <3>2, <4>1 DEF Nest, Apart
    <3>5. d < n /\ d \in 1..(n - 1)
      BY <3>4
    <3>6. sc[x].len <= sc[p].len
      <4>1. CASE x = p
        BY <1>6, <4>1
      <4>2. CASE x # p
        BY <1>1, <1>5, <3>2, <3>5, <4>2 DEF Nest, Apart
      <4> QED BY <4>1, <4>2
    <3> QED BY <2>4, <3>1, <3>2, <3>3, <3>5, <3>6
  <2>5. CASE x = z
    <3>1. d = n /\ e = n
      BY <1>1, <1>3, <1>4, <2>5
    <3>2. y \in up[n] /\ y < p /\ y # p /\ sc2[y] = sc[y] /\ sc2[x] = sc[p]
      <4>1. y \in up[n] /\ y < p
        BY <1>2, <2>5, <3>1
      <4> QED BY <1>2, <1>5, <2>5, <4>1 DEF Numbered
    <3>3. FALSE
      BY <1>1, <1>5, <3>2 DEF Nest, Apart
    <3> QED BY <3>3
  <2> QED BY <2>3, <2>4, <2>5
<1>10. Stacked(n, at2, owe2, base2, sc2)
  <2>1. ASSUME NEW d \in 1..n
        PROVE  base2[d] \in Nat /\ owe2[d] \in Nat /\ base2[d] + owe2[d] <= sc2[at2[d]].len
    <3>1. CASE d = n
      BY <1>6, <3>1
    <3>2. CASE d # n
      BY <1>1, <1>4, <3>2 DEF Nest, Stacked
    <3> QED BY <3>1, <3>2
  <2>2. ASSUME NEW d \in 1..n, NEW e \in 1..n, d < e, at2[d] = at2[e]
        PROVE  base2[d] + owe2[d] <= base2[e]
    <3>1. d \in 1..(n - 1)
      BY <2>2
    <3>2. e # n
      BY <1>2, <1>4, <2>2, <3>1
    <3> QED BY <1>1, <1>4, <2>2, <3>1, <3>2 DEF Nest, Stacked
  <2> QED BY <2>1, <2>2 DEF Stacked
<1> QED BY <1>7, <1>8, <1>9, <1>10 DEF Nest

-----------------------------------------------------------------------------
(***************************************************************************)
(* The evaluations of the machine.                                         *)
(***************************************************************************)

\* The memory of evaluations is well-formed, with values of some set in its slots.
Memory == \E A : ZeroArg \in A /\ WellFormed(A, DOMAIN ValueAt)

\* Arguments that a range has pushed for an element, and not dropped yet.
Owed(f) == IF f.pc = "each" THEN 2 ELSE IF f.pc = "second" THEN 1 ELSE 0

\* The evaluation of a value that has a scope of its own, once it is entered.
Subscoped(f) == f.pc # "scope" /\ prog.nodes[f.node].scope # <<>>

\* Where evaluations are, what they owe, and which of them are in subscopes.
Envs  == [d \in 1..Len(frames) |-> frames[d].env]
Debts == [d \in 1..Len(frames) |-> Owed(frames[d])]
Subs  == [d \in 1..Len(frames) |-> Subscoped(frames[d])]

\* The frames found that many arguments in their scopes, and reach those scopes.
NestOK(base, up) == Nest(Len(frames), Envs, Debts, Subs, base, up, scopes)

\* Scope y alone is changed, in its array or with one of its own; arguments of other
\* scopes stay as they are, unless they share its array and have more of them.
Touched(y) ==
    /\ DOMAIN scopes' = DOMAIN scopes /\ Len(scopes') = Len(scopes)
    /\ \A s \in DOMAIN scopes : s # y => scopes'[s] = scopes[s]
    /\ scopes'[y].parent = scopes[y].parent
    /\ \/ scopes'[y].arr = scopes[y].arr
       \/ \A s \in DOMAIN scopes : scopes[s].arr # scopes'[y].arr
    /\ \A s \in DOMAIN scopes : \A i \in 1..scopes[s].len :
          scopes[s].arr # scopes[y].arr \/ i <= scopes[y].len =>
              (i <= scopes'[s].len => arrays'[scopes'[s].arr][i] = arrays[scopes[s].arr][i])

\* What is known of scopes in a well-formed memory.
LEMMA MemoryFacts ==
    ASSUME Memory
    PROVE  /\ Numbered(scopes) /\ Tree
           /\ Len(scopes) \in Nat \ {0} /\ DOMAIN scopes = 1..Len(scopes)
           /\ 1 \in DOMAIN scopes /\ Len(scopes) \in DOMAIN scopes
<1>1. PICK A : WellFormed(A, DOMAIN ValueAt)
  BY DEF Memory
<1>2. PICK L : L = DOMAIN ValueAt
  OBVIOUS
<1>3. WellFormed(A, L)
  BY <1>1, <1>2
<1>4. \A s \in DOMAIN scopes : /\ scopes[s].arr \in Nat /\ scopes[s].len \in Nat
                               /\ scopes[s].parent \in Nat /\ s \in Nat \ {0}
  BY <1>3, Windows
<1>5. \A s \in DOMAIN scopes : scopes[s].parent < s
  BY <1>3 DEF WellFormed
<1>6. Len(scopes) \in Nat \ {0} /\ DOMAIN scopes = 1..Len(scopes)
  BY <1>3, LenProperties, EmptySeq DEF WellFormed
<1>7. Tree
  BY <1>3, WellFormedTree
<1> QED BY <1>4, <1>5, <1>6, <1>7 DEF Numbered

\* The same after a step.
LEMMA MemoryNext ==
    ASSUME Memory'
    PROVE  /\ Numbered(scopes') /\ Tree'
           /\ Len(scopes') \in Nat \ {0} /\ DOMAIN scopes' = 1..Len(scopes')
           /\ 1 \in DOMAIN scopes' /\ Len(scopes') \in DOMAIN scopes'
<1>1. (Memory => /\ Numbered(scopes) /\ Tree
                 /\ Len(scopes) \in Nat \ {0} /\ DOMAIN scopes = 1..Len(scopes)
                 /\ 1 \in DOMAIN scopes /\ Len(scopes) \in DOMAIN scopes)'
  BY MemoryFacts, PTL
<1> QED BY <1>1

\* Slots can hold more.
LEMMA WellFormedMore ==
    ASSUME NEW A, NEW L, WellFormed(A, L), NEW B, A \subseteq B
    PROVE  WellFormed(B, L)
<1>1. \A q \in Seq(A) : q \in Seq(B)
  OBVIOUS
<1>2. PICK S, T : S = Seq(A) /\ T = Seq(B)
  OBVIOUS
<1>3. arrays \in Seq(S) /\ S \subseteq T
  BY <1>1, <1>2 DEF WellFormed
<1>4. arrays \in Seq(T)
  BY <1>3
<1> QED BY <1>2, <1>4 DEF WellFormed

\* A push touches its scope.
LEMMA PushTouches ==
    ASSUME Memory, NEW y \in DOMAIN scopes, NEW v, PushArg(y, v)
    PROVE  /\ Memory' /\ Touched(y)
           /\ scopes'[y].len = scopes[y].len + 1
           /\ arrays'[scopes'[y].arr][scopes[y].len + 1] = v
<1>1. PICK A0 : ZeroArg \in A0 /\ WellFormed(A0, DOMAIN ValueAt)
  BY DEF Memory
<1>2. PICK A : A = A0 \cup {v}
  OBVIOUS
<1>3. ZeroArg \in A /\ v \in A /\ A0 \subseteq A
  BY <1>1, <1>2
<1>4. PICK L : L = DOMAIN ValueAt
  OBVIOUS
<1>5. WellFormed(A, L)
  BY <1>1, <1>3, <1>4, WellFormedMore
<1>6. WellFormed(A, L)' /\ DOMAIN scopes' = DOMAIN scopes
  BY <1>3, <1>5, PushFits
<1>7. Memory'
  BY <1>3, <1>4, <1>6 DEF Memory
<1>8. PICK a \in Nat : a = scopes[y].arr
  BY <1>5, Windows
<1>9. PICK n \in Nat : n = scopes[y].len
  BY <1>5, Windows
<1>10. PICK b : b = scopes'[y].arr
  OBVIOUS
<1>11. /\ \A t \in DOMAIN scopes : t # y => scopes'[t] = scopes[t]
       /\ scopes'[y].len = n + 1
       /\ b = Len(arrays) + 1 \/ (b = a /\ a # 0)
       /\ \A c \in 1..Len(arrays) : c # b => arrays'[c] = arrays[c]
       /\ \A i \in 1..n : arrays'[b][i] = arrays[a][i]
       /\ arrays'[b][n + 1] = v
  BY <1>3, <1>5, <1>8, <1>9, <1>10, PushWrites
<1>12. \A s \in DOMAIN scopes : /\ scopes[s].arr \in Nat /\ scopes[s].len \in Nat
                                /\ scopes[s].arr <= Len(arrays)
                                /\ scopes[s].len # 0 => scopes[s].arr # 0
  <2>1. \A s \in DOMAIN scopes : scopes[s].arr \in Nat /\ scopes[s].len \in Nat
    BY <1>5, Windows
  <2>2. \A s \in DOMAIN scopes : /\ scopes[s].arr <= Len(arrays)
                                 /\ scopes[s].len <= Cap(scopes[s].arr)
    BY <1>5 DEF WellFormed
  <2> QED BY <2>1, <2>2 DEF Cap
<1>13. Len(arrays) \in Nat
  BY <1>5, LenProperties DEF WellFormed
<1>14. scopes'[y].parent = scopes[y].parent
  <2>1. PICK r \in Nodes(L) : r = scopes[y]
    BY <1>5, Windows
  <2>2. \E m \in Nat, c \in Nat : scopes'[y] = [r EXCEPT !.len = m] \/ scopes'[y] = [r EXCEPT !.arr = c, !.len = m]
    <3>1. scopes'[y] = [r EXCEPT !.len = n + 1] \/ scopes'[y] = [r EXCEPT !.arr = Len(arrays) + 1, !.len = n + 1]
      BY <1>9, <2>1 DEF PushArg
    <3>2. PICK m \in Nat, c \in Nat : m = n + 1 /\ c = Len(arrays) + 1
      BY <1>9, <1>13
    <3> QED BY <3>1, <3>2
  <2> QED BY <2>1, <2>2 DEF Nodes
<1>15. b = a \/ \A s \in DOMAIN scopes : scopes[s].arr # b
  BY <1>11, <1>12, <1>13
<1>16. ASSUME NEW s \in DOMAIN scopes, NEW i \in 1..scopes[s].len, scopes[s].arr # a \/ i <= n
       PROVE  arrays'[scopes'[s].arr][i] = arrays[scopes[s].arr][i]
  <2>1. CASE s = y
    BY <1>8, <1>9, <1>10, <1>11, <1>16, <2>1
  <2>2. CASE s # y
    <3>1. scopes'[s].arr = scopes[s].arr /\ scopes[s].arr \in 1..Len(arrays)
      BY <1>11, <1>12, <1>13, <2>2
    <3>2. CASE scopes[s].arr # b
      BY <1>11, <3>1, <3>2
    <3>3. CASE scopes[s].arr = b
      <4>1. b = a /\ i \in 1..n
        BY <1>8, <1>12, <1>13, <1>11, <1>16, <3>3
      <4> QED BY <1>11, <3>1, <3>3, <4>1
    <3> QED BY <3>2, <3>3
  <2> QED BY <2>1, <2>2
<1>17. Len(scopes') = Len(scopes)
  BY <1>7, <1>6, MemoryFacts, MemoryNext
<1>18. Touched(y)
  BY <1>6, <1>8, <1>9, <1>10, <1>11, <1>14, <1>15, <1>16, <1>17 DEF Touched
<1> QED BY <1>7, <1>9, <1>10, <1>11, <1>18

\* A drop of no more arguments than there are in the scope touches it alone.
LEMMA DropTouches ==
    ASSUME Memory, NEW y \in DOMAIN scopes, NEW n \in Nat, n <= scopes[y].len,
           DropArgs(y, n)
    PROVE  /\ Memory' /\ Touched(y) /\ arrays' = arrays
            /\ scopes'[y].len = scopes[y].len - n /\ scopes'[y].arr = scopes[y].arr
           /\ n = 0 => scopes'[y] = scopes[y]
<1>1. PICK A : ZeroArg \in A /\ WellFormed(A, DOMAIN ValueAt)
  BY DEF Memory
<1>2. PICK L : L = DOMAIN ValueAt
  OBVIOUS
<1>3. WellFormed(A, L)
  BY <1>1, <1>2
<1>4. WellFormed(A, L)' /\ arrays' = arrays /\ DOMAIN scopes' = DOMAIN scopes
  BY <1>3, DropFits
<1>5. Memory'
  BY <1>1, <1>2, <1>4 DEF Memory
<1>6. Tree /\ Len(scopes) \in Nat \ {0} /\ Len(scopes') = Len(scopes)
  BY <1>4, <1>5, MemoryFacts, MemoryNext
<1>7. Path(y)[0] = y /\ Held(y)[0] = 0 /\ 0 \in 0..Len(scopes)
  BY <1>6, PathFacts, HeldFacts DEF PathIsWalk, HeldIsSum
<1>8. y # 0 /\ scopes[y].len \in Nat
  BY MemoryFacts DEF Numbered
<1>9. PICK k \in DropEnds(y, n) :
         /\ \A j \in DropEnds(y, n) : k <= j
         /\ scopes' = [t \in DOMAIN scopes |->
                IF t = Path(y)[k] THEN [scopes[t] EXCEPT !.len = @ - (n - Held(y)[k])]
                ELSE IF \E j \in 0..(k - 1) : Path(y)[j] = t
                THEN [scopes[t] EXCEPT !.arr = 0, !.len = 0]
                ELSE scopes[t]]
  BY DEF DropArgs
<1>10. n <= MaxInt32 /\ k \in 0..Len(scopes)
  BY <1>9 DEF DropEnds
<1>11. 0 \in DropEnds(y, n)
  BY <1>7, <1>8, <1>10 DEF DropEnds
<1>12. k = 0
  <2>1. k <= 0
    BY <1>9, <1>11
  <2> QED BY <1>6, <1>10, <2>1
<1>13. PICK m \in Nat : m = scopes[y].len - n
  BY <1>8
<1>14. n - Held(y)[k] = n /\ ~(\E j \in 0..(k - 1) : TRUE)
  BY <1>7, <1>12
<1>15. \A t \in DOMAIN scopes :
          scopes'[t] = IF t = y THEN [scopes[t] EXCEPT !.len = @ - n] ELSE scopes[t]
  BY <1>7, <1>9, <1>12, <1>14
<1>16. PICK r \in Nodes(L) : r = scopes[y]
  BY <1>3, Windows
<1>17. scopes'[y] = [r EXCEPT !.len = m]
  BY <1>13, <1>15, <1>16
<1>18. scopes'[y].len = m /\ scopes'[y].arr = scopes[y].arr /\ scopes'[y].parent = scopes[y].parent
  BY <1>16, <1>17 DEF Nodes
<1>19. Touched(y)
  BY <1>4, <1>6, <1>15, <1>18 DEF Touched
<1>20. n = 0 => scopes'[y] = scopes[y]
  <2>1. n = 0 => m = r.len
    BY <1>8, <1>13, <1>16
  <2> QED BY <1>16, <1>17, <2>1 DEF Nodes
<1> QED BY <1>4, <1>5, <1>13, <1>18, <1>19, <1>20

\* A step that leaves memory alone touches any scope.
LEMMA NothingTouched ==
    ASSUME Memory, UNCHANGED scopeVars, NEW y
    PROVE  Memory' /\ Touched(y)
<1>1. arrays' = arrays /\ scopes' = scopes
  BY DEF scopeVars
<1>2. Memory'
  BY <1>1 DEF Memory, WellFormed, Cap
<1> QED BY <1>1, <1>2 DEF Touched

-----------------------------------------------------------------------------
(***************************************************************************)
(* Paths.                                                                  *)
(***************************************************************************)

\* The place that a step leads to, and what stands for none.
NoPlace == ""

\* Where a step leads, or nowhere.
StepTo(x, step) == IF <<x, step>> \in DOMAIN Child THEN Child[<<x, step>>] ELSE NoPlace

\* Places are not none, and nothing is below none.
LEMMA StepFacts ==
    /\ \A x \in DOMAIN ValueAt : x # NoPlace
    /\ \A x, step : StepTo(x, step) # NoPlace => StepTo(x, step) \in DOMAIN ValueAt /\ x # NoPlace
<1>1. \A x \in DOMAIN ValueAt : x # NoPlace
  BY PlacesAssumption, Zenon DEF NoPlace
<1>2. \A c \in DOMAIN Child : c[1] \in DOMAIN ValueAt /\ Child[c] \in DOMAIN ValueAt
  BY PlacesAssumption, Zenon
<1>3. ASSUME NEW x, NEW step, <<x, step>> \in DOMAIN Child
      PROVE  x \in DOMAIN ValueAt /\ Child[<<x, step>>] \in DOMAIN ValueAt
  <2>1. PICK c : c = <<x, step>>
    OBVIOUS
  <2>2. c[1] = x /\ c[1] \in DOMAIN ValueAt /\ Child[c] \in DOMAIN ValueAt
    BY <1>2, <1>3, <2>1
  <2> QED BY <2>1, <2>2
<1> QED BY <1>1, <1>3 DEF StepTo

\* What is reached on the way to a place are places.
LEMMA WayOfPlaces ==
    ASSUME NEW n \in Nat \ {0}, NEW L, NEW none, NEW q, q \in [1..n -> L \cup {none}],
           q[n] # none, \A k \in 1..n : k - 1 \in 1..n /\ q[k] # none => q[k - 1] # none
    PROVE  q \in [1..n -> L]
<1>1. PICK S : S = {k \in 0..(n - 1) : q[n - k] # none}
  OBVIOUS
<1>2. n - 1 \in Nat /\ 0 \in S
  BY <1>1
<1>3. ASSUME NEW k \in 0..(n - 1 - 1), k \in S PROVE k + 1 \in S
  <2>1. PICK j \in 1..n : j = n - k /\ j - 1 = n - (k + 1) /\ j - 1 \in 1..n /\ k + 1 \in 0..(n - 1)
    OBVIOUS
  <2>2. q[j] # none
    BY <1>1, <1>3, <2>1
  <2> QED BY <1>1, <2>1, <2>2
<1>4. 0..(n - 1) \subseteq S
  BY <1>2, <1>3, UpTo
<1>5. ASSUME NEW k \in 1..n PROVE q[k] \in L
  <2>1. n - k \in 0..(n - 1) /\ n - (n - k) = k
    OBVIOUS
  <2>2. q[k] # none
    BY <1>1, <1>4, <2>1
  <2> QED BY <2>2
<1> QED BY <1>5

\* The places that a path leads through.
LEMMA PlacesWalked ==
    ASSUME NEW l \in DOMAIN ValueAt, NEW path \in Seq(STRING), path # <<>>,
           NEW n \in Nat \ {0}, n = Len(path), NEW L, L = DOMAIN ValueAt
    PROVE  /\ Places(l, path) \in [1..n -> L \cup {NoPlace}]
           /\ \A k \in 1..n : k - 1 \in 1..n /\ Places(l, path)[k] # NoPlace
                                => Places(l, path)[k - 1] # NoPlace
<1>1. PICK V : V = L \cup {NoPlace}
  OBVIOUS
<1>2. \A x, t : StepTo(x, t) \in V
  BY <1>1, StepFacts
<1>3. PICK step : step = [p \in (1..n) \X V |-> StepTo(p[2], path[p[1]])]
  OBVIOUS
<1>4. l \in V /\ step \in [(1..n) \X V -> V]
  BY <1>1, <1>2, <1>3
<1>5. PICK f \in [0..n -> V] : Follows(f, n, l, step)
  BY <1>4, Recursion
<1>6. f[0] = l /\ \A k \in 1..n : f[k] = StepTo(f[k - 1], path[k])
  <2>1. f[0] = l
    BY <1>5 DEF Follows
  <2>2. ASSUME NEW k \in 1..n PROVE f[k] = StepTo(f[k - 1], path[k])
    <3>1. k - 1 \in 0..n
      OBVIOUS
    <3>2. PICK x \in V : x = f[k - 1]
      BY <1>5, <3>1
    <3>3. f[k] = step[<<k, x>>]
      BY <1>5, <3>2 DEF Follows
    <3>4. step[<<k, x>>] = StepTo(x, path[k])
      BY <1>3
    <3> QED BY <3>2, <3>3, <3>4
  <2> QED BY <2>1, <2>2
<1>7. f = [k \in 0..n |-> IF k = 0 THEN l ELSE StepTo(f[k - 1], path[k])]
  <2>1. PICK h : h = [k \in 0..n |-> IF k = 0 THEN l ELSE StepTo(f[k - 1], path[k])]
    OBVIOUS
  <2>2. ASSUME NEW k \in 0..n PROVE f[k] = h[k]
    <3>1. CASE k = 0
      BY <1>6, <2>1, <3>1
    <3>2. CASE k # 0
      <4>1. k \in 1..n
        BY <3>2
      <4> QED BY <1>6, <2>1, <4>1
    <3> QED BY <3>1, <3>2
  <2>3. f = h
    BY <1>5, <2>1, <2>2
  <2> QED BY <2>1, <2>3
<1> DEFINE g == CHOOSE a : a = [k \in 0..Len(path) |-> IF k = 0 THEN l ELSE StepTo(a[k - 1], path[k])]
<1>8. Places(l, path) = IF path = <<>> THEN <<l>> ELSE [k \in 1..Len(path) |-> g[k]]
  BY Zenon DEF Places, StepTo, NoPlace
<1>9. g = [k \in 0..n |-> IF k = 0 THEN l ELSE StepTo(g[k - 1], path[k])]
  BY <1>7, Zenon
<1> HIDE DEF g
<1>10. Places(l, path) = [k \in 1..n |-> g[k]]
  BY <1>8, Zenon
<1>11. PICK q : q = Places(l, path)
  OBVIOUS
<1>12. ASSUME NEW k \in 1..n
       PROVE  q[k] = g[k] /\ g[k] = StepTo(g[k - 1], path[k])
  <2>1. k \in 0..n /\ k # 0
    OBVIOUS
  <2> QED BY <1>9, <1>10, <1>11, <2>1
<1>13. q \in [1..n -> V]
  BY <1>2, <1>10, <1>11, <1>12
<1>14. ASSUME NEW k \in 1..n, k - 1 \in 1..n, q[k] # NoPlace
       PROVE  q[k - 1] # NoPlace
  <2>1. q[k] = StepTo(g[k - 1], path[k]) /\ q[k - 1] = g[k - 1]
    BY <1>12, <1>14
  <2> QED BY <1>14, <2>1, StepFacts
<1> QED BY <1>1, <1>11, <1>13, <1>14

\* The places on a path that leads to one are places of the message.
LEMMA PlacesFacts ==
    ASSUME NEW l \in DOMAIN ValueAt, NEW path \in Seq(STRING), Last(Places(l, path)) # NoPlace
    PROVE  \E m \in Nat \ {0} : Places(l, path) \in [1..m -> DOMAIN ValueAt]
<1>1. CASE path = <<>>
  <2>1. Places(l, path) = <<l>>
    BY <1>1, Zenon DEF Places
  <2>2. <<l>> \in [1..1 -> DOMAIN ValueAt]
    OBVIOUS
  <2> QED BY <2>1, <2>2
<1>2. CASE path # <<>>
  <2>1. PICK n \in Nat \ {0} : n = Len(path)
    BY <1>2, EmptySeq
  <2>2. PICK q, L : q = Places(l, path) /\ L = DOMAIN ValueAt
    OBVIOUS
  <2>3. /\ q \in [1..n -> L \cup {NoPlace}]
        /\ \A k \in 1..n : k - 1 \in 1..n /\ q[k] # NoPlace => q[k - 1] # NoPlace
    BY <1>2, <2>1, <2>2, PlacesWalked
  <2>4. q[n] # NoPlace
    BY <2>2, <2>3 DEF Last
  <2> QED BY <2>2, <2>3, <2>4, WayOfPlaces
<1> QED BY <1>1, <1>2

-----------------------------------------------------------------------------
(***************************************************************************)
(* What the steps do to frames and scopes.                                 *)
(***************************************************************************)

\* The evaluation goes on as frame f, in its scope: the number of arguments that are not
\* those of a range grows only by arguments that are pushed for a value or for Eval.
Works(f) ==
    /\ frames # <<>>
    /\ Replaced(frames, f, frames') /\ f.node = Top.node /\ f.env = Top.env
    /\ Subscoped(f) => Subscoped(Top)
    /\ Touched(Top.env)
    /\ Owed(f) <= scopes'[Top.env].len
    /\ \/ scopes'[Top.env].len - Owed(f) = scopes[Top.env].len - Owed(Top)
       \/ /\ scopes'[Top.env].len - Owed(f) = scopes[Top.env].len - Owed(Top) + 1
          /\ Top.pc = "init" \/ (Top.pc = "args" /\ ret # NoRet)
    /\ f.pc = "each" => arrays'[scopes'[Top.env].arr][scopes'[Top.env].len] = f.acc
    /\ f.pc = "args" => /\ ret' = NoRet
                        /\ f.i = Len(Node.args) \/ (Top.pc = "args" /\ ret # NoRet)

\* It goes on as frame f, and waits for the evaluation of frame g.
Waiting(f, g) ==
    /\ frames # <<>>
    /\ Pushed(frames, f, g, frames') /\ f.node = Top.node /\ f.env = Top.env
    /\ Subscoped(f) => Subscoped(Top)
    /\ Owed(f) = Owed(Top)
    /\ f.pc = "each" => f = Top
    /\ f.pc = "args" => f = Top /\ f.i > 0
    /\ g.env = Top.env /\ g.pc = "scope"
    /\ UNCHANGED scopeVars

\* It ends.
Ending ==
    /\ Len(frames) > 1 /\ Len(frames') = Len(frames) - 1
    /\ \A d \in 1..(Len(frames) - 1) : frames'[d] = frames[d]
    /\ MaxInt32 >= 2 => Owed(Top) = 0
    /\ UNCHANGED scopeVars

\* It goes on as frame f in a new scope, the last one allocated.
Moving(f) ==
    /\ Replaced(frames, f, frames') /\ f.node = Top.node /\ f.env = Len(scopes')
    /\ Len(frames) > 1
    /\ Owed(f) = 0 /\ Owed(Top) = 0 /\ f.pc # "args"
    /\ \A s \in DOMAIN scopes : s \in DOMAIN scopes' /\ scopes'[s] = scopes[s]
    /\ Len(scopes) < Len(scopes')
    /\ arrays' = arrays

\* The new scope is below the one it is in.
Shifting(f) ==
    /\ Moving(f) /\ scopes'[f.env].len = 0
    /\ \A s \in DOMAIN scopes' \ DOMAIN scopes :
          /\ scopes'[s].arr = 0
          /\ scopes'[s].parent = Top.env \/ scopes'[s].parent \in DOMAIN scopes' \ DOMAIN scopes

\* The new scope is a copy of the parent scope.
Copying(f) ==
    /\ Moving(f) /\ (Subscoped(f) => Subscoped(Top))
    /\ scopes[Top.env].parent # 0
    /\ scopes'[f.env] = scopes[scopes[Top.env].parent]

\* Eval begins, with one frame.
Beginning ==
    /\ frames = <<>> /\ Len(frames') = 1 /\ frames'[1].env = 1 /\ frames'[1].pc = "init"
    /\ DOMAIN scopes' = DOMAIN scopes /\ 1 \in DOMAIN scopes
    /\ scopes'[1].parent = 0

\* One of these, or Eval ends, or nothing happens.
Evolves ==
    \/ \E f : Works(f)
    \/ \E f, g : Waiting(f, g)
    \/ Ending
    \/ \E f : Shifting(f)
    \/ \E f : Copying(f)
    \/ Beginning
    \/ Len(frames) <= 1 /\ Len(frames') = 0
    \/ frames' = frames /\ ret' = ret /\ UNCHANGED scopeVars

\* What is known before a step that changes frames, in programs without drop_args.
Ready ==
    /\ Inv /\ NodesOK /\ Memory /\ DropFree
    /\ frames # <<>> => /\ Top.env \in DOMAIN scopes /\ Owed(Top) <= scopes[Top.env].len
                       /\ (Len(frames) = 1 => Top.env = 1)

\* At the points where it matters to the arguments, few steps are possible.
LEMMA StackPoints ==
    ASSUME Inv, StackStep \/ Signal \/ Store \/ Program, ~Refuse
    PROVE  /\ out.st = "running" /\ Top.pc # "second" /\ Top.pc # "scope"
           /\ Top.pc = "each" => RangeEach \/ RangeDropFails
           /\ Top.pc = "args" => ArgCall \/ ArgFails
<1> USE DEF At, Body
<1>1. CASE InitCall \/ DropFails \/ ArgCall \/ ArgFails \/ RangeEach \/ RangeDropFails
  BY <1>1 DEF InitCall, DropFails, ArgCall, ArgFails, RangeEach, RangeDropFails
<1>2. CASE ScopeValue \/ ArgValue \/ Default \/ Const \/ AtRoot \/ ParentValue
  BY <1>2 DEF ScopeValue, ArgValue, Default, Const, AtRoot, ParentValue
<1>3. CASE PassError \/ PassErrorValue \/ NotBool \/ ListValue \/ MapValue \/ Message
  BY <1>3 DEF PassError, PassErrorValue, NotBool, ListValue, MapValue, Message
<1>4. CASE Not \/ Connective \/ Sequence \/ Switch \/ WhileCondition \/ WhileBody
  BY <1>4 DEF Not, Connective, Sequence, Switch, WhileCondition, WhileBody
<1>5. CASE KeyNext \/ BadKey \/ Load \/ Range_ \/ RangeEnd \/ RangeResult
  BY <1>5 DEF KeyNext, BadKey, Load, Range_, RangeEnd, RangeResult
<1>6. CASE Signal \/ Store \/ Program
  BY <1>6 DEF Signal, Store, Program
<1> QED BY <1>1, <1>2, <1>3, <1>4, <1>5, <1>6 DEF StackStep

\* Two arguments of the scope itself can be dropped.
LEMMA CanDropOwn ==
    ASSUME Memory, NEW y \in DOMAIN scopes, NEW n \in Nat, n <= scopes[y].len, n <= MaxInt32
    PROVE  CanDrop(y, n)
<1>1. Tree /\ Len(scopes) \in Nat \ {0} /\ scopes[y].len \in Nat /\ y # 0
  BY MemoryFacts DEF Numbered
<1>2. Path(y)[0] = y /\ Held(y)[0] = 0 /\ 0 \in 0..Len(scopes)
  BY <1>1, PathFacts, HeldFacts DEF PathIsWalk, HeldIsSum
<1>3. 0 \in DropEnds(y, n)
  BY <1>1, <1>2 DEF DropEnds
<1> QED BY <1>3 DEF CanDrop

\* A frame that goes on where the memory stays as it is.
LEMMA WorksQuietly ==
    ASSUME Ready, frames # <<>>, UNCHANGED scopeVars, prog' = prog,
           NEW f, Like(f), f.env = Top.env, frames' = Append(Front(frames), f),
           Owed(f) = 0, Owed(Top) = 0, f.pc # "args",
           Top.pc = "scope" => Node.scope = <<>>
    PROVE  Evolves
<1>1. Replaced(frames, f, frames')
  BY GotoFrames DEF Ready, Inv
<1>2. Touched(Top.env) /\ scopes' = scopes
  BY NothingTouched DEF Ready, scopeVars
<1>3. scopes[Top.env].len \in Nat
  BY MemoryFacts DEF Ready, Numbered
<1>4. Subscoped(f) => Subscoped(Top)
  BY DEF Subscoped, Like, Node
<1>5. f.pc # "each"
  BY DEF Owed
<1>6. Works(f)
  BY <1>1, <1>2, <1>3, <1>4, <1>5 DEF Works, Like
<1> QED BY <1>6 DEF Evolves

\* An evaluation calls another one.
LEMMA WaitsQuietly ==
    ASSUME Ready, frames # <<>>, UNCHANGED scopeVars, prog' = prog, Top.pc # "scope",
           NEW f, Like(f), Waits(f), Steady(f), NEW k, Sub(f, k),
           Top.pc = "args" => f = Top /\ f.i > 0
    PROVE  Evolves
<1>1. PICK g : g = NewFrame(k, f.env)
  OBVIOUS
<1>2. IsFrame(g) /\ g.pc = "scope" /\ g.env = f.env
  BY <1>1 DEF IsFrame, NewFrame
<1>3. Pushed(frames, f, g, frames')
  BY <1>1, <1>2, SubFrames DEF Sub, Ready, Inv
<1>4. f.env = Top.env /\ Owed(f) = Owed(Top) /\ (f.pc = "each" => f = Top)
  BY DEF Steady, Owed, Waits
<1>5. f.pc = "args" => f = Top /\ f.i > 0
  <2>1. f.pc = "args" => Top.pc = "args"
    BY DEF Steady
  <2> QED BY <2>1
<1>6. Waiting(f, g)
  BY <1>2, <1>3, <1>4, <1>5 DEF Waiting, Subscoped, Like
<1> QED BY <1>6 DEF Evolves

\* An evaluation ends.
LEMMA EndsQuietly ==
    ASSUME Ready, frames # <<>>, UNCHANGED scopeVars, prog' = prog, Top.pc # "init",
           frames' = Front(frames), MaxInt32 >= 2 => Owed(Top) = 0
    PROVE  Evolves
<1>1. /\ frames' # <<>> /\ Len(frames') = Len(frames) - 1
      /\ \A d \in 1..(Len(frames) - 1) : frames'[d] = frames[d]
  BY ReturnFrames DEF Ready, Inv
<1>2. Len(frames) \in Nat \ {0} /\ Len(frames) # 1
  BY TopOK DEF Ready, Inv
<1>3. Ending
  BY <1>1, <1>2 DEF Ending
<1> QED BY <1>3 DEF Evolves

\* Steps that change nothing but the stack, or the stack and the environment.
LEMMA StackEvolves ==
    ASSUME Ready, StackStep \/ Signal \/ Store \/ Program
    PROVE  Evolves /\ Memory'
<1>1. /\ FramesOK /\ frames # <<>> /\ out.st = "running" /\ prog' = prog
      /\ UNCHANGED scopeVars
  BY StepRuns DEF Ready, StackStep, Signal, Store, Program
<1>2. Memory' /\ Inv
  BY <1>1, NothingTouched DEF Ready
<1>3. CASE Refuse
  <2>1. Top.pc = "scope" /\ frames' = Front(frames)
    BY <1>3 DEF Refuse, At, Return
  <2> QED BY <1>1, <1>2, <2>1, EndsQuietly DEF Owed
<1>4. CASE ~Refuse
  <2>1. /\ Top.pc # "second" /\ Top.pc # "scope"
        /\ Top.pc = "each" => RangeEach \/ RangeDropFails
        /\ Top.pc = "args" => ArgCall \/ ArgFails
    BY <1>2, <1>4, StackPoints
  <2>2. Turn
    BY <1>2, <1>4, StackMoves, EffectMoves
  <2>3. CASE Top.pc = "each" /\ RangeEach
    <3>1. Like(Top) /\ Waits(Top) /\ Steady(Top) /\ Sub(Top, Kid(2))
      BY <1>1, <2>3, TopOK DEF RangeEach, Like, Waits, Steady
    <3> QED BY <1>1, <1>2, <2>1, <2>3, <3>1, WaitsQuietly
  <2>4. CASE Top.pc = "each" /\ RangeDropFails
    <3>1. frames' = Front(frames) /\ ~CanDrop(Top.env, 2)
      BY <2>4 DEF RangeDropFails, Return
    <3>2. MaxInt32 < 2
      <4>1. 2 <= scopes[Top.env].len /\ Top.env \in DOMAIN scopes
        BY <1>1, <2>4 DEF Ready, Owed
      <4>2. ~(2 <= MaxInt32)
        BY <3>1, <4>1, CanDropOwn DEF Ready
      <4> QED BY <4>2, MaxInt32Assumption
    <3>3. ~(MaxInt32 >= 2)
      BY <3>2, MaxInt32Assumption
    <3> QED BY <1>1, <1>2, <2>4, <3>1, <3>3, EndsQuietly
  <2>5. CASE Top.pc = "args" /\ ArgCall
    <3>1. CASE Top.i > 0
      <4>1. Like(Top) /\ Waits(Top) /\ Steady(Top) /\ Sub(Top, Node.args[Top.i])
        BY <1>1, <2>5, <3>1, TopOK DEF ArgCall, Like, Waits, Steady
      <4> QED BY <1>1, <1>2, <2>1, <2>5, <3>1, <4>1, WaitsQuietly
    <3>2. CASE ~(Top.i > 0)
      <4>1. PICK f : f = [Top EXCEPT !.pc = "body"]
        OBVIOUS
      <4>2. Like(f) /\ f.env = Top.env /\ f.pc = "body"
        BY <1>1, <2>5, <4>1, TopOK DEF Like, IsFrame
      <4>3. frames' = Append(Front(frames), f)
        BY <2>5, <3>2, <4>1 DEF ArgCall, Goto
      <4>4. Owed(f) = 0 /\ Owed(Top) = 0 /\ f.pc # "args" /\ Top.pc # "scope"
        BY <2>5, <4>2 DEF Owed
      <4> QED BY <1>1, <1>2, <4>2, <4>3, <4>4, WorksQuietly
    <3> QED BY <3>1, <3>2
  <2>6. CASE Top.pc = "args" /\ ArgFails
    <3>1. frames' = Front(frames)
      BY <2>6 DEF ArgFails, Return
    <3> QED BY <1>1, <1>2, <2>6, <3>1, EndsQuietly DEF Owed
  <2>7. CASE Top.pc \notin {"each", "args"}
    <3>1. Owed(Top) = 0
      BY <2>1, <2>7 DEF Owed
    <3>2. CASE Advances
      <4>1. PICK f : Like(f) /\ Onward(f) /\ Goto(f)
        BY <3>2 DEF Advances
      <4>2. f.env = Top.env /\ f.pc \in {"body", "next"} /\ frames' = Append(Front(frames), f)
        BY <4>1 DEF Onward, Goto
      <4>3. Owed(f) = 0 /\ f.pc # "args"
        BY <4>2 DEF Owed
      <4> QED BY <1>1, <1>2, <2>1, <3>1, <4>1, <4>2, <4>3, WorksQuietly
    <3>3. CASE Calls
      <4>1. PICK f, k : Like(f) /\ Waits(f) /\ Steady(f) /\ Sub(f, k)
        BY <3>3 DEF Calls
      <4> QED BY <1>1, <1>2, <2>1, <2>7, <4>1, WaitsQuietly
    <3>4. CASE Returns
      <4>1. frames' = Front(frames) /\ Top.pc # "init"
        BY <3>4 DEF Returns, Return
      <4> QED BY <1>1, <1>2, <3>1, <4>1, EndsQuietly
    <3> QED BY <2>2, <3>2, <3>3, <3>4 DEF Turn
  <2> QED BY <2>1, <2>3, <2>4, <2>5, <2>6, <2>7
<1> QED BY <1>2, <1>3, <1>4

\* A push goes on in its scope.
LEMMA PushWorks ==
    ASSUME Ready, frames # <<>>, prog' = prog, NEW v, PushArg(Top.env, v),
           NEW f, Like(f), f.env = Top.env, frames' = Append(Front(frames), f),
           Subscoped(f) => Subscoped(Top),
           \/ Owed(f) = Owed(Top) + 1
           \/ Owed(f) = 0 /\ Owed(Top) = 0 /\ (Top.pc = "init" \/ (Top.pc = "args" /\ ret # NoRet)),
           f.pc = "each" => v = f.acc,
           f.pc = "args" => Top.pc = "args" /\ ret' = NoRet /\ ret # NoRet
    PROVE  Evolves /\ Memory'
<1>1. Replaced(frames, f, frames')
  BY GotoFrames DEF Ready, Inv
<1>2. PICK y \in DOMAIN scopes : y = Top.env
  BY DEF Ready
<1>3. /\ Memory' /\ Touched(y)
      /\ scopes'[y].len = scopes[y].len + 1
      /\ arrays'[scopes'[y].arr][scopes[y].len + 1] = v
  BY <1>2, PushTouches DEF Ready
<1>4. scopes[y].len \in Nat
  BY <1>2, MemoryFacts DEF Ready, Numbered
<1>5. Owed(f) \in 0..2 /\ Owed(Top) \in 0..2 /\ Owed(Top) <= scopes[y].len
  BY <1>2 DEF Owed, Ready
<1>6. /\ Owed(f) <= scopes'[y].len
      /\ \/ scopes'[y].len - Owed(f) = scopes[y].len - Owed(Top)
         \/ /\ scopes'[y].len - Owed(f) = scopes[y].len - Owed(Top) + 1
            /\ Top.pc = "init" \/ (Top.pc = "args" /\ ret # NoRet)
  BY <1>3, <1>4, <1>5
<1>7. f.pc = "each" => arrays'[scopes'[y].arr][scopes'[y].len] = f.acc
  BY <1>3
<1>8. Works(f)
  BY <1>1, <1>2, <1>3, <1>6, <1>7 DEF Works, Like
<1> QED BY <1>3, <1>8 DEF Evolves

\* Frame f is frame t at point p, in its scope.
Moved(f, t, p) == IsFrame(f) /\ f.pc = p /\ f.node = t.node /\ f.env = t.env

\* Frames after a push, or after arguments are dropped.
LEMMA MovedOK ==
    ASSUME NEW t, IsFrame(t), NEW p, NEW x, NEW y
    PROVE  /\ Moved([t EXCEPT !.pc = p], t, p) /\ [t EXCEPT !.pc = p].acc = t.acc
           /\ Moved([t EXCEPT !.pc = p, !.i = x], t, p) /\ [t EXCEPT !.pc = p, !.i = x].i = x
           /\ Moved([t EXCEPT !.pc = p, !.iter = x, !.acc = y], t, p)
           /\ [t EXCEPT !.pc = p, !.iter = x, !.acc = y].acc = y
           /\ [t EXCEPT !.pc = p, !.iter = x, !.acc = y].iter = x
           /\ Moved([t EXCEPT !.i = x], t, t.pc)
<1>1. PICK f : f = [t EXCEPT !.pc = p]
  OBVIOUS
<1>2. Moved(f, t, p) /\ f.acc = t.acc
  BY <1>1 DEF IsFrame, Moved
<1>3. PICK g : g = [f EXCEPT !.i = x]
  OBVIOUS
<1>4. Moved(g, t, p) /\ g.i = x
  BY <1>2, <1>3 DEF IsFrame, Moved
<1>5. PICK h : h = [f EXCEPT !.iter = x]
  OBVIOUS
<1>6. Moved(h, t, p) /\ h.iter = x
  BY <1>2, <1>5 DEF IsFrame, Moved
<1>7. PICK j : j = [h EXCEPT !.acc = y]
  OBVIOUS
<1>8. Moved(j, t, p) /\ j.iter = x /\ j.acc = y
  BY <1>6, <1>7 DEF IsFrame, Moved
<1>9. [t EXCEPT !.pc = p, !.i = x] = g /\ [t EXCEPT !.pc = p, !.iter = x, !.acc = y] = j
  BY <1>1, <1>3, <1>5, <1>7
<1>10. Moved([t EXCEPT !.i = x], t, t.pc)
  BY DEF IsFrame, Moved
<1> QED BY <1>1, <1>2, <1>4, <1>8, <1>9, <1>10

\* What a step of a running Eval begins with.
LEMMA Runs ==
    ASSUME Ready, out.st = "running"
    PROVE  /\ FramesOK /\ frames # <<>> /\ IsFrame(Top)
           /\ Top.pc \notin {"init", "scope"} => Top.node \in DOMAIN prog.nodes
           /\ Top.pc = "init" => Top.env = 1
           /\ Top.env \in DOMAIN scopes
<1>1. FramesOK /\ frames # <<>>
  BY DEF Ready, Inv, OutOK
<1>2. /\ Len(frames) \in 1..Len(frames) /\ Top = frames[Len(frames)] /\ IsFrame(Top)
      /\ (Top.pc = "init" => Len(frames) = 1)
  BY <1>1, TopOK
<1>3. Top.pc \notin {"init", "scope"} => Top.node \in DOMAIN prog.nodes
  BY <1>2 DEF Ready, NodesOK
<1> QED BY <1>1, <1>2, <1>3 DEF Ready

\* Steps that push an argument.
LEMMA PushEvolves ==
    ASSUME Ready, prog' = prog, InitPush \/ ArgPush \/ RangeNext \/ RangeSecond
    PROVE  Evolves /\ Memory'
<1>1. out.st = "running"
  BY DEF InitPush, ArgPush, RangeNext, RangeSecond, At
<1>2. FramesOK /\ frames # <<>> /\ IsFrame(Top) /\ (Top.pc = "init" => Top.env = 1)
  BY <1>1, Runs
<1>3. ASSUME NEW f, NEW p, Moved(f, Top, p), p # "scope", (p = "init") <=> (Top.pc = "init"), Top.pc # "scope"
      PROVE  Like(f) /\ f.env = Top.env /\ (Subscoped(f) => Subscoped(Top))
  BY <1>3 DEF Moved, Like, Subscoped
<1>4. CASE InitPush
  <2>1. PICK f : f = [Top EXCEPT !.i = Top.i - 1]
    OBVIOUS
  <2>2. Top.pc = "init" /\ PushArg(Top.env, prog.args[Top.i]) /\ Goto(f)
    BY <1>2, <1>4, <2>1 DEF InitPush, At
  <2>3. Moved(f, Top, "init")
    <3>1. PICK x : x = Top.i - 1
      OBVIOUS
    <3>2. Moved([Top EXCEPT !.i = x], Top, Top.pc)
      BY <1>2, MovedOK
    <3> QED BY <2>1, <2>2, <3>1, <3>2
  <2>4. f.pc = "init" /\ Owed(f) = 0 /\ Owed(Top) = 0 /\ frames' = Append(Front(frames), f)
    BY <2>2, <2>3 DEF Moved, Owed, Goto
  <2> QED BY <1>2, <1>3, <2>2, <2>3, <2>4, PushWorks
<1>5. CASE ArgPush
  <2>1. PICK f : f = [Top EXCEPT !.i = Top.i - 1]
    OBVIOUS
  <2>2. Top.pc = "args" /\ PushArg(Top.env, ret.val) /\ Goto(f) /\ ret # NoRet
    BY <1>5, <2>1 DEF ArgPush, At, GotOk
  <2>3. Moved(f, Top, "args")
    <3>1. PICK x : x = Top.i - 1
      OBVIOUS
    <3>2. Moved([Top EXCEPT !.i = x], Top, Top.pc)
      BY <1>2, MovedOK
    <3> QED BY <2>1, <2>2, <3>1, <3>2
  <2>4. /\ f.pc = "args" /\ Owed(f) = 0 /\ Owed(Top) = 0
        /\ frames' = Append(Front(frames), f) /\ ret' = NoRet
    BY <2>2, <2>3 DEF Moved, Owed, Goto
  <2> QED BY <1>2, <1>3, <2>2, <2>3, <2>4, PushWorks
<1>6. CASE RangeNext
  <2>1. PICK p : /\ PushArg(Top.env, p.pair[1])
                 /\ Goto([Top EXCEPT !.pc = "second", !.iter = p.iter, !.acc = p.pair[2]])
    BY <1>6 DEF RangeNext
  <2>2. PICK f : f = [Top EXCEPT !.pc = "second", !.iter = p.iter, !.acc = p.pair[2]]
    OBVIOUS
  <2>3. Moved(f, Top, "second") /\ Top.pc = "next"
    <3>1. PICK x, y : x = p.iter /\ y = p.pair[2]
      OBVIOUS
    <3>2. Moved([Top EXCEPT !.pc = "second", !.iter = x, !.acc = y], Top, "second")
      BY <1>2, MovedOK
    <3>3. Top.pc = "next"
      BY <1>6 DEF RangeNext, At
    <3> QED BY <2>2, <3>1, <3>2, <3>3
  <2>4. f.pc = "second" /\ Owed(f) = Owed(Top) + 1 /\ frames' = Append(Front(frames), f)
    BY <2>1, <2>2, <2>3 DEF Moved, Owed, Goto
  <2> QED BY <1>2, <1>3, <2>1, <2>3, <2>4, PushWorks
<1>7. CASE RangeSecond
  <2>1. PICK f : f = [Top EXCEPT !.pc = "each"]
    OBVIOUS
  <2>2. Moved(f, Top, "each") /\ Top.pc = "second" /\ f.acc = Top.acc /\ Goto(f)
    BY <1>2, <1>7, <2>1, MovedOK DEF RangeSecond, At
  <2>3. f.pc = "each" /\ Owed(f) = Owed(Top) + 1 /\ frames' = Append(Front(frames), f)
    BY <2>2 DEF Moved, Owed, Goto
  <2>4. PushArg(Top.env, f.acc)
    BY <1>7, <2>2 DEF RangeSecond
  <2> QED BY <1>2, <1>3, <2>2, <2>3, <2>4, PushWorks
<1> QED BY <1>4, <1>5, <1>6, <1>7

\* Steps that drop arguments.
LEMMA DropEvolves ==
    ASSUME Ready, prog' = prog, Drop \/ RangeDrop
    PROVE  Evolves /\ Memory'
<1>1. out.st = "running"
  BY DEF Drop, RangeDrop, At
<1>2. /\ FramesOK /\ frames # <<>> /\ IsFrame(Top)
      /\ (Top.pc \notin {"init", "scope"} => Top.node \in DOMAIN prog.nodes)
  BY <1>1, Runs
<1>3. PICK y \in DOMAIN scopes : y = Top.env
  BY <1>1, Runs
<1>4. PICK len \in Nat : len = scopes[y].len
  BY MemoryFacts DEF Ready, Numbered
<1>5. CASE Drop
  <2>1. PICK f : f = [Top EXCEPT !.pc = "args", !.i = Len(Node.args)]
    OBVIOUS
  <2>2. /\ Top.pc = "drop" /\ DropArgs(y, Node.drop) /\ Goto(f)
        /\ Moved(f, Top, "args") /\ f.i = Len(Node.args)
    <3>1. Top.pc = "drop" /\ DropArgs(y, Node.drop) /\ Goto(f)
      BY <1>3, <1>5, <2>1 DEF Drop, At
    <3>2. PICK x : x = Len(Node.args)
      OBVIOUS
    <3>3. PICK t : t = Top
      OBVIOUS
    <3>4. Moved([t EXCEPT !.pc = "args", !.i = x], t, "args")
      BY <1>2, <3>3, MovedOK, Zenon
    <3>5. [t EXCEPT !.pc = "args", !.i = x].i = x
      <4>1. PICK g : g = [t EXCEPT !.pc = "args"]
        OBVIOUS
      <4>2. IsFrame(g)
        BY <1>2, <3>3, <4>1, MovedOK, Zenon DEF Moved
      <4>3. [g EXCEPT !.i = x].i = x
        BY <4>2 DEF IsFrame
      <4> QED BY <4>1, <4>3, Zenon
    <3> QED BY <2>1, <3>1, <3>2, <3>3, <3>4, <3>5
  <2>3. Node.drop = 0
    BY <1>2, <2>2 DEF Ready, DropFree, Node
  <2>4. /\ Memory' /\ Touched(y) /\ scopes'[y].len = len
    BY <1>3, <1>4, <2>2, <2>3, DropTouches DEF Ready
  <2>5. /\ Like(f) /\ f.env = Top.env /\ f.pc = "args" /\ Owed(f) = 0 /\ Owed(Top) = 0
        /\ (Subscoped(f) => Subscoped(Top)) /\ ret' = NoRet
        /\ frames' = Append(Front(frames), f)
    BY <2>2 DEF Moved, Like, Subscoped, Owed, Goto
  <2>6. Replaced(frames, f, frames')
    BY <1>2, <2>5, GotoFrames DEF Ready, Inv
  <2>8. /\ Owed(f) <= scopes'[y].len
        /\ scopes'[y].len - Owed(f) = scopes[y].len - Owed(Top)
    BY <1>4, <2>4, <2>5
  <2>9. f.node = Top.node /\ f.pc # "each" /\ f.i = Len(Node.args)
    BY <2>2, <2>5 DEF Like
  <2>7. Works(f)
    BY <1>2, <1>3, <2>4, <2>5, <2>6, <2>8, <2>9 DEF Works
  <2> QED BY <2>4, <2>7 DEF Evolves
<1>6. CASE RangeDrop
  <2>1. PICK f : f = [Top EXCEPT !.pc = "result"]
    OBVIOUS
  <2>2. /\ Top.pc = "each" /\ DropArgs(y, 2) /\ frames' = Append(Front(frames), f)
        /\ Moved(f, Top, "result")
    BY <1>2, <1>3, <1>6, <2>1, MovedOK DEF RangeDrop, At
  <2>3. 2 <= len
    BY <1>2, <1>3, <1>4, <2>2 DEF Ready, Owed
  <2>4. /\ Memory' /\ Touched(y) /\ scopes'[y].len = len - 2
    BY <1>3, <1>4, <2>2, <2>3, DropTouches DEF Ready
  <2>5. /\ Like(f) /\ f.env = Top.env /\ f.pc = "result" /\ Owed(f) = 0 /\ Owed(Top) = 2
        /\ (Subscoped(f) => Subscoped(Top))
    BY <2>2 DEF Moved, Like, Subscoped, Owed
  <2>6. Replaced(frames, f, frames')
    BY <1>2, <2>2, <2>5, GotoFrames DEF Ready, Inv
  <2>8. /\ Owed(f) <= scopes'[y].len
        /\ scopes'[y].len - Owed(f) = scopes[y].len - Owed(Top)
    BY <1>4, <2>3, <2>4, <2>5
  <2>9. f.node = Top.node /\ f.pc # "each" /\ f.pc # "args"
    BY <2>5 DEF Like
  <2>7. Works(f)
    BY <1>2, <1>3, <2>4, <2>5, <2>6, <2>8, <2>9 DEF Works
  <2> QED BY <2>4, <2>7 DEF Evolves
<1> QED BY <1>5, <1>6

\* The scopes that a shift adds are below the one shifted from, or below each other.
LEMMA ShiftAdds ==
    ASSUME Memory, NEW y \in DOMAIN scopes, NEW m \in Nat \ {0},
           NEW locs \in [1..m -> DOMAIN ValueAt], Shift(y, locs)
    PROVE  /\ Memory' /\ arrays' = arrays
           /\ Len(scopes) < Len(scopes') /\ Len(scopes') \in DOMAIN scopes'
           /\ scopes'[Len(scopes')].len = 0
           /\ \A s \in DOMAIN scopes : s \in DOMAIN scopes' /\ scopes'[s] = scopes[s]
           /\ \A s \in DOMAIN scopes' \ DOMAIN scopes :
                 /\ scopes'[s].arr = 0
                 /\ scopes'[s].parent = y \/ scopes'[s].parent \in DOMAIN scopes' \ DOMAIN scopes
<1>1. PICK A : ZeroArg \in A /\ WellFormed(A, DOMAIN ValueAt)
  BY DEF Memory
<1>2. PICK L : L = DOMAIN ValueAt
  OBVIOUS
<1>3. /\ WellFormed(A, L)' /\ arrays' = arrays /\ Len(scopes') = Len(scopes) + m
      /\ \A t \in DOMAIN scopes : t \in DOMAIN scopes' /\ scopes'[t] = scopes[t]
      /\ \A t \in DOMAIN scopes' \ DOMAIN scopes : scopes'[t].arr = 0 /\ scopes'[t].len = 0
  BY <1>1, <1>2, ShiftFits
<1>4. Memory'
  BY <1>1, <1>2, <1>3 DEF Memory
<1>5. PICK n \in Nat \ {0} : n = Len(scopes) /\ DOMAIN scopes = 1..n
  BY MemoryFacts
<1>6. Len(scopes') = n + m /\ DOMAIN scopes' = 1..(n + m) /\ n + m \in 1..(n + m)
  BY <1>3, <1>4, <1>5, MemoryNext
<1>7. PICK q : q = [i \in 1..m |-> [arr |-> 0, len |-> 0, loc |-> locs[i],
                                    parent |-> IF i = 1 THEN y ELSE n + i - 1]]
  OBVIOUS
<1>8. Len(locs) = m
  OBVIOUS
<1>9. scopes' = scopes \o q
  BY <1>5, <1>7, <1>8 DEF Shift
<1>10. /\ scopes \in Seq(Nodes(L))
       /\ q \in Seq({q[i] : i \in 1..m}) /\ Len(q) = m
  <2>1. q \in [1..m -> {q[i] : i \in 1..m}]
    BY <1>7
  <2>2. scopes \in Seq(Nodes(L))
    BY <1>1, <1>2 DEF WellFormed
  <2> QED BY <2>1, <2>2, Comprehension
<1>11. ASSUME NEW s \in (n + 1)..(n + m)
       PROVE  scopes'[s] = q[s - n]
  <2>1. PICK S, T : S = Nodes(L) /\ T = {q[i] : i \in 1..m}
    OBVIOUS
  <2>2. PICK W : W = S \cup T
    OBVIOUS
  <2>3. scopes \in Seq(W) /\ q \in Seq(W)
    BY <1>10, <2>1, <2>2
  <2>4. \A i \in 1..(Len(scopes) + Len(q)) :
           (scopes \o q)[i] = IF i <= Len(scopes) THEN scopes[i] ELSE q[i - Len(scopes)]
    BY <2>3, ConcatProperties
  <2>5. s \in 1..(Len(scopes) + Len(q)) /\ ~(s <= Len(scopes))
    BY <1>5, <1>10
  <2> QED BY <1>5, <1>9, <2>4, <2>5
<1>12. ASSUME NEW s \in DOMAIN scopes' \ DOMAIN scopes
       PROVE  scopes'[s].parent = y \/ scopes'[s].parent \in DOMAIN scopes' \ DOMAIN scopes
  <2>1. s \in (n + 1)..(n + m) /\ s - n \in 1..m
    BY <1>5, <1>6
  <2>2. q[s - n].parent = IF s - n = 1 THEN y ELSE n + (s - n) - 1
    BY <1>7, <2>1
  <2>3. s - n # 1 => n + (s - n) - 1 \in (n + 1)..(n + m)
    BY <2>1
  <2>4. (n + 1)..(n + m) \subseteq DOMAIN scopes' \ DOMAIN scopes
    BY <1>5, <1>6
  <2> QED BY <1>11, <2>1, <2>2, <2>3, <2>4
<1>13. scopes'[n + m].len = 0
  <2>1. n + m \in DOMAIN scopes' \ DOMAIN scopes
    BY <1>5, <1>6
  <2> QED BY <1>3, <2>1
<1> QED BY <1>3, <1>4, <1>5, <1>6, <1>12, <1>13

\* The scope that a shift to the parent adds is a copy.
LEMMA ParentAdds ==
    ASSUME Memory, NEW y \in DOMAIN scopes, ShiftToParent(y)
    PROVE  /\ Memory' /\ arrays' = arrays
           /\ Len(scopes) < Len(scopes') /\ Len(scopes') \in DOMAIN scopes'
           /\ \A s \in DOMAIN scopes : s \in DOMAIN scopes' /\ scopes'[s] = scopes[s]
           /\ scopes[y].parent # 0 /\ scopes'[Len(scopes')] = scopes[scopes[y].parent]
<1>1. PICK A : ZeroArg \in A /\ WellFormed(A, DOMAIN ValueAt)
  BY DEF Memory
<1>2. PICK L : L = DOMAIN ValueAt
  OBVIOUS
<1>3. WellFormed(A, L)'
  BY <1>1, <1>2, ParentFits
<1>4. Memory'
  BY <1>1, <1>2, <1>3 DEF Memory
<1>5. PICK n \in Nat \ {0} : n = Len(scopes) /\ DOMAIN scopes = 1..n
  BY MemoryFacts
<1>6. PICK p \in DOMAIN scopes : p = scopes[y].parent /\ p # 0
  BY <1>5, MemoryFacts DEF Numbered, ShiftToParent
<1>7. PICK r \in Nodes(L) : r = scopes[p]
  BY <1>1, <1>2, Windows
<1>8. scopes \in Seq(Nodes(L)) /\ scopes' = Append(scopes, r) /\ arrays' = arrays
  BY <1>1, <1>2, <1>6, <1>7 DEF WellFormed, ShiftToParent
<1>9. /\ Len(scopes') = n + 1 /\ DOMAIN scopes' = 1..(n + 1)
      /\ \A i \in 1..n : scopes'[i] = scopes[i]
      /\ scopes'[n + 1] = r
  BY <1>5, <1>8, AppendProperties, LenProperties
<1> QED BY <1>4, <1>5, <1>6, <1>7, <1>8, <1>9

\* Going to a copy of the parent scope.
LEMMA ParentEvolves ==
    ASSUME Ready, prog' = prog, Parent
    PROVE  Evolves /\ Memory'
<1>1. out.st = "running" /\ Top.pc = "body"
  BY DEF Parent, Body, At
<1>2. FramesOK /\ frames # <<>> /\ IsFrame(Top) /\ Top.env \in DOMAIN scopes
  BY <1>1, Runs
<1>3. /\ Memory' /\ arrays' = arrays
      /\ Len(scopes) < Len(scopes') /\ Len(scopes') \in DOMAIN scopes'
      /\ \A s \in DOMAIN scopes : s \in DOMAIN scopes' /\ scopes'[s] = scopes[s]
      /\ scopes[Top.env].parent # 0 /\ scopes'[Len(scopes')] = scopes[scopes[Top.env].parent]
  BY <1>2, ParentAdds DEF Ready, Parent
<1>4. PICK z : z = Len(scopes')
  OBVIOUS
<1>5. PICK f : f = [Top EXCEPT !.pc = "parent", !.env = z]
  OBVIOUS
<1>6. frames' = Append(Front(frames), f)
  BY <1>4, <1>5 DEF Parent, Goto, NewScope
<1>7. f.pc = "parent" /\ f.env = z /\ f.node = Top.node /\ IsFrame(f)
  <2>1. PICK g : g = [Top EXCEPT !.pc = "parent"]
    OBVIOUS
  <2>2. IsFrame(g) /\ g.pc = "parent" /\ g.node = Top.node
    BY <1>2, <2>1 DEF IsFrame
  <2>3. f = [g EXCEPT !.env = z]
    BY <1>5, <2>1
  <2> QED BY <2>2, <2>3 DEF IsFrame
<1>8. Like(f) /\ Owed(f) = 0 /\ Owed(Top) = 0 /\ (Subscoped(f) => Subscoped(Top))
  BY <1>1, <1>7 DEF Like, Owed, Subscoped
<1>9. Replaced(frames, f, frames')
  BY <1>2, <1>6, <1>8, GotoFrames
<1>10. Len(frames) > 1
  <2>1. PICK n \in Nat \ {0} : n = Len(frames)
    BY <1>2, TopOK
  <2>2. n # 1
    BY <1>1, <1>2, <2>1, TopOK
  <2>3. n > 1
    BY <2>2
  <2> QED BY <2>1, <2>3
<1>11. Copying(f)
  BY <1>3, <1>4, <1>7, <1>8, <1>9, <1>10 DEF Copying, Moving
<1> QED BY <1>3, <1>11 DEF Evolves

\* An evaluation goes on as frame f in a scope below the one it is in.
Descends(f) ==
    /\ f.pc = "drop" /\ f.env = Len(scopes') /\ f.node = Top.node /\ IsFrame(f)
    /\ frames' = Append(Front(frames), f) /\ ret' = NoRet
    /\ Memory' /\ arrays' = arrays
    /\ Len(scopes) < Len(scopes') /\ Len(scopes') \in DOMAIN scopes'
    /\ scopes'[Len(scopes')].len = 0
    /\ \A s \in DOMAIN scopes : s \in DOMAIN scopes' /\ scopes'[s] = scopes[s]
    /\ \A s \in DOMAIN scopes' \ DOMAIN scopes :
          /\ scopes'[s].arr = 0
          /\ scopes'[s].parent = Top.env \/ scopes'[s].parent \in DOMAIN scopes' \ DOMAIN scopes

\* It stays in its scope, descends or fails.
LEMMA EnterGoes ==
    ASSUME Inv, Memory, prog \in Programs, Enter, Top.env \in DOMAIN scopes
    PROVE  \/ UNCHANGED scopeVars /\ Return(Nil, Fail)
           \/ /\ UNCHANGED scopeVars /\ Node.scope = <<>>
              /\ \E f : Moved(f, Top, "drop") /\ Goto(f)
           \/ \E f : Descends(f)
<1>1. out.st = "running" /\ Top.pc = "scope" /\ Top.node \in DOMAIN prog.nodes /\ prog' = prog
  BY DEF Enter, At
<1>2. FramesOK /\ frames # <<>> /\ IsFrame(Top)
  BY <1>1, TopOK DEF Inv, OutOK
<1>3. CASE Node.scope = <<>>
  <2>1. PICK f : f = [Top EXCEPT !.pc = "drop"]
    OBVIOUS
  <2>2. Goto(f) /\ UNCHANGED scopeVars
    BY <1>3, <2>1 DEF Enter, ShiftScope
  <2>3. Moved(f, Top, "drop")
    BY <1>2, <2>1, MovedOK
  <2> QED BY <1>3, <2>2, <2>3
<1>4. CASE Node.scope # <<>>
  <2>1. PICK path : path = Node.scope[1]
    OBVIOUS
  <2>2. PICK locs : locs = Places(Place, path)
    OBVIOUS
  <2>3. CASE Last(locs) = NoPlace
    BY <1>4, <2>1, <2>2, <2>3, Zenon DEF Enter, ShiftScope, NoPlace
  <2>4. CASE Last(locs) # NoPlace
    <3>1. PICK z : z = Len(scopes')
      OBVIOUS
    <3>2. PICK f : f = [Top EXCEPT !.pc = "drop", !.env = z]
      OBVIOUS
    <3>3. Shift(Top.env, locs) /\ frames' = Append(Front(frames), f) /\ ret' = NoRet
      BY <1>4, <2>1, <2>2, <2>4, <3>1, <3>2, Zenon DEF Enter, ShiftScope, Goto, NewScope, NoPlace
    <3>4. path \in Seq(STRING)
      BY <1>1, <1>4, <2>1, PathsAssumption DEF Node
    <3>5. Place \in DOMAIN ValueAt
      <4>1. PICK A : WellFormed(A, DOMAIN ValueAt)
        BY DEF Memory
      <4>2. PICK L : L = DOMAIN ValueAt
        OBVIOUS
      <4>3. scopes[Top.env] \in Nodes(L)
        BY <1>2, <4>1, <4>2, Windows
      <4> QED BY <4>2, <4>3 DEF Nodes, Place
    <3>6. PICK m \in Nat \ {0} : locs \in [1..m -> DOMAIN ValueAt]
      BY <2>2, <2>4, <3>4, <3>5, PlacesFacts
    <3>7. /\ Memory' /\ arrays' = arrays
          /\ Len(scopes) < Len(scopes') /\ Len(scopes') \in DOMAIN scopes'
          /\ scopes'[Len(scopes')].len = 0
          /\ \A s \in DOMAIN scopes : s \in DOMAIN scopes' /\ scopes'[s] = scopes[s]
          /\ \A s \in DOMAIN scopes' \ DOMAIN scopes :
                /\ scopes'[s].arr = 0
                /\ scopes'[s].parent = Top.env \/ scopes'[s].parent \in DOMAIN scopes' \ DOMAIN scopes
      BY <3>3, <3>6, ShiftAdds
    <3>8. f.pc = "drop" /\ f.env = z /\ f.node = Top.node /\ IsFrame(f)
      <4>1. PICK g : g = [Top EXCEPT !.pc = "drop"]
        OBVIOUS
      <4>2. IsFrame(g) /\ g.pc = "drop" /\ g.node = Top.node
        BY <1>2, <4>1 DEF IsFrame
      <4>3. f = [g EXCEPT !.env = z]
        BY <3>2, <4>1
      <4> QED BY <4>2, <4>3 DEF IsFrame
    <3>9. Descends(f)
      BY <3>1, <3>3, <3>7, <3>8 DEF Descends
    <3> QED BY <3>9
  <2> QED BY <2>3, <2>4
<1> QED BY <1>3, <1>4

\* Entering an evaluation.
LEMMA EnterEvolves ==
    ASSUME Ready, prog \in Programs, Enter
    PROVE  Evolves /\ Memory'
<1>1. out.st = "running" /\ Top.pc = "scope" /\ Top.node \in DOMAIN prog.nodes /\ prog' = prog
  BY DEF Enter, At
<1>2. FramesOK /\ frames # <<>> /\ IsFrame(Top) /\ Top.env \in DOMAIN scopes /\ Owed(Top) = 0
  BY <1>1, Runs DEF Owed
<1>3. CASE UNCHANGED scopeVars /\ Return(Nil, Fail)
  BY <1>1, <1>2, <1>3, EndsQuietly, NothingTouched DEF Return, Ready
<1>4. ASSUME NEW f, Moved(f, Top, "drop"), Goto(f), UNCHANGED scopeVars, Node.scope = <<>>
      PROVE  Evolves /\ Memory'
  <2>1. Like(f) /\ f.env = Top.env /\ Owed(f) = 0 /\ f.pc # "args"
    BY <1>1, <1>4 DEF Moved, Like, Owed
  <2>2. frames' = Append(Front(frames), f) /\ Memory'
    BY <1>4, NothingTouched DEF Goto, Ready
  <2> QED BY <1>1, <1>2, <1>4, <2>1, <2>2, WorksQuietly
<1>5. ASSUME NEW f, Descends(f)
      PROVE  Evolves /\ Memory'
  <2>1. Like(f) /\ Owed(f) = 0 /\ frames' = Append(Front(frames), f)
    BY <1>1, <1>5 DEF Like, Owed, Descends
  <2>2. Replaced(frames, f, frames') /\ Len(frames) > 1
    <3>1. PICK n \in Nat \ {0} : n = Len(frames)
      BY <1>2, TopOK
    <3>2. n # 1
      BY <1>1, <1>2, <3>1, TopOK
    <3>3. n > 1
      BY <3>2
    <3>4. Replaced(frames, f, frames')
      BY <1>1, <1>2, <2>1, GotoFrames
    <3> QED BY <3>1, <3>3, <3>4
  <2>3. Shifting(f)
    BY <1>2, <1>5, <2>1, <2>2 DEF Shifting, Moving, Descends
  <2> QED BY <1>5, <2>3 DEF Evolves, Descends
<1>6. \/ UNCHANGED scopeVars /\ Return(Nil, Fail)
      \/ /\ UNCHANGED scopeVars /\ Node.scope = <<>>
         /\ \E f : Moved(f, Top, "drop") /\ Goto(f)
      \/ \E f : Descends(f)
  BY <1>2, EnterGoes DEF Ready
<1> QED BY <1>3, <1>4, <1>5, <1>6

\* Eval begins, or ends, or nothing happens.
LEMMA OuterEvolves ==
    ASSUME Ready, Begin \/ End \/ Panic \/ UNCHANGED vars
    PROVE  Evolves /\ Memory' /\ prog' = prog
<1>1. CASE Begin
  <2>1. PICK A : ZeroArg \in A /\ WellFormed(A, DOMAIN ValueAt)
    BY DEF Ready, Memory
  <2>2. PICK L : L = DOMAIN ValueAt
    OBVIOUS
  <2>3. InitRoot(Root) /\ UNCHANGED arrays /\ Root \in L /\ prog' = prog
    BY <1>1, <2>2, PlacesAssumption DEF Begin
  <2>4. WellFormed(A, L)' /\ DOMAIN scopes' = DOMAIN scopes /\ 1 \in DOMAIN scopes
    BY <2>1, <2>2, <2>3, RootFits
  <2>5. Memory'
    BY <2>1, <2>2, <2>4 DEF Memory
  <2>6. scopes'[1].parent = 0
    BY <2>4, <2>5, MemoryNext DEF Numbered
  <2>7. PICK g : g = NewFrame(0, 1)
    OBVIOUS
  <2>8. IsFrame(g) /\ g.env = 1
    BY <2>7 DEF NewFrame, IsFrame
  <2>9. PICK h : h = [g EXCEPT !.pc = "init"]
    OBVIOUS
  <2>10. IsFrame(h) /\ h.env = 1 /\ h.pc = "init"
    BY <2>8, <2>9 DEF IsFrame
  <2>11. PICK f : f = [h EXCEPT !.i = Len(prog.args)]
    OBVIOUS
  <2>12. f.env = 1 /\ f.pc = "init"
    BY <2>10, <2>11 DEF IsFrame
  <2>13. frames' = <<f>>
    BY <1>1, <2>7, <2>9, <2>11 DEF Begin
  <2>14. frames = <<>>
    BY <1>1 DEF Begin, Ready, Inv, OutOK
  <2>15. Beginning
    BY <2>4, <2>6, <2>12, <2>13, <2>14 DEF Beginning
  <2> QED BY <2>3, <2>5, <2>15 DEF Evolves
<1>2. CASE End
  <2>1. frames' = <<>> /\ UNCHANGED scopeVars /\ prog' = prog /\ out.st = "running" /\ Top.pc = "init"
    BY <1>2 DEF End, At
  <2>2. Len(frames) = 1 /\ Len(frames') = 0
    BY <2>1, Runs, TopOK
  <2>3. Memory'
    BY <2>1, NothingTouched DEF Ready
  <2> QED BY <2>1, <2>2, <2>3 DEF Evolves
<1>3. CASE Panic \/ UNCHANGED vars
  <2>1. frames' = frames /\ ret' = ret /\ UNCHANGED scopeVars /\ prog' = prog
    BY <1>3 DEF Panic, vars, scopeVars, machine
  <2>2. Memory'
    BY <2>1, NothingTouched DEF Ready
  <2> QED BY <2>1, <2>2 DEF Evolves
<1> QED BY <1>1, <1>2, <1>3

\* All steps of programs without drop_args are of these kinds.
LEMMA NextEvolves ==
    ASSUME Ready, prog \in Programs, [Next]_vars
    PROVE  Evolves /\ Memory' /\ prog' = prog
<1>1. CASE StackStep \/ Signal \/ Store \/ Program
  BY <1>1, StackEvolves, StepRuns DEF Ready
<1>2. CASE ScopeStep
  <2>1. prog' = prog
    BY <1>2 DEF ScopeStep, machine
  <2> QED BY <1>2, <2>1, PushEvolves, DropEvolves, ParentEvolves DEF ScopeStep
<1>3. CASE Enter
  BY <1>3, EnterEvolves DEF Enter
<1>4. CASE Begin \/ End \/ Panic \/ UNCHANGED vars
  BY <1>4, OuterEvolves
<1> QED BY <1>1, <1>2, <1>3, <1>4 DEF Next, Step, Over

-----------------------------------------------------------------------------
(***************************************************************************)
(* The nested evaluations after a step.                                    *)
(***************************************************************************)

\* What nested evaluations have.
LEMMA NestFacts ==
    ASSUME Inv, Memory, NEW base, NEW up, NestOK(base, up)
    PROVE  /\ Len(frames) \in Nat
           /\ \A d \in 1..Len(frames) :
                 /\ frames[d].env \in DOMAIN scopes /\ frames[d].env \in Nat
                 /\ base[d] \in Nat /\ Owed(frames[d]) \in 0..2
                 /\ base[d] + Owed(frames[d]) <= scopes[frames[d].env].len
           /\ frames # <<>> => /\ Len(frames) \in 1..Len(frames) /\ Top = frames[Len(frames)]
                               /\ 1 \in 1..Len(frames) /\ frames[1].env = 1
<1>1. Len(frames) \in Nat
  BY DEF Inv, FramesOK, Stack
<1>2. PICK n \in Nat : n = Len(frames)
  BY <1>1
<1>3. ASSUME NEW d \in 1..n
      PROVE  /\ frames[d].env \in DOMAIN scopes
             /\ base[d] \in Nat /\ base[d] + Owed(frames[d]) <= scopes[frames[d].env].len
  BY <1>2 DEF NestOK, Nest, Walks, Stacked, Envs, Debts
<1>4. \A d \in 1..n : frames[d].env \in Nat /\ Owed(frames[d]) \in 0..2
  BY <1>3, MemoryFacts DEF Numbered, Owed
<1>5. ASSUME frames # <<>>
      PROVE  n \in 1..n /\ Top = frames[n] /\ 1 \in 1..n /\ frames[1].env = 1
  <2>1. n \in Nat \ {0} /\ Top = frames[n]
    BY <1>2, <1>5, TopOK DEF Inv
  <2>2. n \in 1..n /\ 1 \in 1..n
    BY <2>1
  <2> QED BY <1>2, <2>1, <2>2 DEF NestOK, Nest, Ordered, Envs
<1> QED BY <1>2, <1>3, <1>4, <1>5

\* They are ready for a step.
LEMMA NestReady ==
    ASSUME Inv, NodesOK, Memory, DropFree, NEW base, NEW up, NestOK(base, up)
    PROVE  Ready
<1>1. ASSUME frames # <<>>
      PROVE  /\ Top.env \in DOMAIN scopes /\ Owed(Top) <= scopes[Top.env].len
             /\ Len(frames) = 1 => Top.env = 1
  <2>1. PICK n \in Nat : n = Len(frames)
    BY NestFacts
  <2>2. n \in 1..n /\ Top = frames[n] /\ frames[1].env = 1
    BY <1>1, <2>1, NestFacts
  <2>3. /\ frames[n].env \in DOMAIN scopes /\ base[n] \in Nat /\ Owed(frames[n]) \in 0..2
        /\ base[n] + Owed(frames[n]) <= scopes[frames[n].env].len
    BY <2>1, <2>2, NestFacts
  <2>4. scopes[frames[n].env].len \in Nat
    BY <2>3, MemoryFacts DEF Numbered
  <2> QED BY <2>1, <2>2, <2>3, <2>4
<1> QED BY <1>1 DEF Ready

\* The same after a step.
LEMMA EnvsNext ==
    /\ Envs'  = [d \in 1..Len(frames') |-> frames'[d].env]
    /\ Debts' = [d \in 1..Len(frames') |-> Owed(frames'[d])]
    /\ prog' = prog => Subs' = [d \in 1..Len(frames') |-> Subscoped(frames'[d])]
BY DEF Envs, Debts, Subs, Owed, Subscoped

\* An evaluation that goes on in its scope keeps no more arguments below it than there were.
LEMMA NestWorks ==
    ASSUME Inv, Memory, Memory', frames # <<>>, prog' = prog, NEW base, NEW up, NestOK(base, up),
           NEW f, Works(f), NEW base2,
           \A d \in 1..(Len(frames) - 1) : base2[d] = base[d],
           base2[Len(frames)] = scopes'[Top.env].len - Owed(f)
    PROVE  /\ NestOK(base2, up)'
           /\ Len(frames') = Len(frames) /\ base[Len(frames)] <= base2[Len(frames)]
<1>1. PICK n \in Nat : n = Len(frames)
  BY NestFacts
<1>2. n \in 1..n /\ n # 0 /\ Top = frames[n]
  BY <1>1, NestFacts
<1>3. Len(frames') = n /\ frames'[n] = f /\ \A d \in 1..(n - 1) : frames'[d] = frames[d]
  BY <1>1 DEF Works, Replaced
<1>4. PICK sc, sc2, y : sc = scopes /\ sc2 = scopes' /\ y = Top.env
  OBVIOUS
<1>5. /\ y \in DOMAIN sc /\ base[n] \in Nat /\ Owed(Top) \in 0..2
      /\ base[n] + Owed(Top) <= sc[y].len
  BY <1>1, <1>2, <1>4, NestFacts
<1>6. Numbered(sc) /\ Numbered(sc2) /\ DOMAIN sc2 = DOMAIN sc
  BY <1>4, MemoryFacts, MemoryNext DEF Works, Touched
<1>7. sc[y].len \in Nat /\ sc2[y].len \in Nat
  BY <1>5, <1>6 DEF Numbered
<1>8. PICK a, b : a = Owed(f) /\ b = base2[n] /\ b = sc2[y].len - a
  BY <1>1, <1>4
<1>9. a \in 0..2
  BY <1>8 DEF Owed
<1>10. a <= sc2[y].len /\ sc2[y].len - a >= sc[y].len - Owed(Top)
  BY <1>4, <1>5, <1>7, <1>8, <1>9 DEF Works
<1>11. b \in Nat /\ base[n] <= b /\ b + a <= sc2[y].len
  <2>1. PICK c \in Nat, o \in Nat, l \in Nat, m \in Nat :
           c = base[n] /\ o = Owed(Top) /\ l = sc[y].len /\ m = sc2[y].len
    BY <1>5, <1>7
  <2>2. c + o <= l /\ a <= m /\ m - a >= l - o /\ b = m - a /\ a \in Nat
    BY <1>5, <1>8, <1>9, <1>10, <2>1
  <2>3. b \in Nat /\ c <= b /\ b + a <= m
    BY <2>2
  <2> QED BY <2>1, <2>3
<1>12. PICK at, owe, sub, at2, owe2, sub2 :
          /\ at = Envs /\ owe = Debts /\ sub = Subs
          /\ at2 = Envs' /\ owe2 = Debts' /\ sub2 = Subs'
  OBVIOUS
<1>13. /\ at = [d \in 1..n |-> frames[d].env] /\ at2 = [d \in 1..n |-> frames'[d].env]
       /\ owe = [d \in 1..n |-> Owed(frames[d])] /\ owe2 = [d \in 1..n |-> Owed(frames'[d])]
       /\ sub = [d \in 1..n |-> Subscoped(frames[d])]
       /\ sub2 = [d \in 1..n |-> Subscoped(frames'[d])]
  BY <1>1, <1>3, <1>12, EnvsNext DEF Envs, Debts, Subs
<1>14. /\ f.env = y /\ (Subscoped(f) => Subscoped(Top))
       /\ \A s \in DOMAIN sc : s # y => sc2[s] = sc[s]
       /\ sc2[y].parent = sc[y].parent
       /\ \/ sc2[y].arr = sc[y].arr
          \/ \A s \in DOMAIN sc : sc[s].arr # sc2[y].arr
  BY <1>4 DEF Works, Touched
<1>15. at[n] = y /\ \A d \in 1..n : at2[d] = at[d] /\ (sub2[d] => sub[d])
  <2> SUFFICES ASSUME NEW d \in 1..n PROVE at2[d] = at[d] /\ (sub2[d] => sub[d]) /\ at[n] = y
    BY <1>2
  <2>1. d = n \/ d \in 1..(n - 1)
    OBVIOUS
  <2> QED BY <1>2, <1>3, <1>4, <1>13, <1>14, <2>1
<1>16. owe2[n] = a /\ \A d \in 1..(n - 1) : owe2[d] = owe[d]
  BY <1>2, <1>3, <1>8, <1>13
<1>17. Nest(n, at, owe, sub, base, up, sc)
  BY <1>1, <1>4, <1>12 DEF NestOK
<1>18. \A d \in 1..(n - 1) : base2[d] = base[d]
  BY <1>1
<1>19. Nest(n, at2, owe2, sub2, base2, up, sc2)
  <2>1. SameButLast(n, at, owe, sub, base, at2, owe2, sub2, base2)
    BY <1>15, <1>16, <1>18 DEF SameButLast
  <2>2. /\ base2[n] \in Nat /\ owe2[n] \in Nat /\ base[n] <= base2[n]
        /\ base2[n] + owe2[n] <= sc2[at[n]].len
    BY <1>8, <1>9, <1>11, <1>15, <1>16
  <2>3. OnlyScope(at[n], sc, sc2)
    BY <1>6, <1>14, <1>15 DEF OnlyScope
  <2> QED BY <1>2, <1>6, <1>17, <2>1, <2>2, <2>3, NestTouched
<1>20. NestOK(base2, up)'
  BY <1>3, <1>4, <1>12, <1>19 DEF NestOK
<1> QED BY <1>1, <1>3, <1>8, <1>11, <1>20

\* An evaluation that is called has what the one that calls it has.
LEMMA NestWaiting ==
    ASSUME Inv, Memory, frames # <<>>, prog' = prog, NEW base, NEW up, NestOK(base, up),
           NEW f, NEW g, Waiting(f, g), NEW base2, NEW up2,
           \A d \in 1..Len(frames) : base2[d] = base[d] /\ up2[d] = up[d],
           base2[Len(frames) + 1] = base[Len(frames)] + Owed(Top),
           up2[Len(frames) + 1] = up[Len(frames)]
    PROVE  NestOK(base2, up2)'
<1>1. PICK n \in Nat : n = Len(frames)
  BY NestFacts
<1>2. n \in 1..n /\ n # 0 /\ Top = frames[n]
  BY <1>1, NestFacts
<1>3. /\ Len(frames') = n + 1 /\ frames'[n] = f /\ frames'[n + 1] = g
      /\ \A d \in 1..(n - 1) : frames'[d] = frames[d]
  BY <1>1 DEF Waiting, Pushed
<1>4. PICK at, owe, sub, at2, owe2, sub2 :
          /\ at = Envs /\ owe = Debts /\ sub = Subs
          /\ at2 = Envs' /\ owe2 = Debts' /\ sub2 = Subs'
  OBVIOUS
<1>5. /\ at = [d \in 1..n |-> frames[d].env] /\ at2 = [d \in 1..(n + 1) |-> frames'[d].env]
      /\ owe = [d \in 1..n |-> Owed(frames[d])] /\ owe2 = [d \in 1..(n + 1) |-> Owed(frames'[d])]
      /\ sub = [d \in 1..n |-> Subscoped(frames[d])]
      /\ sub2 = [d \in 1..(n + 1) |-> Subscoped(frames'[d])]
  BY <1>1, <1>3, <1>4, EnvsNext DEF Envs, Debts, Subs
<1>6. /\ f.env = Top.env /\ g.env = Top.env /\ Owed(f) = Owed(Top) /\ Owed(g) = 0
      /\ (Subscoped(f) => Subscoped(Top)) /\ ~Subscoped(g) /\ scopes' = scopes
  BY DEF Waiting, Owed, Subscoped, scopeVars
<1>7. \A d \in 1..n : at2[d] = at[d] /\ owe2[d] = owe[d] /\ (sub2[d] => sub[d])
  <2> SUFFICES ASSUME NEW d \in 1..n
               PROVE  at2[d] = at[d] /\ owe2[d] = owe[d] /\ (sub2[d] => sub[d])
    OBVIOUS
  <2>1. (d = n \/ d \in 1..(n - 1)) /\ d \in 1..(n + 1)
    OBVIOUS
  <2> QED BY <1>2, <1>3, <1>5, <1>6, <2>1
<1>8. at2[n + 1] = at[n] /\ owe2[n + 1] = 0 /\ ~sub2[n + 1] /\ owe[n] = Owed(Top)
  <2>1. n + 1 \in 1..(n + 1)
    OBVIOUS
  <2> QED BY <1>2, <1>3, <1>5, <1>6, <2>1
<1>9. PICK sc : sc = scopes
  OBVIOUS
<1>10. Nest(n, at, owe, sub, base, up, sc) /\ Numbered(sc)
  BY <1>1, <1>4, <1>9, MemoryFacts DEF NestOK
<1>11. /\ \A d \in 1..n : base2[d] = base[d] /\ up2[d] = up[d]
       /\ base2[n + 1] = base[n] + owe[n] /\ up2[n + 1] = up[n]
  BY <1>1, <1>8
<1>12. Nest(n + 1, at2, owe2, sub2, base2, up2, sc)
  <2>1. SameTo(n, at, owe, sub, base, up, at2, owe2, sub2, base2, up2)
    BY <1>7, <1>11 DEF SameTo
  <2> QED BY <1>2, <1>8, <1>10, <1>11, <2>1, NestCalls
<1> QED BY <1>3, <1>4, <1>6, <1>9, <1>12 DEF NestOK

\* What is left of the frames when one ends.
LEMMA NestEnding ==
    ASSUME Inv, NEW base, NEW up, NestOK(base, up), prog' = prog, Ending
    PROVE  NestOK(base, up)'
<1>1. PICK n \in Nat : n = Len(frames) /\ n > 1
  BY DEF Inv, FramesOK, Stack, Ending
<1>2. Len(frames') = n - 1 /\ \A d \in 1..(n - 1) : frames'[d] = frames[d] /\ d \in 1..n
  BY <1>1 DEF Ending
<1>3. PICK at, owe, sub, at2, owe2, sub2, sc :
          /\ at = Envs /\ owe = Debts /\ sub = Subs
          /\ at2 = Envs' /\ owe2 = Debts' /\ sub2 = Subs' /\ sc = scopes
  OBVIOUS
<1>4. /\ at = [d \in 1..n |-> frames[d].env] /\ at2 = [d \in 1..(n - 1) |-> frames'[d].env]
      /\ owe = [d \in 1..n |-> Owed(frames[d])] /\ owe2 = [d \in 1..(n - 1) |-> Owed(frames'[d])]
      /\ sub = [d \in 1..n |-> Subscoped(frames[d])]
      /\ sub2 = [d \in 1..(n - 1) |-> Subscoped(frames'[d])]
  BY <1>1, <1>2, <1>3, EnvsNext DEF Envs, Debts, Subs
<1>5. \A d \in 1..(n - 1) : at2[d] = at[d] /\ owe2[d] = owe[d] /\ (sub2[d] => sub[d])
  BY <1>2, <1>4
<1>6. Nest(n, at, owe, sub, base, up, sc) /\ n # 0
  BY <1>1, <1>3 DEF NestOK
<1>7. Nest(n - 1, at2, owe2, sub2, base, up, sc)
  <2>1. SameTo(n - 1, at, owe, sub, base, up, at2, owe2, sub2, base, up)
    BY <1>5 DEF SameTo
  <2> QED BY <1>6, <2>1, NestEnds
<1>8. scopes' = sc
  BY <1>3 DEF Ending, scopeVars
<1> QED BY <1>2, <1>3, <1>7, <1>8 DEF NestOK

\* What is known of a move to a new scope.
LEMMA MovingFacts ==
    ASSUME Inv, Memory, Memory', NEW base, NEW up, NestOK(base, up), prog' = prog,
           NEW f, Moving(f), NEW n, n = Len(frames)
    PROVE  /\ n \in Nat /\ n > 1 /\ Len(frames') = n
           /\ Envs[n] = Top.env /\ Envs'[n] = f.env /\ Debts'[n] = 0 /\ Debts[n] = 0
           /\ \A d \in 1..(n - 1) : /\ Envs'[d] = Envs[d] /\ Debts'[d] = Debts[d]
                                    /\ (Subs'[d] => Subs[d])
           /\ (Subscoped(f) => Subscoped(Top)) => (Subs'[n] => Subs[n])
           /\ \A s \in DOMAIN scopes : s \in DOMAIN scopes' /\ scopes'[s] = scopes[s] /\ s < f.env
           /\ f.env \in DOMAIN scopes' /\ \A s \in DOMAIN scopes' : s <= f.env
           /\ Numbered(scopes) /\ Numbered(scopes')
<1>1. n \in Nat /\ n > 1 /\ n \in 1..n /\ Top = frames[n]
  <2>1. n \in Nat /\ n > 1
    BY NestFacts DEF Moving
  <2> QED BY <2>1, TopOK DEF Inv
<1>2. Len(frames') = n /\ frames'[n] = f /\ \A d \in 1..(n - 1) : frames'[d] = frames[d]
  BY DEF Moving, Replaced
<1>3. PICK at, owe, sub, at2, owe2, sub2 :
          /\ at = Envs /\ owe = Debts /\ sub = Subs
          /\ at2 = Envs' /\ owe2 = Debts' /\ sub2 = Subs'
  OBVIOUS
<1>4. /\ at = [d \in 1..n |-> frames[d].env] /\ at2 = [d \in 1..n |-> frames'[d].env]
      /\ owe = [d \in 1..n |-> Owed(frames[d])] /\ owe2 = [d \in 1..n |-> Owed(frames'[d])]
      /\ sub = [d \in 1..n |-> Subscoped(frames[d])]
      /\ sub2 = [d \in 1..n |-> Subscoped(frames'[d])]
  BY <1>1, <1>2, <1>3, EnvsNext DEF Envs, Debts, Subs
<1>5. /\ at[n] = Top.env /\ at2[n] = f.env /\ owe2[n] = 0 /\ owe[n] = 0
      /\ (Subscoped(f) => Subscoped(Top)) => (sub2[n] => sub[n])
  BY <1>1, <1>2, <1>4 DEF Moving
<1>6. \A d \in 1..(n - 1) : at2[d] = at[d] /\ owe2[d] = owe[d] /\ (sub2[d] => sub[d])
  <2>1. \A d \in 1..(n - 1) : d \in 1..n
    BY <1>1
  <2> QED BY <1>2, <1>4, <2>1
<1>7. PICK k, m \in Nat \ {0} : /\ k = Len(scopes) /\ DOMAIN scopes = 1..k
                                /\ m = Len(scopes') /\ DOMAIN scopes' = 1..m
  BY MemoryFacts, MemoryNext
<1>8. k < m /\ m = f.env /\ \A s \in DOMAIN scopes : s \in DOMAIN scopes' /\ scopes'[s] = scopes[s]
  BY <1>7 DEF Moving
<1>9. /\ \A s \in DOMAIN scopes : s < f.env
      /\ f.env \in DOMAIN scopes' /\ \A s \in DOMAIN scopes' : s <= f.env
  BY <1>7, <1>8
<1> QED BY <1>1, <1>2, <1>3, <1>5, <1>6, <1>8, <1>9, MemoryFacts, MemoryNext

\* An evaluation that is entered in a subscope has no arguments below it, and one more
\* walk.
LEMMA NestShifting ==
    ASSUME Inv, Memory, Memory', NEW base, NEW up, NestOK(base, up), prog' = prog,
           NEW f, Shifting(f), NEW base2, NEW up2,
           \A d \in 1..(Len(frames) - 1) : base2[d] = base[d] /\ up2[d] = up[d],
           base2[Len(frames)] = 0,
           up2[Len(frames)] = up[Len(frames)] \cup (DOMAIN scopes' \ DOMAIN scopes)
    PROVE  NestOK(base2, up2)'
<1>1. Moving(f)
  BY DEF Shifting
<1>2. PICK n : n = Len(frames)
  OBVIOUS
<1>3. PICK at, owe, sub, at2, owe2, sub2, sc, sc2, new :
          /\ at = Envs /\ owe = Debts /\ sub = Subs
          /\ at2 = Envs' /\ owe2 = Debts' /\ sub2 = Subs' /\ sc = scopes /\ sc2 = scopes'
          /\ new = DOMAIN sc2 \ DOMAIN sc
  OBVIOUS
<1>4. /\ n \in Nat /\ n > 1 /\ Len(frames') = n
      /\ at[n] = Top.env /\ at2[n] = f.env /\ owe2[n] = 0
      /\ \A d \in 1..(n - 1) : at2[d] = at[d] /\ owe2[d] = owe[d] /\ (sub2[d] => sub[d])
      /\ \A s \in DOMAIN sc : s \in DOMAIN sc2 /\ sc2[s] = sc[s] /\ s < at2[n]
      /\ at2[n] \in DOMAIN sc2 /\ \A s \in DOMAIN sc2 : s <= at2[n]
      /\ Numbered(sc) /\ Numbered(sc2)
  BY <1>1, <1>2, <1>3, MovingFacts
<1>5. Nest(n, at, owe, sub, base, up, sc)
  BY <1>2, <1>3 DEF NestOK
<1>6. \A s \in new : /\ s <= at2[n] /\ sc2[s].arr = 0
                     /\ sc2[s].parent = at[n] \/ sc2[s].parent \in new
  BY <1>3, <1>4 DEF Shifting
<1>7. /\ \A d \in 1..(n - 1) : /\ at2[d] = at[d] /\ owe2[d] = owe[d] /\ (sub2[d] => sub[d])
                               /\ base2[d] = base[d] /\ up2[d] = up[d]
      /\ base2[n] = 0 /\ up2[n] = up[n] \cup new
  BY <1>2, <1>3, <1>4
<1>8. Nest(n, at2, owe2, sub2, base2, up2, sc2)
  <2>1. Opened(new, at[n], at2[n], up[n], up2[n], sc, sc2)
    BY <1>3, <1>6, <1>7 DEF Opened
  <2>2. SameTo(n - 1, at, owe, sub, base, up, at2, owe2, sub2, base2, up2)
    BY <1>7 DEF SameTo
  <2> QED BY <1>4, <1>5, <1>6, <1>7, <2>1, <2>2, NestShifts
<1> QED BY <1>3, <1>4, <1>8 DEF NestOK

\* One that goes on in a copy of the parent scope leaves the arguments of that alone.
LEMMA NestCopying ==
    ASSUME Inv, Memory, Memory', NEW base, NEW up, NestOK(base, up), prog' = prog,
           NEW f, Copying(f), NEW base2, NEW up2,
           \A d \in 1..(Len(frames) - 1) : base2[d] = base[d] /\ up2[d] = up[d],
           base2[Len(frames)] = scopes'[f.env].len,
           up2[Len(frames)] = {f.env} \cup {x \in up[Len(frames)] : x < scopes[Top.env].parent}
    PROVE  NestOK(base2, up2)'
<1>1. Moving(f) /\ (Subscoped(f) => Subscoped(Top))
  BY DEF Copying
<1>2. PICK n : n = Len(frames)
  OBVIOUS
<1>3. PICK at, owe, sub, at2, owe2, sub2, sc, sc2, p :
          /\ at = Envs /\ owe = Debts /\ sub = Subs
          /\ at2 = Envs' /\ owe2 = Debts' /\ sub2 = Subs' /\ sc = scopes /\ sc2 = scopes'
          /\ p = scopes[Top.env].parent
  OBVIOUS
<1>4. /\ n \in Nat /\ n > 1 /\ Len(frames') = n
      /\ at[n] = Top.env /\ at2[n] = f.env /\ owe2[n] = 0
      /\ \A d \in 1..(n - 1) : at2[d] = at[d] /\ owe2[d] = owe[d] /\ (sub2[d] => sub[d])
      /\ \A s \in DOMAIN sc : s \in DOMAIN sc2 /\ sc2[s] = sc[s] /\ s < at2[n]
      /\ at2[n] \in DOMAIN sc2
      /\ Numbered(sc) /\ Numbered(sc2)
  BY <1>1, <1>2, <1>3, MovingFacts
<1>5. Nest(n, at, owe, sub, base, up, sc)
  BY <1>2, <1>3 DEF NestOK
<1>6. p = sc[at[n]].parent /\ p # 0 /\ sc2[at2[n]] = sc[p]
  BY <1>3, <1>4 DEF Copying
<1>7. /\ \A d \in 1..(n - 1) : /\ at2[d] = at[d] /\ owe2[d] = owe[d] /\ (sub2[d] => sub[d])
                               /\ base2[d] = base[d] /\ up2[d] = up[d]
      /\ base2[n] = sc[p].len /\ up2[n] = {at2[n]} \cup {x \in up[n] : x < p}
  BY <1>2, <1>3, <1>4, <1>6
<1>8. Nest(n, at2, owe2, sub2, base2, up2, sc2)
  <2>1. SameTo(n - 1, at, owe, sub, base, up, at2, owe2, sub2, base2, up2)
    BY <1>7 DEF SameTo
  <2> QED BY <1>4, <1>5, <1>6, <1>7, <2>1, NestCopies
<1> QED BY <1>3, <1>4, <1>8 DEF NestOK

\* At first Eval is alone, in the root scope.
LEMMA NestBeginning ==
    ASSUME Memory', Beginning, NEW base, NEW up, base[1] = scopes'[1].len, up[1] = {1}
    PROVE  NestOK(base, up)'
<1>1. PICK at, owe, sub, sc : at = Envs' /\ owe = Debts' /\ sub = Subs' /\ sc = scopes'
  OBVIOUS
<1>2. Len(frames') = 1 /\ frames'[1].env = 1 /\ 1 \in DOMAIN sc /\ sc[1].parent = 0 /\ Owed(frames'[1]) = 0
  BY <1>1 DEF Beginning, Owed
<1>3. at[1] = 1 /\ owe[1] = 0 /\ Numbered(sc)
  BY <1>1, <1>2, EnvsNext, MemoryNext
<1>4. base[1] \in Nat /\ base[1] = sc[1].len
  BY <1>1, <1>2, <1>3 DEF Numbered
<1>5. 1..1 = {1}
  OBVIOUS
<1>6. Walks(1, at, up, sc) /\ Ordered(1, at, sub) /\ Stacked(1, at, owe, base, sc)
  BY <1>2, <1>3, <1>4, <1>5 DEF Walks, Ordered, Stacked
<1>7. Apart(1, at, base, up, sc)
  BY <1>5 DEF Apart
<1> QED BY <1>1, <1>2, <1>6, <1>7 DEF NestOK, Nest

\* Before Eval begins, and after it has ended, there is nothing to say.
LEMMA NestNone ==
    ASSUME Len(frames) = 0, NEW base, NEW up
    PROVE  NestOK(base, up)
<1>1. 1..0 = {}
  OBVIOUS
<1> QED BY <1>1 DEF NestOK, Nest, Walks, Ordered, Apart, Stacked

\* The same after a step.
LEMMA NestNoneNext ==
    ASSUME Len(frames') = 0, NEW base, NEW up
    PROVE  NestOK(base, up)'
<1>1. 1..0 = {}
  OBVIOUS
<1> QED BY <1>1 DEF NestOK, Nest, Walks, Ordered, Apart, Stacked


-----------------------------------------------------------------------------
(***************************************************************************)
(* Scopes without other arguments.                                         *)
(***************************************************************************)

\* Evaluations have no other arguments in their scopes than those pushed for elements of
\* ranges and those below all evaluations in that scope.
Snug(n, at, owe, base, sc) ==
    n # 0 => /\ base[n] + owe[n] = sc[at[n]].len
             /\ \A d \in 1..(n - 1) :
                   base[d] + owe[d] = IF at[d + 1] = at[d] THEN base[d + 1] ELSE sc[at[d]].len

\* Up to the m-th frame arguments, scopes and places are kept.
Kept(m, at, owe, base, sc, at2, owe2, base2, sc2) ==
    \A d \in 1..m : /\ at2[d] = at[d] /\ owe2[d] = owe[d] /\ base2[d] = base[d]
                    /\ sc2[at[d]] = sc[at[d]]

\* The last evaluation changes its scope: its base stays as it is, or no other evaluation
\* is in that scope.
LEMMA SnugTouched ==
    ASSUME NEW n \in Nat, n # 0, NEW at, NEW owe, NEW sub, NEW base, NEW up, NEW sc,
           Nest(n, at, owe, sub, base, up, sc), Numbered(sc), Snug(n, at, owe, base, sc),
           NEW at2, NEW owe2, NEW base2, NEW sc2,
           \A d \in 1..n : at2[d] = at[d],
           \A d \in 1..(n - 1) : owe2[d] = owe[d] /\ base2[d] = base[d],
           base2[n] = base[n] \/ n = 1 \/ at[n - 1] < at[n],
           base2[n] + owe2[n] = sc2[at[n]].len,
           \A s \in DOMAIN sc : s # at[n] => sc2[s] = sc[s]
    PROVE  Snug(n, at2, owe2, base2, sc2)
<1>1. \A d \in 1..n : at[d] \in DOMAIN sc /\ at[d] \in Nat
  BY DEF Nest, Walks, Numbered
<1>2. n \in 1..n /\ \A d \in 1..(n - 1) : d \in 1..n /\ d + 1 \in 1..n /\ d < d + 1
                                          /\ (d + 1 = n \/ (d + 1 \in 1..(n - 1) /\ d + 1 < n))
  OBVIOUS
<1>3. ASSUME NEW d \in 1..(n - 1)
      PROVE  base2[d] + owe2[d] = IF at2[d + 1] = at2[d] THEN base2[d + 1] ELSE sc2[at2[d]].len
  <2>1. PICK e \in 1..n : e = d + 1 /\ d < e /\ (e = n \/ (e \in 1..(n - 1) /\ e < n))
    BY <1>2
  <2>2. base[d] + owe[d] = IF at[e] = at[d] THEN base[e] ELSE sc[at[d]].len
    BY <2>1 DEF Snug
  <2>3. d \in 1..n /\ at2[d] = at[d] /\ at2[e] = at[e] /\ base2[d] + owe2[d] = base[d] + owe[d]
    BY <1>2
  <2>4. at[d] <= at[e]
    BY <2>1, <2>3 DEF Nest, Ordered
  <2>5. CASE at[e] = at[d]
    <3>1. base2[e] = base[e]
      <4>1. CASE e = n
        <5>1. d = n - 1 /\ n # 1 /\ at[n - 1] = at[n]
          BY <2>1, <2>5, <4>1
        <5>2. ~(at[n - 1] < at[n])
          BY <1>1, <1>2, <5>1
        <5> QED BY <4>1, <5>1, <5>2
      <4>2. CASE e # n
        BY <2>1, <4>2
      <4> QED BY <4>1, <4>2
    <3> QED BY <2>1, <2>2, <2>3, <2>5, <3>1
  <2>6. CASE at[e] # at[d]
    <3>1. at[e] <= at[n]
      <4>1. CASE e = n
        BY <1>1, <4>1
      <4>2. CASE e # n
        BY <1>2, <2>1, <4>2 DEF Nest, Ordered
      <4> QED BY <4>1, <4>2
    <3>2. at[d] # at[n]
      BY <1>1, <1>2, <2>3, <2>4, <2>6, <3>1
    <3>3. sc2[at[d]] = sc[at[d]]
      BY <1>1, <2>3, <3>2
    <3> QED BY <2>1, <2>2, <2>3, <2>6, <3>3
  <2> QED BY <2>5, <2>6
<1>4. at2[n] = at[n]
  BY <1>2
<1> QED BY <1>3, <1>4 DEF Snug

\* It calls another one.
LEMMA SnugCalls ==
    ASSUME NEW n \in Nat, n # 0, NEW at, NEW owe, NEW base, NEW sc,
           Snug(n, at, owe, base, sc),
           NEW at2, NEW owe2, NEW base2,
           Kept(n, at, owe, base, sc, at2, owe2, base2, sc),
           at2[n + 1] = at[n], owe2[n + 1] = 0, base2[n + 1] = base[n] + owe[n],
           base[n] + owe[n] \in Nat
    PROVE  Snug(n + 1, at2, owe2, base2, sc)
<1> USE DEF Kept
<1>1. base2[n + 1] + owe2[n + 1] = sc[at2[n + 1]].len
  BY DEF Snug
<1>2. ASSUME NEW d \in 1..n
      PROVE  base2[d] + owe2[d] = IF at2[d + 1] = at2[d] THEN base2[d + 1] ELSE sc[at2[d]].len
  <2>1. CASE d = n
    BY <2>1
  <2>2. CASE d # n
    <3>1. d \in 1..(n - 1) /\ d + 1 \in 1..n
      BY <2>2
    <3>2. base[d] + owe[d] = IF at[d + 1] = at[d] THEN base[d + 1] ELSE sc[at[d]].len
      BY <3>1 DEF Snug
    <3>3. at2[d + 1] = at[d + 1] /\ base2[d + 1] = base[d + 1]
      BY <3>1
    <3> QED BY <3>2, <3>3
  <2> QED BY <2>1, <2>2
<1>3. (n + 1) - 1 = n
  OBVIOUS
<1> QED BY <1>1, <1>2, <1>3 DEF Snug

\* It ends, or enters another scope, and owes nothing.
LEMMA SnugLeaves ==
    ASSUME NEW n \in Nat, n > 1, NEW at, NEW owe, NEW base, NEW sc, Snug(n, at, owe, base, sc),
           base[n] + owe[n] = base[n],
           NEW at2, NEW owe2, NEW base2, NEW sc2,
           Kept(n - 1, at, owe, base, sc, at2, owe2, base2, sc2)
    PROVE  /\ Snug(n - 1, at2, owe2, base2, sc2)
           /\ (at2[n] # at[n - 1] /\ base2[n] + owe2[n] = sc2[at2[n]].len)
                => Snug(n, at2, owe2, base2, sc2)
<1> USE DEF Kept
<1>1. ASSUME NEW d \in 1..(n - 2)
      PROVE  base2[d] + owe2[d] = IF at2[d + 1] = at2[d] THEN base2[d + 1] ELSE sc2[at2[d]].len
  <2>1. d \in 1..(n - 1) /\ d + 1 \in 1..(n - 1)
    OBVIOUS
  <2>2. base[d] + owe[d] = IF at[d + 1] = at[d] THEN base[d + 1] ELSE sc[at[d]].len
    BY <2>1 DEF Snug
  <2>3. at2[d + 1] = at[d + 1] /\ base2[d + 1] = base[d + 1]
    BY <2>1
  <2> QED BY <2>1, <2>2, <2>3
<1>2. PICK m \in 1..(n - 1) : m = n - 1 /\ m + 1 = n
  OBVIOUS
<1>3. base[m] + owe[m] = sc[at[m]].len
  <2>1. base[m] + owe[m] = IF at[m + 1] = at[m] THEN base[m + 1] ELSE sc[at[m]].len
    BY DEF Snug
  <2>2. base[n] = sc[at[n]].len
    BY DEF Snug
  <2> QED BY <1>2, <2>1, <2>2
<1>4. base2[m] + owe2[m] = sc2[at2[m]].len
  BY <1>3
<1>5. m - 1 = n - 2
  BY <1>2
<1>6. Snug(m, at2, owe2, base2, sc2)
  BY <1>1, <1>4, <1>5 DEF Snug
<1>7. ASSUME at2[n] # at[m], base2[n] + owe2[n] = sc2[at2[n]].len
      PROVE  Snug(n, at2, owe2, base2, sc2)
  <2>1. ASSUME NEW d \in 1..(n - 1)
        PROVE  base2[d] + owe2[d] = IF at2[d + 1] = at2[d] THEN base2[d + 1] ELSE sc2[at2[d]].len
    <3>1. CASE d = m
      BY <1>2, <1>4, <1>7, <3>1
    <3>2. CASE d # m
      <4>1. d \in 1..(n - 2)
        BY <1>2, <3>2
      <4> QED BY <1>1, <4>1
    <3> QED BY <3>1, <3>2
  <2> QED BY <1>7, <2>1 DEF Snug
<1> QED BY <1>2, <1>6, <1>7


-----------------------------------------------------------------------------
(***************************************************************************)
(* The arguments of ranges and of values.                                  *)
(***************************************************************************)

\* While the value for an element is evaluated, the newest of the two arguments that were
\* pushed for it is the first one.
EachOK(base) ==
    \A d \in 1..Len(frames) :
        frames[d].pc = "each" =>
            arrays[scopes[frames[d].env].arr][base[d] + 2] = frames[d].acc

\* A value without arguments waits for none.
NoArgs ==
    \A d \in 1..Len(frames) :
        (frames[d].pc = "args" /\ prog.nodes[frames[d].node].args = <<>>) =>
            d = Len(frames) /\ ret = NoRet /\ frames[d].i = 0

\* The frames have no arguments but what they found and owe.
SnugOK(base) == Snug(Len(frames), Envs, Debts, base, scopes)

\* With arguments of its own only in subscopes, each evaluation has those that its callers
\* left it, and those of ranges.
RangesOK(base) == EachOK(base) /\ NoArgs /\ (Tidy /\ MaxInt32 >= 2 => SnugOK(base))

\* Arguments take an array.
LEMMA HaveArray ==
    ASSUME Memory, NEW s \in DOMAIN scopes, scopes[s].arr = 0
    PROVE  scopes[s].len = 0
<1>1. PICK A : WellFormed(A, DOMAIN ValueAt)
  BY DEF Memory
<1>2. PICK L : L = DOMAIN ValueAt
  OBVIOUS
<1>3. WellFormed(A, L)
  BY <1>1, <1>2
<1>4. scopes[s].len \in Nat
  BY <1>3, Windows
<1>5. scopes[s].len <= 0
  BY <1>3 DEF WellFormed, Cap
<1> QED BY <1>4, <1>5

\* An evaluation that goes on in its scope leaves arguments of other scopes alone, and
\* those in its own below what it has left there.
LEMMA KeepsSlots ==
    ASSUME Inv, Memory, frames # <<>>, NEW base, NEW up, NestOK(base, up),
           NEW f, Works(f), NEW d \in 1..Len(frames), NEW x \in up[d],
           NEW i \in 1..scopes[x].len, i <= scopes'[x].len
    PROVE  arrays'[scopes'[x].arr][i] = arrays[scopes[x].arr][i]
<1>1. PICK n \in Nat : n = Len(frames)
  BY NestFacts
<1>2. n \in 1..n /\ Top = frames[n] /\ d \in 1..n /\ d <= n
  BY <1>1, NestFacts
<1>3. PICK y : y = Top.env
  OBVIOUS
<1>4. /\ y \in up[n] /\ y = Envs[n] /\ x \in DOMAIN scopes /\ y \in DOMAIN scopes
  BY <1>1, <1>2, <1>3 DEF NestOK, Nest, Walks, Envs
<1>5. scopes[x].len \in Nat /\ scopes[y].len \in Nat
  BY <1>4, MemoryFacts DEF Numbered
<1>6. scopes[x].arr # scopes[y].arr \/ i <= scopes[y].len
  <2>1. CASE x = y
    BY <1>5, <2>1
  <2>2. CASE x # y /\ scopes[x].arr = scopes[y].arr
    <3>1. scopes[x].arr # 0
      BY <1>4, <1>5, HaveArray
    <3>2. scopes[x].len <= scopes[y].len
      BY <1>1, <1>2, <1>4, <2>2, <3>1 DEF NestOK, Nest, Apart
    <3> QED BY <1>5, <3>2
  <2> QED BY <2>1, <2>2
<1>7. Touched(y)
  BY <1>3 DEF Works
<1> QED BY <1>4, <1>6, <1>7 DEF Touched


\* Values without arguments wait for none, whatever the step.
LEMMA NoArgsNext ==
    ASSUME Ready, prog' = prog, NoArgs, Evolves
    PROVE  NoArgs'
<1>1. PICK n \in Nat : n = Len(frames)
  BY DEF Ready, Inv, FramesOK, Stack
<1>2. frames # <<>> => n \in 1..n /\ Top = frames[n]
  BY <1>1, TopOK DEF Ready, Inv
<1>3. ASSUME NEW d \in 1..n, prog.nodes[frames[d].node].args = <<>>, d # n
      PROVE  frames[d].pc # "args"
  BY <1>1, <1>3 DEF NoArgs
<1>4. ASSUME frames # <<>>, Node.args = <<>>, Top.pc = "args"
      PROVE  ret = NoRet /\ Top.i = 0
  BY <1>1, <1>2, <1>4 DEF NoArgs, Node
<1>5. ASSUME NEW f, Works(f) PROVE NoArgs'
  <2>1. /\ Len(frames') = n /\ frames'[n] = f
        /\ \A d \in 1..(n - 1) : frames'[d] = frames[d]
    BY <1>1, <1>5 DEF Works, Replaced
  <2>2. f.pc = "args" /\ Node.args = <<>> => ret' = NoRet /\ f.i = 0
    BY <1>4, <1>5, EmptySeq DEF Works
  <2>3. f.node = Top.node
    BY <1>5 DEF Works
  <2>4. ASSUME NEW d \in 1..n, frames'[d].pc = "args", prog.nodes[frames'[d].node].args = <<>>
        PROVE  d = n /\ ret' = NoRet /\ frames'[d].i = 0
    <3>1. CASE d # n
      <4>1. d \in 1..(n - 1)
        BY <3>1
      <4> QED BY <1>3, <2>1, <2>4, <3>1, <4>1
    <3>2. CASE d = n
      BY <2>1, <2>2, <2>3, <2>4, <3>2 DEF Node
    <3> QED BY <3>1, <3>2
  <2> QED BY <2>1, <2>4 DEF NoArgs, NoRet, NoErr
<1>6. ASSUME NEW f, NEW g, Waiting(f, g) PROVE NoArgs'
  <2>1. /\ Len(frames') = n + 1 /\ frames'[n] = f /\ frames'[n + 1] = g
        /\ \A d \in 1..(n - 1) : frames'[d] = frames[d]
    BY <1>1, <1>6 DEF Waiting, Pushed
  <2>2. g.pc = "scope" /\ f.node = Top.node /\ (f.pc = "args" => f = Top /\ f.i > 0)
    BY <1>6 DEF Waiting
  <2>3. ASSUME NEW d \in 1..(n + 1), frames'[d].pc = "args", prog.nodes[frames'[d].node].args = <<>>
        PROVE  FALSE
    <3>1. CASE d \in 1..(n - 1)
      <4>1. d \in 1..n /\ d # n
        BY <3>1
      <4> QED BY <1>3, <2>1, <2>3, <3>1, <4>1
    <3>2. CASE d = n
      <4>1. f = Top /\ Top.pc = "args" /\ Node.args = <<>> /\ Top.i > 0
        BY <2>1, <2>2, <2>3, <3>2 DEF Node
      <4> QED BY <1>4, <1>6, <4>1 DEF Waiting
    <3>3. CASE d = n + 1
      BY <2>1, <2>2, <2>3, <3>3
    <3> QED BY <3>1, <3>2, <3>3
  <2> QED BY <2>1, <2>3 DEF NoArgs
<1>7. ASSUME Ending PROVE NoArgs'
  <2>1. Len(frames') = n - 1 /\ \A d \in 1..(n - 1) : frames'[d] = frames[d]
    BY <1>1, <1>7 DEF Ending
  <2>2. ASSUME NEW d \in 1..(n - 1), frames'[d].pc = "args", prog.nodes[frames'[d].node].args = <<>>
        PROVE  FALSE
    <3>1. d \in 1..n /\ d # n
      OBVIOUS
    <3> QED BY <1>3, <2>1, <2>2, <3>1
  <2> QED BY <2>1, <2>2 DEF NoArgs
<1>8. ASSUME NEW f, Moving(f) PROVE NoArgs'
  <2>1. /\ Len(frames') = n /\ frames'[n] = f /\ f.pc # "args"
        /\ \A d \in 1..(n - 1) : frames'[d] = frames[d]
    BY <1>1, <1>8 DEF Moving, Replaced
  <2>2. ASSUME NEW d \in 1..n, frames'[d].pc = "args", prog.nodes[frames'[d].node].args = <<>>
        PROVE  FALSE
    <3>1. d # n
      BY <2>1, <2>2
    <3>2. d \in 1..(n - 1)
      BY <3>1
    <3> QED BY <1>3, <2>1, <2>2, <3>1, <3>2
  <2> QED BY <2>1, <2>2 DEF NoArgs
<1>9. ASSUME Beginning PROVE NoArgs'
  <2>1. \A d \in 1..1 : d = 1
    OBVIOUS
  <2> QED BY <1>9, <2>1 DEF Beginning, NoArgs
<1>10. ASSUME Len(frames') = 0 PROVE NoArgs'
  <2>1. 1..0 = {}
    OBVIOUS
  <2> QED BY <1>10, <2>1 DEF NoArgs
<1>11. ASSUME frames' = frames, ret' = ret PROVE NoArgs'
  BY <1>11 DEF NoArgs, NoRet, NoErr
<1> QED BY <1>5, <1>6, <1>7, <1>8, <1>9, <1>10, <1>11 DEF Evolves, Shifting, Copying


\* The arguments of ranges are where they were.
LEMMA EachWorks ==
    ASSUME Inv, Memory, Memory', prog' = prog, NEW base, NEW up, NestOK(base, up),
           NEW f, Works(f), NEW base2,
           \A d \in 1..(Len(frames) - 1) : base2[d] = base[d],
           base2[Len(frames)] = scopes'[Top.env].len - Owed(f),
           EachOK(base)
    PROVE  EachOK(base2)'
<1>1. frames # <<>>
  BY DEF Works
<1>2. PICK n \in Nat : n = Len(frames)
  BY NestFacts
<1>3. n \in 1..n /\ Top = frames[n]
  BY <1>1, <1>2, NestFacts
<1>4. Len(frames') = n /\ frames'[n] = f /\ \A d \in 1..(n - 1) : frames'[d] = frames[d]
  BY <1>2 DEF Works, Replaced
<1>5. PICK y : y = Top.env
  OBVIOUS
<1>6. y \in DOMAIN scopes /\ y \in DOMAIN scopes' /\ scopes'[y].len \in Nat
  <2>1. y \in DOMAIN scopes /\ DOMAIN scopes' = DOMAIN scopes
    BY <1>2, <1>3, <1>5, NestFacts DEF Works, Touched
  <2> QED BY <2>1, MemoryNext DEF Numbered
<1>7. ASSUME f.pc = "each"
      PROVE  arrays'[scopes'[f.env].arr][base2[n] + 2] = f.acc
  <2>1. Owed(f) = 2 /\ f.env = y
    BY <1>5, <1>7 DEF Owed, Works
  <2>2. base2[n] + 2 = scopes'[y].len
    BY <1>2, <1>5, <1>6, <2>1
  <2> QED BY <1>5, <1>7, <2>1, <2>2 DEF Works
<1>8. ASSUME NEW d \in 1..(n - 1), frames[d].pc = "each"
      PROVE  arrays'[scopes'[frames[d].env].arr][base2[d] + 2] = frames[d].acc
  <2>1. d \in 1..n /\ base2[d] = base[d] /\ d < n
    BY <1>2
  <2>2. PICK x : x = frames[d].env
    OBVIOUS
  <2>3. Owed(frames[d]) = 2
    BY <1>8 DEF Owed
  <2>4. /\ x \in DOMAIN scopes /\ x \in up[d] /\ base[d] \in Nat /\ base[d] + 2 <= scopes[x].len
        /\ x = y => base[d] + 2 <= base[n]
    <3>1. Envs[d] = x /\ Envs[n] = y /\ Debts[d] = 2
      BY <1>2, <1>3, <1>5, <2>1, <2>2, <2>3 DEF Envs, Debts
    <3> QED BY <1>2, <1>3, <2>1, <3>1 DEF NestOK, Nest, Walks, Stacked
  <2>5. scopes[x].len \in Nat /\ base[n] \in Nat
    BY <1>2, <1>3, <2>4, NestFacts, MemoryFacts DEF Numbered
  <2>6. base[d] + 2 <= scopes'[x].len
    <3>1. CASE x = y
      <4>1. base[n] <= base2[n]
        BY <1>1, <1>2, NestWorks
      <4>2. base2[n] = scopes'[y].len - Owed(f) /\ Owed(f) \in Nat
        BY <1>2, <1>5 DEF Owed
      <4> QED BY <1>6, <2>4, <2>5, <3>1, <4>1, <4>2
    <3>2. CASE x # y
      BY <1>5, <2>4, <3>2 DEF Works, Touched
    <3> QED BY <3>1, <3>2
  <2>7. PICK i : i = base[d] + 2
    OBVIOUS
  <2>8. i \in 1..scopes[x].len /\ i <= scopes'[x].len
    BY <2>4, <2>5, <2>6, <2>7
  <2>9. arrays'[scopes'[x].arr][i] = arrays[scopes[x].arr][i]
    BY <1>1, <1>2, <2>1, <2>4, <2>8, KeepsSlots
  <2>10. arrays[scopes[x].arr][i] = frames[d].acc
    BY <1>2, <1>8, <2>1, <2>2, <2>7 DEF EachOK
  <2> QED BY <2>1, <2>2, <2>7, <2>9, <2>10
<1>9. ASSUME NEW d \in 1..n, frames'[d].pc = "each"
      PROVE  arrays'[scopes'[frames'[d].env].arr][base2[d] + 2] = frames'[d].acc
  <2>1. CASE d = n
    BY <1>4, <1>7, <1>9, <2>1
  <2>2. CASE d # n
    <3>1. d \in 1..(n - 1)
      BY <2>2
    <3> QED BY <1>4, <1>8, <1>9, <3>1
  <2> QED BY <2>1, <2>2
<1> QED BY <1>4, <1>9 DEF EachOK

\* Other steps do not write.
LEMMA EachStays ==
    ASSUME NEW n \in Nat, NEW base, NEW base2, EachOK(base), arrays' = arrays,
           \A d \in 1..n : /\ d \in 1..Len(frames) /\ frames'[d] = frames[d] /\ base2[d] = base[d]
                           /\ scopes'[frames[d].env] = scopes[frames[d].env],
           \A d \in 1..Len(frames') : d \in 1..n \/ frames'[d].pc # "each"
    PROVE  EachOK(base2)'
<1> SUFFICES ASSUME NEW d \in 1..Len(frames'), frames'[d].pc = "each"
             PROVE  arrays'[scopes'[frames'[d].env].arr][base2[d] + 2] = frames'[d].acc
  BY DEF EachOK
<1>1. d \in 1..n /\ frames[d].pc = "each" /\ d \in 1..Len(frames)
  OBVIOUS
<1>2. arrays[scopes[frames[d].env].arr][base[d] + 2] = frames[d].acc
  BY <1>1 DEF EachOK
<1> QED BY <1>1, <1>2

\* An evaluation that goes on in its scope pushes arguments for good in a scope of its own.
LEMMA SnugWorks ==
    ASSUME Inv, Memory, Memory', prog' = prog, NEW base, NEW up, NestOK(base, up),
           NEW f, Works(f), NEW base2,
           \A d \in 1..(Len(frames) - 1) : base2[d] = base[d],
           base2[Len(frames)] = scopes'[Top.env].len - Owed(f),
           NoArgs, NodesOK, Tidy, SnugOK(base)
    PROVE  SnugOK(base2)'
<1>1. frames # <<>>
  BY DEF Works
<1>2. PICK n \in Nat : n = Len(frames)
  BY NestFacts
<1>3. n \in 1..n /\ n # 0 /\ Top = frames[n]
  BY <1>1, <1>2, NestFacts
<1>4. Len(frames') = n /\ frames'[n] = f /\ \A d \in 1..(n - 1) : frames'[d] = frames[d]
  BY <1>2 DEF Works, Replaced
<1>5. PICK sc, sc2, y : sc = scopes /\ sc2 = scopes' /\ y = Top.env
  OBVIOUS
<1>6. y \in DOMAIN sc /\ Numbered(sc) /\ sc[y].len \in Nat /\ sc2[y].len \in Nat /\ base[n] \in Nat
  <2>1. y \in DOMAIN scopes /\ DOMAIN scopes' = DOMAIN scopes /\ base[n] \in Nat
    BY <1>2, <1>3, <1>5, NestFacts DEF Works, Touched
  <2> QED BY <1>5, <2>1, MemoryFacts, MemoryNext DEF Numbered
<1>7. PICK at, owe, sub, at2, owe2 :
          /\ at = Envs /\ owe = Debts /\ sub = Subs /\ at2 = Envs' /\ owe2 = Debts'
  OBVIOUS
<1>8. /\ at = [d \in 1..n |-> frames[d].env] /\ at2 = [d \in 1..n |-> frames'[d].env]
      /\ owe = [d \in 1..n |-> Owed(frames[d])] /\ owe2 = [d \in 1..n |-> Owed(frames'[d])]
      /\ sub = [d \in 1..n |-> Subscoped(frames[d])]
  BY <1>2, <1>4, <1>7, EnvsNext DEF Envs, Debts, Subs
<1>9. at[n] = y /\ owe[n] = Owed(Top) /\ sub[n] = Subscoped(Top) /\ at2[n] = y /\ owe2[n] = Owed(f)
  BY <1>3, <1>4, <1>5, <1>8 DEF Works
<1>10. \A d \in 1..(n - 1) : at2[d] = at[d] /\ owe2[d] = owe[d] /\ base2[d] = base[d]
  <2>1. \A d \in 1..(n - 1) : d \in 1..n
    OBVIOUS
  <2> QED BY <1>2, <1>4, <1>8, <2>1
<1>11. \A d \in 1..n : at2[d] = at[d]
  <2>1. \A d \in 1..n : d = n \/ d \in 1..(n - 1)
    OBVIOUS
  <2> QED BY <1>9, <1>10, <2>1
<1>12. Nest(n, at, owe, sub, base, up, sc) /\ Snug(n, at, owe, base, sc)
  BY <1>2, <1>5, <1>7 DEF NestOK, SnugOK
<1>13. base2[n] = sc2[y].len - Owed(f) /\ Owed(f) \in 0..2 /\ Owed(Top) \in 0..2
  BY <1>2, <1>5 DEF Owed
<1>14. base[n] + Owed(Top) = sc[y].len
  <2>1. base[n] + owe[n] = sc[at[n]].len
    BY <1>3, <1>12 DEF Snug
  <2> QED BY <1>9, <2>1
<1>15. base2[n] = base[n] \/ n = 1 \/ at[n - 1] < at[n]
  <2>1. CASE sc2[y].len - Owed(f) = sc[y].len - Owed(Top)
    BY <1>6, <1>13, <1>14, <2>1
  <2>2. CASE Top.pc = "init"
    BY <1>1, <1>2, <2>2, TopOK DEF Inv
  <2>3. CASE Top.pc = "args" /\ ret # NoRet
    <3>1. Node.args # <<>>
      BY <1>2, <1>3, <2>3 DEF NoArgs, Node
    <3>2. Top.node \in DOMAIN prog.nodes
      BY <1>2, <1>3, <2>3 DEF NodesOK
    <3>3. Subscoped(Top)
      BY <2>3, <3>1, <3>2 DEF Subscoped, Tidy, Node
    <3>4. CASE n # 1
      <4>1. n - 1 \in 1..n /\ n - 1 < n
        BY <1>3, <3>4
      <4> QED BY <1>3, <1>9, <1>12, <3>3, <4>1 DEF Nest, Ordered
    <3> QED BY <3>4
  <2> QED BY <1>5, <2>1, <2>2, <2>3 DEF Works
<1>16. base2[n] + owe2[n] = sc2[at[n]].len
  BY <1>6, <1>9, <1>13
<1>17. \A s \in DOMAIN sc : s # at[n] => sc2[s] = sc[s]
  BY <1>5, <1>9 DEF Works, Touched
<1>18. Snug(n, at2, owe2, base2, sc2)
  BY <1>3, <1>6, <1>10, <1>11, <1>12, <1>15, <1>16, <1>17, SnugTouched
<1> QED BY <1>4, <1>5, <1>7, <1>18 DEF SnugOK


\* One that is called has the arguments of its caller.
LEMMA SnugWaiting ==
    ASSUME Inv, Memory, prog' = prog, NEW base, NEW up, NestOK(base, up),
           NEW f, NEW g, Waiting(f, g), NEW base2,
           \A d \in 1..Len(frames) : base2[d] = base[d],
           base2[Len(frames) + 1] = base[Len(frames)] + Owed(Top),
           SnugOK(base)
    PROVE  SnugOK(base2)'
<1>1. PICK n \in Nat : n = Len(frames) /\ frames # <<>>
  BY NestFacts DEF Waiting
<1>2. n \in 1..n /\ n # 0 /\ Top = frames[n] /\ base[n] \in Nat /\ Owed(Top) \in 0..2
  BY <1>1, NestFacts
<1>3. /\ Len(frames') = n + 1 /\ frames'[n] = f /\ frames'[n + 1] = g
      /\ \A d \in 1..(n - 1) : frames'[d] = frames[d]
  BY <1>1 DEF Waiting, Pushed
<1>4. PICK at, owe, at2, owe2, sc :
          at = Envs /\ owe = Debts /\ at2 = Envs' /\ owe2 = Debts' /\ sc = scopes
  OBVIOUS
<1>5. /\ at = [d \in 1..n |-> frames[d].env] /\ at2 = [d \in 1..(n + 1) |-> frames'[d].env]
      /\ owe = [d \in 1..n |-> Owed(frames[d])] /\ owe2 = [d \in 1..(n + 1) |-> Owed(frames'[d])]
  BY <1>1, <1>3, <1>4, EnvsNext DEF Envs, Debts
<1>6. /\ f.env = Top.env /\ g.env = Top.env /\ Owed(f) = Owed(Top) /\ Owed(g) = 0
      /\ scopes' = scopes
  BY DEF Waiting, Owed, scopeVars
<1>7. \A d \in 1..n : at2[d] = at[d] /\ owe2[d] = owe[d]
  <2> SUFFICES ASSUME NEW d \in 1..n PROVE at2[d] = at[d] /\ owe2[d] = owe[d]
    OBVIOUS
  <2>1. (d = n \/ d \in 1..(n - 1)) /\ d \in 1..(n + 1)
    OBVIOUS
  <2> QED BY <1>2, <1>3, <1>5, <1>6, <2>1
<1>8. at2[n + 1] = at[n] /\ owe2[n + 1] = 0 /\ owe[n] = Owed(Top)
  <2>1. n + 1 \in 1..(n + 1)
    OBVIOUS
  <2> QED BY <1>2, <1>3, <1>5, <1>6, <2>1
<1>9. base2[n + 1] = base[n] + owe[n] /\ base[n] + owe[n] \in Nat /\ \A d \in 1..n : base2[d] = base[d]
  BY <1>1, <1>2, <1>8
<1>10. Snug(n, at, owe, base, sc)
  BY <1>1, <1>4 DEF SnugOK
<1>11. Snug(n + 1, at2, owe2, base2, sc)
  <2>1. Kept(n, at, owe, base, sc, at2, owe2, base2, sc)
    BY <1>7, <1>9 DEF Kept
  <2> QED BY <1>2, <1>8, <1>9, <1>10, <2>1, SnugCalls
<1> QED BY <1>3, <1>4, <1>6, <1>11 DEF SnugOK

\* One that ends leaves its caller what it left it.
LEMMA SnugEnding ==
    ASSUME Inv, Memory, prog' = prog, NEW base, NEW up, NestOK(base, up), Ending,
           MaxInt32 >= 2, SnugOK(base)
    PROVE  SnugOK(base)'
<1>1. PICK n \in Nat : n = Len(frames) /\ n > 1
  BY DEF Inv, FramesOK, Stack, Ending
<1>2. Len(frames') = n - 1 /\ \A d \in 1..(n - 1) : frames'[d] = frames[d] /\ d \in 1..n
  BY <1>1 DEF Ending
<1>3. n \in 1..n /\ Top = frames[n] /\ base[n] \in Nat /\ Owed(Top) = 0
  <2>1. frames # <<>>
    BY <1>1
  <2> QED BY <1>1, <2>1, NestFacts DEF Ending
<1>4. PICK at, owe, at2, owe2, sc :
          at = Envs /\ owe = Debts /\ at2 = Envs' /\ owe2 = Debts' /\ sc = scopes
  OBVIOUS
<1>5. /\ at = [d \in 1..n |-> frames[d].env] /\ at2 = [d \in 1..(n - 1) |-> frames'[d].env]
      /\ owe = [d \in 1..n |-> Owed(frames[d])] /\ owe2 = [d \in 1..(n - 1) |-> Owed(frames'[d])]
  BY <1>1, <1>2, <1>4, EnvsNext DEF Envs, Debts
<1>6. \A d \in 1..(n - 1) : at2[d] = at[d] /\ owe2[d] = owe[d]
  BY <1>2, <1>5
<1>7. owe[n] = 0 /\ base[n] + owe[n] = base[n]
  BY <1>3, <1>5
<1>8. Snug(n, at, owe, base, sc)
  BY <1>1, <1>4 DEF SnugOK
<1>9. Snug(n - 1, at2, owe2, base, sc)
  <2>1. Kept(n - 1, at, owe, base, sc, at2, owe2, base, sc)
    BY <1>6 DEF Kept
  <2> QED BY <1>1, <1>7, <1>8, <2>1, SnugLeaves
<1>10. scopes' = sc
  BY <1>4 DEF Ending, scopeVars
<1> QED BY <1>2, <1>4, <1>9, <1>10 DEF SnugOK

\* One that moves to a new scope has none of its caller.
LEMMA SnugMoving ==
    ASSUME Inv, Memory, Memory', NEW base, NEW up, NestOK(base, up), prog' = prog,
           NEW f, Moving(f), NEW base2,
           \A d \in 1..(Len(frames) - 1) : base2[d] = base[d],
           base2[Len(frames)] = scopes'[f.env].len,
           SnugOK(base)
    PROVE  SnugOK(base2)'
<1>1. PICK n : n = Len(frames)
  OBVIOUS
<1>2. PICK at, owe, at2, owe2, sc, sc2 :
          /\ at = Envs /\ owe = Debts /\ at2 = Envs' /\ owe2 = Debts'
          /\ sc = scopes /\ sc2 = scopes'
  OBVIOUS
<1>3. /\ n \in Nat /\ n > 1 /\ Len(frames') = n
      /\ at2[n] = f.env /\ owe2[n] = 0 /\ owe[n] = 0
      /\ \A d \in 1..(n - 1) : at2[d] = at[d] /\ owe2[d] = owe[d]
      /\ \A s \in DOMAIN sc : s \in DOMAIN sc2 /\ sc2[s] = sc[s] /\ s < f.env
      /\ f.env \in DOMAIN sc2 /\ Numbered(sc) /\ Numbered(sc2)
  BY <1>1, <1>2, MovingFacts
<1>4. \A d \in 1..n : at[d] \in DOMAIN sc /\ base[d] \in Nat
  BY <1>1, <1>2 DEF NestOK, Nest, Walks, Stacked
<1>5. n \in 1..n /\ n - 1 \in 1..n /\ n - 1 \in 1..(n - 1) /\ \A d \in 1..(n - 1) : d \in 1..n
  BY <1>3
<1>6. \A d \in 1..(n - 1) : /\ at2[d] = at[d] /\ owe2[d] = owe[d] /\ base2[d] = base[d]
                            /\ sc2[at[d]] = sc[at[d]]
  BY <1>1, <1>3, <1>4, <1>5
<1>7. at2[n] # at[n - 1]
  <2>1. PICK a \in DOMAIN sc, b \in DOMAIN sc2 : a = at[n - 1] /\ b = f.env
    BY <1>3, <1>4, <1>5
  <2>2. a < b /\ a \in Nat /\ b \in Nat
    BY <1>3, <2>1 DEF Numbered
  <2>3. a # b
    BY <2>2
  <2> QED BY <1>3, <2>1, <2>3
<1>8. base2[n] + owe2[n] = sc2[at2[n]].len
  <2>1. sc2[f.env].len \in Nat /\ base2[n] = sc2[f.env].len
    BY <1>1, <1>2, <1>3 DEF Numbered
  <2> QED BY <1>3, <2>1
<1>9. base[n] + owe[n] = base[n]
  BY <1>3, <1>4, <1>5
<1>10. Snug(n, at, owe, base, sc)
  BY <1>1, <1>2 DEF SnugOK
<1>11. Snug(n, at2, owe2, base2, sc2)
  <2>1. Kept(n - 1, at, owe, base, sc, at2, owe2, base2, sc2)
    BY <1>6 DEF Kept
  <2> QED BY <1>3, <1>7, <1>8, <1>9, <1>10, <2>1, SnugLeaves
<1> QED BY <1>2, <1>3, <1>11 DEF SnugOK

\* At first Eval has the arguments that earlier calls left in the root scope.
LEMMA SnugBeginning ==
    ASSUME Memory', Beginning, NEW base, base[1] = scopes'[1].len
    PROVE  SnugOK(base)'
<1>1. PICK at, owe, sc : at = Envs' /\ owe = Debts' /\ sc = scopes'
  OBVIOUS
<1>2. Len(frames') = 1 /\ frames'[1].env = 1 /\ Owed(frames'[1]) = 0 /\ 1 \in DOMAIN sc
  BY <1>1 DEF Beginning, Owed
<1>3. at[1] = 1 /\ owe[1] = 0 /\ Numbered(sc)
  BY <1>1, <1>2, EnvsNext, MemoryNext
<1>4. base[1] \in Nat /\ base[1] = sc[1].len
  BY <1>1, <1>2, <1>3 DEF Numbered
<1>5. 1..(1 - 1) = {}
  OBVIOUS
<1>6. Snug(1, at, owe, base, sc)
  BY <1>3, <1>4, <1>5 DEF Snug
<1> QED BY <1>1, <1>2, <1>6 DEF SnugOK


-----------------------------------------------------------------------------
(***************************************************************************)
(* All evaluations after any step.                                         *)
(***************************************************************************)

\* The same programs after a step.
LEMMA RangesNext ==
    ASSUME prog' = prog, NEW base
    PROVE  (EachOK(base)' /\ NoArgs' /\ (Tidy /\ MaxInt32 >= 2 => SnugOK(base)')) => RangesOK(base)'
<1>1. Tidy' = Tidy
  BY DEF Tidy, DropFree
<1> QED BY <1>1 DEF RangesOK

\* A step of an evaluation in its scope.
LEMMA WorksNext ==
    ASSUME Ready, Memory', prog' = prog, NEW base, NEW up, NestOK(base, up), RangesOK(base),
           NoArgs', NEW f, Works(f)
    PROVE  \E base2 : NestOK(base2, up)' /\ RangesOK(base2)'
<1>1. PICK n \in Nat : n = Len(frames)
  BY NestFacts DEF Ready
<1>2. n \in 1..n /\ frames # <<>> /\ Inv /\ Memory /\ NodesOK
  BY <1>1, NestFacts DEF Works, Ready
<1>3. PICK top : top = scopes'[Top.env].len - Owed(f)
  OBVIOUS
<1>4. PICK base2 : base2 = [d \in 1..n |-> IF d = n THEN top ELSE base[d]]
  OBVIOUS
<1>5. base2[n] = top /\ \A d \in 1..(n - 1) : base2[d] = base[d]
  BY <1>2, <1>4
<1>6. /\ \A d \in 1..(Len(frames) - 1) : base2[d] = base[d]
      /\ base2[Len(frames)] = scopes'[Top.env].len - Owed(f)
  BY <1>1, <1>3, <1>5
<1>7. NestOK(base2, up)'
  BY <1>2, <1>6, NestWorks
<1>8. EachOK(base2)'
  BY <1>2, <1>6, EachWorks DEF RangesOK
<1>9. Tidy /\ MaxInt32 >= 2 => SnugOK(base2)'
  BY <1>2, <1>6, SnugWorks DEF RangesOK
<1> QED BY <1>7, <1>8, <1>9, RangesNext

\* An evaluation calls another one.
LEMMA WaitingNext ==
    ASSUME Ready, Memory', prog' = prog, NEW base, NEW up, NestOK(base, up), RangesOK(base),
           NoArgs', NEW f, NEW g, Waiting(f, g)
    PROVE  \E base2, up2 : NestOK(base2, up2)' /\ RangesOK(base2)'
<1>1. PICK n \in Nat : n = Len(frames)
  BY NestFacts DEF Ready
<1>2. n \in 1..n /\ frames # <<>> /\ Inv /\ Memory /\ Top = frames[n]
  BY <1>1, NestFacts DEF Waiting, Ready
<1>3. PICK top : top = base[n] + Owed(Top)
  OBVIOUS
<1>4. PICK base2, up2 : /\ base2 = [d \in 1..(n + 1) |-> IF d = n + 1 THEN top ELSE base[d]]
                        /\ up2 = [d \in 1..(n + 1) |-> IF d = n + 1 THEN up[n] ELSE up[d]]
  OBVIOUS
<1>5. \A d \in 1..n : d \in 1..(n + 1) /\ d # n + 1
  OBVIOUS
<1>6. /\ \A d \in 1..Len(frames) : base2[d] = base[d] /\ up2[d] = up[d]
      /\ base2[Len(frames) + 1] = base[Len(frames)] + Owed(Top)
      /\ up2[Len(frames) + 1] = up[Len(frames)]
  <2>1. n + 1 \in 1..(n + 1)
    OBVIOUS
  <2> QED BY <1>1, <1>3, <1>4, <1>5, <2>1
<1>7. NestOK(base2, up2)'
  BY <1>2, <1>6, NestWaiting
<1>8. EachOK(base2)'
  <2>1. /\ Len(frames') = n + 1 /\ frames'[n] = f /\ frames'[n + 1] = g
        /\ \A d \in 1..(n - 1) : frames'[d] = frames[d]
    BY <1>1 DEF Waiting, Pushed
  <2>2. g.pc # "each" /\ (f.pc = "each" => f = Top) /\ arrays' = arrays /\ scopes' = scopes
    BY DEF Waiting, scopeVars
  <2>3. CASE f = Top
    <3>1. ASSUME NEW d \in 1..n
          PROVE  /\ d \in 1..Len(frames) /\ frames'[d] = frames[d] /\ base2[d] = base[d]
                 /\ scopes'[frames[d].env] = scopes[frames[d].env]
      <4>1. d = n \/ d \in 1..(n - 1)
        OBVIOUS
      <4> QED BY <1>1, <1>2, <1>6, <2>1, <2>2, <2>3, <4>1
    <3>2. \A d \in 1..Len(frames') : d \in 1..n \/ frames'[d].pc # "each"
      <4>1. \A d \in 1..(n + 1) : d \in 1..n \/ d = n + 1
        OBVIOUS
      <4> QED BY <2>1, <2>2, <4>1
    <3> QED BY <2>2, <3>1, <3>2, EachStays DEF RangesOK
  <2>4. CASE f # Top
    <3>1. PICK m \in Nat : m = n - 1 /\ \A d \in 1..m : d \in 1..n
      BY <1>2
    <3>2. \A d \in 1..m : /\ d \in 1..Len(frames) /\ frames'[d] = frames[d] /\ base2[d] = base[d]
                          /\ scopes'[frames[d].env] = scopes[frames[d].env]
      BY <1>1, <1>6, <2>1, <2>2, <3>1
    <3>3. \A d \in 1..Len(frames') : d \in 1..m \/ frames'[d].pc # "each"
      <4>1. \A d \in 1..(n + 1) : d \in 1..m \/ d = n \/ d = n + 1
        BY <3>1
      <4> QED BY <2>1, <2>2, <2>4, <4>1
    <3> QED BY <2>2, <3>2, <3>3, EachStays DEF RangesOK
  <2> QED BY <2>3, <2>4
<1>9. Tidy /\ MaxInt32 >= 2 => SnugOK(base2)'
  BY <1>2, <1>6, SnugWaiting DEF RangesOK
<1> QED BY <1>7, <1>8, <1>9, RangesNext

\* An evaluation ends.
LEMMA EndingNext ==
    ASSUME Ready, Memory', prog' = prog, NEW base, NEW up, NestOK(base, up), RangesOK(base),
           NoArgs', Ending
    PROVE  NestOK(base, up)' /\ RangesOK(base)'
<1>1. PICK n \in Nat : n = Len(frames) /\ n > 1 /\ n - 1 \in Nat
  BY NestFacts DEF Ready, Ending
<1>2. NestOK(base, up)'
  BY NestEnding DEF Ready
<1>3. EachOK(base)'
  <2>1. PICK m \in Nat : m = n - 1 /\ Len(frames') = m
    BY <1>1 DEF Ending
  <2>2. \A d \in 1..m : /\ d \in 1..Len(frames) /\ frames'[d] = frames[d] /\ base[d] = base[d]
                        /\ scopes'[frames[d].env] = scopes[frames[d].env]
    BY <1>1, <2>1 DEF Ending, scopeVars
  <2>3. \A d \in 1..Len(frames') : d \in 1..m \/ frames'[d].pc # "each"
    BY <2>1
  <2>4. arrays' = arrays
    BY DEF Ending, scopeVars
  <2> QED BY <2>2, <2>3, <2>4, EachStays DEF RangesOK
<1>4. Tidy /\ MaxInt32 >= 2 => SnugOK(base)'
  BY SnugEnding DEF RangesOK, Ready
<1> QED BY <1>2, <1>3, <1>4, RangesNext

\* An evaluation moves to a new scope.
LEMMA MovingNext ==
    ASSUME Ready, Memory', prog' = prog, NEW base, NEW up, NestOK(base, up), RangesOK(base),
           NoArgs', NEW f, Shifting(f) \/ Copying(f)
    PROVE  \E base2, up2 : NestOK(base2, up2)' /\ RangesOK(base2)'
<1>0. Moving(f) /\ Inv /\ Memory
  BY DEF Shifting, Copying, Ready
<1>1. PICK n \in Nat : n = Len(frames) /\ n > 1
  BY <1>0, NestFacts DEF Moving
<1>2. n \in 1..n /\ \A d \in 1..(n - 1) : d \in 1..n /\ d # n
  BY <1>1
<1>3. PICK top, walk : /\ top = scopes'[f.env].len
                       /\ walk = IF Shifting(f) THEN up[n] \cup (DOMAIN scopes' \ DOMAIN scopes)
                                 ELSE {f.env} \cup {x \in up[n] : x < scopes[Top.env].parent}
  OBVIOUS
<1>4. PICK base2, up2 : /\ base2 = [d \in 1..n |-> IF d = n THEN top ELSE base[d]]
                        /\ up2 = [d \in 1..n |-> IF d = n THEN walk ELSE up[d]]
  OBVIOUS
<1>5. /\ \A d \in 1..(Len(frames) - 1) : base2[d] = base[d] /\ up2[d] = up[d]
      /\ base2[Len(frames)] = top /\ up2[Len(frames)] = walk
  BY <1>1, <1>2, <1>4
<1>6. NestOK(base2, up2)'
  <2>1. CASE Shifting(f)
    <3>1. /\ base2[Len(frames)] = 0
          /\ up2[Len(frames)] = up[Len(frames)] \cup (DOMAIN scopes' \ DOMAIN scopes)
      BY <1>1, <1>3, <1>5, <2>1 DEF Shifting
    <3> QED BY <1>0, <1>5, <2>1, <3>1, NestShifting
  <2>2. CASE ~Shifting(f)
    <3>1. /\ base2[Len(frames)] = scopes'[f.env].len /\ Copying(f)
          /\ up2[Len(frames)] = {f.env} \cup {x \in up[Len(frames)] : x < scopes[Top.env].parent}
      BY <1>1, <1>3, <1>5, <2>2
    <3> QED BY <1>0, <1>5, <3>1, NestCopying
  <2> QED BY <2>1, <2>2
<1>7. EachOK(base2)'
  <2>1. PICK m \in Nat : m = n - 1
    BY <1>1
  <2>2. /\ Len(frames') = n /\ frames'[n] = f /\ \A d \in 1..m : frames'[d] = frames[d]
    BY <1>0, <1>1, <2>1 DEF Moving, Replaced
  <2>3. \A d \in 1..m : /\ d \in 1..Len(frames) /\ frames'[d] = frames[d] /\ base2[d] = base[d]
                        /\ scopes'[frames[d].env] = scopes[frames[d].env]
    <3>1. \A d \in 1..m : d \in 1..Len(frames) /\ frames[d].env \in DOMAIN scopes
      BY <1>0, <1>1, <1>2, <2>1, NestFacts
    <3> QED BY <1>0, <1>1, <1>5, <2>1, <2>2, <3>1 DEF Moving
  <2>4. f.pc # "each" /\ arrays' = arrays
    BY <1>0 DEF Moving, Owed
  <2>5. \A d \in 1..Len(frames') : d \in 1..m \/ frames'[d].pc # "each"
    <3>1. \A d \in 1..n : d \in 1..m \/ d = n
      BY <2>1
    <3> QED BY <2>2, <2>4, <3>1
  <2> QED BY <2>3, <2>4, <2>5, EachStays DEF RangesOK
<1>8. Tidy /\ MaxInt32 >= 2 => SnugOK(base2)'
  BY <1>0, <1>3, <1>5, SnugMoving DEF RangesOK
<1> QED BY <1>6, <1>7, <1>8, RangesNext


\* Eval begins.
LEMMA BeginningNext ==
    ASSUME Memory', prog' = prog, NoArgs', Beginning
    PROVE  \E base, up : NestOK(base, up)' /\ RangesOK(base)'
<1>1. PICK base, up : base = <<scopes'[1].len>> /\ up = <<{1}>>
  OBVIOUS
<1>2. base[1] = scopes'[1].len /\ up[1] = {1}
  BY <1>1
<1>3. NestOK(base, up)' /\ SnugOK(base)'
  BY <1>2, NestBeginning, SnugBeginning
<1>4. EachOK(base)'
  <2>1. \A d \in 1..1 : d = 1
    OBVIOUS
  <2> QED BY <2>1 DEF Beginning, EachOK
<1> QED BY <1>3, <1>4, RangesNext

\* Eval has ended.
LEMMA NoneNext ==
    ASSUME prog' = prog, NoArgs', Len(frames') = 0, NEW base, NEW up
    PROVE  NestOK(base, up)' /\ RangesOK(base)'
<1>1. 1..0 = {}
  OBVIOUS
<1>2. EachOK(base)' /\ SnugOK(base)'
  BY <1>1 DEF EachOK, SnugOK, Snug
<1> QED BY <1>2, NestNoneNext, RangesNext

\* Frames and scopes stay as they are.
LEMMA IdleNext ==
    ASSUME prog' = prog, NoArgs', frames' = frames, UNCHANGED scopeVars,
           NEW base, NEW up, NestOK(base, up), RangesOK(base)
    PROVE  NestOK(base, up)' /\ RangesOK(base)'
<1>1. scopes' = scopes /\ arrays' = arrays
  BY DEF scopeVars
<1>2. Envs' = Envs /\ Debts' = Debts /\ Subs' = Subs
  BY EnvsNext DEF Envs, Debts, Subs
<1>3. NestOK(base, up)' /\ (SnugOK(base) => SnugOK(base)')
  BY <1>1, <1>2 DEF NestOK, SnugOK
<1>4. EachOK(base)'
  BY <1>1 DEF EachOK, RangesOK
<1> QED BY <1>3, <1>4, RangesNext DEF RangesOK

\* What holds of scopes and arguments in programs without drop_args.
ScopesOK == Memory /\ \E base, up : NestOK(base, up) /\ RangesOK(base)

\* It holds after every step.
LEMMA NextScopes ==
    ASSUME SignalInv, DropFree, ScopesOK, [Next]_vars
    PROVE  ScopesOK' /\ Evolves /\ Ready
<1>1. PICK base, up : NestOK(base, up) /\ RangesOK(base)
  BY DEF ScopesOK
<1>2. Memory
  BY DEF ScopesOK
<1>3. Ready
  BY <1>1, <1>2, NestReady DEF SignalInv
<1>4. Evolves /\ Memory' /\ prog' = prog
  BY <1>3, NextEvolves DEF SignalInv
<1>5. NoArgs'
  BY <1>1, <1>3, <1>4, NoArgsNext DEF RangesOK
<1>6. \E base2, up2 : NestOK(base2, up2)' /\ RangesOK(base2)'
  <2>1. CASE \E f : Works(f)
    BY <1>1, <1>3, <1>4, <1>5, <2>1, WorksNext
  <2>2. CASE \E f, g : Waiting(f, g)
    BY <1>1, <1>3, <1>4, <1>5, <2>2, WaitingNext
  <2>3. CASE Ending
    BY <1>1, <1>3, <1>4, <1>5, <2>3, EndingNext
  <2>4. CASE \E f : Shifting(f) \/ Copying(f)
    BY <1>1, <1>3, <1>4, <1>5, <2>4, MovingNext
  <2>5. CASE Beginning
    BY <1>4, <1>5, <2>5, BeginningNext
  <2>6. CASE Len(frames') = 0
    BY <1>4, <1>5, <2>6, NoneNext
  <2>7. CASE frames' = frames /\ UNCHANGED scopeVars
    BY <1>1, <1>4, <1>5, <2>7, IdleNext
  <2> QED BY <1>4, <2>1, <2>2, <2>3, <2>4, <2>5, <2>6, <2>7 DEF Evolves
<1>7. ScopesOK'
  BY <1>4, <1>6 DEF ScopesOK
<1> QED BY <1>3, <1>4, <1>7

\* It holds at first.
LEMMA InitScopes ==
    ASSUME Init
    PROVE  ScopesOK
<1>1. PICK A, L : A = {ZeroArg} /\ L = DOMAIN ValueAt
  OBVIOUS
<1>2. Root \in L
  BY <1>1, PlacesAssumption
<1>3. WellFormed(A, L)
  <2>1. PICK node : node = [arr |-> 0, len |-> 0, parent |-> 0, loc |-> Root]
    OBVIOUS
  <2>2. node \in Nodes(L) /\ node.arr = 0 /\ node.len = 0 /\ node.parent = 0
    BY <1>2, <2>1 DEF Nodes
  <2>3. scopes = <<node>> /\ arrays = <<>>
    BY <2>1 DEF Init
  <2>4. scopes \in Seq(Nodes(L)) /\ scopes # <<>> /\ DOMAIN scopes = {1} /\ scopes[1] = node
    BY <2>2, <2>3
  <2>5. arrays \in Seq(Seq(A)) /\ Len(arrays) = 0
    BY <2>3
  <2> QED BY <2>2, <2>4, <2>5 DEF WellFormed, Cap
<1>4. Memory
  BY <1>1, <1>3 DEF Memory
<1>5. Len(frames) = 0 /\ 1..0 = {}
  BY DEF Init
<1>6. \A base, up : NestOK(base, up) /\ RangesOK(base)
  BY <1>5, NestNone DEF RangesOK, EachOK, NoArgs, SnugOK, Snug
<1> QED BY <1>4, <1>6 DEF ScopesOK

\* The program stays the same.
LEMMA ProgStays ==
    ASSUME [Next]_vars
    PROVE  prog' = prog
<1>1. CASE StackStep \/ ScopeStep
  BY <1>1 DEF StackStep, ScopeStep, machine
<1>2. CASE Enter \/ Begin \/ End \/ Panic
  BY <1>2 DEF Enter, Begin, End, Panic
<1>3. CASE Signal \/ Store \/ Program
  BY <1>3 DEF Signal, Store, Program
<1>4. CASE Over \/ UNCHANGED vars
  BY <1>4 DEF Over, vars, machine
<1> QED BY <1>1, <1>2, <1>3, <1>4 DEF Next, Step

\* The invariant of scopes, arguments and signals.
ScopeInv == SignalInv /\ (DropFree => ScopesOK)

\* It always holds.
LEMMA ScopeInvariance == Spec => []ScopeInv
<1>1. Init => ScopeInv
  BY InitSignal, InitScopes DEF ScopeInv
<1>2. ScopeInv /\ [Next]_vars => ScopeInv'
  <2> SUFFICES ASSUME ScopeInv, [Next]_vars PROVE ScopeInv'
    OBVIOUS
  <2>1. SignalInv'
    BY NextSignal DEF ScopeInv
  <2>2. prog' = prog
    BY ProgStays
  <2>3. DropFree' = DropFree
    BY <2>2 DEF DropFree
  <2> QED BY <2>1, <2>3, NextScopes DEF ScopeInv
<1> QED BY <1>1, <1>2, PTL DEF Spec


-----------------------------------------------------------------------------
(***************************************************************************)
(* What the arguments of evaluations are.                                  *)
(***************************************************************************)

\* An evaluation that is under way in a subscope of another one leaves alone what that one
\* sees.
LEMMA SubscopeKeeps ==
    ASSUME SignalInv, DropFree, ScopesOK, [Next]_vars,
           NEW d \in 1..Len(frames), NEW e \in (d + 1)..Len(frames), Subscoped(frames[e])
    PROVE  frames'[d].env = frames[d].env /\ Visible(frames[d].env)' = Visible(frames[d].env)
<1>1. PICK base, up : NestOK(base, up)
  BY DEF ScopesOK
<1>2. Evolves /\ Memory /\ Memory' /\ Inv
  BY NextScopes DEF ScopesOK, SignalInv
<1>3. PICK n \in Nat : n = Len(frames)
  BY <1>1, <1>2, NestFacts
<1>4. PICK m \in 1..n : m = e /\ d \in 1..n /\ d < m /\ d \in 1..(n - 1) /\ n > 1
  BY <1>3
<1>5. frames # <<>> /\ n \in 1..n
  BY <1>3, <1>4
<1>6. PICK s, y : s = frames[d].env /\ y = Top.env
  OBVIOUS
<1>7. /\ s \in DOMAIN scopes /\ s \in Nat /\ y \in DOMAIN scopes /\ y \in Nat /\ s < y
      /\ s \in up[d] /\ up[d] \subseteq DOMAIN scopes
      /\ \A x \in up[d] : x <= s /\ (scopes[x].parent = 0 \/ scopes[x].parent \in up[d])
  <2>1. Top = frames[n]
    BY <1>1, <1>2, <1>3, <1>5, NestFacts
  <2>2. Envs[d] = s /\ Envs[n] = y /\ Envs[m] = frames[m].env /\ Subs[m]
    BY <1>3, <1>4, <1>5, <1>6, <2>1 DEF Envs, Subs
  <2>3. s \in Nat /\ y \in Nat /\ frames[m].env \in Nat
    BY <1>1, <1>2, <1>3, <1>4, <1>5, <1>6, <2>1, NestFacts
  <2>4. s < frames[m].env
    BY <1>1, <1>3, <1>4, <2>2 DEF NestOK, Nest, Ordered
  <2>5. frames[m].env <= y
    <3>1. CASE m = n
      BY <2>1, <2>3, <1>6, <3>1
    <3>2. CASE m # n
      <4>1. m < n
        BY <1>4, <3>2
      <4> QED BY <1>1, <1>3, <1>4, <1>5, <2>2, <4>1 DEF NestOK, Nest, Ordered
    <3> QED BY <3>1, <3>2
  <2> QED BY <1>1, <1>3, <1>4, <1>5, <2>2, <2>3, <2>4, <2>5 DEF NestOK, Nest, Walks
<1>8. \A x \in up[d] : x \in Nat /\ x # y
  <2>1. \A x \in up[d] : x \in Nat
    BY <1>2, <1>7, MemoryFacts DEF Numbered
  <2> QED BY <1>7, <2>1
<1>9. ASSUME frames'[d].env = frames[d].env, Len(scopes) <= Len(scopes'),
             \A x \in up[d] : /\ scopes'[x] = scopes[x]
                              /\ \A i \in 1..scopes[x].len :
                                    arrays'[scopes'[x].arr][i] = arrays[scopes[x].arr][i]
      PROVE  frames'[d].env = frames[d].env /\ Visible(frames[d].env)' = Visible(frames[d].env)
  <2>1. Tree /\ Tree'
    BY <1>2, MemoryFacts, MemoryNext
  <2>2. PICK P : P = up[d]
    OBVIOUS
  <2>3. P \in SUBSET DOMAIN scopes /\ s \in P
    BY <1>7, <2>2
  <2>4. \A t \in P : /\ scopes[t].parent = 0 \/ scopes[t].parent \in P
                     /\ scopes'[t].parent = scopes[t].parent
                     /\ scopes'[t].len = scopes[t].len
                     /\ \A i \in 1..scopes[t].len :
                           arrays'[scopes'[t].arr][i] = arrays[scopes[t].arr][i]
    BY <1>7, <1>9, <2>2
  <2>5. Visible(s)' = Visible(s)
    BY <1>9, <2>1, <2>3, <2>4, SameVisible
  <2>6. frames'[d].env = s
    BY <1>6, <1>9
  <2>7. Visible(frames[d].env)' = Visible(s)'
    BY <2>6 DEF Visible, View, Path, OwnArgs
  <2> QED BY <1>6, <1>9, <2>5, <2>7
<1>10. Len(scopes) \in Nat /\ Len(scopes') \in Nat
  BY <1>2, MemoryFacts, MemoryNext
<1>11. ASSUME NEW f, Works(f)
       PROVE  frames'[d].env = frames[d].env /\ Visible(frames[d].env)' = Visible(frames[d].env)
  <2>1. frames'[d] = frames[d]
    BY <1>3, <1>4, <1>11 DEF Works, Replaced
  <2>2. Len(scopes') = Len(scopes) /\ \A x \in up[d] : scopes'[x] = scopes[x]
    BY <1>6, <1>7, <1>8, <1>11 DEF Works, Touched
  <2>3. ASSUME NEW x \in up[d], NEW i \in 1..scopes[x].len
        PROVE  arrays'[scopes'[x].arr][i] = arrays[scopes[x].arr][i]
    <3>1. i <= scopes'[x].len
      BY <2>2
    <3> QED BY <1>1, <1>2, <1>5, <1>11, <3>1, KeepsSlots
  <2> QED BY <1>9, <1>10, <2>1, <2>2, <2>3
<1>12. ASSUME frames'[d] = frames[d], UNCHANGED scopeVars
       PROVE  frames'[d].env = frames[d].env /\ Visible(frames[d].env)' = Visible(frames[d].env)
  BY <1>9, <1>10, <1>12 DEF scopeVars
<1>13. ASSUME NEW f, Moving(f)
       PROVE  frames'[d].env = frames[d].env /\ Visible(frames[d].env)' = Visible(frames[d].env)
  <2>1. frames'[d] = frames[d] /\ arrays' = arrays
    BY <1>3, <1>4, <1>13 DEF Moving, Replaced
  <2>2. \A x \in up[d] : scopes'[x] = scopes[x]
    BY <1>7, <1>13 DEF Moving
  <2>3. Len(scopes) <= Len(scopes')
    BY <1>10, <1>13 DEF Moving
  <2> QED BY <1>9, <2>1, <2>2, <2>3
<1>14. ASSUME NEW f, NEW g, Waiting(f, g) PROVE frames'[d] = frames[d] /\ UNCHANGED scopeVars
  BY <1>3, <1>4, <1>14 DEF Waiting, Pushed
<1>15. ASSUME Ending PROVE frames'[d] = frames[d] /\ UNCHANGED scopeVars
  BY <1>3, <1>4, <1>15 DEF Ending
<1> QED BY <1>2, <1>3, <1>4, <1>5, <1>11, <1>12, <1>13, <1>14, <1>15
        DEF Evolves, Beginning, Shifting, Copying

\* Fields scope and args of value.proto, and eval of eval.go: whatever a value that is
\* evaluated in a subscope does to its arguments, directly or in what it evaluates, and
\* however copies of scopes share their arrays, the arguments that the evaluations around
\* it see stay the same, in order and number, if nobody uses drop_args.
THEOREM ArgsAreKept == Spec => SubscopeKeepsArgs
<1>1. ScopeInv /\ [Next]_vars =>
        [DropFree => \A d \in DOMAIN frames :
            InSubscope(d) => Visible(frames[d].env)' = Visible(frames[d].env)]_vars
  <2> SUFFICES ASSUME ScopeInv, [Next]_vars, DropFree, NEW d \in DOMAIN frames, InSubscope(d)
               PROVE  Visible(frames[d].env)' = Visible(frames[d].env)
    OBVIOUS
  <2>1. PICK e \in (d + 1)..Len(frames) : Subscoped(frames[e])
    BY DEF InSubscope, Subscoped
  <2>2. d \in 1..Len(frames)
    BY LenProperties DEF ScopeInv, SignalInv, Inv, FramesOK, Stack
  <2> QED BY <2>1, <2>2, SubscopeKeeps DEF ScopeInv
<1> QED BY <1>1, ScopeInvariance, PTL DEF Spec, SubscopeKeepsArgs

\* Range of value.proto: what evalRange of eval.go drops after the evaluation for an
\* element is what it pushed before, if every value with arguments has a scope of its own.
\* (MaxInt32 is 2^31 - 1; two arguments can be dropped if it is 2.)
THEOREM RangesClean == MaxInt32 >= 2 => (Spec => []RangeRemovesItsArgs)
<1> SUFFICES ASSUME MaxInt32 >= 2
             PROVE  Spec => []RangeRemovesItsArgs
  OBVIOUS
<1>1. ScopeInv => RangeRemovesItsArgs
  <2> SUFFICES ASSUME ScopeInv, At("each"), Tidy
               PROVE  Arg(Top.env, 0) = Top.acc
    BY DEF RangeRemovesItsArgs
  <2>1. SignalInv /\ ScopesOK /\ Inv /\ Memory
    BY DEF ScopeInv, Tidy, ScopesOK, SignalInv
  <2>2. PICK base, up : NestOK(base, up) /\ RangesOK(base)
    BY <2>1 DEF ScopesOK
  <2>3. frames # <<>>
    BY <2>1 DEF At, Inv, OutOK
  <2>4. PICK n \in Nat : n = Len(frames)
    BY <2>1, <2>2, NestFacts
  <2>5. PICK s : s = Top.env
    OBVIOUS
  <2>6. n \in 1..n /\ Top = frames[n] /\ s \in DOMAIN scopes /\ base[n] \in Nat /\ n # 0
    BY <2>1, <2>2, <2>3, <2>4, <2>5, NestFacts
  <2>7. Owed(Top) = 2
    BY DEF Owed, At
  <2>8. base[n] + 2 = scopes[s].len
    BY <2>2, <2>4, <2>5, <2>6, <2>7 DEF RangesOK, SnugOK, Snug, Envs, Debts
  <2>9. arrays[scopes[s].arr][scopes[s].len] = Top.acc
    BY <2>2, <2>4, <2>5, <2>6, <2>8 DEF RangesOK, EachOK, At
  <2>10. Tree /\ Len(scopes) \in Nat /\ scopes[s].len \in Nat \ {0} /\ s # 0 /\ 0 \in Nat
    BY <2>1, <2>6, <2>8, MemoryFacts DEF Numbered
  <2>11. Path(s)[0] = s /\ Held(s)[0] = 0 /\ 0 \in 0..Len(scopes)
    BY <2>6, <2>10, PathFacts, HeldFacts DEF PathIsWalk, HeldIsSum
  <2>12. 0 \in ArgAt(s, 0)
    BY <2>10, <2>11 DEF ArgAt
  <2>13. /\ 0 < Held(s)[0 + 1] /\ Held(s)[0 + 1] <= Held(s)[Len(scopes)] /\ Held(s)[0 + 1] \in Nat
         /\ Visible(s)[0 + 1] = arrays[scopes[Path(s)[0]].arr][scopes[Path(s)[0]].len - (0 - Held(s)[0])]
    BY <2>6, <2>10, <2>12, PlaceFacts
  <2>14. Len(Visible(s)) = Held(s)[Len(scopes)] /\ Held(s)[Len(scopes)] \in Nat
    BY <2>6, <2>10, VisibleFacts
  <2>15. 0 < Len(Visible(s))
    BY <2>13, <2>14
  <2>16. Arg(s, 0) = Visible(s)[0 + 1]
    BY <2>6, <2>10, <2>15, ArgIsElement
  <2>17. scopes[s].len - (0 - 0) = scopes[s].len
    BY <2>10
  <2> QED BY <2>5, <2>9, <2>11, <2>13, <2>16, <2>17
<1> QED BY <1>1, ScopeInvariance, PTL

-----------------------------------------------------------------------------
(***************************************************************************)
(* The memory of every program.                                            *)
(***************************************************************************)

\* Evaluations are in scopes that are allocated.
EnvsOK == \A d \in 1..Len(frames) : frames[d].env \in DOMAIN scopes

\* What is known of every program before a step.
Sound == /\ Inv /\ NodesOK /\ prog \in Programs /\ CyclesOK
         /\ Memory /\ EnvsOK

\* No scope is lost.
Grows == \A s \in DOMAIN scopes : s \in DOMAIN scopes'

\* What a step of a running Eval begins with.
LEMMA SoundRuns ==
    ASSUME Sound, frames # <<>>
    PROVE  /\ Len(frames) \in Nat \ {0} /\ Top = frames[Len(frames)] /\ IsFrame(Top)
           /\ FramesOK /\ Top.env \in DOMAIN scopes
           /\ Top.pc \notin {"init", "scope"} => Top.node \in DOMAIN prog.nodes
<1>1. /\ Len(frames) \in Nat \ {0} /\ Top = frames[Len(frames)] /\ IsFrame(Top) /\ FramesOK
  BY TopOK DEF Sound, Inv
<1>2. Len(frames) \in 1..Len(frames)
  BY <1>1
<1> QED BY <1>1, <1>2 DEF Sound, EnvsOK, NodesOK

\* The frame on top goes on, in an allocated scope.
LEMMA EnvsReplaced ==
    ASSUME Sound, frames # <<>>, Grows, NEW f, Replaced(frames, f, frames'), f.env \in DOMAIN scopes'
    PROVE  EnvsOK'
<1>1. PICK n \in Nat \ {0} : n = Len(frames)
  BY SoundRuns
<1>2. ASSUME NEW d \in 1..n
      PROVE  frames'[d].env \in DOMAIN scopes'
  <2>1. CASE d = n
    BY <1>1, <2>1 DEF Replaced
  <2>2. CASE d # n
    <3>1. d \in 1..(n - 1)
      BY <2>2
    <3> QED BY <1>1, <3>1 DEF Replaced, Sound, EnvsOK, Grows
  <2> QED BY <2>1, <2>2
<1> QED BY <1>1, <1>2 DEF EnvsOK, Replaced

\* It waits for another one.
LEMMA EnvsPushed ==
    ASSUME Sound, frames # <<>>, Grows, NEW f, NEW g, Pushed(frames, f, g, frames'),
           f.env \in DOMAIN scopes', g.env \in DOMAIN scopes'
    PROVE  EnvsOK'
<1>1. PICK n \in Nat \ {0} : n = Len(frames)
  BY SoundRuns
<1>2. ASSUME NEW d \in 1..(n + 1)
      PROVE  frames'[d].env \in DOMAIN scopes'
  <2>1. CASE d \in {n, n + 1}
    BY <1>1, <2>1 DEF Pushed
  <2>2. CASE d \notin {n, n + 1}
    <3>1. d \in 1..(n - 1) /\ d \in 1..n
      BY <2>2
    <3> QED BY <1>1, <3>1 DEF Pushed, Sound, EnvsOK, Grows
  <2> QED BY <2>1, <2>2
<1> QED BY <1>1, <1>2 DEF EnvsOK, Pushed

\* It ends.
LEMMA EnvsPopped ==
    ASSUME Sound, frames # <<>>, Grows, Len(frames') = Len(frames) - 1,
           \A d \in 1..(Len(frames) - 1) : frames'[d] = frames[d]
    PROVE  EnvsOK'
<1>1. PICK n \in Nat \ {0} : n = Len(frames)
  BY SoundRuns
<1>2. \A d \in 1..(n - 1) : d \in 1..n
  OBVIOUS
<1> QED BY <1>1, <1>2 DEF EnvsOK, Sound, Grows

\* A push keeps the memory well-formed, and so does a drop, however deep.
LEMMA ArgsKeepMemory ==
    ASSUME Memory, NEW y \in DOMAIN scopes
    PROVE  /\ \A v : PushArg(y, v) => Memory' /\ DOMAIN scopes' = DOMAIN scopes
           /\ \A n \in Nat : DropArgs(y, n) => Memory' /\ DOMAIN scopes' = DOMAIN scopes
<1>1. ASSUME NEW v, PushArg(y, v)
      PROVE  Memory' /\ DOMAIN scopes' = DOMAIN scopes
  BY <1>1, PushTouches DEF Touched
<1>2. ASSUME NEW n \in Nat, DropArgs(y, n)
      PROVE  Memory' /\ DOMAIN scopes' = DOMAIN scopes
  <2>1. PICK A : ZeroArg \in A /\ WellFormed(A, DOMAIN ValueAt)
    BY DEF Memory
  <2>2. PICK L : L = DOMAIN ValueAt
    OBVIOUS
  <2>3. WellFormed(A, L)' /\ DOMAIN scopes' = DOMAIN scopes
    BY <1>2, <2>1, <2>2, DropFits
  <2> QED BY <2>1, <2>2, <2>3 DEF Memory
<1> QED BY <1>1, <1>2

\* Scopes and arrays stay as they are, except for new scopes.
Intact ==
    /\ arrays' = arrays
    /\ \A s \in DOMAIN scopes : s \in DOMAIN scopes' /\ scopes'[s] = scopes[s]

\* The evaluation goes on as frame f, in its scope or in an allocated one.
Proceeds(f) ==
    /\ Like(f) /\ frames' = Append(Front(frames), f)
    /\ f.env \in DOMAIN scopes' /\ Grows /\ Memory'

\* Scope steps, by what they lead to.
LEMMA ScopeProceeds ==
    ASSUME Sound, ScopeStep
    PROVE  \E f : /\ Proceeds(f) /\ f.pc # "body"
                  /\ f.pc = "args" => Drop \/ ArgPush
<1>1. out.st = "running" /\ prog' = prog
  BY DEF ScopeStep, InitPush, Drop, ArgPush, Parent, RangeNext, RangeSecond, RangeDrop, At, Body, machine
<1>2. FramesOK /\ frames # <<>> /\ IsFrame(Top) /\ Top.env \in DOMAIN scopes /\ 1 \in DOMAIN scopes
  BY <1>1, SoundRuns, MemoryFacts DEF Sound, Inv, OutOK
<1>3. ASSUME NEW f, NEW p, Moved(f, Top, p), (p = "init") <=> (Top.pc = "init"),
             frames' = Append(Front(frames), f), Memory', DOMAIN scopes' = DOMAIN scopes
      PROVE  Proceeds(f) /\ f.pc = p
  BY <1>2, <1>3 DEF Moved, Like, Proceeds, Grows
<1>4. Memory /\ prog \in Programs
  BY DEF Sound
<1>5. CASE InitPush \/ ArgPush
  <2>1. PICK x : x = Top.i - 1
    OBVIOUS
  <2>2. PICK f : f = [Top EXCEPT !.i = x]
    OBVIOUS
  <2>3. Moved(f, Top, Top.pc)
    BY <1>2, <2>2, MovedOK
  <2>4. frames' = Append(Front(frames), f) /\ Top.pc \in {"init", "args"}
    BY <1>5, <2>1, <2>2 DEF InitPush, ArgPush, At, Goto
  <2>5. Memory' /\ DOMAIN scopes' = DOMAIN scopes
    BY <1>2, <1>4, <1>5, ArgsKeepMemory DEF InitPush, ArgPush
  <2>6. Proceeds(f) /\ f.pc = Top.pc
    BY <1>3, <2>3, <2>4, <2>5
  <2>7. Top.pc = "args" => ArgPush
    BY <1>5 DEF InitPush, At
  <2> QED BY <2>4, <2>6, <2>7
<1>6. CASE RangeNext
  <2>1. PICK p : /\ PushArg(Top.env, p.pair[1])
                 /\ Goto([Top EXCEPT !.pc = "second", !.iter = p.iter, !.acc = p.pair[2]])
    BY <1>6 DEF RangeNext
  <2>2. PICK x, y : x = p.iter /\ y = p.pair[2]
    OBVIOUS
  <2>3. PICK f : f = [Top EXCEPT !.pc = "second", !.iter = x, !.acc = y]
    OBVIOUS
  <2>4. Moved(f, Top, "second") /\ Top.pc = "next"
    BY <1>2, <1>6, <2>3, MovedOK DEF RangeNext, At
  <2>5. frames' = Append(Front(frames), f)
    BY <2>1, <2>2, <2>3 DEF Goto
  <2>6. Memory' /\ DOMAIN scopes' = DOMAIN scopes
    BY <1>2, <1>4, <2>1, ArgsKeepMemory
  <2> QED BY <1>3, <2>4, <2>5, <2>6
<1>7. CASE RangeSecond
  <2>1. PICK f : f = [Top EXCEPT !.pc = "each"]
    OBVIOUS
  <2>2. Moved(f, Top, "each") /\ Top.pc = "second" /\ frames' = Append(Front(frames), f)
    BY <1>2, <1>7, <2>1, MovedOK DEF RangeSecond, At, Goto
  <2>3. Memory' /\ DOMAIN scopes' = DOMAIN scopes
    BY <1>2, <1>4, <1>7, ArgsKeepMemory DEF RangeSecond
  <2> QED BY <1>3, <2>2, <2>3
<1>8. CASE RangeDrop
  <2>1. PICK f : f = [Top EXCEPT !.pc = "result"]
    OBVIOUS
  <2>2. Moved(f, Top, "result") /\ Top.pc = "each" /\ frames' = Append(Front(frames), f)
    BY <1>2, <1>8, <2>1, MovedOK DEF RangeDrop, At
  <2>3. Memory' /\ DOMAIN scopes' = DOMAIN scopes
    BY <1>2, <1>4, <1>8, ArgsKeepMemory DEF RangeDrop
  <2> QED BY <1>3, <2>2, <2>3
<1>9. CASE Drop
  <2>1. PICK x : x = Len(Node.args)
    OBVIOUS
  <2>2. PICK f : f = [Top EXCEPT !.pc = "args", !.i = x]
    OBVIOUS
  <2>3. Moved(f, Top, "args") /\ Top.pc = "drop" /\ frames' = Append(Front(frames), f)
    BY <1>2, <1>9, <2>1, <2>2, MovedOK DEF Drop, At, Goto
  <2>4. Top.node \in DOMAIN prog.nodes
    BY <1>2, <2>3, SoundRuns
  <2>5. Node.drop \in Nat
    BY <1>4, <2>4, NodesAssumption, UintAssumption DEF Node
  <2>6. Memory' /\ DOMAIN scopes' = DOMAIN scopes
    BY <1>2, <1>4, <1>9, <2>5, ArgsKeepMemory DEF Drop
  <2> QED BY <1>3, <1>9, <2>3, <2>6
<1>10. CASE Parent
  <2>1. PICK z : z = Len(scopes')
    OBVIOUS
  <2>2. PICK f : f = [Top EXCEPT !.pc = "parent", !.env = z]
    OBVIOUS
  <2>3. frames' = Append(Front(frames), f) /\ Top.pc = "body"
    BY <1>10, <2>1, <2>2 DEF Parent, Goto, NewScope, Body, At
  <2>4. f.pc = "parent" /\ f.env = z /\ f.node = Top.node /\ IsFrame(f)
    <3>1. PICK g : g = [Top EXCEPT !.pc = "parent"]
      OBVIOUS
    <3>2. IsFrame(g) /\ g.pc = "parent" /\ g.node = Top.node
      BY <1>2, <3>1 DEF IsFrame
    <3>3. f = [g EXCEPT !.env = z]
      BY <2>2, <3>1
    <3> QED BY <3>2, <3>3 DEF IsFrame
  <2>5. Memory' /\ Len(scopes') \in DOMAIN scopes' /\ Grows
    BY <1>2, <1>4, <1>10, ParentAdds DEF Parent, Grows
  <2>6. Proceeds(f)
    BY <2>1, <2>3, <2>4, <2>5 DEF Proceeds, Like
  <2> QED BY <2>4, <2>6
<1> QED BY <1>5, <1>6, <1>7, <1>8, <1>9, <1>10 DEF ScopeStep

\* The evaluation waits as frame f for that of the value at node k.
Calling(f, k) ==
    /\ Like(f) /\ Waits(f) /\ f.env = Top.env /\ Sub(f, k)
    /\ UNCHANGED scopeVars

\* It ends.
Leaving ==
    /\ frames' = Front(frames) /\ Top.pc # "init" /\ ret' # NoRet
    /\ UNCHANGED scopeVars

\* A step of an evaluation, by what it leads to.
Course ==
    /\ out.st = "running"
    /\ \/ \E f : /\ Proceeds(f)
                 /\ f.pc = "body" => ArgCall
                 /\ f.pc = "args" => Drop \/ ArgPush
       \/ \E f, k : Calling(f, k) /\ (f.pc = "args" => ArgCall)
       \/ Leaving

\* Steps that change nothing but the stack, or the stack and the environment.
LEMMA StackCourse ==
    ASSUME Sound, StackStep \/ Signal \/ Store \/ Program
    PROVE  Course /\ prog' = prog /\ Memory'
<1>1. /\ FramesOK /\ frames # <<>> /\ out.st = "running" /\ prog' = prog
      /\ UNCHANGED scopeVars
  BY StepRuns DEF Sound, StackStep, Signal, Store, Program
<1>2. Memory' /\ Inv /\ Grows /\ scopes' = scopes
  BY <1>1, NothingTouched DEF Sound, Grows, scopeVars
<1>3. IsFrame(Top) /\ Top.env \in DOMAIN scopes
  BY <1>1, SoundRuns
<1>4. \A v, e : Return(v, e) => ret' # NoRet
  <2>1. ASSUME NEW v, NEW e, Return(v, e) PROVE ret' # NoRet
    <3>1. ret'.st = "ret" /\ NoRet.st = "none"
      BY <2>1 DEF Return, NoRet
    <3> QED BY <3>1
  <2> QED BY <2>1
<1>5. CASE Refuse
  <2>1. Leaving
    BY <1>1, <1>4, <1>5 DEF Refuse, At, Return, Leaving
  <2> QED BY <1>1, <1>2, <2>1 DEF Course
<1>6. CASE ~Refuse
  <2>1. Turn
    BY <1>2, <1>6, StackMoves, EffectMoves
  <2>2. Top.pc = "args" => ArgCall \/ ArgFails
    BY <1>2, <1>6, StackPoints
  <2>3. CASE Returns
    <3>1. Leaving
      BY <1>1, <1>4, <2>3 DEF Returns, Return, Leaving
    <3> QED BY <1>1, <1>2, <3>1 DEF Course
  <2>4. ASSUME NEW f, NEW k, Like(f), Waits(f), Steady(f), Sub(f, k)
        PROVE  Course
    <3>1. Calling(f, k)
      BY <1>1, <2>4 DEF Calling, Steady
    <3>2. f.pc = "args" => ArgCall
      <4>1. ASSUME f.pc = "args", ArgFails PROVE FALSE
        <5>1. Len(frames') = Len(frames) - 1 /\ Len(frames) \in Nat
          BY <1>1, <4>1, ReturnFrames, TopOK DEF ArgFails, Return, At
        <5>2. PICK g : g = NewFrame(k, f.env)
          OBVIOUS
        <5>3. IsFrame(g) /\ g.pc = "scope"
          BY <5>2 DEF IsFrame, NewFrame
        <5>4. Pushed(frames, f, g, frames')
          BY <1>1, <2>4, <5>2, <5>3, SubFrames DEF Sub
        <5> QED BY <5>1, <5>4 DEF Pushed
      <4>2. f.pc = "args" => Top.pc = "args"
        BY <2>4 DEF Steady
      <4> QED BY <2>2, <4>1, <4>2
    <3> QED BY <1>1, <3>1, <3>2 DEF Course
  <2>5. ASSUME NEW f, Like(f), Onward(f), Goto(f)
        PROVE  Course
    <3>1. Proceeds(f)
      BY <1>2, <1>3, <2>5 DEF Proceeds, Onward, Goto
    <3>2. f.pc # "args"
      BY <2>5 DEF Onward
    <3>3. f.pc = "body" => ArgCall
      <4>1. ASSUME ArgFails, Top.pc = "args" PROVE FALSE
        <5>1. Len(frames') = Len(frames) - 1 /\ Len(frames) \in Nat
          BY <1>1, <4>1, ReturnFrames, TopOK DEF ArgFails, Return, At
        <5>2. Replaced(frames, f, frames')
          BY <1>1, <2>5, GotoFrames DEF Goto
        <5> QED BY <5>1, <5>2 DEF Replaced
      <4>2. f.pc = "body" => Top.pc = "args"
        BY <2>5 DEF Onward
      <4> QED BY <2>2, <4>1, <4>2
    <3> QED BY <1>1, <3>1, <3>2, <3>3 DEF Course
  <2>6. Course
    BY <2>1, <2>3, <2>4, <2>5 DEF Turn, Advances, Calls
  <2> QED BY <1>1, <1>2, <2>6
<1> QED BY <1>5, <1>6

\* Entering a value.
LEMMA EnterCourse ==
    ASSUME Sound, Enter
    PROVE  /\ Course /\ prog' = prog /\ Memory' /\ Intact /\ Top.pc = "scope"
           /\ \/ \E f : Proceeds(f) /\ f.pc = "drop" /\ ret' = NoRet
              \/ Leaving /\ ret'.err # NoErr
<1>1. out.st = "running" /\ Top.pc = "scope" /\ Top.node \in DOMAIN prog.nodes /\ prog' = prog
  BY DEF Enter, At
<1>2. FramesOK /\ frames # <<>> /\ IsFrame(Top) /\ Top.env \in DOMAIN scopes
  BY <1>1, SoundRuns DEF Sound, Inv, OutOK
<1>3. CASE UNCHANGED scopeVars /\ Return(Nil, Fail)
  <2>1. ret'.err # NoErr /\ ret' # NoRet
    <3>1. ret'.err = Fail /\ NoRet.err = NoErr
      BY <1>3 DEF Return, NoRet
    <3>2. Fail # NoErr
      BY DEF Fail, NoErr
    <3> QED BY <3>1, <3>2
  <2>2. Leaving
    BY <1>1, <1>3, <2>1 DEF Leaving, Return
  <2>3. Memory' /\ Intact
    BY <1>3, NothingTouched DEF Sound, Intact, scopeVars
  <2> QED BY <1>1, <2>1, <2>2, <2>3 DEF Course
<1>4. ASSUME NEW f, Moved(f, Top, "drop"), Goto(f), UNCHANGED scopeVars
      PROVE  Course /\ Memory' /\ Intact /\ Proceeds(f) /\ f.pc = "drop" /\ ret' = NoRet
  <2>1. Memory' /\ Intact /\ scopes' = scopes
    BY <1>4, NothingTouched DEF Sound, Intact, scopeVars
  <2>2. Proceeds(f) /\ f.pc = "drop" /\ ret' = NoRet
    BY <1>1, <1>2, <1>4, <2>1 DEF Proceeds, Moved, Like, Goto, Grows
  <2> QED BY <1>1, <2>1, <2>2 DEF Course
<1>5. ASSUME NEW f, Descends(f)
      PROVE  Course /\ Memory' /\ Intact /\ Proceeds(f) /\ f.pc = "drop" /\ ret' = NoRet
  <2>1. Memory' /\ Intact /\ Grows
    BY <1>5 DEF Descends, Intact, Grows
  <2>2. Proceeds(f) /\ f.pc = "drop" /\ ret' = NoRet
    BY <1>1, <1>5, <2>1 DEF Proceeds, Descends, Like
  <2> QED BY <1>1, <2>1, <2>2 DEF Course
<1>6. \/ UNCHANGED scopeVars /\ Return(Nil, Fail)
      \/ \E f : Moved(f, Top, "drop") /\ Goto(f) /\ UNCHANGED scopeVars
      \/ \E f : Descends(f)
  BY <1>2, EnterGoes DEF Sound
<1> QED BY <1>1, <1>3, <1>4, <1>5, <1>6

\* Eval begins or ends, or nothing happens.
Outside ==
    \/ Len(frames') = 1 /\ frames'[1].env = 1 /\ frames'[1].pc = "init"
    \/ Len(frames') = 0
    \/ frames' = frames /\ ret' = ret /\ UNCHANGED scopeVars /\ (out'.st = "running" => out' = out)

\* The steps that are not those of an evaluation.
LEMMA OutsideSteps ==
    ASSUME Begin \/ End \/ Panic \/ Over \/ UNCHANGED vars
    PROVE  Outside
<1>1. CASE Begin
  <2>1. PICK h : h = [NewFrame(0, 1) EXCEPT !.pc = "init"]
    OBVIOUS
  <2>2. IsFrame(h) /\ h.env = 1 /\ h.pc = "init"
    BY <2>1 DEF NewFrame, IsFrame
  <2>3. PICK f : f = [h EXCEPT !.i = Len(prog.args)]
    OBVIOUS
  <2>4. f.env = 1 /\ f.pc = "init"
    BY <2>2, <2>3 DEF IsFrame
  <2>5. frames' = <<f>>
    BY <1>1, <2>1, <2>3 DEF Begin
  <2> QED BY <2>4, <2>5 DEF Outside
<1>2. CASE End
  BY <1>2 DEF End, Outside
<1>3. CASE Panic
  <2>1. out'.st = "panic"
    BY <1>3 DEF Panic, NoRet
  <2> QED BY <1>3, <2>1 DEF Panic, Outside
<1>4. CASE Over \/ UNCHANGED vars
  BY <1>4 DEF Over, Outside, vars, scopeVars, machine
<1> QED BY <1>1, <1>2, <1>3, <1>4

\* All steps of all programs.
LEMMA NextCourse ==
    ASSUME Sound, [Next]_vars
    PROVE  Course \/ Outside
<1>1. CASE StackStep \/ Signal \/ Store \/ Program
  BY <1>1, StackCourse
<1>2. CASE Enter
  BY <1>2, EnterCourse
<1>3. CASE ScopeStep
  <2>1. out.st = "running"
    BY <1>3, StepRuns DEF Sound
  <2> QED BY <1>3, <2>1, ScopeProceeds DEF Course
<1>4. CASE Begin \/ End \/ Panic \/ Over \/ UNCHANGED vars
  BY <1>4, OutsideSteps
<1> QED BY <1>1, <1>2, <1>3, <1>4 DEF Next, Step

\* What is known before a step is known after it.
LEMMA NextSound ==
    ASSUME Sound, [Next]_vars
    PROVE  Sound' /\ prog' = prog
<1>1. Inv' /\ NodesOK' /\ prog' = prog /\ (prog \in Programs)' /\ CyclesOK'
  BY NextKeeps, NextNodes, NextCycles DEF Sound
<1>2. Memory'
  <2>1. CASE StackStep \/ Signal \/ Store \/ Program
    BY <2>1, StackCourse
  <2>2. CASE ScopeStep
    BY <2>2, ScopeProceeds DEF Proceeds
  <2>3. CASE Enter
    BY <2>3, EnterCourse
  <2>4. CASE Begin
    <3>1. PICK A : ZeroArg \in A /\ WellFormed(A, DOMAIN ValueAt)
      BY DEF Sound, Memory
    <3>2. PICK L : L = DOMAIN ValueAt
      OBVIOUS
    <3>3. InitRoot(Root) /\ UNCHANGED arrays /\ Root \in L
      BY <2>4, <3>2, PlacesAssumption DEF Begin
    <3>4. WellFormed(A, L)'
      BY <3>1, <3>2, <3>3, RootFits
    <3> QED BY <3>1, <3>2, <3>4 DEF Memory
  <2>5. CASE End \/ Panic \/ UNCHANGED vars
    BY <2>5, NothingTouched DEF Sound, End, Panic, vars, scopeVars
  <2> QED BY <2>1, <2>2, <2>3, <2>4, <2>5 DEF Next, Step, Over
<1>3. EnvsOK'
  <2>1. ASSUME out.st = "running", NEW f, Proceeds(f)
        PROVE  EnvsOK'
    <3>1. frames # <<>> /\ FramesOK
      BY <2>1 DEF Sound, Inv, OutOK
    <3>2. Replaced(frames, f, frames')
      BY <1>1, <2>1, <3>1, GotoFrames DEF Proceeds
    <3> QED BY <2>1, <3>1, <3>2, EnvsReplaced DEF Proceeds
  <2>2. ASSUME out.st = "running", NEW f, NEW k, Calling(f, k)
        PROVE  EnvsOK'
    <3>1. frames # <<>> /\ FramesOK /\ Top.env \in DOMAIN scopes
      BY <2>2, SoundRuns DEF Sound, Inv, OutOK
    <3>2. PICK g : g = NewFrame(k, f.env)
      OBVIOUS
    <3>3. IsFrame(g) /\ g.pc = "scope" /\ g.env = f.env
      BY <3>2 DEF IsFrame, NewFrame
    <3>4. Pushed(frames, f, g, frames')
      BY <1>1, <2>2, <3>1, <3>2, <3>3, SubFrames DEF Calling, Sub
    <3>5. scopes' = scopes /\ f.env = Top.env
      BY <2>2 DEF Calling, scopeVars
    <3> QED BY <3>1, <3>3, <3>4, <3>5, EnvsPushed DEF Grows
  <2>3. ASSUME out.st = "running", Leaving
        PROVE  EnvsOK'
    <3>1. frames # <<>> /\ FramesOK /\ scopes' = scopes
      BY <2>3 DEF Sound, Inv, OutOK, Leaving, scopeVars
    <3>2. /\ Len(frames') = Len(frames) - 1
          /\ \A d \in 1..(Len(frames) - 1) : frames'[d] = frames[d]
      BY <1>1, <2>3, <3>1, ReturnFrames DEF Leaving
    <3> QED BY <3>1, <3>2, EnvsPopped DEF Grows
  <2>4. CASE Len(frames') = 1 /\ frames'[1].env = 1
    BY <1>2, <2>4, MemoryNext DEF EnvsOK
  <2>5. CASE Len(frames') = 0
    BY <2>5 DEF EnvsOK
  <2>6. CASE frames' = frames /\ UNCHANGED scopeVars
    BY <2>6 DEF Sound, EnvsOK, scopeVars
  <2> QED BY NextCourse, <2>1, <2>2, <2>3, <2>4, <2>5, <2>6 DEF Course, Outside
<1> QED BY <1>1, <1>2, <1>3 DEF Sound

\* It is known at first.
LEMMA InitSound ==
    ASSUME Init
    PROVE  Sound
<1>1. Memory
  BY InitScopes DEF ScopesOK
<1>2. EnvsOK
  <2>1. Len(frames) = 0
    BY DEF Init
  <2> QED BY <2>1 DEF EnvsOK
<1> QED BY <1>1, <1>2, InitSignal DEF Sound, SignalInv

-----------------------------------------------------------------------------
(***************************************************************************)
(* Constants as arguments.                                                 *)
(***************************************************************************)

\* The nodes of the arguments of frame f, and the value of a constant.
ArgsOf(f) == prog.nodes[f.node].args
ConstAt(k) == prog.nodes[k].val

\* The arguments of frame f after the i-th are on top of the arguments of its scope.
ArgsOn(f, i) ==
    /\ Len(ArgsOf(f)) - i <= scopes[f.env].len
    /\ \A j \in (i + 1)..Len(ArgsOf(f)) :
          arrays[scopes[f.env].arr][scopes[f.env].len - (j - i - 1)] = ConstAt(ArgsOf(f)[j])

\* Frame f pushes constants.
Pushes(f) == f.pc = "args" /\ Literal(f)

\* Frame g evaluates the constant that f is to push next.
Serves(g, f) ==
    /\ f.i # 0 /\ g.node = ArgsOf(f)[f.i]
    /\ g.pc \in {"scope", "drop", "args", "body"}
    /\ g.pc = "args" => g.i = 0
    /\ ret = NoRet

\* If frame d, which is f, pushes constants, then it has pushed those after the i-th; it is
\* on top, with or without the value of the i-th, or below the frame that evaluates this one.
WaitsAt(d, f) ==
    Pushes(f) =>
        /\ f.i \in 0..Len(ArgsOf(f)) /\ ArgsOn(f, f.i)
        /\ d # Len(frames) => d + 1 = Len(frames) /\ Serves(Top, f)
        /\ d = Len(frames) /\ ret # NoRet /\ ret.err = NoErr =>
              f.i # 0 /\ ret.val = ConstAt(ArgsOf(f)[f.i])

ArgsWait == \A d \in 1..Len(frames) : WaitsAt(d, frames[d])

\* It begins the evaluation of its value when it has pushed all of them.
ArgsDone ==
    out.st = "running" /\ Top.pc = "body" /\ ret = NoRet /\ Top.i = 0 /\ Literal(Top) =>
        ArgsOn(Top, 0)

\* What they say depends on the program alone.
LEMMA ProgOnly ==
    ASSUME prog' = prog
    PROVE  /\ \A f : (Pushes(f)' <=> Pushes(f)) /\ (Literal(f)' <=> Literal(f)) /\ ArgsOf(f)' = ArgsOf(f)
           /\ \A k : ConstAt(k)' = ConstAt(k)
BY DEF Pushes, Literal, ArgsOf, ConstAt

\* What is pushed stays there as long as its scope and arrays do.
LEMMA StaysOn ==
    ASSUME prog' = prog, Intact, NEW f, f.env \in DOMAIN scopes, NEW i, ArgsOn(f, i)
    PROVE  ArgsOn(f, i)'
BY DEF ArgsOn, ArgsOf, ConstAt, Intact

\* The frames after a step, one by one.
LEMMA WaitFrames ==
    ASSUME \A d \in 1..Len(frames') : \A e : e = frames'[d] => WaitsAt(d, e)'
    PROVE  ArgsWait'
BY DEF ArgsWait, WaitsAt, Pushes, ArgsOf, ArgsOn, ConstAt, Serves, Literal

\* No frame below the top pushes constants.
NoneBelow == \A d \in 1..Len(frames) : d # Len(frames) => ~Pushes(frames[d])

\* The evaluation of a constant that is to be pushed.
LEMMA Served ==
    ASSUME Sound, ArgsWait, NEW d \in 1..Len(frames), d # Len(frames), Pushes(frames[d])
    PROVE  /\ d + 1 = Len(frames) /\ Serves(Top, frames[d])
           /\ frames[d].i \in 0..Len(ArgsOf(frames[d])) /\ ArgsOn(frames[d], frames[d].i)
           /\ Node.kind = "const" /\ Node.drop = 0 /\ Node.args = <<>>
<1>1. /\ d + 1 = Len(frames) /\ Serves(Top, frames[d])
      /\ frames[d].i \in 0..Len(ArgsOf(frames[d])) /\ ArgsOn(frames[d], frames[d].i)
  BY DEF ArgsWait, WaitsAt
<1>2. frames[d].node \in DOMAIN prog.nodes
  BY DEF Pushes, Sound, NodesOK
<1>3. ArgsOf(frames[d]) \in Seq(0..Len(prog.nodes))
  BY <1>2, NodesAssumption DEF ArgsOf, Sound
<1>4. frames[d].i \in DOMAIN ArgsOf(frames[d])
  BY <1>1, <1>3, LenProperties DEF Serves
<1>5. Top.node = ArgsOf(frames[d])[frames[d].i]
  BY <1>1 DEF Serves
<1> QED BY <1>1, <1>4, <1>5 DEF Pushes, Literal, ArgsOf, Node

\* The frame on top goes on: the one that evaluates a constant, or another one.
LEMMA ReplacedWaits ==
    ASSUME Sound, ArgsWait, frames # <<>>, prog' = prog, NEW f, Replaced(frames, f, frames'),
           \/ NoneBelow
           \/ /\ Intact /\ f.node = Top.node /\ ret' = NoRet
              /\ f.pc \in {"drop", "args", "body"} /\ (f.pc = "args" => f.i = 0),
           Pushes(f) => f.i \in 0..Len(ArgsOf(f)) /\ ArgsOn(f, f.i)' /\ ret' = NoRet
    PROVE  ArgsWait'
<1>1. PICK n \in Nat \ {0} : n = Len(frames) /\ Top = frames[n]
  BY SoundRuns
<1>2. Len(frames') = n /\ frames'[n] = f /\ Top' = f
  <2>1. PICK S : frames' \in Seq(S)
    BY DEF Replaced
  <2>2. Len(frames') = n /\ frames'[n] = f
    BY <1>1 DEF Replaced
  <2>3. frames' # <<>>
    BY <1>1, <2>1, <2>2
  <2> QED BY <2>1, <2>2, <2>3, PopTop DEF Top
<1>3. ASSUME NEW d \in 1..n, NEW e, e = frames'[d], Pushes(e)
      PROVE  /\ e.i \in 0..Len(ArgsOf(e)) /\ ArgsOn(e, e.i)'
             /\ d # n => d + 1 = n /\ Serves(f, e)'
             /\ d = n => ret' = NoRet
  <2>1. CASE d = n
    BY <1>2, <1>3, <2>1
  <2>2. CASE d # n
    <3>1. d \in 1..(n - 1) /\ d \in 1..Len(frames)
      BY <1>1, <2>2
    <3>2. e = frames[d]
      BY <1>1, <1>3, <3>1 DEF Replaced
    <3>3. ~NoneBelow
      BY <1>1, <1>3, <2>2, <3>1, <3>2 DEF NoneBelow
    <3>4. d + 1 = n /\ Serves(Top, e) /\ e.i \in 0..Len(ArgsOf(e)) /\ ArgsOn(e, e.i)
      BY <1>1, <1>3, <2>2, <3>1, <3>2, Served
    <3>5. e.env \in DOMAIN scopes
      BY <3>1, <3>2 DEF Sound, EnvsOK
    <3>6. ArgsOn(e, e.i)'
      BY <3>3, <3>4, <3>5, StaysOn
    <3>7. Serves(f, e)'
      BY <3>3, <3>4, ProgOnly DEF Serves
    <3> QED BY <2>2, <3>4, <3>6, <3>7
  <2> QED BY <2>1, <2>2
<1>4. ASSUME NEW d \in 1..Len(frames'), NEW e, e = frames'[d]
      PROVE  WaitsAt(d, e)'
  <2>1. d \in 1..n /\ (Pushes(e)' <=> Pushes(e)) /\ ArgsOf(e)' = ArgsOf(e)
    BY <1>2, ProgOnly
  <2> QED BY <1>2, <1>3, <1>4, <2>1 DEF WaitsAt
<1> QED BY <1>4, WaitFrames

\* It waits for another one: for the evaluation of a constant, or any.
LEMMA PushedWaits ==
    ASSUME Sound, ArgsWait, frames # <<>>, prog' = prog, NEW f, NEW g, Pushed(frames, f, g, frames'),
           NoneBelow, Intact, ret' = NoRet, g.pc = "scope",
           Pushes(f) => f = Top /\ f.i # 0 /\ g.node = ArgsOf(f)[f.i]
    PROVE  ArgsWait'
<1>1. PICK n \in Nat \ {0} : n = Len(frames) /\ Top = frames[n] /\ Top.env \in DOMAIN scopes
  BY SoundRuns
<1>2. Len(frames') = n + 1 /\ frames'[n] = f /\ frames'[n + 1] = g /\ Top' = g
  <2>1. PICK S : frames' \in Seq(S)
    BY DEF Pushed
  <2>2. Len(frames') = n + 1 /\ frames'[n] = f /\ frames'[n + 1] = g
    BY <1>1 DEF Pushed
  <2>3. frames' # <<>>
    BY <1>1, <2>1, <2>2
  <2> QED BY <2>1, <2>2, <2>3, PopTop DEF Top
<1>3. ASSUME NEW d \in 1..(n + 1), NEW e, e = frames'[d], Pushes(e)
      PROVE  d = n /\ e.i \in 0..Len(ArgsOf(e)) /\ ArgsOn(e, e.i)' /\ Serves(g, e)'
  <2>1. d # n + 1
    BY <1>2, <1>3 DEF Pushes
  <2>2. d = n
    <3>1. CASE d \in 1..(n - 1)
      <4>1. d \in 1..n /\ d # n /\ frames[d] = e
        BY <1>1, <1>3, <3>1 DEF Pushed
      <4> QED BY <1>1, <1>3, <4>1 DEF NoneBelow
    <3> QED BY <2>1, <3>1
  <2>3. e = f /\ e = frames[n] /\ n \in 1..Len(frames)
    BY <1>1, <1>2, <1>3, <2>2
  <2>4. e.i \in 0..Len(ArgsOf(e)) /\ ArgsOn(e, e.i) /\ e.env \in DOMAIN scopes
    BY <1>1, <1>3, <2>3 DEF ArgsWait, WaitsAt
  <2>5. ArgsOn(e, e.i)'
    BY <2>4, StaysOn
  <2>6. Serves(g, e)'
    BY <1>3, <2>3, ProgOnly DEF Serves
  <2> QED BY <2>2, <2>4, <2>5, <2>6
<1>4. ASSUME NEW d \in 1..Len(frames'), NEW e, e = frames'[d]
      PROVE  WaitsAt(d, e)'
  <2>1. d \in 1..(n + 1) /\ (Pushes(e)' <=> Pushes(e)) /\ ArgsOf(e)' = ArgsOf(e)
    BY <1>2, ProgOnly
  <2> QED BY <1>2, <1>3, <1>4, <2>1 DEF WaitsAt
<1> QED BY <1>4, WaitFrames

\* It ends: with the constant, an error, or where nobody pushes constants.
LEMMA PoppedWaits ==
    ASSUME Sound, ArgsWait, frames # <<>>, prog' = prog, frames' # <<>>, Stack',
           Len(frames') = Len(frames) - 1,
           \A d \in 1..(Len(frames) - 1) : frames'[d] = frames[d],
           Intact, NoneBelow \/ ret'.err # NoErr \/ ret'.val = ConstAt(Top.node)
    PROVE  ArgsWait'
<1>1. PICK n \in Nat \ {0} : n = Len(frames) /\ Top = frames[n]
  BY SoundRuns
<1>2. ASSUME NEW d \in 1..(n - 1), NEW e, e = frames'[d], Pushes(e)
      PROVE  /\ d = n - 1 /\ e.i \in 0..Len(ArgsOf(e)) /\ ArgsOn(e, e.i)'
             /\ ret'.err = NoErr => e.i # 0 /\ ret'.val = ConstAt(ArgsOf(e)[e.i])
  <2>1. e = frames[d] /\ d \in 1..Len(frames) /\ d # Len(frames)
    BY <1>1, <1>2
  <2>2. d + 1 = n /\ Serves(Top, e) /\ e.i \in 0..Len(ArgsOf(e)) /\ ArgsOn(e, e.i)
    BY <1>1, <1>2, <2>1, Served
  <2>3. e.env \in DOMAIN scopes
    BY <2>1 DEF Sound, EnvsOK
  <2>4. ArgsOn(e, e.i)' /\ ~NoneBelow
    BY <1>2, <2>1, <2>2, <2>3, StaysOn DEF NoneBelow
  <2> QED BY <2>2, <2>4 DEF Serves
<1>3. ASSUME NEW d \in 1..Len(frames'), NEW e, e = frames'[d]
      PROVE  WaitsAt(d, e)'
  <2>1. /\ d \in 1..(n - 1) /\ (Pushes(e)' <=> Pushes(e)) /\ ArgsOf(e)' = ArgsOf(e)
        /\ ConstAt(ArgsOf(e)[e.i])' = ConstAt(ArgsOf(e)[e.i])
    BY <1>1, ProgOnly
  <2>2. Pushes(e) => d = Len(frames')
    BY <1>1, <1>2, <1>3, <2>1
  <2> QED BY <1>1, <1>2, <1>3, <2>1, <2>2, ProgOnly DEF WaitsAt
<1> QED BY <1>3, WaitFrames

\* The steps of the evaluation on top.
EvalStep == StackStep \/ Signal \/ Store \/ Program \/ ScopeStep \/ Enter

\* Entering, dropping and pushing arguments, and constants, have steps of their own.
LEMMA ArgPoints ==
    ASSUME Inv, EvalStep
    PROVE  /\ out.st = "running"
           /\ Top.pc = "scope" => Enter \/ (Refuse /\ UNCHANGED scopeVars)
           /\ Top.pc = "drop" => Drop \/ (DropFails /\ UNCHANGED scopeVars)
           /\ Top.pc = "args" => ArgPush \/ ((ArgCall \/ ArgFails) /\ UNCHANGED scopeVars)
           /\ Top.pc = "body" /\ Node.kind = "const" => Const /\ UNCHANGED scopeVars
<1> USE DEF At, Body
<1>1. CASE ScopeStep
  BY <1>1 DEF ScopeStep, InitPush, Drop, ArgPush, Parent, RangeNext, RangeSecond, RangeDrop
<1>2. CASE Enter
  BY <1>2 DEF Enter
<1>3. CASE Signal \/ Store \/ Program
  BY <1>3 DEF Signal, Store, Program
<1>4. ASSUME StackStep PROVE UNCHANGED scopeVars
  BY <1>4 DEF StackStep
<1>5. CASE StackStep /\ (InitCall \/ Refuse \/ DropFails \/ ArgCall \/ ArgFails \/ RangeEach \/ RangeDropFails)
  BY <1>4, <1>5 DEF InitCall, Refuse, DropFails, ArgCall, ArgFails, RangeEach, RangeDropFails
<1>6. CASE StackStep /\ (ScopeValue \/ ArgValue \/ Default \/ Const \/ AtRoot \/ ParentValue)
  BY <1>4, <1>6 DEF ScopeValue, ArgValue, Default, Const, AtRoot, ParentValue
<1>7. CASE StackStep /\ (PassError \/ PassErrorValue \/ NotBool)
  BY <1>7 DEF PassError, PassErrorValue, NotBool, InCondition
<1>8. CASE StackStep /\ (ListValue \/ MapValue \/ Message \/ Not \/ Connective \/ Sequence)
  BY <1>8 DEF ListValue, MapValue, Message, Not, Connective, Sequence
<1>9. CASE StackStep /\ (Switch \/ WhileCondition \/ WhileBody)
  BY <1>9 DEF Switch, WhileCondition, WhileBody
<1>10. CASE StackStep /\ (KeyNext \/ BadKey \/ Load \/ Range_ \/ RangeEnd \/ RangeResult)
  BY <1>10 DEF KeyNext, BadKey, Load, Range_, RangeEnd, RangeResult
<1> QED BY <1>1, <1>2, <1>3, <1>5, <1>6, <1>7, <1>8, <1>9, <1>10 DEF EvalStep, StackStep

\* The frame on top after a step.
LEMMA TopNext ==
    ASSUME Sound, frames # <<>>, NEW f, NEW g
    PROVE  /\ Replaced(frames, f, frames') => frames' # <<>> /\ Top' = f
           /\ Pushed(frames, f, g, frames') => frames' # <<>> /\ Top' = g
<1>1. PICK n \in Nat \ {0} : n = Len(frames)
  BY SoundRuns
<1>2. ASSUME Replaced(frames, f, frames') PROVE frames' # <<>> /\ Top' = f
  <2>1. PICK S : frames' \in Seq(S)
    BY <1>2 DEF Replaced
  <2>2. Len(frames') = n /\ frames'[n] = f
    BY <1>1, <1>2 DEF Replaced
  <2>3. frames' # <<>>
    BY <1>1, <2>1, <2>2
  <2> QED BY <1>1, <2>1, <2>2, <2>3, PopTop DEF Top
<1>3. ASSUME Pushed(frames, f, g, frames') PROVE frames' # <<>> /\ Top' = g
  <2>1. PICK S : frames' \in Seq(S)
    BY <1>3 DEF Pushed
  <2>2. Len(frames') = n + 1 /\ frames'[n + 1] = g
    BY <1>1, <1>3 DEF Pushed
  <2>3. frames' # <<>>
    BY <1>1, <2>1, <2>2
  <2> QED BY <1>1, <2>1, <2>2, <2>3, PopTop DEF Top
<1> QED BY <1>2, <1>3

\* No value begins, where a frame goes on or has a result; one may begin where f goes on.
LEMMA DoneLater ==
    ASSUME Sound, frames # <<>>, prog' = prog
    PROVE  /\ ret' # NoRet => ArgsDone'
           /\ \A f, g : Pushed(frames, f, g, frames') /\ g.pc # "body" => ArgsDone'
           /\ \A f : /\ Replaced(frames, f, frames')
                     /\ f.pc = "body" /\ Literal(f) /\ ret' = NoRet => ArgsOn(f, 0)'
                     => ArgsDone'
<1>1. ret' # NoRet => ArgsDone'
  BY DEF ArgsDone
<1>2. ASSUME NEW f, NEW g, Pushed(frames, f, g, frames'), g.pc # "body" PROVE ArgsDone'
  BY <1>2, TopNext DEF ArgsDone
<1>3. ASSUME NEW f, Replaced(frames, f, frames'),
             f.pc = "body" /\ Literal(f) /\ ret' = NoRet => ArgsOn(f, 0)'
      PROVE  ArgsDone'
  <2>1. Top' = f
    BY <1>3, TopNext
  <2> QED BY <1>3, <2>1 DEF ArgsDone, Literal, ArgsOn, ArgsOf, ConstAt
<1> QED BY <1>1, <1>2, <1>3

\* The evaluation on top goes on: one that evaluates a constant, or any, while no other one
\* pushes constants.
LEMMA ProceedsArgs ==
    ASSUME Sound, ArgsWait, out.st = "running", prog' = prog, NEW f, Proceeds(f),
           \/ NoneBelow
           \/ /\ Intact /\ ret' = NoRet
              /\ f.pc \in {"drop", "args", "body"} /\ (f.pc = "args" => f.i = 0),
           Pushes(f) => f.i \in 0..Len(ArgsOf(f)) /\ ArgsOn(f, f.i)' /\ ret' = NoRet,
           f.pc = "body" /\ Literal(f) /\ ret' = NoRet => ArgsOn(f, 0)'
    PROVE  ArgsWait' /\ ArgsDone'
<1>1. frames # <<>> /\ FramesOK
  BY DEF Sound, Inv, OutOK
<1>2. Replaced(frames, f, frames') /\ f.node = Top.node
  BY <1>1, GotoFrames DEF Proceeds, Like
<1>3. ArgsWait'
  BY <1>1, <1>2, ReplacedWaits
<1>4. ArgsDone'
  BY <1>1, <1>2, DoneLater
<1> QED BY <1>3, <1>4

\* It ends, with the constant or an error if a frame waits for a constant.
LEMMA LeavingArgs ==
    ASSUME Sound, ArgsWait, out.st = "running", prog' = prog, Leaving,
           NoneBelow \/ ret'.err # NoErr \/ ret'.val = ConstAt(Top.node)
    PROVE  ArgsWait' /\ ArgsDone'
<1>1. frames # <<>> /\ FramesOK
  BY DEF Sound, Inv, OutOK
<1>2. /\ frames' # <<>> /\ Len(frames') = Len(frames) - 1
      /\ \A d \in 1..(Len(frames) - 1) : frames'[d] = frames[d]
      /\ Stack' /\ Intact
  BY <1>1, ReturnFrames DEF Leaving, FramesOK, Intact, scopeVars
<1>3. ArgsWait'
  BY <1>1, <1>2, PoppedWaits
<1> QED BY <1>1, <1>3, DoneLater DEF Leaving

\* It ends with an error.
LEMMA FailsArgs ==
    ASSUME Sound, ArgsWait, out.st = "running", prog' = prog, Top.pc # "init",
           UNCHANGED scopeVars, NEW v, NEW e, e # NoErr, Return(v, e)
    PROVE  ArgsWait' /\ ArgsDone'
<1>1. ret'.err # NoErr /\ ret' # NoRet
  <2>1. ret'.err = e /\ NoRet.err = NoErr
    BY DEF Return, NoRet
  <2> QED BY <2>1
<1>2. Leaving
  BY <1>1 DEF Leaving, Return
<1> QED BY <1>1, <1>2, LeavingArgs

\* Entering.
LEMMA EnterArgs ==
    ASSUME Sound, ArgsWait, out.st = "running", prog' = prog, Top.pc = "scope",
           Enter \/ (Refuse /\ UNCHANGED scopeVars)
    PROVE  ArgsWait' /\ ArgsDone'
<1>1. CASE Enter
  <2>1. Intact
    BY <1>1, EnterCourse
  <2>2. ASSUME NEW f, Proceeds(f), f.pc = "drop", ret' = NoRet
        PROVE  ArgsWait' /\ ArgsDone'
    BY <2>1, <2>2, ProceedsArgs DEF Pushes
  <2> QED BY <1>1, <2>2, EnterCourse, LeavingArgs
<1>2. CASE Refuse /\ UNCHANGED scopeVars
  <2>1. TooLong # NoErr
    BY DEF TooLong, NoErr
  <2> QED BY <1>2, <2>1, FailsArgs DEF Refuse
<1> QED BY <1>1, <1>2

\* Who pushes constants begins with none of them.
LEMMA NoneOn ==
    ASSUME Sound', prog' = prog, NEW f, f.env \in DOMAIN scopes', NEW i, i = Len(ArgsOf(f)),
           ArgsOf(f) \in Seq(0..Len(prog.nodes))
    PROVE  i \in Nat /\ i \in 0..Len(ArgsOf(f)) /\ ArgsOn(f, i)'
<1>1. i \in Nat
  BY LenProperties
<1>2. scopes'[f.env].len \in Nat
  BY MemoryNext DEF Sound, Numbered
<1>3. ArgsOf(f)' = ArgsOf(f)
  BY ProgOnly
<1>4. Len(ArgsOf(f)) - i <= scopes'[f.env].len
  BY <1>1, <1>2
<1>5. \A j \in (i + 1)..Len(ArgsOf(f)) : FALSE
  BY <1>1
<1>6. i \in 0..Len(ArgsOf(f))
  BY <1>1
<1> QED BY <1>1, <1>3, <1>4, <1>5, <1>6 DEF ArgsOn

\* The arguments of the value on top.
LEMMA TopArgs ==
    ASSUME Sound, out.st = "running", Top.pc \notin {"init", "scope"}
    PROVE  /\ Top.node \in DOMAIN prog.nodes /\ ArgsOf(Top) = Node.args
           /\ Node.args \in Seq(0..Len(prog.nodes)) /\ Len(Node.args) \in Nat
           /\ Node.drop \in Nat /\ Top.env \in DOMAIN scopes /\ IsFrame(Top) /\ frames # <<>>
<1>1. frames # <<>>
  BY DEF Sound, Inv, OutOK
<1>2. Top.node \in DOMAIN prog.nodes /\ Top.env \in DOMAIN scopes /\ IsFrame(Top)
  BY <1>1, SoundRuns
<1>3. Node.args \in Seq(0..Len(prog.nodes)) /\ Node.drop \in Nat
  BY <1>2, NodesAssumption, UintAssumption DEF Sound, Node
<1>4. Len(Node.args) \in Nat
  BY <1>3, LenProperties
<1> QED BY <1>1, <1>2, <1>3, <1>4 DEF ArgsOf, Node

\* Dropping arguments: a constant that is pushed drops none.
LEMMA DropsArgs ==
    ASSUME Sound, Sound', ArgsWait, out.st = "running", prog' = prog, Top.pc = "drop",
           Drop \/ (DropFails /\ UNCHANGED scopeVars)
    PROVE  ArgsWait' /\ ArgsDone'
<1>1. CASE DropFails /\ UNCHANGED scopeVars
  <2>1. Fail # NoErr
    BY DEF Fail, NoErr
  <2> QED BY <1>1, <2>1, FailsArgs DEF DropFails
<1>2. CASE Drop
  <2>1. PICK x : x = Len(Node.args)
    OBVIOUS
  <2>2. PICK f : f = [Top EXCEPT !.pc = "args", !.i = x]
    OBVIOUS
  <2>3. Moved(f, Top, "args") /\ f.i = x
    <3>1. IsFrame(Top)
      BY TopArgs
    <3>2. PICK g : g = [Top EXCEPT !.pc = "args"]
      OBVIOUS
    <3>3. IsFrame(g) /\ g.pc = "args" /\ g.node = Top.node /\ g.env = Top.env
      BY <3>1, <3>2 DEF IsFrame
    <3>4. f = [g EXCEPT !.i = x]
      BY <2>2, <3>2
    <3> QED BY <3>3, <3>4 DEF IsFrame, Moved
  <2>4. frames' = Append(Front(frames), f) /\ ret' = NoRet
    BY <1>2, <2>1, <2>2 DEF Drop, Goto
  <2>5. Memory' /\ DOMAIN scopes' = DOMAIN scopes
    BY <1>2, TopArgs, ArgsKeepMemory DEF Drop, Sound
  <2>6. Proceeds(f)
    BY <2>3, <2>4, <2>5, TopArgs DEF Proceeds, Like, Moved, Grows
  <2>7. ArgsOf(f) = Node.args /\ f.env \in DOMAIN scopes'
    BY <2>3, <2>5, TopArgs DEF Moved, ArgsOf, Node
  <2>8. f.i \in 0..Len(ArgsOf(f)) /\ ArgsOn(f, f.i)'
    BY <2>1, <2>3, <2>7, TopArgs, NoneOn
  <2>9. NoneBelow \/ (Intact /\ f.i = 0)
    <3>1. SUFFICES ASSUME NEW d \in 1..Len(frames), d # Len(frames), Pushes(frames[d])
                   PROVE  Intact /\ f.i = 0
      BY DEF NoneBelow
    <3>2. Node.drop = 0 /\ Node.args = <<>>
      BY <3>1, Served
    <3>3. f.i = 0
      BY <2>1, <2>3, <3>2
    <3>4. PICK y \in DOMAIN scopes : y = Top.env
      BY TopArgs
    <3>5. Memory /\ scopes[y].len \in Nat
      BY MemoryFacts DEF Sound, Numbered
    <3>6. DropArgs(y, 0) /\ 0 \in Nat /\ 0 <= scopes[y].len
      BY <1>2, <3>2, <3>4, <3>5 DEF Drop
    <3>7. Touched(y) /\ arrays' = arrays /\ scopes'[y] = scopes[y]
      BY <3>5, <3>6, DropTouches
    <3> QED BY <3>3, <3>4, <3>7 DEF Intact, Touched
  <2>10. f.pc = "args"
    BY <2>3 DEF Moved
  <2> QED BY <2>4, <2>6, <2>8, <2>9, <2>10, ProceedsArgs
<1> QED BY <1>1, <1>2

\* Evaluating an argument, or the value when all of them are pushed.
LEMMA CallsArgs ==
    ASSUME Sound, ArgsWait, out.st = "running", prog' = prog, Top.pc = "args",
           ArgCall, UNCHANGED scopeVars
    PROVE  ArgsWait' /\ ArgsDone'
<1>1. /\ frames # <<>> /\ FramesOK /\ IsFrame(Top) /\ Top.env \in DOMAIN scopes
      /\ ArgsOf(Top) = Node.args
  BY TopArgs DEF Sound, Inv
<1>2. PICK n \in Nat \ {0} : n = Len(frames) /\ Top = frames[n]
  BY <1>1, SoundRuns
<1>3. Intact /\ Memory' /\ Grows /\ scopes' = scopes
  BY NothingTouched DEF Sound, Intact, Grows, scopeVars
<1>4. n \in 1..Len(frames)
  BY <1>2
<1>5. Pushes(Top) => Top.i \in 0..Len(ArgsOf(Top)) /\ ArgsOn(Top, Top.i)
  BY <1>2, <1>4 DEF ArgsWait, WaitsAt
<1>6. ret' = NoRet
  BY DEF ArgCall, Sub, Goto
<1>7. ASSUME ~NoneBelow PROVE Top.i = 0
  <2>1. PICK d \in 1..Len(frames) : d # Len(frames) /\ Pushes(frames[d])
    BY <1>7 DEF NoneBelow
  <2> QED BY <2>1, Served DEF Serves
<1>8. CASE Top.i > 0
  <2>1. PICK k : k = Node.args[Top.i]
    OBVIOUS
  <2>2. PICK g : g = NewFrame(k, Top.env)
    OBVIOUS
  <2>3. IsFrame(g) /\ g.pc = "scope" /\ g.node = k
    BY <2>2 DEF IsFrame, NewFrame
  <2>4. frames' = Front(frames) \o <<Top, g>>
    BY <1>8, <2>1, <2>2 DEF ArgCall, Sub
  <2>5. Like(Top) /\ Waits(Top)
    BY <1>1 DEF Like, Waits
  <2>6. Pushed(frames, Top, g, frames')
    BY <1>1, <2>3, <2>4, <2>5, SubFrames
  <2>7. NoneBelow /\ Top.i # 0
    BY <1>7, <1>8
  <2>8. ArgsWait'
    BY <1>1, <1>3, <1>6, <2>1, <2>3, <2>6, <2>7, PushedWaits
  <2>9. ArgsDone'
    BY <1>1, <2>3, <2>6, DoneLater
  <2> QED BY <2>8, <2>9
<1>9. CASE ~(Top.i > 0)
  <2>1. PICK f : f = [Top EXCEPT !.pc = "body"]
    OBVIOUS
  <2>2. Moved(f, Top, "body")
    BY <1>1, <2>1, MovedOK
  <2>3. frames' = Append(Front(frames), f)
    BY <1>9, <2>1 DEF ArgCall, Goto
  <2>4. Proceeds(f)
    BY <1>1, <1>3, <2>2, <2>3 DEF Proceeds, Like, Moved
  <2>5. ~Pushes(f)
    BY <2>2 DEF Moved, Pushes
  <2>6. Literal(f) => ArgsOn(f, 0)'
    <3>1. SUFFICES ASSUME Literal(f) PROVE ArgsOn(f, 0)'
      OBVIOUS
    <3>2. Pushes(Top)
      BY <2>2, <3>1 DEF Moved, Pushes, Literal
    <3>3. Top.i = 0
      BY <1>1, <1>5, <1>9, <3>2, TopArgs
    <3>4. ArgsOn(f, 0)
      BY <1>5, <2>2, <3>2, <3>3 DEF ArgsOn, ArgsOf, Moved
    <3>5. f.env \in DOMAIN scopes
      BY <1>1, <2>2 DEF Moved
    <3> QED BY <1>3, <3>4, <3>5, StaysOn
  <2>7. f.pc = "body"
    BY <2>2 DEF Moved
  <2> QED BY <1>3, <1>6, <2>4, <2>5, <2>6, <2>7, ProceedsArgs
<1> QED BY <1>8, <1>9

\* Pushing an argument.
LEMMA PushesArgs ==
    ASSUME Sound, ArgsWait, out.st = "running", prog' = prog, Top.pc = "args", ArgPush
    PROVE  ArgsWait' /\ ArgsDone'
<1>1. /\ frames # <<>> /\ IsFrame(Top) /\ ArgsOf(Top) = Node.args
      /\ ArgsOf(Top) \in Seq(0..Len(prog.nodes))
  BY TopArgs
<1>2. PICK n \in Nat \ {0} : n = Len(frames) /\ Top = frames[n]
  BY <1>1, SoundRuns
<1>3. PICK y \in DOMAIN scopes : y = Top.env
  BY TopArgs
<1>4. NoneBelow
  BY Served DEF NoneBelow, Serves, ArgPush, GotOk
<1>5. ret # NoRet /\ ret.err = NoErr /\ n \in 1..Len(frames)
  BY <1>2 DEF ArgPush, GotOk
<1>6. PICK x : x = Top.i - 1
  OBVIOUS
<1>7. PICK f : f = [Top EXCEPT !.i = x]
  OBVIOUS
<1>8. Moved(f, Top, "args") /\ f.i = x
  <2>1. PICK g : g = Top
    OBVIOUS
  <2>2. IsFrame(g) /\ f = [g EXCEPT !.i = x] /\ g.pc = "args"
    BY <1>1, <1>7, <2>1
  <2>3. Moved(f, g, "args") /\ f.i = x
    BY <2>2 DEF IsFrame, Moved
  <2> QED BY <2>1, <2>3
<1>9. frames' = Append(Front(frames), f) /\ ret' = NoRet
  BY <1>6, <1>7 DEF ArgPush, Goto
<1>10. /\ Memory' /\ Touched(y) /\ scopes'[y].len = scopes[y].len + 1
       /\ arrays'[scopes'[y].arr][scopes[y].len + 1] = ret.val
  BY <1>3, PushTouches DEF ArgPush, Sound
<1>11. Proceeds(f)
  BY <1>1, <1>3, <1>8, <1>9, <1>10 DEF Proceeds, Like, Moved, Touched, Grows
<1>12. ASSUME Pushes(f) PROVE f.i \in 0..Len(ArgsOf(f)) /\ ArgsOn(f, f.i)'
  <2>1. Pushes(Top) /\ ArgsOf(f) = ArgsOf(Top) /\ f.env = y
    BY <1>3, <1>8, <1>12 DEF Moved, Pushes, Literal, ArgsOf
  <2>2. PICK m \in Nat : m = Len(ArgsOf(Top))
    BY <1>1, LenProperties
  <2>3. PICK i \in 0..m : i = Top.i
    BY <1>2, <1>5, <2>1, <2>2 DEF ArgsWait, WaitsAt
  <2>4. i # 0 /\ ret.val = ConstAt(ArgsOf(Top)[i]) /\ ArgsOn(Top, i)
    BY <1>2, <1>5, <2>1, <2>3 DEF ArgsWait, WaitsAt
  <2>5. PICK l \in Nat : l = scopes[y].len
    BY MemoryFacts DEF Sound, Numbered
  <2>6. f.i = i - 1 /\ i - 1 \in 0..m
    BY <1>6, <1>8, <2>3, <2>4
  <2>7. m - i <= l
    BY <1>3, <2>2, <2>4, <2>5 DEF ArgsOn
  <2>8. PICK l1 \in Nat : l1 = l + 1 /\ scopes'[y].len = l1
    BY <1>10, <2>5
  <2>9. ASSUME NEW j \in i..m
        PROVE  arrays'[scopes'[y].arr][l1 - (j - i)] = ConstAt(ArgsOf(Top)[j])
    <3>1. CASE j = i
      <4>1. l1 - (j - i) = l + 1
        BY <2>3, <2>8, <3>1
      <4> QED BY <1>10, <2>4, <2>5, <3>1, <4>1
    <3>2. CASE j # i
      <4>1. j \in (i + 1)..m
        BY <2>2, <2>3, <3>2
      <4>2. PICK c : c = l1 - (j - i)
        OBVIOUS
      <4>3. c = l - (j - i - 1) /\ c \in 1..l /\ c <= l1
        <5>1. PICK q \in Nat : q = j - i
          BY <2>2, <2>3, <4>1
        <5>2. q # 0 /\ q <= m - i
          BY <2>2, <2>3, <4>1, <5>1
        <5>3. q <= l
          BY <2>2, <2>3, <2>5, <2>7, <5>2
        <5> QED BY <2>5, <2>8, <4>2, <5>1, <5>2, <5>3
      <4>4. arrays[scopes[y].arr][c] = ConstAt(ArgsOf(Top)[j])
        BY <1>3, <2>2, <2>4, <2>5, <4>1, <4>3 DEF ArgsOn
      <4>5. arrays'[scopes'[y].arr][c] = arrays[scopes[y].arr][c]
        BY <1>10, <2>5, <2>8, <4>3 DEF Touched
      <4> QED BY <4>2, <4>4, <4>5
    <3> QED BY <3>1, <3>2
  <2>10. m - (i - 1) <= l1
    BY <2>2, <2>3, <2>7, <2>8
  <2>11. \A j \in (i - 1 + 1)..m : /\ j \in i..m
                                   /\ l1 - (j - (i - 1) - 1) = l1 - (j - i)
    BY <2>2, <2>3, <2>8
  <2>12. ArgsOf(f)' = ArgsOf(Top) /\ \A k : ConstAt(k)' = ConstAt(k)
    BY <2>1, ProgOnly
  <2>13. \A j \in (i - 1 + 1)..m :
            arrays'[scopes'[y].arr][l1 - (j - (i - 1) - 1)] = ConstAt(ArgsOf(Top)[j])
    BY <2>9, <2>11
  <2>14. ArgsOn(f, i - 1)'
    BY <2>1, <2>2, <2>8, <2>10, <2>12, <2>13 DEF ArgsOn
  <2> QED BY <2>1, <2>2, <2>6, <2>14
<1>13. f.pc = "args"
  BY <1>8 DEF Moved
<1> QED BY <1>4, <1>9, <1>11, <1>12, <1>13, ProceedsArgs

\* Any other point of an evaluation: there, only a constant is pushed.
LEMMA OtherArgs ==
    ASSUME Sound, ArgsWait, out.st = "running", prog' = prog, EvalStep,
           Top.pc \notin {"scope", "drop", "args"}
    PROVE  ArgsWait' /\ ArgsDone'
<1>1. frames # <<>> /\ FramesOK /\ IsFrame(Top)
  BY TopOK DEF Sound, Inv, OutOK
<1>2. CASE ~NoneBelow
  <2>1. PICK d \in 1..Len(frames) : d # Len(frames) /\ Pushes(frames[d])
    BY <1>2 DEF NoneBelow
  <2>2. Top.pc = "body" /\ Node.kind = "const"
    BY <2>1, Served DEF Serves
  <2>3. Const /\ UNCHANGED scopeVars
    BY <2>2, ArgPoints DEF Sound
  <2>4. CASE Node.val = Nil
    <3>1. Fail # NoErr
      BY DEF Fail, NoErr
    <3>2. Return(Node.val, Fail)
      BY <2>3, <2>4 DEF Const
    <3> QED BY <2>2, <2>3, <3>1, <3>2, FailsArgs
  <2>5. CASE Node.val # Nil
    <3>1. Return(Node.val, NoErr)
      BY <2>3, <2>5 DEF Const
    <3>2. ret'.val = ConstAt(Top.node) /\ ret'.st = "ret" /\ NoRet.st = "none"
      BY <3>1 DEF Return, ConstAt, Node, NoRet
    <3>3. Leaving
      BY <2>2, <2>3, <3>1, <3>2 DEF Leaving, Return
    <3> QED BY <3>2, <3>3, LeavingArgs
  <2> QED BY <2>4, <2>5
<1>3. CASE NoneBelow
  <2>1. Course
    <3>1. CASE Enter
      BY <3>1 DEF Enter, At
    <3> QED BY <3>1, ScopeProceeds, StackCourse DEF EvalStep, Course
  <2>2. ~Drop /\ ~ArgPush /\ ~ArgCall
    BY DEF Drop, ArgPush, ArgCall, At
  <2>3. ASSUME NEW f, Proceeds(f), f.pc \notin {"body", "args"}
        PROVE  ArgsWait' /\ ArgsDone'
    BY <1>3, <2>3, ProceedsArgs DEF Pushes
  <2>4. ASSUME NEW f, NEW k, Calling(f, k), f.pc # "args"
        PROVE  ArgsWait' /\ ArgsDone'
    <3>1. PICK g : g = NewFrame(k, f.env)
      OBVIOUS
    <3>2. IsFrame(g) /\ g.pc = "scope"
      BY <3>1 DEF IsFrame, NewFrame
    <3>3. Pushed(frames, f, g, frames')
      BY <1>1, <2>4, <3>1, <3>2, SubFrames DEF Calling, Sub
    <3>4. Intact /\ ret' = NoRet
      BY <2>4 DEF Calling, Intact, scopeVars, Sub
    <3>5. ~Pushes(f)
      BY <2>4 DEF Pushes
    <3>6. ArgsWait'
      BY <1>1, <1>3, <3>2, <3>3, <3>4, <3>5, PushedWaits
    <3>7. ArgsDone'
      BY <1>1, <3>2, <3>3, DoneLater
    <3> QED BY <3>6, <3>7
  <2>5. Leaving => ArgsWait' /\ ArgsDone'
    BY <1>3, LeavingArgs
  <2> QED BY <2>1, <2>2, <2>3, <2>4, <2>5 DEF Course
<1> QED BY <1>2, <1>3

\* Eval begins or ends, or nothing happens.
LEMMA OutsideArgs ==
    ASSUME Sound, Sound', ArgsWait, ArgsDone, prog' = prog, Outside
    PROVE  ArgsWait' /\ ArgsDone'
<1>1. FramesOK' /\ OutOK'
  BY DEF Sound, Inv
<1>2. PICK S : frames' \in Seq(S)
  BY <1>1 DEF FramesOK, Stack
<1>3. CASE Len(frames') = 1 /\ frames'[1].pc = "init"
  <2>1. Top' = frames'[1]
    <3>1. PICK s : s = frames'
      OBVIOUS
    <3>2. s \in Seq(S) /\ Len(s) = 1
      BY <1>2, <1>3, <3>1
    <3>3. s # <<>>
      <4>1. s = <<>> => Len(s) = 0
        BY EmptySeq
      <4> QED BY <3>2, <4>1
    <3>4. Last(s) = s[1]
      BY <3>2, <3>3, PopTop
    <3> QED BY <3>1, <3>4 DEF Top
  <2>2. ArgsDone'
    BY <1>3, <2>1 DEF ArgsDone
  <2>3. ASSUME NEW d \in 1..Len(frames'), NEW e, e = frames'[d]
        PROVE  WaitsAt(d, e)'
    <3>1. e.pc = "init"
      BY <1>3, <2>3
    <3> QED BY <3>1 DEF WaitsAt, Pushes
  <2> QED BY <2>2, <2>3, WaitFrames
<1>4. CASE Len(frames') = 0
  <2>1. out'.st # "running"
    BY <1>1, <1>2, <1>4 DEF OutOK
  <2>2. ArgsDone'
    BY <2>1 DEF ArgsDone
  <2> QED BY <1>4, <2>2 DEF ArgsWait
<1>5. CASE frames' = frames /\ ret' = ret /\ UNCHANGED scopeVars /\ (out'.st = "running" => out' = out)
  <2>1. Top' = Top /\ scopes' = scopes /\ arrays' = arrays
    BY <1>5 DEF Top, scopeVars
  <2>2. ArgsDone'
    BY <1>5, <2>1 DEF ArgsDone, ArgsOn, ArgsOf, ConstAt, Literal
  <2>3. ASSUME NEW d \in 1..Len(frames'), NEW e, e = frames'[d]
        PROVE  WaitsAt(d, e)'
    <3>1. WaitsAt(d, e)
      BY <1>5, <2>3 DEF ArgsWait
    <3> QED BY <1>5, <2>1, <3>1 DEF WaitsAt, Pushes, Literal, ArgsOn, ArgsOf, ConstAt, Serves
  <2> QED BY <2>2, <2>3, WaitFrames
<1> QED BY <1>3, <1>4, <1>5 DEF Outside

\* What is known of arguments that are constants.
ArgsInv == Sound /\ ArgsWait /\ ArgsDone

\* It is known after each step.
LEMMA NextArgs ==
    ASSUME ArgsInv, [Next]_vars
    PROVE  ArgsInv'
<1>1. Sound /\ Sound' /\ ArgsWait /\ ArgsDone /\ prog' = prog
  BY NextSound DEF ArgsInv
<1>2. CASE EvalStep
  <2>1. out.st = "running"
    BY <1>1, <1>2, ArgPoints DEF Sound
  <2>2. CASE Top.pc = "scope"
    BY <1>1, <1>2, <2>1, <2>2, ArgPoints, EnterArgs DEF Sound, ArgsInv
  <2>3. CASE Top.pc = "drop"
    BY <1>1, <1>2, <2>1, <2>3, ArgPoints, DropsArgs DEF Sound, ArgsInv
  <2>4. CASE Top.pc = "args"
    <3>1. ArgFails /\ UNCHANGED scopeVars => ArgsWait' /\ ArgsDone'
      <4>1. SUFFICES ASSUME ArgFails, UNCHANGED scopeVars PROVE ArgsWait' /\ ArgsDone'
        OBVIOUS
      <4>2. Return(Nil, Wrap(ret.err)) /\ ret.err # NoErr
        BY <4>1 DEF ArgFails, GotErr
      <4>3. PICK e : e = ret.err
        OBVIOUS
      <4>4. Wrap(e) # NoErr
        <5>1. IsErr(e)
          BY <1>1, <4>3 DEF Sound, Inv, RetOK
        <5> QED BY <4>2, <4>3, <5>1 DEF Wrap, NoErr, IsErr
      <4> QED BY <1>1, <2>1, <2>4, <4>1, <4>2, <4>3, <4>4, FailsArgs
    <3> QED BY <1>1, <1>2, <2>1, <2>4, <3>1, ArgPoints, CallsArgs, PushesArgs DEF Sound, ArgsInv
  <2>5. CASE Top.pc \notin {"scope", "drop", "args"}
    BY <1>1, <1>2, <2>1, <2>5, OtherArgs DEF ArgsInv
  <2> QED BY <2>2, <2>3, <2>4, <2>5
<1>3. CASE Begin \/ End \/ Panic \/ Over \/ UNCHANGED vars
  <2>1. Outside
    BY <1>3, OutsideSteps
  <2> QED BY <1>1, <2>1, OutsideArgs DEF ArgsInv
<1> QED BY <1>2, <1>3 DEF Next, Step, EvalStep

\* Field args of value.proto, and eval of eval.go: arguments are evaluated and pushed from
\* the last to the first, each in a scope that holds those after it, so that the value finds
\* them numbered from 0 in the order written, whatever the program does elsewhere, if they
\* are constants that neither drop arguments nor leave their own behind.
THEOREM ArgsNumbered == Spec => []ArgsInOrder
<1>1. Init => ArgsInv
  <2> SUFFICES ASSUME Init PROVE ArgsInv
    OBVIOUS
  <2>1. Len(frames) = 0 /\ out.st # "running"
    BY DEF Init, NoRet
  <2> QED BY <2>1, InitSound DEF ArgsInv, ArgsWait, ArgsDone
<1>2. ArgsInv /\ [Next]_vars => ArgsInv'
  BY NextArgs
<1>3. ArgsInv => ArgsInOrder
  <2> SUFFICES ASSUME ArgsInv, out.st = "running", Top.pc = "body", ret = NoRet, Top.i = 0,
                      Literal(Top), NEW j \in DOMAIN Node.args
               PROVE  Arg(Top.env, j - 1) = prog.nodes[Node.args[j]].val
    BY DEF ArgsInOrder
  <2>1. Sound /\ ArgsOn(Top, 0) /\ Memory
    BY DEF ArgsInv, ArgsDone, Sound
  <2>2. PICK m \in Nat : m = Len(Node.args) /\ j \in 1..m
    BY <2>1, TopArgs, LenProperties
  <2>3. PICK s \in DOMAIN scopes : s = Top.env /\ s # 0
    BY <2>1, TopArgs, MemoryFacts DEF Numbered
  <2>4. PICK l \in Nat : l = scopes[s].len
    BY <2>1, MemoryFacts DEF Numbered
  <2>5. m <= l /\ arrays[scopes[s].arr][l - (j - 1)] = ConstAt(Node.args[j])
    <3>1. ArgsOf(Top) = Node.args
      BY DEF ArgsOf, Node
    <3>2. m - 0 <= l
      BY <2>1, <2>2, <2>3, <2>4, <3>1 DEF ArgsOn
    <3>3. arrays[scopes[s].arr][l - (j - 0 - 1)] = ConstAt(Node.args[j])
      BY <2>1, <2>2, <2>3, <2>4, <3>1 DEF ArgsOn
    <3>4. j - 0 - 1 = j - 1
      BY <2>2
    <3> QED BY <2>2, <2>4, <3>2, <3>3, <3>4
  <2>6. Tree /\ Len(scopes) \in Nat
    BY <2>1, MemoryFacts
  <2>7. Path(s)[0] = s /\ Held(s)[0] = 0 /\ 0 \in 0..Len(scopes)
    BY <2>3, <2>6, PathFacts, HeldFacts DEF PathIsWalk, HeldIsSum
  <2>8. PICK i \in Nat : i = j - 1
    BY <2>2
  <2>9. 0 \in ArgAt(s, i)
    <3>1. i - 0 \in 0..(l - 1)
      BY <2>2, <2>4, <2>5, <2>8
    <3> QED BY <2>3, <2>4, <2>7, <3>1 DEF ArgAt
  <2>10. /\ i < Held(s)[0 + 1] /\ Held(s)[0 + 1] <= Held(s)[Len(scopes)] /\ Held(s)[0 + 1] \in Nat
         /\ Visible(s)[i + 1] = arrays[scopes[Path(s)[0]].arr][scopes[Path(s)[0]].len - (i - Held(s)[0])]
    BY <2>3, <2>6, <2>9, PlaceFacts
  <2>11. Len(Visible(s)) = Held(s)[Len(scopes)] /\ Held(s)[Len(scopes)] \in Nat
    BY <2>3, <2>6, VisibleFacts
  <2>12. i < Len(Visible(s))
    BY <2>10, <2>11
  <2>13. Arg(s, i) = Visible(s)[i + 1]
    BY <2>3, <2>6, <2>12, ArgIsElement
  <2>14. l - (i - 0) = l - (j - 1)
    BY <2>8
  <2> QED BY <2>3, <2>4, <2>5, <2>7, <2>8, <2>10, <2>13, <2>14 DEF ConstAt
<1> QED BY <1>1, <1>2, <1>3, PTL DEF Spec

=============================================================================
