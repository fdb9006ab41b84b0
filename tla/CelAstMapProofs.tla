--------------------------- MODULE CelAstMapProofs ---------------------------
(***************************************************************************)
(* Proofs about the cache of compiled CEL programs, for any number of      *)
(* goroutines and programs.                                                *)
(***************************************************************************)
EXTENDS CelAstMap, TLAPS

\* Those that are waiting for readers or hold the write lock, and those that have
\* compiled.
HasLock  == {"drain"} \cup Writing
HasTree  == {"lock"} \cup HasLock

\* The variables of the lock tell who is where; writers and readers exclude each
\* other.
LockInv ==
    /\ \A c \in Callers : c \in readers <=> pc[c] \in Reading
    /\ \A c \in Callers : writer = c <=> pc[c] \in HasLock
    /\ \A c \in Callers : pc[c] \in Writing => readers = {}

\* One goroutine runs initCel; nobody gets past it before it is done, and nobody has
\* a tree unless it has set the environment.
OnceInv ==
    /\ \A c \in Callers : pc[c] = "initcel" => once = "running"
    /\ \A c, d \in Callers : pc[c] = "initcel" /\ pc[d] = "initcel" => c = d
    /\ \A c \in Callers : pc[c] \in {"compile"} \cup HasTree => once = "done"
    /\ \A c \in Callers : pc[c] \in HasTree => celEnvSet
    /\ \A k \in Codes : asts[k] # NoAst => celEnvSet
    /\ given # {} \/ compiled > 0 => celEnvSet

\* Trees belong to their codes.  What a caller remembers of the map is still true:
\* entries never change, and no other goroutine writes between recheck and unlock.
TreeInv ==
    /\ \A k \in Codes : asts[k] # NoAst => asts[k].code = k /\ k \notin Faulty
    /\ \A c \in Callers : pc[c] \in HasTree =>
          newast[c] # NoAst /\ newast[c].code = code[c] /\ code[c] \notin Faulty
    /\ \A c \in Callers : pc[c] = "runlock" => ast[c] \in {NoAst, asts[code[c]]}
    /\ \A c \in Callers : pc[c] = "insert" => ast[c] = NoAst /\ asts[code[c]] = NoAst
    /\ \A c \in Callers : pc[c] = "unlock" =>
          /\ asts[code[c]] # NoAst
          /\ asts[code[c]] = IF ast[c] = NoAst THEN newast[c] ELSE ast[c]
    /\ \A p \in given : p[2] = asts[p[1]]

\* The inductive invariant.
IInv == TypeOK /\ LockInv /\ OnceInv /\ TreeInv

-----------------------------------------------------------------------------
(***************************************************************************)
(* Every step keeps every part of the invariant.                           *)
(***************************************************************************)

\* The types; that an answer is a tree rests on TreeInv.
LEMMA TypeStep == TypeOK /\ TreeInv /\ [Next]_vars => TypeOK'
<1> SUFFICES ASSUME TypeOK, TreeInv, [Next]_vars
             PROVE  TypeOK'
  OBVIOUS
<1> USE DEF TypeOK, Goto, Reading, Writing
<1>1. ASSUME NEW c \in Callers, NEW k \in Codes, Call(c, k)
      PROVE  TypeOK'
  BY <1>1 DEF Call
<1>2. ASSUME NEW c \in Callers, RLock(c)
      PROVE  TypeOK'
  BY <1>2 DEF RLock
<1>3. ASSUME NEW c \in Callers, Lookup(c)
      PROVE  TypeOK'
  BY <1>3 DEF Lookup
<1>4. ASSUME NEW c \in Callers, RUnlock(c)
      PROVE  TypeOK'
  BY <1>4 DEF RUnlock, Answer
<1>5. ASSUME NEW c \in Callers, InitCel(c)
      PROVE  TypeOK'
  BY <1>5 DEF InitCel
<1>6. ASSUME NEW c \in Callers, InitDone(c)
      PROVE  TypeOK'
  BY <1>6 DEF InitDone
<1>7. ASSUME NEW c \in Callers, Compile(c)
      PROVE  TypeOK'
  BY <1>7 DEF Compile, Asts
<1>8. ASSUME NEW c \in Callers, Lock(c)
      PROVE  TypeOK'
  BY <1>8 DEF Lock
<1>9. ASSUME NEW c \in Callers, Locked(c)
      PROVE  TypeOK'
  BY <1>9 DEF Locked
<1>10. ASSUME NEW c \in Callers, Recheck(c)
      PROVE  TypeOK'
  BY <1>10 DEF Recheck
<1>11. ASSUME NEW c \in Callers, Insert(c)
      PROVE  TypeOK'
  BY <1>11 DEF Insert
<1>12. ASSUME NEW c \in Callers, Unlock(c)
      PROVE  TypeOK'
  BY <1>12 DEF Unlock, Answer, TreeInv
<1>13. ASSUME NEW c \in Callers, InitPanics(c)
      PROVE  TypeOK'
  BY <1>13 DEF InitPanics
<1>14. CASE UNCHANGED vars
  BY <1>14 DEF vars
<1> QED
  BY <1>1, <1>2, <1>3, <1>4, <1>5, <1>6, <1>7, <1>8, <1>9, <1>10, <1>11, <1>12, <1>13, <1>14
     DEF Next, Step

\* The lock.
LEMMA LockStep == TypeOK /\ LockInv /\ [Next]_vars => LockInv'
<1> SUFFICES ASSUME TypeOK, LockInv, [Next]_vars
             PROVE  LockInv'
  OBVIOUS
<1> USE DEF TypeOK, LockInv, Goto, Reading, Writing, HasLock
<1>1. ASSUME NEW c \in Callers, NEW k \in Codes, Call(c, k)
      PROVE  LockInv'
  BY <1>1 DEF Call
<1>2. ASSUME NEW c \in Callers, RLock(c)
      PROVE  LockInv'
  BY <1>2, NoCallerAssumption DEF RLock
<1>3. ASSUME NEW c \in Callers, Lookup(c)
      PROVE  LockInv'
  BY <1>3 DEF Lookup
<1>4. ASSUME NEW c \in Callers, RUnlock(c)
      PROVE  LockInv'
  BY <1>4 DEF RUnlock, Answer
<1>5. ASSUME NEW c \in Callers, InitCel(c)
      PROVE  LockInv'
  BY <1>5 DEF InitCel
<1>6. ASSUME NEW c \in Callers, InitDone(c)
      PROVE  LockInv'
  BY <1>6 DEF InitDone
<1>7. ASSUME NEW c \in Callers, Compile(c)
      PROVE  LockInv'
  BY <1>7 DEF Compile
<1>8. ASSUME NEW c \in Callers, Lock(c)
      PROVE  LockInv'
  BY <1>8, NoCallerAssumption DEF Lock
<1>9. ASSUME NEW c \in Callers, Locked(c)
      PROVE  LockInv'
  BY <1>9 DEF Locked
<1>10. ASSUME NEW c \in Callers, Recheck(c)
      PROVE  LockInv'
  BY <1>10 DEF Recheck
<1>11. ASSUME NEW c \in Callers, Insert(c)
      PROVE  LockInv'
  BY <1>11 DEF Insert
<1>12. ASSUME NEW c \in Callers, Unlock(c)
      PROVE  LockInv'
  BY <1>12, NoCallerAssumption DEF Unlock, Answer
<1>13. ASSUME NEW c \in Callers, InitPanics(c)
      PROVE  LockInv'
  BY <1>13 DEF InitPanics
<1>14. CASE UNCHANGED vars
  BY <1>14 DEF vars
<1> QED
  BY <1>1, <1>2, <1>3, <1>4, <1>5, <1>6, <1>7, <1>8, <1>9, <1>10, <1>11, <1>12, <1>13, <1>14
     DEF Next, Step

\* The initialisation of the CEL globals.
LEMMA OnceStep == TypeOK /\ OnceInv /\ TreeInv /\ [Next]_vars => OnceInv'
<1> SUFFICES ASSUME TypeOK, OnceInv, TreeInv, [Next]_vars
             PROVE  OnceInv'
  OBVIOUS
<1> USE DEF TypeOK, OnceInv, Goto, Reading, Writing, HasLock, HasTree
<1>1. ASSUME NEW c \in Callers, NEW k \in Codes, Call(c, k)
      PROVE  OnceInv'
  BY <1>1 DEF Call
<1>2. ASSUME NEW c \in Callers, RLock(c)
      PROVE  OnceInv'
  BY <1>2 DEF RLock
<1>3. ASSUME NEW c \in Callers, Lookup(c)
      PROVE  OnceInv'
  BY <1>3 DEF Lookup
<1>4. ASSUME NEW c \in Callers, RUnlock(c)
      PROVE  OnceInv'
  BY <1>4 DEF RUnlock, Answer, TreeInv
<1>5. ASSUME NEW c \in Callers, InitCel(c)
      PROVE  OnceInv'
  BY <1>5 DEF InitCel
<1>6. ASSUME NEW c \in Callers, InitDone(c)
      PROVE  OnceInv'
  BY <1>6 DEF InitDone
<1>7. ASSUME NEW c \in Callers, Compile(c)
      PROVE  OnceInv'
  BY <1>7 DEF Compile
<1>8. ASSUME NEW c \in Callers, Lock(c)
      PROVE  OnceInv'
  BY <1>8 DEF Lock
<1>9. ASSUME NEW c \in Callers, Locked(c)
      PROVE  OnceInv'
  BY <1>9 DEF Locked
<1>10. ASSUME NEW c \in Callers, Recheck(c)
      PROVE  OnceInv'
  BY <1>10 DEF Recheck
<1>11. ASSUME NEW c \in Callers, Insert(c)
      PROVE  OnceInv'
  BY <1>11 DEF Insert
<1>12. ASSUME NEW c \in Callers, Unlock(c)
      PROVE  OnceInv'
  BY <1>12 DEF Unlock, Answer
<1>13. ASSUME NEW c \in Callers, InitPanics(c)
      PROVE  OnceInv'
  BY <1>13 DEF InitPanics
<1>14. CASE UNCHANGED vars
  BY <1>14 DEF vars
<1> QED
  BY <1>1, <1>2, <1>3, <1>4, <1>5, <1>6, <1>7, <1>8, <1>9, <1>10, <1>11, <1>12, <1>13, <1>14
     DEF Next, Step

\* The trees.  An entry that is inserted was missing, since nobody else has held the
\* write lock since it was looked for.
LEMMA TreeStep == TypeOK /\ LockInv /\ TreeInv /\ [Next]_vars => TreeInv'
<1> SUFFICES ASSUME TypeOK, LockInv, TreeInv, [Next]_vars
             PROVE  TreeInv'
  OBVIOUS
<1> USE DEF TypeOK, LockInv, TreeInv, Goto, Reading, Writing, HasLock, HasTree
<1>1. ASSUME NEW c \in Callers, NEW k \in Codes, Call(c, k)
      PROVE  TreeInv'
  BY <1>1 DEF Call
<1>2. ASSUME NEW c \in Callers, RLock(c)
      PROVE  TreeInv'
  BY <1>2 DEF RLock
<1>3. ASSUME NEW c \in Callers, Lookup(c)
      PROVE  TreeInv'
  BY <1>3 DEF Lookup
<1>4. ASSUME NEW c \in Callers, RUnlock(c)
      PROVE  TreeInv'
  BY <1>4 DEF RUnlock, Answer
<1>5. ASSUME NEW c \in Callers, InitCel(c)
      PROVE  TreeInv'
  BY <1>5 DEF InitCel
<1>6. ASSUME NEW c \in Callers, InitDone(c)
      PROVE  TreeInv'
  BY <1>6 DEF InitDone
<1>7. ASSUME NEW c \in Callers, Compile(c)
      PROVE  TreeInv'
  BY <1>7, NoAstAssumption DEF Compile, Asts
<1>8. ASSUME NEW c \in Callers, Lock(c)
      PROVE  TreeInv'
  BY <1>8 DEF Lock
<1>9. ASSUME NEW c \in Callers, Locked(c)
      PROVE  TreeInv'
  BY <1>9 DEF Locked
<1>10. ASSUME NEW c \in Callers, Recheck(c)
      PROVE  TreeInv'
  BY <1>10 DEF Recheck
<1>11. ASSUME NEW c \in Callers, Insert(c)
      PROVE  TreeInv'
  BY <1>11, NoAstAssumption DEF Insert
<1>12. ASSUME NEW c \in Callers, Unlock(c)
      PROVE  TreeInv'
  BY <1>12 DEF Unlock, Answer
<1>13. ASSUME NEW c \in Callers, InitPanics(c)
      PROVE  TreeInv'
  BY <1>13 DEF InitPanics
<1>14. CASE UNCHANGED vars
  BY <1>14 DEF vars
<1> QED
  BY <1>1, <1>2, <1>3, <1>4, <1>5, <1>6, <1>7, <1>8, <1>9, <1>10, <1>11, <1>12, <1>13, <1>14
     DEF Next, Step

-----------------------------------------------------------------------------
(***************************************************************************)
(* Theorems.                                                               *)
(***************************************************************************)

\* The invariant is inductive.
THEOREM Invariance == Spec => []IInv
<1>1. Init => IInv
  <2> SUFFICES ASSUME Init
               PROVE  IInv
    OBVIOUS
  <2>1. TypeOK
    BY FaultyAssumption, NoCallerAssumption DEF Init, TypeOK
  <2>2. LockInv
    BY NoCallerAssumption DEF Init, LockInv, HasLock, Reading, Writing
  <2>3. OnceInv
    BY DEF Init, OnceInv, HasTree, HasLock, Writing
  <2>4. TreeInv
    BY DEF Init, TreeInv, HasTree, HasLock, Writing
  <2> QED
    BY <2>1, <2>2, <2>3, <2>4 DEF IInv
<1>2. IInv /\ [Next]_vars => IInv'
  BY TypeStep, LockStep, OnceStep, TreeStep DEF IInv
<1> QED
  BY <1>1, <1>2, PTL DEF Spec

\* The variables of GetAST and the map have their types, whatever the interleaving:
\* no answer is nil.
THEOREM TypeCorrect == Spec => []TypeOK
<1>1. IInv => TypeOK
  BY DEF IInv
<1> QED
  BY <1>1, Invariance, PTL

\* The map is never written while another goroutine reads or writes it.
THEOREM RaceFree == Spec => []NoRace
<1>1. IInv => NoRace
  <2> SUFFICES ASSUME IInv, NEW c \in Callers, NEW d \in Callers,
                      pc[c] \in Writing, d # c
               PROVE  pc[d] \notin Reading \cup Writing
    BY DEF NoRace
  <2>1. writer = c /\ readers = {}
    BY DEF IInv, LockInv, HasLock
  <2>2. pc[d] \notin Reading
    BY <2>1 DEF IInv, LockInv
  <2>3. pc[d] \notin Writing
    BY <2>1 DEF IInv, LockInv, HasLock
  <2> QED
    BY <2>2, <2>3
<1> QED
  BY <1>1, Invariance, PTL

\* All callers that ask for a code are given the same tree.
THEOREM OneAst == Spec => []OneAstPerCode
<1>1. IInv => OneAstPerCode
  BY DEF IInv, TreeInv, OneAstPerCode
<1> QED
  BY <1>1, Invariance, PTL

\* A caller is given a tree of the code it asked for, which is one that compiles.
THEOREM RightAnswers == Spec => []AnswersMatch
<1>1. IInv => AnswersMatch
  <2> SUFFICES ASSUME IInv, NEW p \in given
               PROVE  p[2].code = p[1] /\ p[1] \notin Faulty
    BY DEF AnswersMatch
  <2>1. p[1] \in Codes /\ p[2] \in Asts /\ p[2] = asts[p[1]]
    BY DEF IInv, TypeOK, TreeInv
  <2>2. asts[p[1]] # NoAst
    BY <2>1, NoAstAssumption
  <2> QED
    BY <2>1, <2>2 DEF IInv, TreeInv
<1> QED
  BY <1>1, Invariance, PTL

\* The CEL environment is used after its initialisation, which runs once, and trees are
\* made in one that was initialised.
THEOREM Initialised == Spec => []InitBeforeUse
<1>1. IInv => InitBeforeUse
  BY DEF IInv, OnceInv, InitBeforeUse
<1> QED
  BY <1>1, Invariance, PTL

-----------------------------------------------------------------------------
(***************************************************************************)
(* Refinement.                                                             *)
(***************************************************************************)

\* A step that changes neither the map nor the answers is no step of the cache.
LEMMA Stutter == UNCHANGED <<asts, given>> => [Cache!Next]_(Cache!vars)
  BY DEF Cache!vars

\* Insertion is Fill: the entry was missing.  An answer is Give: it is the entry.
LEMMA CacheStep == IInv /\ [Next]_vars => [Cache!Next]_(Cache!vars)
<1> SUFFICES ASSUME IInv, [Next]_vars
             PROVE  [Cache!Next]_(Cache!vars)
  OBVIOUS
<1>1. ASSUME NEW c \in Callers, NEW k \in Codes, Call(c, k)
      PROVE  [Cache!Next]_(Cache!vars)
  BY <1>1, Stutter DEF Call
<1>2. ASSUME NEW c \in Callers,
             RLock(c) \/ Lookup(c) \/ InitCel(c) \/ InitDone(c) \/ InitPanics(c)
                \/ Compile(c) \/ Lock(c) \/ Locked(c) \/ Recheck(c)
      PROVE  [Cache!Next]_(Cache!vars)
  BY <1>2, Stutter
     DEF RLock, Lookup, InitCel, InitDone, InitPanics, Compile, Lock, Locked, Recheck
<1>3. ASSUME NEW c \in Callers, RUnlock(c)
      PROVE  [Cache!Next]_(Cache!vars)
  <2>1. CASE ast[c] = NoAst
    BY <1>3, <2>1, Stutter DEF RUnlock
  <2>2. CASE ast[c] # NoAst
    <3>1. code[c] \in Codes /\ ast[c] = asts[code[c]]
      BY <1>3, <2>2 DEF IInv, TypeOK, TreeInv, RUnlock
    <3>2. Cache!Give(code[c])
      BY <1>3, <2>2, <3>1 DEF RUnlock, Answer, Cache!Give
    <3> QED
      BY <3>1, <3>2 DEF Cache!Next
  <2> QED
    BY <2>1, <2>2
<1>4. ASSUME NEW c \in Callers, Insert(c)
      PROVE  [Cache!Next]_(Cache!vars)
  <2>1. code[c] \in Codes /\ asts[code[c]] = NoAst /\ newast[c] # NoAst
    BY <1>4 DEF IInv, TypeOK, TreeInv, Insert, HasTree, HasLock, Writing
  <2>2. asts' = [asts EXCEPT ![code[c]] = newast[c]] /\ asts'[code[c]] = newast[c]
    BY <1>4, <2>1 DEF Insert, IInv, TypeOK
  <2>3. Cache!Fill(code[c])
    BY <1>4, <2>1, <2>2 DEF Insert, Cache!Fill
  <2> QED
    BY <2>1, <2>3 DEF Cache!Next
<1>5. ASSUME NEW c \in Callers, Unlock(c)
      PROVE  [Cache!Next]_(Cache!vars)
  <2>1. code[c] \in Codes /\ asts[code[c]] # NoAst
    BY <1>5 DEF IInv, TypeOK, TreeInv, Unlock
  <2>2. Answer(c, asts[code[c]])
    BY <1>5 DEF IInv, TreeInv, Unlock
  <2>3. Cache!Give(code[c])
    BY <1>5, <2>1, <2>2 DEF Unlock, Answer, Cache!Give
  <2> QED
    BY <2>1, <2>3 DEF Cache!Next
<1>6. CASE UNCHANGED vars
  BY <1>6, Stutter DEF vars
<1> QED
  BY <1>1, <1>2, <1>3, <1>4, <1>5, <1>6 DEF Next, Step

\* The map behind its lock implements the abstract cache.
THEOREM Implementation == Spec => ImplementsCache
<1>1. Init => Cache!Init
  BY DEF Init, Cache!Init
<1> QED
  BY <1>1, CacheStep, Invariance, PTL DEF Spec, ImplementsCache, Cache!Spec
=============================================================================
