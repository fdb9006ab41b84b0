--------------------------- MODULE ScopeArgsProofs ---------------------------
(***************************************************************************)
(* Proofs about scopes and arguments, for any arguments, places, nesting   *)
(* and numbers of scopes.                                                  *)
(***************************************************************************)
EXTENDS ArgList, ScopeProofs

-----------------------------------------------------------------------------
(***************************************************************************)
(* The memory of evaluations.                                              *)
(***************************************************************************)

ArgSlots == Args \cup {ZeroArg}

\* It is well-formed.
LEMMA MemoryFits == MemoryOK <=> WellFormed(ArgSlots, Locs)
  BY DEF MemoryOK, WellFormed, ScopeNode, Nodes, ArgSlots

\* And so it is after a step.
LEMMA MemoryFitsNext == MemoryOK' <=> WellFormed(ArgSlots, Locs)'
<1>1. (MemoryOK <=> WellFormed(ArgSlots, Locs))'
  BY MemoryFits, PTL
<1> QED BY <1>1

\* Capacities and windows.
LEMMA WindowFacts ==
    ASSUME MemoryOK, NEW s \in DOMAIN scopes
    PROVE  /\ scopes[s] \in ScopeNode
           /\ scopes[s].arr \in Nat /\ scopes[s].len \in Nat /\ scopes[s].parent \in Nat
           /\ s \in Nat \ {0}
           /\ Cap(scopes[s].arr) \in Nat
           /\ scopes[s].arr # 0 => /\ scopes[s].arr \in DOMAIN arrays
                                   /\ arrays[scopes[s].arr] \in Seq(ArgSlots)
<1>1. WellFormed(ArgSlots, Locs)
  BY MemoryFits
<1> QED BY <1>1, Windows DEF ScopeNode, Nodes

\* A push keeps memory well-formed.
LEMMA PushKeepsMemory ==
    ASSUME MemoryOK, NEW s \in DOMAIN scopes, NEW v \in Args, PushArg(s, v)
    PROVE  MemoryOK' /\ DOMAIN scopes' = DOMAIN scopes
<1>1. WellFormed(ArgSlots, Locs) /\ ZeroArg \in ArgSlots /\ v \in ArgSlots
  BY MemoryFits DEF ArgSlots
<1>2. WellFormed(ArgSlots, Locs)' /\ DOMAIN scopes' = DOMAIN scopes
  BY <1>1, PushFits
<1> QED BY <1>2, MemoryFitsNext

\* A drop only shortens windows, or resets them.
LEMMA DropKeepsMemory ==
    ASSUME MemoryOK, NEW s \in DOMAIN scopes, NEW n \in Nat, DropArgs(s, n)
    PROVE  /\ MemoryOK'
           /\ arrays' = arrays
           /\ DOMAIN scopes' = DOMAIN scopes
           /\ \A t \in DOMAIN scopes :
                 \/ scopes'[t].arr = 0 /\ scopes'[t].len = 0
                 \/ scopes'[t].arr = scopes[t].arr /\ scopes'[t].len \in 0..scopes[t].len
<1>1. WellFormed(ArgSlots, Locs)
  BY MemoryFits
<1>2. /\ WellFormed(ArgSlots, Locs)' /\ arrays' = arrays /\ DOMAIN scopes' = DOMAIN scopes
      /\ \A t \in DOMAIN scopes :
            \/ scopes'[t].arr = 0 /\ scopes'[t].len = 0
            \/ scopes'[t].arr = scopes[t].arr /\ scopes'[t].len \in 0..scopes[t].len
  BY <1>1, DropFits
<1> QED BY <1>2, MemoryFitsNext

\* A shift adds nodes without arguments, and changes none.
LEMMA ShiftKeepsMemory ==
    ASSUME MemoryOK, NEW s \in DOMAIN scopes, NEW m \in Nat \ {0},
           NEW locs \in [1..m -> Locs], Shift(s, locs)
    PROVE  /\ MemoryOK'
           /\ arrays' = arrays
           /\ Len(scopes') = Len(scopes) + m
           /\ \A t \in DOMAIN scopes : t \in DOMAIN scopes' /\ scopes'[t] = scopes[t]
           /\ \A t \in DOMAIN scopes' \ DOMAIN scopes :
                 scopes'[t].arr = 0 /\ scopes'[t].len = 0
<1>1. WellFormed(ArgSlots, Locs)
  BY MemoryFits
<1>2. /\ WellFormed(ArgSlots, Locs)' /\ arrays' = arrays
      /\ Len(scopes') = Len(scopes) + m
      /\ \A t \in DOMAIN scopes : t \in DOMAIN scopes' /\ scopes'[t] = scopes[t]
      /\ \A t \in DOMAIN scopes' \ DOMAIN scopes :
            scopes'[t].arr = 0 /\ scopes'[t].len = 0
  BY <1>1, ShiftFits
<1> QED BY <1>2, MemoryFitsNext

\* A shift to the parent adds a copy.
LEMMA ParentKeepsMemory ==
    ASSUME MemoryOK, NEW s \in DOMAIN scopes, ShiftToParent(s)
    PROVE  /\ MemoryOK'
           /\ \A t \in DOMAIN scopes : t \in DOMAIN scopes'
           /\ Len(scopes') \in DOMAIN scopes'
<1>1. WellFormed(ArgSlots, Locs)
  BY MemoryFits
<1>2. /\ WellFormed(ArgSlots, Locs)'
      /\ \A t \in DOMAIN scopes : t \in DOMAIN scopes'
      /\ Len(scopes') \in DOMAIN scopes'
  BY <1>1, ParentFits
<1> QED BY <1>2, MemoryFitsNext

\* Init of the root scope leaves its arguments alone.
LEMMA InitRootKeepsMemory ==
    ASSUME MemoryOK, InitRoot(Root), UNCHANGED arrays
    PROVE  /\ MemoryOK'
           /\ DOMAIN scopes' = DOMAIN scopes /\ 1 \in DOMAIN scopes
           /\ \A t \in DOMAIN scopes :
                 scopes'[t].arr = scopes[t].arr /\ scopes'[t].len = scopes[t].len
<1>1. WellFormed(ArgSlots, Locs) /\ Root \in Locs
  BY MemoryFits, RootAssumption
<1>2. /\ WellFormed(ArgSlots, Locs)'
      /\ DOMAIN scopes' = DOMAIN scopes /\ 1 \in DOMAIN scopes
      /\ \A t \in DOMAIN scopes :
            scopes'[t].arr = scopes[t].arr /\ scopes'[t].len = scopes[t].len
  BY <1>1, RootFits
<1> QED BY <1>2, MemoryFitsNext

-----------------------------------------------------------------------------
(***************************************************************************)
(* Type correctness.                                                       *)
(***************************************************************************)

FramesOK ==
    /\ frames \in Seq(Frame)
    /\ \A i \in DOMAIN frames : frames[i].scope \in DOMAIN scopes

\* The current frame is the last one, and its scope exists.
LEMMA CurrentFacts ==
    ASSUME TypeOK, frames # <<>>
    PROVE  /\ Len(frames) \in DOMAIN frames /\ DOMAIN frames = 1..Len(frames)
           /\ Current = frames[Len(frames)]
           /\ Current.scope \in DOMAIN scopes /\ Current.scope \in Nat
<1>1. Len(frames) \in DOMAIN frames /\ Current = frames[Len(frames)]
  BY LastFacts DEF TypeOK, Current
<1>2. Current.scope \in DOMAIN scopes /\ DOMAIN frames = 1..Len(frames)
  BY <1>1, LenProperties DEF TypeOK
<1>3. DOMAIN scopes = 1..Len(scopes)
  BY LenProperties DEF TypeOK, MemoryOK
<1> QED
  BY <1>1, <1>2, <1>3

\* An evaluation that goes on elsewhere.
LEMMA GotoFacts ==
    ASSUME TypeOK, frames # <<>>, NEW p \in Nat,
           NEW point \in {"scope", "drop", "body", "parent"}, Goto(p, point)
    PROVE  /\ frames' \in Seq(Frame) /\ DOMAIN frames' = DOMAIN frames
           /\ \A i \in DOMAIN frames :
                 frames'[i].scope = IF i = Len(frames) THEN p ELSE frames[i].scope
<1> DEFINE f == [scope |-> p, at |-> point]
<1>1. f \in Frame /\ f.scope = p
  BY DEF Frame
<1>2. frames' = [frames EXCEPT ![Len(frames)] = f] /\ frames \in Seq(Frame)
  BY DEF Goto, TypeOK
<1>3. Len(frames) \in 1..Len(frames) /\ DOMAIN frames = 1..Len(frames)
  BY CurrentFacts
<1> HIDE DEF f
<1>4. /\ frames' \in Seq(Frame) /\ Len(frames') = Len(frames)
      /\ \A i \in 1..Len(frames) : frames'[i] = IF i = Len(frames) THEN f ELSE frames[i]
  BY <1>1, <1>2, <1>3, ExceptSeq
<1> QED
  BY <1>1, <1>3, <1>4, LenProperties

\* Evaluations stay in allocated scopes, since none is ever freed.
LEMMA GotoKeepsFrames ==
    ASSUME TypeOK, frames # <<>>, NEW p \in Nat,
           NEW point \in {"scope", "drop", "body", "parent"}, Goto(p, point),
           p \in DOMAIN scopes', \A t \in DOMAIN scopes : t \in DOMAIN scopes'
    PROVE  FramesOK'
  BY GotoFacts DEF FramesOK, TypeOK

\* Type correctness is inductive.
LEMMA TypeStep == TypeOK /\ [Next]_vars => TypeOK'
<1> SUFFICES ASSUME TypeOK, [Next]_vars
             PROVE  MemoryOK' /\ FramesOK'
  BY DEF TypeOK, FramesOK
<1>0. /\ MemoryOK /\ frames \in Seq(Frame)
      /\ \A i \in DOMAIN frames : frames[i].scope \in DOMAIN scopes
      /\ DOMAIN scopes = 1..Len(scopes) /\ Len(scopes) \in Nat
  BY LenProperties DEF TypeOK, MemoryOK
<1>1. CASE Eval
  <2>1. MemoryOK' /\ DOMAIN scopes' = DOMAIN scopes /\ 1 \in DOMAIN scopes
    BY <1>0, <1>1, InitRootKeepsMemory DEF Eval
  <2>2. FramesOK'
    BY <1>1, <2>1 DEF Eval, FramesOK, Frame
  <2> QED
    BY <2>1, <2>2
<1>2. CASE Call
  <2> DEFINE f == [scope |-> Current.scope, at |-> "scope"]
  <2>1. f \in Frame /\ f.scope \in DOMAIN scopes
    BY <1>2, CurrentFacts DEF Call, At, Frame
  <2>2. frames' = Append(frames, f) /\ UNCHANGED scopeVars
    BY <1>2 DEF Call
  <2> HIDE DEF f
  <2>3. /\ frames' \in Seq(Frame) /\ DOMAIN frames' = 1..(Len(frames) + 1)
        /\ \A i \in 1..Len(frames) : frames'[i] = frames[i]
        /\ frames'[Len(frames) + 1] = f /\ DOMAIN frames = 1..Len(frames)
        /\ Len(frames) \in Nat
    BY <1>0, <2>1, <2>2, AppendProperties, LenProperties
  <2> QED
    BY <1>0, <2>1, <2>2, <2>3 DEF FramesOK, MemoryOK, Cap, scopeVars
<1>3. CASE Stay
  <2>1. frames # <<>> /\ Goto(Current.scope, "drop") /\ UNCHANGED scopeVars
    BY <1>3 DEF Stay, At
  <2>2. FramesOK'
    BY <2>1, CurrentFacts, GotoKeepsFrames DEF scopeVars
  <2> QED
    BY <1>0, <2>1, <2>2 DEF MemoryOK, Cap, scopeVars
<1>4. ASSUME NEW m \in 1..MaxSteps, NEW locs \in [1..m -> Locs], Enter(locs)
      PROVE  MemoryOK' /\ FramesOK'
  <2>1. /\ frames # <<>> /\ Goto(Len(scopes'), "drop") /\ Shift(Current.scope, locs)
        /\ m \in Nat \ {0}
    BY <1>4, BoundsAssumption DEF Enter, At, NewScope
  <2>2. /\ MemoryOK' /\ Len(scopes') = Len(scopes) + m
        /\ \A t \in DOMAIN scopes : t \in DOMAIN scopes'
    BY <1>0, <2>1, CurrentFacts, ShiftKeepsMemory
  <2>3. Len(scopes') \in Nat /\ Len(scopes') \in DOMAIN scopes'
    BY <1>0, <2>1, <2>2, LenProperties DEF MemoryOK
  <2>4. FramesOK'
    BY <2>1, <2>2, <2>3, GotoKeepsFrames
  <2> QED
    BY <2>2, <2>4
<1>5. ASSUME NEW n \in ArgNumbers, Drop(n)
      PROVE  MemoryOK' /\ FramesOK'
  <2>1. /\ frames # <<>> /\ Goto(Current.scope, "body") /\ DropArgs(Current.scope, n)
        /\ n \in Nat
    BY <1>5, MaxInt32Assumption DEF Drop, At, ArgNumbers
  <2>2. MemoryOK' /\ DOMAIN scopes' = DOMAIN scopes
    BY <1>0, <2>1, CurrentFacts, DropKeepsMemory
  <2> QED
    BY <2>1, <2>2, CurrentFacts, GotoKeepsFrames
<1>6. ASSUME NEW v \in Args, Push(v)
      PROVE  MemoryOK' /\ FramesOK'
  <2>1. MemoryOK' /\ DOMAIN scopes' = DOMAIN scopes
    BY <1>0, <1>6, CurrentFacts, PushKeepsMemory DEF Push, At
  <2> QED
    BY <1>0, <1>6, <2>1 DEF Push, FramesOK
<1>7. CASE RangeDrop
  <2>1. MemoryOK' /\ DOMAIN scopes' = DOMAIN scopes
    BY <1>0, <1>7, CurrentFacts, DropKeepsMemory DEF RangeDrop, At
  <2> QED
    BY <1>0, <1>7, <2>1 DEF RangeDrop, FramesOK
<1>8. CASE Parent
  <2>1. frames # <<>> /\ Goto(Len(scopes'), "parent") /\ ShiftToParent(Current.scope)
    BY <1>8 DEF Parent, At, NewScope
  <2>2. /\ MemoryOK' /\ Len(scopes') \in DOMAIN scopes'
        /\ \A t \in DOMAIN scopes : t \in DOMAIN scopes'
    BY <1>0, <2>1, CurrentFacts, ParentKeepsMemory
  <2>3. Len(scopes') \in Nat
    BY <2>2, LenProperties DEF MemoryOK
  <2> QED
    BY <2>1, <2>2, <2>3, GotoKeepsFrames
<1>9. CASE Return
  <2>1. /\ frames' \in Seq(Frame) /\ DOMAIN frames' = 1..(Len(frames) - 1)
        /\ DOMAIN frames = 1..Len(frames) /\ Len(frames) \in Nat
        /\ \A i \in DOMAIN frames' : frames'[i] = frames[i]
    BY <1>0, <1>9, FrontFacts, LenProperties DEF Return
  <2> QED
    BY <1>0, <1>9, <2>1 DEF Return, FramesOK, MemoryOK, Cap, scopeVars
<1>10. CASE UNCHANGED vars
  BY <1>0, <1>10 DEF vars, FramesOK, MemoryOK, Cap
<1> QED
  BY <1>1, <1>2, <1>3, <1>4, <1>5, <1>6, <1>7, <1>8, <1>9, <1>10 DEF Next, NextLocal

\* However evaluations nest, enter scopes, push and drop: every pointer points to
\* an allocated scope or array, every slice fits its array, and the scope tree has
\* no cycle.
THEOREM TypeCorrect == Spec => []TypeOK
<1>1. Init => TypeOK
  <2> SUFFICES ASSUME Init
               PROVE  TypeOK
    OBVIOUS
  <2> DEFINE root == [arr |-> 0, len |-> 0, parent |-> 0, loc |-> Root]
  <2>1. root \in ScopeNode /\ root.arr = 0 /\ root.len = 0 /\ root.parent = 0
    BY RootAssumption DEF ScopeNode
  <2>2. arrays = <<>> /\ scopes = <<root>> /\ frames = <<>>
    BY DEF Init
  <2> HIDE DEF root
  <2>3. /\ arrays \in Seq(Seq(Args \cup {ZeroArg})) /\ Len(arrays) = 0
        /\ frames \in Seq(Frame) /\ DOMAIN frames = {}
    BY <2>2
  <2>4. /\ scopes \in Seq(ScopeNode) /\ scopes # <<>> /\ DOMAIN scopes = {1}
        /\ scopes[1] = root
    BY <2>1, <2>2
  <2> QED
    BY <2>1, <2>3, <2>4 DEF TypeOK, MemoryOK, Cap
<1> QED
  BY <1>1, TypeStep, PTL DEF Spec

-----------------------------------------------------------------------------
(***************************************************************************)
(* Without parent values, scopes do not share arrays, and a scope behaves  *)
(* like a stack of arguments of its own.                                   *)
(***************************************************************************)

\* What append does: the slice of s grows, in its array or in a new one.
LEMMA PushFacts ==
    ASSUME MemoryOK, NEW s \in DOMAIN scopes, NEW v \in Args, PushArg(s, v)
    PROVE  LET a == scopes[s].arr
               n == scopes[s].len
               b == scopes'[s].arr
           IN  /\ \A t \in DOMAIN scopes : t # s => scopes'[t] = scopes[t]
               /\ scopes'[s].len = n + 1
               /\ b = Len(arrays) + 1 \/ (b = a /\ a # 0)
               /\ \A c \in 1..Len(arrays) : c # b => arrays'[c] = arrays[c]
               /\ \A i \in 1..n : arrays'[b][i] = arrays[a][i]
               /\ arrays'[b][n + 1] = v
<1>1. WellFormed(ArgSlots, Locs) /\ ZeroArg \in ArgSlots /\ v \in ArgSlots
  BY MemoryFits DEF ArgSlots
<1> QED BY <1>1, PushWrites

\* The arguments of a scope are a sequence of arguments or empty slots.
LEMMA OwnArgsType ==
    ASSUME MemoryOK, NEW s \in DOMAIN scopes
    PROVE  /\ OwnArgs(s) \in Seq(ArgSlots) /\ Len(OwnArgs(s)) = scopes[s].len
           /\ \A i \in 1..scopes[s].len : OwnArgs(s)[i] = arrays[scopes[s].arr][i]
<1> DEFINE n == scopes[s].len
           a == scopes[s].arr
<1>1. n \in Nat /\ a \in Nat /\ Cap(a) \in Nat /\ n <= Cap(a)
  BY WindowFacts DEF MemoryOK
<1>2. ASSUME NEW i \in 1..n
      PROVE  arrays[a][i] \in ArgSlots
  <2>1. a # 0 /\ i \in 1..Len(arrays[a])
    BY <1>1 DEF Cap
  <2> QED
    BY <2>1, WindowFacts, ElementOfSeq
<1>3. OwnArgs(s) \in [1..n -> ArgSlots]
  BY <1>2 DEF OwnArgs
<1> QED
  BY <1>1, <1>3, Comprehension DEF OwnArgs

\* Without sharing, a push appends to the arguments of its scope and changes no others.
LEMMA PushIsAppend ==
    ASSUME MemoryOK, Unshared, NEW s \in DOMAIN scopes, NEW v \in Args, PushArg(s, v)
    PROVE  /\ Unshared'
           /\ OwnArgs(s)' = Append(OwnArgs(s), v)
           /\ \A t \in DOMAIN scopes : t # s => OwnArgs(t)' = OwnArgs(t)
<1> DEFINE a == scopes[s].arr
           n == scopes[s].len
           b == scopes'[s].arr
<1>1. /\ \A t \in DOMAIN scopes : t # s => scopes'[t] = scopes[t]
      /\ scopes'[s].len = n + 1
      /\ b = Len(arrays) + 1 \/ (b = a /\ a # 0)
      /\ \A c \in 1..Len(arrays) : c # b => arrays'[c] = arrays[c]
      /\ \A i \in 1..n : arrays'[b][i] = arrays[a][i]
      /\ arrays'[b][n + 1] = v
  BY PushFacts
<1>2. MemoryOK' /\ DOMAIN scopes' = DOMAIN scopes /\ Len(arrays) \in Nat
  BY PushKeepsMemory, LenProperties DEF MemoryOK
<1>3. ASSUME NEW t \in DOMAIN scopes
      PROVE  /\ scopes[t].arr \in 0..Len(arrays) /\ scopes[t].len \in Nat
             /\ scopes[t].arr = 0 => scopes[t].len = 0
  BY <1>2, WindowFacts DEF MemoryOK, Cap
<1>4. ASSUME NEW t \in DOMAIN scopes, t # s
      PROVE  scopes[t].arr # b
  <2>1. CASE b = Len(arrays) + 1
    BY <1>2, <1>3, <2>1
  <2>2. CASE b = a /\ a # 0
    BY <1>4, <2>2 DEF Unshared
  <2> QED
    BY <1>1, <2>1, <2>2
<1>5. Unshared'
  <2> SUFFICES ASSUME NEW t \in DOMAIN scopes, NEW u \in DOMAIN scopes,
                      t # u, scopes'[t].arr = scopes'[u].arr
               PROVE  scopes'[t].arr = 0
    BY <1>2 DEF Unshared
  <2>1. CASE t # s /\ u # s
    BY <1>1, <2>1 DEF Unshared
  <2>2. CASE t = s \/ u = s
    BY <1>1, <1>4, <2>2
  <2> QED
    BY <2>1, <2>2
<1>6. ASSUME NEW t \in DOMAIN scopes, t # s
      PROVE  OwnArgs(t)' = OwnArgs(t)
  <2>1. scopes'[t] = scopes[t]
    BY <1>1, <1>6
  <2>2. ASSUME NEW i \in 1..scopes[t].len
        PROVE  arrays'[scopes[t].arr][i] = arrays[scopes[t].arr][i]
    <3>1. scopes[t].arr \in 1..Len(arrays)
      BY <1>3
    <3> QED
      BY <1>1, <1>4, <1>6, <3>1
  <2> QED
    BY <2>1, <2>2 DEF OwnArgs
<1>7. OwnArgs(s)' = Append(OwnArgs(s), v)
  <2> DEFINE new == OwnArgs(s)'
             old == OwnArgs(s)
  <2>1. n \in Nat /\ scopes'[s].len = n + 1 /\ v \in ArgSlots
    BY <1>1, <1>3 DEF ArgSlots
  <2>2. /\ old \in Seq(ArgSlots) /\ Len(old) = n
        /\ \A i \in 1..n : old[i] = arrays[a][i]
    BY OwnArgsType
  <2>3. /\ new \in Seq(ArgSlots) /\ Len(new) = n + 1
        /\ \A i \in 1..(n + 1) : new[i] = arrays'[b][i]
    <3>1. new = [i \in 1..(n + 1) |-> arrays'[b][i]]
      BY <2>1 DEF OwnArgs
    <3>2. ASSUME NEW i \in 1..(n + 1)
          PROVE  arrays'[b][i] \in ArgSlots
      <4>1. CASE i = n + 1
        BY <1>1, <2>1, <4>1
      <4>2. CASE i \in 1..n
        <5>1. old[i] \in ArgSlots
          BY <2>2, <4>2, ElementOfSeq
        <5> QED
          BY <1>1, <2>2, <4>2, <5>1
      <4> QED
        BY <2>1, <4>1, <4>2
    <3> QED
      BY <2>1, <3>1, <3>2
  <2> HIDE DEF new, old
  <2>4. /\ Append(old, v) \in Seq(ArgSlots) /\ Len(Append(old, v)) = n + 1
        /\ \A i \in 1..n : Append(old, v)[i] = old[i]
        /\ Append(old, v)[n + 1] = v
    BY <2>1, <2>2, AppendProperties
  <2>5. ASSUME NEW i \in 1..(n + 1)
        PROVE  new[i] = Append(old, v)[i]
    BY <1>1, <2>1, <2>2, <2>3, <2>4
  <2>6. new = Append(old, v)
    BY <2>3, <2>4, <2>5, SeqEqual
  <2> QED
    BY <2>6 DEF new, old
<1> QED
  BY <1>5, <1>6, <1>7

\* Every step of evaluations without parent values keeps arrays unshared.
LEMMA UnsharedStep == TypeOK /\ Unshared /\ [NextLocal]_vars => Unshared'
<1> SUFFICES ASSUME TypeOK, Unshared, [NextLocal]_vars
             PROVE  Unshared'
  OBVIOUS
<1>0. MemoryOK
  BY DEF TypeOK
<1>1. CASE Eval
  <2>1. /\ DOMAIN scopes' = DOMAIN scopes
        /\ \A t \in DOMAIN scopes : scopes'[t].arr = scopes[t].arr
    BY <1>0, <1>1, InitRootKeepsMemory DEF Eval
  <2> QED
    BY <2>1 DEF Unshared
<1>2. CASE UNCHANGED scopeVars
  BY <1>2 DEF Unshared, scopeVars
<1>3. ASSUME NEW m \in 1..MaxSteps, NEW locs \in [1..m -> Locs], Enter(locs)
      PROVE  Unshared'
  <2>1. /\ \A t \in DOMAIN scopes : scopes'[t] = scopes[t]
        /\ \A t \in DOMAIN scopes' \ DOMAIN scopes : scopes'[t].arr = 0
    BY <1>0, <1>3, CurrentFacts, BoundsAssumption, ShiftKeepsMemory DEF Enter, At
  <2> SUFFICES ASSUME NEW t \in DOMAIN scopes', NEW u \in DOMAIN scopes',
                      t # u, scopes'[t].arr = scopes'[u].arr
               PROVE  scopes'[t].arr = 0
    BY DEF Unshared
  <2>2. CASE t \in DOMAIN scopes /\ u \in DOMAIN scopes
    BY <2>1, <2>2 DEF Unshared
  <2> QED
    BY <2>1, <2>2
<1>4. ASSUME NEW n \in Nat, DropArgs(Current.scope, n), frames # <<>>
      PROVE  Unshared'
  <2>1. /\ DOMAIN scopes' = DOMAIN scopes
        /\ \A t \in DOMAIN scopes : scopes'[t].arr \in {0, scopes[t].arr}
    BY <1>0, <1>4, CurrentFacts, DropKeepsMemory
  <2> QED
    BY <2>1 DEF Unshared
<1>5. ASSUME NEW v \in Args, Push(v)
      PROVE  Unshared'
  BY <1>0, <1>5, CurrentFacts, PushIsAppend DEF Push, At
<1>6. ASSUME NEW n \in ArgNumbers, Drop(n)
      PROVE  n \in Nat /\ DropArgs(Current.scope, n) /\ frames # <<>>
  BY <1>6, MaxInt32Assumption DEF Drop, At, ArgNumbers
<1>7. RangeDrop => 2 \in Nat /\ DropArgs(Current.scope, 2) /\ frames # <<>>
  BY DEF RangeDrop, At
<1>8. Call \/ Stay \/ Return \/ UNCHANGED vars => UNCHANGED scopeVars
  BY DEF Call, Stay, Return, vars, scopeVars
<1> QED
  BY <1>1, <1>2, <1>3, <1>4, <1>5, <1>6, <1>7, <1>8 DEF NextLocal

\* Without parent values the types are the same.
LEMMA LocalTypes == SpecLocal => []TypeOK
<1>1. SpecLocal => Spec
  <2>1. [NextLocal]_vars => [Next]_vars
    BY DEF Next
  <2> QED
    BY <2>1, PTL DEF SpecLocal, Spec
<1> QED
  BY <1>1, TypeCorrect, PTL

\* As long as no parent value is evaluated, no two scopes hold their arguments in
\* the same array.
THEOREM NoSharing == SpecLocal => []Unshared
<1>1. Init => Unshared
  BY DEF Init, Unshared
<1> QED
  BY <1>1, UnsharedStep, LocalTypes, PTL DEF SpecLocal

\* Then a push changes the arguments of no scope but its own.
THEOREM PushesAreLocal == SpecLocal => PushIsLocal
<1>1. TypeOK /\ Unshared =>
        [\A s \in DOMAIN scopes :
            (\E v \in Args : Push(v)) /\ s # Current.scope
                => OwnArgs(s)' = OwnArgs(s)]_vars
  BY CurrentFacts, PushIsAppend DEF TypeOK, Push, At
<1> QED
  BY <1>1, LocalTypes, NoSharing, PTL DEF PushIsLocal

\* The scopes are a tree.
LEMMA MemoryIsTree == MemoryOK => Tree
  BY MemoryFits, WellFormedTree

-----------------------------------------------------------------------------
(***************************************************************************)
(* Refinement.                                                             *)
(***************************************************************************)

StackOf  == [s \in DOMAIN scopes |-> OwnArgs(s)]
ParentOf == [s \in DOMAIN scopes |-> scopes[s].parent]
\* The scopes of the frames.
ScopesOf == [i \in DOMAIN frames |-> frames[i].scope]

\* They are numbers, one for each frame.
LEMMA FrameScopes ==
    ASSUME NEW fs \in Seq(Frame)
    PROVE  LET q == [i \in DOMAIN fs |-> fs[i].scope]
           IN  /\ q \in Seq(Nat) /\ Len(q) = Len(fs) /\ Len(fs) \in Nat
               /\ DOMAIN q = 1..Len(fs)
               /\ \A i \in 1..Len(fs) : q[i] = fs[i].scope
<1> DEFINE q == [i \in DOMAIN fs |-> fs[i].scope]
<1>1. Len(fs) \in Nat /\ DOMAIN fs = 1..Len(fs)
  BY LenProperties
<1>2. ASSUME NEW i \in 1..Len(fs)
      PROVE  fs[i].scope \in Nat
  <2>1. fs[i] \in Frame
    BY ElementOfSeq
  <2> QED
    BY <2>1 DEF Frame
<1>3. q \in [1..Len(fs) -> Nat]
  BY <1>1, <1>2
<1> QED
  BY <1>1, <1>3, Comprehension

\* The stacks that the slices stand for are sequences.
LEMMA StackFacts ==
    ASSUME MemoryOK
    PROVE  /\ StackOf \in Seq(Seq(ArgSlots)) /\ Len(StackOf) = Len(scopes)
           /\ Len(scopes) \in Nat /\ DOMAIN scopes = 1..Len(scopes)
           /\ DOMAIN StackOf = DOMAIN scopes
           /\ \A s \in DOMAIN scopes : StackOf[s] = OwnArgs(s)
<1>1. Len(scopes) \in Nat /\ DOMAIN scopes = 1..Len(scopes)
  BY LenProperties DEF MemoryOK
<1>2. StackOf \in [1..Len(scopes) -> Seq(ArgSlots)]
  BY <1>1, OwnArgsType DEF StackOf
<1> QED
  BY <1>1, <1>2, Comprehension DEF StackOf

\* Dropping cuts stacks.
LEMMA DropCuts ==
    ASSUME MemoryOK, NEW s \in DOMAIN scopes, NEW n \in Nat, DropArgs(s, n)
    PROVE  /\ DOMAIN StackOf' = DOMAIN StackOf
           /\ \A t \in DOMAIN StackOf : IsPrefix(StackOf'[t], StackOf[t])
<1>1. /\ arrays' = arrays
      /\ DOMAIN scopes' = DOMAIN scopes
      /\ \A t \in DOMAIN scopes :
            \/ scopes'[t].arr = 0 /\ scopes'[t].len = 0
            \/ scopes'[t].arr = scopes[t].arr /\ scopes'[t].len \in 0..scopes[t].len
  BY DropKeepsMemory
<1>2. ASSUME NEW t \in DOMAIN scopes
      PROVE  IsPrefix(OwnArgs(t)', OwnArgs(t))
  <2> DEFINE old == OwnArgs(t)
             new == OwnArgs(t)'
             m   == scopes'[t].len
             n1  == scopes[t].len
  <2>1. n1 \in Nat /\ m \in 0..n1
    BY <1>1, WindowFacts
  <2>2. /\ old \in Seq(ArgSlots) /\ Len(old) = n1
        /\ \A i \in 1..n1 : old[i] = arrays[scopes[t].arr][i]
    BY OwnArgsType
  <2>3. ASSUME NEW i \in 1..m
        PROVE  arrays'[scopes'[t].arr][i] = old[i]
    BY <1>1, <2>1, <2>2
  <2>4. new = [i \in 1..m |-> old[i]]
    BY <2>3 DEF OwnArgs
  <2> HIDE DEF old, new, m, n1
  <2>5. \A i \in 1..m : old[i] \in ArgSlots
    BY <2>1, <2>2, ElementOfSeq
  <2>6. new \in Seq(ArgSlots) /\ Len(new) = m /\ \A i \in 1..m : new[i] = old[i]
    BY <2>1, <2>4, <2>5
  <2>7. /\ SubSeq(old, 1, m) \in Seq(ArgSlots) /\ Len(SubSeq(old, 1, m)) = m
        /\ \A i \in 1..m : SubSeq(old, 1, m)[i] = old[i]
    BY <2>1, <2>2, <2>5
  <2>8. SubSeq(new, 1, m) = new
    BY <2>6, SubSeqFull
  <2>9. new = SubSeq(old, 1, m)
    BY <2>6, <2>7, SeqEqual
  <2> QED
    BY <2>1, <2>2, <2>6, <2>8, <2>9 DEF IsPrefix, new, old
<1> QED
  BY <1>1, <1>2 DEF StackOf

\* The pointers to parents are numbers below those of their scopes.
LEMMA ParentFacts ==
    ASSUME MemoryOK
    PROVE  /\ ParentOf \in Seq(Nat) /\ Len(ParentOf) = Len(scopes)
           /\ DOMAIN ParentOf = DOMAIN scopes
           /\ \A s \in DOMAIN scopes : /\ ParentOf[s] = scopes[s].parent
                                       /\ ParentOf[s] \in Nat /\ ParentOf[s] < s
<1>1. /\ Len(scopes) \in Nat /\ DOMAIN scopes = 1..Len(scopes)
      /\ \A s \in DOMAIN scopes : scopes[s].parent \in Nat /\ scopes[s].parent < s
  BY MemoryIsTree, TreeFacts
<1>2. ParentOf \in [1..Len(scopes) -> Nat]
  BY <1>1 DEF ParentOf
<1> QED
  BY <1>1, <1>2, Comprehension DEF ParentOf

\* A push leaves them alone.
LEMMA PushKeepsParents ==
    ASSUME MemoryOK, NEW s \in DOMAIN scopes, NEW v \in Args, PushArg(s, v)
    PROVE  \A t \in DOMAIN scopes : scopes'[t].parent = scopes[t].parent
<1> DEFINE a == scopes[s].arr
           n == scopes[s].len
<1>1. /\ scopes[s] \in ScopeNode /\ a \in Nat /\ n \in Nat /\ Cap(a) \in Nat
      /\ Len(scopes) \in Nat /\ DOMAIN scopes = 1..Len(scopes)
  BY WindowFacts, StackFacts
<1>2. CASE n < Cap(a)
  <2> DEFINE node == [scopes[s] EXCEPT !.len = n + 1]
  <2>1. node.parent = scopes[s].parent
    BY <1>1 DEF ScopeNode
  <2>2. scopes' = [scopes EXCEPT ![s] = node]
    BY <1>1, <1>2 DEF PushArg
  <2> HIDE DEF node
  <2> QED
    BY <1>1, <2>1, <2>2
<1>3. CASE n >= Cap(a)
  <2> DEFINE node == [scopes[s] EXCEPT !.arr = Len(arrays) + 1, !.len = n + 1]
  <2>1. node.parent = scopes[s].parent
    BY <1>1 DEF ScopeNode
  <2>2. scopes' = [scopes EXCEPT ![s] = node]
    BY <1>1, <1>3 DEF PushArg
  <2> HIDE DEF node
  <2> QED
    BY <1>1, <2>1, <2>2
<1> QED
  BY <1>1, <1>2, <1>3

\* The scopes that the abstract walk is made of are those that the walk visits.
LEMMA WalkIsPath ==
    ASSUME MemoryOK, NEW s \in DOMAIN scopes
    PROVE  \A t : t \in Abstract!Walk(s)
                    <=> t # 0 /\ \E k \in 0..Len(scopes) : Path(s)[k] = t
<1>1. PICK n \in Nat : n = Len(scopes) /\ DOMAIN scopes = 1..n
  BY MemoryIsTree, TreeFacts
<1>2. PICK p \in [0..n -> 0..n] :
         /\ p = Path(s) /\ p[0] = s
         /\ \A k \in 1..n : p[k] = IF p[k - 1] = 0 THEN 0 ELSE scopes[p[k - 1]].parent
  BY <1>1, MemoryIsTree, PathFacts DEF PathIsWalk
<1>3. PICK up : up = ParentOf
  OBVIOUS
<1>4. /\ DOMAIN up = 1..n
      /\ \A t \in 1..n : up[t] = scopes[t].parent /\ up[t] \in 0..n
  BY <1>1, <1>3, ParentFacts
<1>5. PICK all : all = {t \in 1..n : \E k \in 0..n : p[k] = t}
  OBVIOUS
<1>6. Abstract!Walk(s) =
         {t \in 1..n : \A W \in SUBSET (1..n) :
             s \in W /\ (\A u \in W : up[u] # 0 => up[u] \in W) => t \in W}
  BY <1>1, <1>3, <1>4 DEF Abstract!Walk, ParentOf
<1>7. Abstract!Walk(s) \subseteq all
  <2>1. p[n] = 0
    BY <1>1, <1>2, MemoryIsTree, WalkEnds
  <2>2. ASSUME NEW u \in all, up[u] # 0
        PROVE  up[u] \in all
    <3>1. PICK k \in 0..n : p[k] = u /\ u \in 1..n
      BY <1>5
    <3>2. k + 1 \in 1..n /\ (k + 1) - 1 = k
      BY <1>1, <2>1, <3>1
    <3>3. PICK j \in 1..n : j = k + 1 /\ j - 1 = k
      BY <3>2
    <3>4. p[j] = scopes[u].parent
      <4>1. p[j] = IF p[j - 1] = 0 THEN 0 ELSE scopes[p[j - 1]].parent
        BY <1>2
      <4>2. p[j - 1] = u /\ u # 0
        BY <3>1, <3>3
      <4> QED
        BY <4>1, <4>2
    <3>5. up[u] = scopes[u].parent /\ up[u] \in 1..n
      <4>1. up[u] = scopes[u].parent /\ up[u] \in 0..n
        BY <1>4, <3>1
      <4> QED
        BY <2>2, <4>1
    <3> QED
      BY <1>5, <3>4, <3>5
  <2>3. s \in all /\ all \in SUBSET (1..n)
    BY <1>1, <1>2, <1>5
  <2> QED
    BY <1>6, <2>2, <2>3
<1>8. all \subseteq Abstract!Walk(s)
  <2> SUFFICES ASSUME NEW W \in SUBSET (1..n), s \in W,
                      \A u \in W : up[u] # 0 => up[u] \in W
               PROVE  all \subseteq W
    BY <1>5, <1>6
  <2>1. PICK S : S = {k \in 0..n : p[k] # 0 => p[k] \in W}
    OBVIOUS
  <2>2. 0 \in S
    BY <1>2, <2>1
  <2>3. ASSUME NEW k \in 0..(n - 1), k \in S
        PROVE  k + 1 \in S
    <3>1. k + 1 \in 1..n /\ (k + 1) - 1 = k /\ k \in 0..n /\ k + 1 \in 0..n
      OBVIOUS
    <3>2. p[k + 1] = IF p[k] = 0 THEN 0 ELSE scopes[p[k]].parent
      BY <1>2, <3>1
    <3>3. p[k] # 0 => p[k] \in W /\ p[k] \in 1..n
      BY <1>2, <2>1, <2>3, <3>1
    <3>4. p[k + 1] # 0 => p[k + 1] \in W
      BY <1>4, <3>2, <3>3
    <3> QED
      BY <2>1, <3>1, <3>4
  <2>4. 0..n \subseteq S
    BY <2>2, <2>3, UpTo
  <2> QED
    BY <1>5, <2>1, <2>4
<1>9. ASSUME NEW t
      PROVE  t \in all <=> t # 0 /\ \E k \in 0..n : p[k] = t
  <2>1. ASSUME NEW k \in 0..n, p[k] = t, t # 0
        PROVE  t \in 1..n
    <3>1. p[k] \in 0..n
      BY <1>2
    <3> QED
      BY <2>1, <3>1
  <2>2. t \in all => t # 0
    BY <1>5
  <2> QED
    BY <1>5, <2>1, <2>2
<1> QED
  BY <1>1, <1>2, <1>7, <1>8, <1>9

\* What a drop takes is visible from the scope, and the newest: a stack is cut only when
\* those visited before it are empty afterwards.
LEMMA DropsNewest ==
    ASSUME MemoryOK, NEW s \in DOMAIN scopes, NEW n \in Nat, DropArgs(s, n),
           NEW t \in DOMAIN scopes, OwnArgs(t)' # OwnArgs(t)
    PROVE  /\ t \in Abstract!Walk(s)
           /\ \A u \in Abstract!Walk(s) : u > t => u \in DOMAIN scopes /\ OwnArgs(u)' = <<>>
<1>1. PICK N \in Nat : N = Len(scopes) /\ DOMAIN scopes = 1..N
  BY MemoryIsTree, TreeFacts
<1>2. PICK p \in [0..N -> 0..N] : p = Path(s)
  BY <1>1, MemoryIsTree, PathFacts DEF PathIsWalk
<1>3. PICK k \in DropEnds(s, n) :
         /\ scopes' = [v \in DOMAIN scopes |->
                          IF v = Path(s)[k]
                          THEN [scopes[v] EXCEPT !.len = @ - (n - Held(s)[k])]
                          ELSE IF \E j \in 0..(k - 1) : Path(s)[j] = v
                          THEN [scopes[v] EXCEPT !.arr = 0, !.len = 0]
                          ELSE scopes[v]]
         /\ UNCHANGED arrays
  BY DEF DropArgs
<1>4. k \in 0..N /\ p[k] # 0
  BY <1>1, <1>2, <1>3 DEF DropEnds
<1>5. \A i, j \in 0..N : i < j /\ p[j] # 0 => p[j] + (j - i) <= p[i]
  BY <1>1, <1>2, MemoryIsTree, WalkDescends
<1>6. PICK j \in 0..k : p[j] = t
  <2>1. arrays' = arrays
    BY <1>3
  <2>2. scopes'[t] # scopes[t]
    <3>1. scopes'[t] = scopes[t] => OwnArgs(t)' = OwnArgs(t)
      BY <2>1 DEF OwnArgs
    <3> QED
      BY <3>1
  <2>3. t = p[k] \/ \E j \in 0..(k - 1) : p[j] = t
    BY <1>2, <1>3, <2>2
  <2> QED
    BY <1>4, <2>3
<1>7. t # 0 /\ j \in 0..N
  BY <1>1, <1>4, <1>6
<1>8. ASSUME NEW u \in Abstract!Walk(s), u > t
      PROVE  u \in DOMAIN scopes /\ OwnArgs(u)' = <<>>
  <2>1. PICK i \in 0..N : p[i] = u /\ u # 0
    BY <1>1, <1>2, WalkIsPath
  <2>2. u \in 1..N /\ t \in 1..N
    BY <1>1, <1>2, <2>1
  <2>3. i < j
    <3>1. j < i => p[i] + (i - j) <= p[j]
      BY <1>5, <1>7, <2>1
    <3>2. ~(u + (i - j) <= t) \/ ~(j < i)
      BY <1>7, <1>8, <2>2
    <3>3. i # j
      BY <1>6, <1>8, <2>1, <2>2
    <3> QED
      BY <1>6, <1>7, <2>1, <3>1, <3>2, <3>3
  <2>4. i \in 0..(k - 1) /\ p[k] # u
    <3>1. i < k
      BY <1>4, <1>6, <2>3
    <3>2. p[k] + (k - i) <= p[i] /\ p[k] \in 0..N
      BY <1>2, <1>4, <1>5, <2>1, <3>1
    <3> QED
      BY <1>4, <2>1, <2>2, <3>1, <3>2
  <2>5. scopes'[u] = [scopes[u] EXCEPT !.arr = 0, !.len = 0]
    <3>1. u # Path(s)[k] /\ Path(s)[i] = u /\ u \in DOMAIN scopes
      BY <1>1, <1>2, <2>1, <2>2, <2>4
    <3> QED
      BY <1>3, <2>4, <3>1
  <2>6. scopes[u] \in ScopeNode
    BY <1>1, <2>2, ElementOfSeq DEF MemoryOK
  <2>7. scopes'[u].len = 0
    BY <2>5, <2>6 DEF ScopeNode
  <2> QED
    BY <1>1, <2>2, <2>7 DEF OwnArgs
<1> QED
  BY <1>1, <1>2, <1>6, <1>7, <1>8, WalkIsPath

\* Entering a scope adds the pointers from each new scope to the one it is entered from.
LEMMA ShiftAddsParents ==
    ASSUME MemoryOK, NEW s \in DOMAIN scopes, NEW m \in Nat \ {0},
           NEW locs \in [1..m -> Locs], Shift(s, locs)
    PROVE  ParentOf' = ParentOf \o [i \in 1..m |-> IF i = 1 THEN s ELSE Len(scopes) + i - 1]
<1>1. PICK n \in Nat : n = Len(scopes) /\ DOMAIN scopes = 1..n
  BY MemoryIsTree, TreeFacts
<1>2. PICK new : new = [i \in 1..m |-> IF i = 1 THEN s ELSE n + i - 1]
  OBVIOUS
<1>3. new \in Seq(Nat) /\ Len(new) = m
  BY <1>1, <1>2, Comprehension
<1>4. PICK old \in Seq(Nat) : old = ParentOf /\ Len(old) = n
  BY <1>1, ParentFacts
<1>5. \A t \in 1..n : old[t] = scopes[t].parent
  BY <1>1, <1>4, ParentFacts
<1>6. /\ old \o new \in Seq(Nat) /\ Len(old \o new) = n + m
      /\ \A t \in 1..(n + m) : (old \o new)[t] = IF t <= n THEN old[t] ELSE new[t - n]
  BY <1>1, <1>3, <1>4, ConcatProperties
<1>7. /\ DOMAIN scopes' = 1..(n + m)
      /\ \A t \in 1..n : scopes'[t] = scopes[t]
  <2>1. MemoryOK' /\ Len(scopes') = n + m /\ \A t \in DOMAIN scopes : scopes'[t] = scopes[t]
    BY <1>1, ShiftKeepsMemory
  <2> QED
    BY <1>1, <2>1, LenProperties DEF MemoryOK
<1>8. ASSUME NEW t \in 1..(n + m), t > n
      PROVE  scopes'[t].parent = new[t - n]
  <2> DEFINE node(i) == [arr |-> 0, len |-> 0, loc |-> locs[i],
                         parent |-> IF i = 1 THEN s ELSE n + i - 1]
  <2>1. PICK nodes : nodes = [i \in 1..m |-> node(i)]
    OBVIOUS
  <2>2. scopes' = scopes \o nodes
    BY <1>1, <2>1, LenProperties DEF Shift
  <2>3. nodes \in Seq(ScopeNode) /\ Len(nodes) = m
    <3>1. \A i \in 1..m : node(i) \in ScopeNode
      BY <1>1 DEF ScopeNode
    <3> HIDE DEF node
    <3> QED
      BY <2>1, <3>1, Comprehension
  <2>4. scopes'[t] = nodes[t - n]
    BY <1>1, <1>8, <2>2, <2>3, ConcatProperties DEF MemoryOK
  <2>5. t - n \in 1..m
    BY <1>1, <1>8
  <2>6. PICK i \in 1..m : i = t - n
    BY <2>5
  <2>7. scopes'[t] = nodes[i] /\ nodes[i] = node(i)
    BY <2>1, <2>4, <2>6
  <2>8. node(i).parent = new[i]
    BY <1>2
  <2> QED
    BY <2>6, <2>7, <2>8
<1>9. ASSUME NEW t \in 1..(n + m)
      PROVE  scopes'[t].parent = (old \o new)[t]
  <2>1. CASE t <= n
    <3>1. t \in 1..n /\ (old \o new)[t] = old[t]
      BY <1>6, <2>1
    <3> QED
      BY <1>5, <1>7, <3>1
  <2>2. CASE t > n
    <3>1. (old \o new)[t] = new[t - n]
      BY <1>6, <2>2
    <3> QED
      BY <1>8, <2>2, <3>1
  <2>3. t <= n \/ t > n
    BY <1>1
  <2> QED
    BY <2>1, <2>2, <2>3
<1>10. ParentOf' = [t \in 1..(n + m) |-> (old \o new)[t]]
  BY <1>7, <1>9 DEF ParentOf
<1>11. ParentOf' = old \o new
  BY <1>6, <1>10, LenProperties
<1> QED
  BY <1>1, <1>2, <1>4, <1>11

\* Entering a scope adds empty stacks.
LEMMA ShiftAddsEmpty ==
    ASSUME MemoryOK, NEW s \in DOMAIN scopes, NEW m \in Nat \ {0},
           NEW locs \in [1..m -> Locs], Shift(s, locs)
    PROVE  /\ Len(StackOf') = Len(StackOf) + m
           /\ StackOf' = StackOf \o [i \in 1..m |-> <<>>]
<1> DEFINE n == Len(scopes)
           empty == [i \in 1..m |-> <<>>]
<1>1. /\ MemoryOK' /\ arrays' = arrays /\ Len(scopes') = n + m
      /\ \A t \in DOMAIN scopes : t \in DOMAIN scopes' /\ scopes'[t] = scopes[t]
      /\ \A t \in DOMAIN scopes' \ DOMAIN scopes :
            scopes'[t].arr = 0 /\ scopes'[t].len = 0
  BY ShiftKeepsMemory
<1>2. DOMAIN scopes' = 1..(n + m) /\ n \in Nat /\ DOMAIN scopes = 1..n
  BY <1>1, LenProperties DEF MemoryOK
<1>3. /\ StackOf \in Seq(Seq(ArgSlots)) /\ Len(StackOf) = n
      /\ \A t \in 1..n : StackOf[t] = OwnArgs(t)
  BY <1>2, StackFacts
<1>4. /\ empty \in Seq(Seq(ArgSlots)) /\ Len(empty) = m
      /\ \A i \in 1..m : empty[i] = <<>>
  <2>1. empty \in [1..m -> Seq(ArgSlots)]
    BY EmptySeq
  <2> QED
    BY <2>1, Comprehension
<1> HIDE DEF empty
<1>5. ASSUME NEW t \in 1..(n + m)
      PROVE  OwnArgs(t)' = IF t <= n THEN StackOf[t] ELSE empty[t - n]
  <2>1. CASE t <= n
    <3>1. t \in 1..n /\ scopes'[t] = scopes[t] /\ arrays' = arrays
      BY <1>1, <1>2, <2>1
    <3>2. OwnArgs(t)' = OwnArgs(t)
      BY <3>1 DEF OwnArgs
    <3> QED
      BY <1>3, <2>1, <3>1, <3>2
  <2>2. CASE t > n
    <3>1. OwnArgs(t)' = [i \in 1..0 |-> arrays'[scopes'[t].arr][i]]
      BY <1>1, <1>2, <2>2 DEF OwnArgs
    <3>2. t - n \in 1..m
      BY <1>2, <2>2
    <3> QED
      BY <1>2, <1>4, <2>2, <3>1, <3>2
  <2> QED
    BY <1>2, <2>1, <2>2
<1> DEFINE old == StackOf
           all == old \o empty
<1>6. /\ all \in Seq(Seq(ArgSlots)) /\ Len(all) = n + m
      /\ \A t \in 1..(n + m) : all[t] = IF t <= n THEN old[t] ELSE empty[t - n]
  <2>1. old \in Seq(Seq(ArgSlots)) /\ Len(old) = n
    BY <1>3
  <2> HIDE DEF old
  <2>2. n \in Nat /\ m \in Nat
    BY <1>2
  <2>3. /\ all \in Seq(Seq(ArgSlots)) /\ Len(all) = Len(old) + Len(empty)
        /\ \A t \in 1..(Len(old) + Len(empty)) :
              all[t] = IF t <= Len(old) THEN old[t] ELSE empty[t - Len(old)]
    BY <1>4, <2>1, ConcatProperties
  <2> QED
    BY <1>4, <2>1, <2>2, <2>3
<1>7. StackOf' = [t \in 1..(n + m) |-> OwnArgs(t)']
  BY <1>2 DEF StackOf
<1>8. StackOf' = all
  <2>1. DOMAIN all = 1..(n + m) /\ all = [t \in DOMAIN all |-> all[t]]
    <3> HIDE DEF all
    <3> QED
      BY <1>6, LenProperties
  <2>2. \A t \in 1..(n + m) : OwnArgs(t)' = all[t]
    BY <1>5, <1>6
  <2> HIDE DEF all
  <2> QED
    BY <1>7, <2>1, <2>2
<1> QED
  BY <1>3, <1>6, <1>8 DEF empty

\* The abstract scope stack, read off the frames.
LEMMA AbstractCurrent ==
    ASSUME TypeOK
    PROVE  /\ ScopesOf \in Seq(Nat) /\ Len(ScopesOf) = Len(frames) /\ Len(frames) \in Nat
           /\ DOMAIN ScopesOf = 1..Len(frames)
           /\ ScopesOf = <<>> <=> frames = <<>>
           /\ frames # <<>> => Last(ScopesOf) = Current.scope
<1>1. /\ ScopesOf \in Seq(Nat) /\ Len(ScopesOf) = Len(frames) /\ Len(frames) \in Nat
      /\ DOMAIN ScopesOf = 1..Len(frames)
      /\ \A i \in 1..Len(frames) : ScopesOf[i] = frames[i].scope
  BY FrameScopes DEF TypeOK, ScopesOf
<1>2. ScopesOf = <<>> <=> frames = <<>>
  BY <1>1, EmptySeq DEF TypeOK
<1>3. ASSUME frames # <<>>
      PROVE  Last(ScopesOf) = Current.scope
  BY <1>1, <1>3, CurrentFacts DEF Last
<1> QED
  BY <1>1, <1>2, <1>3

\* A step of the current evaluation to scope p.
LEMMA AbstractGoto ==
    ASSUME TypeOK, frames # <<>>, NEW p \in Nat,
           NEW point \in {"scope", "drop", "body", "parent"}, Goto(p, point)
    PROVE  /\ ScopesOf' = [ScopesOf EXCEPT ![Len(ScopesOf)] = p]
           /\ p = Current.scope => ScopesOf' = ScopesOf
<1>1. /\ DOMAIN frames' = DOMAIN frames /\ DOMAIN frames = 1..Len(frames)
      /\ \A i \in DOMAIN frames :
            frames'[i].scope = IF i = Len(frames) THEN p ELSE frames[i].scope
      /\ Len(frames) \in DOMAIN frames /\ Current.scope = frames[Len(frames)].scope
      /\ Len(ScopesOf) = Len(frames)
  BY GotoFacts, CurrentFacts, AbstractCurrent
<1>2. ScopesOf' = [ScopesOf EXCEPT ![Len(ScopesOf)] = p]
  BY <1>1 DEF ScopesOf
<1>3. ASSUME p = Current.scope
      PROVE  ScopesOf' = ScopesOf
  BY <1>1, <1>3 DEF ScopesOf
<1> QED
  BY <1>2, <1>3

\* Every step without parent values is one of ArgStacks, or changes no stack.
LEMMA StackStep == TypeOK /\ Unshared /\ [NextLocal]_vars => [Abstract!Next]_(Abstract!vars)
<1> SUFFICES ASSUME TypeOK, Unshared, [NextLocal]_vars
             PROVE  [Abstract!Next]_<<StackOf, ParentOf, ScopesOf>>
  BY DEF Abstract!vars, StackOf, ParentOf, ScopesOf
<1> DEFINE Goal == [Abstract!Next]_<<StackOf, ParentOf, ScopesOf>>
<1>0. /\ MemoryOK /\ frames \in Seq(Frame) /\ DOMAIN scopes = 1..Len(scopes)
      /\ UNCHANGED scopeVars => StackOf' = StackOf /\ ParentOf' = ParentOf
  BY StackFacts DEF TypeOK, scopeVars, StackOf, ParentOf, OwnArgs
<1> USE DEF Abstract!Current
\* The sequence operators of the instance are those of this module.
<1>same. /\ \A q : Abstract!Last(q) = Last(q) /\ Abstract!Front(q) = Front(q)
         /\ \A q, r : Abstract!IsPrefix(q, r) = IsPrefix(q, r)
  BY DEF Last, Abstract!Last, Front, Abstract!Front, IsPrefix, Abstract!IsPrefix
<1>1. CASE Eval
  <2>1. DOMAIN scopes' = DOMAIN scopes /\ UNCHANGED arrays
        /\ \A t \in DOMAIN scopes :
              scopes'[t].arr = scopes[t].arr /\ scopes'[t].len = scopes[t].len
    BY <1>0, <1>1, InitRootKeepsMemory DEF Eval
  <2>2. StackOf' = StackOf
    BY <2>1 DEF StackOf, OwnArgs
  <2>3. ScopesOf = <<>> /\ ScopesOf' = <<1>>
    BY <1>1 DEF Eval, ScopesOf
  <2>4. ParentOf' = ParentOf
    <3>1. PICK N : scopes \in Seq(N) /\ N = ScopeNode
      BY <1>0 DEF MemoryOK
    <3>2. scopes[1].parent = 0 /\ 1 \in DOMAIN scopes
      BY <1>0, <1>1, InitRootKeepsMemory, ParentFacts DEF Eval
    <3>3. scopes[1] \in ScopeNode
      BY <1>0, <3>1, <3>2, ElementOfSeq
    <3>4. \A t \in DOMAIN scopes : scopes'[t].parent = scopes[t].parent
      BY <1>1, <3>2, <3>3 DEF Eval, InitRoot, ScopeNode
    <3> QED
      BY <2>1, <3>4 DEF ParentOf
  <2>5. Abstract!Call
    BY <2>2, <2>3, <2>4 DEF Abstract!Call, StackOf, ParentOf, ScopesOf
  <2> QED
    BY <2>5 DEF Abstract!Next
<1>2. CASE Call
  <2> DEFINE f == [scope |-> Current.scope, at |-> "scope"]
  <2>1. frames # <<>> /\ frames' = Append(frames, f) /\ UNCHANGED scopeVars
    BY <1>2 DEF Call, At
  <2>2. f \in Frame /\ f.scope = Current.scope /\ Current.scope \in Nat
    BY <2>1, CurrentFacts DEF Frame
  <2> HIDE DEF f
  <2>3. /\ frames' \in Seq(Frame) /\ Len(frames') = Len(frames) + 1
        /\ \A i \in 1..Len(frames) : frames'[i] = frames[i]
        /\ frames'[Len(frames) + 1] = f
    BY <1>0, <2>1, <2>2, AppendProperties
  <2>4. /\ ScopesOf' \in Seq(Nat) /\ Len(ScopesOf') = Len(frames) + 1
        /\ \A i \in 1..(Len(frames) + 1) : ScopesOf'[i] = frames'[i].scope
    BY <2>3, FrameScopes DEF ScopesOf
  <2>5. /\ ScopesOf \in Seq(Nat) /\ Len(ScopesOf) = Len(frames) /\ Len(frames) \in Nat
        /\ \A i \in 1..Len(frames) : ScopesOf[i] = frames[i].scope
    BY <1>0, FrameScopes DEF ScopesOf
  <2> DEFINE old == ScopesOf
             new == ScopesOf'
             c   == Current.scope
  <2> HIDE DEF old, new, c
  <2>6. /\ Append(old, c) \in Seq(Nat) /\ Len(Append(old, c)) = Len(frames) + 1
        /\ \A i \in 1..Len(frames) : Append(old, c)[i] = old[i]
        /\ Append(old, c)[Len(frames) + 1] = c
    BY <2>2, <2>5, AppendProperties DEF old, c
  <2>7. ASSUME NEW i \in 1..(Len(frames) + 1)
        PROVE  new[i] = Append(old, c)[i]
    <3>1. new[i] = frames'[i].scope
      BY <2>4 DEF new
    <3>2. CASE i = Len(frames) + 1
      BY <2>2, <2>3, <2>6, <3>1, <3>2 DEF c
    <3>3. CASE i # Len(frames) + 1
      <4>1. i \in 1..Len(frames)
        BY <2>5, <3>3
      <4>2. frames'[i] = frames[i] /\ old[i] = frames[i].scope
        BY <2>3, <2>5, <4>1 DEF old
      <4> QED
        BY <2>6, <3>1, <4>1, <4>2
    <3> QED
      BY <3>2, <3>3
  <2>8. new = Append(old, c)
    BY <2>4, <2>6, <2>7, SeqEqual DEF new
  <2>9. ScopesOf # <<>> /\ Last(ScopesOf) = c
    BY <2>1, AbstractCurrent DEF c
  <2>10. ScopesOf' = Append(ScopesOf, IF ScopesOf = <<>> THEN 1 ELSE Abstract!Last(ScopesOf))
    BY <1>same, <2>8, <2>9 DEF old, new
  <2>11. StackOf' = StackOf /\ ParentOf' = ParentOf
    BY <1>0, <2>1
  <2>12. Abstract!Call
    BY <2>10, <2>11 DEF Abstract!Call, StackOf, ParentOf, ScopesOf
  <2> QED
    BY <2>12 DEF Abstract!Next
<1>3. CASE Stay
  <2>1. frames # <<>> /\ Goto(Current.scope, "drop") /\ UNCHANGED scopeVars
    BY <1>3 DEF Stay, At
  <2> QED
    BY <1>0, <2>1, CurrentFacts, AbstractGoto
<1>4. ASSUME NEW m \in 1..MaxSteps, NEW locs \in [1..m -> Locs], Enter(locs)
      PROVE  Goal
  <2>1. /\ frames # <<>> /\ Goto(Len(scopes'), "drop") /\ Shift(Current.scope, locs)
        /\ m \in Nat \ {0}
    BY <1>4, BoundsAssumption DEF Enter, At, NewScope
  <2>2. /\ Len(StackOf') = Len(StackOf) + m
        /\ StackOf' = StackOf \o [i \in 1..m |-> <<>>]
        /\ Len(scopes') = Len(scopes) + m
        /\ Len(StackOf) = Len(scopes) /\ Len(scopes) \in Nat
    BY <1>0, <2>1, CurrentFacts, ShiftAddsEmpty, ShiftKeepsMemory, StackFacts
  <2>3. ScopesOf' = [ScopesOf EXCEPT ![Len(ScopesOf)] = Len(scopes')] /\ Len(scopes') \in Nat
    BY <2>1, <2>2, AbstractGoto
  <2>4. /\ ScopesOf # <<>> /\ Len(StackOf') > Len(StackOf)
        /\ Len(StackOf') - Len(StackOf) = m /\ Len(StackOf') = Len(scopes')
        /\ Abstract!Last(ScopesOf) = Current.scope
    BY <1>same, <2>1, <2>2, AbstractCurrent
  <2>5. ParentOf' = ParentOf \o [i \in 1..m |->
                       IF i = 1 THEN Abstract!Last(ScopesOf) ELSE Len(StackOf) + i - 1]
    <3>1. PICK s \in DOMAIN scopes : s = Current.scope
      BY <2>1, CurrentFacts
    <3>2. Shift(s, locs)
      BY <2>1, <3>1
    <3>3. ParentOf' = ParentOf \o [i \in 1..m |-> IF i = 1 THEN s ELSE Len(scopes) + i - 1]
      BY <1>0, <2>1, <3>2, ShiftAddsParents
    <3> QED
      BY <2>2, <2>4, <3>1, <3>3
  <2>6. Abstract!Enter
    BY <2>2, <2>3, <2>4, <2>5 DEF Abstract!Enter, StackOf, ParentOf, ScopesOf
  <2> QED
    BY <2>6 DEF Abstract!Next
<1>5. ASSUME NEW n \in Nat, DropArgs(Current.scope, n), frames # <<>>, ScopesOf' = ScopesOf
      PROVE  Goal
  <2>1. ScopesOf # <<>>
    BY <1>5, AbstractCurrent
  <2>2. Current.scope \in DOMAIN scopes
    BY <1>5, CurrentFacts
  <2>3. /\ DOMAIN StackOf' = DOMAIN StackOf
        /\ \A t \in DOMAIN StackOf : Abstract!IsPrefix(StackOf'[t], StackOf[t])
    BY <1>same, <1>0, <1>5, <2>2, DropCuts
  <2>4. PICK s \in DOMAIN scopes : s = Current.scope
    BY <2>2
  <2>5. Abstract!Last(ScopesOf) = s
    BY <1>same, <1>5, <2>4, AbstractCurrent
  <2>6. ASSUME NEW t \in DOMAIN StackOf, StackOf'[t] # StackOf[t]
        PROVE  /\ t \in Abstract!Walk(s)
               /\ \A u \in Abstract!Walk(s) : u > t => StackOf'[u] = <<>>
    <3>1. DOMAIN StackOf = DOMAIN scopes /\ DOMAIN scopes' = DOMAIN scopes
      BY <1>0, <1>5, <2>2, DropKeepsMemory DEF StackOf
    <3>2. OwnArgs(t)' # OwnArgs(t)
      BY <2>6, <3>1 DEF StackOf
    <3>3. /\ t \in Abstract!Walk(s)
          /\ \A u \in Abstract!Walk(s) : u > t => u \in DOMAIN scopes /\ OwnArgs(u)' = <<>>
      BY <1>0, <1>5, <2>4, <3>1, <3>2, DropsNewest
    <3> QED
      BY <3>1, <3>3 DEF StackOf
  <2>7. ParentOf' = ParentOf
    <3>1. \A t \in DOMAIN scopes : scopes'[t].parent = scopes[t].parent
      BY <1>0, <1>5, <2>2, MemoryIsTree, DropByNode
    <3> QED
      BY <1>0, <1>5, <2>2, <3>1, DropKeepsMemory DEF ParentOf
  <2>8. Abstract!Drop
    BY <1>5, <2>1, <2>3, <2>5, <2>6, <2>7 DEF Abstract!Drop, StackOf, ParentOf, ScopesOf
  <2> QED
    BY <2>8 DEF Abstract!Next
<1>6. ASSUME NEW n \in ArgNumbers, Drop(n)
      PROVE  Goal
  <2>1. /\ n \in Nat /\ frames # <<>> /\ DropArgs(Current.scope, n)
        /\ Goto(Current.scope, "body")
    BY <1>6, MaxInt32Assumption DEF Drop, At, ArgNumbers
  <2> QED
    BY <1>5, <2>1, CurrentFacts, AbstractGoto
<1>7. CASE RangeDrop
  <2>1. frames # <<>> /\ DropArgs(Current.scope, 2) /\ ScopesOf' = ScopesOf
    BY <1>7 DEF RangeDrop, At, ScopesOf
  <2> QED
    BY <1>5, <2>1
<1>8. ASSUME NEW v \in Args, Push(v)
      PROVE  Goal
  <2>0. frames # <<>>
    BY <1>8 DEF Push, At
  <2> PICK s \in DOMAIN scopes : s = Current.scope
    BY <2>0, CurrentFacts
  <2>1. /\ frames # <<>> /\ PushArg(s, v) /\ s \in DOMAIN scopes /\ ScopesOf' = ScopesOf
    BY <1>8, <2>0 DEF Push, ScopesOf
  <2>2. s = Last(ScopesOf) /\ ScopesOf # <<>>
    BY <2>1, AbstractCurrent
  <2>3. DOMAIN scopes' = DOMAIN scopes
    BY <1>0, <2>1 DEF PushArg
  <2>4. /\ OwnArgs(s)' = Append(OwnArgs(s), v)
        /\ \A t \in DOMAIN scopes : t # s => OwnArgs(t)' = OwnArgs(t)
    BY <1>0, <2>1, PushIsAppend
  <2>5. StackOf' = [StackOf EXCEPT ![s] = Append(@, v)]
    BY <2>1, <2>3, <2>4 DEF StackOf
  <2>6. StackOf' = [StackOf EXCEPT ![Abstract!Last(ScopesOf)] = Append(@, v)]
    BY <1>same, <2>2, <2>5
  <2>7. ParentOf' = ParentOf
    <3>1. \A t \in DOMAIN scopes : scopes'[t].parent = scopes[t].parent
      BY <1>0, <2>1, PushKeepsParents
    <3> QED
      BY <2>3, <3>1 DEF ParentOf
  <2>8. Abstract!Push(v)
    BY <2>1, <2>2, <2>6, <2>7 DEF Abstract!Push, StackOf, ParentOf, ScopesOf
  <2> QED
    BY <2>8 DEF Abstract!Next
<1>9. CASE Return
  <2>1. frames # <<>> /\ frames' = Front(frames) /\ UNCHANGED scopeVars
    BY <1>9 DEF Return
  <2>2. /\ frames' \in Seq(Frame) /\ Len(frames') = Len(frames) - 1
        /\ \A i \in 1..(Len(frames) - 1) : frames'[i] = frames[i]
    BY <1>0, <2>1, FrontFacts
  <2>3. /\ ScopesOf' \in Seq(Nat) /\ Len(ScopesOf') = Len(frames) - 1
        /\ \A i \in 1..(Len(frames) - 1) : ScopesOf'[i] = frames'[i].scope
    BY <2>2, FrameScopes DEF ScopesOf
  <2>4. /\ ScopesOf \in Seq(Nat) /\ Len(ScopesOf) = Len(frames) /\ Len(frames) \in Nat
        /\ \A i \in 1..Len(frames) : ScopesOf[i] = frames[i].scope
        /\ ScopesOf # <<>>
    BY <1>0, <2>1, FrameScopes, AbstractCurrent DEF ScopesOf
  <2> DEFINE old == ScopesOf
             new == ScopesOf'
  <2> HIDE DEF old, new
  <2>5. /\ Front(old) \in Seq(Nat) /\ Len(Front(old)) = Len(frames) - 1
        /\ \A i \in 1..(Len(frames) - 1) : Front(old)[i] = old[i]
    BY <2>4, FrontFacts DEF old
  <2>6. ASSUME NEW i \in 1..(Len(frames) - 1)
        PROVE  new[i] = Front(old)[i]
    <3>1. i \in 1..Len(frames)
      BY <2>4
    <3>2. ScopesOf[i] = frames[i].scope /\ ScopesOf'[i] = frames'[i].scope
      BY <2>3, <2>4, <3>1
    <3>3. frames'[i] = frames[i] /\ Front(old)[i] = old[i]
      BY <2>2, <2>5
    <3> QED
      BY <3>2, <3>3 DEF old, new
  <2>7. new = Front(old)
    BY <2>3, <2>5, <2>6, SeqEqual DEF new
  <2>8. ScopesOf' = Abstract!Front(ScopesOf)
    BY <1>same, <2>7 DEF old, new
  <2>9. StackOf' = StackOf /\ ParentOf' = ParentOf
    BY <1>0, <2>1
  <2>10. Abstract!Return
    BY <2>4, <2>8, <2>9 DEF Abstract!Return, StackOf, ParentOf, ScopesOf
  <2> QED
    BY <2>10 DEF Abstract!Next
<1>10. CASE UNCHANGED vars
  BY <1>0, <1>10 DEF vars, scopeVars, ScopesOf
<1> QED
  BY <1>1, <1>2, <1>3, <1>4, <1>6, <1>7, <1>8, <1>9, <1>10 DEF NextLocal

\* Evaluations without parent values implement one argument stack for each scope,
\* although windows on growing arrays are all they have.
THEOREM Implementation == SpecLocal => ImplementsArgStacks
<1>1. Init => Abstract!Init
  <2> SUFFICES ASSUME Init
               PROVE  StackOf = << <<>> >> /\ ParentOf = <<0>> /\ ScopesOf = <<>>
    BY DEF Abstract!Init, StackOf, ParentOf, ScopesOf
  <2>1. DOMAIN scopes = {1} /\ scopes[1].len = 0 /\ scopes[1].parent = 0 /\ DOMAIN frames = {}
    BY DEF Init
  <2>2. OwnArgs(1) = <<>>
    BY <2>1 DEF OwnArgs
  <2> QED
    BY <2>1, <2>2 DEF StackOf, ParentOf, ScopesOf
<1> QED
  BY <1>1, StackStep, LocalTypes, NoSharing, PTL
     DEF SpecLocal, ImplementsArgStacks, Abstract!Spec

-----------------------------------------------------------------------------
(***************************************************************************)
(* Arguments by number, in evaluations of every kind.                      *)
(***************************************************************************)

\* No window reaches into the part of an array that was never assigned.
Filled ==
    \A s \in DOMAIN scopes : \A i \in 1..scopes[s].len : arrays[scopes[s].arr][i] \in Args

\* The slots of a window after a push, into a shared array also: those before it, or
\* the new argument.
LEMMA PushSlots ==
    ASSUME MemoryOK, NEW s \in DOMAIN scopes, NEW v \in Args, PushArg(s, v),
           NEW t \in DOMAIN scopes, NEW i \in 1..scopes'[t].len
    PROVE  \/ arrays'[scopes'[t].arr][i] = v
           \/ /\ i \in 1..scopes[t].len
              /\ arrays'[scopes'[t].arr][i] = arrays[scopes[t].arr][i]
<1>1. WellFormed(ArgSlots, Locs) /\ ZeroArg \in ArgSlots /\ v \in ArgSlots
  BY MemoryFits DEF ArgSlots
<1> QED BY <1>1, PushedSlots

\* Every scope is the copy of one, after a shift to the parent.
LEMMA CopyOfScope ==
    ASSUME MemoryOK, NEW s \in DOMAIN scopes, ShiftToParent(s)
    PROVE  /\ arrays' = arrays
           /\ \A t \in DOMAIN scopes' : \E u \in DOMAIN scopes : scopes'[t] = scopes[u]
<1>1. WellFormed(ArgSlots, Locs)
  BY MemoryFits
<1> QED BY <1>1, ParentCopies

\* Every step keeps the windows filled.
LEMMA FilledStep == TypeOK /\ Filled /\ [Next]_vars => Filled'
<1> SUFFICES ASSUME TypeOK, Filled, [Next]_vars
             PROVE  Filled'
  OBVIOUS
<1>0. MemoryOK
  BY DEF TypeOK
<1>1. CASE Eval
  <2>1. /\ DOMAIN scopes' = DOMAIN scopes /\ arrays' = arrays
        /\ \A t \in DOMAIN scopes :
              scopes'[t].arr = scopes[t].arr /\ scopes'[t].len = scopes[t].len
    BY <1>0, <1>1, InitRootKeepsMemory DEF Eval
  <2> QED BY <2>1 DEF Filled
<1>2. CASE UNCHANGED scopeVars
  BY <1>2 DEF Filled, scopeVars
<1>3. ASSUME NEW m \in 1..MaxSteps, NEW locs \in [1..m -> Locs], Enter(locs)
      PROVE  Filled'
  <2>1. Current.scope \in DOMAIN scopes /\ Shift(Current.scope, locs) /\ m \in Nat \ {0}
    BY <1>3, CurrentFacts, BoundsAssumption DEF Enter, At
  <2>2. /\ arrays' = arrays
        /\ \A t \in DOMAIN scopes : scopes'[t] = scopes[t]
        /\ \A t \in DOMAIN scopes' \ DOMAIN scopes : scopes'[t].len = 0
    BY <1>0, <2>1, ShiftKeepsMemory
  <2>3. ASSUME NEW t \in DOMAIN scopes', NEW i \in 1..scopes'[t].len
        PROVE  arrays'[scopes'[t].arr][i] \in Args
    <3>1. t \in DOMAIN scopes
      BY <2>2, <2>3
    <3> QED BY <2>2, <2>3, <3>1 DEF Filled
  <2> QED BY <2>3 DEF Filled
<1>4. ASSUME NEW n \in Nat, frames # <<>>, DropArgs(Current.scope, n)
      PROVE  Filled'
  <2>1. /\ arrays' = arrays /\ DOMAIN scopes' = DOMAIN scopes
        /\ \A t \in DOMAIN scopes :
              \/ scopes'[t].arr = 0 /\ scopes'[t].len = 0
              \/ scopes'[t].arr = scopes[t].arr /\ scopes'[t].len \in 0..scopes[t].len
    BY <1>0, <1>4, CurrentFacts, DropKeepsMemory
  <2>2. ASSUME NEW t \in DOMAIN scopes, NEW i \in 1..scopes'[t].len
        PROVE  arrays'[scopes'[t].arr][i] \in Args
    <3>1. scopes[t].len \in Nat
      BY <1>0, WindowFacts
    <3>2. scopes'[t].arr = scopes[t].arr /\ i \in 1..scopes[t].len
      BY <2>1, <2>2, <3>1
    <3> QED BY <2>1, <3>2 DEF Filled
  <2> QED BY <2>1, <2>2 DEF Filled
<1>5. ASSUME NEW v \in Args, Push(v)
      PROVE  Filled'
  <2>1. Current.scope \in DOMAIN scopes /\ PushArg(Current.scope, v)
    BY <1>5, CurrentFacts DEF Push, At
  <2>2. DOMAIN scopes' = DOMAIN scopes
    BY <1>0, <2>1, PushKeepsMemory
  <2>3. ASSUME NEW t \in DOMAIN scopes, NEW i \in 1..scopes'[t].len
        PROVE  arrays'[scopes'[t].arr][i] \in Args
    <3>1. \/ arrays'[scopes'[t].arr][i] = v
          \/ /\ i \in 1..scopes[t].len
             /\ arrays'[scopes'[t].arr][i] = arrays[scopes[t].arr][i]
      BY <1>0, <2>1, <2>3, PushSlots
    <3> QED BY <3>1 DEF Filled
  <2> QED BY <2>2, <2>3 DEF Filled
<1>6. CASE Parent
  <2>1. Current.scope \in DOMAIN scopes /\ ShiftToParent(Current.scope)
    BY <1>6, CurrentFacts DEF Parent, At
  <2>2. arrays' = arrays /\ \A t \in DOMAIN scopes' : \E u \in DOMAIN scopes : scopes'[t] = scopes[u]
    BY <1>0, <2>1, CopyOfScope
  <2> QED BY <2>2 DEF Filled
<1>7. ASSUME NEW n \in ArgNumbers, Drop(n) PROVE Filled'
  BY <1>4, <1>7, MaxInt32Assumption DEF ArgNumbers, Drop, At
<1>8. CASE RangeDrop
  BY <1>4, <1>8 DEF RangeDrop, At
<1> QED BY <1>1, <1>2, <1>3, <1>5, <1>6, <1>7, <1>8
     DEF Next, NextLocal, Call, Stay, Return, vars, scopeVars

\* The numbered arguments are the elements of the list of all arguments, however many
\* scopes they are spread over, and each of them was pushed.
THEOREM ArgsAreNumbered == Spec => []ArgIsIndexOfVisible
<1>1. Init => Filled
  BY DEF Init, Filled
<1>2. TypeOK /\ Filled => ArgIsIndexOfVisible
  <2> SUFFICES ASSUME TypeOK, Filled, NEW s \in DOMAIN scopes, NEW n \in 0..MaxInt32
               PROVE  /\ HasArg(s, n) <=> n < Len(Visible(s))
                      /\ HasArg(s, n) => /\ Arg(s, n) = Visible(s)[n + 1]
                                         /\ Arg(s, n) # ZeroArg
    BY DEF ArgIsIndexOfVisible
  <2>1. Tree
    BY MemoryIsTree DEF TypeOK
  <2>2. /\ HasArg(s, n) <=> n < Len(Visible(s))
        /\ HasArg(s, n) => Arg(s, n) = Visible(s)[n + 1]
    <3>1. n \in Nat /\ n <= MaxInt32
      BY MaxInt32Assumption
    <3>2. HasArg(s, n) <=> n < Len(Visible(s))
      BY <2>1, <3>1, PlaceExists, VisibleFacts DEF HasArg
    <3> QED BY <2>1, <3>1, <3>2, ArgIsElement
  <2>3. ASSUME HasArg(s, n) PROVE Arg(s, n) # ZeroArg
    <3>1. Visible(s)[n + 1] \in Slots
      <4>1. Visible(s) \in Seq(Slots) /\ n + 1 \in 1..Len(Visible(s))
        BY <2>1, <2>2, <2>3, VisibleFacts, MaxInt32Assumption
      <4> QED BY <4>1, ElementOfSeq
    <3>2. Slots \subseteq Args
      BY DEF Slots, Filled
    <3> QED BY <2>2, <2>3, <3>1, <3>2, ZeroArgAssumption
  <2> QED BY <2>2, <2>3
<1> QED
  BY <1>1, <1>2, FilledStep, TypeCorrect, PTL DEF Spec

\* A drop removes the arguments numbered 0 to n-1 of the current scope and renumbers
\* the others, however many scopes it empties on the way.
THEOREM DropsAreExact == Spec => DropIsExact
<1>1. TypeOK =>
        [\A n \in ArgNumbers :
            Drop(n) => Visible(Current.scope)' = SubSeq(Visible(Current.scope), n + 1,
                                                       Len(Visible(Current.scope)))]_vars
  <2> SUFFICES ASSUME TypeOK, NEW n \in ArgNumbers, Drop(n)
               PROVE  Visible(Current.scope)' = SubSeq(Visible(Current.scope), n + 1,
                                                      Len(Visible(Current.scope)))
    OBVIOUS
  <2>1. /\ Tree /\ n \in Nat /\ Current.scope \in DOMAIN scopes /\ frames # <<>>
        /\ DropArgs(Current.scope, n) /\ Goto(Current.scope, "body")
    BY MemoryIsTree, CurrentFacts, MaxInt32Assumption DEF TypeOK, Drop, At, ArgNumbers
  <2>2. PICK s \in DOMAIN scopes : s = Current.scope
    BY <2>1
  <2>3. Current.scope' = s
    <3>1. /\ frames' \in Seq(Frame) /\ DOMAIN frames' = DOMAIN frames
          /\ \A i \in DOMAIN frames :
                frames'[i].scope = IF i = Len(frames) THEN s ELSE frames[i].scope
      BY <2>1, <2>2, CurrentFacts, GotoFacts
    <3>2. /\ Len(frames) \in Nat /\ DOMAIN frames = 1..Len(frames)
          /\ Len(frames) \in DOMAIN frames
      BY <2>1, CurrentFacts, LenProperties DEF TypeOK
    <3>3. Len(frames') = Len(frames)
      BY <3>1, <3>2, LenProperties
    <3> QED BY <3>1, <3>2, <3>3 DEF Current, Last
  <2>4. Visible(s)' = SubSeq(Visible(s), n + 1, Len(Visible(s)))
    BY <2>1, <2>2, DropIsCut
  <2> QED BY <2>2, <2>3, <2>4
<1> QED
  BY <1>1, TypeCorrect, PTL DEF Spec, DropIsExact

-----------------------------------------------------------------------------
(***************************************************************************)
(* Argument lists: the iterator of celArgList ends and yields the list,    *)
(* and equality of lists is equality of their elements.                    *)
(***************************************************************************)

\* No scope holds more arguments than the bound of the model allows.
OwnBounded == \A s \in DOMAIN scopes : scopes[s].len <= MaxOwn

\* Only a push adds arguments, and it keeps to the bound.
LEMMA OwnBoundedStep == TypeOK /\ OwnBounded /\ [Next]_vars => OwnBounded'
<1> SUFFICES ASSUME TypeOK, OwnBounded, [Next]_vars
             PROVE  OwnBounded'
  OBVIOUS
<1>0. MemoryOK /\ MaxOwn \in Nat
  BY BoundsAssumption DEF TypeOK
<1>1. CASE Eval
  <2>1. /\ DOMAIN scopes' = DOMAIN scopes
        /\ \A t \in DOMAIN scopes : scopes'[t].len = scopes[t].len
    BY <1>0, <1>1, InitRootKeepsMemory DEF Eval
  <2> QED BY <2>1 DEF OwnBounded
<1>2. CASE UNCHANGED scopeVars
  BY <1>2 DEF OwnBounded, scopeVars
<1>3. ASSUME NEW m \in 1..MaxSteps, NEW locs \in [1..m -> Locs], Enter(locs)
      PROVE  OwnBounded'
  <2>1. Current.scope \in DOMAIN scopes /\ Shift(Current.scope, locs) /\ m \in Nat \ {0}
    BY <1>3, CurrentFacts, BoundsAssumption DEF Enter, At
  <2>2. /\ \A t \in DOMAIN scopes : scopes'[t] = scopes[t]
        /\ \A t \in DOMAIN scopes' \ DOMAIN scopes : scopes'[t].len = 0
    BY <1>0, <2>1, ShiftKeepsMemory
  <2> QED BY <1>0, <2>2 DEF OwnBounded
<1>4. ASSUME NEW n \in Nat, frames # <<>>, DropArgs(Current.scope, n)
      PROVE  OwnBounded'
  <2>1. /\ DOMAIN scopes' = DOMAIN scopes
        /\ \A t \in DOMAIN scopes : scopes'[t].len = 0 \/ scopes'[t].len \in 0..scopes[t].len
    BY <1>0, <1>4, CurrentFacts, DropKeepsMemory
  <2>2. \A t \in DOMAIN scopes : scopes[t].len \in Nat
    BY <1>0, WindowFacts
  <2> QED BY <1>0, <2>1, <2>2 DEF OwnBounded
<1>5. ASSUME NEW v \in Args, Push(v)
      PROVE  OwnBounded'
  <2>1. PICK s \in DOMAIN scopes : s = Current.scope
    BY <1>5, CurrentFacts DEF Push, At
  <2>2. PushArg(s, v) /\ scopes[s].len < MaxOwn
    BY <1>5, <2>1 DEF Push
  <2>3. /\ DOMAIN scopes' = DOMAIN scopes
        /\ \A t \in DOMAIN scopes : t # s => scopes'[t] = scopes[t]
        /\ scopes'[s].len = scopes[s].len + 1
    BY <1>0, <2>2, PushKeepsMemory, PushFacts
  <2>4. scopes[s].len \in Nat
    BY <1>0, WindowFacts
  <2> QED BY <1>0, <2>2, <2>3, <2>4 DEF OwnBounded
<1>6. CASE Parent
  <2>1. Current.scope \in DOMAIN scopes /\ ShiftToParent(Current.scope)
    BY <1>6, CurrentFacts DEF Parent, At
  <2>2. \A t \in DOMAIN scopes' : \E u \in DOMAIN scopes : scopes'[t] = scopes[u]
    BY <1>0, <2>1, CopyOfScope
  <2> QED BY <2>2 DEF OwnBounded
<1>7. ASSUME NEW n \in ArgNumbers, Drop(n) PROVE OwnBounded'
  BY <1>4, <1>7, MaxInt32Assumption DEF ArgNumbers, Drop, At
<1>8. CASE RangeDrop
  BY <1>4, <1>8 DEF RangeDrop, At
<1> QED BY <1>1, <1>2, <1>3, <1>5, <1>6, <1>7, <1>8
     DEF Next, NextLocal, Call, Stay, Return, vars, scopeVars

\* The bound is an invariant.
LEMMA OwnIsBounded == Spec => []OwnBounded
<1>1. Init => OwnBounded
  BY BoundsAssumption DEF Init, OwnBounded
<1> QED BY <1>1, OwnBoundedStep, TypeCorrect, PTL DEF Spec

\* Equality of argument lists is equality of the lists.
THEOREM EqualityIsExact == Spec => []EqualIsSameList
<1>1. TypeOK => EqualIsSameList
  <2> SUFFICES ASSUME TypeOK, NEW s \in DOMAIN scopes, NEW t \in DOMAIN scopes
               PROVE  Equal(s, t) <=> Visible(s) = Visible(t)
    BY DEF EqualIsSameList
  <2>1. Tree
    BY MemoryIsTree DEF TypeOK
  <2>2. PICK v \in Seq(Slots) : v = Visible(s)
    BY <2>1, VisibleFacts
  <2>3. PICK w \in Seq(Slots) : w = Visible(t)
    BY <2>1, VisibleFacts
  <2>4. Len(v) = Size(s) /\ Len(w) = Size(t) /\ Len(v) \in Nat /\ Len(w) \in Nat
    BY <2>1, <2>2, <2>3, VisibleFacts DEF Size
  <2>5. ASSUME NEW i \in 0..(Size(s) - 1) PROVE Arg(s, i) = v[i + 1]
    <3>1. i \in Nat /\ i < Len(Visible(s))
      BY <2>2, <2>4
    <3> QED BY <2>1, <2>2, <3>1, ArgIsElement
  <2>6. ASSUME NEW i \in 0..(Size(t) - 1) PROVE Arg(t, i) = w[i + 1]
    <3>1. i \in Nat /\ i < Len(Visible(t))
      BY <2>3, <2>4
    <3> QED BY <2>1, <2>3, <3>1, ArgIsElement
  <2>7. ASSUME Equal(s, t) PROVE v = w
    <3>1. Len(v) = Len(w) /\ \A i \in 0..(Size(s) - 1) : v[i + 1] = w[i + 1]
      BY <2>4, <2>5, <2>6, <2>7 DEF Equal
    <3>2. ASSUME NEW i \in 1..Len(v) PROVE v[i] = w[i]
      <4>1. i - 1 \in 0..(Size(s) - 1) /\ (i - 1) + 1 = i
        BY <2>4
      <4> QED BY <3>1, <4>1
    <3> QED BY <3>1, <3>2, SeqEqual
  <2>8. ASSUME v = w PROVE Equal(s, t)
    BY <2>4, <2>5, <2>6, <2>8 DEF Equal
  <2> QED BY <2>2, <2>3, <2>7, <2>8
<1> QED BY <1>1, TypeCorrect, PTL

-----------------------------------------------------------------------------
(***************************************************************************)
(* The iterator.                                                           *)
(***************************************************************************)

\* States of an iterator: a scope and a position in its window.
Iterators ==
    {it \in [scope : DOMAIN scopes, pos : Nat, seen : Seq(Slots)] :
        it.pos <= scopes[it.scope].len}

\* The three kinds of steps of an iterator: to the next argument, to the parent, none.
LEMMA IterStepCases ==
    \A it \in Iterators :
        /\ it.pos > 0 =>
              IterStep(it) = [scope |-> it.scope, pos |-> it.pos - 1,
                              seen |-> Append(it.seen, arrays[scopes[it.scope].arr][it.pos])]
        /\ it.pos = 0 /\ scopes[it.scope].parent # 0 =>
              IterStep(it) = [scope |-> scopes[it.scope].parent,
                              pos   |-> scopes[scopes[it.scope].parent].len,
                              seen  |-> it.seen]
        /\ it.pos = 0 /\ scopes[it.scope].parent = 0 => IterStep(it) = it
<1> SUFFICES ASSUME NEW it \in Iterators
             PROVE  /\ it.pos > 0 =>
                          IterStep(it) = [scope |-> it.scope, pos |-> it.pos - 1,
                             seen |-> Append(it.seen, arrays[scopes[it.scope].arr][it.pos])]
                    /\ it.pos = 0 /\ scopes[it.scope].parent # 0 =>
                          IterStep(it) = [scope |-> scopes[it.scope].parent,
                                          pos   |-> scopes[scopes[it.scope].parent].len,
                                          seen  |-> it.seen]
                    /\ it.pos = 0 /\ scopes[it.scope].parent = 0 => IterStep(it) = it
  OBVIOUS
<1>1. PICK s \in DOMAIN scopes, n \in Nat, q \in Seq(Slots) :
         s = it.scope /\ n = it.pos /\ q = it.seen
  BY DEF Iterators
<1>2. it = [scope |-> s, pos |-> n, seen |-> q]
  BY <1>1 DEF Iterators
<1>3. ASSUME n > 0
      PROVE  IterStep(it) = [scope |-> s, pos |-> n - 1,
                             seen |-> Append(q, arrays[scopes[s].arr][n])]
  <2>1. PICK m : m = n - 1
    OBVIOUS
  <2>2. PICK r : r = Append(q, arrays[scopes[s].arr][n])
    OBVIOUS
  <2>3. IterStep(it) = [it EXCEPT !.pos = m, !.seen = r]
    BY <1>1, <1>3, <2>1, <2>2 DEF IterStep
  <2>4. PICK jt : jt = [it EXCEPT !.pos = m]
    OBVIOUS
  <2>5. jt = [scope |-> s, pos |-> m, seen |-> q]
    BY <1>2, <2>4
  <2>6. IterStep(it) = [jt EXCEPT !.seen = r]
    BY <2>3, <2>4
  <2>7. IterStep(it) = [scope |-> s, pos |-> m, seen |-> r]
    BY <2>5, <2>6
  <2> QED BY <2>1, <2>2, <2>7
<1>4. ASSUME n = 0, scopes[s].parent # 0
      PROVE  IterStep(it) = [scope |-> scopes[s].parent,
                             pos   |-> scopes[scopes[s].parent].len, seen |-> q]
  <2>1. PICK t : t = scopes[s].parent
    OBVIOUS
  <2>2. PICK m : m = scopes[t].len
    OBVIOUS
  <2>3. IterStep(it) = [it EXCEPT !.scope = t, !.pos = m]
    BY <1>1, <1>4, <2>1, <2>2 DEF IterStep
  <2>4. PICK jt : jt = [it EXCEPT !.scope = t]
    OBVIOUS
  <2>5. jt = [scope |-> t, pos |-> n, seen |-> q]
    BY <1>2, <2>4
  <2>6. IterStep(it) = [jt EXCEPT !.pos = m]
    BY <2>3, <2>4
  <2>7. IterStep(it) = [scope |-> t, pos |-> m, seen |-> q]
    BY <2>5, <2>6
  <2> QED BY <2>1, <2>2, <2>7
<1>5. n = 0 /\ scopes[s].parent = 0 => IterStep(it) = it
  BY <1>1 DEF IterStep
<1> QED BY <1>1, <1>3, <1>4, <1>5

\* An iterator stays at a scope.
LEMMA IteratorType ==
    Tree => /\ \A s \in DOMAIN scopes : Iterator(s) \in Iterators
            /\ \A it \in Iterators : IterStep(it) \in Iterators
<1> SUFFICES ASSUME Tree
             PROVE  /\ \A s \in DOMAIN scopes : Iterator(s) \in Iterators
                    /\ \A it \in Iterators : IterStep(it) \in Iterators
  OBVIOUS
<1>1. ASSUME NEW s \in DOMAIN scopes PROVE Iterator(s) \in Iterators
  <2>1. PICK n \in Nat : n = scopes[s].len
    BY TreeFacts
  <2>2. PICK e \in Seq(Slots) : e = <<>>
    BY EmptySeq
  <2>3. Iterator(s) = [scope |-> s, pos |-> n, seen |-> e]
    BY <2>1, <2>2 DEF Iterator
  <2> QED BY <2>1, <2>3 DEF Iterators
<1>2. ASSUME NEW it \in Iterators PROVE IterStep(it) \in Iterators
  <2>1. PICK s \in DOMAIN scopes, n \in Nat, q \in Seq(Slots) :
           /\ s = it.scope /\ n = it.pos /\ q = it.seen
           /\ n <= scopes[s].len
           /\ it = [scope |-> s, pos |-> n, seen |-> q]
    BY DEF Iterators
  <2>2. scopes[s].len \in Nat /\ scopes[s].parent \in Nat /\ scopes[s].parent < s
    BY TreeFacts
  <2>3. CASE n > 0
    <3>1. PICK x \in Slots : x = arrays[scopes[s].arr][n]
      BY <2>1, <2>2, <2>3 DEF Slots
    <3>2. PICK r \in Seq(Slots) : r = Append(q, x)
      BY AppendProperties
    <3>3. PICK m \in Nat : m = n - 1 /\ m <= scopes[s].len
      BY <2>1, <2>2, <2>3
    <3>4. IterStep(it) = [scope |-> it.scope, pos |-> it.pos - 1,
                          seen |-> Append(it.seen, arrays[scopes[it.scope].arr][it.pos])]
      BY <2>1, <2>3, IterStepCases
    <3>5. IterStep(it) = [scope |-> s, pos |-> m, seen |-> r]
      BY <2>1, <3>1, <3>2, <3>3, <3>4
    <3> QED BY <3>3, <3>5 DEF Iterators
  <2>4. CASE n = 0 /\ scopes[s].parent # 0
    <3>1. PICK t \in DOMAIN scopes : t = scopes[s].parent
      BY <2>2, <2>4, TreeFacts
    <3>2. PICK m \in Nat : m = scopes[t].len
      BY TreeFacts
    <3>3. IterStep(it) = [scope |-> scopes[it.scope].parent,
                          pos   |-> scopes[scopes[it.scope].parent].len,
                          seen  |-> it.seen]
      BY <2>1, <2>4, IterStepCases
    <3>4. IterStep(it) = [scope |-> t, pos |-> m, seen |-> q]
      BY <2>1, <3>1, <3>2, <3>3
    <3> QED BY <3>2, <3>4 DEF Iterators
  <2>5. CASE n = 0 /\ scopes[s].parent = 0
    <3>1. IterStep(it) = it
      BY <2>1, <2>5, IterStepCases
    <3> QED BY <3>1
  <2> QED BY <2>3, <2>4, <2>5
<1> QED BY <1>1, <1>2

\* The n-th state of the iteration from s: its scope is a node k of the walk, and what
\* it has seen is the list up to its position there.  It has made a step for each
\* argument and each scope, unless it is at the end.
IsAt(it, s, n) ==
    \E k \in 0..(Len(scopes) - 1) :
        /\ it.scope = Path(s)[k]
        /\ Len(it.seen) = Held(s)[k] + scopes[it.scope].len - it.pos
        /\ \A i \in 1..Len(it.seen) : it.seen[i] = Visible(s)[i]
        /\ \/ n = k + Len(it.seen)
           \/ it.pos = 0 /\ scopes[it.scope].parent = 0

\* It begins with all arguments ahead,
LEMMA IteratorStarts ==
    Tree => \A s \in DOMAIN scopes : IsAt(Iterator(s), s, 0)
<1> SUFFICES ASSUME Tree, NEW s \in DOMAIN scopes
             PROVE  IsAt(Iterator(s), s, 0)
  OBVIOUS
<1>1. PICK N \in Nat : N = Len(scopes) /\ DOMAIN scopes = 1..N
  BY TreeFacts
<1>2. PICK n \in Nat : n = scopes[s].len
  BY TreeFacts
<1>3. PICK it : it = Iterator(s)
  OBVIOUS
<1>4. it.scope = s /\ it.pos = n /\ it.seen = <<>> /\ Len(it.seen) = 0
  BY <1>2, <1>3 DEF Iterator
<1>5. Path(s)[0] = s /\ Held(s)[0] = 0
  BY PathFacts, HeldFacts DEF PathIsWalk, HeldIsSum
<1>6. 0 \in 0..(N - 1) /\ 0 = 0 + n - n /\ 0 = 0 + 0
  BY <1>1
<1>7. /\ it.scope = Path(s)[0]
      /\ Len(it.seen) = Held(s)[0] + scopes[it.scope].len - it.pos
      /\ \A i \in 1..Len(it.seen) : it.seen[i] = Visible(s)[i]
      /\ 0 = 0 + Len(it.seen)
  BY <1>2, <1>4, <1>5, <1>6
<1> QED BY <1>1, <1>3, <1>6, <1>7 DEF IsAt

\* and each Next leaves one less.
LEMMA IteratorGoesOn ==
    Tree => \A s \in DOMAIN scopes : \A it \in Iterators : \A n \in Nat :
        IsAt(it, s, n) => IsAt(IterStep(it), s, n + 1)
<1> SUFFICES ASSUME Tree, NEW s \in DOMAIN scopes, NEW it \in Iterators, NEW n \in Nat,
                    IsAt(it, s, n)
             PROVE  IsAt(IterStep(it), s, n + 1)
  OBVIOUS
<1>1. PICK N \in Nat : N = Len(scopes) /\ DOMAIN scopes = 1..N
  BY TreeFacts
<1>2. PICK x \in DOMAIN scopes, pos \in Nat, q \in Seq(Slots) :
         /\ x = it.scope /\ pos = it.pos /\ q = it.seen
         /\ pos <= scopes[x].len
         /\ it = [scope |-> x, pos |-> pos, seen |-> q]
  BY DEF Iterators
<1>3. PICK k \in 0..(N - 1) :
         /\ x = Path(s)[k]
         /\ Len(q) = Held(s)[k] + scopes[x].len - pos
         /\ \A i \in 1..Len(q) : q[i] = Visible(s)[i]
         /\ \/ n = k + Len(q)
            \/ pos = 0 /\ scopes[x].parent = 0
  BY <1>1, <1>2 DEF IsAt
<1>4. k \in 0..N /\ k + 1 \in 1..N /\ (k + 1) - 1 = k /\ x # 0
  BY <1>1
<1>5. PICK h \in Nat : h = Held(s)[k]
  BY <1>1, <1>4, HeldFacts DEF HeldIsSum
<1>6. PICK len \in Nat : len = scopes[x].len
  BY TreeFacts
<1>7. PICK l \in Nat : l = Len(q) /\ l = h + len - pos /\ pos <= len
  BY <1>2, <1>3, <1>5, <1>6
<1>8. CASE pos > 0
  <2>1. PICK m \in Nat : m = pos - 1
    BY <1>8
  <2>2. k \in ArgAt(s, l)
    <3>1. l - h \in 0..(len - 1)
      BY <1>7, <1>8
    <3> QED BY <1>1, <1>3, <1>4, <1>5, <1>6, <3>1 DEF ArgAt
  <2>3. Visible(s)[l + 1] = arrays[scopes[x].arr][pos]
    <3>1. Visible(s)[l + 1] = arrays[scopes[Path(s)[k]].arr]
                                    [scopes[Path(s)[k]].len - (l - Held(s)[k])]
      BY <2>2, PlaceFacts
    <3>2. len - (l - h) = pos
      BY <1>7
    <3> QED BY <1>3, <1>5, <1>6, <3>1, <3>2
  <2>4. PICK y \in Slots : y = arrays[scopes[x].arr][pos]
    BY <1>6, <1>7, <1>8 DEF Slots
  <2>5. PICK r \in Seq(Slots) :
           /\ r = Append(q, y) /\ Len(r) = l + 1 /\ r[l + 1] = y
           /\ \A i \in 1..l : r[i] = q[i]
    <3>1. /\ Append(q, y) \in Seq(Slots) /\ Len(Append(q, y)) = Len(q) + 1
          /\ \A i \in 1..Len(q) : Append(q, y)[i] = q[i]
          /\ Append(q, y)[Len(q) + 1] = y
      BY AppendProperties
    <3> QED BY <1>7, <3>1
  <2>6. PICK new : new = IterStep(it)
    OBVIOUS
  <2>7. new.scope = x /\ new.pos = m /\ new.seen = r
    <3>1. IterStep(it) = [scope |-> it.scope, pos |-> it.pos - 1,
                          seen |-> Append(it.seen, arrays[scopes[it.scope].arr][it.pos])]
      BY <1>2, <1>8, IterStepCases
    <3>2. new = [scope |-> x, pos |-> m, seen |-> r]
      BY <1>2, <2>1, <2>4, <2>5, <2>6, <3>1
    <3> QED BY <3>2
  <2>8. \A i \in 1..(l + 1) : r[i] = Visible(s)[i]
    <3> SUFFICES ASSUME NEW i \in 1..(l + 1) PROVE r[i] = Visible(s)[i]
      OBVIOUS
    <3>1. i \in 1..l \/ i = l + 1
      OBVIOUS
    <3> QED BY <1>3, <1>7, <2>3, <2>4, <2>5, <3>1
  <2>9. l + 1 = h + len - m /\ n + 1 = k + (l + 1)
    <3>1. n = k + l
      BY <1>3, <1>7, <1>8
    <3> QED BY <1>7, <2>1, <3>1
  <2>10. /\ new.scope = Path(s)[k]
         /\ Len(new.seen) = Held(s)[k] + scopes[new.scope].len - new.pos
         /\ \A i \in 1..Len(new.seen) : new.seen[i] = Visible(s)[i]
         /\ n + 1 = k + Len(new.seen)
    BY <1>3, <1>5, <1>6, <2>5, <2>7, <2>8, <2>9
  <2> QED BY <1>1, <2>6, <2>10 DEF IsAt
<1>9. CASE pos = 0 /\ scopes[x].parent # 0
  <2>1. PICK p \in 1..N : p = scopes[x].parent
    BY <1>1, <1>9, TreeFacts
  <2>2. Path(s)[k + 1] = p
    <3>1. Path(s)[k + 1] = IF Path(s)[(k + 1) - 1] = 0 THEN 0
                           ELSE scopes[Path(s)[(k + 1) - 1]].parent
      BY <1>1, <1>4, PathFacts DEF PathIsWalk
    <3> QED BY <1>3, <1>4, <2>1, <3>1
  <2>3. k + 1 # N /\ k + 1 \in 0..(N - 1)
    <3>1. Path(s)[N] = 0
      BY <1>1, WalkEnds
    <3>2. k + 1 # N
      BY <2>2, <3>1
    <3> QED BY <1>4, <3>2
  <2>4. Held(s)[k + 1] = h + len
    BY <1>1, <1>3, <1>4, <1>5, <1>6, HeldFacts DEF HeldIsSum
  <2>5. PICK m \in Nat : m = scopes[p].len
    BY <1>1, TreeFacts
  <2>6. PICK new : new = IterStep(it)
    OBVIOUS
  <2>7. new.scope = p /\ new.pos = m /\ new.seen = q
    <3>1. IterStep(it) = [scope |-> scopes[it.scope].parent,
                          pos   |-> scopes[scopes[it.scope].parent].len,
                          seen  |-> it.seen]
      BY <1>2, <1>9, IterStepCases
    <3>2. new = [scope |-> p, pos |-> m, seen |-> q]
      BY <1>2, <2>1, <2>5, <2>6, <3>1
    <3> QED BY <3>2
  <2>8. l = (h + len) + m - m /\ n + 1 = (k + 1) + l
    <3>1. n = k + l
      BY <1>3, <1>7, <1>9
    <3> QED BY <1>7, <1>9, <3>1
  <2>9. /\ new.scope = Path(s)[k + 1]
        /\ Len(new.seen) = Held(s)[k + 1] + scopes[new.scope].len - new.pos
        /\ \A i \in 1..Len(new.seen) : new.seen[i] = Visible(s)[i]
        /\ n + 1 = (k + 1) + Len(new.seen)
    BY <1>3, <1>7, <2>2, <2>4, <2>5, <2>7, <2>8
  <2> QED BY <1>1, <2>3, <2>6, <2>9 DEF IsAt
<1>10. CASE pos = 0 /\ scopes[x].parent = 0
  <2>1. IterStep(it) = it
    BY <1>2, <1>10, IterStepCases
  <2> QED BY <1>1, <1>2, <1>3, <1>10, <2>1 DEF IsAt
<1> QED BY <1>8, <1>9, <1>10

\* The number of steps that Iterated takes.
Steps == Len(scopes) * (MaxOwn + 1)

\* Iterated is the end of a sequence of steps of the iterator.
LEMMA IteratedFacts ==
    Tree /\ MaxOwn \in Nat => \A s \in DOMAIN scopes :
        /\ Steps \in Nat
        /\ \E f \in [0..Steps -> Iterators] :
              /\ f[0] = Iterator(s)
              /\ \A k \in 1..Steps : f[k] = IterStep(f[k - 1])
              /\ Iterated(s) = f[Steps].seen
<1> SUFFICES ASSUME Tree, MaxOwn \in Nat, NEW s \in DOMAIN scopes
             PROVE  /\ Steps \in Nat
                    /\ \E f \in [0..Steps -> Iterators] :
                          /\ f[0] = Iterator(s)
                          /\ \A k \in 1..Steps : f[k] = IterStep(f[k - 1])
                          /\ Iterated(s) = f[Steps].seen
  OBVIOUS
<1>1. PICK n \in Nat : n = Steps
  <2>1. PICK N \in Nat : N = Len(scopes)
    BY TreeFacts
  <2>2. N * (MaxOwn + 1) \in Nat
    OBVIOUS
  <2> QED BY <2>1, <2>2 DEF Steps
<1>2. PICK b \in Iterators : b = Iterator(s)
  BY IteratorType
<1>3. PICK step : step = [p \in (1..n) \X Iterators |-> IterStep(p[2])]
  OBVIOUS
<1>4. step \in [(1..n) \X Iterators -> Iterators]
  <2>1. \A p \in (1..n) \X Iterators : IterStep(p[2]) \in Iterators
    BY IteratorType
  <2> QED BY <1>3, <2>1
<1>5. PICK f \in [0..n -> Iterators] : Follows(f, n, b, step)
  BY <1>4, Recursion
<1>6. ASSUME NEW k \in 1..n PROVE f[k] = IterStep(f[k - 1])
  <2>1. PICK x \in Iterators : x = f[k - 1]
    BY <1>5
  <2>2. f[k] = step[<<k, x>>]
    BY <1>5, <2>1 DEF Follows
  <2>3. step[<<k, x>>] = IterStep(x)
    BY <1>3
  <2> QED BY <2>1, <2>2, <2>3
<1>7. f = [k \in 0..n |-> IF k = 0 THEN b ELSE IterStep(f[k - 1])]
  <2>1. PICK h : h = [k \in 0..n |-> IF k = 0 THEN b ELSE IterStep(f[k - 1])]
    OBVIOUS
  <2>2. ASSUME NEW k \in 0..n PROVE f[k] = h[k]
    <3>1. CASE k = 0
      BY <1>5, <2>1, <3>1 DEF Follows
    <3>2. CASE k # 0
      <4>1. k \in 1..n
        BY <3>2
      <4> QED BY <1>6, <2>1, <4>1
    <3> QED BY <3>1, <3>2
  <2>3. f = h
    BY <1>5, <2>1, <2>2
  <2> QED BY <2>1, <2>3
<1>8. PICK g : g = CHOOSE r : r = [k \in 0..n |-> IF k = 0 THEN b ELSE IterStep(r[k - 1])]
  OBVIOUS
<1>9. g = [k \in 0..n |-> IF k = 0 THEN b ELSE IterStep(g[k - 1])]
  BY <1>7, <1>8
<1>10. Iterated(s) = g[n].seen
  BY <1>1, <1>2, <1>8 DEF Iterated, Steps
<1>11. g[0] = b
  BY <1>9
<1>12. ASSUME NEW k \in 1..n PROVE g[k] = IterStep(g[k - 1])
  <2>1. k \in 0..n /\ k # 0
    OBVIOUS
  <2> QED BY <1>9, <2>1
<1>13. PICK S : S = {k \in 0..n : g[k] \in Iterators}
  OBVIOUS
<1>14. 0 \in S
  BY <1>11, <1>13
<1>15. ASSUME NEW k \in 0..(n - 1), k \in S PROVE k + 1 \in S
  <2>1. k + 1 \in 1..n /\ (k + 1) - 1 = k /\ g[k] \in Iterators
    BY <1>13, <1>15
  <2>2. g[k + 1] = IterStep(g[k])
    BY <1>12, <2>1
  <2>3. g[k + 1] \in Iterators
    BY <2>1, <2>2, IteratorType
  <2> QED BY <1>13, <2>1, <2>3
<1>16. 0..n \subseteq S
  BY <1>14, <1>15, UpTo
<1>17. g \in [0..n -> Iterators]
  <2>1. g = [k \in 0..n |-> g[k]]
    BY <1>9
  <2>2. \A k \in 0..n : g[k] \in Iterators
    BY <1>13, <1>16
  <2> QED BY <2>1, <2>2
<1> QED BY <1>1, <1>2, <1>10, <1>11, <1>12, <1>17

\* Where no scope holds more than MaxOwn arguments, k scopes of a walk hold no more than
\* k times as many.
LEMMA HeldIsBounded ==
    Tree /\ MaxOwn \in Nat /\ OwnBounded => \A s \in DOMAIN scopes :
        \A k \in 0..Len(scopes) : Held(s)[k] <= k * MaxOwn
<1> SUFFICES ASSUME Tree, MaxOwn \in Nat, OwnBounded, NEW s \in DOMAIN scopes
             PROVE  \A k \in 0..Len(scopes) : Held(s)[k] <= k * MaxOwn
  OBVIOUS
<1>1. PICK N \in Nat : N = Len(scopes) /\ DOMAIN scopes = 1..N
  BY TreeFacts
<1>2. PICK h \in [0..N -> Nat] : h = Held(s)
  BY <1>1, HeldFacts DEF HeldIsSum
<1>3. PICK p \in [0..N -> 0..N] : p = Path(s)
  BY <1>1, PathFacts DEF PathIsWalk
<1>4. PICK S : S = {k \in 0..N : h[k] <= k * MaxOwn}
  OBVIOUS
<1>5. 0 \in S
  <2>1. h[0] = 0 /\ 0 * MaxOwn = 0
    BY <1>2, HeldFacts DEF HeldIsSum
  <2> QED BY <1>4, <2>1
<1>6. ASSUME NEW k \in 0..(N - 1), k \in S PROVE k + 1 \in S
  <2>1. k + 1 \in 1..N /\ (k + 1) - 1 = k /\ k \in 0..N /\ k + 1 \in 0..N
    OBVIOUS
  <2>2. PICK x \in 0..N : x = p[k]
    BY <2>1
  <2>3. PICK a \in Nat, b \in Nat : a = h[k] /\ b = h[k + 1]
    BY <2>1
  <2>4. b = a + (IF x = 0 THEN 0 ELSE scopes[x].len)
    BY <1>1, <1>2, <1>3, <2>1, <2>2, <2>3, HeldFacts DEF HeldIsSum
  <2>5. b <= a + MaxOwn
    <3>1. CASE x = 0
      BY <2>4, <3>1
    <3>2. CASE x # 0
      <4>1. x \in DOMAIN scopes
        BY <1>1, <3>2
      <4>2. PICK len \in Nat : len = scopes[x].len /\ len <= MaxOwn
        BY <4>1, TreeFacts DEF OwnBounded
      <4>3. b = a + len
        BY <2>4, <3>2, <4>2
      <4>4. PICK m \in Nat : m = MaxOwn
        OBVIOUS
      <4>5. len <= m
        BY <4>2, <4>4
      <4>6. \A i, u, w \in Nat : u <= w => i + u <= i + w
        OBVIOUS
      <4>7. a + len <= a + m
        BY <4>5, <4>6
      <4> QED BY <4>3, <4>4, <4>7
    <3> QED BY <3>1, <3>2
  <2>6. PICK c \in Nat : c = k * MaxOwn
    OBVIOUS
  <2>7. (k + 1) * MaxOwn = c + MaxOwn
    BY <2>6
  <2>8. a <= c
    BY <1>4, <1>6, <2>3, <2>6
  <2>9. b <= (k + 1) * MaxOwn
    BY <2>5, <2>7, <2>8
  <2> QED BY <1>4, <2>1, <2>3, <2>9
<1>7. 0..N \subseteq S
  BY <1>5, <1>6, UpTo
<1> QED BY <1>1, <1>2, <1>4, <1>7

\* Past the root, a walk passes no more arguments.
LEMMA HeldStays ==
    Tree => \A s \in DOMAIN scopes : \A k \in 0..Len(scopes) :
        Path(s)[k] = 0 => Held(s)[k] = Held(s)[Len(scopes)]
<1> SUFFICES ASSUME Tree, NEW s \in DOMAIN scopes, NEW k \in 0..Len(scopes),
                    Path(s)[k] = 0, Held(s)[k] # Held(s)[Len(scopes)]
             PROVE  FALSE
  OBVIOUS
<1>1. PICK N \in Nat : N = Len(scopes) /\ DOMAIN scopes = 1..N
  BY TreeFacts
<1>2. PICK h \in [0..N -> Nat] : h = Held(s)
  BY <1>1, HeldFacts DEF HeldIsSum
<1>3. PICK S : S = {j \in 0..N : j >= k => h[j] = h[k]}
  OBVIOUS
<1>4. 0 \in S
  BY <1>1, <1>3
<1>5. ASSUME NEW j \in 0..(N - 1), j \in S PROVE j + 1 \in S
  <2>1. j + 1 \in 1..N /\ (j + 1) - 1 = j /\ j \in 0..N /\ j + 1 \in 0..N /\ k \in 0..N
    BY <1>1
  <2>2. CASE j >= k
    <3>1. Path(s)[j] = 0
      <4>1. CASE j = k
        BY <4>1
      <4>2. CASE j > k
        BY <1>1, <2>1, <4>2, WalkDescends
      <4> QED BY <2>1, <2>2, <4>1, <4>2
    <3>2. h[j + 1] = h[j] + 0
      BY <1>1, <1>2, <2>1, <3>1, HeldFacts DEF HeldIsSum
    <3>3. h[j] = h[k]
      BY <1>3, <1>5, <2>2
    <3>4. h[j + 1] = h[k]
      BY <2>1, <3>2, <3>3
    <3> QED BY <1>3, <2>1, <3>4
  <2>3. CASE j + 1 = k
    BY <1>3, <2>1, <2>3
  <2>4. CASE j + 1 < k
    BY <1>3, <2>1, <2>4
  <2> QED BY <2>1, <2>2, <2>3, <2>4
<1>6. 0..N \subseteq S
  BY <1>4, <1>5, UpTo
<1>7. N \in S /\ N >= k
  BY <1>1, <1>6
<1> QED BY <1>1, <1>2, <1>3, <1>7

\* An iteration yields all arguments: with the steps of Iterated it has passed the root.
LEMMA IterationEnds ==
    Tree /\ MaxOwn \in Nat /\ OwnBounded => \A s \in DOMAIN scopes : Iterated(s) = Visible(s)
<1> SUFFICES ASSUME Tree, MaxOwn \in Nat, OwnBounded, NEW s \in DOMAIN scopes
             PROVE  Iterated(s) = Visible(s)
  OBVIOUS
<1>1. PICK N \in Nat : N = Len(scopes) /\ DOMAIN scopes = 1..N
  BY TreeFacts
<1>2. PICK n \in Nat : n = Steps
  BY IteratedFacts
<1>3. PICK f \in [0..n -> Iterators] : /\ f[0] = Iterator(s)
                                       /\ \A k \in 1..n : f[k] = IterStep(f[k - 1])
                                       /\ Iterated(s) = f[n].seen
  BY <1>2, IteratedFacts
<1>4. PICK S : S = {m \in 0..n : IsAt(f[m], s, m)}
  OBVIOUS
<1>5. 0 \in S
  BY <1>3, <1>4, IteratorStarts
<1>6. ASSUME NEW m \in 0..(n - 1), m \in S PROVE m + 1 \in S
  <2>1. m + 1 \in 1..n /\ (m + 1) - 1 = m /\ m \in 0..n /\ m + 1 \in 0..n /\ m \in Nat
    OBVIOUS
  <2>2. PICK it \in Iterators : it = f[m]
    BY <2>1
  <2>3. IsAt(it, s, m)
    BY <1>4, <1>6, <2>2
  <2>4. IsAt(IterStep(it), s, m + 1)
    BY <2>1, <2>3, IteratorGoesOn
  <2>5. f[m + 1] = IterStep(it)
    BY <1>3, <2>1, <2>2
  <2> QED BY <1>4, <2>1, <2>4, <2>5
<1>7. 0..n \subseteq S
  BY <1>5, <1>6, UpTo
<1>8. IsAt(f[n], s, n)
  BY <1>4, <1>7
<1>9. PICK x \in DOMAIN scopes, pos \in Nat, q \in Seq(Slots) :
         x = f[n].scope /\ pos = f[n].pos /\ q = f[n].seen
  BY DEF Iterators
<1>10. PICK k \in 0..(N - 1) :
          /\ x = Path(s)[k]
          /\ Len(q) = Held(s)[k] + scopes[x].len - pos
          /\ \A i \in 1..Len(q) : q[i] = Visible(s)[i]
          /\ \/ n = k + Len(q)
             \/ pos = 0 /\ scopes[x].parent = 0
  BY <1>1, <1>8, <1>9 DEF IsAt
<1>11. k \in 0..N /\ k + 1 \in 1..N /\ (k + 1) - 1 = k /\ k + 1 \in 0..N /\ x # 0
  BY <1>1
<1>12. PICK h \in [0..N -> Nat] : h = Held(s)
  BY <1>1, HeldFacts DEF HeldIsSum
<1>13. PICK len \in Nat : len = scopes[x].len
  BY TreeFacts
<1>14. h[k + 1] = h[k] + len
  <2>1. k + 1 \in 1..Len(scopes)
    BY <1>1
  <2>2. Held(s)[k + 1] = Held(s)[(k + 1) - 1]
           + (IF Path(s)[(k + 1) - 1] = 0 THEN 0 ELSE scopes[Path(s)[(k + 1) - 1]].len)
    BY <2>1, HeldFacts DEF HeldIsSum
  <2>3. Held(s)[k + 1] = Held(s)[k] + (IF x = 0 THEN 0 ELSE scopes[x].len)
    BY <1>10, <1>11, <2>2
  <2> QED BY <1>11, <1>12, <1>13, <2>3
<1>15. PICK a \in Nat, b \in Nat, c \in Nat : a = h[k] /\ b = h[k + 1] /\ c = h[N]
  BY <1>11
<1>16. PICK l \in Nat : l = Len(q) /\ l = a + len - pos /\ l <= b
  <2>1. Len(q) = a + len - pos /\ b = a + len
    BY <1>10, <1>12, <1>13, <1>14, <1>15
  <2> QED BY <2>1
<1>17. b <= c
  <2>1. k + 1 \in 0..Len(scopes) /\ Len(scopes) \in 0..Len(scopes) /\ k + 1 <= Len(scopes)
    BY <1>1
  <2>2. Held(s)[k + 1] <= Held(s)[Len(scopes)]
    BY <2>1, WalkCollects
  <2> QED BY <1>1, <1>12, <1>15, <2>2
<1>18. n # k + l
  <2>1. c <= N * MaxOwn
    <3>1. Len(scopes) \in 0..Len(scopes)
      BY <1>1
    <3>2. Held(s)[Len(scopes)] <= Len(scopes) * MaxOwn
      BY <3>1, HeldIsBounded
    <3> QED BY <1>1, <1>12, <1>15, <3>2
  <2>2. PICK d \in Nat : d = N * MaxOwn
    OBVIOUS
  <2>3. N * (MaxOwn + 1) = d + N
    BY <2>2
  <2>4. n = d + N
    BY <1>1, <1>2, <2>3 DEF Steps
  <2> QED BY <1>16, <1>17, <2>1, <2>2, <2>4
<1>19. pos = 0 /\ scopes[x].parent = 0
  BY <1>10, <1>16, <1>18
<1>20. b = c
  <2>1. Path(s)[k + 1] = IF Path(s)[(k + 1) - 1] = 0 THEN 0
                         ELSE scopes[Path(s)[(k + 1) - 1]].parent
    BY <1>1, <1>11, PathFacts DEF PathIsWalk
  <2>2. Path(s)[k + 1] = 0
    BY <1>10, <1>11, <1>19, <2>1
  <2> QED BY <1>1, <1>11, <1>12, <1>15, <2>2, HeldStays
<1>21. l = c
  BY <1>14, <1>15, <1>16, <1>19, <1>20
<1>22. PICK v \in Seq(Slots) : v = Visible(s) /\ Len(v) = c
  BY <1>1, <1>12, <1>15, VisibleFacts
<1>23. Len(q) = Len(v) /\ \A i \in 1..Len(q) : q[i] = v[i]
  BY <1>10, <1>16, <1>21, <1>22
<1>24. q = v
  BY <1>23, SeqEqual
<1> QED BY <1>3, <1>9, <1>22, <1>24

\* The views of an argument list agree: iterating over it yields its elements in their
\* order, Size counts them, and Contains finds exactly them.
THEOREM IterationIsExact == Spec => []IterationIsList
<1>1. TypeOK /\ OwnBounded => IterationIsList
  <2> SUFFICES ASSUME TypeOK, OwnBounded, NEW s \in DOMAIN scopes
               PROVE  /\ Iterated(s) = Visible(s)
                      /\ Size(s) = Len(Visible(s))
                      /\ \A v \in Args :
                            Holds(s, v) <=> v \in {Visible(s)[i] : i \in DOMAIN Visible(s)}
    BY DEF IterationIsList
  <2>1. Tree /\ MaxOwn \in Nat
    BY MemoryIsTree, BoundsAssumption DEF TypeOK
  <2>2. Iterated(s) = Visible(s)
    BY <2>1, IterationEnds
  <2>3. Size(s) = Len(Visible(s))
    BY <2>1, VisibleFacts DEF Size
  <2>4. ASSUME NEW v \in Args
        PROVE  Holds(s, v) <=> v \in {Visible(s)[i] : i \in DOMAIN Visible(s)}
    <3>1. PICK q \in Seq(Slots) : q = Visible(s)
      BY <2>1, VisibleFacts
    <3>2. Holds(s, v) <=> \E i \in 1..Len(q) : q[i] = v
      BY <2>2, <3>1 DEF Holds, Contains
    <3>3. DOMAIN q = 1..Len(q)
      BY LenProperties
    <3> QED BY <3>1, <3>2, <3>3
  <2> QED BY <2>2, <2>3, <2>4
<1> QED BY <1>1, TypeCorrect, OwnIsBounded, PTL

=============================================================================
