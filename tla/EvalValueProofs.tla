--------------------------- MODULE EvalValueProofs ---------------------------
(***************************************************************************)
(* What evaluations hold, in every program: the types of all values, and   *)
(* that a range over live arguments finds those that it has not yet used   *)
(* where they were.                                                        *)
(***************************************************************************)
EXTENDS EvalScopeProofs

-----------------------------------------------------------------------------
(***************************************************************************)
(* The values of every program.  A value is made of values, and these of   *)
(* others: what evaluations hold is a member of a set that has the parts   *)
(* of its members, and in which arguments are those of allocated scopes    *)
(* and procs are nodes of the program.                                     *)
(***************************************************************************)

\* Values of the program.
Size == Len(prog.nodes)

\* The parts of v are in U.
PartsIn(v, U) ==
    /\ v.t = "list" => v.elems \in Seq(U)
    /\ v.t = "map"  => IsFiniteSet(v.pairs) /\ v.pairs \subseteq U \X U
    /\ v.t = "args" => v.scope \in DOMAIN scopes
    /\ v.t = "proc" => v.node \in 0..Size

\* U has the data of the program, nil and the numbers, and the parts of its members.
Closed(U) == /\ DataOf(prog) \subseteq U /\ Nil \in U /\ \A n \in Int : Number(n) \in U
             /\ \A v \in U : PartsIn(v, U)

\* Keys of the environment.
Keys == {p[1] : p \in values}

\* What an iterator has still to yield is there.
IterOK(U, it) ==
    /\ it.over = "pairs" => it.rest \in Seq(U \X U)
    /\ it.over = "env"   => it.rest \in Seq(Keys)
    /\ it.over \in {"pairs", "env"} => it = [over |-> it.over, rest |-> it.rest]
    /\ it.over = "args"  => /\ it = [over |-> "args", scope |-> it.scope, i |-> it.i, pos |-> it.pos]
                            /\ it.scope \in DOMAIN scopes /\ it.i \in Int
                            /\ it.pos \in Int /\ it.pos >= -1
    /\ it.over = "key"   => it.key \in U

\* The children and the kind of the value that f evaluates.
KidsOf(f) == prog.nodes[f.node].kids
KindOf(f) == prog.nodes[f.node].kind

\* A body evaluates one of its children, and has begun to build what it yields.
BodyOK(f) ==
    /\ f.i \in 0..Len(KidsOf(f))
    /\ f.i # 0 => /\ KindOf(f) = "list" => f.acc.t = "list"
                  /\ KindOf(f) = "map" => f.acc.t = "map" /\ (f.i % 2 = 0 => f.iter.over = "key")
                  /\ KindOf(f) = "message" => f.todo \subseteq DOMAIN KidsOf(f)

\* Frame f has values of U.
Holds(U, f) ==
    /\ f.node \in 0..Size
    /\ f.acc \in U /\ IterOK(U, f.iter)
    /\ f.pc \in {"next", "second", "each", "result"} =>
          KindOf(f) = "range" /\ f.iter.over \in {"pairs", "args", "env"}
    /\ f.pc = "parent" => KindOf(f) = "parent"
    /\ f.pc = "init" => f.i \in 0..Len(prog.args)
    /\ f.pc = "args" => f.i \in 0..Len(ArgsOf(f))
    /\ f.pc = "body" => BodyOK(f)

\* An evaluation that waits for one of its children or arguments knows for which.
Begun(f) == f.pc \in {"args", "body"} => f.i # 0

\* Arguments and environment have values of U, and so do evaluations.
Stored(U) == /\ Closed(U) /\ Slots \subseteq U
             /\ IsFiniteSet(Keys) /\ IsFiniteSet(values) /\ \A p \in values : p[2] \in U

\* Frames hold values of U, and those that wait know for which.
FramesHold(U) == \A d \in 1..Len(frames) :
                    Holds(U, frames[d]) /\ (d < Len(frames) => Begun(frames[d]))

\* All that there is are values of U.
Valued(U) == Stored(U) /\ FramesHold(U) /\ ret.val \in U /\ (ret # NoRet => Begun(Top))

\* With more values.
LEMMA MoreParts ==
    ASSUME NEW U, NEW W, U \subseteq W
    PROVE  /\ \A v : PartsIn(v, U) => PartsIn(v, W)
           /\ \A it : IterOK(U, it) => IterOK(W, it)
           /\ \A f : Holds(U, f) => Holds(W, f)
<1>1. \A q : q \in Seq(U) => q \in Seq(W)
  OBVIOUS
<1>2. PICK A, B : A = U \X U /\ B = W \X W
  OBVIOUS
<1>3. A \subseteq B
  BY <1>2
<1>4. \A q : q \in Seq(A) => q \in Seq(B)
  BY <1>3
<1>5. \A v : PartsIn(v, U) => PartsIn(v, W)
  BY <1>1, <1>2, <1>3 DEF PartsIn
<1>6. \A it : IterOK(U, it) => IterOK(W, it)
  BY <1>2, <1>4 DEF IterOK
<1> QED BY <1>5, <1>6 DEF Holds

\* Values whose parts are there already can be added.
LEMMA AddingAll ==
    ASSUME NEW U, Closed(U), NEW S, \A v \in S : PartsIn(v, U)
    PROVE  \E W : U \subseteq W /\ S \subseteq W /\ Closed(W)
<1>1. PICK W : W = U \cup S
  OBVIOUS
<1>2. U \subseteq W /\ S \subseteq W
  BY <1>1
<1>3. \A x \in W : PartsIn(x, U)
  BY <1>1 DEF Closed
<1>4. \A x \in W : PartsIn(x, W)
  BY <1>2, <1>3, MoreParts
<1> QED BY <1>2, <1>4 DEF Closed

\* And so can one.
LEMMA Adding ==
    ASSUME NEW U, Closed(U), NEW v, PartsIn(v, U)
    PROVE  \E W : U \subseteq W /\ v \in W /\ Closed(W)
<1>1. \A x \in {v} : PartsIn(x, U)
  OBVIOUS
<1>2. \E W : U \subseteq W /\ {v} \subseteq W /\ Closed(W)
  BY <1>1, AddingAll
<1> QED BY <1>2

\* Values without parts.
Plain(v) == v.t \notin {"list", "map", "args", "proc"}

\* So there are none to be there.
LEMMA PlainParts == ASSUME NEW v, Plain(v), NEW U PROVE PartsIn(v, U)
BY DEF Plain, PartsIn

\* They are these.
LEMMA PlainValues ==
    /\ Plain(Nil) /\ Plain(Null) /\ Plain(Error) /\ Plain(EnvView)
    /\ \A x : Plain(Bool(x)) /\ Plain(Number(x)) /\ Plain(Str(x)) /\ Plain(Msg(x))
BY DEF Plain, Nil, Null, Error, EnvView, Bool, Number, Str, Msg

\* After a step that loses neither scopes nor keys, values are what they were.
LEMMA SameHolds ==
    ASSUME prog' = prog, Grows, Keys \subseteq Keys', NEW U
    PROVE  /\ Closed(U) => Closed(U)'
           /\ \A v : PartsIn(v, U) => PartsIn(v, U)'
           /\ \A f : Holds(U, f) => Holds(U, f)'
<1>1. \A v : PartsIn(v, U) => PartsIn(v, U)'
  BY DEF PartsIn, Grows, Size
<1>2. PICK A, B : A = Keys /\ B = Keys'
  OBVIOUS
<1>3. \A q : q \in Seq(A) => q \in Seq(B)
  BY <1>2
<1>4. \A it : IterOK(U, it) => IterOK(U, it)'
  BY <1>2, <1>3 DEF IterOK, Grows
<1>5. \A f : Holds(U, f) => Holds(U, f)'
  BY <1>4 DEF Holds, BodyOK, KidsOf, KindOf, ArgsOf, Size
<1>6. prog' = prog => DataOf(prog)' = DataOf(prog)
  BY DEF DataOf
<1> QED BY <1>1, <1>5, <1>6 DEF Closed

-----------------------------------------------------------------------------
(***************************************************************************)
(* Frames and values after a step.                                         *)
(***************************************************************************)

\* The frames after a step, one by one.
LEMMA HoldFrames ==
    ASSUME NEW W, \A d \in 1..Len(frames') : \A e : e = frames'[d] =>
                      Holds(W, e)' /\ (d < Len(frames') => Begun(e))
    PROVE  FramesHold(W)'
BY DEF FramesHold, Holds, IterOK, BodyOK, KidsOf, KindOf, ArgsOf, Begun

\* A step that loses nothing.
Spares == prog' = prog /\ Grows /\ Keys \subseteq Keys'

\* Frames that are the same before and after it.
LEMMA HeldStill ==
    ASSUME Spares, NEW U, NEW W, U \subseteq W, FramesHold(U), NEW n \in Nat, n <= Len(frames),
           Len(frames) \in Nat
    PROVE  \A d \in 1..n : \A e : e = frames[d] =>
              Holds(W, e)' /\ (d < Len(frames) => Begun(e))
<1> SUFFICES ASSUME NEW d \in 1..n, NEW e, e = frames[d]
             PROVE  Holds(W, e)' /\ (d < Len(frames) => Begun(e))
  OBVIOUS
<1>1. d \in 1..Len(frames)
  OBVIOUS
<1>2. Holds(U, e) /\ (d < Len(frames) => Begun(e))
  BY <1>1 DEF FramesHold
<1>3. Holds(W, e)
  BY <1>2, MoreParts
<1> QED BY <1>2, <1>3, SameHolds DEF Spares

\* The evaluation on top goes on.
LEMMA GoesHold ==
    ASSUME Sound, frames # <<>>, NEW U, Valued(U), NEW W, U \subseteq W, Spares, Stored(W)',
           NEW f, Holds(W, f)', frames' = Append(Front(frames), f),
           ret'.val \in W, ret' # NoRet => Begun(f)
    PROVE  Valued(W)'
<1>1. PICK n \in Nat \ {0} : n = Len(frames)
  BY SoundRuns
<1>2. Replaced(frames, f, frames')
  BY ReplaceTop DEF Sound, Inv, FramesOK, Stack
<1>3. PICK r : r = frames'
  OBVIOUS
<1>4. /\ Len(r) = n /\ r[n] = f /\ r # <<>>
      /\ \A d \in 1..(n - 1) : r[d] = frames[d]
  BY <1>1, <1>2, <1>3 DEF Replaced
<1>5. Top' = f
  BY <1>1, <1>3, <1>4 DEF Top, Last
<1>6. n - 1 \in Nat /\ n - 1 <= n
  OBVIOUS
<1>7. \A d \in 1..(n - 1) : \A e : e = frames[d] => Holds(W, e)' /\ (d < n => Begun(e))
  BY <1>1, <1>6, HeldStill DEF Valued
<1>8. ASSUME NEW d \in 1..n, NEW e, e = r[d]
      PROVE  Holds(W, e)' /\ (d < n => Begun(e))
  <2>1. CASE d = n
    BY <1>4, <1>8, <2>1
  <2>2. CASE d # n
    <3>1. d \in 1..(n - 1)
      BY <2>2
    <3> QED BY <1>4, <1>7, <1>8, <3>1
  <2> QED BY <2>1, <2>2
<1>9. FramesHold(W)'
  BY <1>3, <1>4, <1>8, HoldFrames
<1> QED BY <1>5, <1>9 DEF Valued, Begun

\* It waits for another one.
LEMMA CallsHold ==
    ASSUME Sound, frames # <<>>, NEW U, Valued(U), NEW W, U \subseteq W, Spares, Stored(W)',
           NEW f, Holds(W, f)', Begun(f), NEW k \in 0..Size, Sub(f, k)
    PROVE  Valued(W)'
<1>1. PICK n \in Nat \ {0} : n = Len(frames)
  BY SoundRuns
<1>2. PICK g : g = NewFrame(k, f.env)
  OBVIOUS
<1>3. frames' = Front(frames) \o <<f, g>> /\ ret' = NoRet
  BY <1>2 DEF Sub
<1>4. Pushed(frames, f, g, frames')
  BY <1>3, PushTop DEF Sound, Inv, FramesOK, Stack
<1>5. PICK r : r = frames'
  OBVIOUS
<1>6. /\ Len(r) = n + 1 /\ r[n] = f /\ r[n + 1] = g
      /\ \A d \in 1..(n - 1) : r[d] = frames[d]
  BY <1>1, <1>4, <1>5 DEF Pushed
<1>7. n - 1 \in Nat /\ n - 1 <= n
  OBVIOUS
<1>8. \A d \in 1..(n - 1) : \A e : e = frames[d] => Holds(W, e)' /\ (d < n => Begun(e))
  BY <1>1, <1>7, HeldStill DEF Valued
<1>9. Nil \in W /\ Size' = Size
  BY DEF Stored, Closed, Spares, Size
<1>10. g.pc = "scope" /\ g.node = k /\ g.acc = Nil /\ g.iter = NoIter
  BY <1>2 DEF NewFrame
<1>11. Holds(W, g)'
  <2>1. g.iter.over = "none"
    BY <1>10 DEF NoIter
  <2> QED BY <1>9, <1>10, <2>1 DEF Holds, IterOK
<1>12. ASSUME NEW d \in 1..(n + 1), NEW e, e = r[d]
       PROVE  Holds(W, e)' /\ (d < n + 1 => Begun(e))
  <2>1. CASE d = n + 1
    BY <1>6, <1>11, <1>12, <2>1
  <2>2. CASE d = n
    BY <1>6, <1>12, <2>2
  <2>3. CASE d # n /\ d # n + 1
    <3>1. d \in 1..(n - 1) /\ d < n
      BY <2>3
    <3> QED BY <1>6, <1>8, <1>12, <3>1
  <2> QED BY <2>1, <2>2, <2>3
<1>13. FramesHold(W)'
  BY <1>5, <1>6, <1>12, HoldFrames
<1>14. ret'.val \in W
  BY <1>3, <1>9 DEF NoRet
<1> QED BY <1>3, <1>13, <1>14, NoRetOK DEF Valued

\* It ends.
LEMMA LeavesHold ==
    ASSUME Sound, frames # <<>>, Top.pc # "init", NEW U, Valued(U), NEW W, U \subseteq W, Spares, Stored(W)',
           frames' = Front(frames), ret'.val \in W
    PROVE  Valued(W)'
<1>1. PICK n \in Nat \ {0} : n = Len(frames)
  BY SoundRuns
<1>2. n # 1
  BY <1>1, TopOK DEF Sound, Inv
<1>3. PICK r : r = frames'
  OBVIOUS
<1>4. Len(r) = n - 1 /\ \A d \in 1..(n - 1) : r[d] = frames[d]
  BY <1>1, <1>3, PopTop DEF Sound, Inv, FramesOK, Stack
<1>5. n - 1 \in Nat /\ n - 1 <= n /\ n - 1 \in 1..(n - 1)
  BY <1>2
<1>6. \A d \in 1..(n - 1) : \A e : e = frames[d] => Holds(W, e)' /\ (d < n => Begun(e))
  BY <1>1, <1>5, HeldStill DEF Valued
<1>7. ASSUME NEW d \in 1..(n - 1), NEW e, e = r[d]
      PROVE  Holds(W, e)' /\ Begun(e)
  <2>1. d < n
    OBVIOUS
  <2> QED BY <1>4, <1>6, <1>7, <2>1
<1>8. FramesHold(W)'
  BY <1>3, <1>4, <1>7, HoldFrames
<1>9. Top' = frames[n - 1]
  <2>1. Top' = r[n - 1]
    BY <1>3, <1>4 DEF Top, Last
  <2> QED BY <1>4, <1>5, <2>1
<1>10. Begun(frames[n - 1])
  BY <1>4, <1>5, <1>7
<1> QED BY <1>8, <1>9, <1>10 DEF Valued, Begun

-----------------------------------------------------------------------------
(***************************************************************************)
(* Steps that change nothing but the stack.                                *)
(***************************************************************************)

\* The evaluation goes on, waits or ends with values that are there, or are made of those.
Fits(U) ==
    \E W : /\ U \subseteq W /\ Closed(W)
           /\ \/ \E f : Holds(W, f) /\ Goto(f)
              \/ \E f, k : Holds(W, f) /\ Begun(f) /\ k \in 0..Size /\ Sub(f, k)
              \/ \E v, e : v \in W /\ Top.pc # "init" /\ Return(v, e)

\* Such steps keep all values valued.
LEMMA FitsValued ==
    ASSUME Sound, frames # <<>>, NEW U, Valued(U), prog' = prog, UNCHANGED scopeVars, values' = values,
           Fits(U)
    PROVE  \E W : Valued(W)'
<1>1. PICK W : /\ U \subseteq W /\ Closed(W)
               /\ \/ \E f : Holds(W, f) /\ Goto(f)
                  \/ \E f, k : Holds(W, f) /\ Begun(f) /\ k \in 0..Size /\ Sub(f, k)
                  \/ \E v, e : v \in W /\ Top.pc # "init" /\ Return(v, e)
  BY DEF Fits
<1>2. Spares /\ scopes' = scopes /\ arrays' = arrays
  BY DEF Spares, Grows, Keys, scopeVars
<1>3. Closed(W)' /\ \A f : Holds(W, f) => Holds(W, f)'
  BY <1>1, <1>2, SameHolds DEF Spares
<1>4. Stored(W)'
  <2>1. Slots' = Slots /\ Keys' = Keys
    BY <1>2 DEF Slots, Keys
  <2> QED BY <1>1, <1>3, <2>1 DEF Valued, Stored
<1>5. NoRet.val \in W
  BY <1>1 DEF Closed, NoRet
<1>6. ASSUME NEW f, Holds(W, f), Goto(f)
      PROVE  Valued(W)'
  <2>1. Holds(W, f)' /\ ret' = NoRet /\ frames' = Append(Front(frames), f)
    BY <1>3, <1>6 DEF Goto
  <2> QED BY <1>1, <1>2, <1>4, <1>5, <2>1, GoesHold
<1>7. ASSUME NEW f, NEW k \in 0..Size, Holds(W, f), Begun(f), Sub(f, k)
      PROVE  Valued(W)'
  BY <1>1, <1>2, <1>3, <1>4, <1>7, CallsHold
<1>8. ASSUME NEW v, NEW e, v \in W, Top.pc # "init", Return(v, e)
      PROVE  Valued(W)'
  BY <1>1, <1>2, <1>4, <1>8, LeavesHold DEF Return
<1> QED BY <1>1, <1>6, <1>7, <1>8

\* What is known of the evaluation on top.
LEMMA Present ==
    ASSUME Sound, NEW U, Valued(U), out.st = "running"
    PROVE  /\ frames # <<>> /\ IsFrame(Top) /\ Top.env \in DOMAIN scopes /\ Holds(U, Top)
           /\ prog \in Programs /\ Size \in Nat \ {0} /\ DOMAIN prog.nodes = 1..Size
           /\ Closed(U) /\ ret.val \in U /\ Nil \in U
           /\ ret # NoRet => Begun(Top) /\ (Waits(Top) \/ Top.pc = "result")
           /\ Top.pc \notin {"init", "scope"} =>
                 /\ Top.node \in DOMAIN prog.nodes
                 /\ Kids \in Nat /\ DOMAIN Node.kids = 1..Kids
                 /\ \A i \in 1..Kids : Kid(i) \in 0..Size
                 /\ Len(Node.args) \in Nat /\ \A i \in 1..Len(Node.args) : Node.args[i] \in 0..Size
           /\ Top.pc = "body" => Top.i \in 0..Kids
<1>1. frames # <<>>
  BY DEF Sound, Inv, OutOK
<1>2. /\ Len(frames) \in Nat \ {0} /\ Top = frames[Len(frames)] /\ IsFrame(Top)
      /\ Top.env \in DOMAIN scopes
      /\ Top.pc \notin {"init", "scope"} => Top.node \in DOMAIN prog.nodes
  BY <1>1, SoundRuns
<1>3. Len(frames) \in 1..Len(frames)
  BY <1>2
<1>4. Holds(U, Top)
  BY <1>2, <1>3 DEF Valued, FramesHold
<1>5. prog \in Programs
  BY DEF Sound
<1>6. Size \in Nat \ {0} /\ DOMAIN prog.nodes = 1..Size
  BY <1>5, KidsAssumption DEF Size
<1>7. ASSUME Top.node \in DOMAIN prog.nodes
      PROVE  /\ Kids \in Nat /\ DOMAIN Node.kids = 1..Kids /\ \A i \in 1..Kids : Kid(i) \in 0..Size
             /\ Len(Node.args) \in Nat /\ \A i \in 1..Len(Node.args) : Node.args[i] \in 0..Size
  <2>1. Node.kids \in Seq(0..Size) /\ Node.args \in Seq(0..Size)
    BY <1>5, <1>7, NodesAssumption DEF Node, Size
  <2>2. PICK S : S = 0..Size
    OBVIOUS
  <2>3. PICK q \in Seq(S), r \in Seq(S) : q = Node.kids /\ r = Node.args
    BY <2>1, <2>2
  <2>4. Len(q) \in Nat /\ DOMAIN q = 1..Len(q) /\ \A i \in 1..Len(q) : q[i] \in S
    OBVIOUS
  <2>5. Len(r) \in Nat /\ \A i \in 1..Len(r) : r[i] \in S
    OBVIOUS
  <2> QED BY <2>2, <2>3, <2>4, <2>5 DEF Kids, Kid
<1>8. Top.pc = "body" => Top.i \in 0..Kids
  BY <1>4 DEF Holds, BodyOK, KidsOf, Kids, Node
<1>9. /\ Closed(U) /\ ret.val \in U /\ Nil \in U
      /\ ret # NoRet => Begun(Top) /\ (Waits(Top) \/ Top.pc = "result")
  BY DEF Valued, Stored, Closed, Sound, Inv, RetOK
<1> QED BY <1>1, <1>2, <1>4, <1>5, <1>6, <1>7, <1>8, <1>9

\* It returns a value that is there, or one made of those.
LEMMA ReturnFits ==
    ASSUME NEW U, Closed(U), Top.pc # "init", NEW v, NEW e, Return(v, e),
           v \in U \/ PartsIn(v, U)
    PROVE  Fits(U)
<1>1. PICK W : U \subseteq W /\ v \in W /\ Closed(W)
  BY Adding
<1> QED BY <1>1 DEF Fits

\* An argument of a scope is in one of the slots.
LEMMA ArgInSlots ==
    ASSUME Tree, NEW s \in DOMAIN scopes, NEW n \in Nat, HasArg(s, n)
    PROVE  Arg(s, n) \in Slots
<1>1. PICK k : k = CHOOSE j \in ArgAt(s, n) : TRUE
  OBVIOUS
<1>2. k \in ArgAt(s, n)
  BY <1>1 DEF HasArg
<1>3. PICK t \in DOMAIN scopes : t = Path(s)[k]
  BY <1>2, PlaceFacts
<1>4. PICK h \in Nat : h = Held(s)[k] /\ h <= n
  BY <1>2, PlaceFacts
<1>5. PICK l \in Nat : l = scopes[t].len
  BY TreeFacts
<1>6. n - h \in 0..(l - 1)
  BY <1>2, <1>3, <1>4, <1>5 DEF ArgAt
<1>7. l - (n - h) \in 1..l
  BY <1>6
<1>8. Arg(s, n) = arrays[scopes[t].arr][l - (n - h)]
  BY <1>1, <1>3, <1>4, <1>5 DEF Arg
<1> QED BY <1>5, <1>7, <1>8 DEF Slots

\* Frame f is frame t with these fields.
Made(f, t, p, i, x, y, it) ==
    /\ IsFrame(f) /\ f.node = t.node /\ f.env = t.env
    /\ f.pc = p /\ f.i = i /\ f.acc = x /\ f.todo = y /\ f.iter = it

\* One field changed.
LEMMA FieldOK ==
    ASSUME NEW t, IsFrame(t), NEW x
    PROVE  /\ Made([t EXCEPT !.i = x], t, t.pc, x, t.acc, t.todo, t.iter)
           /\ Made([t EXCEPT !.acc = x], t, t.pc, t.i, x, t.todo, t.iter)
           /\ Made([t EXCEPT !.todo = x], t, t.pc, t.i, t.acc, x, t.iter)
           /\ Made([t EXCEPT !.iter = x], t, t.pc, t.i, t.acc, t.todo, x)
           /\ Made([t EXCEPT !.pc = x], t, x, t.i, t.acc, t.todo, t.iter)
BY DEF Made, IsFrame

\* A child and what is kept while it is evaluated.
LEMMA KeptOK ==
    ASSUME NEW t, IsFrame(t), NEW i, NEW x
    PROVE  /\ Made([t EXCEPT !.i = i, !.acc = x], t, t.pc, i, x, t.todo, t.iter)
           /\ Made([t EXCEPT !.i = i, !.iter = x], t, t.pc, i, t.acc, t.todo, x)
<1>1. PICK f : f = [t EXCEPT !.i = i]
  OBVIOUS
<1>2. Made(f, t, t.pc, i, t.acc, t.todo, t.iter)
  BY <1>1, FieldOK
<1>3. IsFrame(f)
  BY <1>2 DEF Made
<1>4. /\ Made([f EXCEPT !.acc = x], f, f.pc, f.i, x, f.todo, f.iter)
      /\ Made([f EXCEPT !.iter = x], f, f.pc, f.i, f.acc, f.todo, x)
  BY <1>3, FieldOK
<1>5. /\ [t EXCEPT !.i = i, !.acc = x] = [f EXCEPT !.acc = x]
      /\ [t EXCEPT !.i = i, !.iter = x] = [f EXCEPT !.iter = x]
  BY <1>1
<1> QED BY <1>2, <1>4, <1>5 DEF Made

\* A field of a message and what is left.
LEMMA FieldsOK ==
    ASSUME NEW t, IsFrame(t), NEW i, NEW x, NEW y
    PROVE  Made([t EXCEPT !.i = i, !.todo = x, !.acc = y], t, t.pc, i, y, x, t.iter)
<1>1. PICK f : f = [t EXCEPT !.i = i]
  OBVIOUS
<1>2. Made(f, t, t.pc, i, t.acc, t.todo, t.iter)
  BY <1>1, FieldOK
<1>3. PICK g : g = [f EXCEPT !.todo = x]
  OBVIOUS
<1>4. IsFrame(f)
  BY <1>2 DEF Made
<1>5. Made(g, f, f.pc, f.i, f.acc, x, f.iter)
  BY <1>3, <1>4, FieldOK
<1>6. IsFrame(g)
  BY <1>5 DEF Made
<1>7. Made([g EXCEPT !.acc = y], g, g.pc, g.i, y, g.todo, g.iter)
  BY <1>6, FieldOK
<1>8. [t EXCEPT !.i = i, !.todo = x, !.acc = y] = [g EXCEPT !.acc = y]
  BY <1>1, <1>3
<1> QED BY <1>2, <1>5, <1>7, <1>8 DEF Made

\* Another point, and what is kept there.
LEMMA PointOK ==
    ASSUME NEW t, IsFrame(t), NEW p, NEW x
    PROVE  /\ Made([t EXCEPT !.pc = p, !.iter = x], t, p, t.i, t.acc, t.todo, x)
           /\ Made([t EXCEPT !.pc = p, !.acc = x], t, p, t.i, x, t.todo, t.iter)
<1>1. PICK f : f = [t EXCEPT !.pc = p]
  OBVIOUS
<1>2. Made(f, t, p, t.i, t.acc, t.todo, t.iter)
  BY <1>1, FieldOK
<1>3. IsFrame(f)
  BY <1>2 DEF Made
<1>4. /\ Made([f EXCEPT !.acc = x], f, f.pc, f.i, x, f.todo, f.iter)
      /\ Made([f EXCEPT !.iter = x], f, f.pc, f.i, f.acc, f.todo, x)
  BY <1>3, FieldOK
<1>5. /\ [t EXCEPT !.pc = p, !.acc = x] = [f EXCEPT !.acc = x]
      /\ [t EXCEPT !.pc = p, !.iter = x] = [f EXCEPT !.iter = x]
  BY <1>1
<1> QED BY <1>2, <1>4, <1>5 DEF Made

\* Another point, with an iterator and a value.
LEMMA ElementOK ==
    ASSUME NEW t, IsFrame(t), NEW p, NEW x, NEW y
    PROVE  Made([t EXCEPT !.pc = p, !.iter = x, !.acc = y], t, p, t.i, y, t.todo, x)
<1>1. PICK f : f = [t EXCEPT !.pc = p, !.iter = x]
  OBVIOUS
<1>2. Made(f, t, p, t.i, t.acc, t.todo, x)
  BY <1>1, PointOK
<1>3. IsFrame(f)
  BY <1>2 DEF Made
<1>4. Made([f EXCEPT !.acc = y], f, f.pc, f.i, y, f.todo, f.iter)
  BY <1>3, FieldOK
<1>5. [t EXCEPT !.pc = p, !.iter = x, !.acc = y] = [f EXCEPT !.acc = y]
  BY <1>1
<1> QED BY <1>2, <1>4, <1>5 DEF Made

\* A value waits for one of its children.
LEMMA CallFits ==
    ASSUME Sound, NEW U, Valued(U), out.st = "running", Top.pc = "body",
           NEW f, NEW i \in 1..Kids, NEW x, NEW y, NEW it, Made(f, Top, "body", i, x, y, it),
           x \in U \/ PartsIn(x, U), IterOK(U, it),
           Node.kind = "list" => x.t = "list",
           Node.kind = "map" => x.t = "map" /\ (i % 2 = 0 => it.over = "key"),
           Node.kind = "message" => y \subseteq DOMAIN Node.kids,
           NEW k \in 0..Size, Sub(f, k)
    PROVE  Fits(U)
<1>1. Top.node \in DOMAIN prog.nodes /\ DOMAIN prog.nodes = 1..Size /\ Size \in Nat \ {0} /\ Kids \in Nat
  BY Present
<1>2. PICK W : U \subseteq W /\ x \in W /\ Closed(W)
  BY Present, Adding
<1>3. IterOK(W, it)
  BY <1>2, MoreParts
<1>4. f.node \in 0..Size /\ KidsOf(f) = Node.kids /\ KindOf(f) = Node.kind
  BY <1>1 DEF Made, KidsOf, KindOf, Node
<1>5. Holds(W, f) /\ Begun(f)
  BY <1>1, <1>2, <1>3, <1>4 DEF Holds, Begun, BodyOK, Made, Kids
<1> QED BY <1>2, <1>5 DEF Fits

\* It waits without keeping anything but which child it waits for.
LEMMA ChildFits ==
    ASSUME Sound, NEW U, Valued(U), out.st = "running", Top.pc = "body",
           Node.kind \notin {"list", "map", "message"},
           NEW i \in 1..Kids, NEW k \in 0..Size, Sub([Top EXCEPT !.i = i], k)
    PROVE  Fits(U)
<1>1. IsFrame(Top) /\ Top.acc \in U /\ IterOK(U, Top.iter)
  BY Present DEF Holds
<1>2. Made([Top EXCEPT !.i = i], Top, "body", i, Top.acc, Top.todo, Top.iter)
  BY <1>1, FieldOK
<1> QED BY <1>1, <1>2, CallFits

\* It keeps a value.
LEMMA KeepFits ==
    ASSUME Sound, NEW U, Valued(U), out.st = "running", Top.pc = "body",
           Node.kind \notin {"list", "map", "message"},
           NEW i \in 1..Kids, NEW x \in U, NEW k \in 0..Size, Sub([Top EXCEPT !.i = i, !.acc = x], k)
    PROVE  Fits(U)
<1>1. IsFrame(Top) /\ IterOK(U, Top.iter)
  BY Present DEF Holds
<1>2. Made([Top EXCEPT !.i = i, !.acc = x], Top, "body", i, x, Top.todo, Top.iter)
  BY <1>1, KeptOK
<1> QED BY <1>1, <1>2, CallFits

\* It returns a value that is there, or one without parts.
LEMMA PlainFits ==
    ASSUME NEW U, Closed(U), Top.pc # "init", NEW v, NEW e, Return(v, e), v \in U \/ Plain(v)
    PROVE  Fits(U)
BY ReturnFits, PlainParts

\* The children that a value has.
LEMMA Arity ==
    ASSUME Sound, NEW U, Valued(U), out.st = "running", Top.pc \notin {"init", "scope"}
    PROVE  /\ Kids \in Nat /\ \A i \in 1..Kids : Kid(i) \in 0..Size
           /\ Node.kind \in {"parent", "not", "load"} => Kids >= 1
           /\ Node.kind \in {"while", "store", "proc", "range"} => Kids >= 2
           /\ Node.kind = "switch" => Kids % 2 = 1
           /\ Node.kind = "map" => Kids % 2 = 0
<1>1. PICK p \in Programs : p = prog
  BY Present
<1>2. PICK k \in DOMAIN p.nodes : k = Top.node
  BY <1>1, Present
<1>3. Node = p.nodes[k]
  BY <1>1, <1>2 DEF Node
<1> QED BY <1>3, Present, KidsAssumption DEF Kids

\* Not and connectives.
LEMMA LogicFits ==
    ASSUME Sound, NEW U, Valued(U), out.st = "running"
    PROVE  Not \/ Connective => Fits(U)
<1> SUFFICES ASSUME Not \/ Connective PROVE Fits(U)
  OBVIOUS
<1>1. Top.pc = "body" /\ Node.kind \in {"not", "allOf", "anyOf"}
  BY DEF Not, Connective, Body, At
<1>2. /\ Closed(U) /\ Kids \in Nat /\ \A i \in 1..Kids : Kid(i) \in 0..Size
      /\ Top.i \in 0..Kids /\ (Node.kind = "not" => Kids >= 1)
  BY <1>1, Present, Arity
<1>3. \A b : Plain(Bool(b))
  BY PlainValues
<1>4. \A i \in 1..Kids : Sub([Top EXCEPT !.i = i], Kid(i)) => Fits(U)
  BY <1>1, <1>2, ChildFits
<1>5. CASE Not
  <2>1. CASE Sub([Top EXCEPT !.i = 1], Kid(1))
    BY <1>2, <1>4, <2>1, <1>5 DEF Not, Body
  <2>2. CASE \E b \in BOOLEAN : Return(Bool(~b), NoErr)
    BY <1>1, <1>2, <1>3, <2>2, PlainFits
  <2> QED BY <1>5, <2>1, <2>2 DEF Not
<1>6. CASE Connective
  <2>1. CASE Top.i < Kids /\ Sub([Top EXCEPT !.i = @ + 1], Kid(Top.i + 1))
    <3>1. PICK i \in 1..Kids : i = Top.i + 1
      BY <1>2, <2>1
    <3> QED BY <1>4, <2>1, <3>1
  <2>2. CASE \E b : Return(Bool(b), NoErr)
    BY <1>1, <1>2, <1>3, <2>2, PlainFits
  <2> QED BY <1>6, <2>1, <2>2 DEF Connective
<1> QED BY <1>5, <1>6

\* Sequences and switches.
LEMMA BranchFits ==
    ASSUME Sound, NEW U, Valued(U), out.st = "running"
    PROVE  Sequence \/ Switch => Fits(U)
<1> SUFFICES ASSUME Sequence \/ Switch PROVE Fits(U)
  OBVIOUS
<1>1. Top.pc = "body" /\ Node.kind \in {"seq", "switch"}
  BY DEF Sequence, Switch, Body, At
<1>2. /\ Closed(U) /\ Kids \in Nat /\ \A i \in 1..Kids : Kid(i) \in 0..Size
      /\ Top.i \in 0..Kids /\ (Node.kind = "switch" => Kids % 2 = 1)
  BY <1>1, Present, Arity
<1>3. ret.val \in U /\ Top.acc \in U
  BY Present DEF Holds
<1>4. Plain(Nil) /\ Plain(Null)
  BY PlainValues
<1>5. CASE Sequence
  <2>1. CASE Top.i < Kids /\ Sub([Top EXCEPT !.i = @ + 1, !.acc = ret.val], Kid(Top.i + 1))
    <3>1. PICK i \in 1..Kids : i = Top.i + 1
      BY <1>2, <2>1
    <3>2. Sub([Top EXCEPT !.i = i, !.acc = ret.val], Kid(i))
      BY <2>1, <3>1
    <3> QED BY <1>1, <1>2, <1>3, <3>2, KeepFits
  <2>2. CASE \E v \in {ret.val, Top.acc} : \E e : Return(v, e)
    BY <1>1, <1>2, <1>3, <2>2, PlainFits
  <2> QED BY <1>5, <2>1, <2>2 DEF Sequence
<1>6. CASE Switch
  <2>1. \A i \in 1..Kids : Sub([Top EXCEPT !.i = i], Kid(i)) => Fits(U)
    BY <1>1, <1>2, ChildFits
  <2>2. \A v : v \in {Nil, Null, ret.val} => \A e : Return(v, e) => Fits(U)
    BY <1>1, <1>2, <1>3, <1>4, PlainFits
  <2>3. ASSUME NEW i \in 1..Kids, SwitchCase(i)
        PROVE  Fits(U)
    BY <2>1, <2>2, <2>3 DEF SwitchCase
  <2>4. PICK m \in Nat, j \in Nat : m = Kids /\ j = Top.i /\ j <= m /\ m % 2 = 1
    BY <1>2, <1>6 DEF Switch, Body
  <2>5. CASE Start /\ SwitchCase(1)
    BY <2>3, <2>4, <2>5
  <2>6. CASE InCondition
    <3>1. j % 2 = 1 /\ j < m
      BY <2>4, <2>6, <1>6 DEF InCondition, Switch, Body
    <3>2. j + 1 \in 1..m /\ j + 2 \in 1..m
      BY <2>4, <3>1
    <3>3. CASE Sub([Top EXCEPT !.i = @ + 1], Kid(Top.i + 1))
      <4>1. PICK i \in 1..Kids : i = Top.i + 1
        BY <2>4, <3>2
      <4> QED BY <2>1, <3>3, <4>1
    <3>4. CASE SwitchCase(Top.i + 2)
      BY <2>3, <2>4, <3>2, <3>4
    <3>5. CASE Start
      BY <2>4, <3>1, <3>5 DEF Start
    <3> QED BY <1>6, <2>6, <3>3, <3>4, <3>5 DEF Switch
  <2>7. CASE Return(ret.val, NoErr)
    BY <2>2, <2>7
  <2> QED BY <1>6, <2>5, <2>6, <2>7 DEF Switch
<1> QED BY <1>5, <1>6

\* Loops.
LEMMA LoopFits ==
    ASSUME Sound, NEW U, Valued(U), out.st = "running"
    PROVE  WhileCondition \/ WhileBody => Fits(U)
<1> SUFFICES ASSUME WhileCondition \/ WhileBody PROVE Fits(U)
  OBVIOUS
<1>1. Top.pc = "body" /\ Node.kind = "while"
  BY DEF WhileCondition, WhileBody, Body, At
<1>2. /\ Closed(U) /\ Kids \in Nat /\ Kids >= 2 /\ \A i \in 1..Kids : Kid(i) \in 0..Size
  BY <1>1, Present, Arity
<1>3. ret.val \in U /\ Top.acc \in U /\ Nil \in U
  BY Present DEF Holds
<1>4. Plain(Nil) /\ Plain(Error)
  BY PlainValues
<1>5. 1 \in 1..Kids /\ 2 \in 1..Kids
  BY <1>2
<1>6. \A v \in U : NextRound(v) => Fits(U)
  BY <1>1, <1>2, <1>5, KeepFits DEF NextRound
<1>7. \A v : v \in {Nil, Error, ret.val, Top.acc} => \A e : Return(v, e) => Fits(U)
  BY <1>1, <1>2, <1>3, <1>4, PlainFits
<1>8. CASE WhileCondition
  <2>1. Sub([Top EXCEPT !.i = 2], Kid(2)) => Fits(U)
    BY <1>1, <1>2, <1>5, ChildFits
  <2> QED BY <1>3, <1>6, <1>7, <1>8, <2>1 DEF WhileCondition
<1>9. CASE WhileBody
  <2>1. WhileBreak => Fits(U)
    BY <1>7 DEF WhileBreak
  <2>2. WhileContinue => Fits(U)
    BY <1>3, <1>6, <1>7 DEF WhileContinue
  <2> QED BY <1>3, <1>6, <1>7, <1>9, <2>1, <2>2 DEF WhileBody
<1> QED BY <1>8, <1>9

\* Values that are made of those there can be taken to be there.
LEMMA AllValued ==
    ASSUME NEW U, Valued(U), NEW S, \A v \in S : PartsIn(v, U)
    PROVE  \E W : U \subseteq W /\ S \subseteq W /\ Valued(W) /\ (Fits(W) => Fits(U))
<1>1. PICK W : U \subseteq W /\ S \subseteq W /\ Closed(W)
  BY AddingAll DEF Valued, Stored
<1>2. Stored(W) /\ FramesHold(W)
  BY <1>1, MoreParts DEF Valued, Stored, FramesHold
<1>3. Fits(W) => Fits(U)
  BY <1>1 DEF Fits
<1> QED BY <1>1, <1>2, <1>3 DEF Valued

\* And so can one.
LEMMA MoreValued ==
    ASSUME NEW U, Valued(U), NEW v, PartsIn(v, U)
    PROVE  \E W : U \subseteq W /\ v \in W /\ Valued(W) /\ (Fits(W) => Fits(U))
<1>1. \A x \in {v} : PartsIn(x, U)
  OBVIOUS
<1>2. \E W : U \subseteq W /\ {v} \subseteq W /\ Valued(W) /\ (Fits(W) => Fits(U))
  BY <1>1, AllValued
<1> QED BY <1>2

\* A snapshot of arguments is a list of values that are there.
LEMMA SnapshotParts ==
    ASSUME Sound, NEW U, Valued(U), NEW v \in U
    PROVE  PartsIn(Snapshot(v), U)
<1>1. PartsIn(v, U) /\ Slots \subseteq U
  BY DEF Valued, Stored, Closed
<1>2. CASE v.t = "args"
  <2>1. PICK s \in DOMAIN scopes : s = v.scope
    BY <1>1, <1>2 DEF PartsIn
  <2>2. PICK q \in Seq(Slots) : q = Visible(s)
    BY MemoryFacts, VisibleFacts DEF Sound
  <2>3. q \in Seq(U)
    BY <1>1
  <2>4. Snapshot(v) = List(q)
    BY <1>2, <2>1, <2>2 DEF Snapshot
  <2> QED BY <2>3, <2>4 DEF List, PartsIn
<1>3. CASE v.t # "args"
  BY <1>1, <1>3 DEF Snapshot
<1> QED BY <1>2, <1>3

\* A snapshot of the environment is a map of snapshots.
LEMMA NativeValued ==
    ASSUME Sound, NEW U, Valued(U), NEW v \in U
    PROVE  \E W : U \subseteq W /\ PartsIn(Native(v), W) /\ Valued(W) /\ (Fits(W) => Fits(U))
<1>1. PICK S : S = {Str(p[1]) : p \in values} \cup {Snapshot(p[2]) : p \in values}
  OBVIOUS
<1>2. \A x \in S : PartsIn(x, U)
  <2>1. \A x : PartsIn(Str(x), U)
    BY PlainValues, PlainParts
  <2>2. \A p \in values : PartsIn(Snapshot(p[2]), U)
    <3>1. \A p \in values : p[2] \in U
      BY DEF Valued, Stored
    <3> QED BY <3>1, SnapshotParts
  <2> QED BY <1>1, <2>1, <2>2
<1>3. PICK W : U \subseteq W /\ S \subseteq W /\ Valued(W) /\ (Fits(W) => Fits(U))
  BY <1>2, AllValued
<1>4. CASE v = EnvView
  <2>1. PICK q : q = {<<Str(p[1]), Snapshot(p[2])>> : p \in values}
    OBVIOUS
  <2>2. IsFiniteSet(q)
    <3>1. IsFiniteSet(values)
      BY DEF Valued, Stored
    <3>2. PICK f : f = [p \in values |-> <<Str(p[1]), Snapshot(p[2])>>]
      OBVIOUS
    <3>3. f \in [values -> q]
      BY <2>1, <3>2
    <3>4. \A x \in q : \E p \in values : f[p] = x
      BY <2>1, <3>2
    <3>5. f \in Surjection(values, q)
      BY <3>3, <3>4 DEF Surjection
    <3> QED BY <3>1, <3>5, FS_Surjection
  <2>3. q \subseteq W \X W
    BY <1>1, <1>3, <2>1
  <2>4. Native(v) = Map(q)
    BY <1>4, <2>1 DEF Native
  <2>5. PartsIn(Map(q), W)
    BY <2>2, <2>3 DEF Map, PartsIn
  <2> QED BY <1>3, <2>4, <2>5
<1>5. CASE v # EnvView
  <2>1. Native(v) = Snapshot(v)
    BY <1>5 DEF Native
  <2>2. PartsIn(Snapshot(v), W)
    BY <1>3, SnapshotParts
  <2> QED BY <1>3, <2>1, <2>2
<1> QED BY <1>4, <1>5

\* What a conversion of it yields.
LEMMA Converted ==
    ASSUME Sound, NEW U, Valued(U), NEW v \in U, NEW typ
    PROVE  \E W : U \subseteq W /\ Convert(Native(v), typ) \in W /\ Valued(W) /\ (Fits(W) => Fits(U))
<1>1. PICK V : U \subseteq V /\ PartsIn(Native(v), V) /\ Valued(V) /\ (Fits(V) => Fits(U))
  BY NativeValued
<1>2. PICK c : c = Convert(Native(v), typ)
  OBVIOUS
<1>3. PartsIn(c, V)
  BY <1>1, <1>2, PlainValues, PlainParts DEF Convert
<1>4. PICK W : V \subseteq W /\ c \in W /\ Valued(W) /\ (Fits(W) => Fits(V))
  BY <1>1, <1>3, MoreValued
<1> QED BY <1>1, <1>2, <1>4

\* Lists.
LEMMA ListFits ==
    ASSUME Sound, NEW U, Valued(U), out.st = "running"
    PROVE  ListValue => Fits(U)
<1>1. ASSUME NEW W, Valued(W), Top.pc = "body", Node.kind = "list", NEW q \in Seq(W), NextElement(q)
      PROVE  Fits(W)
  <2>1. /\ Closed(W) /\ Kids \in Nat /\ \A i \in 1..Kids : Kid(i) \in 0..Size
        /\ Top.i \in 0..Kids /\ IsFrame(Top) /\ IterOK(W, Top.iter)
    BY <1>1, Present, Arity DEF Holds
  <2>2. PICK l : l = List(q)
    OBVIOUS
  <2>3. l.t = "list" /\ PartsIn(l, W)
    BY <1>1, <2>2 DEF List, PartsIn
  <2>4. CASE Return(l, NoErr)
    BY <1>1, <2>1, <2>3, <2>4, ReturnFits
  <2>5. CASE Top.i # Kids /\ Sub([Top EXCEPT !.i = @ + 1, !.acc = l], Kid(Top.i + 1))
    <3>1. PICK i \in 1..Kids : i = Top.i + 1
      BY <2>1, <2>5
    <3>2. PICK f : f = [Top EXCEPT !.i = i, !.acc = l]
      OBVIOUS
    <3>3. Made(f, Top, "body", i, l, Top.todo, Top.iter)
      BY <1>1, <2>1, <3>2, KeptOK
    <3>4. Sub(f, Kid(i)) /\ Kid(i) \in 0..Size
      BY <2>1, <2>5, <3>1, <3>2
    <3> QED BY <1>1, <2>1, <2>3, <3>3, <3>4, CallFits
  <2> QED BY <1>1, <2>2, <2>4, <2>5 DEF NextElement
<1> SUFFICES ASSUME ListValue PROVE Fits(U)
  OBVIOUS
<1>2. Top.pc = "body" /\ Node.kind = "list"
  BY DEF ListValue, Body, At
<1>3. Closed(U) /\ ret.val \in U
  BY Present
<1>4. CASE Return(Nil, Fail) \/ Return(ret.val, Fail)
  BY <1>2, <1>3, <1>4, PlainValues, PlainFits
<1>5. CASE NextElement(<<>>)
  <2>1. PICK q : q = <<>>
    OBVIOUS
  <2>2. q \in Seq(U) /\ NextElement(q)
    BY <1>5, <2>1
  <2> QED BY <1>1, <1>2, <2>2
<1>6. CASE Usable /\ NextElement(Append(Top.acc.elems, Convert(Item, Node.typ)))
  <2>1. PICK W : U \subseteq W /\ Convert(Item, Node.typ) \in W /\ Valued(W) /\ (Fits(W) => Fits(U))
    BY <1>3, Converted DEF Item
  <2>2. Top.acc \in W /\ Top.acc.t = "list"
    <3>1. Top.i # 0
      BY <1>2, <1>6, Present DEF Usable, GotOk, Begun
    <3>2. Holds(W, Top)
      BY <2>1, Present
    <3> QED BY <1>2, <3>1, <3>2 DEF Holds, BodyOK, KindOf, Node
  <2>3. Top.acc.elems \in Seq(W)
    BY <2>1, <2>2, Present DEF Closed, PartsIn
  <2>4. Append(Top.acc.elems, Convert(Item, Node.typ)) \in Seq(W)
    BY <2>1, <2>3
  <2> QED BY <1>1, <1>2, <1>6, <2>1, <2>4
<1> QED BY <1>4, <1>5, <1>6 DEF ListValue

\* Maps.
LEMMA MapFits ==
    ASSUME Sound, NEW U, Valued(U), out.st = "running"
    PROVE  MapValue => Fits(U)
<1>1. ASSUME NEW W, Valued(W), Top.pc = "body", Node.kind = "map", Top.i % 2 = 0,
             NEW q, IsFiniteSet(q), q \subseteq W \X W, NextEntry(q)
      PROVE  Fits(W)
  <2>1. /\ Closed(W) /\ Kids \in Nat /\ \A i \in 1..Kids : Kid(i) \in 0..Size
        /\ Top.i \in 0..Kids /\ IsFrame(Top) /\ IterOK(W, Top.iter)
    BY <1>1, Present, Arity DEF Holds
  <2>2. PICK l : l = Map(q)
    OBVIOUS
  <2>3. l.t = "map" /\ PartsIn(l, W)
    BY <1>1, <2>2 DEF Map, PartsIn
  <2>4. CASE Return(l, NoErr)
    BY <1>1, <2>1, <2>3, <2>4, ReturnFits
  <2>5. CASE Return(Nil, Fail)
    BY <1>1, <2>1, <2>5, PlainValues, PlainFits
  <2>6. CASE Top.i # Kids /\ Sub([Top EXCEPT !.i = @ + 1, !.acc = l], Kid(Top.i + 1))
    <3>1. PICK i \in 1..Kids : i = Top.i + 1
      BY <2>1, <2>6
    <3>2. PICK f : f = [Top EXCEPT !.i = i, !.acc = l]
      OBVIOUS
    <3>3. Made(f, Top, "body", i, l, Top.todo, Top.iter)
      BY <1>1, <2>1, <3>2, KeptOK
    <3>4. Sub(f, Kid(i)) /\ Kid(i) \in 0..Size
      BY <2>1, <2>6, <3>1, <3>2
    <3>5. i % 2 # 0
      BY <1>1, <2>1, <3>1
    <3> QED BY <1>1, <2>1, <2>3, <3>3, <3>4, <3>5, CallFits
  <2> QED BY <1>1, <2>2, <2>4, <2>5, <2>6 DEF NextEntry
<1> SUFFICES ASSUME MapValue PROVE Fits(U)
  OBVIOUS
<1>2. Top.pc = "body" /\ Node.kind = "map"
  BY DEF MapValue, Body, At
<1>3. /\ Closed(U) /\ ret.val \in U /\ Kids \in Nat /\ Kids % 2 = 0
      /\ \A i \in 1..Kids : Kid(i) \in 0..Size
      /\ Top.i \in 0..Kids /\ IsFrame(Top)
  BY <1>2, Present, Arity
<1>4. CASE Return(Nil, Fail)
  BY <1>2, <1>3, <1>4, PlainValues, PlainFits
<1>5. CASE Start /\ NextEntry({})
  <2>1. Top.i % 2 = 0
    BY <1>5 DEF Start
  <2>2. IsFiniteSet({})
    BY FS_EmptySet
  <2> QED BY <1>1, <1>2, <1>5, <2>1, <2>2
<1>6. Usable => /\ Top.i # 0
                /\ \A W : Holds(W, Top) =>
                      Top.acc \in W /\ Top.acc.t = "map" /\ IterOK(W, Top.iter)
                      /\ (Top.i % 2 = 0 => Top.iter.over = "key")
  <2>1. Usable => Top.i # 0
    BY <1>2, Present DEF Usable, GotOk, Begun
  <2> QED BY <1>2, <2>1 DEF Holds, BodyOK, KindOf, Node
<1>7. CASE Usable /\ Top.i % 2 = 1 /\ MapKey
  <2>1. PICK W : U \subseteq W /\ Convert(Item, Node.keyTyp) \in W /\ Valued(W) /\ (Fits(W) => Fits(U))
    BY <1>3, Converted DEF Item
  <2>2. Top.acc \in W /\ Top.acc.t = "map"
    BY <1>6, <1>7, <2>1, Present
  <2>3. PICK it : it = [over |-> "key", key |-> Convert(Item, Node.keyTyp)]
    OBVIOUS
  <2>4. IterOK(W, it) /\ it.over = "key"
    BY <2>1, <2>3 DEF IterOK
  <2>5. CASE Sub([Top EXCEPT !.i = @ + 1, !.iter = it], Kid(Top.i + 1))
    <3>1. Top.i < Kids
      BY <1>3, <1>7
    <3>2. PICK i \in 1..Kids : i = Top.i + 1
      BY <1>3, <3>1
    <3>3. PICK f : f = [Top EXCEPT !.i = i, !.iter = it]
      OBVIOUS
    <3>4. Made(f, Top, "body", i, Top.acc, Top.todo, it)
      BY <1>2, <1>3, <3>3, KeptOK
    <3>5. Sub(f, Kid(i)) /\ Kid(i) \in 0..Size
      BY <1>3, <2>5, <3>2, <3>3
    <3>6. Fits(W)
      BY <1>2, <2>1, <2>2, <2>4, <3>4, <3>5, CallFits
    <3> QED BY <2>1, <3>6
  <2>6. CASE Return(Nil, Fail)
    BY <1>4, <2>6
  <2> QED BY <1>7, <2>3, <2>5, <2>6 DEF MapKey
<1>8. CASE /\ Usable /\ Top.i % 2 = 0
           /\ NextEntry(Top.acc.pairs \cup {<<Top.iter.key, Convert(Item, Node.typ)>>})
  <2>1. PICK W : U \subseteq W /\ Convert(Item, Node.typ) \in W /\ Valued(W) /\ (Fits(W) => Fits(U))
    BY <1>3, Converted DEF Item
  <2>2. Top.acc \in W /\ Top.acc.t = "map" /\ IterOK(W, Top.iter) /\ Top.iter.over = "key"
    BY <1>6, <1>8, <2>1, Present
  <2>3. Top.iter.key \in W
    BY <2>2 DEF IterOK
  <2>4. IsFiniteSet(Top.acc.pairs) /\ Top.acc.pairs \subseteq W \X W
    BY <2>1, <2>2, Present DEF Closed, PartsIn
  <2>5. PICK q : q = Top.acc.pairs \cup {<<Top.iter.key, Convert(Item, Node.typ)>>}
    OBVIOUS
  <2>6. IsFiniteSet(q)
    BY <2>4, <2>5, FS_AddElement
  <2>7. q \subseteq W \X W
    BY <2>1, <2>3, <2>4, <2>5
  <2> QED BY <1>1, <1>2, <1>8, <2>1, <2>5, <2>6, <2>7
<1> QED BY <1>4, <1>5, <1>7, <1>8 DEF MapValue

\* Messages.
LEMMA MessageFits ==
    ASSUME Sound, NEW U, Valued(U), out.st = "running"
    PROVE  Message => Fits(U)
<1> SUFFICES ASSUME Message PROVE Fits(U)
  OBVIOUS
<1>1. Top.pc = "body" /\ Node.kind = "message"
  BY DEF Message, Body, At
<1>2. /\ Closed(U) /\ Kids \in Nat /\ \A i \in 1..Kids : Kid(i) \in 0..Size
      /\ IsFrame(Top) /\ IterOK(U, Top.iter) /\ DOMAIN Node.kids = 1..Kids
  BY <1>1, Present, Arity DEF Holds
<1>3. ASSUME NEW todo, todo \subseteq DOMAIN Node.kids, NEW set, NextField(todo, set)
      PROVE  Fits(U)
  <2>1. PICK m : m = Msg(set)
    OBVIOUS
  <2>2. Plain(m) /\ PartsIn(m, U)
    BY <2>1, PlainValues, PlainParts
  <2>3. CASE Return(m, NoErr) \/ Return(Nil, Fail)
    BY <1>1, <1>2, <2>2, <2>3, PlainValues, PlainFits
  <2>4. ASSUME NEW j \in todo, Sub([Top EXCEPT !.i = j, !.todo = todo \ {j}, !.acc = m], Kid(j))
        PROVE  Fits(U)
    <3>1. PICK i \in 1..Kids : i = j
      BY <1>2, <1>3, <2>4
    <3>2. PICK f, r : r = todo \ {j} /\ f = [Top EXCEPT !.i = i, !.todo = r, !.acc = m]
      OBVIOUS
    <3>3. Made(f, Top, "body", i, m, r, Top.iter)
      <4>1. PICK t : t = Top
        OBVIOUS
      <4>2. IsFrame(t)
        BY <1>2, <4>1
      <4>3. Made([t EXCEPT !.i = i, !.todo = r, !.acc = m], t, t.pc, i, m, r, t.iter)
        BY <4>2, FieldsOK
      <4> QED BY <1>1, <3>2, <4>1, <4>3
    <3>4. Sub(f, Kid(i)) /\ Kid(i) \in 0..Size /\ r \subseteq DOMAIN Node.kids
      BY <1>2, <1>3, <2>4, <3>1, <3>2
    <3> QED BY <1>1, <1>2, <2>2, <3>3, <3>4, CallFits
  <2> QED BY <1>3, <2>1, <2>3, <2>4 DEF NextField
<1>4. CASE Return(Nil, Fail)
  BY <1>1, <1>2, <1>4, PlainValues, PlainFits
<1>5. CASE NextField(DOMAIN Node.kids, {})
  BY <1>3, <1>5
<1>6. CASE Usable /\ \E set : NextField(Top.todo, set)
  <2>1. Top.i # 0
    BY <1>1, <1>6, Present DEF Usable, GotOk, Begun
  <2>2. Top.todo \subseteq DOMAIN Node.kids
    BY <1>1, <2>1, Present DEF Holds, BodyOK, KindOf, KidsOf, Node
  <2> QED BY <1>3, <1>6, <2>2
<1> QED BY <1>4, <1>5, <1>6 DEF Message

\* The place of a scope is one of the message.
LEMMA PlaceOK ==
    ASSUME Memory, NEW s \in DOMAIN scopes
    PROVE  scopes[s].loc \in DOMAIN ValueAt
<1>1. PICK A : WellFormed(A, DOMAIN ValueAt)
  BY DEF Memory
<1>2. PICK N : N = Nodes(DOMAIN ValueAt)
  OBVIOUS
<1>3. scopes \in Seq(N)
  BY <1>1, <1>2 DEF WellFormed
<1>4. scopes[s] \in N
  BY <1>3
<1> QED BY <1>2, <1>4 DEF Nodes

\* The values of messages and programs are there.
LEMMA DataOK ==
    ASSUME NEW U, Closed(U)
    PROVE  /\ \A l \in DOMAIN ValueAt : ValueAt[l] \in U /\ DefaultAt[l] \in U
           /\ prog \in Programs => /\ \A k \in DOMAIN prog.nodes : prog.nodes[k].val \in U
                                   /\ \A i \in 1..Len(prog.args) : prog.args[i] \in U
<1>1. DataOf(prog) \subseteq U /\ Data \subseteq U
  BY DEF Closed, DataOf
<1>2. \A l \in DOMAIN ValueAt : ValueAt[l] \in Data /\ DefaultAt[l] \in Data
  BY DataAssumption
<1>3. ASSUME prog \in Programs
      PROVE  /\ \A k \in DOMAIN prog.nodes : prog.nodes[k].val \in U
             /\ \A i \in 1..Len(prog.args) : prog.args[i] \in U
  <2>1. PICK D : D = DataOf(prog)
    OBVIOUS
  <2>2. prog.args \in Seq(D) /\ \A k \in DOMAIN prog.nodes : prog.nodes[k].val \in D
    BY <1>3, <2>1, DataAssumption
  <2> QED BY <1>1, <2>1, <2>2
<1> QED BY <1>1, <1>2, <1>3

\* Entering, and arguments.
LEMMA EntryFits ==
    ASSUME Sound, NEW U, Valued(U), out.st = "running"
    PROVE  InitCall \/ Refuse \/ DropFails \/ ArgCall \/ ArgFails => Fits(U)
<1> SUFFICES ASSUME InitCall \/ Refuse \/ DropFails \/ ArgCall \/ ArgFails PROVE Fits(U)
  OBVIOUS
<1>1. Closed(U) /\ Plain(Nil) /\ Holds(U, Top) /\ IsFrame(Top) /\ Size \in Nat \ {0}
  BY Present, PlainValues
<1>2. CASE InitCall
  <2>1. Top.pc = "init" /\ Begun(Top) /\ 1 \in 0..Size
    BY <1>1, <1>2 DEF InitCall, At, Begun
  <2> QED BY <1>1, <1>2, <2>1 DEF InitCall, Fits
<1>3. CASE Refuse \/ DropFails \/ ArgFails
  BY <1>1, <1>3, PlainFits DEF Refuse, DropFails, ArgFails, At
<1>4. CASE ArgCall
  <2>1. Top.pc = "args" /\ Node.args = ArgsOf(Top)
    BY <1>4 DEF ArgCall, At, ArgsOf, Node
  <2>2. /\ Top.i \in 0..Len(Node.args) /\ Len(Node.args) \in Nat
        /\ \A i \in 1..Len(Node.args) : Node.args[i] \in 0..Size
        /\ Top.node \in DOMAIN prog.nodes
    BY <1>1, <2>1, Present DEF Holds
  <2>3. CASE Top.i > 0
    <3>1. Node.args[Top.i] \in 0..Size /\ Begun(Top) /\ Sub(Top, Node.args[Top.i])
      BY <1>4, <2>2, <2>3 DEF ArgCall, Begun
    <3> QED BY <1>1, <3>1 DEF Fits
  <2>4. CASE ~(Top.i > 0)
    <3>1. PICK f : f = [Top EXCEPT !.pc = "body"]
      OBVIOUS
    <3>5. Top.i = 0
      BY <2>2, <2>4
    <3>2. Made(f, Top, "body", Top.i, Top.acc, Top.todo, Top.iter)
      BY <1>1, <3>1, FieldOK
    <3>3. Len(Node.kids) \in Nat
      BY <2>1, Present DEF Kids
    <3>4. Holds(U, f)
      BY <1>1, <3>2, <3>3, <3>5 DEF Holds, BodyOK, Made, KidsOf, KindOf, Node
    <3> QED BY <1>1, <1>4, <2>4, <3>1, <3>4 DEF ArgCall, Fits
  <2> QED BY <2>3, <2>4
<1> QED BY <1>2, <1>3, <1>4

\* Values without children, and parent.
LEMMA ValueFits ==
    ASSUME Sound, NEW U, Valued(U), out.st = "running"
    PROVE  ScopeValue \/ ArgValue \/ Default \/ Const \/ AtRoot \/ ParentValue => Fits(U)
<1> SUFFICES ASSUME ScopeValue \/ ArgValue \/ Default \/ Const \/ AtRoot \/ ParentValue PROVE Fits(U)
  OBVIOUS
<1>1. Top.pc \in {"body", "parent"}
  BY DEF ScopeValue, ArgValue, Default, Const, AtRoot, ParentValue, Body, At
<1>2. /\ Closed(U) /\ Plain(Nil) /\ Holds(U, Top) /\ IsFrame(Top) /\ ret.val \in U
      /\ Top.env \in DOMAIN scopes /\ prog \in Programs /\ Top.node \in DOMAIN prog.nodes
  BY <1>1, Present, PlainValues
<1>3. CASE ScopeValue \/ Default
  <2>1. Place \in DOMAIN ValueAt
    BY <1>2, PlaceOK DEF Place, Sound
  <2>2. ValueAt[Place] \in U /\ DefaultAt[Place] \in U
    BY <1>2, <2>1, DataOK
  <2> QED BY <1>1, <1>2, <1>3, <2>2, PlainFits DEF ScopeValue, Default
<1>4. CASE ArgValue
  <2>1. Node.n \in Nat
    <3>1. Node.kind = "arg"
      BY <1>4 DEF ArgValue, Body
    <3>2. prog.nodes[Top.node].n \in 0..MaxUint32
      BY <1>2, <3>1, JumpsAssumption DEF Node
    <3> QED BY <3>2, UintAssumption DEF Node
  <2>2. HasArg(Top.env, Node.n) => Arg(Top.env, Node.n) \in U
    <3>1. Tree /\ Slots \subseteq U
      BY MemoryFacts DEF Sound, Valued, Stored
    <3> QED BY <1>2, <2>1, <3>1, ArgInSlots
  <2> QED BY <1>1, <1>2, <1>4, <2>2, PlainFits DEF ArgValue
<1>5. CASE Const
  <2>1. Node.val \in U
    BY <1>2, DataOK DEF Node
  <2> QED BY <1>1, <1>2, <1>5, <2>1, PlainFits DEF Const
<1>6. CASE AtRoot
  BY <1>1, <1>2, <1>6, PlainFits DEF AtRoot
<1>7. CASE ParentValue
  <2>1. Top.pc = "parent" /\ Node.kind = "parent"
    BY <1>2, <1>7 DEF ParentValue, At, Holds, KindOf, Node
  <2>2. Kid(1) \in 0..Size
    BY <2>1, Arity
  <2>3. CASE Sub([Top EXCEPT !.i = 1], Kid(1))
    <3>1. PICK f : f = [Top EXCEPT !.i = 1]
      OBVIOUS
    <3>2. Made(f, Top, "parent", 1, Top.acc, Top.todo, Top.iter)
      BY <1>2, <2>1, <3>1, FieldOK
    <3>3. Holds(U, f) /\ Begun(f)
      BY <1>2, <2>1, <3>2 DEF Holds, Begun, Made, KindOf
    <3> QED BY <1>2, <2>2, <2>3, <3>1, <3>3 DEF Fits
  <2>4. CASE Return(ret.val, ret.err)
    BY <1>1, <1>2, <2>4, PlainFits
  <2> QED BY <1>7, <2>3, <2>4 DEF ParentValue
<1> QED BY <1>3, <1>4, <1>5, <1>6, <1>7

\* What most kinds do with errors and error values.
LEMMA CommonFits ==
    ASSUME Sound, NEW U, Valued(U), out.st = "running"
    PROVE  PassError \/ PassErrorValue \/ NotBool => Fits(U)
<1> SUFFICES ASSUME PassError \/ PassErrorValue \/ NotBool PROVE Fits(U)
  OBVIOUS
<1>1. Top.pc # "init"
  BY DEF PassError, PassErrorValue, NotBool, Body, At
<1>2. Closed(U) /\ ret.val \in U /\ Plain(Nil) /\ Plain(Error)
  BY Present, PlainValues
<1>3. \E v \in {ret.val, Nil, Error} : \E e : Return(v, e)
  BY DEF PassError, PassErrorValue, NotBool
<1> QED BY <1>1, <1>2, <1>3, PlainFits

\* Storing and loading.
LEMMA StoreFits ==
    ASSUME Sound, NEW U, Valued(U), out.st = "running"
    PROVE  KeyNext \/ BadKey \/ Load => Fits(U)
<1> SUFFICES ASSUME KeyNext \/ BadKey \/ Load PROVE Fits(U)
  OBVIOUS
<1>1. Top.pc \in {"body", "loaded"}
  BY DEF KeyNext, BadKey, Load, Body, At
<1>2. /\ Closed(U) /\ ret.val \in U /\ Plain(Nil) /\ Plain(Null) /\ Holds(U, Top) /\ IsFrame(Top)
      /\ Top.acc \in U
  BY Present, PlainValues DEF Holds
<1>3. \A v : v \in {Nil, Null, ret.val, Top.acc} => \A e : Return(v, e) => Fits(U)
  BY <1>1, <1>2, PlainFits
<1>4. CASE BadKey
  BY <1>3, <1>4 DEF BadKey
<1>5. CASE KeyNext
  <2>1. /\ Top.pc = "body" /\ Node.kind \in {"store", "proc", "load"}
        /\ Node.kind \in {"store", "proc"} => Kids >= 2
        /\ Kids \in Nat /\ Kids >= 1 /\ \A i \in 1..Kids : Kid(i) \in 0..Size
    BY <1>1, <1>5, Arity DEF KeyNext, Body, At
  <2>2. CASE Return(Nil, Fail)
    BY <1>3, <2>2
  <2>3. CASE Sub([Top EXCEPT !.i = 1], Kid(1))
    <3>1. 1 \in 1..Kids /\ Kid(1) \in 0..Size
      BY <2>1
    <3> QED BY <2>1, <2>3, <3>1, ChildFits
  <2>4. CASE Node.kind = "store" /\ Sub([Top EXCEPT !.i = 2, !.acc = ret.val], Kid(2))
    <3>1. 2 \in 1..Kids /\ Kid(2) \in 0..Size
      BY <2>1, <2>4
    <3> QED BY <1>2, <2>1, <2>4, <3>1, KeepFits
  <2>5. CASE Node.kind = "proc" /\ Sub([Top EXCEPT !.i = 1], Kid(2))
    <3>1. 1 \in 1..Kids /\ 2 \in 1..Kids /\ Kid(2) \in 0..Size
      BY <2>1, <2>5
    <3> QED BY <2>1, <2>5, <3>1, ChildFits
  <2>6. \/ Return(Nil, Fail)
        \/ Sub([Top EXCEPT !.i = 1], Kid(1))
        \/ Node.kind = "store" /\ Sub([Top EXCEPT !.i = 2, !.acc = ret.val], Kid(2))
        \/ Node.kind = "proc" /\ Sub([Top EXCEPT !.i = 1], Kid(2))
    BY <1>5 DEF KeyNext, Body
  <2> QED BY <2>2, <2>3, <2>4, <2>5, <2>6
<1>6. CASE Load
  <2>1. CASE Return(Null, NoErr) \/ Return(Top.acc, NoErr)
    BY <1>3, <2>1
  <2>2. CASE InEnv(ret.val.s) /\ ~Return(Null, NoErr)
    <3>1. PICK p : p = CHOOSE q \in values : q[1] = ret.val.s
      OBVIOUS
    <3>2. p \in values
      BY <2>2, <3>1 DEF InEnv
    <3>3. PICK v : v = Value(ret.val.s)
      OBVIOUS
    <3>4. v \in U /\ (v.t = "proc" => v.node \in 0..Size)
      BY <1>2, <3>1, <3>2, <3>3 DEF Value, Valued, Stored, Closed, PartsIn
    <3>5. CASE Return(v, NoErr)
      BY <1>1, <1>2, <3>4, <3>5, PlainFits
    <3>6. CASE v.t = "proc" /\ Sub([Top EXCEPT !.pc = "loaded", !.acc = v], v.node)
      <4>1. PICK f : f = [Top EXCEPT !.pc = "loaded", !.acc = v]
        OBVIOUS
      <4>2. Made(f, Top, "loaded", Top.i, v, Top.todo, Top.iter)
        BY <1>2, <4>1, PointOK
      <4>3. Holds(U, f) /\ Begun(f)
        BY <1>2, <3>4, <4>2 DEF Holds, Begun, Made
      <4> QED BY <1>2, <3>4, <3>6, <4>1, <4>3 DEF Fits
    <3>7. CASE Return(Top.acc, NoErr)
      BY <1>3, <3>7
    <3> QED BY <1>6, <2>2, <3>3, <3>5, <3>6, <3>7 DEF Load
  <2> QED BY <1>6, <2>1, <2>2 DEF Load
<1> QED BY <1>4, <1>5, <1>6

\* The orders of a finite set list its members.
LEMMA OrdersList == ASSUME NEW S, IsFiniteSet(S), NEW o \in Orders(S)
                    PROVE  Cardinality(S) \in Nat /\ DOMAIN o = 1..Cardinality(S) /\ o \in Seq(S)
<1>1. PICK n \in Nat : n = Cardinality(S)
  BY FS_CardinalityType
<1>2. o \in [1..n -> S]
  BY <1>1 DEF Orders
<1> QED BY <1>1, <1>2

\* Iterators have what they yield.
LEMMA IteratorOK ==
    ASSUME Sound, NEW U, Valued(U), NEW v \in U, NEW it \in Iterators(v)
    PROVE  IterOK(U, it) /\ it.over \in {"pairs", "args", "env"}
<1>1. Closed(U) /\ PartsIn(v, U) /\ IsFiniteSet(Keys)
  BY DEF Valued, Stored, Closed
<1>2. CASE v.t = "list"
  <2>1. PICK q \in Seq(U) : q = v.elems
    BY <1>1, <1>2 DEF PartsIn
  <2>2. it = [over |-> "pairs", rest |-> [i \in DOMAIN q |-> <<q[i], Number(i - 1)>>]]
    BY <1>2, <2>1 DEF Iterators
  <2>3. PICK r : r = [i \in DOMAIN q |-> <<q[i], Number(i - 1)>>]
    OBVIOUS
  <2>4. \A i \in DOMAIN q : Number(i - 1) \in U
    <3>1. \A i \in DOMAIN q : i - 1 \in Int
      OBVIOUS
    <3> QED BY <1>1, <3>1 DEF Closed
  <2>5. PICK P : P = U \X U
    OBVIOUS
  <2>6. \A i \in DOMAIN q : r[i] \in P
    BY <2>3, <2>4, <2>5
  <2>7. r \in Seq(P)
    BY <2>3, <2>6
  <2> QED BY <2>2, <2>3, <2>5, <2>7 DEF IterOK
<1>3. CASE v.t = "map"
  <2>1. PICK o \in Orders(v.pairs) : it = [over |-> "pairs", rest |-> [i \in DOMAIN o |-> <<o[i][2], o[i][1]>>]]
    BY <1>3 DEF Iterators
  <2>2. IsFiniteSet(v.pairs) /\ v.pairs \subseteq U \X U
    BY <1>1, <1>3 DEF PartsIn
  <2>3. PICK n : n = Cardinality(v.pairs)
    OBVIOUS
  <2>4. n \in Nat /\ DOMAIN o = 1..n /\ o \in Seq(v.pairs)
    BY <2>2, <2>3, OrdersList
  <2>5. \A i \in 1..n : o[i] \in v.pairs
    BY <2>4
  <2>6. \A i \in 1..n : o[i][1] \in U /\ o[i][2] \in U
    BY <2>2, <2>5
  <2>7. PICK r, P : r = [i \in DOMAIN o |-> <<o[i][2], o[i][1]>>] /\ P = U \X U
    OBVIOUS
  <2>8. \A i \in 1..n : r[i] \in P
    BY <2>4, <2>6, <2>7
  <2>9. r \in Seq(P)
    BY <2>4, <2>7, <2>8
  <2> QED BY <2>1, <2>7, <2>9 DEF IterOK
<1>4. CASE v.t = "args"
  <2>1. v.scope \in DOMAIN scopes
    BY <1>1, <1>4 DEF PartsIn
  <2>2. PICK l \in Nat : l = scopes[v.scope].len
    BY <2>1, MemoryFacts, TreeFacts DEF Sound
  <2>3. it = [over |-> "args", scope |-> v.scope, i |-> 0, pos |-> l - 1]
    BY <1>4, <2>2 DEF Iterators
  <2> QED BY <2>1, <2>3 DEF IterOK
<1>5. CASE v.t = "env"
  <2>1. PICK o \in Orders(Keys) : it = [over |-> "env", rest |-> o]
    BY <1>5 DEF Iterators, Keys
  <2>2. o \in Seq(Keys)
    BY <1>1, OrdersList
  <2> QED BY <2>1, <2>2 DEF IterOK
<1>6. v.t \in {"list", "map", "args", "env"}
  BY DEF Iterators
<1> QED BY <1>2, <1>3, <1>4, <1>5, <1>6

\* Ranges.
LEMMA RangeFits ==
    ASSUME Sound, NEW U, Valued(U), out.st = "running"
    PROVE  Range_ \/ RangeEnd \/ RangeEach \/ RangeDropFails \/ RangeResult => Fits(U)
<1> SUFFICES ASSUME Range_ \/ RangeEnd \/ RangeEach \/ RangeDropFails \/ RangeResult PROVE Fits(U)
  OBVIOUS
<1>1. Top.pc \in {"body", "next", "each", "result"}
  BY DEF Range_, RangeEnd, RangeEach, RangeDropFails, RangeResult, Body, At
<1>2. /\ Closed(U) /\ ret.val \in U /\ Plain(Nil) /\ Plain(Null) /\ Holds(U, Top) /\ IsFrame(Top)
      /\ Top.env \in DOMAIN scopes
  BY Present, PlainValues
<1>3. \A v : v \in {Nil, Null, ret.val} => \A e : Return(v, e) => Fits(U)
  BY <1>1, <1>2, PlainFits
<1>4. Node.kind = "range"
  BY <1>1, <1>2 DEF Range_, RangeEnd, RangeEach, RangeDropFails, RangeResult, Body, At,
                    Holds, KindOf, Node
<1>5. Kids \in Nat /\ Kids >= 2 /\ Kid(1) \in 0..Size /\ Kid(2) \in 0..Size
  BY <1>1, <1>4, Arity
<1>6. CASE RangeEnd \/ RangeDropFails
  BY <1>3, <1>6 DEF RangeEnd, RangeDropFails
<1>7. CASE RangeEach
  <2>1. Begun(Top)
    BY <1>7 DEF RangeEach, At, Begun
  <2> QED BY <1>2, <1>5, <1>7, <2>1 DEF RangeEach, Fits
<1>8. CASE RangeResult
  <2>1. CASE Top.pc = "result" /\ Goto([Top EXCEPT !.pc = "next"])
    <3>1. PICK f : f = [Top EXCEPT !.pc = "next"]
      OBVIOUS
    <3>2. Made(f, Top, "next", Top.i, Top.acc, Top.todo, Top.iter)
      BY <1>2, <3>1, FieldOK
    <3>3. Holds(U, f)
      BY <1>2, <2>1, <3>2 DEF Holds, Made, KindOf
    <3> QED BY <1>2, <2>1, <3>1, <3>3 DEF Fits
  <2>2. CASE Return(ret.val, Wrap(ret.err)) \/ Return(ret.val, NoErr)
    BY <1>3, <2>2
  <2> QED BY <1>8, <2>1, <2>2 DEF RangeResult, At
<1>9. CASE Range_
  <2>1. Top.pc = "body"
    BY <1>9 DEF Range_, Body, At
  <2>2. ASSUME NEW v \in U, RangeOver(v)
        PROVE  Fits(U)
    <3>1. CASE Return(Nil, Fail)
      BY <1>3, <3>1
    <3>2. ASSUME NEW it \in Iterators(v), Goto([Top EXCEPT !.pc = "next", !.iter = it])
          PROVE  Fits(U)
      <4>1. IterOK(U, it) /\ it.over \in {"pairs", "args", "env"}
        BY <2>2, <3>2, IteratorOK
      <4>2. PICK p : p = "next"
        OBVIOUS
      <4>3. PICK f : f = [Top EXCEPT !.pc = p, !.iter = it]
        OBVIOUS
      <4>4. Made(f, Top, p, Top.i, Top.acc, Top.todo, it)
        BY <1>2, <4>3, PointOK
      <4>5. Holds(U, f)
        BY <1>2, <1>4, <4>1, <4>2, <4>4 DEF Holds, Made, KindOf, Node
      <4> QED BY <1>2, <3>2, <4>2, <4>3, <4>5 DEF Fits
    <3> QED BY <2>2, <3>1, <3>2 DEF RangeOver
  <2>3. CASE Return(Nil, Fail)
    BY <1>3, <2>3
  <2>4. CASE RangeOver(ValueAt[Place])
    <3>1. Place \in DOMAIN ValueAt
      BY <1>2, PlaceOK DEF Place, Sound
    <3> QED BY <1>2, <2>2, <2>4, <3>1, DataOK
  <2>5. CASE Sub([Top EXCEPT !.i = 1], Kid(1))
    <3>1. 1 \in 1..Kids
      BY <1>5
    <3> QED BY <1>4, <1>5, <2>1, <2>5, <3>1, ChildFits
  <2>6. CASE RangeOver(ret.val)
    BY <1>2, <2>2, <2>6
  <2> QED BY <1>9, <2>3, <2>4, <2>5, <2>6 DEF Range_
<1> QED BY <1>6, <1>7, <1>8, <1>9

\* So all steps that change nothing but the stack.
LEMMA StackFits ==
    ASSUME Sound, NEW U, Valued(U), StackStep
    PROVE  Fits(U)
<1>1. out.st = "running"
  BY StepRuns DEF Sound
<1>2. CASE InitCall \/ Refuse \/ DropFails \/ ArgCall \/ ArgFails
  BY <1>1, <1>2, EntryFits
<1>3. CASE ScopeValue \/ ArgValue \/ Default \/ Const \/ AtRoot \/ ParentValue
  BY <1>1, <1>3, ValueFits
<1>4. CASE PassError \/ PassErrorValue \/ NotBool
  BY <1>1, <1>4, CommonFits
<1>5. CASE ListValue
  BY <1>1, <1>5, ListFits
<1>6. CASE MapValue
  BY <1>1, <1>6, MapFits
<1>7. CASE Message
  BY <1>1, <1>7, MessageFits
<1>8. CASE Not \/ Connective
  BY <1>1, <1>8, LogicFits
<1>9. CASE Sequence \/ Switch
  BY <1>1, <1>9, BranchFits
<1>10. CASE WhileCondition \/ WhileBody
  BY <1>1, <1>10, LoopFits
<1>11. CASE KeyNext \/ BadKey \/ Load
  BY <1>1, <1>11, StoreFits
<1>12. CASE Range_ \/ RangeEnd \/ RangeEach \/ RangeDropFails \/ RangeResult
  BY <1>1, <1>12, RangeFits
<1> QED BY <1>2, <1>3, <1>4, <1>5, <1>6, <1>7, <1>8, <1>9, <1>10, <1>11, <1>12 DEF StackStep

-----------------------------------------------------------------------------
(***************************************************************************)
(* Steps that change the environment, scopes and arguments.                *)
(***************************************************************************)

\* Another point with a number of arguments to come.
LEMMA EntryOK ==
    ASSUME NEW t, IsFrame(t), NEW p, NEW x
    PROVE  Made([t EXCEPT !.pc = p, !.i = x], t, p, x, t.acc, t.todo, t.iter)
<1>1. PICK h : h = [t EXCEPT !.pc = p]
  OBVIOUS
<1>2. Made(h, t, p, t.i, t.acc, t.todo, t.iter)
  BY <1>1, FieldOK
<1>3. IsFrame(h)
  BY <1>2 DEF Made
<1>4. Made([h EXCEPT !.i = x], h, h.pc, x, h.acc, h.todo, h.iter)
  BY <1>3, FieldOK
<1>5. [t EXCEPT !.pc = p, !.i = x] = [h EXCEPT !.i = x]
  BY <1>1
<1> QED BY <1>2, <1>4, <1>5 DEF Made

\* What is known of values after a step that puts one into the environment.
LEMMA PutValued ==
    ASSUME Sound, out.st = "running", NEW U, Valued(U), prog' = prog, UNCHANGED scopeVars, Top.pc # "init",
           NEW key, NEW v, PartsIn(v, U), Put(key, v), NEW w, NEW e, Return(w, e), w = v \/ Plain(w)
    PROVE  \E W : Valued(W)'
<1>1. PICK V : U \subseteq V /\ v \in V /\ Valued(V)
  BY MoreValued
<1>2. PartsIn(w, V) /\ frames # <<>>
  BY <1>1, PlainParts, Present DEF Valued, Stored, Closed
<1>3. PICK W : V \subseteq W /\ w \in W /\ Valued(W)
  BY <1>1, <1>2, MoreValued
<1>4. Keys' = Keys \cup {key}
  <2>1. \A x : x \in Keys' <=> \E p \in values' : x = p[1]
    BY DEF Keys
  <2>2. \A x : x \in Keys <=> \E p \in values : x = p[1]
    BY DEF Keys
  <2>3. PICK s : s = <<key, v>>
    OBVIOUS
  <2>4. s[1] = key /\ values' = {p \in values : p[1] # key} \cup {s}
    BY <2>3 DEF Put
  <2>5. ASSUME NEW x, x # key PROVE x \in Keys' <=> x \in Keys
    BY <2>1, <2>2, <2>4, <2>5
  <2>6. key \in Keys'
    BY <2>1, <2>4
  <2> QED BY <2>5, <2>6
<1>5. IsFiniteSet(Keys') /\ Keys \subseteq Keys' /\ IsFiniteSet(values')
  <2>1. PICK r : r = {p \in values : p[1] # key}
    OBVIOUS
  <2>2. IsFiniteSet(Keys) /\ IsFiniteSet(values) /\ r \subseteq values
    BY <1>3, <2>1 DEF Valued, Stored
  <2>3. IsFiniteSet(r)
    BY <2>2, FS_Subset
  <2>4. values' = r \cup {<<key, v>>}
    BY <2>1 DEF Put
  <2>5. IsFiniteSet(values')
    BY <2>3, <2>4, FS_AddElement
  <2> QED BY <1>4, <2>2, <2>5, FS_AddElement
<1>6. \A p \in values' : p[2] \in W
  <2>1. <<key, v>>[2] = v
    OBVIOUS
  <2> QED BY <1>1, <1>3, <2>1 DEF Put, Valued, Stored
<1>7. Spares /\ arrays' = arrays /\ scopes' = scopes
  BY <1>5 DEF Spares, Grows, scopeVars
<1>8. Closed(W)'
  BY <1>3, <1>7, SameHolds DEF Spares, Valued, Stored
<1>9. Slots' \subseteq W
  <2>1. Slots' = Slots
    BY <1>7 DEF Slots
  <2> QED BY <1>3, <2>1 DEF Valued, Stored
<1>10. Stored(W)'
  BY <1>5, <1>6, <1>8, <1>9 DEF Stored
<1>11. frames' = Front(frames) /\ ret'.val = w
  BY DEF Return
<1> QED BY <1>2, <1>3, <1>7, <1>10, <1>11, LeavesHold

\* Breaks and continues, storing and programs.
LEMMA EffectValued ==
    ASSUME Sound, NEW U, Valued(U), Signal \/ Store \/ Program
    PROVE  \E W : Valued(W)'
<1>1. /\ out.st = "running" /\ Top.pc = "body" /\ prog' = prog /\ UNCHANGED scopeVars
      /\ Node.kind \in {"break", "continue", "store", "proc", "program"}
  BY DEF Signal, Store, Program, Body, At
<1>2. /\ Closed(U) /\ Plain(Nil) /\ Plain(Null) /\ Holds(U, Top) /\ Top.acc \in U /\ frames # <<>>
      /\ Top.env \in DOMAIN scopes /\ Top.node \in DOMAIN prog.nodes /\ prog \in Programs
  BY <1>1, Present, PlainValues DEF Holds
<1>3. ASSUME UNCHANGED values, NEW v, NEW e, Return(v, e), v \in U \/ PartsIn(v, U)
      PROVE  \E W : Valued(W)'
  <2>1. Fits(U)
    BY <1>1, <1>2, <1>3, ReturnFits
  <2> QED BY <1>1, <1>2, <1>3, <2>1, FitsValued
<1>4. CASE Signal
  <2>1. \E v \in {Nil, Null} : \E e : Return(v, e)
    BY <1>4 DEF Signal
  <2>2. UNCHANGED values
    BY <1>4 DEF Signal
  <2> QED BY <1>2, <1>3, <2>1, <2>2, PlainParts
<1>5. CASE Store
  <2>1. CASE Put(ret.val.s, Top.acc) /\ Return(Top.acc, NoErr)
    <3>1. PartsIn(Top.acc, U)
      BY <1>2 DEF Closed
    <3> QED BY <1>1, <2>1, <3>1, PutValued
  <2>2. CASE Node.kind = "proc" /\ Put(ret.val.s, Proc(Kid(1))) /\ Return(Null, NoErr)
    <3>1. Kid(1) \in 0..Size
      BY <1>1, <2>2, Arity
    <3>2. PartsIn(Proc(Kid(1)), U)
      BY <3>1 DEF Proc, PartsIn
    <3> QED BY <1>1, <1>2, <2>2, <3>2, PutValued
  <2> QED BY <1>5, <2>1, <2>2 DEF Store, Body
<1>6. CASE Program
  <2>1. Node.val \in U
    BY <1>2, DataOK DEF Node
  <2>2. HasArg(Top.env, Node.n) => Arg(Top.env, Node.n) \in U
    <3>1. Node.n \in Nat
      <4>1. prog.nodes[Top.node].n \in 0..MaxUint32
        BY <1>2, <1>6, JumpsAssumption DEF Node, Program, Body
      <4> QED BY <4>1, UintAssumption DEF Node
    <3>2. Tree /\ Slots \subseteq U
      BY MemoryFacts DEF Sound, Valued, Stored
    <3> QED BY <1>2, <3>1, <3>2, ArgInSlots
  <2>3. PartsIn(ArgView(Top.env), U) /\ \A v \in {EnvView, Nil, Null, Error} : PartsIn(v, U)
    BY <1>2, PlainValues, PlainParts DEF ArgView, PartsIn
  <2>4. \A v \in U : PartsIn(v, U)
    BY <1>2 DEF Closed
  <2>5. \/ Operand \in {Node.val, ArgView(Top.env), EnvView, Null, Error}
        \/ HasArg(Top.env, Node.n) /\ Operand = Arg(Top.env, Node.n)
    BY DEF Operand
  <2>6. PartsIn(Operand, U)
    BY <2>1, <2>2, <2>3, <2>4, <2>5
  <2>7. \/ UNCHANGED values /\ \E v \in {Operand, Nil} : \E e : Return(v, e)
        \/ Put(Node.key, Operand) /\ Return(Null, NoErr)
    BY <1>6 DEF Program
  <2>8. CASE Put(Node.key, Operand) /\ Return(Null, NoErr)
    BY <1>1, <1>2, <2>6, <2>8, PutValued
  <2> QED BY <1>3, <2>3, <2>6, <2>7, <2>8
<1> QED BY <1>4, <1>5, <1>6

\* Slots after a push: they hold the new argument too.
LEMMA SlotsPushed ==
    ASSUME Memory, NEW s \in DOMAIN scopes, NEW v, PushArg(s, v), NEW W, Slots \subseteq W, v \in W
    PROVE  Slots' \subseteq W /\ DOMAIN scopes' = DOMAIN scopes
<1>1. PICK A0 : ZeroArg \in A0 /\ WellFormed(A0, DOMAIN ValueAt)
  BY DEF Memory
<1>2. PICK A, L : A = A0 \cup {v} /\ L = DOMAIN ValueAt
  OBVIOUS
<1>3. WellFormed(A, L) /\ v \in A /\ ZeroArg \in A
  BY <1>1, <1>2, WellFormedMore
<1>4. DOMAIN scopes' = DOMAIN scopes
  BY ArgsKeepMemory
<1>5. \A t \in DOMAIN scopes : \A i \in 1..scopes'[t].len :
         \/ arrays'[scopes'[t].arr][i] = v
         \/ /\ i \in 1..scopes[t].len
            /\ arrays'[scopes'[t].arr][i] = arrays[scopes[t].arr][i]
  BY <1>3, PushedSlots
<1>6. \A t \in DOMAIN scopes : \A i \in 1..scopes[t].len : arrays[scopes[t].arr][i] \in W
  BY DEF Slots
<1>7. \A t \in DOMAIN scopes' : \A i \in 1..scopes'[t].len : arrays'[scopes'[t].arr][i] \in W
  BY <1>4, <1>5, <1>6
<1> QED BY <1>4, <1>7 DEF Slots

\* Slots after a drop.
LEMMA SlotsDropped ==
    ASSUME Memory, NEW s \in DOMAIN scopes, NEW n \in Nat, DropArgs(s, n)
    PROVE  Slots' \subseteq Slots /\ DOMAIN scopes' = DOMAIN scopes
<1>1. PICK A : WellFormed(A, DOMAIN ValueAt)
  BY DEF Memory
<1>2. PICK L : L = DOMAIN ValueAt
  OBVIOUS
<1>3. WellFormed(A, L)
  BY <1>1, <1>2
<1>4. /\ arrays' = arrays /\ DOMAIN scopes' = DOMAIN scopes
      /\ \A t \in DOMAIN scopes :
            \/ scopes'[t].arr = 0 /\ scopes'[t].len = 0
            \/ scopes'[t].arr = scopes[t].arr /\ scopes'[t].len \in 0..scopes[t].len
  BY <1>3, DropFits
<1>5. ASSUME NEW t \in DOMAIN scopes, NEW i \in 1..scopes'[t].len
      PROVE  i \in 1..scopes[t].len /\ arrays'[scopes'[t].arr][i] = arrays[scopes[t].arr][i]
  <2>1. PICK l \in Nat : l = scopes[t].len
    BY <1>3, Windows
  <2>2. scopes'[t].len # 0
    BY <1>5
  <2>3. scopes'[t].arr = scopes[t].arr /\ scopes'[t].len \in 0..l
    BY <1>4, <2>1, <2>2
  <2> QED BY <1>4, <1>5, <2>1, <2>3
<1> QED BY <1>4, <1>5 DEF Slots

\* Slots when scopes are new, without arguments or as copies.
LEMMA SlotsShifted ==
    ASSUME Memory', arrays' = arrays,
           \A t \in DOMAIN scopes' : scopes'[t].arr = 0 \/ \E u \in DOMAIN scopes : scopes'[t] = scopes[u]
    PROVE  Slots' \subseteq Slots
<1>1. PICK A : WellFormed(A, DOMAIN ValueAt)'
  BY DEF Memory
<1>2. \A t \in DOMAIN scopes' : scopes'[t].arr = 0 => scopes'[t].len <= 0
  BY <1>1 DEF WellFormed, Cap
<1>3. ASSUME NEW t \in DOMAIN scopes', NEW i \in 1..scopes'[t].len
      PROVE  \E u \in DOMAIN scopes : scopes'[t] = scopes[u]
  <2>1. Numbered(scopes')
    BY MemoryNext
  <2>2. PICK l \in Nat : l = scopes'[t].len
    BY <1>3, <2>1 DEF Numbered
  <2>3. l > 0
    BY <1>3, <2>2
  <2>4. scopes'[t].arr # 0
    BY <1>2, <1>3, <2>2, <2>3
  <2> QED BY <1>3, <2>4
<1> QED BY <1>3 DEF Slots

\* The evaluation goes on after such a step.
LEMMA WorkHolds ==
    ASSUME Sound, out.st = "running", NEW U, Valued(U), NEW W, U \subseteq W, Closed(W),
           prog' = prog, values' = values, Grows, Slots' \subseteq W,
           NEW f, Holds(W, f), frames' = Append(Front(frames), f),
           ret'.val \in W, ret' # NoRet => Begun(f)
    PROVE  Valued(W)'
<1>1. Spares /\ Keys' = Keys
  BY DEF Spares, Keys
<1>2. Closed(W)' /\ Holds(W, f)'
  BY <1>1, SameHolds DEF Spares
<1>3. Stored(W)'
  BY <1>1, <1>2 DEF Stored, Valued
<1>4. frames # <<>>
  BY DEF Sound, Inv, OutOK
<1> QED BY <1>1, <1>2, <1>3, <1>4, GoesHold

\* Entering a value.
LEMMA EnterValued ==
    ASSUME Sound, NEW U, Valued(U), Enter
    PROVE  \E W : Valued(W)'
<1>1. out.st = "running" /\ Top.pc = "scope" /\ Top.node \in DOMAIN prog.nodes /\ prog' = prog /\ values' = values
  BY DEF Enter, At
<1>2. /\ Closed(U) /\ Plain(Nil) /\ Holds(U, Top) /\ Top.acc \in U /\ frames # <<>> /\ Nil \in U
      /\ Top.env \in DOMAIN scopes /\ prog \in Programs /\ IsFrame(Top)
  BY <1>1, Present, PlainValues DEF Holds
<1>3. Memory' /\ Intact
  BY EnterCourse
<1>4. CASE UNCHANGED scopeVars /\ Return(Nil, Fail)
  <2>1. Fits(U)
    BY <1>1, <1>2, <1>4, PlainFits
  <2> QED BY <1>1, <1>2, <1>4, <2>1, FitsValued
<1>5. ASSUME NEW f, frames' = Append(Front(frames), f), ret' = NoRet,
             f.pc = "drop", f.node = Top.node, f.acc = Top.acc, f.iter = Top.iter, Slots' \subseteq Slots
      PROVE  \E W : Valued(W)'
  <2>1. Holds(U, f)
    BY <1>2, <1>5 DEF Holds
  <2>2. NoRet.val \in U /\ Grows /\ Slots' \subseteq U
    BY <1>2, <1>3, <1>5 DEF NoRet, Intact, Grows, Valued, Stored
  <2> QED BY <1>1, <1>2, <1>5, <2>1, <2>2, WorkHolds
<1>6. CASE UNCHANGED scopeVars /\ Node.scope = <<>>
  <2>1. PICK f : f = [Top EXCEPT !.pc = "drop"]
    OBVIOUS
  <2>2. Goto(f)
    BY <1>6, <2>1 DEF Enter, ShiftScope
  <2>3. Made(f, Top, "drop", Top.i, Top.acc, Top.todo, Top.iter)
    BY <1>2, <2>1, FieldOK
  <2>4. Slots' = Slots
    BY <1>6 DEF scopeVars, Slots
  <2> QED BY <1>5, <2>2, <2>3, <2>4 DEF Goto, Made
<1>7. ASSUME NEW h, Descends(h) PROVE \E W : Valued(W)'
  <2>1. \A t \in DOMAIN scopes' : scopes'[t].arr = 0 \/ \E u \in DOMAIN scopes : scopes'[t] = scopes[u]
    BY <1>7 DEF Descends
  <2>2. Slots' \subseteq Slots
    BY <1>3, <1>7, <2>1, SlotsShifted DEF Descends
  <2>3. Len(scopes') # Len(scopes)
    <3>1. Len(scopes) \in Nat /\ Len(scopes) < Len(scopes')
      BY <1>7, MemoryFacts DEF Descends, Sound
    <3> QED BY <3>1
  <2>4. ~UNCHANGED scopeVars
    BY <2>3 DEF scopeVars
  <2>5. PICK z, p : z = Len(scopes') /\ p = "drop"
    OBVIOUS
  <2>6. PICK f : f = [Top EXCEPT !.pc = p, !.env = z]
    OBVIOUS
  <2>7. Goto(f)
    BY <2>4, <2>5, <2>6, Zenon DEF Enter, ShiftScope, NewScope
  <2>8. f.pc = p /\ f.node = Top.node /\ f.acc = Top.acc /\ f.iter = Top.iter
    <3>1. PICK t : t = Top
      OBVIOUS
    <3>2. IsFrame(t) /\ f = [t EXCEPT !.pc = p, !.env = z]
      BY <1>2, <2>6, <3>1
    <3>3. PICK k : k = [t EXCEPT !.pc = p]
      OBVIOUS
    <3>4. Made(k, t, p, t.i, t.acc, t.todo, t.iter)
      BY <3>2, <3>3, FieldOK
    <3>5. IsFrame(k) /\ k.pc = p /\ k.node = t.node /\ k.acc = t.acc /\ k.iter = t.iter
      BY <3>4 DEF Made
    <3>6. f = [k EXCEPT !.env = z]
      BY <3>2, <3>3
    <3>7. f.pc = k.pc /\ f.node = k.node /\ f.acc = k.acc /\ f.iter = k.iter
      BY <3>5, <3>6 DEF IsFrame
    <3> QED BY <3>1, <3>5, <3>7
  <2> QED BY <1>5, <2>2, <2>5, <2>7, <2>8 DEF Goto
<1> QED BY <1>2, <1>4, <1>6, <1>7, EnterGoes DEF Sound

\* The next argument of a list is in an allocated scope, and there unless it is gone.
LEMMA NextArgOK ==
    ASSUME Tree, NEW it, it.over = "args", it.scope \in DOMAIN scopes, it.pos \in Int, ~ArgGone(it),
           NEW a \in NextArg(it)
    PROVE  /\ a[1] \in DOMAIN scopes /\ a[2] \in Nat
           /\ a[2] < scopes[a[1]].len /\ scopes[a[1]].len \in Nat
<1>1. ~(a[2] >= scopes[a[1]].len)
  BY DEF ArgGone
<1>2. a[1] \in DOMAIN scopes /\ a[2] \in Nat
  <2>1. CASE it.pos >= 0
    <3>1. a = <<it.scope, it.pos>>
      BY <2>1 DEF NextArg
    <3>2. a[1] = it.scope /\ a[2] = it.pos
      BY <3>1
    <3> QED BY <2>1, <3>2
  <2>2. CASE ~(it.pos >= 0)
    <3>1. PICK up : up = Path(it.scope)
      OBVIOUS
    <3>2. PICK k \in 1..Len(scopes) : /\ up[k] # 0 /\ scopes[up[k]].len > 0
                                      /\ a = <<up[k], scopes[up[k]].len - 1>>
      BY <2>2, <3>1 DEF NextArg
    <3>3. Len(scopes) \in Nat /\ DOMAIN scopes = 1..Len(scopes)
      BY TreeFacts
    <3>4. up \in [0..Len(scopes) -> 0..Len(scopes)]
      BY <3>1, PathFacts DEF PathIsWalk
    <3>5. up[k] \in DOMAIN scopes
      BY <3>2, <3>3, <3>4
    <3>6. PICK s \in DOMAIN scopes : s = up[k]
      BY <3>5
    <3>7. PICK l \in Nat : l = scopes[s].len
      BY TreeFacts
    <3>8. a = <<s, l - 1>> /\ l > 0
      BY <3>2, <3>6, <3>7
    <3>9. a[1] = s /\ a[2] = l - 1
      BY <3>8
    <3> QED BY <3>8, <3>9
  <2> QED BY <2>1, <2>2
<1>3. PICK l \in Nat : l = scopes[a[1]].len
  BY <1>2, TreeFacts
<1> QED BY <1>1, <1>2, <1>3

\* A push goes on as frame f.
LEMMA PushValued ==
    ASSUME Sound, out.st = "running", NEW U, Valued(U), prog' = prog, values' = values,
           NEW s \in DOMAIN scopes, NEW v \in U, PushArg(s, v),
           NEW f, Holds(U, f), Goto(f)
    PROVE  \E W : Valued(W)'
<1>1. Closed(U) /\ Slots \subseteq U /\ Nil \in U
  BY Present DEF Valued, Stored
<1>2. Slots' \subseteq U /\ DOMAIN scopes' = DOMAIN scopes
  BY <1>1, SlotsPushed DEF Sound
<1>3. NoRet.val \in U /\ Grows
  BY <1>1, <1>2 DEF NoRet, Grows
<1> QED BY <1>1, <1>2, <1>3, WorkHolds DEF Goto

\* The arguments of Eval, and those of a value.
LEMMA PushesValued ==
    ASSUME Sound, NEW U, Valued(U), ScopeStep, InitPush \/ ArgPush
    PROVE  \E W : Valued(W)'
<1>1. out.st = "running" /\ Top.pc \in {"init", "args"} /\ prog' = prog /\ values' = values
  BY DEF InitPush, ArgPush, At, ScopeStep, machine
<1>2. /\ Closed(U) /\ Holds(U, Top) /\ ret.val \in U
      /\ Top.env \in DOMAIN scopes /\ prog \in Programs /\ IsFrame(Top) /\ 1 \in DOMAIN scopes
  BY <1>1, Present, MemoryFacts DEF Sound
<1>3. PICK x : x = Top.i - 1
  OBVIOUS
<1>4. PICK f : f = [Top EXCEPT !.i = x]
  OBVIOUS
<1>5. Goto(f)
  BY <1>3, <1>4 DEF InitPush, ArgPush
<1>6. Made(f, Top, Top.pc, x, Top.acc, Top.todo, Top.iter)
  BY <1>2, <1>4, FieldOK
<1>7. CASE InitPush
  <2>1. Top.pc = "init" /\ Top.i > 0 /\ PushArg(1, prog.args[Top.i])
    BY <1>7 DEF InitPush, At
  <2>2. Len(prog.args) \in Nat
    <3>1. prog.args \in Seq(DataOf(prog))
      BY <1>2, DataAssumption
    <3> QED BY <3>1, LenProperties
  <2>3. Top.i \in 1..Len(prog.args) /\ x \in 0..Len(prog.args)
    BY <1>2, <1>3, <2>1, <2>2 DEF Holds
  <2>4. prog.args[Top.i] \in U
    BY <1>2, <2>3, DataOK
  <2>5. Holds(U, f)
    BY <1>2, <1>6, <2>1, <2>3 DEF Holds, Made
  <2> QED BY <1>1, <1>2, <1>5, <2>1, <2>4, <2>5, PushValued
<1>8. CASE ArgPush
  <2>1. Top.pc = "args" /\ PushArg(Top.env, ret.val) /\ Top.i # 0
    BY <1>1, <1>8, Present DEF ArgPush, At, GotOk, Begun
  <2>2. Len(ArgsOf(Top)) \in Nat
    BY <1>1, <2>1, Present DEF ArgsOf, Node
  <2>3. x \in 0..Len(ArgsOf(Top))
    BY <1>2, <1>3, <2>1, <2>2 DEF Holds
  <2>4. Holds(U, f)
    BY <1>2, <1>6, <2>1, <2>3 DEF Holds, Made, ArgsOf
  <2> QED BY <1>1, <1>2, <1>5, <2>1, <2>4, PushValued
<1> QED BY <1>7, <1>8

\* An iterator after its next element.
LEMMA IterNext ==
    ASSUME NEW it, NEW r, it = [over |-> it.over, rest |-> it.rest]
    PROVE  [it EXCEPT !.rest = r] = [over |-> it.over, rest |-> r]
<1>1. PICK o, q : it = [over |-> o, rest |-> q] /\ o = it.over
  OBVIOUS
<1>2. [it EXCEPT !.rest = r] = [over |-> o, rest |-> r]
  BY <1>1
<1> QED BY <1>1, <1>2

\* What the iterators of a range yield is there, and what is left of them too.
LEMMA PairOK ==
    ASSUME Sound, NEW U, Valued(U), out.st = "running", NEW it, IterOK(U, it),
           it.over \in {"pairs", "args", "env"}, ~ArgGone(it), NEW p \in NextPair(it)
    PROVE  /\ p.pair[1] \in U \/ PartsIn(p.pair[1], U)
           /\ p.pair[2] \in U /\ IterOK(U, p.iter) /\ p.iter.over = it.over
<1>1. Closed(U) /\ Tree /\ Slots \subseteq U
  BY MemoryFacts DEF Sound, Valued, Stored
<1>2. CASE it.over = "args"
  <2>1. PICK a \in NextArg(it) :
           p = [pair |-> <<arrays[scopes[a[1]].arr][a[2] + 1], Number(it.i)>>,
                iter |-> [it EXCEPT !.scope = a[1], !.pos = a[2] - 1, !.i = @ + 1]]
    BY <1>2 DEF NextPair
  <2>2. /\ it = [over |-> "args", scope |-> it.scope, i |-> it.i, pos |-> it.pos]
        /\ it.scope \in DOMAIN scopes /\ it.i \in Int /\ it.pos \in Int /\ it.pos >= -1
    BY <1>2 DEF IterOK
  <2>3. PICK s, n : s = a[1] /\ n = a[2]
    OBVIOUS
  <2>4. s \in DOMAIN scopes /\ n \in Nat /\ n < scopes[s].len /\ scopes[s].len \in Nat
    BY <1>1, <1>2, <2>1, <2>2, <2>3, NextArgOK
  <2>5. PICK v, w : v = arrays[scopes[s].arr][n + 1] /\ w = Number(it.i)
    OBVIOUS
  <2>6. v \in U /\ w \in U
    <3>1. n + 1 \in 1..scopes[s].len
      BY <2>4
    <3>2. v \in Slots
      BY <2>4, <2>5, <3>1 DEF Slots
    <3> QED BY <1>1, <2>2, <2>5, <3>2 DEF Closed
  <2>7. PICK x, i : x = n - 1 /\ i = it.i + 1
    OBVIOUS
  <2>8. x \in Int /\ x >= -1 /\ i \in Int
    BY <2>2, <2>4, <2>7
  <2>9. [it EXCEPT !.scope = s, !.pos = x, !.i = i] = [over |-> "args", scope |-> s, i |-> i, pos |-> x]
    <3>1. PICK o, b, c : it = [over |-> "args", scope |-> o, i |-> b, pos |-> c]
      BY <2>2
    <3>2. PICK u : u = [over |-> "args", scope |-> s, i |-> b, pos |-> c]
      OBVIOUS
    <3>3. [it EXCEPT !.scope = s] = u
      BY <3>1, <3>2
    <3>4. PICK z : z = [over |-> "args", scope |-> s, i |-> b, pos |-> x]
      OBVIOUS
    <3>5. [u EXCEPT !.pos = x] = z
      BY <3>2, <3>4
    <3>6. [z EXCEPT !.i = i] = [over |-> "args", scope |-> s, i |-> i, pos |-> x]
      BY <3>4
    <3> QED BY <3>3, <3>5, <3>6
  <2>10. p = [pair |-> <<v, w>>, iter |-> [over |-> "args", scope |-> s, i |-> i, pos |-> x]]
    <3>1. p = [pair |-> <<v, w>>, iter |-> [it EXCEPT !.scope = s, !.pos = x, !.i = i]]
      BY <2>1, <2>3, <2>5, <2>7
    <3> QED BY <2>9, <3>1
  <2>11. PICK t : t = [over |-> "args", scope |-> s, i |-> i, pos |-> x]
    OBVIOUS
  <2>12. IterOK(U, t) /\ t.over = "args"
    BY <2>4, <2>8, <2>11 DEF IterOK
  <2>13. p.pair[1] = v /\ p.pair[2] = w /\ p.iter = t
    BY <2>10, <2>11
  <2> QED BY <1>2, <2>6, <2>12, <2>13
<1>3. CASE it.over = "pairs"
  <2>1. PICK P : P = U \X U
    OBVIOUS
  <2>2. PICK q \in Seq(P) : q = it.rest /\ it = [over |-> "pairs", rest |-> q]
    BY <1>3, <2>1 DEF IterOK
  <2>3. q # <<>> /\ p = [pair |-> q[1], iter |-> [it EXCEPT !.rest = Tail(@)]]
    BY <1>3, <2>2 DEF NextPair
  <2>4. PICK r : r = Tail(q)
    OBVIOUS
  <2>5. q[1] \in P /\ r \in Seq(P)
    BY <2>3, <2>4
  <2>6. PICK t : t = [over |-> "pairs", rest |-> r]
    OBVIOUS
  <2>7. p = [pair |-> q[1], iter |-> t]
    <3>1. p = [pair |-> q[1], iter |-> [it EXCEPT !.rest = r]]
      BY <2>2, <2>3, <2>4
    <3>2. it = [over |-> it.over, rest |-> it.rest]
      BY <1>3 DEF IterOK
    <3>3. [it EXCEPT !.rest = r] = t
      BY <1>3, <2>6, <3>2, IterNext
    <3> QED BY <3>1, <3>3
  <2>8. IterOK(U, t) /\ t.over = "pairs"
    BY <2>1, <2>5, <2>6 DEF IterOK
  <2>9. p.pair[1] \in U /\ p.pair[2] \in U
    BY <2>1, <2>5, <2>7
  <2> QED BY <1>3, <2>7, <2>8, <2>9
<1>4. CASE it.over = "env"
  <2>1. PICK S : S = Keys
    OBVIOUS
  <2>2. PICK q \in Seq(S) : q = it.rest /\ it = [over |-> "env", rest |-> q]
    BY <1>4, <2>1 DEF IterOK
  <2>3. q # <<>> /\ p = [pair |-> EnvPair(q[1]), iter |-> [it EXCEPT !.rest = Tail(@)]]
    BY <1>4, <2>2 DEF NextPair
  <2>4. PICK r : r = Tail(q)
    OBVIOUS
  <2>5. q[1] \in S /\ r \in Seq(S)
    BY <2>3, <2>4
  <2>6. PICK t : t = [over |-> "env", rest |-> r]
    OBVIOUS
  <2>7. p.pair = EnvPair(q[1]) /\ p.iter = t
    <3>1. p = [pair |-> EnvPair(q[1]), iter |-> [it EXCEPT !.rest = r]]
      BY <2>2, <2>3, <2>4
    <3>2. it = [over |-> it.over, rest |-> it.rest]
      BY <1>4 DEF IterOK
    <3>3. [it EXCEPT !.rest = r] = t
      BY <1>4, <2>6, <3>2, IterNext
    <3> QED BY <3>1, <3>3
  <2>8. IterOK(U, t) /\ t.over = "env"
    BY <2>1, <2>5, <2>6 DEF IterOK
  <2>9. \A key : InEnv(key) => Value(key) \in U
    BY DEF InEnv, Value, Valued, Stored
  <2>10. InEnv(q[1])
    BY <2>1, <2>5 DEF Keys, InEnv
  <2>11. PICK k : k = Value(q[1])
    OBVIOUS
  <2>12. PICK v : v = IF k.t = "str" /\ InEnv(k.s) THEN Value(k.s) ELSE Error
    OBVIOUS
  <2>13. k \in U /\ (v \in U \/ PartsIn(v, U))
    BY <2>9, <2>10, <2>11, <2>12, PlainValues, PlainParts
  <2>14. EnvPair(q[1]) = <<v, k>>
    BY <2>11, <2>12 DEF EnvPair
  <2> QED BY <1>4, <2>7, <2>8, <2>13, <2>14
<1> QED BY <1>2, <1>3, <1>4

\* Arguments are dropped before those of the value are evaluated.
LEMMA DropValued ==
    ASSUME Sound, NEW U, Valued(U), ScopeStep, Drop
    PROVE  \E W : Valued(W)'
<1>1. out.st = "running" /\ Top.pc = "drop" /\ prog' = prog /\ values' = values
  BY DEF Drop, At, ScopeStep, machine
<1>2. /\ Closed(U) /\ Holds(U, Top) /\ Nil \in U /\ Slots \subseteq U
      /\ Top.env \in DOMAIN scopes /\ prog \in Programs /\ IsFrame(Top) /\ Top.node \in DOMAIN prog.nodes
      /\ Len(Node.args) \in Nat
  BY <1>1, Present DEF Valued, Stored
<1>3. PICK s \in DOMAIN scopes : s = Top.env
  BY <1>2
<1>4. PICK n \in Nat : n = Node.drop
  <2>1. prog.nodes[Top.node].drop \in 0..MaxUint32
    BY <1>2, NodesAssumption
  <2> QED BY <2>1, UintAssumption DEF Node
<1>5. PICK p, x : p = "args" /\ x = Len(Node.args)
  OBVIOUS
<1>6. PICK f : f = [Top EXCEPT !.pc = p, !.i = x]
  OBVIOUS
<1>7. DropArgs(s, n) /\ Goto(f)
  BY <1>3, <1>4, <1>5, <1>6 DEF Drop
<1>8. f.pc = p /\ f.i = x /\ f.node = Top.node /\ f.acc = Top.acc /\ f.iter = Top.iter
  <2>1. PICK t : t = Top
    OBVIOUS
  <2>2. IsFrame(t) /\ f = [t EXCEPT !.pc = p, !.i = x]
    BY <1>2, <1>6, <2>1
  <2>3. Made(f, t, p, x, t.acc, t.todo, t.iter)
    BY <2>2, EntryOK
  <2> QED BY <2>1, <2>3 DEF Made
<1>9. Holds(U, f)
  <2>1. x \in 0..Len(ArgsOf(f))
    BY <1>2, <1>5, <1>8 DEF ArgsOf, Node
  <2> QED BY <1>2, <1>5, <1>8, <2>1 DEF Holds
<1>10. Slots' \subseteq U /\ Grows
  BY <1>2, <1>7, SlotsDropped DEF Sound, Grows
<1>11. NoRet.val \in U /\ ret' = NoRet /\ frames' = Append(Front(frames), f)
  BY <1>2, <1>7 DEF NoRet, Goto
<1> QED BY <1>1, <1>2, <1>9, <1>10, <1>11, WorkHolds

\* The evaluation in the parent scope.
LEMMA ParentValued ==
    ASSUME Sound, NEW U, Valued(U), ScopeStep, Parent
    PROVE  \E W : Valued(W)'
<1>1. out.st = "running" /\ Top.pc = "body" /\ prog' = prog /\ values' = values /\ Node.kind = "parent"
  BY DEF Parent, Body, At, ScopeStep, machine
<1>2. /\ Closed(U) /\ Holds(U, Top) /\ Nil \in U /\ Slots \subseteq U
      /\ Top.env \in DOMAIN scopes /\ prog \in Programs /\ IsFrame(Top) /\ Top.node \in DOMAIN prog.nodes
  BY <1>1, Present DEF Valued, Stored
<1>3. PICK s \in DOMAIN scopes : s = Top.env
  BY <1>2
<1>4. PICK p, x : p = "parent" /\ x = Len(scopes')
  OBVIOUS
<1>5. PICK f : f = [Top EXCEPT !.pc = p, !.env = x]
  OBVIOUS
<1>6. ShiftToParent(s) /\ Goto(f)
  BY <1>3, <1>4, <1>5 DEF Parent, NewScope
<1>7. f.pc = p /\ f.node = Top.node /\ f.acc = Top.acc /\ f.iter = Top.iter
  <2>1. PICK t : t = Top
    OBVIOUS
  <2>2. PICK h : h = [t EXCEPT !.pc = p]
    OBVIOUS
  <2>3. Made(h, t, p, t.i, t.acc, t.todo, t.iter)
    BY <1>2, <2>1, <2>2, FieldOK
  <2>4. f = [h EXCEPT !.env = x]
    BY <1>5, <2>1, <2>2
  <2>5. f.pc = p /\ f.node = t.node /\ f.acc = t.acc /\ f.iter = t.iter
    BY <2>3, <2>4 DEF IsFrame, Made
  <2> QED BY <2>1, <2>5
<1>8. Holds(U, f)
  BY <1>1, <1>2, <1>4, <1>7 DEF Holds, KindOf, Node
<1>9. Memory' /\ Grows
  BY <1>6, ParentAdds DEF Sound, Grows
<1>10. /\ arrays' = arrays
       /\ \A t \in DOMAIN scopes' : \E u \in DOMAIN scopes : scopes'[t] = scopes[u]
  <2>1. PICK A : WellFormed(A, DOMAIN ValueAt)
    BY DEF Sound, Memory
  <2>2. PICK L : L = DOMAIN ValueAt
    OBVIOUS
  <2> QED BY <1>6, <2>1, <2>2, ParentCopies
<1>11. Slots' \subseteq U
  BY <1>2, <1>9, <1>10, SlotsShifted
<1>12. NoRet.val \in U /\ ret' = NoRet /\ frames' = Append(Front(frames), f)
  BY <1>2, <1>6 DEF NoRet, Goto
<1> QED BY <1>1, <1>2, <1>8, <1>9, <1>11, <1>12, WorkHolds

\* The next element of a range.
LEMMA ElementValued ==
    ASSUME Sound, NEW U, Valued(U), ScopeStep, RangeNext
    PROVE  \E W : Valued(W)'
<1>1. out.st = "running" /\ Top.pc = "next" /\ prog' = prog /\ values' = values /\ ~ArgGone(Top.iter)
  BY DEF RangeNext, At, ScopeStep, machine
<1>2. /\ Holds(U, Top) /\ Top.env \in DOMAIN scopes /\ IsFrame(Top) /\ frames # <<>>
  BY <1>1, Present
<1>3. IterOK(U, Top.iter) /\ Top.iter.over \in {"pairs", "args", "env"} /\ KindOf(Top) = "range"
  BY <1>1, <1>2 DEF Holds
<1>4. PICK q \in NextPair(Top.iter) :
         /\ PushArg(Top.env, q.pair[1])
         /\ Goto([Top EXCEPT !.pc = "second", !.iter = q.iter, !.acc = q.pair[2]])
  BY DEF RangeNext
<1>5. /\ q.pair[1] \in U \/ PartsIn(q.pair[1], U)
      /\ q.pair[2] \in U /\ IterOK(U, q.iter) /\ q.iter.over = Top.iter.over
  <2>1. PICK it : it = Top.iter
    OBVIOUS
  <2>2. q \in NextPair(it) /\ IterOK(U, it) /\ it.over \in {"pairs", "args", "env"} /\ ~ArgGone(it)
    BY <1>1, <1>3, <1>4, <2>1
  <2> QED BY <1>1, <2>1, <2>2, PairOK
<1>6. PICK W : U \subseteq W /\ q.pair[1] \in W /\ Valued(W)
  BY <1>5, MoreValued
<1>7. IterOK(W, q.iter) /\ Holds(W, Top)
  BY <1>2, <1>5, <1>6, MoreParts
<1>8. PICK s \in DOMAIN scopes : s = Top.env
  BY <1>2
<1>9. PICK p, x, y : p = "second" /\ x = q.iter /\ y = q.pair[2]
  OBVIOUS
<1>10. PICK f : f = [Top EXCEPT !.pc = p, !.iter = x, !.acc = y]
  OBVIOUS
<1>11. PushArg(s, q.pair[1]) /\ Goto(f)
  BY <1>4, <1>8, <1>9, <1>10
<1>12. f.pc = p /\ f.node = Top.node /\ f.acc = y /\ f.iter = x
  <2>1. PICK t : t = Top
    OBVIOUS
  <2>2. IsFrame(t) /\ f = [t EXCEPT !.pc = p, !.iter = x, !.acc = y]
    BY <1>2, <1>10, <2>1
  <2>3. Made(f, t, p, t.i, y, t.todo, x)
    BY <2>2, ElementOK
  <2> QED BY <2>1, <2>3 DEF Made
<1>13. Holds(W, f)
  <2>1. f.acc \in W /\ IterOK(W, f.iter) /\ f.iter.over \in {"pairs", "args", "env"} /\ KindOf(f) = "range"
    BY <1>3, <1>5, <1>6, <1>7, <1>9, <1>12 DEF KindOf
  <2> QED BY <1>7, <1>9, <1>12, <2>1 DEF Holds
<1> QED BY <1>1, <1>6, <1>11, <1>13, PushValued

\* Its second argument.
LEMMA SecondValued ==
    ASSUME Sound, NEW U, Valued(U), ScopeStep, RangeSecond
    PROVE  \E W : Valued(W)'
<1>1. out.st = "running" /\ Top.pc = "second" /\ prog' = prog /\ values' = values
  BY DEF RangeSecond, At, ScopeStep, machine
<1>2. /\ Holds(U, Top) /\ Top.env \in DOMAIN scopes /\ IsFrame(Top)
      /\ Top.iter.over \in {"pairs", "args", "env"} /\ KindOf(Top) = "range" /\ Top.acc \in U
  BY <1>1, Present DEF Holds
<1>3. PICK f : f = [Top EXCEPT !.pc = "each"]
  OBVIOUS
<1>4. PushArg(Top.env, Top.acc) /\ Goto(f)
  BY <1>3 DEF RangeSecond
<1>5. Made(f, Top, "each", Top.i, Top.acc, Top.todo, Top.iter)
  BY <1>2, <1>3, FieldOK
<1>6. f.pc = "each" /\ f.node = Top.node /\ f.acc = Top.acc /\ f.iter = Top.iter
  BY <1>5 DEF Made
<1>7. Holds(U, f)
  BY <1>2, <1>6 DEF Holds, KindOf
<1>8. PICK s \in DOMAIN scopes, v \in U : s = Top.env /\ v = Top.acc
  BY <1>2
<1>9. PushArg(s, v)
  BY <1>4, <1>8
<1> QED BY <1>1, <1>4, <1>7, <1>9, PushValued

\* The end of an element.
LEMMA AfterValued ==
    ASSUME Sound, NEW U, Valued(U), ScopeStep, RangeDrop
    PROVE  \E W : Valued(W)'
<1>1. out.st = "running" /\ Top.pc = "each" /\ prog' = prog /\ values' = values
  BY DEF RangeDrop, At, ScopeStep, machine
<1>2. /\ Closed(U) /\ Holds(U, Top) /\ Top.env \in DOMAIN scopes /\ IsFrame(Top) /\ ret.val \in U
      /\ Top.iter.over \in {"pairs", "args", "env"} /\ KindOf(Top) = "range" /\ Top.acc \in U
      /\ Slots \subseteq U
  BY <1>1, Present DEF Holds, Valued, Stored
<1>3. PICK f : f = [Top EXCEPT !.pc = "result"]
  OBVIOUS
<1>4. DropArgs(Top.env, 2) /\ frames' = Append(Front(frames), f) /\ ret' = ret
  BY <1>3 DEF RangeDrop
<1>5. Made(f, Top, "result", Top.i, Top.acc, Top.todo, Top.iter)
  BY <1>2, <1>3, FieldOK
<1>6. f.pc = "result" /\ f.node = Top.node /\ f.acc = Top.acc /\ f.iter = Top.iter
  BY <1>5 DEF Made
<1>7. Holds(U, f) /\ Begun(f)
  BY <1>2, <1>6 DEF Holds, KindOf, Begun
<1>8. PICK s \in DOMAIN scopes, n \in Nat : s = Top.env /\ n = 2
  BY <1>2
<1>9. Slots' \subseteq U /\ Grows
  <2>1. DropArgs(s, n)
    BY <1>4, <1>8
  <2> QED BY <1>2, <2>1, SlotsDropped DEF Sound, Grows
<1> QED BY <1>1, <1>2, <1>4, <1>7, <1>9, WorkHolds

\* Steps that change scopes and arguments.
LEMMA ScopeValued ==
    ASSUME Sound, NEW U, Valued(U), ScopeStep
    PROVE  \E W : Valued(W)'
<1>1. InitPush \/ Drop \/ ArgPush \/ Parent \/ RangeNext \/ RangeSecond \/ RangeDrop
  BY DEF ScopeStep
<1> QED BY <1>1, PushesValued, DropValued, ParentValued, ElementValued, SecondValued, AfterValued

\* Eval begins and ends.
LEMMA EvalValued ==
    ASSUME Sound, Sound', NEW U, Valued(U), Begin \/ End
    PROVE  Valued(U)'
<1>1. prog' = prog /\ values' = values /\ Nil \in U /\ ret' = NoRet
  BY DEF Begin, End, Sound, Inv, OutOK, Valued, Stored, Closed
<1>2. Grows /\ Slots' = Slots
  <2>1. CASE Begin
    <3>1. PICK A : WellFormed(A, DOMAIN ValueAt)
      BY DEF Sound, Memory
    <3>2. PICK L : L = DOMAIN ValueAt
      OBVIOUS
    <3>3. Root \in L /\ InitRoot(Root) /\ UNCHANGED arrays
      BY <2>1, <3>2, PlacesAssumption DEF Begin
    <3>4. /\ DOMAIN scopes' = DOMAIN scopes
          /\ \A t \in DOMAIN scopes :
                scopes'[t].arr = scopes[t].arr /\ scopes'[t].len = scopes[t].len
      BY <3>1, <3>2, <3>3, RootFits
    <3> QED BY <3>3, <3>4 DEF Grows, Slots
  <2>2. CASE End
    BY <2>2 DEF End, scopeVars, Grows, Slots
  <2> QED BY <2>1, <2>2
<1>3. Spares /\ Keys' = Keys
  BY <1>1, <1>2 DEF Spares, Keys
<1>4. Closed(U)'
  BY <1>3, SameHolds DEF Spares, Valued, Stored
<1>5. Stored(U)'
  BY <1>1, <1>2, <1>3, <1>4 DEF Valued, Stored
<1>6. FramesHold(U)'
  <2>1. CASE End
    <3>1. Len(frames') = 0
      BY <2>1, EmptySeq DEF End
    <3> QED BY <3>1 DEF FramesHold
  <2>2. CASE Begin
    <3>1. PICK f : f = [NewFrame(0, 1) EXCEPT !.pc = "init", !.i = Len(prog.args)]
      OBVIOUS
    <3>2. f.node = 0 /\ f.acc = Nil /\ f.iter = NoIter /\ f.pc = "init" /\ f.i = Len(prog.args)
      BY <3>1 DEF NewFrame
    <3>3. frames' = <<f>>
      BY <2>2, <3>1 DEF Begin
    <3>4. Len(frames') = 1 /\ frames'[1] = f
      BY <3>3
    <3>5. Len(prog.args) \in Nat
      <4>1. prog.args \in Seq(DataOf(prog))
        BY DataAssumption DEF Sound
      <4> QED BY <4>1, LenProperties
    <3>6. Size \in Nat
      BY KidsAssumption DEF Size, Sound
    <3>7. NoIter.over = "none"
      BY DEF NoIter
    <3>8. Holds(U, f)
      BY <1>1, <3>2, <3>5, <3>6, <3>7 DEF Holds, IterOK
    <3>9. Holds(U, f)'
      BY <1>3, <3>8, SameHolds DEF Spares
    <3>10. ASSUME NEW d \in 1..Len(frames'), NEW e, e = frames'[d]
           PROVE  Holds(U, e)' /\ (d < Len(frames') => Begun(e))
      <4>1. d = 1
        BY <3>4, <3>10
      <4> QED BY <3>4, <3>9, <3>10, <4>1
    <3> QED BY <3>10, HoldFrames
  <2> QED BY <2>1, <2>2
<1> QED BY <1>1, <1>5, <1>6 DEF Valued, NoRet

\* Steps that change nothing that evaluations have.
LEMMA StillValued ==
    ASSUME NEW U, Valued(U), Panic \/ Over \/ UNCHANGED vars
    PROVE  Valued(U)'
<1>1. /\ prog' = prog /\ values' = values /\ frames' = frames /\ ret' = ret
      /\ arrays' = arrays /\ scopes' = scopes
  BY DEF Panic, Over, vars, machine, scopeVars
<1>2. Spares /\ Keys' = Keys /\ Slots' = Slots /\ Top' = Top
  BY <1>1 DEF Spares, Grows, Keys, Slots, Top
<1>3. Closed(U)' /\ \A f : Holds(U, f) => Holds(U, f)'
  BY <1>2, SameHolds DEF Spares, Valued, Stored
<1>4. ASSUME NEW d \in 1..Len(frames'), NEW e, e = frames'[d]
      PROVE  Holds(U, e)' /\ (d < Len(frames') => Begun(e))
  BY <1>1, <1>3, <1>4 DEF Valued, FramesHold
<1>5. FramesHold(U)'
  BY <1>4, HoldFrames
<1>6. Stored(U)'
  BY <1>1, <1>2, <1>3 DEF Valued, Stored
<1> QED BY <1>1, <1>2, <1>5, <1>6 DEF Valued, Begun

\* What is known of values.
ValueInv == Sound /\ \E U : Valued(U)

\* It is known after each step.
LEMMA NextValues ==
    ASSUME ValueInv, [Next]_vars
    PROVE  ValueInv'
<1>1. Sound /\ Sound'
  BY NextSound DEF ValueInv
<1>2. PICK U : Valued(U)
  BY DEF ValueInv
<1>3. ASSUME NEW W, Valued(W)' PROVE ValueInv'
  BY <1>1, <1>3 DEF ValueInv
<1>4. CASE StackStep
  <2>1. out.st = "running"
    BY <1>1, <1>4, StepRuns DEF Sound
  <2>2. Fits(U) /\ frames # <<>>
    BY <1>1, <1>2, <1>4, <2>1, StackFits, Present
  <2>3. prog' = prog /\ UNCHANGED scopeVars /\ values' = values
    BY <1>4 DEF StackStep, machine
  <2> QED BY <1>1, <1>2, <1>3, <2>2, <2>3, FitsValued
<1>5. CASE ScopeStep
  BY <1>1, <1>2, <1>3, <1>5, ScopeValued
<1>6. CASE Enter
  BY <1>1, <1>2, <1>3, <1>6, EnterValued
<1>7. CASE Signal \/ Store \/ Program
  BY <1>1, <1>2, <1>3, <1>7, EffectValued
<1>8. CASE Begin \/ End
  BY <1>1, <1>2, <1>3, <1>8, EvalValued
<1>9. CASE Panic \/ Over \/ UNCHANGED vars
  BY <1>1, <1>2, <1>3, <1>9, StillValued
<1> QED BY <1>4, <1>5, <1>6, <1>7, <1>8, <1>9 DEF Next, Step

\* And from the first.
LEMMA InitValues ==
    ASSUME Init
    PROVE  ValueInv
<1>1. PICK U : U = DataOf(prog) \cup {Nil} \cup {Number(n) : n \in Int}
  OBVIOUS
<1>2. DataOf(prog) \subseteq U /\ Data \subseteq U /\ Nil \in U /\ \A n \in Int : Number(n) \in U
  BY <1>1 DEF DataOf
<1>3. ASSUME NEW v \in Data PROVE PartsIn(v, U)
  <2>1. PartsIn(v, Data)
    BY <1>3, DataAssumption DEF PartsIn
  <2> QED BY <1>2, <2>1, MoreParts
<1>4. \A v \in U \ Data : PartsIn(v, U)
  <2>1. prog \in Programs
    BY DEF Init
  <2>2. Size \in Nat /\ DOMAIN prog.nodes = 1..Size
    BY <2>1, KidsAssumption DEF Size
  <2>3. \A k \in DOMAIN prog.nodes : PartsIn(Proc(k), U)
    BY <2>2 DEF Proc, PartsIn
  <2>4. PartsIn(Nil, U) /\ \A n \in Int : PartsIn(Number(n), U)
    BY PlainValues, PlainParts
  <2> QED BY <1>1, <2>3, <2>4 DEF DataOf
<1>5. Closed(U)
  BY <1>2, <1>3, <1>4 DEF Closed
<1>6. Slots = {}
  <2>1. DOMAIN scopes = {1} /\ scopes[1].len = 0
    BY DEF Init
  <2> QED BY <2>1 DEF Slots
<1>7. Keys = {} /\ values = {} /\ Len(frames) = 0 /\ ret = NoRet
  BY EmptySeq DEF Init, Keys
<1>8. Stored(U)
  BY <1>5, <1>6, <1>7, FS_EmptySet DEF Stored
<1>9. FramesHold(U)
  BY <1>7 DEF FramesHold
<1>10. Valued(U)
  BY <1>2, <1>7, <1>8, <1>9 DEF Valued, NoRet
<1> QED BY <1>10, InitSound DEF ValueInv

\* What has become of the last Eval.
OutcomeOK == out.st \in {"idle", "running", "ok", "err", "panic"}

\* It is one of these after each step.
LEMMA OutcomeNext ==
    ASSUME Sound, OutcomeOK, [Next]_vars
    PROVE  OutcomeOK'
<1>1. ASSUME UNCHANGED out PROVE OutcomeOK'
  BY <1>1 DEF OutcomeOK
<1>2. CASE StackStep \/ ScopeStep \/ Enter \/ Signal \/ Store \/ Program \/ Over \/ UNCHANGED vars
  <2>1. UNCHANGED out
    BY <1>2 DEF StackStep, ScopeStep, Enter, Signal, Store, Program, Over, vars, machine
  <2> QED BY <1>1, <2>1
<1>3. CASE Begin \/ Panic
  <2>1. \E s \in {"running", "panic"} : out' = [NoRet EXCEPT !.st = s]
    BY <1>3 DEF Begin, Panic
  <2> QED BY <2>1 DEF OutcomeOK, NoRet
<1>4. CASE End
  <2>1. PICK r : r = ret
    OBVIOUS
  <2>2. "st" \in DOMAIN r /\ "val" \in DOMAIN r
    BY <2>1 DEF Sound, Inv, RetOK
  <2>3. "st" \in DOMAIN NoRet
    BY DEF NoRet
  <2>4. \/ out' = [NoRet EXCEPT !.st = "err", !.err = Fail]
        \/ out' = [r EXCEPT !.st = "err", !.val = Nil]
        \/ out' = [r EXCEPT !.st = "ok", !.val = IF @ = Null THEN Nil ELSE Item]
    BY <1>4, <2>1 DEF End
  <2>5. out'.st \in {"err", "ok"}
    BY <2>2, <2>3, <2>4
  <2> QED BY <2>5 DEF OutcomeOK
<1> QED BY <1>2, <1>3, <1>4 DEF Next, Step

\* Scopes and their slices fit together.
LEMMA ScopesTyped ==
    ASSUME Memory
    PROVE  /\ scopes \in Seq([arr : Nat, len : Nat, parent : Nat, loc : DOMAIN ValueAt])
           /\ \A s \in DOMAIN scopes : /\ scopes[s].arr <= Len(arrays)
                                       /\ scopes[s].len <= Cap(scopes[s].arr)
                                       /\ scopes[s].parent < s
<1>1. PICK A : WellFormed(A, DOMAIN ValueAt)
  BY DEF Memory
<1> QED BY <1>1 DEF WellFormed, Nodes

\* What evaluations, arguments and the environment hold is made of values of the program and
\* its message, and of arguments and procs that are there, in every state of every program:
\* no live list, iterator or stored proc of eval.go outlives what it refers to.
THEOREM ValuesLive == Spec => []ValueInv
<1>1. Init => ValueInv
  BY InitValues
<1>2. ValueInv /\ [Next]_vars => ValueInv'
  BY NextValues
<1> QED BY <1>1, <1>2, PTL DEF Spec

\* Type correctness: frames of eval.go run in allocated scopes with nodes of the program, and
\* slices stay within their arrays, whatever the program does.  EvalMax is no negative number:
\* Eval would leave cyclesLeft at it.
THEOREM TypeCorrect == EvalMax \in Nat => (Spec => []TypeOK)
<1> SUFFICES ASSUME EvalMax \in Nat PROVE Spec => []TypeOK
  OBVIOUS
<1> DEFINE Typed == ValueInv /\ OutcomeOK
<1>1. Init => Typed
  BY InitValues DEF Init, OutcomeOK, NoRet
<1>2. Typed /\ [Next]_vars => Typed'
  <2> SUFFICES ASSUME Typed, [Next]_vars PROVE Typed'
    OBVIOUS
  <2>1. ValueInv'
    BY NextValues
  <2>2. OutcomeOK'
    BY OutcomeNext DEF ValueInv
  <2> QED BY <2>1, <2>2
<1>3. Typed => TypeOK
  <2> SUFFICES ASSUME ValueInv, OutcomeOK PROVE TypeOK
    OBVIOUS
  <2>1. Sound
    BY DEF ValueInv
  <2>2. PICK U : Valued(U)
    BY DEF ValueInv
  <2>3. cyclesLeft \in 0..EvalMax
    <3>1. PICK c : c = Cardinality(Active)
      OBVIOUS
    <3>2. c \in Nat
      BY <2>1, <3>1, ActiveFinite DEF Sound, Inv, FramesOK
    <3>3. cyclesLeft \in Int /\ c + cyclesLeft <= EvalMax /\ (cyclesLeft >= 0 \/ cyclesLeft = EvalMax)
      BY <2>1, <3>1 DEF Sound, Inv, CyclesOK
    <3> QED BY <3>2, <3>3
  <2>4. DOMAIN frames = 1..Len(frames)
    <3>1. PICK S : frames \in Seq(S)
      BY <2>1 DEF Sound, Inv, FramesOK, Stack
    <3> QED BY <3>1, LenProperties
  <2>5. ASSUME NEW d \in DOMAIN frames
        PROVE  /\ frames[d].env \in DOMAIN scopes
               /\ frames[d].node \in 0..Len(prog.nodes)
               /\ frames[d].pc = "init" <=> d = 1
               /\ d < Len(frames) =>
                     frames[d].pc \in {"init", "args", "body", "parent", "each", "loaded"}
    <3>1. d \in 1..Len(frames)
      BY <2>4
    <3>2. frames[d].env \in DOMAIN scopes /\ (frames[d].pc = "init" <=> d = 1)
          /\ (d < Len(frames) => Waits(frames[d]))
      BY <2>1, <3>1 DEF Sound, EnvsOK, Inv, FramesOK
    <3>3. frames[d].node \in 0..Len(prog.nodes)
      BY <2>2, <3>1 DEF Valued, FramesHold, Holds, Size
    <3> QED BY <3>2, <3>3 DEF Waits
  <2>6. /\ out.st = "running" => frames # <<>>
        /\ out.st \in {"idle", "ok", "err"} => frames = <<>> /\ ret = NoRet
    BY <2>1 DEF Sound, Inv, OutOK
  <2> QED BY <2>1, <2>3, <2>5, <2>6, ScopesTyped DEF TypeOK, OutcomeOK, Sound
<1> QED BY <1>1, <1>2, <1>3, PTL DEF Spec


-----------------------------------------------------------------------------
(***************************************************************************)
(* Live arguments that a range is at.  The next of them is there as long   *)
(* as no evaluation in its scope drops more arguments than it pushed:      *)
(* those that a range calls are in its scope, above what the range found   *)
(* there, or in scopes that are newer than the list.                       *)
(***************************************************************************)

\* A range that has an argument to come in the scope it is at.
Ranging(f) == /\ f.pc \in {"next", "second", "each", "result"}
              /\ f.iter.over = "args" /\ f.iter.pos >= 0

\* For the d-th frame it is there, and stays there.
ListKept(d, base, fr, sc) ==
    LET f == fr[d]
    IN  Ranging(f) =>
            /\ f.iter.pos < sc[f.iter.scope].len
            /\ f.iter.scope = f.env => f.iter.pos < base[d]
            /\ \A e \in (d + 1)..Len(fr) : fr[e].env = f.env \/ fr[e].env > f.iter.scope

\* Every frame's is.
ListsKept(base, fr, sc) == \A d \in 1..Len(fr) : ListKept(d, base, fr, sc)

\* The frames up to the n-th are the same, and their lists are of allocated scopes.
KeepsLists(n, fr, fr2, sc) ==
    \A d \in 1..n : /\ fr2[d] = fr[d]
                    /\ Ranging(fr[d]) => fr[d].iter.scope \in DOMAIN sc /\ fr[d].iter.pos \in Int

\* The last evaluation changes its scope: what was below its arguments stays, and a list
\* that it is at was there before, or is of arguments below.
LEMMA ListsTouched ==
    ASSUME NEW n \in Nat \ {0}, NEW fr, NEW fr2, NEW sc, NEW sc2, NEW base, NEW base2, NEW y,
           Len(fr) = n, Len(fr2) = n, Numbered(sc), Numbered(sc2), DOMAIN sc2 = DOMAIN sc,
           KeepsLists(n - 1, fr, fr2, sc), fr[n].env = y, fr2[n].env = y, y \in DOMAIN sc,
           \A s \in DOMAIN sc : s # y => sc2[s] = sc[s],
           \A d \in 1..n : base[d] \in Nat /\ (fr[d].env = y => base[d] <= base[n]),
           \A d \in 1..(n - 1) : base2[d] = base[d],
           base2[n] \in Nat, base[n] <= base2[n], base2[n] <= sc2[y].len,
           ListsKept(base, fr, sc),
           Ranging(fr2[n]) =>
               /\ fr2[n].iter.scope \in DOMAIN sc /\ fr2[n].iter.pos \in Int
               /\ \/ Ranging(fr[n]) /\ fr2[n].iter = fr[n].iter
                  \/ fr2[n].iter.pos < sc[fr2[n].iter.scope].len /\ sc[y].len <= base2[n]
    PROVE  ListsKept(base2, fr2, sc2)
<1> SUFFICES ASSUME NEW d \in 1..n, Ranging(fr2[d])
             PROVE  /\ fr2[d].iter.pos < sc2[fr2[d].iter.scope].len
                    /\ fr2[d].iter.scope = fr2[d].env => fr2[d].iter.pos < base2[d]
                    /\ \A e \in (d + 1)..n : fr2[e].env = fr2[d].env \/ fr2[e].env > fr2[d].iter.scope
  BY DEF ListsKept, ListKept
<1>1. PICK l \in Nat, m \in Nat, b \in Nat, c \in Nat :
         l = sc[y].len /\ m = sc2[y].len /\ b = base[n] /\ c = base2[n] /\ b <= c /\ c <= m
  <2>1. sc[y].len \in Nat /\ sc2[y].len \in Nat /\ base[n] \in Nat
    BY DEF Numbered
  <2> QED BY <2>1
<1>2. PICK s, p : s = fr2[d].iter.scope /\ p = fr2[d].iter.pos
  OBVIOUS
<1>3. \A e \in 1..n : fr2[e].env = fr[e].env
  <2> SUFFICES ASSUME NEW e \in 1..n PROVE fr2[e].env = fr[e].env
    OBVIOUS
  <2>1. e = n \/ e \in 1..(n - 1)
    OBVIOUS
  <2> QED BY <2>1 DEF KeepsLists
<1>4. CASE d # n
  <2>1. d \in 1..(n - 1) /\ n \in (d + 1)..n
    BY <1>4
  <2>2. fr2[d] = fr[d] /\ s \in DOMAIN sc /\ p \in Int /\ base2[d] = base[d] /\ Ranging(fr[d])
    BY <1>2, <2>1 DEF KeepsLists
  <2>3. /\ p < sc[s].len
        /\ s = fr[d].env => p < base[d]
        /\ \A e \in (d + 1)..n : fr[e].env = fr[d].env \/ fr[e].env > s
    BY <1>2, <2>2 DEF ListsKept, ListKept
  <2>4. s \in Nat /\ y \in Nat
    BY <2>2 DEF Numbered
  <2>5. p < sc2[s].len
    <3>1. CASE s # y
      BY <2>2, <2>3, <3>1
    <3>2. CASE s = y
      <4>1. ~(y > s)
        BY <2>4, <3>2
      <4>2. fr[d].env = y
        BY <2>1, <2>3, <4>1
      <4>3. PICK k \in Nat : k = base[d] /\ p < k /\ k <= b
        BY <1>1, <2>3, <3>2, <4>2
      <4>4. p < m
        BY <1>1, <2>2, <4>3
      <4> QED BY <1>1, <3>2, <4>4
    <3> QED BY <3>1, <3>2
  <2>6. \A e \in (d + 1)..n : e \in 1..n
    OBVIOUS
  <2> QED BY <1>2, <1>3, <2>2, <2>3, <2>5, <2>6
<1>5. CASE d = n
  <2>1. s \in DOMAIN sc /\ p \in Int
    BY <1>2, <1>5
  <2>2. p < sc[s].len /\ (s = y => p < c)
    <3>1. CASE Ranging(fr[n]) /\ fr2[n].iter = fr[n].iter
      <4>1. p < sc[s].len /\ (s = y => p < b)
        BY <1>1, <1>2, <1>5, <3>1 DEF ListsKept, ListKept
      <4> QED BY <1>1, <2>1, <4>1
    <3>2. CASE p < sc[s].len /\ l <= c
      <4>1. s = y => p < l /\ l <= c
        BY <1>1, <3>2
      <4> QED BY <1>1, <2>1, <3>2, <4>1
    <3> QED BY <1>1, <1>2, <1>5, <3>1, <3>2
  <2>3. p < sc2[s].len
    <3>1. CASE s # y
      BY <2>1, <2>2, <3>1
    <3>2. CASE s = y
      <4>1. p < m
        BY <1>1, <2>1, <2>2, <3>2
      <4> QED BY <1>1, <3>2, <4>1
    <3> QED BY <3>1, <3>2
  <2>4. (d + 1)..n = {}
    BY <1>5
  <2> QED BY <1>1, <1>2, <1>5, <2>2, <2>3, <2>4
<1> QED BY <1>4, <1>5

\* Another evaluation is called, in the same scope.
LEMMA ListsCalled ==
    ASSUME NEW n \in Nat \ {0}, NEW fr, NEW fr2, NEW sc, NEW base, NEW base2,
           Len(fr) = n, Len(fr2) = n + 1, KeepsLists(n - 1, fr, fr2, sc),
           Ranging(fr2[n]) => fr2[n] = fr[n], fr2[n].env = fr[n].env,
           fr2[n + 1].env = fr[n].env, ~Ranging(fr2[n + 1]),
           \A d \in 1..n : base2[d] = base[d],
           ListsKept(base, fr, sc)
    PROVE  ListsKept(base2, fr2, sc)
<1> SUFFICES ASSUME NEW d \in 1..(n + 1), Ranging(fr2[d])
             PROVE  /\ fr2[d].iter.pos < sc[fr2[d].iter.scope].len
                    /\ fr2[d].iter.scope = fr2[d].env => fr2[d].iter.pos < base2[d]
                    /\ \A e \in (d + 1)..(n + 1) : fr2[e].env = fr2[d].env \/ fr2[e].env > fr2[d].iter.scope
  BY DEF ListsKept, ListKept
<1>1. \A e \in 1..n : fr2[e].env = fr[e].env /\ (Ranging(fr2[e]) => fr2[e] = fr[e])
  <2> SUFFICES ASSUME NEW e \in 1..n PROVE fr2[e].env = fr[e].env /\ (Ranging(fr2[e]) => fr2[e] = fr[e])
    OBVIOUS
  <2>1. e = n \/ e \in 1..(n - 1)
    OBVIOUS
  <2> QED BY <2>1 DEF KeepsLists
<1>2. d # n + 1
  OBVIOUS
<1>3. d \in 1..n
  BY <1>2
<1>4. fr2[d] = fr[d] /\ base2[d] = base[d]
  BY <1>1, <1>3
<1>5. /\ fr[d].iter.pos < sc[fr[d].iter.scope].len
      /\ fr[d].iter.scope = fr[d].env => fr[d].iter.pos < base[d]
      /\ \A e \in (d + 1)..n : fr[e].env = fr[d].env \/ fr[e].env > fr[d].iter.scope
  BY <1>3, <1>4 DEF ListsKept, ListKept
<1>6. ASSUME NEW e \in (d + 1)..(n + 1)
      PROVE  fr2[e].env = fr[d].env \/ fr2[e].env > fr[d].iter.scope
  <2>1. CASE e = n + 1
    <3>1. d = n \/ n \in (d + 1)..n
      BY <1>3
    <3> QED BY <1>5, <2>1, <3>1
  <2>2. CASE e # n + 1
    <3>1. e \in (d + 1)..n /\ e \in 1..n
      BY <2>2
    <3> QED BY <1>1, <1>5, <3>1
  <2> QED BY <2>1, <2>2
<1> QED BY <1>4, <1>5, <1>6

\* The last one ends.
LEMMA ListsLeft ==
    ASSUME NEW n \in Nat \ {0}, NEW fr, NEW fr2, NEW sc, NEW base,
           Len(fr) = n, Len(fr2) = n - 1, KeepsLists(n - 1, fr, fr2, sc), ListsKept(base, fr, sc)
    PROVE  ListsKept(base, fr2, sc)
<1> SUFFICES ASSUME NEW d \in 1..(n - 1), Ranging(fr2[d])
             PROVE  /\ fr2[d].iter.pos < sc[fr2[d].iter.scope].len
                    /\ fr2[d].iter.scope = fr2[d].env => fr2[d].iter.pos < base[d]
                    /\ \A e \in (d + 1)..(n - 1) : fr2[e].env = fr2[d].env \/ fr2[e].env > fr2[d].iter.scope
  BY DEF ListsKept, ListKept
<1>1. \A e \in 1..(n - 1) : fr2[e] = fr[e] /\ e \in 1..n
  BY DEF KeepsLists
<1>2. /\ fr[d].iter.pos < sc[fr[d].iter.scope].len
      /\ fr[d].iter.scope = fr[d].env => fr[d].iter.pos < base[d]
      /\ \A e \in (d + 1)..n : fr[e].env = fr[d].env \/ fr[e].env > fr[d].iter.scope
  BY <1>1 DEF ListsKept, ListKept
<1>3. \A e \in (d + 1)..(n - 1) : e \in 1..(n - 1) /\ e \in (d + 1)..n
  OBVIOUS
<1> QED BY <1>1, <1>2, <1>3

\* It goes on in a newer scope.
LEMMA ListsMoved ==
    ASSUME NEW n \in Nat \ {0}, NEW fr, NEW fr2, NEW sc, NEW sc2, NEW base, NEW base2,
           Len(fr) = n, Len(fr2) = n, KeepsLists(n - 1, fr, fr2, sc), ~Ranging(fr2[n]),
           \A s \in DOMAIN sc : sc2[s] = sc[s] /\ s < fr2[n].env,
           Numbered(sc), fr2[n].env \in Nat,
           \A d \in 1..(n - 1) : base2[d] = base[d],
           ListsKept(base, fr, sc)
    PROVE  ListsKept(base2, fr2, sc2)
<1> SUFFICES ASSUME NEW d \in 1..n, Ranging(fr2[d])
             PROVE  /\ fr2[d].iter.pos < sc2[fr2[d].iter.scope].len
                    /\ fr2[d].iter.scope = fr2[d].env => fr2[d].iter.pos < base2[d]
                    /\ \A e \in (d + 1)..n : fr2[e].env = fr2[d].env \/ fr2[e].env > fr2[d].iter.scope
  BY DEF ListsKept, ListKept
<1>1. d # n
  OBVIOUS
<1>2. d \in 1..(n - 1)
  BY <1>1
<1>3. /\ \A e \in 1..(n - 1) : fr2[e] = fr[e]
      /\ Ranging(fr[d]) /\ fr[d].iter.scope \in DOMAIN sc
  BY <1>2 DEF KeepsLists
<1>4. /\ fr[d].iter.pos < sc[fr[d].iter.scope].len
      /\ fr[d].iter.scope = fr[d].env => fr[d].iter.pos < base[d]
      /\ \A e \in (d + 1)..n : fr[e].env = fr[d].env \/ fr[e].env > fr[d].iter.scope
  BY <1>3 DEF ListsKept, ListKept
<1>5. ASSUME NEW e \in (d + 1)..n
      PROVE  fr2[e].env = fr[d].env \/ fr2[e].env > fr[d].iter.scope
  <2>1. CASE e = n
    <3>1. PICK s \in Nat, z \in Nat : s = fr[d].iter.scope /\ z = fr2[n].env /\ s < z
      BY <1>3 DEF Numbered
    <3> QED BY <2>1, <3>1
  <2>2. CASE e # n
    <3>1. e \in 1..(n - 1)
      BY <2>2
    <3> QED BY <1>3, <1>4, <3>1
  <2> QED BY <2>1, <2>2
<1> QED BY <1>2, <1>3, <1>4, <1>5


\* After an argument the one below it is to come.
LEMMA PairThere ==
    ASSUME Sound, NEW U, NEW it, IterOK(U, it), it.over \in {"pairs", "args", "env"}, ~ArgGone(it),
           NEW q \in NextPair(it), q.iter.over = "args"
    PROVE  q.iter.pos < scopes[q.iter.scope].len
<1>1. CASE it.over # "args"
  <2>1. it = [over |-> it.over, rest |-> it.rest]
    BY <1>1 DEF IterOK
  <2>2. PICK r : r = Tail(it.rest)
    OBVIOUS
  <2>3. q.iter = [it EXCEPT !.rest = r]
    BY <1>1, <2>2 DEF NextPair
  <2>4. q.iter = [over |-> it.over, rest |-> r]
    BY <2>1, <2>3, IterNext
  <2>5. q.iter.over = it.over
    BY <2>4
  <2> QED BY <1>1, <2>5
<1>2. CASE it.over = "args"
  <2>1. it = [over |-> "args", scope |-> it.scope, i |-> it.i, pos |-> it.pos]
        /\ it.scope \in DOMAIN scopes /\ it.pos \in Int
    BY <1>2 DEF IterOK
  <2>2. PICK a \in NextArg(it) :
           q.iter = [it EXCEPT !.scope = a[1], !.pos = a[2] - 1, !.i = @ + 1]
    <3>1. PICK a \in NextArg(it) :
             q = [pair |-> <<arrays[scopes[a[1]].arr][a[2] + 1], Number(it.i)>>,
                  iter |-> [it EXCEPT !.scope = a[1], !.pos = a[2] - 1, !.i = @ + 1]]
      BY <1>2 DEF NextPair
    <3> QED BY <3>1
  <2>3. a[2] \in Nat /\ a[2] < scopes[a[1]].len /\ scopes[a[1]].len \in Nat
    BY <1>2, <2>1, NextArgOK, MemoryFacts DEF Sound
  <2>4. PICK x, y, z : x = a[1] /\ y = a[2] - 1 /\ z = it.i + 1
    OBVIOUS
  <2>5. q.iter = [over |-> "args", scope |-> x, i |-> z, pos |-> y]
    BY <2>1, <2>2, <2>4
  <2>6. q.iter.scope = x /\ q.iter.pos = y
    BY <2>5
  <2> QED BY <2>3, <2>4, <2>6
<1> QED BY <1>1, <1>2

\* A list that the last evaluation, which goes on as frame f, is at: it was at that before,
\* or the next of its arguments is there, and no others are on top of it.
ListThere(f) ==
    /\ f.env = Top.env
    /\ \/ Ranging(Top) /\ f.iter = Top.iter
       \/ f.iter.pos < scopes[f.iter.scope].len /\ Owed(Top) = 0 /\ Top.pc \in {"body", "next"}

\* A range over arguments begins with the last one there is.
LEMMA IteratorThere ==
    ASSUME Sound, NEW U, Valued(U), NEW v \in U, NEW it \in Iterators(v), it.over = "args"
    PROVE  it.pos < scopes[it.scope].len
<1>1. v.t = "args"
  <2>1. CASE v.t = "list"
    <3>1. PICK r : it = [over |-> "pairs", rest |-> r]
      BY <2>1 DEF Iterators
    <3> QED BY <3>1
  <2>2. CASE v.t = "map"
    <3>1. PICK r : it = [over |-> "pairs", rest |-> r]
      BY <2>2 DEF Iterators
    <3> QED BY <3>1
  <2>3. CASE v.t = "env"
    <3>1. PICK r : it = [over |-> "env", rest |-> r]
      BY <2>3 DEF Iterators
    <3> QED BY <3>1
  <2>4. v.t \in {"list", "map", "args", "env"}
    BY DEF Iterators
  <2> QED BY <2>1, <2>2, <2>3, <2>4
<1>2. v.scope \in DOMAIN scopes
  BY <1>1 DEF Valued, Stored, Closed, PartsIn
<1>3. PICK l \in Nat : l = scopes[v.scope].len
  BY <1>2, MemoryFacts, TreeFacts DEF Sound
<1>4. it = [over |-> "args", scope |-> v.scope, i |-> 0, pos |-> l - 1]
  BY <1>1, <1>3 DEF Iterators
<1>5. it.scope = v.scope /\ it.pos = l - 1
  BY <1>4
<1> QED BY <1>3, <1>5

\* The last frame is the one that was put there.
LEMMA LastFrame ==
    ASSUME Stack, frames # <<>>, NEW f, NEW g, frames' = Append(Front(frames), g),
           Replaced(frames, f, frames')
    PROVE  f = g
<1>1. PICK S : frames \in Seq(S)
  BY DEF Stack
<1>2. Replaced(frames, g, frames')
  BY <1>1, ReplaceTop, Zenon
<1> QED BY <1>2 DEF Replaced

\* Steps that change nothing but the stack, or the stack and the environment.
LEMMA TurnThere ==
    ASSUME Sound, NEW U, Valued(U), Turn, frames # <<>>, prog' = prog,
           NEW f, Replaced(frames, f, frames'), Ranging(f)
    PROVE  ListThere(f)
<1>1. /\ FramesOK /\ Stack /\ Len(frames) \in Nat \ {0} /\ Top.env \in DOMAIN scopes
      /\ Len(frames') = Len(frames) /\ out.st = "running"
  BY SoundRuns DEF FramesOK, Replaced, Turn
<1>2. ~Returns
  BY <1>1, ReturnFrames DEF Returns, Return
<1>3. ~Calls
  <2>1. ASSUME NEW g, NEW k, Like(g), Waits(g), Sub(g, k) PROVE FALSE
    <3>1. PICK h : h = NewFrame(k, g.env)
      OBVIOUS
    <3>2. IsFrame(h) /\ h.pc = "scope"
      BY <3>1 DEF IsFrame, NewFrame
    <3>3. Pushed(frames, g, h, frames')
      BY <1>1, <2>1, <3>1, <3>2, SubFrames DEF Sub
    <3> QED BY <1>1, <3>3 DEF Pushed
  <2> QED BY <2>1 DEF Calls
<1>4. PICK g : Onward(g) /\ Goto(g)
  BY <1>2, <1>3 DEF Turn, Advances
<1>5. f = g
  BY <1>1, <1>4, LastFrame DEF Goto
<1>6. Onward(f) /\ f.iter.over = "args"
  BY <1>4, <1>5 DEF Ranging
<1>7. CASE Top.pc = "result" /\ f.iter = Top.iter
  BY <1>6, <1>7 DEF ListThere, Ranging, Onward
<1>8. ASSUME Top.pc = "body", NEW v, f.iter \in Iterators(v),
             v = ValueAt[Place] \/ (GotOk /\ v = ret.val)
      PROVE  ListThere(f)
  <2>1. v \in U
    <3>1. CASE v = ValueAt[Place]
      <4>1. Place \in DOMAIN ValueAt
        BY <1>1, PlaceOK DEF Place, Sound
      <4> QED BY <1>1, <3>1, <4>1, Present, DataOK
    <3>2. CASE v = ret.val
      BY <3>2 DEF Valued
    <3> QED BY <1>8, <3>1, <3>2
  <2>2. f.iter.pos < scopes[f.iter.scope].len
    BY <1>6, <1>8, <2>1, IteratorThere
  <2> QED BY <1>6, <1>8, <2>2 DEF ListThere, Onward, Owed
<1> QED BY <1>6, <1>7, <1>8 DEF Onward, Ranging

\* Steps that also change scopes and arguments.
LEMMA ScopeThere ==
    ASSUME Sound, NEW U, Valued(U), ScopeStep, frames # <<>>,
           NEW f, Replaced(frames, f, frames'), Ranging(f)
    PROVE  ListThere(f)
<1>1. Stack /\ IsFrame(Top) /\ Top.env \in DOMAIN scopes /\ out.st = "running"
  BY SoundRuns, StepRuns DEF FramesOK, Sound
<1>2. Holds(U, Top)
  BY <1>1, Present
<1>3. ASSUME NEW p, NEW g, g = [Top EXCEPT !.pc = p], frames' = Append(Front(frames), g)
      PROVE  f.pc = p /\ f.env = Top.env /\ f.iter = Top.iter
  BY <1>1, <1>3, LastFrame DEF IsFrame
<1>4. ASSUME NEW x, NEW g, g = [Top EXCEPT !.i = x], frames' = Append(Front(frames), g)
      PROVE  f.pc = Top.pc
  BY <1>1, <1>4, LastFrame DEF IsFrame
<1>5. CASE InitPush \/ ArgPush
  <2>1. PICK x : x = Top.i - 1
    OBVIOUS
  <2>2. PICK g : g = [Top EXCEPT !.i = x]
    OBVIOUS
  <2>3. frames' = Append(Front(frames), g) /\ Top.pc \in {"init", "args"}
    BY <1>5, <2>1, <2>2 DEF InitPush, ArgPush, At, Goto
  <2> QED BY <1>4, <2>2, <2>3 DEF Ranging
<1>6. CASE Drop
  <2>1. PICK x, h : x = Len(Node.args) /\ h = [Top EXCEPT !.pc = "args"]
    OBVIOUS
  <2>2. PICK g : g = [h EXCEPT !.i = x]
    OBVIOUS
  <2>3. IsFrame(h) /\ h.pc = "args"
    BY <1>1, <2>1 DEF IsFrame
  <2>4. g.pc = "args"
    BY <2>2, <2>3 DEF IsFrame
  <2>5. frames' = Append(Front(frames), g)
    BY <1>6, <2>1, <2>2 DEF Drop, Goto
  <2> QED BY <1>1, <2>4, <2>5, LastFrame DEF Ranging
<1>7. CASE Parent
  <2>1. PICK z, h : z = Len(scopes') /\ h = [Top EXCEPT !.pc = "parent"]
    OBVIOUS
  <2>2. PICK g : g = [h EXCEPT !.env = z]
    OBVIOUS
  <2>3. IsFrame(h) /\ h.pc = "parent"
    BY <1>1, <2>1 DEF IsFrame
  <2>4. g.pc = "parent"
    BY <2>2, <2>3 DEF IsFrame
  <2>5. frames' = Append(Front(frames), g)
    BY <1>7, <2>1, <2>2 DEF Parent, Goto, NewScope
  <2> QED BY <1>1, <2>4, <2>5, LastFrame DEF Ranging
<1>8. CASE RangeSecond \/ RangeDrop
  <2>1. PICK p : /\ p \in {"each", "result"} /\ Top.pc \in {"second", "each"}
                 /\ frames' = Append(Front(frames), [Top EXCEPT !.pc = p])
    BY <1>8 DEF RangeSecond, RangeDrop, At, Goto
  <2>2. f.env = Top.env /\ f.iter = Top.iter
    BY <1>3, <2>1
  <2> QED BY <2>1, <2>2 DEF ListThere, Ranging
<1>9. CASE RangeNext
  <2>1. Top.pc = "next" /\ ~ArgGone(Top.iter)
    BY <1>9 DEF RangeNext, At
  <2>2. PICK q \in NextPair(Top.iter) :
           Goto([Top EXCEPT !.pc = "second", !.iter = q.iter, !.acc = q.pair[2]])
    BY <1>9 DEF RangeNext
  <2>3. PICK p, x, y : p = "second" /\ x = q.iter /\ y = q.pair[2]
    OBVIOUS
  <2>4. PICK t : t = Top
    OBVIOUS
  <2>5. PICK g : g = [t EXCEPT !.pc = p, !.iter = x, !.acc = y]
    OBVIOUS
  <2>6. Made(g, t, p, t.i, y, t.todo, x)
    BY <1>1, <2>4, <2>5, ElementOK
  <2>7. frames' = Append(Front(frames), g)
    BY <2>2, <2>3, <2>4, <2>5 DEF Goto
  <2>8. f.env = Top.env /\ f.iter = q.iter
    BY <1>1, <2>3, <2>4, <2>6, <2>7, LastFrame DEF Made
  <2>9. f.iter.pos < scopes[f.iter.scope].len
    <3>1. PICK it : it = Top.iter
      OBVIOUS
    <3>2. IterOK(U, it) /\ it.over \in {"pairs", "args", "env"} /\ q \in NextPair(it) /\ ~ArgGone(it)
      BY <1>2, <2>1, <2>2, <3>1 DEF Holds
    <3>3. q.iter.over = "args"
      BY <2>8 DEF Ranging
    <3> QED BY <2>8, <3>2, <3>3, PairThere
  <2> QED BY <2>1, <2>8, <2>9 DEF ListThere, Owed
<1> QED BY <1>5, <1>6, <1>7, <1>8, <1>9 DEF ScopeStep

\* Any step with which the last evaluation goes on as frame f.
LEMMA NextThere ==
    ASSUME ValueInv, [Next]_vars, frames # <<>>,
           NEW f, Replaced(frames, f, frames'), Ranging(f)
    PROVE  ListThere(f)
<1>1. PICK U : Valued(U)
  BY DEF ValueInv
<1>2. Sound /\ Inv /\ FramesOK /\ Stack
  BY DEF ValueInv, Sound, Inv, FramesOK
<1>3. /\ Len(frames) \in Nat \ {0} /\ Len(frames') = Len(frames)
      /\ Top = frames[Len(frames)] /\ f = frames'[Len(frames)]
  BY <1>2, SoundRuns DEF Replaced
<1>4. CASE StackStep \/ Signal \/ Store \/ Program
  <2>1. prog' = prog
    BY <1>2, <1>4, StepRuns
  <2>2. CASE Refuse
    <3>1. Len(frames') = Len(frames) - 1
      BY <1>2, <2>1, <2>2, ReturnFrames DEF Refuse, At, Return
    <3> QED BY <1>3, <3>1
  <2>3. CASE ~Refuse
    <3>1. Turn
      BY <1>2, <1>4, <2>3, StackMoves, EffectMoves
    <3> QED BY <1>1, <1>2, <2>1, <3>1, TurnThere
  <2> QED BY <2>2, <2>3
<1>5. CASE ScopeStep
  BY <1>1, <1>2, <1>5, ScopeThere
<1>6. CASE Enter
  <2>1. prog' = prog /\ Top.pc = "scope"
    BY <1>2, <1>6, EnterCourse
  <2>2. ASSUME NEW g, Proceeds(g), g.pc = "drop" PROVE FALSE
    <3>1. f = g
      BY <1>2, <2>2, LastFrame DEF Proceeds
    <3> QED BY <2>2, <3>1 DEF Ranging
  <2>3. ~Leaving
    <3>1. ASSUME Leaving PROVE Len(frames') = Len(frames) - 1
      BY <1>2, <2>1, <3>1, ReturnFrames DEF Leaving
    <3> QED BY <1>3, <3>1
  <2> QED BY <1>2, <1>6, <2>2, <2>3, EnterCourse
<1>7. CASE Begin
  BY <1>2, <1>7 DEF Begin, Inv, OutOK
<1>8. CASE End
  <2>1. Len(frames') = 0
    BY <1>8, EmptySeq DEF End
  <2> QED BY <1>3, <2>1
<1>9. CASE Panic \/ Over \/ UNCHANGED vars
  <2>1. f = Top
    BY <1>3, <1>9 DEF Panic, Over, vars
  <2> QED BY <2>1 DEF ListThere
<1> QED BY <1>4, <1>5, <1>6, <1>7, <1>8, <1>9 DEF Next, Step

\* Lists are of allocated scopes.
ListsTyped == \A d \in 1..Len(frames) : Ranging(frames[d]) =>
                 frames[d].iter.scope \in DOMAIN scopes /\ frames[d].iter.pos \in Int

\* They are, as all values are.
LEMMA ListTypes == ValueInv => ListsTyped
<1> SUFFICES ASSUME ValueInv, NEW d \in 1..Len(frames), Ranging(frames[d])
             PROVE  frames[d].iter.scope \in DOMAIN scopes /\ frames[d].iter.pos \in Int
  BY DEF ListsTyped
<1>1. PICK U : Valued(U)
  BY DEF ValueInv
<1>2. IterOK(U, frames[d].iter)
  BY <1>1 DEF Valued, FramesHold, Holds
<1> QED BY <1>2 DEF IterOK, Ranging

\* Frames that stay keep their lists.
LEMMA ListsStay ==
    ASSUME ListsTyped, Stack, NEW n, n \in Nat, n <= Len(frames),
           \A d \in 1..n : frames'[d] = frames[d]
    PROVE  KeepsLists(n, frames, frames', scopes)
<1>1. PICK m \in Nat : m = Len(frames)
  BY LenProperties DEF Stack
<1>2. \A d \in 1..n : d \in 1..m
  BY <1>1
<1> QED BY <1>1, <1>2 DEF KeepsLists, ListsTyped

-----------------------------------------------------------------------------
(***************************************************************************)
(* They are there after each step, in programs without drop_args.          *)
(***************************************************************************)

\* A step of an evaluation in its scope.
LEMMA ListsWork ==
    ASSUME Ready, Memory', prog' = prog, ListsTyped, ListsTyped', NEW base, NEW up, NestOK(base, up),
           ListsKept(base, frames, scopes), NEW f, Works(f), Ranging(f) => ListThere(f)
    PROVE  \E base2 : NestOK(base2, up)' /\ ListsKept(base2, frames', scopes')
<1>1. PICK n \in Nat : n = Len(frames)
  BY NestFacts DEF Ready
<1>2. n \in 1..n /\ n # 0 /\ frames # <<>> /\ Inv /\ Memory /\ Top = frames[n] /\ Stack
  BY <1>1, NestFacts DEF Works, Ready, Inv, FramesOK
<1>3. PICK top, y, sc, sc2 : /\ top = scopes'[Top.env].len - Owed(f) /\ y = Top.env
                             /\ sc = scopes /\ sc2 = scopes'
  OBVIOUS
<1>4. PICK base2 : base2 = [d \in 1..n |-> IF d = n THEN top ELSE base[d]]
  OBVIOUS
<1>5. base2[n] = top /\ \A d \in 1..(n - 1) : base2[d] = base[d]
  BY <1>2, <1>4
<1>6. /\ \A d \in 1..(Len(frames) - 1) : base2[d] = base[d]
      /\ base2[Len(frames)] = scopes'[Top.env].len - Owed(f)
  BY <1>1, <1>3, <1>5
<1>7. NestOK(base2, up)' /\ base[n] <= base2[n]
  BY <1>1, <1>2, <1>6, NestWorks
<1>8. /\ Len(frames') = n /\ frames'[n] = f /\ f.env = y
      /\ \A d \in 1..(n - 1) : frames'[d] = frames[d]
      /\ DOMAIN sc2 = DOMAIN sc /\ \A s \in DOMAIN sc : s # y => sc2[s] = sc[s]
      /\ Numbered(sc) /\ Numbered(sc2) /\ y \in DOMAIN sc
  BY <1>1, <1>2, <1>3, MemoryFacts, MemoryNext DEF Works, Replaced, Touched, Ready
<1>9. PICK l \in Nat, m \in Nat, a \in Nat, o \in Nat :
         l = sc[y].len /\ m = sc2[y].len /\ a = Owed(f) /\ o = Owed(Top)
  <2>1. Owed(f) \in Nat /\ Owed(Top) \in Nat
    BY DEF Owed
  <2> QED BY <1>8, <2>1 DEF Numbered
<1>10. a <= m /\ (m - a = l - o \/ m - a = l - o + 1) /\ top = m - a
  BY <1>3, <1>9 DEF Works
<1>11. top \in Nat /\ top <= m /\ (o = 0 => l <= top)
  BY <1>10
<1>12. Stacked(n, Envs, Debts, base, sc) /\ Envs = [d \in 1..n |-> frames[d].env]
       /\ Debts = [d \in 1..n |-> Owed(frames[d])]
  BY <1>1, <1>3 DEF NestOK, Nest, Envs, Debts
<1>13. ASSUME NEW d \in 1..n PROVE base[d] \in Nat /\ (frames[d].env = y => base[d] <= base[n])
  <2>1. base[d] \in Nat /\ base[n] \in Nat
    BY <1>2, <1>12 DEF Stacked
  <2>2. CASE d = n
    BY <2>1, <2>2
  <2>3. CASE d # n
    <3>1. d < n
      BY <2>3
    <3>2. Envs[d] = frames[d].env /\ Envs[n] = y /\ Debts[d] \in Nat
      BY <1>2, <1>3, <1>12 DEF Stacked
    <3>3. frames[d].env = y => base[d] + Debts[d] <= base[n]
      BY <1>2, <1>12, <3>1, <3>2 DEF Stacked
    <3> QED BY <2>1, <3>2, <3>3
  <2> QED BY <2>2, <2>3
<1>14. KeepsLists(n - 1, frames, frames', sc)
  <2>1. n - 1 \in Nat /\ n - 1 <= Len(frames)
    BY <1>1, <1>2
  <2> QED BY <1>2, <1>3, <1>8, <2>1, ListsStay
<1>15. ASSUME Ranging(f)
       PROVE  /\ f.iter.scope \in DOMAIN sc /\ f.iter.pos \in Int
              /\ \/ Ranging(Top) /\ f.iter = Top.iter
                 \/ f.iter.pos < sc[f.iter.scope].len /\ l <= top
  <2>1. ListThere(f) /\ (Owed(Top) = 0 => l <= top)
    BY <1>9, <1>11, <1>15
  <2>2. f.iter.scope \in DOMAIN scopes' /\ f.iter.pos \in Int
    BY <1>2, <1>8, <1>15 DEF ListsTyped, Ranging
  <2> QED BY <1>3, <1>8, <2>1, <2>2 DEF ListThere
<1>16. ListsKept(base2, frames', sc2)
  <2>1. n \in Nat \ {0} /\ Len(frames) = n /\ frames[n].env = y /\ frames'[n].env = y
    BY <1>1, <1>2, <1>3, <1>8
  <2>2. base2[n] \in Nat /\ base2[n] <= sc2[y].len /\ ListsKept(base, frames, sc)
    BY <1>3, <1>5, <1>9, <1>11
  <2>3. Ranging(frames'[n]) =>
           /\ frames'[n].iter.scope \in DOMAIN sc /\ frames'[n].iter.pos \in Int
           /\ \/ Ranging(frames[n]) /\ frames'[n].iter = frames[n].iter
              \/ frames'[n].iter.pos < sc[frames'[n].iter.scope].len /\ sc[y].len <= base2[n]
    BY <1>2, <1>5, <1>8, <1>9, <1>15
  <2>4. PICK fr, fr2 : fr = frames /\ fr2 = frames'
    OBVIOUS
  <2>5. /\ n \in Nat \ {0} /\ Len(fr) = n /\ Len(fr2) = n
        /\ Numbered(sc) /\ Numbered(sc2) /\ DOMAIN sc2 = DOMAIN sc
        /\ fr[n].env = y /\ fr2[n].env = y /\ y \in DOMAIN sc
    BY <1>8, <2>1, <2>4
  <2>6. /\ KeepsLists(n - 1, fr, fr2, sc) /\ ListsKept(base, fr, sc)
        /\ \A d \in 1..n : base[d] \in Nat /\ (fr[d].env = y => base[d] <= base[n])
    BY <1>13, <1>14, <2>2, <2>4
  <2>7. Ranging(fr2[n]) =>
           /\ fr2[n].iter.scope \in DOMAIN sc /\ fr2[n].iter.pos \in Int
           /\ \/ Ranging(fr[n]) /\ fr2[n].iter = fr[n].iter
              \/ fr2[n].iter.pos < sc[fr2[n].iter.scope].len /\ sc[y].len <= base2[n]
    BY <2>3, <2>4
  <2>8. ListsKept(base2, fr2, sc2)
    BY <1>5, <1>7, <1>8, <2>2, <2>5, <2>6, <2>7, ListsTouched
  <2> QED BY <2>4, <2>8
<1> QED BY <1>3, <1>7, <1>16

\* An evaluation calls another one.
LEMMA ListsCall ==
    ASSUME Ready, Inv', prog' = prog, ListsTyped, NEW base, NEW up, NestOK(base, up),
           ListsKept(base, frames, scopes), NEW f, NEW g, Waiting(f, g)
    PROVE  \E base2, up2 : NestOK(base2, up2)' /\ ListsKept(base2, frames', scopes')
<1>1. PICK n \in Nat : n = Len(frames)
  BY NestFacts DEF Ready
<1>2. n \in 1..n /\ n # 0 /\ frames # <<>> /\ Inv /\ Memory /\ Top = frames[n] /\ Stack
  BY <1>1, NestFacts DEF Waiting, Ready, Inv, FramesOK
<1>3. PICK top, sc : top = base[n] + Owed(Top) /\ sc = scopes
  OBVIOUS
<1>4. PICK base2, up2 : /\ base2 = [d \in 1..(n + 1) |-> IF d = n + 1 THEN top ELSE base[d]]
                        /\ up2 = [d \in 1..(n + 1) |-> IF d = n + 1 THEN up[n] ELSE up[d]]
  OBVIOUS
<1>5. \A d \in 1..n : d \in 1..(n + 1) /\ d # n + 1
  OBVIOUS
<1>6. /\ \A d \in 1..n : base2[d] = base[d] /\ up2[d] = up[d]
      /\ base2[n + 1] = top /\ up2[n + 1] = up[n]
  <2>1. n + 1 \in 1..(n + 1)
    OBVIOUS
  <2> QED BY <1>4, <1>5, <2>1
<1>7. NestOK(base2, up2)'
  <2>1. /\ \A d \in 1..Len(frames) : base2[d] = base[d] /\ up2[d] = up[d]
        /\ base2[Len(frames) + 1] = base[Len(frames)] + Owed(Top)
        /\ up2[Len(frames) + 1] = up[Len(frames)]
    BY <1>1, <1>3, <1>6
  <2> QED BY <1>2, <2>1, NestWaiting
<1>8. /\ Len(frames') = n + 1 /\ frames'[n] = f /\ frames'[n + 1] = g
      /\ \A d \in 1..(n - 1) : frames'[d] = frames[d]
      /\ f.env = Top.env /\ g.env = Top.env /\ g.pc = "scope" /\ scopes' = sc
  BY <1>1, <1>3 DEF Waiting, Pushed, scopeVars
<1>9. Ranging(f) => f = Top
  <2>1. n \in 1..(n + 1) /\ n < n + 1
    BY <1>2
  <2>2. f.pc \in {"init", "args", "body", "parent", "each", "loaded"}
    BY <1>8, <2>1 DEF Inv, FramesOK, Waits
  <2>3. f.pc = "each" => f = Top
    BY DEF Waiting
  <2> QED BY <2>2, <2>3 DEF Ranging
<1>10. KeepsLists(n - 1, frames, frames', sc)
  <2>1. n - 1 \in Nat /\ n - 1 <= Len(frames)
    BY <1>1, <1>2
  <2> QED BY <1>2, <1>3, <1>8, <2>1, ListsStay
<1>11. ListsKept(base2, frames', sc)
  <2>1. PICK fr, fr2 : fr = frames /\ fr2 = frames'
    OBVIOUS
  <2>2. /\ n \in Nat \ {0} /\ Len(fr) = n /\ Len(fr2) = n + 1
        /\ KeepsLists(n - 1, fr, fr2, sc) /\ ListsKept(base, fr, sc)
    BY <1>1, <1>2, <1>3, <1>8, <1>10, <2>1
  <2>3. /\ Ranging(fr2[n]) => fr2[n] = fr[n]
        /\ fr2[n].env = fr[n].env /\ fr2[n + 1].env = fr[n].env /\ ~Ranging(fr2[n + 1])
    BY <1>2, <1>8, <1>9, <2>1 DEF Ranging
  <2>4. ListsKept(base2, fr2, sc)
    BY <1>6, <2>2, <2>3, ListsCalled
  <2> QED BY <2>1, <2>4
<1> QED BY <1>3, <1>7, <1>8, <1>11

\* An evaluation ends.
LEMMA ListsEnd ==
    ASSUME Ready, prog' = prog, ListsTyped, NEW base, NEW up, NestOK(base, up),
           ListsKept(base, frames, scopes), Ending
    PROVE  NestOK(base, up)' /\ ListsKept(base, frames', scopes')
<1>1. PICK n \in Nat : n = Len(frames) /\ n > 1 /\ n - 1 \in Nat
  BY NestFacts DEF Ready, Ending
<1>2. NestOK(base, up)' /\ Stack
  BY NestEnding DEF Ready, Inv, FramesOK
<1>3. PICK sc : sc = scopes
  OBVIOUS
<1>4. /\ Len(frames') = n - 1 /\ \A d \in 1..(n - 1) : frames'[d] = frames[d]
      /\ scopes' = sc
  BY <1>1, <1>3 DEF Ending, scopeVars
<1>5. KeepsLists(n - 1, frames, frames', sc)
  <2>1. n - 1 <= Len(frames)
    BY <1>1
  <2> QED BY <1>1, <1>2, <1>3, <1>4, <2>1, ListsStay
<1>6. PICK fr, fr2 : fr = frames /\ fr2 = frames'
  OBVIOUS
<1>7. /\ n \in Nat \ {0} /\ Len(fr) = n /\ Len(fr2) = n - 1
      /\ KeepsLists(n - 1, fr, fr2, sc) /\ ListsKept(base, fr, sc)
  BY <1>1, <1>3, <1>4, <1>5, <1>6
<1>8. ListsKept(base, fr2, sc)
  BY <1>7, ListsLeft
<1> QED BY <1>2, <1>4, <1>6, <1>8

\* An evaluation moves to a new scope.
LEMMA ListsMove ==
    ASSUME Ready, Memory', prog' = prog, ListsTyped, NEW base, NEW up, NestOK(base, up),
           ListsKept(base, frames, scopes), NEW f, Shifting(f) \/ Copying(f),
           Ranging(f) => ListThere(f)
    PROVE  \E base2, up2 : NestOK(base2, up2)' /\ ListsKept(base2, frames', scopes')
<1>0. Moving(f) /\ Inv /\ Memory /\ Stack
  BY DEF Shifting, Copying, Ready, Inv, FramesOK
<1>1. PICK n \in Nat : n = Len(frames) /\ n > 1
  BY <1>0, NestFacts DEF Moving
<1>2. n \in 1..n /\ \A d \in 1..(n - 1) : d \in 1..n /\ d # n
  BY <1>1
<1>3. PICK top, walk : /\ top = scopes'[f.env].len
                       /\ walk = IF Shifting(f) THEN up[n] \cup (DOMAIN scopes' \ DOMAIN scopes)
                                 ELSE {f.env} \cup {x \in up[n] : x < scopes[Top.env].parent}
  OBVIOUS
<1>4. PICK base2, up2 : /\ base2 = [d \in 1..n |-> IF d = n THEN top ELSE base[d]]
                        /\ up2 = [d \in 1..n |-> IF d = n THEN walk ELSE up[d]]
  OBVIOUS
<1>5. /\ \A d \in 1..(Len(frames) - 1) : base2[d] = base[d] /\ up2[d] = up[d]
      /\ base2[Len(frames)] = top /\ up2[Len(frames)] = walk
  BY <1>1, <1>2, <1>4
<1>6. NestOK(base2, up2)'
  <2>1. CASE Shifting(f)
    <3>1. /\ base2[Len(frames)] = 0
          /\ up2[Len(frames)] = up[Len(frames)] \cup (DOMAIN scopes' \ DOMAIN scopes)
      BY <1>1, <1>3, <1>5, <2>1 DEF Shifting
    <3> QED BY <1>0, <1>5, <2>1, <3>1, NestShifting
  <2>2. CASE ~Shifting(f)
    <3>1. /\ base2[Len(frames)] = scopes'[f.env].len /\ Copying(f)
          /\ up2[Len(frames)] = {f.env} \cup {x \in up[Len(frames)] : x < scopes[Top.env].parent}
      BY <1>1, <1>3, <1>5, <2>2
    <3> QED BY <1>0, <1>5, <3>1, NestCopying
  <2> QED BY <2>1, <2>2
<1>7. PICK sc, sc2 : sc = scopes /\ sc2 = scopes'
  OBVIOUS
<1>8. /\ \A s \in DOMAIN sc : sc2[s] = sc[s] /\ s < f.env
      /\ f.env \in Nat /\ Numbered(sc)
  <2>1. /\ \A s \in DOMAIN scopes : s \in DOMAIN scopes' /\ scopes'[s] = scopes[s] /\ s < f.env
        /\ f.env \in DOMAIN scopes' /\ Numbered(scopes) /\ Numbered(scopes')
    BY <1>0, MovingFacts
  <2> QED BY <1>7, <2>1 DEF Numbered
<1>9. ~Ranging(f)
  <2>1. Top.env \in DOMAIN sc
    BY <1>0, <1>1, <1>7 DEF Ready
  <2>2. f.env # Top.env
    BY <1>8, <2>1
  <2> QED BY <2>2 DEF ListThere
<1>10. Len(frames') = n /\ frames'[n] = f /\ \A d \in 1..(n - 1) : frames'[d] = frames[d]
  BY <1>0, <1>1 DEF Moving, Replaced
<1>11. KeepsLists(n - 1, frames, frames', sc)
  <2>1. n - 1 \in Nat /\ n - 1 <= Len(frames)
    BY <1>1
  <2> QED BY <1>0, <1>7, <1>10, <2>1, ListsStay
<1>12. ListsKept(base2, frames', sc2)
  <2>1. PICK fr, fr2 : fr = frames /\ fr2 = frames'
    OBVIOUS
  <2>2. /\ n \in Nat \ {0} /\ Len(fr) = n /\ Len(fr2) = n /\ KeepsLists(n - 1, fr, fr2, sc)
        /\ ~Ranging(fr2[n]) /\ ListsKept(base, fr, sc)
    BY <1>1, <1>7, <1>9, <1>10, <1>11, <2>1
  <2>3. /\ \A s \in DOMAIN sc : sc2[s] = sc[s] /\ s < fr2[n].env
        /\ Numbered(sc) /\ fr2[n].env \in Nat
    BY <1>8, <1>10, <2>1
  <2>4. \A d \in 1..(n - 1) : base2[d] = base[d]
    BY <1>1, <1>5
  <2>5. ListsKept(base2, fr2, sc2)
    BY <2>2, <2>3, <2>4, ListsMoved
  <2> QED BY <2>1, <2>5
<1> QED BY <1>6, <1>7, <1>12


\* Eval begins.
LEMMA ListsBegin ==
    ASSUME Memory', Beginning
    PROVE  \E base, up : NestOK(base, up)' /\ ListsKept(base, frames', scopes')
<1>1. PICK base, up : base = <<scopes'[1].len>> /\ up = <<{1}>>
  OBVIOUS
<1>2. base[1] = scopes'[1].len /\ up[1] = {1}
  BY <1>1
<1>3. NestOK(base, up)'
  BY <1>2, NestBeginning
<1>4. ListsKept(base, frames', scopes')
  <2>1. \A d \in 1..1 : d = 1
    OBVIOUS
  <2>2. Len(frames') = 1 /\ ~Ranging(frames'[1])
    BY DEF Beginning, Ranging
  <2> QED BY <2>1, <2>2 DEF ListsKept, ListKept
<1> QED BY <1>3, <1>4

\* Nothing happens.
LEMMA ListsIdle ==
    ASSUME prog' = prog, frames' = frames, UNCHANGED scopeVars,
           NEW base, NEW up, NestOK(base, up), ListsKept(base, frames, scopes)
    PROVE  NestOK(base, up)' /\ ListsKept(base, frames', scopes')
<1>1. scopes' = scopes
  BY DEF scopeVars
<1>2. Envs' = Envs /\ Debts' = Debts /\ Subs' = Subs
  BY EnvsNext DEF Envs, Debts, Subs
<1>3. NestOK(base, up)'
  BY <1>1, <1>2 DEF NestOK
<1> QED BY <1>1, <1>3

\* What is known of live arguments that ranges are at.
ListsOK == \E base, up : NestOK(base, up) /\ ListsKept(base, frames, scopes)

\* The invariant of values and lists.
ListInv == ValueInv /\ (DropFree => ListsOK)

\* It is known after each step.
LEMMA NextLists ==
    ASSUME ValueInv, DropFree, ListsOK, [Next]_vars
    PROVE  ListsOK'
<1>1. PICK base, up : NestOK(base, up) /\ ListsKept(base, frames, scopes)
  BY DEF ListsOK
<1>2. ValueInv' /\ ListsTyped
  BY NextValues, ListTypes
<1>3. ListsTyped'
  <2>1. (ValueInv => ListsTyped)'
    BY ListTypes, PTL
  <2> QED BY <1>2, <2>1
<1>4. Ready /\ Inv' /\ prog \in Programs
  BY <1>1, <1>2, NestReady DEF ValueInv, Sound
<1>5. Evolves /\ Memory' /\ prog' = prog
  BY <1>4, NextEvolves
<1>6. ASSUME frames # <<>>, NEW f, Replaced(frames, f, frames'), Ranging(f) PROVE ListThere(f)
  BY <1>6, NextThere
<1>7. \E base2, up2 : NestOK(base2, up2)' /\ ListsKept(base2, frames', scopes')
  <2>1. ASSUME NEW f, Works(f)
         PROVE  \E base2, up2 : NestOK(base2, up2)' /\ ListsKept(base2, frames', scopes')
    <3>1. Ranging(f) => ListThere(f)
      BY <1>6, <2>1 DEF Works
    <3> QED BY <1>1, <1>2, <1>3, <1>4, <1>5, <2>1, <3>1, ListsWork
  <2>2. CASE \E f, g : Waiting(f, g)
    BY <1>1, <1>2, <1>4, <1>5, <2>2, ListsCall
  <2>3. CASE Ending
    BY <1>1, <1>2, <1>4, <1>5, <2>3, ListsEnd
  <2>4. ASSUME NEW f, Shifting(f) \/ Copying(f)
         PROVE  \E base2, up2 : NestOK(base2, up2)' /\ ListsKept(base2, frames', scopes')
    <3>1. frames # <<>> /\ Replaced(frames, f, frames')
      <4>1. Len(frames) > 1 /\ Replaced(frames, f, frames')
        BY <2>4 DEF Shifting, Copying, Moving
      <4> QED BY <4>1, EmptySeq
    <3>2. Ranging(f) => ListThere(f)
      BY <1>6, <3>1
    <3> QED BY <1>1, <1>2, <1>4, <1>5, <2>4, <3>2, ListsMove
  <2>5. CASE Beginning
    BY <1>5, <2>5, ListsBegin
  <2>6. CASE Len(frames') = 0
    <3>1. 1..0 = {}
      OBVIOUS
    <3>2. NestOK(base, up)' /\ ListsKept(base, frames', scopes')
      BY <2>6, <3>1, NestNoneNext DEF ListsKept
    <3> QED BY <3>2
  <2>7. CASE frames' = frames /\ UNCHANGED scopeVars
    BY <1>1, <1>5, <2>7, ListsIdle
  <2> QED BY <1>5, <2>1, <2>2, <2>3, <2>4, <2>5, <2>6, <2>7 DEF Evolves
<1> QED BY <1>7 DEF ListsOK

\* And at first.
LEMMA InitLists ==
    ASSUME Init
    PROVE  ListInv
<1>1. Len(frames) = 0 /\ 1..0 = {}
  BY DEF Init
<1>2. \A base, up : NestOK(base, up) /\ ListsKept(base, frames, scopes)
  BY <1>1, NestNone DEF ListsKept
<1> QED BY <1>2, InitValues DEF ListInv, ListsOK

\* Range of value.proto over live arguments, in programs without drop_args: when evalRange
\* of eval.go goes on with the next argument of a list, celArgListIterator.Next of
\* cel_args.go finds it there, whatever the evaluations for elements have pushed, dropped
\* and ranged over, in which scope ever the list is.
THEOREM ListsLast == Spec => []RangeKeepsItsArgs
<1>1. ListInv /\ [Next]_vars => ListInv'
  <2> SUFFICES ASSUME ListInv, [Next]_vars PROVE ListInv'
    OBVIOUS
  <2>1. prog' = prog
    BY ProgStays
  <2>2. DropFree' = DropFree
    BY <2>1 DEF DropFree
  <2> QED BY <2>2, NextLists, NextValues DEF ListInv
<1>2. ListInv => RangeKeepsItsArgs
  <2> SUFFICES ASSUME ListInv, At("next"), ArgGone(Top.iter), DropFree PROVE FALSE
    BY DEF RangeKeepsItsArgs
  <2>1. ValueInv /\ Sound /\ ListsTyped /\ Tree
    BY ListTypes, MemoryFacts DEF ListInv, ValueInv, Sound
  <2>2. PICK base, up : ListsKept(base, frames, scopes)
    BY DEF ListInv, ListsOK
  <2>3. PICK U : Valued(U)
    BY <2>1 DEF ValueInv
  <2>4. PICK n \in Nat \ {0} : n = Len(frames) /\ Top = frames[n]
    BY <2>1, SoundRuns DEF At, Sound, Inv, OutOK
  <2>5. n \in 1..n
    BY <2>4
  <2>6. PICK it : it = Top.iter
    OBVIOUS
  <2>7. it.over = "args" /\ it.scope \in DOMAIN scopes /\ it.pos \in Int
    <3>1. IterOK(U, it)
      BY <2>3, <2>4, <2>5, <2>6 DEF Valued, FramesHold, Holds
    <3> QED BY <2>6, <3>1 DEF ArgGone, IterOK
  <2>8. PICK a \in NextArg(it) : a[2] >= scopes[a[1]].len
    BY <2>6 DEF ArgGone
  <2>9. CASE it.pos >= 0
    <3>1. Ranging(Top)
      BY <2>6, <2>7, <2>9 DEF Ranging, At
    <3>2. it.pos < scopes[it.scope].len
      BY <2>2, <2>4, <2>5, <2>6, <3>1 DEF ListsKept, ListKept
    <3>3. a = <<it.scope, it.pos>>
      BY <2>9 DEF NextArg
    <3>4. PICK l \in Nat, p \in Int : l = scopes[it.scope].len /\ p = it.pos
      BY <2>1, <2>7, TreeFacts
    <3>5. p >= l
      BY <2>8, <3>3, <3>4
    <3> QED BY <3>2, <3>4, <3>5
  <2>10. CASE ~(it.pos >= 0)
    <3>1. PICK up2 : up2 = Path(it.scope)
      OBVIOUS
    <3>2. PICK k \in 1..Len(scopes) : /\ up2[k] # 0 /\ scopes[up2[k]].len > 0
                                      /\ a = <<up2[k], scopes[up2[k]].len - 1>>
      BY <2>10, <3>1 DEF NextArg
    <3>3. Len(scopes) \in Nat /\ DOMAIN scopes = 1..Len(scopes)
      BY <2>1, TreeFacts
    <3>4. up2 \in [0..Len(scopes) -> 0..Len(scopes)]
      BY <2>1, <2>7, <3>1, PathFacts DEF PathIsWalk
    <3>5. PICK s \in DOMAIN scopes : s = up2[k]
      BY <3>2, <3>3, <3>4
    <3>6. PICK l \in Nat : l = scopes[s].len
      BY <2>1, TreeFacts
    <3>7. a = <<s, l - 1>>
      BY <3>2, <3>5, <3>6
    <3>8. l - 1 >= l
      BY <2>8, <3>6, <3>7
    <3> QED BY <3>6, <3>8
  <2> QED BY <2>7, <2>9, <2>10
<1> QED BY <1>1, <1>2, InitLists, PTL DEF Spec

=============================================================================
