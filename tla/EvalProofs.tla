----------------------------- MODULE EvalProofs -----------------------------
(***************************************************************************)
(* What holds of evaluations of every program: cycles bound their nesting, *)
(* and fatal errors are never swallowed.  Both need to know at which points*)
(* an evaluation can wait for another one, and that only there a result is *)
(* taken (Inv).  Apart from entering an evaluation, a step makes one of    *)
(* three moves on the stack of frames.                                     *)
(***************************************************************************)
EXTENDS EvalProperties, Induction, FiniteSetTheorems, SequenceTheorems, TLAPS

\* Kinds of values that evaluate other values in their body.
Composite == {"list", "map", "message", "not", "allOf", "anyOf", "seq", "switch",
              "while", "store", "proc", "load", "range"}

\* A record with the fields of a frame.
IsFrame(f) ==
    f = [node |-> f.node, env |-> f.env, pc |-> f.pc, i |-> f.i,
         acc |-> f.acc, todo |-> f.todo, iter |-> f.iter]

\* A record with the fields of an error.
IsErr(e) == e = [k |-> e.k, n |-> e.n, wrapped |-> e.wrapped]

\* Errors that are no break and no continue.
Fatal(e) == e.k \in {"fail", "toolong"}

\* Frame f can wait for another evaluation.
Waits(f) ==
    /\ f.pc \in {"init", "args", "body", "parent", "each", "loaded"}
    /\ f.pc = "init" => f.i = 0
    /\ f.pc = "body" => prog.nodes[f.node].kind \in Composite

\* The frames are a sequence.
Stack == \E S : frames \in Seq(S)

\* Only the bottom frame is that of Eval, and every frame below the top waits.
FramesOK ==
    /\ Stack
    /\ \A d \in 1..Len(frames) : IsFrame(frames[d]) /\ (frames[d].pc = "init" <=> d = 1)
    /\ \A d \in 1..Len(frames) : d < Len(frames) => Waits(frames[d])

\* A result is there only where one is taken.
RetOK ==
    /\ ret # NoRet => frames # <<>> /\ (Waits(Top) \/ Top.pc = "result")
    /\ IsErr(ret.err) /\ DOMAIN ret = {"st", "val", "err"}

\* While Eval runs there are frames, and when it has returned there are none.
OutOK ==
    /\ out.st = "running" => frames # <<>>
    /\ out.st \in {"idle", "ok", "err"} => frames = <<>> /\ ret = NoRet

\* Evaluations that have taken their cycle.
Active == {d \in 2..Len(frames) : frames[d].pc # "scope"}

\* The inductive invariant.
Inv == /\ FramesOK /\ RetOK /\ OutOK
       /\ cyclesLeft \in Int
       /\ Cardinality(Active) + cyclesLeft <= EvalMax

-----------------------------------------------------------------------------
(***************************************************************************)
(* The stack.                                                              *)
(***************************************************************************)

\* The top taken away.
LEMMA PopTop ==
    ASSUME NEW S, NEW s \in Seq(S), s # <<>>
    PROVE  /\ Len(s) \in Nat \ {0} /\ Last(s) = s[Len(s)]
           /\ Front(s) \in Seq(S)
           /\ Len(Front(s)) = Len(s) - 1
           /\ \A d \in 1..(Len(s) - 1) : Front(s)[d] = s[d]
<1>1. Len(s) \in Nat \ {0} /\ Last(s) = s[Len(s)]
  BY DEF Last
<1>2. PICK n \in Nat : n = Len(s) - 1
  BY <1>1
<1>3. \A d \in 1..n : s[d] \in S
  BY <1>2
<1>4. /\ SubSeq(s, 1, n) \in Seq(S)
      /\ Len(SubSeq(s, 1, n)) = IF 1 <= n THEN n - 1 + 1 ELSE 0
      /\ \A d \in 1..(n - 1 + 1) : SubSeq(s, 1, n)[d] = s[1 + d - 1]
  BY <1>3, SubSeqProperties
<1>5. Len(SubSeq(s, 1, n)) = n /\ \A d \in 1..n : SubSeq(s, 1, n)[d] = s[d]
  BY <1>4
<1> QED BY <1>1, <1>2, <1>4, <1>5 DEF Front

\* r is s with its last element replaced by f.
Replaced(s, f, r) ==
    /\ \E S : r \in Seq(S)
    /\ Len(r) = Len(s)
    /\ r[Len(s)] = f
    /\ \A d \in 1..(Len(s) - 1) : r[d] = s[d]

\* r is s with its last element replaced by f and g.
Pushed(s, f, g, r) ==
    /\ \E S : r \in Seq(S)
    /\ Len(r) = Len(s) + 1
    /\ r[Len(s)] = f
    /\ r[Len(s) + 1] = g
    /\ \A d \in 1..(Len(s) - 1) : r[d] = s[d]

\* What Goto does to a stack.
LEMMA ReplaceTop ==
    ASSUME NEW S, NEW s \in Seq(S), s # <<>>, NEW f
    PROVE  Replaced(s, f, Append(Front(s), f))
<1>1. PICK t : t = Front(s)
  OBVIOUS
<1>2. /\ Len(s) \in Nat \ {0} /\ t \in Seq(S) /\ Len(t) = Len(s) - 1
      /\ \A d \in 1..(Len(s) - 1) : t[d] = s[d]
  BY <1>1, PopTop
<1>3. t \in Seq(S \cup {f})
  BY <1>2
<1>4. PICK r : r = Append(t, f)
  OBVIOUS
<1>5. Replaced(s, f, r)
  BY <1>2, <1>3, <1>4 DEF Replaced
<1> QED BY <1>1, <1>4, <1>5

\* What Sub does to a stack.
LEMMA PushTop ==
    ASSUME NEW S, NEW s \in Seq(S), s # <<>>, NEW f, NEW g
    PROVE  Pushed(s, f, g, Front(s) \o <<f, g>>)
<1>1. PICK t : t = Front(s)
  OBVIOUS
<1>2. /\ Len(s) \in Nat \ {0} /\ t \in Seq(S) /\ Len(t) = Len(s) - 1
      /\ \A d \in 1..(Len(s) - 1) : t[d] = s[d]
  BY <1>1, PopTop
<1>3. t \o <<f, g>> = Append(Append(t, f), g)
  BY <1>2
<1>4. PICK u : u = Append(t, f)
  OBVIOUS
<1>5. PICK r : r = Append(u, g)
  OBVIOUS
<1>6. /\ u \in Seq(S \cup {f}) /\ Len(u) = Len(s) /\ u[Len(s)] = f
      /\ \A d \in 1..(Len(s) - 1) : u[d] = s[d]
  BY <1>2, <1>4
<1>7. PICK V : V = (S \cup {f}) \cup {g}
  OBVIOUS
<1>8. u \in Seq(V) /\ g \in V
  BY <1>6, <1>7
<1>9. r \in Seq(V) /\ Len(r) = Len(u) + 1 /\ r[Len(u) + 1] = g
  BY <1>5, <1>8
<1>10. \A d \in 1..Len(u) : r[d] = u[d]
  BY <1>5, <1>8
<1>11. Pushed(s, f, g, r)
  BY <1>2, <1>6, <1>7, <1>9, <1>10 DEF Pushed
<1> QED BY <1>1, <1>3, <1>4, <1>5, <1>11

\* The top frame of a stack that is not empty.
LEMMA TopOK ==
    ASSUME FramesOK, frames # <<>>
    PROVE  /\ Len(frames) \in Nat \ {0} /\ Top = frames[Len(frames)]
           /\ IsFrame(Top) /\ (Top.pc = "init" <=> Len(frames) = 1)
<1>1. PICK S : frames \in Seq(S)
  BY DEF FramesOK, Stack
<1>2. Len(frames) \in Nat \ {0} /\ Top = frames[Len(frames)]
  BY <1>1, PopTop DEF Top
<1>3. \A d \in 1..Len(frames) : IsFrame(frames[d]) /\ (frames[d].pc = "init" <=> d = 1)
  BY DEF FramesOK
<1>4. IsFrame(frames[Len(frames)]) /\ (frames[Len(frames)].pc = "init" <=> Len(frames) = 1)
  BY <1>2, <1>3
<1> QED BY <1>2, <1>4

\* Active is a finite set, and with fewer active frames there are fewer.
LEMMA ActiveFinite ==
    ASSUME Stack
    PROVE  /\ IsFiniteSet(Active) /\ Cardinality(Active) \in Nat
           /\ \A A \in SUBSET Active : Cardinality(A) \in Nat /\ Cardinality(A) <= Cardinality(Active)
<1>1. Len(frames) \in Nat
  BY DEF Stack
<1>2. IsFiniteSet(2..Len(frames))
  BY <1>1, FS_Interval
<1>3. IsFiniteSet(Active)
  BY <1>2, FS_Subset DEF Active
<1> QED BY <1>3, FS_CardinalityType, FS_Subset

-----------------------------------------------------------------------------
(***************************************************************************)
(* The moves.                                                              *)
(***************************************************************************)

\* Frame f is of the value of the top frame and of its kind: that of Eval, or one of
\* eval.
Like(f) == IsFrame(f) /\ f.node = Top.node /\ (f.pc = "init" <=> Top.pc = "init")

\* The top frame goes on as f.
LEMMA GotoFrames ==
    ASSUME FramesOK, frames # <<>>, NEW f, Like(f),
           frames' = Append(Front(frames), f), prog' = prog
    PROVE  FramesOK' /\ frames' # <<>> /\ Replaced(frames, f, frames')
<1>1. PICK S : frames \in Seq(S)
  BY DEF FramesOK, Stack
<1>2. Replaced(frames, f, frames')
  BY <1>1, ReplaceTop, Zenon
<1>3. PICK r : r = frames'
  OBVIOUS
<1>4. Replaced(frames, f, r)
  BY <1>2, <1>3
<1>5. Len(frames) \in Nat \ {0} /\ (Top.pc = "init" <=> Len(frames) = 1)
  BY TopOK
<1>6. \A d \in 1..Len(r) : IsFrame(r[d]) /\ (r[d].pc = "init" <=> d = 1)
  <2> SUFFICES ASSUME NEW d \in 1..Len(r)
               PROVE  IsFrame(r[d]) /\ (r[d].pc = "init" <=> d = 1)
    OBVIOUS
  <2>1. CASE d = Len(r)
    BY <1>4, <1>5, <2>1 DEF Like, Replaced
  <2>2. CASE d # Len(r)
    <3>1. d \in 1..(Len(frames) - 1) /\ d \in 1..Len(frames)
      BY <1>4, <1>5, <2>2 DEF Replaced
    <3> QED BY <1>4, <3>1 DEF FramesOK, Replaced
  <2> QED BY <2>1, <2>2
<1>7. \A d \in 1..Len(r) : d < Len(r) => Waits(r[d])
  BY <1>4, <1>5 DEF FramesOK, Replaced
<1>8. (\A d \in 1..Len(r) : d < Len(r) => Waits(r[d]))'
  BY <1>7 DEF Waits
<1>9. FramesOK'
  BY <1>3, <1>4, <1>6, <1>8 DEF FramesOK, Stack, Replaced
<1>10. r # <<>>
  BY <1>4, <1>5 DEF Replaced
<1> QED BY <1>2, <1>3, <1>9, <1>10

\* The top frame goes on as f, which waits for a new frame g of eval.
LEMMA SubFrames ==
    ASSUME FramesOK, frames # <<>>, NEW f, Like(f), Waits(f), NEW g, IsFrame(g), g.pc = "scope",
           frames' = Front(frames) \o <<f, g>>, prog' = prog
    PROVE  FramesOK' /\ frames' # <<>> /\ Pushed(frames, f, g, frames')
<1>1. PICK S : frames \in Seq(S)
  BY DEF FramesOK, Stack
<1>2. Pushed(frames, f, g, frames')
  BY <1>1, PushTop, Zenon
<1>3. PICK r : r = frames'
  OBVIOUS
<1>4. Pushed(frames, f, g, r)
  BY <1>2, <1>3
<1>5. Len(frames) \in Nat \ {0} /\ (Top.pc = "init" <=> Len(frames) = 1)
  BY TopOK
<1>6. \A d \in 1..Len(r) : IsFrame(r[d]) /\ (r[d].pc = "init" <=> d = 1)
  <2> SUFFICES ASSUME NEW d \in 1..Len(r)
               PROVE  IsFrame(r[d]) /\ (r[d].pc = "init" <=> d = 1)
    OBVIOUS
  <2>1. CASE d = Len(r)
    BY <1>4, <1>5, <2>1 DEF Pushed
  <2>2. CASE d = Len(frames)
    BY <1>4, <1>5, <2>2 DEF Like, Pushed
  <2>3. CASE d # Len(r) /\ d # Len(frames)
    <3>1. d \in 1..(Len(frames) - 1) /\ d \in 1..Len(frames)
      BY <1>4, <1>5, <2>3 DEF Pushed
    <3> QED BY <1>4, <3>1 DEF FramesOK, Pushed
  <2> QED BY <2>1, <2>2, <2>3
<1>7. \A d \in 1..Len(r) : d < Len(r) => Waits(r[d])
  <2> SUFFICES ASSUME NEW d \in 1..Len(r), d < Len(r)
               PROVE  Waits(r[d])
    OBVIOUS
  <2>1. CASE d = Len(frames)
    BY <1>4, <2>1 DEF Pushed
  <2>2. CASE d # Len(frames)
    <3>1. d \in 1..(Len(frames) - 1) /\ d \in 1..Len(frames) /\ d < Len(frames)
      BY <1>4, <1>5, <2>2 DEF Pushed
    <3> QED BY <1>4, <3>1 DEF FramesOK, Pushed
  <2> QED BY <2>1, <2>2
<1>8. (\A d \in 1..Len(r) : d < Len(r) => Waits(r[d]))'
  BY <1>7 DEF Waits
<1>9. FramesOK'
  BY <1>3, <1>4, <1>6, <1>8 DEF FramesOK, Stack, Pushed
<1>10. r # <<>>
  BY <1>4, <1>5 DEF Pushed
<1> QED BY <1>2, <1>3, <1>9, <1>10

\* The top frame is taken away.
LEMMA ReturnFrames ==
    ASSUME FramesOK, frames # <<>>, Top.pc # "init",
           frames' = Front(frames), prog' = prog
    PROVE  /\ FramesOK' /\ frames' # <<>> /\ Waits(Top)'
           /\ Len(frames') = Len(frames) - 1
           /\ \A d \in 1..(Len(frames) - 1) : frames'[d] = frames[d]
<1>1. PICK S : frames \in Seq(S)
  BY DEF FramesOK, Stack
<1>2. PICK r : r = frames'
  OBVIOUS
<1>3. /\ Len(frames) \in Nat \ {0} /\ r \in Seq(S) /\ Len(r) = Len(frames) - 1
      /\ \A d \in 1..(Len(frames) - 1) : r[d] = frames[d]
  BY <1>1, <1>2, PopTop
<1>4. Len(r) \in Nat \ {0}
  BY <1>3, TopOK
<1>5. \A d \in 1..Len(r) : r[d] = frames[d] /\ d \in 1..Len(frames) /\ d < Len(frames)
  BY <1>3
<1>6. \A d \in 1..Len(r) : IsFrame(r[d]) /\ (r[d].pc = "init" <=> d = 1)
  BY <1>5 DEF FramesOK
<1>7. \A d \in 1..Len(r) : Waits(r[d])
  BY <1>5 DEF FramesOK
<1>8. (\A d \in 1..Len(r) : Waits(r[d]))'
  BY <1>7 DEF Waits
<1>9. FramesOK'
  BY <1>2, <1>3, <1>6, <1>8 DEF FramesOK, Stack
<1>10. r # <<>>
  BY <1>4
<1>11. Top' = r[Len(r)]
  BY <1>2, <1>3, <1>10, PopTop DEF Top
<1>12. Waits(r[Len(r)])
  BY <1>4, <1>7
<1> QED BY <1>2, <1>3, <1>9, <1>10, <1>11, <1>12 DEF Waits

\* A step of a running Eval that makes no other frame active.
LEMMA Keeps ==
    ASSUME Inv, out.st = "running", out' = out, FramesOK', frames' # <<>>, RetOK',
           cyclesLeft' = cyclesLeft, Active' \subseteq Active
    PROVE  Inv'
<1>1. PICK A : A = Active'
  OBVIOUS
<1>2. Cardinality(A) \in Nat /\ Cardinality(A) <= Cardinality(Active) /\ Cardinality(Active) \in Nat
  BY <1>1, ActiveFinite DEF Inv, FramesOK
<1>3. Cardinality(A) + cyclesLeft <= EvalMax /\ cyclesLeft \in Int
  BY <1>2, EvalMaxAssumption DEF Inv
<1>4. (Cardinality(Active) + cyclesLeft <= EvalMax)'
  BY <1>1, <1>3
<1>5. OutOK'
  BY DEF OutOK
<1> QED BY <1>3, <1>4, <1>5 DEF Inv

\* NoRet is a result without an error.
LEMMA NoRetOK == NoRet.err = NoErr /\ IsErr(NoErr) /\ DOMAIN NoRet = {"st", "val", "err"}
BY DEF NoRet, IsErr, NoErr

\* The evaluation goes on.
LEMMA GotoKeeps ==
    ASSUME Inv, out.st = "running", Top.pc # "scope", NEW f, Like(f), Goto(f),
           prog' = prog, out' = out, cyclesLeft' = cyclesLeft
    PROVE  Inv'
<1>1. FramesOK /\ frames # <<>>
  BY DEF Inv, OutOK
<1>2. FramesOK' /\ frames' # <<>> /\ Replaced(frames, f, frames')
  BY <1>1, GotoFrames DEF Goto
<1>3. RetOK'
  BY NoRetOK DEF RetOK, Goto
<1>4. Active' \subseteq Active
  BY <1>1, <1>2, TopOK DEF Active, Replaced
<1> QED BY <1>2, <1>3, <1>4, Keeps

\* A range goes on with the result in ret.
LEMMA DropKeeps ==
    ASSUME Inv, out.st = "running", Top.pc # "scope", NEW f, Like(f), f.pc = "result",
           frames' = Append(Front(frames), f), ret' = ret,
           prog' = prog, out' = out, cyclesLeft' = cyclesLeft
    PROVE  Inv'
<1>1. FramesOK /\ frames # <<>>
  BY DEF Inv, OutOK
<1>2. FramesOK' /\ frames' # <<>> /\ Replaced(frames, f, frames')
  BY <1>1, GotoFrames
<1>3. Top' = f
  <2>1. PICK r : r = frames'
    OBVIOUS
  <2>2. PICK S : r \in Seq(S)
    BY <1>2, <2>1 DEF Replaced
  <2> QED BY <1>2, <2>1, <2>2, PopTop DEF Top, Replaced
<1>4. RetOK'
  BY <1>2, <1>3 DEF RetOK, Inv, IsErr
<1>5. Active' \subseteq Active
  BY <1>1, <1>2, TopOK DEF Active, Replaced
<1> QED BY <1>2, <1>4, <1>5, Keeps

\* The evaluation waits for that of child k.
LEMMA SubKeeps ==
    ASSUME Inv, out.st = "running", Top.pc # "scope", NEW f, Like(f), Waits(f), NEW k, Sub(f, k),
           prog' = prog, out' = out, cyclesLeft' = cyclesLeft
    PROVE  Inv'
<1>1. FramesOK /\ frames # <<>>
  BY DEF Inv, OutOK
<1>2. PICK g : g = NewFrame(k, f.env)
  OBVIOUS
<1>3. IsFrame(g) /\ g.pc = "scope"
  BY <1>2 DEF IsFrame, NewFrame
<1>4. FramesOK' /\ frames' # <<>> /\ Pushed(frames, f, g, frames')
  BY <1>1, <1>2, <1>3, SubFrames DEF Sub
<1>5. RetOK'
  BY NoRetOK DEF RetOK, Sub
<1>6. Active' \subseteq Active
  BY <1>1, <1>3, <1>4, TopOK DEF Active, Pushed
<1> QED BY <1>4, <1>5, <1>6, Keeps

\* The evaluation returns.
LEMMA ReturnKeeps ==
    ASSUME Inv, out.st = "running", Top.pc # "init", NEW v, NEW e, IsErr(e), Return(v, e),
           prog' = prog, out' = out, cyclesLeft' = cyclesLeft
    PROVE  Inv'
<1>1. FramesOK /\ frames # <<>>
  BY DEF Inv, OutOK
<1>2. /\ FramesOK' /\ frames' # <<>> /\ Waits(Top)'
      /\ Len(frames') = Len(frames) - 1
      /\ \A d \in 1..(Len(frames) - 1) : frames'[d] = frames[d]
  BY <1>1, ReturnFrames DEF Return
<1>3. RetOK'
  BY <1>2 DEF RetOK, Return
<1>4. Active' \subseteq Active
  BY <1>1, <1>2, TopOK DEF Active
<1> QED BY <1>2, <1>3, <1>4, Keeps

-----------------------------------------------------------------------------
(***************************************************************************)
(* The steps that move.                                                    *)
(***************************************************************************)

\* Frame f, which calls, is in the scope of the top frame; during a range it is that frame.
Steady(f) ==
    /\ f.env = Top.env
    /\ f = Top \/ (f.pc \notin {"each", "args"} /\ Top.pc \in {"body", "parent"})

\* Frame f goes on in the scope of the top frame: when all arguments are evaluated, when
\* a range begins, or with its next element.
Onward(f) ==
    /\ f.env = Top.env
    /\ \/ f.pc = "body" /\ Top.pc = "args"
       \/ /\ f.pc = "next" /\ Top.pc = "body"
          /\ \E v : f.iter \in Iterators(v) /\ (v = ValueAt[Place] \/ (GotOk /\ v = ret.val))
       \/ f.pc = "next" /\ Top.pc = "result" /\ f.iter = Top.iter

\* A step of eval in one of these ways, after which a fatal error still is one.
GoesOn    == \E f : Like(f) /\ Goto(f)
Advances  == \E f : Like(f) /\ Onward(f) /\ Goto(f)
Calls     == \E f, k : Like(f) /\ Waits(f) /\ Steady(f) /\ Sub(f, k)
Returns   == \E v, e : IsErr(e) /\ Top.pc # "init" /\ Return(v, e)
LooksAt   == \E f : Like(f) /\ f.pc = "result" /\ frames' = Append(Front(frames), f) /\ ret' = ret

\* A step of an evaluation that has begun: it goes on, calls, returns, or looks at a result.
Move == /\ out.st = "running" /\ Top.pc # "scope"
        /\ GoesOn \/ Calls \/ Returns \/ LooksAt
        /\ Fatal(ret.err) => Fatal(ret'.err)

\* A move that stays in its scope, as those do that change nothing but the stack.
Turn == /\ out.st = "running" /\ Top.pc # "scope"
        /\ Advances \/ Calls \/ Returns
        /\ Fatal(ret.err) => Fatal(ret'.err)

\* Every turn is a move.
LEMMA TurnMoves == Turn => Move
BY DEF Turn, Move, Advances, GoesOn

\* A move keeps the invariant, whichever step makes it.
LEMMA MoveKeeps ==
    ASSUME Inv, Move, prog' = prog, out' = out, cyclesLeft' = cyclesLeft
    PROVE  Inv'
<1>1. out.st = "running" /\ Top.pc # "scope"
  BY DEF Move
<1>2. CASE GoesOn
  BY <1>1, <1>2, GotoKeeps DEF GoesOn
<1>3. CASE Calls
  BY <1>1, <1>3, SubKeeps DEF Calls
<1>4. CASE Returns
  BY <1>1, <1>4, ReturnKeeps DEF Returns
<1>5. CASE LooksAt
  BY <1>1, <1>5, DropKeeps DEF LooksAt
<1> QED BY <1>2, <1>3, <1>4, <1>5 DEF Move

\* What is known of a running Eval.
LEMMA Running ==
    ASSUME Inv, out.st = "running"
    PROVE  /\ IsFrame(Top) /\ IsErr(ret.err) /\ NoRet.err = NoErr
           /\ ret # NoRet => Waits(Top) \/ Top.pc = "result"
           /\ IsErr(NoErr) /\ IsErr(Fail) /\ IsErr(TooLong) /\ ~Fatal(NoErr)
BY TopOK DEF Inv, OutOK, RetOK, NoRet, IsErr, NoErr, Fail, TooLong, Fatal

\* Wrapping keeps an error what it is.
LEMMA WrapOK == ASSUME NEW e, IsErr(e) PROVE IsErr(Wrap(e)) /\ (Fatal(e) => Fatal(Wrap(e)))
<1>1. PICK w : w = Wrap(e)
  OBVIOUS
<1>2. w = [k |-> e.k, n |-> e.n, wrapped |-> TRUE]
  BY <1>1 DEF IsErr, Wrap
<1>3. w.k = e.k /\ w.n = e.n /\ w.wrapped = TRUE
  BY <1>2
<1>4. w = [k |-> w.k, n |-> w.n, wrapped |-> w.wrapped]
  BY <1>2, <1>3
<1> QED BY <1>1, <1>3, <1>4 DEF IsErr, Fatal

\* Breaks and continues are errors.
LEMMA SignalOK == ASSUME NEW n PROVE IsErr(Break(n)) /\ IsErr(Continue(n))
BY DEF IsErr, Break, Continue

\* It returns: with an error, or when there is none.
LEMMA ReturnMoves ==
    ASSUME Inv, out.st = "running", Top.pc \notin {"init", "scope"}, NEW v, NEW e, IsErr(e),
           Fatal(ret.err) => Fatal(e), Return(v, e)
    PROVE  Turn
<1>1. ret'.err = e
  BY DEF Return
<1> QED BY <1>1 DEF Turn, Returns

\* It changes its frame but not where it is.
LEMMA CallMoves ==
    ASSUME Inv, out.st = "running", Top.pc # "scope", ~Fatal(ret.err), Waits(Top),
           NEW f, IsFrame(f), f.pc = Top.pc, f.node = Top.node, f.env = Top.env,
           f.pc \notin {"body", "parent"} => f = Top, NEW k, Sub(f, k)
    PROVE  Turn
<1>1. Like(f) /\ Waits(f) /\ Steady(f)
  BY DEF Like, Waits, Steady
<1> QED BY <1>1 DEF Turn, Calls

\* It goes on as another frame of its own kind.
LEMMA GotoMoves ==
    ASSUME Inv, out.st = "running", Top.pc # "scope", ~Fatal(ret.err),
           NEW f, IsFrame(f), f.node = Top.node, f.pc = "init" <=> Top.pc = "init", Goto(f)
    PROVE  Move
BY DEF Move, GoesOn, Like

\* It goes on in its scope.
LEMMA AdvanceMoves ==
    ASSUME Inv, out.st = "running", Top.pc \notin {"init", "scope"}, ~Fatal(ret.err),
           NEW f, Like(f), Onward(f), Goto(f)
    PROVE  Turn
BY DEF Turn, Advances

\* Frame f is where frame t is.
Same(f, t) == IsFrame(f) /\ f.pc = t.pc /\ f.node = t.node /\ f.env = t.env

\* A frame in which one field, that is neither node, scope nor pc, is changed.
LEMMA SameOK ==
    ASSUME NEW t, IsFrame(t), NEW x
    PROVE  /\ Same([t EXCEPT !.i = x], t)
           /\ Same([t EXCEPT !.acc = x], t)
           /\ Same([t EXCEPT !.iter = x], t)
           /\ Same([t EXCEPT !.todo = x], t)
BY DEF Same, IsFrame

\* A frame changed twice.
LEMMA SameTrans == ASSUME NEW t, NEW f, NEW g, Same(g, f), Same(f, t) PROVE Same(g, t)
BY DEF Same

\* The frames with which a value waits for a child.
LEMMA StaysOK ==
    ASSUME NEW t, IsFrame(t), NEW i, NEW x, NEW y
    PROVE  /\ Same([t EXCEPT !.i = i], t)
           /\ Same([t EXCEPT !.i = i, !.acc = x], t)
           /\ Same([t EXCEPT !.i = i, !.iter = x], t)
           /\ Same([t EXCEPT !.i = i, !.todo = x, !.acc = y], t)
<1>1. PICK f : f = [t EXCEPT !.i = i]
  OBVIOUS
<1>2. Same(f, t) /\ IsFrame(f)
  BY <1>1, SameOK DEF Same
<1>3. [t EXCEPT !.i = i, !.acc = x] = [f EXCEPT !.acc = x]
  BY <1>1
<1>4. [t EXCEPT !.i = i, !.iter = x] = [f EXCEPT !.iter = x]
  BY <1>1
<1>5. PICK g : g = [f EXCEPT !.todo = x]
  OBVIOUS
<1>6. Same(g, f) /\ IsFrame(g)
  BY <1>2, <1>5, SameOK DEF Same
<1>7. [t EXCEPT !.i = i, !.todo = x, !.acc = y] = [g EXCEPT !.acc = y]
  BY <1>1, <1>5
<1>8. Same([f EXCEPT !.acc = x], f) /\ Same([f EXCEPT !.iter = x], f)
  BY <1>2, SameOK
<1>9. Same([g EXCEPT !.acc = y], g)
  BY <1>6, SameOK
<1> QED BY <1>1, <1>2, <1>3, <1>4, <1>6, <1>7, <1>8, <1>9, SameTrans

\* A value waits for one of its children.
LEMMA BodyCalls ==
    ASSUME Inv, out.st = "running", Top.pc = "body", Waits(Top), ~Fatal(ret.err),
           NEW f, Same(f, Top), NEW k, Sub(f, k)
    PROVE  Turn
BY CallMoves DEF Same

\* Calling eval, arguments and dropping.
LEMMA SimpleMoves ==
    ASSUME Inv
    PROVE  /\ InitCall => Turn
           /\ DropFails => Turn
           /\ ArgCall => Turn
           /\ ArgFails => Turn
           /\ ScopeValue => Turn
<1> USE Running DEF At, Body
<1>1. InitCall => Turn
  BY CallMoves DEF InitCall, Start, Waits
<1>2. DropFails => Turn
  BY ReturnMoves DEF DropFails, Waits
<1>3. ArgCall => Turn
  <2> SUFFICES ASSUME ArgCall PROVE Turn
    OBVIOUS
  <2>1. out.st = "running" /\ Top.pc = "args" /\ ~Fatal(ret.err) /\ Waits(Top)
    BY DEF ArgCall, Waits
  <2>2. CASE Top.i > 0
    BY <2>1, <2>2, CallMoves DEF ArgCall
  <2>3. CASE ~(Top.i > 0)
    <3>1. PICK f : f = [Top EXCEPT !.pc = "body"]
      OBVIOUS
    <3>2. Like(f) /\ Onward(f)
      BY <2>1, <3>1 DEF Like, Onward, IsFrame
    <3> QED BY <2>1, <2>3, <3>1, <3>2, AdvanceMoves DEF ArgCall
  <2> QED BY <2>2, <2>3
<1>4. ArgFails => Turn
  BY ReturnMoves, WrapOK DEF ArgFails, Waits
<1>5. ScopeValue => Turn
  BY ReturnMoves DEF ScopeValue, Waits, Composite, Node
<1> QED BY <1>1, <1>2, <1>3, <1>4, <1>5

\* Values without children, and parent.
LEMMA ValueMoves ==
    ASSUME Inv
    PROVE  /\ ArgValue => Turn
           /\ Default => Turn
           /\ Const => Turn
           /\ AtRoot => Turn
           /\ ParentValue => Turn
<1> USE Running DEF At, Body, Composite, Node, Waits
<1>1. ArgValue => Turn
  BY ReturnMoves DEF ArgValue
<1>2. Default => Turn
  BY ReturnMoves DEF Default
<1>3. Const => Turn
  BY ReturnMoves DEF Const
<1>4. AtRoot => Turn
  BY ReturnMoves DEF AtRoot
<1>5. ParentValue => Turn
  BY ReturnMoves, CallMoves DEF ParentValue, Start, IsFrame
<1> QED BY <1>1, <1>2, <1>3, <1>4, <1>5

\* What most kinds do with errors and error values.
LEMMA CommonMoves ==
    ASSUME Inv
    PROVE  /\ PassError => Turn
           /\ PassErrorValue => Turn
           /\ NotBool => Turn
<1> USE Running DEF At, Body
<1>1. PassError => Turn
  BY ReturnMoves, WrapOK DEF PassError
<1>2. PassErrorValue => Turn
  BY ReturnMoves DEF PassErrorValue, Is, GotOk
<1>3. NotBool => Turn
  BY ReturnMoves DEF NotBool, GotOk
<1> QED BY <1>1, <1>2, <1>3

\* Lists.
LEMMA ListMoves ==
    ASSUME Inv, ListValue
    PROVE  Turn
<1> USE Running DEF ListValue, At, Body, Start, Usable, GotOk
<1>1. Top.pc = "body" /\ Waits(Top) /\ ~Fatal(ret.err)
  BY DEF Waits, Composite, Node
<1>2. ASSUME NEW elems, NextElement(elems) PROVE Turn
  BY <1>1, <1>2, ReturnMoves, BodyCalls, StaysOK DEF NextElement
<1> QED BY <1>1, <1>2, ReturnMoves

\* Maps.
LEMMA MapMoves ==
    ASSUME Inv, MapValue
    PROVE  Turn
<1> USE Running DEF At, Body, Start, Usable, GotOk
<1>1. Top.pc = "body" /\ Waits(Top) /\ ~Fatal(ret.err) /\ out.st = "running"
  BY DEF MapValue, Waits, Composite, Node
<1>2. ASSUME NEW pairs, NextEntry(pairs) PROVE Turn
  BY <1>1, <1>2, ReturnMoves, BodyCalls, StaysOK DEF NextEntry
<1>3. ASSUME MapKey PROVE Turn
  BY <1>1, <1>3, ReturnMoves, BodyCalls, StaysOK DEF MapKey
<1> QED BY <1>1, <1>2, <1>3, ReturnMoves DEF MapValue

\* Messages.
LEMMA MessageMoves ==
    ASSUME Inv, Message
    PROVE  Turn
<1> USE Running DEF At, Body, Start, Usable, GotOk
<1>1. Top.pc = "body" /\ Waits(Top) /\ ~Fatal(ret.err) /\ out.st = "running"
  BY DEF Message, Waits, Composite, Node
<1>2. ASSUME NEW todo, NEW set, NextField(todo, set) PROVE Turn
  BY <1>1, <1>2, ReturnMoves, BodyCalls, StaysOK DEF NextField
<1> QED BY <1>1, <1>2, ReturnMoves DEF Message

\* Control: only seq and while look at an error before they pass it on.
LEMMA ControlMoves ==
    ASSUME Inv
    PROVE  /\ Not => Turn
           /\ Connective => Turn
           /\ Sequence => Turn
           /\ Switch => Turn
           /\ WhileCondition => Turn
           /\ WhileBody => Turn
<1> USE Running DEF At, Body, Start, GotOk, GotErr, Is
<1>1. ASSUME Not PROVE Turn
  <2>1. Top.pc = "body" /\ Waits(Top) /\ ~Fatal(ret.err) /\ out.st = "running"
    BY <1>1 DEF Not, Waits, Composite, Node
  <2> QED BY <1>1, <2>1, ReturnMoves, BodyCalls, StaysOK DEF Not
<1>2. ASSUME Connective PROVE Turn
  <2>1. Top.pc = "body" /\ Waits(Top) /\ ~Fatal(ret.err) /\ out.st = "running"
    BY <1>2 DEF Connective, Waits, Composite, Node
  <2> QED BY <1>2, <2>1, ReturnMoves, BodyCalls, StaysOK DEF Connective
<1>3. ASSUME Sequence PROVE Turn
  <2>1. Top.pc = "body" /\ Waits(Top) /\ out.st = "running"
    BY <1>3 DEF Sequence, Waits, Composite, Node
  <2>2. CASE GotErr
    <3>1. ret.err.k \in {"break", "continue"} => ~Fatal(ret.err)
      BY DEF Fatal
    <3> QED BY <1>3, <2>1, <2>2, <3>1, ReturnMoves, WrapOK DEF Sequence
  <2>3. CASE ~GotErr
    <3>1. ~Fatal(ret.err)
      BY <2>1, <2>3
    <3> QED BY <1>3, <2>1, <2>3, <3>1, ReturnMoves, BodyCalls, StaysOK DEF Sequence
  <2> QED BY <2>2, <2>3
<1>4. ASSUME Switch PROVE Turn
  <2>1. Top.pc = "body" /\ Waits(Top) /\ ~Fatal(ret.err) /\ out.st = "running"
    BY <1>4 DEF Switch, Waits, Composite, Node
  <2>2. ASSUME NEW i, SwitchCase(i) PROVE Turn
    BY <2>1, <2>2, ReturnMoves, BodyCalls, StaysOK DEF SwitchCase
  <2> QED BY <1>4, <2>1, <2>2, ReturnMoves, BodyCalls, StaysOK DEF Switch
<1>5. ASSUME NEW v, NextRound(v), Top.pc = "body", Waits(Top), ~Fatal(ret.err), out.st = "running"
      PROVE  Turn
  BY <1>5, BodyCalls, StaysOK DEF NextRound
<1>6. ASSUME WhileCondition PROVE Turn
  <2>1. Top.pc = "body" /\ Waits(Top) /\ ~Fatal(ret.err) /\ out.st = "running"
    BY <1>6 DEF WhileCondition, Waits, Composite, Node
  <2> QED BY <1>5, <1>6, <2>1, ReturnMoves, BodyCalls, StaysOK DEF WhileCondition
<1>7. ASSUME WhileBody PROVE Turn
  <2>1. Top.pc = "body" /\ Waits(Top) /\ out.st = "running"
    BY <1>7 DEF WhileBody, Waits, Composite, Node
  <2>2. CASE GotOk /\ NextRound(ret.val)
    BY <1>5, <2>1, <2>2
  <2>3. CASE ret.err.k = "break" /\ WhileBreak
    <3>1. ~Fatal(ret.err)
      BY <2>3 DEF Fatal
    <3> QED BY <2>1, <2>3, <3>1, ReturnMoves, SignalOK DEF WhileBreak
  <2>4. CASE ret.err.k = "continue" /\ WhileContinue
    <3>1. ~Fatal(ret.err)
      BY <2>4 DEF Fatal
    <3> QED BY <1>5, <2>1, <2>4, <3>1, ReturnMoves, SignalOK DEF WhileContinue
  <2>5. CASE ret.err.k \in {"fail", "toolong"} /\ Return(ret.val, Wrap(ret.err))
    BY <2>1, <2>5, ReturnMoves, WrapOK
  <2> QED BY <1>7, <2>2, <2>3, <2>4, <2>5 DEF WhileBody
<1> QED BY <1>1, <1>2, <1>3, <1>4, <1>6, <1>7

\* The environment.
LEMMA EnvMoves ==
    ASSUME Inv
    PROVE  /\ KeyNext => Turn
           /\ BadKey => Turn
           /\ Load => Turn
<1> USE Running DEF At, Body, Start, GotOk
<1>1. ASSUME KeyNext PROVE Turn
  <2>1. Top.pc = "body" /\ Waits(Top) /\ ~Fatal(ret.err) /\ out.st = "running"
    BY <1>1 DEF KeyNext, Waits, Composite, Node
  <2> QED BY <1>1, <2>1, ReturnMoves, BodyCalls, StaysOK DEF KeyNext
<1>2. ASSUME BadKey PROVE Turn
  BY <1>2, ReturnMoves DEF BadKey
<1>3. ASSUME Load PROVE Turn
  <2>1. CASE At("loaded") /\ GotOk /\ Return(Top.acc, NoErr)
    BY <2>1, ReturnMoves
  <2>2. CASE Body({"load"}) /\ Key
    <3>1. Top.pc = "body" /\ ~Fatal(ret.err) /\ out.st = "running"
      BY <2>2 DEF Key, Usable
    <3>2. ASSUME NEW v, NEW k, Sub([Top EXCEPT !.pc = "loaded", !.acc = v], k)
          PROVE  Turn
      <4>1. PICK g : g = [Top EXCEPT !.pc = "loaded"]
        OBVIOUS
      <4>2. IsFrame(g) /\ g.pc = "loaded" /\ g.node = Top.node /\ g.env = Top.env
        BY <3>1, <4>1 DEF IsFrame
      <4>3. PICK f : f = [g EXCEPT !.acc = v]
        OBVIOUS
      <4>4. IsFrame(f) /\ f.pc = "loaded" /\ f.node = Top.node /\ f.env = Top.env
        BY <4>2, <4>3 DEF IsFrame
      <4>5. [Top EXCEPT !.pc = "loaded", !.acc = v] = f
        BY <4>1, <4>3
      <4>6. Sub(f, k)
        BY <3>2, <4>5
      <4>7. Like(f) /\ Waits(f) /\ Steady(f)
        BY <3>1, <4>4 DEF Like, Waits, Steady
      <4>8. ~Fatal(ret.err) /\ out.st = "running" /\ Top.pc # "scope"
        BY <3>1
      <4> HIDE DEF At, Body, Start, GotOk
      <4> QED BY <4>6, <4>7, <4>8 DEF Turn, Calls
    <3> QED BY <1>3, <2>2, <3>1, <3>2, ReturnMoves DEF Load
  <2> QED BY <1>3, <2>1, <2>2 DEF Load
<1> QED BY <1>1, <1>2, <1>3

\* Frame f, which is not that of Eval, is at p, with the value of frame t.
Goes(f, t, p) == IsFrame(f) /\ f.pc = p /\ f.node = t.node /\ p # "init"

\* A frame that goes on at another point, with other fields changed.
LEMMA GoesOK ==
    ASSUME NEW t, IsFrame(t), NEW p, p # "init", NEW x, NEW y
    PROVE  /\ Goes([t EXCEPT !.pc = p], t, p)
           /\ Goes([t EXCEPT !.pc = p, !.iter = x], t, p)
           /\ Goes([t EXCEPT !.pc = p, !.i = x], t, p)
           /\ Goes([t EXCEPT !.pc = p, !.env = x], t, p)
           /\ Goes([t EXCEPT !.pc = p, !.iter = x, !.acc = y], t, p)
<1> USE DEF Goes
<1>1. PICK f : f = [t EXCEPT !.pc = p]
  OBVIOUS
<1>2. Goes(f, t, p)
  BY <1>1 DEF IsFrame
<1>3. /\ [t EXCEPT !.pc = p, !.iter = x] = [f EXCEPT !.iter = x]
      /\ [t EXCEPT !.pc = p, !.i = x] = [f EXCEPT !.i = x]
      /\ [t EXCEPT !.pc = p, !.env = x] = [f EXCEPT !.env = x]
  BY <1>1
<1>4. PICK g : g = [f EXCEPT !.iter = x]
  OBVIOUS
<1>5. Goes(g, t, p)
  BY <1>2, <1>4 DEF IsFrame
<1>6. [t EXCEPT !.pc = p, !.iter = x, !.acc = y] = [g EXCEPT !.acc = y]
  BY <1>1, <1>4
<1>7. Goes([g EXCEPT !.acc = y], t, p)
  BY <1>5 DEF IsFrame
<1>8. Goes([f EXCEPT !.i = x], t, p) /\ Goes([f EXCEPT !.env = x], t, p)
  BY <1>2 DEF IsFrame
<1> HIDE DEF Goes
<1> QED BY <1>1, <1>2, <1>3, <1>4, <1>5, <1>6, <1>7, <1>8

\* The evaluation goes on at p.
LEMMA GoesMoves ==
    ASSUME Inv, out.st = "running", Top.pc \notin {"init", "scope"}, ~Fatal(ret.err),
           NEW p, NEW f, Goes(f, Top, p), Goto(f)
    PROVE  Move
BY GotoMoves DEF Goes

\* A range goes on with iterator x.
LEMMA NextOK ==
    ASSUME NEW t, IsFrame(t), NEW x
    PROVE  LET f == [t EXCEPT !.pc = "next", !.iter = x]
           IN  Goes(f, t, "next") /\ f.env = t.env /\ f.iter = x
<1>1. PICK f : f = [t EXCEPT !.pc = "next"]
  OBVIOUS
<1>2. IsFrame(f) /\ f.pc = "next" /\ f.env = t.env /\ f.node = t.node
  BY <1>1 DEF IsFrame
<1>3. PICK g : g = [f EXCEPT !.iter = x]
  OBVIOUS
<1>4. IsFrame(g) /\ g.pc = "next" /\ g.env = t.env /\ g.node = t.node /\ g.iter = x
  BY <1>2, <1>3 DEF IsFrame
<1>5. [t EXCEPT !.pc = "next", !.iter = x] = g
  BY <1>1, <1>3
<1> QED BY <1>4, <1>5 DEF Goes

\* Ranges.
LEMMA RangeMoves ==
    ASSUME Inv
    PROVE  /\ Range_ => Turn
           /\ RangeEnd => Turn
           /\ RangeEach => Turn
           /\ RangeDropFails => Turn
           /\ RangeResult => Turn
<1> USE Running DEF At, Body, Start, GotOk, GotErr, Is
<1>1. ASSUME Range_ PROVE Turn
  <2>1. Top.pc = "body" /\ Waits(Top) /\ ~Fatal(ret.err) /\ out.st = "running"
    BY <1>1 DEF Range_, Waits, Composite, Node
  <2>2. ASSUME NEW v, RangeOver(v), v = ValueAt[Place] \/ (GotOk /\ v = ret.val)
        PROVE  Turn
    <3>1. CASE \E it \in Iterators(v) : Goto([Top EXCEPT !.pc = "next", !.iter = it])
      <4>1. PICK it \in Iterators(v) : Goto([Top EXCEPT !.pc = "next", !.iter = it])
        BY <3>1
      <4>2. PICK f : f = [Top EXCEPT !.pc = "next", !.iter = it]
        OBVIOUS
      <4>3. Goes(f, Top, "next") /\ f.env = Top.env /\ f.iter = it
        BY <2>1, <4>2, NextOK
      <4>4. Like(f) /\ Onward(f)
        BY <2>1, <2>2, <4>1, <4>3 DEF Like, Onward, Goes
      <4> QED BY <2>1, <4>1, <4>2, <4>4, AdvanceMoves
    <3> QED BY <2>1, <2>2, <3>1, ReturnMoves DEF RangeOver
  <2> QED BY <1>1, <2>1, <2>2, ReturnMoves, BodyCalls, StaysOK DEF Range_
<1>2. RangeEnd => Turn
  BY ReturnMoves DEF RangeEnd, Waits
<1>3. RangeEach => Turn
  BY CallMoves DEF RangeEach, Waits
<1>4. RangeDropFails => Turn
  BY ReturnMoves DEF RangeDropFails, Fatal, Fail
<1>5. ASSUME RangeResult PROVE Turn
  <2>1. CASE Is(Null) /\ Goto([Top EXCEPT !.pc = "next"])
    <3>1. PICK f : f = [Top EXCEPT !.pc = "next"]
      OBVIOUS
    <3>2. Like(f) /\ Onward(f)
      BY <1>5, <2>1, <3>1 DEF RangeResult, Like, Onward, IsFrame
    <3> QED BY <1>5, <2>1, <3>1, <3>2, AdvanceMoves DEF RangeResult
  <2> QED BY <1>5, <2>1, ReturnMoves, WrapOK DEF RangeResult
<1> QED BY <1>1, <1>2, <1>3, <1>4, <1>5

\* Steps that change scopes and arguments.
LEMMA ScopeMoves ==
    ASSUME Inv
    PROVE  /\ InitPush => Move
           /\ Drop => Move
           /\ ArgPush => Move
           /\ Parent => Move
           /\ RangeNext => Move
           /\ RangeSecond => Move
           /\ RangeDrop => Move
<1> USE Running DEF At, Body, Start, GotOk
<1>1. ASSUME InitPush PROVE Move
  <2>1. out.st = "running" /\ Top.pc # "scope" /\ ~Fatal(ret.err)
    BY <1>1 DEF InitPush, Waits
  <2>2. PICK f : f = [Top EXCEPT !.i = Top.i - 1]
    OBVIOUS
  <2>3. Same(f, Top) /\ Goto(f)
    BY <1>1, <2>1, <2>2, StaysOK DEF InitPush
  <2> QED BY <2>1, <2>3, GotoMoves DEF Same
<1>2. Drop => Move
  BY GoesMoves, GoesOK DEF Drop, Waits
<1>3. ArgPush => Move
  BY GotoMoves, StaysOK DEF ArgPush, Same
<1>4. Parent => Move
  BY GoesMoves, GoesOK DEF Parent, Waits, Composite, Node
<1>5. RangeNext => Move
  BY GoesMoves, GoesOK DEF RangeNext, Waits
<1>6. RangeSecond => Move
  BY GoesMoves, GoesOK DEF RangeSecond, Waits
<1>7. ASSUME RangeDrop PROVE Move
  <2>1. out.st = "running" /\ Top.pc = "each" /\ ret' = ret
    BY <1>7 DEF RangeDrop
  <2>2. PICK f : f = [Top EXCEPT !.pc = "result"]
    OBVIOUS
  <2>3. Goes(f, Top, "result") /\ frames' = Append(Front(frames), f)
    BY <1>7, <2>1, <2>2, GoesOK DEF RangeDrop
  <2>4. LooksAt
    BY <2>1, <2>3 DEF LooksAt, Like, Goes
  <2> QED BY <2>1, <2>4 DEF Move
<1> QED BY <1>1, <1>2, <1>3, <1>4, <1>5, <1>6, <1>7

-----------------------------------------------------------------------------
(***************************************************************************)
(* The other steps, and the theorems.                                      *)
(***************************************************************************)

\* No cycles are left.
LEMMA RefuseKeeps ==
    ASSUME Inv, Refuse, prog' = prog, out' = out, cyclesLeft' = cyclesLeft
    PROVE  Inv' /\ (Fatal(ret.err) => Fatal(ret'.err))
<1>1. /\ out.st = "running" /\ Top.pc = "scope" /\ Return(Nil, TooLong)
      /\ FramesOK /\ frames # <<>> /\ IsErr(TooLong) /\ ret'.err = TooLong
  BY Running DEF Refuse, At, Inv, OutOK, Return
<1>2. /\ FramesOK' /\ frames' # <<>> /\ Waits(Top)'
      /\ Len(frames') = Len(frames) - 1
      /\ \A d \in 1..(Len(frames) - 1) : frames'[d] = frames[d]
  BY <1>1, ReturnFrames DEF Return
<1>3. RetOK'
  BY <1>1, <1>2 DEF RetOK, Return
<1>4. Active' \subseteq Active
  BY <1>1, <1>2, TopOK DEF Active
<1>5. Inv'
  BY <1>1, <1>2, <1>3, <1>4, Keeps
<1> QED BY <1>1, <1>5 DEF Fatal, TooLong

\* A cycle is spent for the frame that becomes active, if any.
LEMMA EnterKeeps ==
    ASSUME Inv, Enter
    PROVE  Inv' /\ (Fatal(ret.err) => Fatal(ret'.err))
<1>1. /\ out.st = "running" /\ Top.pc = "scope" /\ FramesOK /\ frames # <<>>
      /\ prog' = prog /\ out' = out /\ cyclesLeft' = cyclesLeft - 1 /\ cyclesLeft > 0
      /\ IsErr(Fail) /\ ~Fatal(ret.err) /\ IsFrame(Top)
  BY Running DEF Enter, At, Inv, OutOK, Waits
<1>2. Return(Nil, Fail) \/ \E f : Goes(f, Top, "drop") /\ Goto(f)
  BY <1>1, GoesOK DEF Enter, ShiftScope
<1>3. FramesOK' /\ frames' # <<>> /\ RetOK' /\ Active' \subseteq Active \cup {Len(frames)}
  <2>1. CASE Return(Nil, Fail)
    <3>1. /\ FramesOK' /\ frames' # <<>> /\ Waits(Top)'
          /\ Len(frames') = Len(frames) - 1
          /\ \A d \in 1..(Len(frames) - 1) : frames'[d] = frames[d]
      BY <1>1, <2>1, ReturnFrames DEF Return
    <3>2. RetOK'
      BY <1>1, <2>1, <3>1 DEF RetOK, Return
    <3> QED BY <1>1, <3>1, <3>2, TopOK DEF Active
  <2>2. ASSUME NEW f, Goes(f, Top, "drop"), Goto(f)
        PROVE  FramesOK' /\ frames' # <<>> /\ RetOK' /\ Active' \subseteq Active \cup {Len(frames)}
    <3>1. Like(f)
      BY <1>1, <2>2 DEF Like, Goes
    <3>2. FramesOK' /\ frames' # <<>> /\ Replaced(frames, f, frames')
      BY <1>1, <2>2, <3>1, GotoFrames DEF Goto
    <3>3. RetOK'
      BY <2>2, NoRetOK DEF RetOK, Goto
    <3> QED BY <1>1, <3>2, <3>3, TopOK DEF Active, Replaced
  <2> QED BY <1>2, <2>1, <2>2
<1>4. PICK A, B : A = Active' /\ B = Active \cup {Len(frames)}
  OBVIOUS
<1>5. IsFiniteSet(Active) /\ Cardinality(Active) \in Nat
  BY <1>1, ActiveFinite DEF FramesOK
<1>6. IsFiniteSet(B) /\ Cardinality(B) \in Nat /\ Cardinality(B) <= Cardinality(Active) + 1
  <2>1. PICK C, x : C = Active /\ x = Len(frames)
    OBVIOUS
  <2>2. IsFiniteSet(C \cup {x}) /\ Cardinality(C \cup {x}) = IF x \in C THEN Cardinality(C) ELSE Cardinality(C) + 1
    BY <1>5, <2>1, FS_AddElement
  <2> QED BY <1>4, <1>5, <2>1, <2>2
<1>7. Cardinality(A) \in Nat /\ Cardinality(A) <= Cardinality(B)
  BY <1>3, <1>4, <1>6, FS_Subset, FS_CardinalityType
<1>8. (Cardinality(Active) + cyclesLeft <= EvalMax)' /\ cyclesLeft' \in Int
  BY <1>1, <1>4, <1>5, <1>6, <1>7, EvalMaxAssumption DEF Inv
<1>9. OutOK'
  BY <1>1, <1>3 DEF OutOK
<1> QED BY <1>1, <1>3, <1>8, <1>9 DEF Inv

\* No evaluation is under way, nor has been.
LEMMA InitOK ==
    ASSUME Init
    PROVE  Inv
<1>1. /\ frames = <<>> /\ ret = NoRet /\ cyclesLeft = EvalMax /\ out.st = "idle"
      /\ Len(frames) = 0 /\ frames \in Seq({})
  BY DEF Init
<1>2. Active = {} /\ Cardinality(Active) = 0
  BY <1>1, FS_EmptySet DEF Active
<1>3. FramesOK
  BY <1>1 DEF FramesOK, Stack
<1>4. RetOK /\ OutOK
  BY <1>1, NoRetOK DEF RetOK, OutOK
<1> QED BY <1>1, <1>2, <1>3, <1>4, EvalMaxAssumption DEF Inv

\* Eval ends: nothing is left of its evaluation.
LEMMA EndKeeps ==
    ASSUME Inv, End
    PROVE  Inv' /\ (Fatal(ret.err) => out'.st = "err")
<1>1. /\ frames' = <<>> /\ ret' = NoRet /\ cyclesLeft' = cyclesLeft
      /\ Len(frames') = 0 /\ frames' \in Seq({})
      /\ out'.st = "err" \/ (out'.st = "ok" /\ ret.err = NoErr)
  <2>1. /\ frames' = <<>> /\ ret' = NoRet /\ cyclesLeft' = cyclesLeft
        /\ Len(frames') = 0 /\ frames' \in Seq({})
    BY DEF End
  <2>2. DOMAIN ret = {"st", "val", "err"}
    BY DEF Inv, RetOK
  <2>3. \/ out'.st = "err"
        \/ out'.st = "ok" /\ ret.err = NoErr
    BY <2>2 DEF End, NoRet, Usable, GotOk
  <2> QED BY <2>1, <2>3
<1>2. Active' = {} /\ Cardinality(Active') = 0
  BY <1>1, FS_EmptySet DEF Active
<1>3. FramesOK'
  BY <1>1 DEF FramesOK, Stack
<1>4. RetOK' /\ OutOK'
  BY <1>1, NoRetOK DEF RetOK, OutOK
<1>5. Cardinality(Active) \in Nat
  BY ActiveFinite DEF Inv, FramesOK
<1>6. Inv'
  BY <1>1, <1>2, <1>3, <1>4, <1>5, EvalMaxAssumption DEF Inv
<1>7. Fatal(ret.err) => out'.st = "err"
  BY <1>1 DEF Fatal, NoErr
<1> QED BY <1>6, <1>7

\* Eval begins: with a frame of its own, and all cycles.
LEMMA BeginKeeps ==
    ASSUME Inv, Begin
    PROVE  Inv' /\ ~Fatal(ret.err)
<1>1. PICK f : f = [NewFrame(0, 1) EXCEPT !.pc = "init", !.i = Len(prog.args)]
  OBVIOUS
<1>2. IsFrame(f) /\ f.pc = "init"
  BY <1>1 DEF IsFrame, NewFrame
<1>3. /\ ret = NoRet /\ ret' = NoRet /\ frames' = <<f>> /\ cyclesLeft' = EvalMax
      /\ out'.st = "running" /\ prog' = prog
  BY <1>1 DEF Begin, Inv, OutOK, NoRet
<1>4. frames' \in Seq({f}) /\ Len(frames') = 1 /\ frames'[1] = f /\ frames' # <<>>
  BY <1>3
<1>5. FramesOK'
  BY <1>2, <1>4 DEF FramesOK, Stack
<1>6. Active' = {} /\ Cardinality(Active') = 0
  BY <1>4, FS_EmptySet DEF Active
<1>7. RetOK' /\ OutOK'
  BY <1>3, <1>4, NoRetOK DEF RetOK, OutOK
<1> QED BY <1>3, <1>5, <1>6, <1>7, NoRetOK, EvalMaxAssumption DEF Inv, Fatal, NoErr

\* A panic leaves everything as it is.
LEMMA PanicKeeps ==
    ASSUME Inv, Panic
    PROVE  Inv' /\ ret' = ret
<1>1. /\ frames' = frames /\ ret' = ret /\ prog' = prog /\ cyclesLeft' = cyclesLeft
      /\ out'.st = "panic"
  BY DEF Panic, NoRet
<1>2. FramesOK' /\ Active' = Active
  BY <1>1 DEF Inv, FramesOK, Stack, Waits, Active
<1>3. RetOK' /\ OutOK'
  BY <1>1 DEF Inv, RetOK, OutOK, Waits, Top
<1> QED BY <1>1, <1>2, <1>3 DEF Inv

\* Steps that return and change something else too.
LEMMA EffectMoves ==
    ASSUME Inv
    PROVE  /\ Signal => Turn /\ prog' = prog /\ out' = out /\ cyclesLeft' = cyclesLeft
           /\ Store => Turn /\ prog' = prog /\ out' = out /\ cyclesLeft' = cyclesLeft
           /\ Program => Turn /\ prog' = prog /\ out' = out /\ cyclesLeft' = cyclesLeft
<1> USE Running DEF At, Body, Composite, Node, Waits
<1>1. Signal => Turn
  BY ReturnMoves, SignalOK DEF Signal
<1>2. Store => Turn
  BY ReturnMoves DEF Store, Key, Usable, GotOk
<1>3. Program => Turn
  BY ReturnMoves DEF Program
<1> QED BY <1>1, <1>2, <1>3 DEF Signal, Store, Program

\* All steps that only change the stack.
LEMMA StackMoves ==
    ASSUME Inv, StackStep
    PROVE  Turn \/ Refuse
BY SimpleMoves, ValueMoves, CommonMoves, ListMoves, MapMoves, MessageMoves, ControlMoves,
   EnvMoves, RangeMoves DEF StackStep

\* Inv is inductive, and a fatal error stays one or ends Eval with an error.
LEMMA NextKeeps ==
    ASSUME Inv, [Next]_vars
    PROVE  Inv' /\ (Fatal(ret.err) => Fatal(ret'.err) \/ out'.st = "err")
<1>1. ASSUME Move, prog' = prog, out' = out, cyclesLeft' = cyclesLeft
      PROVE  Inv' /\ (Fatal(ret.err) => Fatal(ret'.err))
  BY <1>1, MoveKeeps DEF Move
<1>2. CASE StackStep
  BY <1>1, <1>2, StackMoves, TurnMoves, RefuseKeeps DEF StackStep, machine
<1>3. CASE ScopeStep
  BY <1>1, <1>3, ScopeMoves DEF ScopeStep, machine
<1>4. CASE Enter
  BY <1>4, EnterKeeps
<1>5. CASE Signal \/ Store \/ Program
  BY <1>1, <1>5, EffectMoves, TurnMoves
<1>6. CASE Panic
  BY <1>6, PanicKeeps
<1>7. CASE End
  BY <1>7, EndKeeps
<1>8. CASE Begin
  BY <1>8, BeginKeeps
<1>9. CASE UNCHANGED vars
  <2>1. frames' = frames /\ ret' = ret /\ prog' = prog /\ cyclesLeft' = cyclesLeft /\ out' = out
    BY <1>9 DEF vars, machine
  <2>2. FramesOK' /\ Active' = Active /\ RetOK' /\ OutOK'
    BY <2>1 DEF Inv, FramesOK, Stack, Waits, Active, RetOK, OutOK, Top
  <2> QED BY <2>1, <2>2 DEF Inv
<1> QED BY <1>2, <1>3, <1>4, <1>5, <1>6, <1>7, <1>8, <1>9 DEF Next, Step, Over

\* The invariant holds of every program: only the bottom frame is Eval, every frame
\* below the top is where an evaluation can wait for another one, a result is only
\* there where one is taken, and active frames have spent their cycles.
THEOREM Invariance == Spec => []Inv
<1>1. Init => Inv
  BY InitOK
<1>2. Inv /\ [Next]_vars => Inv'
  BY NextKeeps
<1> QED BY <1>1, <1>2, PTL DEF Spec

\* Cycles bound the nesting of evaluations (Eval and eval of eval.go), for every
\* program and every EvalMax.
THEOREM NestingBounded == Spec => []DepthWithinCycles
<1>1. Inv => DepthWithinCycles
  BY DEF Inv, Active, DepthWithinCycles
<1> QED BY <1>1, Invariance, PTL

\* No step of any evaluation turns an error that is no break or continue into a
\* value, in every program.
THEOREM ErrorsFatal == Spec => ErrorsAreFatal
<1>1. Inv /\ [Next]_vars =>
        [ret.err.k \in {"fail", "toolong"} =>
            ret'.err.k \in {"fail", "toolong"} \/ out'.st = "err"]_vars
  BY NextKeeps DEF Fatal
<1> QED BY <1>1, Invariance, PTL DEF Spec, ErrorsAreFatal

-----------------------------------------------------------------------------
(***************************************************************************)
(* A break or continue on its way ends at the while value it is meant for. *)
(* The proof follows its count from the evaluation that issues it: it is   *)
(* the number of while bodies from here to the one meant, or more than all *)
(* of them when there is none; a continue that has passed the one meant is *)
(* too far from wrapping around to be taken by another one.                *)
(***************************************************************************)

(***************************************************************************)
(* Counting members from the largest down.                                 *)
(***************************************************************************)

\* The members of W from d on.
Upper(W, d) == {e \in W : e >= d}

\* Finite sets of depths: their parts have their cardinalities.
LEMMA Parts ==
    ASSUME NEW L \in Nat, NEW W \in SUBSET (1..L), NEW V \in SUBSET W
    PROVE  /\ IsFiniteSet(V) /\ Cardinality(V) \in Nat /\ Cardinality(V) <= Cardinality(W)
           /\ IsFiniteSet(W) /\ Cardinality(W) \in Nat
<1>1. IsFiniteSet(1..L)
  BY FS_Interval
<1>2. IsFiniteSet(W)
  BY <1>1, FS_Subset
<1> QED BY <1>2, FS_Subset, FS_CardinalityType

\* Members are whole numbers from 1 to L.
LEMMA Members ==
    ASSUME NEW L \in Nat, NEW W \in SUBSET (1..L)
    PROVE  \A e \in W : e \in Int /\ e >= 1 /\ e <= L
OBVIOUS

\* Going down by one, the part above grows by one where there is a member.
LEMMA UpperGrows ==
    ASSUME NEW L \in Nat, NEW W \in SUBSET (1..L), NEW d \in Int
    PROVE  Cardinality(Upper(W, d)) = IF d \in W THEN Cardinality(Upper(W, d + 1)) + 1
                                                 ELSE Cardinality(Upper(W, d + 1))
<1>1. PICK U, V : U = Upper(W, d) /\ V = Upper(W, d + 1)
  OBVIOUS
<1>2. V \in SUBSET W /\ IsFiniteSet(V)
  BY <1>1, Parts DEF Upper
<1>3. CASE d \in W
  <2>1. \A e : e \in U <=> e \in V \cup {d}
    <3>1. \A e \in W : e >= d <=> e >= d + 1 \/ e = d
      BY Members
    <3> QED BY <1>1, <1>3, <3>1 DEF Upper
  <2>2. U = V \cup {d} /\ d \notin V
    BY <1>1, <2>1 DEF Upper
  <2>3. Cardinality(V \cup {d}) = IF d \in V THEN Cardinality(V) ELSE Cardinality(V) + 1
    BY <1>2, FS_AddElement
  <2>4. Cardinality(U) = Cardinality(V) + 1
    BY <2>2, <2>3
  <2> QED BY <1>1, <1>3, <2>4
<1>4. CASE d \notin W
  <2>1. \A e \in W : e >= d <=> e >= d + 1
    BY <1>4, Members
  <2>2. U = V
    BY <1>1, <2>1 DEF Upper
  <2> QED BY <1>1, <1>4, <2>2
<1> QED BY <1>3, <1>4

\* For every n up to the number of members, one of them is the n-th from the top.
LEMMA Ranked ==
    ASSUME NEW L \in Nat, NEW W \in SUBSET (1..L), NEW n \in 1..Cardinality(W)
    PROVE  \E d \in W : Cardinality(Upper(W, d)) = n
<1>1. Cardinality(W) \in Nat /\ n \in Nat /\ n <= Cardinality(W) /\ n >= 1
  <2>1. Cardinality(W) \in Nat
    BY Parts, W \in SUBSET W
  <2> QED BY <2>1
<1>2. PICK T : T = {k \in 0..L : Cardinality(Upper(W, L + 1 - k)) >= n}
  OBVIOUS
<1>3. Upper(W, L + 1) = {} /\ Cardinality(Upper(W, L + 1)) = 0
  <2>1. \A e \in W : ~(e >= L + 1)
    BY Members
  <2>2. Upper(W, L + 1) = {}
    BY <2>1 DEF Upper
  <2> QED BY <2>2, FS_EmptySet
<1>4. L \in T
  <2>1. \A e \in W : e >= 1
    BY Members
  <2>2. Upper(W, 1) = W
    BY <2>1 DEF Upper
  <2>3. Cardinality(Upper(W, L + 1 - L)) >= n
    <3>1. L + 1 - L = 1
      OBVIOUS
    <3> QED BY <1>1, <2>2, <3>1
  <2> QED BY <1>2, <2>3
<1>5. PICK k \in T : \A j \in T : k <= j
  <2>1. \A k \in T : k \in Nat
    BY <1>2
  <2>2. T \in SUBSET Nat /\ T # {}
    BY <1>4, <2>1
  <2> QED BY <2>2, LeastElement
<1>6. PICK d : d = L + 1 - k
  OBVIOUS
<1>7. k \in 0..L /\ d \in Int /\ Cardinality(Upper(W, d)) >= n
  BY <1>2, <1>5, <1>6
<1>8. k # 0
  BY <1>1, <1>3, <1>6, <1>7
<1>9. k - 1 \in 0..L /\ L + 1 - (k - 1) = d + 1 /\ k - 1 \notin T
  BY <1>5, <1>6, <1>7, <1>8
<1>10. ~(Cardinality(Upper(W, d + 1)) >= n)
  BY <1>2, <1>9
<1>11. /\ Cardinality(Upper(W, d)) \in Nat /\ Cardinality(Upper(W, d + 1)) \in Nat
  <2>1. Upper(W, d) \in SUBSET W /\ Upper(W, d + 1) \in SUBSET W
    BY DEF Upper
  <2> QED BY <2>1, Parts
<1>12. d \in W /\ Cardinality(Upper(W, d)) = Cardinality(Upper(W, d + 1)) + 1
  BY <1>7, <1>10, <1>11, UpperGrows
<1>13. Cardinality(Upper(W, d)) = n
  BY <1>1, <1>7, <1>10, <1>11, <1>12
<1> QED BY <1>12, <1>13

\* The count m is meant for depth a of the loops W: it counts them from the top to a,
\* or goes beyond all of them if a is 0.
Meant(W, a, m) ==
    \/ a = 0 /\ m > Cardinality(W)
    \/ a \in W /\ m = Cardinality(Upper(W, a))

\* The innermost loop is left: the count that is one less is meant for the same depth
\* of the loops left, unless the loop is the one meant.
LEMMA CountDown ==
    ASSUME NEW L \in Nat, NEW W \in SUBSET (1..L), L \in W, NEW a, NEW m \in Int, Meant(W, a, m)
    PROVE  /\ m >= 1
           /\ m = 1 => a = L
           /\ m # 1 => Meant(W \ {L}, a, m - 1)
           /\ m = 1 => a \notin W \ {L}
           /\ Cardinality(W \ {L}) = Cardinality(W) - 1
<1>1. IsFiniteSet(W) /\ Cardinality(W) \in Nat
  BY Parts
<1>2. PICK V : V = W \ {L}
  OBVIOUS
<1>3. Cardinality(V) = Cardinality(W) - 1 /\ Cardinality(V) \in Nat
  <2>1. V \in SUBSET W
    BY <1>2
  <2>2. Cardinality(V) \in Nat
    BY <2>1, Parts
  <2> QED BY <1>1, <1>2, <2>2, FS_RemoveElement
<1>4. CASE a = 0 /\ m > Cardinality(W)
  BY <1>1, <1>2, <1>3, <1>4 DEF Meant
<1>5. CASE a \in W /\ m = Cardinality(Upper(W, a))
  <2>1. PICK A : A = Upper(W, a)
    OBVIOUS
  <2>2. A \in SUBSET W /\ a \in A /\ L \in A /\ a \in Nat \ {0}
    BY <1>5, <2>1 DEF Upper
  <2>3. IsFiniteSet(A) /\ Cardinality(A) \in Nat
    BY <2>2, Parts
  <2>4. IsFiniteSet(A \ {L}) /\ Cardinality(A \ {L}) = Cardinality(A) - 1
    BY <2>2, <2>3, FS_RemoveElement
  <2>5. Cardinality(A \ {L}) \in Nat
    BY <2>4, FS_CardinalityType
  <2>6. m >= 1
    BY <1>5, <2>1, <2>3, <2>4, <2>5
  <2>7. CASE a = L
    <3>1. \A e \in W : e >= a <=> e = L
      BY <2>7, Members
    <3>2. A = {L}
      BY <2>1, <2>2, <3>1 DEF Upper
    <3>3. m = 1
      BY <1>5, <2>1, <3>2, FS_Singleton
    <3> QED BY <1>2, <1>3, <2>7, <3>3
  <2>8. CASE a # L
    <3>1. a \in A \ {L} /\ A \ {L} # {}
      BY <2>2, <2>8
    <3>2. Cardinality(A \ {L}) # 0
      BY <2>4, <3>1, FS_EmptySet
    <3>3. A \ {L} = Upper(V, a) /\ a \in V
      BY <1>2, <2>1, <2>2, <2>8 DEF Upper
    <3>4. m = Cardinality(A) /\ Cardinality(A \ {L}) = m - 1
      BY <1>5, <2>1, <2>4
    <3>5. m - 1 = Cardinality(Upper(V, a)) /\ m # 1
      BY <3>2, <3>3, <3>4
    <3> QED BY <1>2, <1>3, <2>6, <2>8, <3>3, <3>5 DEF Meant
  <2> QED BY <2>7, <2>8
<1> QED BY <1>4, <1>5 DEF Meant

\* A continue that has run down wraps around (uint32).
LEMMA Wraps ==
    ASSUME NEW n \in 0..MaxUint32
    PROVE  /\ n >= 1 => (n - 1) % (MaxUint32 + 1) = n - 1
           /\ n = 0 => (n - 1) % (MaxUint32 + 1) = MaxUint32
BY UintAssumption

-----------------------------------------------------------------------------
(***************************************************************************)
(* What a step does to a break or continue under way.                      *)
(***************************************************************************)

\* Errors that are a break or continue.
IsSignal(e) == e.k \in {"break", "continue"}

\* The body of the while value on top is being evaluated.
InBody == Top.pc = "body" /\ Top.i = 2 /\ Node.kind = "while"

\* The result is looked at, in place (the drop of a range).
Looks ==
    /\ Top.pc = "each" /\ ret' = ret
    /\ \E f : Like(f) /\ f.pc = "result" /\ frames' = Append(Front(frames), f)

\* The error goes on as it is to the enclosing evaluation.
Passes ==
    /\ ~InBody /\ frames' = Front(frames)
    /\ ret'.err.k = ret.err.k /\ ret'.err.n = ret.err.n

\* The error goes on from a while value, which counts.
Counts ==
    /\ InBody /\ frames' = Front(frames)
    /\ ret'.err.k = ret.err.k
    /\ ret.err.k = "break" => ret.err.n # 1 /\ ret'.err.n = ret.err.n - 1
    /\ ret.err.k = "continue" => ret'.err.n = (ret.err.n - 1) % (MaxUint32 + 1)

\* A step that issues no break or continue: one that is there after it was there
\* before, and one that was there before ends an evaluation or starts a round.
Hop ==
    /\ IsSignal(ret'.err) => Looks \/ Passes \/ Counts
    /\ IsSignal(ret.err) => \/ Looks \/ frames' = Front(frames)
                            \/ InBody /\ ret.err.n = 1

\* There is no break or continue before and after a step.
Quiet == ~IsSignal(ret.err) /\ ~IsSignal(ret'.err)

\* What the moves do to the error.
LEMMA MoveErr ==
    /\ \A f : Goto(f) => ret'.err = NoErr
    /\ \A f, k : Sub(f, k) => ret'.err = NoErr
    /\ \A v, e : Return(v, e) => ret'.err = e /\ frames' = Front(frames)
    /\ ~IsSignal(NoErr) /\ ~IsSignal(Fail) /\ ~IsSignal(TooLong)
<1>1. NoRet.err = NoErr
  BY DEF NoRet
<1>2. \A f : Goto(f) => ret'.err = NoErr
  BY <1>1 DEF Goto
<1>3. \A f, k : Sub(f, k) => ret'.err = NoErr
  BY <1>1 DEF Sub
<1>4. \A v, e : Return(v, e) => ret'.err = e /\ frames' = Front(frames)
  BY DEF Return
<1>5. ~IsSignal(NoErr) /\ ~IsSignal(Fail) /\ ~IsSignal(TooLong)
  BY DEF NoErr, Fail, TooLong, IsSignal
<1> QED BY <1>2, <1>3, <1>4, <1>5

\* Quiet steps are hops.
LEMMA QuietHops == Quiet => Hop
BY DEF Quiet, Hop

\* What is known of the error of a running Eval.
LEMMA ErrThere ==
    ASSUME Inv, out.st = "running"
    PROVE  /\ ret # NoRet => Waits(Top) \/ Top.pc = "result"
           /\ ret = NoRet => ~IsSignal(ret.err)
           /\ ret.err = NoErr => ~IsSignal(ret.err)
BY Running, MoveErr

\* Wrapping keeps the count.
LEMMA WrapCount ==
    ASSUME NEW e, IsErr(e)
    PROVE  Wrap(e).k = e.k /\ Wrap(e).n = e.n
<1>1. PICK w : w = Wrap(e)
  OBVIOUS
<1>2. w = [k |-> e.k, n |-> e.n, wrapped |-> TRUE]
  BY <1>1 DEF IsErr, Wrap
<1> QED BY <1>1, <1>2

\* An error passed on, as it is or wrapped.
LEMMA PassHops ==
    ASSUME Inv, out.st = "running", ~InBody, NEW v, Return(v, ret.err) \/ Return(v, Wrap(ret.err))
    PROVE  Hop
<1>1. ret'.err.k = ret.err.k /\ ret'.err.n = ret.err.n /\ frames' = Front(frames)
  BY Running, MoveErr, WrapCount
<1> QED BY <1>1 DEF Hop, Passes

-----------------------------------------------------------------------------
(***************************************************************************)
(* The steps.                                                              *)
(***************************************************************************)

\* Entering and arguments.
LEMMA EntryHops ==
    ASSUME Inv
    PROVE  /\ InitCall => Hop
           /\ Refuse => Hop
           /\ DropFails => Hop
           /\ ArgCall => Hop
           /\ ArgFails => Hop
<1> USE ErrThere, MoveErr, QuietHops DEF At, Waits
<1>1. InitCall => Hop
  BY DEF InitCall, Start, Quiet
<1>2. Refuse => Hop
  BY DEF Refuse, Quiet
<1>3. DropFails => Hop
  BY DEF DropFails, Quiet
<1>4. ArgCall => Hop
  BY DEF ArgCall, Quiet
<1>5. ArgFails => Hop
  BY PassHops DEF ArgFails, InBody
<1> QED BY <1>1, <1>2, <1>3, <1>4, <1>5

\* Values without children, and parent.
LEMMA ValueHops ==
    ASSUME Inv
    PROVE  /\ ScopeValue => Hop
           /\ ArgValue => Hop
           /\ Default => Hop
           /\ Const => Hop
           /\ AtRoot => Hop
           /\ ParentValue => Hop
<1> USE ErrThere, MoveErr, QuietHops DEF At, Body, Waits, Composite, Node
<1>1. ScopeValue => Hop
  BY DEF ScopeValue, Quiet
<1>2. ArgValue => Hop
  BY DEF ArgValue, Quiet
<1>3. Default => Hop
  BY DEF Default, Quiet
<1>4. Const => Hop
  BY DEF Const, Quiet
<1>5. AtRoot => Hop
  BY DEF AtRoot, Quiet
<1>6. ASSUME ParentValue PROVE Hop
  <2>1. CASE Start
    BY <1>6, <2>1 DEF ParentValue, Start, Quiet
  <2>2. CASE ~Start
    BY <1>6, <2>2, PassHops DEF ParentValue, InBody
  <2> QED BY <2>1, <2>2
<1> QED BY <1>1, <1>2, <1>3, <1>4, <1>5, <1>6

\* What most kinds do with errors and error values: the errors of the body of a while
\* are not among them.
LEMMA CommonHops ==
    ASSUME Inv
    PROVE  /\ PassError => Hop
           /\ PassErrorValue => Hop
           /\ NotBool => Hop
<1> USE ErrThere, MoveErr, QuietHops DEF At, Body
<1>1. ASSUME PassError PROVE Hop
  <2>1. ~InBody /\ out.st = "running" /\ Return(ret.val, Wrap(ret.err))
    BY <1>1 DEF PassError, InBody
  <2> QED BY <2>1, PassHops
<1>2. PassErrorValue => Hop
  BY DEF PassErrorValue, Is, GotOk, Quiet
<1>3. NotBool => Hop
  BY DEF NotBool, GotOk, Quiet
<1> QED BY <1>1, <1>2, <1>3

\* Aggregates.
LEMMA AggregateHops ==
    ASSUME Inv
    PROVE  /\ ListValue => Hop
           /\ MapValue => Hop
           /\ Message => Hop
<1> USE ErrThere, MoveErr, QuietHops DEF At, Body, Start, Usable, GotOk
<1>1. ASSUME ListValue PROVE Hop
  <2>1. \A elems : NextElement(elems) => ~IsSignal(ret'.err)
    BY DEF NextElement
  <2> QED BY <1>1, <2>1 DEF ListValue, Quiet
<1>2. ASSUME MapValue PROVE Hop
  <2>1. \A pairs : NextEntry(pairs) => ~IsSignal(ret'.err)
    BY DEF NextEntry
  <2>2. MapKey => ~IsSignal(ret'.err)
    BY DEF MapKey
  <2> QED BY <1>2, <2>1, <2>2 DEF MapValue, Quiet
<1>3. ASSUME Message PROVE Hop
  <2>1. \A todo, set : NextField(todo, set) => ~IsSignal(ret'.err)
    BY DEF NextField
  <2> QED BY <1>3, <2>1 DEF Message, Quiet
<1> QED BY <1>1, <1>2, <1>3

\* Control, but for the body of a while.
LEMMA ControlHops ==
    ASSUME Inv
    PROVE  /\ Not => Hop
           /\ Connective => Hop
           /\ Sequence => Hop
           /\ Switch => Hop
           /\ WhileCondition => Hop
<1> USE ErrThere, MoveErr, QuietHops DEF At, Body, Start, GotOk, Is
<1>1. Not => Hop
  BY DEF Not, Quiet
<1>2. Connective => Hop
  BY DEF Connective, Quiet
<1>3. ASSUME Sequence PROVE Hop
  <2>1. CASE GotErr
    <3>1. ~InBody /\ out.st = "running"
      BY <1>3 DEF Sequence, InBody
    <3>2. \E v : Return(v, ret.err) \/ Return(v, Wrap(ret.err))
      BY <1>3, <2>1 DEF Sequence, GotErr
    <3> QED BY <3>1, <3>2, PassHops
  <2>2. CASE ~GotErr
    BY <1>3, <2>2 DEF Sequence, GotErr, Quiet
  <2> QED BY <2>1, <2>2
<1>4. ASSUME Switch PROVE Hop
  <2>1. \A i : SwitchCase(i) => ~IsSignal(ret'.err)
    BY DEF SwitchCase
  <2> QED BY <1>4, <2>1 DEF Switch, Quiet
<1>5. ASSUME WhileCondition PROVE Hop
  <2>1. \A v : NextRound(v) => ~IsSignal(ret'.err)
    BY DEF NextRound
  <2> QED BY <1>5, <2>1 DEF WhileCondition, Quiet
<1> QED BY <1>1, <1>2, <1>3, <1>4, <1>5

\* The body of a while: the only place where a break or continue is counted or taken.
LEMMA WhileHops ==
    ASSUME Inv, WhileBody
    PROVE  Hop
<1>1. out.st = "running" /\ InBody
  BY DEF WhileBody, Body, At, InBody
<1>2. \A v : NextRound(v) => ret'.err = NoErr
  BY MoveErr DEF NextRound
<1>3. CASE GotOk /\ NextRound(ret.val)
  BY <1>1, <1>2, <1>3, ErrThere, MoveErr, QuietHops DEF GotOk, Quiet
<1>4. CASE ret.err.k = "break" /\ WhileBreak
  <2>1. CASE ret.err.n = 1
    <3>1. ret'.err = NoErr /\ frames' = Front(frames)
      BY <1>4, <2>1, MoveErr DEF WhileBreak
    <3> QED BY <3>1, MoveErr DEF Hop
  <2>2. CASE ret.err.n # 1
    <3>1. ret'.err = Break(ret.err.n - 1) /\ frames' = Front(frames)
      BY <1>4, <2>2, MoveErr DEF WhileBreak
    <3>2. Counts
      BY <1>1, <1>4, <2>2, <3>1 DEF Counts, Break
    <3> QED BY <3>1, <3>2 DEF Hop
  <2> QED BY <2>1, <2>2
<1>5. CASE ret.err.k = "continue" /\ WhileContinue
  <2>1. CASE Return(Error, NoErr)
    BY <2>1, MoveErr DEF Hop
  <2>2. CASE ret.err.n = 1 /\ NextRound(ret.val)
    BY <1>1, <1>2, <2>2, MoveErr DEF Hop
  <2>3. CASE Return(ret.val, Continue((ret.err.n - 1) % (MaxUint32 + 1)))
    <3>1. /\ ret'.err = Continue((ret.err.n - 1) % (MaxUint32 + 1))
          /\ frames' = Front(frames)
      BY <2>3, MoveErr
    <3>2. Counts
      BY <1>1, <1>5, <3>1 DEF Counts, Continue
    <3> QED BY <3>1, <3>2 DEF Hop
  <2> QED BY <1>5, <2>1, <2>2, <2>3 DEF WhileContinue
<1>6. CASE ret.err.k \in {"fail", "toolong"} /\ Return(ret.val, Wrap(ret.err))
  <2>1. ret'.err.k = ret.err.k
    BY <1>1, <1>6, MoveErr, WrapCount, Running
  <2> QED BY <1>6, <2>1, QuietHops DEF Quiet, IsSignal
<1> QED BY <1>3, <1>4, <1>5, <1>6 DEF WhileBody

\* The environment, and CEL programs.
LEMMA EnvHops ==
    ASSUME Inv
    PROVE  /\ KeyNext => Hop
           /\ BadKey => Hop
           /\ Load => Hop
           /\ Store => Hop
           /\ Program => Hop
<1> USE ErrThere, MoveErr, QuietHops DEF At, Body, Start, GotOk
<1>1. KeyNext => Hop
  BY DEF KeyNext, Quiet
<1>2. BadKey => Hop
  BY DEF BadKey, Quiet
<1>3. Load => Hop
  BY DEF Load, Key, Usable, Quiet
<1>4. Store => Hop
  BY DEF Store, Key, Usable, Quiet
<1>5. Program => Hop
  BY DEF Program, Quiet, Waits, Composite, Node
<1> QED BY <1>1, <1>2, <1>3, <1>4, <1>5

\* Ranges.
LEMMA RangeHops ==
    ASSUME Inv
    PROVE  /\ Range_ => Hop
           /\ RangeEnd => Hop
           /\ RangeEach => Hop
           /\ RangeDropFails => Hop
           /\ RangeResult => Hop
<1> USE ErrThere, MoveErr, QuietHops DEF At, Body, Start, GotOk
<1>1. ASSUME Range_ PROVE Hop
  <2>1. \A v : RangeOver(v) => ~IsSignal(ret'.err)
    BY DEF RangeOver
  <2> QED BY <1>1, <2>1 DEF Range_, Quiet
<1>2. RangeEnd => Hop
  BY DEF RangeEnd, Quiet, Waits
<1>3. RangeEach => Hop
  BY DEF RangeEach, Quiet
<1>4. ASSUME RangeDropFails PROVE Hop
  <2>1. ret'.err = Fail /\ frames' = Front(frames)
    BY <1>4 DEF RangeDropFails
  <2> QED BY <2>1 DEF Hop
<1>5. ASSUME RangeResult PROVE Hop
  <2>1. CASE GotErr /\ Return(ret.val, Wrap(ret.err))
    BY <1>5, <2>1, PassHops DEF RangeResult, InBody
  <2>2. CASE ~(GotErr /\ Return(ret.val, Wrap(ret.err)))
    BY <1>5, <2>2 DEF RangeResult, Is, Quiet
  <2> QED BY <2>1, <2>2
<1> QED BY <1>1, <1>2, <1>3, <1>4, <1>5

\* Steps that change scopes and arguments.
LEMMA ScopeHops ==
    ASSUME Inv
    PROVE  /\ InitPush => Hop
           /\ Drop => Hop
           /\ ArgPush => Hop
           /\ Parent => Hop
           /\ RangeNext => Hop
           /\ RangeSecond => Hop
           /\ RangeDrop => Hop
           /\ Enter => Hop
<1> USE ErrThere, MoveErr, QuietHops DEF At, Body, Start, GotOk
<1>1. InitPush => Hop
  BY DEF InitPush, Quiet, Waits
<1>2. Drop => Hop
  BY DEF Drop, Quiet, Waits
<1>3. ArgPush => Hop
  BY DEF ArgPush, Quiet
<1>4. Parent => Hop
  BY DEF Parent, Quiet, Waits, Composite, Node
<1>5. RangeNext => Hop
  BY DEF RangeNext, Quiet, Waits
<1>6. RangeSecond => Hop
  BY DEF RangeSecond, Quiet, Waits
<1>7. ASSUME RangeDrop PROVE Hop
  <2>1. out.st = "running" /\ Top.pc = "each" /\ ret' = ret /\ IsFrame(Top)
    BY <1>7, Running DEF RangeDrop
  <2>2. PICK f : f = [Top EXCEPT !.pc = "result"]
    OBVIOUS
  <2>3. Goes(f, Top, "result") /\ frames' = Append(Front(frames), f)
    BY <1>7, <2>1, <2>2, GoesOK DEF RangeDrop
  <2>4. Looks
    BY <2>1, <2>3 DEF Looks, Like, Goes
  <2> QED BY <2>4 DEF Hop
<1>8. Enter => Hop
  BY DEF Enter, ShiftScope, Quiet, Waits
<1> QED BY <1>1, <1>2, <1>3, <1>4, <1>5, <1>6, <1>7, <1>8

\* All steps of an evaluation but Signal, which issues a break or continue.
LEMMA StepHops ==
    ASSUME Inv, StackStep \/ ScopeStep \/ Enter \/ Store \/ Program
    PROVE  Hop /\ aim' = aim /\ prog' = prog
<1>1. StackStep => Hop
  BY EntryHops, ValueHops, CommonHops, AggregateHops, ControlHops, WhileHops, EnvHops, RangeHops
  DEF StackStep
<1>2. ScopeStep => Hop
  BY ScopeHops DEF ScopeStep
<1>3. aim' = aim /\ prog' = prog
  BY DEF StackStep, ScopeStep, Enter, Store, Program, machine
<1> QED BY <1>1, <1>2, <1>3, ScopeHops, EnvHops

-----------------------------------------------------------------------------
(***************************************************************************)
(* The loops around an evaluation.                                         *)
(***************************************************************************)

\* Every evaluation that has begun is of a value of the program.
NodesOK ==
    \A d \in 1..Len(frames) :
        frames[d].pc \notin {"init", "scope"} => frames[d].node \in DOMAIN prog.nodes

\* The loops are evaluations that have begun, and the top is one of them if its body is
\* evaluated.
LEMMA LoopsOK ==
    ASSUME FramesOK, frames # <<>>
    PROVE  /\ Len(frames) \in Nat \ {0} /\ Top = frames[Len(frames)]
           /\ WhileBodies \in SUBSET (1..Len(frames))
           /\ WhileBodies \in SUBSET Active
           /\ InBody <=> Len(frames) \in WhileBodies
<1>1. /\ Len(frames) \in Nat \ {0} /\ Top = frames[Len(frames)]
      /\ Top.pc = "init" <=> Len(frames) = 1
  BY TopOK
<1>2. WhileBodies \in SUBSET (1..Len(frames)) /\ WhileBodies \in SUBSET Active
  BY <1>1 DEF WhileBodies, Active
<1>3. InBody <=> Len(frames) \in WhileBodies
  <2>1. PICK L, t : L = Len(frames) /\ t = frames[L]
    OBVIOUS
  <2>2. L \in WhileBodies <=> /\ L \in 2..L /\ t.pc = "body" /\ t.i = 2
                             /\ prog.nodes[t.node].kind = "while"
    BY <2>1 DEF WhileBodies
  <2>3. InBody <=> t.pc = "body" /\ t.i = 2 /\ prog.nodes[t.node].kind = "while"
    BY <1>1, <2>1 DEF InBody, Node
  <2>4. t.pc = "body" => L \in 2..L
    BY <1>1, <2>1
  <2> QED BY <2>1, <2>2, <2>3, <2>4
<1> QED BY <1>1, <1>2, <1>3

\* When an evaluation ends, it is no loop any more, and the others are as before.
LEMMA LoopsLeft ==
    ASSUME FramesOK, frames # <<>>, frames' = Front(frames), prog' = prog
    PROVE  WhileBodies' = WhileBodies \ {Len(frames)}
<1>1. PICK S : frames \in Seq(S)
  BY DEF FramesOK, Stack
<1>2. PICK r : r = frames'
  OBVIOUS
<1>3. /\ Len(frames) \in Nat \ {0} /\ Len(r) = Len(frames) - 1
      /\ \A d \in 1..(Len(frames) - 1) : r[d] = frames[d]
  BY <1>1, <1>2, PopTop
<1>4. 2..Len(r) = (2..Len(frames)) \ {Len(frames)} /\ \A d \in 2..Len(r) : r[d] = frames[d]
  BY <1>3
<1>5. WhileBodies' = {d \in 2..Len(r) : /\ r[d].pc = "body" /\ r[d].i = 2
                                        /\ prog.nodes[r[d].node].kind = "while"}
  BY <1>2 DEF WhileBodies
<1> QED BY <1>4, <1>5 DEF WhileBodies

\* Looking at a result leaves the loops.
LEMMA LoopsLooked ==
    ASSUME FramesOK, frames # <<>>, Looks, prog' = prog
    PROVE  WhileBodies' = WhileBodies
<1>1. PICK f : Like(f) /\ f.pc = "result" /\ frames' = Append(Front(frames), f)
  BY DEF Looks
<1>2. PICK r : r = frames'
  OBVIOUS
<1>3. Replaced(frames, f, r)
  BY <1>1, <1>2, GotoFrames
<1>4. /\ Len(frames) \in Nat \ {0} /\ Top = frames[Len(frames)] /\ Len(r) = Len(frames)
      /\ r[Len(frames)] = f /\ \A d \in 1..(Len(frames) - 1) : r[d] = frames[d]
  BY <1>3, LoopsOK DEF Replaced
<1>5. WhileBodies' = {d \in 2..Len(r) : /\ r[d].pc = "body" /\ r[d].i = 2
                                        /\ prog.nodes[r[d].node].kind = "while"}
  BY <1>2 DEF WhileBodies
<1>6. \A d \in 2..Len(frames) : r[d].pc = "body" <=> frames[d].pc = "body"
  BY <1>1, <1>4 DEF Looks
<1>7. \A d \in 2..Len(frames) : r[d].pc = "body" => r[d] = frames[d]
  BY <1>1, <1>4
<1> QED BY <1>4, <1>5, <1>6, <1>7 DEF WhileBodies

\* The while a break or continue is meant for, or 0.
LEMMA EnclosingOK ==
    ASSUME FramesOK, frames # <<>>, NEW n \in Nat \ {0}
    PROVE  Meant(WhileBodies, Enclosing(n), n)
<1>1. PICK W : W = WhileBodies
  OBVIOUS
<1>2. PICK M : M = {d \in W : Cardinality({e \in W : e >= d}) = n}
  OBVIOUS
<1>3. Enclosing(n) = IF M = {} THEN 0 ELSE CHOOSE d \in M : TRUE
  BY <1>1, <1>2 DEF Enclosing
<1>4. Len(frames) \in Nat /\ W \in SUBSET (1..Len(frames))
  BY <1>1, LoopsOK
<1>5. CASE M = {}
  <2>1. Cardinality(W) \in Nat
    BY <1>4, Parts, W \in SUBSET W
  <2>2. ~(n <= Cardinality(W))
    <3>1. ASSUME n <= Cardinality(W) PROVE FALSE
      <4>1. n \in 1..Cardinality(W)
        BY <2>1, <3>1
      <4>2. PICK d \in W : Cardinality(Upper(W, d)) = n
        BY <1>4, <4>1, Ranked
      <4> QED BY <1>2, <1>5, <4>2 DEF Upper
    <3> QED BY <3>1
  <2> QED BY <1>1, <1>3, <1>5, <2>1, <2>2 DEF Meant
<1>6. CASE M # {}
  <2>1. Enclosing(n) \in M
    BY <1>3, <1>6
  <2> QED BY <1>1, <1>2, <2>1 DEF Meant, Upper
<1> QED BY <1>5, <1>6

-----------------------------------------------------------------------------
(***************************************************************************)
(* The inductive invariant.                                                *)
(***************************************************************************)

\* A break under way is meant for aim.
BreakOK ==
    ret.err.k = "break" => ret.err.n \in Int /\ Meant(WhileBodies, aim, ret.err.n)

\* The count n of a continue is m, but for having wrapped around once when m has become
\* negative.  m is meant for depth a of the loops W, or that one has been passed, and
\* m is not further below the number of loops than they nest.
Trails(W, a, n, m) ==
    /\ n \in 0..MaxUint32 /\ m \in Int
    /\ m = n \/ m = n - (MaxUint32 + 1)
    /\ m - Cardinality(W) >= 1 - EvalMax
    /\ Meant(W, a, m) \/ (a \notin W /\ m <= 0)

\* A continue under way is meant for aim, or has passed it.
ContinueOK ==
    ret.err.k = "continue" => \E m \in Int : Trails(WhileBodies, aim, ret.err.n, m)

\* Cycles are spent one by one.
CyclesOK == cyclesLeft >= 0 \/ cyclesLeft = EvalMax

\* A while value counts a continue.
LEMMA TrailDown ==
    ASSUME EvalMax <= MaxUint32, NEW L \in Nat, NEW W \in SUBSET (1..L), L \in W,
           NEW a, NEW n, NEW m \in Int, Trails(W, a, n, m)
    PROVE  /\ Trails(W \ {L}, a, (n - 1) % (MaxUint32 + 1), m - 1)
           /\ n = 1 => a = L
<1>1. PICK c, V : c = Cardinality(W) /\ V = W \ {L}
  OBVIOUS
<1>2. c \in Nat /\ Cardinality(V) = c - 1 /\ c >= 1
  <2>1. W \in SUBSET W /\ V \in SUBSET W
    BY <1>1
  <2>2. IsFiniteSet(W) /\ c \in Nat /\ Cardinality(V) \in Nat
    BY <1>1, <2>1, Parts
  <2>3. Cardinality(V) = c - 1
    BY <1>1, <2>2, FS_RemoveElement
  <2> QED BY <2>2, <2>3
<1>3. /\ n \in 0..MaxUint32
      /\ m = n \/ m = n - (MaxUint32 + 1)
      /\ m - c >= 1 - EvalMax
      /\ Meant(W, a, m) \/ (a \notin W /\ m <= 0)
  BY <1>1 DEF Trails
<1>4. m >= 2 - MaxUint32
  BY <1>2, <1>3, EvalMaxAssumption, UintAssumption
<1>5. PICK p : p = (n - 1) % (MaxUint32 + 1)
  OBVIOUS
<1>6. /\ p \in 0..MaxUint32
      /\ m - 1 = p \/ m - 1 = p - (MaxUint32 + 1)
  <2>1. PICK N, z \in Nat : N = MaxUint32 /\ z = n
    BY <1>3, UintAssumption
  <2>2. z >= 1 => p = z - 1
    BY <1>3, <1>5, <2>1, Wraps
  <2>3. z = 0 => p = N
    BY <1>3, <1>5, <2>1, Wraps
  <2>4. z <= N /\ m >= 2 - N /\ (m = z \/ m = z - (N + 1))
    BY <1>3, <1>4, <2>1
  <2>5. CASE z >= 1
    <3>1. p \in 0..N /\ (m - 1 = p \/ m - 1 = p - (N + 1))
      BY <2>1, <2>2, <2>4, <2>5
    <3> QED BY <2>1, <3>1
  <2>6. CASE z = 0
    <3>1. p \in 0..N /\ (m - 1 = p \/ m - 1 = p - (N + 1))
      BY <2>1, <2>3, <2>4, <2>6
    <3> QED BY <2>1, <3>1
  <2> QED BY <2>1, <2>5, <2>6
<1>7. (m - 1) - Cardinality(V) >= 1 - EvalMax
  BY <1>2, <1>3, EvalMaxAssumption
<1>8. Meant(V, a, m - 1) \/ (a \notin V /\ m - 1 <= 0)
  <2>1. CASE Meant(W, a, m)
    <3>1. CASE m # 1
      <4>1. Meant(W \ {L}, a, m - 1)
        BY <2>1, <3>1, CountDown, Zenon
      <4> QED BY <1>1, <4>1
    <3>2. CASE m = 1
      <4>1. a \notin W \ {L}
        BY <2>1, <3>2, CountDown, Zenon
      <4> QED BY <1>1, <3>2, <4>1
    <3> QED BY <3>1, <3>2
  <2>2. CASE a \notin W /\ m <= 0
    BY <1>1, <2>2
  <2> QED BY <1>3, <2>1, <2>2
<1>9. Trails(V, a, p, m - 1) /\ m - 1 \in Int
  BY <1>6, <1>7, <1>8 DEF Trails
<1>10. n = 1 => a = L
  <2> SUFFICES ASSUME n = 1 PROVE a = L
    OBVIOUS
  <2>1. m = 1
    BY <1>3, <1>4, UintAssumption
  <2>2. Meant(W, a, m)
    BY <1>3, <2>1
  <2> QED BY <2>1, <2>2, CountDown, Zenon
<1> QED BY <1>1, <1>5, <1>9, <1>10

\* A hop keeps a break meant for its while.
LEMMA HopBreak ==
    ASSUME FramesOK, frames # <<>>, BreakOK, Hop, aim' = aim, prog' = prog
    PROVE  BreakOK'
<1> SUFFICES ASSUME ret'.err.k = "break"
             PROVE  (ret.err.n \in Int /\ Meant(WhileBodies, aim, ret.err.n))'
  BY DEF BreakOK
<1>1. PICK L, W : L = Len(frames) /\ W = WhileBodies
  OBVIOUS
<1>2. L \in Nat /\ W \in SUBSET (1..L) /\ (InBody <=> L \in W)
  BY <1>1, LoopsOK
<1>3. CASE Looks
  <2>1. ret' = ret /\ WhileBodies' = WhileBodies
    BY <1>3, LoopsLooked DEF Looks
  <2> QED BY <2>1 DEF BreakOK
<1>4. CASE Passes
  <2>1. WhileBodies' = W \ {L} /\ L \notin W
    BY <1>1, <1>2, <1>4, LoopsLeft DEF Passes
  <2>2. WhileBodies' = WhileBodies
    BY <1>1, <2>1
  <2> QED BY <1>4, <2>2 DEF BreakOK, Passes
<1>5. CASE Counts
  <2>1. WhileBodies' = W \ {L} /\ L \in W
    BY <1>1, <1>2, <1>5, LoopsLeft DEF Counts
  <2>2. /\ ret.err.k = "break" /\ ret.err.n # 1 /\ ret'.err.n = ret.err.n - 1
        /\ ret.err.n \in Int /\ Meant(W, aim, ret.err.n)
    BY <1>1, <1>5 DEF BreakOK, Counts
  <2>3. Meant(W \ {L}, aim, ret.err.n - 1)
    <3>1. PICK m \in Int : m = ret.err.n
      BY <2>2
    <3>2. m # 1 /\ Meant(W, aim, m)
      BY <2>2, <3>1
    <3>3. Meant(W \ {L}, aim, m - 1)
      BY <1>2, <2>1, <3>2, CountDown, Zenon
    <3> QED BY <3>1, <3>3
  <2>4. Meant(WhileBodies', aim', ret'.err.n)
    BY <2>1, <2>2, <2>3
  <2> QED BY <2>2, <2>4 DEF Meant
<1> QED BY <1>3, <1>4, <1>5 DEF Hop, IsSignal

\* A hop keeps a continue meant for its while, or beyond it.
LEMMA HopContinue ==
    ASSUME EvalMax <= MaxUint32, FramesOK, frames # <<>>, ContinueOK, Hop,
           aim' = aim, prog' = prog
    PROVE  ContinueOK'
<1> SUFFICES ASSUME ret'.err.k = "continue"
             PROVE  \E m \in Int : Trails(WhileBodies', aim', ret'.err.n, m)
  BY DEF ContinueOK, Trails, Meant
<1>1. PICK L, W : L = Len(frames) /\ W = WhileBodies
  OBVIOUS
<1>2. L \in Nat /\ W \in SUBSET (1..L) /\ (InBody <=> L \in W)
  BY <1>1, LoopsOK
<1>3. CASE Looks
  <2>1. ret' = ret /\ WhileBodies' = WhileBodies
    BY <1>3, LoopsLooked DEF Looks
  <2> QED BY <2>1 DEF ContinueOK
<1>4. CASE Passes
  <2>1. WhileBodies' = W \ {L} /\ L \notin W
    BY <1>1, <1>2, <1>4, LoopsLeft DEF Passes
  <2>2. WhileBodies' = WhileBodies
    BY <1>1, <2>1
  <2> QED BY <1>4, <2>2 DEF ContinueOK, Passes
<1>5. CASE Counts
  <2>1. WhileBodies' = W \ {L} /\ L \in W
    BY <1>1, <1>2, <1>5, LoopsLeft DEF Counts
  <2>2. /\ ret.err.k = "continue"
        /\ ret'.err.n = (ret.err.n - 1) % (MaxUint32 + 1)
    BY <1>5 DEF Counts
  <2>3. PICK m \in Int : Trails(W, aim, ret.err.n, m)
    BY <1>1, <2>2 DEF ContinueOK
  <2>4. Trails(W \ {L}, aim, (ret.err.n - 1) % (MaxUint32 + 1), m - 1)
    BY <1>2, <2>1, <2>3, TrailDown
  <2>5. Trails(WhileBodies', aim', ret'.err.n, m - 1) /\ m - 1 \in Int
    BY <2>1, <2>2, <2>4
  <2> QED BY <2>5
<1> QED BY <1>3, <1>4, <1>5 DEF Hop, IsSignal

\* A continue makes a while value go on only if it is meant for that.
LEMMA HopTaken ==
    ASSUME EvalMax <= MaxUint32, FramesOK, frames # <<>>, ContinueOK, Hop, prog' = prog,
           ret.err.k = "continue", Len(frames') > Len(frames)
    PROVE  Len(frames) = aim
<1>1. PICK L, W : L = Len(frames) /\ W = WhileBodies
  OBVIOUS
<1>2. L \in Nat /\ W \in SUBSET (1..L) /\ (InBody <=> L \in W)
  BY <1>1, LoopsOK
<1>3. PICK S : frames \in Seq(S)
  BY DEF FramesOK, Stack
<1>4. ~Looks
  <2> SUFFICES ASSUME Looks PROVE FALSE
    OBVIOUS
  <2>1. PICK f : Like(f) /\ frames' = Append(Front(frames), f)
    BY DEF Looks
  <2>2. Len(frames') = Len(frames)
    BY <2>1, GotoFrames DEF Replaced
  <2> QED BY <1>1, <1>2, <2>2
<1>5. frames' # Front(frames)
  <2> SUFFICES ASSUME frames' = Front(frames) PROVE FALSE
    OBVIOUS
  <2>1. Len(frames') = L - 1
    BY <1>1, <1>3, PopTop
  <2> QED BY <1>1, <1>2, <2>1
<1>6. InBody /\ ret.err.n = 1
  BY <1>4, <1>5 DEF Hop, IsSignal
<1>7. PICK m \in Int : Trails(W, aim, 1, m)
  BY <1>1, <1>6 DEF ContinueOK
<1>8. aim = L
  BY <1>2, <1>6, <1>7, TrailDown
<1> QED BY <1>1, <1>8

-----------------------------------------------------------------------------
(***************************************************************************)
(* The steps keep the invariant.                                           *)
(***************************************************************************)

\* The frame on top is replaced by one of a value of the program.
LEMMA NodesReplaced ==
    ASSUME FramesOK, frames # <<>>, NodesOK, prog' = prog, NEW f, Replaced(frames, f, frames'),
           f.pc \notin {"init", "scope"} => f.node \in DOMAIN prog.nodes
    PROVE  NodesOK'
<1>1. PICK r : r = frames'
  OBVIOUS
<1>2. /\ Len(frames) \in Nat \ {0} /\ Len(r) = Len(frames) /\ r[Len(frames)] = f
      /\ \A d \in 1..(Len(frames) - 1) : r[d] = frames[d]
  BY <1>1, TopOK DEF Replaced
<1>3. ASSUME NEW d \in 1..Len(r), r[d].pc \notin {"init", "scope"}
      PROVE  r[d].node \in DOMAIN prog.nodes
  <2>1. CASE d = Len(frames)
    BY <1>2, <1>3, <2>1
  <2>2. CASE d # Len(frames)
    <3>1. d \in 1..(Len(frames) - 1) /\ d \in 1..Len(frames)
      BY <1>2, <2>2
    <3> QED BY <1>2, <1>3, <3>1 DEF NodesOK
  <2> QED BY <2>1, <2>2
<1> QED BY <1>1, <1>3 DEF NodesOK

\* The same when it waits for another evaluation.
LEMMA NodesPushed ==
    ASSUME FramesOK, frames # <<>>, NodesOK, prog' = prog, NEW f, NEW g, Pushed(frames, f, g, frames'),
           f.pc \notin {"init", "scope"} => f.node \in DOMAIN prog.nodes, g.pc = "scope"
    PROVE  NodesOK'
<1>1. PICK r : r = frames'
  OBVIOUS
<1>2. /\ Len(frames) \in Nat \ {0} /\ Len(r) = Len(frames) + 1
      /\ r[Len(frames)] = f /\ r[Len(frames) + 1] = g
      /\ \A d \in 1..(Len(frames) - 1) : r[d] = frames[d]
  BY <1>1, TopOK DEF Pushed
<1>3. ASSUME NEW d \in 1..Len(r), r[d].pc \notin {"init", "scope"}
      PROVE  r[d].node \in DOMAIN prog.nodes
  <2>1. CASE d = Len(frames) \/ d = Len(frames) + 1
    BY <1>2, <1>3, <2>1
  <2>2. CASE d # Len(frames) /\ d # Len(frames) + 1
    <3>1. d \in 1..(Len(frames) - 1) /\ d \in 1..Len(frames)
      BY <1>2, <2>2
    <3> QED BY <1>2, <1>3, <3>1 DEF NodesOK
  <2> QED BY <2>1, <2>2
<1> QED BY <1>1, <1>3 DEF NodesOK

\* The same when it ends.
LEMMA NodesPopped ==
    ASSUME FramesOK, frames # <<>>, NodesOK, prog' = prog, frames' = Front(frames)
    PROVE  NodesOK'
<1>1. PICK S : frames \in Seq(S)
  BY DEF FramesOK, Stack
<1>2. PICK r : r = frames'
  OBVIOUS
<1>3. /\ Len(frames) \in Nat \ {0} /\ Len(r) = Len(frames) - 1
      /\ \A d \in 1..(Len(frames) - 1) : r[d] = frames[d]
  BY <1>1, <1>2, PopTop
<1>4. \A d \in 1..Len(r) : r[d] = frames[d] /\ d \in 1..Len(frames)
  BY <1>3
<1> QED BY <1>2, <1>4 DEF NodesOK

\* Moves stay with values of the program.
LEMMA MoveNodes ==
    ASSUME Inv, NodesOK, Move, prog' = prog
    PROVE  NodesOK'
<1>1. FramesOK /\ frames # <<>> /\ Top.pc # "scope"
  BY DEF Inv, OutOK, Move
<1>2. ASSUME NEW f, Like(f)
      PROVE  f.pc \notin {"init", "scope"} => f.node \in DOMAIN prog.nodes
  <2>1. Len(frames) \in 1..Len(frames) /\ Top = frames[Len(frames)]
    BY <1>1, TopOK
  <2> QED BY <1>1, <1>2, <2>1 DEF NodesOK, Like
<1>3. ASSUME NEW f, Like(f), frames' = Append(Front(frames), f)
      PROVE  NodesOK'
  BY <1>1, <1>2, <1>3, GotoFrames, NodesReplaced
<1>4. ASSUME NEW f, NEW k, Like(f), Waits(f), Sub(f, k)
      PROVE  NodesOK'
  <2>1. PICK g : g = NewFrame(k, f.env)
    OBVIOUS
  <2>2. IsFrame(g) /\ g.pc = "scope"
    BY <2>1 DEF IsFrame, NewFrame
  <2>3. Pushed(frames, f, g, frames')
    BY <1>1, <1>4, <2>1, <2>2, SubFrames DEF Sub
  <2> QED BY <1>1, <1>2, <1>4, <2>2, <2>3, NodesPushed
<1>5. CASE Returns
  BY <1>1, <1>5, NodesPopped DEF Returns, Return
<1> QED BY <1>3, <1>4, <1>5 DEF Move, GoesOn, Goto, Calls, LooksAt

\* Only a value of the program is entered.
LEMMA EnterNodes ==
    ASSUME Inv, NodesOK, Enter
    PROVE  NodesOK'
<1>1. /\ out.st = "running" /\ FramesOK /\ frames # <<>> /\ IsFrame(Top) /\ Top.pc = "scope"
      /\ Top.node \in DOMAIN prog.nodes /\ prog' = prog
  BY Running DEF Enter, At, Inv, OutOK
<1>2. Return(Nil, Fail) \/ \E f : Goes(f, Top, "drop") /\ Goto(f)
  BY <1>1, GoesOK DEF Enter, ShiftScope
<1>3. CASE Return(Nil, Fail)
  BY <1>1, <1>3, NodesPopped DEF Return
<1>4. ASSUME NEW f, Goes(f, Top, "drop"), Goto(f)
      PROVE  NodesOK'
  <2>1. Like(f) /\ f.node \in DOMAIN prog.nodes
    BY <1>1, <1>4 DEF Like, Goes
  <2>2. Replaced(frames, f, frames')
    BY <1>1, <1>4, <2>1, GotoFrames DEF Goto
  <2> QED BY <1>1, <2>1, <2>2, NodesReplaced
<1> QED BY <1>2, <1>3, <1>4

\* A step of an evaluation that is no Panic or End is a move, or enters or refuses to.
LEMMA StepRuns ==
    ASSUME Inv, StackStep \/ ScopeStep \/ Enter \/ Store \/ Program \/ Signal
    PROVE  /\ FramesOK /\ frames # <<>> /\ out.st = "running" /\ prog' = prog
           /\ Move \/ (Refuse /\ frames' = Front(frames)) \/ Enter
<1>1. prog' = prog
  BY DEF StackStep, ScopeStep, Enter, Store, Program, Signal, machine
<1>2. Move \/ Refuse \/ Enter
  BY StackMoves, ScopeMoves, EffectMoves, TurnMoves DEF ScopeStep
<1>3. out.st = "running"
  BY <1>2 DEF Move, Refuse, Enter, At
<1>4. Refuse => frames' = Front(frames)
  BY DEF Refuse, Return
<1> QED BY <1>1, <1>2, <1>3, <1>4 DEF Inv, OutOK

\* Every step stays with values of the program.
LEMMA NextNodes ==
    ASSUME Inv, NodesOK, [Next]_vars
    PROVE  NodesOK' /\ prog' = prog
<1>1. CASE StackStep \/ ScopeStep \/ Enter \/ Store \/ Program \/ Signal
  <2>1. /\ FramesOK /\ frames # <<>> /\ prog' = prog
        /\ Move \/ (Refuse /\ frames' = Front(frames)) \/ Enter
    BY <1>1, StepRuns
  <2> QED BY <2>1, MoveNodes, EnterNodes, NodesPopped
<1>2. CASE Begin
  <2>1. PICK f : f = [NewFrame(0, 1) EXCEPT !.pc = "init", !.i = Len(prog.args)]
    OBVIOUS
  <2>2. f.pc = "init"
    BY <2>1 DEF NewFrame
  <2>3. frames' = <<f>> /\ prog' = prog
    BY <1>2, <2>1 DEF Begin
  <2>4. Len(frames') = 1 /\ frames'[1] = f
    BY <2>3
  <2> QED BY <2>2, <2>3, <2>4 DEF NodesOK
<1>3. CASE End
  <2>1. frames' = <<>> /\ Len(frames') = 0 /\ prog' = prog
    BY <1>3 DEF End
  <2> QED BY <2>1 DEF NodesOK
<1>4. CASE Panic \/ UNCHANGED vars
  <2>1. frames' = frames /\ prog' = prog
    BY <1>4 DEF Panic, vars, machine
  <2> QED BY <2>1 DEF NodesOK
<1> QED BY <1>1, <1>2, <1>3, <1>4 DEF Next, Step, Over

\* Cycles are never below 0 unless EvalMax is.
LEMMA NextCycles ==
    ASSUME Inv, CyclesOK, [Next]_vars
    PROVE  CyclesOK'
<1>1. CASE Enter
  <2>1. cyclesLeft' >= 0
    BY <1>1 DEF Enter, Inv
  <2> QED BY <2>1 DEF CyclesOK
<1>2. CASE Begin
  BY <1>2 DEF Begin, CyclesOK
<1>3. CASE ~Enter /\ ~Begin
  <2>1. cyclesLeft' = cyclesLeft
    BY <1>3 DEF Next, Step, Over, StackStep, ScopeStep, Store, Program, Signal, Panic, End,
                vars, machine
  <2> QED BY <2>1 DEF CyclesOK
<1> QED BY <1>1, <1>2, <1>3

\* A break or continue is issued: meant for the while value that it counts.
LEMMA Issued ==
    ASSUME Inv, NodesOK, prog \in Programs, Signal
    PROVE  /\ ~IsSignal(ret.err)
           /\ IsSignal(ret'.err) =>
                 /\ ret'.err.n \in 1..MaxUint32
                 /\ WhileBodies' = WhileBodies
                 /\ Len(frames) \in Active
                 /\ Meant(WhileBodies, aim', ret'.err.n)
<1>1. /\ out.st = "running" /\ Top.pc = "body" /\ Node.kind \in {"break", "continue"}
      /\ prog' = prog /\ aim' = Enclosing(Node.n)
  BY DEF Signal, Body, At
<1>2. FramesOK /\ frames # <<>>
  BY <1>1 DEF Inv, OutOK
<1>3. /\ Len(frames) \in Nat \ {0} /\ Top = frames[Len(frames)]
      /\ Len(frames) # 1 /\ ~InBody
  BY <1>1, <1>2, TopOK DEF InBody
<1>4. ~IsSignal(ret.err)
  <2>1. ret = NoRet
    BY <1>1, ErrThere DEF Waits, Composite, Node
  <2> QED BY <1>1, <2>1, ErrThere
<1>5. Len(frames) \in Active
  <2>1. PICK L : L = Len(frames)
    OBVIOUS
  <2>2. L \in 2..L /\ frames[L].pc # "scope"
    BY <1>1, <1>3, <2>1
  <2>3. L \in Active
    BY <2>1, <2>2 DEF Active
  <2> QED BY <2>1, <2>3
<1>6. Node.n \in 0..MaxUint32
  <2>1. Top.node \in DOMAIN prog.nodes
    <3>1. Len(frames) \in 1..Len(frames)
      BY <1>3
    <3> QED BY <1>1, <1>3, <3>1 DEF NodesOK
  <2> QED BY <1>1, <2>1, JumpsAssumption DEF Node
<1>7. CASE Node.n = 0
  BY <1>4, <1>7, MoveErr DEF Signal
<1>8. CASE Node.n # 0
  <2>1. \E e : Return(Null, e) /\ e.n = Node.n
    BY <1>8 DEF Signal, Break, Continue
  <2>2. ret'.err.n = Node.n /\ frames' = Front(frames)
    BY <2>1, MoveErr
  <2>3. PICK n \in Nat \ {0} : n = Node.n /\ n \in 1..MaxUint32
    BY <1>6, <1>8, UintAssumption
  <2>4. Meant(WhileBodies, Enclosing(n), n)
    BY <1>2, EnclosingOK
  <2>5. WhileBodies' = WhileBodies
    BY <1>1, <1>2, <1>3, <2>2, LoopsLeft, LoopsOK
  <2> QED BY <1>1, <1>4, <1>5, <2>2, <2>3, <2>4, <2>5
<1> QED BY <1>7, <1>8

\* There are at most as many loops as Eval may spend cycles.
LEMMA FewLoops ==
    ASSUME Inv, frames # <<>>, CyclesOK, Len(frames) \in Active
    PROVE  Cardinality(WhileBodies) \in Nat /\ Cardinality(WhileBodies) <= EvalMax
<1>1. IsFiniteSet(Active) /\ Cardinality(Active) \in Nat
  BY ActiveFinite DEF Inv, FramesOK
<1>2. Cardinality(Active) # 0
  BY <1>1, FS_EmptySet
<1>3. WhileBodies \in SUBSET Active
  BY LoopsOK DEF Inv
<1>4. /\ Cardinality(WhileBodies) \in Nat
      /\ Cardinality(WhileBodies) <= Cardinality(Active)
  BY <1>1, <1>3, FS_Subset, FS_CardinalityType
<1> QED BY <1>1, <1>2, <1>4, EvalMaxAssumption DEF Inv, CyclesOK

\* Steps after which there is no break or continue, or nothing has happened to it.
LEMMA OtherSteps ==
    ASSUME Inv, Begin \/ End \/ Panic \/ UNCHANGED vars
    PROVE  /\ IsSignal(ret'.err) => /\ ret' = ret /\ aim' = aim
                                    /\ WhileBodies' = WhileBodies
           /\ IsSignal(ret.err) => ~(Len(frames') > Len(frames))
<1>1. NoRet.err = NoErr /\ ~IsSignal(NoErr) /\ Len(frames) \in Nat
  BY NoRetOK, MoveErr DEF Inv, FramesOK, Stack
<1>2. CASE Begin
  <2>1. ret = NoRet /\ ret' = ret
    BY <1>2 DEF Begin, Inv, OutOK
  <2> QED BY <1>1, <2>1
<1>3. CASE End
  <2>1. ret' = NoRet /\ Len(frames') = 0
    BY <1>3 DEF End
  <2> QED BY <1>1, <2>1
<1>4. CASE Panic \/ UNCHANGED vars
  <2>1. frames' = frames /\ prog' = prog /\ ret' = ret /\ aim' = aim
    BY <1>4 DEF Panic, vars, machine
  <2> QED BY <1>1, <2>1 DEF WhileBodies
<1> QED BY <1>2, <1>3, <1>4

\* A break under way stays meant for aim.
LEMMA NextBreak ==
    ASSUME Inv, NodesOK, prog \in Programs, BreakOK, [Next]_vars
    PROVE  BreakOK'
<1>1. CASE StackStep \/ ScopeStep \/ Enter \/ Store \/ Program
  BY <1>1, StepHops, StepRuns, HopBreak
<1>2. CASE Signal
  <2>1. ret'.err.k = "break" => (ret.err.n \in Int /\ Meant(WhileBodies, aim, ret.err.n))'
    BY <1>2, Issued, UintAssumption DEF IsSignal, Meant
  <2> QED BY <2>1 DEF BreakOK
<1>3. CASE Begin \/ End \/ Panic \/ UNCHANGED vars
  <2>1. ret'.err.k = "break" =>
           ret' = ret /\ aim' = aim /\ WhileBodies' = WhileBodies
    BY <1>3, OtherSteps DEF IsSignal
  <2> QED BY <2>1 DEF BreakOK, Meant
<1> QED BY <1>1, <1>2, <1>3 DEF Next, Step, Over

\* A continue under way stays meant for aim or has passed it, and is taken only there.
LEMMA NextContinue ==
    ASSUME EvalMax <= MaxUint32, Inv, NodesOK, prog \in Programs, CyclesOK, ContinueOK, [Next]_vars
    PROVE  /\ ContinueOK'
           /\ ret.err.k = "continue" /\ Len(frames') > Len(frames) => Len(frames) = aim
<1>1. CASE StackStep \/ ScopeStep \/ Enter \/ Store \/ Program
  BY <1>1, StepHops, StepRuns, HopContinue, HopTaken
<1>2. CASE Signal
  <2>1. ret.err.k # "continue"
    BY <1>2, Issued DEF IsSignal
  <2>2. ASSUME ret'.err.k = "continue"
        PROVE  \E m \in Int : Trails(WhileBodies', aim', ret'.err.n, m)
    <3>1. PICK n \in 1..MaxUint32 : n = ret'.err.n
      BY <1>2, <2>2, Issued DEF IsSignal
    <3>2. /\ WhileBodies' = WhileBodies /\ Len(frames) \in Active
          /\ Meant(WhileBodies, aim', n)
      BY <1>2, <2>2, <3>1, Issued DEF IsSignal
    <3>3. PICK c \in Nat : c = Cardinality(WhileBodies) /\ c <= EvalMax
      <4>1. frames # <<>>
        BY <1>2, StepRuns
      <4> QED BY <3>2, <4>1, FewLoops
    <3>4. n \in 0..MaxUint32 /\ n \in Int /\ n - c >= 1 - EvalMax
      BY <3>3, UintAssumption, EvalMaxAssumption
    <3>5. Trails(WhileBodies', aim', n, n)
      BY <3>2, <3>3, <3>4 DEF Trails
    <3> QED BY <3>1, <3>4, <3>5
  <2> QED BY <2>1, <2>2 DEF ContinueOK, Trails, Meant
<1>3. CASE Begin \/ End \/ Panic \/ UNCHANGED vars
  <2>1. ret'.err.k = "continue" =>
           ret' = ret /\ aim' = aim /\ WhileBodies' = WhileBodies
    BY <1>3, OtherSteps DEF IsSignal
  <2>2. ContinueOK'
    BY <2>1 DEF ContinueOK, Trails, Meant
  <2> QED BY <1>3, <2>2, OtherSteps DEF IsSignal
<1> QED BY <1>1, <1>2, <1>3 DEF Next, Step, Over

-----------------------------------------------------------------------------
(***************************************************************************)
(* The theorems.                                                           *)
(***************************************************************************)

\* The inductive invariant: what is known of the stack, and of the signal under way.
SignalInv ==
    /\ Inv /\ NodesOK /\ prog \in Programs /\ CyclesOK
    /\ BreakOK /\ (EvalMax <= MaxUint32 => ContinueOK)

\* At first no break or continue is under way.
LEMMA InitSignal ==
    ASSUME Init
    PROVE  SignalInv
<1>1. ret = NoRet /\ ret.err = NoErr /\ ~IsSignal(ret.err)
  BY NoRetOK, MoveErr DEF Init
<1>2. BreakOK /\ ContinueOK
  BY <1>1 DEF BreakOK, ContinueOK, IsSignal
<1>3. NodesOK
  <2>1. Len(frames) = 0
    BY DEF Init
  <2> QED BY <2>1 DEF NodesOK
<1>4. CyclesOK /\ prog \in Programs
  BY DEF Init, CyclesOK
<1> QED BY <1>2, <1>3, <1>4, InitOK DEF SignalInv

\* Every step keeps it.
LEMMA NextSignal ==
    ASSUME SignalInv, [Next]_vars
    PROVE  SignalInv'
<1>1. Inv' /\ NodesOK' /\ (prog \in Programs)' /\ CyclesOK' /\ BreakOK'
  BY NextKeeps, NextNodes, NextCycles, NextBreak DEF SignalInv
<1>2. EvalMax <= MaxUint32 => ContinueOK'
  BY NextContinue DEF SignalInv
<1> QED BY <1>1, <1>2 DEF SignalInv

\* The invariant holds of every program.
THEOREM SignalsAreMeant == Spec => []SignalInv
<1>1. Init => SignalInv
  BY InitSignal
<1>2. SignalInv /\ [Next]_vars => SignalInv'
  BY NextSignal
<1> QED BY <1>1, <1>2, PTL DEF Spec

\* A break under way counts the while bodies up to the one it is meant for (errBreak of
\* eval.go), in every program: through lists, calls of procs, ranges and whatever else it
\* leaves, and past while values whose condition it comes from.
THEOREM BreaksCount == Spec => []BreakCounts
<1>1. SignalInv => BreakCounts
  <2> SUFFICES ASSUME SignalInv, ret.err.k = "break"
               PROVE  IF aim = 0 THEN ret.err.n > Cardinality(WhileBodies)
                      ELSE ret.err.n = Cardinality({d \in WhileBodies : d >= aim})
    BY DEF BreakCounts
  <2>1. Meant(WhileBodies, aim, ret.err.n)
    BY DEF SignalInv, BreakOK
  <2>2. 0 \notin WhileBodies
    BY DEF WhileBodies
  <2> QED BY <2>1, <2>2 DEF Meant, Upper
<1> QED BY <1>1, SignalsAreMeant, PTL

\* A continue restarts only the while it is meant for (errContinue of eval.go), in every
\* program: it may wrap around once it has passed that one, but then it would take more
\* while values to run down again than can be nested, as long as EvalMax is no more than
\* a uint32 can count.
THEOREM ContinuesReach == EvalMax <= MaxUint32 => (Spec => ContinueReachesItsWhile)
<1> SUFFICES ASSUME EvalMax <= MaxUint32
             PROVE  Spec => ContinueReachesItsWhile
  OBVIOUS
<1>1. SignalInv /\ [Next]_vars =>
        [ret.err.k = "continue" /\ Len(frames') > Len(frames) => Len(frames) = aim]_vars
  BY NextContinue DEF SignalInv
<1> QED BY <1>1, SignalsAreMeant, PTL DEF Spec, ContinueReachesItsWhile
=============================================================================
