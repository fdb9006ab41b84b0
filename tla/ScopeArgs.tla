----------------------------- MODULE ScopeArgs -----------------------------
(***************************************************************************)
(* Every way in which evaluations use the scope tree: the operations of    *)
(* Scope in the orders in which eval calls them, without the values that   *)
(* are computed.  A frame stands for an activation of Eval (the first one) *)
(* or eval; at is the point it has reached.                                *)
(*                                                                         *)
(*    "scope"  entered, value.Scope not yet looked at                      *)
(*    "drop"   scope shifted, value.DropArgs not yet applied               *)
(*    "body"   evaluating arguments and sub-values                         *)
(*    "parent" continuing in a copy of the parent scope                    *)
(***************************************************************************)
EXTENDS Scope

CONSTANTS
    Args,           \* argument values
    Locs,           \* places in the evaluated message
    Root,           \* the place of the message itself
    MaxSteps,       \* bound on the steps of a scope path
    MaxScopes,      \* bound on the scopes allocated
    MaxArrays,      \* bound on the arrays allocated
    MaxOwn,         \* bound on the arguments of one scope
    MaxFrames       \* bound on the nesting of evaluations

ASSUME RootAssumption    == Root \in Locs
ASSUME ZeroArgAssumption == ZeroArg \notin Args
ASSUME BoundsAssumption  ==
    /\ MaxSteps \in Nat
    /\ MaxScopes \in Nat
    /\ MaxArrays \in Nat
    /\ MaxOwn \in Nat
    /\ MaxFrames \in Nat

VARIABLE frames     \* the active evaluations, outermost first

vars == <<arrays, scopes, frames>>

\* Values of uint32 fields that number arguments; all above MaxInt32 are alike.
ArgNumbers == 0..(MaxInt32 + 1)

Frame == [scope : Nat, at : {"scope", "drop", "body", "parent"}]

Current == Last(frames)

At(points) == frames # <<>> /\ Current.at \in points

\* The current evaluation goes on in scope s at the given point.
Goto(s, point) ==
    frames' = [frames EXCEPT ![Len(frames)] = [scope |-> s, at |-> point]]

-----------------------------------------------------------------------------

\* Env.scope before the first Eval is the zero scope structure.
Init ==
    /\ arrays = <<>>
    /\ scopes = <<[arr |-> 0, len |-> 0, parent |-> 0, loc |-> Root]>>
    /\ frames = <<>>

\* Eval points Env.scope at a message; it will push its arguments and call eval.
Eval ==
    /\ frames = <<>>
    /\ InitRoot(Root)
    /\ frames' = <<[scope |-> 1, at |-> "body"]>>
    /\ UNCHANGED arrays

\* A sub-value is evaluated with the environment of the enclosing one.
Call ==
    /\ At({"body", "parent"})
    /\ Len(frames) < MaxFrames
    /\ frames' = Append(frames, [scope |-> Current.scope, at |-> "scope"])
    /\ UNCHANGED scopeVars

\* value.Scope is absent.
Stay ==
    /\ At({"scope"})
    /\ Goto(Current.scope, "drop")
    /\ UNCHANGED scopeVars

\* value.Scope selects the places locs, one node for each step.
Enter(locs) ==
    /\ At({"scope"})
    /\ Len(scopes) + Len(locs) <= MaxScopes
    /\ Shift(Current.scope, locs)
    /\ Goto(NewScope, "drop")

Drop(n) ==
    /\ At({"drop"})
    /\ DropArgs(Current.scope, n)
    /\ Goto(Current.scope, "body")

\* An argument of Eval, of value.Args, or of a range element.
Push(v) ==
    /\ At({"body"})
    /\ scopes[Current.scope].len < MaxOwn
    /\ Len(arrays) < MaxArrays
    /\ PushArg(Current.scope, v)
    /\ UNCHANGED frames

\* A range drops the two arguments of an element.
RangeDrop ==
    /\ At({"body"})
    /\ Len(frames) > 1
    /\ DropArgs(Current.scope, 2)
    /\ UNCHANGED frames

\* A parent value is evaluated in a copy of the parent scope.
Parent ==
    /\ At({"body"})
    /\ Len(frames) > 1
    /\ Len(scopes) < MaxScopes
    /\ ShiftToParent(Current.scope)
    /\ Goto(NewScope, "parent")

\* The evaluation returns, at any point: with a value, or because it or a step of
\* its own failed; a shift or a drop that fails changes no scope.
Return ==
    /\ frames # <<>>
    /\ frames' = Front(frames)
    /\ UNCHANGED scopeVars

NextLocal ==
    \/ Eval
    \/ Call
    \/ Stay
    \/ \E m \in 1..MaxSteps : \E locs \in [1..m -> Locs] : Enter(locs)
    \/ \E n \in ArgNumbers : Drop(n)
    \/ \E v \in Args : Push(v)
    \/ RangeDrop
    \/ Return

Next == NextLocal \/ Parent

Spec == Init /\ [][Next]_vars

\* Evaluations that use no parent value.
SpecLocal == Init /\ [][NextLocal]_vars

-----------------------------------------------------------------------------
(***************************************************************************)
(* Properties.                                                             *)
(***************************************************************************)

ScopeNode == [arr : Nat, len : Nat, parent : Nat, loc : Locs]

\* Pointers point to allocated scopes and arrays, and a slice is a window on its
\* array; a scope was allocated after its parent, so that the recursive walks of
\* scope.go towards the root end.
MemoryOK ==
    /\ arrays \in Seq(Seq(Args \cup {ZeroArg}))
    /\ scopes \in Seq(ScopeNode)
    /\ scopes # <<>>
    /\ \A s \in DOMAIN scopes :
          /\ scopes[s].arr <= Len(arrays)
          /\ scopes[s].len <= Cap(scopes[s].arr)
          /\ scopes[s].parent < s

\* Type invariant: memory is well-formed, and evaluations run in allocated scopes.
TypeOK ==
    /\ MemoryOK
    /\ frames \in Seq(Frame)
    /\ \A i \in DOMAIN frames : frames[i].scope \in DOMAIN scopes

\* The two ways to read the arguments agree: the numbered argument (scope.arg,
\* celArgList.Get) is the element at that place of the whole list
\* (asRefValList), and one past its length (celArgList.Size) there is none.  An
\* argument that was never pushed is never seen.
ArgIsIndexOfVisible ==
    \A s \in DOMAIN scopes :
        \A n \in 0..MaxInt32 :
            /\ HasArg(s, n) <=> n < Len(Visible(s))
            /\ HasArg(s, n) => /\ Arg(s, n) = Visible(s)[n + 1]
                               /\ Arg(s, n) # ZeroArg

\* Without parent values, no two scopes share the array of their arguments.
Unshared ==
    \A s, t \in DOMAIN scopes :
        s # t /\ scopes[s].arr = scopes[t].arr => scopes[s].arr = 0

\* dropArgs removes arguments 0 to n-1 of the current scope, and nothing else:
\* argument n becomes argument 0, however many scopes the n arguments lay in.
DropIsExact ==
    [][\A n \in ArgNumbers :
          Drop(n) => Visible(Current.scope)' = SubSeq(Visible(Current.scope), n + 1,
                                                     Len(Visible(Current.scope)))]_vars

\* PushArg (scope.go) pushes onto the argument stack of its own scope: no
\* argument that another scope holds changes.
PushIsLocal ==
    [][\A s \in DOMAIN scopes :
          (\E v \in Args : Push(v)) /\ s # Current.scope
              => OwnArgs(s)' = OwnArgs(s)]_vars

\* The slices implement one argument stack for each scope.
Abstract == INSTANCE ArgStacks WITH
                Vals   <- Args,
                stacks <- [s \in DOMAIN scopes |-> OwnArgs(s)],
                parent <- [s \in DOMAIN scopes |-> scopes[s].parent],
                frames <- [i \in DOMAIN frames |-> frames[i].scope]

ImplementsArgStacks == Abstract!Spec
=============================================================================
