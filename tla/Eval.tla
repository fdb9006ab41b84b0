-------------------------------- MODULE Eval --------------------------------
(***************************************************************************)
(* Eval and eval of eval.go as a stack machine.  A program is the Value    *)
(* tree of value.proto as a sequence of nodes: node 1 is the value given   *)
(* to Eval, a child that is no node, 0, an absent Value.  A frame is an    *)
(* activation of eval; the bottom frame, of node 0, is Eval itself.  An    *)
(* activation that ends leaves its value and error in ret, where the       *)
(* enclosing one takes them.                                               *)
(*                                                                         *)
(*    pc "init"    Eval pushes its arguments and calls eval                *)
(*       "scope"   entered: count the cycle, shift the scope               *)
(*       "drop"    drop arguments                                          *)
(*       "args"    evaluate and push arguments                             *)
(*       "body"    evaluate the value itself; i tells the child running    *)
(*       "parent"  evaluating in the parent scope                          *)
(*       "next", "second", "each"   range: next element, its second        *)
(*                 argument, its evaluation                                *)
(*       "result"  range: arguments dropped, the result is looked at       *)
(*       "loaded"  load: waiting for a proc                                *)
(***************************************************************************)
EXTENDS Scope, Values, FiniteSets

CONSTANTS
    Programs,       \* records [nodes, args, evals]: a Value tree, arguments of Eval
                    \* and, as a bound, how often Eval is called
    Root,           \* the place of the evaluated message
    Child,          \* places reached from a place by a step: <<place, step>>
    ValueAt,        \* the value at each place
    DefaultAt,      \* the default value of each place
    FieldType,      \* the fields of a message type, with the types they take
    Oneof,          \* the oneof of each field, "" for none
    Data,           \* the values in programs and messages, with their parts
    EvalMax,        \* Env.cyclesLeft: evaluations an Eval may spend
    MaxUint32       \* math.MaxUint32

ASSUME EvalMaxAssumption == EvalMax \in Int
ASSUME UintAssumption    == MaxUint32 \in Nat /\ MaxInt32 < MaxUint32

\* Counts of break and continue and numbers of arguments are of type uint32 (value.proto),
\* those that a CEL program looks up too.
ASSUME JumpsAssumption ==
    \A p \in Programs : \A k \in DOMAIN p.nodes :
        p.nodes[k].kind \in {"break", "continue", "arg", "program"} =>
            p.nodes[k].n \in 0..MaxUint32

\* The values of a value are those at other nodes, and absent ones; drop_args is a uint32.
ASSUME NodesAssumption ==
    \A p \in Programs : \A k \in DOMAIN p.nodes :
        /\ p.nodes[k].args \in Seq(0..Len(p.nodes))
        /\ p.nodes[k].kids \in Seq(0..Len(p.nodes))
        /\ p.nodes[k].drop \in 0..MaxUint32

\* There is a first node, and values have the children that their kind wants.
ASSUME KidsAssumption ==
    \A p \in Programs :
        /\ Len(p.nodes) \in Nat \ {0} /\ DOMAIN p.nodes = 1..Len(p.nodes)
        /\ \A k \in DOMAIN p.nodes :
              LET kind == p.nodes[k].kind
                  kids == Len(p.nodes[k].kids)
              IN  /\ kind \in {"parent", "not", "load"} => kids >= 1
                  /\ kind \in {"while", "store", "proc", "range"} => kids >= 2
                  /\ kind = "switch" => kids % 2 = 1
                  /\ kind = "map" => kids % 2 = 0

\* Values of programs and messages are data all through: the arguments of a scope and the
\* environment can only be had from an evaluation.  Arguments and constants can be Value
\* messages, too, which are nodes of the program like any other.
DataOf(p) == Data \cup {Proc(k) : k \in DOMAIN p.nodes}

ASSUME DataAssumption ==
    /\ \A v \in Data :
          /\ v.t \notin {"args", "env", "proc"}
          /\ v.t = "list" => v.elems \in Seq(Data)
          /\ v.t = "map" => IsFiniteSet(v.pairs) /\ v.pairs \subseteq Data \X Data
    /\ \A p \in Programs : /\ p.args \in Seq(DataOf(p))
                           /\ \A k \in DOMAIN p.nodes : p.nodes[k].val \in DataOf(p)
    /\ \A l \in DOMAIN ValueAt : {ValueAt[l], DefaultAt[l]} \subseteq Data

\* Steps lead from places of the message to places, of which its root is one.
ASSUME PlacesAssumption ==
    /\ Root \in DOMAIN ValueAt /\ "" \notin DOMAIN ValueAt
    /\ \A c \in DOMAIN Child : c[1] \in DOMAIN ValueAt /\ Child[c] \in DOMAIN ValueAt

\* A path is a list of steps.
ASSUME PathsAssumption ==
    \A p \in Programs : \A k \in DOMAIN p.nodes :
        p.nodes[k].scope # <<>> => p.nodes[k].scope[1] \in Seq(STRING)

VARIABLES
    prog,           \* the program, chosen once
    values,         \* Env.values, a set of <<key, value>> with distinct keys
    frames,         \* active evaluations, outermost first
    ret,            \* what the last evaluation returned, if not taken yet
    cyclesLeft,     \* evaluations left for this Eval
    out,            \* outcome of the last Eval
    evals,          \* calls of Eval so far
    aim             \* history: depth of the while that the break or continue under
                    \* way is meant for, 0 for none

machine == <<prog, values, cyclesLeft, out, evals, aim>>
vars    == <<arrays, scopes, frames, ret, machine>>

NoRet  == [st |-> "none", val |-> Nil, err |-> NoErr]
NoIter == [over |-> "none"]

NewFrame(k, env) ==
    [node |-> k, env |-> env, pc |-> "scope", i |-> 0, acc |-> Nil,
     todo |-> {}, iter |-> NoIter]

Top    == Last(frames)
Node   == prog.nodes[Top.node]
Kid(i) == Node.kids[i]
Kids   == Len(Node.kids)
Place  == scopes[Top.env].loc

At(pc)      == out.st = "running" /\ Top.pc = pc
Body(kinds) == At("body") /\ Node.kind \in kinds
Start       == ret = NoRet /\ Top.i = 0
GotOk       == ret # NoRet /\ ret.err = NoErr
GotErr      == ret # NoRet /\ ret.err # NoErr
Is(v)       == GotOk /\ ret.val = v

\* Value() of v is not to be had: there is no v, or v is the environment and contains
\* itself, so that converting it to a Go map never ends and the stack overflows.
Valueless(v) == v = Nil \/ (v = EnvView /\ \E p \in values : p[2] = EnvView)

\* Value() of a live value is a snapshot: of arguments their list, of the environment a
\* map with a snapshot of each value.  (Live values inside others stay what they are.)
Snapshot(v) == IF v.t = "args" THEN List(Visible(v.scope)) ELSE v

Native(v) == IF v = EnvView THEN Map({<<Str(p[1]), Snapshot(p[2])>> : p \in values})
                            ELSE Snapshot(v)

\* What Go takes out of the result of the running child.
Item   == Native(ret.val)
Usable == GotOk /\ ret.val # Error /\ ~Valueless(ret.val)

\* The current evaluation goes on as frame f.
Goto(f) == frames' = Append(Front(frames), f) /\ ret' = NoRet

\* It goes on as frame f once child k has been evaluated.
Sub(f, k) == frames' = Front(frames) \o <<f, NewFrame(k, f.env)>> /\ ret' = NoRet

\* It returns.
Return(v, e) ==
    /\ frames' = Front(frames)
    /\ ret' = [st |-> "ret", val |-> v, err |-> e]

-----------------------------------------------------------------------------
(***************************************************************************)
(* Eval.                                                                   *)
(***************************************************************************)

Init ==
    /\ arrays = <<>>
    /\ scopes = <<[arr |-> 0, len |-> 0, parent |-> 0, loc |-> Root]>>
    /\ prog \in Programs
    /\ values = {}
    /\ frames = <<>>
    /\ ret = NoRet
    /\ cyclesLeft = EvalMax
    /\ out = [NoRet EXCEPT !.st = "idle"]
    /\ evals = 0
    /\ aim = 0

\* Eval makes the message the root scope and sets the cycles for this call.
Begin ==
    /\ out.st \in {"idle", "ok", "err"}
    /\ evals < prog.evals
    /\ InitRoot(Root)
    /\ frames' = <<[NewFrame(0, 1) EXCEPT !.pc = "init", !.i = Len(prog.args)]>>
    /\ cyclesLeft' = EvalMax
    /\ out' = [NoRet EXCEPT !.st = "running"]
    /\ evals' = evals + 1
    /\ aim' = 0
    /\ UNCHANGED <<arrays, prog, values, ret>>

\* Arguments are pushed from the last to the first.
InitPush ==
    /\ At("init") /\ Top.i > 0
    /\ prog.args[Top.i] # Error
    /\ PushArg(1, prog.args[Top.i])
    /\ Goto([Top EXCEPT !.i = @ - 1])

InitCall == At("init") /\ Start /\ Sub(Top, 1)

\* An argument that cannot be converted, an error, an error value; else what Value()
\* makes of the value, nil for null.
End ==
    /\ At("init")
    /\ \/ Top.i > 0 /\ prog.args[Top.i] = Error /\ out' = [NoRet EXCEPT !.st = "err", !.err = Fail]
       \/ GotErr /\ out' = [ret EXCEPT !.st = "err", !.val = Nil]
       \/ Is(Error) /\ out' = [NoRet EXCEPT !.st = "err", !.err = Fail]
       \/ Usable /\ out' = [ret EXCEPT !.st = "ok", !.val = IF @ = Null THEN Nil ELSE Item]
    /\ frames' = <<>>
    /\ ret' = NoRet
    /\ UNCHANGED <<scopeVars, prog, values, cyclesLeft, evals, aim>>

-----------------------------------------------------------------------------
(***************************************************************************)
(* Entering eval: cycles, scope, arguments.                                *)
(***************************************************************************)

Refuse == At("scope") /\ cyclesLeft <= 0 /\ Return(Nil, TooLong)

\* The places that a path leads through from place l, "" from the first step
\* that selects nothing; an empty path stays at l.
Places(l, path) ==
    LET at[k \in 0..Len(path)] ==
            IF k = 0 THEN l
            ELSE IF <<at[k - 1], path[k]>> \in DOMAIN Child
                 THEN Child[<<at[k - 1], path[k]>>] ELSE ""
    IN  IF path = <<>> THEN <<l>> ELSE [k \in 1..Len(path) |-> at[k]]

\* value.Scope, <<>> when absent and <<path>> when set, leads to a new scope.
ShiftScope ==
    LET locs == Places(Place, Node.scope[1])
    IN  IF Node.scope = <<>>
        THEN Goto([Top EXCEPT !.pc = "drop"]) /\ UNCHANGED scopeVars
        ELSE IF Last(locs) = "" THEN Return(Nil, Fail) /\ UNCHANGED scopeVars
        ELSE Shift(Top.env, locs) /\ Goto([Top EXCEPT !.pc = "drop", !.env = NewScope])

\* Mistakes: cycles run out unnoticed, values without children are free, every
\* activation counts for itself, the scope is not that of the value alone.
EnterFreely ==
    /\ At("scope") /\ Top.node \in DOMAIN prog.nodes
    /\ cyclesLeft' = cyclesLeft - 1
    /\ ShiftScope
    /\ UNCHANGED <<prog, values, out, evals, aim>>

EnterLeafFree ==
    /\ At("scope") /\ Top.node \in DOMAIN prog.nodes
    /\ cyclesLeft > 0
    /\ cyclesLeft' = IF Kids = 0 THEN cyclesLeft ELSE cyclesLeft - 1
    /\ ShiftScope
    /\ UNCHANGED <<prog, values, out, evals, aim>>

EnterByValue ==
    /\ At("scope") /\ Top.node \in DOMAIN prog.nodes
    /\ cyclesLeft > 0
    /\ cyclesLeft' = EvalMax - (Len(frames) - 1)
    /\ ShiftScope
    /\ UNCHANGED <<prog, values, out, evals, aim>>

EnterInPlace ==
    /\ At("scope") /\ Top.node \in DOMAIN prog.nodes
    /\ cyclesLeft > 0
    /\ cyclesLeft' = cyclesLeft - 1
    /\ Goto([Top EXCEPT !.pc = "drop"])
    /\ UNCHANGED <<scopeVars, prog, values, out, evals, aim>>

Enter ==
    /\ At("scope") /\ Top.node \in DOMAIN prog.nodes
    /\ cyclesLeft > 0
    /\ cyclesLeft' = cyclesLeft - 1
    /\ ShiftScope
    /\ UNCHANGED <<prog, values, out, evals, aim>>

Drop ==
    /\ At("drop")
    /\ DropArgs(Top.env, Node.drop)
    /\ Goto([Top EXCEPT !.pc = "args", !.i = Len(Node.args)])

DropFails == At("drop") /\ ~CanDrop(Top.env, Node.drop) /\ Return(Nil, Fail)

\* A mistake: arguments are evaluated from the first to the last.
ArgCallForward ==
    /\ At("args")
    /\ ret = NoRet
    /\ IF Top.i > 0 THEN Sub(Top, Node.args[Len(Node.args) + 1 - Top.i])
                    ELSE Goto([Top EXCEPT !.pc = "body"])

\* Arguments are evaluated from the last to the first, each with those after it
\* already pushed.
ArgCall ==
    /\ At("args")
    /\ ret = NoRet
    /\ IF Top.i > 0 THEN Sub(Top, Node.args[Top.i])
                    ELSE Goto([Top EXCEPT !.pc = "body"])

ArgPush ==
    /\ At("args") /\ GotOk
    /\ PushArg(Top.env, ret.val)
    /\ Goto([Top EXCEPT !.i = @ - 1])

ArgFails == At("args") /\ GotErr /\ Return(Nil, Wrap(ret.err))

-----------------------------------------------------------------------------
(***************************************************************************)
(* Values that need no further evaluation, and parent.                     *)
(***************************************************************************)

ScopeValue == Body({"value"}) /\ Return(ValueAt[Place], NoErr)

ArgValue ==
    /\ Body({"arg"})
    /\ IF HasArg(Top.env, Node.n) THEN Return(Arg(Top.env, Node.n), NoErr)
                                  ELSE Return(Nil, Fail)

\* The default of a list or map is asked of the message in the parent scope.
HasDefault ==
    ValueAt[Place].t \in {"list", "map"}
        => ValueAt[scopes[scopes[Top.env].parent].loc].t = "msg"

Default == Body({"default"}) /\ HasDefault /\ Return(DefaultAt[Place], NoErr)

\* Basic values, numbers, bytes, messages, times: val; enums: Nil when the type
\* or the constant is not known.
Const ==
    /\ Body({"const", "enum"})
    /\ Return(Node.val, IF Node.val = Nil THEN Fail ELSE NoErr)

\* A mistake: the scope becomes the parent scope itself.
ParentItself ==
    /\ Body({"parent"})
    /\ scopes[Top.env].parent # 0
    /\ Goto([Top EXCEPT !.pc = "parent", !.env = scopes[Top.env].parent])
    /\ UNCHANGED scopeVars

\* The scope becomes a copy of the parent scope, for this activation only.
Parent ==
    /\ Body({"parent"})
    /\ ShiftToParent(Top.env)
    /\ Goto([Top EXCEPT !.pc = "parent", !.env = NewScope])

AtRoot == Body({"parent"}) /\ scopes[Top.env].parent = 0 /\ Return(Nil, Fail)

ParentValue ==
    /\ At("parent")
    /\ IF Start THEN Sub([Top EXCEPT !.i = 1], Kid(1))
                ELSE Return(ret.val, ret.err)

-----------------------------------------------------------------------------
(***************************************************************************)
(* Results of sub-values that most kinds treat alike.                      *)
(***************************************************************************)

\* The running child of a while or switch is a condition.
InCondition == \/ Node.kind = "while" /\ Top.i = 1
               \/ Node.kind = "switch" /\ Top.i % 2 = 1 /\ Top.i < Kids

\* Errors are passed on inside an error of the enclosing value.
PassError ==
    /\ \/ Body({"list", "map", "message", "not", "allOf", "anyOf", "switch",
                "store", "proc", "load"})
       \/ Body({"while", "range"}) /\ Top.i = 1
       \/ At("loaded")
    /\ GotErr
    /\ Return(ret.val, Wrap(ret.err))

\* CEL error values end the evaluation of the enclosing value.
PassErrorValue ==
    /\ \/ Body({"list", "map", "message", "not", "allOf", "anyOf", "seq"})
       \/ Body({"store", "range"}) /\ Top.i = 1
       \/ Body({"while", "switch"}) /\ InCondition
    /\ Is(Error)
    /\ Return(Error, NoErr)

\* A condition or operand that is not a boolean.
NotBool ==
    /\ \/ Body({"not", "allOf", "anyOf"})
       \/ Body({"while", "switch"}) /\ InCondition
    /\ GotOk
    /\ ret.val \notin {Error, Bool(TRUE), Bool(FALSE)}
    /\ Return(Nil, Fail)

-----------------------------------------------------------------------------
(***************************************************************************)
(* Aggregates.  A node's typ and keyTyp are the types of its elements and  *)
(* map keys, "bad" when they cannot be determined.                         *)
(***************************************************************************)

NextElement(elems) ==
    IF Top.i = Kids THEN Return(List(elems), NoErr)
    ELSE Sub([Top EXCEPT !.i = @ + 1, !.acc = List(elems)], Kid(Top.i + 1))

ListValue ==
    /\ Body({"list"})
    /\ \/ Start /\ Node.typ = "bad" /\ Return(Nil, Fail)
       \/ Start /\ Node.typ # "bad" /\ NextElement(<<>>)
       \/ /\ Usable
          /\ IF ConvertibleTo(Item, Node.typ)
             THEN NextElement(Append(Top.acc.elems, Convert(Item, Node.typ)))
             ELSE Return(ret.val, Fail)

\* The next entry of a map with the entries pairs so far: children 2j - 1 and 2j
\* are key and value of entry j.
NextEntry(pairs) ==
    IF Top.i = Kids THEN Return(Map(pairs), NoErr)
    ELSE IF 0 \in {Kid(Top.i + 1), Kid(Top.i + 2)} THEN Return(Nil, Fail)
    ELSE Sub([Top EXCEPT !.i = @ + 1, !.acc = Map(pairs)], Kid(Top.i + 1))

\* A key must be convertible, hashable and new; the frame keeps it in iter.  Messages are
\* one key when they are at one address: two that are equal may be or not.
MapKey ==
    LET key   == Convert(Item, Node.keyTyp)
        taken == \E p \in Top.acc.pairs : p[1] = key
    IN  \/ /\ ConvertibleTo(Item, Node.keyTyp)
           /\ taken => key.t \in {"msg", "proc"}
           /\ Sub([Top EXCEPT !.i = @ + 1, !.iter = [over |-> "key", key |-> key]],
                  Kid(Top.i + 1))
        \/ /\ ConvertibleTo(Item, Node.keyTyp) => taken
           /\ Return(Nil, Fail)

GoodKey == ConvertibleTo(Item, Node.keyTyp) => Hashable(Convert(Item, Node.keyTyp))

MapValue ==
    /\ Body({"map"})
    /\ \/ Start /\ "bad" \in {Node.typ, Node.keyTyp} /\ Return(Nil, Fail)
       \/ Start /\ "bad" \notin {Node.typ, Node.keyTyp} /\ NextEntry({})
       \/ Usable /\ Top.i % 2 = 1 /\ GoodKey /\ MapKey
       \/ /\ Usable /\ Top.i % 2 = 0
          /\ IF ConvertibleTo(Item, Node.typ)
             THEN NextEntry(Top.acc.pairs \cup
                                {<<Top.iter.key, Convert(Item, Node.typ)>>})
             ELSE Return(Nil, Fail)

\* A message evaluates its fields in the order of Go's map iteration, any order:
\* todo are the fields left, set those set so far.
NextField(todo, set) ==
    \/ todo = {} /\ Return(Msg(set), NoErr)
    \/ \E j \in todo :
          LET name  == Node.names[j]
              again == \E p \in set : Oneof[name] # "" /\ Oneof[p[1]] = Oneof[name]
          IN  IF name \notin DOMAIN FieldType \/ again THEN Return(Nil, Fail)
              ELSE Sub([Top EXCEPT !.i = j, !.todo = todo \ {j}, !.acc = Msg(set)], Kid(j))

Message ==
    /\ Body({"message"})
    /\ \/ Start /\ Node.typ = "bad" /\ Return(Nil, Fail)
       \/ Start /\ Node.typ # "bad" /\ NextField(DOMAIN Node.kids, {})
       \/ /\ Usable
          /\ LET name == Node.names[Top.i]
             IN  IF ConvertibleTo(Item, FieldType[name])
                 THEN NextField(Top.todo, Top.acc.fields \cup
                                    {<<name, Convert(Item, FieldType[name])>>})
                 ELSE Return(Nil, Fail)

-----------------------------------------------------------------------------
(***************************************************************************)
(* Control.                                                                *)
(***************************************************************************)

Not ==
    /\ Body({"not"})
    /\ \/ Start /\ Sub([Top EXCEPT !.i = 1], Kid(1))
       \/ \E b \in BOOLEAN : Is(Bool(b)) /\ Return(Bool(~b), NoErr)

\* A mistake: all values are evaluated, the last one decides.
ConnectiveLast ==
    /\ Body({"allOf", "anyOf"})
    /\ LET goOn == (Node.kind = "allOf")
       IN  \E b \in BOOLEAN :
              /\ (Start /\ b = goOn) \/ Is(Bool(b))
              /\ IF Top.i < Kids THEN Sub([Top EXCEPT !.i = @ + 1], Kid(Top.i + 1))
                                 ELSE Return(Bool(b), NoErr)

\* all_of goes on as long as values are true, any_of as long as they are false.
Connective ==
    /\ Body({"allOf", "anyOf"})
    /\ LET goOn == (Node.kind = "allOf")
       IN  \/ /\ Start \/ Is(Bool(goOn))
              /\ IF Top.i < Kids THEN Sub([Top EXCEPT !.i = @ + 1], Kid(Top.i + 1))
                                 ELSE Return(Bool(goOn), NoErr)
           \/ Is(Bool(~goOn)) /\ Return(Bool(~goOn), NoErr)

\* acc is the result so far.  A break or continue that is the error itself yields
\* it; one inside another error is passed on like any other error.
Sequence ==
    /\ Body({"seq"})
    /\ LET signal == ret.err.k \in {"break", "continue"} /\ ~ret.err.wrapped
       IN  \/ /\ Start \/ (GotOk /\ ret.val # Error)
              /\ IF Top.i < Kids
                 THEN Sub([Top EXCEPT !.i = @ + 1, !.acc = ret.val], Kid(Top.i + 1))
                 ELSE Return(ret.val, NoErr)
           \/ GotErr /\ IF signal THEN Return(Top.acc, Wrap(ret.err))
                                  ELSE Return(ret.val, ret.err)

\* Children 2j - 1 and 2j are condition and branch of case j, the last child is
\* the default.
SwitchCase(i) ==
    IF i < Kids /\ 0 \in {Kid(i), Kid(i + 1)} THEN Return(Nil, Fail)
    ELSE IF Kid(i) = 0 THEN Return(Null, NoErr)
    ELSE Sub([Top EXCEPT !.i = i], Kid(i))

Switch ==
    /\ Body({"switch"})
    /\ \/ Start /\ SwitchCase(1)
       \/ InCondition /\ Is(Bool(TRUE)) /\ Sub([Top EXCEPT !.i = @ + 1], Kid(Top.i + 1))
       \/ InCondition /\ Is(Bool(FALSE)) /\ SwitchCase(Top.i + 2)
       \/ ~InCondition /\ GotOk /\ Return(ret.val, NoErr)

\* Children: condition (i = 1) and body (i = 2); acc is the value of the last
\* completed round.
NextRound(v) == Sub([Top EXCEPT !.i = 1, !.acc = v], Kid(1))

WhileCondition ==
    /\ Body({"while"})
    /\ \/ Start /\ 0 \in {Kid(1), Kid(2)} /\ Return(Nil, Fail)
       \/ Start /\ 0 \notin {Kid(1), Kid(2)} /\ NextRound(Nil)
       \/ InCondition /\ Is(Bool(TRUE)) /\ Sub([Top EXCEPT !.i = 2], Kid(2))
       \/ InCondition /\ Is(Bool(FALSE)) /\ Return(Top.acc, NoErr)

\* Mistakes: the break is not counted down, the continue is not counted.
WhileBreakSame ==
    IF ret.err.n = 1 THEN Return(IF ret.val = Null THEN Top.acc ELSE ret.val, NoErr)
                     ELSE Return(ret.val, Break(ret.err.n))

WhileContinueFirst ==
    IF ret.val = Error THEN Return(Error, NoErr) ELSE NextRound(ret.val)

WhileBreak ==
    IF ret.err.n = 1 THEN Return(IF ret.val = Null THEN Top.acc ELSE ret.val, NoErr)
                     ELSE Return(ret.val, Break(ret.err.n - 1))

\* A continue of this while whose value is null falls through to the last case;
\* the subtraction is one of uint32.
WhileContinue ==
    IF ret.err.n = 1 /\ ret.val = Error THEN Return(Error, NoErr)
    ELSE IF ret.err.n = 1 /\ ret.val # Null THEN NextRound(ret.val)
    ELSE Return(ret.val, Continue((ret.err.n - 1) % (MaxUint32 + 1)))

WhileBody ==
    /\ Body({"while"})
    /\ Top.i = 2
    /\ \/ GotOk /\ NextRound(ret.val)
       \/ ret.err.k = "break" /\ WhileBreak
       \/ ret.err.k = "continue" /\ WhileContinue
       \/ ret.err.k \in {"fail", "toolong"} /\ Return(ret.val, Wrap(ret.err))

\* Depths of the while values whose body is being evaluated.
WhileBodies ==
    {d \in 2..Len(frames) : /\ frames[d].pc = "body" /\ frames[d].i = 2
                            /\ prog.nodes[frames[d].node].kind = "while"}

\* The n-th of them from the inside, 0 if there are fewer.
Enclosing(n) ==
    LET meant == {d \in WhileBodies : Cardinality({e \in WhileBodies : e >= d}) = n}
    IN  IF meant = {} THEN 0 ELSE CHOOSE d \in meant : TRUE

Signal ==
    /\ Body({"break", "continue"})
    /\ IF Node.n = 0 THEN Return(Nil, Fail)
       ELSE Return(Null, IF Node.kind = "break" THEN Break(Node.n) ELSE Continue(Node.n))
    /\ aim' = Enclosing(Node.n)
    /\ UNCHANGED <<scopeVars, prog, values, cyclesLeft, out, evals>>

-----------------------------------------------------------------------------
(***************************************************************************)
(* The environment.  Children of store and proc: value and key.            *)
(***************************************************************************)

InEnv(key)  == \E p \in values : p[1] = key
Value(key)  == (CHOOSE p \in values : p[1] = key)[2]
Put(key, v) == values' = {p \in values : p[1] # key} \cup {<<key, v>>}

\* The value of a store is evaluated before its key, that of a proc never.
KeyNext ==
    \/ Body({"store", "proc"}) /\ Start /\ Kid(1) = 0 /\ Return(Nil, Fail)
    \/ Body({"store"}) /\ Start /\ Kid(1) # 0 /\ Sub([Top EXCEPT !.i = 1], Kid(1))
    \/ /\ Body({"store"}) /\ Top.i = 1 /\ GotOk /\ ret.val # Error
       /\ Sub([Top EXCEPT !.i = 2, !.acc = ret.val], Kid(2))
    \/ Body({"proc"}) /\ Start /\ Kid(1) # 0 /\ Sub([Top EXCEPT !.i = 1], Kid(2))
    \/ Body({"load"}) /\ Start /\ Sub([Top EXCEPT !.i = 1], Kid(1))

\* The running child has yielded a key that is a string.
Key == Usable /\ ret.val.t = "str" /\ (Node.kind = "store" => Top.i = 2)

BadKey ==
    /\ Body({"store", "proc", "load"})
    /\ Node.kind = "store" => Top.i = 2
    /\ GotOk /\ ~Valueless(ret.val) /\ ret.val.t # "str"
    /\ Return(ret.val, Fail)

\* The environment keeps live values live; Value() only tells their types.
Store ==
    /\ \/ Body({"store"}) /\ Key /\ ~Valueless(Top.acc) /\ Put(ret.val.s, Top.acc)
                          /\ Return(Top.acc, NoErr)
       \/ Body({"proc"}) /\ Key /\ Put(ret.val.s, Proc(Kid(1))) /\ Return(Null, NoErr)
    /\ UNCHANGED <<scopeVars, prog, cyclesLeft, out, evals, aim>>

\* A value that is a Value message is evaluated, a proc or one that came as an argument
\* or a constant; but what load yields is the stored value, the message.  (Value messages
\* that a message literal builds, or that are values of the evaluated message, are "msg"
\* here and are not evaluated; and evaluations begin with an empty environment.)
Load ==
    \/ Body({"load"}) /\ Key /\ ~InEnv(ret.val.s) /\ Return(Null, NoErr)
    \/ /\ Body({"load"}) /\ Key /\ InEnv(ret.val.s)
       /\ LET v == Value(ret.val.s)
          IN  /\ ~Valueless(v)
              /\ IF v.t = "proc"
                 THEN Sub([Top EXCEPT !.pc = "loaded", !.acc = v], v.node)
                 ELSE Return(v, NoErr)
    \/ At("loaded") /\ GotOk /\ Return(Top.acc, NoErr)

\* What a CEL program computes with: a value of its own, the arguments, argument n, for
\* which null stands where an evaluation yielded nothing, or the environment; Error when
\* there is no such argument, or computing it fails.
Operand ==
    CASE Node.code \in {"val", "store"} -> Node.val
      [] Node.code = "args" -> ArgView(Top.env)
      [] Node.code = "env" -> EnvView
      [] Node.code \in {"arg", "storeArg"} /\ HasArg(Top.env, Node.n) ->
             IF Arg(Top.env, Node.n) = Nil THEN Null ELSE Arg(Top.env, Node.n)
      [] OTHER -> Error

Stores == Node.code \in {"store", "storeArg"}

\* CEL programs, by what they do here: fail, yield that value, or store it and yield null.
Program ==
    /\ Body({"program"})
    /\ \/ Operand = Error /\ Return(Nil, Fail) /\ UNCHANGED values
       \/ Operand # Error /\ ~Stores /\ Return(Operand, NoErr) /\ UNCHANGED values
       \/ /\ Operand # Error /\ Stores /\ ~Valueless(Operand)
          /\ Put(Node.key, Operand) /\ Return(Null, NoErr)
    /\ UNCHANGED <<scopeVars, prog, cyclesLeft, out, evals, aim>>

-----------------------------------------------------------------------------
(***************************************************************************)
(* Range.  Children: the value ranged over (absent: that of the scope) and *)
(* the value for each element.                                             *)
(***************************************************************************)

\* All orders of a finite set.
Orders(S) == {o \in [1..Cardinality(S) -> S] : IsInjective(o)}

\* The iterators that can be had from value v: the pairs of second and first
\* argument to come, a position in live arguments, or the keys to come.
Iterators(v) ==
    CASE v.t = "list" -> {[over |-> "pairs", rest |->
                              [i \in DOMAIN v.elems |-> <<v.elems[i], Number(i - 1)>>]]}
      [] v.t = "map"  -> {[over |-> "pairs", rest |->
                              [i \in DOMAIN o |-> <<o[i][2], o[i][1]>>]] : o \in Orders(v.pairs)}
      [] v.t = "args" -> {[over |-> "args", scope |-> v.scope, i |-> 0,
                           pos |-> scopes[v.scope].len - 1]}
      [] v.t = "env"  -> {[over |-> "env", rest |-> o] : o \in Orders({p[1] : p \in values})}
      [] OTHER        -> {}

RangeOver(v) ==
    \/ \E it \in Iterators(v) : Goto([Top EXCEPT !.pc = "next", !.iter = it])
    \/ Iterators(v) = {} /\ v \notin {Error, Nil} /\ Return(Nil, Fail)

Range_ ==
    /\ Body({"range"})
    /\ \/ Start /\ Kid(2) = 0 /\ Return(Nil, Fail)
       \/ /\ Start /\ Kid(2) # 0
          /\ IF Kid(1) = 0 THEN RangeOver(ValueAt[Place])
                           ELSE Sub([Top EXCEPT !.i = 1], Kid(1))
       \/ GotOk /\ RangeOver(ret.val)

\* A mistake: a scope is entered beyond its last argument.
NextArgBeyond(it) ==
    IF it.pos >= 0 THEN {<<it.scope, it.pos>>}
    ELSE LET up   == Path(it.scope)
             some == {k \in 1..Len(scopes) : up[k] # 0 /\ scopes[up[k]].len > 0}
         IN  {<<up[k], scopes[up[k]].len>> : k \in {j \in some : \A m \in some : j <= m}}

\* celArgListIterator.HasNext: scope and position of the next argument, moving up
\* to the next scope that has any; none at the end.
NextArg(it) ==
    IF it.pos >= 0 THEN {<<it.scope, it.pos>>}
    ELSE LET up   == Path(it.scope)
             some == {k \in 1..Len(scopes) : up[k] # 0 /\ scopes[up[k]].len > 0}
         IN  {<<up[k], scopes[up[k]].len - 1>> : k \in {j \in some : \A m \in some : j <= m}}

\* The iterator of the environment yields the value of a key, not the key; range
\* looks up what the environment has under that.
EnvPair(key) ==
    LET k == Value(key)
    IN  <<IF k.t = "str" /\ InEnv(k.s) THEN Value(k.s) ELSE Error, k>>

\* The next pair and the iterator after it; none at the end.
NextPair(it) ==
    CASE it.over = "args" ->
            {[pair |-> <<arrays[scopes[a[1]].arr][a[2] + 1], Number(it.i)>>,
              iter |-> [it EXCEPT !.scope = a[1], !.pos = a[2] - 1, !.i = @ + 1]]
                : a \in NextArg(it)}
      [] it.over # "args" /\ it.rest = <<>> -> {}
      [] OTHER ->
            {[pair |-> IF it.over = "env" THEN EnvPair(it.rest[1]) ELSE it.rest[1],
              iter |-> [it EXCEPT !.rest = Tail(@)]]}

\* Looking up the next key asks for its Value(): that of an environment in itself.
KeyEndless(it) == it.over = "env" /\ it.rest # <<>> /\ Valueless(Value(it.rest[1]))

\* Arguments iterated over have been dropped meanwhile.
ArgGone(it) == it.over = "args" /\ \E a \in NextArg(it) : a[2] >= scopes[a[1]].len

\* The next element: its second argument is pushed first.
RangeNext ==
    /\ At("next")
    /\ ~ArgGone(Top.iter) /\ ~KeyEndless(Top.iter)
    /\ \E p \in NextPair(Top.iter) :
          /\ PushArg(Top.env, p.pair[1])
          /\ Goto([Top EXCEPT !.pc = "second", !.iter = p.iter, !.acc = p.pair[2]])

RangeEnd ==
    /\ At("next")
    /\ ~ArgGone(Top.iter)
    /\ NextPair(Top.iter) = {}
    /\ Return(Null, NoErr)

RangeSecond ==
    /\ At("second")
    /\ PushArg(Top.env, Top.acc)
    /\ Goto([Top EXCEPT !.pc = "each"])

RangeEach == At("each") /\ ret = NoRet /\ Sub(Top, Kid(2))

\* A mistake: the error of the drop takes the place of that of the evaluation.
RangeDropShadow ==
    /\ At("each") /\ ret # NoRet
    /\ DropArgs(Top.env, 2)
    /\ frames' = Append(Front(frames), [Top EXCEPT !.pc = "result"])
    /\ ret' = [ret EXCEPT !.err = NoErr]

\* The arguments are dropped whether or not the evaluation failed; an error of
\* the drop takes precedence.
RangeDrop ==
    /\ At("each") /\ ret # NoRet
    /\ DropArgs(Top.env, 2)
    /\ frames' = Append(Front(frames), [Top EXCEPT !.pc = "result"])
    /\ UNCHANGED ret

RangeDropFails ==
    /\ At("each") /\ ret # NoRet
    /\ ~CanDrop(Top.env, 2)
    /\ Return(Nil, Fail)

RangeResult ==
    /\ At("result")
    /\ \/ GotErr /\ Return(ret.val, Wrap(ret.err))
       \/ GotOk /\ ret.val # Null /\ Return(ret.val, NoErr)
       \/ Is(Null) /\ Goto([Top EXCEPT !.pc = "next"])

-----------------------------------------------------------------------------

\* The places where Go panics, or its stack overflows: an absent Value, the default of an
\* aggregate not in a message, an unhashable key, an argument that is gone, and asking for
\* the Value() of nothing or of an environment in itself.
Panics ==
    \/ At("scope") /\ cyclesLeft > 0 /\ Top.node \notin DOMAIN prog.nodes
    \/ Body({"default"}) /\ ~HasDefault
    \/ Body({"map"}) /\ Top.i % 2 = 1 /\ Usable /\ ~GoodKey
    \/ At("next") /\ (ArgGone(Top.iter) \/ KeyEndless(Top.iter))
    \/ Body({"list", "map", "message", "proc", "load"}) /\ GotOk /\ Valueless(ret.val)
    \/ Body({"range"}) /\ Top.i = 1 /\ Is(Nil)
    \/ /\ Body({"store"}) /\ Top.i = 2
       /\ (GotOk /\ Valueless(ret.val)) \/ (Key /\ Valueless(Top.acc))
    \/ Body({"load"}) /\ Key /\ InEnv(ret.val.s) /\ Valueless(Value(ret.val.s))
    \/ Body({"program"}) /\ Operand # Error /\ Stores /\ Valueless(Operand)
    \/ At("init") /\ GotOk /\ Valueless(ret.val)

Panic ==
    /\ Panics
    /\ out' = [NoRet EXCEPT !.st = "panic"]
    /\ UNCHANGED <<scopeVars, frames, ret, prog, values, cyclesLeft, evals, aim>>

\* Steps that change nothing but the stack of evaluations.
StackStep ==
    /\ \/ InitCall \/ Refuse \/ DropFails \/ ArgCall \/ ArgFails
       \/ ScopeValue \/ ArgValue \/ Default \/ Const \/ AtRoot \/ ParentValue
       \/ PassError \/ PassErrorValue \/ NotBool
       \/ ListValue \/ MapValue \/ Message
       \/ Not \/ Connective \/ Sequence \/ Switch \/ WhileCondition \/ WhileBody
       \/ KeyNext \/ BadKey \/ Load
       \/ Range_ \/ RangeEnd \/ RangeEach \/ RangeDropFails \/ RangeResult
    /\ UNCHANGED <<scopeVars, machine>>

\* Steps that also change scopes and arguments.
ScopeStep ==
    /\ \/ InitPush \/ Drop \/ ArgPush \/ Parent \/ RangeNext \/ RangeSecond \/ RangeDrop
    /\ UNCHANGED machine

Step == StackStep \/ ScopeStep \/ Enter \/ Signal \/ Store \/ Program \/ Panic \/ End

\* The calls of Eval are over, or the program has crashed.
Over ==
    /\ out.st = "panic" \/ (out.st # "running" /\ evals = prog.evals)
    /\ UNCHANGED vars

Next == Begin \/ Step \/ Over

Spec == Init /\ [][Next]_vars

\* eval runs in the goroutine of its caller and waits for nobody.
FairSpec == Spec /\ WF_vars(Step)
=============================================================================
