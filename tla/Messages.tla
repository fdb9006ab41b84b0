------------------------------ MODULE Messages ------------------------------
(***************************************************************************)
(* A message as eval builds it and as scopes look at it: one of its fields *)
(* is given a value (Value.Message, go2protofd), and a path leads into it  *)
(* (Value.Scope, shiftStep), from where defaults and CEL scopes are taken. *)
(* chain holds the current scope and those it came from, the root first;   *)
(* a scope is the field descriptor that led to it and a value.             *)
(***************************************************************************)
EXTENDS Proto, SequencesExt

CONSTANTS
    Roots,          \* types of the message
    Lists, Maps,    \* literals: [kind, type, elems], [key, kind, type, pairs]
    Simple,         \* other values a field can be given
    Steps,          \* steps of a path
    MaxDepth        \* bound on the length of chain

VARIABLES
    saturates,      \* the machine: whether conversions of floats saturate
    chain,          \* scopes, <<>> before the message is complete
    status,         \* "ok", "fail" (an error was returned) or "panic"
    given           \* history: the field just assigned, what was written as its
                    \* value and what that yields; <<>> at other times

vars == <<saturates, chain, status, given>>

NoField == [name |-> "", card |-> "root"]

\* The contents of a field that is not set.
Zero(fd) ==
    CASE fd.card = "list" -> [t |-> "list", elems |-> <<>>]
      [] fd.card = "map"  -> [t |-> "map", entries |-> {}]
      [] fd.kind = "MESSAGE" -> Message(fd.type, <<>>)
      [] fd.kind = "BOOL"    -> Bool(FALSE)
      [] fd.kind \in {"STRING", "BYTES"} -> Text(FieldType(fd), Word(""))
      [] OTHER -> Num(FieldType(fd), 0)

Get(m, fd) == IF fd.name \in DOMAIN m.fields THEN m.fields[fd.name] ELSE Zero(fd)

\* One level of Any is unwrapped; an empty one, or one of an unknown type, fails.
Unwrapped(m) ==
    IF m.t # "Any" THEN {m}
    ELSE {m.fields[f] : f \in DOMAIN m.fields \cap {"content"}}

-----------------------------------------------------------------------------
(***************************************************************************)
(* shiftStep.  A step is by a string s, a number of h halves, a boolean b  *)
(* or null, which selects nothing.                                         *)
(***************************************************************************)

\* strconv.ParseInt and ParseUint with base 0, and ParseBool.
ParseInt(s, T) ==
    {s[form] : form \in DOMAIN s \cap (IF T \in Signed THEN {"dec", "num", "plus"}
                                                     ELSE {"dec", "num"})}
        \cap Low(T)..High(T)

ParseBool(s) ==
    {b \in BOOLEAN : s \in IF b THEN {Word("true"), Word("True"), Decimal(1)}
                                ELSE {Word("false"), Word("False"), Decimal(0)}}

\* A mistake: the number is not compared with what it was before.
NumberAsAny(T, h) == {ToInteger(T, h, saturates)}

\* The number as an integer of type T, unless that changes it.
NumberAs(T, h) ==
    {n \in {ToInteger(T, h, saturates)} : ToFloat("float64", 2 * n) = h}

\* The fields of a message that a step selects, and the keys of a map.
FieldsBy(step, T) ==
    {fd \in MsgTypes[T] :
        \/ step.by = "string" /\ step.s = Word(fd.name)
        \/ step.by = "number" /\ fd.number \in NumberAs("int32", step.h)}

KeysBy(step, K) ==
    CASE step.by = "string" /\ K = "string" -> {Text(K, step.s)}
      [] step.by = "string" /\ K = "bool"   -> {Bool(b) : b \in ParseBool(step.s)}
      [] step.by = "string" /\ K \in Ints   -> {Num(K, n) : n \in ParseInt(step.s, K)}
      [] step.by = "number" /\ K \in Ints   -> {Num(K, n) : n \in NumberAs(K, step.h)}
      [] step.by = "bool" /\ K = "bool"     -> {Bool(step.b)}
      [] OTHER -> {}

InMessage(node, step) ==
    {[desc |-> p[2], val |-> Get(p[1], p[2])] :
        p \in {q \in UNION {{m} \X FieldsBy(step, m.t) : m \in Unwrapped(node.val)} :
                  q[2].presence => q[2].name \in DOMAIN q[1].fields}}

InMap(node, step) ==
    {[desc |-> node.desc, val |-> e[2]] :
        e \in {e \in node.val.entries : e[1] \in KeysBy(step, KeyType(node.desc))}}

InList(node, step) ==
    {[desc |-> node.desc, val |-> node.val.elems[i + 1]] :
        i \in {i \in IF step.by = "number" THEN NumberAs("int64", step.h) ELSE {} :
                  i \in 0..(Len(node.val.elems) - 1)}}

\* The scope a step leads to from a scope, if any.
ShiftStep(node, step) ==
    CASE node.val.t \in DOMAIN MsgTypes -> InMessage(node, step)
      [] node.val.t = "map"  -> InMap(node, step)
      [] node.val.t = "list" -> InList(node, step)
      [] OTHER -> {}

-----------------------------------------------------------------------------
(***************************************************************************)
(* What is read from a scope.                                              *)
(***************************************************************************)

Null == Num("null", 0)

\* A mistake: the message at the root is asked.
DefaultOfRoot(d) ==
    CASE chain[d].val.t \in DOMAIN MsgTypes -> Message(chain[d].val.t, <<>>)
      [] chain[d].val.t \in {"list", "map"} ->
            IF chain[d].desc \in MsgTypes[chain[1].val.t] THEN Zero(chain[d].desc) ELSE Panic
      [] OTHER -> IF chain[d].desc.card = "one" THEN Zero(chain[d].desc) ELSE Null

\* DefaultValue at depth d: a list or map asks the message of the parent scope for
\* its field, which panics if there is none; no default is null.
DefaultValue(d) ==
    LET node   == chain[d]
        parent == chain[d - 1].val
    IN  CASE node.val.t \in DOMAIN MsgTypes -> Message(node.val.t, <<>>)
          [] node.val.t \in {"list", "map"} ->
                IF parent.t \in DOMAIN MsgTypes /\ node.desc \in MsgTypes[parent.t]
                THEN Zero(node.desc) ELSE Panic
          [] OTHER -> IF node.desc.card = "one" THEN Zero(node.desc) ELSE Null

\* value2any: a value travels to CEL in the wrapper of its type, an enum number in
\* that of int32.
Wrapper(x) == IF x.t = "enum" THEN Num("int32", x.v) ELSE x

\* A mistake: booleans as numbers, false first.
CelKeyNumbered(k) ==
    CASE k.t = "string" -> k.s
      [] k.t = "bool"   -> Decimal(IF k.b THEN 0 ELSE 1)
      [] OTHER          -> Decimal(k.v)

CelKey(k) ==
    CASE k.t = "string" -> k.s
      [] k.t = "bool"   -> Word(IF k.b THEN "True" ELSE "False")
      [] OTHER          -> Decimal(k.v)

\* scope2cel for the scope at depth d: its own part of the message for CEL.
CelScope(d) ==
    LET x == chain[d].val
    IN  [desc  |-> chain[d].desc,
         value |-> IF x.t \in {"list", "map"} THEN {} ELSE {Wrapper(x)},
         list  |-> IF x.t = "list" THEN [i \in DOMAIN x.elems |-> Wrapper(x.elems[i])] ELSE <<>>,
         map   |-> IF x.t = "map" THEN {<<CelKey(e[1]), Wrapper(e[2])>> : e \in x.entries} ELSE {}]

-----------------------------------------------------------------------------

Init ==
    /\ saturates \in BOOLEAN
    /\ chain = <<>>
    /\ status = "ok"
    /\ given = <<>>

\* Field fd of a new message of type T is given x, for which
\* there is a literal or not; if that fails there is no message.
Assign(T, fd, literal, x) ==
    /\ status = "ok" /\ chain = <<>>
    /\ given' = <<fd, literal, x>>
    /\ \E y \in (IF x = Fail THEN {Fail} ELSE AsField(x, fd, saturates)) :
          IF y \in {Fail, Panic} THEN status' = y.t /\ UNCHANGED chain
          ELSE /\ chain' = <<[desc |-> NoField, val |-> Message(T, fd.name :> y)]>>
               /\ UNCHANGED status
    /\ UNCHANGED saturates

ListValue(T, fd, l) == Assign(T, fd, l, ListLiteral(l.kind, l.type, l.elems, saturates))

MapValue(T, fd, l) == Assign(T, fd, l, MapLiteral(l.key, l.kind, l.type, l.pairs, saturates))

InScope == status = "ok" /\ chain # <<>>

\* An empty path.
Same ==
    /\ InScope /\ Len(chain) < MaxDepth
    /\ chain' = Append(chain, Last(chain))
    /\ given' = <<>>
    /\ UNCHANGED <<saturates, status>>

Shift(step) ==
    /\ InScope /\ Len(chain) < MaxDepth
    /\ LET nodes == ShiftStep(Last(chain), step)
       IN  \/ \E n \in nodes : chain' = Append(chain, n) /\ UNCHANGED status
           \/ nodes = {} /\ status' = "fail" /\ UNCHANGED chain
    /\ given' = <<>>
    /\ UNCHANGED saturates

ShiftToParent ==
    /\ InScope /\ Len(chain) > 1
    /\ chain' = Front(chain)
    /\ given' = <<>>
    /\ UNCHANGED <<saturates, status>>

Over == (status # "ok" \/ Len(chain) = MaxDepth) /\ UNCHANGED vars

Next ==
    \/ \E T \in Roots : \E fd \in MsgTypes[T] :
          \/ \E l \in Lists : ListValue(T, fd, l)
          \/ \E l \in Maps : MapValue(T, fd, l)
          \/ \E x \in Simple : Assign(T, fd, x, x)
    \/ Same
    \/ \E step \in Steps : Shift(step)
    \/ ShiftToParent
    \/ Over

Spec == Init /\ [][Next]_vars

-----------------------------------------------------------------------------
(***************************************************************************)
(* Properties.                                                             *)
(***************************************************************************)

Conforms(x, T) ==
    /\ x.t = T
    /\ T \in Ints => x.v \in Low(T)..High(T)
    /\ T \in Floats => ToFloat(T, x.v) = x.v

FieldConforms(x, fd) ==
    CASE x.t = "list" -> \A i \in DOMAIN x.elems : Conforms(x.elems[i], FieldType(fd))
      [] x.t = "map"  -> \A e \in x.entries : /\ Conforms(e[1], KeyType(fd))
                                              /\ Conforms(e[2], FieldType(fd))
      [] OTHER        -> Conforms(x, FieldType(fd))

\* Type invariant: whatever a field is given, narrowed, rounded or turned into a
\* character, the message and all that paths find in it have the declared types,
\* and a map has one value for a key.
TypeOK ==
    \A d \in DOMAIN chain :
        /\ chain[d].desc # NoField => FieldConforms(chain[d].val, chain[d].desc)
        /\ chain[d].desc = NoField => chain[d].val.t \in DOMAIN MsgTypes
        /\ chain[d].val.t = "map" =>
              \A e, f \in chain[d].val.entries : e[1] = f[1] => e = f

\* Message, List and Map of value.proto: "The types of the values must match the
\* message field types": a list or map literal written with the kind and type of
\* the field is accepted and arrives unchanged, whatever the kind.
SameKindFits ==
    given # <<>> /\ given[3] # Fail =>
        LET fd  == given[1]
            l   == given[2]
            x   == given[3]
            now == chain[1].val.fields[fd.name]
        IN  /\ /\ x.t = "slice" /\ fd.card = "list" /\ l.kind = fd.kind /\ l.type = fd.type
               => chain # <<>> /\ now.elems = x.elems
            /\ /\ x.t = "gomap" /\ fd.card = "map"
               /\ l.key = fd.key /\ l.kind = fd.kind /\ l.type = fd.type
               => chain # <<>> /\ now.entries = x.entries

\* What a number or string means as a number, without widths and precision.
NumberOf(step) ==
    CASE step.by = "number" -> {n \in {Truncated(step.h)} : 2 * n = step.h}
      [] step.by = "string" -> {step.s[form] : form \in DOMAIN step.s \cap {"dec", "num", "plus"}}
      [] OTHER -> {}

\* What field scope of value.proto says a step selects from a value: a field by
\* name or number, an entry by its key, an element by its index.
Named(x, step) ==
    CASE x.t \in DOMAIN MsgTypes ->
            UNION {{Get(m, fd) : fd \in {fd \in MsgTypes[m.t] :
                        /\ \/ step.by = "string" /\ step.s = Word(fd.name)
                           \/ step.by = "number" /\ fd.number \in NumberOf(step)
                        /\ fd.presence => fd.name \in DOMAIN m.fields}} : m \in Unwrapped(x)}
      [] x.t = "map" ->
            {e[2] : e \in {e \in x.entries :
                \/ step.by = "string" /\ e[1].t = "string" /\ e[1].s = step.s
                \/ e[1].t \in Ints /\ e[1].v \in NumberOf(step)
                \/ e[1].t = "bool" /\ \/ step.by = "bool" /\ e[1].b = step.b
                                      \/ step.by = "string" /\ e[1].b \in ParseBool(step.s)}}
      [] x.t = "list" ->
            {x.elems[i] : i \in {i \in DOMAIN x.elems :
                                    step.by = "number" /\ i - 1 \in NumberOf(step)}}
      [] OTHER -> {}

\* The doubles 2^63 and 2^64, which machines that saturate take for the largest
\* int64 and uint64: converted back, these round to the same double.
Boundary(step) ==
    /\ saturates
    /\ step.by = "number"
    /\ step.h \in {2 * (High("int64") + 1), 2 * (High("uint64") + 1)}

\* Field scope of value.proto: a path selects exactly what its steps name; a number
\* that is not losslessly convertible selects nothing; what is there is found, but
\* for fields that are not set and signs before unsigned keys.
StepSelects ==
    InScope => \A step \in Steps :
        LET to    == {n.val : n \in ShiftStep(Last(chain), step)}
            named == Named(Last(chain).val, step)
        IN  \/ to = named
            \/ Boundary(step)
            \/ to = {} /\ step.by = "string" /\ "plus" \in DOMAIN step.s

\* The key under which a CEL program sees an entry of a map, used as a step, leads
\* to that entry and no other: no two keys get the same string, and every key
\* reads back as itself.
CelKeyLeadsBack ==
    \A d \in DOMAIN chain :
        chain[d].val.t = "map" =>
            \A e \in chain[d].val.entries :
                /\ ShiftStep(chain[d], [by |-> "string", s |-> CelKey(e[1])])
                      = {[desc |-> chain[d].desc, val |-> e[2]]}
                /\ <<CelKey(e[1]), Wrapper(e[2])>> \in CelScope(d).map

\* Field default of value.proto: the default of a scope fits the field that led
\* there; there is none (and Go panics) for a list or map after an empty path or
\* inside an Any, and null for a scalar element of a list or map.
DefaultFits ==
    \A d \in DOMAIN chain \ {1} :
        LET v == DefaultValue(d)
        IN  CASE v = Panic -> /\ chain[d].val.t \in {"list", "map"}
                              /\ chain[d - 1] = chain[d] \/ chain[d - 1].val.t = "Any"
              [] v = Null  -> chain[d].desc.card # "one"
              [] chain[d].desc = NoField -> v.t = chain[d].val.t
              [] OTHER     -> FieldConforms(v, chain[d].desc)
=============================================================================
