------------------------------- MODULE Values -------------------------------
(***************************************************************************)
(* The values an evaluation computes (ref.Val) and the errors it returns   *)
(* next to them.  The payload of every type has a field name of its own.   *)
(***************************************************************************)
EXTENDS Integers

Nil         == [t |-> "nil"]                       \* no ref.Val at all
Null        == [t |-> "null"]                      \* types.NullValue
Bool(b)     == [t |-> "bool",  b |-> b]
Number(n)   == [t |-> "int",   n |-> n]
Str(s)      == [t |-> "str",   s |-> s]
List(elems) == [t |-> "list",  elems |-> elems]    \* a sequence
Map(pairs)  == [t |-> "map",   pairs |-> pairs]    \* a set of <<key, value>>
Msg(fields) == [t |-> "msg",   fields |-> fields]  \* a set of <<name, value>>
Error       == [t |-> "error"]                     \* a CEL error value
ArgView(s)  == [t |-> "args",  scope |-> s]        \* celArgList of scope s
EnvView     == [t |-> "env"]                       \* celEnv
Proc(k)     == [t |-> "proc",  node |-> k]         \* the Value message at node k

\* Go maps cannot have slices and maps as keys.
Hashable(v) == v.t \notin {"list", "map", "args", "env"}

(***************************************************************************)
(* reflect's conversion of what Value() made of a value, which is never    *)
(* live, to a list element, map key or map value type: the heterogeneous   *)
(* type "any" takes it as it is; null is an integer for Go                 *)
(* (structpb.NullValue).                                                   *)
(***************************************************************************)
ConvertibleTo(v, typ) ==
    \/ typ = "any"
    \/ v.t = typ
    \/ typ = "int" /\ v.t = "null"

Convert(v, typ) == IF typ = "int" /\ v.t = "null" THEN Number(0) ELSE v

(***************************************************************************)
(* Errors.  n is the number of while values a break or continue still has  *)
(* to count, wrapped tells an error inside another one (%w) from itself.   *)
(***************************************************************************)
NoErr       == [k |-> "none",    n |-> 0, wrapped |-> FALSE]
Fail        == [k |-> "fail",    n |-> 0, wrapped |-> FALSE]
TooLong     == [k |-> "toolong", n |-> 0, wrapped |-> FALSE]
Break(n)    == [k |-> "break",   n |-> n, wrapped |-> FALSE]
Continue(n) == [k |-> "continue", n |-> n, wrapped |-> FALSE]

Wrap(e) == [e EXCEPT !.wrapped = TRUE]
=============================================================================
