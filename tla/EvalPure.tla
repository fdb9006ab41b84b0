------------------------------ MODULE EvalPure ------------------------------
(***************************************************************************)
(* What value.proto says the values of not, all_of, any_of, seq, switch    *)
(* and list are, as a recursive definition without a machine.  A meaning   *)
(* is a value, or "no" for an error, and the number of evaluations spent.  *)
(***************************************************************************)
EXTENDS EvalProperties, EvalPrograms

RECURSIVE Meaning(_, _)

No == [t |-> "no"]

\* The meanings of kids in order up to and including the first that stop picks.
Prefix(nodes, kids, stop(_)) ==
    LET all   == [i \in DOMAIN kids |-> Meaning(nodes, kids[i])]
        stops == {i \in DOMAIN kids : stop(all[i].val)}
        upto  == IF stops = {} THEN Len(kids) ELSE CHOOSE i \in stops : \A j \in stops : i <= j
    IN  SubSeq(all, 1, upto)

Costs(meanings) == FoldSeq(LAMBDA m, c : m.cost + c, 1, meanings)

\* A condition or operand in the place of a boolean.
AsBool(v) == IF v.t \in {"bool", "error"} THEN v ELSE No

Fatal(v) == v.t \in {"no", "error"}

Meaning(nodes, k) ==
    LET node == nodes[k]
        kids == node.kids
    IN  CASE node.kind = "const" -> [val |-> node.val, cost |-> 1]
          [] node.kind = "not" ->
                LET m == Meaning(nodes, kids[1])
                    v == AsBool(m.val)
                IN  [val |-> IF v.t = "bool" THEN Bool(~v.b) ELSE v, cost |-> m.cost + 1]
          [] node.kind \in {"allOf", "anyOf"} ->
                LET neutral == Bool(node.kind = "allOf")
                    ms == Prefix(nodes, kids, LAMBDA v : v # neutral)
                IN  [val  |-> IF ms = <<>> THEN neutral ELSE AsBool(Last(ms).val),
                     cost |-> Costs(ms)]
          [] node.kind = "seq" ->
                LET ms == Prefix(nodes, kids, Fatal)
                IN  [val |-> Last(ms).val, cost |-> Costs(ms)]
          [] node.kind = "list" ->
                LET ms == Prefix(nodes, kids, Fatal)
                IN  [val  |-> IF ms # <<>> /\ Fatal(Last(ms).val) THEN Last(ms).val
                              ELSE List([i \in DOMAIN ms |-> ms[i].val]),
                     cost |-> Costs(ms)]
          [] node.kind = "switch" ->
                LET cases == [j \in 1..(Len(kids) \div 2) |-> kids[2 * j - 1]]
                    ms    == Prefix(nodes, cases, LAMBDA v : v # Bool(FALSE))
                    chosen == IF ms # <<>> /\ Last(ms).val # Bool(FALSE)
                              THEN IF Last(ms).val = Bool(TRUE) THEN kids[2 * Len(ms)] ELSE 0
                              ELSE Last(kids)
                    rest  == IF chosen = 0 THEN [val |-> Null, cost |-> 0]
                             ELSE Meaning(nodes, chosen)
                IN  [val  |-> IF chosen = 0 /\ ms # <<>> /\ Last(ms).val # Bool(FALSE)
                              THEN IF Last(ms).val = Error THEN Error ELSE No
                              ELSE rest.val,
                     cost |-> Costs(ms) + rest.cost]

\* Programs of these values alone, without arguments, types of lists and absent
\* values.
HasMeaning ==
    /\ prog.args = <<>>
    /\ \A k \in DOMAIN prog.nodes :
           LET node == prog.nodes[k]
           IN  /\ node.kind \in {"const", "not", "allOf", "anyOf", "seq", "list", "switch"}
               /\ node = [node EXCEPT !.scope = <<>>, !.args = <<>>, !.drop = 0, !.typ = "any"]
               /\ node.kind = "seq" => node.kids # <<>>
               /\ \A i \in DOMAIN node.kids :
                     node.kids[i] = 0 => node.kind = "switch" /\ i = Len(node.kids)

\* Documentation of not, all_of, any_of, seq, switch and List in value.proto: the
\* machine computes that value, or fails where that fails, and evaluates no
\* sub-value that is to be ignored.
AgreesWithMeaning ==
    out.st \in {"ok", "err"} /\ HasMeaning =>
        LET m == Meaning(prog.nodes, 1)
        IN  /\ out.st = "err" <=> Fatal(m.val)
            /\ out.st = "ok" => out.val = IF m.val = Null THEN Nil ELSE m.val
            /\ EvalMax - cyclesLeft = m.cost
            /\ out.err.k # "toolong"
=============================================================================
