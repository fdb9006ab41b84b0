---------------------------- MODULE PurePrograms ----------------------------
(***************************************************************************)
(* All trees of a pure value (node 1) over another one (node 2) and        *)
(* constants (nodes 3 to 5).                                               *)
(***************************************************************************)
EXTENDS EvalPrograms

Leaves == {True_, False_, One, Const_(Error)}

Shapes(a, b, c) ==
    {Of(kind, kids) : kind \in {"allOf", "anyOf", "seq", "list"}, kids \in {<<a, b>>, <<b, a, c>>}}
        \cup {Of("not", <<a>>), Of("allOf", <<>>), Of("anyOf", <<>>), Of("list", <<>>)}
        \cup {Of("switch", kids) : kids \in {<<a, b, c, a, 0>>, <<b, c, b, a, a>>, <<b, a, c>>}}

Pure ==
    {Once(<<root, inner, x, y, z>>) :
        root \in Shapes(2, 3, 4), inner \in Shapes(3, 4, 5), x, y, z \in Leaves}
=============================================================================
