------------------------------ MODULE AstCache ------------------------------
(***************************************************************************)
(* What a cache of syntax trees promises its callers: each code gets one   *)
(* tree, once and for all, and whoever asks for that code gets that tree.  *)
(***************************************************************************)
CONSTANTS Codes, NoAst

VARIABLES
    entry,      \* the tree of each code, NoAst as long as nobody needed it
    given       \* the <<code, tree>> pairs that callers have received

vars == <<entry, given>>

Init ==
    /\ entry = [k \in Codes |-> NoAst]
    /\ given = {}

\* A code gets its tree.
Fill(k) ==
    /\ entry[k] = NoAst
    /\ entry'[k] # NoAst
    /\ entry' = [entry EXCEPT ![k] = entry'[k]]
    /\ UNCHANGED given

\* A caller receives the tree of its code.
Give(k) ==
    /\ entry[k] # NoAst
    /\ given' = given \cup {<<k, entry[k]>>}
    /\ UNCHANGED entry

Next == \E k \in Codes : Fill(k) \/ Give(k)

Spec == Init /\ [][Next]_vars
=============================================================================
