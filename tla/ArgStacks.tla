----------------------------- MODULE ArgStacks -----------------------------
(***************************************************************************)
(* What value.proto (fields drop_args, args and scope of Value) promises   *)
(* about arguments, without slices and arrays: every scope has a stack of  *)
(* its own; a push extends the stack of the current scope and no other; a  *)
(* drop takes the newest arguments visible from the current scope; entering*)
(* a scope, calling and returning leave every stack alone.                 *)
(***************************************************************************)
EXTENDS Integers, Sequences, SequencesExt

CONSTANT Vals       \* argument values

VARIABLES
    stacks,         \* per scope, its own arguments, the newest last
    parent,         \* per scope, the scope it was entered from, 0 for the root
    frames          \* the scope of every active evaluation, outermost first

vars == <<stacks, parent, frames>>

Current == Last(frames)

\* The scopes whose arguments are visible from s: the smallest set with s and the
\* parents of its members.
Walk(s) ==
    {t \in DOMAIN parent :
        \A W \in SUBSET DOMAIN parent :
            s \in W /\ (\A u \in W : parent[u] # 0 => parent[u] \in W) => t \in W}

-----------------------------------------------------------------------------

Init ==
    /\ stacks = << <<>> >>
    /\ parent = <<0>>
    /\ frames = <<>>

\* Evaluation starts in the root scope, or in the scope of the enclosing one.
Call ==
    /\ frames' = Append(frames, IF frames = <<>> THEN 1 ELSE Current)
    /\ UNCHANGED <<stacks, parent>>

Return ==
    /\ frames # <<>>
    /\ frames' = Front(frames)
    /\ UNCHANGED <<stacks, parent>>

\* Subscopes, one below the other, start with empty stacks; the last of them becomes
\* current.
Enter ==
    /\ frames # <<>>
    /\ Len(stacks') > Len(stacks)
    /\ stacks' = stacks \o [i \in 1..(Len(stacks') - Len(stacks)) |-> <<>>]
    /\ parent' = parent \o [i \in 1..(Len(stacks') - Len(stacks)) |->
                               IF i = 1 THEN Current ELSE Len(stacks) + i - 1]
    /\ frames' = [frames EXCEPT ![Len(frames)] = Len(stacks')]

\* Argument v becomes argument 0 of the current scope.
Push(v) ==
    /\ frames # <<>>
    /\ stacks' = [stacks EXCEPT ![Current] = Append(@, v)]
    /\ UNCHANGED <<parent, frames>>

\* The newest of the visible arguments go: stacks are cut at the top, and one only when
\* those between it and the current scope are empty.
Drop ==
    /\ frames # <<>>
    /\ DOMAIN stacks' = DOMAIN stacks
    /\ \A s \in DOMAIN stacks :
          /\ IsPrefix(stacks'[s], stacks[s])
          /\ stacks'[s] # stacks[s] =>
                /\ s \in Walk(Current)
                /\ \A t \in Walk(Current) : t > s => stacks'[t] = <<>>
    /\ UNCHANGED <<parent, frames>>

Next ==
    \/ Call
    \/ Return
    \/ Enter
    \/ \E v \in Vals : Push(v)
    \/ Drop

Spec == Init /\ [][Next]_vars
=============================================================================
