------------------------------- MODULE Scope -------------------------------
(***************************************************************************)
(* The scope tree of scope.go and its argument stacks.                     *)
(*                                                                         *)
(* A scope is a node with a parent pointer, the place of its value in the  *)
(* evaluated message (loc stands for the pair desc/value) and a Go slice   *)
(* args.  The slice is a window of length len on a backing array, because  *)
(* copying a scope structure (ShiftToParent) copies the window and shares  *)
(* the array.  Node 1 is Env.scope; address 0 is the nil pointer, and      *)
(* array 0 the nil slice.                                                  *)
(***************************************************************************)
EXTENDS Integers, Sequences, SequencesExt

CONSTANTS
    ZeroArg,    \* what an array slot holds before it is first assigned
    MaxInt32    \* math.MaxInt32, the largest argument number

ASSUME MaxInt32Assumption == MaxInt32 \in Nat

VARIABLES
    arrays,         \* the backing arrays, by address
    scopes          \* the scope nodes, by address

scopeVars == <<arrays, scopes>>

Cap(a) == IF a = 0 THEN 0 ELSE Len(arrays[a])

\* The arguments of node s alone, oldest first.
OwnArgs(s) == [i \in 1..scopes[s].len |-> arrays[scopes[s].arr][i]]

(***************************************************************************)
(* The walk of dropArgs, arg, length and scope2cel towards the root:       *)
(* Path(s)[k] is the k-th node visited (0 once past the root) and          *)
(* Held(s)[k] the number of arguments in the nodes visited before it.      *)
(***************************************************************************)
Path(s) ==
    LET up[k \in 0..Len(scopes)] ==
            IF k = 0 THEN s
            ELSE IF up[k - 1] = 0 THEN 0 ELSE scopes[up[k - 1]].parent
    IN  up

Held(s) ==
    LET up == Path(s)
        held[k \in 0..Len(scopes)] ==
            IF k = 0 THEN 0
            ELSE held[k - 1] + (IF up[k - 1] = 0 THEN 0 ELSE scopes[up[k - 1]].len)
    IN  held

\* View(s)[k] lists the arguments in the nodes visited before the k-th, argument 0 first.
View(s) ==
    LET up == Path(s)
        view[k \in 0..Len(scopes)] ==
            IF k = 0 THEN <<>>
            ELSE view[k - 1] \o
                 (IF up[k - 1] = 0 THEN <<>> ELSE Reverse(OwnArgs(up[k - 1])))
    IN  view

\* All arguments visible from s.
Visible(s) == View(s)[Len(scopes)]

-----------------------------------------------------------------------------
(***************************************************************************)
(* Arguments.                                                              *)
(***************************************************************************)

\* The nodes of the walk at which argument n of s lies.
ArgAt(s, n) ==
    {k \in 0..Len(scopes) :
        /\ Path(s)[k] # 0
        /\ n - Held(s)[k] \in 0..(scopes[Path(s)[k]].len - 1)}

\* Whether scope.Arg returns an argument.
HasArg(s, n) == n <= MaxInt32 /\ ArgAt(s, n) # {}

\* A mistake: arguments counted from the oldest.
ArgFromOldest(s, n) ==
    LET k == CHOOSE k \in ArgAt(s, n) : TRUE
    IN  arrays[scopes[Path(s)[k]].arr][n - Held(s)[k] + 1]

Arg(s, n) ==
    LET k    == CHOOSE k \in ArgAt(s, n) : TRUE
        node == scopes[Path(s)[k]]
    IN  arrays[node.arr][node.len - (n - Held(s)[k])]

\* The capacity append chooses when a full array of n elements overflows.
Grown(n) == IF n = 0 THEN 1 ELSE 2 * n

PushArg(s, v) ==
    LET a == scopes[s].arr
        n == scopes[s].len
    IN  \/ /\ n < Cap(a)
           /\ arrays' = [arrays EXCEPT ![a] = [@ EXCEPT ![n + 1] = v]]
           /\ scopes' = [scopes EXCEPT ![s] = [@ EXCEPT !.len = n + 1]]
        \/ /\ n >= Cap(a)
           /\ arrays' = Append(arrays,
                 [i \in 1..Grown(n) |-> IF i <= n THEN arrays[a][i]
                                        ELSE IF i = n + 1 THEN v ELSE ZeroArg])
           /\ scopes' = [scopes EXCEPT ![s] =
                            [@ EXCEPT !.arr = Len(arrays) + 1, !.len = n + 1]]

\* The nodes of the walk at which dropping n arguments from s can end.
DropEnds(s, n) ==
    {k \in 0..Len(scopes) :
        /\ n <= MaxInt32
        /\ Path(s)[k] # 0
        /\ n - Held(s)[k] \in 0..scopes[Path(s)[k]].len}

CanDrop(s, n) == DropEnds(s, n) # {}

\* Mistakes: parents left alone, and scopes passed through left alone.
DropOwnArgs(s, n) ==
    /\ scopes' = [scopes EXCEPT ![s] = [@ EXCEPT !.len = @ - n]]
    /\ UNCHANGED arrays

DropLastArgs(s, n) ==
    /\ \E k \in DropEnds(s, n) :
          scopes' = [scopes EXCEPT ![Path(s)[k]] = [@ EXCEPT !.len = @ - (n - Held(s)[k])]]
    /\ UNCHANGED arrays

\* Scopes the drop passes through lose their slice; the one it ends in is cut.
DropArgs(s, n) ==
    /\ \E k \in DropEnds(s, n) :
          /\ \A j \in DropEnds(s, n) : k <= j
          /\ scopes' = [t \in DOMAIN scopes |->
                IF t = Path(s)[k]
                THEN [scopes[t] EXCEPT !.len = @ - (n - Held(s)[k])]
                ELSE IF \E j \in 0..(k - 1) : Path(s)[j] = t
                THEN [scopes[t] EXCEPT !.arr = 0, !.len = 0]
                ELSE scopes[t]]
    /\ UNCHANGED arrays

-----------------------------------------------------------------------------
(***************************************************************************)
(* Moving in the tree.  Both operations leave the new current scope at the *)
(* address NewScope.                                                       *)
(***************************************************************************)

\* A mistake: new nodes begin as copies of the current one.
ShiftWithArgs(s, locs) ==
    /\ scopes' = scopes \o
          [i \in 1..Len(locs) |->
              [scopes[s] EXCEPT !.loc = locs[i],
                                !.parent = IF i = 1 THEN s ELSE Len(scopes) + i - 1]]
    /\ UNCHANGED arrays

\* Every step of a path allocates a node below the previous one; an empty path
\* allocates one node for the same value.  locs are the places passed through.
Shift(s, locs) ==
    /\ scopes' = scopes \o
          [i \in 1..Len(locs) |->
              [arr    |-> 0, len |-> 0, loc |-> locs[i],
               parent |-> IF i = 1 THEN s ELSE Len(scopes) + i - 1]]
    /\ UNCHANGED arrays

ShiftToParent(s) ==
    /\ scopes[s].parent # 0
    /\ scopes' = Append(scopes, scopes[scopes[s].parent])
    /\ UNCHANGED arrays

NewScope == Len(scopes')

\* Init makes node 1 the root scope of a message; it does not touch its args.
InitRoot(loc) ==
    scopes' = [scopes EXCEPT ![1] = [@ EXCEPT !.loc = loc, !.parent = 0]]

=============================================================================
