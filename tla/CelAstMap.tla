----------------------------- MODULE CelAstMap -----------------------------
(***************************************************************************)
(* The process-wide cache of compiled CEL programs (cel_ast.go), used by   *)
(* evaluations in any number of goroutines, with the initialisation of the *)
(* CEL globals that it triggers (initCel in cel.go).                       *)
(*                                                                         *)
(*    pc "idle"    outside GetAST                                          *)
(*       "rlock"   waiting for the read lock                               *)
(*       "lookup", "runlock"             holding it                        *)
(*       "init"    entering initCel      "initcel" running its function    *)
(*       "compile" compiling             "lock"    waiting for other writers *)
(*       "drain"   waiting for readers                                     *)
(*       "recheck", "insert", "unlock"   holding the write lock            *)
(*                                                                         *)
(* A pending Lock keeps new readers out, as in sync.RWMutex.               *)
(***************************************************************************)
EXTENDS Naturals

CONSTANTS
    Callers,        \* goroutines
    Codes,          \* program texts
    Faulty,         \* those that do not compile
    NoAst,          \* the nil *cel.Ast
    NoCaller

Asts == [code : Codes, id : Nat]

ASSUME FaultyAssumption   == Faulty \subseteq Codes
ASSUME NoCallerAssumption == NoCaller \notin Callers
ASSUME NoAstAssumption    == NoAst \notin Asts

VARIABLES
    asts,           \* celAstMap.asts
    readers,        \* holders of the read lock
    writer,         \* holder of the write lock, or the one waiting for readers
    once,           \* initCelOnce: "no", "running", "done"
    celEnvSet,      \* whether commonCelEnv has been set
    compiled,       \* trees made so far; each is an object of its own
    pc,
    code,           \* per caller: the argument of GetAST,
    ast,            \* the variable ast,
    newast,         \* the variable newast
    given           \* history: the <<code, tree>> pairs returned

vars == <<asts, readers, writer, once, celEnvSet, compiled, pc, code, ast, newast, given>>

Goto(c, point) == pc' = [pc EXCEPT ![c] = point]

\* GetAST returns tree a to caller c.
Answer(c, a) ==
    /\ Goto(c, "idle")
    /\ given' = given \cup {<<code[c], a>>}

-----------------------------------------------------------------------------

Init ==
    /\ asts = [k \in Codes |-> NoAst]
    /\ readers = {}
    /\ writer = NoCaller
    /\ once = "no"
    /\ celEnvSet = FALSE
    /\ compiled = 0
    /\ pc = [c \in Callers |-> "idle"]
    /\ code \in [Callers -> Codes]
    /\ ast = [c \in Callers |-> NoAst]
    /\ newast = [c \in Callers |-> NoAst]
    /\ given = {}

Call(c, k) ==
    /\ pc[c] = "idle"
    /\ code' = [code EXCEPT ![c] = k]
    /\ Goto(c, "rlock")
    /\ UNCHANGED <<asts, readers, writer, once, celEnvSet, compiled, ast, newast, given>>

\* A mistake: readers overtake a waiting writer.
RLockEager(c) ==
    /\ pc[c] = "rlock"
    /\ writer # NoCaller => pc[writer] = "drain"
    /\ readers' = readers \cup {c}
    /\ Goto(c, "lookup")
    /\ UNCHANGED <<asts, writer, once, celEnvSet, compiled, code, ast, newast, given>>

RLock(c) ==
    /\ pc[c] = "rlock"
    /\ writer = NoCaller
    /\ readers' = readers \cup {c}
    /\ Goto(c, "lookup")
    /\ UNCHANGED <<asts, writer, once, celEnvSet, compiled, code, ast, newast, given>>

Lookup(c) ==
    /\ pc[c] = "lookup"
    /\ ast' = [ast EXCEPT ![c] = asts[code[c]]]
    /\ Goto(c, "runlock")
    /\ UNCHANGED <<asts, readers, writer, once, celEnvSet, compiled, code, newast, given>>

\* A mistake: no look at whether a tree was found.
RUnlockBlindly(c) ==
    /\ pc[c] = "runlock"
    /\ readers' = readers \ {c}
    /\ Answer(c, ast[c])
    /\ UNCHANGED <<asts, writer, once, celEnvSet, compiled, code, ast, newast>>

\* A tree that was found is the answer.
RUnlock(c) ==
    /\ pc[c] = "runlock"
    /\ readers' = readers \ {c}
    /\ \/ ast[c] # NoAst /\ Answer(c, ast[c])
       \/ ast[c] = NoAst /\ Goto(c, "init") /\ UNCHANGED given
    /\ UNCHANGED <<asts, writer, once, celEnvSet, compiled, code, ast, newast>>

\* A mistake: a flag in the place of sync.Once.
InitCelByFlag(c) ==
    /\ pc[c] = "init"
    /\ once' = IF once = "no" THEN "running" ELSE once
    /\ Goto(c, IF once = "no" THEN "initcel" ELSE "compile")
    /\ UNCHANGED <<asts, readers, writer, celEnvSet, compiled, code, ast, newast, given>>

\* The first caller of initCel initialises, the others wait until that is done.
InitCel(c) ==
    /\ pc[c] = "init"
    /\ \/ once = "no" /\ once' = "running" /\ Goto(c, "initcel")
       \/ once = "done" /\ Goto(c, "compile") /\ UNCHANGED once
    /\ UNCHANGED <<asts, readers, writer, celEnvSet, compiled, code, ast, newast, given>>

InitDone(c) ==
    /\ pc[c] = "initcel"
    /\ once' = "done"
    /\ celEnvSet' = TRUE
    /\ Goto(c, "compile")
    /\ UNCHANGED <<asts, readers, writer, compiled, code, ast, newast, given>>

\* The registry or the environment cannot be made: a panic, which whoever called Eval
\* may recover from.  For sync.Once the function is done all the same.
InitPanics(c) ==
    /\ pc[c] = "initcel"
    /\ once' = "done"
    /\ Goto(c, "idle")
    /\ UNCHANGED <<asts, readers, writer, celEnvSet, compiled, code, ast, newast, given>>

\* A mistake: compilation errors are not looked at.
CompileBlindly(c) ==
    /\ pc[c] = "compile"
    /\ newast' = [newast EXCEPT ![c] = [code |-> code[c], id |-> compiled]]
    /\ compiled' = compiled + 1
    /\ Goto(c, "lock")
    /\ UNCHANGED <<asts, readers, writer, once, celEnvSet, code, ast, given>>

\* Compilation errors are returned and not remembered; without an environment there
\* is a panic.
Compile(c) ==
    /\ pc[c] = "compile"
    /\ \/ /\ code[c] \in Faulty \/ ~celEnvSet
          /\ Goto(c, "idle")
          /\ UNCHANGED <<newast, compiled>>
       \/ /\ code[c] \notin Faulty /\ celEnvSet
          /\ newast' = [newast EXCEPT ![c] = [code |-> code[c], id |-> compiled]]
          /\ compiled' = compiled + 1
          /\ Goto(c, "lock")
    /\ UNCHANGED <<asts, readers, writer, once, celEnvSet, code, ast, given>>

Lock(c) ==
    /\ pc[c] = "lock"
    /\ writer = NoCaller
    /\ writer' = c
    /\ Goto(c, "drain")
    /\ UNCHANGED <<asts, readers, once, celEnvSet, compiled, code, ast, newast, given>>

\* A mistake: the write lock does not wait for readers.
LockedAtOnce(c) ==
    /\ pc[c] = "drain"
    /\ Goto(c, "recheck")
    /\ UNCHANGED <<asts, readers, writer, once, celEnvSet, compiled, code, ast, newast, given>>

Locked(c) ==
    /\ pc[c] = "drain"
    /\ readers = {}
    /\ Goto(c, "recheck")
    /\ UNCHANGED <<asts, readers, writer, once, celEnvSet, compiled, code, ast, newast, given>>

\* A mistake: nobody else can have been faster.
RecheckNothing(c) ==
    /\ pc[c] = "recheck"
    /\ Goto(c, "insert")
    /\ UNCHANGED <<asts, readers, writer, once, celEnvSet, compiled, code, ast, newast, given>>

\* Somebody else may have been faster.
Recheck(c) ==
    /\ pc[c] = "recheck"
    /\ ast' = [ast EXCEPT ![c] = asts[code[c]]]
    /\ Goto(c, IF asts[code[c]] = NoAst THEN "insert" ELSE "unlock")
    /\ UNCHANGED <<asts, readers, writer, once, celEnvSet, compiled, code, newast, given>>

Insert(c) ==
    /\ pc[c] = "insert"
    /\ asts' = [asts EXCEPT ![code[c]] = newast[c]]
    /\ Goto(c, "unlock")
    /\ UNCHANGED <<readers, writer, once, celEnvSet, compiled, code, ast, newast, given>>

\* The deferred Unlock runs when the answer is settled.
Unlock(c) ==
    /\ pc[c] = "unlock"
    /\ writer' = NoCaller
    /\ Answer(c, IF ast[c] = NoAst THEN newast[c] ELSE ast[c])
    /\ UNCHANGED <<asts, readers, once, celEnvSet, compiled, code, ast, newast>>

Step(c) ==
    \/ RLock(c) \/ Lookup(c) \/ RUnlock(c)
    \/ InitCel(c) \/ InitDone(c) \/ InitPanics(c) \/ Compile(c)
    \/ Lock(c) \/ Locked(c) \/ Recheck(c) \/ Insert(c) \/ Unlock(c)

Next == \E c \in Callers : Step(c) \/ \E k \in Codes : Call(c, k)

Spec == Init /\ [][Next]_vars

\* A goroutine inside GetAST keeps running when it can.
FairSpec == Spec /\ \A c \in Callers : WF_vars(Step(c))

-----------------------------------------------------------------------------

Reading == {"lookup", "runlock"}
Writing == {"recheck", "insert", "unlock"}

\* Type invariant.
TypeOK ==
    /\ asts \in [Codes -> Asts \cup {NoAst}]
    /\ readers \in SUBSET Callers
    /\ writer \in Callers \cup {NoCaller}
    /\ once \in {"no", "running", "done"}
    /\ celEnvSet \in BOOLEAN
    /\ compiled \in Nat
    /\ pc \in [Callers -> {"idle", "rlock", "init", "initcel", "compile", "lock", "drain"}
                              \cup Reading \cup Writing]
    /\ code \in [Callers -> Codes]
    /\ ast \in [Callers -> Asts \cup {NoAst}]
    /\ newast \in [Callers -> Asts \cup {NoAst}]
    /\ given \in SUBSET (Codes \X Asts)

\* The map is never written while another goroutine is at it: no data race in
\* GetAST, whatever the interleaving of lookups and insertions.
NoRace ==
    \A c, d \in Callers :
        pc[c] \in Writing /\ d # c => pc[d] \notin Reading \cup Writing

\* Goroutines that evaluate the same code get the same tree, even when several
\* of them found none and compiled it at the same time.
OneAstPerCode ==
    \A p, q \in given : p[1] = q[1] => p[2] = q[2]

\* The answer for a code is a tree compiled from that code, and codes that do not
\* compile get none.
AnswersMatch ==
    \A p \in given : p[2].code = p[1] /\ p[1] \notin Faulty

\* initCel runs once, nobody gets past it before it is over, and when it could not set
\* commonCelEnv no tree is ever made: calls go on to panic.
InitBeforeUse ==
    /\ \A c \in Callers : pc[c] = "compile" => once = "done"
    /\ given # {} \/ compiled > 0 => celEnvSet
    /\ \A c, d \in Callers : pc[c] = "initcel" /\ pc[d] = "initcel" => c = d

\* Every call returns or panics: no goroutine waits for a lock, for readers or for initCel
\* for ever.
EveryCallReturns ==
    \A c \in Callers : pc[c] # "idle" ~> pc[c] = "idle"

\* The locked map implements a cache that is filled once per code.
Cache == INSTANCE AstCache WITH entry <- asts

ImplementsCache == Cache!Spec
=============================================================================
