----------------------------- MODULE MCEnvValues -----------------------------
(***************************************************************************)
(* Two goroutines, the second of which can only have a clone or a new      *)
(* environment; it is the one that ranges over environments.  One of the   *)
(* numbers is beyond int32.                                                *)
(***************************************************************************)
EXTENDS EnvValues

CONSTANTS k, l

MCThreads == {"g", "h"}
MCRangers == {"h"}
MCKeys    == {k, l}
MCGoInts  == {<<"int", 1>>, <<"int", 2>>, <<"int64", 2>>}

SymmetricKeys == Permutations(MCKeys)
=============================================================================
