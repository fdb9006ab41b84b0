---------------------------- MODULE MCCelAstMap ----------------------------
(***************************************************************************)
(* Three goroutines, two codes and one that does not compile: two can race *)
(* for a code while the third one reads.                                   *)
(***************************************************************************)
EXTENDS CelAstMap
=============================================================================
