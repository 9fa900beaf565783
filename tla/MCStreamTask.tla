---------------------------- MODULE MCStreamTask ----------------------------
(* Chains of two tasks of a few sub tasks.                                 *)
EXTENDS StreamTask
=============================================================================
