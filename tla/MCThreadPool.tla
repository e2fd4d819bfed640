---------------------------- MODULE MCThreadPool ----------------------------
(* ThreadPool on a small instance, with the mutants of its actions.           *)
EXTENDS ThreadPool
=============================================================================
