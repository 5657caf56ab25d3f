---------------------------- MODULE MCAlertFlow ----------------------------
(* What TLC needs beside AlertFlow: goroutines and rounds are              *)
(* interchangeable.                                                        *)
EXTENDS AlertFlow

Symmetric == Permutations(Finalizers) \cup Permutations(Rounds)
=============================================================================
