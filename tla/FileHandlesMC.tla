----------------------------- MODULE FileHandlesMC ----------------------------
(* FileHandles for TLC: no fiber differs from another, so runs that check  *)
(* invariants only may identify states up to a permutation of the fibers.  *)
EXTENDS FileHandles, TLC

FibersAreAlike == Permutations(Fibers)
===============================================================================
