---------------------------- MODULE ModuleLoaderMC ----------------------------
(* ModuleLoader for TLC: three files in two directories.  "n" in the       *)
(* working directory is a link to a file of the other directory.           *)
EXTENDS ModuleLoader

CONSTANTS a, b, c, home, away, m, n

TheDirectories == [f \in Files |-> IF f = a THEN home ELSE away]

TheLookup ==
  [at_name \in Directories \X Names |->
     CASE at_name = <<home, m>> -> a
       [] at_name = <<home, n>> -> b
       [] at_name = <<away, m>> -> c
       [] OTHER -> Missing]
===============================================================================
