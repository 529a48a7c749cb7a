--------------------------- MODULE MCModuleLoader ---------------------------
(***************************************************************************)
(* The module loader for TLC: the modules are interchangeable.             *)
(***************************************************************************)
EXTENDS ModuleLoader, TLC

Symmetry == Permutations(Mods)
=============================================================================
