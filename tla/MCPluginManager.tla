-------------------------- MODULE MCPluginManager --------------------------
(***************************************************************************)
(* Instances of PluginManager for TLC: model values for two directories.   *)
(***************************************************************************)
EXTENDS PluginManager, TLC

CONSTANTS d1, d2

\* The directories are interchangeable.
DirSymmetry == Permutations(Dirs)

=============================================================================
