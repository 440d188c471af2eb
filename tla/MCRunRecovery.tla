---------------------------- MODULE MCRunRecovery ----------------------------
(***************************************************************************)
(* A Workspace with two contents that Git describes, which nothing in the  *)
(* specification tells apart, and one that it does not; a command that can *)
(* be cancelled, a file write that cannot and a file read.                 *)
(***************************************************************************)
EXTENDS RunRecovery

CONSTANTS bash, write_file, read_file, source, changed

MCReadOnly == {read_file} \cap Calls
MCCoop     == {bash} \cap Calls
MCContents == {source, changed, Opaque}
MCSymmetry == Permutations({source, changed})
=============================================================================
