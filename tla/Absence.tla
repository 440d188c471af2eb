------------------------------- MODULE Absence -------------------------------
(***************************************************************************)
(* The value of an optional field that is not there: Python's None.  The   *)
(* modules of the services share it, so that they can be composed.         *)
(***************************************************************************)
CONSTANT None
=============================================================================
