---------------------------- MODULE MCPageSizes ----------------------------
(* PageSizes as TLC checks it: the .cfg files give the constants their     *)
(* values.                                                                 *)
EXTENDS PageSizes
=============================================================================
