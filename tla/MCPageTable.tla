---------------------------- MODULE MCPageTable ----------------------------
(* PageTable and its refinements as TLC checks them: the .cfg files give   *)
(* the constants their values.                                             *)
EXTENDS PageTableRefinement

(* All but the .meta object.  No action of the table reads it, so a run    *)
(* whose properties do not mention it may identify states that differ only *)
(* there.                                                                  *)
TableView == <<objects, store, tableVars, eoa, call, ret, undefined, dropped>>
=============================================================================
