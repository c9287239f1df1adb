---------------------------- MODULE MCTwoUsers ----------------------------
(* TwoUsers as TLC checks it: the .cfg file gives the constants their      *)
(* values.                                                                 *)
EXTENDS TwoUsers

(* Without what no guard and no property of two users reads: the page      *)
(* counts, the invalid pages and the .meta object made of them, the value  *)
(* returned, and what a second user that writes too has seen.              *)
UsersView == <<objects, tableVars, call, r_lru_order, r_pages, r_page_cache, r_call,
               latest, IF second_writes THEN {} ELSE seen, second_writes>>
=============================================================================
