----------------------------- MODULE MCKvDriver -----------------------------
(* KvDriver as TLC checks it: the .cfg files give the constants their      *)
(* values.                                                                 *)
EXTENDS KvDriver

(* What the guards and the invariants of the sessions can tell apart.  ret *)
(* is left out, the page count and the invalid pages, which nothing but    *)
(* .meta depends on, and of .meta all but whether it is there and can be   *)
(* parsed.                                                                 *)
SessionView ==
  <<objects, tableVars, eoa, call, undefined, dropped, file, survivors,
    meta # NoObject, meta # NoObject /\ MatchesMetadataRegex(meta)>>
=============================================================================
