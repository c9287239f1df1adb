------------------------------ MODULE LruCache ------------------------------
(***************************************************************************)
(* A least-recently-used cache: the cached keys, most recently used first, *)
(* and the key in use.  A use of a key that is cached moves it to the      *)
(* front, one of another key brings it in there.                           *)
(***************************************************************************)
EXTENDS Sequences, Integers

CONSTANTS Key, Capacity, NoKey

VARIABLES
  order,   \* the cached keys
  used     \* the key just used, or NoKey

vars == <<order, used>>

Init == order = <<>> /\ used = NoKey

Cached == {order[i] : i \in 1 .. Len(order)}

Touch(k) ==
  \E i \in 1 .. Len(order) :
    /\ order[i] = k
    /\ order' = <<k>> \o SubSeq(order, 1, i - 1) \o SubSeq(order, i + 1, Len(order))

Insert(k) ==
  /\ k \notin Cached
  /\ Len(order) < Capacity
  /\ order' = <<k>> \o order

(* The key used longest ago gives way.                                     *)
Replace(k) ==
  /\ k \notin Cached
  /\ Len(order) = Capacity
  /\ order' = <<k>> \o SubSeq(order, 1, Len(order) - 1)

Use(k) == (Touch(k) \/ Insert(k) \/ Replace(k)) /\ used' = k

Rest == used' = NoKey /\ UNCHANGED order

Next == (\E k \in Key : Use(k)) \/ Rest

Spec == Init /\ [][Next]_vars
=============================================================================
