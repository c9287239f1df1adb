------------------------ MODULE PageTableRefinement ------------------------
(***************************************************************************)
(* The page table implements the memory of AddressSpace, and its list and  *)
(* map an LRU cache of page ids, as long as no page GET fails.             *)
(***************************************************************************)
EXTENDS PageTable

Covered ==
  IF InAccess
  THEN UNION {SegmentAddrs(call.addr, call.size, j) : j \in 1 .. call.k - 1}
  ELSE {}

Memory == INSTANCE AddressSpace WITH
  mem <- [a \in Addr |-> Visible(a)],
  wild <- dropped,
  call <- [op |-> call.op, addr |-> call.addr, size |-> call.size,
           covered |-> Covered, buffer |-> call.buffer]

Lru == INSTANCE LruCache WITH
  Key <- PageId,
  Capacity <- CacheSize,
  NoKey <- -1,
  order <- [i \in 1 .. Len(lru_order) |-> pages[lru_order[i]].id],
  used <- IF InAccess /\ call.k > 1
          THEN Segment(call.addr, call.size, call.k - 1).page ELSE -1

(* Through every interleaving of hits, fills, evictions, failed PUTs,      *)
(* flushes and truncations a read delivers the bytes last written, and a   *)
(* call that succeeds has moved every byte of its range exactly as asked.  *)
ImplementsAddressSpace == Memory!Spec

(* Every page access moves its page to the front of the list, and a miss   *)
(* evicts the page that was used longest ago, only when the cache is full. *)
ImplementsLruCache == Lru!Spec
=============================================================================
