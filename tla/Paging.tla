------------------------------- MODULE Paging -------------------------------
(***************************************************************************)
(* The address arithmetic of page::table: how table::read and              *)
(* table::write cut the bytes addr .. addr + size - 1 of one call into     *)
(* segments, each inside one page.  Pure definitions, no state.            *)
(*                                                                         *)
(* In all modules a definition commented "Faulty" is a variant of the one  *)
(* after it that no specification uses: put in its place it must break the *)
(* property named in PROJECT.json, which shows the property can fail.      *)
(***************************************************************************)
EXTENDS Integers

CONSTANTS
  PageSize,   \* bytes in a page
  MaxAddr     \* the largest end-of-allocation address a caller may set

ASSUME PageSizeAssumption == PageSize \in Nat \ {0}
ASSUME MaxAddrAssumption  == MaxAddr \in Nat

Addr   == 0 .. MaxAddr - 1
Offset == 0 .. PageSize - 1

(* The pages a call may name.  A call that ends exactly at MaxAddr still   *)
(* names the page that starts there, see LastPageOf.                       *)
PageId == 0 .. MaxAddr \div PageSize

PageOf(addr) == addr \div PageSize
PageStart(p) == p * PageSize

FirstPageOf(addr) == PageOf(addr)

(* The code divides the end of the range, not its last byte.               *)
LastPageOf(addr, size) == PageOf(addr + size)

(* The loops serve the first page, then the last one when it differs, then *)
(* the pages between them in ascending order.                              *)
SegmentCount(addr, size) == LastPageOf(addr, size) - FirstPageOf(addr) + 1

(* Faulty: the offset inside the first page is forgotten.                  *)
FirstSegmentAtPageStart(addr, size) ==
  [page |-> FirstPageOf(addr), offset |-> 0, at |-> 0,
   length |-> IF PageSize < size THEN PageSize ELSE size]

FirstSegment(addr, size) ==
  LET offset == addr - PageStart(FirstPageOf(addr))
      room   == PageSize - offset
  IN  [page |-> FirstPageOf(addr), offset |-> offset, at |-> 0,
       length |-> IF room < size THEN room ELSE size]

LastSegment(addr, size) ==
  LET start == PageStart(LastPageOf(addr, size))
  IN  [page |-> LastPageOf(addr, size), offset |-> 0, at |-> start - addr,
       length |-> addr + size - start]

MiddleSegment(addr, p) ==
  [page |-> p, offset |-> 0, at |-> PageStart(p) - addr, length |-> PageSize]

(* The k-th page access of a call: the page, where in the page the segment *)
(* starts, its length, and where in the caller's buffer it belongs.        *)
Segment(addr, size, k) ==
  IF k = 1 THEN FirstSegment(addr, size)
  ELSE IF k = 2 THEN LastSegment(addr, size)
  ELSE MiddleSegment(addr, FirstPageOf(addr) + k - 2)

(* The addresses the k-th access serves.                                   *)
SegmentAddrs(addr, size, k) ==
  LET s == Segment(addr, size, k)
  IN  addr + s.at .. addr + s.at + s.length - 1

(* A call moves at least one byte and stays below MaxAddr.                 *)
InBounds(addr, size) ==
  addr \in Nat /\ size \in Nat \ {0} /\ addr + size <= MaxAddr
=============================================================================
