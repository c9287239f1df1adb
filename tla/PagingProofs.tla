---------------------------- MODULE PagingProofs ----------------------------
(***************************************************************************)
(* Facts about the segments of a call, for every page size.                *)
(***************************************************************************)
EXTENDS Paging, TLAPS

(* Multiplying by the page size keeps the order.                           *)
LEMMA ProductMonotone ==
  ASSUME NEW x \in Int, NEW y \in Int, NEW n \in Nat, x <= y
  PROVE  x * n <= y * n
<1>1. y - x \in Nat
  OBVIOUS
<1>2. (y - x) * n \in Nat
  BY <1>1
<1>3. (y - x) * n = y * n - x * n
  OBVIOUS
<1> QED
  BY <1>2, <1>3

(* A page starts at or below every address in it and ends above it.        *)
LEMMA PageOfBounds ==
  ASSUME NEW a \in Nat
  PROVE  /\ PageOf(a) \in Nat
         /\ PageStart(PageOf(a)) \in Nat
         /\ PageStart(PageOf(a)) <= a
         /\ a < PageStart(PageOf(a)) + PageSize
BY PageSizeAssumption DEF PageOf, PageStart

(* Pages with smaller numbers end where later pages have not begun.        *)
LEMMA PageStartMonotone ==
  ASSUME NEW p \in Int, NEW q \in Int, p < q
  PROVE  PageStart(p) + PageSize <= PageStart(q)
<1>1. (p + 1) * PageSize <= q * PageSize
  BY ProductMonotone, PageSizeAssumption
<1>2. (p + 1) * PageSize = p * PageSize + PageSize
  BY PageSizeAssumption
<1> QED
  BY <1>1, <1>2 DEF PageStart

(* Later addresses lie in the same page or a later one.                    *)
LEMMA PageOfMonotone ==
  ASSUME NEW a \in Nat, NEW b \in Nat, a <= b
  PROVE  PageOf(a) <= PageOf(b)
<1>1. SUFFICES ASSUME PageOf(b) < PageOf(a) PROVE FALSE
  BY PageOfBounds
<1>2. PageStart(PageOf(b)) + PageSize <= PageStart(PageOf(a))
  BY <1>1, PageOfBounds, PageStartMonotone
<1> QED
  BY <1>2, PageOfBounds, PageSizeAssumption

(* The number of the page of an address is at most the address.            *)
LEMMA PageOfAtMost ==
  ASSUME NEW a \in Nat
  PROVE  PageOf(a) <= a
<1>1. PageOf(a) * 1 <= PageOf(a) * PageSize
  <2>1. 1 * PageOf(a) <= PageSize * PageOf(a)
    BY ProductMonotone, PageOfBounds, PageSizeAssumption
  <2> QED
    BY <2>1, PageOfBounds, PageSizeAssumption
<1> QED
  BY <1>1, PageOfBounds DEF PageStart

(* The page of an address below MaxAddr, or of MaxAddr itself, has an      *)
(* identifier.                                                             *)
LEMMA PageOfType ==
  ASSUME NEW a \in 0 .. MaxAddr
  PROVE  PageOf(a) \in PageId
<1>1. PageOf(a) <= PageOf(MaxAddr)
  BY PageOfMonotone, MaxAddrAssumption
<1> QED
  BY <1>1, PageOfBounds, MaxAddrAssumption DEF PageOf, PageId

-----------------------------------------------------------------------------
(* A call has at least one segment and at most MaxAddr + 1.                *)
LEMMA SegmentCountBounds ==
  ASSUME NEW addr, NEW size, InBounds(addr, size)
  PROVE  /\ SegmentCount(addr, size) \in Nat \ {0}
         /\ SegmentCount(addr, size) <= MaxAddr + 1
<1>1. /\ PageOf(addr) \in Nat
      /\ PageOf(addr + size) \in Nat
      /\ PageOf(addr) <= PageOf(addr + size)
      /\ PageOf(addr + size) <= addr + size
  BY PageOfBounds, PageOfMonotone, PageOfAtMost DEF InBounds
<1> QED
  BY <1>1, MaxAddrAssumption DEF SegmentCount, FirstPageOf, LastPageOf, InBounds

(* Every segment names a page that exists, stays inside that page, and     *)
(* stays inside the call's range: what table::read and table::write copy   *)
(* is within both the page buffer and the caller's buffer.                 *)
THEOREM SegmentInBounds ==
  ASSUME NEW addr, NEW size, InBounds(addr, size),
         NEW k \in 1 .. SegmentCount(addr, size),
         NEW s, s = Segment(addr, size, k)
  PROVE  /\ s.page \in PageId
         /\ s.offset \in Offset
         /\ s.at \in Nat
         /\ s.length \in Nat
         /\ s.offset + s.length <= PageSize
         /\ s.at + s.length <= size
<1> DEFINE first == PageOf(addr)
           last  == PageOf(addr + size)
<1>1. /\ first \in Nat /\ PageStart(first) \in Nat
      /\ PageStart(first) <= addr /\ addr < PageStart(first) + PageSize
  BY PageOfBounds DEF InBounds
<1>2. /\ last \in Nat /\ PageStart(last) \in Nat
      /\ PageStart(last) <= addr + size /\ addr + size < PageStart(last) + PageSize
  BY PageOfBounds DEF InBounds
<1>3. first \in PageId /\ last \in PageId
  BY PageOfType, MaxAddrAssumption DEF InBounds
<1>4. first <= last
  BY PageOfMonotone DEF InBounds
<1>5. SegmentCount(addr, size) = last - first + 1
  BY DEF SegmentCount, FirstPageOf, LastPageOf
<1>6. CASE k = 1
  <2>1. s = FirstSegment(addr, size)
    BY <1>6 DEF Segment
  <2>2. s.page = first /\ s.offset = addr - PageStart(first) /\ s.at = 0
        /\ s.length = IF PageSize - s.offset < size THEN PageSize - s.offset ELSE size
    BY <2>1 DEF FirstSegment, FirstPageOf
  <2> QED
    BY <2>2, <1>1, <1>3, PageSizeAssumption DEF Offset, InBounds
<1>7. CASE k = 2
  <2>1. s = LastSegment(addr, size)
    BY <1>7 DEF Segment
  <2>2. s.page = last /\ s.offset = 0 /\ s.at = PageStart(last) - addr
        /\ s.length = addr + size - PageStart(last)
    BY <2>1 DEF LastSegment, LastPageOf
  <2>3. first < last
    BY <1>7, <1>5, <1>1, <1>2
  <2>4. PageStart(first) + PageSize <= PageStart(last)
    BY <2>3, <1>1, <1>2, PageStartMonotone
  <2> QED
    BY <2>2, <2>4, <1>1, <1>2, <1>3, PageSizeAssumption DEF Offset, InBounds
<1>8. CASE k > 2
  <2> DEFINE p == first + k - 2
  <2>1. s = MiddleSegment(addr, p)
    BY <1>8 DEF Segment, FirstPageOf
  <2>2. s.page = p /\ s.offset = 0 /\ s.at = PageStart(p) - addr /\ s.length = PageSize
    BY <2>1 DEF MiddleSegment
  <2>3. p \in Nat /\ first < p /\ p < last
    BY <1>8, <1>5, <1>1, <1>2
  <2>4. PageStart(first) + PageSize <= PageStart(p) /\ PageStart(p) + PageSize <= PageStart(last)
    BY <2>3, <1>1, <1>2, PageStartMonotone
  <2>5. PageStart(p) \in Int
    BY <2>3, PageSizeAssumption DEF PageStart
  <2>6. p \in PageId
    BY <2>3, <1>3, PageSizeAssumption, MaxAddrAssumption DEF PageId
  <2> QED
    BY <2>2, <2>4, <2>5, <2>6, <1>1, <1>2, PageSizeAssumption DEF Offset, InBounds
<1> QED
  BY <1>5, <1>6, <1>7, <1>8, <1>1, <1>2

(* The segments leave no byte of the call out: an access that runs through *)
(* all of them has moved the whole range.                                  *)
THEOREM SegmentsCoverTheCall ==
  ASSUME NEW addr, NEW size, InBounds(addr, size),
         NEW a \in addr .. addr + size - 1
  PROVE  \E k \in 1 .. SegmentCount(addr, size) : a \in SegmentAddrs(addr, size, k)
<1> DEFINE first == PageOf(addr)
           last  == PageOf(addr + size)
           p     == PageOf(a)
<1>1. /\ first \in Nat /\ PageStart(first) \in Nat
      /\ PageStart(first) <= addr /\ addr < PageStart(first) + PageSize
  BY PageOfBounds DEF InBounds
<1>2. /\ last \in Nat /\ PageStart(last) \in Nat
      /\ PageStart(last) <= addr + size /\ addr + size < PageStart(last) + PageSize
  BY PageOfBounds DEF InBounds
<1>3. /\ p \in Nat /\ PageStart(p) \in Nat
      /\ PageStart(p) <= a /\ a < PageStart(p) + PageSize
  BY PageOfBounds DEF InBounds
<1>4. first <= p /\ p <= last
  BY PageOfMonotone DEF InBounds
<1>5. SegmentCount(addr, size) = last - first + 1
  BY DEF SegmentCount, FirstPageOf, LastPageOf
<1>6. CASE p = first
  <2>1. a \in SegmentAddrs(addr, size, 1)
    BY <1>6, <1>1, <1>3, PageSizeAssumption
    DEF SegmentAddrs, Segment, FirstSegment, FirstPageOf, InBounds
  <2>2. 1 \in 1 .. SegmentCount(addr, size)
    BY <1>1, <1>2, <1>3, <1>4, <1>5
  <2> QED
    BY <2>1, <2>2
<1>7. CASE p = last /\ p # first
  <2>1. a \in SegmentAddrs(addr, size, 2)
    BY <1>7, <1>2, <1>3 DEF SegmentAddrs, Segment, LastSegment, LastPageOf, InBounds
  <2>2. 2 \in 1 .. SegmentCount(addr, size)
    BY <1>7, <1>1, <1>2, <1>3, <1>4, <1>5
  <2> QED
    BY <2>1, <2>2
<1>8. CASE p # last /\ p # first
  <2> DEFINE k == p - first + 2
  <2>1. k \in 1 .. SegmentCount(addr, size) /\ k > 2
    BY <1>8, <1>1, <1>2, <1>3, <1>4, <1>5
  <2>2. Segment(addr, size, k) = MiddleSegment(addr, p)
    BY <2>1, <1>1, <1>3 DEF Segment, FirstPageOf
  <2>3. a \in SegmentAddrs(addr, size, k)
    <3> HIDE DEF k
    <3> QED
      BY <2>2, <1>3, PageSizeAssumption DEF SegmentAddrs, MiddleSegment, InBounds
  <2> QED
    BY <2>1, <2>3
<1> QED
  BY <1>6, <1>7, <1>8
=============================================================================
