-------------------------- MODULE PageTableProofs --------------------------
(***************************************************************************)
(* Theorems about PageTable, for every page size, cache size, address space*)
(* and set of byte values, with any combination of failing GETs and PUTs   *)
(* unless a theorem says otherwise.                                        *)
(***************************************************************************)
EXTENDS PageTable, PagingProofs, SequenceTheorems, FiniteSetTheorems

-----------------------------------------------------------------------------
(* The store.                                                              *)

(* A GET that succeeds delivers a whole page.                              *)
LEMMA FetchedType ==
  ASSUME NEW objs \in [PageId -> PageData \cup {NoObject}], NEW p \in PageId
  PROVE  Fetched(objs, p) \in PageData
BY ByteAssumption DEF Fetched, PageData, ZeroPage

(* The number of pages up to an existing page is a page count.             *)
LEMMA PageCountType ==
  ASSUME NEW p \in PageId
  PROVE  p + 1 \in PageCount
BY MaxAddrAssumption, PageSizeAssumption DEF PageId, PageCount

(* A PUT keeps the types of the store.                                     *)
LEMMA KvWriteType ==
  ASSUME StoreTypeOK, NEW p \in PageId, NEW data \in PageData, KvWrite(p, data)
  PROVE  StoreTypeOK'
<1>1. objects' \in [PageId -> PageData \cup {NoObject}]
  BY DEF StoreTypeOK, KvWrite
<1>2. allocated_pages' \in PageCount
  BY PageCountType DEF StoreTypeOK, KvWrite
<1> QED
  BY <1>1, <1>2 DEF StoreTypeOK, KvWrite

(* So does one that throws, applied or not.                                *)
LEMMA KvWriteThrowsType ==
  ASSUME StoreTypeOK, NEW p \in PageId, NEW data \in PageData, KvWriteThrows(p, data)
  PROVE  StoreTypeOK'
<1>1. objects' \in [PageId -> PageData \cup {NoObject}]
  BY DEF StoreTypeOK, KvWriteThrows
<1> QED
  BY <1>1 DEF StoreTypeOK, KvWriteThrows, store

(* Only existing pages are recorded as invalid.                            *)
LEMMA KvSetMaxPageType ==
  ASSUME StoreTypeOK, NEW max \in PageId, KvSetMaxPage(max)
  PROVE  StoreTypeOK'
<1>1. allocated_pages' \in PageCount
  BY PageCountType DEF KvSetMaxPage
<1>2. max + 1 .. allocated_pages - 1 \subseteq PageId
  BY MaxAddrAssumption, PageSizeAssumption DEF StoreTypeOK, PageId, PageCount
<1> QED
  BY <1>1, <1>2 DEF StoreTypeOK, KvSetMaxPage, bucket

(* What flush prints is a .meta text.                                      *)
LEMMA FlushedMetaType ==
  ASSUME StoreTypeOK
  PROVE  FlushedMeta \in MetaText
BY PageSizeAssumption DEF StoreTypeOK, FlushedMeta, MetaText, Separator

(* Writing .meta keeps the types of the store.                             *)
LEMMA KvFlushType ==
  ASSUME StoreTypeOK, KvFlush \/ KvFlushThrows
  PROVE  StoreTypeOK'
BY FlushedMetaType DEF StoreTypeOK, KvFlush, KvFlushThrows, store

-----------------------------------------------------------------------------
(* Pages and the buffer of the call.                                       *)

(* What TypeOK says of everything but the store, and what the call is.     *)
Typed == TypeOK /\ CallWellFormed

(* The current segment lies within one page and within the call.           *)
LEMMA CurrentInBounds ==
  ASSUME Typed, Pending
  PROVE  /\ Current.page \in PageId
         /\ Current.offset \in Offset
         /\ Current.at \in Nat
         /\ Current.length \in Nat
         /\ Current.offset + Current.length <= PageSize
         /\ Current.at + Current.length <= call.size
         /\ call.addr \in Nat
         /\ call.addr + call.size <= MaxAddr
<1>1. InBounds(call.addr, call.size) /\ call.k \in 1 .. SegmentCount(call.addr, call.size)
  BY SegmentCountBounds DEF Typed, Pending, CallWellFormed
<1> QED
  BY <1>1, SegmentInBounds DEF Current, InBounds

(* The current segment serves addresses of the call only.                  *)
LEMMA CurrentAddrsInCall ==
  ASSUME Typed, Pending
  PROVE  /\ CurrentAddrs = call.addr + Current.at .. call.addr + Current.at + Current.length - 1
         /\ CurrentAddrs \subseteq CallAddrs(call)
         /\ CurrentAddrs \subseteq Addr
<1>1. CurrentAddrs = call.addr + Current.at .. call.addr + Current.at + Current.length - 1
  BY DEF CurrentAddrs, Current, SegmentAddrs
<1>2. call.size \in Nat
  BY DEF Typed, TypeOK, Call
<1>3. CurrentAddrs \subseteq CallAddrs(call)
  BY <1>1, <1>2, CurrentInBounds DEF CallAddrs
<1>4. CallAddrs(call) \subseteq Addr
  BY <1>2, CurrentInBounds, MaxAddrAssumption DEF CallAddrs, Addr
<1> QED
  BY <1>1, <1>3, <1>4

(* Reading leaves a page object of the right type.                         *)
LEMMA ReadFromType ==
  ASSUME NEW pg \in Page
  PROVE  /\ ReadFrom(pg) \in Page
         /\ ReadFrom(pg).id = pg.id
         /\ ReadFrom(pg).filled = pg.filled
         /\ ReadFrom(pg).dirty = pg.dirty
BY ByteAssumption DEF ReadFrom, Page, PageData, ZeroPage

(* So does clearing around a write ...                                     *)
LEMMA ZeroedAroundType ==
  ASSUME NEW data \in PageData, NEW offset, NEW size
  PROVE  ZeroedAround(data, offset, size) \in PageData
BY ByteAssumption DEF ZeroedAround, PageData

(* ... and the write itself.                                               *)
LEMMA WrittenToType ==
  ASSUME Typed, Pending, call.op = "write", NEW pg \in Page
  PROVE  /\ WrittenTo(pg, Current) \in Page
         /\ WrittenTo(pg, Current).id = pg.id
         /\ WrittenTo(pg, Current).filled = pg.filled
<1> DEFINE seg  == Current
           base == IF pg.zero_on_use
                   THEN ZeroedAround(pg.data, seg.offset, seg.length)
                   ELSE pg.data
           data == [i \in Offset |->
                     IF i \in seg.offset .. seg.offset + seg.length - 1
                     THEN call.buffer[call.addr + seg.at + i - seg.offset]
                     ELSE base[i]]
<1>1. base \in PageData
  BY ZeroedAroundType DEF Page
<1>2. ASSUME NEW i \in Offset, i \in seg.offset .. seg.offset + seg.length - 1
      PROVE  call.buffer[call.addr + seg.at + i - seg.offset] \in Byte
  <2>1. call.addr + seg.at + i - seg.offset \in CurrentAddrs
    <3>1. /\ i \in Nat /\ seg.offset <= i /\ i <= seg.offset + seg.length - 1
          /\ call.addr \in Nat /\ seg.at \in Nat /\ seg.offset \in Nat /\ seg.length \in Nat
      BY <1>2, CurrentInBounds DEF Offset
    <3>2. CurrentAddrs = call.addr + seg.at .. call.addr + seg.at + seg.length - 1
      BY CurrentAddrsInCall
    <3> HIDE DEF seg
    <3> QED
      BY <3>1, <3>2
  <2>2. call.addr + seg.at + i - seg.offset \in CallAddrs(call)
    BY <2>1, CurrentAddrsInCall
  <2> QED
    BY <2>2 DEF Typed, CallWellFormed, InAccess
<1>3. data \in PageData
  BY <1>1, <1>2 DEF PageData
<1>4. WrittenTo(pg, Current) =
        [pg EXCEPT !.zero_on_use = FALSE, !.dirty = TRUE, !.data = data]
  BY DEF WrittenTo
<1> HIDE DEF data
<1> QED
  BY <1>3, <1>4 DEF Page

(* A page that has served the current segment is still a page.             *)
LEMMA ServedType ==
  ASSUME Typed, Pending, NEW pg \in Page
  PROVE  /\ Served(pg) \in Page
         /\ Served(pg).id = pg.id
         /\ Served(pg).filled = pg.filled
<1>1. call.op \in {"read", "write"}
  BY DEF Pending, InAccess
<1> QED
  BY <1>1, ReadFromType, WrittenToType DEF Served

(* The caller's buffer keeps its type, and a writer's buffer its bytes.    *)
LEMMA DeliveredType ==
  ASSUME Typed, Pending, NEW pg \in Page
  PROVE  /\ Delivered(pg) \in [Addr -> Byte \cup {NoByte}]
         /\ call.op = "write" => Delivered(pg) = call.buffer
<1>1. ASSUME NEW a \in CurrentAddrs
      PROVE  pg.data[Current.offset + a - (call.addr + Current.at)] \in Byte
  <2>1. Current.offset + a - (call.addr + Current.at) \in Offset
    BY CurrentInBounds, CurrentAddrsInCall, PageSizeAssumption DEF Offset
  <2> QED
    BY <2>1 DEF Page, PageData
<1>2. call.buffer \in [Addr -> Byte \cup {NoByte}]
  BY DEF Typed, TypeOK, Call
<1> QED
  BY <1>1, <1>2 DEF Delivered

(* An invalidated page is still a page.                                    *)
LEMMA InvalidatedType ==
  ASSUME NEW pg \in Page
  PROVE  Invalidated(pg) \in Page /\ Invalidated(pg).id = pg.id
         /\ Invalidated(pg).filled = pg.filled /\ ~Invalidated(pg).dirty
BY DEF Invalidated, Page

(* What a successful GET makes of a node is a page.                        *)
LEMMA FilledPageType ==
  ASSUME NEW p \in PageId, NEW data \in PageData
  PROVE  /\ FilledPage(p, data) \in Page
         /\ FilledPage(p, data).id = p
         /\ FilledPage(p, data).filled
BY DEF FilledPage, Page

(* So is what a failed one leaves.                                         *)
LEMMA UnfilledPageType ==
  ASSUME NEW p \in PageId
  PROVE  /\ UnfilledPage(p) \in Page
         /\ UnfilledPage(p).id = p
         /\ ~UnfilledPage(p).dirty
BY ByteAssumption DEF UnfilledPage, Page, PageData, ZeroPage

(* The call moves on to its next segment, or past its last one.            *)
LEMMA AdvanceType ==
  ASSUME Typed, Pending, NEW pg \in Page, Advance(pg)
  PROVE  /\ call' \in Call
         /\ CallWellFormed'
         /\ dropped' \subseteq Addr
         /\ UNCHANGED <<eoa, ret, undefined>>
<1>1. InBounds(call.addr, call.size) /\ call.k \in 1 .. SegmentCount(call.addr, call.size)
  BY SegmentCountBounds DEF Typed, Pending, CallWellFormed
<1>2. SegmentCount(call.addr, call.size) \in Nat /\ SegmentCount(call.addr, call.size) <= MaxAddr + 1
  BY <1>1, SegmentCountBounds
<1>3. call \in Call
  BY DEF Typed, TypeOK
<1>4. call' = [call EXCEPT !.k = @ + 1, !.buffer = Delivered(pg)]
  BY DEF Advance
<1>5. /\ call'.op = call.op /\ call'.addr = call.addr /\ call'.size = call.size
      /\ call'.k = call.k + 1 /\ call'.buffer = Delivered(pg)
  BY <1>3, <1>4 DEF Call
<1>6. call' \in Call
  <2> DEFINE next == [call EXCEPT !.k = @ + 1]
  <2>1. next \in Call
    BY <1>1, <1>2, <1>3, MaxAddrAssumption DEF Call
  <2>2. call' = [next EXCEPT !.buffer = Delivered(pg)]
    BY <1>4
  <2> HIDE DEF next
  <2> QED
    BY <2>1, <2>2, DeliveredType DEF Call
<1>7. CallWellFormed'
  BY <1>1, <1>2, <1>5, DeliveredType DEF Typed, CallWellFormed, InAccess, Flushing, CallAddrs
<1>8. dropped' \subseteq Addr
  BY DEF Advance, Typed, TypeOK
<1> QED
  BY <1>6, <1>7, <1>8 DEF Advance

(* A call that ends in an error leaves no call in progress.                *)
LEMMA ThrowType ==
  ASSUME TypeOK, Throw
  PROVE  call' \in Call /\ CallWellFormed' /\ ret' \in {"none", "ok", "error"}
BY MaxAddrAssumption DEF Throw, Call, Idle, Unfilled, CallWellFormed, InAccess, Flushing

-----------------------------------------------------------------------------
(* The list.                                                               *)

(* MoveToFront keeps the nodes of a list.                                  *)
LEMMA MoveToFrontType ==
  ASSUME NEW S, NEW s \in Seq(S), NEW i \in 1 .. Len(s)
  PROVE  /\ MoveToFront(s, i) \in Seq(S)
         /\ Len(MoveToFront(s, i)) = Len(s)
         /\ \A j \in 1 .. Len(s) :
              MoveToFront(s, i)[j] = IF j = 1 THEN s[i] ELSE IF j <= i THEN s[j - 1] ELSE s[j]
<1> DEFINE m == MoveToFront(s, i)
<1>1. Len(s) \in Nat /\ s \in [1 .. Len(s) -> S]
  BY LenProperties
<1>2. m \in [1 .. Len(s) -> S]
  <2>1. ASSUME NEW j \in 1 .. Len(s)
        PROVE  (IF j = 1 THEN s[i] ELSE IF j <= i THEN s[j - 1] ELSE s[j]) \in S
    BY <1>1, <2>1
  <2> QED
    BY <2>1 DEF MoveToFront
<1>3. m \in Seq(S)
  BY <1>1, <1>2, SeqDef
<1>4. Len(m) = Len(s)
  BY <1>1, <1>2, <1>3, LenProperties
<1> QED
  BY <1>3, <1>4 DEF MoveToFront

(* A list of the numbers 1 .. n without repetition or omission.            *)
Permutation(s, n) ==
  /\ s \in Seq(1 .. n)
  /\ Len(s) = n
  /\ \A i, j \in 1 .. Len(s) : s[i] = s[j] => i = j
  /\ \A x \in 1 .. n : \E i \in 1 .. Len(s) : s[i] = x

(* Splicing to the front permutes the list.                                *)
LEMMA MoveToFrontPermutation ==
  ASSUME NEW n \in Nat, NEW s, Permutation(s, n), NEW i \in 1 .. Len(s)
  PROVE  Permutation(MoveToFront(s, i), n)
<1> DEFINE m == MoveToFront(s, i)
<1>0. s \in Seq(1 .. n) /\ Len(s) = n /\ i \in 1 .. n
  BY DEF Permutation
<1>1. /\ m \in Seq(1 .. n) /\ Len(m) = n
      /\ \A j \in 1 .. n :
              m[j] = IF j = 1 THEN s[i] ELSE IF j <= i THEN s[j - 1] ELSE s[j]
  BY <1>0, MoveToFrontType
<1> HIDE DEF m
<1>2. ASSUME NEW j \in 1 .. n, NEW k \in 1 .. n, m[j] = m[k]
      PROVE  j = k
  <2> DEFINE from(x) == IF x = 1 THEN i ELSE IF x <= i THEN x - 1 ELSE x
  <2>1. \A x \in 1 .. n : from(x) \in 1 .. n /\ m[x] = s[from(x)]
    BY <1>0, <1>1
  <2>2. s[from(j)] = s[from(k)]
    BY <2>1, <1>2
  <2>3. \A a, b \in 1 .. n : s[a] = s[b] => a = b
    BY <1>0 DEF Permutation
  <2>4. from(j) = from(k)
    <3> HIDE DEF from
    <3> QED
      BY <2>1, <2>2, <2>3
  <2> QED
    BY <2>4, <1>0
<1>3. ASSUME NEW x \in 1 .. n
      PROVE  \E j \in 1 .. n : m[j] = x
  <2>1. PICK k \in 1 .. n : s[k] = x
    BY DEF Permutation
  <2>2. CASE k = i
    BY <2>1, <2>2, <1>1
  <2>3. CASE k < i
    <3>1. k + 1 \in 1 .. n /\ m[k + 1] = s[k]
      BY <2>3, <1>1 DEF Permutation
    <3> QED
      BY <3>1, <2>1
  <2>4. CASE k > i
    BY <2>1, <2>4, <1>1
  <2> QED
    BY <2>2, <2>3, <2>4 DEF Permutation
<1> QED
  BY <1>1, <1>2, <1>3 DEF Permutation, m

(* A new node at the front extends a permutation.                          *)
LEMMA ConsPermutation ==
  ASSUME NEW n \in Nat, NEW s, Permutation(s, n)
  PROVE  Permutation(<<n + 1>> \o s, n + 1)
<1> DEFINE m == <<n + 1>> \o s
<1>1. s \in Seq(1 .. n + 1) /\ <<n + 1>> \in Seq(1 .. n + 1) /\ Len(<<n + 1>>) = 1
  BY SeqMonotonic DEF Permutation
<1>2. /\ m \in Seq(1 .. n + 1) /\ Len(m) = n + 1
      /\ \A i \in 1 .. n + 1 : m[i] = IF i <= 1 THEN <<n + 1>>[i] ELSE s[i - 1]
  BY <1>1, ConcatProperties DEF Permutation
<1>3. \A i \in 1 .. n + 1 : m[i] = IF i = 1 THEN n + 1 ELSE s[i - 1]
  BY <1>2
<1>4. \A i \in 1 .. n : s[i] \in 1 .. n
  BY ElementOfSeq DEF Permutation
<1> HIDE DEF m
<1>5. ASSUME NEW i \in 1 .. n + 1, NEW j \in 1 .. n + 1, m[i] = m[j]
      PROVE  i = j
  <2>1. CASE i = 1 \/ j = 1
    BY <2>1, <1>3, <1>4, <1>5
  <2>2. CASE i # 1 /\ j # 1
    <3>1. i - 1 \in 1 .. n /\ j - 1 \in 1 .. n /\ s[i - 1] = s[j - 1]
      BY <2>2, <1>3, <1>5
    <3>2. i - 1 = j - 1
      BY <3>1 DEF Permutation
    <3> QED
      BY <3>2
  <2> QED
    BY <2>1, <2>2
<1>6. ASSUME NEW x \in 1 .. n + 1
      PROVE  \E i \in 1 .. n + 1 : m[i] = x
  <2>1. CASE x = n + 1
    BY <2>1, <1>3
  <2>2. CASE x \in 1 .. n
    <3>1. PICK i \in 1 .. n : s[i] = x
      BY <2>2 DEF Permutation
    <3>2. i + 1 \in 1 .. n + 1 /\ m[i + 1] = s[i]
      BY <1>3
    <3> QED
      BY <3>1, <3>2
  <2> QED
    BY <2>1, <2>2
<1> QED
  BY <1>2, <1>5, <1>6 DEF Permutation, m

(* A new node at the back extends a permutation.                           *)
LEMMA AppendPermutation ==
  ASSUME NEW n \in Nat, NEW s, Permutation(s, n)
  PROVE  Permutation(Append(s, n + 1), n + 1)
<1> DEFINE m == Append(s, n + 1)
<1>1. s \in Seq(1 .. n + 1)
  BY SeqMonotonic DEF Permutation
<1>2. /\ m \in Seq(1 .. n + 1) /\ Len(m) = n + 1
      /\ \A i \in 1 .. n + 1 : m[i] = IF i = n + 1 THEN n + 1 ELSE s[i]
  BY <1>1 DEF Permutation
<1>3. \A i \in 1 .. n : s[i] \in 1 .. n
  BY ElementOfSeq DEF Permutation
<1> HIDE DEF m
<1>4. ASSUME NEW i \in 1 .. n + 1, NEW j \in 1 .. n + 1, m[i] = m[j]
      PROVE  i = j
  <2>1. \A a, b \in 1 .. n : s[a] = s[b] => a = b
    BY DEF Permutation
  <2> QED
    BY <2>1, <1>2, <1>3, <1>4
<1>5. ASSUME NEW x \in 1 .. n + 1
      PROVE  \E i \in 1 .. n + 1 : m[i] = x
  <2>1. CASE x = n + 1
    BY <2>1, <1>2
  <2>2. CASE x \in 1 .. n
    <3>1. PICK i \in 1 .. n : s[i] = x
      BY <2>2 DEF Permutation
    <3> QED
      BY <3>1, <1>2
  <2> QED
    BY <2>1, <2>2
<1> QED
  BY <1>2, <1>4, <1>5 DEF Permutation, m

-----------------------------------------------------------------------------
(* The inductive invariant.  TypeOK alone is not inductive: that read_page *)
(* has a last node to steal when the map is full, and that a write leaves  *)
(* bytes in a page, rests on the list owning every node and on what the    *)
(* call carries.                                                           *)

TablesInv ==
  /\ pages \in Seq(Page)
  /\ Permutation(lru_order, Len(pages))
  /\ page_cache \in [PageId -> Node \cup {None}]
  /\ MapPointsHome
  /\ NoUnfilledPageIsUsed

CallInv ==
  /\ call \in Call
  /\ CallWellFormed
  /\ eoa \in 0 .. MaxAddr
  /\ ret \in {"none", "ok", "error"}
  /\ undefined \in BOOLEAN
  /\ dropped \subseteq Addr

IInv == StoreTypeOK /\ TablesInv /\ CallInv

(* The inductive invariant gives the types.                                *)
LEMMA IInvTyped ==
  ASSUME IInv
  PROVE  TypeOK /\ Typed /\ MapPointsHome /\ NoUnfilledPageIsUsed
<1>1. lru_order \in Seq(Node)
  BY DEF IInv, TablesInv, Permutation, Node
<1> QED
  BY <1>1 DEF IInv, TablesInv, CallInv, Typed, TypeOK

(* The entry of a mapped page designates a node with its id.               *)
LEMMA NodeInMap ==
  ASSUME TablesInv, NEW p \in PageId, page_cache[p] # None
  PROVE  /\ page_cache[p] \in Node
         /\ pages[page_cache[p]] \in Page
         /\ pages[page_cache[p]].id = p
         /\ pages[page_cache[p]].filled
<1>1. page_cache[p] \in Node /\ p \in Mapped
  BY DEF TablesInv, Mapped
<1>2. pages[page_cache[p]] \in Page
  BY <1>1, ElementOfSeq DEF TablesInv, Node
<1> QED
  BY <1>1, <1>2 DEF TablesInv, MapPointsHome, NoUnfilledPageIsUsed

(* The number of nodes is a natural number, and None is no node.           *)
LEMMA LenPages ==
  ASSUME TablesInv
  PROVE  Len(pages) \in Nat /\ None \notin Node
BY LenProperties DEF TablesInv, Node, None

(* The node of a mapped page is replaced by a later state of the same page.*)
LEMMA UpdateKeepsTablesInv ==
  ASSUME TablesInv, NEW n \in Node, NEW pg \in Page,
         pg.id = pages[n].id, pages[n].filled, pg.filled,
         pages' = [pages EXCEPT ![n] = pg],
         Permutation(lru_order', Len(pages)),
         UNCHANGED page_cache
  PROVE  TablesInv'
<1>1. /\ pages' \in Seq(Page) /\ Len(pages') = Len(pages)
      /\ \A m \in Node : pages'[m] = IF m = n THEN pg ELSE pages[m]
  BY ExceptSeq DEF TablesInv, Node
<1>2. page_cache' \in [PageId -> Node' \cup {None}] /\ Mapped' = Mapped /\ Node' = Node
  BY <1>1 DEF TablesInv, Mapped, Node
<1>3. MapPointsHome'
  BY <1>1, <1>2 DEF TablesInv, MapPointsHome, Mapped
<1>4. NoUnfilledPageIsUsed'
  BY <1>1, <1>2 DEF TablesInv, NoUnfilledPageIsUsed, Mapped
<1> QED
  BY <1>1, <1>2, <1>3, <1>4 DEF TablesInv

(* A node is given to another page: the entry of its old page goes, and an *)
(* entry for the new page is made if the node has been filled.             *)
LEMMA StealKeepsTablesInv ==
  ASSUME TablesInv, NEW n \in Node, NEW pg \in Page,
         pg.dirty => pg.filled,
         pages' = [pages EXCEPT ![n] = pg],
         Permutation(lru_order', Len(pages)),
         \/ page_cache' = [page_cache EXCEPT ![pages[n].id] = None]
         \/ /\ pg.filled
            /\ page_cache' = [[page_cache EXCEPT ![pages[n].id] = None] EXCEPT ![pg.id] = n]
  PROVE  TablesInv'
<1> DEFINE erased == [page_cache EXCEPT ![pages[n].id] = None]
<1>1. /\ pages' \in Seq(Page) /\ Len(pages') = Len(pages) /\ Node' = Node
      /\ \A m \in Node : pages'[m] = IF m = n THEN pg ELSE pages[m]
  BY ExceptSeq DEF TablesInv, Node
<1>2. /\ erased \in [PageId -> Node \cup {None}]
      /\ \A p \in PageId : erased[p] # None => erased[p] = page_cache[p] /\ erased[p] # n
  BY NodeInMap DEF TablesInv
<1>3. /\ page_cache' \in [PageId -> Node \cup {None}]
      /\ \A p \in PageId : page_cache'[p] # None =>
           \/ page_cache'[p] = page_cache[p] /\ page_cache'[p] # n
           \/ page_cache'[p] = n /\ p = pg.id /\ pg.filled
  <2> HIDE DEF erased
  <2> USE <1>2
  <2>1. CASE page_cache' = erased
    BY <2>1
  <2>2. CASE pg.filled /\ page_cache' = [erased EXCEPT ![pg.id] = n]
    BY <2>2 DEF Page
  <2> QED
    BY <2>1, <2>2 DEF erased
<1>4. ASSUME NEW p \in Mapped'
      PROVE  pages'[page_cache'[p]].id = p /\ pages'[page_cache'[p]].filled
  BY <1>1, <1>3, <1>4, NodeInMap DEF Mapped
<1>5. ASSUME NEW m \in Node', pages'[m].dirty
      PROVE  pages'[m].filled
  BY <1>1, <1>5 DEF TablesInv, NoUnfilledPageIsUsed
<1> QED
  BY <1>1, <1>3, <1>4, <1>5 DEF TablesInv, MapPointsHome, NoUnfilledPageIsUsed

(* A node is added, for a page whose entry is made if it has been filled.  *)
LEMMA GrowKeepsTablesInv ==
  ASSUME TablesInv, NEW pg \in Page,
         pg.dirty => pg.filled,
         pages' = Append(pages, pg),
         Permutation(lru_order', Len(pages) + 1),
         \/ page_cache' = page_cache
         \/ pg.filled /\ page_cache' = [page_cache EXCEPT ![pg.id] = Len(pages) + 1]
  PROVE  TablesInv'
<1>0. Len(pages) \in Nat
  BY LenPages
<1>1. /\ pages' \in Seq(Page) /\ Len(pages') = Len(pages) + 1
      /\ \A m \in Node : pages'[m] = pages[m]
      /\ pages'[Len(pages) + 1] = pg
  BY <1>0 DEF TablesInv, Node
<1>2. Node' = Node \cup {Len(pages) + 1}
  BY <1>0, <1>1 DEF Node
<1>3. /\ page_cache' \in [PageId -> Node' \cup {None}]
      /\ \A p \in PageId : page_cache'[p] # None =>
           \/ page_cache'[p] = page_cache[p]
           \/ page_cache'[p] = Len(pages) + 1 /\ p = pg.id /\ pg.filled
  BY <1>2 DEF TablesInv, Page
<1>4. ASSUME NEW p \in Mapped'
      PROVE  pages'[page_cache'[p]].id = p /\ pages'[page_cache'[p]].filled
  <2>1. p \in PageId /\ page_cache'[p] # None
    BY <1>4 DEF Mapped
  <2>2. CASE page_cache'[p] = page_cache[p]
    <3>1. /\ page_cache[p] \in Node
          /\ pages[page_cache[p]].id = p
          /\ pages[page_cache[p]].filled
      BY <2>1, <2>2, NodeInMap
    <3>2. pages'[page_cache[p]] = pages[page_cache[p]]
      BY <3>1, <1>1
    <3> QED
      BY <3>1, <3>2, <2>2
  <2>3. CASE page_cache'[p] = Len(pages) + 1 /\ p = pg.id /\ pg.filled
    BY <2>3, <1>1
  <2> QED
    BY <2>1, <2>2, <2>3, <1>3
<1>5. ASSUME NEW m \in Node', pages'[m].dirty
      PROVE  pages'[m].filled
  BY <1>1, <1>2, <1>5 DEF TablesInv, NoUnfilledPageIsUsed
<1> QED
  BY <1>1, <1>3, <1>4, <1>5 DEF TablesInv, MapPointsHome, NoUnfilledPageIsUsed

(* Pages are only marked: clean, or to be zeroed on their next use.        *)
LEMMA MarkingKeepsTablesInv ==
  ASSUME TablesInv, UNCHANGED <<lru_order, page_cache>>,
         pages' \in Seq(Page), Len(pages') = Len(pages),
         \A n \in Node : /\ pages'[n].id = pages[n].id
                         /\ pages'[n].filled = pages[n].filled
                         /\ pages'[n].dirty => pages[n].dirty
  PROVE  TablesInv'
<1>1. Node' = Node /\ Mapped' = Mapped
  BY DEF Node, Mapped
<1>2. \A p \in Mapped : page_cache[p] \in Node
  BY DEF TablesInv, Mapped
<1> QED
  BY <1>1, <1>2 DEF TablesInv, MapPointsHome, NoUnfilledPageIsUsed

(* flush stands on a node of the list.                                     *)
LEMMA WalkedIsNode ==
  ASSUME TablesInv, CallInv, Walking
  PROVE  /\ call.k \in 1 .. Len(lru_order)
         /\ Walked \in Node
         /\ pages[Walked] \in Page
<1>1. call.k \in Nat /\ call.k # 0
  BY DEF CallInv, CallWellFormed, Call, Walking
<1>2. lru_order \in Seq(Node) /\ Len(lru_order) \in Nat
  BY LenProperties DEF TablesInv, Permutation, Node
<1>3. call.k \in 1 .. Len(lru_order)
  BY <1>1, <1>2 DEF Walking
<1>4. Walked \in Node
  BY <1>2, <1>3, ElementOfSeq DEF Walked
<1> QED
  BY <1>3, <1>4, ElementOfSeq DEF TablesInv, Node

(* Every node has a position in the list.                                  *)
LEMMA PositionOfIsPosition ==
  ASSUME TablesInv, NEW n \in Node
  PROVE  PositionOf(n) \in 1 .. Len(lru_order) /\ lru_order[PositionOf(n)] = n
<1>1. \E i \in 1 .. Len(lru_order) : lru_order[i] = n
  BY DEF TablesInv, Permutation, Node
<1> QED
  BY <1>1 DEF PositionOf

(* When the map is full there is a node to steal.                          *)
LEMMA VictimIsNode ==
  ASSUME TablesInv, CacheFull
  PROVE  /\ Len(lru_order) \in 1 .. Len(lru_order)
         /\ Victim \in Node
         /\ pages[Victim] \in Page
         /\ pages[Victim].dirty => pages[Victim].filled
<1>1. Mapped # {}
  BY FS_EmptySet, CacheSizeAssumption DEF CacheFull
<1>2. PICK p \in PageId : page_cache[p] # None
  BY <1>1 DEF Mapped
<1>3. page_cache[p] \in 1 .. Len(pages) /\ Len(pages) \in Nat
  BY <1>2, LenPages DEF TablesInv, Node
<1>4. Len(lru_order) \in 1 .. Len(lru_order)
  BY <1>3 DEF TablesInv, Permutation
<1>5. Victim \in Node
  BY <1>4, ElementOfSeq DEF Victim, Node, TablesInv, Permutation
<1> QED
  BY <1>4, <1>5, ElementOfSeq DEF TablesInv, Node, NoUnfilledPageIsUsed

-----------------------------------------------------------------------------
(* Each action preserves the inductive invariant.                          *)

(* Writing the victim back keeps the types of the store.                   *)
LEMMA WriteBackKeepsStore ==
  ASSUME StoreTypeOK, TablesInv, CacheFull, WriteBack
  PROVE  StoreTypeOK'
<1>1. pages[Victim].id \in PageId /\ pages[Victim].data \in PageData
  BY VictimIsNode DEF Page
<1>2. CASE pages[Victim].dirty
  BY <1>1, <1>2, KvWriteType DEF WriteBack
<1>3. CASE ~pages[Victim].dirty
  BY <1>3 DEF WriteBack, storeVars, bucket, store, StoreTypeOK
<1> QED
  BY <1>2, <1>3

(* A segment served leaves a well-formed call.                             *)
LEMMA AdvanceKeepsCallInv ==
  ASSUME IInv, Pending, NEW pg \in Page, Advance(pg)
  PROVE  CallInv'
BY AdvanceType, IInvTyped DEF IInv, CallInv

(* So does an exception, which ends it.                                    *)
LEMMA ThrowKeepsCallInv ==
  ASSUME IInv, Throw
  PROVE  CallInv'
<1>1. UNCHANGED <<eoa, undefined, dropped>>
  BY DEF Throw
<1> QED
  BY <1>1, ThrowType, IInvTyped DEF IInv, CallInv

(* AccessHit preserves the inductive invariant.                            *)
LEMMA AccessHitInv ==
  ASSUME IInv, AccessHit
  PROVE  IInv'
<1> DEFINE n == page_cache[Current.page]
<1>1. Typed /\ TablesInv /\ Pending /\ n # None
  BY IInvTyped DEF IInv, AccessHit
<1>2. Current.page \in PageId
  BY <1>1, CurrentInBounds
<1>3. n \in Node /\ pages[n] \in Page /\ pages[n].filled
  BY <1>1, <1>2, NodeInMap
<1>4. /\ Served(pages[n]) \in Page
      /\ Served(pages[n]).id = pages[n].id
      /\ Served(pages[n]).filled
  BY <1>1, <1>3, ServedType
<1>5. TablesInv'
  <2>1. pages' = [pages EXCEPT ![n] = Served(pages[n])] /\ UNCHANGED page_cache
    BY DEF AccessHit
  <2>2. Permutation(lru_order', Len(pages))
    BY <1>1, <1>3, PositionOfIsPosition, MoveToFrontPermutation, LenPages
    DEF AccessHit, TablesInv
  <2> QED
    BY <2>1, <2>2, <1>1, <1>3, <1>4, UpdateKeepsTablesInv
<1>6. CallInv'
  BY <1>1, <1>4, AdvanceKeepsCallInv DEF AccessHit
<1>7. StoreTypeOK'
  BY DEF IInv, AccessHit, storeVars, bucket, store, StoreTypeOK
<1> QED
  BY <1>5, <1>6, <1>7 DEF IInv

(* AccessAllocate preserves the inductive invariant.                       *)
LEMMA AccessAllocateInv ==
  ASSUME IInv, AccessAllocate
  PROVE  IInv'
<1> DEFINE pg == Served(FilledPage(Current.page, Fetched(objects, Current.page)))
<1>1. Typed /\ TablesInv /\ Pending /\ StoreTypeOK
  BY IInvTyped DEF IInv, AccessAllocate, Miss
<1>2. Current.page \in PageId
  BY <1>1, CurrentInBounds
<1>3. FilledPage(Current.page, Fetched(objects, Current.page)) \in Page
  BY <1>1, <1>2, FetchedType, FilledPageType DEF StoreTypeOK
<1>4. pg \in Page /\ pg.id = Current.page /\ pg.filled
  BY <1>1, <1>2, <1>3, ServedType, FetchedType, FilledPageType DEF StoreTypeOK
<1>5. /\ pages' = Append(pages, pg)
      /\ lru_order' = <<Len(pages) + 1>> \o lru_order
      /\ page_cache' = [page_cache EXCEPT ![Current.page] = Len(pages) + 1]
      /\ Advance(pg)
      /\ UNCHANGED storeVars
  BY DEF AccessAllocate
<1> HIDE DEF pg
<1>6. TablesInv'
  <2>1. Permutation(lru_order', Len(pages) + 1)
    BY <1>1, <1>5, ConsPermutation, LenPages DEF TablesInv
  <2> QED
    BY <2>1, <1>1, <1>4, <1>5, GrowKeepsTablesInv
<1>7. CallInv'
  BY <1>1, <1>4, <1>5, AdvanceKeepsCallInv
<1>8. StoreTypeOK'
  BY <1>1, <1>5 DEF storeVars, bucket, store, StoreTypeOK
<1> QED
  BY <1>6, <1>7, <1>8 DEF IInv

(* AccessAllocateThrows preserves the inductive invariant.                 *)
LEMMA AccessAllocateThrowsInv ==
  ASSUME IInv, AccessAllocateThrows
  PROVE  IInv'
<1>1. Typed /\ TablesInv /\ Pending /\ StoreTypeOK
  BY IInvTyped DEF IInv, AccessAllocateThrows, Miss
<1>2. Current.page \in PageId
  BY <1>1, CurrentInBounds
<1>3. UnfilledPage(Current.page) \in Page /\ ~UnfilledPage(Current.page).dirty
  BY <1>2, UnfilledPageType
<1>4. /\ pages' = Append(pages, UnfilledPage(Current.page))
      /\ lru_order' = Append(lru_order, Len(pages) + 1)
      /\ Throw
      /\ UNCHANGED <<storeVars, page_cache>>
  BY DEF AccessAllocateThrows
<1>5. TablesInv'
  <2>1. Permutation(lru_order', Len(pages) + 1)
    BY <1>1, <1>4, AppendPermutation, LenPages DEF TablesInv
  <2> QED
    BY <2>1, <1>1, <1>3, <1>4, GrowKeepsTablesInv
<1>6. CallInv'
  BY <1>4, ThrowKeepsCallInv
<1>7. StoreTypeOK'
  BY <1>1, <1>4 DEF storeVars, bucket, store, StoreTypeOK
<1> QED
  BY <1>5, <1>6, <1>7 DEF IInv

(* AccessEvict preserves the inductive invariant.                          *)
LEMMA AccessEvictInv ==
  ASSUME IInv, AccessEvict
  PROVE  IInv'
<1> DEFINE pg == Served(FilledPage(Current.page, Fetched(objects', Current.page)))
<1>1. Typed /\ TablesInv /\ Pending /\ StoreTypeOK /\ CacheFull /\ WriteBack
  BY IInvTyped DEF IInv, AccessEvict, Miss
<1>2. Current.page \in PageId
  BY <1>1, CurrentInBounds
<1>3. Len(lru_order) \in 1 .. Len(lru_order) /\ Victim \in Node
  BY <1>1, VictimIsNode
<1>4. StoreTypeOK'
  BY <1>1, WriteBackKeepsStore
<1>5. Fetched(objects', Current.page) \in PageData
  BY <1>2, <1>4, FetchedType DEF StoreTypeOK
<1>6. pg \in Page /\ pg.id = Current.page /\ pg.filled
  BY <1>1, <1>2, <1>5, ServedType, FilledPageType
<1>7. /\ pages' = [pages EXCEPT ![Victim] = pg]
      /\ page_cache' = [Erased EXCEPT ![Current.page] = Victim]
      /\ lru_order' = MoveToFront(lru_order, Len(lru_order))
      /\ Advance(pg)
  BY DEF AccessEvict
<1> HIDE DEF pg
<1>8. TablesInv'
  <2>1. Permutation(lru_order', Len(pages))
    BY <1>1, <1>3, <1>7, MoveToFrontPermutation, LenPages DEF TablesInv
  <2> QED
    BY <2>1, <1>1, <1>3, <1>6, <1>7, StealKeepsTablesInv DEF Erased
<1>9. CallInv'
  BY <1>1, <1>6, <1>7, AdvanceKeepsCallInv
<1> QED
  BY <1>4, <1>8, <1>9 DEF IInv

(* AccessEvictThrows preserves the inductive invariant.                    *)
LEMMA AccessEvictThrowsInv ==
  ASSUME IInv, AccessEvictThrows
  PROVE  IInv'
<1>1. Typed /\ TablesInv /\ Pending /\ StoreTypeOK /\ CacheFull /\ WriteBack
  BY IInvTyped DEF IInv, AccessEvictThrows, Miss
<1>2. Current.page \in PageId
  BY <1>1, CurrentInBounds
<1>3. UnfilledPage(Current.page) \in Page /\ ~UnfilledPage(Current.page).dirty
  BY <1>2, UnfilledPageType
<1>4. Victim \in Node
  BY <1>1, VictimIsNode
<1>5. /\ pages' = [pages EXCEPT ![Victim] = UnfilledPage(Current.page)]
      /\ page_cache' = Erased
      /\ Throw
      /\ UNCHANGED lru_order
  BY DEF AccessEvictThrows
<1>6. TablesInv'
  <2>1. Permutation(lru_order', Len(pages))
    BY <1>1, <1>5 DEF TablesInv
  <2> QED
    BY <2>1, <1>1, <1>3, <1>4, <1>5, StealKeepsTablesInv DEF Erased
<1>7. CallInv'
  BY <1>5, ThrowKeepsCallInv
<1>8. StoreTypeOK'
  BY <1>1, WriteBackKeepsStore
<1> QED
  BY <1>6, <1>7, <1>8 DEF IInv

(* A step that leaves the tables alone keeps their invariant.              *)
LEMMA UnchangedTables ==
  ASSUME TablesInv, UNCHANGED tableVars
  PROVE  TablesInv'
BY DEF TablesInv, tableVars, MapPointsHome, NoUnfilledPageIsUsed, Node, Mapped

(* A step that leaves the store alone keeps its types.                     *)
LEMMA UnchangedStore ==
  ASSUME StoreTypeOK, UNCHANGED storeVars
  PROVE  StoreTypeOK'
BY DEF StoreTypeOK, storeVars, bucket, store

(* WriteBackThrows preserves the inductive invariant.                      *)
LEMMA WriteBackThrowsInv ==
  ASSUME IInv, WriteBackThrows
  PROVE  IInv'
<1>1. pages[Victim].id \in PageId /\ pages[Victim].data \in PageData
  BY VictimIsNode DEF IInv, WriteBackThrows, Page
<1>2. StoreTypeOK'
  BY <1>1, KvWriteThrowsType DEF IInv, WriteBackThrows
<1> QED
  BY <1>2, UnchangedTables, ThrowKeepsCallInv DEF IInv, WriteBackThrows

(* AccessOverrun preserves the inductive invariant.                        *)
LEMMA AccessOverrunInv ==
  ASSUME IInv, AccessOverrun
  PROVE  IInv'
<1>1. CallInv'
  BY DEF IInv, CallInv, AccessOverrun, CallWellFormed, InAccess, Flushing
<1> QED
  BY <1>1, UnchangedTables, UnchangedStore DEF IInv, AccessOverrun

(* No call in progress is a well-formed call.                              *)
LEMMA IdleType ==
  /\ Idle \in Call
  /\ Idle.op = "idle"
BY MaxAddrAssumption DEF Idle, Call, Unfilled

(* ReturnOk preserves the inductive invariant.                             *)
LEMMA ReturnOkInv ==
  ASSUME IInv, ReturnOk
  PROVE  IInv'
<1>1. CallInv'
  BY IdleType DEF IInv, CallInv, ReturnOk, CallWellFormed, InAccess, Flushing
<1> QED
  BY <1>1, UnchangedTables, UnchangedStore DEF IInv, ReturnOk

(* BeginRead preserves the inductive invariant.                            *)
LEMMA BeginReadInv ==
  ASSUME IInv, NEW addr \in Addr, NEW size \in 1 .. MaxAddr, BeginRead(addr, size)
  PROVE  IInv'
<1> DEFINE c == [op |-> "read", addr |-> addr, size |-> size, k |-> 1, buffer |-> Unfilled]
<1>1. InBounds(addr, size)
  BY MaxAddrAssumption DEF BeginRead, InBounds, Addr, IInv, CallInv
<1>2. c \in Call
  BY MaxAddrAssumption DEF Call, Unfilled, Addr
<1>3. call' = c /\ ret' = "none"
      /\ UNCHANGED <<storeVars, tableVars, eoa, undefined, dropped>>
  BY DEF BeginRead, Begin
<1>4. CallWellFormed'
  BY <1>1, <1>3, SegmentCountBounds DEF CallWellFormed, InAccess, Flushing
<1>5. CallInv'
  BY <1>2, <1>3, <1>4 DEF IInv, CallInv
<1> QED
  BY <1>3, <1>5, UnchangedTables, UnchangedStore DEF IInv

(* BeginWrite preserves the inductive invariant.                           *)
LEMMA BeginWriteInv ==
  ASSUME IInv, NEW addr \in Addr, NEW size \in 1 .. MaxAddr,
         NEW data \in [addr .. addr + size - 1 -> Byte],
         BeginWrite(addr, size, data)
  PROVE  IInv'
<1> DEFINE buffer == [a \in Addr |-> IF a \in addr .. addr + size - 1
                                     THEN data[a] ELSE NoByte]
           c == [op |-> "write", addr |-> addr, size |-> size, k |-> 1, buffer |-> buffer]
<1>1. InBounds(addr, size)
  BY MaxAddrAssumption DEF BeginWrite, InBounds, Addr, IInv, CallInv
<1>2. /\ buffer \in [Addr -> Byte \cup {NoByte}]
      /\ \A a \in addr .. addr + size - 1 : buffer[a] \in Byte
  BY <1>1, MaxAddrAssumption DEF InBounds, Addr
<1>3. call' = c /\ ret' = "none"
      /\ UNCHANGED <<storeVars, tableVars, eoa, undefined, dropped>>
  BY DEF BeginWrite, Begin
<1> HIDE DEF buffer
<1>4. c \in Call
  BY <1>2, MaxAddrAssumption DEF Call, Addr
<1>5. CallWellFormed'
  BY <1>1, <1>2, <1>3, SegmentCountBounds DEF CallWellFormed, InAccess, Flushing, CallAddrs
<1>6. CallInv'
  BY <1>3, <1>4, <1>5 DEF IInv, CallInv
<1> QED
  BY <1>3, <1>6, UnchangedTables, UnchangedStore DEF IInv

(* BeginFlush preserves the inductive invariant.                           *)
LEMMA BeginFlushInv ==
  ASSUME IInv, BeginFlush
  PROVE  IInv'
<1>1. call' = [Idle EXCEPT !.op = "flush", !.k = 1] /\ ret' = "none"
      /\ UNCHANGED <<storeVars, tableVars, eoa, undefined, dropped>>
  BY DEF BeginFlush, Begin
<1> DEFINE c == [Idle EXCEPT !.op = "flush"]
<1>2. c \in Call /\ c.op = "flush"
  BY IdleType DEF Call
<1>3. call' = [c EXCEPT !.k = 1]
  BY <1>1
<1> HIDE DEF c
<1>4. call' \in Call /\ call'.op = "flush" /\ call'.k = 1
  BY <1>2, <1>3 DEF Call
<1>5. CallInv'
  BY <1>1, <1>4 DEF IInv, CallInv, CallWellFormed, InAccess, Flushing
<1> QED
  BY <1>1, <1>5, UnchangedTables, UnchangedStore DEF IInv

(* SetEoa preserves the inductive invariant.                               *)
LEMMA SetEoaInv ==
  ASSUME IInv, NEW addr \in 0 .. MaxAddr, SetEoa(addr)
  PROVE  IInv'
<1>1. CallInv'
  BY DEF IInv, CallInv, SetEoa, CallWellFormed, InAccess, Flushing, CallAddrs
<1> QED
  BY <1>1, UnchangedTables, UnchangedStore DEF IInv, SetEoa

(* Truncate preserves the inductive invariant.                             *)
LEMMA TruncateInv ==
  ASSUME IInv, Truncate
  PROVE  IInv'
<1>1. PageOf(eoa) \in PageId
  BY PageOfType DEF IInv, CallInv
<1>2. StoreTypeOK'
  BY <1>1, KvSetMaxPageType DEF IInv, Truncate
<1>3. \A n \in Node : pages[n] \in Page
  BY ElementOfSeq DEF IInv, TablesInv, Node
<1>4. pages' = [n \in Node |-> IF pages[n].id > PageOf(eoa)
                               THEN Invalidated(pages[n]) ELSE pages[n]]
  BY DEF Truncate
<1>5. \A n \in Node : /\ pages'[n] \in Page
                      /\ pages'[n].id = pages[n].id
                      /\ pages'[n].filled = pages[n].filled
                      /\ pages'[n].dirty => pages[n].dirty
  BY <1>3, <1>4, InvalidatedType
<1>6. pages' \in Seq(Page) /\ Len(pages') = Len(pages)
  <2>1. Len(pages) \in Nat
    BY LenPages DEF IInv
  <2>2. pages' \in [1 .. Len(pages) -> Page]
    BY <1>4, <1>5 DEF Node
  <2>3. pages' \in Seq(Page)
    BY <2>1, <2>2, SeqDef
  <2> QED
    BY <2>1, <2>2, <2>3, LenProperties
<1>7. TablesInv'
  BY <1>5, <1>6, MarkingKeepsTablesInv DEF IInv, Truncate
<1>8. CallInv'
  BY DEF IInv, CallInv, Truncate, CallWellFormed, InAccess, Flushing, CallAddrs
<1> QED
  BY <1>2, <1>7, <1>8 DEF IInv

(* FlushSkip preserves the inductive invariant.                            *)
LEMMA FlushStepsOn ==
  ASSUME CallInv, Walking, call' = [call EXCEPT !.k = @ + 1],
         UNCHANGED <<eoa, ret, undefined, dropped>>
  PROVE  CallInv'
<1>1. /\ call \in Call /\ call.k \in Nat /\ call.op = "flush"
  BY DEF CallInv, Call, Walking, Flushing
<1>2. call' \in Call /\ call'.op = "flush" /\ call'.k = call.k + 1
  BY <1>1 DEF Call
<1>3. CallWellFormed'
  BY <1>1, <1>2 DEF CallWellFormed, InAccess, Flushing
<1> QED
  BY <1>2, <1>3 DEF CallInv

LEMMA FlushSkipInv ==
  ASSUME IInv, FlushSkip
  PROVE  IInv'
BY FlushStepsOn, UnchangedTables, UnchangedStore DEF IInv, FlushSkip

(* FlushPage preserves the inductive invariant.                            *)
LEMMA FlushPageInv ==
  ASSUME IInv, FlushPage
  PROVE  IInv'
<1>1. Walked \in Node /\ pages[Walked] \in Page
  BY WalkedIsNode DEF IInv, FlushPage
<1>2. StoreTypeOK'
  BY <1>1, KvWriteType DEF IInv, FlushPage, Page
<1> DEFINE pg == [pages[Walked] EXCEPT !.dirty = FALSE]
<1>3. pg \in Page /\ pg.id = pages[Walked].id
      /\ pg.filled = pages[Walked].filled /\ ~pg.dirty
  BY <1>1 DEF Page
<1>4. pages' = [pages EXCEPT ![Walked] = pg]
  BY DEF FlushPage
<1> HIDE DEF pg
<1>5. /\ pages' \in Seq(Page) /\ Len(pages') = Len(pages)
      /\ \A n \in Node : pages'[n] = IF n = Walked THEN pg ELSE pages[n]
  BY <1>1, <1>3, <1>4, ExceptSeq DEF IInv, TablesInv, Node
<1>6. \A n \in Node : /\ pages'[n].id = pages[n].id
                      /\ pages'[n].filled = pages[n].filled
                      /\ pages'[n].dirty => pages[n].dirty
  BY <1>3, <1>5
<1>7. TablesInv'
  BY <1>5, <1>6, MarkingKeepsTablesInv DEF IInv, FlushPage
<1>8. CallInv'
  BY FlushStepsOn DEF IInv, FlushPage
<1> QED
  BY <1>2, <1>7, <1>8 DEF IInv

(* FlushPageThrows preserves the inductive invariant.                      *)
LEMMA FlushPageThrowsInv ==
  ASSUME IInv, FlushPageThrows
  PROVE  IInv'
<1>1. Walked \in Node /\ pages[Walked] \in Page
  BY WalkedIsNode DEF IInv, FlushPageThrows
<1>2. StoreTypeOK'
  BY <1>1, KvWriteThrowsType DEF IInv, FlushPageThrows, Page
<1> QED
  BY <1>2, UnchangedTables, ThrowKeepsCallInv DEF IInv, FlushPageThrows

(* FlushMeta preserves the inductive invariant.                            *)
LEMMA FlushMetaInv ==
  ASSUME IInv, FlushMeta
  PROVE  IInv'
<1>1. CallInv'
  BY IdleType DEF IInv, CallInv, FlushMeta, CallWellFormed, InAccess, Flushing
<1> QED
  BY <1>1, UnchangedTables, KvFlushType DEF IInv, FlushMeta

(* FlushMetaThrows preserves the inductive invariant.                      *)
LEMMA FlushMetaThrowsInv ==
  ASSUME IInv, FlushMetaThrows
  PROVE  IInv'
BY UnchangedTables, KvFlushType, ThrowKeepsCallInv DEF IInv, FlushMetaThrows

(* Stutter preserves the inductive invariant.                              *)
LEMMA StutterInv ==
  ASSUME IInv, UNCHANGED vars
  PROVE  IInv'
<1>1. CallInv'
  BY DEF IInv, CallInv, vars, CallWellFormed, InAccess, Flushing, CallAddrs
<1> QED
  BY <1>1, UnchangedTables, UnchangedStore DEF IInv, vars

-----------------------------------------------------------------------------
(* A table with nothing in it is well formed.                              *)
EmptyTable == lru_order = <<>> /\ pages = <<>> /\ page_cache = [p \in PageId |-> None]

LEMMA EmptyTablesInv == EmptyTable => TablesInv
<1> SUFFICES ASSUME EmptyTable PROVE TablesInv
  OBVIOUS
<1>1. pages = <<>> /\ lru_order = <<>> /\ Len(pages) = 0
      /\ page_cache = [p \in PageId |-> None]
  BY DEF EmptyTable
<1> QED
  BY <1>1 DEF TablesInv, Permutation, Node, Mapped, MapPointsHome, NoUnfilledPageIsUsed

(* With no call in progress the rest of the driver is well formed.         *)
NoCall ==
  /\ call = Idle
  /\ eoa \in 0 .. MaxAddr
  /\ ret \in {"none", "ok", "error"}
  /\ undefined \in BOOLEAN
  /\ dropped \subseteq Addr

LEMMA IdleCallInv == NoCall => CallInv
<1> SUFFICES ASSUME call = Idle
             PROVE  call \in Call /\ CallWellFormed
  BY Zenon DEF CallInv, NoCall
<1> QED
  BY IdleType DEF CallWellFormed, InAccess, Flushing

(* So is a bucket that holds nothing.                                      *)
LEMMA StoreInitType == StoreInit => StoreTypeOK
<1>1. 0 \in PageCount
  BY PageOfBounds, MaxAddrAssumption DEF PageOf, PageCount
<1> QED
  BY <1>1 DEF StoreInit, StoreTypeOK

(* The invariant holds at first ...                                        *)
LEMMA InitIInv == Init => IInv
<1> SUFFICES ASSUME Init PROVE IInv
  OBVIOUS
<1>1. StoreTypeOK
  BY StoreInitType DEF Init
<1>2. TablesInv
  BY EmptyTablesInv DEF Init, TableInit, EmptyTable
<1>3. CallInv
  <2>1. call = Idle /\ eoa = 0 /\ ret = "none" /\ undefined = FALSE /\ dropped = {}
    BY DEF Init, TableInit
  <2>2. eoa \in 0 .. MaxAddr /\ ret \in {"none", "ok", "error"} /\ dropped \subseteq Addr
    BY <2>1, MaxAddrAssumption
  <2>3. undefined \in BOOLEAN
    BY <2>1, Zenon
  <2> QED
    BY <2>1, <2>2, <2>3, IdleCallInv DEF NoCall
<1> QED
  BY <1>1, <1>2, <1>3 DEF IInv

(* ... and every step preserves it.                                        *)
LEMMA NextIInv == IInv /\ [Next]_vars => IInv'
<1> SUFFICES ASSUME IInv, [Next]_vars PROVE IInv'
  OBVIOUS
<1>1. CASE Request
  <2>1. ASSUME NEW addr \in Addr, NEW size \in 1 .. MaxAddr, BeginRead(addr, size)
        PROVE  IInv'
    BY <2>1, BeginReadInv
  <2>2. ASSUME NEW addr \in Addr, NEW size \in 1 .. MaxAddr,
               NEW data \in [addr .. addr + size - 1 -> Byte], BeginWrite(addr, size, data)
        PROVE  IInv'
    BY <2>2, BeginWriteInv
  <2>3. ASSUME NEW addr \in 0 .. MaxAddr, SetEoa(addr)
        PROVE  IInv'
    BY <2>3, SetEoaInv
  <2> QED
    BY <1>1, <2>1, <2>2, <2>3, BeginFlushInv, TruncateInv DEF Request
<1>2. CASE Access
  BY <1>2, AccessHitInv, AccessAllocateInv, AccessAllocateThrowsInv, AccessEvictInv,
     AccessEvictThrowsInv, WriteBackThrowsInv, AccessOverrunInv, ReturnOkInv DEF Access
<1>3. CASE Flush
  BY <1>3, FlushSkipInv, FlushPageInv, FlushPageThrowsInv, FlushMetaInv, FlushMetaThrowsInv DEF Flush
<1>4. CASE Halted
  BY <1>4, StutterInv DEF Halted
<1>5. CASE UNCHANGED vars
  BY <1>5, StutterInv
<1> QED
  BY <1>1, <1>2, <1>3, <1>4, <1>5 DEF Next

(* The inductive invariant holds throughout.                               *)
THEOREM Invariant == Spec => []IInv
BY InitIInv, NextIInv, PTL DEF Spec

(* Type correctness: in particular a write never leaves in a page a byte   *)
(* that the caller did not hand over, and no access names a page or an     *)
(* offset outside the table.                                               *)
THEOREM TypeCorrect == Spec => []TypeOK
BY Invariant, IInvTyped, PTL

(* The map never leads to the buffer of another page, although read_page   *)
(* renames a node before the GET that may fail.                            *)
THEOREM MapIsHonest == Spec => []MapPointsHome
BY Invariant, IInvTyped, PTL

(* The buffer of a failed GET is neither read by a call nor stored.        *)
THEOREM UnfilledPagesUnused == Spec => []NoUnfilledPageIsUsed
BY Invariant, IInvTyped, PTL

-----------------------------------------------------------------------------
(* The bound on the cache.                                                 *)

BoundInv ==
  /\ \A n \in Node : page_cache[pages[n].id] = n
  /\ IsFiniteSet(Mapped)
  /\ Cardinality(Mapped) <= CacheSize

(* The parts of the bound, for citing.                                     *)
LEMMA BoundInvMeans ==
  ASSUME BoundInv
  PROVE  EveryNodeMapped /\ CacheBounded
BY DEF BoundInv, EveryNodeMapped, CacheBounded, Orphans

(* The bound depends on the ids and the map alone.                         *)
LEMMA SameIdsKeepBoundInv ==
  ASSUME BoundInv, UNCHANGED page_cache, Len(pages') = Len(pages),
         \A n \in Node : pages'[n].id = pages[n].id
  PROVE  BoundInv'
<1>1. Node' = Node /\ Mapped' = Mapped
  BY DEF Node, Mapped
<1> QED
  BY <1>1 DEF BoundInv

(* AccessHit keeps the bound.                                              *)
LEMMA AccessHitBound ==
  ASSUME IInv, BoundInv, AccessHit
  PROVE  BoundInv'
<1> DEFINE n == page_cache[Current.page]
<1>1. Typed /\ TablesInv /\ Pending /\ n # None
  BY IInvTyped DEF IInv, AccessHit
<1>2. n \in Node /\ pages[n] \in Page
  BY <1>1, CurrentInBounds, NodeInMap
<1>3. Served(pages[n]) \in Page /\ Served(pages[n]).id = pages[n].id
  BY <1>1, <1>2, ServedType
<1>4. pages' = [pages EXCEPT ![n] = Served(pages[n])] /\ UNCHANGED page_cache
  BY DEF AccessHit
<1>5. Len(pages') = Len(pages) /\ \A m \in Node : pages'[m].id = pages[m].id
  BY <1>1, <1>2, <1>3, <1>4, ExceptSeq DEF TablesInv, Node
<1> QED
  BY <1>4, <1>5, SameIdsKeepBoundInv

(* AccessAllocate keeps the bound.                                         *)
LEMMA AccessAllocateBound ==
  ASSUME IInv, BoundInv, AccessAllocate
  PROVE  BoundInv'
<1> DEFINE p  == Current.page
           pg == Served(FilledPage(p, Fetched(objects, p)))
           l  == Len(pages) + 1
<1>1. /\ Typed /\ TablesInv /\ Pending /\ StoreTypeOK
      /\ page_cache[p] = None /\ Cardinality(Mapped) # CacheSize
  BY IInvTyped DEF IInv, AccessAllocate, Miss, CacheFull
<1>2. p \in PageId
  BY <1>1, CurrentInBounds
<1>3. FilledPage(p, Fetched(objects, p)) \in Page
      /\ FilledPage(p, Fetched(objects, p)).id = p
  BY <1>1, <1>2, FetchedType, FilledPageType DEF StoreTypeOK
<1>4. pg \in Page /\ pg.id = p
  BY <1>1, <1>3, ServedType
<1>5. pages' = Append(pages, pg) /\ page_cache' = [page_cache EXCEPT ![p] = l]
  BY DEF AccessAllocate
<1> HIDE DEF pg, p
<1>6. Len(pages) \in Nat /\ None \notin Node
  BY <1>1, LenPages
<1>7. /\ Len(pages') = l /\ Node' = Node \cup {l}
      /\ \A n \in Node : pages'[n] = pages[n]
      /\ pages'[l] = pg
  BY <1>1, <1>4, <1>5, <1>6 DEF TablesInv, Node
<1>8. page_cache \in [PageId -> Node \cup {None}]
  BY <1>1 DEF TablesInv
<1>9. ASSUME NEW n \in Node'
      PROVE  page_cache'[pages'[n].id] = n
  <2>1. CASE n = l
    BY <2>1, <1>2, <1>4, <1>5, <1>7, <1>8
  <2>2. CASE n \in Node
    <3>1. pages[n] \in Page /\ page_cache[pages[n].id] = n
      BY <2>2, <1>1, ElementOfSeq DEF TablesInv, Node, BoundInv
    <3>2. pages[n].id # p /\ pages[n].id \in PageId
      BY <3>1, <2>2, <1>1, <1>6 DEF Page
    <3> QED
      BY <3>1, <3>2, <2>2, <1>5, <1>7, <1>8
  <2> QED
    BY <2>1, <2>2, <1>7
<1>10. Mapped' = Mapped \cup {p} /\ p \notin Mapped
  <2>1. l # None
    BY <1>6 DEF None
  <2> QED
    BY <2>1, <1>1, <1>2, <1>5, <1>8 DEF Mapped
<1>11. IsFiniteSet(Mapped) /\ Cardinality(Mapped) \in Nat
  BY FS_CardinalityType DEF BoundInv
<1>12. IsFiniteSet(Mapped') /\ Cardinality(Mapped') = Cardinality(Mapped) + 1
  BY <1>10, <1>11, FS_AddElement
<1> QED
  BY <1>1, <1>9, <1>11, <1>12, CacheSizeAssumption DEF BoundInv

(* AccessEvict keeps the bound.                                            *)
LEMMA AccessEvictBound ==
  ASSUME IInv, BoundInv, AccessEvict
  PROVE  BoundInv'
<1> DEFINE p   == Current.page
           pg  == Served(FilledPage(p, Fetched(objects', p)))
           old == pages[Victim].id
<1>1. /\ Typed /\ TablesInv /\ Pending /\ StoreTypeOK /\ CacheFull /\ WriteBack
      /\ page_cache[p] = None
  BY IInvTyped DEF IInv, AccessEvict, Miss
<1>2. p \in PageId
  BY <1>1, CurrentInBounds
<1>3. Victim \in Node /\ old \in PageId
  BY <1>1, VictimIsNode DEF Page
<1>4. pg \in Page /\ pg.id = p
  <2>1. Fetched(objects', p) \in PageData
    BY <1>1, <1>2, WriteBackKeepsStore, FetchedType DEF StoreTypeOK
  <2> QED
    BY <2>1, <1>1, <1>2, ServedType, FilledPageType
<1>5. /\ pages' = [pages EXCEPT ![Victim] = pg]
      /\ page_cache' = [[page_cache EXCEPT ![old] = None] EXCEPT ![p] = Victim]
  BY DEF AccessEvict, Erased
<1> HIDE DEF pg, p, old
<1>6. /\ page_cache \in [PageId -> Node \cup {None}]
      /\ Len(pages) \in Nat /\ None \notin Node
  BY <1>1, LenPages DEF TablesInv
<1>7. /\ Len(pages') = Len(pages) /\ Node' = Node
      /\ \A n \in Node : pages'[n] = IF n = Victim THEN pg ELSE pages[n]
  BY <1>1, <1>3, <1>4, <1>5, ExceptSeq DEF TablesInv, Node
<1>8. page_cache[old] = Victim /\ old # p
  BY <1>1, <1>3, <1>6 DEF BoundInv, old
<1>9. \A q \in PageId : page_cache'[q] = IF q = p THEN Victim
                                         ELSE IF q = old THEN None ELSE page_cache[q]
  BY <1>2, <1>3, <1>5, <1>6
<1>10. ASSUME NEW n \in Node'
       PROVE  page_cache'[pages'[n].id] = n
  <2>1. CASE n = Victim
    BY <2>1, <1>2, <1>3, <1>4, <1>7, <1>9
  <2>2. CASE n # Victim
    <3>1. n \in Node /\ pages'[n] = pages[n]
      BY <2>2, <1>7
    <3>2. pages[n] \in Page /\ page_cache[pages[n].id] = n
      BY <3>1, <1>1, ElementOfSeq DEF TablesInv, Node, BoundInv
    <3>3. pages[n].id \in PageId /\ pages[n].id # p /\ pages[n].id # old
      BY <3>1, <3>2, <2>2, <1>1, <1>6, <1>8 DEF Page
    <3> QED
      BY <3>1, <3>2, <3>3, <1>9
  <2> QED
    BY <2>1, <2>2
<1>11. Mapped' = (Mapped \ {old}) \cup {p}
  BY <1>2, <1>3, <1>6, <1>9 DEF Mapped
<1>12. old \in Mapped /\ p \notin Mapped
  BY <1>1, <1>2, <1>3, <1>6, <1>8 DEF Mapped
<1>13. IsFiniteSet(Mapped) /\ Cardinality(Mapped) \in Nat
  BY FS_CardinalityType DEF BoundInv
<1>14. IsFiniteSet(Mapped \ {old}) /\ Cardinality(Mapped \ {old}) = Cardinality(Mapped) - 1
  BY <1>12, <1>13, FS_RemoveElement
<1>15. IsFiniteSet(Mapped') /\ Cardinality(Mapped') = Cardinality(Mapped)
  BY <1>11, <1>12, <1>13, <1>14, FS_AddElement
<1> QED
  BY <1>10, <1>15 DEF BoundInv

(* Truncate keeps the bound.                                               *)
LEMMA TruncateBound ==
  ASSUME IInv, BoundInv, Truncate
  PROVE  BoundInv'
<1>1. \A n \in Node : pages[n] \in Page
  BY ElementOfSeq DEF IInv, TablesInv, Node
<1>2. pages' = [n \in Node |-> IF pages[n].id > PageOf(eoa)
                               THEN Invalidated(pages[n]) ELSE pages[n]]
      /\ UNCHANGED page_cache
  BY DEF Truncate
<1>3. \A n \in Node : pages'[n] \in Page /\ pages'[n].id = pages[n].id
  BY <1>1, <1>2, InvalidatedType
<1>4. Len(pages') = Len(pages)
  <2>1. Len(pages) \in Nat
    BY LenPages DEF IInv
  <2>2. pages' \in [1 .. Len(pages) -> Page]
    BY <1>2, <1>3 DEF Node
  <2> QED
    BY <2>1, <2>2, SeqDef, LenProperties
<1> QED
  BY <1>2, <1>3, <1>4, SameIdsKeepBoundInv

(* FlushPage keeps the bound.                                              *)
LEMMA FlushPageBound ==
  ASSUME IInv, BoundInv, FlushPage
  PROVE  BoundInv'
<1>1. Walked \in Node /\ pages[Walked] \in Page
  BY WalkedIsNode DEF IInv, FlushPage
<1> DEFINE pg == [pages[Walked] EXCEPT !.dirty = FALSE]
<1>2. pg \in Page /\ pg.id = pages[Walked].id
  BY <1>1 DEF Page
<1>3. pages' = [pages EXCEPT ![Walked] = pg] /\ UNCHANGED page_cache
  BY DEF FlushPage
<1> HIDE DEF pg
<1>4. Len(pages') = Len(pages) /\ \A n \in Node : pages'[n].id = pages[n].id
  BY <1>1, <1>2, <1>3, ExceptSeq DEF IInv, TablesInv, Node
<1> QED
  BY <1>3, <1>4, SameIdsKeepBoundInv

(* A step that leaves the tables alone keeps the bound.                    *)
LEMMA UnchangedTablesBound ==
  ASSUME BoundInv, UNCHANGED tableVars
  PROVE  BoundInv'
BY DEF BoundInv, tableVars, Node, Mapped

(* Every step keeps the bound, when no GET throws.                         *)
LEMMA NextBoundInv == IInv /\ BoundInv /\ ~GetThrows /\ [Next]_vars => BoundInv'
<1> SUFFICES ASSUME IInv, BoundInv, ~GetThrows, [Next]_vars PROVE BoundInv'
  OBVIOUS
<1>1. CASE Request
  <2>1. CASE Truncate
    BY <2>1, TruncateBound
  <2>2. CASE ~Truncate
    BY <1>1, <2>2, UnchangedTablesBound
    DEF Request, BeginRead, BeginWrite, BeginFlush, Begin, SetEoa
  <2> QED
    BY <2>1, <2>2
<1>2. CASE Access
  <2>1. ~AccessAllocateThrows /\ ~AccessEvictThrows
    BY DEF AccessAllocateThrows, AccessEvictThrows
  <2>2. CASE WriteBackThrows \/ AccessOverrun \/ ReturnOk
    BY <2>2, UnchangedTablesBound DEF WriteBackThrows, AccessOverrun, ReturnOk
  <2> QED
    BY <1>2, <2>1, <2>2, AccessHitBound, AccessAllocateBound, AccessEvictBound DEF Access
<1>3. CASE Flush
  <2>1. CASE FlushSkip \/ FlushPageThrows \/ FlushMeta \/ FlushMetaThrows
    BY <2>1, UnchangedTablesBound DEF FlushSkip, FlushPageThrows, FlushMeta, FlushMetaThrows
  <2> QED
    BY <1>3, <2>1, FlushPageBound DEF Flush
<1>4. CASE Halted \/ UNCHANGED vars
  BY <1>4, UnchangedTablesBound DEF Halted, vars
<1> QED
  BY <1>1, <1>2, <1>3, <1>4 DEF Next

(* An empty table is within the bound.                                     *)
LEMMA EmptyBoundInv == EmptyTable => BoundInv
<1> SUFFICES ASSUME EmptyTable PROVE BoundInv
  OBVIOUS
<1>1. Node = {}
  BY DEF EmptyTable, Node
<1>2. Mapped = {}
  BY DEF EmptyTable, Mapped
<1> QED
  BY <1>1, <1>2, FS_EmptySet, CacheSizeAssumption DEF BoundInv

(* So the bound holds at first.                                            *)
LEMMA InitBoundInv == Init => BoundInv
BY EmptyBoundInv DEF Init, TableInit, EmptyTable

(* No page GET fails when none may.                                        *)
LEMMA NoGetThrows ==
  ASSUME ~GetMayFail
  PROVE  ~GetThrows
BY DEF GetThrows

(* It holds throughout, as long as no GET fails.                           *)
LEMMA BoundInvariance ==
  ASSUME ~GetMayFail
  PROVE  Spec => []BoundInv
<1>1. ~GetThrows
  BY NoGetThrows
<1> QED
  BY <1>1, InitBoundInv, NextBoundInv, Invariant, PTL DEF Spec

(* As long as no page GET fails, the map never holds more than             *)
(* page_cache_size pages.  (With failing GETs it may.)                     *)
THEOREM CacheStaysBounded ==
  ASSUME ~GetMayFail
  PROVE  Spec => []CacheBounded
BY BoundInvariance, BoundInvMeans, PTL

(* Nor does a page buffer get out of the map's reach, never to be used     *)
(* again until it comes to the back of the list.                           *)
THEOREM NoNodeIsLost ==
  ASSUME ~GetMayFail
  PROVE  Spec => []EveryNodeMapped
BY BoundInvariance, BoundInvMeans, PTL

-----------------------------------------------------------------------------
(* No dirty page is forgotten.                                             *)

LosesNothing ==
  \A n \in Node :
    pages[n].dirty /\ ~pages'[n].dirty =>
      \/ objects'[pages[n].id] = pages[n].data
      \/ Truncate /\ pages[n].id > PageOf(eoa)

(* A PUT that succeeds stores the page.                                    *)
LEMMA StoredByKvWrite ==
  ASSUME StoreTypeOK, NEW p \in PageId, NEW data, KvWrite(p, data)
  PROVE  objects'[p] = data
BY DEF KvWrite, StoreTypeOK

(* A dirty node is stored before it is given to another page.              *)
LEMMA StolenNodeStored ==
  ASSUME IInv, CacheFull, WriteBack, NEW pg \in Page,
         pages' = [pages EXCEPT ![Victim] = pg]
  PROVE  LosesNothing
<1>1. Victim \in Node /\ pages[Victim] \in Page
  BY VictimIsNode DEF IInv
<1>2. \A n \in Node : pages'[n] = IF n = Victim THEN pg ELSE pages[n]
  BY <1>1, ExceptSeq DEF IInv, TablesInv, Node
<1>3. pages[Victim].dirty => objects'[pages[Victim].id] = pages[Victim].data
  BY <1>1, StoredByKvWrite DEF IInv, WriteBack, Page
<1> QED
  BY <1>2, <1>3 DEF LosesNothing

(* Serving a segment never makes a dirty page clean.                       *)
LEMMA ServingKeepsDirty ==
  ASSUME Typed, Pending, NEW pg \in Page, pg.dirty
  PROVE  Served(pg).dirty
<1>1. CASE call.op = "read"
  BY <1>1, ReadFromType DEF Served
<1>2. CASE call.op = "write"
  <2>1. WrittenTo(pg, Current) \in Page
    BY <1>2, WrittenToType
  <2> QED
    BY <1>2, <2>1 DEF Served, WrittenTo, Page
<1> QED
  BY <1>1, <1>2 DEF Pending, InAccess

(* No step clears the mark of data that was not stored.                    *)
LEMMA NextLosesNothing == IInv /\ [Next]_vars => LosesNothing
<1> SUFFICES ASSUME IInv, [Next]_vars PROVE LosesNothing
  OBVIOUS
<1>1. CASE AccessHit
  <2> DEFINE n == page_cache[Current.page]
  <2>1. Typed /\ TablesInv /\ Pending /\ n # None
    BY <1>1, IInvTyped DEF IInv, AccessHit
  <2>2. n \in Node /\ pages[n] \in Page
    BY <2>1, CurrentInBounds, NodeInMap
  <2>3. Served(pages[n]) \in Page /\ (pages[n].dirty => Served(pages[n]).dirty)
    BY <2>1, <2>2, ServedType, ServingKeepsDirty
  <2>4. pages' = [pages EXCEPT ![n] = Served(pages[n])]
    BY <1>1 DEF AccessHit
  <2>5. \A m \in Node : pages'[m] = IF m = n THEN Served(pages[n]) ELSE pages[m]
    BY <2>1, <2>2, <2>3, <2>4, ExceptSeq DEF TablesInv, Node
  <2> QED
    BY <2>3, <2>5 DEF LosesNothing
<1>2. CASE AccessAllocate \/ AccessAllocateThrows
  <2>1. PICK pg : pages' = Append(pages, pg)
    BY <1>2 DEF AccessAllocate, AccessAllocateThrows
  <2>2. Len(pages) \in Nat
    BY LenPages DEF IInv
  <2>3. \A n \in Node : pages'[n] = pages[n]
    BY <2>1, <2>2 DEF IInv, TablesInv, Node
  <2> QED
    BY <2>3 DEF LosesNothing
<1>3. CASE AccessEvict
  <2> DEFINE pg == Served(FilledPage(Current.page, Fetched(objects', Current.page)))
  <2>1. /\ Typed /\ TablesInv /\ Pending /\ StoreTypeOK /\ CacheFull /\ WriteBack
        /\ pages' = [pages EXCEPT ![Victim] = pg]
    BY <1>3, IInvTyped DEF IInv, AccessEvict, Miss
  <2>2. Current.page \in PageId
    BY <2>1, CurrentInBounds
  <2>3. Fetched(objects', Current.page) \in PageData
    BY <2>1, <2>2, WriteBackKeepsStore, FetchedType DEF StoreTypeOK
  <2>4. pg \in Page
    BY <2>1, <2>2, <2>3, ServedType, FilledPageType
  <2> HIDE DEF pg
  <2> QED
    BY <2>1, <2>4, StolenNodeStored
<1>4. CASE AccessEvictThrows
  <2>1. /\ Typed /\ Pending /\ CacheFull /\ WriteBack
        /\ pages' = [pages EXCEPT ![Victim] = UnfilledPage(Current.page)]
    BY <1>4, IInvTyped DEF AccessEvictThrows, Miss
  <2>2. UnfilledPage(Current.page) \in Page
    BY <2>1, CurrentInBounds, UnfilledPageType
  <2> QED
    BY <2>1, <2>2, StolenNodeStored
<1>5. CASE Truncate
  <2>1. pages' = [n \in Node |-> IF pages[n].id > PageOf(eoa)
                                 THEN Invalidated(pages[n]) ELSE pages[n]]
    BY <1>5 DEF Truncate
  <2> QED
    BY <1>5, <2>1 DEF LosesNothing
<1>6. CASE FlushPage
  <2>1. Walked \in Node /\ pages[Walked] \in Page
    BY <1>6, WalkedIsNode DEF IInv, FlushPage
  <2>2. objects'[pages[Walked].id] = pages[Walked].data
    BY <1>6, <2>1, StoredByKvWrite DEF IInv, FlushPage, Page
  <2>3. \A n \in Node : n # Walked => pages'[n] = pages[n]
    BY <1>6 DEF FlushPage, IInv, TablesInv, Node
  <2> QED
    BY <2>2, <2>3 DEF LosesNothing
<1>7. CASE UNCHANGED pages
  BY <1>7 DEF LosesNothing
<1>8. [Next]_vars =>
        \/ AccessHit \/ AccessAllocate \/ AccessAllocateThrows \/ AccessEvict
        \/ AccessEvictThrows \/ Truncate \/ FlushPage \/ UNCHANGED pages
  BY DEF Next, Request, BeginRead, BeginWrite, BeginFlush, Begin, SetEoa, Access,
         WriteBackThrows, AccessOverrun, ReturnOk, Flush, FlushSkip, FlushPageThrows,
         FlushMeta, FlushMetaThrows, Halted, vars, tableVars
<1> QED
  BY <1>1, <1>2, <1>3, <1>4, <1>5, <1>6, <1>7, <1>8

(* A page stops being dirty only when its data is in the bucket or truncate*)
(* has cut it off, with any combination of failing requests.               *)
THEOREM DirtyPagesKept == Spec => CleanOnlyWhenStored
<1>1. IInv /\ [Next]_vars => [LosesNothing]_vars
  BY NextLosesNothing
<1>2. Spec => [][LosesNothing]_vars
  BY <1>1, Invariant, PTL DEF Spec
<1> QED
  BY <1>2 DEF CleanOnlyWhenStored, LosesNothing
-----------------------------------------------------------------------------
(* A flush under way has no dirty page behind it: it meets every node of   *)
(* the list once, and no other call is served before it ends.              *)
WalkInv == Flushing => \A i \in 1 .. Len(lru_order) : i < call.k => ~pages[lru_order[i]].dirty

LEMMA IdleWalkInv == call = Idle => WalkInv
BY IdleType DEF WalkInv, Flushing

LEMMA NextWalkInv == IInv /\ WalkInv /\ [Next]_vars => WalkInv'
<1> SUFFICES ASSUME IInv, WalkInv, [Next]_vars PROVE WalkInv'
  OBVIOUS
<1>1. call \in Call /\ call.k \in Nat
  BY DEF IInv, CallInv, Call
<1>2. CASE FlushSkip \/ FlushPage
  <2>1. Walking
    BY <1>2 DEF FlushSkip, FlushPage
  <2>2. /\ call.k \in 1 .. Len(lru_order) /\ Walked \in Node /\ pages[Walked] \in Page
    BY <2>1, WalkedIsNode DEF IInv
  <2>3. UNCHANGED lru_order /\ call'.k = call.k + 1
    BY <1>1, <1>2 DEF FlushSkip, FlushPage, tableVars, Call
  <2>4. \A n \in Node : pages'[n].dirty => pages[n].dirty /\ n # Walked
    <3>1. CASE FlushSkip
      BY <3>1 DEF FlushSkip, tableVars
    <3>2. CASE FlushPage
      <4>1. pages' = [pages EXCEPT ![Walked] = [pages[Walked] EXCEPT !.dirty = FALSE]]
        BY <3>2 DEF FlushPage
      <4>2. pages \in [Node -> Page]
        BY LenProperties DEF IInv, TablesInv, Node
      <4> QED
        BY <4>1, <4>2, <2>2 DEF Page
    <3> QED
      BY <1>2, <3>1, <3>2
  <2>5. \A i \in 1 .. Len(lru_order) : lru_order[i] \in Node
    BY ElementOfSeq DEF IInv, TablesInv, Permutation, Node
  <2> SUFFICES ASSUME NEW i \in 1 .. Len(lru_order), i < call.k + 1
               PROVE  ~pages'[lru_order[i]].dirty
    BY <2>3 DEF WalkInv
  <2>6. CASE i = call.k
    BY <2>4, <2>5, <2>6 DEF Walked
  <2>7. CASE i < call.k
    BY <2>1, <2>4, <2>5, <2>7 DEF WalkInv, Walking
  <2> QED
    BY <1>1, <2>6, <2>7
<1>3. CASE BeginFlush
  <2>1. call'.k = 1
    BY <1>3 DEF BeginFlush, Begin, Idle
  <2> QED
    BY <2>1 DEF WalkInv
<1>4. CASE AccessHit \/ AccessAllocate \/ AccessEvict
  <2>1. InAccess /\ call'.op = call.op
    BY <1>1, <1>4 DEF AccessHit, AccessAllocate, AccessEvict, Miss, Pending, Advance, Call
  <2> QED
    BY <2>1 DEF WalkInv, Flushing, InAccess
<1>5. CASE call' = Idle
  BY <1>5, IdleType DEF WalkInv, Flushing
<1>6. CASE call = Idle /\ UNCHANGED call
  BY <1>6, IdleType DEF WalkInv, Flushing
<1>7. CASE call'.op \in {"read", "write"}
  BY <1>7 DEF WalkInv, Flushing
<1>8. CASE UNCHANGED <<call, lru_order, pages>>
  BY <1>8 DEF WalkInv, Flushing
<1>9. CASE Request
  BY <1>3, <1>6, <1>7, <1>9
  DEF Request, BeginRead, BeginWrite, Begin, SetEoa, Truncate
<1>10. CASE Access
  BY <1>4, <1>5, <1>8, <1>10
  DEF Access, AccessAllocateThrows, AccessEvictThrows, WriteBackThrows, Throw,
      AccessOverrun, ReturnOk, tableVars
<1>11. CASE Flush
  BY <1>2, <1>5, <1>11 DEF Flush, FlushPageThrows, FlushMeta, FlushMetaThrows, Throw
<1> QED
  BY <1>8, <1>9, <1>10, <1>11 DEF Next, Halted, vars, tableVars

(* When the walk has ended every page is clean.                            *)
LEMMA WalkedAllClean ==
  ASSUME IInv, WalkInv, Flushing, ~Walking
  PROVE  \A n \in Node : ~pages[n].dirty
<1> SUFFICES ASSUME NEW n \in Node PROVE ~pages[n].dirty
  OBVIOUS
<1>1. PICK i \in 1 .. Len(lru_order) : lru_order[i] = n
  BY DEF IInv, TablesInv, Permutation, Node
<1>2. call.k \in Nat /\ Len(lru_order) \in Nat /\ ~(call.k <= Len(lru_order))
  BY LenPages DEF IInv, CallInv, Call, TablesInv, Permutation, Walking
<1>3. i < call.k
  BY <1>1, <1>2
<1> QED
  BY <1>1, <1>3 DEF WalkInv
=============================================================================
