-------------------------- MODULE CoherenceProofs --------------------------
(***************************************************************************)
(* The cache and the bucket together hold the file, as long as no GET of a *)
(* page throws (FailedGetsMemory shows what happens then): for every page  *)
(* size, cache size, address space and set of byte values, with any        *)
(* failures of PUTs and any truncations.                                   *)
(*                                                                         *)
(* First comes what each step does to each page of the file, whichever     *)
(* node of the list holds it; the invariants are read off from that.       *)
(***************************************************************************)
EXTENDS PageTableProofs

-----------------------------------------------------------------------------
(* The bytes of a segment.                                                 *)

(* The page of an address is the only one whose bytes include it.          *)
LEMMA PageOfUnique ==
  ASSUME NEW a \in Nat, NEW p \in Nat,
         PageStart(p) <= a, a < PageStart(p) + PageSize
  PROVE  PageOf(a) = p
<1>1. /\ PageOf(a) \in Nat /\ PageStart(PageOf(a)) <= a
      /\ a < PageStart(PageOf(a)) + PageSize
  BY PageOfBounds
<1>2. PageStart(p) \in Nat /\ PageStart(PageOf(a)) \in Nat
  BY <1>1, PageOfBounds, PageSizeAssumption DEF PageStart
<1>3. ~(p < PageOf(a))
  BY <1>1, <1>2, PageStartMonotone, PageSizeAssumption
<1>4. ~(PageOf(a) < p)
  BY <1>1, <1>2, PageStartMonotone, PageSizeAssumption
<1> QED
  BY <1>1, <1>3, <1>4

(* A segment of the call begins at its offset in its page.                 *)
LEMMA SegmentStart ==
  ASSUME NEW addr \in Nat, NEW size \in Nat, NEW k \in Nat \ {0}
  PROVE  LET s == Segment(addr, size, k)
         IN  addr + s.at = PageStart(s.page) + s.offset
<1>1. PageOf(addr) \in Nat /\ PageOf(addr + size) \in Nat
  BY PageOfBounds
<1>2. \A p \in Int : PageStart(p) \in Int
  BY PageSizeAssumption DEF PageStart
<1>3. CASE k = 1
  BY <1>1, <1>2, <1>3 DEF Segment, FirstSegment, FirstPageOf
<1>4. CASE k = 2
  BY <1>1, <1>2, <1>4 DEF Segment, LastSegment, LastPageOf
<1>5. CASE k # 1 /\ k # 2
  BY <1>1, <1>2, <1>5 DEF Segment, MiddleSegment, FirstPageOf
<1> QED
  BY <1>3, <1>4, <1>5

(* The current segment serves addresses of its page only.                  *)
LEMMA CurrentAddrsInPage ==
  ASSUME Typed, Pending
  PROVE  \A a \in CurrentAddrs : PageOf(a) = Current.page
<1> SUFFICES ASSUME NEW a \in CurrentAddrs PROVE PageOf(a) = Current.page
  OBVIOUS
<1>1. call.addr \in Nat /\ call.size \in Nat /\ call.k \in Nat \ {0}
  BY DEF Typed, TypeOK, Call, CallWellFormed, Pending, InBounds
<1>2. call.addr + Current.at = PageStart(Current.page) + Current.offset
  BY <1>1, SegmentStart DEF Current
<1>3. Current.page \in Nat /\ Current.offset \in Nat
  BY CurrentInBounds DEF PageId, Offset
<1>4. PageStart(Current.page) \in Nat
  BY <1>3, PageSizeAssumption DEF PageStart
<1>5. /\ Current.at \in Nat /\ Current.length \in Nat
      /\ Current.offset + Current.length <= PageSize
      /\ a \in call.addr + Current.at .. call.addr + Current.at + Current.length - 1
  <2>1. CurrentAddrs = call.addr + Current.at .. call.addr + Current.at + Current.length - 1
    BY CurrentAddrsInCall
  <2> QED
    BY <2>1, CurrentInBounds
<1>6. /\ PageStart(Current.page) <= a /\ a < PageStart(Current.page) + PageSize
      /\ a \in Nat
  BY <1>1, <1>2, <1>3, <1>4, <1>5, PageSizeAssumption
<1> QED
  BY <1>3, <1>6, PageOfUnique

(* Where an address lies in its page.                                      *)
LEMMA OffsetOfAddr ==
  ASSUME NEW a \in Addr
  PROVE  a - PageStart(PageOf(a)) \in Offset /\ PageOf(a) \in PageId
<1>1. a \in Nat /\ a \in 0 .. MaxAddr
  BY MaxAddrAssumption DEF Addr
<1> QED
  BY <1>1, PageOfBounds, PageOfType, PageSizeAssumption DEF Offset

-----------------------------------------------------------------------------
(* A page of the file: what the bucket holds of it, what the cache holds of*)
(* it (the same when it is not cached), is it cached and to be zeroed on   *)
(* use, and does the store count it among the pages that hold data?        *)

Object(q) == Fetched(objects, q)
Held(q) == IF page_cache[q] = None THEN Object(q) ELSE pages[page_cache[q]].data
Zeroed(q) == page_cache[q] # None /\ pages[page_cache[q]].zero_on_use
Counted(q) == q < allocated_pages /\ q \notin invalid_pages

PageAddrs(q) == {a \in Addr : PageOf(a) = q}
KeptIn(q) == PageAddrs(q) \ dropped

(* What a reader sees and what the bucket holds at an address, before and  *)
(* after a step, in these terms.                                           *)
LEMMA BytesOfPage ==
  ASSUME NEW q \in PageId, NEW a \in PageAddrs(q)
  PROVE  /\ Stored(a) = ByteOf(Object(q), a)
         /\ Visible(a) = IF Zeroed(q) THEN 0 ELSE ByteOf(Held(q), a)
         /\ Stored(a)' = ByteOf(Object(q)', a)
         /\ Visible(a)' = IF Zeroed(q)' THEN 0 ELSE ByteOf(Held(q)', a)
<1>1. PageOf(a) = q
  BY DEF PageAddrs
<1>2. Stored(a) = ByteOf(Object(q), a) /\ Stored(a)' = ByteOf(Object(q)', a)
  BY <1>1 DEF Stored, Object
<1>3. Visible(a) = IF Zeroed(q) THEN 0 ELSE ByteOf(Held(q), a)
  BY <1>1, <1>2 DEF Visible, Zeroed, Held
<1>4. Visible(a)' = IF Zeroed(q)' THEN 0 ELSE ByteOf(Held(q)', a)
  BY <1>1, <1>2 DEF Visible, Zeroed, Held
<1> QED
  BY <1>2, <1>3, <1>4

(* The pages of a well-formed state are pages of bytes.                    *)
LEMMA HeldType ==
  ASSUME IInv, NEW q \in PageId
  PROVE  Object(q) \in PageData /\ Held(q) \in PageData
<1>1. Object(q) \in PageData
  BY FetchedType DEF IInv, StoreTypeOK, Object
<1>2. page_cache[q] # None => pages[page_cache[q]].data \in PageData
  BY NodeInMap DEF IInv, Page
<1> QED
  BY <1>1, <1>2 DEF Held

(* A page that is cached and dirty is a dirty node of the list, and when no*)
(* node is lost, every dirty node is one.                                  *)
LEMMA DirtyNode ==
  ASSUME IInv, BoundInv, NEW n \in Node, pages[n].dirty
  PROVE  /\ n # None /\ pages[n] \in Page /\ pages[n].id \in PageId
         /\ page_cache[pages[n].id] = n /\ CachedDirty(pages[n].id)
<1>1. pages[n] \in Page /\ n # None
  BY LenPages, ElementOfSeq DEF IInv, TablesInv, Node
<1>2. page_cache[pages[n].id] = n
  BY DEF BoundInv
<1> QED
  BY <1>1, <1>2 DEF Page, CachedDirty

-----------------------------------------------------------------------------
(* What a step can do to a page.                                           *)

(* Nothing.                                                                *)
Keeps(q) ==
  /\ UNCHANGED <<Object(q), Held(q), Zeroed(q), CachedDirty(q)>>
  /\ Counted(q) => Counted(q)'

(* Serve the current segment of a read or a write from it.                 *)
Serves(q) ==
  /\ UNCHANGED Object(q)
  /\ ~Zeroed(q)'
  /\ CachedDirty(q)' <=> CachedDirty(q) \/ call.op = "write"
  /\ call.op # "write" => Held(q)' = IF Zeroed(q) THEN ZeroPage ELSE Held(q)
  /\ call.op = "write" =>
       \A a \in PageAddrs(q) :
         ByteOf(Held(q)', a) \in
           IF a \in CurrentAddrs THEN {call.buffer[a]}
           ELSE {ByteOf(Held(q), a)} \cup (IF Zeroed(q) THEN {0} ELSE {})
  /\ \E pg \in Page : pg.data = Held(q)' /\ Advance(pg)
  /\ Counted(q) => Counted(q)'

(* Store it: it is not dirty any more, cached or not.                      *)
Puts(q) ==
  /\ CachedDirty(q) /\ ~CachedDirty(q)'
  /\ Zeroed(q)' => Zeroed(q)
  /\ Object(q)' = Held(q) /\ UNCHANGED Held(q)
  /\ Counted(q)'

(* Fail to store it: the PUT may have been applied.                        *)
MayPut(q) ==
  /\ CachedDirty(q) /\ Object(q)' \in {Object(q), Held(q)}
  /\ UNCHANGED <<Held(q), Zeroed(q), CachedDirty(q)>>
  /\ Counted(q) => Counted(q)'

(* Give its buffer to another page, when it is not dirty.                  *)
Forgets(q) ==
  /\ ~CachedDirty(q) /\ ~CachedDirty(q)' /\ ~Zeroed(q)'
  /\ UNCHANGED Object(q) /\ Held(q)' = Object(q)
  /\ Counted(q) => Counted(q)'

(* Truncate it away.                                                       *)
CutsOff(q) ==
  /\ ~CachedDirty(q)'
  /\ UNCHANGED <<Object(q), Held(q)>>

(* A page is kept when its entry, its node and its object are.             *)
LEMMA KeptPage ==
  ASSUME NEW q \in PageId,
         page_cache'[q] = page_cache[q],
         page_cache[q] # None => pages'[page_cache[q]] = pages[page_cache[q]],
         objects'[q] = objects[q],
         Counted(q) => Counted(q)'
  PROVE  Keeps(q)
<1>1. UNCHANGED Object(q)
  BY DEF Object, Fetched
<1>2. UNCHANGED <<Held(q), Zeroed(q), CachedDirty(q)>>
  BY <1>1 DEF Held, Zeroed, CachedDirty
<1> QED
  BY <1>1, <1>2 DEF Keeps

(* So a step that leaves the tables, the page objects and the counts alone *)
(* keeps all pages.                                                        *)
LEMMA UnchangedKeeps ==
  ASSUME UNCHANGED <<tableVars, objects, store>>, NEW q \in PageId
  PROVE  Keeps(q)
BY KeptPage DEF tableVars, store, Counted

(* An address of the page of the current segment lies in the segment or    *)
(* not as its offset does, and the buffer of the call is indexed alike.    *)
LEMMA CurrentOffset ==
  ASSUME Typed, Pending, NEW q \in PageId, q = Current.page, NEW a \in PageAddrs(q)
  PROVE  /\ a - PageStart(PageOf(a)) \in Offset
         /\ a - PageStart(PageOf(a)) \in Current.offset .. Current.offset + Current.length - 1
              <=> a \in CurrentAddrs
         /\ call.addr + Current.at + (a - PageStart(PageOf(a))) - Current.offset = a
         /\ Current.offset + a - (call.addr + Current.at) = a - PageStart(PageOf(a))
<1>1. call.addr \in Nat /\ call.size \in Nat /\ call.k \in Nat \ {0}
  BY DEF Typed, TypeOK, Call, CallWellFormed, Pending, InBounds
<1>2. call.addr + Current.at = PageStart(q) + Current.offset
  BY <1>1, SegmentStart DEF Current
<1>3. Current.offset \in Nat /\ Current.at \in Nat /\ Current.length \in Nat
  BY CurrentInBounds DEF Offset
<1>4. PageStart(q) \in Int /\ a \in Int /\ PageOf(a) = q
  BY PageSizeAssumption DEF PageStart, PageId, PageAddrs, Addr
<1>5. CurrentAddrs = call.addr + Current.at .. call.addr + Current.at + Current.length - 1
  BY CurrentAddrsInCall
<1>6. a - PageStart(PageOf(a)) \in Offset
  BY OffsetOfAddr DEF PageAddrs
<1>7. a - PageStart(q) \in Current.offset .. Current.offset + Current.length - 1
        <=> a \in call.addr + Current.at .. call.addr + Current.at + Current.length - 1
  BY <1>1, <1>2, <1>3, <1>4
<1>8. /\ call.addr + Current.at + (a - PageStart(q)) - Current.offset = a
      /\ Current.offset + a - (call.addr + Current.at) = a - PageStart(q)
  BY <1>1, <1>2, <1>3, <1>4
<1> QED
  BY <1>4, <1>5, <1>6, <1>7, <1>8

(* What a write makes of the bytes of the page.                            *)
LEMMA WrittenBytes ==
  ASSUME Typed, Pending, call.op = "write", NEW pg \in Page,
         NEW q \in PageId, q = Current.page, NEW a \in PageAddrs(q)
  PROVE  ByteOf(Served(pg).data, a) \in
           IF a \in CurrentAddrs THEN {call.buffer[a]}
           ELSE {ByteOf(pg.data, a)} \cup (IF pg.zero_on_use THEN {0} ELSE {})
<1> DEFINE i    == a - PageStart(PageOf(a))
           seg  == Current.offset .. Current.offset + Current.length - 1
           base == IF pg.zero_on_use
                   THEN ZeroedAround(pg.data, Current.offset, Current.length)
                   ELSE pg.data
<1>1. /\ i \in Offset /\ (i \in seg <=> a \in CurrentAddrs)
      /\ call.addr + Current.at + i - Current.offset = a
  BY CurrentOffset
<1>2. Served(pg).data = [j \in Offset |->
                           IF j \in seg
                           THEN call.buffer[call.addr + Current.at + j - Current.offset]
                           ELSE base[j]]
  <2>1. Served(pg) = WrittenTo(pg, Current)
    BY DEF Served
  <2> QED
    BY <2>1 DEF WrittenTo, Page
<1>3. base[i] \in {pg.data[i]} \cup (IF pg.zero_on_use THEN {0} ELSE {})
  BY <1>1 DEF ZeroedAround
<1> HIDE DEF base, seg
<1>4. Served(pg).data[i] = IF a \in CurrentAddrs THEN call.buffer[a] ELSE base[i]
  BY <1>1, <1>2
<1> QED
  BY <1>3, <1>4 DEF ByteOf

(* What serving makes of a page object: a page that is not to be zeroed any*)
(* more, dirty after a write, and the same to a reader after a read.       *)
LEMMA ServedPage ==
  ASSUME Typed, Pending, NEW pg \in Page
  PROVE  /\ ~Served(pg).zero_on_use
         /\ Served(pg).dirty <=> pg.dirty \/ call.op = "write"
         /\ call.op # "write" =>
              Served(pg).data = IF pg.zero_on_use THEN ZeroPage ELSE pg.data
<1>1. CASE call.op = "read"
  BY <1>1 DEF Served, ReadFrom, Page
<1>2. CASE call.op = "write"
  <2>1. /\ WrittenTo(pg, Current) \in Page
        /\ WrittenTo(pg, Current).dirty /\ ~WrittenTo(pg, Current).zero_on_use
    BY <1>2, WrittenToType DEF WrittenTo, Page
  <2> QED
    BY <1>2, <2>1 DEF Served
<1> QED
  BY <1>1, <1>2 DEF Pending, InAccess

(* A page whose node is served, or filled from the store and served.       *)
LEMMA PageServed ==
  ASSUME Typed, Pending, NEW q \in PageId, q = Current.page, NEW pg \in Page,
         pg.data = Held(q), pg.zero_on_use <=> Zeroed(q), pg.dirty <=> CachedDirty(q),
         NEW n, n # None, page_cache'[q] = n, pages'[n] = Served(pg), Advance(Served(pg)),
         objects'[q] = objects[q], Counted(q) => Counted(q)'
  PROVE  Serves(q)
<1>1. UNCHANGED Object(q)
  BY DEF Object, Fetched
<1>2. Held(q)' = Served(pg).data
  BY DEF Held
<1>3. ~Zeroed(q)' /\ (CachedDirty(q)' <=> CachedDirty(q) \/ call.op = "write")
  BY ServedPage DEF Zeroed, CachedDirty
<1>4. call.op # "write" => Held(q)' = IF Zeroed(q) THEN ZeroPage ELSE Held(q)
  BY <1>2, ServedPage
<1>5. ASSUME call.op = "write", NEW a \in PageAddrs(q)
      PROVE  ByteOf(Held(q)', a) \in
               IF a \in CurrentAddrs THEN {call.buffer[a]}
               ELSE {ByteOf(Held(q), a)} \cup (IF Zeroed(q) THEN {0} ELSE {})
  BY <1>2, <1>5, WrittenBytes
<1>6. Served(pg) \in Page
  BY ServedType
<1> QED
  BY <1>1, <1>2, <1>3, <1>4, <1>5, <1>6 DEF Serves

-----------------------------------------------------------------------------
(* What each action does to the pages.                                     *)

(* A hit serves its page and keeps the others.                             *)
LEMMA AccessHitEffect ==
  ASSUME IInv, AccessHit
  PROVE  \A q \in PageId : IF q = Current.page THEN Serves(q) ELSE Keeps(q)
<1>1. Typed /\ TablesInv /\ Pending
  BY IInvTyped DEF IInv, AccessHit
<1>2. PICK p \in PageId : p = Current.page
  BY <1>1, CurrentInBounds
<1>3. PICK n : n = page_cache[p] /\ n # None
  BY <1>2 DEF AccessHit
<1>4. n \in Node /\ pages[n] \in Page
  BY <1>1, <1>3, NodeInMap
<1>5. /\ pages' = [pages EXCEPT ![n] = Served(pages[n])] /\ UNCHANGED page_cache
      /\ Advance(Served(pages[n]))
      /\ UNCHANGED <<objects, allocated_pages, invalid_pages>>
  BY <1>2, <1>3 DEF AccessHit, storeVars, bucket, store
<1>6. Served(pages[n]) \in Page
  BY <1>1, <1>4, ServedType
<1>7. \A m \in Node : pages'[m] = IF m = n THEN Served(pages[n]) ELSE pages[m]
  BY <1>1, <1>4, <1>5, <1>6, ExceptSeq DEF TablesInv, Node
<1>8. \A q \in PageId : Counted(q) => Counted(q)'
  BY <1>5 DEF Counted
<1>9. ASSUME NEW q \in PageId, q # p
      PROVE  Keeps(q)
  <2>1. page_cache[q] # None => page_cache[q] \in Node /\ page_cache[q] # n
    BY <1>1, <1>3, <1>9, NodeInMap
  <2>2. page_cache[q] # None => pages'[page_cache[q]] = pages[page_cache[q]]
    BY <2>1, <1>7
  <2> QED
    BY <2>2, <1>5, <1>8, KeptPage
<1>10. Serves(p)
  <2>1. pages[n].data = Held(p) /\ (pages[n].zero_on_use <=> Zeroed(p))
        /\ (pages[n].dirty <=> CachedDirty(p))
    BY <1>3 DEF Held, Zeroed, CachedDirty
  <2>2. page_cache'[p] = n /\ pages'[n] = Served(pages[n]) /\ objects'[p] = objects[p]
    BY <1>3, <1>4, <1>5, <1>7
  <2> QED
    BY <2>1, <2>2, <1>1, <1>2, <1>3, <1>4, <1>5, <1>8, PageServed
<1> QED
  BY <1>2, <1>9, <1>10

(* So does a miss that allocates a node.                                   *)
LEMMA AccessAllocateEffect ==
  ASSUME IInv, AccessAllocate
  PROVE  \A q \in PageId : IF q = Current.page THEN Serves(q) ELSE Keeps(q)
<1>1. /\ Typed /\ TablesInv /\ Pending /\ StoreTypeOK
      /\ page_cache[Current.page] = None
      /\ UNCHANGED <<objects, allocated_pages, invalid_pages>>
  BY IInvTyped DEF IInv, AccessAllocate, Miss, storeVars, bucket, store
<1>2. PICK p \in PageId : p = Current.page
  BY <1>1, CurrentInBounds
<1>3. PICK l : l = Len(pages) + 1
  OBVIOUS
<1>4. PICK fp : fp = FilledPage(p, Held(p))
  OBVIOUS
<1>5. page_cache[p] = None /\ Held(p) = Object(p) /\ Held(p) \in PageData
  BY <1>1, <1>2, HeldType DEF Held
<1>6. fp \in Page /\ Served(fp) \in Page
  BY <1>1, <1>4, <1>5, FilledPageType, ServedType
<1>7. /\ pages' = Append(pages, Served(fp)) /\ page_cache' = [page_cache EXCEPT ![p] = l]
      /\ Advance(Served(fp))
  BY <1>2, <1>3, <1>4, <1>5 DEF AccessAllocate, Object
<1>8. Len(pages) \in Nat /\ None \notin Node /\ l # None
  BY <1>1, <1>3, LenPages DEF None
<1>9. pages'[l] = Served(fp) /\ \A m \in Node : pages'[m] = pages[m]
  BY <1>1, <1>3, <1>6, <1>7, <1>8 DEF TablesInv, Node
<1>10. \A q \in PageId : /\ Counted(q) => Counted(q)'
                         /\ page_cache'[q] = IF q = p THEN l ELSE page_cache[q]
  BY <1>1, <1>7 DEF Counted, TablesInv
<1>11. ASSUME NEW q \in PageId, q # p
       PROVE  Keeps(q)
  <2>1. page_cache[q] # None => pages'[page_cache[q]] = pages[page_cache[q]]
    BY <1>1, <1>9, NodeInMap
  <2> QED
    BY <2>1, <1>1, <1>10, <1>11, KeptPage
<1>12. Serves(p)
  <2>1. fp.data = Held(p) /\ (fp.zero_on_use <=> Zeroed(p)) /\ (fp.dirty <=> CachedDirty(p))
    BY <1>4, <1>5 DEF FilledPage, Zeroed, CachedDirty
  <2>2. page_cache'[p] = l /\ objects'[p] = objects[p]
    BY <1>1, <1>10
  <2> QED
    BY <2>1, <2>2, <1>1, <1>2, <1>6, <1>7, <1>8, <1>9, <1>10, PageServed
<1> QED
  BY <1>2, <1>11, <1>12

(* What a PUT that succeeds does to the store.                             *)
LEMMA KvWriteEffect ==
  ASSUME StoreTypeOK, NEW old \in PageId, NEW data \in PageData, KvWrite(old, data)
  PROVE  /\ objects'[old] = data /\ Object(old)' = data /\ Counted(old)'
         /\ \A q \in PageId : q # old => objects'[q] = objects[q]
         /\ \A q \in PageId : Counted(q) => Counted(q)'
<1>1. old \in Nat /\ allocated_pages \in Nat
  BY MaxAddrAssumption, PageSizeAssumption DEF StoreTypeOK, PageId, PageCount
<1>2. /\ allocated_pages' = IF old + 1 > allocated_pages THEN old + 1 ELSE allocated_pages
      /\ invalid_pages' = invalid_pages \ {old}
      /\ objects' = [objects EXCEPT ![old] = data]
  BY DEF KvWrite
<1>3. \A q \in PageId : q \in Nat
  BY DEF PageId
<1>4. Counted(old)' /\ \A q \in PageId : Counted(q) => Counted(q)'
  BY <1>1, <1>2, <1>3 DEF Counted
<1>5. objects'[old] = data /\ \A q \in PageId : q # old => objects'[q] = objects[q]
  BY <1>2 DEF StoreTypeOK
<1>6. data # NoObject
  BY NoObjectAssumption DEF PageData
<1> QED
  BY <1>4, <1>5, <1>6 DEF Object, Fetched

(* A PUT that succeeds stores a dirty page that it finds cached; it stays  *)
(* so, but clean, or leaves the cache.                                     *)
LEMMA PagePut ==
  ASSUME IInv, NEW n \in Node, n # None, pages[n] \in Page, pages[n].dirty,
         NEW q \in PageId, page_cache[q] = n,
         KvWrite(q, pages[n].data),
         \/ page_cache'[q] = None
         \/ /\ page_cache'[q] = n
            /\ pages'[n].data = pages[n].data /\ ~pages'[n].dirty
            /\ pages'[n].zero_on_use = pages[n].zero_on_use
  PROVE  Puts(q)
<1>1. Held(q) = pages[n].data /\ CachedDirty(q) /\ (Zeroed(q) <=> pages[n].zero_on_use)
  BY DEF Held, CachedDirty, Zeroed
<1>2. Object(q)' = pages[n].data /\ Counted(q)'
  BY KvWriteEffect DEF IInv, Page
<1>3. Held(q)' = pages[n].data /\ ~CachedDirty(q)'
  BY <1>2 DEF Held, CachedDirty
<1>4. Zeroed(q)' => Zeroed(q)
  BY <1>1 DEF Zeroed
<1> QED
  BY <1>1, <1>2, <1>3, <1>4 DEF Puts

(* A miss that evicts a page serves the new page, stores or forgets the old*)
(* one, which was another page, and keeps the rest.                        *)
LEMMA AccessEvictEffect ==
  ASSUME IInv, BoundInv, AccessEvict
  PROVE  \A q \in PageId : IF q = Current.page THEN Serves(q)
                           ELSE Keeps(q) \/ Puts(q) \/ Forgets(q)
<1>1. /\ Typed /\ TablesInv /\ Pending /\ StoreTypeOK /\ CacheFull /\ WriteBack
      /\ page_cache[Current.page] = None
  BY IInvTyped DEF IInv, AccessEvict, Miss
<1>2. PICK p \in PageId : p = Current.page
  BY <1>1, CurrentInBounds
<1>3. PICK v \in Node : v = Victim /\ pages[v] \in Page /\ v # None
  BY <1>1, VictimIsNode, LenPages
<1>4. PICK old \in PageId : old = pages[v].id
  BY <1>3 DEF Page
<1>5. page_cache[old] = v /\ old # p /\ page_cache[p] = None
  BY <1>1, <1>2, <1>3, <1>4 DEF BoundInv
<1>6. /\ pages[v].dirty => KvWrite(old, pages[v].data) /\ pages[v].data \in PageData
      /\ ~pages[v].dirty => UNCHANGED <<objects, allocated_pages, invalid_pages>>
  BY <1>1, <1>3, <1>4 DEF WriteBack, storeVars, bucket, store, Page
<1>7. /\ \A q \in PageId : q # old => objects'[q] = objects[q]
      /\ \A q \in PageId : Counted(q) => Counted(q)'
  BY <1>1, <1>6, KvWriteEffect DEF Counted
<1>8. PICK fp : fp = FilledPage(p, Held(p))
  OBVIOUS
<1>9. Held(p) = Object(p) /\ Object(p) = Fetched(objects', p) /\ Held(p) \in PageData
  BY <1>5, <1>7, HeldType DEF Held, Object, Fetched
<1>10. fp \in Page /\ Served(fp) \in Page
  BY <1>1, <1>8, <1>9, FilledPageType, ServedType
<1>11. /\ pages' = [pages EXCEPT ![v] = Served(fp)]
       /\ page_cache' = [[page_cache EXCEPT ![old] = None] EXCEPT ![p] = v]
       /\ Advance(Served(fp))
  BY <1>2, <1>3, <1>4, <1>8, <1>9 DEF AccessEvict, Erased
<1>12. \A m \in Node : pages'[m] = IF m = v THEN Served(fp) ELSE pages[m]
  BY <1>1, <1>3, <1>10, <1>11, ExceptSeq DEF TablesInv, Node
<1>13. \A q \in PageId : page_cache'[q] = IF q = p THEN v
                                          ELSE IF q = old THEN None ELSE page_cache[q]
  BY <1>1, <1>11 DEF TablesInv
<1>14. Puts(old) \/ Forgets(old)
  <2>1. page_cache'[old] = None
    BY <1>5, <1>13
  <2>2. CASE pages[v].dirty
    BY <2>1, <2>2, <1>3, <1>5, <1>6, PagePut
  <2>3. CASE ~pages[v].dirty
    <3>1. UNCHANGED Object(old)
      BY <2>3, <1>6 DEF Object, Fetched
    <3>2. Held(old)' = Object(old) /\ ~CachedDirty(old)' /\ ~CachedDirty(old) /\ ~Zeroed(old)'
      BY <2>1, <2>3, <3>1, <1>5 DEF Held, CachedDirty, Zeroed
    <3> QED
      BY <3>1, <3>2, <1>7 DEF Forgets
  <2> QED
    BY <2>2, <2>3
<1>15. ASSUME NEW q \in PageId, q # p, q # old
       PROVE  Keeps(q)
  <2>1. page_cache'[q] = page_cache[q]
    BY <1>13, <1>15
  <2>2. page_cache[q] # None => page_cache[q] \in Node /\ page_cache[q] # v
    BY <1>1, <1>4, <1>15, NodeInMap
  <2>3. page_cache[q] # None => pages'[page_cache[q]] = pages[page_cache[q]]
    BY <2>2, <1>12
  <2> QED
    BY <2>1, <2>3, <1>7, <1>15, KeptPage
<1>16. Serves(p)
  <2>1. fp.data = Held(p) /\ (fp.zero_on_use <=> Zeroed(p)) /\ (fp.dirty <=> CachedDirty(p))
    BY <1>5, <1>8 DEF FilledPage, Zeroed, CachedDirty
  <2>2. page_cache'[p] = v /\ pages'[v] = Served(fp) /\ objects'[p] = objects[p]
    BY <1>5, <1>7, <1>12, <1>13
  <2> QED
    BY <2>1, <2>2, <1>1, <1>2, <1>3, <1>7, <1>10, <1>11, PageServed
<1> QED
  BY <1>2, <1>14, <1>15, <1>16

(* A PUT of a dirty node that throws may have been applied, to its page.   *)
LEMMA KvWriteThrowsEffect ==
  ASSUME IInv, BoundInv, NEW n \in Node, pages[n].dirty,
         KvWriteThrows(pages[n].id, pages[n].data), UNCHANGED tableVars
  PROVE  \A q \in PageId : Keeps(q) \/ MayPut(q)
<1>1. PICK old \in PageId : /\ old = pages[n].id /\ page_cache[old] = n
                            /\ n # None /\ CachedDirty(old) /\ pages[n] \in Page
  BY DirtyNode
<1>2. /\ UNCHANGED <<pages, page_cache, allocated_pages, invalid_pages>>
      /\ objects' \in {objects, [objects EXCEPT ![old] = pages[n].data]}
  BY <1>1 DEF KvWriteThrows, tableVars, store
<1>3. \A q \in PageId : Counted(q) => Counted(q)'
  BY <1>2 DEF Counted
<1>4. ASSUME NEW q \in PageId, q # old
      PROVE  Keeps(q)
  <2>1. objects'[q] = objects[q]
    BY <1>2, <1>4 DEF IInv, StoreTypeOK
  <2> QED
    BY <2>1, <1>2, <1>3, KeptPage
<1>5. MayPut(old)
  <2>1. Held(old) = pages[n].data /\ pages[n].data # NoObject
    BY <1>1, NoObjectAssumption DEF Held, Page, PageData
  <2>2. objects'[old] \in {objects[old], pages[n].data}
    BY <1>2 DEF IInv, StoreTypeOK
  <2>3. Object(old)' \in {Object(old), Held(old)}
    BY <2>1, <2>2 DEF Object, Fetched
  <2>4. UNCHANGED <<Held(old), Zeroed(old), CachedDirty(old)>>
    BY <1>1, <1>2 DEF Held, Zeroed, CachedDirty
  <2> QED
    BY <2>3, <2>4, <1>1, <1>3 DEF MayPut
<1> QED
  BY <1>4, <1>5

(* So does the write-back of a victim, and a flush, that fails.            *)
LEMMA WriteBackThrowsEffect ==
  ASSUME IInv, BoundInv, WriteBackThrows
  PROVE  \A q \in PageId : Keeps(q) \/ MayPut(q)
BY VictimIsNode, KvWriteThrowsEffect DEF IInv, WriteBackThrows

LEMMA FlushPageThrowsEffect ==
  ASSUME IInv, BoundInv, FlushPageThrows
  PROVE  \A q \in PageId : Keeps(q) \/ MayPut(q)
BY WalkedIsNode, KvWriteThrowsEffect DEF IInv, FlushPageThrows

(* A step of a flush that succeeds stores a page and keeps the others.     *)
LEMMA FlushPageEffect ==
  ASSUME IInv, BoundInv, FlushPage
  PROVE  \A q \in PageId : Keeps(q) \/ Puts(q)
<1>1. StoreTypeOK /\ TablesInv
  BY DEF IInv
<1>2. PICK n \in Node : n = Walked /\ pages[n].dirty
  BY WalkedIsNode DEF IInv, FlushPage
<1>3. PICK old \in PageId : /\ old = pages[n].id /\ page_cache[old] = n
                            /\ n # None /\ pages[n] \in Page
  BY <1>2, DirtyNode
<1>4. PICK pg \in Page : /\ pg.data = pages[n].data /\ ~pg.dirty
                         /\ pg.zero_on_use = pages[n].zero_on_use
                         /\ pages' = [pages EXCEPT ![n] = pg]
  <2>1. pages' = [pages EXCEPT ![n] = [pages[n] EXCEPT !.dirty = FALSE]]
    BY <1>2 DEF FlushPage
  <2> QED
    BY <2>1, <1>3 DEF Page
<1>5. KvWrite(old, pages[n].data) /\ pages[n].data \in PageData /\ UNCHANGED page_cache
  BY <1>2, <1>3 DEF FlushPage, Page
<1>6. /\ \A q \in PageId : q # old => objects'[q] = objects[q]
      /\ \A q \in PageId : Counted(q) => Counted(q)'
  BY <1>1, <1>5, KvWriteEffect
<1>7. \A m \in Node : pages'[m] = IF m = n THEN pg ELSE pages[m]
  BY <1>1, <1>4, ExceptSeq DEF TablesInv, Node
<1>8. ASSUME NEW q \in PageId, q # old
      PROVE  Keeps(q)
  <2>1. page_cache[q] # None => page_cache[q] \in Node /\ page_cache[q] # n
    BY <1>1, <1>3, <1>8, NodeInMap
  <2>2. page_cache[q] # None => pages'[page_cache[q]] = pages[page_cache[q]]
    BY <2>1, <1>7
  <2> QED
    BY <2>2, <1>5, <1>6, <1>8, KeptPage
<1>9. Puts(old)
  BY <1>2, <1>3, <1>4, <1>5, <1>7, PagePut
<1> QED
  BY <1>8, <1>9

(* Truncate cuts off the pages past the end of allocation.                 *)
LEMMA TruncateEffect ==
  ASSUME IInv, Truncate
  PROVE  \A q \in PageId : IF q > PageOf(eoa) THEN CutsOff(q) ELSE Keeps(q)
<1>1. PICK max \in PageId : max = PageOf(eoa)
  BY PageOfType DEF IInv, CallInv
<1>2. /\ allocated_pages' = max + 1
      /\ invalid_pages' = invalid_pages \cup (max + 1 .. allocated_pages - 1)
      /\ UNCHANGED <<objects, page_cache>>
      /\ pages' = [n \in Node |-> IF pages[n].id > max THEN Invalidated(pages[n]) ELSE pages[n]]
  BY <1>1 DEF Truncate, KvSetMaxPage, bucket
<1>3. TablesInv /\ max \in Nat /\ allocated_pages \in Nat
  BY MaxAddrAssumption, PageSizeAssumption DEF IInv, StoreTypeOK, PageId, PageCount
<1>4. ASSUME NEW q \in PageId, q > max
      PROVE  CutsOff(q)
  <2>1. UNCHANGED Object(q)
    BY <1>2 DEF Object
  <2>2. CASE page_cache[q] = None
    BY <2>1, <2>2, <1>2 DEF CutsOff, Held, CachedDirty
  <2>3. CASE page_cache[q] # None
    <3>1. PICK n \in Node : /\ n = page_cache[q] /\ pages[n] \in Page
                            /\ pages'[n] = Invalidated(pages[n])
      BY <2>3, <1>2, <1>3, <1>4, NodeInMap
    <3>2. ~Invalidated(pages[n]).dirty /\ Invalidated(pages[n]).data = pages[n].data
      BY <3>1 DEF Invalidated, Page
    <3> QED
      BY <2>1, <3>1, <3>2, <1>2 DEF CutsOff, Held, CachedDirty
  <2> QED
    BY <2>2, <2>3
<1>5. ASSUME NEW q \in PageId, ~(q > max)
      PROVE  Keeps(q)
  <2>1. q \in Nat /\ (Counted(q) => Counted(q)')
    BY <1>2, <1>3, <1>5 DEF PageId, Counted
  <2>2. page_cache[q] # None => pages'[page_cache[q]] = pages[page_cache[q]]
    BY <1>2, <1>3, <1>5, NodeInMap
  <2> QED
    BY <2>1, <2>2, <1>2, KeptPage
<1> QED
  BY <1>1, <1>4, <1>5

-----------------------------------------------------------------------------
(* What a step does to a page, and to the addresses of it whose last byte  *)
(* a reader is owed.                                                       *)

Fate(q) ==
  \/ /\ Keeps(q) \/ Puts(q) \/ MayPut(q) \/ Forgets(q)
     /\ KeptIn(q)' = KeptIn(q)
  \/ /\ Serves(q)
     /\ KeptIn(q)' = KeptIn(q) \cup (IF call.op = "write" THEN PageAddrs(q) \cap CurrentAddrs
                                     ELSE {})
  \/ CutsOff(q) /\ KeptIn(q)' = {}

(* A page access that succeeds.                                            *)
LEMMA AccessFate ==
  ASSUME Typed, Pending,
         \A q \in PageId : IF q = Current.page THEN Serves(q)
                           ELSE Keeps(q) \/ Puts(q) \/ Forgets(q)
  PROVE  \A q \in PageId : Fate(q)
<1>1. dropped' = IF call.op = "write" THEN dropped \ CurrentAddrs ELSE dropped
  BY CurrentInBounds DEF Serves, Advance
<1>2. \A q \in PageId : PageAddrs(q)' = PageAddrs(q)
  BY DEF PageAddrs
<1>3. ASSUME NEW q \in PageId, q = Current.page
      PROVE  KeptIn(q)' = KeptIn(q) \cup (IF call.op = "write"
                                          THEN PageAddrs(q) \cap CurrentAddrs ELSE {})
  BY <1>1, <1>2 DEF KeptIn
<1>4. ASSUME NEW q \in PageId, q # Current.page
      PROVE  KeptIn(q)' = KeptIn(q)
  <2>1. PageAddrs(q) \cap CurrentAddrs = {}
    BY <1>4, CurrentAddrsInPage DEF PageAddrs
  <2> QED
    BY <2>1, <1>1, <1>2 DEF KeptIn
<1> QED
  BY <1>3, <1>4 DEF Fate

(* A step that gives up no address and returns none.                       *)
LEMMA OtherFate ==
  ASSUME UNCHANGED dropped, NEW q \in PageId,
         Keeps(q) \/ Puts(q) \/ MayPut(q) \/ Forgets(q)
  PROVE  Fate(q)
BY DEF Fate, KeptIn, PageAddrs

(* Truncate.                                                               *)
LEMMA TruncateFate ==
  ASSUME IInv, Truncate
  PROVE  \A q \in PageId : Fate(q)
<1>1. dropped' = dropped \cup {a \in Addr : PageOf(a) > PageOf(eoa)}
  BY DEF Truncate
<1>2. ASSUME NEW q \in PageId, q > PageOf(eoa)
      PROVE  KeptIn(q)' = {}
  BY <1>1, <1>2 DEF KeptIn, PageAddrs
<1>3. ASSUME NEW q \in PageId, ~(q > PageOf(eoa))
      PROVE  KeptIn(q)' = KeptIn(q)
  BY <1>1, <1>3 DEF KeptIn, PageAddrs
<1> QED
  BY <1>2, <1>3, TruncateEffect DEF Fate

(* Every step does one of these things to every page, if no GET throws.    *)
LEMMA NextFate ==
  ASSUME IInv, BoundInv, ~GetThrows, [Next]_vars
  PROVE  \A q \in PageId : Fate(q)
<1>1. CASE AccessHit \/ AccessAllocate \/ AccessEvict
  <2>1. Typed /\ Pending
    BY <1>1, IInvTyped DEF AccessHit, AccessAllocate, AccessEvict, Miss
  <2>2. \A q \in PageId : IF q = Current.page THEN Serves(q)
                          ELSE Keeps(q) \/ Puts(q) \/ Forgets(q)
    BY <1>1, AccessHitEffect, AccessAllocateEffect, AccessEvictEffect
  <2> QED
    BY <2>1, <2>2, AccessFate
<1>2. CASE Truncate
  BY <1>2, TruncateFate
<1>3. CASE WriteBackThrows \/ FlushPageThrows \/ FlushPage
  <2>1. UNCHANGED dropped
    BY <1>3 DEF WriteBackThrows, FlushPageThrows, FlushPage, Throw
  <2> QED
    BY <1>3, <2>1, WriteBackThrowsEffect, FlushPageThrowsEffect, FlushPageEffect, OtherFate
<1>4. CASE UNCHANGED <<tableVars, objects, store, dropped>>
  BY <1>4, UnchangedKeeps, OtherFate
<1>5. CASE Request /\ ~Truncate
  BY <1>4, <1>5
  DEF Request, BeginRead, BeginWrite, BeginFlush, Begin, SetEoa, storeVars, bucket
<1>6. CASE Access
  <2>1. ~AccessAllocateThrows /\ ~AccessEvictThrows
    BY DEF AccessAllocateThrows, AccessEvictThrows
  <2>2. CASE AccessOverrun \/ ReturnOk
    BY <1>4, <2>2 DEF AccessOverrun, ReturnOk, storeVars, bucket
  <2> QED
    BY <1>1, <1>3, <1>6, <2>1, <2>2 DEF Access
<1>7. CASE Flush
  <2>1. CASE FlushSkip \/ FlushMeta \/ FlushMetaThrows
    BY <1>4, <2>1 DEF FlushSkip, FlushMeta, FlushMetaThrows, storeVars, bucket, KvFlush, KvFlushThrows, Throw
  <2> QED
    BY <1>3, <1>7, <2>1 DEF Flush
<1>8. CASE Halted \/ UNCHANGED vars
  BY <1>4, <1>8 DEF Halted, vars, storeVars, bucket
<1> QED
  BY <1>2, <1>5, <1>6, <1>7, <1>8 DEF Next

-----------------------------------------------------------------------------
(* The invariants.                                                         *)

(* A page that is not dirty is, to a reader, what the bucket holds of it; a*)
(* page to be zeroed on use is not dirty, and no reader is owed any of it. *)
PageCoherent(q) ==
  /\ CachedDirty(q) => ~Zeroed(q)
  /\ Zeroed(q) => KeptIn(q) = {}
  /\ CachedDirty(q) \/ \A a \in KeptIn(q) : ByteOf(Held(q), a) = ByteOf(Object(q), a)

(* A page that is not dirty is counted by the store, unless it holds zeros.*)
PageCounted(q) ==
  CachedDirty(q) \/ \A a \in KeptIn(q) : ByteOf(Object(q), a) # 0 => Counted(q)

CohInv   == \A q \in PageId : PageCoherent(q)
CountInv == \A q \in PageId : PageCounted(q)

(* Whatever a step does to a page leaves it coherent ...                   *)
LEMMA FateCoherent ==
  ASSUME NEW q \in PageId, PageCoherent(q), Fate(q)
  PROVE  PageCoherent(q)'
<1>1. CASE Keeps(q) /\ KeptIn(q)' = KeptIn(q)
  BY <1>1 DEF PageCoherent, Keeps
<1>2. CASE Puts(q) /\ KeptIn(q)' = KeptIn(q)
  BY <1>2 DEF PageCoherent, Puts
<1>3. CASE MayPut(q) /\ KeptIn(q)' = KeptIn(q)
  BY <1>3 DEF PageCoherent, MayPut
<1>4. CASE Forgets(q) /\ KeptIn(q)' = KeptIn(q)
  BY <1>4 DEF PageCoherent, Forgets
<1>5. CASE Serves(q) /\ call.op = "write"
  BY <1>5 DEF PageCoherent, Serves
<1>6. CASE Serves(q) /\ call.op # "write" /\ KeptIn(q)' = KeptIn(q)
  BY <1>6 DEF PageCoherent, Serves
<1>7. CASE CutsOff(q) /\ KeptIn(q)' = {}
  BY <1>7 DEF PageCoherent, CutsOff
<1> QED
  BY <1>1, <1>2, <1>3, <1>4, <1>5, <1>6, <1>7 DEF Fate

(* ... and counted.                                                        *)
LEMMA FateCounted ==
  ASSUME NEW q \in PageId, PageCounted(q), Fate(q)
  PROVE  PageCounted(q)'
<1>1. CASE (Keeps(q) \/ Puts(q) \/ MayPut(q) \/ Forgets(q)) /\ KeptIn(q)' = KeptIn(q)
  BY <1>1 DEF PageCounted, Keeps, Puts, MayPut, Forgets
<1>2. CASE Serves(q) /\ (call.op = "write" \/ KeptIn(q)' = KeptIn(q))
  BY <1>2 DEF PageCounted, Serves
<1>3. CASE CutsOff(q) /\ KeptIn(q)' = {}
  BY <1>3 DEF PageCounted
<1> QED
  BY <1>1, <1>2, <1>3 DEF Fate

(* So every step keeps all pages so, when no GET throws, ...               *)
LEMMA NextCoherent == IInv /\ BoundInv /\ ~GetThrows /\ CohInv /\ [Next]_vars => CohInv'
BY NextFate, FateCoherent DEF CohInv

LEMMA NextCounted == IInv /\ BoundInv /\ ~GetThrows /\ CountInv /\ [Next]_vars => CountInv'
BY NextFate, FateCounted DEF CountInv

(* ... a table with nothing in it is coherent with any bucket, ...         *)
LEMMA EmptyCoherent ==
  ASSUME \A q \in PageId : page_cache[q] = None
  PROVE  CohInv
BY DEF CohInv, PageCoherent, CachedDirty, Zeroed, Held

(* ... and with an empty bucket the counts are right as well, ...          *)
LEMMA InitCoherent == Init => CohInv /\ CountInv
<1> SUFFICES ASSUME Init PROVE CohInv /\ CountInv
  OBVIOUS
<1>1. \A q \in PageId : page_cache[q] = None /\ objects[q] = NoObject
  BY DEF Init, TableInit, StoreInit
<1>2. ASSUME NEW q \in PageId, NEW a \in KeptIn(q)
      PROVE  ByteOf(Object(q), a) = 0
  BY <1>1, OffsetOfAddr DEF KeptIn, PageAddrs, Object, Fetched, ZeroPage, ByteOf
<1> QED
  BY <1>1, <1>2, EmptyCoherent DEF CountInv, PageCounted

(* ... so the invariants hold throughout.                                  *)
LEMMA Coherent ==
  ASSUME ~GetMayFail
  PROVE  Spec => [](IInv /\ BoundInv /\ CohInv /\ CountInv)
<1>1. ~GetThrows
  BY NoGetThrows
<1> QED
  BY <1>1, InitCoherent, NextCoherent, NextCounted, BoundInvariance, Invariant, PTL DEF Spec

-----------------------------------------------------------------------------
(* One of several users of a bucket (TwoUsersProofs).  What the bucket     *)
(* holds of a page that a table has clean may be newer than what the table *)
(* holds of it, so CohInv is lost; what is left is said here.              *)

(* A step of a user that only reads, and of one that neither truncates nor *)
(* moves the end of allocation.                                            *)
ReaderStep == Access \/ \E addr \in Addr, size \in 1 .. MaxAddr : BeginRead(addr, size)

Writes(addr, size) ==
  \E data \in [addr .. addr + size - 1 -> Byte] : BeginWrite(addr, size, data)

UserStep ==
  \/ ReaderStep \/ BeginFlush \/ Flush
  \/ \E addr \in Addr, size \in 1 .. MaxAddr : Writes(addr, size)

(* No page is to be zeroed on use and no address is cut off.               *)
UserInv ==
  /\ IInv /\ BoundInv
  /\ dropped = {}
  /\ \A q \in PageId : Zeroed(q) => PageAddrs(q) = {}

(* No page waits to be stored; what the cache holds of an address, or the  *)
(* bucket if the cache has nothing of its page.                            *)
Clean == \A q \in PageId : ~CachedDirty(q)
HeldByte(a) == ByteOf(Held(PageOf(a)), a)

(* Such a step leaves the end of allocation where it is and cuts nothing   *)
(* off.                                                                    *)
LEMMA UserStepKeepsEoa ==
  ASSUME UserStep
  PROVE  Next /\ UNCHANGED eoa /\ dropped' \subseteq dropped
<1>1. Next
  BY DEF UserStep, ReaderStep, Writes, Next, Request
<1>2. CASE Access
  BY <1>1, <1>2 DEF Access, AccessHit, AccessAllocate, AccessAllocateThrows, AccessEvict,
              AccessEvictThrows, WriteBackThrows, AccessOverrun, ReturnOk, Advance, Throw
<1>3. CASE Flush
  BY <1>1, <1>3 DEF Flush, FlushSkip, FlushPage, FlushPageThrows, FlushMeta, FlushMetaThrows, Throw
<1>4. CASE ~Access /\ ~Flush
  BY <1>1, <1>4 DEF UserStep, ReaderStep, Writes, BeginRead, BeginWrite, BeginFlush, Begin
<1> QED
  BY <1>2, <1>3, <1>4

(* What a step that does one of those things to a page makes of a byte of  *)
(* it in the bucket and in the cache.                                      *)
LEMMA FateBytes ==
  ASSUME NEW q \in PageId, Fate(q), Zeroed(q) => PageAddrs(q) = {}, NEW a \in PageAddrs(q)
  PROVE  /\ ByteOf(Object(q)', a) \in {ByteOf(Object(q), a), ByteOf(Held(q), a)}
         /\ ~CachedDirty(q) => UNCHANGED Object(q)
         /\ CachedDirty(q)' => CachedDirty(q) \/ call.op = "write"
         /\ \/ ByteOf(Held(q)', a) \in {ByteOf(Held(q), a), ByteOf(Object(q)', a)}
            \/ /\ call.op = "write" /\ a \in CurrentAddrs
               /\ ByteOf(Held(q)', a) = call.buffer[a]
               /\ UNCHANGED Object(q)
<1>1. CASE Keeps(q) \/ Puts(q) \/ MayPut(q) \/ Forgets(q) \/ CutsOff(q)
  BY <1>1 DEF Keeps, Puts, MayPut, Forgets, CutsOff
<1>2. CASE Serves(q)
  <2>1. CASE call.op = "write"
    BY <1>2, <2>1 DEF Serves
  <2>2. CASE call.op # "write"
    BY <1>2, <2>2 DEF Serves
  <2> QED
    BY <2>1, <2>2
<1> QED
  BY <1>1, <1>2 DEF Fate

(* No step of the user has a page zeroed on use.                           *)
LEMMA FateZeroed ==
  ASSUME NEW q \in PageId, Fate(q), dropped = {}, dropped' = {},
         Zeroed(q) => PageAddrs(q) = {}
  PROVE  Zeroed(q)' => PageAddrs(q)' = {}
<1>1. PageAddrs(q)' = PageAddrs(q) /\ KeptIn(q)' = PageAddrs(q)
  BY DEF PageAddrs, KeptIn
<1> QED
  BY <1>1 DEF Fate, Keeps, Serves, Puts, MayPut, Forgets

(* So its steps keep its invariant, and do to every page one of the things *)
(* that a step of a single user does.                                      *)
LEMMA UserStepInv ==
  ASSUME ~GetMayFail, UserInv, UserStep
  PROVE  UserInv' /\ UNCHANGED eoa /\ \A q \in PageId : Fate(q)
<1>1. Next /\ UNCHANGED eoa /\ dropped' = {} /\ ~GetThrows
  BY UserStepKeepsEoa, NoGetThrows DEF UserInv
<1>2. IInv' /\ BoundInv'
  BY <1>1, NextIInv, NextBoundInv DEF UserInv
<1>3. \A q \in PageId : Fate(q)
  BY <1>1, NextFate DEF UserInv
<1>4. \A q \in PageId : Zeroed(q)' => PageAddrs(q)' = {}
  BY <1>1, <1>3, FateZeroed DEF UserInv
<1> QED
  BY <1>1, <1>2, <1>3, <1>4 DEF UserInv

(* What a step of the user makes of a byte in the bucket and in the cache. *)
LEMMA UserBytes ==
  ASSUME ~GetMayFail, UserInv, UserStep, NEW a \in Addr
  PROVE  /\ Stored(a)' \in {Stored(a), HeldByte(a)}
         /\ \/ HeldByte(a)' \in {HeldByte(a), Stored(a)'}
            \/ /\ call.op = "write" /\ HeldByte(a)' = call.buffer[a]
               /\ Stored(a)' = Stored(a)
<1>1. PICK q \in PageId : q = PageOf(a) /\ a \in PageAddrs(q)
  BY OffsetOfAddr DEF PageAddrs
<1>2. Fate(q) /\ (Zeroed(q) => PageAddrs(q) = {})
  BY UserStepInv DEF UserInv
<1>3. /\ Stored(a) = ByteOf(Object(q), a) /\ Stored(a)' = ByteOf(Object(q)', a)
      /\ HeldByte(a) = ByteOf(Held(q), a) /\ HeldByte(a)' = ByteOf(Held(q)', a)
  BY <1>1, BytesOfPage DEF HeldByte
<1> QED
  BY <1>1, <1>2, <1>3, FateBytes

(* A table that is clean stays so beside its user's reads, and the bytes of*)
(* the bucket with it.                                                     *)
LEMMA UserStaysClean ==
  ASSUME ~GetMayFail, UserInv, UserStep, call.op # "write", Clean
  PROVE  Clean' /\ \A a \in Addr : Stored(a)' = Stored(a)
<1>1. \A q \in PageId : Fate(q)
  BY UserStepInv
<1>2. ASSUME NEW q \in PageId
      PROVE  ~CachedDirty(q)' /\ UNCHANGED Object(q)
  BY <1>1 DEF Clean, Fate, Keeps, Serves, Puts, MayPut, Forgets, CutsOff
<1>3. ASSUME NEW a \in Addr
      PROVE  Stored(a)' = Stored(a)
  <2>1. PICK q \in PageId : q = PageOf(a) /\ a \in PageAddrs(q)
    BY OffsetOfAddr DEF PageAddrs
  <2> QED
    BY <1>2, <2>1, BytesOfPage
<1> QED
  BY <1>2, <1>3 DEF Clean

(* The invariant at a step of another user, which changes the bucket alone.*)
LEMMA OtherStepInv ==
  ASSUME UserInv, UNCHANGED <<tableVars, store, call, ret, eoa>>, dropped' = {},
         undefined' \in BOOLEAN, objects' \in [PageId -> PageData \cup {NoObject}],
         meta' \in MetaText \cup {NoObject}
  PROVE  UserInv'
<1>1. TablesInv' /\ BoundInv'
  BY UnchangedTables, UnchangedTablesBound DEF UserInv, IInv
<1>2. StoreTypeOK'
  BY DEF UserInv, IInv, StoreTypeOK, store
<1>3. CallInv'
  BY DEF UserInv, IInv, CallInv, CallWellFormed, InAccess, Flushing, CallAddrs
<1>4. \A q \in PageId : (Zeroed(q)' <=> Zeroed(q)) /\ PageAddrs(q)' = PageAddrs(q)
  BY DEF Zeroed, PageAddrs, tableVars
<1> QED
  BY <1>1, <1>2, <1>3, <1>4 DEF UserInv, IInv

(* The table keeps what it holds beside such a step; of a page that it does*)
(* not hold it gets what the bucket has then.                              *)
LEMMA OtherStepBytes ==
  ASSUME UNCHANGED tableVars
  PROVE  /\ Clean => Clean'
         /\ \A a \in Addr : HeldByte(a)' \in {HeldByte(a), Stored(a)'}
BY DEF Clean, CachedDirty, HeldByte, Held, Stored, Object, tableVars

(* What the cache holds is what the user sees, a byte in any case.         *)
LEMMA UserSees ==
  ASSUME UserInv, NEW a \in Addr
  PROVE  Visible(a) = HeldByte(a) /\ HeldByte(a) \in Byte /\ Stored(a) \in Byte
<1>1. PICK q \in PageId : q = PageOf(a) /\ a \in PageAddrs(q)
  BY OffsetOfAddr DEF PageAddrs
<1>2. Object(q) \in PageData /\ Held(q) \in PageData /\ ~Zeroed(q)
  BY <1>1, HeldType DEF UserInv
<1>3. a - PageStart(PageOf(a)) \in Offset
  BY OffsetOfAddr
<1> QED
  BY <1>1, <1>2, <1>3, BytesOfPage DEF HeldByte, ByteOf, PageData

(* So after a step, where the invariant holds again.                       *)
HoldsBytes == \A a \in Addr : HeldByte(a) \in Byte

LEMMA UserHoldsBytes ==
  /\ UserInv => HoldsBytes
  /\ UserInv' => HoldsBytes'
<1>1. UserInv => HoldsBytes
  BY UserSees DEF HoldsBytes
<1>2. UserInv' => HoldsBytes'
  BY <1>1, PTL
<1> QED
  BY <1>1, <1>2

(* A user that has just opened the bucket.                                 *)
LEMMA EmptyUser ==
  ASSUME StoreTypeOK, EmptyTable, NoCall, dropped = {}
  PROVE  UserInv /\ Clean /\ \A a \in Addr : HeldByte(a) = Stored(a)
<1>1. IInv /\ BoundInv
  BY EmptyTablesInv, EmptyBoundInv, IdleCallInv DEF IInv
<1>2. \A q \in PageId : page_cache[q] = None
  BY DEF EmptyTable
<1>3. \A a \in Addr : PageOf(a) \in PageId
  BY OffsetOfAddr
<1> QED
  BY <1>1, <1>2, <1>3 DEF UserInv, Zeroed, Clean, CachedDirty, HeldByte, Held, Stored, Object

(* What such a step makes of the callback in progress: it goes on, ends, or*)
(* another begins.                                                         *)
LEMMA UserCall ==
  ASSUME ReaderStep \/ BeginFlush \/ Flush
  PROVE  \/ \E pg : Pending /\ Advance(pg)
         \/ call' = Idle \/ UNCHANGED call
         \/ Flushing /\ call' = [call EXCEPT !.k = @ + 1]
         \/ call = Idle /\ call'.op \in {"read", "flush"}
<1>1. CASE Access
  <2>1. CASE AccessHit
    BY <2>1 DEF AccessHit
  <2>2. CASE AccessAllocate \/ AccessEvict
    BY <2>2 DEF AccessAllocate, AccessEvict, Miss
  <2> QED
    BY <1>1, <2>1, <2>2 DEF Access, AccessAllocateThrows, AccessEvictThrows, WriteBackThrows,
                            AccessOverrun, ReturnOk, Throw
<1>2. CASE Flush
  BY <1>2 DEF Flush, FlushSkip, FlushPage, FlushPageThrows, FlushMeta, FlushMetaThrows, Walking, Throw
<1>3. CASE \E addr \in Addr, size \in 1 .. MaxAddr : BeginRead(addr, size)
  BY <1>3 DEF BeginRead, Begin
<1>4. CASE BeginFlush
  <2>1. call = Idle /\ call' = [Idle EXCEPT !.op = "flush", !.k = 1]
    BY <1>4 DEF BeginFlush, Begin
  <2>2. call'.op = "flush"
    BY <2>1 DEF Idle
  <2> QED
    BY <2>1, <2>2
<1> QED
  BY <1>1, <1>2, <1>3, <1>4 DEF ReaderStep

(* A write that is being served keeps its bytes.                           *)
LEMMA WriteKeepsBuffer ==
  ASSUME call \in Call, ReaderStep \/ BeginFlush \/ Flush, call'.op = "write"
  PROVE  call.op = "write" /\ call'.buffer = call.buffer
<1>1. ASSUME NEW pg, Pending, Advance(pg)
      PROVE  call'.op = call.op /\ call'.buffer = Delivered(pg)
  BY <1>1 DEF Advance, Call
<1>2. CASE \E pg : Pending /\ Advance(pg)
  BY <1>1, <1>2 DEF Delivered
<1>3. CASE ~\E pg : Pending /\ Advance(pg)
  BY <1>3, UserCall, IdleType DEF Flushing, Call
<1> QED
  BY <1>2, <1>3

(* A user that reads goes on reading.                                      *)
LEMMA ReaderGoesOn ==
  ASSUME call \in Call, ReaderStep, call.op \in {"idle", "read"}
  PROVE  call'.op \in {"idle", "read"}
<1>1. ASSUME NEW pg, Advance(pg)
      PROVE  call'.op = call.op
  BY <1>1 DEF Advance, Call
<1>2. CASE \E addr \in Addr, size \in 1 .. MaxAddr : BeginRead(addr, size)
  BY <1>2 DEF BeginRead, Begin
<1>3. CASE Access
  <2>1. CASE AccessHit \/ AccessAllocate \/ AccessEvict
    BY <1>1, <2>1 DEF AccessHit, AccessAllocate, AccessEvict
  <2> QED
    BY <1>3, <2>1, IdleType DEF Access, AccessAllocateThrows, AccessEvictThrows,
       WriteBackThrows, AccessOverrun, ReturnOk, Throw
<1> QED
  BY <1>2, <1>3 DEF ReaderStep

(* A read that is being served delivers what the cache holds then.         *)
LEMMA ReadDelivers ==
  ASSUME UserInv, ReaderStep, call.op = "read", call'.op = "read", NEW a \in CurrentAddrs
  PROVE  call'.buffer[a] = HeldByte(a)'
<1>1. AccessHit \/ AccessAllocate \/ AccessEvict
  BY IdleType DEF ReaderStep, BeginRead, Begin, Access, AccessAllocateThrows, AccessEvictThrows,
     WriteBackThrows, AccessOverrun, ReturnOk, Throw
<1>2. Typed /\ Pending /\ IInv /\ BoundInv /\ call \in Call
  BY <1>1, IInvTyped DEF UserInv, IInv, CallInv, AccessHit, AccessAllocate, AccessEvict, Miss
<1>3. PICK p \in PageId : p = Current.page
  BY <1>2, CurrentInBounds
<1>4. PICK pg \in Page : pg.data = Held(p)' /\ Advance(pg)
  BY <1>1, <1>2, <1>3, AccessHitEffect, AccessAllocateEffect, AccessEvictEffect DEF Serves
<1>5. a \in Addr /\ PageOf(a) = p /\ a \in PageAddrs(p)
  BY <1>2, <1>3, CurrentAddrsInPage, CurrentAddrsInCall DEF PageAddrs
<1>6. call'.buffer[a] = pg.data[Current.offset + a - (call.addr + Current.at)]
  BY <1>2, <1>4, <1>5 DEF Advance, Delivered, Call
<1>7. call'.buffer[a] = pg.data[a - PageStart(PageOf(a))]
  BY <1>2, <1>3, <1>5, <1>6, CurrentOffset
<1> QED
  BY <1>4, <1>5, <1>7 DEF ByteOf, HeldByte

(* A user that reads, and whose table is clean, stores nothing.            *)
LEMMA ReaderStoresNothing ==
  ASSUME ~GetMayFail, UserInv, ReaderStep,
         call.op \in {"idle", "read"}, Clean
  PROVE  UNCHANGED bucket
<1>1. ~GetThrows
  BY NoGetThrows
<1>2. \A n \in Node : ~pages[n].dirty
  BY DirtyNode DEF UserInv, Clean
<1>3. CASE AccessEvict \/ WriteBackThrows
  <2>1. Victim \in Node
    BY <1>3, VictimIsNode DEF UserInv, IInv, AccessEvict, WriteBackThrows
  <2> QED
    BY <1>2, <1>3, <2>1 DEF AccessEvict, WriteBack, WriteBackThrows, storeVars
<1> QED
  BY <1>1, <1>3
  DEF ReaderStep, BeginRead, Begin, Access, AccessHit, AccessAllocate, AccessAllocateThrows,
      AccessEvictThrows, AccessOverrun, ReturnOk, storeVars

-----------------------------------------------------------------------------
(* Theorems                                                                *)

(* What the invariants say of a byte that a reader must see.               *)
LEMMA KeptByte ==
  ASSUME CohInv, NEW a \in Kept, ~CachedDirty(PageOf(a))
  PROVE  /\ Visible(a) = Stored(a)
         /\ CountInv /\ Stored(a) # 0 =>
              PageOf(a) < allocated_pages /\ PageOf(a) \notin invalid_pages
<1>1. PICK q \in PageId : q = PageOf(a) /\ a \in PageAddrs(q) /\ a \in KeptIn(q)
  BY OffsetOfAddr DEF KeptIn, PageAddrs, Kept
<1>2. PageCoherent(q) /\ (CountInv => PageCounted(q))
  BY DEF CohInv, CountInv
<1> QED
  BY <1>1, <1>2, BytesOfPage DEF PageCoherent, PageCounted, Counted

(* Write-back caching loses nothing: what the bucket does not hold is in a *)
(* page that is cached and dirty, whatever read_page has evicted, whatever *)
(* PUTs have failed and whatever truncate has cut off.                     *)
THEOREM NothingIsLost ==
  ASSUME ~GetMayFail
  PROVE  Spec => []OnlyDirtyPagesDiffer
<1>1. CohInv => OnlyDirtyPagesDiffer
  BY KeptByte DEF OnlyDirtyPagesDiffer
<1> QED
  BY <1>1, Coherent, PTL

(* get_eof covers the data of every page that is not dirty, although       *)
(* truncate lowers the page count and write-backs raise it in any order.   *)
THEOREM EndOfFileCoversData ==
  ASSUME ~GetMayFail
  PROVE  Spec => []EofCoversData
<1>1. IInv /\ CohInv /\ CountInv => EofCoversData
  <2> SUFFICES ASSUME IInv, CohInv, CountInv, NEW a \in Kept, Visible(a) # 0, ~CachedDirty(PageOf(a))
               PROVE  a < Eof
    BY DEF EofCoversData
  <2>1. PageOf(a) < allocated_pages
    BY KeptByte
  <2>2. a \in Nat /\ allocated_pages \in Nat
    BY MaxAddrAssumption, PageSizeAssumption DEF Kept, Addr, IInv, StoreTypeOK, PageCount
  <2>3. PageStart(PageOf(a)) + PageSize <= PageStart(allocated_pages)
    BY <2>1, <2>2, PageOfBounds, PageStartMonotone
  <2>4. a < PageStart(PageOf(a)) + PageSize /\ PageStart(PageOf(a)) \in Nat
    BY <2>2, PageOfBounds
  <2>5. PageStart(allocated_pages) = Eof /\ Eof \in Nat
    BY <2>2, PageSizeAssumption DEF PageStart, Eof
  <2> QED
    BY <2>2, <2>3, <2>4, <2>5, PageSizeAssumption
<1> QED
  BY <1>1, Coherent, PTL

(* A page that the store records as invalid holds nothing a reader should  *)
(* see: write takes a page off the record when it stores it.               *)
THEOREM InvalidPagesAreEmpty ==
  ASSUME ~GetMayFail
  PROVE  Spec => []InvalidPagesHoldNothing
<1>1. CohInv /\ CountInv => InvalidPagesHoldNothing
  BY KeptByte DEF InvalidPagesHoldNothing
<1> QED
  BY <1>1, Coherent, PTL

(* A flush that reports success has left in the bucket every byte a reader *)
(* can see, after any number of flushes that failed half way.              *)
THEOREM FlushIsDurable ==
  ASSUME ~GetMayFail
  PROVE  Spec => FlushMakesDurable
<1> DEFINE Durable == call.op = "flush" /\ ret' = "ok" /\ call' = Idle =>
                        \A a \in Kept : Stored(a)' = Visible(a)
<1>1. IInv /\ WalkInv /\ CohInv /\ [Next]_vars => [Durable]_vars
  <2> SUFFICES ASSUME IInv, WalkInv, CohInv, Next, call.op = "flush", ret' = "ok", call' = Idle,
                      NEW a \in Kept
               PROVE  Stored(a)' = Visible(a)
    OBVIOUS
  <2>1. FlushMeta
    BY DEF Next, Request, BeginRead, BeginWrite, BeginFlush, Begin, SetEoa, Truncate, Idle,
           Access, AccessHit, AccessAllocate, AccessAllocateThrows, AccessEvict,
           AccessEvictThrows, WriteBackThrows, AccessOverrun, ReturnOk, Miss, Pending,
           InAccess, Flush, FlushSkip, FlushPage, FlushPageThrows, FlushMetaThrows, Throw, Halted, vars
  <2>2. UNCHANGED objects /\ \A n \in Node : ~pages[n].dirty
    BY <2>1, WalkedAllClean DEF FlushMeta, KvFlush
  <2>3. ~CachedDirty(PageOf(a))
    <3>1. PageOf(a) \in PageId
      BY OffsetOfAddr DEF Kept
    <3> QED
      BY <2>2, <3>1, NodeInMap DEF IInv, CachedDirty
  <2>4. Visible(a) = Stored(a)
    BY <2>3, KeptByte
  <2> QED
    BY <2>2, <2>4 DEF Stored, Fetched
<1>2. Init => WalkInv
  BY IdleWalkInv DEF Init, TableInit
<1>3. Spec => []WalkInv
  BY <1>2, NextWalkInv, Invariant, PTL DEF Spec
<1>4. Spec => [][Durable]_vars
  BY <1>1, <1>3, Coherent, PTL DEF Spec
<1> QED
  BY <1>4 DEF FlushMakesDurable
=============================================================================
