------------------------------ MODULE PageTable ------------------------------
(***************************************************************************)
(* page::table over an s3_kv_store, driven by the callbacks of kv_driver:  *)
(* an LRU, write-back cache of pages that presents the pages of the store  *)
(* as one byte-addressed memory.                                           *)
(*                                                                         *)
(* The list m_lru_order owns the page buffers.  Its nodes are never freed  *)
(* while the table lives, so they are numbered in the order in which they  *)
(* were created: pages[n] is the content of node n, lru_order lists the    *)
(* node numbers from the front of the list to its back, m_allocated_pages  *)
(* is Len(pages), and page_cache[p] is the node the iterator in            *)
(* m_page_cache designates, or None.                                       *)
(*                                                                         *)
(* A callback (kv_driver::read, write, flush) is a sequence of page        *)
(* accesses or PUTs, each of which can fail and end the call.  One step    *)
(* serves one of them; hdf5 makes one call at a time.                      *)
(***************************************************************************)
EXTENDS S3KvStore, Sequences

CONSTANTS
  CacheSize,   \* m_page_cache_size
  GetMayFail,  \* may a page GET throw?
  PutMayFail,  \* may a PUT throw?
  MaxOrphans,  \* bound: how many list nodes failed GETs may leave behind
  NoByte       \* a byte of the caller's read buffer not yet filled in

ASSUME CacheSizeAssumption == CacheSize \in Nat \ {0}
ASSUME FaultAssumption     == GetMayFail \in BOOLEAN /\ PutMayFail \in BOOLEAN
ASSUME BoundAssumption     == MaxOrphans \in Nat
ASSUME NoByteAssumption    == NoByte \notin Byte

VARIABLES
  lru_order,   \* m_lru_order, as node numbers
  pages,       \* the nodes: page id and page object
  page_cache,  \* m_page_cache
  eoa,         \* kv_driver::m_eoa
  call,        \* the callback being served
  ret,         \* what the last callback returned: zero ("ok") or -1 ("error")
  undefined,   \* has the program executed undefined behaviour?
  dropped      \* history: bytes of truncated pages, not written again since

tableVars == <<lru_order, pages, page_cache>>
vars == <<storeVars, tableVars, eoa, call, ret, undefined, dropped>>

None == 0
Node == 1 .. Len(pages)

Page == [id : PageId, dirty : BOOLEAN, zero_on_use : BOOLEAN,
         filled : BOOLEAN, data : PageData]

-----------------------------------------------------------------------------
(* The callback in progress.  buffer is the caller's buffer, indexed by    *)
(* the address each of its bytes stands for; k is the next page access of  *)
(* a read or write, the position in the list of a flush.                   *)

Unfilled == [a \in Addr |-> NoByte]

Call == [op : {"idle", "read", "write", "flush"}, addr : 0 .. MaxAddr,
         size : 0 .. MaxAddr, k : Nat,
         buffer : [Addr -> Byte \cup {NoByte}]]

Idle == [op |-> "idle", addr |-> 0, size |-> 0, k |-> 0, buffer |-> Unfilled]

(* The addresses of a call.                                                *)
CallAddrs(c) == c.addr .. c.addr + c.size - 1

InAccess == call.op \in {"read", "write"}

(* Is there a page access left to make?                                    *)
Pending == ~undefined /\ InAccess /\ call.k <= SegmentCount(call.addr, call.size)

Current == Segment(call.addr, call.size, call.k)

CurrentAddrs == SegmentAddrs(call.addr, call.size, call.k)

-----------------------------------------------------------------------------
(* class page                                                              *)

(* page::write on a page to be zeroed first.  The first memset clears the  *)
(* bytes before the write; the second starts at size and not at            *)
(* offset + size, and runs for PageSize - offset + size bytes.             *)
ZeroedAround(data, offset, size) ==
  [i \in Offset |->
     IF i < offset \/ i \in size .. size + (PageSize - offset + size) - 1
     THEN 0 ELSE data[i]]

(* Does that second memset leave the page's buffer?                        *)
Overruns(offset, size) == size + (PageSize - offset + size) > PageSize

ReadFrom(pg) ==
  IF pg.zero_on_use
  THEN [pg EXCEPT !.zero_on_use = FALSE, !.data = ZeroPage]
  ELSE pg

(* Faulty: the write does not mark the page dirty.                         *)
WrittenToUnmarked(pg, seg) ==
  [pg EXCEPT !.zero_on_use = FALSE,
     !.data = [i \in Offset |->
                 IF i \in seg.offset .. seg.offset + seg.length - 1
                 THEN call.buffer[call.addr + seg.at + i - seg.offset]
                 ELSE pg.data[i]]]

WrittenTo(pg, seg) ==
  LET base == IF pg.zero_on_use
              THEN ZeroedAround(pg.data, seg.offset, seg.length)
              ELSE pg.data
  IN  [pg EXCEPT
         !.zero_on_use = FALSE, !.dirty = TRUE,
         !.data = [i \in Offset |->
                     IF i \in seg.offset .. seg.offset + seg.length - 1
                     THEN call.buffer[call.addr + seg.at + i - seg.offset]
                     ELSE base[i]]]

Invalidated(pg) == [pg EXCEPT !.zero_on_use = TRUE, !.dirty = FALSE]

(* The page object after the current segment has been read or written.     *)
Served(pg) == IF call.op = "read" THEN ReadFrom(pg) ELSE WrittenTo(pg, Current)

(* The caller's buffer after pg has served the current segment.            *)
Delivered(pg) ==
  IF call.op = "read"
  THEN [a \in Addr |->
          IF a \in CurrentAddrs
          THEN pg.data[Current.offset + a - (call.addr + Current.at)]
          ELSE call.buffer[a]]
  ELSE call.buffer

(* Faulty: the page starts dirty.                                          *)
FilledPageDirty(p, data) ==
  [id |-> p, dirty |-> TRUE, zero_on_use |-> FALSE, filled |-> TRUE, data |-> data]

(* A node that read_page gives to page p, its buffer filled from the store *)
(* or left with whatever the failed GET put there.                         *)
FilledPage(p, data) ==
  [id |-> p, dirty |-> FALSE, zero_on_use |-> FALSE, filled |-> TRUE, data |-> data]
UnfilledPage(p) ==
  [id |-> p, dirty |-> FALSE, zero_on_use |-> FALSE, filled |-> FALSE, data |-> ZeroPage]

-----------------------------------------------------------------------------
(* table::read_page                                                        *)

(* std::list::splice of the i-th node to the front of the list: the list   *)
(* class keeps every node, and so does this by construction.               *)
MoveToFront(s, i) ==
  [j \in 1 .. Len(s) |-> IF j = 1 THEN s[i] ELSE IF j <= i THEN s[j - 1] ELSE s[j]]

PositionOf(n) == CHOOSE i \in 1 .. Len(lru_order) : lru_order[i] = n

Mapped == {p \in PageId : page_cache[p] # None}

(* m_page_cache.size() == m_page_cache_size                                *)
CacheFull == Cardinality(Mapped) = CacheSize

Victim == lru_order[Len(lru_order)]

(* Nodes of the list that no entry of the map designates: what a failed    *)
(* GET leaves behind.                                                      *)
Orphans == {n \in Node : page_cache[pages[n].id] # n}

GetThrows == GetMayFail /\ Cardinality(Orphans) < MaxOrphans

(* The access succeeded: pg is the page it returned, after the segment.    *)
Advance(pg) ==
  /\ call' = [call EXCEPT !.k = @ + 1, !.buffer = Delivered(pg)]
  /\ dropped' = IF call.op = "write" THEN dropped \ CurrentAddrs ELSE dropped
  /\ UNCHANGED <<eoa, ret, undefined>>

(* An exception left the table: kv_driver turns it into -1.                *)
Throw ==
  /\ call' = Idle
  /\ ret' = "error"
  /\ UNCHANGED <<eoa, undefined, dropped>>

(* Faulty: a hit does not move its node to the front.                      *)
AccessHitInPlace ==
  /\ Pending
  /\ page_cache[Current.page] # None
  /\ LET n == page_cache[Current.page]
     IN  /\ pages' = [pages EXCEPT ![n] = Served(@)]
         /\ Advance(Served(pages[n]))
  /\ UNCHANGED <<storeVars, lru_order, page_cache>>

AccessHit ==
  /\ Pending
  /\ page_cache[Current.page] # None
  /\ LET n == page_cache[Current.page]
     IN  /\ lru_order' = MoveToFront(lru_order, PositionOf(n))
         /\ pages' = [pages EXCEPT ![n] = Served(@)]
         /\ Advance(Served(pages[n]))
  /\ UNCHANGED <<storeVars, page_cache>>

(* A miss while the map is not full: a new node, filled at the back of the *)
(* list and spliced to its front.                                          *)
Miss == Pending /\ page_cache[Current.page] = None

AccessAllocate ==
  /\ Miss
  /\ ~CacheFull
  /\ LET n  == Len(pages) + 1
         pg == Served(FilledPage(Current.page, Fetched(objects, Current.page)))
     IN  /\ pages' = Append(pages, pg)
         /\ lru_order' = <<n>> \o lru_order
         /\ page_cache' = [page_cache EXCEPT ![Current.page] = n]
         /\ Advance(pg)
  /\ UNCHANGED storeVars

(* The same, but the GET throws: the node stays in the list, at its back,  *)
(* with no entry in the map.                                               *)
AccessAllocateThrows ==
  /\ GetThrows
  /\ Miss
  /\ ~CacheFull
  /\ pages' = Append(pages, UnfilledPage(Current.page))
  /\ lru_order' = Append(lru_order, Len(pages) + 1)
  /\ Throw
  /\ UNCHANGED <<storeVars, page_cache>>

(* A miss while the map is full steals the node at the back of the list:   *)
(* its page is written back when dirty ...                                 *)
(* Faulty: the page is dropped without being written back.                 *)
WriteBackForgotten == UNCHANGED storeVars

(* Faulty: the node has its new id before its old page is written back.    *)
WriteBackToNewPage ==
  IF pages[Victim].dirty
  THEN KvWrite(Current.page, pages[Victim].data)
  ELSE UNCHANGED storeVars

WriteBack ==
  IF pages[Victim].dirty
  THEN KvWrite(pages[Victim].id, pages[Victim].data)
  ELSE UNCHANGED storeVars

(* ... and its id erased from the map, ...                                 *)
(* Faulty: the evicted page keeps its entry; every page loses its entry.   *)
NotErased == page_cache
AllErased == [p \in PageId |-> None]

Erased == [page_cache EXCEPT ![pages[Victim].id] = None]

AccessEvict ==
  /\ Miss
  /\ CacheFull
  /\ WriteBack
  /\ LET pg == Served(FilledPage(Current.page, Fetched(objects', Current.page)))
     IN  /\ pages' = [pages EXCEPT ![Victim] = pg]
         /\ page_cache' = [Erased EXCEPT ![Current.page] = Victim]
         /\ Advance(pg)
  /\ lru_order' = MoveToFront(lru_order, Len(lru_order))

(* ... the GET can throw when all that is done, ...                        *)
(* Faulty: the entry is made before the GET.                               *)
AccessEvictThrowsMapped ==
  /\ GetThrows
  /\ Miss
  /\ CacheFull
  /\ WriteBack
  /\ pages' = [pages EXCEPT ![Victim] = UnfilledPage(Current.page)]
  /\ page_cache' = [Erased EXCEPT ![Current.page] = Victim]
  /\ Throw
  /\ UNCHANGED lru_order

AccessEvictThrows ==
  /\ GetThrows
  /\ Miss
  /\ CacheFull
  /\ WriteBack
  /\ pages' = [pages EXCEPT ![Victim] = UnfilledPage(Current.page)]
  /\ page_cache' = Erased
  /\ Throw
  /\ UNCHANGED lru_order

(* ... or the PUT of the dirty page before any of it.                      *)
WriteBackThrows ==
  /\ PutMayFail
  /\ Miss
  /\ CacheFull
  /\ pages[Victim].dirty
  /\ KvWriteThrows(pages[Victim].id, pages[Victim].data)
  /\ Throw
  /\ UNCHANGED tableVars

(* page::write clears memory outside its buffer.  That may go unnoticed    *)
(* (the access then ends as above) or do anything at all.                  *)
AccessOverrun ==
  /\ Pending
  /\ call.op = "write"
  /\ page_cache[Current.page] # None
  /\ pages[page_cache[Current.page]].zero_on_use
  /\ Overruns(Current.offset, Current.length)
  /\ undefined' = TRUE
  /\ UNCHANGED <<storeVars, tableVars, eoa, call, ret, dropped>>

ReturnOk ==
  /\ ~undefined /\ InAccess
  /\ call.k > SegmentCount(call.addr, call.size)
  /\ call' = Idle
  /\ ret' = "ok"
  /\ UNCHANGED <<storeVars, tableVars, eoa, undefined, dropped>>

-----------------------------------------------------------------------------
(* Calls of hdf5.  It lets no access through that passes the end of        *)
(* allocation it set, nor one of no bytes.                                 *)

Begin(c) ==
  /\ call = Idle
  /\ call' = c
  /\ ret' = "none"
  /\ UNCHANGED <<storeVars, tableVars, eoa, undefined, dropped>>

BeginRead(addr, size) ==
  /\ addr + size <= eoa
  /\ Begin([op |-> "read", addr |-> addr, size |-> size, k |-> 1, buffer |-> Unfilled])

BeginWrite(addr, size, data) ==
  /\ addr + size <= eoa
  /\ Begin([op |-> "write", addr |-> addr, size |-> size, k |-> 1,
            buffer |-> [a \in Addr |-> IF a \in addr .. addr + size - 1
                                       THEN data[a] ELSE NoByte]])

SetEoa(addr) ==
  /\ call = Idle
  /\ eoa' = addr
  /\ ret' = "ok"
  /\ UNCHANGED <<storeVars, tableVars, call, undefined, dropped>>

(* table::truncate(m_eoa): pages after the one that holds the new end are  *)
(* invalidated where they are cached.                                      *)
Truncate ==
  /\ call = Idle
  /\ KvSetMaxPage(PageOf(eoa))
  /\ pages' = [n \in Node |-> IF pages[n].id > PageOf(eoa)
                              THEN Invalidated(pages[n]) ELSE pages[n]]
  /\ dropped' = dropped \cup {a \in Addr : PageOf(a) > PageOf(eoa)}
  /\ ret' = "ok"
  /\ UNCHANGED <<lru_order, page_cache, eoa, call, undefined>>

-----------------------------------------------------------------------------
(* table::flush walks the list once and PUTs the dirty pages it meets.     *)

BeginFlush == Begin([Idle EXCEPT !.op = "flush", !.k = 1])

Flushing == call.op = "flush"

(* Faulty: the loop stops before the last node.                            *)
WalkingButLast == Flushing /\ call.k < Len(lru_order)

Walking == Flushing /\ call.k <= Len(lru_order)

Walked == lru_order[call.k]

FlushSkip ==
  /\ Walking
  /\ ~pages[Walked].dirty
  /\ call' = [call EXCEPT !.k = @ + 1]
  /\ UNCHANGED <<storeVars, tableVars, eoa, ret, undefined, dropped>>

FlushPage ==
  /\ Walking
  /\ pages[Walked].dirty
  /\ KvWrite(pages[Walked].id, pages[Walked].data)
  /\ pages' = [pages EXCEPT ![Walked].dirty = FALSE]
  /\ call' = [call EXCEPT !.k = @ + 1]
  /\ UNCHANGED <<lru_order, page_cache, eoa, ret, undefined, dropped>>

(* Faulty: the page is marked clean before it is written.                  *)
FlushPageThrowsClean ==
  /\ PutMayFail
  /\ Walking
  /\ pages[Walked].dirty
  /\ KvWriteThrows(pages[Walked].id, pages[Walked].data)
  /\ pages' = [pages EXCEPT ![Walked].dirty = FALSE]
  /\ Throw
  /\ UNCHANGED <<lru_order, page_cache>>

FlushPageThrows ==
  /\ PutMayFail
  /\ Walking
  /\ pages[Walked].dirty
  /\ KvWriteThrows(pages[Walked].id, pages[Walked].data)
  /\ Throw
  /\ UNCHANGED tableVars

FlushMeta ==
  /\ Flushing
  /\ ~Walking
  /\ KvFlush
  /\ call' = Idle
  /\ ret' = "ok"
  /\ UNCHANGED <<tableVars, eoa, undefined, dropped>>

FlushMetaThrows ==
  /\ PutMayFail
  /\ Flushing
  /\ ~Walking
  /\ KvFlushThrows
  /\ Throw
  /\ UNCHANGED tableVars

-----------------------------------------------------------------------------
TableInit ==
  /\ lru_order = <<>>
  /\ pages = <<>>
  /\ page_cache = [p \in PageId |-> None]
  /\ eoa = 0
  /\ call = Idle
  /\ ret = "none"
  /\ undefined = FALSE

Init == StoreInit /\ TableInit /\ dropped = {}

Access ==
  \/ AccessHit
  \/ AccessAllocate
  \/ AccessAllocateThrows
  \/ AccessEvict
  \/ AccessEvictThrows
  \/ WriteBackThrows
  \/ AccessOverrun
  \/ ReturnOk

Flush ==
  \/ FlushSkip
  \/ FlushPage
  \/ FlushPageThrows
  \/ FlushMeta
  \/ FlushMetaThrows

Request ==
  \/ \E addr \in Addr, size \in 1 .. MaxAddr : BeginRead(addr, size)
  \/ \E addr \in Addr, size \in 1 .. MaxAddr :
       \E data \in [addr .. addr + size - 1 -> Byte] : BeginWrite(addr, size, data)
  \/ BeginFlush
  \/ \E addr \in 0 .. MaxAddr : SetEoa(addr)
  \/ Truncate

(* After undefined behaviour nothing is promised of the program; the model *)
(* goes no further.                                                        *)
Halted == undefined /\ UNCHANGED vars

Next == Request \/ Access \/ Flush \/ Halted

Spec == Init /\ [][Next]_vars

-----------------------------------------------------------------------------
(* Properties                                                              *)

(* Every variable has the type its declaration in the code gives it; the   *)
(* list holds existing nodes only, the map designates existing nodes only. *)
TypeOK ==
  /\ StoreTypeOK
  /\ pages \in Seq(Page)
  /\ lru_order \in Seq(Node)
  /\ page_cache \in [PageId -> Node \cup {None}]
  /\ eoa \in 0 .. MaxAddr
  /\ call \in Call
  /\ ret \in {"none", "ok", "error"}
  /\ undefined \in BOOLEAN
  /\ dropped \subseteq Addr

(* A call in progress lies below MaxAddr, is at one of its segments or     *)
(* past the last, and has every byte it is to write; a flush has a         *)
(* position in the list.                                                   *)
CallWellFormed ==
  /\ InAccess =>
       /\ InBounds(call.addr, call.size)
       /\ call.k \in 1 .. SegmentCount(call.addr, call.size) + 1
       /\ call.op = "write" => \A a \in CallAddrs(call) : call.buffer[a] \in Byte
  /\ Flushing => call.k # 0

(* read_page changes the id stored in a node and the entries of the map in *)
(* separate statements with a GET that may throw between them: an entry    *)
(* that exists still designates a node that carries its page id.           *)
MapPointsHome == \A p \in Mapped : pages[page_cache[p]].id = p

(* A buffer that no GET filled completely is never reached through the map *)
(* (so no call reads it) and never dirty (so no write-back stores it).     *)
NoUnfilledPageIsUsed ==
  /\ \A p \in Mapped : pages[page_cache[p]].filled
  /\ \A n \in Node : pages[n].dirty => pages[n].filled

(* Every node of the list can be found through the map.  Failed GETs break *)
(* this; without them it holds.                                            *)
EveryNodeMapped == Orphans = {}

(* kv_driver.h: page_cache_size is the number of pages to hold in memory.  *)
CacheBounded == Cardinality(Mapped) <= CacheSize

-----------------------------------------------------------------------------
(* What a read of address a would deliver, and what the bucket holds.      *)

ByteOf(data, a) == data[a - PageStart(PageOf(a))]

Stored(a) == ByteOf(Fetched(objects, PageOf(a)), a)

Visible(a) ==
  LET n == page_cache[PageOf(a)]
  IN  IF n = None THEN Stored(a)
      ELSE IF pages[n].zero_on_use THEN 0
      ELSE ByteOf(pages[n].data, a)

CachedDirty(p) == page_cache[p] # None /\ pages[page_cache[p]].dirty

Kept == Addr \ dropped

(* Write-back caching loses nothing: a byte whose value the bucket does    *)
(* not hold lies in a page that is cached and marked dirty, whatever       *)
(* evictions, failed PUTs, lost replies and truncations came before.       *)
OnlyDirtyPagesDiffer ==
  \A a \in Kept : Stored(a) # Visible(a) => CachedDirty(PageOf(a))

(* get_eof covers the data: once a page is clean its nonzero bytes lie     *)
(* below the end of file that allocated_pages yields.  Truncate lowers the *)
(* count, write-backs raise it in any order, a PUT whose reply is lost     *)
(* stores a page without counting it.                                      *)
EofCoversData ==
  \A a \in Kept : Visible(a) # 0 /\ ~CachedDirty(PageOf(a)) => a < Eof

(* A page recorded as invalid holds nothing a reader should see: if it has *)
(* been written again since it was truncated, it is dirty and its          *)
(* write-back will take it off the record.                                 *)
InvalidPagesHoldNothing ==
  \A a \in Kept : PageOf(a) \in invalid_pages /\ Visible(a) # 0 => CachedDirty(PageOf(a))

(* A page stops being dirty only when the bucket holds its data or in a    *)
(* truncate that cuts it off: no failed PUT, eviction or flush clears the  *)
(* mark of data that was not stored.                                       *)
CleanOnlyWhenStored ==
  [][\A n \in Node :
       pages[n].dirty /\ ~pages'[n].dirty =>
         \/ objects'[pages[n].id] = pages[n].data
         \/ Truncate /\ pages[n].id > PageOf(eoa)]_vars

(* A successful flush leaves every byte a reader can see in the bucket.    *)
FlushMakesDurable ==
  [][call.op = "flush" /\ ret' = "ok" /\ call' = Idle =>
       \A a \in Kept : Stored(a)' = Visible(a)]_vars

(* A page cut off by truncate and not written since reads as zeros.        *)
TruncatedPagesReadZero == \A a \in dropped : Visible(a) = 0

(* page::write stays inside the fixed-width buffer of the page.            *)
WritesStayInThePage == ~undefined

(* A flush that reports success leaves a .meta that the constructor of the *)
(* next session accepts.                                                   *)
MetaIsReadable == meta # NoObject => MatchesMetadataRegex(meta)
=============================================================================
