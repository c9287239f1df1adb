--------------------------- MODULE KvDriverProofs ---------------------------
(***************************************************************************)
(* Theorems about KvDriver: what holds across sessions, crashes and files  *)
(* found in the bucket, for every page size, cache size, address space and *)
(* set of byte values.                                                     *)
(***************************************************************************)
EXTENDS KvDriver, CoherenceProofs

-----------------------------------------------------------------------------
(* What sessions leave of the file.                                        *)

(* The invariants of the page table hold in every session, and between     *)
(* sessions of a table with nothing in it.                                 *)
TableInv == IInv /\ BoundInv /\ CohInv /\ WalkInv

(* The bytes that the bucket and the cache hold of a page, dirty or not,   *)
(* are survivors; zero is one where truncate has cut the address off.  (A  *)
(* reader sees a byte of the cache, or zero if the page is to be zeroed.)  *)
PageSurvives(q) ==
  \A a \in PageAddrs(q) :
    /\ {ByteOf(Object(q), a), ByteOf(Held(q), a)} \subseteq survivors[a]
    /\ a \in dropped => 0 \in survivors[a]

SurvInv == \A q \in PageId : PageSurvives(q)

(* Truncate alone cuts off addresses, and it is called between calls.      *)
LEMMA NextDropped ==
  ASSUME Next
  PROVE  dropped' \subseteq dropped \/ call = Idle
<1>1. CASE Request
  BY <1>1 DEF Request, BeginRead, BeginWrite, BeginFlush, Begin, SetEoa, Truncate
<1>2. CASE Access
  BY <1>2 DEF Access, AccessHit, AccessAllocate, AccessAllocateThrows, AccessEvict,
              AccessEvictThrows, WriteBackThrows, AccessOverrun, ReturnOk, Advance, Throw
<1>3. CASE Flush
  BY <1>3 DEF Flush, FlushSkip, FlushPage, FlushPageThrows, FlushMeta, FlushMetaThrows, Throw
<1>4. CASE Halted
  BY <1>4 DEF Halted, vars
<1> QED
  BY <1>1, <1>2, <1>3, <1>4 DEF Next

(* What Recorded does when no flush succeeds: no survivor is lost, a byte  *)
(* written is a new one, and zero where an address is cut off.             *)
LEMMA SurvivorsGrow ==
  ASSUME Next, Recorded, ~FlushSucceeds, NEW a \in Addr
  PROVE  /\ survivors[a] \subseteq survivors'[a]
         /\ SegmentWritten /\ a \in CurrentAddrs => call.buffer[a] \in survivors'[a]
         /\ a \in dropped' \ dropped => 0 \in survivors'[a]
<1>1. survivors'[a] = IF SegmentWritten /\ a \in CurrentAddrs
                      THEN survivors[a] \cup {call.buffer[a]}
                      ELSE IF a \in dropped' \ dropped THEN survivors[a] \cup {0}
                      ELSE survivors[a]
  BY DEF Recorded
<1>2. SegmentWritten => call # Idle
  BY DEF SegmentWritten, Idle
<1> QED
  BY <1>1, <1>2, NextDropped

(* Whatever a step does to a page, its bytes are survivors ...             *)
LEMMA FateSurvives ==
  ASSUME IInv, Next, Recorded, ~FlushSucceeds,
         NEW q \in PageId, PageSurvives(q), PageCoherent(q), Fate(q)
  PROVE  PageSurvives(q)'
<1> SUFFICES ASSUME NEW a \in PageAddrs(q)
             PROVE  /\ {ByteOf(Object(q)', a), ByteOf(Held(q)', a)} \subseteq survivors'[a]
                    /\ a \in dropped' => 0 \in survivors'[a]
  BY DEF PageSurvives, PageAddrs, ByteOf
<1>1. /\ survivors[a] \subseteq survivors'[a]
      /\ SegmentWritten /\ a \in CurrentAddrs => call.buffer[a] \in survivors'[a]
      /\ a \in dropped' \ dropped => 0 \in survivors'[a]
  BY SurvivorsGrow DEF PageAddrs
<1>2. /\ {ByteOf(Object(q), a), ByteOf(Held(q), a)} \subseteq survivors'[a]
      /\ a \in dropped => 0 \in survivors'[a]
  BY <1>1 DEF PageSurvives
<1>3. Zeroed(q) => 0 \in survivors'[a]
  BY <1>2 DEF PageCoherent, KeptIn
<1>4. a \in dropped' => 0 \in survivors'[a]
  BY <1>1, <1>2
<1>5. CASE Keeps(q) \/ CutsOff(q)
  BY <1>2, <1>4, <1>5 DEF Keeps, CutsOff
<1>6. CASE Puts(q) \/ MayPut(q) \/ Forgets(q)
  BY <1>2, <1>4, <1>6 DEF Puts, MayPut, Forgets
<1>7. CASE Serves(q) /\ call.op # "write"
  <2>1. Held(q)' = IF Zeroed(q) THEN ZeroPage ELSE Held(q)
    BY <1>7 DEF Serves
  <2>2. ByteOf(ZeroPage, a) = 0
    BY OffsetOfAddr DEF PageAddrs, ByteOf, ZeroPage
  <2> QED
    BY <2>1, <2>2, <1>2, <1>3, <1>4, <1>7 DEF Serves
<1>8. CASE Serves(q) /\ call.op = "write"
  <2>1. PICK pg \in Page : Advance(pg)
    BY <1>8 DEF Serves
  <2>2. SegmentWritten
    <3>1. Delivered(pg) = call.buffer
      BY <1>8 DEF Delivered
    <3>2. call' = [call EXCEPT !.k = call.k + 1, !.buffer = call.buffer]
      BY <2>1, <3>1 DEF Advance
    <3>3. call' = [call EXCEPT !.k = call.k + 1]
      BY <3>2 DEF IInv, CallInv, Call
    <3> QED
      BY <1>8, <3>3 DEF SegmentWritten
  <2>3. ByteOf(Held(q)', a) \in IF a \in CurrentAddrs THEN {call.buffer[a]}
                                ELSE {ByteOf(Held(q), a)} \cup (IF Zeroed(q) THEN {0} ELSE {})
    BY <1>8 DEF Serves
  <2>4. ByteOf(Held(q)', a) \in survivors'[a]
    BY <2>2, <2>3, <1>1, <1>2, <1>3
  <2> QED
    BY <2>4, <1>2, <1>4, <1>8 DEF Serves
<1> QED
  BY <1>5, <1>6, <1>7, <1>8 DEF Fate

(* ... and a flush that succeeds leaves one survivor of each byte that a   *)
(* reader is owed: the byte the reader sees, which the bucket now holds.   *)
LEMMA FlushSurvives ==
  ASSUME IInv, WalkInv, CohInv, Next, Recorded, FlushSucceeds, NEW q \in PageId, PageSurvives(q)
  PROVE  PageSurvives(q)'
<1>1. FlushMeta
  BY DEF FlushSucceeds, Flushing, Next, Request, BeginRead, BeginWrite, BeginFlush, Begin,
         SetEoa, Truncate, Idle, Access, AccessHit, AccessAllocate, AccessAllocateThrows,
         AccessEvict, AccessEvictThrows, WriteBackThrows, AccessOverrun, ReturnOk, Miss,
         Pending, InAccess, Flush, FlushSkip, FlushPage, FlushPageThrows, FlushMetaThrows, Throw,
         Halted, vars
<1>2. /\ \A n \in Node : ~pages[n].dirty
      /\ UNCHANGED <<objects, page_cache, pages, dropped>>
  BY <1>1, WalkedAllClean DEF FlushMeta, KvFlush, tableVars
<1>3. UNCHANGED <<Object(q), Held(q)>>
  BY <1>2 DEF Object, Held, Fetched
<1>4. PageCoherent(q) /\ ~CachedDirty(q)
  BY <1>2, NodeInMap DEF IInv, CohInv, CachedDirty
<1> SUFFICES ASSUME NEW a \in PageAddrs(q)
             PROVE  /\ {ByteOf(Object(q)', a), ByteOf(Held(q)', a)} \subseteq survivors'[a]
                    /\ a \in dropped' => 0 \in survivors'[a]
  BY DEF PageSurvives, PageAddrs, ByteOf
<1>5. a \in Addr /\ ~SegmentWritten
  BY DEF PageAddrs, FlushSucceeds, Flushing, SegmentWritten
<1>6. CASE a \in dropped
  BY <1>2, <1>3, <1>5, <1>6 DEF Recorded, PageSurvives
<1>7. CASE a \notin dropped
  <2>1. ~Zeroed(q) /\ ByteOf(Held(q), a) = ByteOf(Object(q), a)
    BY <1>4, <1>7 DEF PageCoherent, KeptIn
  <2>2. survivors'[a] = {ByteOf(Held(q), a)}
    BY <2>1, <1>5, <1>7, BytesOfPage DEF Recorded
  <2> QED
    BY <2>1, <2>2, <1>2, <1>3, <1>7
<1> QED
  BY <1>6, <1>7

(* So a session keeps the invariants, ...                                  *)
LEMMA ServeInv ==
  ASSUME ~GetMayFail, TableInv, SurvInv, Serve
  PROVE  TableInv' /\ SurvInv'
<1>1. ~GetThrows
  BY NoGetThrows
<1>2. TableInv'
  BY <1>1, NextIInv, NextBoundInv, NextCoherent, NextWalkInv DEF TableInv, Serve
<1>3. ASSUME NEW q \in PageId
      PROVE  PageSurvives(q)'
  <2>1. PageSurvives(q) /\ PageCoherent(q) /\ Fate(q)
    BY <1>1, NextFate DEF TableInv, CohInv, SurvInv, Serve
  <2> QED
    BY <2>1, FateSurvives, FlushSurvives DEF TableInv, Serve
<1> QED
  BY <1>2, <1>3 DEF SurvInv

(* ... its end does, which takes the cache away, ...                       *)
LEMMA EndSessionInv ==
  ASSUME TableInv, SurvInv, EndSession, ret' \in {"none", "ok", "error"}
  PROVE  TableInv' /\ SurvInv'
<1>1. EmptyTable' /\ UNCHANGED <<objects, meta, undefined, dropped, survivors>>
  BY DEF EndSession, EmptyTable, bucket
<1>2. TablesInv' /\ BoundInv'
  BY <1>1, EmptyTablesInv, EmptyBoundInv, PTL
<1>3. StoreTypeOK'
  <2>1. 0 \in PageCount
    BY PageOfBounds, MaxAddrAssumption DEF PageOf, PageCount
  <2> QED
    BY <2>1, <1>1 DEF TableInv, IInv, StoreTypeOK, EndSession
<1>4. CallInv'
  <2>1. NoCall'
    BY <1>1, MaxAddrAssumption DEF EndSession, TableInv, IInv, CallInv, NoCall, Idle
  <2> QED
    BY <2>1, IdleCallInv, PTL
<1>5. \A q \in PageId : page_cache'[q] = None
  BY DEF EndSession
<1>6. CohInv'
  BY <1>5 DEF CohInv, PageCoherent, CachedDirty, Zeroed, Held
<1>7. ASSUME NEW q \in PageId
      PROVE  PageSurvives(q)'
  <2>1. Held(q)' = Object(q) /\ Object(q)' = Object(q)
    BY <1>1, <1>5 DEF Held, Object, Fetched
  <2> QED
    BY <2>1, <1>1 DEF SurvInv, PageSurvives, PageAddrs
<1>8. WalkInv'
  <2>1. (call = Idle)'
    BY DEF EndSession
  <2> QED
    BY <2>1, IdleWalkInv, PTL
<1> QED
  BY <1>2, <1>3, <1>4, <1>6, <1>7, <1>8 DEF TableInv, IInv, SurvInv

(* ... and what changes neither the tables nor the pages in the bucket.    *)
LEMMA OtherInv ==
  ASSUME TableInv, SurvInv, StoreTypeOK', ret' \in {"none", "ok", "error"},
         UNCHANGED <<objects, tableVars, eoa, call, undefined, dropped, survivors>>
  PROVE  TableInv' /\ SurvInv'
<1>1. TablesInv' /\ BoundInv'
  BY UnchangedTables, UnchangedTablesBound DEF TableInv, IInv
<1>2. CallInv'
  BY DEF TableInv, IInv, CallInv, CallWellFormed, InAccess, Flushing
<1>3. \A q \in PageId : UNCHANGED <<Object(q), Held(q), Zeroed(q), CachedDirty(q), KeptIn(q)>>
  BY DEF Object, Held, Zeroed, CachedDirty, KeptIn, PageAddrs, Fetched, tableVars
<1>4. CohInv'
  BY <1>3 DEF TableInv, CohInv, PageCoherent
<1>5. SurvInv'
  BY <1>3 DEF SurvInv, PageSurvives, PageAddrs
<1>6. WalkInv'
  BY DEF TableInv, WalkInv, Flushing, tableVars
<1> QED
  BY <1>1, <1>2, <1>4, <1>5, <1>6 DEF TableInv, IInv

(* Opening a file knows its pages from .meta.                              *)
LEMMA OpenInv ==
  ASSUME TableInv, SurvInv, OpenFresh \/ OpenExisting
  PROVE  TableInv' /\ SurvInv'
<1>1. PICK count \in PageCount : StartSession(count)
  <2>1. 0 \in PageCount
    BY PageOfBounds, MaxAddrAssumption DEF PageOf, PageCount
  <2>2. meta # NoObject => meta.allocated_pages \in PageCount
    BY DEF TableInv, IInv, StoreTypeOK, MetaText
  <2> QED
    BY <2>1, <2>2 DEF OpenFresh, OpenExisting
<1>2. StoreTypeOK'
  BY <1>1 DEF StartSession, TableInv, IInv, StoreTypeOK, bucket
<1> QED
  BY <1>1, <1>2, OtherInv DEF StartSession, bucket

(* Every step keeps the invariants.                                        *)
LEMMA NextDriverInv ==
  ASSUME ~GetMayFail, TableInv, SurvInv, [DriverNext]_driverVars
  PROVE  TableInv' /\ SurvInv'
<1>1. CASE OpenFails \/ UNCHANGED driverVars
  <2>1. /\ UNCHANGED <<storeVars, tableVars, eoa, call, undefined, dropped, survivors>>
        /\ ret' \in {"none", "ok", "error"}
    BY <1>1 DEF OpenFails, driverVars, vars, TableInv, IInv, CallInv
  <2>2. StoreTypeOK'
    BY <2>1, UnchangedStore DEF TableInv, IInv
  <2> QED
    BY <2>1, <2>2, OtherInv DEF storeVars, bucket
<1>2. CASE Close \/ Crash
  BY <1>2, EndSessionInv DEF Close, Crash
<1> QED
  BY <1>1, <1>2, OpenInv, ServeInv DEF DriverNext, Open

(* They hold of any file found in the bucket.                              *)
LEMMA InitDriverInv == DriverInit => TableInv /\ SurvInv
<1> SUFFICES ASSUME DriverInit PROVE TableInv /\ SurvInv
  OBVIOUS
<1>1. EmptyTable /\ NoCall
  <2>1. undefined \in BOOLEAN
    BY Zenon DEF DriverInit, TableInit
  <2> QED
    BY <2>1, MaxAddrAssumption DEF DriverInit, TableInit, EmptyTable, NoCall
<1>2. TablesInv /\ BoundInv /\ CallInv
  BY <1>1, EmptyTablesInv, EmptyBoundInv, IdleCallInv
<1>3. StoreTypeOK
  <2>1. MaxAddr \div PageSize \in PageCount /\ 0 \in PageCount
    BY PageOfBounds, MaxAddrAssumption DEF PageOf, PageCount
  <2>2. meta \in MetaText \cup {NoObject}
    BY <2>1, PageSizeAssumption DEF DriverInit, FoundMeta, MetaText, Separator
  <2> QED
    BY <2>1, <2>2 DEF DriverInit, StoreTypeOK
<1>4. \A q \in PageId : page_cache[q] = None
  BY <1>1 DEF EmptyTable
<1>5. CohInv
  BY <1>4, EmptyCoherent
<1>6. ASSUME NEW q \in PageId, NEW a \in PageAddrs(q)
      PROVE  survivors[a] = {ByteOf(Object(q), a)} /\ Held(q) = Object(q) /\ dropped = {}
  BY <1>4, BytesOfPage DEF DriverInit, Held, PageAddrs
<1>7. WalkInv
  BY <1>1, IdleWalkInv DEF NoCall
<1> QED
  BY <1>2, <1>3, <1>5, <1>6, <1>7 DEF TableInv, IInv, SurvInv, PageSurvives

(* Crashes and reopening never bring back an older byte, lose a flushed    *)
(* one for anything but a later write, or show a byte at an address it was *)
(* not written to.  No GET of a page throws; opening a file can fail.      *)
THEOREM OnlySurvivors ==
  ASSUME ~GetMayFail
  PROVE  DriverSpec => []SurvivorsOnly
<1>1. TableInv /\ SurvInv => SurvivorsOnly
  <2> SUFFICES ASSUME TableInv, SurvInv, NEW a \in Addr
               PROVE  Stored(a) \in survivors[a] /\ Visible(a) \in survivors[a]
    BY DEF SurvivorsOnly
  <2>1. PICK q \in PageId : q = PageOf(a) /\ a \in PageAddrs(q)
    BY OffsetOfAddr DEF PageAddrs
  <2>2. Zeroed(q) => a \in dropped
    BY <2>1 DEF TableInv, CohInv, PageCoherent, KeptIn
  <2>3. PageSurvives(q)
    BY DEF SurvInv
  <2> QED
    BY <2>1, <2>2, <2>3, BytesOfPage DEF PageSurvives
<1>2. TableInv /\ SurvInv /\ [DriverNext]_driverVars => TableInv' /\ SurvInv'
  BY NextDriverInv
<1> QED
  BY <1>1, <1>2, InitDriverInv, PTL DEF DriverSpec
=============================================================================
