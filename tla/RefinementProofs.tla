-------------------------- MODULE RefinementProofs --------------------------
(***************************************************************************)
(* The page table implements the memory of AddressSpace and the cache of   *)
(* LruCache, as long as no GET of a page throws: every step of PageTable   *)
(* is, under the mapping of PageTableRefinement, a step of the abstract    *)
(* specification or changes nothing it speaks of.                          *)
(***************************************************************************)
EXTENDS PageTableRefinement, CoherenceProofs

-----------------------------------------------------------------------------
(* The memory.                                                             *)

(* A reader sees bytes.                                                    *)
VisibleBytes == \A a \in Addr : Visible(a) \in Byte

LEMMA BytesVisible == IInv => VisibleBytes
<1> SUFFICES ASSUME IInv, NEW a \in Addr PROVE Visible(a) \in Byte
  BY DEF VisibleBytes
<1>1. PICK q \in PageId : q = PageOf(a) /\ a \in PageAddrs(q)
  BY OffsetOfAddr DEF PageAddrs
<1>2. ByteOf(Held(q), a) \in Byte
  BY <1>1, HeldType, OffsetOfAddr DEF PageData, ByteOf
<1> QED
  BY <1>1, <1>2, BytesOfPage, ByteAssumption

(* A byte that a reader is owed is kept by every step that does not write  *)
(* it.                                                                     *)
LEMMA KeptByteStays ==
  ASSUME CohInv, NEW a \in Kept, a \in Addr \ dropped', Fate(PageOf(a)),
         ~(call.op = "write" /\ a \in CurrentAddrs /\ Serves(PageOf(a)))
  PROVE  Visible(a)' = Visible(a)
<1>1. PICK q \in PageId : q = PageOf(a) /\ a \in PageAddrs(q) /\ a \in KeptIn(q)
  BY OffsetOfAddr DEF KeptIn, PageAddrs, Kept
<1>2. PageCoherent(q) /\ Fate(q) /\ ~Zeroed(q)
  BY <1>1 DEF CohInv, PageCoherent
<1>3. KeptIn(q)' # {}
  BY <1>1 DEF KeptIn, PageAddrs
<1>4. ASSUME UNCHANGED <<Held(q), Zeroed(q)>>
      PROVE  Visible(a)' = Visible(a)
  BY <1>1, <1>4, BytesOfPage
<1>5. CASE Keeps(q) \/ MayPut(q)
  BY <1>4, <1>5 DEF Keeps, MayPut
<1>6. CASE Puts(q)
  BY <1>1, <1>2, <1>6, BytesOfPage DEF Puts
<1>7. CASE Forgets(q)
  BY <1>1, <1>2, <1>7, BytesOfPage DEF Forgets, PageCoherent
<1>8. CASE Serves(q)
  <2>1. ByteOf(Held(q)', a) = ByteOf(Held(q), a) /\ ~Zeroed(q)'
    BY <1>1, <1>2, <1>8 DEF Serves
  <2> QED
    BY <1>1, <1>2, <2>1, BytesOfPage
<1> QED
  BY <1>2, <1>3, <1>5, <1>6, <1>7, <1>8 DEF Fate

(* The segments a call has served, before and after one more of them.      *)
LEMMA CoveredGrows ==
  ASSUME Typed, Pending, NEW pg, Advance(pg)
  PROVE  Covered' = Covered \cup CurrentAddrs
<1>1. /\ call'.op = call.op /\ call'.addr = call.addr /\ call'.size = call.size
      /\ call'.k = call.k + 1 /\ call.k \in Nat \ {0}
  BY DEF Typed, TypeOK, Call, CallWellFormed, Pending, Advance
<1>2. Covered = UNION {SegmentAddrs(call.addr, call.size, j) : j \in 1 .. call.k - 1}
  BY DEF Covered, Pending
<1>3. Covered' = UNION {SegmentAddrs(call.addr, call.size, j) : j \in 1 .. call.k}
  BY <1>1 DEF Covered, Pending, InAccess
<1>4. 1 .. call.k = (1 .. call.k - 1) \cup {call.k}
  BY <1>1
<1> QED
  BY <1>2, <1>3, <1>4 DEF CurrentAddrs

(* The addresses of a segment are among those of its call.                 *)
LEMMA IntervalWithin ==
  ASSUME NEW addr \in Nat, NEW size \in Nat, NEW at \in Nat, NEW length \in Nat,
         at + length <= size
  PROVE  addr + at .. addr + at + length - 1 \subseteq addr .. addr + size - 1
<1> SUFFICES ASSUME NEW x \in Int, addr + at <= x, x <= addr + at + length - 1
             PROVE  addr <= x /\ x <= addr + size - 1
  OBVIOUS
<1> QED
  OBVIOUS

(* A call that has served all its segments has served all its addresses.   *)
LEMMA CoveredAtLast ==
  ASSUME Typed, InAccess, call.k > SegmentCount(call.addr, call.size)
  PROVE  Covered = CallAddrs(call)
<1>1. InBounds(call.addr, call.size) /\ SegmentCount(call.addr, call.size) \in Nat
      /\ call.k - 1 = SegmentCount(call.addr, call.size)
  BY SegmentCountBounds DEF Typed, CallWellFormed
<1>2. Covered = UNION {SegmentAddrs(call.addr, call.size, j) :
                         j \in 1 .. SegmentCount(call.addr, call.size)}
  BY <1>1 DEF Covered
<1>3. ASSUME NEW j \in 1 .. SegmentCount(call.addr, call.size)
      PROVE  SegmentAddrs(call.addr, call.size, j) \subseteq CallAddrs(call)
  <2>1. PICK s : s = Segment(call.addr, call.size, j)
    OBVIOUS
  <2>2. /\ s.at \in Nat /\ s.length \in Nat /\ s.at + s.length <= call.size
        /\ call.addr \in Nat /\ call.size \in Nat
    BY <1>1, <2>1, SegmentInBounds DEF InBounds
  <2>3. SegmentAddrs(call.addr, call.size, j) = call.addr + s.at .. call.addr + s.at + s.length - 1
    BY <2>1 DEF SegmentAddrs
  <2> QED
    BY <2>2, <2>3, IntervalWithin, Zenon DEF CallAddrs
<1>4. \A a \in CallAddrs(call) : a \in Covered
  BY <1>1, <1>2, SegmentsCoverTheCall DEF CallAddrs
<1> QED
  BY <1>2, <1>3, <1>4

(* An access that succeeds reads or writes the bytes of its segment.       *)
LEMMA AccessIsMemoryStep ==
  ASSUME IInv, IInv', BoundInv, CohInv, AccessHit \/ AccessAllocate \/ AccessEvict
  PROVE  Memory!Next
<1>1. Typed /\ Pending
  BY IInvTyped DEF AccessHit, AccessAllocate, AccessEvict, Miss
<1>2. PICK p \in PageId : p = Current.page
  BY <1>1, CurrentInBounds
<1>3. \A q \in PageId : IF q = Current.page THEN Serves(q)
                        ELSE Keeps(q) \/ Puts(q) \/ Forgets(q)
  BY AccessHitEffect, AccessAllocateEffect, AccessEvictEffect
<1>4. Serves(p) /\ \A q \in PageId : Fate(q)
  BY <1>1, <1>2, <1>3, AccessFate
<1>5. PICK pg \in Page : pg.data = Held(p)' /\ Advance(pg)
  BY <1>4 DEF Serves
<1>6. /\ dropped' = IF call.op = "write" THEN dropped \ CurrentAddrs ELSE dropped
      /\ UNCHANGED <<eoa, ret>>
      /\ call' = [call EXCEPT !.k = call.k + 1, !.buffer = Delivered(pg)]
      /\ call \in Call /\ call.op \in {"read", "write"}
  BY <1>1, <1>5 DEF Advance, Typed, TypeOK, Pending, InAccess
<1>7. Covered' = Covered \cup CurrentAddrs /\ CurrentAddrs \subseteq CallAddrs(call)
      /\ CurrentAddrs \subseteq Addr
  BY <1>1, <1>5, CoveredGrows, CurrentAddrsInCall
<1>8. [op |-> call'.op, addr |-> call'.addr, size |-> call'.size,
       covered |-> Covered', buffer |-> call'.buffer]
      = [op |-> call.op, addr |-> call.addr, size |-> call.size,
         covered |-> Covered \cup CurrentAddrs, buffer |-> Delivered(pg)]
  BY <1>6, <1>7 DEF Call
<1>9. VisibleBytes'
  BY BytesVisible, PTL
<1>10. ASSUME NEW a \in Addr \ dropped, call.op = "write" => a \notin CurrentAddrs
       PROVE  Visible(a)' = Visible(a)
  <2>1. a \in Kept /\ a \in Addr \ dropped' /\ Fate(PageOf(a))
    BY <1>4, <1>6, OffsetOfAddr DEF Kept
  <2> QED
    BY <1>10, <2>1, KeptByteStays
<1>11. ASSUME NEW a \in CurrentAddrs
       PROVE  /\ a \in PageAddrs(p)
              /\ Visible(a)' = ByteOf(Held(p)', a)
  <2>1. a \in PageAddrs(p)
    BY <1>1, <1>2, <1>7, CurrentAddrsInPage DEF PageAddrs
  <2> QED
    BY <2>1, <1>4, BytesOfPage DEF Serves
<1>12. CASE call.op = "read"
  <2>1. Delivered(pg) = [a \in Addr |-> IF a \in CurrentAddrs THEN Visible(a)'
                                        ELSE call.buffer[a]]
    <3>1. ASSUME NEW a \in CurrentAddrs
          PROVE  pg.data[Current.offset + a - (call.addr + Current.at)] = Visible(a)'
      BY <1>1, <1>2, <1>5, <1>11, CurrentOffset DEF ByteOf
    <3> QED
      BY <1>12, <3>1 DEF Delivered
  <2>2. Memory!KeepsAllBut({})
    BY <1>9, <1>10, <1>12 DEF Memory!KeepsAllBut, Memory!Addr, Addr, VisibleBytes
  <2>3. Delivered(pg) = [a \in Addr |-> IF a \in CurrentAddrs
                                         THEN ([b \in Addr |-> Visible(b)]')[a]
                                         ELSE call.buffer[a]]
    BY <1>7, <2>1
  <2>4. Memory!Read(CurrentAddrs)
    <3>1. UNCHANGED <<dropped, eoa, ret>>
      BY <1>6, <1>12
    <3>2. PICK c, cov, buf :
             /\ c = [op |-> call.op, addr |-> call.addr, size |-> call.size,
                     covered |-> Covered, buffer |-> call.buffer]
             /\ cov = Covered \cup CurrentAddrs
             /\ buf = Delivered(pg)
      OBVIOUS
    <3>3. PICK c1 : c1 = [c EXCEPT !.covered = cov]
      OBVIOUS
    <3>4. [c1 EXCEPT !.buffer = buf]
          = [op |-> call.op, addr |-> call.addr, size |-> call.size,
             covered |-> cov, buffer |-> buf]
      <4>1. c1 = [op |-> call.op, addr |-> call.addr, size |-> call.size,
                  covered |-> cov, buffer |-> call.buffer]
        BY ONLY <3>2, <3>3
      <4> QED
        BY ONLY <4>1
    <3>5. [c1 EXCEPT !.buffer = buf] = [c EXCEPT !.covered = cov, !.buffer = buf]
      BY ONLY <3>3
    <3>6. c.buffer = call.buffer /\ c.covered = Covered
      BY ONLY <3>2
    <3>7. buf = [a \in Addr |-> IF a \in CurrentAddrs
                                THEN ([b \in Addr |-> Visible(b)]')[a]
                                ELSE c.buffer[a]]
      BY <2>3, <3>2, <3>6
    <3>8. [op |-> call'.op, addr |-> call'.addr, size |-> call'.size,
           covered |-> Covered', buffer |-> call'.buffer]
          = [c EXCEPT !.covered = @ \cup CurrentAddrs,
               !.buffer = [a \in Addr |-> IF a \in CurrentAddrs
                                          THEN ([b \in Addr |-> Visible(b)]')[a]
                                          ELSE @[a]]]
      BY ONLY <1>8, <3>2, <3>4, <3>5, <3>6, <3>7
    <3> QED
      BY <1>12, <2>2, <3>1, <3>2, <3>8 DEF Memory!Read, Memory!Addr, Addr
  <2> QED
    BY <1>7, <2>4 DEF Memory!Next, Memory!CallAddrs, CallAddrs
<1>13. CASE call.op = "write"
  <2>1. Delivered(pg) = call.buffer
    BY <1>13 DEF Delivered
  <2>2. Memory!KeepsAllBut(CurrentAddrs)
    BY <1>9, <1>10, <1>13 DEF Memory!KeepsAllBut, Memory!Addr, Addr, VisibleBytes
  <2>3. \A a \in CurrentAddrs : Visible(a)' = call.buffer[a]
    BY <1>4, <1>11, <1>13 DEF Serves
  <2>4. Memory!Write(CurrentAddrs)
    <3>1. [op |-> call'.op, addr |-> call'.addr, size |-> call'.size,
           covered |-> Covered', buffer |-> call'.buffer]
          = [[op |-> call.op, addr |-> call.addr, size |-> call.size,
              covered |-> Covered, buffer |-> call.buffer]
               EXCEPT !.covered = @ \cup CurrentAddrs]
      BY ONLY <1>8, <2>1
    <3>2. \A a \in CurrentAddrs : ([b \in Addr |-> Visible(b)]')[a] = call.buffer[a]
      BY <1>7, <2>3
    <3>3. dropped' = dropped \ CurrentAddrs /\ UNCHANGED <<eoa, ret>>
      BY <1>6, <1>13
    <3> QED
      BY <1>13, <2>2, <3>1, <3>2, <3>3 DEF Memory!Write, Memory!Addr, Addr
  <2> QED
    BY <1>7, <2>4 DEF Memory!Next, Memory!CallAddrs, CallAddrs
<1> QED
  BY <1>6, <1>12, <1>13

(* What a reader sees where nothing changes.                               *)
LEMMA SeenUnchanged ==
  ASSUME UNCHANGED <<objects, tableVars>>
  PROVE  \A a \in Addr : Visible(a)' = Visible(a)
BY DEF Visible, Stored, Fetched, tableVars

(* A step that keeps the bytes a reader is owed keeps the memory.          *)
LEMMA MemoryKept ==
  ASSUME IInv', \A a \in Addr \ dropped : Visible(a)' = Visible(a)
  PROVE  Memory!KeepsAllBut({})
<1>1. VisibleBytes'
  BY BytesVisible, PTL
<1> QED
  BY <1>1 DEF Memory!KeepsAllBut, Memory!Addr, Addr, VisibleBytes

(* hdf5 makes a call, or sets the end of allocation.                       *)
LEMMA BeginIsMemoryStep ==
  ASSUME IInv, IInv', Request, ~Truncate
  PROVE  Memory!Next
<1>1. call = Idle /\ UNCHANGED <<objects, tableVars, dropped>>
  BY DEF Request, BeginRead, BeginWrite, BeginFlush, Begin, SetEoa, storeVars, bucket
<1>2. Memory!KeepsAllBut({})
  BY <1>1, SeenUnchanged, MemoryKept
<1>3. [op |-> call.op, addr |-> call.addr, size |-> call.size,
       covered |-> Covered, buffer |-> call.buffer] = Memory!Idle
  BY <1>1 DEF Idle, Covered, InAccess, Unfilled, Addr,
              Memory!Idle, Memory!Unfilled, Memory!Addr
<1>4. CASE \E addr \in 0 .. MaxAddr : SetEoa(addr)
  <2>1. /\ eoa' \in 0 .. MaxAddr /\ ret' = "ok"
        /\ UNCHANGED <<dropped, call, Covered>>
    BY <1>4 DEF SetEoa, Covered, InAccess
  <2> QED
    BY <1>2, <1>3, <2>1 DEF Memory!Next, Memory!SetEoa
<1>5. CASE ~\E addr \in 0 .. MaxAddr : SetEoa(addr)
  <2>0. BeginFlush => call'.op = "flush"
    BY DEF BeginFlush, Begin, Idle
  <2>1. /\ call'.op \in {"read", "write", "flush"}
        /\ call'.op # "flush" => call'.addr + call'.size <= eoa /\ call'.k = 1
        /\ ret' = "none" /\ UNCHANGED <<dropped, eoa>>
    BY <1>5, <2>0 DEF Request, BeginRead, BeginWrite, BeginFlush, Begin
  <2>2. Covered' = {}
    BY <2>1 DEF Covered, InAccess
  <2> QED
    BY <1>2, <1>3, <2>1, <2>2 DEF Memory!Next, Memory!Begin
<1> QED
  BY <1>4, <1>5

(* A call ends.                                                            *)
LEMMA EndIsMemoryStep ==
  ASSUME IInv, IInv', call.op # "idle", call' = Idle, UNCHANGED <<dropped, eoa>>,
         \A a \in Addr \ dropped : Visible(a)' = Visible(a),
         \/ ret' = "error"
         \/ ret' = "ok" /\ (call.op # "flush" => Covered = CallAddrs(call))
  PROVE  Memory!Next
<1>1. Memory!KeepsAllBut({})
  BY MemoryKept
<1>2. [op |-> call'.op, addr |-> call'.addr, size |-> call'.size,
       covered |-> Covered', buffer |-> call'.buffer] = Memory!Idle
  BY DEF Idle, Covered, InAccess, Unfilled, Addr,
         Memory!Idle, Memory!Unfilled, Memory!Addr
<1> QED
  BY <1>1, <1>2 DEF Memory!Next, Memory!Fail, Memory!Return, Memory!Idle,
                          Memory!CallAddrs, CallAddrs

(* A flush that goes to the next node of the list is the same call.        *)
LEMMA FlushGoesOn ==
  ASSUME IInv, FlushSkip \/ FlushPage
  PROVE  /\ call.op = "flush" /\ call'.op = "flush"
         /\ call'.addr = call.addr /\ call'.size = call.size /\ call'.buffer = call.buffer
         /\ Covered = {} /\ Covered' = {}
         /\ UNCHANGED <<dropped, eoa, ret>>
<1>1. call \in Call /\ call.op = "flush" /\ call' = [call EXCEPT !.k = @ + 1]
  BY DEF IInv, CallInv, FlushSkip, FlushPage, Walking, Flushing
<1>2. /\ call'.op = "flush"
      /\ call'.addr = call.addr /\ call'.size = call.size /\ call'.buffer = call.buffer
  BY <1>1 DEF Call
<1>3. UNCHANGED <<dropped, eoa, ret>>
  BY DEF FlushSkip, FlushPage
<1> QED
  BY <1>1, <1>2, <1>3 DEF Covered, InAccess

(* Nothing of it is to be seen.                                            *)
LEMMA WalkIsInvisible ==
  ASSUME IInv, BoundInv, CohInv, FlushSkip \/ FlushPage
  PROVE  UNCHANGED Memory!vars
<1>1. ASSUME NEW a \in Addr, FlushPage
      PROVE  Visible(a)' = Visible(a)
  <2>1. PICK q \in PageId : q = PageOf(a) /\ a \in PageAddrs(q)
    BY OffsetOfAddr DEF PageAddrs
  <2>2. UNCHANGED <<Held(q), Zeroed(q)>>
    BY <1>1, FlushPageEffect DEF Keeps, Puts, CohInv, PageCoherent, Zeroed
  <2> QED
    BY <2>1, <2>2, BytesOfPage
<1>2. ASSUME NEW a \in Addr, FlushSkip
      PROVE  Visible(a)' = Visible(a)
  BY <1>2, SeenUnchanged DEF FlushSkip, storeVars, bucket
<1>3. [a \in Addr |-> Visible(a)]' = [a \in Addr |-> Visible(a)]
  BY <1>1, <1>2
<1>4. [op |-> call'.op, addr |-> call'.addr, size |-> call'.size,
       covered |-> Covered', buffer |-> call'.buffer]
      = [op |-> call.op, addr |-> call.addr, size |-> call.size,
         covered |-> Covered, buffer |-> call.buffer]
  BY FlushGoesOn
<1> QED
  BY <1>3, <1>4, FlushGoesOn DEF Memory!vars

(* A PUT that throws ends the call, and shows nothing else of it.          *)
LEMMA ThrowIsMemoryStep ==
  ASSUME IInv, IInv', BoundInv, CohInv, ~GetThrows, WriteBackThrows \/ FlushPageThrows
  PROVE  Memory!Next
<1>1. call.op # "idle" /\ Throw
  BY DEF WriteBackThrows, Miss, Pending, InAccess, FlushPageThrows, Walking, Flushing
<1>2. call' = Idle /\ ret' = "error" /\ UNCHANGED <<dropped, eoa>>
  BY <1>1 DEF Throw
<1>3. \A q \in PageId : Keeps(q) \/ MayPut(q)
  BY WriteBackThrowsEffect, FlushPageThrowsEffect
<1>4. ASSUME NEW a \in Addr \ dropped
      PROVE  Visible(a)' = Visible(a)
  <2>1. PICK q \in PageId : q = PageOf(a) /\ a \in PageAddrs(q)
    BY OffsetOfAddr DEF PageAddrs
  <2> QED
    BY <1>3, <2>1, BytesOfPage DEF Keeps, MayPut
<1> QED
  BY <1>1, <1>2, <1>4, EndIsMemoryStep

(* Truncate gives up bytes past the end of allocation only.                *)
LEMMA TruncateIsMemoryStep ==
  ASSUME IInv, IInv', Truncate
  PROVE  Memory!Next
<1>1. /\ dropped' = dropped \cup {a \in Addr : PageOf(a) > PageOf(eoa)}
      /\ call = Idle /\ ret' = "ok" /\ UNCHANGED <<eoa, call, Covered>>
  BY DEF Truncate, Covered, InAccess
<1>2. ASSUME NEW a \in Addr, PageOf(a) > PageOf(eoa)
      PROVE  a >= eoa
  <2>1. a \in Nat /\ eoa \in Nat
    BY MaxAddrAssumption DEF Addr, IInv, CallInv
  <2> QED
    BY <1>2, <2>1, PageOfBounds, PageOfMonotone
<1>3. ASSUME NEW a \in Addr \ dropped'
      PROVE  Visible(a)' = Visible(a)
  <2>1. PICK q \in PageId : q = PageOf(a) /\ a \in PageAddrs(q)
    BY OffsetOfAddr DEF PageAddrs
  <2>2. Keeps(q)
    BY <1>1, <1>3, <2>1, TruncateEffect
  <2> QED
    BY <2>1, <2>2, BytesOfPage DEF Keeps
<1>4. [op |-> call.op, addr |-> call.addr, size |-> call.size,
       covered |-> Covered, buffer |-> call.buffer] = Memory!Idle
  BY <1>1 DEF Idle, Covered, InAccess, Unfilled, Addr,
              Memory!Idle, Memory!Unfilled, Memory!Addr
<1>5. Memory!Truncate
  BY <1>1, <1>2, <1>3, <1>4 DEF Memory!Truncate, Memory!Addr, Addr
<1> QED
  BY <1>5 DEF Memory!Next

(* Every step of the page table is a step of the memory, or shows nothing. *)
LEMMA NextIsMemoryStep ==
  ASSUME IInv, IInv', BoundInv, CohInv, ~GetThrows, [Next]_vars
  PROVE  [Memory!Next]_(Memory!vars)
<1>1. ASSUME UNCHANGED <<objects, tableVars, eoa, call, ret, dropped>>
      PROVE  UNCHANGED Memory!vars
  <2>1. [a \in Addr |-> Visible(a)]' = [a \in Addr |-> Visible(a)]
    BY <1>1, SeenUnchanged
  <2>2. UNCHANGED Covered
    BY <1>1 DEF Covered, InAccess
  <2> QED
    BY <1>1, <2>1, <2>2 DEF Memory!vars
<1>2. CASE Request
  BY <1>2, BeginIsMemoryStep, TruncateIsMemoryStep
<1>3. CASE Access
  <2>1. ~AccessAllocateThrows /\ ~AccessEvictThrows
    BY DEF AccessAllocateThrows, AccessEvictThrows
  <2>2. CASE AccessOverrun
    BY <1>1, <2>2 DEF AccessOverrun, storeVars, bucket
  <2>3. CASE ReturnOk
    <3>1. /\ InAccess /\ call.op # "flush" /\ call.op # "idle"
          /\ call.k > SegmentCount(call.addr, call.size)
          /\ call' = Idle /\ ret' = "ok" /\ UNCHANGED <<objects, tableVars, dropped, eoa>>
      BY <2>3 DEF ReturnOk, InAccess, storeVars, bucket
    <3>2. Covered = CallAddrs(call)
      BY <3>1, IInvTyped, CoveredAtLast
    <3> QED
      BY <3>1, <3>2, SeenUnchanged, EndIsMemoryStep
  <2> QED
    BY <1>3, <2>1, <2>2, <2>3, AccessIsMemoryStep, ThrowIsMemoryStep DEF Access
<1>4. CASE Flush
  <2>1. CASE FlushMeta \/ FlushMetaThrows
    <3>1. /\ call.op = "flush" /\ call' = Idle /\ ret' \in {"ok", "error"}
          /\ UNCHANGED <<objects, tableVars, dropped, eoa>>
      BY <2>1 DEF FlushMeta, FlushMetaThrows, Flushing, KvFlush, KvFlushThrows, Throw
    <3> QED
      BY <3>1, SeenUnchanged, EndIsMemoryStep
  <2> QED
    BY <1>4, <2>1, WalkIsInvisible, ThrowIsMemoryStep DEF Flush
<1>5. CASE Halted \/ UNCHANGED vars
  BY <1>1, <1>5 DEF Halted, vars, storeVars, bucket
<1> QED
  BY <1>2, <1>3, <1>4, <1>5 DEF Next

(* The memory of an empty table over an empty bucket is all zero.          *)
LEMMA InitIsMemoryInit == Init => Memory!Init
<1> SUFFICES ASSUME Init PROVE Memory!Init
  OBVIOUS
<1>1. /\ call = Idle /\ ret = "none" /\ eoa = 0 /\ dropped = {}
      /\ \A q \in PageId : page_cache[q] = None /\ objects[q] = NoObject
  BY DEF Init, TableInit, StoreInit
<1>2. ASSUME NEW a \in Addr
      PROVE  Visible(a) = 0
  BY <1>1, OffsetOfAddr DEF Visible, Stored, Fetched, ZeroPage, ByteOf
<1>3. [op |-> call.op, addr |-> call.addr, size |-> call.size,
       covered |-> Covered, buffer |-> call.buffer] = Memory!Idle
  BY <1>1 DEF Idle, Covered, InAccess, Unfilled, Addr,
              Memory!Idle, Memory!Unfilled, Memory!Addr
<1> QED
  BY <1>1, <1>2, <1>3 DEF Memory!Init, Memory!Addr, Addr

(* page.h: page::table presents the abstraction of a contiguous memory:    *)
(* through every interleaving of hits, fills, evictions, failed PUTs,      *)
(* flushes and truncations a read delivers the bytes last written, and a   *)
(* call that returns zero has moved every byte of its range.               *)
THEOREM TableIsAMemory ==
  ASSUME ~GetMayFail
  PROVE  Spec => ImplementsAddressSpace
<1>1. ~GetThrows
  BY NoGetThrows
<1>2. IInv /\ IInv' /\ BoundInv /\ CohInv /\ [Next]_vars => [Memory!Next]_(Memory!vars)
  BY <1>1, NextIsMemoryStep
<1> QED
  BY <1>2, InitIsMemoryInit, Coherent, PTL DEF Spec, ImplementsAddressSpace, Memory!Spec

-----------------------------------------------------------------------------
(* The cache.                                                              *)

(* The page ids along the list, and the page accessed last.                *)
Order == [i \in 1 .. Len(lru_order) |-> pages[lru_order[i]].id]
Used == IF InAccess /\ call.k > 1
        THEN Segment(call.addr, call.size, call.k - 1).page ELSE -1

(* Element e before a sequence, and before a sequence without its i-th.    *)
Joined(e, s) == <<e>> \o s
FrontOf(e, s, i) == <<e>> \o SubSeq(s, 1, i - 1) \o SubSeq(s, i + 1, Len(s))

(* The elements of the one ...                                             *)
LEMMA JoinedType ==
  ASSUME NEW S, NEW e \in S, NEW s \in Seq(S)
  PROVE  /\ Joined(e, s) \in Seq(S) /\ Len(Joined(e, s)) = Len(s) + 1
         /\ \A j \in 1 .. Len(s) + 1 : Joined(e, s)[j] = IF j = 1 THEN e ELSE s[j - 1]
<1>1. PICK h, t : h = <<e>> /\ t = h \o s
  OBVIOUS
<1>2. h \in Seq(S) /\ Len(h) = 1 /\ h[1] = e /\ Len(s) \in Nat
  BY <1>1, LenProperties
<1>3. /\ t \in Seq(S) /\ Len(t) = Len(h) + Len(s)
      /\ \A j \in 1 .. Len(h) + Len(s) : t[j] = IF j <= Len(h) THEN h[j] ELSE s[j - Len(h)]
  BY ONLY <1>1, <1>2, s \in Seq(S), ConcatProperties, Zenon
<1>4. t = Joined(e, s)
  BY <1>1 DEF Joined
<1> QED
  BY <1>2, <1>3, <1>4

(* ... and of the other.                                                   *)
LEMMA FrontOfType ==
  ASSUME NEW e \in PageId, NEW s \in Seq(PageId), NEW i \in 1 .. Len(s)
  PROVE  /\ FrontOf(e, s, i) \in Seq(PageId) /\ Len(FrontOf(e, s, i)) = Len(s)
         /\ \A j \in 1 .. Len(s) :
              FrontOf(e, s, i)[j] = IF j = 1 THEN e ELSE IF j <= i THEN s[j - 1] ELSE s[j]
<1> DEFINE n == Len(s)
           h == <<e>>
           b == SubSeq(s, 1, i - 1)
           c == SubSeq(s, i + 1, n)
<1>1. /\ n = Len(s) /\ n \in Nat /\ i \in 1 .. n /\ h = <<e>>
      /\ b = SubSeq(s, 1, i - 1) /\ c = SubSeq(s, i + 1, n)
  BY LenProperties
<1> HIDE DEF n, h, b, c
<1>2. \A j \in 1 .. n : s[j] \in PageId
  BY <1>1, ElementOfSeq
<1>3. /\ h \in Seq(PageId) /\ Len(h) = 1 /\ h[1] = e
  BY <1>1, <1>2
<1>4. /\ b \in Seq(PageId) /\ Len(b) = i - 1 /\ \A j \in 1 .. i - 1 : b[j] = s[j]
  <2>1. /\ \A j \in 1 .. i - 1 : s[j] \in PageId
        /\ i - 1 \in Int /\ (1 <= i - 1 \/ i - 1 = 0) /\ i - 1 - 1 + 1 = i - 1
        /\ \A j \in 1 .. i - 1 : 1 + j - 1 = j
    BY <1>1, <1>2
  <2> QED
    BY <1>1, <2>1, SubSeqProperties, Z3
<1>5. /\ c \in Seq(PageId) /\ Len(c) = n - i /\ \A j \in 1 .. n - i : c[j] = s[i + j]
  <2>1. /\ \A j \in i + 1 .. n : s[j] \in PageId
        /\ i + 1 \in Int /\ (i + 1 <= n \/ i = n) /\ n - (i + 1) + 1 = n - i
        /\ \A j \in 1 .. n - i : i + 1 + j - 1 = i + j
    BY <1>1, <1>2
  <2> QED
    BY <1>1, <2>1, SubSeqProperties, Z3
<1>6. PICK hb : hb = h \o b
  OBVIOUS
<1>7. PICK t : t = hb \o c
  OBVIOUS
<1>8. /\ hb \in Seq(PageId) /\ Len(hb) = i
       /\ \A j \in 1 .. i : hb[j] = IF j <= 1 THEN h[j] ELSE b[j - 1]
  <2>1. /\ hb \in Seq(PageId) /\ Len(hb) = Len(h) + Len(b)
        /\ \A j \in 1 .. Len(h) + Len(b) : hb[j] = IF j <= Len(h) THEN h[j] ELSE b[j - Len(h)]
    BY ONLY <1>3, <1>4, <1>6, ConcatProperties, Zenon
  <2>2. Len(h) + Len(b) = i
    BY <1>1, <1>3, <1>4
  <2> QED
    BY <2>1, <2>2, <1>3
<1>9. /\ t \in Seq(PageId) /\ Len(t) = n
       /\ \A j \in 1 .. n : t[j] = IF j <= i THEN hb[j] ELSE c[j - i]
  <2>1. /\ t \in Seq(PageId) /\ Len(t) = Len(hb) + Len(c)
        /\ \A j \in 1 .. Len(hb) + Len(c) : t[j] = IF j <= Len(hb) THEN hb[j] ELSE c[j - Len(hb)]
    BY ONLY <1>5, <1>7, <1>8, ConcatProperties, Zenon
  <2>2. Len(hb) + Len(c) = n
    BY <1>1, <1>5, <1>8
  <2> QED
    BY <2>1, <2>2, <1>8
<1>10. ASSUME NEW j \in 1 .. n
       PROVE  t[j] = IF j = 1 THEN e ELSE IF j <= i THEN s[j - 1] ELSE s[j]
  <2>1. CASE j = 1
    <3>1. j \in 1 .. i /\ j <= i /\ j <= 1
      BY <2>1, <1>1
    <3>2. t[j] = hb[j] /\ hb[j] = h[j]
      BY <3>1, <1>8, <1>9
    <3> QED
      BY <2>1, <3>2, <1>3
  <2>2. CASE j # 1 /\ j <= i
    <3>1. j \in 1 .. i /\ ~(j <= 1) /\ j - 1 \in 1 .. i - 1
      BY <2>2, <1>1
    <3> QED
      BY <2>2, <3>1, <1>4, <1>8, <1>9
  <2>3. CASE ~(j <= i)
    <3>1. j # 1 /\ j - i \in 1 .. n - i /\ i + (j - i) = j
      BY <2>3, <1>1
    <3> QED
      BY <2>3, <3>1, <1>5, <1>9
  <2> QED
    BY <2>1, <2>2, <2>3
<1>11. t = FrontOf(e, s, i)
  BY <1>1, <1>6, <1>7 DEF FrontOf
<1> QED
  BY <1>1, <1>9, <1>10, <1>11

(* The list of ids, when every node is mapped.                             *)
LEMMA OrderType ==
  ASSUME IInv
  PROVE  /\ Order \in Seq(PageId) /\ Len(Order) = Len(lru_order)
         /\ \A i \in 1 .. Len(lru_order) :
              /\ lru_order[i] \in Node /\ pages[lru_order[i]] \in Page
              /\ Order[i] = pages[lru_order[i]].id
<1>1. PICK n : n = Len(lru_order) /\ n = Len(pages) /\ n \in Nat
  BY LenPages DEF IInv, TablesInv, Permutation
<1>2. \A i \in 1 .. n : lru_order[i] \in Node /\ pages[lru_order[i]] \in Page
  BY <1>1, ElementOfSeq DEF IInv, TablesInv, Permutation, Node
<1>3. Order \in [1 .. n -> PageId]
  BY <1>1, <1>2 DEF Order, Page
<1>4. Order \in Seq(PageId)
  BY <1>1, <1>3, SeqDef
<1>5. Len(Order) = n
  BY <1>1, <1>3, <1>4, LenProperties
<1> QED
  BY <1>1, <1>2, <1>4, <1>5 DEF Order

(* A page is in the list of ids when it is mapped, and not otherwise.      *)
LEMMA CachedMeansMapped ==
  ASSUME IInv, BoundInv, NEW p \in PageId
  PROVE  page_cache[p] # None <=> \E i \in 1 .. Len(lru_order) : Order[i] = p
<1>1. ASSUME page_cache[p] # None
      PROVE  \E i \in 1 .. Len(lru_order) : Order[i] = p
  <2>1. page_cache[p] \in Node /\ pages[page_cache[p]].id = p
    BY <1>1, NodeInMap DEF IInv
  <2>2. PICK i \in 1 .. Len(lru_order) : lru_order[i] = page_cache[p]
    BY <2>1 DEF IInv, TablesInv, Permutation, Node
  <2> QED
    BY <2>1, <2>2, OrderType
<1>2. ASSUME NEW i \in 1 .. Len(lru_order), Order[i] = p
      PROVE  page_cache[p] # None
  <2>1. lru_order[i] \in Node /\ pages[lru_order[i]].id = p
    BY <1>2, OrderType
  <2> QED
    BY <2>1, LenPages DEF IInv, BoundInv
<1> QED
  BY <1>1, <1>2

(* There are as many nodes as mapped pages.                                *)
LEMMA NodesAreMapped ==
  ASSUME IInv, BoundInv
  PROVE  Len(pages) \in Nat /\ Len(lru_order) = Len(pages)
         /\ Cardinality(Mapped) = Len(pages)
<1>1. Len(pages) \in Nat /\ Len(lru_order) = Len(pages)
  BY LenPages DEF IInv, TablesInv, Permutation
<1>2. \A n \in Node : pages[n] \in Page /\ n # None
  BY LenPages, ElementOfSeq DEF IInv, TablesInv, Node
<1> DEFINE f == [n \in 1 .. Len(pages) |-> pages[n].id]
<1>3. f \in [1 .. Len(pages) -> Mapped]
  BY <1>2 DEF Node, Mapped, Page, BoundInv
<1>4. \A m, n \in 1 .. Len(pages) : f[m] = f[n] => m = n
  BY DEF BoundInv, Node
<1>5. \A p \in Mapped : \E n \in 1 .. Len(pages) : f[n] = p
  BY NodeInMap DEF IInv, Mapped, Node
<1>6. f \in Bijection(1 .. Len(pages), Mapped)
  BY <1>3, <1>4, <1>5 DEF Bijection, Injection, Surjection, IsInjective
<1>7. ExistsBijection(1 .. Len(pages), Mapped)
  BY <1>6 DEF ExistsBijection
<1> QED
  BY <1>1, <1>7, FS_CountingElements

(* A node comes to the front and holds page p from now on.                 *)
LEMMA FrontNode ==
  ASSUME IInv, NEW i \in 1 .. Len(lru_order), NEW p \in PageId,
         lru_order' = MoveToFront(lru_order, i),
         pages'[lru_order[i]].id = p,
         \A n \in Node : n # lru_order[i] => pages'[n].id = pages[n].id
  PROVE  Order' = FrontOf(p, Order, i)
<1>1. PICK n \in Nat : n = Len(lru_order) /\ n = Len(pages) /\ Len(Order) = n
  BY LenPages, OrderType DEF IInv, TablesInv, Permutation
<1>2. lru_order \in Seq(Node)
  BY DEF IInv, TablesInv, Permutation, Node
<1>3. /\ Len(lru_order') = n
      /\ \A j \in 1 .. n : lru_order'[j] = IF j = 1 THEN lru_order[i]
                                          ELSE IF j <= i THEN lru_order[j - 1] ELSE lru_order[j]
  <2>1. PICK m : m = MoveToFront(lru_order, i)
    OBVIOUS
  <2>2. /\ Len(m) = Len(lru_order)
        /\ \A j \in 1 .. Len(lru_order) :
              m[j] = IF j = 1 THEN lru_order[i]
                     ELSE IF j <= i THEN lru_order[j - 1] ELSE lru_order[j]
    BY <1>2, <2>1, MoveToFrontType, Zenon
  <2> QED
    BY <1>1, <2>1, <2>2
<1>4. ASSUME NEW j \in 1 .. n, j # i
      PROVE  pages'[lru_order[j]].id = Order[j]
  <2>1. lru_order[j] \in Node /\ lru_order[j] # lru_order[i]
    BY <1>1, <1>4, OrderType DEF IInv, TablesInv, Permutation
  <2> QED
    BY <1>1, <2>1, OrderType
<1>5. ASSUME NEW j \in 1 .. n
      PROVE  pages'[lru_order'[j]].id
             = IF j = 1 THEN p ELSE IF j <= i THEN Order[j - 1] ELSE Order[j]
  <2>1. CASE j = 1
    BY <2>1, <1>3
  <2>2. CASE j # 1 /\ j <= i
    <3>1. j - 1 \in 1 .. n /\ j - 1 # i
      BY <1>1, <2>2
    <3> QED
      BY <2>2, <3>1, <1>3, <1>4
  <2>3. CASE ~(j <= i)
    <3>1. j # 1 /\ j # i
      BY <1>1, <2>3
    <3> QED
      BY <2>3, <3>1, <1>3, <1>4
  <2> QED
    BY <2>1, <2>2, <2>3
<1>6. PICK m \in Seq(PageId) :
        /\ m = Order' /\ Len(m) = n
        /\ \A j \in 1 .. n : m[j] = IF j = 1 THEN p ELSE IF j <= i THEN Order[j - 1] ELSE Order[j]
  <2>1. Order' = [j \in 1 .. n |-> IF j = 1 THEN p ELSE IF j <= i THEN Order[j - 1] ELSE Order[j]]
    BY <1>3, <1>5 DEF Order
  <2>2. ASSUME NEW j \in 1 .. n
        PROVE  (IF j = 1 THEN p ELSE IF j <= i THEN Order[j - 1] ELSE Order[j]) \in PageId
    BY <1>1, OrderType, ElementOfSeq
  <2>3. Order' \in [1 .. n -> PageId]
    BY <2>1, <2>2
  <2>4. Order' \in Seq(PageId)
    BY <1>1, <2>3, SeqDef
  <2>5. Len(Order') = n
    BY <1>1, <2>3, <2>4, LenProperties
  <2> QED
    BY <2>1, <2>4, <2>5
<1>7. PICK o \in Seq(PageId) : o = Order /\ Len(o) = n /\ i \in 1 .. Len(o)
  BY <1>1, OrderType
<1>8. m = FrontOf(p, o, i)
  <2>1. /\ FrontOf(p, o, i) \in Seq(PageId) /\ Len(FrontOf(p, o, i)) = n
        /\ \A j \in 1 .. n :
             FrontOf(p, o, i)[j] = IF j = 1 THEN p ELSE IF j <= i THEN o[j - 1] ELSE o[j]
    <3>1. /\ FrontOf(p, o, i) \in Seq(PageId) /\ Len(FrontOf(p, o, i)) = Len(o)
          /\ \A j \in 1 .. Len(o) :
               FrontOf(p, o, i)[j] = IF j = 1 THEN p ELSE IF j <= i THEN o[j - 1] ELSE o[j]
      BY ONLY <1>7, p \in PageId, FrontOfType
    <3> QED
      BY <1>7, <3>1
  <2>2. \A j \in 1 .. n : m[j] = FrontOf(p, o, i)[j]
    BY <1>6, <1>7, <2>1
  <2> QED
    BY <1>6, <2>1, <2>2, SeqEqual
<1> QED
  BY <1>6, <1>7, <1>8

(* A new node comes to the front, for page p.                              *)
LEMMA NewFrontNode ==
  ASSUME IInv, NEW p \in PageId,
         lru_order' = Joined(Len(pages) + 1, lru_order),
         pages'[Len(pages) + 1].id = p,
         \A n \in Node : pages'[n].id = pages[n].id
  PROVE  Order' = Joined(p, Order)
<1>1. PICK n \in Nat : n = Len(lru_order) /\ n = Len(pages) /\ Len(Order) = n
  BY LenPages, OrderType DEF IInv, TablesInv, Permutation
<1>2. lru_order \in Seq(1 .. n + 1) /\ n + 1 \in 1 .. n + 1
  <2>1. lru_order \in Seq(1 .. n)
    BY <1>1 DEF IInv, TablesInv, Permutation
  <2> QED
    BY <1>1, <2>1, SeqMonotonic
<1>3. Len(lru_order') = n + 1
      /\ \A j \in 1 .. n + 1 : lru_order'[j] = IF j = 1 THEN n + 1 ELSE lru_order[j - 1]
  <2>1. lru_order' = Joined(n + 1, lru_order)
    BY <1>1
  <2>2. /\ Len(Joined(n + 1, lru_order)) = n + 1
        /\ \A j \in 1 .. n + 1 : Joined(n + 1, lru_order)[j]
                                  = IF j = 1 THEN n + 1 ELSE lru_order[j - 1]
    <3>1. PICK S, t, u : /\ S = 1 .. n + 1 /\ t = n + 1 /\ t \in S
                         /\ u = lru_order /\ u \in Seq(S) /\ Len(u) = n
      BY <1>1, <1>2
    <3>2. /\ Len(Joined(t, u)) = Len(u) + 1
          /\ \A j \in 1 .. Len(u) + 1 : Joined(t, u)[j] = IF j = 1 THEN t ELSE u[j - 1]
      <4>1. t \in S /\ u \in Seq(S)
        BY <3>1
      <4> QED
        BY ONLY <4>1, JoinedType
    <3> QED
      BY <3>1, <3>2
  <2> QED
    BY <2>1, <2>2
<1>4. PICK l : /\ l = Joined(p, Order) /\ l \in Seq(PageId) /\ Len(l) = n + 1
               /\ \A j \in 1 .. n + 1 : l[j] = IF j = 1 THEN p ELSE Order[j - 1]
  BY <1>1, OrderType, JoinedType
<1>5. ASSUME NEW j \in 1 .. n + 1
      PROVE  pages'[lru_order'[j]].id = l[j]
  <2>1. CASE j = 1
    BY <2>1, <1>1, <1>3, <1>4
  <2>2. CASE j # 1
    <3>1. j - 1 \in 1 .. n
      BY <2>2, <1>1
    <3>2. lru_order'[j] = lru_order[j - 1] /\ l[j] = Order[j - 1]
      BY <2>2, <1>3, <1>4
    <3> QED
      BY <3>1, <3>2, <1>1, OrderType
  <2> QED
    BY <2>1, <2>2
<1>6. Order' = [j \in 1 .. n + 1 |-> l[j]]
  BY <1>3, <1>5 DEF Order
<1>7. l = [j \in 1 .. n + 1 |-> l[j]]
  BY <1>4, LenProperties
<1> QED
  BY <1>4, <1>6, <1>7

(* A page access that succeeds: its page is the one used now.              *)
LEMMA UsedNow ==
  ASSUME Typed, Pending, NEW pg, Advance(pg)
  PROVE  Used' = Current.page
<1>1. /\ call'.op = call.op /\ call'.addr = call.addr /\ call'.size = call.size
      /\ call'.k = call.k + 1 /\ call.k \in Nat \ {0} /\ call.k + 1 - 1 = call.k
  BY DEF Typed, TypeOK, Call, CallWellFormed, Pending, Advance
<1>2. InAccess' /\ call'.k > 1
  BY <1>1 DEF Pending, InAccess
<1> QED
  BY <1>1, <1>2 DEF Used, Current

(* A hit moves its page to the front, ...                                  *)
LEMMA AccessHitTouches ==
  ASSUME IInv, AccessHit, NEW p \in PageId, p = Current.page
  PROVE  Lru!Touch(p) /\ Used' = p
<1>1. Typed /\ TablesInv /\ Pending
  BY IInvTyped DEF IInv, AccessHit
<1>2. PICK n \in Node : n = page_cache[p] /\ pages[n] \in Page /\ pages[n].id = p
  BY <1>1, NodeInMap DEF AccessHit
<1>3. PICK i \in 1 .. Len(lru_order) : i = PositionOf(n) /\ lru_order[i] = n
  BY <1>1, PositionOfIsPosition
<1>4. /\ lru_order' = MoveToFront(lru_order, i)
      /\ pages' = [pages EXCEPT ![n] = Served(pages[n])]
      /\ Advance(Served(pages[n]))
  BY <1>2, <1>3 DEF AccessHit
<1>5. Served(pages[n]) \in Page /\ Served(pages[n]).id = p
  BY <1>1, <1>2, ServedType
<1>6. \A m \in Node : pages'[m] = IF m = n THEN Served(pages[n]) ELSE pages[m]
  BY <1>1, <1>2, <1>4, <1>5, ExceptSeq DEF TablesInv, Node
<1>7. Order' = FrontOf(p, Order, i)
  BY <1>2, <1>3, <1>4, <1>5, <1>6, FrontNode
<1>8. Order[i] = p /\ Len(Order) = Len(lru_order)
  BY <1>2, <1>3, OrderType
<1> QED
  BY <1>1, <1>3, <1>4, <1>7, <1>8, UsedNow DEF Lru!Touch, Order, FrontOf

(* ... a miss brings its page in there while the cache is not full, ...    *)
LEMMA AccessAllocateInserts ==
  ASSUME IInv, BoundInv, AccessAllocate, NEW p \in PageId, p = Current.page
  PROVE  Lru!Insert(p) /\ Used' = p
<1>1. Typed /\ TablesInv /\ StoreTypeOK /\ Pending /\ ~CacheFull
  BY IInvTyped DEF IInv, AccessAllocate, Miss
<1>2. page_cache[p] = None
  BY DEF AccessAllocate, Miss
<1>3. PICK pg \in Page : /\ pg.id = p /\ Advance(pg)
                         /\ pages' = Append(pages, pg)
  <2>1. Fetched(objects, p) \in PageData
    BY <1>1, FetchedType DEF StoreTypeOK
  <2>2. Served(FilledPage(p, Fetched(objects, p))) \in Page
        /\ Served(FilledPage(p, Fetched(objects, p))).id = p
    BY <1>1, <2>1, ServedType, FilledPageType
  <2> QED
    BY <1>2, <2>2 DEF AccessAllocate
<1>4. lru_order' = Joined(Len(pages) + 1, lru_order)
  BY DEF AccessAllocate, Joined
<1>5. /\ pages'[Len(pages) + 1] = pg
      /\ \A n \in Node : pages'[n] = pages[n]
  BY <1>1, <1>3, LenPages DEF TablesInv, Node
<1>6. Order' = Joined(p, Order)
  BY <1>3, <1>4, <1>5, NewFrontNode
<1>7. Len(Order) = Len(lru_order) /\ \A i \in 1 .. Len(lru_order) : Order[i] # p
  BY <1>2, OrderType, CachedMeansMapped
<1>8. Len(Order) < CacheSize
  BY <1>1, <1>7, NodesAreMapped, CacheSizeAssumption DEF CacheFull, BoundInv
<1> QED
  BY <1>1, <1>2, <1>3, <1>6, <1>7, <1>8, UsedNow DEF Lru!Insert, Lru!Cached, Order, Joined

(* ... and in the place of the page used longest ago when it is.           *)
LEMMA AccessEvictReplaces ==
  ASSUME IInv, BoundInv, AccessEvict, NEW p \in PageId, p = Current.page
  PROVE  Lru!Replace(p) /\ Used' = p
<1>1. /\ Typed /\ TablesInv /\ StoreTypeOK /\ Pending /\ CacheFull /\ WriteBack
      /\ Victim \in Node
  BY IInvTyped, VictimIsNode DEF IInv, AccessEvict, Miss
<1>2. page_cache[p] = None
  BY DEF AccessEvict, Miss
<1>3. PICK pg \in Page : /\ pg.id = p /\ Advance(pg)
                         /\ pages' = [pages EXCEPT ![Victim] = pg]
  <2>1. Fetched(objects', p) \in PageData
    BY <1>1, WriteBackKeepsStore, FetchedType DEF StoreTypeOK
  <2>2. Served(FilledPage(p, Fetched(objects', p))) \in Page
        /\ Served(FilledPage(p, Fetched(objects', p))).id = p
    BY <1>1, <2>1, ServedType, FilledPageType
  <2> QED
    BY <1>2, <2>2 DEF AccessEvict
<1>4. PICK i \in 1 .. Len(lru_order) : i = Len(lru_order) /\ lru_order[i] = Victim
  <2>1. Len(lru_order) \in 1 .. Len(lru_order)
    BY <1>1, LenPages DEF TablesInv, Permutation, Node
  <2> QED
    BY <2>1 DEF Victim
<1>5. lru_order' = MoveToFront(lru_order, i)
  BY <1>4 DEF AccessEvict
<1>6. \A m \in Node : pages'[m] = IF m = Victim THEN pg ELSE pages[m]
  BY <1>1, <1>3, ExceptSeq DEF TablesInv, Node
<1>7. Order' = FrontOf(p, Order, i)
  BY <1>1, <1>3, <1>4, <1>5, <1>6, FrontNode
<1>8. PICK o : /\ o = Order /\ o \in Seq(PageId) /\ Len(o) = i
               /\ \A j \in 1 .. i : o[j] # p
  BY <1>2, <1>4, OrderType, CachedMeansMapped
<1>9. FrontOf(p, o, i) = <<p>> \o SubSeq(o, 1, i - 1)
  <2>1. i \in Nat \ {0} /\ i + 1 \in Int /\ i \in Int /\ i < i + 1 /\ i - 1 \in Int
        /\ \A j \in 1 .. i - 1 : j \in 1 .. i
    BY <1>4, <1>8, LenProperties
  <2>2. SubSeq(o, i + 1, Len(o)) = <<>>
    BY <1>8, <2>1, SubSeqEmpty
  <2>3. PICK b : b = SubSeq(o, 1, i - 1) /\ b \in Seq(PageId)
    <3>1. \A j \in 1 .. i - 1 : o[j] \in PageId
      BY <1>8, <2>1, ElementOfSeq
    <3>2. SubSeq(o, 1, i - 1) \in Seq(PageId)
      BY ONLY <2>1, <3>1, SubSeqProperties, 1 \in Int, Zenon
    <3> QED
      BY <3>2
  <2>4. Joined(p, b) \in Seq(PageId)
    BY <2>3, JoinedType
  <2>5. Joined(p, b) \o <<>> = Joined(p, b)
    BY <2>4, ConcatEmptySeq
  <2> QED
    BY <2>2, <2>3, <2>5 DEF FrontOf, Joined
<1>10. Len(Order) = CacheSize
  BY <1>1, NodesAreMapped, OrderType DEF CacheFull
<1> QED
  BY <1>1, <1>2, <1>3, <1>4, <1>7, <1>8, <1>9, <1>10, UsedNow
  DEF Lru!Replace, Lru!Cached, Order

(* A step that leaves the tables alone and makes no access touches no page.*)
LEMMA RestIsLruStep ==
  ASSUME UNCHANGED <<lru_order, [n \in Node |-> pages[n].id]>>, IInv, IInv',
         ~(InAccess' /\ call'.k > 1) \/ UNCHANGED call
  PROVE  [Lru!Next]_(Lru!vars)
<1>1. UNCHANGED Order
  <2>1. Node' = Node /\ \A n \in Node : pages'[n].id = pages[n].id
    OBVIOUS
  <2> QED
    BY <2>1, OrderType DEF Order
<1>2. Used' = -1 \/ UNCHANGED Used
  BY DEF Used, InAccess
<1> QED
  BY <1>1, <1>2 DEF Lru!Next, Lru!Rest, Lru!vars, Order, Used

(* Every step of the page table is a step of the cache, or leaves it alone.*)
LEMMA NextIsLruStep ==
  ASSUME IInv, IInv', BoundInv, ~GetThrows, [Next]_vars
  PROVE  [Lru!Next]_(Lru!vars)
<1>1. CASE AccessHit \/ AccessAllocate \/ AccessEvict
  <2>1. PICK p \in PageId : p = Current.page
    BY <1>1, IInvTyped, CurrentInBounds DEF AccessHit, AccessAllocate, AccessEvict, Miss
  <2>2. (Lru!Touch(p) \/ Lru!Insert(p) \/ Lru!Replace(p)) /\ Used' = p
    BY <1>1, <2>1, AccessHitTouches, AccessAllocateInserts, AccessEvictReplaces
  <2>3. Lru!Use(p)
    BY <2>2 DEF Lru!Use, Used
  <2> QED
    BY <2>3 DEF Lru!Next
<1>2. ASSUME UNCHANGED <<lru_order, pages>>,
             ~(InAccess' /\ call'.k > 1) \/ UNCHANGED call
      PROVE  [Lru!Next]_(Lru!vars)
  <2>1. UNCHANGED [n \in Node |-> pages[n].id]
    BY <1>2 DEF Node
  <2> QED
    BY <1>2, <2>1, RestIsLruStep
<1>3. ASSUME UNCHANGED <<lru_order, call>>, Len(pages') = Len(pages),
             \A n \in Node : pages'[n].id = pages[n].id
      PROVE  [Lru!Next]_(Lru!vars)
  <2>1. UNCHANGED [n \in Node |-> pages[n].id]
    BY <1>3 DEF Node
  <2> QED
    BY <1>3, <2>1, RestIsLruStep
<1>4. CASE Truncate
  <2>1. /\ pages' = [n \in Node |-> IF pages[n].id > PageOf(eoa)
                                    THEN Invalidated(pages[n]) ELSE pages[n]]
        /\ \A n \in Node : pages[n] \in Page
    BY <1>4, ElementOfSeq DEF Truncate, IInv, TablesInv, Node
  <2>2. Len(pages) \in Nat /\ Len(pages') \in Nat /\ pages' \in [1 .. Len(pages') -> Page]
    BY LenProperties DEF IInv, TablesInv
  <2>3. DOMAIN pages' = 1 .. Len(pages) /\ DOMAIN pages' = 1 .. Len(pages')
    BY <2>1, <2>2 DEF Node
  <2>4. Len(pages') = Len(pages)
    BY <2>2, <2>3
  <2>5. \A n \in Node : pages'[n].id = pages[n].id
    BY <2>1 DEF Invalidated, Page
  <2> QED
    BY <1>3, <1>4, <2>4, <2>5 DEF Truncate
<1>5. CASE FlushPage
  <2>1. PICK n \in Node : n = Walked /\ pages[n] \in Page
    BY <1>5, WalkedIsNode DEF IInv, FlushPage
  <2>2. PICK pg \in Page : pg.id = pages[n].id /\ pages' = [pages EXCEPT ![n] = pg]
    <3>1. pages' = [pages EXCEPT ![n] = [pages[n] EXCEPT !.dirty = FALSE]]
      BY <1>5, <2>1 DEF FlushPage
    <3> QED
      BY <2>1, <3>1 DEF Page
  <2>3. Len(pages') = Len(pages) /\ \A m \in Node : pages'[m].id = pages[m].id
    BY <2>1, <2>2, ExceptSeq DEF IInv, TablesInv, Node
  <2>4. UNCHANGED <<lru_order, [m \in Node |-> pages[m].id]>>
    BY <1>5, <2>3 DEF FlushPage, Node
  <2>5. ~InAccess'
    BY <1>5, FlushGoesOn DEF InAccess
  <2> QED
    BY <2>4, <2>5, RestIsLruStep
<1>6. CASE Request /\ ~Truncate
  <2>1. BeginFlush => call'.op = "flush"
    BY DEF BeginFlush, Begin, Idle
  <2>2. CASE BeginFlush
    BY <1>2, <2>1, <2>2 DEF BeginFlush, Begin, tableVars, InAccess
  <2>3. CASE ~BeginFlush
    BY <1>2, <1>6, <2>3
    DEF Request, BeginRead, BeginWrite, Begin, SetEoa, tableVars, InAccess
  <2> QED
    BY <2>2, <2>3
<1>7. CASE Access
  <2>1. ~AccessAllocateThrows /\ ~AccessEvictThrows
    BY DEF AccessAllocateThrows, AccessEvictThrows
  <2>2. CASE WriteBackThrows \/ AccessOverrun \/ ReturnOk
    BY <1>2, <2>2
    DEF WriteBackThrows, AccessOverrun, ReturnOk, Throw, tableVars, Idle, InAccess
  <2> QED
    BY <1>1, <1>7, <2>1, <2>2 DEF Access
<1>8. CASE Flush /\ ~FlushPage
  <2>1. CASE FlushSkip
    <3>1. UNCHANGED <<lru_order, pages>>
      BY <2>1 DEF FlushSkip, tableVars
    <3>2. ~InAccess'
      BY <2>1, FlushGoesOn DEF InAccess
    <3> QED
      BY <1>2, <3>1, <3>2
  <2>2. CASE ~FlushSkip
    BY <1>2, <1>8, <2>2
    DEF Flush, FlushPageThrows, FlushMeta, FlushMetaThrows, Throw, tableVars, Idle, InAccess
  <2> QED
    BY <2>1, <2>2
<1>9. CASE Halted \/ UNCHANGED vars
  BY <1>2, <1>9 DEF Halted, vars, tableVars
<1> QED
  BY <1>4, <1>5, <1>6, <1>7, <1>8, <1>9 DEF Next, Flush

(* An empty list is an empty cache.                                        *)
LEMMA InitIsLruInit == Init => Lru!Init
<1> SUFFICES ASSUME Init PROVE Lru!Init
  OBVIOUS
<1>1. lru_order = <<>> /\ call = Idle
  BY DEF Init, TableInit
<1>2. Order = <<>>
  BY <1>1 DEF Order
<1>3. Used = -1
  BY <1>1 DEF Used, InAccess, Idle
<1> QED
  BY <1>2, <1>3 DEF Lru!Init, Order, Used

(* page.h's m_lru_order is in order of use: a page access that returns     *)
(* moves its page to the front, and a miss takes the page at the back when,*)
(* and only when, page_cache_size pages are cached.                        *)
THEOREM CacheIsLru ==
  ASSUME ~GetMayFail
  PROVE  Spec => ImplementsLruCache
<1>1. ~GetThrows
  BY NoGetThrows
<1>2. IInv /\ IInv' /\ BoundInv /\ [Next]_vars => [Lru!Next]_(Lru!vars)
  BY <1>1, NextIsLruStep
<1> QED
  BY <1>2, InitIsLruInit, Coherent, PTL DEF Spec, ImplementsLruCache, Lru!Spec
=============================================================================
