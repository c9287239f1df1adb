-------------------------- MODULE TwoUsersProofs --------------------------
(***************************************************************************)
(* Two users of one file: the theorems about TwoUsers, for every page size,*)
(* cache size, address space and set of byte values, and any failures of   *)
(* PUTs.  No page GET throws: the page that a failed one leaves behind     *)
(* (FailedGetsMemory) may be stored over a newer one, and a reader of that *)
(* goes back.                                                              *)
(*                                                                         *)
(* What CoherenceProofs proves of a table is used for both: as it is for   *)
(* the first user's, through the instance RP for the second's.  A fact     *)
(* taken from RP needs the assumptions on the constants, which RP has in   *)
(* terms of its own Offset.                                                *)
(***************************************************************************)
EXTENDS TwoUsers, CoherenceProofs

RP == INSTANCE CoherenceProofs WITH
  lru_order <- r_lru_order, pages <- r_pages, page_cache <- r_page_cache,
  allocated_pages <- r_allocated_pages, invalid_pages <- r_invalid_pages,
  call <- r_call, ret <- r_ret

-----------------------------------------------------------------------------
(* The second user makes the steps of a user.                              *)

(* R and RP are instances of different modules, so to the prover the       *)
(* definitions of PageTable that they share are different operators; what  *)
(* an action of one and the same of the other expand to is the same.       *)
LEMMA SecondIsAUser ==
  /\ R!Access <=> RP!Access
  /\ R!Flush <=> RP!Flush
  /\ R!BeginFlush <=> RP!BeginFlush
  /\ \A addr, size : R!BeginRead(addr, size) <=> RP!BeginRead(addr, size)
  /\ \A addr, size, data : R!BeginWrite(addr, size, data) <=> RP!BeginWrite(addr, size, data)
<1> USE DEF R!Pending, RP!Pending, R!InAccess, RP!InAccess, R!SegmentCount,
      RP!SegmentCount, R!LastPageOf, RP!LastPageOf, R!PageOf, RP!PageOf,
      R!FirstPageOf, RP!FirstPageOf, R!Current, RP!Current, R!Segment, RP!Segment,
      R!FirstSegment, RP!FirstSegment, R!PageStart, RP!PageStart, R!LastSegment,
      RP!LastSegment, R!MiddleSegment, RP!MiddleSegment, R!None, RP!None,
      R!MoveToFront, RP!MoveToFront, R!PositionOf, RP!PositionOf, R!Served,
      RP!Served, R!ReadFrom, RP!ReadFrom, R!ZeroPage, RP!ZeroPage, R!Offset,
      RP!Offset, R!WrittenTo, RP!WrittenTo, R!ZeroedAround, RP!ZeroedAround,
      R!Advance, RP!Advance, R!Delivered, RP!Delivered, R!Addr, RP!Addr,
      R!CurrentAddrs, RP!CurrentAddrs, R!SegmentAddrs, RP!SegmentAddrs, R!storeVars,
      RP!storeVars, R!bucket, RP!bucket, R!store, RP!store, R!Miss, RP!Miss,
      R!PageId, RP!PageId, R!FilledPage, RP!FilledPage, R!Fetched, RP!Fetched,
      R!Node, RP!Node, R!UnfilledPage, RP!UnfilledPage, R!Throw, RP!Throw, R!Idle,
      RP!Idle, R!Unfilled, RP!Unfilled, R!WriteBack, RP!WriteBack, R!Victim,
      RP!Victim, R!KvWrite, RP!KvWrite, R!Erased, RP!Erased, R!KvWriteThrows,
      RP!KvWriteThrows, R!tableVars, RP!tableVars, R!Overruns, RP!Overruns,
      R!Flushing, RP!Flushing, R!KvFlush, RP!KvFlush, R!FlushedMeta, RP!FlushedMeta,
      R!KvFlushThrows, RP!KvFlushThrows, R!Begin, RP!Begin
<1>1. \A S : R!Cardinality(S) = RP!Cardinality(S)
  BY Zenon DEF R!Cardinality, RP!Cardinality
<1>2. R!CacheFull <=> RP!CacheFull
  <2>1. R!Mapped = RP!Mapped
    BY DEF R!Mapped, RP!Mapped
  <2> QED
    BY <1>1, <2>1 DEF R!CacheFull, RP!CacheFull
<1>3. R!GetThrows <=> RP!GetThrows
  <2>1. R!Orphans = RP!Orphans
    BY DEF R!Orphans, RP!Orphans
  <2> QED
    BY <1>1, <2>1 DEF R!GetThrows, RP!GetThrows
<1>4. R!Walking <=> RP!Walking
  BY DEF R!Walking, RP!Walking
<1>5. R!FlushSkip <=> RP!FlushSkip
  BY <1>4 DEF R!FlushSkip, RP!FlushSkip, R!Walked, RP!Walked
<1>6. R!AccessHit <=> RP!AccessHit
  BY DEF R!AccessHit, RP!AccessHit
<1>7. R!AccessAllocate <=> RP!AccessAllocate
  BY <1>2 DEF R!AccessAllocate, RP!AccessAllocate
<1>8. R!AccessAllocateThrows <=> RP!AccessAllocateThrows
  BY <1>2, <1>3 DEF R!AccessAllocateThrows, RP!AccessAllocateThrows
<1>9. R!AccessEvict <=> RP!AccessEvict
  BY <1>2 DEF R!AccessEvict, RP!AccessEvict
<1>10. R!AccessEvictThrows <=> RP!AccessEvictThrows
  BY <1>2, <1>3 DEF R!AccessEvictThrows, RP!AccessEvictThrows
<1>11. R!WriteBackThrows <=> RP!WriteBackThrows
  BY <1>2 DEF R!WriteBackThrows, RP!WriteBackThrows
<1>12. R!AccessOverrun <=> RP!AccessOverrun
  BY DEF R!AccessOverrun, RP!AccessOverrun
<1>13. R!ReturnOk <=> RP!ReturnOk
  BY DEF R!ReturnOk, RP!ReturnOk
<1>14. R!FlushPage <=> RP!FlushPage
  BY <1>4 DEF R!FlushPage, RP!FlushPage, R!Walked, RP!Walked
<1>15. R!FlushPageThrows <=> RP!FlushPageThrows
  BY <1>4 DEF R!FlushPageThrows, RP!FlushPageThrows, R!Walked, RP!Walked
<1>16. R!FlushMeta <=> RP!FlushMeta
  BY <1>4 DEF R!FlushMeta, RP!FlushMeta
<1>17. R!FlushMetaThrows <=> RP!FlushMetaThrows
  BY <1>4 DEF R!FlushMetaThrows, RP!FlushMetaThrows
<1>18. R!BeginFlush <=> RP!BeginFlush
  BY DEF R!BeginFlush, RP!BeginFlush
<1>19. \A addr, size : R!BeginRead(addr, size) <=> RP!BeginRead(addr, size)
  BY DEF R!BeginRead, RP!BeginRead
<1>20. \A addr, size, data : R!BeginWrite(addr, size, data) <=> RP!BeginWrite(addr, size, data)
  BY DEF R!BeginWrite, RP!BeginWrite
<1> QED
  BY <1>5, <1>6, <1>7, <1>8, <1>9, <1>10, <1>11, <1>12, <1>13, <1>14, <1>15, <1>16, <1>17, <1>18,
     <1>19, <1>20 DEF R!Access, RP!Access, R!Flush, RP!Flush

(* So its steps are those of a user that does not truncate, and while it   *)
(* only reads, those of a reader.                                          *)
LEMMA SecondUserStep ==
  ASSUME SecondUser
  PROVE  /\ RP!UserStep
         /\ r_call.op \in {"idle", "read"} /\ ~second_writes => RP!ReaderStep
<1>1. CASE \E addr \in Addr, size \in 1 .. MaxAddr : SecondWrites(addr, size)
  <2>1. PICK addr \in Addr, size \in 1 .. MaxAddr : SecondWrites(addr, size)
    BY <1>1
  <2>2. Numbered(addr, size) \in [addr .. addr + size - 1 -> Byte]
    BY <2>1 DEF SecondWrites, Count, Numbered
  <2>3. RP!BeginWrite(addr, size, Numbered(addr, size)) /\ second_writes
    BY <2>1, SecondIsAUser DEF SecondWrites
  <2>4. RP!Writes(addr, size)
    BY <2>2, <2>3 DEF RP!Writes
  <2> QED
    BY <2>3, <2>4 DEF RP!UserStep, Addr, RP!Addr
<1>2. CASE R!BeginFlush /\ second_writes
  BY <1>2, SecondIsAUser DEF RP!UserStep
<1>3. CASE R!Access \/ \E addr \in Addr, size \in 1 .. MaxAddr : R!BeginRead(addr, size)
  BY <1>3, SecondIsAUser DEF RP!UserStep, RP!ReaderStep, Addr, RP!Addr
<1>4. CASE R!Flush
  <2>1. RP!Flush /\ r_call.op = "flush"
    BY <1>4, SecondIsAUser
    DEF RP!Flush, RP!FlushSkip, RP!FlushPage, RP!FlushPageThrows, RP!FlushMeta,
        RP!FlushMetaThrows, RP!Walking, RP!Flushing
  <2> QED
    BY <2>1 DEF RP!UserStep
<1> QED
  BY <1>1, <1>2, <1>3, <1>4 DEF SecondUser, SecondFlushes

(* The first user's steps are steps of a user.                             *)
LEMMA FirstUserStep ==
  ASSUME FirstUser
  PROVE  UserStep
<1>1. CASE \E addr \in Addr, size \in 1 .. MaxAddr : FirstWrites(addr, size)
  <2>1. PICK addr \in Addr, size \in 1 .. MaxAddr : FirstWrites(addr, size)
    BY <1>1
  <2>2. Numbered(addr, size) \in [addr .. addr + size - 1 -> Byte]
    BY <2>1 DEF FirstWrites, Count, Numbered
  <2> QED
    BY <2>1, <2>2 DEF FirstWrites, Writes, UserStep
<1>2. CASE ~\E addr \in Addr, size \in 1 .. MaxAddr : FirstWrites(addr, size)
  BY <1>2 DEF FirstUser, UserStep, ReaderStep
<1> QED
  BY <1>1, <1>2

(* Both mean the same by what the bucket holds.                            *)
LEMMA SameBucket ==
  /\ \A a : RP!Stored(a) = Stored(a) /\ RP!Stored(a)' = Stored(a)'
  /\ RP!Addr = Addr /\ RP!PageId = PageId
  /\ RP!PageData = PageData /\ RP!MetaText = MetaText
BY DEF RP!Stored, Stored, RP!ByteOf, ByteOf, RP!PageStart, PageStart, RP!PageOf, PageOf,
       RP!Fetched, Fetched, RP!ZeroPage, ZeroPage, RP!Offset, Offset, RP!Addr, Addr,
       RP!PageId, PageId, RP!PageData, PageData, RP!MetaText, MetaText,
       RP!PageCount, PageCount, RP!Separator, Separator

-----------------------------------------------------------------------------
(* What the steps make of the bytes.                                       *)

(* A step of the first user: its own bytes change as those of a single     *)
(* user, the other's as the bucket does where they are not cached.         *)
LEMMA FirstUserBytes ==
  ASSUME ~GetMayFail, UserInv, RP!UserInv, FirstUser
  PROVE  /\ UserInv' /\ RP!UserInv'
         /\ RP!Clean => RP!Clean'
         /\ \A a \in Addr :
              /\ Stored(a)' \in {Stored(a), HeldByte(a)}
              /\ \/ HeldByte(a)' \in {HeldByte(a), Stored(a)'}
                 \/ /\ call.op = "write" /\ HeldByte(a)' = call.buffer[a]
                    /\ Stored(a)' = Stored(a)
              /\ RP!HeldByte(a)' \in {RP!HeldByte(a), Stored(a)'}
<1>1. UserInv' /\ UNCHANGED eoa
  BY FirstUserStep, UserStepInv
<1>2. /\ dropped' = {} /\ undefined' \in BOOLEAN
      /\ objects' \in [PageId -> PageData \cup {NoObject}] /\ meta' \in MetaText \cup {NoObject}
  BY <1>1 DEF UserInv, IInv, StoreTypeOK, CallInv
<1>3. UNCHANGED <<RP!tableVars, RP!store, r_call, r_ret, eoa>>
  BY <1>1 DEF FirstUser, second, RP!tableVars, RP!store
<1>4. RP!UserInv'
  BY <1>2, <1>3, SameBucket, RP!OtherStepInv, PageSizeAssumption, MaxAddrAssumption,
     ByteAssumption, NoObjectAssumption, CacheSizeAssumption, FaultAssumption,
     BoundAssumption, NoByteAssumption DEF Offset, RP!Offset
<1>5. /\ RP!Clean => RP!Clean'
      /\ \A a \in Addr : RP!HeldByte(a)' \in {RP!HeldByte(a), Stored(a)'}
  BY <1>3, SameBucket, RP!OtherStepBytes, PageSizeAssumption, MaxAddrAssumption,
     ByteAssumption, NoObjectAssumption, CacheSizeAssumption, FaultAssumption,
     BoundAssumption, NoByteAssumption DEF Offset, RP!Offset
<1>6. \A a \in Addr :
        /\ Stored(a)' \in {Stored(a), HeldByte(a)}
        /\ \/ HeldByte(a)' \in {HeldByte(a), Stored(a)'}
           \/ /\ call.op = "write" /\ HeldByte(a)' = call.buffer[a]
              /\ Stored(a)' = Stored(a)
  BY FirstUserStep, UserBytes
<1> QED
  BY <1>1, <1>4, <1>5, <1>6

(* A step of the second user likewise.                                     *)
LEMMA SecondUserBytes ==
  ASSUME ~GetMayFail, UserInv, RP!UserInv, SecondUser
  PROVE  /\ UserInv' /\ RP!UserInv'
         /\ \A a \in Addr :
              /\ Stored(a)' \in {Stored(a), RP!HeldByte(a)}
              /\ \/ RP!HeldByte(a)' \in {RP!HeldByte(a), Stored(a)'}
                 \/ /\ r_call.op = "write" /\ RP!HeldByte(a)' = r_call.buffer[a]
                    /\ Stored(a)' = Stored(a)
              /\ HeldByte(a)' \in {HeldByte(a), Stored(a)'}
<1>1. RP!UserInv' /\ UNCHANGED eoa
  BY SecondUserStep, RP!UserStepInv, PageSizeAssumption, MaxAddrAssumption,
     ByteAssumption, NoObjectAssumption, CacheSizeAssumption, FaultAssumption,
     BoundAssumption, NoByteAssumption DEF Offset, RP!Offset
<1>2. /\ dropped' = {} /\ undefined' \in BOOLEAN
      /\ objects' \in [PageId -> PageData \cup {NoObject}] /\ meta' \in MetaText \cup {NoObject}
  BY <1>1, SameBucket DEF RP!UserInv, RP!IInv, RP!StoreTypeOK, RP!CallInv
<1>3. UNCHANGED <<tableVars, store, call, ret, eoa>>
  BY <1>1 DEF SecondUser, first
<1>4. UserInv'
  BY <1>2, <1>3, OtherStepInv
<1>5. \A a \in Addr : HeldByte(a)' \in {HeldByte(a), Stored(a)'}
  BY <1>3, OtherStepBytes
<1>6. \A a \in Addr :
        /\ Stored(a)' \in {Stored(a), RP!HeldByte(a)}
        /\ \/ RP!HeldByte(a)' \in {RP!HeldByte(a), Stored(a)'}
           \/ /\ r_call.op = "write" /\ RP!HeldByte(a)' = r_call.buffer[a]
              /\ Stored(a)' = Stored(a)
  BY SecondUserStep, SameBucket, RP!UserBytes, PageSizeAssumption, MaxAddrAssumption,
     ByteAssumption, NoObjectAssumption, CacheSizeAssumption, FaultAssumption,
     BoundAssumption, NoByteAssumption DEF Offset, RP!Offset
<1> QED
  BY <1>1, <1>4, <1>5, <1>6

-----------------------------------------------------------------------------
(* What is being written.                                                  *)

(* Numbering a write only ever raises the numbers.                         *)
LEMMA Counting ==
  ASSUME latest \in [Addr -> Nat], FirstUser \/ SecondUser
  PROVE  /\ latest' \in [Addr -> Nat]
         /\ \A a \in Addr : latest'[a] \in {latest[a], latest[a] + 1}
<1>1. ASSUME NEW addr \in Addr, NEW size \in 1 .. MaxAddr, Count(Numbered(addr, size))
      PROVE  /\ latest' \in [Addr -> Nat]
             /\ \A a \in Addr : latest'[a] \in {latest[a], latest[a] + 1}
  BY <1>1 DEF Count, Numbered
<1> QED
  BY <1>1 DEF FirstUser, SecondUser, FirstWrites, SecondWrites

(* A byte that the first user is writing after its step it was writing     *)
(* before, or it is the next one.                                          *)
LEMMA FirstUserBuffer ==
  ASSUME UserInv, latest \in [Addr -> Nat], FirstUser, call'.op = "write",
         NEW a \in Addr, call'.buffer[a] \in Byte
  PROVE  \/ call.op = "write" /\ call'.buffer[a] = call.buffer[a]
         \/ call'.buffer[a] = latest[a] + 1 /\ latest'[a] = latest[a] + 1
<1>1. CASE \E addr \in Addr, size \in 1 .. MaxAddr : FirstWrites(addr, size)
  <2>1. PICK addr \in Addr, size \in 1 .. MaxAddr : FirstWrites(addr, size)
    BY <1>1
  <2>2. call'.buffer[a] = IF a \in addr .. addr + size - 1 THEN latest[a] + 1 ELSE NoByte
    BY <2>1 DEF FirstWrites, BeginWrite, Begin, Numbered
  <2>3. a \in addr .. addr + size - 1
    BY <2>2, NoByteAssumption
  <2> QED
    BY <2>1, <2>2, <2>3 DEF FirstWrites, Count, Numbered
<1>2. CASE ReaderStep \/ BeginFlush \/ Flush
  BY <1>2, WriteKeepsBuffer DEF UserInv, IInv, CallInv
<1> QED
  BY <1>1, <1>2 DEF FirstUser, ReaderStep

(* Likewise the second user.                                               *)
LEMMA SecondUserBuffer ==
  ASSUME RP!UserInv, latest \in [Addr -> Nat], SecondUser, r_call'.op = "write",
         NEW a \in Addr, r_call'.buffer[a] \in Byte
  PROVE  \/ r_call.op = "write" /\ r_call'.buffer[a] = r_call.buffer[a]
         \/ r_call'.buffer[a] = latest[a] + 1 /\ latest'[a] = latest[a] + 1
<1>1. CASE \E addr \in Addr, size \in 1 .. MaxAddr : SecondWrites(addr, size)
  <2>1. PICK addr \in Addr, size \in 1 .. MaxAddr : SecondWrites(addr, size)
    BY <1>1
  <2>2. r_call'.buffer[a] = IF a \in addr .. addr + size - 1 THEN latest[a] + 1 ELSE NoByte
    BY <2>1 DEF SecondWrites, R!BeginWrite, R!Begin, Numbered, R!Addr, Addr
  <2>3. a \in addr .. addr + size - 1
    BY <2>2, NoByteAssumption
  <2> QED
    BY <2>1, <2>2, <2>3 DEF SecondWrites, Count, Numbered
<1>2. CASE ~\E addr \in Addr, size \in 1 .. MaxAddr : SecondWrites(addr, size)
  <2>1. RP!ReaderStep \/ RP!BeginFlush \/ RP!Flush
    BY <1>2, SecondIsAUser DEF SecondUser, SecondFlushes, RP!ReaderStep, Addr, RP!Addr
  <2> QED
    BY <2>1, RP!WriteKeepsBuffer, PageSizeAssumption, MaxAddrAssumption,
       ByteAssumption, NoObjectAssumption, CacheSizeAssumption, FaultAssumption,
       BoundAssumption, NoByteAssumption
    DEF Offset, RP!Offset, RP!UserInv, RP!IInv, RP!CallInv
<1> QED
  BY <1>1, <1>2

-----------------------------------------------------------------------------
(* The invariants.                                                         *)

(* A byte of an address is one of the writes made to it, or 0 of before    *)
(* the first.                                                              *)
Known(a) == 0 .. latest[a]

(* What the bucket and the two caches hold are written bytes, and so are   *)
(* those that a write in progress has still to put into a page.            *)
BytesWritten ==
  \A a \in Addr :
    /\ {Stored(a), HeldByte(a), RP!HeldByte(a)} \subseteq Known(a)
    /\ call.op = "write" /\ call.buffer[a] \in Byte => call.buffer[a] \in Known(a)
    /\ r_call.op = "write" /\ r_call.buffer[a] \in Byte => r_call.buffer[a] \in Known(a)

UsersInv ==
  /\ UserInv /\ RP!UserInv
  /\ latest \in [Addr -> Nat]
  /\ BytesWritten

(* Of a reader: it has nothing to store, and it sees bytes no newer than   *)
(* the bucket's, which are no newer than the writer's, which are no newer  *)
(* than those that the writer is about to put in their place.              *)
ReaderInv ==
  ~second_writes =>
    /\ r_call.op \in {"idle", "read"} /\ RP!Clean
    /\ seen \in [Addr -> Nat]
    /\ \A a \in Addr :
         /\ seen[a] <= RP!HeldByte(a)
         /\ RP!HeldByte(a) <= Stored(a) /\ Stored(a) <= HeldByte(a)
         /\ call.op = "write" /\ call.buffer[a] \in Byte => HeldByte(a) <= call.buffer[a]

(* What the second user holds is what it sees, a byte in any case.         *)
LEMMA SecondSees ==
  ASSUME RP!UserInv, NEW a \in Addr
  PROVE  R!Visible(a) = RP!HeldByte(a) /\ RP!HeldByte(a) \in Byte
<1>1. R!Visible(a) = RP!Visible(a)
  BY DEF R!Visible, RP!Visible, R!Stored, RP!Stored, R!ByteOf, RP!ByteOf,
         R!PageStart, RP!PageStart, R!PageOf, RP!PageOf, R!Fetched, RP!Fetched,
         R!ZeroPage, RP!ZeroPage, R!Offset, RP!Offset, R!None, RP!None
<1>2. RP!Visible(a) = RP!HeldByte(a) /\ RP!HeldByte(a) \in Byte
  BY SameBucket, RP!UserSees, PageSizeAssumption, MaxAddrAssumption,
     ByteAssumption, NoObjectAssumption, CacheSizeAssumption, FaultAssumption,
     BoundAssumption, NoByteAssumption DEF Offset, RP!Offset
<1> QED
  BY <1>1, <1>2

(* A stutter leaves both tables as they are.                               *)
LEMMA UsersStutter ==
  ASSUME UNCHANGED usersVars
  PROVE  /\ UserInv => UserInv'
         /\ RP!UserInv => RP!UserInv'
         /\ \A a \in Addr : /\ Stored(a)' = Stored(a) /\ HeldByte(a)' = HeldByte(a)
                            /\ RP!HeldByte(a)' = RP!HeldByte(a)
<1>1. /\ UNCHANGED <<tableVars, store, call, ret, eoa, objects, meta, dropped, undefined>>
      /\ UNCHANGED <<RP!tableVars, RP!store, r_call, r_ret>>
  BY DEF usersVars, vars, second, storeVars, bucket, RP!tableVars, RP!store
<1>2. UserInv => UserInv'
  <2> SUFFICES ASSUME UserInv PROVE UserInv'
    OBVIOUS
  <2>1. /\ dropped' = {} /\ undefined' \in BOOLEAN /\ meta' \in MetaText \cup {NoObject}
        /\ objects' \in [PageId -> PageData \cup {NoObject}]
    BY <1>1 DEF UserInv, IInv, StoreTypeOK, CallInv
  <2> QED
    BY <1>1, <2>1, OtherStepInv
<1>3. RP!UserInv => RP!UserInv'
  <2> SUFFICES ASSUME RP!UserInv PROVE RP!UserInv'
    OBVIOUS
  <2>1. /\ dropped' = {} /\ undefined' \in BOOLEAN /\ meta' \in RP!MetaText \cup {NoObject}
        /\ objects' \in [RP!PageId -> RP!PageData \cup {NoObject}]
    BY <1>1 DEF RP!UserInv, RP!IInv, RP!StoreTypeOK, RP!CallInv
  <2> QED
    BY <1>1, <2>1, RP!OtherStepInv, PageSizeAssumption, MaxAddrAssumption,
       ByteAssumption, NoObjectAssumption, CacheSizeAssumption, FaultAssumption,
       BoundAssumption, NoByteAssumption DEF Offset, RP!Offset
<1>4. \A a \in Addr : Stored(a)' = Stored(a) /\ HeldByte(a)' = HeldByte(a)
  BY <1>1 DEF Stored, HeldByte, Held, Object, tableVars
<1>5. \A a \in Addr : RP!HeldByte(a)' = RP!HeldByte(a)
  BY <1>1 DEF RP!HeldByte, RP!Held, RP!Object, RP!tableVars
<1> QED
  BY <1>2, <1>3, <1>4, <1>5

(* Every step of either user keeps the invariant.                          *)
LEMMA NextUsersInv ==
  ASSUME ~GetMayFail, UsersInv, [UsersNext]_usersVars
  PROVE  UsersInv'
<1>1. ASSUME FirstUser \/ SecondUser, NEW a \in Addr
      PROVE  Known(a) \subseteq Known(a)' /\ latest'[a] \in Known(a)'
  BY <1>1, Counting DEF Known, UsersInv
<1>2. CASE FirstUser
  <2>1. UserInv' /\ RP!UserInv' /\ latest' \in [Addr -> Nat] /\ UNCHANGED r_call
    BY <1>2, FirstUserBytes, Counting DEF UsersInv, FirstUser, second
  <2>2. ASSUME NEW a \in Addr
        PROVE  {Stored(a)', HeldByte(a)', RP!HeldByte(a)'} \subseteq Known(a)
    <3>1. HeldByte(a)' \in Byte
      BY <2>1, UserHoldsBytes DEF HoldsBytes
    <3> QED
      BY <1>2, <3>1, FirstUserBytes DEF UsersInv, BytesWritten
  <2>3. ASSUME NEW a \in Addr, call'.op = "write", call'.buffer[a] \in Byte
        PROVE  call'.buffer[a] \in Known(a)'
    BY <1>1, <1>2, <2>3, FirstUserBuffer DEF UsersInv, BytesWritten
  <2> QED
    BY <1>1, <1>2, <2>1, <2>2, <2>3 DEF UsersInv, BytesWritten
<1>3. CASE SecondUser
  <2>1. UserInv' /\ RP!UserInv' /\ latest' \in [Addr -> Nat] /\ UNCHANGED call
    BY <1>3, SecondUserBytes, Counting DEF UsersInv, SecondUser, first
  <2>2. ASSUME NEW a \in Addr
        PROVE  {Stored(a)', HeldByte(a)', RP!HeldByte(a)'} \subseteq Known(a)
    <3>1. RP!HeldByte(a)' \in Byte
      BY <2>1, SameBucket, RP!UserHoldsBytes, PageSizeAssumption, MaxAddrAssumption,
         ByteAssumption, NoObjectAssumption, CacheSizeAssumption, FaultAssumption,
         BoundAssumption, NoByteAssumption DEF Offset, RP!Offset, RP!HoldsBytes
    <3> QED
      BY <1>3, <3>1, SecondUserBytes DEF UsersInv, BytesWritten
  <2>3. ASSUME NEW a \in Addr, r_call'.op = "write", r_call'.buffer[a] \in Byte
        PROVE  r_call'.buffer[a] \in Known(a)'
    BY <1>1, <1>3, <2>3, SecondUserBuffer DEF UsersInv, BytesWritten
  <2> QED
    BY <1>1, <1>3, <2>1, <2>2, <2>3 DEF UsersInv, BytesWritten
<1>4. CASE UNCHANGED usersVars
  <2>1. UserInv' /\ RP!UserInv'
    BY <1>4, UsersStutter DEF UsersInv
  <2>2. \A a \in Addr : /\ Stored(a)' = Stored(a) /\ HeldByte(a)' = HeldByte(a)
                        /\ RP!HeldByte(a)' = RP!HeldByte(a)
    BY <1>4, UsersStutter
  <2> QED
    BY <1>4, <2>1, <2>2 DEF UsersInv, BytesWritten, Known, usersVars, vars, second
<1> QED
  BY <1>2, <1>3, <1>4 DEF UsersNext

(* Two users that have just opened an empty bucket.                        *)
LEMMA InitUsersInv == UsersInit => UsersInv /\ ReaderInv
<1> SUFFICES ASSUME UsersInit PROVE UsersInv /\ ReaderInv
  OBVIOUS
<1>1. StoreTypeOK /\ EmptyTable /\ NoCall /\ dropped = {}
  <2>1. /\ dropped = {} /\ eoa \in 0 .. MaxAddr /\ StoreInit
        /\ ret \in {"none", "ok", "error"} /\ call = Idle
    BY MaxAddrAssumption DEF UsersInit
  <2>2. undefined \in BOOLEAN
    BY Zenon DEF UsersInit
  <2> QED
    BY <2>1, <2>2, StoreInitType DEF UsersInit, EmptyTable, NoCall
<1>2. RP!StoreTypeOK
  <2>1. RP!PageCount = PageCount /\ 0 \in PageCount
    BY PageOfBounds, MaxAddrAssumption DEF PageOf, PageCount, RP!PageCount
  <2> QED
    BY <1>1, <2>1, SameBucket DEF UsersInit, StoreTypeOK, RP!StoreTypeOK
<1>3. RP!EmptyTable
  BY SameBucket DEF UsersInit, RP!EmptyTable, RP!None, None
<1>4. RP!NoCall
  <2>1. Idle = RP!Idle
    BY DEF Idle, RP!Idle, Unfilled, RP!Unfilled, Addr, RP!Addr
  <2>2. r_call = Idle /\ r_ret = "none"
    BY DEF UsersInit
  <2> QED
    BY <1>1, <2>1, <2>2 DEF NoCall, RP!NoCall, Addr, RP!Addr
<1>5. UserInv /\ \A a \in Addr : HeldByte(a) = Stored(a)
  BY <1>1, EmptyUser
<1>6. RP!UserInv /\ RP!Clean /\ \A a \in Addr : RP!HeldByte(a) = Stored(a)
  BY <1>1, <1>2, <1>3, <1>4, SameBucket, RP!EmptyUser, PageSizeAssumption, MaxAddrAssumption,
     ByteAssumption, NoObjectAssumption, CacheSizeAssumption, FaultAssumption,
     BoundAssumption, NoByteAssumption DEF Offset, RP!Offset
<1>7. \A a \in Addr : Stored(a) = 0
  BY OffsetOfAddr DEF UsersInit, StoreInit, Stored, Fetched, ByteOf, ZeroPage
<1>8. /\ latest = [a \in Addr |-> 0] /\ seen = [a \in Addr |-> 0]
      /\ call.op = "idle" /\ r_call.op = "idle"
  BY IdleType DEF UsersInit
<1> QED
  BY <1>5, <1>6, <1>7, <1>8 DEF UsersInv, ReaderInv, BytesWritten, Known

-----------------------------------------------------------------------------
(* A reader beside a writer.                                               *)

(* A step of the reader leaves its table clean and the bucket alone, ...   *)
LEMMA ReaderKeepsBucket ==
  ASSUME ~GetMayFail, UsersInv, ReaderInv, ~second_writes, SecondUser
  PROVE  /\ UNCHANGED <<bucket, latest>>
         /\ r_call'.op \in {"idle", "read"} /\ RP!Clean'
         /\ RP!UserStep /\ RP!ReaderStep
<1>1. RP!UserStep /\ RP!ReaderStep
  BY SecondUserStep DEF ReaderInv
<1>2. r_call.op \in {"idle", "read"} /\ RP!Clean /\ RP!UserInv /\ r_call \in RP!Call
  BY DEF ReaderInv, UsersInv, RP!UserInv, RP!IInv, RP!CallInv
<1>3. RP!Clean'
  BY <1>1, <1>2, RP!UserStaysClean, PageSizeAssumption, MaxAddrAssumption,
     ByteAssumption, NoObjectAssumption, CacheSizeAssumption, FaultAssumption,
     BoundAssumption, NoByteAssumption DEF Offset, RP!Offset
<1>4. UNCHANGED RP!bucket
  BY <1>1, <1>2, RP!ReaderStoresNothing, PageSizeAssumption, MaxAddrAssumption,
     ByteAssumption, NoObjectAssumption, CacheSizeAssumption, FaultAssumption,
     BoundAssumption, NoByteAssumption DEF Offset, RP!Offset
<1>5. r_call'.op \in {"idle", "read"}
  BY <1>1, <1>2, RP!ReaderGoesOn, PageSizeAssumption, MaxAddrAssumption,
     ByteAssumption, NoObjectAssumption, CacheSizeAssumption, FaultAssumption,
     BoundAssumption, NoByteAssumption DEF Offset, RP!Offset
<1>6. UNCHANGED latest
  BY DEF SecondUser, SecondWrites
<1> QED
  BY <1>1, <1>3, <1>4, <1>5, <1>6 DEF RP!bucket, bucket

(* ... and the byte it delivers is the one the reader's cache holds.       *)
LEMMA ReaderSeen ==
  ASSUME ~GetMayFail, UsersInv, ReaderInv, ~second_writes, SecondUser,
         NEW a \in Addr
  PROVE  seen'[a] \in {seen[a], RP!HeldByte(a)'}
<1>1. R!CurrentAddrs = RP!CurrentAddrs
  BY DEF R!CurrentAddrs, RP!CurrentAddrs, R!SegmentAddrs, RP!SegmentAddrs,
         R!Segment, RP!Segment, R!FirstSegment, RP!FirstSegment, R!LastSegment, RP!LastSegment,
         R!MiddleSegment, RP!MiddleSegment, R!LastPageOf, RP!LastPageOf,
         R!FirstPageOf, RP!FirstPageOf, R!PageStart, RP!PageStart, R!PageOf, RP!PageOf
<1>2. RP!UserInv /\ RP!ReaderStep
  BY ReaderKeepsBucket DEF UsersInv
<1>3. CASE r_call.op = "read" /\ r_call'.op = "read" /\ a \in R!CurrentAddrs
  <2>1. r_call'.buffer[a] = RP!HeldByte(a)'
    BY <1>1, <1>2, <1>3, RP!ReadDelivers, PageSizeAssumption, MaxAddrAssumption,
       ByteAssumption, NoObjectAssumption, CacheSizeAssumption, FaultAssumption,
       BoundAssumption, NoByteAssumption DEF Offset, RP!Offset
  <2> QED
    BY <1>3, <2>1 DEF SecondUser, Seen
<1>4. CASE ~(r_call.op = "read" /\ r_call'.op = "read" /\ a \in R!CurrentAddrs)
  BY <1>4 DEF SecondUser, Seen
<1> QED
  BY <1>3, <1>4

(* The bytes of an address stay in order at a step of the writer ...       *)
LEMMA WriterKeepsOrder ==
  ASSUME ~GetMayFail, UsersInv, ReaderInv, ~second_writes, FirstUser,
         NEW a \in Addr
  PROVE  /\ seen'[a] <= RP!HeldByte(a)'
         /\ RP!HeldByte(a)' <= Stored(a)' /\ Stored(a)' <= HeldByte(a)'
         /\ call'.op = "write" /\ call'.buffer[a] \in Byte => HeldByte(a)' <= call'.buffer[a]
<1>1. /\ seen[a] \in Nat /\ RP!HeldByte(a) \in Nat /\ Stored(a) \in Nat /\ HeldByte(a) \in Nat
      /\ latest[a] \in Nat /\ HeldByte(a) <= latest[a]
  BY DEF UsersInv, ReaderInv, BytesWritten, Known
<1>2. /\ seen[a] <= RP!HeldByte(a) /\ RP!HeldByte(a) <= Stored(a) /\ Stored(a) <= HeldByte(a)
      /\ seen' = seen
  BY DEF ReaderInv, FirstUser
<1>3. call.op = "write" /\ call.buffer[a] \in Byte =>
        /\ call.buffer[a] \in Nat
        /\ HeldByte(a) <= call.buffer[a] /\ call.buffer[a] <= latest[a]
  BY <1>1 DEF UsersInv, ReaderInv, BytesWritten, Known
<1>4. UserInv' /\ HeldByte(a)' \in Byte
  BY FirstUserBytes, UserHoldsBytes DEF UsersInv, HoldsBytes
<1>5. /\ Stored(a)' \in {Stored(a), HeldByte(a)}
      /\ \/ HeldByte(a)' \in {HeldByte(a), Stored(a)'}
         \/ /\ call.op = "write" /\ HeldByte(a)' = call.buffer[a] /\ call.buffer[a] \in Byte
            /\ Stored(a)' = Stored(a)
      /\ RP!HeldByte(a)' \in {RP!HeldByte(a), Stored(a)'}
  BY <1>4, FirstUserBytes DEF UsersInv
<1>6. call'.op = "write" /\ call'.buffer[a] \in Byte =>
        \/ call.op = "write" /\ call'.buffer[a] = call.buffer[a]
        \/ call'.buffer[a] = latest[a] + 1
  BY FirstUserBuffer DEF UsersInv
<1>7. seen'[a] <= RP!HeldByte(a)' /\ RP!HeldByte(a)' <= Stored(a)' /\ Stored(a)' <= HeldByte(a)'
  BY <1>1, <1>2, <1>3, <1>5
<1>8. /\ HeldByte(a)' <= latest[a]
      /\ call.op = "write" /\ call.buffer[a] \in Byte => HeldByte(a)' <= call.buffer[a]
  BY <1>1, <1>2, <1>3, <1>5
<1>9. HeldByte(a)' \in Nat
  BY <1>1, <1>3, <1>5
<1> QED
  BY <1>1, <1>6, <1>7, <1>8, <1>9

(* ... and at one of the reader.                                           *)
LEMMA ReaderKeepsOrder ==
  ASSUME ~GetMayFail, UsersInv, ReaderInv, ~second_writes, SecondUser,
         NEW a \in Addr
  PROVE  /\ seen'[a] \in Nat /\ seen[a] <= seen'[a] /\ seen'[a] <= RP!HeldByte(a)'
         /\ RP!HeldByte(a)' <= Stored(a)' /\ Stored(a)' <= HeldByte(a)'
         /\ call'.op = "write" /\ call'.buffer[a] \in Byte => HeldByte(a)' <= call'.buffer[a]
<1>1. /\ seen[a] \in Nat /\ RP!HeldByte(a) \in Nat /\ Stored(a) \in Nat /\ HeldByte(a) \in Nat
  BY DEF UsersInv, ReaderInv, BytesWritten, Known
<1>2. seen[a] <= RP!HeldByte(a) /\ RP!HeldByte(a) <= Stored(a) /\ Stored(a) <= HeldByte(a)
  BY DEF ReaderInv
<1>3. call.op = "write" /\ call.buffer[a] \in Byte =>
        call.buffer[a] \in Nat /\ HeldByte(a) <= call.buffer[a]
  BY DEF UsersInv, ReaderInv, BytesWritten, Known
<1>4. call' = call /\ Stored(a)' = Stored(a)
  BY ReaderKeepsBucket DEF SecondUser, first, bucket, Stored
<1>5. r_call.op # "write"
  BY DEF ReaderInv
<1>6. RP!HeldByte(a)' \in {RP!HeldByte(a), Stored(a)} /\ HeldByte(a)' \in {HeldByte(a), Stored(a)}
  BY <1>4, <1>5, SecondUserBytes DEF UsersInv
<1>7. seen'[a] \in {seen[a], RP!HeldByte(a)'}
  BY ReaderSeen
<1>8. seen'[a] \in Nat /\ seen[a] <= seen'[a] /\ seen'[a] <= RP!HeldByte(a)'
  BY <1>1, <1>2, <1>6, <1>7
<1>9. /\ RP!HeldByte(a)' <= Stored(a)' /\ Stored(a)' <= HeldByte(a)'
      /\ call.op = "write" /\ call.buffer[a] \in Byte => HeldByte(a)' <= call.buffer[a]
  BY <1>1, <1>2, <1>3, <1>4, <1>6
<1> QED
  BY <1>4, <1>8, <1>9

(* So the reader's invariant holds after every step.                       *)
LEMMA NextReaderInv ==
  ASSUME ~GetMayFail, UsersInv, ReaderInv, [UsersNext]_usersVars
  PROVE  ReaderInv'
<1> SUFFICES ASSUME ~second_writes' PROVE ReaderInv'
  BY DEF ReaderInv
<1>1. ~second_writes
  BY DEF UsersNext, FirstUser, SecondUser, usersVars
<1>2. CASE FirstUser
  <2>1. r_call'.op \in {"idle", "read"} /\ RP!Clean' /\ seen' \in [Addr -> Nat]
    BY <1>1, <1>2, FirstUserBytes DEF UsersInv, ReaderInv, FirstUser, second
  <2> QED
    BY <1>1, <1>2, <2>1, WriterKeepsOrder DEF ReaderInv
<1>3. CASE SecondUser
  <2>1. r_call'.op \in {"idle", "read"} /\ RP!Clean'
    BY <1>1, <1>3, ReaderKeepsBucket
  <2>2. seen' \in [Addr -> Nat]
    <3>1. DOMAIN seen' = Addr /\ seen' = [a \in Addr |-> seen'[a]]
      BY <1>1, <1>3 DEF SecondUser, Seen, ReaderInv
    <3> QED
      BY <1>1, <1>3, <3>1, ReaderKeepsOrder
  <2> QED
    BY <1>1, <1>3, <2>1, <2>2, ReaderKeepsOrder DEF ReaderInv
<1>4. CASE UNCHANGED usersVars
  <2>1. \A a \in Addr : /\ Stored(a)' = Stored(a) /\ HeldByte(a)' = HeldByte(a)
                        /\ RP!HeldByte(a)' = RP!HeldByte(a)
    BY <1>4, UsersStutter
  <2>2. RP!Clean' = RP!Clean
    BY <1>4 DEF usersVars, second, RP!Clean, RP!CachedDirty
  <2> QED
    BY <1>1, <1>4, <2>1, <2>2 DEF ReaderInv, usersVars, vars, second
<1> QED
  BY <1>2, <1>3, <1>4 DEF UsersNext

-----------------------------------------------------------------------------
(* Theorems                                                                *)

(* The invariants hold throughout.                                         *)
LEMMA UsersInvariance ==
  ASSUME ~GetMayFail
  PROVE  UsersSpec => [](UsersInv /\ ReaderInv)
<1>1. UsersInv /\ ReaderInv /\ [UsersNext]_usersVars => UsersInv' /\ ReaderInv'
  BY NextUsersInv, NextReaderInv
<1> QED
  BY <1>1, InitUsersInv, PTL DEF UsersSpec

(* Two writers on one file lose each other's writes, but neither is shown, *)
(* nor is the bucket left with, a byte that nobody wrote to that address,  *)
(* whatever the two caches evict and whichever PUTs fail.                  *)
THEOREM NothingIsInvented ==
  ASSUME ~GetMayFail
  PROVE  UsersSpec => []NothingInvented
<1>1. UsersInv => NothingInvented
  BY UserSees, SecondSees DEF UsersInv, NothingInvented, BytesWritten, Known
<1> QED
  BY <1>1, UsersInvariance, PTL

(* A user that only reads never changes the bucket: no page of its table is*)
(* ever dirty, so its evictions make no PUT.                               *)
THEOREM ReadersAreHarmless ==
  ASSUME ~GetMayFail
  PROVE  UsersSpec => ReadersStoreNothing
<1> DEFINE Stores == ~second_writes /\ second' # second => UNCHANGED bucket
<1>1. UsersInv /\ ReaderInv /\ [UsersNext]_usersVars => [Stores]_usersVars
  BY ReaderKeepsBucket DEF UsersNext, FirstUser, bucket
<1>2. UsersSpec => [][Stores]_usersVars
  BY <1>1, UsersInvariance, PTL DEF UsersSpec
<1> QED
  BY <1>2 DEF ReadersStoreNothing

(* A reader beside one writer sees no address go back in time: not when it *)
(* evicts a page and fetches it again, nor when the writer's PUTs fail, are*)
(* applied although they fail, or come in any order.                       *)
THEOREM ReadersSeeProgress ==
  ASSUME ~GetMayFail
  PROVE  UsersSpec => ReaderNeverGoesBack
<1> DEFINE Forward == ~second_writes => \A a \in Addr : seen'[a] >= seen[a]
<1>1. UsersInv /\ ReaderInv /\ [UsersNext]_usersVars => [Forward]_usersVars
  <2> SUFFICES ASSUME UsersInv, ReaderInv, UsersNext, ~second_writes, NEW a \in Addr
               PROVE  seen'[a] >= seen[a]
    OBVIOUS
  <2>1. CASE FirstUser
    BY <2>1 DEF FirstUser, ReaderInv
  <2>2. CASE SecondUser
    BY <2>2, ReaderKeepsOrder DEF ReaderInv
  <2> QED
    BY <2>1, <2>2 DEF UsersNext
<1>2. UsersSpec => [][Forward]_usersVars
  BY <1>1, UsersInvariance, PTL DEF UsersSpec
<1> QED
  BY <1>2 DEF ReaderNeverGoesBack
=============================================================================
