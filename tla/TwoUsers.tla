------------------------------ MODULE TwoUsers ------------------------------
(***************************************************************************)
(* Two processes that have one file open: the first reads and writes it,   *)
(* the second reads it and, where Writers has it, writes too.  Each has its*)
(* own driver object, so its own page table and its own page count; only   *)
(* the bucket is shared, and nothing tells one of the other's writes.      *)
(*                                                                         *)
(* The first is PageTable itself, the second the instance R of it.  Both   *)
(* keep the end of allocation at MaxAddr and neither truncates, so eoa,    *)
(* undefined and dropped never change and need no second copy.  The writes *)
(* to an address carry the numbers 1, 2, ... in the order in which they    *)
(* are made: a byte tells how old it is.                                   *)
(*                                                                         *)
(* A step is a page access of PageTable.  One that evicts a dirty page     *)
(* makes two requests, the PUT of that page and the GET of another; what   *)
(* the other user does between them can be put before or after the step    *)
(* as long as the other user only reads.                                   *)
(***************************************************************************)
EXTENDS PageTable

VARIABLES
  r_lru_order, r_pages, r_page_cache,    \* the second user's page table
  r_allocated_pages, r_invalid_pages,    \* and the members of its store
  r_call, r_ret,
  latest,         \* history: the number of the last write made to an address
  seen,           \* history: the byte last delivered to the second user
  second_writes   \* does the second user write?

second == <<r_lru_order, r_pages, r_page_cache, r_allocated_pages, r_invalid_pages,
            r_call, r_ret>>
usersVars == <<vars, second, latest, seen, second_writes>>

R == INSTANCE PageTable WITH
  lru_order <- r_lru_order, pages <- r_pages, page_cache <- r_page_cache,
  allocated_pages <- r_allocated_pages, invalid_pages <- r_invalid_pages,
  call <- r_call, ret <- r_ret

first == <<tableVars, store, call, ret>>

-----------------------------------------------------------------------------
UsersInit ==
  /\ StoreInit
  /\ lru_order = <<>> /\ pages = <<>> /\ page_cache = [p \in PageId |-> None]
  /\ eoa = MaxAddr /\ call = Idle /\ ret = "none"
  /\ undefined = FALSE /\ dropped = {}
  /\ r_lru_order = <<>> /\ r_pages = <<>> /\ r_page_cache = [p \in PageId |-> None]
  /\ r_allocated_pages = 0 /\ r_invalid_pages = {}
  /\ r_call = Idle /\ r_ret = "none"
  /\ latest = [a \in Addr |-> 0]
  /\ seen = [a \in Addr |-> 0]
  /\ second_writes \in BOOLEAN

(* The next write to the bytes from addr on numbers each of them anew.     *)
Numbered(addr, size) == [a \in addr .. addr + size - 1 |-> latest[a] + 1]

Count(data) ==
  /\ \A a \in DOMAIN data : data[a] \in Byte
  /\ latest' = [a \in Addr |-> IF a \in DOMAIN data THEN data[a] ELSE latest[a]]

FirstWrites(addr, size) ==
  /\ addr + size <= MaxAddr
  /\ Count(Numbered(addr, size))
  /\ BeginWrite(addr, size, Numbered(addr, size))

FirstUser ==
  /\ \/ \E addr \in Addr, size \in 1 .. MaxAddr : FirstWrites(addr, size)
     \/ /\ \/ \E addr \in Addr, size \in 1 .. MaxAddr : BeginRead(addr, size)
           \/ BeginFlush \/ Access \/ Flush
        /\ UNCHANGED latest
  /\ UNCHANGED <<second, seen, second_writes>>

SecondWrites(addr, size) ==
  /\ second_writes
  /\ addr + size <= MaxAddr
  /\ Count(Numbered(addr, size))
  /\ R!BeginWrite(addr, size, Numbered(addr, size))

(* hdf5 flushes no file that it opened for reading.                        *)
SecondFlushes == second_writes /\ R!BeginFlush

(* What a step of the second user delivers to it.                          *)
Seen ==
  seen' = IF r_call.op = "read" /\ r_call'.op = "read"
          THEN [a \in Addr |-> IF a \in R!CurrentAddrs THEN r_call'.buffer[a] ELSE seen[a]]
          ELSE seen

SecondUser ==
  /\ \/ \E addr \in Addr, size \in 1 .. MaxAddr : SecondWrites(addr, size)
     \/ /\ \/ \E addr \in Addr, size \in 1 .. MaxAddr : R!BeginRead(addr, size)
           \/ SecondFlushes \/ R!Access \/ R!Flush
        /\ UNCHANGED latest
  /\ Seen
  /\ UNCHANGED <<first, second_writes>>

UsersNext == FirstUser \/ SecondUser

UsersSpec == UsersInit /\ [][UsersNext]_usersVars

-----------------------------------------------------------------------------
(* Properties                                                              *)

(* Beside one writer, a reader sees old data for as long as it likes but   *)
(* never older than it has already seen, whatever the two caches evict and *)
(* fetch again and whichever PUTs of the writer fail, are lost or repeated.*)
ReaderNeverGoesBack ==
  [][~second_writes => \A a \in Addr : seen'[a] >= seen[a]]_usersVars

(* Readers are harmless ("unlimited read-only users"): a user that only    *)
(* reads stores nothing, so the file stays what its one writer made it.    *)
ReadersStoreNothing ==
  [][~second_writes /\ second' # second => UNCHANGED bucket]_usersVars

(* Two writers lose each other's writes, but neither is shown, nor is the  *)
(* bucket left with, a byte that nobody wrote to that address.             *)
NothingInvented ==
  \A a \in Addr : {Stored(a), Visible(a), R!Visible(a)} \subseteq 0 .. latest[a]
=============================================================================
