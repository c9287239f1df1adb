------------------------------ MODULE KvDriver ------------------------------
(***************************************************************************)
(* kv_driver: the sessions in which a process works on one file of the     *)
(* bucket.  open reads the .meta object and builds a store and an empty    *)
(* page table, close frees them, and a crash loses them at any moment.     *)
(* Within a session the page table of PageTable runs; across sessions only *)
(* the bucket lives on.                                                    *)
(*                                                                         *)
(* The bucket may hold a file to begin with, one whose .meta the           *)
(* constructor of the store accepts.  All sessions have one page size;     *)
(* PageSizes has the property list and sessions that ask for others.       *)
(***************************************************************************)
EXTENDS PageTable

VARIABLES
  file,       \* does hdf5 hold a driver object? "closed" or "open"
  survivors   \* history: what a crash may leave of each byte of the bucket

driverVars == <<vars, file, survivors>>

-----------------------------------------------------------------------------
(* A new driver object: an empty table, m_eoa 0, a store that knows count  *)
(* pages.  The store is moved into the table, and its move constructor     *)
(* starts with no invalid pages whatever the .meta object said.            *)
StartSession(count) ==
  /\ file = "closed"
  /\ file' = "open"
  /\ allocated_pages' = count
  /\ invalid_pages' = {}
  /\ ret' = "ok"
  /\ UNCHANGED <<bucket, tableVars, eoa, call, undefined, dropped, survivors>>

(* The GET of .meta answers 404.                                           *)
OpenFresh == meta = NoObject /\ StartSession(0)

(* The constructor takes a .meta object that it can parse.                 *)
OpenExisting ==
  /\ meta # NoObject /\ MatchesMetadataRegex(meta)
  /\ StartSession(meta.allocated_pages)

(* An open can always fail, for want of parameters or because a request    *)
(* does; one of a file whose .meta the constructor does not take must.     *)
OpenFails ==
  /\ file = "closed"
  /\ ret' = "error"
  /\ UNCHANGED <<storeVars, tableVars, eoa, call, undefined, dropped, file, survivors>>

(* The driver object and all it owns are gone.  Nothing is written: hdf5   *)
(* has to flush before it closes.                                          *)
EndSession ==
  /\ file = "open" /\ ~undefined
  /\ file' = "closed"
  /\ lru_order' = <<>> /\ pages' = <<>> /\ page_cache' = [p \in PageId |-> None]
  /\ eoa' = 0
  /\ call' = Idle
  /\ allocated_pages' = 0 /\ invalid_pages' = {}
  /\ UNCHANGED <<bucket, undefined, dropped, survivors>>

Close == call = Idle /\ EndSession /\ ret' = "ok"

Crash == call # Idle /\ EndSession /\ ret' = "none"

-----------------------------------------------------------------------------
(* Bytes a crash may leave at each address: the byte of the last           *)
(* successful flush (or of the bucket as it was found) and every byte      *)
(* written since, zero too if truncate cut the address off.                *)
FlushSucceeds == Flushing /\ call' = Idle /\ ret' = "ok"
SegmentWritten == call.op = "write" /\ call' = [call EXCEPT !.k = @ + 1]

Recorded ==
  survivors' =
    [a \in Addr |->
       IF FlushSucceeds /\ a \notin dropped THEN {Visible(a)}
       ELSE IF SegmentWritten /\ a \in CurrentAddrs
       THEN survivors[a] \cup {call.buffer[a]}
       ELSE IF a \in dropped' \ dropped THEN survivors[a] \cup {0}
       ELSE survivors[a]]

Serve == file = "open" /\ Next /\ Recorded /\ UNCHANGED file

(* A file found in the bucket: a .meta object that can be parsed and counts*)
(* the pages of Addr, and any of those pages.                              *)
FoundMeta ==
  [page_size : {PageSize}, equals : {TRUE},
   allocated_pages : {MaxAddr \div PageSize}, separator : {"space"}, invalid_pages : {{}}]

DriverInit ==
  /\ meta \in FoundMeta \cup {NoObject}
  /\ objects \in [PageId -> PageData \cup {NoObject}]
  /\ \A p \in PageId : objects[p] # NoObject =>
       meta # NoObject /\ p < meta.allocated_pages
  /\ allocated_pages = 0 /\ invalid_pages = {}
  /\ TableInit /\ dropped = {}
  /\ file = "closed"
  /\ survivors = [a \in Addr |-> {Stored(a)}]

Open == OpenFresh \/ OpenExisting \/ OpenFails

DriverNext == Open \/ Serve \/ Close \/ Crash

DriverSpec == DriverInit /\ [][DriverNext]_driverVars

-----------------------------------------------------------------------------
(* Properties                                                              *)

(* Crashes and reopening never bring back an older byte, lose a flushed    *)
(* one for anything but a later write, or show a byte at an address it was *)
(* not written to: what the bucket holds and what a reader sees of each    *)
(* address was there at the last successful flush or was written since.    *)
SurvivorsOnly == \A a \in Addr : {Stored(a), Visible(a)} \subseteq survivors[a]
=============================================================================
