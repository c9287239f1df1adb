----------------------------- MODULE PageSizes -----------------------------
(***************************************************************************)
(* The page size of a file, over sessions that ask for different ones.     *)
(* KvDriver has sessions of one page size and the bytes of their pages;    *)
(* here are sessions of any size, and of a page object only how long it is.*)
(* .meta is written by flush alone, so a session that dies before its      *)
(* first flush leaves pages whose size nothing states, and a later session *)
(* with another size meets them.                                           *)
(*                                                                         *)
(* Of the page table there is which pages its map has and which of its     *)
(* nodes are dirty.  Any page may be evicted at any time, a superset of    *)
(* what the LRU order and the cache size let happen.  A request that throws*)
(* changes nothing here unless it is a PUT that was applied.               *)
(***************************************************************************)
EXTENDS Integers

CONSTANTS
  Size,             \* the page sizes that sessions ask for or files have
  DefaultSize,      \* the 2 MB of from_params
  LastPage,         \* bound: the highest page id
  NoObject,         \* "the bucket holds no such object"
  RequestsMayFail   \* may a request to S3 throw?

ASSUME SizeAssumption == Size \subseteq Nat \ {0} /\ DefaultSize \in Size
ASSUME LastPageAssumption == LastPage \in Nat
ASSUME AbsenceAssumption == NoObject \notin Nat
ASSUME RequestsAssumption == RequestsMayFail \in BOOLEAN

VARIABLES
  objects,    \* the bucket: the length of each page object
  meta,       \* the bucket: the page size in .meta, and whether it can be parsed
  fapl,       \* the property list: the page size asked for, 0 for none, and
              \* whether it has all that from_params cannot do without
  page_size,  \* s3_kv_store::m_page_size, 0 while no driver is open
  cached,     \* the pages in the map of the page table
  dirty,      \* the pages of its dirty nodes
  ret         \* what the last open returned

bucket == <<objects, meta>>
table  == <<page_size, cached, dirty>>
vars   == <<bucket, table, fapl, ret>>

PageId == 0 .. LastPage

Meta == [page_size : Size, readable : BOOLEAN]

(* A list is complete when it has both keys and a host.  The Python binding*)
(* always puts them there, a C++ caller of set_fapl may pass null: a null  *)
(* key makes from_params throw, and so does a null host, which it hands to *)
(* std::string instead of the default it has just chosen (undefined by the *)
(* standard, an exception in libstdc++).                                   *)
Fapl == [page_size : Size \cup {0}, complete : BOOLEAN]

-----------------------------------------------------------------------------
(* kv_driver::set_fapl, at any time, on a list that an open file may have  *)
(* been opened with: the driver has copied what it needed.  initialize or  *)
(* H5Pset_driver can fail, and the list stays as it was.                   *)
SetFapl(params) ==
  /\ fapl' \in {params, fapl}
  /\ UNCHANGED <<bucket, table, ret>>

(* s3_kv_store::from_params replaces an absent page size by the default,   *)
(* whatever the size of the file (kv_driver.h says 0 reads that of the     *)
(* file).                                                                  *)
EffectivePageSize == IF fapl.page_size = 0 THEN DefaultSize ELSE fapl.page_size

(* Faulty: the size is compared only when the list asks for the default.   *)
AcceptsUnchecked ==
  meta.readable /\ (fapl.page_size = 0 => meta.page_size = EffectivePageSize)

(* The constructor takes a .meta it can parse if the page size, which is   *)
(* never 0 at this point, is the one of the file.                          *)
Accepts == meta.readable /\ meta.page_size = EffectivePageSize

(* kv_driver::open with the constructor of the store: .meta answers 404,   *)
(* or is accepted; the page table is empty.                                *)
Open ==
  /\ page_size = 0 /\ fapl.complete
  /\ meta # NoObject => Accepts
  /\ page_size' = EffectivePageSize
  /\ ret' = "ok"
  /\ UNCHANGED <<bucket, fapl, cached, dirty>>

(* The list has no parameters, from_params throws, or the constructor does.*)
OpenFails ==
  /\ page_size = 0
  /\ ~fapl.complete \/ RequestsMayFail \/ (meta # NoObject /\ ~Accepts)
  /\ ret' = "error"
  /\ UNCHANGED <<bucket, fapl, table>>

(* close deletes the driver, a crash loses it; neither writes anything.    *)
EndSession ==
  /\ page_size # 0
  /\ page_size' = 0
  /\ cached' = {} /\ dirty' = {}
  /\ UNCHANGED <<bucket, fapl, ret>>

-----------------------------------------------------------------------------
(* Faulty: an object shorter than a page is taken for the page.            *)
FetchUnchecked(p) ==
  /\ page_size # 0
  /\ p \notin cached
  /\ objects[p] # NoObject => objects[p] <= page_size
  /\ cached' = cached \cup {p}
  /\ UNCHANGED <<bucket, fapl, page_size, dirty, ret>>

(* read_page of a page that is not cached.  The GET of an object that is   *)
(* longer than a page throws in the write callback of the transfer, that of*)
(* a shorter one in s3_kv_store::read; a 404 is a page of zeros.  A write  *)
(* fetches its page too, even when it covers the page.                     *)
Fetch(p) ==
  /\ page_size # 0
  /\ p \notin cached
  /\ objects[p] \in {NoObject, page_size}
  /\ cached' = cached \cup {p}
  /\ UNCHANGED <<bucket, fapl, page_size, dirty, ret>>

(* A write to a page that is cached.                                       *)
Write(p) ==
  /\ p \in cached
  /\ dirty' = dirty \cup {p}
  /\ UNCHANGED <<bucket, fapl, page_size, cached, ret>>

(* The PUT of a dirty page, by flush or before an eviction.  When its reply*)
(* is lost the page stays dirty.                                           *)
Store(p) ==
  /\ p \in dirty
  /\ objects' = [objects EXCEPT ![p] = page_size]
  /\ dirty' = dirty \ {p} \/ (RequestsMayFail /\ UNCHANGED dirty)
  /\ UNCHANGED <<meta, fapl, page_size, cached, ret>>

(* read_page gives the node of a page that is clean or was just stored to  *)
(* another page.  After a failed GET a dirty page can lose its entry in the*)
(* map as well (see the run FailedGetsMemory); its node is stored later.   *)
Evict(p) ==
  /\ p \in cached
  /\ p \in dirty => RequestsMayFail
  /\ cached' = cached \ {p}
  /\ UNCHANGED <<bucket, fapl, page_size, dirty, ret>>

(* table::truncate: the pages after max are not to be stored.              *)
Truncate(max) ==
  /\ page_size # 0
  /\ dirty' = {p \in dirty : p <= max}
  /\ UNCHANGED <<bucket, fapl, page_size, cached, ret>>

(* table::flush ends with the PUT of .meta, a text that the constructor    *)
(* cannot parse (see S3KvStore!FlushedMeta).                               *)
FlushMeta ==
  /\ page_size # 0
  /\ dirty = {}
  /\ meta' = [page_size |-> page_size, readable |-> FALSE]
  /\ UNCHANGED <<objects, fapl, table, ret>>

-----------------------------------------------------------------------------
(* The bucket holds nothing, or a file whose .meta can be parsed, with     *)
(* pages of the size that it states.  No driver is set in the list.        *)
Init ==
  /\ meta \in [page_size : Size, readable : {TRUE}] \cup {NoObject}
  /\ objects \in [PageId -> IF meta = NoObject THEN {NoObject}
                            ELSE {NoObject, meta.page_size}]
  /\ fapl = [page_size |-> 0, complete |-> FALSE]
  /\ page_size = 0 /\ cached = {} /\ dirty = {}
  /\ ret = "none"

Session == Open \/ OpenFails \/ EndSession \/ \E params \in Fapl : SetFapl(params)

Table ==
  \/ \E p \in PageId : Fetch(p) \/ Write(p) \/ Store(p) \/ Evict(p) \/ Truncate(p)
  \/ FlushMeta

Next == Session \/ Table

Spec == Init /\ [][Next]_vars

-----------------------------------------------------------------------------
(* Properties                                                              *)

(* No session replaces a page object by one of another size, not even one  *)
(* that finds the pages of a session with another size which died before   *)
(* it had written .meta: each id would then name other addresses, and the  *)
(* old bytes could never be read again.                                    *)
PagesKeepTheirSize ==
  [][\A p \in PageId : objects[p] # NoObject => objects'[p] = objects[p]]_vars

(* kv_driver.h: a page size passed when opening an existing file must match*)
(* it.  So the pages of a file that was found with its .meta are of one    *)
(* size, whatever sizes the sessions since then asked for.                 *)
FileOfOneSize ==
  meta # NoObject /\ meta.readable =>
    \A p \in PageId : objects[p] \in {NoObject, meta.page_size}
=============================================================================
