------------------------------ MODULE S3KvStore ------------------------------
(***************************************************************************)
(* s3_driver::s3_kv_store: a map from page ids to pages kept as objects of *)
(* a bucket, one object per page, and one .meta object that holds the page *)
(* size, the number of allocated pages and the set of invalid pages.       *)
(*                                                                         *)
(* The bucket (objects, meta) outlives the process.  allocated_pages and   *)
(* invalid_pages are the members m_allocated_pages and m_invalid_pages of  *)
(* the store object and die with it.                                       *)
(*                                                                         *)
(* A request to S3 either succeeds or makes the client throw.  A PUT that  *)
(* throws may or may not have been applied: the reply can be what was lost.*)
(***************************************************************************)
EXTENDS Paging, FiniteSets

CONSTANTS
  Byte,      \* byte values, 0 among them
  NoObject   \* "the bucket holds no such object" (a GET answers 404)

ASSUME ByteAssumption     == 0 \in Byte
ASSUME NoObjectAssumption == NoObject \notin [Offset -> Byte]

VARIABLES
  objects,          \* the page objects of the bucket
  meta,             \* the .meta object of the bucket
  allocated_pages,  \* s3_kv_store::m_allocated_pages
  invalid_pages     \* s3_kv_store::m_invalid_pages

bucket    == <<objects, meta>>
store     == <<allocated_pages, invalid_pages>>
storeVars == <<bucket, store>>

PageData == [Offset -> Byte]
ZeroPage == [i \in Offset |-> 0]
PageCount == 0 .. MaxAddr \div PageSize + 1

-----------------------------------------------------------------------------
(* The .meta text, as far as its two readers can tell texts apart: whether *)
(* "allocated_pages" is followed by "=", and what follows each page id in  *)
(* the braces.                                                             *)
Separator == {"comma", "space"}

MetaText == [page_size : Nat, equals : BOOLEAN, allocated_pages : PageCount,
             separator : Separator, invalid_pages : SUBSET PageId]

(* What flush() prints: no "=" after allocated_pages, a comma after every  *)
(* invalid page (the get() that should drop the last comma moves the read  *)
(* position of the stream and leaves str() as it was).                     *)
FlushedMeta ==
  [page_size |-> PageSize, equals |-> FALSE, allocated_pages |-> allocated_pages,
   separator |-> "comma", invalid_pages |-> invalid_pages]

(* What the constructor's regular expression accepts.                      *)
MatchesMetadataRegex(m) ==
  /\ m.equals
  /\ m.invalid_pages # {} => m.separator = "space"

-----------------------------------------------------------------------------
(* The page a successful s3_kv_store::read of p delivers when the bucket   *)
(* holds objs.  For a page past max_page() or in m_invalid_pages the code  *)
(* clears the buffer, but it goes on to the GET, which overwrites the      *)
(* buffer when the object exists.                                          *)
Fetched(objs, p) == IF objs[p] = NoObject THEN ZeroPage ELSE objs[p]

(* Faulty: the page count follows the last write instead of the highest.   *)
KvWriteCountsLast(p, data) ==
  /\ objects' = [objects EXCEPT ![p] = data]
  /\ allocated_pages' = p + 1
  /\ invalid_pages' = invalid_pages \ {p}
  /\ UNCHANGED meta

(* Faulty: the page stays recorded as invalid.                             *)
KvWriteStaysInvalid(p, data) ==
  /\ objects' = [objects EXCEPT ![p] = data]
  /\ allocated_pages' = IF p + 1 > allocated_pages THEN p + 1 ELSE allocated_pages
  /\ UNCHANGED <<meta, invalid_pages>>

(* s3_kv_store::write when the PUT succeeds.                               *)
KvWrite(p, data) ==
  /\ objects' = [objects EXCEPT ![p] = data]
  /\ allocated_pages' = IF p + 1 > allocated_pages THEN p + 1 ELSE allocated_pages
  /\ invalid_pages' = invalid_pages \ {p}
  /\ UNCHANGED meta

(* s3_kv_store::write when set_object throws: the members stay as they     *)
(* were, the object may have been replaced.                                *)
KvWriteThrows(p, data) ==
  /\ objects' \in {objects, [objects EXCEPT ![p] = data]}
  /\ UNCHANGED <<meta, store>>

(* Faulty: the loop runs while page_id <= m_allocated_pages.               *)
KvSetMaxPageInclusive(max) ==
  /\ invalid_pages' = invalid_pages \cup (max + 1 .. allocated_pages)
  /\ allocated_pages' = max + 1
  /\ UNCHANGED bucket

(* s3_kv_store::max_page(max).                                             *)
KvSetMaxPage(max) ==
  /\ invalid_pages' = invalid_pages \cup (max + 1 .. allocated_pages - 1)
  /\ allocated_pages' = max + 1
  /\ UNCHANGED bucket

(* s3_kv_store::flush: the PUT of the .meta object succeeds, or throws.    *)
KvFlush ==
  /\ meta' = FlushedMeta
  /\ UNCHANGED <<objects, store>>

KvFlushThrows ==
  /\ meta' \in {meta, FlushedMeta}
  /\ UNCHANGED <<objects, store>>

(* table::eof(): the end of the file as the store knows it.                *)
Eof == allocated_pages * PageSize

-----------------------------------------------------------------------------
(* A store opened on a name that holds nothing.                            *)
StoreInit ==
  /\ objects = [p \in PageId |-> NoObject]
  /\ meta = NoObject
  /\ allocated_pages = 0
  /\ invalid_pages = {}

StoreTypeOK ==
  /\ objects \in [PageId -> PageData \cup {NoObject}]
  /\ meta \in MetaText \cup {NoObject}
  /\ allocated_pages \in PageCount
  /\ invalid_pages \subseteq PageId
=============================================================================
