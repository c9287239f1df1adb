-------------------------- MODULE PageSizeProofs --------------------------
(***************************************************************************)
(* Theorems about PageSizes, for every set of page sizes and any number of *)
(* pages, sessions and failed requests.                                    *)
(***************************************************************************)
EXTENDS PageSizes, TLAPS

(* The types of the variables.                                             *)
Typed ==
  /\ objects \in [PageId -> Size \cup {NoObject}]
  /\ meta \in Meta \cup {NoObject}
  /\ fapl \in Fapl
  /\ page_size \in Size \cup {0}
  /\ cached \subseteq PageId /\ dirty \subseteq PageId

(* What a session has of a page, in the map or in a dirty node, came from  *)
(* an object of its own page size or from none.                            *)
OwnPages == \A p \in cached \cup dirty : objects[p] \in {NoObject, page_size}

(* The session that has a file open whose .meta can be parsed works with   *)
(* the page size that it states.                                           *)
OwnMeta == page_size # 0 /\ meta # NoObject /\ meta.readable => meta.page_size = page_size

(* No driver has no pages.                                                 *)
NoneWithoutDriver == page_size = 0 => cached = {} /\ dirty = {}

SizeInv == Typed /\ OwnPages /\ OwnMeta /\ NoneWithoutDriver /\ FileOfOneSize

(* The invariant holds of any bucket found.                                *)
LEMMA InitSizeInv == Init => SizeInv
<1> SUFFICES ASSUME Init PROVE SizeInv
  OBVIOUS
<1>1. Typed
  <2>1. meta \in Meta \cup {NoObject}
    BY DEF Init, Meta
  <2>2. objects \in [PageId -> Size \cup {NoObject}]
    BY <2>1 DEF Init, Meta
  <2> QED
    BY <2>1, <2>2 DEF Init, Typed, Fapl
<1>2. FileOfOneSize
  BY DEF Init, FileOfOneSize
<1> QED
  BY <1>1, <1>2 DEF Init, SizeInv, OwnPages, OwnMeta, NoneWithoutDriver

(* A session asks for a page size, never for none.                         *)
LEMMA EffectiveSize ==
  ASSUME Typed
  PROVE  EffectivePageSize \in Size
BY SizeAssumption DEF Typed, Fapl, EffectivePageSize

(* Opening and closing keep the invariant.                                 *)
LEMMA SessionSizeInv ==
  ASSUME SizeInv, Session
  PROVE  SizeInv'
<1>1. CASE Open
  <2>1. EffectivePageSize \in Size /\ page_size' = EffectivePageSize
    BY <1>1, EffectiveSize DEF SizeInv, Open
  <2>2. cached' = {} /\ dirty' = {} /\ UNCHANGED <<objects, meta, fapl>>
    BY <1>1 DEF Open, SizeInv, NoneWithoutDriver, bucket
  <2>3. Typed' /\ OwnPages' /\ NoneWithoutDriver'
    BY <2>1, <2>2 DEF SizeInv, Typed, OwnPages, NoneWithoutDriver
  <2>4. OwnMeta'
    BY <1>1, <2>1, <2>2 DEF Open, Accepts, OwnMeta
  <2> QED
    BY <2>2, <2>3, <2>4 DEF SizeInv, FileOfOneSize
<1>2. CASE OpenFails
  BY <1>2 DEF OpenFails, bucket, table, SizeInv, Typed, OwnPages, OwnMeta,
              NoneWithoutDriver, FileOfOneSize
<1>3. CASE EndSession
  BY <1>3 DEF EndSession, bucket, SizeInv, Typed, OwnPages, OwnMeta,
              NoneWithoutDriver, FileOfOneSize
<1>4. CASE \E params \in Fapl : SetFapl(params)
  BY <1>4 DEF SetFapl, bucket, table, SizeInv, Typed, OwnPages, OwnMeta,
              NoneWithoutDriver, FileOfOneSize
<1> QED
  BY <1>1, <1>2, <1>3, <1>4 DEF Session

(* So does a PUT of a page, ...                                            *)
LEMMA StoreSizeInv ==
  ASSUME SizeInv, NEW p \in PageId, Store(p)
  PROVE  SizeInv'
<1>1. /\ p \in dirty /\ page_size \in Size /\ page_size # 0
      /\ objects' = [objects EXCEPT ![p] = page_size]
      /\ dirty' \subseteq dirty
      /\ UNCHANGED <<meta, fapl, page_size, cached>>
  BY DEF Store, SizeInv, Typed, NoneWithoutDriver
<1>2. \A q \in PageId : objects'[q] = IF q = p THEN page_size ELSE objects[q]
  BY <1>1 DEF SizeInv, Typed
<1>3. Typed' /\ NoneWithoutDriver'
  BY <1>1 DEF SizeInv, Typed, NoneWithoutDriver
<1>4. OwnPages'
  BY <1>1, <1>2 DEF SizeInv, Typed, OwnPages
<1>5. OwnMeta' /\ FileOfOneSize'
  BY <1>1, <1>2 DEF SizeInv, OwnMeta, FileOfOneSize
<1> QED
  BY <1>3, <1>4, <1>5 DEF SizeInv

(* ... and everything else that the page table does.                       *)
LEMMA TableSizeInv ==
  ASSUME SizeInv, Table
  PROVE  SizeInv'
<1>1. ASSUME NEW p \in PageId, Fetch(p) \/ Write(p) \/ Evict(p) \/ Truncate(p)
      PROVE  SizeInv'
  <2>1. UNCHANGED <<objects, meta, fapl, page_size>>
    BY <1>1 DEF Fetch, Write, Evict, Truncate, bucket
  <2>2. Typed' /\ OwnPages' /\ NoneWithoutDriver'
    BY <1>1, <2>1 DEF Fetch, Write, Evict, Truncate, SizeInv, Typed, OwnPages,
                      NoneWithoutDriver
  <2> QED
    BY <2>1, <2>2 DEF SizeInv, OwnMeta, FileOfOneSize
<1>2. CASE FlushMeta
  <2>1. /\ meta' = [page_size |-> page_size, readable |-> FALSE]
        /\ page_size # 0 /\ UNCHANGED <<objects, fapl, page_size, cached, dirty>>
    BY <1>2 DEF FlushMeta, table
  <2>2. meta' \in Meta /\ ~meta'.readable
    BY <2>1 DEF SizeInv, Typed, Meta
  <2> QED
    BY <2>1, <2>2 DEF SizeInv, Typed, OwnPages, OwnMeta, NoneWithoutDriver, FileOfOneSize
<1> QED
  BY <1>1, <1>2, StoreSizeInv DEF Table

(* Every step keeps the invariant.                                         *)
LEMMA NextSizeInv == SizeInv /\ [Next]_vars => SizeInv'
<1>1. SizeInv /\ UNCHANGED vars => SizeInv'
  BY DEF vars, bucket, table, SizeInv, Typed, OwnPages, OwnMeta, NoneWithoutDriver,
         FileOfOneSize
<1> QED
  BY <1>1, SessionSizeInv, TableSizeInv DEF Next

(* A file found with its .meta keeps pages of one size.                    *)
THEOREM FoundFileOfOneSize == Spec => []FileOfOneSize
<1>1. SizeInv => FileOfOneSize
  BY DEF SizeInv
<1> QED
  BY <1>1, InitSizeInv, NextSizeInv, PTL DEF Spec

(* No page object is replaced by one of another size: a session stores a   *)
(* page only after it has fetched it, and what it could fetch was of its   *)
(* own size, or absent and then stored by nobody else.                     *)
THEOREM PageSizesLast == Spec => PagesKeepTheirSize
<1> DEFINE Keeps == \A p \in PageId : objects[p] # NoObject => objects'[p] = objects[p]
<1>1. SizeInv /\ [Next]_vars => [Keeps]_vars
  <2> SUFFICES ASSUME SizeInv, Next PROVE Keeps
    OBVIOUS
  <2>1. ASSUME NEW p \in PageId, Store(p)
        PROVE  Keeps
    BY <2>1 DEF Store, SizeInv, Typed, OwnPages
  <2>2. (\E p \in PageId : Store(p)) \/ UNCHANGED objects
    BY DEF Next, Session, Open, OpenFails, EndSession, SetFapl, Table, Fetch, Write, Evict,
           Truncate, FlushMeta, bucket
  <2> QED
    BY <2>1, <2>2
<1>2. Spec => []SizeInv
  BY InitSizeInv, NextSizeInv, PTL DEF Spec
<1> QED
  BY <1>1, <1>2, PTL DEF Spec, PagesKeepTheirSize
=============================================================================
