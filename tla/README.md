# A TLA+ model of h5s3

h5s3 is a file driver for hdf5 that keeps a file as objects of an S3 bucket: one
object per fixed-size page and one `.meta` object. hdf5 sees a byte-addressed
file; the driver turns its accesses into page GETs and PUTs through a
write-back LRU cache. This directory holds the TLA+ modules of that system, the
TLC configurations that check them and the proofs that TLAPS checks.

Paths below are relative to `src/`; `page.h`, `curl.h`, `s3_driver.h` and
`out_buffer.h` are in `include/h5s3/private/`, `kv_driver.h` in `include/h5s3/`,
the `.cc` files in `src/`.

## 1. The system

| part | state | operations | interacts with |
|---|---|---|---|
| `kv_driver` (kv_driver.h) | page table, `m_eoa` | open, close, read, write, flush, truncate, get/set_eoa, get_eof | called by hdf5, one call at a time; turns exceptions into -1 |
| `page::table` (page.h) | list of page buffers `m_lru_order` (owns them), map `m_page_cache` from page id to list node | read, write, flush, truncate, eof; inside, read_page | calls the store, which may throw at any call |
| `page::table::page` (page.h) | bytes, `m_dirty`, `m_zero_on_use` | read, write, reset, invalidate | |
| `s3_kv_store` (s3_driver.h, .cc) | `m_allocated_pages`, `m_page_size`, `m_invalid_pages`; page objects and `.meta` in the bucket | from_params and constructor, read, write, flush, max_page | calls the S3 client |
| S3 client, notary (s3.h, s3.cc) | signing time and key, fixed at construction | get_object, set_object | signs a request with the key of its day, calls curl |
| `curl::session`, `out_buffer` (curl.h, .cc, out_buffer.h) | what is left to upload, what is left of the buffer | get, put, their callbacks | called back by libcurl with pieces of any size |
| hash, error, literals, Python binding | none | | |

A process has no threads. What makes the code hard is failure and order, and
other processes:

- every GET and PUT can throw, in the middle of an access, an eviction or a
  flush, and a PUT that throws may have been applied;
- read_page changes the list, a node's id and the map in separate statements
  with a PUT and a GET between them;
* truncation acts on three things that are updated apart: the cached pages, the
  page count and the record of invalid pages;
* a process can die at any moment, and pages are overwritten in place;
* one session prints `.meta`, another parses it;
* every process has its own cache of a bucket it may share;
* a session signs all its requests for the instant at which it was opened;
* boundaries: calls that end on a page boundary, page 0, the last page.

What makes each part correct:

* page table: hdf5 reads what it wrote (a memory); dirty data is never
  forgotten; list and map agree; the cache is bounded and LRU; flush makes
  durable.
* store: the page count covers the data; the record of invalid pages holds no
  live page; `.meta` can be read back; truncated pages are zero.
* driver: a crash leaves the last flush or something newer; a file keeps its
  page size whatever sizes sessions ask for.
* transfer: a request is atomic and delivers whole pages; S3 can verify it.
* two users: a reader never goes back in time and never stores anything.

`PROJECT.json` lists the hazards at their lines, with the properties for each.

## 2. Modules

| module | models |
|---|---|
| `Paging` | the arithmetic of table::read/write (page.h:223-289): how a call is cut into segments, each within one page |
| `S3KvStore` | `s3_kv_store`: the bucket (`objects`, `meta`) and the two members, one operator per method, with a variant for the method that throws |
| `PageTable` | `page::table` and the callbacks of `kv_driver` within one session: variables, one action per outcome of read_page, flush, truncate, set_eoa; the properties |
| `AddressSpace` | abstract: a byte-addressed memory with failing calls |
| `LruCache` | abstract: an LRU cache of keys |
| `PageTableRefinement` | the refinement mappings from `PageTable` to both |
| `KvDriver` | composes `PageTable` with open, close and crash: sessions over one bucket, all of one page size |
| `PageSizes` | sessions that ask for different page sizes: the property list, from_params, the check of `.meta`, and of each page object its length |
| `TwoUsers` | composes two instances of `PageTable` over one bucket: two processes with the same file open |
| `AtomicObject` | abstract: the atomic request for one object that `S3KvStore` and `KvDriver` assume |
| `Notary` | the S3 client: how a request is signed, and how S3 verifies it, as operators over terms |
| `S3Transfer` | one signed GET or PUT of a page or of `.meta`, with libcurl's callbacks, S3's answers and a clock |
| `MCPageTable`, `MCKvDriver`, `MCPageSizes`, `MCTwoUsers`, `MCS3Transfer` | for TLC: a VIEW where one is used |
| `PagingProofs`, `PageTableProofs`, `CoherenceProofs` | theorems and proofs about `Paging` and `PageTable`; each extends the one before |
| `RefinementProofs` | that `PageTable` implements `AddressSpace` and `LruCache` |
| `KvDriverProofs`, `TwoUsersProofs` | theorems and proofs about `KvDriver` and `TwoUsers`, from what `CoherenceProofs` says of one table |
| `PageSizeProofs` | theorems and proofs about `PageSizes` |
| `TransferProofs` | theorems and proofs about `S3Transfer`, last that it implements `AtomicObject` |

### PageTable and the code

List nodes are never freed while a table lives, so they are numbered:
`pages[n]` is node n, `lru_order` the list as node numbers, `page_cache[p]` the
node an entry of the map designates or `None`. `m_allocated_pages` of the table
is `Len(pages)`. A callback in progress is the record `call`: which, its range,
the caller's buffer, and `k`, the next page access of a read or write and the
position in the list of a flush. The code serves the first
page, then the last, then the ones between, and so does `Segment(.., k)`.

One step serves one page access, that is one `read_page` followed by the
page's `read` or `write`. The outcomes are separate actions:

| code | action |
|---|---|
| page.h:125-134 | `AccessHit` |
| page.h:152-175, GET succeeds / throws | `AccessAllocate` / `AccessAllocateThrows` |
| page.h:136-175, GET succeeds / throws | `AccessEvict` / `AccessEvictThrows` (the victim already written back, renamed and erased) |
| page.h:141, PUT throws | `WriteBackThrows` |
| page.h:84-90 outside the buffer | `AccessOverrun` |
| end of kv_driver::read/write | `ReturnOk`; every throw is also the return of -1 |
| page.h:294-299, a clean / a dirty page | `FlushSkip` / `FlushPage`, `FlushPageThrows` |
| page.h:300 | `FlushMeta`, `FlushMetaThrows` |
| page.h:313-322 with s3_driver.cc:125-131 | `Truncate` |

A step is as coarse as a page access because nothing else runs between its
statements; the exceptions that can leave it in the middle are the `Throws`
actions. hdf5's side: it keeps accesses below the end of allocation it set, and
makes no access of zero bytes.

A flush is one walk over the list, by position, as the range-for of page.h:294 is:
a page is looked at once, dirty or not. `MoveToFront` is std::list::splice. That
the list neither loses nor repeats a node is what std::list gives the code; here
it is a part of the inductive invariant (section 4) and not a claim about the
code.

Undefined behaviour: the memset of page.h:86-88 leaves the buffer when the
offset is smaller than twice the length. The access then either ends as if
nothing had happened or sets `undefined`, after which the model stops (`Halted`).

Abstractions: bytes are a small set; a buffer no GET has filled is marked
`filled = FALSE` and its content is not represented (it is never used, a
theorem); `.meta` is a record of what its readers can tell apart.
`dropped` and `survivors` are history variables.

`S3KvStore!Fetched` gives a page what its object holds even for a page past
`max_page()` or recorded as invalid: read clears the buffer for these pages,
then goes on to the GET, which overwrites it (s3_driver.cc:136-145).

### KvDriver and the code

`OpenFresh`, `OpenExisting`, `OpenFails` are the outcomes of kv_driver::open with
from_params and the constructor of the store: 404, a `.meta` it accepts, or an
exception, which is always possible.
A session begins without invalid pages: the store is moved into the table and
its move constructor (s3_driver.h:34-41) does not move the set. `Close` deletes
the driver between calls and flushes nothing (kv_driver.h:149-152); `Crash` does
the same in the middle of a call. All sessions have the page size `PageSize`. The
bucket starts empty or with a file that was made by something else: one written
by this code cannot be opened (see `MetaText`).

### PageSizes and the code

The property list `fapl` has a page size, 0 for none, and is `complete` or not.
set_fapl may be called at any time, also while a file is open, and can fail
(kv_driver.h:335-337), which leaves the list as it was (`SetFapl`). The Python
binding fills in both keys and the host or raises before it calls set_fapl; a
caller in C++ may pass null for each of them. from_params throws for a null key
(s3_driver.cc:100-105). For a null host it chooses the default host and then
passes on the null pointer instead (s3_driver.cc:115-122), which makes libstdc++
throw: such a list is not `complete` either. from_params turns 0 into 2 MB
(`EffectivePageSize`), so the branch of the constructor for 0 is never taken.

`Open` is the 404 of a file without `.meta`, or the check of the size it states
(`Accepts`); the two differ when a session has died before its first flush and left
pages of a size that nothing states. What then keeps a session of another size
from mixing its pages with those is that read_page GETs a page before any
write, even one that covers the page, and that the GET of an object of another
length throws: in the write callback if it is longer (curl.cc:73-75), in
s3_kv_store::read if it is shorter (s3_driver.cc:144-146). `Fetch` is that GET.

Of a page object the module keeps the length, of the table the set of mapped
pages and the set of pages with a dirty node. `Evict` takes any page at any
time: the LRU order and the cache size only choose among these. When GETs fail a
dirty page can also lose its entry (`FailedGetsMemory`), so `Evict` allows it then.

### TwoUsers and the code

The first user is `PageTable`, the second the instance `R` of it with variables
of its own; the bucket is shared. Both have opened the file, keep the end of
allocation at `MaxAddr` and do not truncate. The second only reads, or writes
too: `second_writes` is chosen once. A reader's hdf5 calls neither write nor
flush. The writes to an address carry the numbers 1, 2, .. (`latest`), so a byte
tells which write it comes from; `seen` is what was last delivered to the
second user.

A step is a page access. An eviction's PUT and the GET that follows it are one
step: they name different pages, and a user that only reads issues nothing but
GETs, so what it does between them could be put before or after. With two
writers the step leaves out orders in which one writer's whole eviction falls
between the two requests of the other's; the property of that case,
`NothingInvented`, is about which bytes exist and not about their order.

S3 is taken to return the last object stored. docs/source/warnings.rst:15 calls
it eventually consistent, as it was at the time; then even a single user's
evicted page could come back old, and nothing in the code would notice.

### Notary, S3Transfer and the code

`Notary` follows s3.cc line by line: calculate_signing_key, the canonical
request, the string to sign, the Authorization header, the headers of inner_get
and set_object, curl's set_headers. A hash is a term: `Hmac(k, d)` equals
another only if key and data do. `SignatureByS3` and `Verifies` are S3's side,
written from Signature Version 4 and not from the client's operators, so that
a disagreement between the two would show. Instants are numbers, a day has
`DayLength` of them, and S3 accepts a request up to `Window` after the instant
it was signed for.

The actions of `S3Transfer` are the callbacks of curl.cc (`ReadCallback`,
`WriteCallback`, `WriteCallbackThrows`, `AppendCallback` for a string), the ends
of curl::session, s3_kv_store::read and the constructor (`ReturnPage`,
`ReturnZeroPage`, `ReturnText`, `ReturnAbsent`, `ReturnPut`, `ThrowForStatus`,
`ConnectionLost`), and the server's answers, which are external: 403 for what it
cannot verify or finds too old. `Open` is the construction of a store: a new
notary for the present instant, and the GET of `.meta`. The behaviour concerns one
key, a page's or `.meta`'s. The page buffer starts with arbitrary bytes, since
read_page reuses buffers. The exception the write callback throws passes through
libcurl's frames; the model takes it to arrive, as the code expects. Failing
to create a curl handle or the list of headers ends a request as
`ConnectionLost` does.

## 3. Runs

Each takes less than two minutes with two workers. Deadlock is checked in all of them.

| run | constants | shows |
|---|---|---|
| `WriteBack` | pages of 1 byte, 2 addresses, cache 2, PUTs fail | list and map in step; write-back loses nothing; flush makes durable; `PageTable` implements `AddressSpace` and `LruCache` |
| `EndOfFile` | pages of 2, 3 addresses, cache 1, PUTs fail | types; the page count and the invalid pages under truncation and lost replies; `AddressSpace` again, with segments inside pages |
| `FailedRequests` | 2/2/1, all fail | the map stays honest and unfilled buffers unused |
| `Sessions` | 1/2/2, PUTs and opens fail | closes and crashes at any step |
| `PageSizes` | sizes 1, 2 (the default) and 3, two pages, requests fail | no page object is replaced by one of another size; a file found with `.meta` keeps its size |
| `TwoUsers` | 1/2/1 for each user, two writes to an address, PUTs fail | a reader beside a writer, or a second writer |
| `Transfer` | pages of 2 bytes, bodies up to 3, 4 instants, days of 2, window 1 | `S3Transfer` implements `AtomicObject`; S3 refuses late requests only |

The address space has one page more than its addresses fill, because a call
that ends at the last address also names the page after it. So a cache of 1 or 2 pages always meets more pages than it
holds, and evictions, write-backs of another page and hits that reorder the
list all happen. A page of 2 bytes shared by 3 addresses gives partial pages on
both sides; pages of 1 byte give calls of three segments. Two byte values let a
stale byte be told from a new one; runs whose property does not look at bytes use one.

Bounds: `MaxAddr` bounds the address space, `MaxOrphans` the number of nodes
failed GETs may leave in the list (a GET stops failing when that many are
there), `LastPage` the page ids of `PageSizes` (pages interact only through the
page size, so two are enough for one to be stored and one not), `MaxBody` the
size of objects and of error bodies, `MaxTime` the clock (it passes one midnight,
and both sides of it are reached by notaries in and out of the window), `Byte`
in `TwoUsers` the number of writes to an address. Nothing else is bounded: runs
explore all sequences of calls.

GETs of pages fail in `FailedRequests`, `FailedGetsCache` and `FailedGetsMemory` only:
the properties of the other runs need that they do not, as the last two show.

VIEWs: `TableView` leaves out `meta`, which no action of one session reads;
`SessionView` leaves out `ret`, the page count and the invalid pages, and of
`meta` all but whether it is there and parses (nothing else depends on them, and
a flushed `.meta` never parses). Guards and properties of these runs do not
distinguish the states a VIEW identifies. `UsersView` leaves out the same members
of both stores, and `seen` where the second user writes; `FailedRequests`,
`MetaText`, `PageSizes` and `Transfer` use none.

Properties worth a word:

* `OnlyDirtyPagesDiffer`, `CleanOnlyWhenStored`, `FlushMakesDurable`: the
  write-back discipline, over the bucket, the cache and the steps between.
* `EofCoversData`, `InvalidPagesHoldNothing`: they concern what is kept; bytes
  that truncate cut off (`dropped`) are excluded until written again, since
  `TruncatedPagesReadZero` does not hold.
* `ImplementsAddressSpace`: the strongest statement about reads and writes.
  Calls may fail after part of their bytes; success means all.
* `CleanOnlyWhenStored`: besides a write that stored it, only truncate may clear
  the mark of a page, and only of one past the end of allocation.
* `SurvivorsOnly`: `survivors[a]` is the byte of the last successful flush and
  all bytes written since; the bucket and the readers only ever see those.
* `PagesKeepTheirSize`: a session that finds pages of another size, because the
  session which wrote them died before it had written `.meta`, cannot replace any
  of them. It may store pages where there were none, so the bucket can hold pages
  of several sizes; `FileOfOneSize` says that a file with a `.meta` that can be
  read does not get there.
* `ReaderNeverGoesBack`: docs/source/warnings.rst says that other clients see
  stale data for a potentially unlimited time. They do, but no byte a reader was
  given is ever followed by an older one at the same address: the writer never
  stores an older page over a newer one, and the reader's map never leads to
  another page's node.
* `OnlyLateRequestsAreRefused`: the notary keeps one instant for the scope, the
  string to sign, the date header and the key, so every request of the session
  verifies, past midnight too. The other side is that a session older than
  the window cannot store its dirty pages any more: all its requests are refused
  until the file is opened again, which discards them.
* `ImplementsAtomicObject`: a page is delivered whole or not at all, and only a
  404 makes the constructor take a file for new.

### Disagreements between the code and what is said of it

Each has a run that expects the violation; `PROJECT.json` quotes the lines.

| run | what happens |
|---|---|
| `FailedGetsCache` | the node it left lets the map outgrow the cache size for good |
| `FailedGetsMemory` | evicting it erases the entry of a live page: a written byte is lost |
| `TruncatedPages` | truncated content comes back when the page is fetched again |
| `WriteAfterTruncate` | a memset runs past the page buffer |
| `MetaText` | a flushed file can never be opened again |

Four more of the same kind are in the models without a run of their own. page_size
0 means 2 MB (`EffectivePageSize`), although kv_driver.h:320-321 says that it reads
the value out of an existing file, so an open with 0 of a file of another page size
fails. The retry of a failed GET allocates a new node although page.h:153-155
wants the buffer reused (`AccessAllocate` after `AccessAllocateThrows`; the cause of the
two `FailedGets..` violations). A call that ends on a page boundary also accesses
the next page, so it fetches and a write even stores a page it has no bytes of
(`LastPageOf`). An absent page cannot be read when S3's 404 body is larger than
a page, because the write callback throws before the status is looked at
(`WriteCallbackThrows`).

### Fairness

No run assumes any, and no liveness is claimed. A callback is a loop over the
pages of its range or over a list that does not change while the loop runs, so
it ends whatever the requests answer, and no property of it could fail. The one
way not to return is a request that does not end: curl_easy_perform is called
without a timeout (curl.cc:90), so a server that stops answering blocks hdf5 for
ever. The models take every request to end, with success or an exception; nothing
in the code makes one end, and a fairness assumption would hide just that. hdf5
is not obliged to make calls, nor requests to succeed.

## 4. Theorems

All hold for every page size, address space, cache size, set of byte values,
length of a day and acceptance window, with any failing GETs and PUTs unless
said otherwise. They assume the ASSUMEs of the modules: `PageSize`, `CacheSize`
and `DayLength` positive, 0 a byte, `NoByte` and `NoObject` outside the data,
`MaxBody` at least a page.

* `SegmentInBounds`, `SegmentsCoverTheCall`: no segment leaves its page or the
  caller's buffer, and together they are the call.
* `TypeCorrect`, `MapIsHonest`, `UnfilledPagesUnused`: the invariants `TypeOK`,
  `MapPointsHome`, `NoUnfilledPageIsUsed`.
* `CacheStaysBounded`, `NoNodeIsLost`: without failing GETs, `CacheBounded` and
  `EveryNodeMapped`. With them both are false: `FailedGetsCache` shows the first,
  its trace the second.
* `DirtyPagesKept`: the action property `CleanOnlyWhenStored`.
* `NothingIsLost`, `EndOfFileCoversData`, `InvalidPagesAreEmpty`, `FlushIsDurable`:
  without failing GETs, but with failing PUTs and truncations,
  `OnlyDirtyPagesDiffer`, `EofCoversData`, `InvalidPagesHoldNothing` and the action
  property `FlushMakesDurable`. `FailedGetsMemory` shows a written byte lost when
  a GET has failed.
* `TableIsAMemory`, `CacheIsLru`: without failing GETs, `PageTable` implements
  `AddressSpace` and `LruCache` (`ImplementsAddressSpace`, `ImplementsLruCache`).
  The first is the contract of the whole cache: what hdf5 reads is what it wrote.
* `OnlySurvivors`: without failing page GETs, `SurvivorsOnly`.
* `FoundFileOfOneSize`, `PageSizesLast`: `FileOfOneSize` and `PagesKeepTheirSize`, for
  any sizes and number of pages, with any failures.
* `NothingIsInvented`, `ReadersAreHarmless`, `ReadersSeeProgress`: without failing
  GETs, `NothingInvented`, `ReadersStoreNothing` and `ReaderNeverGoesBack`.
* `UploadOrder`, `Acceptance`: `UploadsInOrder` and `OnlyLateRequestsAreRefused`.
* `Atomicity`: `S3Transfer` implements `AtomicObject` (`ImplementsAtomicObject`), which
  is what the models of the page table take a request to be.

The inductive invariant is `IInv == StoreTypeOK /\ TablesInv /\ CallInv`:
`TablesInv` is the typing of list, nodes and map with the three table
invariants, `CallInv` that a call in progress is well formed. `TypeOK` alone is
not inductive: a byte a write stores is typed only because the call's buffer
has a byte at each of its addresses (`CallWellFormed`, with the two theorems on
segments), and the node stolen by a miss exists only because the list is a
permutation of the nodes and a full map designates some of them. `MapPointsHome`
in turn is needed to see that erasing the victim's id leaves the other entries
on nodes that were not renamed. The proof has one lemma per action; four lemmas
(update, steal, grow, mark) say what the actions do to the tables.
`BoundInv`, that the map has exactly one entry per node, is kept as long as no GET
throws; its step for a miss counts the map with the facts on finite sets.
`WalkInv` says that a flush has left no dirty page behind it in the list. As the
list is a permutation of the nodes, none is dirty when the walk has ended
(`WalkedAllClean`), which `FlushIsDurable` and `OnlySurvivors` rest on.

"Without failing GETs" is the hypothesis `~GetMayFail`. It is needed: `FailedGetsMemory` shows the address space,
and with it what survives, lost to a node that a failed GET left behind.

### One page at a time

What the cache and the bucket make of the file is proved page by page, whichever
node holds a page: `Object(q)` is what the bucket has of page q, `Held(q)` what the
cache has (the same when q is not cached), `Zeroed(q)`, `CachedDirty(q)` and
`Counted(q)` are its flags and whether the store counts it. `NextFate` says that
a step does one of six things to every page (`Fate`): it keeps it, serves the
current segment from it, stores it, fails to store it (which may have stored it),
gives its buffer away, or cuts it off. Here the list, the map and the node
numbers disappear; it needs `IInv`, and `BoundInv` because erasing the victim's
id could otherwise remove the only dirty copy of another node's page. A write
returns bytes to those that must be visible (`dropped` shrinks), so the step that
serves needs that a segment lies in its page (`CurrentAddrsInPage`).

Everything else is read off from `Fate`:

* `CohInv`, for the coherence of cache and bucket: a page is dirty, or what is
  held of its bytes that must be visible is what the bucket has; a page to be
  zeroed is not dirty (else flush would store its old bytes) and owes no byte to
  anyone. `CountInv`: a page is dirty, or counted and not recorded as invalid, or
  zero. Each is inductive by itself, one case per kind of step.
* `TableIsAMemory`: under the mapping, memory at an address is `Visible`. An access
  that serves changes `Visible` at the addresses of its segment as AddressSpace's
  access does; a step that stores, fails to store or gives away changes it
  nowhere, which is `CohInv`; truncation changes it where it may. `CacheIsLru` maps
  the list to the order of the page ids in it; there every entry of the list is
  a mapped page (`BoundInv`), so moving a node is touching its page and the node
  stolen is the page used least recently.
* `OnlySurvivors`: the invariant (`SurvInv`) is that the bytes that the bucket and
  the cache have of a page are survivors, and that zero is one where truncate has
  cut the address off. A step moves bytes between the two, or brings in one
  from the buffer of a write, which `Recorded` has added. A flush that succeeds
  leaves no page dirty, so by `CohInv` the bucket has all that a reader sees, and
  those bytes are the new survivors.
* Two users: a table's page that is not dirty may be older than the bucket's, so
  `CohInv` is lost and only `UserInv` is left (`IInv`, `BoundInv`, nothing to be
  zeroed, nothing cut off). A user's step changes its own bytes as `Fate` says
  (`UserBytes`); the other's change only where they are not cached, to what the
  bucket then has (`OtherStepBytes`). `BytesWritten`: the bytes of the bucket, of
  both caches and of writes in progress have been written. `ReaderInv`: a reader has
  no dirty page, and at every address what it saw last is no newer than what its
  cache has, that no newer than the bucket's byte, that no newer than the
  writer's, and that no newer than the byte that the writer is about to put there.
  This order is what makes `ReaderNeverGoesBack` inductive: a page that the reader
  evicts and fetches again comes from the middle of it.

### Page sizes

`PageSizesLast` rests on one invariant (`OwnPages` in the proofs): a page that is
mapped or dirty has no object, or one of the size of the session. Fetching
establishes it, storing keeps it, and the end of a session empties the sets. For
`FoundFileOfOneSize`, a session on a file with a readable `.meta` has the size that
it states (`OwnMeta`), since `Open` compared them and a flush leaves a `.meta` that
is not readable.

### The transfer

For the transfer, `IInv` says that the message of a request in progress is the
one its notary signed, at the notary's own time (`SignedMessage`). `MessageVerifies`
then proves that S3, from the message alone, arrives at the same canonical
request, scope and key; so what it refuses is late. `DownloadInv` adds what a
download has delivered: for a page, the bytes so far and those still to come are
the object's; for a text, the two joined are the object. `NextIsAtomic` maps each
step to one of `AtomicObject` or to none.

Every property of a passing run has a theorem; those of the runs that expect a
violation are false and have none. Liveness under fairness, ENABLED, induction
over data and RECURSIVE operators would be out of the prover's reach; no module
uses them.

## 5. Not modelled

* what two writers make of each other's writes beyond `NothingInvented`
  (docs/source/warnings.rst excludes a second writer), eventual consistency, and
  a PUT that S3 applies after a later one;
* the bits of the hashes and the OpenSSL calls; keys with characters that need
  URI encoding;
* the parsing of the URL in from_params; the cache size computed from a page
  size over 4 GB (it would be 0); the open flags, which the code ignores; the
  lifetime of the strings the property list points to; the registration of the
  driver class;
* two sessions of different page sizes at the same time: `PageSizes` has one after
  another, `TwoUsers` two of one size;
* hdf5 itself, the argument checks of the Python binding, tests, examples, build files.

## 6. Plan

1. done: `Paging`, `S3KvStore`, `PageTable`, their abstract specifications, runs
   and first theorems; `KvDriver` (sessions).
2. done: `S3Transfer` with `Notary` (signed requests, `.meta` as a text),
   `TwoUsers`; `PageSizes` (the property list, sessions of different page sizes).
3. done: proofs of the coherence of cache and bucket, of the signature, and that
   `S3Transfer` implements `AtomicObject`.
4. done: that `PageTable` implements `AddressSpace` and `LruCache`; the theorems
   about sessions and two users.
5. next: what holds although GETs fail: that the bytes of the bucket are bytes that
   were written, for one table and for two.
