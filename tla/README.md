# Verification of the MCP XLSM server

TLA+ models of the Go server that lets a language model read large Excel
workbooks over the Model Context Protocol, with TLC instances that check them
and TLAPS proofs of what matters most. Paths are relative to the repository
root; `internal/...` stands for `src/internal/...`.

## 1. The system

A request comes in over HTTP or, line by line, over standard input
(`server.go`), is routed to one of three tools, and is answered from the
workbook on disk, which every call opens anew with excelize.

| component | source | state it keeps | operations |
|---|---|---|---|
| smart cache | `internal/cache/smart_cache.go` | LRU of 1000 keys, tracking table, memory count, statistics | Get, Set, Delete, Clear, GetWithValidation, cleanup goroutine |
| chunks, cursors, navigation | `internal/server/tools.go`, `navigation.go`, `internal/cursor/cursor.go` | none on the server; the client holds cursors | analyze_file, build_navigation_map, ParseCursor |
| index manager | `internal/index/manager.go` | B-tree, inverted index, quadtree, Bloom filter, delta buffer | BuildFromFile, UpdateDelta, three searches |
| query execution | `internal/server/query.go` | none | query_data: strategy, scan of a sheet, count of the answer, the window of its cursor |
| streaming | `internal/streaming/reader.go` | the batch being filled | StreamChunk, ReadWindow, StreamWindow |
| token counter | `internal/token/counter.go` | a memo of counts shared by all requests | Count, CountString, BatchCount, CleanCache, limits and thresholds |
| compression | `internal/compression/manager.go` | none | OptimizeResponse: choice of a codec, truncation; Decompress |
| server, launcher, life cycle | `internal/server/server.go`, `cmd/main.go`, `bin/mcp-xlsm.js` | the HTTP server, the maintenance ticker, the child process | launch, Start, StartStdio, Shutdown, routing, health, metrics |
| configuration | `pkg/config/config.go` | one record | Load |
| installation | `scripts/*.js` | the binary on disk, the registration | install, update |

How they interact: handlers run concurrently (one goroutine per HTTP request);
they share the token counter, whose memo is a `sync.Map`, and the workbook on
disk, behind no lock at all. The cache has its own mutex and no caller among the
handlers: only health and metrics read it, and its cleanup goroutine runs once a
minute beside them. The server remembers nothing of a client between two calls:
all continuity is in the cursors and the checksum the client sends back.

What is hard, and what makes each part correct:

* **smart cache** - two structures kept in step by hand while the LRU drops keys
  by itself; eviction in two passes over a map in random order, which may free
  too little; validation in two critical sections. Correct when a read is of the
  last accepted write, the memory count is within its limit and never too low,
  and an entry lives as long as its time to live says.
* **chunks and navigation** - bounds computed in two handlers from two sizes the
  client sends apart, a file that changes between the calls and inside one of
  them, cursors that expire. Correct when a walk gets every sheet, once.
* **index manager** - three indexes over the same cells, changed by deltas that
  name a cell by a string. Correct when each search finds what a scan of the cells
  would.
* **streaming** - a batch that grows, is sent and is used again, bounds that two
  files compute apart, streams that break half-way. Correct when every row a
  client takes is the row its record says, and no row is missing or twice.
* **query execution** - rows and columns cut at limits, empty ones left out.
  Correct when the answer is the part of the sheet it says it is.
* **token counter** - one memo under two kinds of keys, without a limit and
  without a lock around look-up, count and store. Correct when a question gets
  its own count.
* **compression** - budgets that shrink on the way down a value by counts that
  come from the shared memo, labels that five places spell by hand. Correct when what is left out is announced, what is
  kept fits, and the receiver can decode it.
* **server** - three goroutines and a launcher that start and stop beside each
  other while requests run and signals come. Correct when every signal ends the
  process, requests accepted are finished first, or the grace period is over,
  and neither process outlives the other.
* **installation** - what a failed install leaves to the next.

`PROJECT.json` lists the hazards line by line with the properties aimed at them.

## 2. The modules

| module | models |
|---|---|
| `SmartCache` | all of the cache, one action per exported method (two critical sections of `GetWithValidation`), the cleanup goroutine, the clock |
| `LossyMap` | what a cache promises: a bounded map that may forget a key but never answers an old value. `SmartCache` implements it |
| `MCSmartCache` | constants for TLC |
| `SumTheorems` | sums over finite sets and least elements, for the other proofs |
| `SmartCacheProofs` | proofs about the cache |
| `Navigation` | analyze_file and build_navigation_map as far as sheets, cursors and checksums go, with the clients that follow them and the edits of the workbook |
| `NavigationProofs` | proofs about walks |
| `QuadTree` | the spatial index: a quadtree under inserts, and its queries |
| `Index` | the index manager: the B-tree, the inverted index and the Bloom filter, composed with `QuadTree`, under a build and deltas |
| `MCIndex` | constants for TLC |
| `QuadTreeProofs`, `IndexProofs` | proofs about the quadtree and the manager |
| `Server` | the server process in both modes and its launcher: start, requests, signals, shutdown, exit codes |
| `ServerProofs` | proofs about how they end |
| `Stream` | the readers of chunks and windows, and a client that takes whole streams and asks again for others |
| `MCStream` | constants for TLC |
| `StreamProofs` | proofs about streams |
| `Tokens` | the token counter: its memo under concurrent counts, and what is decided from a count |
| `Query` | how query_data finds its rows |
| `Compression` | what a call of truncation does with the count of a part; budgets, codecs and their labels |
| `Requests` | requests that count tokens beside each other: composes `Tokens`, `Query` and `Compression` |
| `MCRequests` | constants for TLC: values and their parts, which questions share a key of the memo |
| `RequestsProofs` | proofs about counts, queries, limits and truncation |

### SmartCache

`cached` is the content of the LRU and `older` its order of use; `hotData`,
`currentMem` and `stats` are the fields of those names. An entry's `LastAccess`
is kept as its age in ticks of the clock, which saturates past the oldest
threshold, and its `AccessCount` saturates past the one that promotes: nothing
tells larger ones apart. The random order of Go's map iteration is in `Pass`:
the set of all sets of keys that one pass of `evictColdData` may have evicted
when it stops. `expired` is the set of wrapped values whose `ExpiresAt` is past,
`pending` what a caller of `GetWithValidation` holds between its two critical
sections. `accepted` is history: the last `Set` of each key that returned true.

`UsedLast`, `Overflow`, `CachedWithout` and `OlderWithout` model the
`golang-lru` library from how the code uses it (`NewWithEvict`, `Get`, `Add`,
`Remove`): `Add` of a new key to a full LRU drops the least recently used one.

The statistics have their own mutex; they are updated inside the cache's and
read without it, which only their readers can notice (see section 7).

### Navigation

The server is stateless, so the state is the workbook (`count`, `version`), an
`analyze_file` between its two reads of the file (`reading`), and what a client
holds: its last analysis (`plan`), the cursors it has not followed yet (`todo`) and
the sheets got so far (`seen`). Sheets are their positions, contents version
numbers; a checksum is the version it was computed from (SHA-256 taken as
injective). Base64, JSON and the cursor version, which
is a constant, are left out; what `ParseCursor` checks that can fail for a
cursor the server made is its age (`Expired`). A lost answer needs no action:
the handler changed nothing and the client asks again. What else a page holds
(zones, key points, densities, token counts) is left out, and so are its
`checksum_match`, which compares with a constant, and its `next_cursor`, which is
one (section 4).

### QuadTree and Index

A quadtree node is the rectangle it covers and `tree` maps the nodes there are
to their points. The methods recurse; the models say where the recursion ends:
`Leaf` is the deepest node that contains a point, `Visited` the nodes reached
by going down wherever a rectangle meets a node. Coordinates and sizes are
floating-point numbers in the code; in the model they are whole multiples of the
finest fraction in which all of them are exact. With 53 bits of precision the code's
width of 1000 = 125 * 2^3 can be halved 46 times before a corner is rounded: that
is `Unit` = 2^43 fractions between two cells and `Width` = 1000 * 2^43. Where the
half of a side is no longer exact (`Divisible`), a point that comes to a full node
may be kept there or be lost (`InsertCramped`), and is remembered in `cramped`; with
ten points a node that takes more than 460 points at one position.

`Index` keeps the manager's fields: `primary` (the B-tree's items), `inverted`
(per word, how often it lists each location: the code appends and removes one
occurrence a token), `bloom` (the texts added; a collision is the choice `hit`
of a search), and the quadtree. `known` is what the manager was told each cell
holds, `told` under which locations. A build holds the manager's lock to its end;
it is modelled a cell a step so that it can fail between sheets, and nothing else
happens while it runs. A delta names its cell by a string, one of `Names`: the build
spells a location in one way (`At`), `parseLocation` keeps the sheet and the
reference as the delta spells them (`$A$1`, `a1`, a quoted sheet), each of which is a
location of its own to the indexes, and makes one location (`Nowhere`) of every string
it cannot read. The old value a delta carries is that of its own cell, as the name of
`OldValue` implies; there is no caller of `UpdateDelta` in the repository.
`Tokens` is what `tokenizeText` makes of each text. Cell values are strings, and
`parseFloat` takes no string for a number, so that numbers come from deltas
only.

### Server

`main` says where the main function is ("loading" its configuration,
"launched" its server, "waiting" for a signal, "draining" in `Shutdown`,
"reading" standard input); `serve` and `ticker` are the goroutines it starts,
`queue` the channel of signals, `grace` the timer of the shutdown's context,
`open` the requests in handlers. A request is what its handler does: the
handlers change no state that a later request could see. `launcher`, `forward`
and `code` are `bin/mcp-xlsm.js`, which is there or not. Until `Notify`, and
always on standard input, a signal kills the server; from then on it goes into
a channel of one. `net/http`'s part is modelled from how the code uses it:
`ListenAndServe` returns when `Shutdown` begins, `Shutdown` waits for handlers,
panics of handlers are recovered.

### Stream

The reader is at a `place`: between two sheets of a chunk, in the rows of one,
in the rows of a window, or at its end. `batch` is the slice of that name: the
rows of a sheet that wait to be sent, or all rows of a window; `out` are the
records that have arrived. A row is its place in the workbook, so that a record
says twice which rows it brings: by its start row and by its content. The
client is what the code leaves to the caller (`Receive`): it has `todo` chunks of
an `analyze_file` (`count` sheets then, `Len(book)` now), takes a stream whose
last record is the last there is, and asks again for any other; and it reads the
windows sealed in the cursors of a query, one after another. `Fail` is a writer
that breaks, or rows that cannot be read, after any record. `first` and `last`
are computed as `createChunks` does, the window as `createQueryPagination` does.
`StreamingResponse`, which passes records on without state, and the columns of a
window, cut as its rows are, are left out.

### Tokens, Query, Compression and Requests

A thread of `Requests` is a goroutine with a request. What comes before its
count (`QueryData`, `BuildNavigationMap`, `Optimize`, `Check`, `BatchCount`) is
one action that ends with the look-up in the memo (`Load`); if the count is not
there it is computed and stored (`Store`); then the thread goes on with what it
was told (`Answer`; a batch with its next item, a response that is too large with
its truncation). `sync.Map` makes each step atomic, and nothing else does: other
threads, and `CleanCache` key by key, come in between. The workbook is on disk and
may be saved between any two requests: a query reads any of `Workbooks`. tiktoken is
the constant `Weight`, the memo's keys are `KeyOf`: `Count` uses the type and the
printed form of a value, `CountString` the bare text, so that different questions may
share a key, and the model lets them.

`Query` is a function of the sheet: the handler keeps nothing. The indexes it
searches are those of a manager it has just created, so that a search by index
finds nothing; the sheet is always the one named in the code. `RowsFound` is the
scan's loop: the rows found after each row of the sheet.

`truncateData` cuts one part of its value at most, by calling itself, so that a
truncation is a chain of calls: `levels`, from the value itself down to the call that
runs. A level holds what its loop holds: the parts kept and the priority fields passed
over, each with the count that was told, the part that was cut, the characters left of
a text. It asks the memo for the count of one part after another (`CountPart`), and
goes on by what it is told (`PartCounted`, with `Take` for what one count does: keep
the part, pass over it, or cut it in a level of its own). `Open` are the parts that may
be counted next: the first item that is left, the first priority field, any other field,
as Go ranges over a map in any order. When the deepest level has none left, the calls
return: each counts what the one below made of its part (`CountCut`, `CutCounted`).
All these counts are looked up and stored in the memo the other threads use, and may be
another question's where keys collide; the parts of a value (`Parts`) have their own
keys and weights. What is left of a value that was cut is one question (`CutOf`) however
much is left: its count decides nothing, since no JSON form is empty. `Short` are the
limits, like 90, for which `float64(limit)*0.7` comes out just under a whole number.
That a cut text ends at a word is left out. A part that JSON has no form for occurs only
in a value that has none either; told the count of another value with its key, what such
a value is answered with is left open: truncation would skip those parts and not say so.

## 3. The runs

| run | shows | expected |
|---|---|---|
| `cache_tight` | type invariant, tracking, memory limit, times to live, with overflow, eviction, refusal and expiry together | holds |
| `cache_roomy` | exact memory count while the LRU does not overflow; a counted promotion has had its own hits; unused entries are dropped | holds |
| `cache_validate` | every read is of the last accepted write, and the cache implements the lossy map, with two callers in the middle of validation | holds |
| `cache_leak` | the memory count is exact | fails |
| `cache_race` | validation deletes only what it rejects | fails |
| `nav_walk` | a walk gets each sheet exactly once with matching sizes, at least once with wider windows | holds |
| `nav_torn` | a walk is complete as long as the workbook has the answered checksum | fails |
| `index` | text and number searches are not stale for a cell in one spelling, a query that is some cell's text finds every readable cell with its words, a number of one cell only is found, spatial searches answer exactly what was inserted while halving is exact | holds |
| `server` | answers in order, exit code 0 only with all requests finished, a forced exit only after the grace period, no server left behind by its launcher; every signal ends the server and one to the launcher ends both | holds |
| `index_numbers` | a location that holds a number is found by it | fails |
| `stream` | rows are what their records say, sheets and windows have no gaps, chunks that were taken brought each of their rows once in spite of broken streams and of sheets that came or went; streams end | holds |
| `requests` | counts are right under concurrent counting and cleaning; answers of queries are the rows they stand for; the uses of a limit agree; truncation, which counts in the same memo, announces what it drops, stays within its target by the counts it was told and keeps what has priority; what is sent can be decoded; every request is answered | holds |

### Bounds

* Cache: two or three keys on an LRU of one or two, so that a key can be dropped
  behind the table's back and set again; three or four units of memory for sizes
  of one and two, so that an eviction may free enough, too little or nothing.
  The age thresholds 1, 2, 1 and 3 keep the order of the code's 5, 10, 5 and 15
  minutes; `cache_validate`, whose properties ignore ages, uses 0 and 1. Values
  are told apart only where a property reads them. `MaxStat` stops the
  statistics, which nothing else reads, at 0 except in `cache_roomy`, where 4
  is two promotions' worth of hits at the threshold 2 of that run (3 in the
  code). Keys are symmetric in runs without
  liveness.
* Navigation: four sheets with chunks of two and three have a shorter last
  chunk, chunks of one are the smallest; one edit is enough for every order of
  an edit and a call, as the properties compare one content with one other.
  `MaxAge` 0 lets a cursor expire at any tick.
* Index: two cells of one sheet, each named as the build does, in a second
  spelling (an absolute reference for one, a quoted sheet for the other) and by a string
  that cannot be read, which both share; two texts that share a word, one of them twice;
  one number. The build may fail at its sheet. Four inserts into a quadtree of
  width 4 with one point to a node reach every way of dividing twice and then a node
  that is halved no more, with points on dividing lines, in the root's corner and
  coinciding; the corners of the queries are 1 and 3, the spatial search asks for all of
  the root. The run that fails needs two cells of one sheet and one spelling only.
* Server: two requests, or lines, of every kind, so that an endless, a panicking
  and a plain one meet in every pair and order, and two signals, so that one can
  come while the first is being obeyed. Three requests hold as well.
* Stream: every workbook of up to two sheets of up to five rows, and some of
  three, so that there are more sheets than the chunks were made for, fewer and
  as many; batches of two rows (100 and 50 in the code), so that sheets end in
  the middle of a batch, with it, and before the first; chunks of one sheet and
  of two. Failures are not bounded.
* Requests: one thread with the tools of a server and one that calls the
  compression manager and checks limits, so that every two kinds of requests
  that share a count meet. `MaxRows` and `MaxCols` are 2 (1000 and 21 in the
  code): the workbooks have rows and columns past them, empty rows, rows that
  print alike, and a text that begins like a number JSON does not have. The
  models' limit 10 and the optimizer's 14 are below what some of the values take and
  above what others do: the list is cut in its inner list and there in a text,
  the map, by the order of its fields, in its list or before a field, and the
  last part left may be one that cannot be cut. One text is spelled like the key of a
  number that is truncated beside it, so that truncation is told another's count.
  `MaxMemo` stops new requests while the memo holds more than two counts: the
  two threads can still be told of counts of each other's, count the same at the
  same time, and lose what they stored to `CleanCache`, which deletes the keys that
  several questions share and one that is a single question's (`Cleaned`): a question
  with a key of its own is told the same whether it is in the memo or not. A value of
  three levels is enough for a call that is neither the first nor the last.
* `CHECK_DEADLOCK FALSE` stands where a bound (edits, statistics, inserts) ends
  a behaviour, and in `stream` and `requests`, where a client may have got
  everything and a memo may be full; the programs modelled never wait for one
  another.

### Fairness

`FairSpec` of the cache assumes that time passes (weak fairness of `Tick`) and
that the cleanup goroutine runs again and again (weak fairness of `Cleanup`):
`cleanupLoop` is started by the constructor, is never stopped, and its ticker
fires every minute. Nothing is assumed of callers. `FairSpec` of the server
assumes that the two main programs run on when they can (weak fairness of
`Main` and `Launcher`: the schedulers of Go and of the operating system) and
that the timer of the grace period fires. Nothing is assumed of requests, which
may never end, of signals, or of the goroutines. `FairSpec` of `Stream` assumes
that the reader's loops run on (weak fairness of `Write`), and with that, that each
call of the encoder and of the writer under it returns, with or without an error: the
writer may break at any record, but not block for ever. Nothing is assumed of the
client. `FairSpec` of `Requests`
assumes that each handler that runs goes on (weak fairness of `GoOn` of each
thread): it never waits for another. No other run has liveness properties.

## 4. Where the code and its documentation differ

1. **The memory count leaks** (`cache_leak`, `smart_cache.go` line 83). A key
   the LRU dropped by itself stays in the table. Set again, its old size is not
   given back, as the lookup at line 83 goes to the LRU, and the entry that
   remembered it is overwritten. Until `Clear` the count stays too high; entries
   are refused that would fit. It is never too low (`MemoryKept`).
2. **Validation deletes a fresh entry** (`cache_race`, line 268).
3. **A checksum of one content with the chunks of another** (`nav_torn`,
   `tools.go` lines 56 and 60).
4. **Numbers share items** (`index_numbers`, `manager.go` line 46): the
   tiebreaker between equal numbers is the sheet's name and not the cell, so the
   second cell of a sheet with a number replaces the first, and deleting either
   deletes both. What is found is still right (`NumericSound`).

Others are plain on the page and have no run.

*Navigation and index.* The first page of `build_navigation_map` has no
`next_cursor`, and every other page's is offset 1 (`navigation.go` line 402), so
that a client which follows it gets the second page again and again;
`remaining_chunks` counts the sheets of the page itself, and is never more than 0 (line 407).
The Bloom filter (`manager.go` line 268) is given whole cell texts and asked for the
query: a query of one word of several is answered with nothing.
`calculateFileChecksum`
(`navigation.go` line 436) returns a constant, so that every page says
invalidation is required: a client that obeys never finishes, one that ignores
it cannot see a real change. A delta that spells its location in another way than
the build did (`$A$1`, `a1`, a quoted sheet) removes nothing that was listed under
the first spelling, since whole locations are compared (`manager.go` line 248): text
searches stay stale, and so do numeric ones where the sheet is spelled in two ways.
All locations that cannot be read are one (line 462), and a delta for one of them
removes the listings and numbers of another. `QuadTree.Update` (`manager.go` line 375),
"remove old and insert new", only inserts, and the build counts coordinates from 0
where deltas count from 1: old points stay, and are found. Points past 1000 rows or
columns are dropped.

*Queries.* `query_data` searches the indexes of a manager it has just created,
and scans `Sheet1` of a workbook whose path is in the code, whatever file,
navigation index and cursor it is given: a client that follows its cursors gets
the same rows again. Limits that come as JSON are `float64`, and `.(int)` ignores
them, although `README.md` line 152 documents `max_results`; a caller in Go that
says 0 gets a cursor that never advances; with the defaults there is at most one
result and never a cursor. `Truncated` compares with a constant 1000, the comment
at `query.go` line 554 says 20 columns where 21 are taken, and the index type
reported for BETWEEN is not the one searched. The windows of two cursors share
the row at their border (`WindowsAdjoin` is about rows left out).
`parseFinancialValue` takes the beginning of a text for a number: "10 rue" is
10, and "Infos" is infinite, which JSON does not have, so that the whole answer
becomes an error.

*Counting and compression.* The memo's comment says "with size limit"
(`counter.go` line 72); it has none. Its keys are ambiguous: the lists "a b" and
"a", "b" print alike, and a text may be spelled like the key of another value.
`Accurate` is about the questions whose key is their own. Truncation takes its counts
from that memo: told the smaller count of another value it keeps more than its target
by what the value really takes, told a larger one it passes over a priority field that
would fit (`TargetKept` and `PriorityKept` are by the counts that were told). It passes
a value it cannot cut on whole, over its budget (`TargetKept` allows one), and never
counts the keys of maps. `EstimateCompressionRatio` does not know the label
"brotli-11-truncated". `ChunkReader.GetBuffer` is always empty.

*Server, configuration, installation.* A signal between
the start of the server's goroutine (`main.go` line 54) and `signal.Notify`
(line 63) kills a server that may already be handling requests, before the
"graceful shutdown" of line 42 is in place. Nothing reads
`max_concurrent_requests`. A configuration file that leaves out
`cleanup_interval` gets zero and not the default, and `time.NewTicker` panics.
A download that fails leaves a partial file, which the next install takes for
the binary (`postinstall.js` line 160), and an update that fails after it removed
the registration leaves none (`install-mcp.js` line 112). A server killed by a
signal leaves its launcher to exit with 0 (`mcp-xlsm.js` line 90).

## 5. What is proved

For every value of the constants that satisfies the named assumptions (finite
key set, positive capacity, thresholds in the order of the code's, positive
chunk and window sizes):

* `TypeCorrect`, `NavTypeCorrect` - the type invariants.
* `AllTracked` - the table knows every key of the LRU, so the branch of
  `updateHotData` commented "This shouldn't happen" does not.
* `MemorySafe` - `0 <= currentMem <= MaxMemory`, and the tracked entries never
  occupy more than it says. The invariant `Accounting` carries the second part
  to prove the first: a size given back was counted. A `Set` that replaces a
  tracked key gives its size back exactly when the LRU still has it and the
  eviction did not take it. Sums of sizes need facts about the library's fold
  over a finite set, which `SumTheorems` proves by minimal counterexample.
* `TTLKept` - nothing is dropped before its time. It needs `PromotedByUse`: a
  long time to live goes with more accesses than the first eviction pass takes.
* `CapacityKept` - it needs that `older` is a strict order, linear on the LRU's
  keys, so that a full LRU always has a least recently used key.
* `Refinement`, `FaithfulReads` - every step of the cache is a step of
  `LossyMap` or leaves it alone (needs `CapacityKept`'s invariant), and
  the map's promise follows.
* `OnlyGhostsLeak`, `ExactWithoutGhosts`, `ExactWithRoom` - where the leak of
  `cache_leak` comes from, and that there is no other: the one step that can make an
  exact count wrong is a `Set` of a ghost, a tracked key that the LRU dropped by
  itself; as long as there is none (`NoGhost`) the count is exactly the sizes
  of what is tracked, and an LRU with room for every key never makes one.
* `PromotionsAreEarned` - the hits of an entry that was promoted are its own: the
  invariant (`HitsShared`) divides the hits counted so far among the promotions and
  the accesses of the entries that are there, in sums that `SumTheorems` bounds.
* `WalkIsExact`, `WalkMissesNone` - walks are exact and complete for every
  number of sheets and every chunk size. `WalkInv` adds that an analysis of the
  present content has its number of sheets, that cursors left are chunk starts,
  and that contents only move on; the arithmetic is in `ChunkOf` and
  `ChunkUnique`: a sheet is in one chunk, the one its position modulo the chunk
  size points to.
* `QTTypeCorrect`, `QueriesExact` - a query of the quadtree answers no point but
  those inserted in its rectangle and the root's, and all of them that came while
  halving was exact, for every width, capacity and order. The
  invariant `QTInv` says that nodes are parts of the root, that each point is at
  a node that contains it (`Held`), and that what the tree holds is what came
  (`Came`). That `Insert`'s descent ends anywhere needs a least element of a set
  of widths (`LeastNatural` in `SumTheorems`); that a divided node passes its point on needs
  `ChildTakes`, the arithmetic of halving.
* `IndexTypeCorrect`, `TextSearchExact`, `NumericSearchSound`, `NumericSearchFinds`,
  `SpatialSearchComplete`, `SpatialSearchExact` - the searches of the manager,
  for all cells, texts, tokens and spellings. `IndexInv` adds to the types what each
  structure knows of `known` and `told`: a word lists a location as often as the text
  of its cell has it, if that is the cell's only one (`ListedOnce`), some location of each
  cell at least that often (`ListedSome`) and a location nobody was told of not at all
  (`ListedNot`); texts held are in the filter (`Hashed`); items are of cells told of
  there (`Itemed`) and of their present number where the sheet has one spelling
  (`Numbered`); a number that is one cell's only has an item of that cell (`Kept`); what
  is held has its point (`Pointed`), and cells a build has still to index hold nothing
  (`Unread`). That names mean one cell each is assumed (`OneCell`). The quadtree's
  lemmas are cited, not proved again.
* `ServerTypeCorrect`, `ExitIsGraceful`, `ForceIsLate`, `LauncherIsLast` - how a
  server and its launcher end, for any number of requests and signals.
  `ServerInv` adds which places of `main` belong to which mode (`Modes`), that
  the grace period starts with `Shutdown` and a draining server has listened
  (`Stages`), that lines are read one by one (`Lines`) and that the launcher
  starts one server (`Launched`).
* `AnswersInOrder` - on standard input, any number of lines are answered once and
  in order, blank ones not at all: `LastLine` says that a line in a handler is the
  last one read.
* `StreamTypeCorrect`, `RowsInPlace`, `StreamsWithoutGaps`,
  `CompleteSheetsAreWhole`, `ChunksComeExactlyOnce`, `WindowsLeaveNoGap` - all
  safety properties of streams, for workbooks, chunks, batches and windows of any
  size and any number of failures. `ReaderInv` adds that the rows waiting in a
  batch are the last ones read (`Waiting`), without which not even the types
  are kept: a start row would be negative. `ChunkInv` says what has been brought
  while the reader is at a place (`Front`) and when it has ended (`Finished`), by
  one record each (`OnceEach`); that the sheets of a chunk are the ones its first
  sheet stands for is `OneChunk`. `WindowFront` and `Announced` do the same for a
  window and for the header of a sheet.
* `CounterTypeCorrect`, `CountsAccurate` - `Tokens` by itself, for any number of
  goroutines and any keys. `Kept` says that the memo holds counts of questions of
  their key only: a goroutine stores after it counted, and cleaning leaves none.
* `RequestsCount`, `RequestsAccurate` - `Requests` implements `Tokens`: each of its
  steps, those of truncation among them, is a step of the counter or leaves the
  counter alone, so that the counter's theorem holds of every request, beside any
  others.
* `RequestsTypeCorrect`, `RowsAlwaysAnswered`, `LimitsAlwaysAgree` - the answers of
  requests. `RequestsInv` relates a thread's job to its question (`Working`): a
  query has asked for the count of what it found in the workbook it read, and an
  error is always the question's own. `RowsExtracted` and `LimitFunctionsAgree` are
  about the functions themselves, for sheets, counts and limits of any size; the
  first by the least number of rows for which the loop's invariant (`FoundRight`)
  would fail, as the prover has no induction over a predicate.
* `OneCallRight`, `LossAlwaysAnnounced`, `TargetAlwaysKept`, `PriorityAlwaysKept` -
  truncation, for values of any depth and width, any counts the memo may tell and any
  limit. A level is `Sound` when what it keeps fits its target by the counts it was told,
  and these are the parts' own unless their keys are shared (`Counted`), when a list
  keeps its first items (`Shaped`), and when a priority field that was passed over did
  not fit beside those before it (`Preferring`). What one count makes of a sound level is
  a sound level, or that and another for the part that is cut, with exactly the rest of
  the target (`Follows`). So at every moment of a truncation the levels are a `Chain`:
  what is kept at all of them and the target of the deepest fit the first target
  together, and each level's cut part is the next level's value; when it is done nothing
  of a level is left to be counted. `RequestsInv` carries the chain (`Optimized`) beside
  any steps of other threads, with the part the thread has asked about. The
  assumptions are that the parts of values are values, finitely many in each
  (`PartsOfParts`), that what has a JSON form has such parts (`ValuesParts`), each with
  a key and a positive count, as has what is left of one (`PartsCounted`), that
  a map has no fields of the marks' names, and that limits are positive.

Only model-checked: liveness (`IdleDropped`, `SignalsStop`, `LauncherStops`,
`StreamEnds`, `Answered`), as fairness is out of the prover's reach. Every other
property of the runs that hold is stated by a theorem. Proved only: `CapacityKept`,
`SpatialSearchExact`, `QTTypeCorrect` and `CounterTypeCorrect`, which the runs
have as parts of other properties or as lemmas.

## 6. Plan

In this order; each with its TLC instance, and proofs where noted.

1. done - the cache, its abstract map and their proofs.
2. done - navigation and its proofs.
3. done - `QuadTree` and `Index`, with their proofs.
4. done - `Server`, with its launcher and proofs.
5. done - `Stream`, with its client and proofs.
6. done - `Tokens`, `Query` and `Compression`, composed in `Requests`, with
   proofs of all three.

Not planned any more: the installation scripts, which run once, before any
server, and share with it nothing but the binary, whose absence and whose failure
to start `Server` has; the readers of statistics (health, metrics), whose numbers
are each right at their moment and are not acted upon.

Theorems still worth proving: that a stream and its client implement an abstract
delivery, a set of rows that only grows; and that truncation ends because each level
is for a part of the last one's value, which needs a measure of values.

## 7. What is not modelled

* The installation scripts and the readers of statistics (section 6).
* Of query execution: the statistics and suggestions in its answers, which are
  constants or computed from empty indexes, and the strategies for more than ten
  sheets, as there is one.
* Of streaming: `StreamingResponse`, columns. Of the token counter: the estimates
  by a fixed factor. Of compression: the codecs and the table of ratios.
* `GetStats`, `GetMemoryUsage`, `GetHitRatio` and `countPoints` are pure reads. `ChecksumCache`
  is a mutex around a map and has no caller.
* Requests with non-positive `chunk_size` or `window_size`: `Navigation` assumes
  positive ones. What they do to the server (a loop without end, a panic) is in
  `Server`.
* `SheetAdd` deltas, which grow a buffer nothing reads, and the kinds of delta
  that do nothing (`FormulaChange`, `BulkChange`).
* `next_cursor` and `remaining_chunks` of a page (section 4).
* excelize, the codecs, tiktoken, the LRU beyond its use: libraries.
* What health, metrics, `list_tools` and the like answer; configuration parsing
  but for a missing interval; logging, the shell wrappers.
