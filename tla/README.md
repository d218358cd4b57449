# A verification project for Antelope

Antelope is the ATIRE search engine with a growable, crash-safe index on top.
The engine itself (indexing pipeline, compression, ranking, stemmers) is
sequential numeric code. What is hard to get right, and hard to test, is the
layer above it, `ATIRE_segment_index`: documents are buffered in memory,
flushed as immutable segments, superseded by tombstones, found by key through
a logged keymap, merged by compaction, and in durable mode recovered from a
write-ahead log. A crash may strike between any two of its file operations and
any of them may fail. That layer is the core of this project. Around it are
models of what a search returns (the top-k heap of an engine, and filtered
search over all segments), of the codebooks of quantized vectors, of the Node
addon that runs the index in a second thread, and of spoor, a program that
keeps such an index in step with a worktree.

Paths below are relative to the repository.

## 1. The system

| component | source | state it keeps | operations | what makes it correct |
|---|---|---|---|---|
| Segment index | `atire/atire_segment_index.cpp`, `..._compaction.cpp`, `..._search.cpp`, `..._durability.cpp` | open segments, the memory segment (writer), the session's settings; on disk `seg_*.aspt/.doclist/.del`, the `compacting` marker | open, add, update, delete, flush, maintain, compact, search | every key has at most one live copy; what a call did survives what the mode promises; recovery always succeeds; maintenance ends |
| Manifest | `source/index_manifest.cpp` | next generation, listed segments | load, save (write a temporary file, rename) | lists complete segments only; numbers are never reused |
| Keymap | `source/index_keymap.cpp` | key → (generation, docid), and its log | load, add, remove, retain, compact_log | names the live copy of a key |
| Tombstones | `source/index_tombstones.cpp` | deleted docids of a segment | set, count, save, load | only grow; saved before they count |
| Merger | `source/index_merge.cpp` | – | N segments and their tombstones → one | keeps the live documents, in order |
| Write-ahead log | `source/wal.cpp` | `wal.log`, health, replay position, a stdio buffer | open, append, replay_next, truncate | replay yields what was appended |
| Global statistics | `..._durability.cpp`, `search_engine.h`, `atire_api.cpp` | N and mean length in each engine and in each ranking function | refresh, apply | all segments ranked with one N; sizes still the engine's own |
| Search | `..._search.cpp`, `source/filter.cpp` | – | search segments and writer, drop tombstoned and excluded hits, merge the lists | a best top k of the live documents that pass the filter |
| Attributes, payloads | `source/attribute_store.cpp`, `payload_store.cpp` | captured sets in the writer; `.attr`, `.pay` per segment | capture, write, load, rewrite in a compaction | a document keeps its own, whatever its number becomes |
| Top k of an engine | `source/search_engine_result.h`, `heap.h` | accumulators, the list that becomes a heap | add_rsv, set_rsv, sort | the best k found, once each |
| Vector quantization | `atire_segment_index_vector.cpp`, `source/pq_store.cpp` | the saved configuration and codebook; per segment `.vec`, `.pq`, `.pqr`, `.hnsw` and what of them is resident | setters, build_pq, build_hnsw, rebuild of the codebook, flush, compact, open | codes are decoded with the codebook they were made with; something to search with is always there |
| Vectors, tokens, signatures (numbers) | `source/hnsw.cpp`, `multivector_*.cpp`, `token_*.cpp`, ... | sidecars per segment | build, search | – (not modelled) |
| Node addon | `nodejs/addon/segment_index.cpp` | a state flag, the engine pointer, promises | open, close, synchronous calls, maintenance workers | one call at a time, never without an engine, every promise settles truthfully |
| Python binding | `python/` | a lock around one index | – | – (not modelled) |
| spoor | `spoor/src` | a JSON manifest of hashed files, a sidecar of chunk keys, an index | reindex, search | a search sees the worktree as it was when it began, if requests do not overlap |

How they meet: the index calls everything else, directly and in one thread. The
manifest, the keymap log, the tombstone files, the marker and the log are five
separately saved pieces of state with no common transaction; the order in
which a call saves them, and what `open()` makes of what it finds, is the
protocol. The hard behaviours are therefore crashes between two saves, saves
that fail after others have succeeded, calls nested in calls (an update adds,
an add flushes, a flush maintains, a maintenance compacts, and a replay does
all of that again), and cached copies (N in a ranking function, the list in
memory) that outlive what they were copied from. There is no concurrency inside
the index. There is above it: the Node addon calls it from two threads, and spoor
awaits file and network operations while its files change.

PQ adds a second group of separately saved files (`pq.config`, `pq.codebook`, a
`.pq` per segment) and pointers from each segment's store into one shared
codebook. spoor adds a third: the engine's manifest, its own sidecar and its
own manifest.

## 2. The modules

| module | what it is |
|---|---|
| `SegmentIndex` | the index, one step per durable effect, crashes and failed writes included |
| `DurableStore` | what it promises in durable mode: a map, one call at a time, crashes that lose or complete the call in flight |
| `SegmentIndexProofs` | two inductive invariants of `SegmentIndex`, of its generations and of documents, tombstones and places, and their consequences |
| `SegmentCopiesProofs` | a third one, about the copies of a key, what the log says of them and what the client has read; and that `SegmentIndex` implements `DurableStore` |
| `GlobalStatistics` | N in engines, ranking functions and results |
| `GlobalStatisticsProofs` | that an engine keeps its own counts, and that all rank with the sum of them |
| `WriteAheadLog` | `wal.log` cell by cell: writing, tearing, parsing |
| `WriteAheadLogProofs` | that the parser finds what was written, and nothing else |
| `IndexKeymap` | the keymap's hash table and the lines of `keymap.log` |
| `KeyMap` | what the keymap promises: a map, with one action for each operation, that is loaded as it was |
| `IndexKeymapProofs` | that the table is that map, for any hash function, and the log its image |
| `SegmentSearch` | filtered and unfiltered search over segments and writer, attributes and payloads |
| `TopK` | the accumulators and the heap of one engine |
| `PqCodebook` | which codes, codebook, vectors and graph each segment has |
| `PqCodebookProofs` | inductive invariants of `PqCodebook` and their consequences |
| `SegmentIndexWrap` | the Node addon: two threads, a flag, promises, and a failing engine below |
| `SegmentIndexWrapProofs` | inductive invariant of `SegmentIndexWrap` and its consequences |
| `SpoorReindex` | spoor's reindexing and search against a changing worktree |
| `SpoorReindexProofs` | inductive invariant of `SpoorReindex` and its consequences |
| `MC...` | the small instance of each for TLC |

`SegmentIndex` is the centre. `WriteAheadLog` and `IndexKeymap` justify the way it
represents its log and keymap; `GlobalStatistics`, `SegmentSearch`, `PqCodebook`
and `SegmentIndexWrap` each take the list of segments (or the set of documents on
disk) as given and model one thing that is done to it or with it; `TopK` is what
`SegmentSearch` takes for granted of one engine; `SpoorReindex` takes the index as
a set of chunks whose flush is atomic, which is what `ManifestComplete` and
`StoreSpec` say of it.

### SegmentIndex

| variable | code |
|---|---|
| `disk`, `manifest` | the saved manifest; the loaded one, whose list is also `segments[]` |
| `files` | per generation, the documents of the segment files and the saved `.del` |
| `keymap`, `logThere` | the keymap, which is also the image of `keymap.log` since every record is flushed as it is written; whether the log exists |
| `marker` | the `compacting` file |
| `wal` | the records of `wal.log` |
| `stones` | the tombstones in memory |
| `writer` | `writer`, `writer_tombstones`, `writer_generation`; generation 0 is `writer == NULL` |
| `threshold` | `flush_after_documents`, chosen by the session |
| `replayed`, `truncPending` | the replay loop of `open()`, `wal_truncate_pending` |
| `pc`, `call`, `job` | where the running call is, its arguments, the compaction it runs |
| `view`, `inflight`, `opening` | history: what the client sees and what it waits for |

Each action is one durable effect together with everything the code does in
memory up to the next one, so that `Crash` between two actions reaches every
distinguishable disk. Two loops of writes are a single step because the marker
makes the next `open()` discard or sweep whatever was half done: repointing the
keymap, and deleting the input files. `AfterAdd`, `AfterFlush` and `Return`
are the returns of nested calls.

`Fault(site)` is a write that fails; the sites are the early returns of the
code. `Window` names where the process is when it is killed, which lets a run
leave out the windows in which the promise is known to be broken (section 6). Documents are numbered from 1 (from 0 in the code). A document is its
key and a version; what is in it never matters here. A client adds only keys
the index does not know (updating is the upsert), and no document is empty.
Closing without a flush is the same as a crash. A crash kills the process: what
was written to a file is there afterwards, `fsync` is not represented.

### GlobalStatistics

`engines[g]` has the documents the segment really holds (`own`), the
`document_count()` member (`documents`), `local_documents_saved` (`saved`), and
the N copied by the ranking function (`ranked`). `SetStatistics`, `Rerank` and
`Apply` are the three functions of `search_engine.h` and `atire_api.cpp`;
`Refresh` is `refresh_global_statistics()`. A call is one step: there is nothing
to interleave with. The mean length is set and restored with N in the same
statements and is left out. The index is in relaxed mode.

Each call can also fail where the code returns early. `FlushUnwritten` is a
`flush()` whose files are not written: the memory segment loses its view only.
`FlushUnfinished` returns after the writer is gone, because the segment cannot be
opened, the manifest not saved, or the next writer not started: there is no
writer until the next `open()` (`writable`), and nothing has been refreshed.
`CompactUnmerged` fails before the inputs are replaced, `CompactUnsaved` when the
manifest of the swap cannot be saved, again without a refresh. `disk` is what
the saved manifest lists, from which `Reopen` starts, so a segment that was open
but not listed is gone then and the inputs of an unsaved swap are back. `missed` is history:
such a call has changed the segments since the last refresh.

### WriteAheadLog

The file is a sequence of small numbers and the parser takes each for what it
expects there, so a parser out of step misreads exactly as the code would. An
integer field is one cell: a write torn inside an integer is represented by the
write torn before it. `pending`/`written` are a failed append's bytes still in
the stdio buffer, which `fclose()` writes out later. `kept`, `late` and `tear`
are history: the records written whole before and behind a torn one.

`SegmentIndex` uses the log as a sequence of records. `LogIsExact` is what
justifies that, except behind a torn tail (section 6).

### IndexKeymap

`table` has the slots, from 0, and `slots_used`; a slot whose key was removed
keeps the key and has the place `Gone`. Of a place only the generation is kept:
docids are never looked at, except for the sign that means removed. `hash()` is
a constant, so that any collisions can be chosen; the instance makes keys share
a slot and run over the end of the table. A line of the log is one value:
a record, or `Garbage` where `load()` skips it. `Fragments` is what a line cut
short can be read as: nothing, the record with a shorter key, or the record
itself when only its newline is missing; `Joined` is what becomes of such a line
when another is written behind it (a line with a tab in its key, which is
skipped). `doubtful` is history: the keys a failed or interrupted write, or a
line too long for `load()`, may have left wrong in the log. It is emptied when
the log is rewritten or loaded.

`FaultIn` names the failures: a `write` cut short, a `kill` among the lines of
`retain_generations()`, `open` (no append handle: nothing is logged any more),
`read` (the log cannot be opened to be loaded), and of `compact_log()` the file
of its own (`temp`), its `rename` and its `close`. `CompactLog` and `Load` may
happen at any time, which includes the times `open()` and `maintain()` choose.

`KeyMap` is the map, with one action for each operation: `Add(k, g)` changes the place of `k`
to `g`, `RemoveKey(k)` and `RetainGenerations(S)` take out what they name, each
leaves all other keys where they are, `CompactLog` changes nothing, and a load
may change only doubtful keys. `MapSpec` ties each operation of `IndexKeymap` to the
one of `KeyMap` with the same arguments (`AsCalled`), so that an `add` that moved another
key, gave the wrong generation, or a load that lost a key would violate it.
A log that cannot be read (`LoadUnread`) and one that `open()` discards leave an
empty map.

`SegmentIndex` uses the keymap as a map and its log as the image of that map.
`MapSpec` and `LogReproduces` are what justifies that, for a log whose writes
succeed or are interrupted (`SegmentIndex` does not represent a failed one).

### SegmentSearch

| variable | code |
|---|---|
| `segments` | `segments[]`: generation, documents in docid order, `tombstones`, and the stores loaded from `.attr` and `.pay` |
| `writer` | the memory segment with `writer_attribute_sets` |
| `manifestGeneration` | the next generation |
| `configured` | whether `set_attributes_config()` has succeeded |
| `added`, `bare`, `unpaid` | history: documents ever added; those whose attributes, or payload, have been lost |

A query is a function from documents to scores, so an engine's result is the
best of its documents by score and docid (`EngineSearch`; `TopK` is the module
about that). An attribute store is a dictionary of each string field and a
column of ids or integers; a filter leaf compares ids, and a compaction goes
through values back to ids in the output's dictionary, as the code does.
`Degraded` is the store of a file that is missing or rejected. `Reopen` is a
crash with the log on: the replayed documents come back without attributes,
which the log does not hold. `SearchIsTopK` evaluates `search()` in every
state, for every query, limit and filter. Flushes within an add are flushes
after it; the writer is always there.

### TopK

`accumulator`, `init_flags`, `accumulator_pointers`, `results_list_length` and
`top_k` are the members of `ANT_search_engine_result`. A pointer to an accumulator
is its document, so comparing addresses, the tie-break of `compare()`, is
comparing documents. `init_flags` has the rows touched in this query, of `Width`
accumulators each. `add_rsv` and `set_rsv` follow the code's two ways of knowing
whether the list has become a heap, which differ when `top_k` is all documents.
`Init` leaves the accumulators with any one old value, as `malloc()` does.
`score` is history: what a document should have.

### PqCodebook

| variable | code |
|---|---|
| `conf` | `pq.config` and `hnsw.config`: posture, global mode, resident tier, k, and whether there are graphs |
| `book` | the file `pq.codebook` |
| `segs[s].file` | the codebook stored in the segment's `.pq`, 0 if there is none |
| `segs[s].by`, `.borrowed` | `pq_vectors`: the codebook its store decodes with, and whether it is the shared buffer |
| `segs[s].pqr`, `.vectors`, `.graph` | the `.pqr` file; the resident vectors; over what the `.hnsw` was built |
| `global` | `global_pq_codebook` |
| `pc`, `job` | the loop of `build_pq()`, `build_hnsw()` or `rebuild_pq_global_codebook()` that runs |

A codebook is an id; training makes a fresh one. Ids that nothing refers to are
used again, which keeps the instance finite and makes a stale reference collide
with a new codebook, as a freed buffer would. One turn of a loop over the
segments is one step, with `bad` the writes in it that fail. `hurt` and `dropped`
are history: what has happened that the code cannot repair (next section).

### SegmentIndexWrap

| variable | code |
|---|---|
| `state`, `engine` | the members of `SegmentIndexWrap` |
| `held` | the program's reference; without it and without a worker the object is collected |
| `at` | where in the engine each of the two threads is |
| `worker`, `result` | the `MaintenanceWorker` and what its call returned |
| `promises` | the promise of every maintenance call, with what was accepted before it |
| `writing`, `buffered`, `listed`, `disk` | the engine: it has a writer; documents in it, in segments, in segments of the saved manifest |

A JavaScript call that goes into the engine is two or more steps, so that the
worker's can fall between them; that they do not is `OneAtATime`. A flush has
the engine's three points of failure (files, register, new writer). The
instance's option `durable` is off, which is the addon's default.

### SpoorReindex

`tree` is the worktree, a file's content a version and the spans it is chunked
into; `model` the configured embedding model. `mapped`, `ghosts` and `dim` are
the index: the live chunk that each key leads to, live chunks whose key now
leads to another (`addDocument()` repoints a key, it does not delete), and the
vector dimension. `sidecar` and `saved` are the two JSON files; a file that was
emptied for writing reads as none. `run` is what the request has in memory,
with the chunks of the file it has read (`rest`) and the engine's memory segment
(`writer`, `extra`). `ReadFile` reads, chunks and embeds one file, `upsert` adds one
chunk; after any chunk the engine may flush by itself, as it does at 10000
documents (`atire_segment_index.cpp:61` and 796: spoor sets no threshold of its own,
`spoor/src/index.js:11`), which makes the chunks durable long before sidecar and
manifest are.

`Edit` may happen between any two steps. A file gets a content that no file had
before, or goes, or comes back to a content that is known: that of the saved
manifest, or that of the scan under way (`Known`). A return to any other old
content is like a new one, because the code compares hashes with these two only.

Three variables are history. `hurt`: a request ended between a flush of the engine's,
its own included, and the saved manifest; the model changed over an existing
index; or a file had two chunks on the same lines. After each of these, chunks
can stay behind. `touched`: the files whose chunks a request has removed, or has
read from another content than was hashed, though a manifest vouches for them.
`back`: the files that hold a known content again. A file in both is
`Mistaken`: the code cannot tell it from one that was never changed, and the
properties except it (section 6).

One request runs at a time. `spoor/src/mcp.js:25` to 36 registers asynchronous
handlers without a queue or a lock, so this is assumed of the client and not
given by the code; two overlapping requests are not modelled (section 7).

## 3. The runs

Passing runs:

| run | instance | properties | shows |
|---|---|---|---|
| `Durable` | 2 keys, 5 calls, 2 crashes, 1 fault, log on | `MergedDocsAreCurrent`, `OneCopyPerKey`, `StoreSpec` | `SegmentIndex` implements `DurableStore`, except in the windows of section 6 |
| `Relaxed` | 2 keys, 5 calls, 1 crash, 1 fault, log off, tiers of base 2 | `TypeOK`, `ManifestComplete`, `GenerationsBurnt`, `NoResurrection`, `MaintainQuiesces` | what a reopened index has lost and has not |
| `Recovery` | 1 key, 3 calls, 2 crashes in every window, 1 fault, auto-maintain with a policy that never settles | `RebuildLeavesOneCopy`, `OpenCompletes`, `CallsReturn` | a rebuild cleans up, everything returns |
| `GlobalStats` | 5 generations, 5 documents, 2 failing calls | `TypeOK`, `OwnCounts`, `RankedGlobally` | one N for all, own counts kept |
| `Log` | 2 records, 2 faults, 1 kill, 5 kinds of request | `TypeOK`, `LogIsExact`, `EarlierKept` | replay against what was appended |
| `Keymap` | 4 keys, a first table of 4 slots, 2 lines, 1 fault of any kind | `TypeOK`, `ProbesEnd`, `LogReproduces`, `MapSpec` | each operation does to the map what it says, the log gives the map back |
| `Search` | 3 documents (one without attributes), a single integer and a multi-valued string field, 2 queries, 4 filters, a limit of 2, 5 generations, 1 lost sidecar, 1 reopen | `TypeOK`, `SearchIsTopK` | every search of every state is a best top k |
| `TopK` | 5 documents in rows of 2, gains 1 and 2, limits 4 and 9, 2 queries of 5 postings | `HoldsTheBest` | the list is the best documents so far |
| `Pq` | 2 segments, every configuration, 1 failure, 1 close or crash | `TypeOK`, `NoDangling`, `CodesFit`, `Searchable`, `RebuildReencodes`, `BuiltAsLoaded` | codes, codebook and residency agree |
| `Addon` | 3 documents, auto-flush at 2, 2 promises, 2 failures, 1 death | `TypeOK`, `OneAtATime`, `EngineAlive`, `KeptIfWriting`, `PromisesSettle` | the two threads and their promises |
| `Spoor` | 2 files, 2 spans, 3 shapes of a file (no chunk, two, two on the same lines), 2 models of different dimension, 3 edits or changes of model, 1 request cut short, flushes of the engine's own after any chunk | `TypeOK`, `FreshIsCovered`, `SearchSeesTree`, `UnhurtIsExact`, `RequestsEnd` | manifest, index and worktree |

Why the bounds are enough: two keys make a segment with a live and a dead
document and two segments to merge; five calls reach add, add, flush, update,
compact (the shortest history in which a merged segment supersedes an older
copy), and a threshold of 2 makes flushes happen inside adds and inside a
replay. Two crashes are a crash during the recovery from another. One fault is
one save failing after others have succeeded. The base of the tiers is lowered
from 10 to 2 in `Relaxed` so that the tiers differ with four documents; it is
10 where only the count of segments matters. `MaintainCap` is 2 in `Recovery`,
with `MergeFactor = 1`, so that the cap of the loop is what ends it. For the
log, two records are an append behind another, and three were checked as well
(11 million states). For the keymap, four keys are what it takes to fill the
first table and make it grow; two lines are a torn line with another behind it,
or the two removals of one `retain_generations()`, and since compaction shortens
the log they do not bound how often keys come and go; one fault is met by every
operation and restart after it. A fault that meets what another left
behind, longer logs and more keys are covered by the proofs alone (`IndexKeymapProofs` has
no bound on them). The code's first table has 1024 slots; only that it has at least 4 matters
(`TableAssumption`: with fewer, three quarters of the slots are all of them).
`MaxLines`, `Entries`, `MaxCalls`, `MaxCrashes`, `MaxFaults`, `MaxDocs`,
`MaxRecords` and `MaxKills` are the bounds; everything else is a parameter of
the program.

In `Search` five generations are three flushes and a merge, or two merges one
over the output of another, and three documents are a merged segment beside
another and the writer; a limit of 2 is below the three matches of the first query,
so that a fetch that is too short shows. In `TopK` limit 4 of 5 documents is a heap of
three levels that turns a document away, and limit 9 is cut to all 5, where
`add_rsv` and `set_rsv` differ; five postings are the four that fill the heap and
one that has to be placed in it; the second query meets the first one's
accumulators. `MaxPostings`, `MaxQueries`, `MaxGeneration` are the bounds.
In `Pq` two segments are what it takes for one to have codes and the other not,
to be merged, or to be re-encoded before and after a crash; `MaxBooks` is 6,
two less than two segments with a file, a store and a graph each could refer to
beside the saved and the resident one; training waits (`MayTrain`) in the few
states in which all are in use. In `Addon` three documents with auto-flush at 2 reach an
auto-flush that fails and one more add after it; two promises are a second one
while the first runs, or after. In `Spoor` three changes are a file that is
created, edited and reverted, around a request that is cut short or during one; or
two files and a change of one during a run; or two models, of different
dimension, over one file. In `GlobalStats` two failing calls are, for instance, a
`flush()` that leaves an unlisted segment open and a compaction of it that is not
saved, with a reopening after them; five documents are two segments, their merge
and a memory segment beside it.

`CHECK_DEADLOCK FALSE` stands in the `SegmentIndex` configurations because a
session that has used up its calls and its crashes stops, in `Search` because
the generations run out and in `TopK` because the queries do. The others never
stop: a bound reached leaves them searches, closes, loads or refused calls.

`FlushCrash` is the run that finds a violation, of a documented statement
(section 6).

The properties, by what they are about:

* **Promise.** `StoreSpec`: a call that returned stays in effect through later
  crashes, one that was interrupted is either lost or complete, and the index
  shows one copy of a key. `NoResurrection` is what remains in relaxed mode:
  a key can lose its document, never get an older one back.
* **Copies.** `OneCopyPerKey`, `MergedDocsAreCurrent`, `RebuildLeavesOneCopy`.
* **Disk.** `ManifestComplete`, `GenerationsBurnt`.
* **Progress.** `OpenCompletes`, `CallsReturn`, `MaintainQuiesces`; `PromisesSettle`;
  `RequestsEnd`.
* **Statistics.** `OwnCounts`; `RankedGlobally`, except from a failing call that has
  changed the segments to the next refresh.
* **Log.** `LogIsExact`, `EarlierKept`.
* **Keymap.** `MapSpec`: every operation has on the map the effect it is called for,
  whatever slots it shares with other keys; `LogReproduces`; and `ProbesEnd`, without which a lookup
  would not return.
* **Search.** `SearchIsTopK`: whatever is merged, renumbered or lost, hits are a best
  top k of the live documents whose own attributes pass the filter, with their
  own payloads. A document whose attributes were lost may be found or not where
  a document without any would pass. `HoldsTheBest` says the same of one
  engine's accumulators, after every posting.
* **Codebooks.** `NoDangling`: no store keeps a freed codebook. `CodesFit`: codes are
  decoded with the codebook they were made with, and in global mode it is one
  for all, until one of the things named in its comment happens. `Searchable`: a
  segment always has something to score with, unless a rebuild has failed.
  `RebuildReencodes`: a rebuild that returns 0 has reached every segment.
  `BuiltAsLoaded`: a restart changes nothing.
* **Threads.** `OneAtATime`, `EngineAlive`; `KeptIfWriting`: a resolved `flush()` means
  that everything accepted before it is on disk, if the engine had a writer.
* **Worktree.** `FreshIsCovered`: what the manifest vouches for is in the index.
  `SearchSeesTree`: a search sees every file that was not edited since it was
  called. `UnhurtIsExact`: and nothing else, as long as `hurt` is false. All three
  except the mistaken files.

## 4. Fairness

`FairSpec` has weak fairness of `Work`, the steps of the code, and of nothing
else: the index runs in its caller's thread, a call is never suspended, and a
step of it is enabled until it is taken. The client need not call, and the
environment need not crash. `SegmentIndexWrap`'s has it of each of the two threads
while it is in the engine (the engine's calls return: `CallsReturn`) and of `OnOK`,
which the event loop calls once the running JavaScript is through; nothing makes
the program call anything. `SpoorReindex`'s has it of the steps of the request:
each is one `await` whose promise settles (or rejects, which ends the request);
an embedder that never answers is not excluded by the code, which sets no
timeout, but by this assumption. The bounds on crashes and faults are what makes
`OpenCompletes` true, as they must be: an index killed in every `open()` never
opens.

## 5. What is proved

`SegmentIndexProofs` proves `Spec => []Inv` for every value of the constants:
any keys, thresholds, policy, crash windows, fault sites and numbers of calls.
`Inv` is the conjunction of

* `Shapes` – the part of the type invariant about generations and control
  (`CatalogueTypeOK`);
* `CallsNamed` – which calls each `pc` can be in, so that a return goes where
  the code's does;
* `Numbered` – every number in use (files, lists, keymap, writer, the output of
  a compaction) is below the next generation that the saved manifest has burnt;
* `Listed` – the segments of the list in memory and on disk have their files;
* `WriterApart`, `OutputApart`, `InputsApart` – the writer's generation is not a
  listed one, the output of a compaction is neither listed nor the writer's
  until the swap, and the inputs are unlisted on disk before they are deleted.

None of the last four is inductive alone: that deleting the inputs leaves the
manifest complete needs `InputsApart`, which needs that the output, appended in
the swap, is none of them (`OutputApart`), which needs the numbering. From `Inv`
follow `CatalogueTypeCorrect`, `ManifestAlwaysComplete` (`ManifestComplete`) and
`GenerationsAlwaysBurnt` (`GenerationsBurnt`). The only assumptions are the
named ones of `SegmentIndex` on its constants. TLC checked `Inv` beforehand.

From it the module goes on to prove `IndexTypes` (`TypeOK`),
`RebuildAlwaysLeavesOneCopy` (`RebuildLeavesOneCopy`) and the action property
`MaintainAlwaysQuiesces` (`MaintainQuiesces`), as generally. The last needs only `Inv`: with a
full tier somewhere there is a first segment in one, so that `Candidates` is not empty. That the keymap names one
of the copies that a rebuild leaves is a matter of the rebuild; that the documents and
tombstones it goes by are there at all is what the second invariant, `Content`, is for:

* `Stored` – listed segments are open, open ones on disk, and tombstones, in memory and
  on disk, are of documents of their segment;
* `WriterUnopened` – the memory segment is not open, and on disk only when a flush has
  just written it, as it stands;
* `PlacesKept` – a place in the keymap, or noted by the call under way, is of the key it
  is kept for, wherever a segment of its generation exists. A place may outlive its
  segment, so that needs the numbering of `Inv`: no later segment takes its place;
* `OutputUnopened` – a merge reads open segments, each once, and nothing names its output
  before it is written;
* `Reopened` – what each step of `open()` has established for the next.

What a compaction writes is `FlattenSeq` over an order of live documents that the
specification chooses: the lemmas before the invariant show that there is such an order,
that the flattening is a sequence, and that each document of it comes from one live
document of one input (`MergedTraced`), from the recursion by the smallest
counterexample. `ViewsAssumption`, that the two odd views are no versions, is the only
further assumption.

`SegmentCopiesProofs` proves `AlwaysOneCopyPerKey` (`OneCopyPerKey`) and
`MergedDocsAlwaysCurrent` (`MergedDocsAreCurrent`), again for every value of the
constants that satisfies `Sheltered`, with the log on or off:

* no auto-maintain; tombstones and the keymap's log can be written;
* no crash in the windows `updating`, `replaying` and `exposed`;
* with the log on, no crash in the window `flushed`, and no failure of the saves that
  follow in a flush (`register`, `newWriter`).

These are the windows of section 6 and the faults that leave the disk as such a
window does: TLC breaks one of the two properties when any single item is
allowed in `Durable`. Everything else may happen: failures of the segment files, of
opening a new segment and of every step of a compaction, and crashes at every other
point, in particular anywhere in a compaction or in an `open()`. The run `Durable`
satisfies `Sheltered` and checks both.

Its invariant `Kept` has `Inv`, `Content`, `OneCopyPerKey` and three more parts. `Unique` says
where copies of a key can be:

* `SingleCopy` – a live copy is the one the keymap names, or the old one of the update
  under way; while a compaction swaps, or one in its inputs;
* `StonesSaved`, `ListSaved` – what is dead in memory is dead on disk, and a saved list
  that lags behind does so under a marker;
* `RebuildMarked`, `LogNamesCopies` – without a marker, a crash leaves a log of the keymap
  that names every copy on disk, so that `open()` may trust it;
* `KeyLookedUp`, `OutputCurrent` – what a call has looked up is still so when it is used;
  the output of a compaction has the copies that the keymap names in the inputs, then
  those that the keymap names.

`Rested` says that between two calls nothing is under way. `Unique` alone is inductive
except for one step: the replay indexes an added document without looking for its key.
That it has no copy then is what `Covered` is for. Without the log there is nothing
to replay. With it, `Logged` says

* `LogOrdered`, `AddsNew` – an add is recorded of a key that the records before it have not
  put in, and that without a record is not on disk either;
* `FirstAddsNew`, `PendingAddsNew` – so a key whose first record is an add is not on disk
  unless a flush has yet to empty the log; the same of live copies for the records
  still to be replayed;
* `PutInMapped`, `UnloggedMapped`, `IndexedMapped` – as long as the session has a memory
  segment, the keymap has every key that the records put in or that is on disk without
  one, so that a client that adds only keys the index does not know (section 2; the code
  does not look) does not add it again;
* `NothingRises` – compactions and rebuilds bring no key back to the disk;
* `CallsRun`, `ReplayKept` – which call runs, and that it is the record's in a replay,

and `ListedOnDisk` that what the session lists is on disk, or, after a swap that could not
be saved, another copy of its key is. That both orders of flush and truncation are
safe when nothing is interrupted, and only then, is visible in `Settled`.

It also proves the action property `NeverResurrects` (`NoResurrection`) under `Sheltered`
with the log off and no failing swap (`"swap"`). TLC, run as in `Relaxed` with 2 crashes,
breaks `NoResurrection` when any one exclusion that matters without a log is lifted:
auto-maintain, the fault of tombstones, of the keymap's log or of the swap, the window
`updating`. The invariant adds to `Kept`

* `Recent` – what the client has read last is `Seen`: whatever is alive, in memory or on disk,
  in the memory segment or in the output of a merge, is the version it has read of that key,
  or that of the call in flight; and when the index is ready it has read it as it is;
* `Marked` – a marker is only there while a swap or a rebuild runs, so that a ready index
  lists in memory all that is listed on disk.

Each step is shown to keep `Seen` for the same reading and call; when a call returns the
reading is exchanged for the new one, of which `Unique` and `Marked` say that nothing
else is alive anywhere. The run `Relaxed` also loses the keymap's log, which with its
single crash is harmless; the theorem does without.

Last it proves the refinement, `ImplementsStore`: under `Sheltered`, with the log on, and
if a segment that has just been written can be opened (`Opens`), `Spec => StoreSpec`. The
run `Durable` satisfies all three. With the fault `openSegment` allowed there, TLC finds a
`flush()` after which a document is served no more until the next `open()`: the writer is
gone and its segment is not in the list. Beside `Kept` the invariant is `Promised`:

* `RunShows` – while the index runs, `Serves` gives each key the version of `Now`: what the client
  has read, or, once the call under way has had its effect in memory, what it will
  read. Only the key of a half-done update has two copies, and the new one is there
  (`Latest`). While a swap unlists its inputs its output stands for them (`ServedSegs`);
* `RunRecovers` – a crash here would leave that, too: the last record of a key says its value, and
  a key without a record has it on disk (`Recovers`). A call that is not recorded yet may
  still be lost;
* `DownRecovers`, `ReplayShows` – from the crash to the end of `open()` the disk, then the
  part of the log that has been replayed, give what is `Owed`: the reading before or after the
  call that the crash cut off, key by key;
* `RebuildKeeps` – the rebuild buries no key's last copy;
* `OutputWhole` – the converse of `MergedTraced`: each live document of each input has its
  key in the output, so that a swap loses nothing;
* `WriterKept` – while nothing is put off, what is only in memory is recorded or is being recorded, so
  that the crash that loses it loses no call that had returned;
* `UpdateRecorded` – an update is recorded before its old copy is buried;
* `ClientKept` – the client's call is the one that runs; in a replay, that of the record.

Each action is shown to keep what was served and saved of every key but its own
(`ServedAsBefore`, `SavedAsBefore`), and to move its own key from the old value to
the new in one step each. So a return is a step `Return` of the store, the end of `open()` is
`Recover`, and every other step is `Invoke`, `Crash` or a stutter. TLC checked
the nine parts of `Promised` on `Durable` before they were proved.

`GlobalStatisticsProofs` is about any number of segments and
documents when `~MergesEmpty`. `OwnCountsAlways` (`OwnCounts`): the invariant says of
each engine that it is `Good`: its count is its own, and what it has saved is either
nothing or its own count; the hypothesis is exactly what the ghost documents of
section 6 show to be needed, since an engine of 0 documents cannot tell the two
apart. `AlwaysRankedGlobally` (`RankedGlobally`) and `StatisticsTypes` (`TypeOK`) add the
invariant `RInv`, which all the calls keep, the failing ones included:

* `Open`, `Viewed` – finitely many engines, and the one over the memory segment, are `Good`
  and of their types; the memory segment has a view only while it has documents;
* `UpToDate` – unless that view is stale or a refresh was `missed`, every engine ranks with the sum of all counts.
  With the memory segment empty this has to hold of a stale view too, because a
  search ends the staleness and has then nothing to refresh: `RankedGlobally` alone
  is not inductive.

The total is a recursive function over sets of engines (`SumFunction` of the community
modules); that it exists, is the sum, and is bounded below by each of its terms
follows from the recursion by the smallest set that would be a counterexample,
since inclusion of finite sets is well-founded.

`WriteAheadLogProofs` proves `LogTypes` (`TypeOK`), `LogAlwaysExact` (`LogIsExact`) and
`EarlierAlwaysKept` (`EarlierKept`) for records, keys, documents and vectors of any
length, whose cells may all look alike. `Replay` parses: it knows nothing of what was
logged. One half of the argument is about the format: a record append() writes is
`Framed`, that is, read as one record to its last cell (`EncodeIsFramed`), wherever it
stands (`RecordIsRead`), while a proper prefix of it at the end of the file is read as
none (`CutRecordIsNotRead`), because each field the parser looks for is where it was in
the record, or past the end. Records one behind the other are then replayed in order
(`LaidIsReplayed`). The other half is the invariant `IInv`, beside `TypeOK`:

* `Failed` – what the stream of a failed append holds is the rest of a record;
* `Standing` – the file begins with the records of `kept`, and unless an earlier stream
  left a torn one, nothing is behind them but the first `written` cells of `pending`.

That a request has as many floats as the log has dimensions is an assumption
(`RequestsAssumption`): append() copies that many whatever it is given. The parser's
recursion, too, is reasoned about by the smallest counterexample.

`SegmentIndexWrapProofs` proves of the addon, for any documents, threshold and
numbers of promises, failures and deaths: `WrapTypeCorrect`, `MutualExclusion`
(`OneAtATime`), `EngineOutlivesCalls` (`EngineAlive`) and `ResolvedFlushIsDurable`
(`KeptIfWriting`). The invariant `IInv` has, beside `TypeOK` and `KeptIfWriting`,

* `Handover` – the flag is up exactly while there is a worker, the worker is in the
  engine only between `Execute()` and its return, the JavaScript thread only with
  the flag down. The first two properties follow from it;
* `OnePending` – a worker has exactly one promise to settle, so `Pending`, a `CHOOSE`,
  is that one;
* `AcceptedKept` – as long as there is a writer, an accepted document is in it or on
  disk, and what is listed is on disk; that is lost when a flush fails past the
  writer's end, which is why `KeptIfWriting` has its condition;
* `FlushUnderWay` – the documents of the pending `flush()` are in the writer or on disk,
  on disk, or as its result says, depending on how far the worker is.

`PqCodebookProofs` proves of product quantization, for any number of segments,
codebooks, failing writes and crashes: `PqTypeCorrect`, `NoDanglingAlways`
(`NoDangling`), `AlwaysSearchable` (`Searchable`) and `RebuildReencodesAlways` (the
action property `RebuildReencodes`). Neither of the last two is inductive: a
rebuild frees the stores that borrow before it encodes them again, one at a time, so
the invariant `IInv` has, beside `TypeOK` and `NoDangling`,

* `Scored` – while a rebuild runs, a segment that cannot be scored is one that the
  loop has still to reach (`Waiting`);
* `Rebuilding` – the loop's codebook is resident and the saved one, and as long as
  nothing has failed the segments behind it are encoded with it, so that when it
  has run past the last one, all are.

There is one lemma for each step, and the `ASSUME` on the bounds is the only assumption.

It also proves `CodesAlwaysFit` (`CodesFit`) and `AlwaysBuiltAsLoaded`
(`BuiltAsLoaded`) from that invariant and a second one, `JInv`, whose parts are

* `Coded` – only an index with PQ has codes, and what is in memory comes from disk;
* `Bare`, `Floats` – a segment without codes in memory has none on disk and has its
  vectors, unless a rebuild has still to reach it; under the tier `float` all have;
* `Fit` (unless `hurt`) – besides `CodesFit`, what the next load, training or encoding relies
  on: the resident codebook is the saved one, of the configured size, every file in
  global mode was made with it, and the stores borrow it exactly in that mode;
* `Redone`, `Built` – during a rebuild and a build, how the segments behind the loop are.

`CodesFit` is about what is decoded now; that it stays true needs what a later
`open()` will load, so `Fit` speaks of the files as well.

`SpoorReindexProofs` proves of spoor, for any files, shapes, models, edits, reverts and
interruptions, and requests that do not overlap: `SpoorTypes` (`TypeOK`),
`FreshIsAlwaysCovered` (`FreshIsCovered`), `SearchAlwaysSeesTree` (`SearchSeesTree`) and
`UnhurtIsAlwaysExact` (`UnhurtIsExact`), the last three of all files but the mistaken ones.
What holds between two requests is broken within one, in a different way at each step,
so the invariant `IInv` follows the request:

* `Types`, `Buffer`, `Read` – the types; what waits in the engine's memory is of the request's
  model, and its keys lead nowhere yet; a chunk that was read is of the content that
  was hashed, unless its file is `amiss`;
* `Kept`, `Coming` – of every file that is not `touched`, the index holds what the saved
  manifest vouches for; of every file that is not `amiss` it will hold what the next one
  vouches for: it is there, in the engine's memory, among the chunks read, or still to be read;
* `OnlyBack` – a touched file holds the content the manifest knows only if it has come
  back to it. This is what makes `FreshIsCovered` of all but the mistaken files follow;
* `Removing` – what is removed is known to the saved manifest, and differs from the tree
  or has come back, so removing it keeps `OnlyBack`;
* `Watched`, `Served` – a search knows which files its scan did not see as they are now,
  and when it is served all others are in the index, but the mistaken ones;
* `Agreed` (unless `hurt`) – every chunk in the index is one that sidecar and manifest account
  for: those on disk until the engine first flushes (`Old`), those to be written once all
  is removed (`New`); a flush in the middle of the upserts is when only the second remains;
* `Clearing`, `Filling` (unless `hurt`) – a request first takes out all of what has
  changed, and then only puts in, once each, what was not there.

`None` is assumed not to be a chunk (`NoneAssumption`).

`IndexKeymapProofs` proves of the keymap, for any keys, hash function and prefixes, an
initial table of at least four slots, and any number of lines and faults:
`TypeCorrect` (`TypeOK`), `ProbesAlwaysEnd` (`ProbesEnd`), `LogAlwaysReproduces`
(`LogReproduces`); `ImplementsMap`, that `Spec` implements `MapSpec`, operation by operation; and
`ImplementsKeyMap`, that it therefore implements the specification of `KeyMap`. Its invariant
`IInv` has

* `Sound(table)` – a free slot has no generation, `slots_used` counts the others and is less
  than the number of slots, and the probe for every key in a slot ends there. A
  slot is never freed, so filling one at the end of its key's probe, and giving
  another generation to one, leave every other probe as it was (`FillSound`, `RegenSound`);
  growing fills a table twice the size with the live slots, at most 3/4 of the old ones, which
  are of different keys, so that the insertion that follows always leaves one free
  (`GrowSound`, `InsertSound`);
* `FileOK` – the lines are some that can be written or left behind, and a line without its
  newline is the last one, of a key that is known to be doubtful;
* `Agrees` – the last line about a key that is not doubtful says where it is, and there is
  none only if it is nowhere. `LoadedSays`, that `load()` makes of a log what it says, is what makes
  `LogReproduces` follow; `LogReproduces` itself is not inductive, since appending a line
  to a log that is loaded right gives one only if the line was not joined to a torn one.

What an operation writes is `Recorded`: silent on the keys it leaves alone, and the last
word on those it does not, or these have become doubtful. The recursion over the slots and
the folds over lines, like the recursions above, are reasoned about by the smallest counterexample.
The assumptions are `TableAssumption` (with fewer than four slots an insertion could fill the last
one before 3/4 are reached) and the types of `KeymapAssumption`.

Only model-checked: everything
about `TopK` and `SegmentSearch` (the sifting and the filter tree of the
last two are recursive operators, which the prover does not take); and the liveness properties, which are out of the prover's reach.

## 6. Where the code and its documentation disagree

`FlushCrash` is kept as a run, with its finding in `PROJECT.json`: a crash between
the saved manifest and the emptied log makes the next `open()` replay records
over a segment that already holds them, which is not harmless, as
`atire_segment_index.cpp:1436` says: adds are indexed twice.

The others were met while modelling and checked with the settings given; they
have no run of their own. In the segment index (each was also reproduced with
the sources):

* **An update that merges itself.** `update_document()` adds, and may flush and merge,
  before it buries the old copy (`atire_segment_index.cpp:977`): a merge can write
  both, and the key has two live documents for good. The comment in
  `atire_segment_index_compaction.cpp:426` says that cannot be. `Durable` with
  `AutoMaintain = TRUE`, no faults, no crashes and 4 calls breaks
  `MergedDocsAreCurrent`.
* **The tail of a replay.** The truncation put off in a replay (line 650) drops records
  replayed after the flush that asked for it, which are only in memory;
  line 641 says the log is safe to empty. A crash in the window `exposed` shows it.
* **A swap that cannot be saved.** After `manifest->save()` fails in `compact()` the
  session works on a segment the disk does not list, and without the log its
  deletes are undone by the next `open()`; `atire_segment_index_compaction.cpp:59`
  says the view is consistent. `Relaxed` with `FaultIn = {"swap"}` and
  `CrashIn = {"other"}` breaks `NoResurrection`.
* **Ghost documents.** 0 stands for "nothing saved yet" and is the true count of a merge
  without live documents (`search_engine.h:166`, against line 161): such an
  engine reports the collection's size as its own. `GlobalStats` with
  `MergesEmpty = TRUE` breaks `OwnCounts`.
* **A torn tail.** Records appended behind a record that a crash cut short
  (`source/wal.cpp:160`) are not replayed, or are read as something else; the history
  variable `late` has them. `docs/superpowers/specs/2026-07-06-lexical-phase3-design.md:40`
  says a crash can lose at most the final partial record.
* **Failing calls and the statistics.** `atire_segment_index_durability.cpp:78` says the
  refresh is called at every boundary that changes the segment set. `flush()` returns
  without it when the segment cannot be opened, its manifest not saved or the next
  writer not started (`atire_segment_index.cpp:1400`, 1408 and 1411), and line 1393 has just
  marked the view as up to date: after a failed save the new segment is open and
  ranks with its own N. `compact()` returns without it after a swap that cannot be saved
  (`atire_segment_index_compaction.cpp:818`). The next refresh puts it right; until
  then `missed` is true.
* `search()` scores the disk segments before it refreshes the statistics
  (`atire_segment_index_search.cpp:183`), so the first search after an add ranks
  with two different N.
* `compact_log()` of the keymap, and the `save()` of the manifest and of the tombstones,
  do not look at what `fclose()` returns (`source/index_keymap.cpp:494`,
  `index_manifest.cpp:127`, `index_tombstones.cpp`): a cut file can be renamed over a
  good one. In `Keymap` the fault `close` makes the keys of the missing lines
  doubtful.

In the other parts (seen in the models; not reproduced on a build):

* **Vector quantization.** A rebuild that drops a store and cannot reload it leaves,
  under the resident tier `none`, nothing to score the segment with; the comments
  at `atire_segment_index_vector.cpp:1071` and after say it falls back to the
  resident float vectors, which that tier does not keep (`dropped` in
  `Searchable`). Such a segment has no store, so the next rebuild passes over it
  and may return 0. Switching global mode on over segments with codebooks of
  their own makes a later `open()` decode them with a codebook that is not
  theirs as soon as there is one (`hurt` in `CodesFit`). A graph is built over
  what is resident at that time, and kept when that changes otherwise than by
  the setter that removes graphs.
* **Addon.** After an auto-flush has failed past the end of its writer, `flush()`
  resolves although the accepted documents are not on disk
  (`atire_segment_index.cpp:1166`): `KeptIfWriting` without its condition `sure` is
  broken.
* **spoor**, against `docs/superpowers/specs/2026-09-03-spoor-mvp-design.md`: a change of
  the model rebuilds from an empty manifest without deleting what is in the
  index, so vectors of two models can be mixed (:132 says never); when the dimension
  differs, `open()` refuses the index for ever (:173 says it is rebuilt); and a
  search whose reindexing throws is rejected (:172 says the stale index is
  served). And a search does not always see the tree (`spoor/src/query.js:8` says it
  "just works on a fresh worktree"). A request deletes the chunks of a changed file
  on disk (`reindex.js:38`) and is cut before line 52; the file is checked out as it was
  before: its hash is the one in the manifest, and searches miss it until it changes.
  The same happens to a file that differs from its hash only while it is read (line 40).
  `Mistaken` names these files; without it, `FreshIsCovered` and `SearchSeesTree` are
  violated.
* **Search.** A degraded segment, which admits nothing under any filter, becomes a
  good one when it is compacted, and its documents then pass a NOT: the guard
  in `filter.cpp` (`evaluate`) protects the segment and not its documents. Payloads
  are lost with attributes when only the `.pay` file of a merge cannot be
  created. Ties within an engine go to the highest docid, between lists to the
  lowest.

What the passing runs leave out because of these: `Durable` the windows of
`FlushCrash` and of the tail of a replay, the window inside an update (its two
halves are not atomic), and auto-maintain; `Relaxed` the last two, the fault of
tombstones, and that of the swap, which is in `Durable` (there the replay repairs it); `GlobalStats` and its theorems merges
without live documents (`SegmentIndex` gives such a merge an empty output). `Pq`,
`Addon`, `Spoor` and `Search` leave nothing out because of them: their properties
say, by a history variable, what is promised no more, and so does `RankedGlobally` of
the failing calls.

## 7. Not modelled

* Numbers: scores, distances, k-means, graph search, signatures, int8
  quantization, fusion of text and vector scores. No property here depends on them.
* The twin of `PqCodebook` for token vectors (`atire_segment_index_vector.cpp`, from
  line 1121), which repeats the same code for another file, and the token sidecars.
* The engine below `ATIRE_API`: indexing pipeline, codecs, postings, ranking functions,
  stemmers, relevance feedback, query parser, tools. It is about nine tenths of
  the source, sequential, without persistent state of its own, and a model of a
  stemmer or a codec would be a copy of its tables. `TopK` is the part of it whose
  correctness is a matter of order.
* File formats other than the two logs'; power loss (`fsync`), and a manifest that
  is damaged while it is saved.
* What calls of `SegmentIndex` return, except where it changes what happens next.
* The log's own failures inside `SegmentIndex` (they are in `WriteAheadLog`), and
  flushes inside adds in `SegmentSearch` (they are in `SegmentIndex`).
* A filter on values that do not fit the schema: several values given for a
  single-valued field all match while the document is in the writer, and only
  the first after the flush; strings longer than a compaction's buffer.
* The Python binding, which holds no state, and its MCP server, which runs every call
  under one lock.
* spoor's chunker and its token and PQ modes.
* Two spoor requests at once. Nothing in `spoor/src/mcp.js` prevents them, and each has an
  engine of its own over the same directory: what two open indexes do to each other's
  manifest, keymap log and files is not in `SegmentIndex` either. All that is
  said of spoor is said of requests one after the other.
* A second `finish()` of a writer: `flush()` that fails after it (lines 1217 and 1377 of
  `atire_segment_index.cpp`) keeps a list that has already been serialised and closed,
  and the next `flush()` finishes it again. `SegmentIndexWrap` has the failure, and takes the
  retried flush for one like the first; `SegmentIndex` does not have it.

`PROJECT.json` lists the hazards of this code, with the properties that cover
them and, for those not covered, why.

## 8. What could come next

1. `IndexKeymap` inside the index: a log that was lost or cut when `open()`
   decides between trusting and rebuilding it; every live document is reachable
   by its key after an `open()`.
2. The log inside the index: `SegmentIndex` with `WriteAheadLog`'s failures
   (an unhealthy log, appends that are not reported), and the remaining fault
   sites of `flush()`: `finish()` (line 1180), the `.vec` file (1217) and the `.del` file
   (1376), after which the writer stays.
3. `IndexManifest`: the text file, its parser and the save through a temporary
   file, implementing the atomic `disk` variable.
4. Overlapping requests of spoor: two engines over one directory.
5. What relaxed mode promises of flushed documents as an abstract specification of
   its own, beside `NoResurrection`, and its refinement.
