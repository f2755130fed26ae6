# TLA+ models of fdb-kv (fdb5)

This directory holds TLA+ models of the parts of `src/fdb5` whose correctness
depends on ordering, partial failure and interleaving. It also holds the TLC
configurations that check them. `PROJECT.json` lists the components, the runs,
the mutants that show each property can fail, the source lines each
definition models, the findings and the hazards.

Run a model from this directory with `tlc -workers 2 -config <cfg> <module>`.
The module and cfg of each run are listed in `PROJECT.json`.

## The system

The spec (`spec.md`) describes a *locate, reconstruct, assemble* pipeline.

| Part | Source | Role |
|---|---|---|
| Journal | `toc/TocHandler.cc` | The append-only `toc` file of one database directory. It holds INIT, INDEX, CLEAR and WIPE records. `loadIndexes` replays the file into the live index list, newest first. `databaseKey` returns the key of the INIT record. |
| Locator | `toc/TocEngine.cc` | `databases(key, roots)` asks the schema for candidate first-level keys. It lists `*:*` under each root, matches names against a regex per candidate, and keeps a directory when its journal's `databaseKey()` matches the request. |
| Rules parser | `RulesParser.cc` | Recursive descent parser of the schema text `[k=v/w, k2 [..]]`. |
| Handle gatherer | `HandleGatherer.cc` | Collects the byte-range handles of a retrieval. Merges them, in sorted or unsorted mode, into one `MultiHandle`. |
| C API | `api/fdb_c.cc` | C shim: opaque objects (handle, key, request, list iterator, data reader). Exceptions become error codes. |
| Keyword handlers, legacy archiver | `StepHandler.cc`, `legacy/LegacyArchiver.cc` | Canonicalise step values against a database axis. Check legacy keys against metadata before archiving. |
| Library and tools | `LibFdb5.cc`, `tools/*` | Version and registration lookups, command line tools. |

How the parts interact:

- Writers (an archiver, through a DB object) create a database by calling
  `TocHandler::writeInitRecord`. They then append INDEX, CLEAR and WIPE
  records.
- Readers (the locator, retrieve and list) open the same `toc` file at any
  moment, in other processes.
- The only coordination is append-only file semantics, with one writer per
  database.
- The locator runs `databaseKey()` on every candidate directory. So a
  database being created races every scan of its root.

## Modules

| Module | Models | Kind |
|---|---|---|
| `TocRecords` | Records of a `toc` file, `readNext`'s success condition, the replay of `loadIndexes`, the search of `databaseKey`. | Pure operators (RECURSIVE replay) |
| `Journal` | What the journal promises: a key set once, a newest-first live list, readers that see it or fail. | Abstract spec |
| `TocHandler` | One database's journal: a writer running sessions, failed appends, readers at any time. | State machine, refines `Journal` |
| `MC_TocHandler` | TLC instance of `TocHandler`. | MC |
| `TocFile` | The same `toc` file at the level of file offsets, written by several processes: `round`, `append`'s `write(2)`, `readNext`'s two reads, `writeInitRecord`'s `O_RDWR` write at offset 0 racing `O_APPEND` appends, short writes. | State machine, RECURSIVE reader |
| `MC_TocFile` | Two writers, two segments, symmetry over both. | MC |
| `Locator` | `TocEngine::databases` as one step per loop iteration. It interleaves with writers creating three databases under two roots. | State machine, uses `TocRecords` |
| `MC_Locator` | A two-attribute schema (`class=od/rd`, `expver`). Three databases; root list `r1, r2, r1`; four requests. | MC |
| `RulesParser` | `parse`, `parseRule`, `parsePredicate`, `parseIdent` as operators, and a reference recogniser of the spec grammar. States enumerate texts. | Pure operators |
| `MC_RulesParser` | Name characters `a`, `b`. | MC |
| `HandleGatherer` | `add` (sorted and unsorted) and `dataHandle`, with the handles' merge/compress contract. | State machine |
| `MC_HandleGatherer` | Two resources, offsets 0..2, three adds per composite, symmetry over resources. | MC |
| `FdbCApi` | The C API shim for one client: `wrapApiFunction`, the error string and failure handler, the list iterator, the data reader. | State machine |
| `MC_FdbCApi` | Listings `<<>>`, `<<e1>>`, `<<e1, e2>>`; two retrieves; ten calls. | MC |
| `FdbCObjects` | The rest of the C API, per client thread: `fdb_initialise`, version queries, the handle, keys, requests, key dictionaries and URIs, `fdb_archive*`, `fdb_flush`, `fdb_listiterator_key`, `fdb_error_string`. | State machine |
| `MC_FdbCObjects` | Two attributes, two values, element keys that set one or both attributes. | MC |

### TocHandler: state and actions

- **State.**
  - `toc` is the file: a sequence of records, each `[tag, key, seg, torn]`.
  - `torn` marks a record of which only a prefix is on disk. The record is
    either still being written or its write failed.
  - `pc` is the writer: `idle` (no session), `ready` (after
    `writeInitRecord`), `writing` (inside `append`).
  - `readerView` and `keyView` hold what the last `loadIndexes` and
    `databaseKey` returned. The value `Failed` means the call threw.
- **Actions.** `append` is split in two: `BeginAppend` (the write starts; the
  record is torn) and then `AppendDone` (the full size was written) or
  `AppendFails` (short write or crash: the prefix or nothing stays on disk,
  and the exception ends the session).
  - `WriteInitRecord` models the whole function: mkdir, `open(O_CREAT)`,
    `readNext` of the first record. An empty file gets an INIT append. A
    complete INIT is accepted as it is. Anything else throws, which is no
    step.
  - `WriteIndexRecord`, `WriteClearRecord` and `WriteWipeRecord` each start
    one append.
  - `ReadIndexes` and `ReadDatabaseKey` evaluate the readers on the current
    file.
- **How a record reads.** `readNext` succeeds on a record iff it is not
  torn:
  - a torn last record is a short read, which fails the ASSERT at line 106
    or 109;
  - a torn inner record shifts every later header.
  - So `loadIndexes` fails iff some record is torn. `databaseKey` fails iff
    it meets a torn record before the first INIT, or finds no INIT.
- **Refinement.** The mapping to `Journal` takes the complete records:
  - `dbKey` is the key of the first complete INIT;
  - `live` is the replay of the complete records.

### TocFile: state and actions

- **Units.** The file `file` is a sequence of units. Unit `off` of record
  `r` written with size `n` is `[rec |-> r, size |-> n, off |-> off]`, so
  equal units hold equal bytes. This assumes that the header's other fields
  and the padding, which `TocRecord.h` (outside the source) fills, are the
  same in every process. A header is `HeaderUnits` (2) units; the
  first carries `size_`. A payload is 1 unit, or 0 for a WIPE.
  `RecordSize(r, b)` is `round(header + payload, b)`.
- **Rounding block per process.** `fdbRoundTocRecords` is a `static`
  `Resource` read once by each process, so `BlockOf[w]` gives each writer
  its own block. The reader takes every length from the header it reads.
  In the run `w1` rounds to 2 units and `w2` to 4: an INIT, INDEX or CLEAR
  is 4 units for both, and a WIPE is 2 units or 4.
- **Writers.** Each writer in `Writers` has a `pc`, the offset `pos` of its
  descriptor and the header `hdr` its `readNext` read.
  - `OpenInit` is `open(O_CREAT | O_RDWR)`.
  - `InitReadHeader` is the header `read(2)`: nothing (an empty file), a
    short read (ASSERT, line 106), or a header.
  - `InitReadPayload` is the payload read, the version check and
    `ASSERT(tag == INIT)`.
  - `InitWrite` writes the INIT record at the descriptor's offset (0),
    over whatever other writers put there meanwhile.
  - `AppendRecord` is `openForAppend` + `append`: one `write(2)` at the
    end of the file.
  - A write may be cut short (`MaxFailures`). It leaves a prefix and
    throws, and `TocHandlerCloser` ends the session (`Throw`).
- **Reading.** `ReadAll` is `loadIndexes`' loop over `readNext`: a header
  read, then a payload read of the size the header gives.
  - A short read fails.
  - Units that are not a record's header, or payload units that are not
    that record's, are taken to fail the version check or the decoding.
    This is an abstraction: the model does not compute garbage sizes.
- `completed` is a history of the records whose `O_APPEND` write completed,
  in order.

### Locator: state and actions

- **Scan state:**
  - `j`: the root index;
  - `subdirs`: the listing;
  - `ci` and `k`: the candidate and subdirectory loop indices;
  - `seen` and `result`: the code's own sets;
  - history variables `expected` and `listedReadable`: the directories
    that were readable and matching when their root was listed. `expected`
    excludes those already in `seen`.
- **Scan actions:**
  - `StartScan`;
  - `ListRoot`: `PathName::match` at that moment;
  - `Probe`: one iteration of the innermost loop, including the seen test,
    the regex, `databaseKey`, the match, the catch and `seen.insert`;
  - `FinishScan`.
- **Regex.** The key's values go into the regex unescaped. `RegexMatches`
  accepts a name whose value equals the candidate's, a wildcard, or a value
  that the candidate's text matches as a pattern (`PatternMatches`, e.g.
  `e.` matching `e1`). A pattern that makes `Regex` throw is not modelled.
- **Writer actions** are the steps of `writeInitRecord` and of one
  `writeIndexRecord` per database: `MakeDir`, `CreateToc`, `BeginInit`,
  `BeginIndex`, `AppendDone` and `AppendFails`. They interleave freely with
  the scan.

### RulesParser: operators

- `Peek`, `ParseIdent`, `ParseValues`, `ParsePredicate` and `Predicates`
  follow the functions and `while` loops of the same names; a loop is a
  tail-recursive operator with the vector it fills as an accumulator.
- The recursion of `parseRule` is a loop over an explicit call stack: the
  machine `[pos, stack, status]` has one frame `[preds, rules]` per
  `parseRule` call in progress, above the result vector of `parse`.
  - `OpenRule` is `consume('[')` with the `"[]"` shortcut.
  - `CloseRule` is the `']'` that ends a turn.
  - `Step` is one peek of the `for(;;)` loop: `'['` a nested rule, `']'` the
    end of the rule, anything else a run of predicates. In `parse`, anything
    but `'['` ends the loop.
  - `Run` iterates `Step`; `Parse` adds the final "remaining char" check.
- The stack form is equivalent to the code's nested calls. It is used because
  TLC's profiler cannot cope with mutually recursive operators.
- The reference (`RefRules`, `RefRule`, `RefPredList`, `RefPredicate`)
  splits a text the way the grammar of spec 4.1 does, instead of reading it
  left to right.
- The module's state is the text, built one character at a time, with what
  `Parse` and the reference return for it.

### HandleGatherer: state and actions

- **State:** `sorted` (`sorted_`); `handles` (`handles_`, each a resource
  and a sequence of byte ranges); `composite` (the ranges the last
  `MultiHandle` reads). The history variables `pending` and `delivered`
  hold the ranges added since, and before, the last `dataHandle`.
- **Actions:** `Add(h)` offers `h` to every handle (sorted) or to the last
  one (unsorted), merges into the first that accepts it, else appends.
  `DataHandle` compresses each handle, wraps them, and clears `handles_`.
- `merge` and `compress` belong to eckit. They follow the spec's contract
  (4.5, 6) and are marked `spec_modelled`.

### FdbCApi: state and actions

- **State:**
  - the last call and its return code;
  - `errStr` (`g_current_error_str`), `handler` and `handled` (the codes
    the failure handler received);
  - the list iterator: `iter` (`iter_`: a listing and a cursor),
    `validEl`, `el`;
  - the data reader: `dh` and the set `live` of DataHandles created and not
    deleted;
  - history: `returned` (what `next()` returned since the last `fdb_list`)
    and `got` (what the last `attrs`/`key` read).
- **Actions:** one per API function. `Returns` and `Throws` are the two
  ways out of `wrapApiFunction`. A failing ASSERT throws an eckit exception.
  `FDB::list` and `FDB::retrieve` may throw any of the three kinds the catch
  clauses tell apart.
- The client calls any function on objects it created, in any order.

### FdbCObjects: state and actions

- **State:**
  - `errStr`, the global `g_current_error_str`;
  - `initialised` (the function-static bool), and per thread `seen` and
    `initPc`: `fdb_initialise` is two steps, the test of the bool and then
    `Main::initialise` with the set;
  - `mainInits`, and per thread `initOk` (a call returned success);
  - `held`, the objects the client holds (handle, key, request, key
    dictionary, URI);
  - `keyDict`, `reqDict`: the attributes of the key and the request;
  - `archived` and `flushed`: what `FDB::archive` got, and how much of it
    `FDB::flush` followed.
  - No property reads `errStr`, `held`, `keyDict`, `reqDict`, `archived`
    or `flushed`. They keep each call's effect in the model, so that the
    guards on null pointers and the exceptions of each call take the
    right branches.
- **Actions:** one per API function.
  - A pointer argument is null when the client holds no such object, and
    the ASSERT throws.
  - `FDB`, `Main::initialise` and the constructors may throw any of the
    three kinds of exception that the catch clauses tell apart.
  - `ListIteratorKey(e)` sets the element's attributes into the key
    without clearing it. Whether `validEl_` holds is a nondeterministic
    choice; `FdbCApi` models that state.

## Runs

| Run | Checks | Result |
|---|---|---|
| `journal_refinement` | `TypeOK`, `JournalRefinement`: `TocHandler` implements `Journal` under the refinement mapping, with up to two failed appends and readers at every point. `Journal`'s readers may fail at any time, so this run says nothing about when a reader fails. | pass |
| `toc_file_race` | `FileReadsAsJournal`: two processes create the same database, both possibly finding the file empty and writing INIT at offset 0 after the other's appends. `loadIndexes` still reads one INIT followed by every completed append, in order. It throws only after a short write. | pass |
| `journal_torn_tail` | `TornTailTolerated`: the spec's promise that a torn trailing record is end-of-log. | violation |
| `journal_init_key` | `SessionKeyMatches`: the spec's promise that `writeInitRecord` on an existing database checks the key. | violation |
| `locator_scan` | `TypeOK`, `ScanFindsEachDatabaseOnce`: every database readable and unprobed when listed is returned, and none twice, with a repeated root. | pass |
| `locator_retry` | `ReturnsEveryReadableDatabase`: the spec's "skip only already confirmed directories". | violation |
| `rules_grammar` | `TypeOK`, `GrammarAccepted`: on all 960 800 texts of up to seven characters, `parse` consumes all it accepts, and accepts every text of the grammar with the tree and match policies the grammar gives it. | pass |
| `rules_strict` | `OnlyGrammarAccepted`: the spec's "malformed schema text is a parse error". | violation |
| `gatherer` | `NoByteLostOrDuplicated`, `UnsortedKeepsOrder`: in both modes every byte added is read exactly once, and in unsorted mode in the order added. | pass |
| `capi_lifecycle` | `TypeOK`, `IterationDeliversListing`, `NoHandleLeaked`: with failing calls anywhere, a completed iteration delivered exactly the current listing, and every DataHandle is deleted once the reader drops it. | pass |
| `capi_objects` | `MainInitialisedOnce`: for one client thread, with every call able to throw, `Main::initialise` runs once and before any successful `fdb_initialise`, and a throwing `Main::initialise` is retried. | pass |
| `capi_relist` | `AttrsOfCurrentListing`: the intent of `ASSERT(validEl_)`, that `attrs`/`key` read the element `next()` last returned from the current listing. | violation |

### Findings

1. **A torn record is fatal, not end-of-log** (`TocHandler.cc:106`).
   - A failed append of the INIT record leaves a torn record.
   - From then on `loadIndexes` throws on every call. `writeInitRecord`
     throws too, so the database can never be opened again.
   - The spec (4.3) says a partial trailing record is end-of-log.
2. **The INIT key is not compared** (`TocHandler.cc:169`).
   - `writeInitRecord` on an existing database only ASSERTs that the first
     record is an INIT.
   - A session opened for `k1` appends into the database of `k2`.
   - The spec (4.3) says the call verifies the key and fails on a mismatch.
3. **A failed probe is remembered as seen** (`TocEngine.cc:92`).
   - `seen.insert` runs after a failed probe too.
   - A database probed while its INIT record was in flight is skipped when
     its root comes again in the list, although it is now readable.
   - The spec (4.4) skips only confirmed directories.

4. **The parser accepts text outside the grammar** (`RulesParser.cc:132`).
   - After a predicate list or a run of nested rules, anything but `']'`
     starts another turn of `parseRule`'s loop instead of failing.
   - `[==]` parses as two nameless predicates with no `','` between them.
     `[[]a]` mixes a nested rule and a predicate in one bracket.
   - The spec (4.1, 7) makes malformed schema text a parse error.
5. **Re-listing leaves a stale element** (`fdb_c.cc:85`).
   - `fdb_listiterator_t::set` swaps the iterator but keeps `validEl_` and
     `el_`.
   - After `fdb_list` on an iterator that was part-way through a listing,
     `attrs` and `key` pass `ASSERT(validEl_)` and return the old listing's
     element.

Two observations about `fdb_c.cc` are not runs:

- **Mismatched release form.** `fdb_listiterator_t::attrs` allocates the
  URI with `new char[]` (line 102), and `fdb_delete_uri` frees it with
  `delete` (line 395). `fdb_key_dict` allocates with `new[]` (lines
  370-375), and `fdb_delete_key_dict` frees with `delete` (385-388). This
  is undefined behaviour. It is visible in two lines each and an address
  sanitizer reports it, so `FdbCObjects` does not track allocation forms.
- **`fdb_initialise` under two threads.** With `Threads = {t1, t2}`, TLC
  violates `MainInitialisedOnce` in four steps: both threads test the bool
  before either sets it. The same goes for the shared
  `g_current_error_str`: another thread's failure replaces the text between
  a call and its `fdb_error_string`. Nothing says whether the C API may be
  called from several threads, so no run asserts either there. With one
  thread the error string is the last failure's text by construction, so
  it is not checked.

The spec (4.5) also says that `dataHandle` runs a merge pass across the whole
sequence. The code only compresses each handle on its own. The model follows
the code. `NoByteLostOrDuplicated` holds either way, so this is noted here
rather than checked.

## Bounds and why they are enough

- **`TocHandler`: two keys, two segments, at most 4 records, 1 failure.**
  - Four records hold an INIT plus three of INDEX, CLEAR and WIPE.
  - That covers a duplicate INDEX followed by a CLEAR (oldest-first
    removal), a CLEAR after a WIPE, and precedence between two segments.
  - With one failure the torn record can be the INIT, an inner record
    followed by later appends of a new session, or the tail.
  - With two failures, a second session can tear another record after the
    first tear.
  - 73 737 distinct states.
- **`TocFile`: two writers, two segments, blocks of 2 and 4 units, 2
  appends, 2 short writes.**
  - Two writers are enough for the race: both find the file empty, and one
    writes INIT at offset 0 after the other has written INIT and an index
    record.
  - The blocks round the 3-unit records up to 4 and the 2-unit WIPE to 2
    or 4. So the rounding in `append` is exercised, and the reader meets
    records of different lengths, from the same writer and from the two.
  - The blocks are chosen so that the two INIT records have the same size.
    With blocks 2 and 3 they differ. Then TLC violates `FileReadsAsJournal`
    in 7 steps without any short write: both writers find the file empty,
    and each writes its INIT at offset 0. This is listed as a hazard.
  - The short writes can fall on either writer's INIT (a torn INIT, which
    the other writer may overwrite) or on an append, or on both.
  - 1 422 828 distinct states.
- **`Locator`: three databases, two roots, root list `r1, r2, r1`.**
  - `d1` and `d2` share root `r1` but have different classes. So a
    candidate regex tells them apart, and `[expver=e1]` matches both.
  - `d3` is under `r2` with another `expver`. So a request can match a
    name but not the key.
  - The repeated root exercises the `seen` set.
  - One failed append gives a permanently torn INIT.
  - The five requests are: a full key, a class only, an `expver` only
    (expanded over the schema's two classes), the empty key, and
    `[class=od, expver=e.]`. The unescaped `.` makes that last request's
    regex match the names of `d1` and `d3`, so they are probed and put in
    `seen`. The run shows that this costs only probes: the request is the
    same for every candidate, so `seen` only gains directories whose key
    the request rejects.
  - 402 418 distinct states.

- **`RulesParser`: every text of up to 7 characters over `[ ] = / ,` and two
  name characters (960 800 texts).**
  - Seven characters reach two-level nesting (`[[a=b]]`), three values
    (`[=a/b/]`), two predicates (`[a,b=c]`), and the empty rule in a list.
  - The strict run uses six characters; its shortest counterexample has four.
- **`HandleGatherer`: two resources, offsets 0..2, four adds.**
  - Four adds reach two merges into one handle. Three ranges of one resource can arrive out of order (sorted merge into a
    non-last handle) or interleaved with another resource (the unsorted mode
    does not merge).
  - Both modes; several `dataHandle` calls per behaviour.
  - 2 418 026 distinct states.
- **`FdbCApi`: listings of 0, 1 and 2 elements, two retrieves, ten calls.**
  - Ten calls are enough to create an iterator, list, read part of it,
    list again and read on. They are also enough to retrieve twice and
    delete the reader, with failures in between.
  - 401 399 distinct states.
- **`FdbCObjects`: one thread, two attributes, two values, seven calls.**
  - Seven calls reach: a failing `fdb_initialise`, then a retry, then a
    third call; and failures of each kind followed by successes and
    `fdb_error_string`.
  - They also reach a key that an element fills, then is added to, then is
    archived and flushed.
  - 260 182 distinct states.

## Fairness

No module assumes fairness, and every run checks safety only. Every step
is a call of a writer, reader or client that may stop at any time, or a
`write(2)` that may be cut short. The one liveness property the code
suggests is that a readable toc becomes readable again once an append
returns. It follows from the fairness of that `write(2)` alone, so it is
not checked. No comment or spec text promises that a reader retries. `RulesParser` has no behaviour
of its own; its state machine only enumerates texts.

## Not modelled

| Part | Why |
|---|---|
| `Schema::matchFirstLevel` and `Key::match` | Not in the source. They are modelled from the spec (4.2) and marked `spec_modelled`. |
| Byte values of records, garbage sizes, a block size of 0 or larger than a `TocRecord` | `TocRecord.h` is not in the source. `TocFile` models sizes in units, with a block per process. A header that is not a record's is taken to fail the version check. `FileReadsAsJournal` shows that this happens only after a cut-short write (or with rounding blocks that give INIT records different sizes). |
| Several threads calling the C API | Nothing in the source says whether several threads may call it. See the observation under Findings. |
| `StepHandler.cc` | A pure rewrite of step strings against an axis, through `StepRange` (marslib, not in the source). Keyword formatting is out of the spec's scope (1). |
| `legacy/LegacyArchiver.cc` | `archive` checks the metadata key against `legacy_` and forwards it to `Archiver`. `legacy_` is filled through a translator that is not in the source, and it is never cleared between fields. There is no stated contract to check against. The hazard is listed in `PROJECT.json`. |
| TocEngine's `name`, `dbType`, `location`, `canHandle` and `*Locations` wrappers | They forward to `RootManager` or test that a path exists. |
| `Schema.cc` | Only the constructor, destructor and `operator<<`. |
| `LibFdb5.cc`, `tools/*` | Registration, version strings and command line front ends. `useSerialisationVersion` caches an `atoi` of an environment variable without checking it against `supportedSerialisationVersions`; the serialisation that uses it is not in the source. `FDBLock` passes a bitmask of identifiers to `FDB::control`, which applies the lock bits and is not in the source; locking is out of the spec's scope (1). Its constructor leaves `retrieve_`, `archive_` and `wipe_` to `args.get`, which sets them only when the option is given; whether `FDBLock.h` gives them defaults is not in the source. Both are listed as hazards. |
| Headers without behaviour (`Retriever.h`, `RetrieveOp.h`, `FileStore.h`, `StatsVisitor.h`, `TypeDefault.h`, `KeywordHandler.h`, `MemoryBufferStream.h`, `FDBFileHandle.h`, `Rules.h`) | Declarations and trivial accessors. |

## Plan

Modules in order:

1. `TocRecords`, `Journal`, `TocHandler`: done.
2. `Locator`: done.
3. `RulesParser`: done. The parser is checked against a reference
   recogniser of the spec's grammar (4.1).
4. `HandleGatherer`: done.
5. `FdbCApi`, `FdbCObjects`: done. Together they cover every function of
   `fdb_c.cc`.
6. `TocFile`: done. It covers the toc file at offset level with several
   writers.
7. Sitting three: `TocFile` with a rounding block per process, larger
   bounds for `TocHandler`, `TocFile`, `HandleGatherer` and `FdbCApi`, and
   the hazards of the parts that are not modelled.
8. Sitting four: unescaped regex values in `Locator` (`PatternMatches`).
   Properties that held by construction (a leads-to that followed from
   the fairness of `AppendDone`, an append-only check that held only with
   a constant INIT record, and the error text with one thread) were
   removed.
9. Next:
   - `StepHandler::getValues` as an operator, once `StepRange`'s canonical
     form is pinned down (it is in marslib, outside the source);
   - the rule matching of spec 4.1 (`matchFirstLevel` over parsed rules),
     composing `RulesParser` with `Locator`'s candidate keys.
