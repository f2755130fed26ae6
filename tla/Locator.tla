------------------------------- MODULE Locator -------------------------------
(***************************************************************************)
(* The database locator, TocEngine::databases (src/fdb5/toc/TocEngine.cc),  *)
(* scanning root directories while writers create databases in them        *)
(* (the writeInitRecord / append steps of src/fdb5/toc/TocHandler.cc).     *)
(*                                                                         *)
(* A database directory d lives under root DirRoot[d] and is named after   *)
(* the first-level key DirKey[d] it is created for.  The scan asks the     *)
(* schema for the candidate first-level keys of the request; for each root *)
(* of the root list it lists the subdirectories, and for each candidate   *)
(* and subdirectory not seen yet whose name the candidate's regex matches, *)
(* it opens the TOC and keeps the directory if its key matches the request.*)
(* The scan is one thread; each directory has its own single writer; their *)
(* steps interleave.                                                       *)
(***************************************************************************)
EXTENDS Naturals, Sequences, SequencesExt, FiniteSets, TocRecords

CONSTANTS
    Attrs,        \* the first-level attributes of the schema
    Values,       \* their values
    Wild,         \* a regex wildcard in a candidate key (an absent attribute)
    Always,       \* a first-level predicate that matches any value
    SchemaRule,   \* SchemaRule[a]: Always, or the set of values it allows
    Roots,        \* root directories
    RootList,     \* the roots to scan, in order (a root may come twice)
    Dirs,         \* database directories that writers may create
    DirRoot,      \* DirRoot[d]: the root d lives under
    DirKey,       \* DirKey[d]: the first-level key d is created for
    Segment,      \* the segment a writer indexes
    Requests,     \* request keys: functions from some of Attrs to Values
    PatternMatches, \* <<v, u>>: v, put unescaped into a regex, matches the
                  \* text u # v (a value holding a metacharacter)
    MaxFailures   \* bound on the number of failed appends

ASSUME RootList \in Seq(Roots) /\ DirRoot \in [Dirs -> Roots]
       /\ PatternMatches \subseteq Values \X Values

VARIABLES
    dirExists,   \* dirExists[d]: the directory has been made
    tocExists,   \* tocExists[d]: its toc file has been created
    toc,         \* toc[d]: the records of its toc file
    writing,     \* writing[d]: an append to it is in progress
    failures,    \* number of appends that failed so far
    lpc,         \* the scan: "idle", "list", "probe", "done"
    request,     \* the key the scan was called with
    j,           \* index in RootList of the root being scanned
    subdirs,     \* the subdirectories listed under that root
    ci,          \* index of the candidate key being tried
    k,           \* index of the subdirectory being tried
    seen,        \* directories already probed
    result,      \* directories returned so far
    expected,    \* history: directories not probed yet, readable and
                 \* matching when listed
    listedReadable \* history: directories readable and matching when listed

writerVars == <<dirExists, tocExists, toc, writing, failures>>
scanVars == <<lpc, request, j, subdirs, ci, k, seen, result, expected,
             listedReadable>>
vars == <<writerVars, scanVars>>

-----------------------------------------------------------------------------
(* Keys and names.                                                         *)

\* Schema::matchFirstLevel: the candidate first-level keys of a request.
\* An attribute of the request must be allowed by the rule; an absent one
\* expands to the rule's values, or to a wildcard if the rule allows any.
MatchFirstLevel(req) ==
    { c \in [Attrs -> Values \cup {Wild}] :
        \A a \in Attrs :
            IF a \in DOMAIN req
            THEN c[a] = req[a] /\ (SchemaRule[a] = Always \/ req[a] \in SchemaRule[a])
            ELSE IF SchemaRule[a] = Always THEN c[a] = Wild
                 ELSE c[a] \in SchemaRule[a] }

\* Regex("^" + c.valuesToString() + "$").match(d.baseName()): the values go
\* into the pattern unescaped, so a value matches its own text and every
\* text its metacharacters allow.
RegexMatches(c, d) ==
    \A a \in Attrs :
        \/ c[a] = Wild
        \/ c[a] = DirKey[d][a]
        \/ <<c[a], DirKey[d][a]>> \in PatternMatches

\* Key::match of a database key against the request.
KeyMatches(dbKey, req) == \A a \in DOMAIN req : dbKey[a] = req[a]

\* The candidates in the order the std::set<Key> hands them out.
Candidates == SetToSeq(MatchFirstLevel(request))

\* TocHandler(d).databaseKey(), or Failed when it throws.
DatabaseKeyAt(d) == DatabaseKeyOf(tocExists[d], toc[d])

-----------------------------------------------------------------------------
(* Writers: TocHandler::writeInitRecord and one later append per database. *)

Init ==
    /\ dirExists = [d \in Dirs |-> FALSE]
    /\ tocExists = [d \in Dirs |-> FALSE]
    /\ toc = [d \in Dirs |-> <<>>]
    /\ writing = [d \in Dirs |-> FALSE]
    /\ failures = 0
    /\ lpc = "idle"
    /\ request \in Requests
    /\ j = 1
    /\ subdirs = <<>>
    /\ ci = 1
    /\ k = 1
    /\ seen = {}
    /\ result = <<>>
    /\ expected = {}
    /\ listedReadable = {}

\* writeInitRecord: directory_.mkdir()
MakeDir(d) ==
    /\ ~dirExists[d]
    /\ dirExists' = [dirExists EXCEPT ![d] = TRUE]
    /\ UNCHANGED <<tocExists, toc, writing, failures>> /\ UNCHANGED scanVars

\* writeInitRecord: open(O_CREAT | O_RDWR) creates the empty toc file.
CreateToc(d) ==
    /\ dirExists[d] /\ ~tocExists[d]
    /\ tocExists' = [tocExists EXCEPT ![d] = TRUE]
    /\ UNCHANGED <<dirExists, toc, writing, failures>> /\ UNCHANGED scanVars

\* writeInitRecord on the empty file: the append of the INIT record starts.
BeginInit(d) ==
    /\ tocExists[d] /\ toc[d] = <<>> /\ ~writing[d]
    /\ toc' = [toc EXCEPT ![d] = <<[tag |-> "INIT", key |-> DirKey[d],
                                    seg |-> NoSeg, torn |-> TRUE]>>]
    /\ writing' = [writing EXCEPT ![d] = TRUE]
    /\ UNCHANGED <<dirExists, tocExists, failures>> /\ UNCHANGED scanVars

\* writeIndexRecord after a successful writeInitRecord.
BeginIndex(d) ==
    /\ ~writing[d] /\ Len(toc[d]) = 1 /\ ~toc[d][1].torn
    /\ toc' = [toc EXCEPT ![d] = Append(@, [tag |-> "INDEX", key |-> NoKey,
                                              seg |-> Segment, torn |-> TRUE])]
    /\ writing' = [writing EXCEPT ![d] = TRUE]
    /\ UNCHANGED <<dirExists, tocExists, failures>> /\ UNCHANGED scanVars

\* TocHandler::append: write(2) returns the full size.
AppendDone(d) ==
    /\ writing[d]
    /\ toc' = [toc EXCEPT ![d][Len(toc[d])].torn = FALSE]
    /\ writing' = [writing EXCEPT ![d] = FALSE]
    /\ UNCHANGED <<dirExists, tocExists, failures>> /\ UNCHANGED scanVars

\* TocHandler::append: a short write or a crash leaves the record torn.
AppendFails(d) ==
    /\ writing[d] /\ failures < MaxFailures
    /\ writing' = [writing EXCEPT ![d] = FALSE]
    /\ failures' = failures + 1
    /\ UNCHANGED <<dirExists, tocExists, toc>> /\ UNCHANGED scanVars

-----------------------------------------------------------------------------
(* The scan: TocEngine::databases.                                         *)

StartScan ==
    /\ lpc = "idle"
    /\ request' \in Requests
    /\ lpc' = "list"
    /\ j' = 1
    /\ seen' = {}
    /\ result' = <<>>
    /\ expected' = {}
    /\ listedReadable' = {}
    /\ UNCHANGED <<subdirs, ci, k>> /\ UNCHANGED writerVars

\* Fault variant of NextRoot: the root loop runs one index too far.
NextRootOffByOne ==
    IF j <= Len(RootList) THEN j' = j + 1 /\ lpc' = "list"
    ELSE j' = j /\ lpc' = "done"

\* Move on to the next root of the list, or return.
NextRoot ==
    IF j < Len(RootList) THEN j' = j + 1 /\ lpc' = "list"
    ELSE j' = j /\ lpc' = "done"

\* PathName::match(root / "*:*"): the subdirectories that exist now.
ListRoot ==
    LET listed == {d \in Dirs : DirRoot[d] = RootList[j] /\ dirExists[d]}
        found == {d \in listed :
                     /\ DatabaseKeyAt(d) # Failed
                     /\ KeyMatches(DatabaseKeyAt(d), request)
                     /\ \E c \in MatchFirstLevel(request) : RegexMatches(c, d)}
    IN  /\ lpc = "list"
        /\ subdirs' = SetToSeq(listed)
        /\ ci' = 1
        /\ k' = 1
        /\ expected' = expected \cup (found \ seen)
        /\ listedReadable' = listedReadable \cup found
        /\ IF listed = {} \/ Candidates = <<>>
           THEN NextRoot ELSE lpc' = "probe" /\ j' = j
        /\ UNCHANGED <<request, seen, result>> /\ UNCHANGED writerVars

\* Fault variant of Probe: the `seen.find(*j) != seen.end()` test is
\* missing, so a directory is opened again under a later candidate or root.
ProbeNoSeen ==
    LET d == subdirs[k]
        key == DatabaseKeyAt(d)
        tried == RegexMatches(Candidates[ci], d)
    IN  /\ lpc = "probe"
        /\ seen' = IF tried THEN seen \cup {d} ELSE seen
        /\ result' = IF tried /\ key # Failed /\ KeyMatches(key, request)
                     THEN Append(result, d) ELSE result
        /\ IF k < Len(subdirs) THEN k' = k + 1 /\ ci' = ci /\ UNCHANGED <<j, lpc>>
           ELSE IF ci < Len(Candidates)
                THEN k' = 1 /\ ci' = ci + 1 /\ UNCHANGED <<j, lpc>>
                ELSE NextRoot /\ UNCHANGED <<k, ci>>
        /\ UNCHANGED <<request, subdirs, expected, listedReadable>>
        /\ UNCHANGED writerVars

\* One iteration of the inner loop: candidate ci, subdirectory k.  A
\* directory already seen is skipped; one whose name the regex matches is
\* opened, kept if its key matches the request, skipped if databaseKey
\* throws, and seen in both cases.
Probe ==
    LET d == subdirs[k]
        key == DatabaseKeyAt(d)
        tried == d \notin seen /\ RegexMatches(Candidates[ci], d)
    IN  /\ lpc = "probe"
        /\ seen' = IF tried THEN seen \cup {d} ELSE seen
        /\ result' = IF tried /\ key # Failed /\ KeyMatches(key, request)
                     THEN Append(result, d) ELSE result
        /\ IF k < Len(subdirs) THEN k' = k + 1 /\ ci' = ci /\ UNCHANGED <<j, lpc>>
           ELSE IF ci < Len(Candidates)
                THEN k' = 1 /\ ci' = ci + 1 /\ UNCHANGED <<j, lpc>>
                ELSE NextRoot /\ UNCHANGED <<k, ci>>
        /\ UNCHANGED <<request, subdirs, expected, listedReadable>>
        /\ UNCHANGED writerVars

\* The caller takes the result; a new scan may start.
FinishScan ==
    /\ lpc = "done"
    /\ lpc' = "idle"
    /\ UNCHANGED <<request, j, subdirs, ci, k, seen, result, expected,
                   listedReadable>>
    /\ UNCHANGED writerVars

Next ==
    \/ \E d \in Dirs :
        MakeDir(d) \/ CreateToc(d) \/ BeginInit(d) \/ BeginIndex(d)
        \/ AppendDone(d) \/ AppendFails(d)
    \/ StartScan \/ ListRoot \/ Probe \/ FinishScan

Spec == Init /\ [][Next]_vars

-----------------------------------------------------------------------------
(* Properties.                                                             *)

TypeOK ==
    /\ dirExists \in [Dirs -> BOOLEAN]
    /\ tocExists \in [Dirs -> BOOLEAN]
    /\ \A d \in Dirs : toc[d] \in Seq(Record)
    /\ writing \in [Dirs -> BOOLEAN]
    /\ lpc \in {"idle", "list", "probe", "done"}
    /\ request \in Requests
    /\ j \in 1..Len(RootList)
    /\ subdirs \in Seq(Dirs)
    /\ seen \subseteq Dirs
    /\ result \in Seq(Dirs)
    /\ expected \subseteq Dirs
    /\ listedReadable \subseteq Dirs

\* A finished scan returns every database it had not probed yet whose
\* directory it listed while the database's INIT record was complete and
\* matching, whatever the writers were doing to that or any other database
\* (a torn later record included), and returns no directory twice, even
\* when the same root comes twice in the root list.
ScanFindsEachDatabaseOnce ==
    lpc = "done" =>
        /\ expected \subseteq ToSet(result)
        /\ IsInjective(result)

\* The spec (4.4, step 3) skips a subdirectory only when a previous
\* candidate has confirmed it: a database that was readable and matching
\* when its root was listed is returned, even if an earlier probe of it
\* failed because its INIT record was still being written.
ReturnsEveryReadableDatabase ==
    lpc = "done" => listedReadable \subseteq ToSet(result)

=============================================================================
