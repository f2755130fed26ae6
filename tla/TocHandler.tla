------------------------------ MODULE TocHandler ------------------------------
(***************************************************************************)
(* The TOC journal of one database directory (src/fdb5/toc/TocHandler.cc). *)
(*                                                                         *)
(* The file `toc` is a sequence of records.  A record is abstracted to its *)
(* tag and the one argument replay looks at: the key of an INIT record,   *)
(* the segment (path, offset) of an INDEX or CLEAR record.  `torn` marks a *)
(* record of which only a prefix is in the file: one whose write is still  *)
(* in progress, or was cut short by a crash or a short write (ENOSPC).     *)
(*                                                                         *)
(* One writer at a time (the code's single-writer assumption), running     *)
(* sessions: writeInitRecord, then writeIndex/Clear/WipeRecord calls, each *)
(* one append.  Readers call loadIndexes and databaseKey at any moment,    *)
(* interleaved with the writer's steps.                                    *)
(***************************************************************************)
EXTENDS Naturals, Sequences, SequencesExt, TocRecords

CONSTANTS
    MaxRecords,   \* bound on the length of the toc file
    MaxFailures   \* bound on the number of failed appends

ASSUME MaxRecords \in Nat /\ MaxFailures \in Nat

VARIABLES
    toc,         \* the records of the file, in file order
    tocExists,   \* filePath_.exists()
    pc,          \* the writer: "idle", "ready" (session open), "writing"
    sessionKey,  \* the key the open writer session called writeInitRecord with
    readerView,  \* result of the last loadIndexes
    keyView,     \* result of the last databaseKey
    failures     \* number of appends that failed so far

vars == <<toc, tocExists, pc, sessionKey, readerView, keyView, failures>>

-----------------------------------------------------------------------------
(* Reading: the toc file as it is now.                                     *)

\* TocHandler::loadIndexes
LoadIndexes == LoadIndexesOf(tocExists, toc)

\* TocHandler::databaseKey
DatabaseKey == DatabaseKeyOf(tocExists, toc)

-----------------------------------------------------------------------------
(* Writing.                                                                *)

Init ==
    /\ toc = <<>>
    /\ tocExists = FALSE
    /\ pc = "idle"
    /\ sessionKey = NoKey
    /\ readerView = <<>>
    /\ keyView = Failed
    /\ failures = 0

\* TocHandler::append: the write(2) of one record starts; until it returns,
\* a reader may see any prefix of it.
BeginAppend(tag, k, s) ==
    /\ Len(toc) < MaxRecords
    /\ toc' = Append(toc, [tag |-> tag, key |-> k, seg |-> s, torn |-> TRUE])
    /\ pc' = "writing"

\* TocHandler::writeInitRecord: create and open the file, read the first
\* record; an empty file gets the INIT record, a file whose first record is a
\* complete INIT is accepted as it is (its key is not compared with k), any
\* other first record fails the ASSERT and the call throws.
WriteInitRecord(k) ==
    /\ pc = "idle"
    /\ tocExists' = TRUE
    /\ sessionKey' = k
    /\ \/ /\ toc = <<>>
          /\ BeginAppend("INIT", k, NoSeg)
       \/ /\ toc # <<>>
          /\ ~toc[1].torn
          /\ toc[1].tag = "INIT"
          /\ pc' = "ready"
          /\ UNCHANGED toc
    /\ UNCHANGED <<readerView, keyView, failures>>

\* TocHandler::writeIndexRecord / writeClearRecord / writeWipeRecord: open
\* for append, append one record, close.
WriteIndexRecord(s) ==
    /\ pc = "ready"
    /\ BeginAppend("INDEX", NoKey, s)
    /\ UNCHANGED <<tocExists, sessionKey, readerView, keyView, failures>>

WriteClearRecord(s) ==
    /\ pc = "ready"
    /\ BeginAppend("CLEAR", NoKey, s)
    /\ UNCHANGED <<tocExists, sessionKey, readerView, keyView, failures>>

WriteWipeRecord ==
    /\ pc = "ready"
    /\ BeginAppend("WIPE", NoKey, NoSeg)
    /\ UNCHANGED <<tocExists, sessionKey, readerView, keyView, failures>>

\* write(2) returned the full record size: the ASSERT at line 93 holds.
AppendDone ==
    /\ pc = "writing"
    /\ toc' = [toc EXCEPT ![Len(toc)].torn = FALSE]
    /\ pc' = "ready"
    /\ UNCHANGED <<tocExists, sessionKey, readerView, keyView, failures>>

\* The append fails: a short write fails the ASSERT at line 93, or the
\* process dies in the write.  Either a prefix of the record is left in the
\* file or none of it is.  The exception ends the writer's session.
AppendFails ==
    /\ pc = "writing"
    /\ failures < MaxFailures
    /\ \/ UNCHANGED toc
       \/ toc' = Front(toc)
    /\ pc' = "idle"
    /\ sessionKey' = NoKey
    /\ failures' = failures + 1
    /\ UNCHANGED <<tocExists, readerView, keyView>>

\* The writer's session ends (the DB object is closed).
CloseSession ==
    /\ pc = "ready"
    /\ pc' = "idle"
    /\ sessionKey' = NoKey
    /\ UNCHANGED <<toc, tocExists, readerView, keyView, failures>>

ReadIndexes ==
    /\ readerView' = LoadIndexes
    /\ UNCHANGED <<toc, tocExists, pc, sessionKey, keyView, failures>>

ReadDatabaseKey ==
    /\ keyView' = DatabaseKey
    /\ UNCHANGED <<toc, tocExists, pc, sessionKey, readerView, failures>>

Next ==
    \/ \E k \in Keys : WriteInitRecord(k)
    \/ \E s \in Segments : WriteIndexRecord(s) \/ WriteClearRecord(s)
    \/ WriteWipeRecord
    \/ AppendDone
    \/ AppendFails
    \/ CloseSession
    \/ ReadIndexes
    \/ ReadDatabaseKey

Spec == Init /\ [][Next]_vars

-----------------------------------------------------------------------------
(* Properties.                                                             *)

TypeOK ==
    /\ toc \in Seq(Record)
    /\ tocExists \in BOOLEAN
    /\ pc \in {"idle", "ready", "writing"}
    /\ sessionKey \in Keys \cup {NoKey}
    /\ readerView \in Seq(Segments) \cup {Failed}
    /\ keyView \in Keys \cup {Failed}
    /\ failures \in 0..MaxFailures

\* The state the journal stands for: the records whose write completed.
CompleteRecords == SelectSeq(toc, LAMBDA r : ~r.torn)

CreatedKey ==
    LET inits == {i \in 1..Len(CompleteRecords) : CompleteRecords[i].tag = "INIT"}
    IN  IF inits = {} THEN NoKey ELSE CompleteRecords[Min(inits)].key

Abstract == INSTANCE Journal WITH dbKey <- CreatedKey,
                                  live <- Replay(CompleteRecords)

\* Refinement: every completed append is one step of the abstract journal
\* (an INDEX takes precedence over all older segments, a CLEAR removes its
\* segment, a WIPE empties the live list, the key never changes once set),
\* and loadIndexes / databaseKey, when they do not throw, return exactly
\* the abstract state, whatever the crashes and in-flight appends.
JournalRefinement == Abstract!Spec

\* The spec (4.3) promises that a record left partially written by a crash
\* or failed append is treated as the end of the log, not as an error: once
\* no append is in progress and only the last record is torn, loadIndexes
\* still returns a result.
TornTailTolerated ==
    (pc # "writing" /\ toc # <<>> /\ Last(toc).torn /\ Complete(Front(toc)))
        => LoadIndexes # Failed

\* The spec (4.3) promises that writeInitRecord on an existing database
\* verifies that its key equals the requested one: a writer session that
\* got past writeInitRecord writes into a database created for its key.
SessionKeyMatches ==
    pc = "ready" => DatabaseKey = sessionKey

=============================================================================
