------------------------------ MODULE TocRecords ------------------------------
(***************************************************************************)
(* The records of a TOC file and the two ways TocHandler reads them back   *)
(* (src/fdb5/toc/TocHandler.cc): the replay of loadIndexes and the search  *)
(* of databaseKey.  No state: the modules that keep TOC files use these.   *)
(*                                                                         *)
(* A record is abstracted to its tag and the one argument the readers look *)
(* at: the key of an INIT record, the segment (path, offset) of an INDEX   *)
(* or CLEAR record.  `torn` marks a record of which only a prefix is in    *)
(* the file.                                                               *)
(***************************************************************************)
EXTENDS Naturals, Sequences, SequencesExt

CONSTANTS
    Keys,         \* database keys
    Segments,     \* index segments, identified by (path, offset)
    NoKey,        \* argument of a record that carries no key
    NoSeg,        \* argument of a record that carries no segment
    Failed        \* result of a reader call that threw

Tags == {"INIT", "INDEX", "CLEAR", "WIPE"}

Record == [tag : Tags, key : Keys \cup {NoKey}, seg : Segments \cup {NoSeg},
           torn : BOOLEAN]

\* readNext succeeds on every record iff none is torn: a torn last record
\* is a short read (ASSERTs at lines 106/109), a torn inner one shifts all
\* later headers (bad version or ASSERT).
Complete(t) == \A i \in 1..Len(t) : ~t[i].torn

\* Fault variant of ReplayStep: the TOC_INIT case lacks its break and falls
\* through into TOC_INDEX.
ReplayStepInitFallsThrough(indexes, r) ==
    CASE r.tag \in {"INIT", "INDEX"} -> Append(indexes, r.seg)
      [] r.tag = "CLEAR"            -> RemoveFirst(indexes, r.seg)
      [] r.tag = "WIPE"             -> <<>>

\* One iteration of the replay loop of loadIndexes, on the working vector
\* kept in file order.
ReplayStep(indexes, r) ==
    CASE r.tag = "INIT"  -> indexes
      [] r.tag = "INDEX" -> Append(indexes, r.seg)
      [] r.tag = "CLEAR" -> RemoveFirst(indexes, r.seg)
      [] r.tag = "WIPE"  -> <<>>

\* The replay loop over the records of t, in file order.
RECURSIVE ReplayLoop(_, _)
ReplayLoop(indexes, t) ==
    IF t = <<>> THEN indexes
    ELSE ReplayLoop(ReplayStep(indexes, Head(t)), Tail(t))

\* Fault variant of Replay: the final std::reverse is missing.
ReplayUnreversed(t) == ReplayLoop(<<>>, t)

\* The replay, reversed so that the last index takes precedence.
Replay(t) == Reverse(ReplayLoop(<<>>, t))

\* TocHandler::loadIndexes on a file that exists or not, with records t.
LoadIndexesOf(exists, t) ==
    IF ~exists THEN <<>>
    ELSE IF ~Complete(t) THEN Failed
    ELSE Replay(t)

\* TocHandler::databaseKey: open (throws if there is no file), read records
\* until the first INIT one; a torn record on the way throws, and so does
\* reaching the end.
DatabaseKeyOf(exists, t) ==
    LET stop == {i \in 1..Len(t) : t[i].torn \/ t[i].tag = "INIT"}
    IN  IF ~exists \/ stop = {} THEN Failed
        ELSE IF t[Min(stop)].torn THEN Failed
        ELSE t[Min(stop)].key

=============================================================================
