------------------------------- MODULE TocFile -------------------------------
(***************************************************************************)
(* The toc file at the level of file offsets (src/fdb5/toc/TocHandler.cc), *)
(* written by several processes archiving into the same database.          *)
(*                                                                         *)
(* The file is a sequence of units (a unit stands for a fixed number of    *)
(* bytes); unit `off` of a record r written with size n is                 *)
(* [rec |-> r, size |-> n, off |-> off].  A record has HeaderUnits header  *)
(* units, whose first holds size_, and a payload, and append() writes      *)
(* n = round(header + payload, fdbRoundTocRecords) units.  The rounding    *)
(* block is a static Resource read once by each process, so writers may    *)
(* differ in it.  Two units hold the same bytes iff they are equal, so two *)
(* writers writing the same record with the same size at the same offset   *)
(* leave the same bytes.  This assumes that the header's other fields and  *)
(* the padding (TocRecord.h, outside the source) do not differ between     *)
(* the processes.                                                          *)
(*                                                                         *)
(* writeInitRecord opens with O_CREAT | O_RDWR, reads the first record     *)
(* with readNext (the header read and the payload read are two steps that  *)
(* other processes' writes may separate) and, if the file was empty,       *)
(* writes the INIT record at its file offset, 0, without O_APPEND.  Every  *)
(* other record is written through openForAppend (O_APPEND): one write(2)  *)
(* at the end of the file.  A write(2) is atomic with respect to other     *)
(* writes; a short write or a crash leaves a prefix of the record and ends *)
(* the session (ASSERT at line 93).                                        *)
(*                                                                         *)
(* Units read where a header should be that are not a record's header      *)
(* units, or payload units that are not that record's, are taken to fail   *)
(* the version check or the decoding of the payload.                       *)
(***************************************************************************)
EXTENDS Naturals, Sequences, SequencesExt

CONSTANTS
    Writers,       \* processes archiving into the database
    DbKey,         \* the database's key; every writer creates it with this key
    Segments,      \* index segments
    NoSeg,         \* argument of a record that carries no segment
    BlockOf,       \* BlockOf[w]: writer w's fdbRoundTocRecords, in units
    MaxAppends,    \* bound on the INDEX, CLEAR and WIPE appends
    MaxFailures    \* bound on the writes cut short

HeaderUnits == 2

\* Payload units: the key, or path and offset (and the index encoding); none
\* for a WIPE.
PayloadUnits(tag) == IF tag = "WIPE" THEN 0 ELSE 1

\* round(a, b) of TocHandler.cc
Round(a, b) == ((a + b - 1) \div b) * b

\* append(): r.header_.size_, rounded to block b
RecordSize(r, b) == Round(HeaderUnits + PayloadUnits(r.tag), b)

\* The units of r written with header_.size_ n.
Units(r, n) == [i \in 1..n |-> [rec |-> r, size |-> n, off |-> i - 1]]

\* The units a complete write(2) of r by writer w puts in the file.
UnitsOf(w, r) == Units(r, RecordSize(r, BlockOf[w]))

InitRec == [tag |-> "INIT", key |-> DbKey, seg |-> NoSeg]

AppendRecs == {[tag |-> t, key |-> DbKey, seg |-> s] : t \in {"INDEX", "CLEAR"}, s \in Segments}
              \cup {[tag |-> "WIPE", key |-> DbKey, seg |-> NoSeg]}

\* write(2) of the units us at file offset p (p <= Len(f)).
WriteAt(f, p, us) ==
    [i \in 1..Max({Len(f), p + Len(us)}) |->
        IF p < i /\ i <= p + Len(us) THEN us[i - p] ELSE f[i]]

\* write(2) on a descriptor opened by openForAppend (O_WRONLY | O_APPEND):
\* at the end of the file, whatever other processes wrote since the open.
AppendAt(f, us) == WriteAt(f, Len(f), us)

-----------------------------------------------------------------------------
(* readNext                                                                *)

\* The header read at offset p: nothing (end of file), a short read (the
\* ASSERT at line 106), or the header units.
ReadHeader(f, p) ==
    IF Len(f) = p THEN [st |-> "eof"]
    ELSE IF Len(f) - p < HeaderUnits THEN [st |-> "fail"]
    ELSE [st |-> "ok", units |-> SubSeq(f, p + 1, p + HeaderUnits)]

\* The header units are a record's header: the version check passes.
IsHeader(h) == \A i \in 1..HeaderUnits : h[i] = Units(h[1].rec, h[1].size)[i]

\* The payload read after header h at offset p (the header's end): the size
\* comes from the header, a short read fails the ASSERT at line 109, a
\* version mismatch throws.
ReadPayload(f, p, h) ==
    IF ~IsHeader(h) THEN [st |-> "fail"]
    ELSE IF Len(f) - p < h[1].size - HeaderUnits THEN [st |-> "fail"]
    ELSE [st |-> "ok", rec |-> h[1].rec, size |-> h[1].size,
          units |-> SubSeq(f, p + 1, p + h[1].size - HeaderUnits)]

\* loadIndexes' loop over readNext, with the payload decoded: the records of
\* the file from offset p (ok), or an exception (not ok).
RECURSIVE ReadFrom(_, _, _)
ReadFrom(f, p, acc) ==
    LET h == ReadHeader(f, p)
        b == ReadPayload(f, p + HeaderUnits, h.units)
    IN  CASE h.st = "eof" -> [ok |-> TRUE, recs |-> acc]
          [] h.st = "fail" -> [ok |-> FALSE]
          [] b.st = "fail" -> [ok |-> FALSE]
          [] h.units \o b.units # Units(b.rec, b.size) -> [ok |-> FALSE]
          [] OTHER -> ReadFrom(f, p + b.size, Append(acc, b.rec))

ReadAll(f) == ReadFrom(f, 0, <<>>)

-----------------------------------------------------------------------------
(* The writers.                                                            *)

VARIABLES
    file,        \* the units of the toc file
    pc,          \* per writer: where it is in its session
    pos,         \* per writer: the offset of its file descriptor
    hdr,         \* per writer: the header units its readNext read
    failures,    \* writes cut short so far
    completed    \* history: the records appended with O_APPEND, in order

vars == <<file, pc, pos, hdr, failures, completed>>

Init ==
    /\ file = <<>>
    /\ pc = [w \in Writers |-> "idle"]
    /\ pos = [w \in Writers |-> 0]
    /\ hdr = [w \in Writers |-> <<>>]
    /\ failures = 0
    /\ completed = <<>>

\* The writer's session ends by an exception; TocHandlerCloser closes fd_.
Throw(w) == pc' = [pc EXCEPT ![w] = "idle"]

\* writeInitRecord: mkdir, open(O_CREAT | O_RDWR); the offset is 0.
OpenInit(w) ==
    /\ pc[w] = "idle"
    /\ pc' = [pc EXCEPT ![w] = "readHeader"]
    /\ pos' = [pos EXCEPT ![w] = 0]
    /\ UNCHANGED <<file, hdr, failures, completed>>

\* readNext's header read.  Nothing read: readNext returns 0 and the INIT
\* record is to be written.
InitReadHeader(w) ==
    LET h == ReadHeader(file, pos[w])
    IN  /\ pc[w] = "readHeader"
        /\ CASE h.st = "eof" -> pc' = [pc EXCEPT ![w] = "writeInit"]
                             /\ UNCHANGED <<pos, hdr>>
             [] h.st = "fail" -> Throw(w) /\ UNCHANGED <<pos, hdr>>
             [] OTHER -> /\ pc' = [pc EXCEPT ![w] = "readPayload"]
                         /\ pos' = [pos EXCEPT ![w] = @ + HeaderUnits]
                         /\ hdr' = [hdr EXCEPT ![w] = h.units]
        /\ UNCHANGED <<file, failures, completed>>

\* readNext's payload read and version check, then ASSERT that the first
\* record is an INIT one; the file is closed either way.
InitReadPayload(w) ==
    LET b == ReadPayload(file, pos[w], hdr[w])
    IN  /\ pc[w] = "readPayload"
        /\ IF b.st = "ok" /\ b.rec.tag = "INIT"
           THEN pc' = [pc EXCEPT ![w] = "ready"]
           ELSE Throw(w)
        /\ UNCHANGED <<file, pos, hdr, failures, completed>>

\* Fault variant of InitWrite: the INIT record is written at the end of the
\* file, as through O_APPEND.
InitWriteAppending(w) ==
    /\ pc[w] = "writeInit"
    /\ \/ /\ file' = file \o UnitsOf(w, InitRec)
          /\ pc' = [pc EXCEPT ![w] = "ready"]
          /\ UNCHANGED failures
       \/ /\ failures < MaxFailures
          /\ \E k \in 0..RecordSize(InitRec, BlockOf[w]) - 1 :
                file' = file \o SubSeq(UnitsOf(w, InitRec), 1, k)
          /\ failures' = failures + 1
          /\ Throw(w)
    /\ UNCHANGED <<pos, hdr, completed>>

\* The empty-file branch of writeInitRecord: append(INIT) on the O_RDWR
\* descriptor writes at its offset, where readNext found the end of file.
InitWrite(w) ==
    /\ pc[w] = "writeInit"
    /\ \/ /\ file' = WriteAt(file, pos[w], UnitsOf(w, InitRec))
          /\ pc' = [pc EXCEPT ![w] = "ready"]
          /\ UNCHANGED failures
       \/ /\ failures < MaxFailures
          /\ \E k \in 0..RecordSize(InitRec, BlockOf[w]) - 1 :
                file' = WriteAt(file, pos[w], SubSeq(UnitsOf(w, InitRec), 1, k))
          /\ failures' = failures + 1
          /\ Throw(w)
    /\ UNCHANGED <<pos, hdr, completed>>

\* writeIndexRecord / writeClearRecord / writeWipeRecord: openForAppend,
\* append(r), close: one write(2) at the end of the file.
AppendRecord(w, r) ==
    /\ pc[w] = "ready"
    /\ \/ /\ Len(completed) < MaxAppends
          /\ file' = AppendAt(file, UnitsOf(w, r))
          /\ completed' = Append(completed, r)
          /\ UNCHANGED <<pc, failures>>
       \/ /\ failures < MaxFailures
          /\ \E k \in 0..RecordSize(r, BlockOf[w]) - 1 :
                file' = AppendAt(file, SubSeq(UnitsOf(w, r), 1, k))
          /\ failures' = failures + 1
          /\ Throw(w)
          /\ UNCHANGED completed
    /\ UNCHANGED <<pos, hdr>>

\* The DB object is closed.
CloseSession(w) ==
    /\ pc[w] = "ready"
    /\ Throw(w)
    /\ UNCHANGED <<file, pos, hdr, failures, completed>>

Next ==
    \E w \in Writers :
        \/ OpenInit(w)
        \/ InitReadHeader(w)
        \/ InitReadPayload(w)
        \/ InitWrite(w)
        \/ \E r \in AppendRecs : AppendRecord(w, r)
        \/ CloseSession(w)

Spec == Init /\ [][Next]_vars

-----------------------------------------------------------------------------
(* Properties.                                                             *)

\* The journal the writers produced: one INIT record, then every record an
\* O_APPEND write completed, in the order of the writes.
Expected == IF file = <<>> THEN <<>> ELSE <<InitRec>> \o completed

\* However the writers creating the database interleave (both may find the
\* file empty and write the INIT record at offset 0, after the other has
\* already appended records), loadIndexes reads back exactly one INIT
\* record and every completed append, in order; it throws only after a
\* write was cut short.
FileReadsAsJournal ==
    IF ReadAll(file).ok THEN ReadAll(file).recs = Expected ELSE failures > 0

=============================================================================
