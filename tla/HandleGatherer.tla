---------------------------- MODULE HandleGatherer ----------------------------
(***************************************************************************)
(* The handle gatherer of a retrieval (src/fdb5/HandleGatherer.cc).        *)
(*                                                                         *)
(* The traversal hands it one byte-range handle per field found; it keeps  *)
(* them in handles_, merging a new one into an existing one where the      *)
(* handle accepts it, and dataHandle() compresses every handle and wraps   *)
(* the sequence into one MultiHandle, which reads the handles in order.   *)
(*                                                                         *)
(* A handle is a resource and the sequence of its parts, byte ranges       *)
(* [from, to); it reads its parts in order.  merge() and compress() belong *)
(* to the handles (eckit), not to this code; they follow the contract of   *)
(* spec sections 4.5 and 6: a handle absorbs a same-resource handle        *)
(* contiguous with one of its ranges, and compress(sorted) sorts the parts *)
(* when sorted and joins neighbouring contiguous parts.                    *)
(***************************************************************************)
EXTENDS Naturals, Sequences, SequencesExt, FiniteSets, TLC

CONSTANTS
    Resources,    \* the files handles read from
    MaxOffset,    \* byte offsets range over 0..MaxOffset
    MaxAdds       \* bound on the handles added before one dataHandle

VARIABLES
    sorted,      \* sorted_, fixed by the constructor
    handles,     \* handles_
    composite,   \* the parts read by the last MultiHandle returned
    pending,     \* history: the ranges added since the last dataHandle
    delivered    \* history: the ranges added before the last dataHandle

vars == <<sorted, handles, composite, pending, delivered>>

ByteRange == [res : Resources, from : 0..MaxOffset, to : 0..MaxOffset]

\* The handles the traversal may hand in: one non-empty range each.
NewHandles == {[res |-> r.res, parts |-> <<r>>] : r \in {x \in ByteRange : x.from < x.to}}

-----------------------------------------------------------------------------
(* The handles' contract (spec 4.5, 6).                                    *)

Contiguous(a, b) == a.res = b.res /\ (a.to = b.from \/ b.to = a.from)

\* DataHandle::merge(h): absorb h if it is contiguous with one of our parts.
CanMerge(j, h) == \E i \in 1..Len(j.parts) : Contiguous(j.parts[i], h.parts[1])

Merged(j, h) == [j EXCEPT !.parts = @ \o h.parts]

\* Join each part with the next while they are contiguous in read order.
RECURSIVE Coalesce(_)
Coalesce(ps) ==
    IF Len(ps) < 2 THEN ps
    ELSE IF ps[1].to = ps[2].from
         THEN Coalesce(<<[ps[1] EXCEPT !.to = ps[2].to]>> \o Tail(Tail(ps)))
         ELSE <<ps[1]>> \o Coalesce(Tail(ps))

\* DataHandle::compress(sorted)
Compress(srt, j) ==
    LET ps == IF srt THEN SortSeq(j.parts, LAMBDA a, b : a.from < b.from)
              ELSE j.parts
    IN  [j EXCEPT !.parts = Coalesce(ps)]

\* The bytes a sequence of ranges reads, in order.
Bytes(rs) ==
    FoldLeft(LAMBDA acc, r : acc \o [o \in 1..(r.to - r.from) |-> <<r.res, r.from + o - 1>>],
             <<>>, rs)

\* The ranges a sequence of handles reads, in order.
PartsOf(hs) == FlattenSeq([i \in 1..Len(hs) |-> hs[i].parts])

-----------------------------------------------------------------------------
(* The gatherer.                                                           *)

\* HandleGatherer::HandleGatherer(sorted)
Init ==
    /\ sorted \in BOOLEAN
    /\ handles = <<>>
    /\ composite = <<>>
    /\ pending = <<>>
    /\ delivered = <<>>

\* The indices of the handles add() offers h to, in the order it tries them.
MergeCandidates(h) ==
    IF sorted THEN {i \in 1..Len(handles) : CanMerge(handles[i], h)}
    ELSE IF handles # <<>> /\ CanMerge(Last(handles), h) THEN {Len(handles)}
    ELSE {}

\* Fault variant of Add: after a successful merge, h is also pushed back
\* (the return after `delete h` is missing).
AddNoReturn(h) ==
    LET cands == MergeCandidates(h)
    IN  /\ Len(pending) < MaxAdds
        /\ handles' = IF cands = {} THEN Append(handles, h)
                      ELSE Append([handles EXCEPT ![Min(cands)] = Merged(@, h)], h)
        /\ pending' = pending \o h.parts
        /\ UNCHANGED <<sorted, composite, delivered>>

\* HandleGatherer::add(h): sorted, offer h to every handle in turn; unsorted,
\* only to the last one; the first that absorbs it ends the call, else h
\* is appended.
Add(h) ==
    LET cands == MergeCandidates(h)
    IN  /\ Len(pending) < MaxAdds
        /\ handles' = IF cands = {} THEN Append(handles, h)
                      ELSE [handles EXCEPT ![Min(cands)] = Merged(@, h)]
        /\ pending' = pending \o h.parts
        /\ UNCHANGED <<sorted, composite, delivered>>

\* Fault variant of DataHandle: compress is always called with true.
DataHandleAlwaysSorted ==
    /\ composite' = PartsOf([i \in 1..Len(handles) |-> Compress(TRUE, handles[i])])
    /\ handles' = <<>>
    /\ delivered' = pending
    /\ pending' = <<>>
    /\ UNCHANGED sorted

\* HandleGatherer::dataHandle(): compress(sorted_) each handle, wrap them in
\* a MultiHandle, clear handles_.
DataHandle ==
    /\ composite' = PartsOf([i \in 1..Len(handles) |-> Compress(sorted, handles[i])])
    /\ handles' = <<>>
    /\ delivered' = pending
    /\ pending' = <<>>
    /\ UNCHANGED sorted

Next ==
    \/ \E h \in NewHandles : Add(h)
    \/ DataHandle

Spec == Init /\ [][Next]_vars

-----------------------------------------------------------------------------
(* Properties.                                                             *)

\* Whatever add merged, every byte of every handle added since the last
\* dataHandle is read exactly once by the handles being gathered, and every
\* byte added before it exactly once by the MultiHandle it returned.
NoByteLostOrDuplicated ==
    /\ ToBag(Bytes(PartsOf(handles))) = ToBag(Bytes(pending))
    /\ ToBag(Bytes(composite)) = ToBag(Bytes(delivered))

\* In unsorted mode (handles already supplied in the order to read them)
\* the MultiHandle reads the bytes exactly in the order they were added:
\* merging into the last handle and compressing never reorder them.
UnsortedKeepsOrder ==
    ~sorted =>
        /\ Bytes(PartsOf(handles)) = Bytes(pending)
        /\ Bytes(composite) = Bytes(delivered)

=============================================================================
