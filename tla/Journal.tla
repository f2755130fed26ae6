------------------------------- MODULE Journal -------------------------------
(***************************************************************************)
(* What the TOC journal of one database directory promises its callers,    *)
(* stated without records, files or replay.                                *)
(*                                                                         *)
(*   dbKey      the key the database was created for (NoKey before that)   *)
(*   live       the live index segments, the most recently added first:    *)
(*              this is the order in which lookups consult them            *)
(*   readerView what the last TocHandler::loadIndexes call returned        *)
(*   keyView    what the last TocHandler::databaseKey call returned        *)
(*                                                                         *)
(* A reader may always fail (the detailed module says when it does); when  *)
(* it succeeds it sees exactly the current state.                          *)
(***************************************************************************)
EXTENDS Sequences, SequencesExt

CONSTANTS Keys, Segments, NoKey, Failed

VARIABLES dbKey, live, readerView, keyView

vars == <<dbKey, live, readerView, keyView>>

Init ==
    /\ dbKey = NoKey
    /\ live = <<>>
    /\ readerView = <<>>
    /\ keyView = Failed

\* The database comes into existence with its key, once.
Create(k) ==
    /\ dbKey = NoKey
    /\ dbKey' = k
    /\ UNCHANGED <<live, readerView, keyView>>

\* A new segment takes precedence over every older one.
AddIndex(s) ==
    /\ dbKey # NoKey
    /\ live' = <<s>> \o live
    /\ UNCHANGED <<dbKey, readerView, keyView>>

\* Retracting a segment removes its oldest live occurrence; retracting a
\* segment that is not live changes nothing.
ClearIndex(s) ==
    /\ dbKey # NoKey
    /\ live' = Reverse(RemoveFirst(Reverse(live), s))
    /\ UNCHANGED <<dbKey, readerView, keyView>>

WipeAll ==
    /\ dbKey # NoKey
    /\ live' = <<>>
    /\ UNCHANGED <<dbKey, readerView, keyView>>

Read ==
    /\ readerView' \in {live, Failed}
    /\ UNCHANGED <<dbKey, live, keyView>>

ReadKey ==
    /\ keyView' \in {dbKey, Failed}
    /\ UNCHANGED <<dbKey, live, readerView>>

Next ==
    \/ \E k \in Keys : Create(k)
    \/ \E s \in Segments : AddIndex(s) \/ ClearIndex(s)
    \/ WipeAll
    \/ Read
    \/ ReadKey

Spec == Init /\ [][Next]_vars

=============================================================================
