------------------------------- MODULE FdbCApi -------------------------------
(***************************************************************************)
(* The C API shim (src/fdb5/api/fdb_c.cc), as used by one C client: a FDB  *)
(* handle, a list iterator, a data reader, the failure handler and the     *)
(* global error string.                                                    *)
(*                                                                         *)
(* Every API function is one action: the lambda handed to wrapApiFunction  *)
(* either returns (the function's return code is FDB_SUCCESS, or what the  *)
(* lambda returned) or throws, and then the catch clause that takes the    *)
(* exception sets g_current_error_str, calls the failure handler if one is *)
(* set, and returns the error code.  An ASSERT that fails throws an eckit  *)
(* exception.  What FDB::list and FDB::retrieve compute is abstracted: a   *)
(* listing is one of a few sequences of elements, a retrieved DataHandle a *)
(* fresh identity; either call may throw any kind of exception.  The       *)
(* client may call any function on the objects it created and has not     *)
(* deleted, in any order.                                                  *)
(***************************************************************************)
EXTENDS Naturals, Sequences, SequencesExt

CONSTANTS
    Listings,       \* the element sequences FDB::list may return
    NoElement,      \* el_ of a fresh iterator (a default ListElement)
    MaxRetrieves,   \* bound on the DataHandles FDB::retrieve creates
    MaxCalls        \* bound on the API calls of a behaviour

Elements == UNION {ToSet(l) : l \in Listings}

\* Return codes of fdb_c.h.
Codes == {"FDB_SUCCESS", "FDB_ITERATION_COMPLETE",
          "FDB_ERROR_GENERAL_EXCEPTION", "FDB_ERROR_UNKNOWN_EXCEPTION"}

\* The three catch clauses of wrapApiFunction: eckit::Exception,
\* std::exception, anything else.
Kinds == {"eckit", "std", "other"}

NoIter == [listing |-> <<>>, cursor |-> 0, set |-> FALSE]
NoHandle == 0

VARIABLES
    calls,       \* API calls made so far
    lastCall,    \* the function of the last call, and
    lastRc,      \*   the code it returned
    errStr,      \* g_current_error_str: the failing call and exception kind
    handler,     \* g_failure_handler is set
    handled,     \* the codes the failure handler was called with
    itAlive,     \* the fdb_listiterator_t exists
    iter,        \* iter_: the listing and how far next() has read it
    validEl,     \* validEl_
    el,          \* el_
    drAlive,     \* the fdb_datareader_t exists
    dh,          \* dh_ (NoHandle for nullptr)
    retrieved,   \* DataHandles created so far (their identities are 1..)
    live,        \* the DataHandles created and not deleted
    returned,    \* history: what next() returned since the last fdb_list
    got          \* history: the element the last attrs/key call read

errVars == <<errStr, handler, handled>>
itVars == <<itAlive, iter, validEl, el, returned, got>>
drVars == <<drAlive, dh, retrieved, live>>
vars == <<calls, lastCall, lastRc, errVars, itVars, drVars>>

-----------------------------------------------------------------------------
(* wrapApiFunction                                                         *)

\* The lambda returned rc (FDB_SUCCESS for a void lambda).
Returns(call, rc) ==
    /\ calls' = calls + 1
    /\ lastCall' = call
    /\ lastRc' = rc
    /\ UNCHANGED errVars

\* The lambda threw an exception of the given kind: the catch clause
\* records e.what() (or a fixed text for an unknown exception), calls the
\* failure handler if there is one, and returns the matching code.
Throws(call, kind) ==
    LET rc == IF kind = "other" THEN "FDB_ERROR_UNKNOWN_EXCEPTION"
              ELSE "FDB_ERROR_GENERAL_EXCEPTION"
    IN  /\ calls' = calls + 1
        /\ lastCall' = call
        /\ lastRc' = rc
        /\ errStr' = IF kind = "other" THEN [call |-> "unknown", kind |-> kind]
                     ELSE [call |-> call, kind |-> kind]
        /\ handled' = IF handler THEN Append(handled, rc) ELSE handled
        /\ UNCHANGED handler

\* fdb_error_string: the text for a code; both error codes give the last
\* recorded exception text.
ErrorString(rc) ==
    CASE rc = "FDB_SUCCESS" -> "Success"
      [] rc \in {"FDB_ERROR_GENERAL_EXCEPTION", "FDB_ERROR_UNKNOWN_EXCEPTION"} -> errStr
      [] rc = "FDB_ITERATION_COMPLETE" -> "Iteration complete"
      [] OTHER -> "<unknown>"

-----------------------------------------------------------------------------
(* The API functions.                                                      *)

Init ==
    /\ calls = 0
    /\ lastCall = "none"
    /\ lastRc = "FDB_SUCCESS"
    /\ errStr = [call |-> "none", kind |-> "none"]
    /\ handler = FALSE
    /\ handled = <<>>
    /\ itAlive = FALSE
    /\ iter = NoIter
    /\ validEl = FALSE
    /\ el = NoElement
    /\ drAlive = FALSE
    /\ dh = NoHandle
    /\ retrieved = 0
    /\ live = {}
    /\ returned = <<>>
    /\ got = NoElement

\* fdb_set_failure_handler
SetFailureHandler ==
    /\ handler' = TRUE
    /\ calls' = calls + 1
    /\ lastCall' = "set_failure_handler"
    /\ lastRc' = "FDB_SUCCESS"
    /\ UNCHANGED <<errStr, handled, itVars, drVars>>

\* fdb_new_listiterator: validEl_ false, no iterator.
NewListIterator ==
    /\ ~itAlive
    /\ itAlive' = TRUE
    /\ iter' = NoIter
    /\ validEl' = FALSE
    /\ el' = NoElement
    /\ UNCHANGED <<returned, got, drVars>>
    /\ Returns("new_listiterator", "FDB_SUCCESS")

\* Fault variant of List: set() keeps an iterator already there
\* (if (!iter_) iter_.reset(...)).
ListKeepsIterator ==
    /\ itAlive
    /\ \/ \E l \in Listings :
             /\ iter' = IF iter.set THEN iter
                        ELSE [listing |-> l, cursor |-> 0, set |-> TRUE]
             /\ returned' = <<>>
             /\ UNCHANGED <<itAlive, validEl, el, got, drVars>>
             /\ Returns("list", "FDB_SUCCESS")
       \/ \E k \in Kinds :
             /\ UNCHANGED <<itVars, drVars>>
             /\ Throws("list", k)

\* fdb_list: FDB::list, then it->set(...) replaces the iterator; validEl_
\* and el_ are left as they are.  If FDB::list throws, set is not reached.
List ==
    /\ itAlive
    /\ \/ \E l \in Listings :
             /\ iter' = [listing |-> l, cursor |-> 0, set |-> TRUE]
             /\ returned' = <<>>
             /\ UNCHANGED <<itAlive, validEl, el, got, drVars>>
             /\ Returns("list", "FDB_SUCCESS")
       \/ \E k \in Kinds :
             /\ UNCHANGED <<itVars, drVars>>
             /\ Throws("list", k)

\* Fault variant of ListIteratorNext: the iterator steps past the end.
ListIteratorNextPastEnd ==
    /\ itAlive
    /\ IF ~iter.set
       THEN UNCHANGED <<itVars, drVars>> /\ Throws("listiterator_next", "eckit")
       ELSE LET more == iter.cursor < Len(iter.listing)
            IN  /\ validEl' = more
                /\ el' = IF more THEN iter.listing[iter.cursor + 1] ELSE el
                /\ iter' = [iter EXCEPT !.cursor = @ + 1]
                /\ returned' = IF more THEN Append(returned, el') ELSE returned
                /\ UNCHANGED <<itAlive, got, drVars>>
                /\ Returns("listiterator_next",
                           IF more THEN "FDB_SUCCESS" ELSE "FDB_ITERATION_COMPLETE")

\* fdb_listiterator_next: ASSERT(iter_), then validEl_ = next(el_); the
\* lambda returns FDB_SUCCESS or FDB_ITERATION_COMPLETE.
ListIteratorNext ==
    /\ itAlive
    /\ IF ~iter.set
       THEN UNCHANGED <<itVars, drVars>> /\ Throws("listiterator_next", "eckit")
       ELSE LET more == iter.cursor < Len(iter.listing)
            IN  /\ validEl' = more
                /\ el' = IF more THEN iter.listing[iter.cursor + 1] ELSE el
                /\ iter' = IF more THEN [iter EXCEPT !.cursor = @ + 1] ELSE iter
                /\ returned' = IF more THEN Append(returned, el') ELSE returned
                /\ UNCHANGED <<itAlive, got, drVars>>
                /\ Returns("listiterator_next",
                           IF more THEN "FDB_SUCCESS" ELSE "FDB_ITERATION_COMPLETE")

\* fdb_listiterator_attrs and fdb_listiterator_key: ASSERT(validEl_), then
\* read the location or the key of el_.
ListIteratorRead(call) ==
    /\ itAlive
    /\ IF ~validEl
       THEN UNCHANGED <<itVars, drVars>> /\ Throws(call, "eckit")
       ELSE /\ got' = el
            /\ UNCHANGED <<itAlive, iter, validEl, el, returned, drVars>>
            /\ Returns(call, "FDB_SUCCESS")

\* fdb_delete_listiterator: the holder and its iterator go with it.
DeleteListIterator ==
    /\ itAlive
    /\ itAlive' = FALSE
    /\ iter' = NoIter
    /\ UNCHANGED <<validEl, el, returned, got, drVars>>
    /\ Returns("delete_listiterator", "FDB_SUCCESS")

\* fdb_new_datareader: new fdb_datareader_t() value-initialises dh_.
NewDataReader ==
    /\ ~drAlive
    /\ drAlive' = TRUE
    /\ dh' = NoHandle
    /\ UNCHANGED <<retrieved, live, itVars>>
    /\ Returns("new_datareader", "FDB_SUCCESS")

\* Fault variant of SetHandle: the previous handle is not deleted.
SetHandleNoDelete(h) ==
    /\ dh' = h
    /\ live' = (live \cup {h}) \ {NoHandle}

\* fdb_datareader_t::set(dh): delete the previous handle, keep the new one.
SetHandle(h) ==
    /\ dh' = h
    /\ live' = ((live \ {dh}) \cup {h}) \ {NoHandle}

\* fdb_retrieve: dr->set(FDB::retrieve(request)); if retrieve throws, set
\* is not reached.
Retrieve ==
    /\ drAlive
    /\ retrieved < MaxRetrieves
    /\ \/ /\ retrieved' = retrieved + 1
          /\ SetHandle(retrieved + 1)
          /\ UNCHANGED <<drAlive, itVars>>
          /\ Returns("retrieve", "FDB_SUCCESS")
       \/ \E k \in Kinds :
             /\ UNCHANGED <<itVars, drVars>>
             /\ Throws("retrieve", k)

\* fdb_datareader_open/close/tell/seek/skip/read: ASSERT(dh_), then the
\* DataHandle call, which may throw.
ReaderCall(call) ==
    /\ drAlive
    /\ UNCHANGED <<itVars, drVars>>
    /\ IF dh = NoHandle THEN Throws(call, "eckit")
       ELSE \/ Returns(call, "FDB_SUCCESS")
            \/ \E k \in Kinds : Throws(call, k)

\* fdb_delete_datareader: set(nullptr) deletes the handle, then the reader.
DeleteDataReader ==
    /\ drAlive
    /\ drAlive' = FALSE
    /\ SetHandle(NoHandle)
    /\ UNCHANGED <<retrieved, itVars>>
    /\ Returns("delete_datareader", "FDB_SUCCESS")

ReaderCalls == {"datareader_open", "datareader_close", "datareader_tell",
                "datareader_seek", "datareader_skip", "datareader_read"}

Next ==
    /\ calls < MaxCalls
    /\ \/ SetFailureHandler
       \/ NewListIterator
       \/ List
       \/ ListIteratorNext
       \/ \E c \in {"listiterator_attrs", "listiterator_key"} : ListIteratorRead(c)
       \/ DeleteListIterator
       \/ NewDataReader
       \/ Retrieve
       \/ \E c \in ReaderCalls : ReaderCall(c)
       \/ DeleteDataReader

Spec == Init /\ [][Next]_vars

-----------------------------------------------------------------------------
(* Properties.                                                             *)

\* The iterator never reads past the listing it was given.
TypeOK ==
    /\ calls \in 0..MaxCalls
    /\ lastRc \in Codes
    /\ iter.cursor \in 0..Len(iter.listing)
    /\ validEl \in BOOLEAN
    /\ el \in Elements \cup {NoElement}
    /\ dh \in 0..MaxRetrieves
    /\ live \subseteq 1..MaxRetrieves

\* When fdb_listiterator_next reports FDB_ITERATION_COMPLETE, the elements
\* it returned since the last successful fdb_list are exactly that listing,
\* in order, whatever was listed, read or failed before on the same iterator.
IterationDeliversListing ==
    (lastCall = "listiterator_next" /\ lastRc = "FDB_ITERATION_COMPLETE")
        => returned = iter.listing

\* Every DataHandle fdb_retrieve created is deleted by the time it is no
\* longer the reader's dh_: by the next fdb_retrieve on the reader or by
\* fdb_delete_datareader.
NoHandleLeaked ==
    live \subseteq (IF drAlive THEN {dh} ELSE {})

\* ASSERT(validEl_) in attrs and key (lines 98, 109) is meant to admit only
\* the element the iterator's last next() returned: a successful
\* fdb_listiterator_attrs or fdb_listiterator_key reads an element of the
\* listing the iterator currently holds, the one next() returned last.
AttrsOfCurrentListing ==
    (lastCall \in {"listiterator_attrs", "listiterator_key"} /\ lastRc = "FDB_SUCCESS")
        => returned # <<>> /\ got = Last(returned)

=============================================================================
