----------------------------- MODULE FdbCObjects -----------------------------
(***************************************************************************)
(* The object side of the C API shim (src/fdb5/api/fdb_c.cc): library     *)
(* initialisation, the FDB handle, keys, requests, archive and flush, the  *)
(* key dictionaries and URI strings handed to the client, and the global  *)
(* error string, as used by the client threads in Threads.                 *)
(*                                                                         *)
(* Every function runs its lambda through wrapApiFunction: the lambda      *)
(* returns FDB_SUCCESS or throws, and then g_current_error_str is set to   *)
(* the exception's text (a fixed text for an unknown exception) and an     *)
(* error code returned.  An ASSERT on a null pointer argument throws an    *)
(* eckit exception.  What FDB and Main::initialise do is abstracted to     *)
(* "returns or throws any kind of exception".  The client holds at most    *)
(* one object of each kind and hands it back to its fdb_delete_* function. *)
(***************************************************************************)
EXTENDS Naturals, Sequences

CONSTANTS
    Threads,       \* client threads
    Attrs,         \* key and request attribute names
    Values,        \* attribute values
    ElementKeys,   \* combinedKey() of the elements a list iterator may hold
    MaxCalls       \* bound on the API calls of a behaviour

Unset == "unset"
Kinds == {"eckit", "std", "other"}

\* The objects the shim allocates and the client deletes.
Objs == {"fdb", "key", "request", "dict", "uri"}

\* The text g_current_error_str gets from an exception thrown in call.
Text(call, kind) == IF kind = "other" THEN [call |-> "unknown", kind |-> kind]
                    ELSE [call |-> call, kind |-> kind]

\* The empty string g_current_error_str starts as.
NoText == [call |-> "none", kind |-> "none"]

VARIABLES
    calls,        \* API calls made so far
    errStr,       \* g_current_error_str
    initialised,  \* fdb_initialise's static bool
    seen,         \* per thread: the value of initialised it tested
    initPc,       \* per thread: "idle", or "tested" inside fdb_initialise
    mainInits,    \* Main::initialise calls that returned
    initOk,       \* per thread: a fdb_initialise of it returned FDB_SUCCESS
    held,         \* the objects the client holds
    keyDict,      \* the fdb_key_t's attributes
    reqDict,      \* the fdb_request_t's values per attribute
    archived,     \* what FDB::archive was given, in order
    flushed       \* how many of them FDB::flush was called after

vars == <<calls, errStr, initialised, seen, initPc, mainInits,
          initOk, held, keyDict, reqDict, archived, flushed>>

Init ==
    /\ calls = 0
    /\ errStr = NoText
    /\ initialised = FALSE
    /\ seen = [t \in Threads |-> FALSE]
    /\ initPc = [t \in Threads |-> "idle"]
    /\ mainInits = 0
    /\ initOk = [t \in Threads |-> FALSE]
    /\ held = {}
    /\ keyDict = [a \in Attrs |-> Unset]
    /\ reqDict = [a \in Attrs |-> <<>>]
    /\ archived = <<>>
    /\ flushed = 0

-----------------------------------------------------------------------------
(* wrapApiFunction                                                         *)

objVars == <<held, keyDict, reqDict, archived, flushed>>
initVars == <<initialised, seen, initPc, mainInits, initOk>>

\* Thread t's call returns FDB_SUCCESS.
Returns(t) ==
    /\ calls' = calls + 1
    /\ UNCHANGED errStr

\* Thread t's call threw: the catch clause for the exception's kind sets
\* g_current_error_str and returns the error code.
Throws(t, call, kind) ==
    /\ calls' = calls + 1
    /\ errStr' = Text(call, kind)

\* A call that fails with no state changed but the error string's.
Fails(t, call, kind) ==
    /\ Throws(t, call, kind)
    /\ UNCHANGED <<initVars, objVars>>

\* fdb_error_string(rc): a constant text, or g_current_error_str.c_str()
\* for the two exception codes; it changes no state.
ErrorString(t) ==
    /\ calls' = calls + 1
    /\ UNCHANGED <<errStr, initVars, objVars>>

-----------------------------------------------------------------------------
(* fdb_initialise: the static bool is tested, then Main::initialise runs  *)
(* and the bool is set; another thread may run between the two.           *)

InitTest(t) ==
    /\ initPc[t] = "idle"
    /\ initPc' = [initPc EXCEPT ![t] = "tested"]
    /\ seen' = [seen EXCEPT ![t] = initialised]
    /\ UNCHANGED <<calls, errStr, initialised, mainInits, initOk, objVars>>

\* Fault variant of InitRun: initialised is set before Main::initialise.
InitRunSetFirst(t) ==
    /\ initPc[t] = "tested"
    /\ initPc' = [initPc EXCEPT ![t] = "idle"]
    /\ IF seen[t]
       THEN /\ initOk' = [initOk EXCEPT ![t] = TRUE]
            /\ Returns(t)
            /\ UNCHANGED <<initialised, mainInits>>
       ELSE /\ initialised' = TRUE
            /\ \/ /\ mainInits' = mainInits + 1
                  /\ initOk' = [initOk EXCEPT ![t] = TRUE]
                  /\ Returns(t)
               \/ \E k \in Kinds :
                     Throws(t, "initialise", k) /\ UNCHANGED <<mainInits, initOk>>
    /\ UNCHANGED <<seen, objVars>>

\* Already initialised: only a warning.  Otherwise Main::initialise, then
\* initialised = true; if Main::initialise throws, initialised stays false.
InitRun(t) ==
    /\ initPc[t] = "tested"
    /\ initPc' = [initPc EXCEPT ![t] = "idle"]
    /\ IF seen[t]
       THEN /\ initOk' = [initOk EXCEPT ![t] = TRUE]
            /\ Returns(t)
            /\ UNCHANGED <<initialised, mainInits>>
       ELSE \/ /\ mainInits' = mainInits + 1
               /\ initialised' = TRUE
               /\ initOk' = [initOk EXCEPT ![t] = TRUE]
               /\ Returns(t)
            \/ \E k \in Kinds :
                  Throws(t, "initialise", k) /\ UNCHANGED <<initialised, mainInits, initOk>>
    /\ UNCHANGED <<seen, objVars>>

-----------------------------------------------------------------------------
(* Allocation.  A pointer argument is null when the client holds no such   *)
(* object; ASSERT(ptr) then throws.                                        *)

New(o) == held' = held \cup {o}

Delete(o) == held' = held \ {o}

Held(o) == o \in held

\* fdb_version, fdb_vcs_version: a static string is stored in *version.
Version(t) ==
    /\ Returns(t)
    /\ UNCHANGED <<initVars, objVars>>

\* fdb_new_handle: new fdb_handle_t(); the FDB constructor may throw.
NewHandle(t) ==
    /\ ~Held("fdb")
    /\ \/ /\ New("fdb")
          /\ Returns(t)
          /\ UNCHANGED <<initVars, keyDict, reqDict, archived, flushed>>
       \/ \E k \in Kinds : Fails(t, "new_handle", k)

\* fdb_archive: ASSERT(fdb), ASSERT(key), ASSERT(data), FDB::archive(key).
Archive(t) ==
    IF ~Held("fdb") \/ ~Held("key") THEN Fails(t, "archive", "eckit")
    ELSE \/ /\ archived' = Append(archived, [from |-> "key", dict |-> keyDict])
            /\ Returns(t)
            /\ UNCHANGED <<initVars, held, keyDict, reqDict, flushed>>
         \/ \E k \in Kinds : Fails(t, "archive", k)

\* fdb_archive_multiple: ASSERT(fdb), ASSERT(data), then FDB::archive of
\* the request's fields if req is given, else of all fields in the data.
ArchiveMultiple(t) ==
    IF ~Held("fdb") THEN Fails(t, "archive_multiple", "eckit")
    ELSE \/ \E useReq \in {u \in BOOLEAN : u => Held("request")} :
              /\ archived' = Append(archived,
                     IF useReq THEN [from |-> "request", dict |-> reqDict]
                     ELSE [from |-> "data", dict |-> <<>>])
              /\ Returns(t)
              /\ UNCHANGED <<initVars, held, keyDict, reqDict, flushed>>
         \/ \E k \in Kinds : Fails(t, "archive_multiple", k)

\* fdb_flush: ASSERT(fdb), FDB::flush.
Flush(t) ==
    IF ~Held("fdb") THEN Fails(t, "flush", "eckit")
    ELSE \/ /\ flushed' = Len(archived)
            /\ Returns(t)
            /\ UNCHANGED <<initVars, held, keyDict, reqDict, archived>>
         \/ \E k \in Kinds : Fails(t, "flush", k)

\* fdb_new_key, fdb_new_request: new fdb_key_t(), new
\* fdb_request_t("retrieve"), both empty.
NewKey(t) ==
    /\ ~Held("key")
    /\ New("key")
    /\ keyDict' = [a \in Attrs |-> Unset]
    /\ Returns(t)
    /\ UNCHANGED <<initVars, reqDict, archived, flushed>>

NewRequest(t) ==
    /\ ~Held("request")
    /\ New("request")
    /\ reqDict' = [a \in Attrs |-> <<>>]
    /\ Returns(t)
    /\ UNCHANGED <<initVars, keyDict, archived, flushed>>

\* fdb_key_add: ASSERT(key), key->set(param, value).
KeyAdd(t, a, v) ==
    IF ~Held("key") THEN Fails(t, "key_add", "eckit")
    ELSE /\ keyDict' = [keyDict EXCEPT ![a] = v]
         /\ Returns(t)
         /\ UNCHANGED <<initVars, held, reqDict, archived, flushed>>

\* fdb_request_add: ASSERT(req), request_.values(name, the values).
RequestAdd(t, a, vs) ==
    IF ~Held("request") THEN Fails(t, "request_add", "eckit")
    ELSE /\ reqDict' = [reqDict EXCEPT ![a] = vs]
         /\ Returns(t)
         /\ UNCHANGED <<initVars, held, keyDict, archived, flushed>>

\* fdb_key_dict: new fdb_key_dict_t[n] and a new char[] per string.
KeyDict(t) ==
    IF ~Held("key") THEN Fails(t, "key_dict", "eckit")
    ELSE /\ ~Held("dict")
         /\ New("dict")
         /\ Returns(t)
         /\ UNCHANGED <<initVars, keyDict, reqDict, archived, flushed>>

\* fdb_listiterator_key: ASSERT(key), ASSERT(validEl_), then key->set for
\* every attribute of the element's combined key; the others stay.
ListIteratorKey(t, e) ==
    IF ~Held("key") THEN Fails(t, "listiterator_key", "eckit")
    ELSE \/ Fails(t, "listiterator_key", "eckit")
         \/ /\ keyDict' = [a \in Attrs |-> IF a \in DOMAIN e THEN e[a] ELSE keyDict[a]]
            /\ Returns(t)
            /\ UNCHANGED <<initVars, held, reqDict, archived, flushed>>

\* fdb_listiterator_attrs: ASSERT(validEl_), then *uri = new char[].
ListIteratorAttrs(t) ==
    /\ ~Held("uri")
    /\ \/ Fails(t, "listiterator_attrs", "eckit")
       \/ /\ New("uri")
          /\ Returns(t)
          /\ UNCHANGED <<initVars, keyDict, reqDict, archived, flushed>>

\* fdb_delete_handle, fdb_delete_key, fdb_delete_request,
\* fdb_delete_key_dict (delete of each string and of the array) and
\* fdb_delete_uri: ASSERT(ptr), then `delete`.
DeleteObj(t, o) ==
    IF ~Held(o) THEN Fails(t, "delete", "eckit")
    ELSE /\ Delete(o)
         /\ Returns(t)
         /\ UNCHANGED <<initVars, keyDict, reqDict, archived, flushed>>

Next ==
    /\ calls < MaxCalls
    /\ \E t \in Threads :
        \/ InitTest(t)
        \/ InitRun(t)
        \/ ErrorString(t)
        \/ Version(t)
        \/ NewHandle(t)
        \/ Archive(t)
        \/ ArchiveMultiple(t)
        \/ Flush(t)
        \/ NewKey(t)
        \/ NewRequest(t)
        \/ \E a \in Attrs, v \in Values : KeyAdd(t, a, v)
        \/ \E a \in Attrs, vs \in {<<>>} \cup {<<v>> : v \in Values} : RequestAdd(t, a, vs)
        \/ KeyDict(t)
        \/ \E e \in ElementKeys : ListIteratorKey(t, e)
        \/ ListIteratorAttrs(t)
        \/ \E o \in Objs : DeleteObj(t, o)

Spec == Init /\ [][Next]_vars

-----------------------------------------------------------------------------
(* Properties.                                                             *)

\* fdb_initialise runs Main::initialise at most once however often it is
\* called, and once a call of it returned FDB_SUCCESS Main::initialise has
\* run, also when an earlier Main::initialise threw.
MainInitialisedOnce ==
    /\ mainInits <= 1
    /\ \A t \in Threads : initOk[t] => mainInits = 1

=============================================================================
