------------------------------ MODULE CurlGet ------------------------------
(***************************************************************************)
(* pl_curl_get_perform (curl_core.c): HTTP GET requests of several Prolog  *)
(* threads.  Every thread keeps one libcurl handle for its requests; the   *)
(* options of a handle outlive a request unless they are reset, and some   *)
(* point to memory of the request they were set for.                       *)
(*                                                                         *)
(* A body is its number of bytes, a header line <<response, line>>, memory *)
(* a set of names of what a call has allocated.                            *)
(***************************************************************************)
EXTENDS Naturals, Sequences, SequencesExt

CONSTANTS
  Threads,
  Handles,      \* libcurl's easy handles; malloc may give one out again
  GetRequests,  \* requests: records of ua, auth, header, param, follow, bad, max
  GetFirstCap,  \* the capacity of a buffer's first block (4096 in the code)
  MaxRedirs,    \* PL_CURL_MAX_REDIRS
  MaxLines,     \* bound on the header lines of all responses to a request
  Chunks,       \* sizes of the pieces a body comes in
  MaxBytes,     \* bound on what a server sends of a body
  GetFailures   \* what can go wrong: "memory", "link", "key" (pthread keys)

ASSUME GetAssumption ==
  /\ GetFirstCap \in Nat \ {0} /\ MaxRedirs \in Nat /\ MaxLines \in Nat
  /\ Chunks \subseteq Nat \ {0} /\ MaxBytes \in Nat
  /\ GetRequests \subseteq [ua : BOOLEAN, auth : {"none", "basic", "bearer"}, header : BOOLEAN,
                         param : BOOLEAN, follow : BOOLEAN, bad : BOOLEAN, max : Nat \ {0}]
  /\ GetFailures \subseteq {"memory", "link", "key"}
  /\ "none" \notin Handles

VARIABLES
  key,     \* handle_key_ok: "unset" before pthread_once, then "ok" or "failed"
  cache,   \* of a thread: its handle (pthread_getspecific) or "none"
  handle,  \* curl_easy_*: "unused", "live" or "twice" (cleaned up again)
  opts,    \* the options set on a handle
  fetch,   \* the call a thread is in
  mem      \* of a thread's call: what it has allocated and not freed

getVars == <<key, cache, handle, opts, fetch, mem>>

\* What a handle sends and obeys (ua, auth, lines, follow, max), and what its
\* options point to: memory of the call of thread "of".
Defaults == [ua |-> FALSE, auth |-> "none", lines |-> {}, param |-> FALSE, follow |-> FALSE,
             max |-> 0, of |-> "none", points |-> {}]

GetIdle == [pc |-> "idle"]
Begun(r) == [pc |-> "check", req |-> r, h |-> "none", cached |-> FALSE, param |-> FALSE,
             hop |-> 0, lines |-> <<>>, got |-> <<>>, body |-> 0, cap |-> 0, sent |-> 0,
             lost |-> FALSE, answer |-> "none"]

GetInit ==
  /\ key = "unset"
  /\ cache = [t \in Threads |-> "none"]
  /\ handle = [h \in Handles |-> "unused"]
  /\ opts = [h \in Handles |-> Defaults]
  /\ fetch = [t \in Threads |-> GetIdle]
  /\ mem = [t \in Threads |-> {}]

GetAt(t, pc) == fetch[t].pc = pc
NoMemory == "memory" \in GetFailures
Asks(t) == fetch[t].req

\* The lines of the header list a request needs.
Lines(r) == (IF r.header THEN {"header"} ELSE {}) \cup (IF r.auth = "bearer" THEN {"bearer"} ELSE {})

-----------------------------------------------------------------------------
(***************************************************************************)
(* Before anything is sent                                                 *)
(***************************************************************************)
\* A thread calls pl_curl_get/5; the response (errbuf) is in the caller's frame.
Get(t) ==
  /\ GetAt(t, "idle")
  /\ \E r \in GetRequests : fetch' = [fetch EXCEPT ![t] = Begun(r)]
  /\ mem' = [mem EXCEPT ![t] = {"frame"}]
  /\ UNCHANGED <<key, cache, handle, opts>>

\* CR or LF in a header, or libcurl is too old: no handle is taken.
Rejected(t) ==
  /\ GetAt(t, "check") /\ Asks(t).bad
  /\ fetch' = [fetch EXCEPT ![t].pc = "return", ![t].answer = "invalid"]
  /\ UNCHANGED <<key, cache, handle, opts, mem>>

\* thread_handle: pthread_once, then the thread's handle.  Mutation: the handle
\* of any thread.
ReuseAny(t) ==
  /\ GetAt(t, "check") /\ ~Asks(t).bad
  /\ \E u \in Threads : /\ cache[u] # "none"
                        /\ fetch' = [fetch EXCEPT ![t].pc = "url", ![t].h = cache[u], ![t].cached = TRUE]
  /\ UNCHANGED <<key, cache, handle, opts, mem>>

Reuse(t) ==
  /\ GetAt(t, "check") /\ ~Asks(t).bad
  /\ cache[t] # "none"
  /\ fetch' = [fetch EXCEPT ![t].pc = "url", ![t].h = cache[t], ![t].cached = TRUE]
  /\ UNCHANGED <<key, cache, handle, opts, mem>>

\* A new handle, kept if the key exists and takes it.
NewHandle(t) ==
  /\ GetAt(t, "check") /\ ~Asks(t).bad
  /\ cache[t] = "none"
  /\ key' \in IF key # "unset" THEN {key}
              ELSE {"ok"} \cup IF "key" \in GetFailures THEN {"failed"} ELSE {}
  /\ \E h \in Handles, kept \in BOOLEAN :
       /\ handle[h] = "unused"
       /\ kept => key' = "ok"
       /\ ~kept => key' = "failed" \/ "key" \in GetFailures
       /\ handle' = [handle EXCEPT ![h] = "live"]
       /\ cache' = IF kept THEN [cache EXCEPT ![t] = h] ELSE cache
       /\ fetch' = [fetch EXCEPT ![t].pc = "url", ![t].h = h, ![t].cached = kept]
  /\ UNCHANGED <<opts, mem>>

NoHandle(t) ==
  /\ GetAt(t, "check") /\ ~Asks(t).bad /\ cache[t] = "none" /\ NoMemory
  /\ key' = IF key = "unset" THEN "ok" ELSE key
  /\ fetch' = [fetch EXCEPT ![t].pc = "return", ![t].answer = "memory"]
  /\ UNCHANGED <<cache, handle, opts, mem>>

\* build_url_with_params: a parameter there is no memory for is left out.
BuildUrl(t) ==
  /\ GetAt(t, "url")
  /\ \E whole \in {Asks(t).param} \cup IF NoMemory THEN {FALSE} ELSE {} :
       fetch' = [fetch EXCEPT ![t].pc = "options", ![t].param = whole,
                            ![t].lost = whole # Asks(t).param]
  /\ mem' = [mem EXCEPT ![t] = @ \cup {"url"}]
  /\ UNCHANGED <<key, cache, handle, opts>>

NoUrl(t) ==
  /\ GetAt(t, "url") /\ NoMemory
  /\ fetch' = [fetch EXCEPT ![t].pc = "release", ![t].answer = "memory"]
  /\ UNCHANGED <<key, cache, handle, opts, mem>>

\* curl_easy_setopt: an option the request does not name keeps the value it has.
WithOptions(o, t, lines) ==
  LET r == Asks(t) IN
    [o EXCEPT !.follow = r.follow, !.max = r.max, !.param = fetch[t].param,
              !.ua = @ \/ r.ua,
              !.auth = IF r.auth = "basic" /\ lines = Lines(r) THEN "basic" ELSE @,
              !.lines = IF lines # {} /\ lines = Lines(r) THEN lines ELSE @,
              !.of = t,
              !.points = {"frame"} \cup IF lines # {} /\ lines = Lines(r) THEN {"slist"} ELSE {}]

SetUpTo(t, lines) == opts' = [opts EXCEPT ![fetch[t].h] = WithOptions(@, t, lines)]

SetOptions(t) ==
  /\ GetAt(t, "options")
  /\ SetUpTo(t, Lines(Asks(t)))
  /\ mem' = [mem EXCEPT ![t] = @ \cup IF Lines(Asks(t)) = {} THEN {} ELSE {"slist"}]
  /\ fetch' = [fetch EXCEPT ![t].pc = "transfer"]
  /\ UNCHANGED <<key, cache, handle>>

\* Mutation: the failing append is not told to the caller, as for parameters.
SetOptionsNoMemoryGoingOn(t) ==
  /\ GetAt(t, "options") /\ NoMemory /\ Lines(Asks(t)) # {}
  /\ SetUpTo(t, {})
  /\ fetch' = [fetch EXCEPT ![t].pc = "transfer"]
  /\ UNCHANGED <<key, cache, handle, mem>>

\* slist_append3 fails at the first line or the second one: out_of_memory.
SetOptionsNoMemory(t) ==
  /\ GetAt(t, "options") /\ NoMemory /\ Lines(Asks(t)) # {}
  /\ SetUpTo(t, {})
  /\ mem' \in {mem, [mem EXCEPT ![t] = @ \cup {"slist"}]}
  /\ fetch' = [fetch EXCEPT ![t].pc = "release", ![t].answer = "memory"]
  /\ UNCHANGED <<key, cache, handle>>

-----------------------------------------------------------------------------
(***************************************************************************)
(* curl_easy_perform and its callbacks                                     *)
(***************************************************************************)
\* header_write_cb: a header line of the current response.  header_acc_add
\* leaves out a line there is no memory for.
HeaderLine(t) ==
  /\ GetAt(t, "transfer") /\ fetch[t].sent = 0 /\ Len(fetch[t].got) < MaxLines
  /\ LET line == <<fetch[t].hop, Len(fetch[t].got) + 1>> IN
       \E kept \in {TRUE} \cup IF NoMemory THEN {FALSE} ELSE {} :
         /\ fetch' = [fetch EXCEPT ![t].got = Append(@, line),
                                 ![t].lines = IF kept THEN Append(@, line) ELSE @,
                                 ![t].lost = @ \/ ~kept]
         /\ mem' = IF kept THEN [mem EXCEPT ![t] = @ \cup {"lines"}] ELSE mem
  /\ UNCHANGED <<key, cache, handle, opts>>

\* A redirect: libcurl asks again; its header lines are kept, its body is not.
Redirect(t) ==
  /\ GetAt(t, "transfer") /\ fetch[t].sent = 0
  /\ opts[fetch[t].h].follow /\ fetch[t].hop < MaxRedirs
  /\ fetch' = [fetch EXCEPT ![t].hop = @ + 1]
  /\ UNCHANGED <<key, cache, handle, opts, mem>>

\* growbuf_append.  Mutations: the limit is taken for the first size refused;
\* the terminating NUL is not counted.
FitsBelow(max, len, n) == len + n < max
Fits(max, len, n) == len + n <= max

Doubled(cap, need) ==
  LET loop[newcap \in Nat \ {0}] == IF newcap < need THEN loop[2 * newcap] ELSE newcap
  IN  loop[IF cap = 0 THEN GetFirstCap ELSE 2 * cap]

GetGrownWithoutNul(cap, size) == IF size > cap THEN Doubled(cap, size) ELSE cap
GetGrown(cap, size) == IF size + 1 > cap THEN Doubled(cap, size + 1) ELSE cap

\* body_write_cb takes a piece of the body.
BodyPiece(t) ==
  /\ GetAt(t, "transfer")
  /\ \E n \in Chunks :
       /\ fetch[t].sent + n <= MaxBytes
       /\ Fits(opts[fetch[t].h].max, fetch[t].body, n)
       /\ fetch' = [fetch EXCEPT ![t].sent = @ + n, ![t].body = @ + n,
                               ![t].cap = GetGrown(@, fetch[t].body + n)]
  /\ mem' = [mem EXCEPT ![t] = @ \cup {"body"}]
  /\ UNCHANGED <<key, cache, handle, opts>>

\* ... or stops the transfer, for it would exceed the limit.
BodyTooBig(t) ==
  /\ GetAt(t, "transfer")
  /\ \E n \in Chunks : ~Fits(opts[fetch[t].h].max, fetch[t].body, n)
                        /\ fetch' = [fetch EXCEPT ![t].pc = "release", ![t].answer = "limit",
                                                ![t].sent = @ + n]
  /\ UNCHANGED <<key, cache, handle, opts, mem>>

\* The server announces too much, the connection fails, or memory runs out.
TransferFails(t) ==
  /\ GetAt(t, "transfer")
  /\ \/ /\ fetch[t].sent = 0
        /\ fetch' = [fetch EXCEPT ![t].pc = "release", ![t].answer = "limit",
                                ![t].sent = opts[fetch[t].h].max + 1]
     \/ /\ "link" \in GetFailures \/ NoMemory \/ fetch[t].hop = MaxRedirs
        /\ fetch' = [fetch EXCEPT ![t].pc = "release", ![t].answer = "transport"]
  /\ UNCHANGED <<key, cache, handle, opts, mem>>

\* The response is complete: body and headers go over to the caller.
TransferDone(t) ==
  /\ GetAt(t, "transfer")
  /\ fetch' = [fetch EXCEPT ![t].pc = "release", ![t].answer = "ok"]
  /\ UNCHANGED <<key, cache, handle, opts, mem>>

-----------------------------------------------------------------------------
(***************************************************************************)
(* done: release_handle, then the memory of the request                    *)
(***************************************************************************)
Cleaned(h) == IF handle[h] = "live" THEN "unused" ELSE "twice"

\* Mutation: a cached handle keeps its options.
ReleaseKeeping(t) ==
  /\ GetAt(t, "release")
  /\ LET h == fetch[t].h IN
       IF fetch[t].cached THEN UNCHANGED <<handle, opts>>
       ELSE /\ handle' = [handle EXCEPT ![h] = Cleaned(h)]
            /\ opts' = [opts EXCEPT ![h] = Defaults]
  /\ fetch' = [fetch EXCEPT ![t].pc = "free"]
  /\ UNCHANGED <<key, cache, mem>>

\* Mutation: only a cached handle is released.
ReleaseCached(t) ==
  /\ GetAt(t, "release")
  /\ opts' = [opts EXCEPT ![fetch[t].h] = Defaults]
  /\ fetch' = [fetch EXCEPT ![t].pc = "free"]
  /\ UNCHANGED <<key, cache, handle, mem>>

Release(t) ==
  /\ GetAt(t, "release")
  /\ LET h == fetch[t].h IN
       /\ handle' = IF fetch[t].cached THEN handle ELSE [handle EXCEPT ![h] = Cleaned(h)]
       /\ opts' = [opts EXCEPT ![h] = Defaults]
  /\ fetch' = [fetch EXCEPT ![t] = [Begun(@.req) EXCEPT !.pc = "free", !.answer = fetch[t].answer]]
  /\ UNCHANGED <<key, cache, mem>>

Free(t) ==
  /\ GetAt(t, "free")
  /\ mem' = [mem EXCEPT ![t] = IF fetch[t].answer = "ok" THEN @ \ {"url", "slist"} ELSE {"frame"}]
  /\ fetch' = [fetch EXCEPT ![t] = [@ EXCEPT !.pc = "return"]]
  /\ UNCHANGED <<key, cache, handle, opts>>

\* The bridge unifies or raises, after pl_curl_response_free, and returns.
\* Mutation: the response is not freed if it does not unify.
ReturnLeaking(t) ==
  /\ GetAt(t, "return")
  /\ \E unifies \in BOOLEAN : mem' = [mem EXCEPT ![t] = IF unifies THEN {} ELSE @ \ {"frame"}]
  /\ fetch' = [fetch EXCEPT ![t] = GetIdle]
  /\ UNCHANGED <<key, cache, handle, opts>>

Return(t) ==
  /\ GetAt(t, "return")
  /\ mem' = [mem EXCEPT ![t] = {}]
  /\ fetch' = [fetch EXCEPT ![t] = GetIdle]
  /\ UNCHANGED <<key, cache, handle, opts>>

\* The thread ends: handle_free, the key's destructor; another one may start.
ThreadEnds(t) ==
  /\ GetAt(t, "idle") /\ cache[t] # "none"
  /\ handle' = [handle EXCEPT ![cache[t]] = Cleaned(cache[t])]
  /\ opts' = [opts EXCEPT ![cache[t]] = Defaults]
  /\ cache' = [cache EXCEPT ![t] = "none"]
  /\ UNCHANGED <<key, fetch, mem>>

-----------------------------------------------------------------------------
Transfer(t) ==
  \/ HeaderLine(t) \/ Redirect(t) \/ BodyPiece(t) \/ BodyTooBig(t)
  \/ TransferFails(t) \/ TransferDone(t)

Perform(t) ==
  \/ Rejected(t) \/ Reuse(t) \/ NewHandle(t) \/ NoHandle(t) \/ BuildUrl(t) \/ NoUrl(t)
  \/ SetOptions(t) \/ SetOptionsNoMemory(t) \/ Transfer(t) \/ Release(t) \/ Free(t)

GetNext == \E t \in Threads : Get(t) \/ Perform(t) \/ Return(t) \/ ThreadEnds(t)

GetSpec == GetInit /\ [][GetNext]_getVars

-----------------------------------------------------------------------------
InCall(t) == fetch[t].pc # "idle"
HasHandle(t) == fetch[t].pc \in {"url", "options", "transfer", "release"}

\* Types of the variables; the bytes of a body and the NUL after them fit the
\* buffer growbuf_append has grown.
GetTypeOK ==
  /\ key \in {"unset", "ok", "failed"}
  /\ cache \in [Threads -> Handles \cup {"none"}]
  /\ handle \in [Handles -> {"unused", "live", "twice"}]
  /\ \A h \in Handles : opts[h].points \subseteq {"frame", "slist"}
  /\ \A t \in Threads : mem[t] \subseteq {"frame", "url", "slist", "body", "lines"}
  /\ \A t \in Threads : InCall(t) /\ fetch[t].body > 0 => fetch[t].body < fetch[t].cap

\* No two threads use a handle at the same time, and none uses a handle that has
\* been cleaned up (curl_core.c: "A handle is never used by two threads at once").
HandleExclusive ==
  /\ \A t \in Threads : HasHandle(t) => handle[fetch[t].h] = "live"
  /\ \A t, u \in Threads : t # u /\ HasHandle(t) =>
       cache[u] # fetch[t].h /\ (HasHandle(u) => fetch[u].h # fetch[t].h)
  /\ \A h \in Handles : handle[h] # "twice"

\* No option of a handle points to memory that has been freed, so that a handle
\* can be used again or cleaned up at any time ("no pointer to this request's
\* data remains").
NoStalePointer ==
  \A h \in Handles : handle[h] = "live" /\ opts[h].points # {} => opts[h].points \subseteq mem[opts[h].of]

\* What goes out is what this request asks for and nothing of an earlier one:
\* no credentials, header, user agent or limit is left over, and none is missing
\* (a parameter only if there was no memory for it).
SentAsAsked ==
  \A t \in Threads : GetAt(t, "transfer") =>
    LET o == opts[fetch[t].h]
        r == Asks(t)
    IN  /\ o.ua = r.ua /\ o.follow = r.follow /\ o.max = r.max /\ o.lines = Lines(r)
        /\ (o.auth = "basic") = (r.auth = "basic")
        /\ o.param # r.param => fetch[t].lost

\* A response that is given to the caller has the whole body, within the limit, and
\* the header lines in the order received (all of them if memory did not run out);
\* "exceeds the limit" is said exactly of bodies that do.
ResponseFaithful ==
  \A t \in Threads : GetAt(t, "release") =>
    /\ fetch[t].answer = "ok" => fetch[t].body = fetch[t].sent /\ fetch[t].sent <= Asks(t).max
    /\ fetch[t].answer = "ok" /\ ~fetch[t].lost => fetch[t].lines = fetch[t].got
    /\ IsInjective(fetch[t].lines)
    /\ \A i, j \in 1..Len(fetch[t].lines) : i < j => fetch[t].lines[i][2] < fetch[t].lines[j][2]
    /\ fetch[t].answer = "limit" => fetch[t].sent > Asks(t).max

\* Nothing is lost: a live handle is kept by its thread or used by a call, and
\* between calls no memory of a request remains, whichever step of it failed.
NothingLeaked ==
  /\ \A h \in Handles : handle[h] = "live" =>
       \E t \in Threads : cache[t] = h \/ (HasHandle(t) /\ fetch[t].h = h)
  /\ \A t \in Threads : ~InCall(t) => mem[t] = {}
  /\ \A t \in Threads : GetAt(t, "return") => mem[t] \subseteq {"frame", "body", "lines"}
  /\ \A t \in Threads : GetAt(t, "return") /\ fetch[t].answer # "ok" => mem[t] = {"frame"}

=============================================================================
