# A TLA+ model of prolog-utilities

`prolog-utilities` is a set of libraries for SWI-Prolog and GNU Prolog: HTTP and
WebSocket clients over libcurl (`pl_curl`), PostgreSQL over libpq
(`pl_postgresql`), POSIX regular expressions (`pl_regexp`), CGI programs with
templates (`pl_cgi`) and a toolbox of streams, strings, JSON and vectors
(`pl_toolbox`).  The parts in C share one shape: a *core* that knows nothing of
Prolog (`curl_core.c`, `pgsql_core.c`) and one *bridge* per Prolog system
(`swi-*.c`, `gp-*.c`) that turns terms into C values, keeps handles and raises
errors.

This directory holds TLA+ modules of the parts that have state and interleavings
worth checking, the configurations that check them with TLC, and proofs checked
by TLAPS.  The paths below are relative to the repository, line numbers are in
`PROJECT.json` under `map`, definition by definition.

## Inventory

| Component | State it keeps | Operations | What is hard |
|---|---|---|---|
| `pl_curl` core, WebSocket (`pl_curl/src/curl_core.c`) | `struct pl_curl_ws`: `usable`, the message being assembled (`msg`, `msg_started`, `msg_kind`), the limit | `pl_curl_ws_open`, `_send`, `_recv`, `_free` | parts, fragments, control frames and timeouts in any order; partial writes; signals in `poll`; close handshake; out of memory |
| `pl_curl` core, HTTP GET (`curl_core.c`) | one libcurl handle per thread (`pthread_setspecific`), its options; memory of one request | `pl_curl_get_perform`, `header_write_cb`, `body_write_cb`, `thread_handle`, `release_handle` | options and pointers that outlive a request; failures between steps; limit on the body; threads |
| `pl_curl` SWI-Prolog bridge (`swi-curl.c`) | blobs of WebSocket handles | `pl_curl_get/5`, `pl_curl_ws_open/3`, `_send/2,3`, `_recv/3`, `_close/1` | a receive in slices with signals handled between them; collector in another thread |
| `pl_curl` GNU Prolog bridge (`gp-curl-c.c`, `gp-curl.pl`) | a table of WebSocket handles that only grows; the copies of texts a call owns | the same predicates | stale handles; a timeout (a long) passed to `poll` (an int); errors raised by library functions that do not return |
| `pl_postgresql` core and SWI-Prolog bridge (`pgsql_core.c`, `swi-pgsql.c`) | blob -> `pq_connection_encoded` -> `PGconn`; a `PGresult` per choice point | `pl_pgsql_connect/1,6`, `_disconnect/1`, `_query/2,3`, `_exec/3`, `_query_all/3,4` | threads, collector, nondeterministic predicates, connections that go bad |
| `pl_postgresql` GNU Prolog bridge (`gp-pgsql-c.c`, `gp-pgsql.pl`) | a table of connections that only grows | the same predicates | stale handles, growth that fails |
| `pl_postgresql` text encoding (`pgsql.pl`) | none | `pl_encode/2`, `pl_decode/2` | inverse of each other on which texts |
| `pl_regexp` (`swi-regexp.c`, `gp-regexp-c.c`) | the blocks of memory of one call | `pl_regexp/3`: copy, compile, match, list | ownership on every way out |
| `pl_toolbox` JSON (`json.pl`) | none | `from_json/2`, `to_json/2` | a grammar with cuts in every rule; surrogates; round trip |
| `pl_toolbox` streams, strings, vectors (`stream.pl`, `string.pl`, `vector.pl`, `math.pl`) | none | pure predicates | edge cases of lists and end of file |
| `pl_toolbox` temporary files (`lowlevelroutines.c`) | the file system | `pl_temporary_file/3` | other processes between check and creation |
| `pl_cgi` (`common.pl`, `cgi.pl`, `gp-cgi.pl`) | current input, environment, parsed parameters | read a request, expand templates | nested templates that set and restore the current input; limits |
| top levels, build, CI | none | | |

**How they interact.**  A predicate of a bridge calls the core synchronously, in
the Prolog thread; the core calls libcurl or libpq, and libcurl calls the core's
callbacks back during a transfer.  Nothing but handles outlives a call: a blob
(SWI-Prolog) or an index (GNU Prolog) that refers to a `pl_curl_ws` or a
`PGconn`.  Concurrency comes from four sides: Prolog threads that call at the
same time, SWI-Prolog's collector that releases blobs in a thread of its own,
signal handlers that SWI-Prolog runs between two slices of a receive (and that
interrupt `poll`), and the server at the other end.

**What makes each part correct.**

* WebSocket core: the messages received are the messages sent, whole and in
  order; the status reported is the server's; everything written can be parsed
  by the server; the limit is exact; a call returns in time; an ended connection
  stays ended.
* HTTP core: one thread per handle; nothing of one request is sent with another;
  no pointer to freed memory stays in a handle; all memory is freed on every
  path; the response is the server's or an error says which limit or failure.
* SWI-Prolog WebSocket bridge: the slices add up to the timeout, signals are
  handled within one slice, no message is lost between slices, nothing is freed
  twice or used afterwards.
* Both PostgreSQL bridges: the contract their README states, and memory safety.
* Option lists and query arguments: what libcurl and libpq are given is what the
  program asked for, each text at its own place, and no copy survives the call.
* Regular expressions: every block is freed once on every way out; the list has
  all groups in order.
* Temporary files: the file answered is the caller's own, whatever others do.
* Requests and templates: every parameter and every part of a template comes
  out, in order, and the program gets its input stream back.
* JSON: a text is read as what it denotes, or refused if it denotes nothing, and
  what is written denotes the same again.

## Modules

| Module | What it is |
|---|---|
| `WsCore` | one WebSocket connection: the four functions of the core, step by step, with server, link and clock |
| `WsStream` | the abstract promise of `pl_curl_ws_recv`; `WsCore` implements it (`StreamSpec`) |
| `WsCoreProofs` | theorems about `WsCore`: what is received, what is sent, how a connection ends |
| `CurlGet`, `CurlGetProofs` | `pl_curl_get_perform` in several threads |
| `WsContract` | what both bridges of `pl_curl` promise a program that uses WebSockets |
| `WsSwi`, `MCWsSwi`, `WsSwiProofs` | the WebSocket predicates of `swi-curl.c` over an abstract core; implements `WsContract` |
| `GpCurl` | the WebSocket predicates of `gp-curl-c.c` and their table of handles; implements `WsContract` |
| `CurlOptions` | the option lists of `pl_curl_get/5` and `pl_curl_ws_open/3` in both bridges, and the texts they copy |
| `PgContract` | what both PostgreSQL bridges promise a program |
| `PgSwi`, `MCPgSwi`, `PgSwiProofs` | `swi-pgsql.c` over `pgsql_core.c`; implements `PgContract` |
| `PgGp`, `PgGpProofs` | `gp-pgsql-c.c` over `pgsql_core.c`; implements `PgContract` |
| `PgArgs` | the arguments of `pl_pgsql_connect/6` and of queries with parameters, in both bridges |
| `Bridges` | a program and the one of `WsSwi`, `PgSwi` and `PgGp` it uses |
| `Regexp` | `pl_regexp/3` in both bridges |
| `Memory` | what is asked of `CurlOptions`, `Regexp` and `PgArgs` together |
| `GnuProgram` | a GNU Prolog program that uses those three one after the other; what is written of them, without the exceptions the code makes |
| `BridgeProofs` | theorems about `GpCurl` and the three modules of `Memory` |
| `TempFile` | `pl_temporary_file/3` among other callers and other processes |
| `CgiTemplates` | `generate_html_output` with nested templates and the current input |
| `CgiRequest` | `init_cgi`: how a request is read, split and decoded |
| `LibraryProofs` | theorems about `TempFile`, `CgiTemplates` and `CgiRequest` |
| `JsonGrammar`, `JsonProofs` | `from_json/2` and `to_json/2`; theorems about them |
| `Json` | what a text of JSON denotes, the reference for `from_json/2` |
| `Libraries` | a program and the one of nine libraries it uses (`GpCurl`, `CurlGet`, the three of `Memory`, `TempFile`, `CgiTemplates`, `CgiRequest`, `Json`); the inputs of their runs |

`MCWsSwi` and `MCPgSwi` only add the symmetry sets TLC uses in `ws_swi_signal` and
`pg_shared`.  `Bridges`, `Libraries` and `GnuProgram` define these and the inputs
(kinds of requests, lists of options, templates) for the modules they put side by side.
The other `.cfg` files name a module directly, because its constants are numbers
or interchangeable model values.  The variables and the specification of `CurlGet`,
`WsSwi`, `PgGp` and the smaller modules begin with a prefix of their own (`get`, `ws`,
`pg`, `gp`, `opt`, ...), so that they can be extended together.

Comments that begin with "Mutation" introduce variants of the definition that
follows: what a plausible mistake at that place would have been.  They are in no
specification.  `PROJECT.json` pairs each one with the property that has to be
violated when it takes the place of the definition; this shows that the
properties are sensitive to the code.

### WsCore and WsStream

State: `handle` and `usable` are the structure and its flag, `buf`/`started`/
`kind` are `msg`/`msg_started`/`msg_kind`.  `pc`, `purpose`, `left` and `outcome`
stand for the call in progress: in which loop it is (`recv`, `pollin`, `send`,
`pollout`), on whose behalf `ws_send_frame` runs (a send, the answer to a close,
the closure of `pl_curl_ws_free`), and the time to its deadline.  `out` are the
frames given to `curl_ws_send`, with how much of each it took.  `wire` and `used`
are frames in flight and how much of the first libcurl has handed over.
`server`, `frames`, `sent` are the other end; `delivered` and `closing` record
what the caller was told.

A byte is its identity: byte *i* of message *k* is `<<k, i>>`, so that lost,
repeated, reordered or mixed bytes can be seen and lengths stay what they are.
The status code of a close frame is its first two bytes, 1005 the empty sequence.

Actions: `Send`, `SendComplete`, `SendBlocked(n)`, `SendTimesOut(n)`,
`SendError`, `WaitedToSend`, `WaitToSendFails` are the paths of `ws_send_frame`'s
loop; `Recv`, `RecvAgain`, `WaitedToRecv`, `RecvTimesOut`, `RecvFails`,
`RecvPing`, `RecvPart`, `RecvLast`, `RecvTooBig`, `RecvClosePart`, `RecvCloseEnd`
are those of `pl_curl_ws_recv`; `FreeUsable` and `FreeUnusable` those of
`pl_curl_ws_free`.  One turn of a loop is one action: what libcurl returned, and
everything the code does with it before it calls libcurl or `poll` again.

External: libcurl cuts a frame into parts of any size and may answer
`CURLE_AGAIN` at any call; the server follows RFC 6455.  What libcurl does with
pings (answers them itself) is not part of the model, only that it hands them
over.  A ping counts to no bound: the server may send them for ever, and `RecvPing`
goes on reading without a look at the deadline, as the code does.

`WsStream` is what the caller may rely on: a growing sequence of messages of
which each is delivered whole and in turn, then a report of the close, then
nothing.  The refinement maps `status` to `up` while the handle is open, usable
and not closed.

### CurlGet

State: `key` and `cache` are the pthread key and its values, `handle` and `opts`
libcurl's handles and the options set on them, `call` where a thread is in
`pl_curl_get_perform` and what it has received, `mem` what its call has allocated.
`opts[h].points` names the memory a handle's options point into: the frame of
the call (error buffer, accumulators) and the header list.  `Get` to `Return`
follow the function from top to bottom, with one action per step that can fail on
its own; `Transfer` is `curl_easy_perform` with its callbacks.

Requests are four kinds (`MCFetches` in `Libraries`): plain with a limit of one byte; basic
authentication with user agent, redirects and a limit of two; bearer token with a
header and a parameter; and one that is rejected before anything is sent.  Each
pair of them differs in something that must not be carried over.

### WsSwi

The core is reduced to what the bridge sees: a connection has messages
(`inbox`, of which `taken` have been handed over), is usable, unusable or freed.
`Recv` sets the timeout, each slice is one step (`SliceEnds`, `RecvTimeout`,
`RecvMessage`, `RecvEnds`), and between slices `HandleSignals` runs a pending
handler, which may return, throw, receive on the same handle or close it.
`Release` is the collector.  Time is counted by what was waited.  `told` records
the messages the program was answered, handle by handle.

### WsContract and GpCurl

`WsContract` says which connection a handle stands for, that a closed handle is
refused, that nothing comes from a connection that has ended, and that messages
are answered in order, each once; a message that is taken and does not unify is
gone.  `WsSwi` implements it (`ContractKept`) with `owner`, the states of the
connections and `taken`; only the collector closes a connection behind the
program's back.  `GpCurl` implements it (`WsContractSpec`) with the table: `table`,
`cap` and `room` are `gp_ws_table`, its capacity and what `realloc` has given;
`Open`, `OpenNoMemory` are `gp_curl_ws_open` and `gp_ws_table_alloc`.  A receive is
one call of the core with the whole timeout: `Recv` notes the time asked for,
`Poll` passes what is left of it as an int (`limit`, which may become negative:
no limit), `Tick` is the time that passes in it and `PollReturns` its end, at any time,
since anything may have come.  What has come is read: a message ends the receive, a ping
or a part is followed by the next read (`ReadsOn`), during which time passes too and the
deadline is not looked at.  `quiet` notes whether that has happened; `RecvWaits` bounds
the time of a receive in which it has not.

### CurlOptions

An option is its name and the kinds of its arguments; the text of argument *k* of
option *i* is `<<i, k>>`, so that a text at the wrong place can be seen.  `parse` is
where the parser is, `req` the request built so far, `owned` the copies malloc gave
out, `lost` those nothing refers to any more.  `OptUrl` to `OptEnd` are the parsers
in one pass (both of `swi-curl.c`, and `gp_curl_get`), `GpCheck` to `GpUrl` the two
passes of `gp_curl_ws_open`, which counts and checks before it copies; `Performs`,
`Answers` and `AnswerRaises` the call of the core and what the predicate answers.

Three parsers copy every text.  `gp_curl_get` does not (`Copies`): it keeps the pointers
of `Pl_Rd_String_Check`, which by the comments of both GNU Prolog bridges point into one
buffer, so that what the core finds at each of them is the text that was read last
(`Reads`).  `gp_curl_ws_open` puts its copies into an array of `StrsRoom` places, of which
it counts only the headers' before it copies; a write behind the array is undefined, and
the call goes on or the process ends (`GpOverrun`).

### PgArgs, Regexp and TempFile

`PgArgs` goes through the arguments one by one (`TextTaken`, `AbsentTaken`,
`Nothing`, `GpListRaises`, ...).  `passed` is what libpq will be given at each
position: NULL, a block of its own, one of SWI-Prolog's stack of buffers, or the buffer
every conversion of SWI-Prolog uses, of which only the last content remains (`shared`).  `copies` and `adrift` are the
blocks owned and lost.  The empty list is a text (`[]`) where a text is asked for and NULL
among the parameters.  A user or password GNU Prolog's bridge finds no text for is NULL,
as an unbound one is (`GpNothing`, `Unchecked`).

`Regexp` is the one C function of each bridge from its first test to its return;
`blocks` are what it owns, `stray` what it lost, `misused` whether something was used
or freed that it did not own.

`TempFile` has one action per system call (`TfArguments`: `stat`, `TfMake`:
`mkstemp`, which may fail at any time (`TfMakeFails`), `TfReturn`: `close` and
unification), and `TfOthers`: others make and remove files, remove the directory or
take away the right to write in it.

### GnuProgram

A program of GNU Prolog makes up to three calls, one after the other: it fetches a URL or
opens a WebSocket (`CurlOptions`), logs in or queries (`PgArgs`) and matches a regular
expression (`Regexp`).  The actions are those modules' own; what is added is the order.
It is there to state what the repository says of these calls without the exceptions that
`RequestFaithful`, `MemoryExact` and `ArgumentsFaithful` have to make for the code as it
is: `GnuAsAsked` and `GnuMemoryExact`, which both fail.  In the runs that show it every
call has inputs of one kind, and the one state in which all calls have returned violates
each conjunct of the property.

### CgiTemplates, CgiRequest and Json

`CgiTemplates`: `opened` are the streams and their positions, `input` the current
input, `nest` the templates being written.  A goal may write another template,
throw, or be no Prolog term at all; the last raises an error outside the template's
own `catch/3`, and `escaped` notes it.  `Expanded` is what a template stands for, its
parts with those of the nested ones in their place.  It is defined for files of which
each nests later ones only (`CtAssumption`): a template that nests itself, directly or
through others, is written without end, and any other set of files can be numbered so.

`CgiRequest`: a text is a sequence of tokens; `%26` is the encoding of a separator,
and `Filter` decodes.  A browser encodes the separators of a name or a value, so that
`Tokens`, of which these consist, has neither `=` nor `&` (`CqAssumption`).
`scan` is the state of `read_txtuntil/2`; a name and its value become a fact in `cgi_in`.

`JsonGrammar`: the grammar of `json.pl` as operators that give what is read at a position,
with the cuts: no rule is tried again once its first character has been seen.  `JsRead` is
one function of a text: for each position the value that is read there, and the rest of an
array or an object; `Encode` one function for each depth of nesting.  A text is the list of
its codes, however the program passes it.  In GNU Prolog the atom `[]` is the empty list
(`AtomOf`).  `Denotes` in `Json` is the reference: all ways to divide a text by JSON's
grammar.  It decides nothing at a character: `Denoted` gives for any two codes of the text
what stands from the one to the other, by any place of the commas, colons and brackets
between them.  TLC builds the texts piece by piece from a small set of pieces and compares.

### PgContract, PgSwi and PgGp

`PgContract` has clients, handles, connections and cursors and says what each
predicate may answer.  `PgSwi` implements it with heap addresses that `malloc`
may give out again, blobs, threads that pass handles on, a collector, and
disconnection in two steps (`Finish`, `Disconnected`) because the code finishes
the connection before it clears `dbx`.  A query is `Query`, `Exec` and one of its
outcomes, so that other threads run while libpq waits.  Cursors are the choice
points of `pl_pgsql_query/3` (`FirstRow`, `NextRow`, `NextRowFails`, `Prune`).
`PgGp` implements the same contract with a table; there every predicate runs to
its end, as GNU Prolog has one thread, and its cursors are the choice points of
`member/2`, since `gp-pgsql.pl` collects all rows first.

The refinement of `PgSwi` lets a connection count as open until `dbx` is
cleared, and as closed when it was never handed over; a handle nobody holds may
be collected.

## Runs

| Run | Module, configuration | What it asks |
|---|---|---|
| `ws_core` | `WsCore`, `WsCore.cfg` | faithful messages, status, limit, usability, finality, what is sent; refinement of `WsStream`; liveness: calls return unless pings never stop, messages arrive |
| `bridges` | `Bridges`, `Bridges.cfg` | SWI-Prolog WebSockets: slices, signals, handlers, collector, refinement of `WsContract`; PostgreSQL in threads (SWI-Prolog) and over a table (GNU Prolog): memory, handles, refinement of `PgContract` |
| `libraries` | `Libraries`, `Libraries.cfg` | GNU Prolog WebSockets (with refinement of `WsContract`), fetches of two threads with every step failing, option lists, regular expressions, query arguments, temporary files, templates, requests, JSON |
| `ws_flood`, `ws_close_inside`, `ws_signal`, `ws_swi_signal`, `pg_shared`, `recv_int`, `gnu_asked`, `gnu_memory`, `cgi_nested` | | nine runs whose property is violated, where the code and what is written about it disagree; see below |

`ws_core` checks for deadlock: a connection ends in `Done`, when the caller has freed
it.  `WsSwi` can stop when the program has crashed (see `ws_swi_signal`) or has used up
its connections, and the calls of `Libraries` and `GnuProgram` end, after which the
program may stop as well; hence `CHECK_DEADLOCK FALSE` there.

The three bridges of `Bridges` share no state, and neither do the nine libraries of
`Libraries`.  A behaviour chooses one (`bridge`, `lib`) and explores it in full while
the others have not been called; interleaving them would multiply the states and add no
behaviour.  Their properties are invariants of one run, each about one of them
(`MemoryExact` is the conjunction of three).

`ws_core` has a link that may break at any time (`"drop"`), but no signals in `poll`, no
failing allocation and no close between fragments: with a signal or such a close
`StaysUsable` and `CloseCodeFaithful` do not hold, which is what the runs `ws_signal` and
`ws_close_inside` show.  What holds even then (`MessagesFaithful`, `OutputWellFormed`,
`EndIsFinal`, `LimitExact`) is proved for every set of faults; see Proofs.

### Bounds, and why they are enough

* `WsCore`: a limit of 4 bytes; frames of 0 and 2 bytes; at most 3 data and close frames,
  one in flight at a time, since the client looks only at the first frame it has not
  read.  This has messages of several fragments, empty fragments, messages under the
  limit, of exactly the limit (2 + 2) and over it (2 + 2 + 2), two messages one after
  another, pings between fragments, without limit, and close frames with (3 bytes: status
  and reason) and without status.  A fragment of 2 bytes is the smallest that can be cut.
  One send of 2 bytes meets an unfinished receive and an answer to a close.  The timeout 1
  allows one wait before the deadline; the 30 seconds of a send are 0, so that it times
  out at the first wait, before or after a part of the frame was written.
* `CurlGet`: two threads and two handles, so that a thread uses its cached handle or
  one that could not be cached while the other has one; limits of 1 and 2 against bodies
  of up to 3 bytes in pieces of 1 and 2; a first block of 1 byte, so that the buffer
  grows twice; one redirect and two header lines.
* `WsSwi`: a slice of 2 and every timeout from 0 to 5: less than, equal to and
  more than one and two slices.  Two handles and two addresses let an address be
  given out again.
* `PgSwi`: two of everything: a handle that is passed on, an address used again,
  two nested queries of up to 2 rows.
* `PgGp`: three handles with a first table of one slot: the table grows twice
  (to 2 and to 4) and one handle is made after another is stale.  Three rows
  distinguish first, middle and last.
* `Libraries`.  `GpCurl`: a first table of one slot that grows once; the greatest int
  is 1 and timeouts go to 3, so that every relation of a long to an int occurs (less,
  equal, negative and zero once cut), watched for 4 units of time, of which any may pass
  over pings.  `CurlOptions`:
  all lists of up to three of thirteen options, with room for one parameter and one
  header (64 in the code): one option too many, two authentications in either order,
  a wrong one before and after right ones.  `Regexp`: patterns of up to two groups.
  `PgArgs`: up to three parameters where two are allowed.  `TempFile`: two callers,
  two names, two files of others.  `CgiTemplates`: three files deep, up to three parts
  in the first and two calls one after another.  `CgiRequest`: up to two parameters
  of up to one and two tokens, and a limit of 7 tokens, below, at and above which
  there are requests.  `Json`: texts of up to five pieces of structure, a quote and three
  pieces of a string (escapes at the bounds of the ranges of UTF-8 and of the
  surrogates), five of a number, three of literals and the string `[]`; numbers below, at and above the greatest
  integer.

The violating runs are as small as their behaviour allows: `ws_flood` one message and no
limit to pings, `recv_int` one connection and timeouts of 1 and 2 where the greatest int is
1, `gnu_asked` two parameters where one has room and a user that is no text, `gnu_memory` a
second, third, fourth and fifth `user_agent` where the array has 4 places, followed by
arguments that are no text.

`MaxFrames`, `MaxInFlight`, `MaxSends`, `MaxLines`, `MaxBytes`, `MaxMsgs`,
`MaxRows`, `MaxOpen`, `PgMaxRows`, `PgMaxOpen`, `MaxHandles`, `MaxWait`, `MaxGroups`, `MaxOthers` and
`MaxCalls` are bounds of the models and not of the code; each is a guard of the
action it limits.  `FirstCap`, `GetFirstCap`, `Slice`, `IntMax`, `MaxKv`, `ParamLimit`,
`MaxInput` and `JsIntMax` are constants of the code with smaller values.

### Fairness

Only `WsCore` states liveness (`FairSpec`).  `WF(SendStep \/ RecvStep)`: a C
function that has not returned goes on; nothing in these loops waits for another
thread.  `WF(Tick)`: its clock advances, and while `poll` waits that is all that
may happen.  `SF(Receive)`: bytes in flight arrive in the end, that is, libcurl
does not answer `CURLE_AGAIN` for ever at every one of repeated calls; TCP gives
this unless the connection breaks, and then the call fails.
`WF(\E t : Recv(t))`: the *program* keeps receiving, the premise under which
`EventuallyDelivered` is promised.  No fairness is assumed of the server.

None of this makes a receive return: a loop that goes on reading pings is a fair one.  So
`CallsReturn` promises it only unless pings never stop, and `RecvReturns`, which is what
is written of `pl_curl_ws_recv/3`, is violated under `FairSpec` (`ws_flood`).

## Where the code differs from what is written about it

* `ws_flood`.  `pl_curl_ws_recv` compares the deadline with the clock only when libcurl
  has nothing to read (`curl_core.c:677`).  A ping is answered by libcurl and the loop
  goes on, so that pings that keep coming hold a receive past the timeout it "waits up
  to" (`pl_curl/README.md:131`, `curl_core.h:144`).
* `recv_int`.  `ws_wait` gives `poll` the rest of the timeout as an int
  (`curl_core.c:501`).  Of a timeout beyond the greatest int it is given a negative
  number, which is no limit, and the receive does not return before something comes.  Only
  GNU Prolog's bridge passes the whole timeout in one; the SWI-Prolog one waits in slices.
* `gnu_asked`.  Three things of GNU Prolog's bridges, all in the state in which a
  fetch and a login have succeeded.  `gp_curl_get` passes over the parameters and
  headers there is no room for and sends the request without them
  (`gp-curl-c.c:119,123`), where the other three parsers refuse the list.  It keeps
  uncopied what `Pl_Rd_String_Check` returns, so that the core finds the text that was read
  last at the place of the URL and of every other text; this rests on the comments
  at `gp-curl-c.c:275-276` and `gp-pgsql-c.c:147-151`, since GNU Prolog's own source is
  not in the repository.  And `pl_pgsql_connect/6` goes on with NULL for a user or
  password it has no text for (`gp-pgsql-c.c:371`, `:380`), which libpq takes for the
  account of the process.
* `gnu_memory`.  What GNU Prolog's bridges lose, all in the state in which three calls
  have returned with errors.  `gp_curl_ws_open` has places for one `user_agent` and
  writes behind the array `strs` if there are more (`gp-curl-c.c:386`, `:473`); a list
  that turns out to be no text while it is copied raises the error inside
  `gp_ws_text_owned`, and the copies made so far are lost, although `gp-curl-c.c:433`
  says that they are freed, as are those of `gp-regexp-c.c`; and a parameter that is no
  text raises its error before `gp_pgsql_params_free` (`gp-pgsql-c.c:275`).
* `ws_close_inside`.  A close frame between two fragments of a message is legal.
  `pl_curl_ws_recv` appends its payload to the fragments it holds and reads the
  status from the first two bytes of all that (`curl_core.c:710`).  The status
  reported, and sent back, is made of message bytes; `curl_core.h:133` promises
  the status code.
* `ws_signal`.  `poll` returns -1 with `EINTR` when a signal handler has run;
  the receive takes this for a broken socket and gives the connection up
  (`curl_core.c:683`), although the README invites signals during a receive and
  says that a receive without a message leaves the connection usable.
* `ws_swi_signal`.  `swi_curl_ws_recv` fetches `h->ws` anew in each slice but
  checks it only before the loop; a handler that closes the handle leaves NULL
  there, and the core dereferences it.
* `pg_shared`.  Two threads with the same PostgreSQL handle (the constant `Shared`
  of `PgSwi`): one disconnects while the other's query is about to run, and
  `PQexec` gets a finished connection.  `swi-pgsql.c` says that a disconnected
  handle is detected; for a handle in two threads that is so only once `dbx` is
  cleared.  In `bridges` a handle belongs to one thread at a time.
* `cgi_nested`.  A `{Goal}` of a nested template that is no Prolog term raises its
  error outside `catch/3` (`common.pl:294`).  The template stays open and the current
  input; the goal of the outer template catches the error, and the outer template
  goes on reading the inner file: the rest of the outer one is never written.

What else was met on the way and has no run of its own.  Some of it is in the models
as the code has it, and the properties are stated so as to allow it:

* A close frame that is over the limit of messages, or that there is no memory for, is
  dropped, and so is its status (`CloseKept`; see Proofs).
* `gp_curl_get` loses the response if one of Status, Headers and Body is of another type
  (`AnswerRaises`; `OptionsFreed` allows it).
* `common.pl:147` and `stream.pl:99`: parsing stops at a parameter that is empty, and a
  separator behind a `\` separates nothing (`ParamsWhole` is stated up to there).
* `json.pl` accepts leading zeros and control characters in strings, which JSON does
  not (`Denotes` follows the code here).
* `json.pl:98`: in GNU Prolog `atom_codes/2` makes the string `[]` the empty list, which
  `to_json/2` writes as an array; `json.pl:49` says that a string becomes an atom (`AtomOf`;
  `Denotes` follows the code here).
* `lowlevelroutines.c` refuses a `/` in the prefix only in its first five characters,
  against `pl_toolbox/README.md:106`.
* `stream.pl`: `read_binline` drops the last byte of a stream without a final line
  feed; `vector.pl`: `vnorm` calls `vdiv` with its arguments swapped.  Both modules are
  outside the models.

## Proofs

Everything below is proved for every value of the constants: every limit, every
set of frame lengths and timeouts, any number of threads, handles, connections,
callers, names, groups and rows, any option list, argument list, set of templates and
request, and with or without any of the faults, unless the table names a hypothesis.

| Module | Theorems |
|---|---|
| `WsCoreProofs` | `TypeCorrect`; `MessagesCorrect`: the messages returned by `pl_curl_ws_recv` are those the server completed, from the first on, byte by byte and with their kind; `OutputCorrect`: no frame follows one that was cut short, and none follows a close frame; `EndCorrect`: an unusable connection stays so and nothing is delivered or sent over it; `LimitCorrect`: the limit is exact (all five also with a server that closes inside a message, and with all faults); `UsableCorrect`: no timeout of a receive ends a connection, if no signal interrupts `poll` (`"eintr" \notin Faults`); `CloseCodeCorrect` and `StreamCorrect`: the status of a close is the server's, and `pl_curl_ws_recv` implements `WsStream`, both if close frames are kept (`CloseKept`) |
| `CurlGetProofs` | `TypeCorrect`, `HandleExclusiveCorrect`, `NoStalePointerCorrect`, `SentAsAskedCorrect`, `ResponseFaithfulCorrect`, `NothingLeakedCorrect`: the invariants of `CurlGet` in the run `libraries` |
| `WsSwiProofs` | `HandlesSafeCorrect`, `NoMessageLostCorrect`, `WaitsExactlyCorrect`, `SignalsHandledCorrect`: the invariants of `WsSwi` in the run `bridges`; `CloseDetectedCorrect`: the core is never called without a connection, if no handler closes the handle of the receive it interrupts (`"close" \notin Handlers`); `ContractKeptCorrect`: the bridge implements `WsContract` |
| `PgSwiProofs` | `TypeCorrect`, `NoFreedUseCorrect`, `NothingLostCorrect`, `NoDanglingCorrect`; `ContractCorrect`: the bridge implements `PgContract`; all for programs that do not share handles between threads (`~Shared`) |
| `PgGpProofs` | `TypeCorrect`, `TableCorrect`, `HandlesCorrect`; `ContractCorrect`: the bridge implements `PgContract` |
| `BridgeProofs` | of `GpCurl`: `GpTypeCorrect`, `WsHandlesCorrect`; `RecvWaitsCorrect`: no timeout is answered early, and a receive that is asked for a time an int can hold is over by then if no ping or part comes; `WsContractCorrect`: the bridge implements `WsContract`; of the modules of `Memory`: `RequestFaithfulCorrect`: what is sent is what the list asks for, and a list there is no room for is refused, except by `gp_curl_get`; `ArgumentsFaithfulCorrect`: libpq is given every argument, and what has no text is refused, except for user and password in GNU Prolog; `OptionsFreedCorrect`, `RegexpFreedCorrect`, `ArgumentsFreedCorrect` and the three together, `MemoryExactCorrect`: a call that has returned holds nothing, SWI-Prolog's bridges lose nothing, and GNU Prolog's lose blocks only in the calls that are named; `MatchesCompleteCorrect` |
| `LibraryProofs` | `FileOwnedCorrect`; `TemplatesWholeCorrect`: a template is written whole with every nested one in its place, and the program gets its input back; `ParamsWholeCorrect`: a request within the limit is read and every parameter becomes its fact; `OuterTemplateWholeCorrect`: no error of a goal ends the template around its own, if every goal is a term (`NoRaises`) |
| `JsonProofs` | `ReadBackCorrect`: what `to_json/2` writes of a term that was read is read as that term, and as nothing else; `JsonExactCorrect`: in addition, `from_json/2` reads exactly the texts that denote a term by JSON's grammar, and each as the one term it denotes |

Assumptions: only those named in the modules (`...Assumption`), which say that
lengths, times and bounds are naturals, that the switches are what they are, and
that NULL and the other marks are no handles, connections or addresses.  Hypotheses
of theorems are no assumptions of the modules, and the runs show that they are
needed: `~Shared` of all theorems about `PgSwi` (`pg_shared`), `"eintr" \notin Faults`
of `UsableCorrect` (`ws_signal`), `"close" \notin Handlers` of `CloseDetectedCorrect`
(`ws_swi_signal`), `NoRaises` of `OuterTemplateWholeCorrect` (`cgi_nested`), and that the server closes between its messages, the
first part of `CloseKept`, of `CloseCodeCorrect` and `StreamCorrect`
(`ws_close_inside`).  The other parts of `CloseKept` are that memory does not run out
while a close frame is collected (`"oom"`) and that such a frame is within the limit
of messages: where a part of it cannot be stored, what there was of the frame is
dropped, and the status reported may not be the server's.

None of the invariants is inductive as it stands; each proof module begins with its
strengthening.

**`WsCore`.**  `MessagesFaithful` says nothing of what is under way.  The
strengthening is `Inv` (at the end of `WsCore`):

* `WireInv`: frames in flight follow one another without a gap in the stream of
  messages and lead up to where the server is; a final fragment gives the length
  of its message.
* `KindInv`: fragments of a message are of one kind.
* `ReadInv`: the buffer holds exactly the bytes of the next message up to the
  place of the first frame in flight, or the server's place if there is none;
  and the kind noted is that of the message.  It is claimed only as long as more
  can be received (`Live`): after an error, or once a close frame has begun,
  the buffer may hold anything (`ws_close_inside`), and nothing is delivered.
* `StageInv`: a receive is in progress only on a usable connection that has not
  been closed, which is why the previous point suffices.

The proof follows the actions: `ServerType`-style lemmas for types
(`PartType`, `TakeType`, `ServerStepType`, `CallType`, `SendType`, `RecvType`);
`ControlSteps` for the actions that touch neither frames nor buffer; `GrowStep`
and `ServerSteps` for the server, which only appends; `ShrinkStep` and
`PartContinues` for what is left when libcurl has handed over a part; and one
lemma for each way a part is used (`PingStep`, `EndSteps`, `PartStep`,
`LastStep`).  `LastStep` is the heart: when the last part of a final fragment is
appended, buffer and part together are the whole message.

`OutputWellFormed` is strengthened to `OutInv`, which needs `StageInv` of `Inv`:
while a connection is usable and no send is in progress, the last frame is whole
and no close frame, so that a frame may be begun; and a program's own frame is no
close frame, so that the connection may stay usable behind it.  Every other end of
`ws_send_frame` leaves it unusable.  `EndIsFinal` follows from `StageInv` alone:
on an unusable connection no call is in progress.

`LimitExact` is strengthened to `LimitInv`: what is buffered is within the limit,
every frame in flight is of what the server has sent of its message (`SentSoFar`), and
a receive that was refused for its length has made the connection unusable.
`StaysUsable` becomes `StaysInv`: a close is answered only after it was reported, so
that a send which runs out of its time there adds no reason.  `CloseCodeFaithful`
becomes `CloseInv`: from the first part of a close frame on, the buffer holds the
bytes of that frame and no others, since no message is under way when it begins.  The
refinement of `WsStream` needs all of `Inv` and `CloseInv`: `RecvLast` is the stream's
delivery because the buffer is the next message, and `RecvCloseEnd` reports the close
behind the last message because nothing was sent after it.

**`CurlGet`.**  `LocalInv` is what a thread does by itself: what its call has
allocated at each step, and how much of a response it has (`MemInv`, `ResponseInv`).
`HandleInv` says that a live handle belongs to exactly one thread, as its cached one
or in its call.  `OptsInv` ties the options of a handle to the call that set them:
between calls a cached handle has none, because `release_handle` resets it, and this
is what `SentAsAsked` and `NoStalePointer` rest on.  A step of one thread leaves the
three parts of the others alone (`HandleExclusive` is what makes that true).

**`WsSwi` and `GpCurl`.**  `HeapInv` (`HandleInv` for the table) says which structure
belongs to which handle, that each connection has one handle, and that a connection
can be used exactly as long as a structure holds it.  `ToldInv` counts messages:
what was told of a handle is as long as what was taken of its connection.  `CallInv`
adds up the slices (`left + waited = asked`) and knows that a receive in progress has
a handle; `SignalInv` that a signal waits only while the core is waiting, and for a
slice at most.  In `GpCurl`, `PollInv` says that a `poll` that an int can limit ends
no later than the receive, and that as long as the receive has been quiet no time has
passed but in `poll`.  `CoreInv` says that the handle of a receive that has entered the
core has its connection, which only a handler can take away (`CloseDetectedCorrect`).  The
refinements map each action to the contract's step of
the same name or to none; what is not obvious are the steps in which a slice ends or a
handler runs (none), and those of the collector (`Collect`).

**`PgSwi`.**  `HeapInv`: a structure belongs to one handle, a connection is in one
structure, and an open one is in some structure.  `HeldInv`: a handle is in one
thread's terms; this is where `~Shared` is used, in the lemma `PassKeeps`.  `CallInv`:
the handle of a call is its thread's, and its connection is as far as the call is.
`DanglingInv`: a handle of a finished connection is being disconnected, so that one the
collector may release has an open connection or none.  `ResInv`: choice points and
results that are not cleared belong to one another, one to one.  The refinement needs
`GivenExact` besides: a handle was given for a connection of its own, and its structure
holds that connection or, once it is finished, none.  So what a program is told of a
handle (`Seen`) is what the contract says of the connection, also between `Finish` and
`Disconnected`, and a connection whose handle was lost (`ConnectLost`) is nobody's when
the collector closes it (`ReleaseSeen`).  Choice points map element by element
(`AppendSeen`, `BelowSeen`).

**`PgGp`.**  `HandlesExact` needs that a slot's connection was made once
(`GivenInv`) and `WithinTable` that the capacity never exceeds what `realloc` has
given (`RoomInv`).  The refinement uses the abstraction functions `GivenOf`,
`StateOf`, `ReplyOf` and `CursorsOf`; lemma `Seen` says what a program sees of a
handle, and each action has a lemma that names the contract's step it is.

**The buffer of `CurlGet`.**  `GetTypeOK` says that a body and the NUL behind it fit the
capacity that `growbuf_append` computes by doubling.  `CurlGetProofs` proves that the
loop ends for whatever size is needed (`LoopEnds`), because less is missing after each
turn, and that what it ends with is large enough (`RoomInv`).

**`CurlOptions`, `Regexp` and `PgArgs`.**  `OptInv` says how far a parser is: `Texted` is
the option up to which texts have been taken and `Settled` the one up to which settings
have.  These differ in GNU Prolog's `pl_curl_ws_open`, which counts and checks the whole
list before it copies (`GpCounts`, `CopiedTo`).  The request built is the one the list
asks for up to there (`KvBuilt`, `AuthBuilt`, `TextBuilt`, `SetBuilt`), with the places of
parameters and headers in order; one option more changes one of these or is refused.
`OwnedInv` says which copies a call has, and that they are the texts the
request refers to.  `OwnedAt` says what a call of `pl_regexp/3` owns at each of its steps;
`ListInv` how much of the list of matches is made.  `PaInv` says of each argument before
the current one where its text is (`Converted`): in a block of its own, in
Prolog's memory, or, for the query only, which is converted last, in the one shared
buffer.  `MemoryExact` is the conjunction of three properties; the three modules share
no state.  Each part names the calls that lose blocks, and the invariant ties every block
that is lost to such a call: for `CurlOptions` to the error raised while a list was copied,
and more copies than places to a second `user_agent` (of two for each header that was counted,
one for the URL and one for each `user_agent` the bound is `StrsRoom` if there is one); for
`Regexp` (`Lost`) and `PgArgs` (`Mislaid`) to the argument the call stopped at.  What these
theorems do not say, that no call loses anything and that every parameter is sent, is not
so: `gnu_asked` and `gnu_memory`.

**`TempFile`.**  `Owner` says from when to when a file is its caller's, and that no name
is another's before `mkstemp` took it.

**`CgiTemplates`.**  `TemplatesWhole` looks at the end of a call only.  `CtInv` says what
holds inside nested templates, as long as no error has escaped one: each has a stream of
its own, opened after those around it (`Apart`); the current input is the innermost
stream, and each template keeps the one it has to give back (`Link`); a template that has
begun a nested one has read past the part that names it; and what was written is, level by
level, what the parts read so far stand for (`Writing`).  `Written(p, f)[i]` is the text
of file *f* up to its part *i*.  The step that matters is the end of a nested template
(`EndsNested`, `WritesEnd`): it has written `Expanded` of its file, which is what the part
that named it stands for, so that the outer template goes on as if it had read a text.
If every goal is a term no error is ever noted in `escaped`, so that a template that has
ended was left by its own end alone (`OuterTemplateWholeCorrect`).

**`CgiRequest`.**  `ParamsWhole` looks at the end of a scan only.  The text is a
concatenation, so the proof first says where each parameter stands in it (`Laid`, from
`FlatteningBegins`: what has been put together stays a beginning of the whole).  `CqInv`
then says where the scan is (`Progress`): within a parameter that can be told apart, of
whose name or value it has read a beginning (`Within`); past the first that cannot
(`Beyond`), of which nothing more is claimed; or at the end (`AtEnd`).  Since neither
separator is in a name or a value, a scan that stops at one has read all of it
(`NameNext`, `ValueNext`), and the facts before it are those of the parameters before
(`FactAdded`).  `TakenIs` is the arithmetic of lengths and limit.

**`JsonGrammar` and `Json`.**  `JsInv` says only that the term and the text of the program
are what `Decode` and `Encode` give, and that a text is refused only if `Decode` gives
nothing; the proof is about these two, and about `Denotes`.

* What is read (`ReadIs`, `DecodeIs`): `JsRead` looks only behind the position it reads
  at, so there is one such function, and a term that is read at a position is nested no
  deeper than the rest of the text is long (`TermsFrom`).  Its leaves are `LeavesIn`: in GNU
  Prolog no integer out of range and no atom `[]`, and no float whose digits end on a zero.
* What is written (`ReadAs`): a text stands for a term if, wherever it stands in any text
  and a comma, a closing bracket or the end follows, exactly that term is read there, to
  its last code.  This is shown of literals (`LiteralWritten`), of strings character by
  character from the end (`EscapeRead`, `CharsRead`), of numbers (`SpelledRead`,
  `NumberWritten`: the digits that are written have the value they were made of, and
  what follows ends the number), of arrays and objects from the last item on (`RestsAre`,
  `BracketsWritten`), and so of every term, from the leaves up (`EncodeWritten`).
* A whole text that stands for a term is decoded as it (`DecodeWritten`).
* What is read is denoted (`Sound`), from the end of the text on: what the grammar reads at
  a place has been put together of what it reads further on.  The tokens are the base:
  `StringsAreDenoted` compares strings character by character, with their surrogate pairs
  and the bytes of UTF-8 written in two ways, `NumbersAreDenoted` numbers, where the code
  adds a fraction `.0` before an exponent and the reference does not.
* What is denoted is read, and nothing else (`Complete`): a grammar that never goes back
  can miss a way to divide the text.  It does not, because a value ends where the code
  that follows cannot go on with it (`EndsValue`): digits are read to their end
  (`NumbersOnly`), a string to its first quote that is not escaped, and what follows an
  item is a comma, a bracket or white space.  Hence a text denotes at most one term
  (`DecodeExact`).

It is true of the terms in `LeavesIn` only: of other leaves, the float of digits 10 and
exponent 0 would be read as the one of digits 1 and exponent 1, which is the same number,
and an atom `[]` as a list.

**Recursive functions.**  The prover takes a recursive function definition for an
equation that holds, even where no function satisfies it.  No proof here uses that: where a
recursive function occurs (`FlattenSeq` of the community modules, `Expanded`, the doubling
of `growbuf_append`, those of `JsonGrammar`: the characters of a string, the value and
the digits of a number, what is read and what is written, and those of `Json`: the characters
and the terms that are denoted), a lemma proves that a function
with the equation exists (`FlattenExists`, `ExpansionExists`, `LoopEnds`; `CharsExist`,
`ValueExists`, `ShortExists`, `DecimalExists`, `TermsExist`, `ReadExists`,
`EncodingsExist`; `CharsOfExist`, `DenotedExist`), and the equation is taken from `CHOOSE` and that
lemma.  The library's induction theorems take an operator as a parameter, which the
provers cannot instantiate; the induction these lemmas need is done on the *set* of the
numbers that have a property (`Induction`: a set of naturals that has 0 and with each
number the next has all; it rests on `WFMin`, that a set that is not empty has a least
element).

Model-checked only: liveness (`CallsReturn`, `EventuallyDelivered`), which the prover cannot
do.

## What is not modelled, and why

* Values of texts and numbers in options, wording of errors, conversion of cells.
  What they decide (an argument that is no text, an error before anything is done)
  is an input of the models.
* Message memory when GNU Prolog itself raises an error while a list of codes is
  made of it (`gp-curl-c.c`), and the time the collector spends in
  `pl_curl_ws_free` (`curl_core.c:810`).
* TLS, HTTP itself, DNS, PostgreSQL's protocol, the matching of regular expressions:
  libcurl's, libpq's and the C library's.
* `pl_encode/2` and `pl_decode/2` (`pgsql.pl`) call `sformat/3`, which neither Prolog
  has any more: what they compute cannot be read off the source.
* `json_print/1` and `json_from_file/2`; cookies, response headers and HTML escaping of
  `pl_cgi`; the rest of `stream.pl`, `string.pl`, `vector.pl` and `math.pl`: layout and
  sequential predicates without state, or floating-point arithmetic.
* Top levels, lists of predicates, build files.

## Plan

Done: the parts with the most interleavings (`WsCore`, `CurlGet`, `WsSwi`, `PgSwi`,
`PgGp`, `GpCurl`), the libraries around them, and proofs of every invariant, action
property and refinement that a passing run checks, but for liveness.  Of the nine disagreements five
have a theorem whose hypothesis says when they do not show, and three (`recv_int`,
`gnu_asked`, `gnu_memory`) one whose formula names the exceptions; `ws_flood` is about
liveness, out of the prover's reach.  What is left: a lower bound on what `ParamsWhole` says of a
request that says less than its length.
