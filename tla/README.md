# CatSurf: formal models

TLA+ models of CatSurf, the single-threaded, event-driven HTTP server of this
repository, with the TLC runs that check them and the TLAPS proofs about them.
Paths below are relative to the repository.

## 1. Inventory

One thread runs `Server::run`: wait for events, dispatch them one by one, close
drained clients, check timeouts. Nothing is persisted. Concurrency comes from
outside: the client at the other end of the socket, the CGI child at the other
end of three pipes, the clock, and SIGCHLD, which a self-pipe turns into an
event. What is hard is that an event of a batch may refer to something an
earlier event of the same batch has closed, and that the same cleanup is reached
from many handlers.

| Component | State | Operations | Interacts with | What makes it correct |
| --- | --- | --- | --- | --- |
| Event loop and connections, `src/server/server.cpp` | `clients` (one `ClientCon` each: parser, `response_out` and `sent`, `res_ready`, `keep_alive`, `close_after_send`, the CGI, upload and file-stream fields, `last_act`), the listening sockets, the signal pipe | `run`, `new_connection`, `read_client`, `process_request`, `client_write`, `finalize_response_write`, `close_client`, `close_drained_clients`, `check_timeouts` | poller, parser, router, CGI manager (mutual calls), uploads, static files, bot detection | one answer per request and in order; no output stranded without write interest; no next request before the end of the answer; every exchange ends |
| CGI manager, `src/cgi/cgiManager.cpp` | `processes`, `stdin_map`, `stderr_map`, `client_map`, `pid_map`; one `CgiProcess` each: pipes, stdin buffer, header buffer, `response_started`, `pause_stdout`, deadlines | `launch`, `handleEvent`, `feedStdin`, `finishStdin`, `handleChildExit`, `handleClientClose`, `notifyClientWritable`, `checkTimeouts`, `cleanupProcess`, `emitResponse`, `forwardBody`, `enforceBackpressure`, `shutdown` | writes the `ClientCon` directly, poller, child processes | maps, `cgi_active` and interest agree; output relayed whole and in order, or the connection closes; a paused process is resumed; the child never outlives its client |
| Poller, `src/poller/poller.cpp` | the interest set (in the kernel for epoll and kqueue) | `add`, `update`, `remove`, `wait` | every component | the three backends report the same readiness |
| HTTP parser, `src/httpRequest/httpRequest.cpp` | `buffer`, `state`, the parsed fields | `parseRequest`, `clear` | `read_client` | a request is parsed from its own bytes only, however they are split |
| Uploads, `server.cpp` 245-305 and 902-1083 | the upload file, `upload_bytes_remaining`, `chunk_buf`, the multipart buffer and state | `startUpload`, `processBody`, `processChunkedBody`, `parseMultipart`, `uploadComplete`, `resetUpload` | `read_client`, `close_client` | the file holds the body; an aborted upload leaves no file and no state |
| Static files, `server.cpp` 753-900 | `file_fd`, `file_bytes_remaining`, `file_buf` | `start_static_file_stream`, `write_static_file_chunk`, `reset_static_file_stream` | `client_write`, `close_client` | exactly Content-Length bytes or a closed connection; the descriptor is closed once |
| Router, `src/router/router.cpp` | none | `route` | configuration | longest matching location; script and PATH_INFO split |
| Request handler, responses, `src/httpResponse/` | none | `handle`, `buildResponse` | file system | - |
| Bot detection, `src/botDetection/` | sample history per fingerprint | `analyzeAndTrackRequest` | `process_request` | the history stays bounded; the rate rule counts the last minute |
| Captcha bypass, `src/captchaBypass/` | `token_store` | `hasValidBypass`, `createBypass` | `process_request` | bounded; a token serves its own fingerprint and only until it expires |
| Configuration, `src/configParser/` | the parsed configuration, constant after start | `parse`, grammar validation | everything | - |
| Utilities, `src/utils/` | none | strings, files | everything | - |

`poller/`, `src/poller/main.cpp` and `src/httpRequest/testMain.cpp` are not part
of the server (the Makefile does not build them).

The hazards, each at its line and with the properties that cover it or the
reason none does, are in `PROJECT.json`.

## 2. Plan

In order of importance:

1. **`CgiRelay`, `CgiExchange`, `CgiRelayProofs`, `CgiRelayRefines`** (done): one exchange between
   a client and a CGI, the part where most of the components meet.
2. **`StaticStream`, `KeptAlive`, `StaticStreamProofs`** (done): file streaming with short
   reads and writes and a file that changes, and what it promises the client.
3. **`BotGate`, `MCBotGate`, `BotGateProofs`** (done): the captcha store and the request history,
   two bounded stores, behind one gate.
4. **`ConnFraming`, `MCConnFraming`, `ConnFramingBody`, `ConnFramingProofs`** (done, but for pipelining): the parser, `read_client` and
   uploads over a stream of requests on one connection, in any cut between its parts;
   keep-alive, bodies in pieces, what `clear` keeps.
5. **`Bodies`** (not built): the chunk decoder and the multipart splitter over bytes, as
   functions checked against a reference definition for every cut.
6. **`CgiTable`, `MCCgiTable`, `CgiTableProofs`** (done): several processes and connections, with
   descriptors and process identifiers as values that are reused; pipelined
   launches, stale events, partial failure of `launch`.
7. **`Routing`, `MCRouting`, `RoutingProofs`** (done): the choice of the server
   block, the location and the file, the split of a script's URI, what answers,
   and what a DELETE removes.
8. **`Readiness`** (not built): the three poller backends against one abstract poller.

Theorems worth proving: the inductive invariant of each state machine with the
safety invariants it implies (done for 1, 2, 3, 4, 6 and 7), that `CgiRelay` implements
`CgiExchange` and `StaticStream` implements `KeptAlive` (done), that a pause holds (done),
and under which conditions the rules that the runs refute do hold (done for the rate
rule of section 10).

## 3. `CgiRelay`

One request that `process_request` has routed to a CGI, from `handleCgiRequest`
to the end of the exchange.

| Variable | In the code |
| --- | --- |
| `phase` | where `Server::run` is: in the handler of the request (`launch`), in `wait`, dispatching a `batch`, inside the read loop of stdout, in `close_drained_clients` (`drain`), in `check_timeouts` (`timers`) |
| `batch` | the events `poller->wait` returned and `run` has not come to yet |
| `conn` | the `ClientCon` and its interest (`rd`, `wr`) |
| `proc` | the `CgiProcess`, whether our pipe ends are open, `pause_stdout` |
| `script` | the child: its state, what it writes, its pipe ends and the contents of the pipes |
| `peer` | the client: what it has sent, `rcv` and `sock` (the socket buffers), fin or rst |
| `hist` | history: heads queued, their status, units handed to the socket, body dropped |

Each action is one handler call, or one turn of the loop that reads stdout
(because the script can write between two reads). Data is counted in units, one
per `read` or `recv`; a header block is one unit. `batch` is a set and `run` may
come to its members in any order, since the kernel orders them. Events are not
recomputed after `wait`: a handler can be called for something that is gone
(`DropStale`, and `ClientWrite` and `ReadClientGone` on a closed connection).
A timer is a flag that the clock sets at any time and that activity clears.

The script may do anything: write a head with or without Content-Length or a bad
one, write, read, close, exit with either status, or be silent for ever. The
client may send, receive, stop reading, close or reset.

`phase = "reparse"` is where request bytes reach the HTTP parser: the next
request, which belongs to `ConnFraming`.

`CgiExchange` is the promise to the client: at most one answer, either an error
page or the script's output; what is sent is a prefix of it; the connection is
read for the next request only after the whole of it, and is closed otherwise.
`CgiRelay` refines it under the mapping in `Exchange`.

### Properties

| Property | Says | Guards against |
| --- | --- | --- |
| `TypeOK` | types, capacities of pipes and socket | writing more than a pipe takes |
| `ActiveAgrees` | `cgi_active` holds exactly while the manager has the process | a path that forgets one side |
| `PausedIsResumed` | a paused process has output pending and write interest | a lost wakeup |
| `OutputIsPolled` | write interest and `res_ready` agree, and pending output has them | stranded output, a busy loop |
| `ReadsOffWhileRelaying` | no read interest after the head is out | a request read into a response |
| `NothingLost` | units are conserved between script, pipe, `response_out` and socket | an overwritten or repeated buffer |
| `PauseHolds` | a paused process adds nothing while its stdout is open | a pause that does not reach the poller |
| `KeepsPromise` | `CgiRelay` implements `CgiExchange` | two answers, gaps, early reuse |
| `ExchangeEnds` | under fairness every exchange ends | a stall that no timer ends |

### Runs

| Run | Bounds | Shows |
| --- | --- | --- |
| `relay_response` | 3 body units, pipe 2, socket 1, threshold 1, no request body | the whole response path: the pipe fills, the socket fills, `response_out` exceeds the threshold with output still to come, so that a pause, a resume and a second pause happen; deadlock is checked |
| `relay_exchange` | 1 request unit, 1 body unit, pipes and socket 1, threshold 0 | whole exchanges: bodies by length and chunked, malformed, while the script answers, exits or closes stdin, every end of it, and liveness |
| `relay_truncated_body` | as small as the behaviour needs | disagreement 1 of section 10 |

`CHECK_DEADLOCK FALSE` in `relay_exchange`: `reparse` is the end of what the
module models. `SigPipeIgnored` is TRUE in every run: the disposition is
inherited, and with the default one the server dies there (section 10) before
anything else can be examined. A request body of 2 units gives 2.7 million
states and the same verdicts; the safety properties are proved for every size.

### Fairness

`WF(Server)`: `run` never blocks for longer than `wait(1000)` and returns to
dispatch. `WF(ExpireConn)` and `WF(ExpireAbsolute)`: `time()` passes every
limit. Nothing is assumed of the script or of the client. No fairness on
`ExpireIdle`: activity may keep renewing it.

## 4. `StaticStream`

Requests for files, one after the other on one connection.

| Variable | In the code |
| --- | --- |
| `conn` | the `ClientCon`: `file_fd` (open or -1), `file_stream_active`, `remaining`, `len` and `off` (`file_bytes_remaining`, `file_buf_len`, `file_buf_off`), `out` and `sent` (`response_out`), and the interest `rd`, `wr` |
| `disk` | the file: its size now, and the offset of the descriptor |
| `fds` | how many descriptors on it the kernel has open |
| `peer` | the client: up, fin or rst, its next request, and the socket buffer |
| `hist` | history: the Content-Length announced, the units of the head still to be sent, the body units sent |

`StartStream` and `StartFails` are `read_client` and `process_request` as far as
`start_static_file_stream`; `SendHead` is `client_write` with `response_out` to
send; `SendBuffered`, `ReadAndSend`, `ReadFails` and `FinishEmpty` are the
branches of `write_static_file_chunk`. `read` returns any positive number of the units asked for, `send` takes
any number or none, and the file is resized between any two calls. A client that
closes with data unread resets the connection, and so does one that is sent data
after it has closed. A half-closed socket is taken for a closed one, and the
client sends its next request when it has the response: several requests on one
connection are section 6.

| Property | Says | Guards against |
| --- | --- | --- |
| `TypeOK` | types, `off <= len <= BufSize` | reading past what was announced |
| `Conserved` | announced = sent + buffered + still to be read; the buffer follows the sent part in the file | a unit skipped or sent twice after a short write |
| `Framed` | the connection is read again only after the head and exactly Content-Length units | a response cut short and the connection reused |
| `NoDescriptorLeak` | a descriptor is open exactly while a stream is active | a way out that forgets `close`, or closes twice |
| `StreamIsPolled` | an active stream has write interest only | a stream that waits for no event |
| `StreamEnds` | under fairness every stream ends | a client that holds a file for ever |
| `KeepsAlive` | `StaticStream` implements `KeptAlive` | a head cut short by one `send`, a request begun before the end of the last answer |

`KeptAlive` is the promise to the client: a request is begun once, the length of its
answer is fixed when it begins, every unit sent counts against it, the next request is
read when nothing is left of it, and an answer that cannot be completed ends with the
connection. `due` is mapped to the units of head and body not yet sent, from the
history and not from the counters of `ClientCon`, which are what may be wrong.

`stream` takes files of up to 5 units, a buffer of 3, a
head of 2 and a socket of 2: a file needs two reads, a full buffer two writes, and the head may
leave in two parts. Fairness is that of section 3, `WF(Server)` and
`WF(Expire)`. `CHECK_DEADLOCK FALSE`: nothing happens once the connection is
closed.

## 5. `BotGate`

`process_request` asks `hasValidBypass` first; only without a bypass is the
request tracked and judged, and a bot that posts the solved captcha gets a token.

| Variable | In the code |
| --- | --- |
| `now` | the clock, seconds and milliseconds alike |
| `store` | `token_store`: token to fingerprint and `last_seen` |
| `samples` | `bot_request_history` |
| `last` | the last answer, with `requests_per_minute` |
| `log`, `earned` | history: all requests ever tracked; when a client last earned or used a bypass |

`Bypass` is a request with a valid token, `Judge` any other request, `Solve` the
captcha form. The scores from intervals and missing assets are floating point;
the model lets any request be found suspicious, so nothing proved here depends
on them. The cookie is a token or none; any client may carry any token. A new
token is one not in use (of 2^64 - 1). One handler reads the clock once, and
the clock does not go back. `OTHER` counts as a document, as in the rate rule.

| Property | Says | Guards against |
| --- | --- | --- |
| `TypeOK` | types, at most `MaxSamples` samples | a history that grows |
| `StoreBounded` | at most `max_entries` tokens | an off-by-one in the eviction |
| `OldestLeaves` | a token leaves expired, or used longest ago | dropping a token in use |
| `BypassIsEarned` | a bypass follows the client's own captcha or use within the time to live | another client's token, an expired one |
| `HistoryIsRecent` | the history is the end of what was sent; the rest is old or made room | trimming the wrong end, or too much |

`bot` has two clients with four requests in four instants, three tokens for a
store of two with a time to live of one, and two samples with a retention of
one: expiry and eviction both happen, and so do both trims, also one after the
other. Tokens and clients are
interchangeable (symmetry). `CHECK_DEADLOCK FALSE`: a run stops at its last
instant when no client may send more.

## 6. `ConnFraming`

Several requests of one client on one connection: what of the bytes that have
arrived `read_client` takes for which request, and which answer it sends.

| Variable | In the code |
| --- | --- |
| `ask` | the kind of each request, chosen at the start: a page without a body (`get`), with one (`post`), with one that is too large (`big`), an upload by length, multipart with one part (`multi`) or three (`parts`), or chunked, and heads that do not parse or do not end |
| `peer` | the client: the next request and part of it to be sent, and whether it has left |
| `rcv` | the socket's receive buffer |
| `server` | the `ClientCon` with its `HttpRequest` (`state`, `buffer`, `body`, `content_type`, `multipart` for its `MPFlag`), its upload (`upload_active`, `MPFlag`, `chunked`, `remaining`, `chunk_buf`, `mp_buf`, `mp_state`, `file`, `path`), the queued answer (`out`), and the upload directory (`disk`) |
| `answers` | history: the answers sent |

A token stands for the bytes of a part of a request: the line, the rest of the
head, a unit of body. `recv` returns any non-empty part of what has arrived, but
does not cut a token: half a line waits in `buffer` as half a head does. `SizeMax`
stands for 2^64.

Bodies are what the client likes. Those of the kinds in `Lines` hold line ends, and of
these the ones in `Nested` read like a request for a page; the others hold no line end
and join the line that follows them, which then does not parse. So a body that is
left unread (of a page, of what is refused, of an upload that fails) becomes a
request line, or the beginning of one, or something that is refused
(`EndsLine`, `IsLine`, `IsHead`); number 0 is the request found in a body.

The body of a multipart upload is a boundary, the header of a part, its content, and
after the last boundary two dashes and a line end, each a token: reads end before and
after a boundary and before its dashes, not in the boundary itself, so the arithmetic of the
guard of `server.cpp:1002` is reduced to "all but the last token is written". `PartHeader`
is what comes before the content and stays in `MP_HEADER` until it is whole;
`PartEnd`, `PartNext` and `PartGuard` are the three ways through the content. `PartNext`, a
boundary without dashes behind it, writes the line end and the dashes before it to the
file (`rule`), takes two bytes off it (`stub`), so that it is not found again, and goes back to
`MP_BOUNDARY`. A part whose header is found then is opened on the stream of the first
(`bad`), under a path that is the two names together (`NoPath`). That takes the boundary after
the one that was shortened, hence the three parts of `parts`.

`ReadClient` is one call of `read_client` that has received something: the bytes of an
upload under way (`ReadUpload`), then those after them (`ReadRequest`). Each
function under it is one function of the code and maps the `ClientCon` before to
the one after. `opens` and `works` are the outcomes of opening and of writing a
file, `keepAlive` what the request's version and headers ask for. Answers leave
whole (section 4 has the partial writes). The client waits for an answer, any
answer, before its next request.

| Property | Says | Guards against |
| --- | --- | --- |
| `TypeOK` | types, counters stay in `size_t` | a counter that leaves its range |
| `NoMisdelivery` | the nth answer, if a success, is that of the nth request, until `Strays` | bytes of one request parsed as another |
| `NoStall` | while the client waits, the server has bytes to read, an answer to send, or has closed, but for `MultipartWaits` and after `Strays` | an upload that came with its head and is not completed |
| `UploadsWhole` | a success to an upload by length, or multipart with one part, means a file with its content and nothing else, and no other file of them is left, until `Strays` | a body cut short, bytes of a boundary in a file, a file left by a failed write or a lost client |
| `OneAnswerEach` | no request is answered twice | the body of an upload taken for a request |
| `EachAnswered` | under fairness a request sent whole is answered or the connection closed | a connection that is not read again |

| Run | Bounds | Shows |
| --- | --- | --- |
| `framing_answers` | 2 requests of all 10 kinds and a third for a page or an upload (`MCLast`); the files of uploads may fail (`Failing`), the bodies of `post`, `upload` and `badhead` read like requests | all orders of two kinds on one connection, and what they leave behind meets the third, which follows an error or a failure in the middle of a body |
| `framing_one_each` | 3 requests of 2 kinds; the bodies of uploads read like requests | one answer each, and liveness, for requests without a body or uploads by length |
| `framing_chunked` | as small as the behaviour needs | disagreement 3 of section 10 |

`Strays` says when the code loses its place, and no property here speaks of what follows:
after a body like a request that was left unread, and after a multipart upload that was not
answered with a success. `MultipartWaits` is the stall that the code has: an upload under
way of which a boundary was taken for one that another part follows, or whose file has
failed. Section 10 has both. `post` and `big` go the same way but for the answer; the run has
one with bodies like requests and one without. It passes with their roles exchanged too, and
with line ends in all bodies and no requests (no runs are kept).

`OneAnswerEach` fails for `post`, for chunked uploads whose head comes alone and for
failed uploads (section 10), hence its own run.

`WF(Server)` is that of section 3; the clock and the client are free.
`CHECK_DEADLOCK FALSE`: nothing happens once the connection is closed.

## 7. `Routing`

One request, from its head to what answers it: `findServer` chooses the server
block (`Init`), and `Process` is `process_request`: the route, the body limit and
the bot gate (`Gate`), and then a stream, a script, an upload, or
`RequestHandler::handle`, which answers by itself and, in `deleteFile`, changes
the file system. Paths are sequences of segments, so that `normalizePath` is a
fold and a prefix at a segment boundary is `IsPrefix`; the last segment of a path
that ends with a slash is empty. The one thing this hides is
`uri.find(loc->path) == 0` in `mapURI`, which also holds in the middle of a
segment: no name of a run is the beginning of another. A file or directory of a
listing may be unreadable; the limit and the gate are a choice here (the gate is
`BotGate`).

| Property | Says | Guards against |
| --- | --- | --- |
| `TypeOK` | types; normalised paths have no dots | `..` left in a path |
| `MostSpecific` | the block listens where the request came in and answers for its host; every location of it that contains the URI contains the one chosen | order of the configuration, trailing slashes |
| `BelowRoot` | what answers exists and is below the root of its location | `..` across the root or the location's path |
| `SplitsURI` | SCRIPT_NAME and PATH_INFO are the URI, split at its last script | a segment lost or repeated |
| `NameLeadsBack` | a request for SCRIPT_NAME is routed to the same script | a name derived with another location |
| `RemovesOneUpload` | a DELETE takes one entry of the upload directory of a location that allows it, nothing below it, and is answered 204 exactly then | a file of another directory, a whole directory, a 204 for nothing |

`routing` takes GET, POST and DELETE of all URIs of up to 4 segments over six
names, `.`, `..` and the empty one, two addresses and three hosts, three server
blocks (nested locations with their own roots, trailing slashes, a redirect, an
upload directory that has a directory in it, a missing interpreter, listings, a
script as index, a block for any host) and 6 file systems. Four segments are a
location of two, a script and PATH_INFO. `NameLeadsBack` is about URIs without dots or
empty segments: for the others the location is chosen by the raw URI and
SCRIPT_NAME is normalised. It needs `NamesKeepLocation`, which says of a configuration
that the names of its scripts do not change the location: the path of a location that
runs scripts does not go through one, and where a location's path ends in the name of a
script or in a slash, the path above it is not that of a location that runs scripts.
`MCRouting` assumes it of its configuration, and TLC evaluates that. `CHECK_DEADLOCK FALSE`: one request.

## 8. `CgiTable`

Sections 3 to 6 look at one connection. Here there are several, with their
scripts, and the question is whether the tables that name them stay true while
the kernel hands out the same numbers again.

| Variable | In the code |
| --- | --- |
| `open` | kernel: what each descriptor refers to; a new one is the lowest free one |
| `poll` | the interest registered with the poller, `off` when there is none |
| `conn` | `Server::clients`: the descriptor, `cgi_active`, and `out` for `res_ready` |
| `processes`, `stdin_map`, `stderr_map`, `client_map`, `pid_map` | the maps of `CgiManager`, as sets of pairs |
| `proc` | the `CgiProcess` objects |
| `kid` | kernel: the children, with the sockets they inherited at the fork |
| `sig` | whether the signal pipe holds a byte |
| `peer` | the clients |
| `phase`, `batch` | as in section 3 |

`Server::run` comes to the events of a batch in any order, and every handler is
an action: `NewConnection` accepts all that knock, `ReadNothing`, `ReadPage`,
`ReadPipesFail` and `Launch` are `read_client`, `WriteActive`, `WriteLast` and
`WriteCloses` are `client_write`, `StdoutOutput`, `StdoutInvalid`, `StdoutEnd`,
`HandleStdin` and `HandleStderr` are `CgiManager::handleEvent`, `HandleSignal` is
`reap_children`. `AcceptFails` is the `accept` that has no descriptor: it throws
out of `run`. `Cleanup` and `CloseClient` are `cleanupProcess` and `close_client`
with what they do to all five maps.

What is simplified: a script that runs keeps its stderr open and writes nothing
to it; clients and scripts act before `wait` returns, so what they do during a
batch is in the next one; a batch holds every event that is due (the code takes
64 at a time); a request comes with its body.

| Property | Says | Guards against |
| --- | --- | --- |
| `TypeOK` | types | an interest that is neither read nor write |
| `TablesAgree` | the maps, the process objects, `cgi_active` and the connections say the same | an entry that outlives its descriptor and is found again under its next owner |
| `DescriptorsOwned` | an open descriptor is that of the connection or process that has its number, and is polled as it should be | a leak, a double close that hits another's descriptor, a poll after the close |
| `NoOrphan` | a child without a process object is dying or dead | a child that ignores SIGTERM, a launch that is overwritten |
| `ZombiesAnnounced` | children that have ended are announced until they are reaped | one byte in the pipe for several exits |
| `SignalsByHolder` | a script is signalled only by the end of its own process object, or of one that keeps its identifier from a child that was reaped | a signal to the script of somebody else, but for that case |
| `ClosesOwnScript` | a connection that ends leaves the scripts of others alone | `client_map` read by a descriptor that was reused |

| Run | Bounds | Shows |
| --- | --- | --- |
| `table` | 2 clients, 2 scripts, 2 identifiers, 12 descriptors | two scripts of two clients in every order of the batch, with their descriptors reused by the other one; 12 descriptors are 2 more than two connections and the pipes of one script, so that `launch` fails for want of them, leaks the pipes it has made, and at last `accept` fails |
| `table_stale` | 3 clients, 1 script, 11 descriptors | disagreement 4 of section 10 |

Clients, processes and identifiers are interchangeable (symmetry); descriptors
are not, since the lowest is taken. Identifiers are reused as soon as their child is
reaped. `Pipelined` is FALSE in both runs: section 10 says what happens otherwise. `ChildrenReaped` and `EndIsSeen`
hold under `FairSpec` (without symmetry; 1 client, 2 scripts, 2 identifiers, 10
descriptors); no run is kept. `WF(Server)` is that of section 3, `SF(TimeoutProc)`
says that the deadline of a script is looked at once every turn, and the last
conjunct that SIGKILL ends a child. `CHECK_DEADLOCK FALSE`: nothing happens once
the server is down.

## 9. Proofs

`CgiRelayProofs` proves, for every body size, threshold and capacity,
`Spec => []P` for `TypeOK`, `ActiveAgrees`, `PausedIsResumed`, `OutputIsPolled`,
`ReadsOffWhileRelaying`, `NothingLost` and `PauseHolds`. The only assumption is
`RelayAssumption`, the types of the constants.

None of them is inductive alone. `NothingLost` needs that an error page is
queued only when nothing was relayed (`Answered`, `Unread`); `PausedIsResumed`
needs that output, `res_ready` and write interest go together in every handler
(`Polled`), and that a live process has an open client (`Linked`); those need
`sent` to be 0 when `response_out` is replaced. `RelayInv` is their conjunction,
with `Finished` and `Reopened` (when a connection may be read again) for the
refinement. `PauseHolds` has an invariant of its own, `PauseInv`: stdout is in the batch only if
it was not paused when the batch began, or the script has closed it since; and
only `enforceBackpressure`, at the end of that dispatch, pauses. The proof has one
lemma per action; `IsCleaned` and the other
`...Facts` lemmas state once what `cleanupProcess`, `close_client` and the
interest updates do to a record.

`CgiRelayRefines` proves `Spec => KeepsPromise`, that `CgiRelay` implements
`CgiExchange` for every value of the constants. `StepFacts` says of one step
only what the abstract variables depend on (the script's output, the history,
the link) and is proved handler by handler; the abstract step follows from it
and `RelayInv` before and after.

`StaticStreamProofs` proves `Spec => []P` for `TypeOK`, `Conserved`, `Framed`,
`NoDescriptorLeak` and `StreamIsPolled`, for every size of file, buffer, head
and socket, from `StreamAssumption` alone. `Framed` is not inductive: a response
ends through `finalize_response_write`, which looks at none of the counters. `StreamInv`
adds that outside a stream everything announced has been sent, that `file_fd` and
`file_stream_active` go together, that a connection being read has nothing
to send, and that what is left of a head is in `response_out`. One lemma per handler;
`CloseKeeps` and `FinalizeKeeps` state once what the two common ends preserve.

It also proves `Spec => KeepsAlive`. A handler of a connection that answers is a `Send`,
a `Finish`, a `Close` or a stutter of `KeptAlive`, and which one depends only on the
link afterwards and on whether `due` has become less (`AnswerStep`); that `due` is 0
when the link is `"reading"` again is `Framed` of the state after.

`CgiTableProofs` proves every property of the run `table`, for any number of
clients, scripts, identifiers and descriptors. Three invariants, none of which
needs another but for types:

- `SignalInv`, types with `ZombiesAnnounced`, is inductive as it stands: only
  `Exit` makes a child dead, and `HandleSignal` leaves none.
- `KidInv` gives `NoOrphan` and `SignalsByHolder`. It adds that `pid_map` names an
  object by the identifier it has, and that a running child is that of a process
  object. `KillKeepsKids` shows once what the end of any set of objects signals.
- `WireInv` gives `TablesAgree`, `DescriptorsOwned` and `ClosesOwnScript`, if
  `Pipelined = FALSE`. It says pointwise what the maps hold (`Mapped`), what is
  behind the descriptors of an object or a client (`ProcWired`, `PeerWired`) and,
  the other way round, whose a descriptor is (`OwnedFd`); and that a client whose
  request is read has no script. `EndKeepsWired` shows once that the end of any
  set of objects and connections keeps it; `cleanupProcess`, `close_client` and
  what reaches them are instances (`EndsWith`). `StartKeepsWired` is `launch`: the
  ends of the pipes were free, so nobody's.

The assumptions are `TableAssumption`, the types of the constants, and that
hypothesis, without which TLC finds the properties violated (section 10).

`BotGateProofs` proves every property of the run `bot`, for any number of clients
and tokens and every limit, from `GateAssumption` (among it that there are more
tokens than entries). `StoreInv` adds what `BypassIsEarned` needs: each token in
the store was last used no later than its client last passed. `OldestLeaves` needs
`StoreBounded`: a token is evicted only from a full store, and if one of a full
store had expired the new token could take its name. `HistoryIsRecent` is not
inductive: a history that is full now may be trimmed by age later, and then what
was dropped to make room must be old too; `Kept` adds that requests are in the
order of their times. `TrimmedFacts` says what `trimRequestHistory` returns.

Two more theorems say when the rate rule of section 10 holds. `RateStaysExact`: if the
retention is at least a minute (it is ten), the count is that of the last minute,
or the history is full of requests of the last minute; it is never too high, so
no client within the limit is hit by the rule. `PagesStayLimited`: if the history also
holds more than the limit (120 and 60), a client that asks for pages only never gets
one above the limit; a full history counts as `MaxSamples`. TLC refutes each
without its hypotheses. `RateOfKept` compares the two counts by an injection.

`RoutingProofs` proves `TypeOK`, `MostSpecific`, `BelowRoot`, `SplitsURI` and
`RemovesOneUpload`, for every configuration, file system and URI, from
`RoutingAssumption`, and `NameLeadsBack` for every configuration with
`NamesKeepLocation` (section 7). The proofs follow the request. `ServerAnswers`: `findServer`
gives a block that answers. `LongestIsChosen`: of two locations that contain a URI
the longer is within the other, so the longest is within all. `NormalizedType`: what
is left of a path has no dots; `Normalized` is a fold, and the lemma is an
induction over it, by the least number that a set does not have (`AllNumbers`).
`CutFacts` and `MissingFine`: the script that ends last, and the two parts of the
URI. `RouteFine` collects this for what the router says, and `RouteInv` keeps it.
`BelowRoot` is about the file system after the step, so it needs that a DELETE is
never routed as a file. `RemovesOneUpload` needs that "UPLOAD" comes only from a
location that allows the method and has an upload directory (`UploadRoute`), and
that nothing is below a file.

`NameLeadsBack` compares two routes. SCRIPT_NAME is a beginning of the URI, normalised, or
one with the name of an index; normalising a path that is normalised changes nothing
(`NormalizedOnce`, an induction again). The lemmas follow the second route: the same
location is chosen for the cut URI (`CutKeepsLocation`, `StillMatches`,
`IndexKeepsLocation`), `mapURI` gives the same file (`MapNames`, `MapOneMore`), and a file
with the name of a script ends the second search where the first ended (`EndsThere`).
Without any of the three parts of `NamesKeepLocation` (a script's name within a path, one
at its end, a slash at its end) TLC finds a configuration for which `NameLeadsBack` is
false.

`ConnFramingBody` and `ConnFramingProofs` prove every invariant of the runs
`framing_answers` and `framing_one_each`, for any number of requests of any kinds in
any order, cut by `recv` between any two tokens. `TypeOK` holds from `FramingAssumption` alone,
for all kinds. The others are for clients that send no multipart body (`Kinds \cap
MultipartKinds = {}`): what `parseMultipart` does is model-checked only. `UploadsWhole` also needs
`Nested \subseteq {"upload"} \ Failing` (it says something of every file on the disk, so no
request may come from a body), `OneAnswerEach` the kinds of its run and `Failing = {}`.

None is inductive: whether the next answer is the right one depends on every byte
that is anywhere in the `ClientCon` or the socket. `FrameInv` says, after `a` answers
and with `q` arrived, in which of six modes the connection is. In three of them
(`Idle`, `Heads`, `Plain`) it has read request `a + 1` up to some part and `q`
is that request from there on, as far as the client has sent it (`At`). In the others
something is left of a request that was answered: a chunk in the parser's buffer
(`Chunk`), an upload whose file is gone (`Zombie`), a body no one has read (`Doomed`).
Those hold because no request line is at the beginning of what is left, so the parser
refuses it as soon as a line of it ends and can never answer a success from it
(`NoLineRead`), and because the end of a line is there if the client waits (`Heard`),
so nothing stalls. With an answer queued, the mode is that of the connection after
`clear()`, one answer later (`Queued`). A refused body that reads like a request ends all
this: `Lost` says that it is behind one of the answers, or will be behind the one queued (`Off`), and is
never undone. Beside the mode, `Files` says what is on the disk.

The proof has one lemma per mode for `ReadClient` (`IdleRead`, `HeadsRead`, `PlainRead`
and so on; the first two go through the head, the body and `startUpload` by kind of
request), and one per other action (`CloseStep`, `WriteStep`, `SendStep`).
`ConnFramingBody` has the types and the modes with an upload or with leftovers,
`ConnFramingProofs` the rest.

Model-checked only: the liveness properties `ExchangeEnds`, `StreamEnds` and
`EachAnswered`, which are out of the prover's reach (fairness, `ENABLED`), and the four
disagreements of section 10, which are counterexamples.

## 10. Where the code and its documents disagree

1. `relay_truncated_body`: the script's stdin is closed as soon as its buffer is
   empty, though more of the body is to come; the rest is dropped.
2. `bot_rate`: the rate rule counts pages in a history of 120 requests of any
   kind, so assets push pages out of it and a client above the limit is not seen. It
   holds for clients that ask for pages only (`PagesStayLimited`, section 9).
3. `framing_chunked`: a chunked upload whose head comes alone is completed at
   once, with an empty file.
4. `table_stale`: an event of a batch for a pipe that was closed earlier in it is
   read as one of a connection that has got the descriptor since; `recv` has
   nothing, which `receive_data` calls "No data available" and `read_client` takes
   for the end of the connection.

The models show further behaviour that a reader of the documents would not
expect. No run is kept for it; the bounds at which TLC finds it are:

- `KeptAliveWithoutLength` of `CgiRelay` (`ReqMax = 0`, `RespMax = 1`, `Threshold
  = 0`, capacities 1): there is no chunked fallback; a response without
  Content-Length ends the connection.
- `OneAnswerEach` of `ConnFraming` (two of `{"get", "post"}`): a request with a
  body for a page is answered before the body has come, and the rest of the body
  is parsed as the next request (`server.cpp:412`). If it reads like one (`Nested`), it
  is answered 200, and the answers to all later requests come one late: `NoMisdelivery`
  without `Strays` fails (two of `{"post"}`). The same goes for a body that is too
  large (`big`) and for what is left of an upload whose write has failed.
- `NoStall` of `ConnFraming` without `MultipartWaits` (`N = 1`, `Kinds = {"multi"}`): if a read
  ends after the last boundary and before its closing dashes, `parseMultipart` takes it
  for one that another part follows, writes its line end and dashes to the file, goes back to
  `MP_BOUNDARY` and never comes to `MP_END` (`server.cpp:991`): the client waits until the timeout,
  and the file is removed with the connection.
- Several parts (`UploadsWhole` with `parts` in `ByLength`, `N = 1`): if the last boundary is in the
  buffer with the others, they and the other parts are stored as content of the first, with a 201.
  If a read ends between the parts, the shortened boundary hides the next part, and the
  upload waits as above or the one after it opens an open stream under both names
  (`server.cpp:1018`), which fails: the answer is a 500, and the file of the first part stays.
- `NoMisdelivery` without `Strays` also fails after multipart uploads (`N = 3`, `Kinds = Failing
  \cup {"get"}`, `Failing = {"multi"}`): the errors of `parseMultipart` are not passed on, further
  reads are answered 500 each, and the client, an answer ahead, gets its next success late.
- `BadGatewayMeansNoHeaders` of `CgiRelay` (the same bounds): a script
  that wrote valid headers and then failed gets its output or a 502, depending on
  which of SIGCHLD and its stdout is handled first (`cgiManager.cpp:543`).
- `ServerSurvives` of `CgiRelay` (`ReqMax = 1`, `RespMax = 0`, `SigPipeIgnored =
  FALSE`): writing the body to a script that has gone raises SIGPIPE, which
  nothing ignores (`cgiManager.cpp:466`).
- `ServerSurvives` of `ConnFraming` (`Kinds = {"huge"}`): the error for a head
  longer than `MAX_HEADER_SIZE` is thrown outside the `try` of `parseRequest`
  (`httpRequest.cpp:423`) and leaves `Server::run`.
- `UploadsAccepted` of `ConnFraming` (two of `{"upload", "multi"}`): after a
  multipart upload a plain one on the same connection is refused, because
  `clear` keeps `MPFlag` (`httpRequest.cpp:132`).
- `OneAnswerEach` of `ConnFraming` (two of `{"get", "upload"}`, `Failing =
  {"upload"}`): after a failed write an upload stays active, and every further
  part of its body is answered with another 500 (`server.cpp:257`).
- `TablesAgree` of `CgiTable` (`Pipelined = TRUE`, 2 clients, scripts and
  identifiers, 10 descriptors): the request for a script that follows another one
  at once overwrites its entry in `client_map` (`cgiManager.cpp:350`).
- `SignalsByHolder` of `CgiTable` without its second case, `~Running(l)` (`table`
  bounds): a process keeps `pid` after its child was reaped, and `cleanupProcess`
  signals whatever child has the identifier by then (`cgiManager.cpp:698`). The kernel has to
  come round to the number within the deadline of the script.
- `CutIsSeen` of `CgiTable` (2 clients, 10 descriptors): sockets are not closed on
  `exec`, so a connection that was closed to mark the end of a response stays open
  for its client until the scripts forked meanwhile have ended.
- `AcceptFails` of `CgiTable`: the last free descriptor goes to a client, the next
  `accept` of the loop fails with EMFILE, and the server ends
  (`server.cpp:155`).
- `RemovesOneUpload` of `Routing` says "entry" because `remove()` also takes an empty
  directory of the upload directory, with a 204 (`requesthandler.cpp:121`). The
  name is the last segment of the URI: with `upload_path` other than `root`, or a
  longer URI, what DELETE removes is not what GET of the same URI shows.
- A DELETE that a location without `upload_path` allows is routed like a GET: a
  page is answered 200 with its content and stays (`ServeFile` of `Routing`); the
  405 of `requesthandler.cpp:102` is for this case but not reached.
- `FindServer` of `Routing`: a block without `server_name` has the name `_`
  (`configParser.hpp:42`), which matches any host, so it hides the blocks for the
  same address that come after it, whatever their names (`server.cpp:618`).
- `docs/CGI.md:16` has a short wait between SIGTERM and SIGKILL;
  `cleanupProcess` does not wait (`Signalled`).

## 11. Not modelled

Text (header parsing and formatting, environment, log lines), symbolic links and
special files, configuration parsing; items 5 and 8 of section 2 (the three poller
backends do not promise the same: kqueue's `update` fails for a filter that was
never added, `src/poller/poller.cpp:196`, and select reports no hang-up without
interest), and pipelined requests but for those of section 8. `components` in `PROJECT.json` lists each part.

## 12. Running

    tlc -workers 2 -config relay_response.cfg CgiRelay
    tlapm CgiRelayProofs.tla
    tlapm CgiRelayRefines.tla
    tlapm StaticStreamProofs.tla
    tlapm CgiTableProofs.tla
    tlapm BotGateProofs.tla
    tlapm RoutingProofs.tla
    tlapm ConnFramingBody.tla
    tlapm ConnFramingProofs.tla
    tlc -workers 2 -config bot.cfg MCBotGate
    tlc -workers 2 -config framing_answers.cfg MCConnFraming
    tlc -workers 2 -config routing.cfg MCRouting
    tlc -workers 2 -config table.cfg MCCgiTable
