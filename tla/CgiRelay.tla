------------------------------ MODULE CgiRelay ------------------------------
(***************************************************************************)
(* One CGI exchange on one connection: the request body streamed into the  *)
(* script's stdin, the script's stdout relayed to the client under         *)
(* backpressure, and the ways it can end (end of output, script exit,      *)
(* client gone, timeout).  It composes the CGI manager                     *)
(* (src/cgi/cgiManager.cpp) with the event loop and the client handlers    *)
(* (src/server/server.cpp) over a level-triggered epoll.                   *)
(*                                                                         *)
(* A "unit" is what one read() or recv() returns.  A script's header block *)
(* is one unit, then come the body units.  A chunked request ends with one *)
(* more unit, the terminating chunk (or a malformed one).  A timer is a    *)
(* Boolean: has the time since it was last touched exceeded its limit.     *)
(***************************************************************************)
EXTENDS Naturals

CONSTANTS ReqMax,          \* largest request body, in units
          RespMax,         \* largest response body, in units
          Threshold,       \* kBackpressureThreshold, in units
          OutCap, InCap,   \* capacities of the stdout and stdin pipes
          SockCap,         \* capacity of the client's socket send buffer
          SigPipeIgnored   \* does the server's parent leave SIGPIPE ignored?

ASSUME RelayAssumption ==
    /\ ReqMax \in Nat
    /\ RespMax \in Nat
    /\ Threshold \in Nat
    /\ OutCap \in Nat \ {0}
    /\ InCap \in Nat \ {0}
    /\ SockCap \in Nat \ {0}
    /\ SigPipeIgnored \in BOOLEAN

VARIABLES
    phase,    \* where Server::run is: see Phases
    batch,    \* the events of the last poller->wait not yet dispatched
    conn,     \* the ClientCon and its poller interest (rd, wr)
    proc,     \* the CgiProcess and its poller interest (paused)
    script,   \* the child process and the three pipes
    peer,     \* the HTTP client and the two socket buffers
    hist      \* history: heads queued, their status, units sent, body dropped

vars == <<phase, batch, conn, proc, script, peer, hist>>

Phases == {"launch", "wait", "batch", "stdout", "drain", "timers",
           "dead",      \* killed by SIGPIPE
           "reparse"}   \* request bytes reached the request parser: the next
                        \* exchange, outside this module
Tags == {"readable", "writable",          \* the client's socket
         "stdout", "stdin", "stderr", "signal"}

ConnType ==
    [open: BOOLEAN, rd: BOOLEAN, wr: BOOLEAN, out: Nat, sent: Nat,
     res_ready: BOOLEAN, keep_alive: BOOLEAN, close_after_send: BOOLEAN,
     cgi_active: BOOLEAN, cgi_streaming: BOOLEAN, remaining: Nat,
     cleared: BOOLEAN,   \* HttpRequest is back at REQUEST_LINE
     expired: BOOLEAN]   \* now - last_act > timeout
ProcType ==
    [live: BOOLEAN,      \* in the manager's maps
     stdin: BOOLEAN, stdout: BOOLEAN, stderr: BOOLEAN,   \* our ends are open
     buf: Nat,           \* stdin_buffer.size() - stdin_offset
     started: BOOLEAN,   \* headers_complete = response_started
     has_length: BOOLEAN, paused: BOOLEAN, reaped: BOOLEAN,
     idle_expired: BOOLEAN, abs_expired: BOOLEAN]
ScriptType ==
    [run: {"none", "up", "zombie", "reaped", "killed"}, failed: BOOLEAN,
     head: {"length", "nolength", "invalid"},   \* the header block it writes
     wrote: BOOLEAN,                            \* has it written the block
     left: Nat,                                 \* body units it may still write
     stdout: BOOLEAN, stdin: BOOLEAN,           \* its ends are open
     out: Nat, in: Nat]                         \* units in the two pipes
PeerType ==
    [state: {"up", "fin", "rst"}, total: Nat, unsent: Nat, rcv: Nat,
     chunked: BOOLEAN, malformed: BOOLEAN, sock: Nat]
Statuses == {0, 200, 400, 502, 504}   \* 0: none yet
HistType == [heads: Nat, status: Statuses, sent: Nat, dropped: Nat]

TypeOK ==
    /\ phase \in Phases
    /\ batch \in SUBSET Tags
    /\ conn \in ConnType
    /\ proc \in ProcType
    /\ script \in ScriptType
    /\ peer \in PeerType
    /\ hist \in HistType
    /\ peer.unsent <= peer.total /\ (peer.chunked => peer.total > 0)
    /\ script.in <= InCap /\ peer.sock <= SockCap

Greater(a, b) == IF a <= b THEN b ELSE a   \* mutant of Lesser
Lesser(a, b) == IF a <= b THEN a ELSE b

-----------------------------------------------------------------------------
(* The connection, as the handlers see it *)

\* poller->update(fd, r, w)
Interest(c, r, w) == [c EXCEPT !.rd = r, !.wr = w]

\* What erasing the ClientCon and closing its socket leaves.
Closed == [open |-> FALSE, rd |-> FALSE, wr |-> FALSE, out |-> 0, sent |-> 0,
           res_ready |-> FALSE, keep_alive |-> FALSE, close_after_send |-> FALSE,
           cgi_active |-> FALSE, cgi_streaming |-> FALSE, remaining |-> 0,
           cleared |-> TRUE, expired |-> FALSE]

\* An error page replaces response_out; sent is left as it is.
ErrorPage(c) == Interest([c EXCEPT !.out = 1, !.res_ready = TRUE], FALSE, TRUE)

\* The history of queueing a response head with status st.
Queued(st) == [hist EXCEPT !.heads = @ + 1, !.status = st]

-----------------------------------------------------------------------------
(* CgiManager::cleanupProcess: the process, the child, the client *)

CleanProc(p) == [p EXCEPT !.live = FALSE, !.paused = FALSE, !.stdin = FALSE,
                          !.stdout = FALSE, !.stderr = FALSE]

\* SIGTERM, then SIGKILL if it has not already exited.
Kill(s) == [s EXCEPT !.run = IF @ = "up" THEN "killed" ELSE @,
                     !.stdout = FALSE, !.stdin = FALSE]

\* Mutant: the error page does not look at response_started.
CleanAnswerAlways(c, p, reason) ==
    [ErrorPage(c) EXCEPT !.keep_alive = FALSE, !.close_after_send = TRUE]

\* A started response only loses its connection, anything else is an error page.
CleanAnswer(c, p, reason) ==
    IF p.started
    THEN [c EXCEPT !.keep_alive = @ /\ p.has_length /\ reason = "Normal"]
    ELSE [ErrorPage(c) EXCEPT !.keep_alive = FALSE, !.close_after_send = TRUE]

\* Mutant: a kept connection is read again at once, pending output or not.
CleanInterestReads(c) ==
    IF c.keep_alive THEN Interest(c, TRUE, FALSE)
    ELSE Interest([c EXCEPT !.res_ready = TRUE], FALSE, TRUE)

CleanInterest(c) ==
    IF c.res_ready \/ c.out > 0 THEN Interest(c, FALSE, TRUE)
    ELSE IF c.keep_alive THEN Interest(c, TRUE, FALSE)
    ELSE Interest([c EXCEPT !.res_ready = TRUE], FALSE, TRUE)

CleanConn(c, p, reason) ==
    CleanInterest([CleanAnswer(c, p, reason) EXCEPT !.cgi_active = FALSE])

\* The client is there; p and s are the process and its script.
Cleanup(p, s, reason, status) ==
    /\ proc' = CleanProc(p)
    /\ script' = Kill(s)
    /\ conn' = CleanConn(conn, p, reason)
    /\ hist' = IF p.started THEN hist ELSE Queued(status)

\* Mutant: without handleClientClose.
CloseClientOnly == conn' = Closed /\ UNCHANGED <<proc, script>>

\* Server::close_client, with the handleClientClose it calls: what ClientGone
\* does to the ClientCon is lost with it.
CloseClient ==
    /\ conn' = Closed
    /\ proc' = IF proc.live THEN CleanProc(proc) ELSE proc
    /\ script' = IF proc.live THEN Kill(script) ELSE script

-----------------------------------------------------------------------------
(* Server::handleCgiRequest and CgiManager::launch *)

\* Units of the request that came with its head, and how many are body data.
Arrived == peer.total - peer.unsent
Complete == peer.unsent = 0
ArrivedData == IF peer.chunked /\ Complete THEN Arrived - 1 ELSE Arrived

\* read_client clears the request it has just processed only when it had no
\* body: with one, parseRequest stops at BODY and never reports COMPLETE.
Processed(c) == [c EXCEPT !.cleared = c.keep_alive /\ peer.total = 0]

\* The first chunks do not decode: 400.  pipe() or fork() fails: 502.
Undecodable == peer.malformed /\ Complete

LaunchRefused ==
    /\ phase = "launch"
    /\ conn' = Processed(ErrorPage(conn))
    /\ hist' = Queued(IF Undecodable THEN 400 ELSE 502)
    /\ phase' = "batch"
    /\ UNCHANGED <<batch, proc, script, peer>>

Launch ==
    /\ phase = "launch" /\ ~Undecodable
    /\ proc' = [proc EXCEPT !.live = TRUE, !.stdout = TRUE, !.stderr = TRUE,
                            !.buf = ArrivedData,
                            !.stdin = ArrivedData > 0 \/ peer.chunked \/ ~Complete]
    /\ script' = [script EXCEPT !.run = "up", !.stdout = TRUE, !.stdin = TRUE]
    /\ conn' = [Processed(conn) EXCEPT
                   !.cgi_active = TRUE,
                   !.cgi_streaming = peer.chunked \/ ~Complete,
                   !.remaining = IF peer.chunked THEN 0 ELSE peer.unsent]
    /\ phase' = "batch"
    /\ UNCHANGED <<batch, peer, hist>>

-----------------------------------------------------------------------------
(* CgiManager::handleEvent *)

Dispatch(tag) == phase = "batch" /\ tag \in batch /\ batch' = batch \ {tag}

\* stdout: read until EAGAIN or end of file, one unit a step, while the
\* script may go on writing.
BeginStdout ==
    /\ Dispatch("stdout")
    /\ proc.live
    /\ phase' = "stdout"
    /\ UNCHANGED <<conn, proc, script, peer, hist>>

\* emitResponse: without Content-Length the response ends with the connection.
ReadHead ==
    /\ phase = "stdout"
    /\ script.out > 0 /\ ~proc.started /\ script.head # "invalid"
    /\ LET hasLength == script.head = "length" IN
         /\ proc' = [proc EXCEPT !.started = TRUE, !.has_length = hasLength,
                                 !.idle_expired = FALSE]
         /\ conn' = Interest([conn EXCEPT
                        !.out = @ + 1, !.res_ready = TRUE,
                        !.keep_alive = @ /\ hasLength,
                        !.close_after_send = @ \/ ~hasLength], FALSE, TRUE)
    /\ script' = [script EXCEPT !.out = @ - 1]
    /\ hist' = Queued(200)
    /\ UNCHANGED <<phase, batch, peer>>

\* A malformed or oversized header block.
ReadInvalidHead ==
    /\ phase = "stdout"
    /\ script.out > 0 /\ ~proc.started /\ script.head = "invalid"
    /\ Cleanup(proc, script, "InvalidHeaders", 502)
    /\ phase' = "batch"
    /\ UNCHANGED <<batch, peer>>

\* forwardBody
ReadBody ==
    /\ phase = "stdout"
    /\ script.out > 0 /\ proc.started
    /\ proc' = [proc EXCEPT !.idle_expired = FALSE]
    /\ conn' = Interest([conn EXCEPT !.out = @ + 1, !.res_ready = TRUE], FALSE, TRUE)
    /\ script' = [script EXCEPT !.out = @ - 1]
    /\ UNCHANGED <<phase, batch, peer, hist>>

ReadEof ==
    /\ phase = "stdout"
    /\ script.out = 0 /\ ~script.stdout
    /\ IF proc.started THEN Cleanup(proc, script, "Normal", 200) ELSE Cleanup(proc, script, "InvalidHeaders", 502)
    /\ phase' = "batch"
    /\ UNCHANGED <<batch, peer>>

\* Nothing more for now: enforceBackpressure.
ReadAgain ==
    /\ phase = "stdout"
    /\ script.out = 0 /\ script.stdout
    /\ proc' = [proc EXCEPT !.paused = @ \/ conn.out - conn.sent > Threshold]
    /\ phase' = "batch"
    /\ UNCHANGED <<batch, conn, script, peer, hist>>

CloseStdin(p) == [p EXCEPT !.stdin = FALSE]

\* stdin: close it when the buffer is empty, whether or not the request body
\* has all come; otherwise write what the pipe takes, then likewise.
WriteStdin ==
    /\ Dispatch("stdin")
    /\ proc.live /\ proc.stdin
    /\ proc.buf = 0 \/ (script.stdin /\ script.in < InCap)
    /\ LET n == Lesser(proc.buf, InCap - script.in) IN
         /\ proc' = IF n = proc.buf
                    THEN [CloseStdin(proc) EXCEPT !.buf = 0,
                              !.idle_expired = @ /\ n = 0]
                    ELSE [proc EXCEPT !.buf = @ - n, !.idle_expired = FALSE]
         /\ script' = [script EXCEPT !.in = IF proc.buf = 0 THEN @ ELSE @ + n]
    /\ UNCHANGED <<phase, conn, peer, hist>>

\* The write fails.  With the default disposition of SIGPIPE, which the server
\* never changes, a script that has closed its stdin takes the server with it.
WriteStdinFails ==
    /\ Dispatch("stdin")
    /\ proc.live /\ proc.stdin
    /\ proc.buf > 0 /\ ~(script.stdin /\ script.in < InCap)
    /\ IF ~script.stdin /\ ~SigPipeIgnored
       THEN phase' = "dead" /\ UNCHANGED proc
       ELSE proc' = CloseStdin(proc) /\ UNCHANGED phase
    /\ UNCHANGED <<conn, script, peer, hist>>

ReadStderr ==
    /\ Dispatch("stderr")
    /\ proc.live /\ proc.stderr
    /\ proc' = [proc EXCEPT !.stderr = FALSE]
    /\ UNCHANGED <<phase, conn, script, peer, hist>>

\* An event whose handler has nothing left to act on.
DropStale ==
    \/ Dispatch("stdout") /\ ~proc.live /\ UNCHANGED <<phase, conn, proc, script, peer, hist>>
    \/ Dispatch("stdin") /\ ~proc.stdin /\ UNCHANGED <<phase, conn, proc, script, peer, hist>>
    \/ Dispatch("stderr") /\ ~proc.stderr /\ UNCHANGED <<phase, conn, proc, script, peer, hist>>

-----------------------------------------------------------------------------
(* Server::handle_signal_pipe, reap_children, CgiManager::handleChildExit *)

\* A failure exit ends the process unless its headers have been read.
ChildExit(q, t) ==
    IF q.live /\ t.failed /\ ~q.started
    THEN Cleanup(q, t, "ExecFailure", 502)
    ELSE proc' = q /\ script' = t /\ UNCHANGED <<conn, hist>>

HandleSignal ==
    /\ Dispatch("signal")
    /\ ChildExit([proc EXCEPT !.reaped = @ \/ proc.live],
                 [script EXCEPT !.run = IF @ = "zombie" THEN "reaped" ELSE @])
    /\ UNCHANGED <<phase, peer>>

-----------------------------------------------------------------------------
(* Server::read_client and CgiManager::feedStdin, finishStdin *)

\* recv gives nothing: end of file, reset, or no data.
ReadClientGone ==
    /\ Dispatch("readable")
    /\ conn.open => peer.rcv = 0
    /\ CloseClient
    /\ UNCHANGED <<phase, peer, hist>>

\* Data for a closed stdin is dropped.
FeedStdin(p, n) ==
    IF p.stdin /\ n > 0 THEN [p EXCEPT !.buf = @ + n, !.idle_expired = FALSE]
    ELSE p

FinishStdin(p) == IF p.buf = 0 THEN CloseStdin(p) ELSE p

\* n units reach a CGI that takes a body; the last one of a chunked body is
\* the terminator.
ReadClientBody ==
    /\ Dispatch("readable")
    /\ conn.open /\ conn.cgi_active /\ conn.cgi_streaming
    /\ \E n \in 1..peer.rcv:
         LET last == peer.chunked /\ peer.unsent = 0 /\ n = peer.rcv
             fed  == IF peer.chunked THEN (IF last THEN n - 1 ELSE n)
                     ELSE Lesser(n, conn.remaining)
             left == IF peer.chunked THEN 0 ELSE conn.remaining - fed
             done == IF peer.chunked THEN last ELSE left = 0
             q    == FeedStdin(proc, fed)
         IN  /\ ~(last /\ peer.malformed)
             /\ proc' = IF done THEN FinishStdin(q) ELSE q
             /\ conn' = [conn EXCEPT !.expired = FALSE, !.remaining = left,
                                     !.cgi_streaming = ~done]
             /\ hist' = [hist EXCEPT !.dropped = IF proc.stdin THEN @ ELSE @ + fed]
             /\ peer' = [peer EXCEPT !.rcv = @ - n]
    /\ UNCHANGED <<phase, script>>

\* A chunk that does not decode: the connection is closed, and the 400 queued
\* on it goes with it.
ReadClientMalformed ==
    /\ Dispatch("readable")
    /\ conn.open /\ conn.cgi_active /\ conn.cgi_streaming
    /\ peer.malformed /\ peer.unsent = 0 /\ peer.rcv > 0
    /\ CloseClient
    /\ peer' = [peer EXCEPT !.rcv = 0]
    /\ UNCHANGED <<phase, hist>>

\* The rest of the body after the CGI is over goes to the request parser.
ReadClientLeftover ==
    /\ Dispatch("readable")
    /\ conn.open /\ peer.rcv > 0
    /\ ~(conn.cgi_active /\ conn.cgi_streaming)
    /\ phase' = "reparse"
    /\ UNCHANGED <<conn, proc, script, peer, hist>>

-----------------------------------------------------------------------------
(* Server::client_write, finalize_response_write *)

\* Mutant: a drained socket buffer ends the response.
FinalizeAtOnce(c, p, s) ==
    IF c.close_after_send \/ ~c.keep_alive
    THEN CloseClient
    ELSE /\ conn' = Interest([c EXCEPT !.res_ready = FALSE, !.expired = FALSE,
                                       !.cleared = TRUE], TRUE, FALSE)
         /\ proc' = p
         /\ script' = s

\* A drained socket buffer ends the response unless a CGI is still active.
Finalize(c, p, s) ==
    IF c.cgi_active
    THEN /\ conn' = Interest([c EXCEPT !.res_ready = FALSE, !.expired = FALSE],
                             FALSE, FALSE)
         /\ proc' = p
         /\ script' = s
    ELSE IF c.close_after_send \/ ~c.keep_alive
    THEN CloseClient
    ELSE /\ conn' = Interest([c EXCEPT !.res_ready = FALSE, !.expired = FALSE,
                                       !.cleared = TRUE], TRUE, FALSE)
         /\ proc' = p
         /\ script' = s

\* Mutant: a written unit does not resume the process.
ResumeNever(c, p) == p

\* notifyClientWritable, through drain_client_backpressure
Resume(c, p) == [p EXCEPT !.paused = @ /\ ~c.cgi_active]

ClientWrite ==
    /\ Dispatch("writable")
    /\ LET n == Lesser(conn.out - conn.sent, SockCap - peer.sock) IN
         IF ~conn.open \/ ~conn.res_ready
         THEN UNCHANGED <<conn, proc, script, peer, hist>>
         ELSE IF conn.out = 0
         THEN /\ Finalize(conn, proc, script)
              /\ UNCHANGED <<peer, hist>>
         ELSE IF n = 0 \/ peer.state = "rst"
         THEN UNCHANGED <<conn, proc, script, peer, hist>>   \* would block
         ELSE /\ IF conn.sent + n = conn.out
                 THEN Finalize([conn EXCEPT !.out = 0, !.sent = 0],
                               Resume(conn, proc), script)
                 ELSE /\ conn' = [conn EXCEPT !.sent = @ + n, !.expired = FALSE]
                      /\ proc' = Resume(conn, proc)
                      /\ UNCHANGED script
              /\ hist' = [hist EXCEPT !.sent = @ + n]
              /\ peer' = IF peer.state = "fin"
                         THEN [peer EXCEPT !.state = "rst", !.rcv = 0]
                         ELSE [peer EXCEPT !.sock = @ + n]
    /\ UNCHANGED phase

-----------------------------------------------------------------------------
(* Server::run *)

ClientReadable ==
    conn.open /\ \/ conn.rd /\ (peer.rcv > 0 \/ peer.state # "up")
                 \/ peer.state = "rst"
ClientWritable ==
    conn.open /\ conn.wr /\ peer.sock < SockCap /\ peer.state # "rst"

\* Mutant: the pause does not reach the poller.
StdoutReadyAlways == proc.live /\ (script.out > 0 \/ ~script.stdout)

\* A pause hides the data but not the hang-up at the end of the output.
StdoutReady ==
    proc.live /\ ((~proc.paused /\ script.out > 0) \/ ~script.stdout)

Ready == {t \in Tags:
    \/ t = "readable" /\ ClientReadable
    \/ t = "writable" /\ ClientWritable
    \/ t = "stdout" /\ StdoutReady
    \/ t = "stdin" /\ proc.stdin /\ (script.in < InCap \/ ~script.stdin)
    \/ t = "stderr" /\ proc.stderr /\ script.run # "up"
    \/ t = "signal" /\ script.run = "zombie"}

Wait ==
    /\ phase = "wait"
    /\ phase' = "batch"
    /\ batch' = Ready
    /\ UNCHANGED <<conn, proc, script, peer, hist>>

EndBatch ==
    /\ phase = "batch" /\ batch = {}
    /\ phase' = "drain"
    /\ UNCHANGED <<batch, conn, proc, script, peer, hist>>

Drained == /\ conn.open /\ ~conn.cgi_active /\ conn.close_after_send
           /\ ~conn.res_ready /\ conn.out = 0

CloseDrained ==
    /\ phase = "drain"
    /\ IF Drained THEN CloseClient ELSE UNCHANGED <<conn, proc, script>>
    /\ phase' = "timers"
    /\ UNCHANGED <<batch, peer, hist>>

\* CgiManager::checkTimeouts
CgiTimeouts ==
    IF proc.live /\ (proc.idle_expired \/ proc.abs_expired)
    THEN Cleanup(proc, script, "Timeout", 504)
    ELSE UNCHANGED <<conn, proc, script, hist>>

\* Mutant: only connections with nothing to send time out.
CheckTimeoutsQuiet ==
    /\ phase = "timers"
    /\ IF conn.open /\ conn.expired /\ ~conn.res_ready
       THEN CloseClient /\ UNCHANGED hist
       ELSE CgiTimeouts
    /\ phase' = "wait"
    /\ UNCHANGED <<batch, peer>>

\* Idle connections first; their CGI goes with them and gets no 504.
CheckTimeouts ==
    /\ phase = "timers"
    /\ IF conn.open /\ conn.expired
       THEN CloseClient /\ UNCHANGED hist
       ELSE CgiTimeouts
    /\ phase' = "wait"
    /\ UNCHANGED <<batch, peer>>

Server ==
    \/ LaunchRefused \/ Launch
    \/ Wait \/ EndBatch \/ CloseDrained \/ CheckTimeouts
    \/ BeginStdout \/ ReadHead \/ ReadInvalidHead \/ ReadBody \/ ReadEof \/ ReadAgain
    \/ WriteStdin \/ WriteStdinFails \/ ReadStderr \/ DropStale
    \/ HandleSignal
    \/ ReadClientGone \/ ReadClientBody \/ ReadClientMalformed
    \/ ReadClientLeftover \/ ClientWrite

-----------------------------------------------------------------------------
(* The script.  It may do anything at any time, and is killed with Kill.   *)
(* launch leaves it a second copy of each pipe end: its end is closed when *)
(* it exits or closes every descriptor it has.                             *)

ScriptWriteHead ==
    /\ script.run = "up" /\ script.stdout /\ ~script.wrote /\ script.out < OutCap
    /\ script' = [script EXCEPT !.wrote = TRUE, !.out = @ + 1]

ScriptWriteBody ==
    /\ script.run = "up" /\ script.stdout /\ script.wrote
    /\ script.left > 0 /\ script.out < OutCap
    /\ script' = [script EXCEPT !.left = @ - 1, !.out = @ + 1]

ScriptCloseStdout ==
    /\ script.run = "up" /\ script.stdout
    /\ script' = [script EXCEPT !.stdout = FALSE]

ScriptReadStdin ==
    /\ script.run = "up" /\ script.in > 0
    /\ script' = [script EXCEPT !.in = @ - 1]

ScriptCloseStdin ==
    /\ script.run = "up" /\ script.stdin
    /\ script' = [script EXCEPT !.stdin = FALSE, !.in = 0]

ScriptExit ==
    /\ script.run = "up"
    /\ \E failed \in BOOLEAN:
         script' = [script EXCEPT !.run = "zombie", !.failed = failed,
                                  !.stdout = FALSE, !.stdin = FALSE, !.in = 0]

Script ==
    /\ \/ ScriptWriteHead \/ ScriptWriteBody \/ ScriptCloseStdout
       \/ ScriptReadStdin \/ ScriptCloseStdin \/ ScriptExit
    /\ UNCHANGED <<phase, batch, conn, proc, peer, hist>>

(* The client: one request, not pipelined, and it may leave. *)

PeerSend ==
    /\ peer.state = "up" /\ peer.unsent > 0
    /\ peer' = [peer EXCEPT !.unsent = @ - 1, !.rcv = @ + 1]

PeerReceive ==
    /\ peer.state = "up" /\ peer.sock > 0
    /\ peer' = [peer EXCEPT !.sock = 0]

\* Closing with response bytes unread resets the connection.
PeerClose ==
    /\ peer.state = "up"
    /\ peer' = IF peer.sock > 0
               THEN [peer EXCEPT !.state = "rst", !.rcv = 0]
               ELSE [peer EXCEPT !.state = "fin"]

Peer ==
    /\ conn.open /\ phase # "launch"
    /\ PeerSend \/ PeerReceive \/ PeerClose
    /\ UNCHANGED <<phase, batch, conn, proc, script, hist>>

(* Time passes without activity. *)

ExpireConn ==
    /\ conn.open /\ ~conn.expired /\ phase # "launch"
    /\ conn' = [conn EXCEPT !.expired = TRUE]
    /\ UNCHANGED <<phase, batch, proc, script, peer, hist>>

ExpireIdle ==
    /\ proc.live /\ ~proc.idle_expired
    /\ proc' = [proc EXCEPT !.idle_expired = TRUE]
    /\ UNCHANGED <<phase, batch, conn, script, peer, hist>>

ExpireAbsolute ==
    /\ proc.live /\ ~proc.abs_expired
    /\ proc' = [proc EXCEPT !.abs_expired = TRUE]
    /\ UNCHANGED <<phase, batch, conn, script, peer, hist>>

Environment == Script \/ Peer \/ ExpireConn \/ ExpireIdle \/ ExpireAbsolute

-----------------------------------------------------------------------------
\* read_client has parsed the request and process_request routed it to a CGI.
Init ==
    /\ phase = "launch"
    /\ batch = {}
    /\ \E keepAlive \in BOOLEAN:
         conn = [Closed EXCEPT !.open = TRUE, !.rd = TRUE,
                               !.keep_alive = keepAlive, !.cleared = FALSE]
    /\ proc = [live |-> FALSE, stdin |-> FALSE, stdout |-> FALSE,
               stderr |-> FALSE, buf |-> 0, started |-> FALSE,
               has_length |-> FALSE, paused |-> FALSE, reaped |-> FALSE,
               idle_expired |-> FALSE, abs_expired |-> FALSE]
    /\ \E h \in {"length", "nolength", "invalid"}:
         script = [run |-> "none", failed |-> FALSE, head |-> h,
                   wrote |-> FALSE, left |-> RespMax,
                   stdout |-> FALSE, stdin |-> FALSE, out |-> 0, in |-> 0]
    /\ \E n \in 0..ReqMax, chunked, malformed \in BOOLEAN: \E u \in 0..n:
         /\ chunked => n > 0
         /\ malformed => chunked
         /\ peer = [state |-> "up", total |-> n, unsent |-> u, rcv |-> 0,
                    chunked |-> chunked, malformed |-> malformed, sock |-> 0]
    /\ hist = [heads |-> 0, status |-> 0, sent |-> 0, dropped |-> 0]

Next == Server \/ Environment

Spec == Init /\ [][Next]_vars

\* The loop keeps running and the clock keeps going; nothing is assumed of
\* the script or of the client.
Fairness == /\ WF_vars(Server)
            /\ WF_vars(ExpireConn)
            /\ WF_vars(ExpireAbsolute)

FairSpec == Spec /\ Fairness

-----------------------------------------------------------------------------
(* Properties *)

\* The connection's cgi_active flag and the manager's maps agree: a live
\* process has an open client that knows it (cleanupProcess, close_client).
ActiveAgrees == proc.live = conn.cgi_active

\* No lost wakeup: a process whose stdout is paused has output waiting on a
\* connection polled for writing, so client_write will resume it.
PausedIsResumed ==
    proc.paused => conn.open /\ conn.wr /\ conn.out > conn.sent

\* Write interest and res_ready go together, and pending output has both: no
\* output is stranded, and no writable event is polled for nothing.
OutputIsPolled ==
    conn.open => /\ conn.wr = conn.res_ready
                 /\ conn.out > conn.sent => conn.wr

\* "Keep reads disabled until the CGI manager finishes the process."
ReadsOffWhileRelaying ==
    proc.live /\ proc.started => ~conn.rd

\* Every unit the script wrote after its head was accepted is in exactly one
\* place: the pipe, response_out, or the client's socket.
NothingLost ==
    conn.open /\ proc.started =>
        hist.sent + conn.out + script.out + script.left
            = 1 + RespMax + conn.sent

\* A paused process adds nothing to response_out while its stdout is open.
PauseHolds ==
    [][ proc.paused /\ proc'.paused /\ script.stdout => conn'.out <= conn.out ]_vars

\* The relay implements the promise of CgiExchange: one answer, sent in order
\* and without gaps, and no next request before its end.
Exchange == INSTANCE CgiExchange WITH
    written <- (IF script.wrote THEN 1 ELSE 0) + RespMax - script.left,
    ended   <- script.run # "none" /\ ~script.stdout,
    answer  <- IF hist.heads = 0 THEN "none"
               ELSE IF hist.status = 200 THEN "script" ELSE "error",
    sent    <- hist.sent,
    link    <- IF ~conn.open THEN "closed"
               ELSE IF conn.rd /\ ~proc.live /\ hist.heads > 0 THEN "reading"
               ELSE "busy"
KeepsPromise == Exchange!Spec

\* "Request to server should never hang indefinitely": whatever the script
\* and the client do, the process is cleaned up and the connection closed,
\* unless what is left of the request goes to the parser.
ExchangeEnds ==
    <>((~conn.open /\ ~proc.live) \/ phase \in {"reparse", "dead"})

-----------------------------------------------------------------------------
(* The inductive invariant behind them *)

\* The maps, the flag and the connection; the loop reads a live process only.
Linked ==
    /\ proc.live = conn.cgi_active
    /\ proc.live => conn.open
    /\ ~conn.open => conn = Closed
    /\ phase = "stdout" => proc.live

\* Where response_out stands with res_ready and the poller.
Polled ==
    /\ conn.open => conn.wr = conn.res_ready
    /\ conn.wr => ~conn.rd
    /\ conn.out > 0 => conn.res_ready /\ conn.sent < conn.out
    /\ conn.out = 0 => conn.sent = 0
    /\ proc.paused => proc.live /\ proc.started /\ conn.out > 0

\* Before its head is read, the script's output is all in the pipe.
Unread ==
    /\ ~script.wrote => script.out = 0 /\ script.left = RespMax
    /\ script.wrote /\ ~proc.started /\ (proc.live \/ phase = "launch") =>
           script.out + script.left = RespMax + 1
    /\ proc.started => script.wrote
    /\ script.wrote => script.run # "none"
    /\ phase = "launch" => /\ conn.open /\ ~proc.live /\ ~script.wrote
                           /\ script.run = "none"

\* What has been queued for the client.
Answered ==
    /\ hist.heads <= 1
    /\ hist.heads = 0 => /\ ~proc.started /\ hist.sent = 0 /\ conn.out = 0
                         /\ conn.open => proc.live \/ phase = "launch"
    /\ proc.live \/ phase = "launch" => proc.started = (hist.heads = 1)
    /\ hist.heads = 1 => proc.started = (hist.status = 200)
    /\ conn.open /\ hist.heads = 1 /\ ~proc.started =>
           hist.sent + conn.out = 1 + conn.sent

\* A started response that is over and may be followed by another request.
Finished ==
    conn.open /\ proc.started /\ ~proc.live /\ conn.keep_alive =>
        script.run # "none" /\ ~script.stdout /\ script.out = 0

Reopened ==
    conn.open /\ conn.rd /\ ~proc.live /\ phase # "launch" =>
        conn.out = 0 /\ (proc.started => conn.keep_alive)

RelayInv == TypeOK /\ Linked /\ Polled /\ ReadsOffWhileRelaying /\ Unread
            /\ Answered /\ NothingLost /\ Finished /\ Reopened

-----------------------------------------------------------------------------
(* What the documents say and the code does not do *)

\* docs/CGI.md: the body reaches the script whole ("read the entire request
\* body").  handleEvent closes stdin whenever its buffer is empty.
BodyReachesScript == hist.dropped = 0 \/ ~script.stdin

\* docs/CGI.md: without Content-Length, chunked transfer keeps an HTTP/1.1
\* connection alive.  emitResponse always closes it.
KeptAliveWithoutLength ==
    [][ ~proc.started /\ proc'.started => conn'.keep_alive = conn.keep_alive ]_vars

\* docs/CGI.md: 502 is for a script that exits without valid headers.
\* handleChildExit may run before the headers in the pipe are read.
BadGatewayMeansNoHeaders ==
    hist.status = 502 /\ script.run # "none" =>
        script.head = "invalid" \/ ~script.wrote

\* docs/CGI.md: a script that exits without valid headers gets a 502.  If it
\* leaves its stdin unread, writing to it raises SIGPIPE in the server.
ServerSurvives == phase = "dead" => script.run # "zombie" \/ script.wrote

=============================================================================
