---------------------------- MODULE StaticStream ----------------------------
(***************************************************************************)
(* Static files on one kept-alive connection: start_static_file_stream     *)
(* announces the size fstat reports, write_static_file_chunk sends the     *)
(* file through file_buf as the socket takes it, and the next request is   *)
(* read when it is done.  Meanwhile the file may shrink or grow, a read    *)
(* may fail or be short, and the client may stall, close or reset.         *)
(*                                                                         *)
(* One action is one handler call of Server::run.  Sizes are in units, and *)
(* offsets in the file count the units read from it.                       *)
(***************************************************************************)
EXTENDS Naturals

CONSTANTS MaxSize,    \* the largest file
          BufSize,    \* file_buf.size()
          HeadSize,   \* a response head, or an error page
          SockCap     \* capacity of the client's socket send buffer

ASSUME StreamAssumption ==
    /\ MaxSize \in Nat
    /\ BufSize \in Nat \ {0}
    /\ HeadSize \in Nat \ {0}
    /\ SockCap \in Nat \ {0}

VARIABLES
    conn,   \* the ClientCon and its poller interest (rd, wr)
    disk,   \* the file: its current size, and the offset of file_fd
    fds,    \* descriptors on the file that are open in the kernel
    peer,   \* the client: state, requests in our receive buffer, units in its
    hist    \* history of the current response: body announced and sent, and
            \* what of its head is still to be sent

vars == <<conn, disk, fds, peer, hist>>

ConnType ==
    [open: BOOLEAN, rd: BOOLEAN, wr: BOOLEAN, out: Nat, sent: Nat,
     res_ready: BOOLEAN, keep_alive: BOOLEAN,
     file_fd: BOOLEAN,            \* file_fd >= 0
     file_stream_active: BOOLEAN,
     remaining: Nat,              \* file_bytes_remaining
     len: Nat, off: Nat,          \* file_buf_len, file_buf_off
     expired: BOOLEAN]            \* now - last_act > timeout

TypeOK ==
    /\ conn \in ConnType
    /\ disk \in [size: 0..MaxSize, pos: Nat]
    /\ fds \in Nat
    /\ peer \in [state: {"up", "fin", "rst"}, asked: BOOLEAN, sock: 0..SockCap]
    /\ hist \in [declared: 0..MaxSize, head: 0..HeadSize, body: Nat]
    /\ conn.len <= BufSize /\ conn.off <= conn.len

Lesser(a, b) == IF a <= b THEN a ELSE b

-----------------------------------------------------------------------------
(* The connection *)

\* reset_static_file_stream: what it leaves, and the descriptor it closes.
Reset(c) == [c EXCEPT !.file_fd = FALSE, !.file_stream_active = FALSE,
                      !.remaining = 0, !.len = 0, !.off = 0]
Released(c) == IF c.file_fd THEN fds - 1 ELSE fds

\* Erasing the ClientCon.
Closed == [open |-> FALSE, rd |-> FALSE, wr |-> FALSE, out |-> 0, sent |-> 0,
           res_ready |-> FALSE, keep_alive |-> FALSE, file_fd |-> FALSE,
           file_stream_active |-> FALSE, remaining |-> 0, len |-> 0, off |-> 0,
           expired |-> FALSE]

\* Mutant: the entry is erased without reset_static_file_stream.
CloseWithoutReset(c) == conn' = Closed /\ fds' = fds

CloseClient(c) == conn' = Closed /\ fds' = Released(c)

\* finalize_response_write
Finalize(c) ==
    IF c.keep_alive
    THEN /\ conn' = [c EXCEPT !.res_ready = FALSE, !.expired = FALSE,
                              !.rd = TRUE, !.wr = FALSE]
         /\ fds' = Released(conn)
    ELSE CloseClient(conn)

-----------------------------------------------------------------------------
(* read_client, process_request, start_static_file_stream *)

\* Mutant: the connection goes on being read.
AnsweringReads(keepAlive) ==
    [Reset(conn) EXCEPT !.out = HeadSize, !.sent = 0, !.res_ready = TRUE,
                        !.keep_alive = keepAlive, !.expired = FALSE, !.wr = TRUE]

\* A request for a file, keep-alive or not.  The stream of the last response
\* is reset first; then everything is assigned.
Answering(keepAlive) ==
    [Reset(conn) EXCEPT !.out = HeadSize, !.sent = 0, !.res_ready = TRUE,
                        !.keep_alive = keepAlive, !.expired = FALSE,
                        !.rd = FALSE, !.wr = TRUE]

Requested == conn.open /\ conn.rd /\ peer.asked

\* The history of a response that announces n units.
Announced(n) == [declared |-> n, head |-> HeadSize, body |-> 0]

\* open or fstat fails, or it is not a regular file: an error page.
StartFails ==
    /\ Requested
    /\ \E keepAlive \in BOOLEAN: conn' = Answering(keepAlive)
    /\ fds' = Released(conn)
    /\ peer' = [peer EXCEPT !.asked = FALSE]
    /\ hist' = Announced(0)
    /\ UNCHANGED disk

StartStream ==
    /\ Requested
    /\ \E keepAlive \in BOOLEAN:
         conn' = [Answering(keepAlive) EXCEPT
                     !.file_fd = TRUE, !.file_stream_active = TRUE,
                     !.remaining = disk.size]
    /\ fds' = Released(conn) + 1
    /\ disk' = [disk EXCEPT !.pos = 0]
    /\ peer' = [peer EXCEPT !.asked = FALSE]
    /\ hist' = Announced(disk.size)

\* recv gives the end of the stream.  A reset is polled whatever the interest.
ReadClientGone ==
    /\ conn.open
    /\ \/ conn.rd /\ ~peer.asked /\ peer.state = "fin"
       \/ peer.state = "rst"
    /\ CloseClient(conn)
    /\ UNCHANGED <<disk, peer, hist>>

-----------------------------------------------------------------------------
(* client_write, write_static_file_chunk *)

Writable ==
    conn.open /\ conn.wr /\ peer.sock < SockCap /\ peer.state # "rst"

\* A reset discards what the client has sent.
ResetBy(p) == [p EXCEPT !.state = "rst", !.asked = FALSE]

\* What sending n units does to the client; one that has closed resets.
Received(n) ==
    IF n > 0 /\ peer.state = "fin" THEN ResetBy(peer)
    ELSE [peer EXCEPT !.sock = @ + n]

\* Mutant: what one send takes of the head is taken for all of it.
SendHeadOnce ==
    /\ Writable /\ conn.out > 0
    /\ \E n \in 1..Lesser(conn.out - conn.sent, SockCap - peer.sock):
         LET done == [conn EXCEPT !.out = 0, !.sent = 0, !.expired = FALSE]
         IN  /\ IF done.file_stream_active THEN conn' = done /\ UNCHANGED fds
                ELSE Finalize(done)
             /\ peer' = Received(n)
             /\ hist' = [hist EXCEPT !.head = @ - n]
    /\ UNCHANGED disk

\* The head, or what is left of it: send takes n units, or none.
SendHead ==
    /\ Writable /\ conn.out > 0
    /\ \E n \in 0..Lesser(conn.out - conn.sent, SockCap - peer.sock):
         LET c == IF n = 0 THEN conn
                  ELSE [conn EXCEPT !.sent = @ + n, !.expired = FALSE]
             done == [c EXCEPT !.out = 0, !.sent = 0]
         IN  /\ IF c.sent < c.out THEN conn' = c /\ UNCHANGED fds
                ELSE IF c.file_stream_active THEN conn' = done /\ UNCHANGED fds
                ELSE Finalize(done)
             /\ peer' = Received(n)
             /\ hist' = [hist EXCEPT !.head = @ - n]
    /\ UNCHANGED disk

\* Mutant: a short write is taken for a whole one.
AdvanceAll(c, n) == IF n = 0 THEN c ELSE [c EXCEPT !.off = c.len, !.expired = FALSE]

\* n units of file_buf have been sent.
Advance(c, n) == IF n = 0 THEN c ELSE [c EXCEPT !.off = @ + n, !.expired = FALSE]

\* send takes n units of what file_buf holds, or none.
SendChunk(c) ==
    \E n \in 0..Lesser(c.len - c.off, SockCap - peer.sock):
        LET d == Advance(c, n) IN
        /\ IF n > 0 /\ d.off = d.len /\ d.remaining = 0
           THEN Finalize(Reset(d))
           ELSE conn' = d /\ UNCHANGED fds
        /\ peer' = Received(n)
        /\ hist' = [hist EXCEPT !.body = @ + n]

Streaming == Writable /\ conn.out = 0 /\ conn.file_stream_active

SendBuffered ==
    /\ Streaming /\ conn.off < conn.len
    /\ SendChunk(conn)
    /\ UNCHANGED disk

\* Mutant: read asks for a whole buffer.
ToReadAll(c) == BufSize

ToRead(c) == Lesser(BufSize, c.remaining)

\* read returns k units, possibly fewer than are there.
ReadAndSend ==
    /\ Streaming /\ conn.off >= conn.len /\ conn.remaining > 0
    /\ disk.pos < disk.size
    /\ \E k \in 1..Lesser(ToRead(conn), disk.size - disk.pos):
         /\ SendChunk([conn EXCEPT !.off = 0, !.len = k, !.remaining = @ - k])
         /\ disk' = [disk EXCEPT !.pos = @ + k]

\* Mutant: the end of a file that has shrunk ends the response.
OnEofFinalizes(c) == Finalize(Reset(c))

\* "Header is already out; avoid mismatched content-length by closing hard."
OnEof(c) == CloseClient(c)

\* read fails, or the file has shrunk below the offset.
ReadFails ==
    /\ Streaming /\ conn.off >= conn.len /\ conn.remaining > 0
    /\ IF disk.pos < disk.size THEN CloseClient(conn) ELSE OnEof(conn)
    /\ UNCHANGED <<disk, peer, hist>>

\* The file was empty.
FinishEmpty ==
    /\ Streaming /\ conn.off >= conn.len /\ conn.remaining = 0
    /\ Finalize(Reset(conn))
    /\ UNCHANGED <<disk, peer, hist>>

-----------------------------------------------------------------------------
(* check_timeouts *)

\* Mutant: a connection that streams a file does not time out.
CheckTimeoutsIdle ==
    /\ conn.open /\ conn.expired /\ ~conn.file_stream_active
    /\ CloseClient(conn)
    /\ UNCHANGED <<disk, peer, hist>>

CheckTimeouts ==
    /\ conn.open /\ conn.expired
    /\ CloseClient(conn)
    /\ UNCHANGED <<disk, peer, hist>>

Server == \/ StartFails \/ StartStream \/ ReadClientGone
          \/ SendHead \/ SendBuffered \/ ReadAndSend \/ ReadFails \/ FinishEmpty
          \/ CheckTimeouts

-----------------------------------------------------------------------------
(* The client, the file and the clock *)

\* The next request, once the last response is done.
Ask ==
    /\ conn.open /\ conn.rd /\ ~peer.asked /\ peer.state = "up"
    /\ peer' = [peer EXCEPT !.asked = TRUE]
    /\ UNCHANGED <<conn, disk, fds, hist>>

Drain ==
    /\ conn.open /\ peer.sock > 0 /\ peer.state = "up"
    /\ \E n \in 1..peer.sock: peer' = [peer EXCEPT !.sock = @ - n]
    /\ UNCHANGED <<conn, disk, fds, hist>>

\* Closing with response units unread resets the connection.
Leave ==
    /\ conn.open /\ peer.state = "up"
    /\ peer' = IF peer.sock > 0 THEN ResetBy(peer)
               ELSE [peer EXCEPT !.state = "fin"]
    /\ UNCHANGED <<conn, disk, fds, hist>>

Resize ==
    /\ conn.open
    /\ \E n \in 0..MaxSize: disk' = [disk EXCEPT !.size = n]
    /\ UNCHANGED <<conn, fds, peer, hist>>

Expire ==
    /\ conn.open /\ ~conn.expired
    /\ conn' = [conn EXCEPT !.expired = TRUE]
    /\ UNCHANGED <<disk, fds, peer, hist>>

Environment == Ask \/ Drain \/ Leave \/ Resize \/ Expire

-----------------------------------------------------------------------------
Init ==
    /\ conn = [Closed EXCEPT !.open = TRUE, !.rd = TRUE]
    /\ disk \in [size: 0..MaxSize, pos: {0}]
    /\ fds = 0
    /\ peer = [state |-> "up", asked |-> FALSE, sock |-> 0]
    /\ hist = [declared |-> 0, head |-> 0, body |-> 0]

Next == Server \/ Environment

Spec == Init /\ [][Next]_vars

\* The loop keeps running and the clock keeps going.
FairSpec == Spec /\ WF_vars(Server) /\ WF_vars(Expire)

-----------------------------------------------------------------------------
(* Properties *)

\* Every unit announced is sent, in file_buf or still to be read, and file_buf
\* holds the units of the file that follow those sent (write_static_file_chunk).
Conserved ==
    conn.file_stream_active =>
        /\ hist.body + (conn.len - conn.off) + conn.remaining = hist.declared
        /\ disk.pos = hist.body + (conn.len - conn.off)

\* The next request is read only after the head and exactly Content-Length units;
\* a response that cannot be completed ends with the connection.
Framed == conn.open /\ conn.rd => hist.head = 0 /\ hist.body = hist.declared

\* The kernel has a descriptor open exactly while a stream is active: none is
\* leaked on any way out, none is closed twice (reset_static_file_stream).
NoDescriptorLeak == fds = IF conn.file_stream_active THEN 1 ELSE 0

\* A stream is polled for writing, alone, until it ends.
StreamIsPolled ==
    conn.file_stream_active => conn.wr /\ ~conn.rd /\ conn.res_ready

\* The connection implements the promise of KeptAlive: each request is answered
\* in full before the next is read, or is the last (client_write,
\* write_static_file_chunk, finalize_response_write).
Link == CASE ~conn.open -> "closed" [] conn.open /\ conn.rd -> "reading"
          [] OTHER -> "answering"
Due == hist.head + (hist.declared - hist.body)

Connection == INSTANCE KeptAlive WITH
    link <- Link, due <- Due, pending <- peer.asked,
    client <- IF peer.state = "up" THEN "here" ELSE "left"
KeepsAlive == Connection!Spec

\* Whatever the client and the file do, a stream ends.
StreamEnds == conn.file_stream_active ~> ~conn.file_stream_active

\* What makes them inductive.
StreamInv ==
    /\ TypeOK /\ Conserved /\ Framed /\ NoDescriptorLeak /\ StreamIsPolled
    /\ conn.file_fd <=> conn.file_stream_active
    /\ conn.file_stream_active => conn.open
    /\ conn.open /\ ~conn.file_stream_active => hist.body = hist.declared
    /\ conn.rd => conn.open /\ ~conn.wr /\ conn.out = 0
    /\ conn.sent <= conn.out
    /\ conn.open => hist.head = conn.out - conn.sent
    /\ conn.out > 0 => hist.body = 0 /\ conn.sent < conn.out
    /\ conn.open /\ peer.asked => conn.rd
    /\ hist.body <= hist.declared

=============================================================================
