------------------------- MODULE StaticStreamProofs -------------------------
(***************************************************************************)
(* Theorems about StaticStream, for every size of the file, of file_buf,   *)
(* of a head and of the socket buffer.  StreamInv is inductive; the ways   *)
(* out of a stream (close_client, finalize_response_write) have a lemma of *)
(* their own, whatever handler takes them.                                 *)
(***************************************************************************)
EXTENDS StaticStream, TLAPS

PeerType == [state: {"up", "fin", "rst"}, asked: BOOLEAN, sock: 0..SockCap]
DiskType == [size: 0..MaxSize, pos: Nat]
HistType == [declared: 0..MaxSize, head: 0..HeadSize, body: Nat]

\* What one send or one read may move.
LEMMA LesserFacts ==
    ASSUME NEW a \in Nat, NEW b \in Nat, NEW n \in 0..Lesser(a, b)
    PROVE  n \in Nat /\ n <= a /\ n <= b
<1>1. Lesser(a, b) \in Nat /\ Lesser(a, b) <= a /\ Lesser(a, b) <= b
    BY DEF Lesser
<1>2. QED
    BY <1>1

LEMMA ClosedFacts ==
    /\ Closed \in ConnType /\ ~Closed.open /\ ~Closed.rd
    /\ ~Closed.file_fd /\ ~Closed.file_stream_active
    /\ Closed.out = 0 /\ Closed.sent = 0 /\ Closed.len = 0 /\ Closed.off = 0
<1>1. Closed \in ConnType
    BY Zenon DEF Closed, ConnType
<1>2. QED
    BY <1>1 DEF Closed

\* What a stream leaves behind when it is reset.
LEMMA ResetFacts ==
    ASSUME NEW c \in ConnType
    PROVE  /\ Reset(c) \in ConnType
           /\ ~Reset(c).file_fd /\ ~Reset(c).file_stream_active
           /\ Reset(c).len = 0 /\ Reset(c).off = 0
           /\ Reset(c).open = c.open /\ Reset(c).wr = c.wr
           /\ Reset(c).out = c.out /\ Reset(c).sent = c.sent
BY DEF Reset, ConnType

\* What process_request leaves, before a stream has begun.
LEMMA AnsweringFacts ==
    ASSUME conn \in ConnType, NEW k \in BOOLEAN
    PROVE  /\ Answering(k) \in ConnType
           /\ Answering(k).open = conn.open /\ ~Answering(k).rd
           /\ Answering(k).wr /\ Answering(k).res_ready
           /\ ~Answering(k).file_fd /\ ~Answering(k).file_stream_active
           /\ Answering(k).out = HeadSize /\ Answering(k).sent = 0
           /\ Answering(k).len = 0 /\ Answering(k).off = 0
<1> DEFINE b == Reset(conn)
           a == Answering(k)
<1>1. /\ b \in ConnType /\ b.open = conn.open /\ ~b.file_fd
      /\ ~b.file_stream_active /\ b.len = 0 /\ b.off = 0
    BY ResetFacts
<1>2. HeadSize \in Nat
    BY StreamAssumption
<1>3. a = [b EXCEPT !.out = HeadSize, !.sent = 0, !.res_ready = TRUE,
                    !.keep_alive = k, !.expired = FALSE, !.rd = FALSE, !.wr = TRUE]
    BY Zenon DEF Answering
<1> HIDE DEF a, b
<1>4. a \in ConnType
    BY <1>1, <1>2, <1>3, Zenon DEF ConnType
<1>5. /\ a.open = conn.open /\ ~a.rd /\ a.wr /\ a.res_ready /\ ~a.file_fd
      /\ ~a.file_stream_active /\ a.out = HeadSize /\ a.sent = 0
      /\ a.len = 0 /\ a.off = 0
    BY <1>1, <1>3 DEF ConnType
<1>6. QED
    BY <1>4, <1>5 DEF a

\* The types of the client's record after a send, and after a reset.
LEMMA ReceivedType ==
    ASSUME TypeOK, NEW n \in Nat, n <= SockCap - peer.sock
    PROVE  Received(n) \in PeerType /\ (Received(n).asked => peer.asked)
<1>1. peer \in PeerType /\ SockCap \in Nat
    BY StreamAssumption DEF TypeOK, PeerType
<1>2. ResetBy(peer) \in PeerType
    BY <1>1 DEF ResetBy, PeerType
<1>6. ~ResetBy(peer).asked
    BY <1>1 DEF ResetBy, PeerType
<1>3. peer.sock + n \in 0..SockCap
    BY <1>1 DEF PeerType
<1>4. /\ [peer EXCEPT !.sock = @ + n] \in PeerType
      /\ [peer EXCEPT !.sock = @ + n].asked = peer.asked
    BY <1>1, <1>3 DEF PeerType
<1>5. QED
    BY <1>2, <1>4, <1>6 DEF Received

-----------------------------------------------------------------------------
(* The ways out of a response *)

\* close_client, with the descriptor of the stream.
LEMMA CloseKeeps ==
    ASSUME StreamInv, CloseClient(conn),
           peer' \in PeerType, disk' \in DiskType, hist' \in HistType,
           hist'.body <= hist'.declared
    PROVE  StreamInv'
<1>1. conn' = Closed /\ fds' = 0
    BY DEF CloseClient, Released, StreamInv, NoDescriptorLeak
<1>2. TypeOK'
    BY <1>1, ClosedFacts, StreamAssumption
    DEF TypeOK, PeerType, DiskType, HistType
<1>3. QED
    BY <1>1, <1>2, ClosedFacts
    DEF StreamInv, Conserved, Framed, NoDescriptorLeak, StreamIsPolled

\* finalize_response_write, after the whole of the body.
LEMMA FinalizeKeeps ==
    ASSUME StreamInv,
           NEW c \in ConnType, c.open, ~c.file_fd, ~c.file_stream_active,
           c.out = 0, c.sent = 0, c.len <= BufSize, c.off <= c.len, Finalize(c),
           peer' \in PeerType, disk' \in DiskType, hist' \in HistType,
           hist'.head = 0, hist'.body = hist'.declared
    PROVE  StreamInv'
<1>0. hist'.body <= hist'.declared
    BY DEF HistType
<1>1. CASE ~c.keep_alive
    BY <1>0, <1>1, CloseKeeps DEF Finalize
<1>2. CASE c.keep_alive
  <2>1. /\ conn' = [c EXCEPT !.res_ready = FALSE, !.expired = FALSE,
                             !.rd = TRUE, !.wr = FALSE]
        /\ fds' = 0
      BY <1>2 DEF Finalize, Released, StreamInv, NoDescriptorLeak
  <2>2. /\ conn' \in ConnType /\ conn'.open /\ ~conn'.wr
        /\ ~conn'.file_fd /\ ~conn'.file_stream_active
        /\ conn'.out = 0 /\ conn'.sent = 0
        /\ conn'.len = c.len /\ conn'.off = c.off
      BY <2>1 DEF ConnType
  <2>3. TypeOK'
      BY <2>1, <2>2 DEF TypeOK, PeerType, DiskType, HistType
  <2>4. QED
      BY <1>0, <2>1, <2>2, <2>3
      DEF StreamInv, Conserved, Framed, NoDescriptorLeak, StreamIsPolled
<1>3. QED
    BY <1>1, <1>2

-----------------------------------------------------------------------------
(* The handlers *)

LEMMA StartStep == StreamInv /\ (StartFails \/ StartStream) => StreamInv'
<1> SUFFICES ASSUME StreamInv, StartFails \/ StartStream PROVE StreamInv'
    OBVIOUS
<1>1. /\ conn \in ConnType /\ peer \in PeerType /\ disk \in DiskType
      /\ conn.open /\ MaxSize \in Nat /\ HeadSize \in Nat \ {0} /\ BufSize \in Nat
    BY StreamAssumption
    DEF StreamInv, TypeOK, PeerType, DiskType, StartFails, StartStream, Requested
<1>2. peer' \in PeerType /\ ~peer'.asked
    BY <1>1 DEF StartFails, StartStream, PeerType
<1>3. Released(conn) = 0
    BY DEF StreamInv, NoDescriptorLeak, Released
<1>4. ASSUME NEW k \in BOOLEAN
      PROVE  LET c == Answering(k) IN
             /\ c \in ConnType /\ c.open /\ ~c.rd /\ c.wr /\ c.res_ready
             /\ ~c.file_fd /\ ~c.file_stream_active
             /\ c.out = HeadSize /\ c.sent = 0 /\ c.len = 0 /\ c.off = 0
    BY <1>1, AnsweringFacts
<1>5. CASE StartFails
  <2>1. PICK k \in BOOLEAN: conn' = Answering(k)
      BY <1>5 DEF StartFails
  <2>2. fds' = 0 /\ disk' = disk /\ hist' = Announced(0)
      BY <1>3, <1>5 DEF StartFails
  <2>5. /\ hist' \in HistType /\ hist'.declared = 0 /\ hist'.body = 0
        /\ hist'.head = HeadSize
      BY <1>1, <2>2 DEF Announced, HistType
  <2>3. TypeOK'
      BY <1>1, <1>2, <1>4, <2>1, <2>2, <2>5 DEF TypeOK, PeerType, DiskType, HistType
  <2>4. QED
      BY <1>1, <1>2, <1>4, <2>1, <2>2, <2>3, <2>5
      DEF StreamInv, Conserved, Framed, NoDescriptorLeak, StreamIsPolled
<1>6. CASE StartStream
  <2>1. PICK k \in BOOLEAN:
            conn' = [Answering(k) EXCEPT !.file_fd = TRUE,
                        !.file_stream_active = TRUE, !.remaining = disk.size]
      BY <1>6 DEF StartStream
  <2>2. /\ fds' = 1 /\ disk' \in DiskType /\ disk'.pos = 0
        /\ hist' \in HistType /\ hist'.declared = disk.size /\ hist'.body = 0
        /\ hist'.head = HeadSize
    <3>5. fds' = Released(conn) + 1
        BY <1>6, Zenon DEF StartStream
    <3>0. fds' = 1
        BY <1>3, <3>5
    <3>1. /\ disk' = [disk EXCEPT !.pos = 0]
          /\ hist' = Announced(disk.size)
        BY <1>6, Zenon DEF StartStream
    <3>2. disk' \in DiskType /\ disk'.pos = 0
        BY <1>1, <3>1 DEF DiskType
    <3>3. disk.size \in 0..MaxSize
        BY <1>1 DEF DiskType
    <3>4. QED
        BY <1>1, <3>0, <3>1, <3>2, <3>3 DEF Announced, HistType
  <2>3. /\ conn' \in ConnType /\ conn'.open /\ ~conn'.rd /\ conn'.wr
        /\ conn'.res_ready /\ conn'.file_fd /\ conn'.file_stream_active
        /\ conn'.out = HeadSize /\ conn'.sent = 0 /\ conn'.len = 0
        /\ conn'.off = 0 /\ conn'.remaining = disk.size /\ disk.size \in Nat
    <3> DEFINE a == Answering(k)
    <3>1. /\ a \in ConnType /\ a.open /\ ~a.rd /\ a.wr /\ a.res_ready
          /\ a.out = HeadSize /\ a.sent = 0 /\ a.len = 0 /\ a.off = 0
        BY <1>4
    <3>2. disk.size \in Nat
        BY <1>1 DEF DiskType
    <3> HIDE DEF a
    <3>3. conn' = [a EXCEPT !.file_fd = TRUE, !.file_stream_active = TRUE,
                            !.remaining = disk.size]
        BY <2>1 DEF a
    <3>4. QED
        BY <3>1, <3>2, <3>3 DEF ConnType
  <2>4. TypeOK'
      BY <1>1, <1>2, <2>2, <2>3 DEF TypeOK, PeerType, DiskType, HistType
  <2>5. QED
      BY <1>1, <1>2, <2>2, <2>3, <2>4
      DEF StreamInv, Conserved, Framed, NoDescriptorLeak, StreamIsPolled
<1>7. QED
    BY <1>5, <1>6

LEMMA SendHeadStep == StreamInv /\ SendHead => StreamInv'
<1> SUFFICES ASSUME StreamInv, SendHead PROVE StreamInv'
    OBVIOUS
<1>1. /\ conn \in ConnType /\ peer \in PeerType /\ disk' \in DiskType
      /\ hist \in HistType /\ UNCHANGED disk /\ conn.open /\ conn.wr
      /\ conn.out > 0 /\ hist.body = 0 /\ conn.sent < conn.out /\ ~peer.asked
      /\ hist.head = conn.out - conn.sent /\ HeadSize \in Nat
      /\ BufSize \in Nat /\ SockCap \in Nat /\ ~conn.rd /\ conn.sent <= conn.out
      /\ conn.len <= BufSize /\ conn.off <= conn.len
    BY StreamAssumption
    DEF StreamInv, TypeOK, PeerType, DiskType, HistType, SendHead, Writable
<1>2. PICK n \in 0..Lesser(conn.out - conn.sent, SockCap - peer.sock):
        LET c == IF n = 0 THEN conn
                 ELSE [conn EXCEPT !.sent = @ + n, !.expired = FALSE]
            done == [c EXCEPT !.out = 0, !.sent = 0]
        IN  /\ IF c.sent < c.out THEN conn' = c /\ UNCHANGED fds
               ELSE IF c.file_stream_active THEN conn' = done /\ UNCHANGED fds
               ELSE Finalize(done)
            /\ peer' = Received(n)
            /\ hist' = [hist EXCEPT !.head = @ - n]
    BY DEF SendHead
<1> DEFINE c == IF n = 0 THEN conn
                ELSE [conn EXCEPT !.sent = @ + n, !.expired = FALSE]
           done == [c EXCEPT !.out = 0, !.sent = 0]
<1>3. conn.out - conn.sent \in Nat /\ SockCap - peer.sock \in Nat
    BY <1>1 DEF ConnType, PeerType
<1>4. n \in Nat /\ n <= conn.out - conn.sent /\ n <= SockCap - peer.sock
  <2> DEFINE a == conn.out - conn.sent
             b == SockCap - peer.sock
  <2>1. a \in Nat /\ b \in Nat /\ n \in 0..Lesser(a, b)
      BY <1>3
  <2> HIDE DEF a, b
  <2>2. n \in Nat /\ n <= a /\ n <= b
      BY <2>1, LesserFacts
  <2>3. QED
      BY <2>2 DEF a, b
<1>5. peer' \in PeerType /\ ~peer'.asked
    BY <1>1, <1>2, <1>4, ReceivedType DEF StreamInv
<1>12. /\ hist' \in HistType /\ hist'.head = conn.out - (conn.sent + n)
       /\ hist'.declared = hist.declared /\ hist'.body = hist.body
  <2>1. hist.head - n \in 0..HeadSize /\ hist.head - n = conn.out - (conn.sent + n)
      BY <1>1, <1>4 DEF HistType, ConnType
  <2>2. hist' = [hist EXCEPT !.head = @ - n]
      BY <1>2
  <2>3. QED
      BY <1>1, <2>1, <2>2 DEF HistType
<1>6. /\ c \in ConnType /\ c.open /\ c.wr /\ ~c.rd /\ c.res_ready = conn.res_ready
      /\ c.out = conn.out /\ c.sent = conn.sent + n /\ c.file_fd = conn.file_fd
      /\ c.file_stream_active = conn.file_stream_active
      /\ c.len = conn.len /\ c.off = conn.off /\ c.remaining = conn.remaining
  <2>1. CASE n = 0
      BY <1>1, <2>1 DEF ConnType
  <2>2. CASE n # 0
    <3> DEFINE m == conn.sent + n
    <3>1. m \in Nat
        BY <1>1, <1>4 DEF ConnType
    <3>2. c = [conn EXCEPT !.sent = m, !.expired = FALSE]
        BY <2>2
    <3> HIDE DEF m, c
    <3>3. QED
        BY <1>1, <3>1, <3>2 DEF ConnType, m
  <2>3. QED
      BY <2>1, <2>2
<1> HIDE DEF c
<1>7. /\ done \in ConnType /\ done.open /\ done.wr /\ ~done.rd
      /\ done.res_ready = c.res_ready /\ done.out = 0 /\ done.sent = 0
      /\ done.file_fd = c.file_fd
      /\ done.file_stream_active = c.file_stream_active
      /\ done.len = c.len /\ done.off = c.off /\ done.remaining = c.remaining
    BY <1>6 DEF ConnType
<1>8. CASE c.sent < c.out
  <2>1. conn' = c /\ fds' = fds
      BY <1>2, <1>8 DEF c
  <2>2. TypeOK'
      BY <1>1, <1>5, <1>6, <1>12, <2>1 DEF StreamInv, TypeOK, PeerType, HistType
  <2>3. c.sent <= c.out
      BY <1>6, <1>8 DEF ConnType
  <2>4. QED
      BY <1>1, <1>5, <1>6, <1>8, <1>12, <2>1, <2>2, <2>3
      DEF StreamInv, Conserved, Framed, NoDescriptorLeak, StreamIsPolled
<1>9. CASE ~(c.sent < c.out) /\ c.file_stream_active
  <2>1. conn' = done /\ fds' = fds
      BY <1>2, <1>9 DEF c
  <2> HIDE DEF done
  <2>2. TypeOK'
      BY <1>1, <1>5, <1>6, <1>7, <1>12, <2>1
      DEF StreamInv, TypeOK, PeerType, HistType
  <2>4. hist'.head = 0
      BY <1>1, <1>4, <1>6, <1>9, <1>12 DEF ConnType
  <2>3. QED
      BY <1>1, <1>5, <1>6, <1>7, <1>12, <2>1, <2>2, <2>4
      DEF StreamInv, Conserved, Framed, NoDescriptorLeak, StreamIsPolled
<1>10. CASE ~(c.sent < c.out) /\ ~c.file_stream_active
  <2>1. Finalize(done)
      BY <1>2, <1>10 DEF c
  <2> HIDE DEF done
  <2>2. hist'.body = hist'.declared /\ ~c.file_fd
      BY <1>1, <1>6, <1>10, <1>12 DEF StreamInv
  <2>4. hist'.head = 0
      BY <1>1, <1>4, <1>6, <1>10, <1>12 DEF ConnType
  <2>3. QED
      BY <1>1, <1>5, <1>6, <1>7, <1>10, <1>12, <2>1, <2>2, <2>4, FinalizeKeeps
<1>11. QED
    BY <1>8, <1>9, <1>10

\* What file_buf holds or a read has just put there, sent or not.
LEMMA SendChunkKeeps ==
    ASSUME StreamInv, Streaming,
           NEW c \in ConnType, c.open, c.wr, ~c.rd, c.res_ready, c.file_fd,
           c.file_stream_active, c.out = 0, c.sent = 0,
           c.len <= BufSize, c.off <= c.len,
           hist.body + (c.len - c.off) + c.remaining = hist.declared,
           disk'.pos = hist.body + (c.len - c.off), disk' \in DiskType,
           SendChunk(c)
    PROVE  StreamInv'
<1>1. /\ peer \in PeerType /\ hist \in HistType /\ SockCap \in Nat
      /\ BufSize \in Nat /\ MaxSize \in Nat /\ conn.file_fd /\ conn.file_stream_active
      /\ hist.head = 0 /\ ~peer.asked
  <2>1. /\ conn \in ConnType /\ conn.out = 0 /\ conn.sent <= conn.out /\ conn.open
        /\ conn.wr /\ ~conn.rd /\ hist.head = conn.out - conn.sent /\ ~peer.asked
      BY DEF StreamInv, TypeOK, StreamIsPolled, Streaming, Writable
  <2>2. hist.head = 0
      BY <2>1 DEF ConnType
  <2>3. QED
      BY <2>1, <2>2, StreamAssumption
      DEF StreamInv, TypeOK, PeerType, HistType, Streaming
<1>2. PICK n \in 0..Lesser(c.len - c.off, SockCap - peer.sock):
        LET d == Advance(c, n) IN
        /\ IF n > 0 /\ d.off = d.len /\ d.remaining = 0
           THEN Finalize(Reset(d))
           ELSE conn' = d /\ UNCHANGED fds
        /\ peer' = Received(n)
        /\ hist' = [hist EXCEPT !.body = @ + n]
    BY DEF SendChunk
<1> DEFINE d == Advance(c, n)
<1>3. n \in Nat /\ n <= c.len - c.off /\ n <= SockCap - peer.sock
  <2> DEFINE a == c.len - c.off
             b == SockCap - peer.sock
  <2>1. a \in Nat /\ b \in Nat /\ n \in 0..Lesser(a, b)
      BY <1>1 DEF ConnType, PeerType
  <2> HIDE DEF a, b
  <2>2. n \in Nat /\ n <= a /\ n <= b
      BY <2>1, LesserFacts
  <2>3. QED
      BY <2>2 DEF a, b
<1>4. peer' \in PeerType /\ ~peer'.asked
    BY <1>1, <1>2, <1>3, ReceivedType DEF StreamInv
<1>5. /\ hist' \in HistType /\ hist'.declared = hist.declared
      /\ hist'.body = hist.body + n /\ hist'.head = 0
    BY <1>1, <1>2, <1>3 DEF HistType
<1>6. /\ d \in ConnType /\ d.open /\ d.wr /\ ~d.rd /\ d.res_ready /\ d.file_fd
      /\ d.file_stream_active /\ d.out = 0 /\ d.sent = 0
      /\ d.len = c.len /\ d.off = c.off + n /\ d.remaining = c.remaining
  <2>1. CASE n = 0
      BY <2>1 DEF Advance, ConnType
  <2>2. CASE n # 0
    <3> DEFINE m == c.off + n
    <3>1. m \in Nat
        BY <1>3 DEF ConnType
    <3>2. d = [c EXCEPT !.off = m, !.expired = FALSE]
        BY <2>2 DEF Advance
    <3> HIDE DEF m, d
    <3>3. QED
        BY <3>1, <3>2 DEF ConnType, m
  <2>3. QED
      BY <2>1, <2>2
<1> HIDE DEF d
<1>7. d.off <= d.len /\ d.len <= BufSize
    BY <1>3, <1>6 DEF ConnType
<1>8. hist'.body + (d.len - d.off) = hist.body + (c.len - c.off)
    BY <1>1, <1>3, <1>5, <1>6 DEF ConnType, HistType
<1>9. CASE n > 0 /\ d.off = d.len /\ d.remaining = 0
  <2>1. Finalize(Reset(d))
      BY <1>2, <1>9 DEF d
  <2>2. hist'.body = hist'.declared
      BY <1>5, <1>6, <1>8, <1>9 DEF ConnType, HistType
  <2> DEFINE e == Reset(d)
  <2>3. /\ e \in ConnType /\ e.open /\ ~e.file_fd /\ ~e.file_stream_active
        /\ e.out = 0 /\ e.sent = 0 /\ e.len <= BufSize /\ e.off <= e.len
      BY <1>1, <1>6, ResetFacts
  <2> HIDE DEF e
  <2>4. Finalize(e)
      BY <2>1 DEF e
  <2>5. QED
      BY <1>4, <1>5, <2>2, <2>3, <2>4, FinalizeKeeps
<1>10. CASE ~(n > 0 /\ d.off = d.len /\ d.remaining = 0)
  <2>1. conn' = d /\ fds' = fds
      BY <1>2, <1>10 DEF d
  <2>2. TypeOK'
      BY <1>4, <1>5, <1>6, <1>7, <2>1
      DEF StreamInv, TypeOK, PeerType, HistType, DiskType
  <2>3. /\ hist'.body + (d.len - d.off) + d.remaining = hist'.declared
        /\ disk'.pos = hist'.body + (d.len - d.off)
        /\ hist'.body <= hist'.declared
      BY <1>5, <1>6, <1>7, <1>8 DEF ConnType, HistType
  <2>4. QED
      BY <1>1, <1>4, <1>5, <1>6, <2>1, <2>2, <2>3
      DEF StreamInv, Conserved, Framed, NoDescriptorLeak, StreamIsPolled
<1>11. QED
    BY <1>9, <1>10

LEMMA SendStep == StreamInv /\ (SendBuffered \/ ReadAndSend) => StreamInv'
<1> SUFFICES ASSUME StreamInv, SendBuffered \/ ReadAndSend PROVE StreamInv'
    OBVIOUS
<1>1. /\ conn \in ConnType /\ disk \in DiskType /\ Streaming
      /\ conn.open /\ conn.wr /\ ~conn.rd /\ conn.res_ready /\ conn.file_fd
      /\ conn.file_stream_active /\ conn.out = 0 /\ conn.sent <= conn.out
      /\ conn.len <= BufSize /\ conn.off <= conn.len
    BY DEF StreamInv, TypeOK, DiskType, SendBuffered, ReadAndSend,
           Streaming, Writable, StreamIsPolled
<1>2. /\ hist.body + (conn.len - conn.off) + conn.remaining = hist.declared
      /\ disk.pos = hist.body + (conn.len - conn.off)
    BY <1>1 DEF StreamInv, Conserved
<1>3. conn.sent = 0
    BY <1>1 DEF ConnType
<1>4. CASE SendBuffered
    BY <1>1, <1>2, <1>3, <1>4, SendChunkKeeps DEF SendBuffered
<1>5. CASE ReadAndSend
  <2>1. PICK k \in 1..Lesser(ToRead(conn), disk.size - disk.pos):
          /\ SendChunk([conn EXCEPT !.off = 0, !.len = k, !.remaining = @ - k])
          /\ disk' = [disk EXCEPT !.pos = @ + k]
      BY <1>5 DEF ReadAndSend
  <2>2. conn.off >= conn.len /\ disk.pos < disk.size /\ hist \in HistType
      BY <1>5 DEF ReadAndSend, StreamInv, TypeOK, HistType
  <2>3. k \in Nat /\ k <= BufSize /\ k <= conn.remaining
    <3> DEFINE b == disk.size - disk.pos
               a == ToRead(conn)
    <3>1. b \in Nat /\ BufSize \in Nat /\ conn.remaining \in Nat /\ MaxSize \in Nat
        BY <1>1, <2>2, StreamAssumption DEF DiskType, ConnType
    <3>2. a \in Nat /\ a <= BufSize /\ a <= conn.remaining
        BY <3>1 DEF ToRead, Lesser
    <3> HIDE DEF a, b
    <3>3. k \in 0..Lesser(a, b)
        BY <3>1, <3>2 DEF Lesser, a, b
    <3>4. k \in Nat /\ k <= a
        BY <3>1, <3>2, <3>3, LesserFacts
    <3>5. QED
        BY <3>1, <3>2, <3>4
  <2> DEFINE r == conn.remaining - k
             c == [conn EXCEPT !.off = 0, !.len = k, !.remaining = r]
  <2>4. r \in Nat
      BY <1>1, <2>3 DEF ConnType
  <2>5. SendChunk(c)
      BY <2>1
  <2> HIDE DEF r
  <2>6. /\ c \in ConnType /\ c.open /\ c.wr /\ ~c.rd /\ c.res_ready /\ c.file_fd
        /\ c.file_stream_active /\ c.out = 0 /\ c.sent = 0
        /\ c.off = 0 /\ c.len = k /\ c.remaining = r
      BY <1>1, <1>3, <2>3, <2>4 DEF ConnType
  <2> HIDE DEF c
  <2>7. disk' \in DiskType /\ disk'.pos = disk.pos + k
      BY <1>1, <2>1, <2>3 DEF DiskType
  <2>8. hist.body + (c.len - c.off) + c.remaining = hist.declared
        /\ disk'.pos = hist.body + (c.len - c.off)
      BY <1>1, <1>2, <2>2, <2>3, <2>6, <2>7 DEF ConnType, HistType, r
  <2>9. c.len <= BufSize /\ c.off <= c.len
      BY <2>3, <2>6
  <2>10. QED
      BY <1>1, <2>5, <2>6, <2>7, <2>8, <2>9, SendChunkKeeps
<1>6. QED
    BY <1>4, <1>5

LEMMA FinishStep == StreamInv /\ FinishEmpty => StreamInv'
<1> SUFFICES ASSUME StreamInv, FinishEmpty PROVE StreamInv'
    OBVIOUS
<1>1. /\ conn \in ConnType /\ peer' \in PeerType /\ disk' \in DiskType
      /\ hist' \in HistType /\ hist' = hist /\ conn.open /\ conn.out = 0
      /\ conn.off >= conn.len /\ conn.remaining = 0 /\ conn.file_stream_active
      /\ conn.off <= conn.len /\ conn.sent <= conn.out /\ BufSize \in Nat
      /\ Finalize(Reset(conn))
    BY StreamAssumption
    DEF StreamInv, TypeOK, PeerType, DiskType, HistType, FinishEmpty,
        Streaming, Writable
<1>2. hist'.body = hist'.declared /\ hist'.head = 0
    BY <1>1 DEF StreamInv, Conserved, ConnType, HistType
<1> DEFINE e == Reset(conn)
<1>3. /\ e \in ConnType /\ e.open /\ ~e.file_fd /\ ~e.file_stream_active
      /\ e.out = 0 /\ e.sent = conn.sent /\ e.len = 0 /\ e.off = 0
    BY <1>1, ResetFacts
<1> HIDE DEF e
<1>4. Finalize(e)
    BY <1>1 DEF e
<1>5. e.sent = 0 /\ e.len <= BufSize /\ e.off <= e.len
    BY <1>1, <1>3 DEF ConnType
<1>6. QED
    BY <1>1, <1>2, <1>3, <1>4, <1>5, FinalizeKeeps

LEMMA CloseStep ==
    StreamInv /\ (ReadClientGone \/ ReadFails \/ CheckTimeouts) => StreamInv'
  BY CloseKeeps
  DEF ReadClientGone, ReadFails, CheckTimeouts, OnEof, StreamInv, TypeOK,
      PeerType, DiskType, HistType

\* The client, the file and the clock touch nothing the invariant relates.
LEMMA EnvironmentStep == StreamInv /\ Environment => StreamInv'
<1> SUFFICES ASSUME StreamInv, Environment PROVE StreamInv'
    OBVIOUS
<1>1. conn \in ConnType /\ peer \in PeerType /\ disk \in DiskType /\ SockCap \in Nat
    BY StreamAssumption DEF StreamInv, TypeOK, PeerType, DiskType
<1>2. peer' \in PeerType
  <2>1. CASE Ask
      BY <1>1, <2>1 DEF Ask, PeerType
  <2>2. CASE Drain
    <3>1. PICK n \in 1..peer.sock: peer' = [peer EXCEPT !.sock = @ - n]
        BY <2>2 DEF Drain
    <3>2. peer.sock - n \in 0..SockCap
        BY <1>1 DEF PeerType
    <3>3. QED
        BY <1>1, <3>1, <3>2 DEF PeerType
  <2>3. CASE Leave
      BY <1>1, <2>3 DEF Leave, ResetBy, PeerType
  <2>4. CASE Resize \/ Expire
      BY <1>1, <2>4 DEF Resize, Expire
  <2>5. QED
      BY <2>1, <2>2, <2>3, <2>4 DEF Environment
<1>3. disk' \in DiskType /\ disk'.pos = disk.pos
    BY <1>1 DEF Environment, Ask, Drain, Leave, Resize, Expire, DiskType
<1>4. /\ conn' \in ConnType /\ conn'.open = conn.open /\ conn'.rd = conn.rd
      /\ conn'.wr = conn.wr /\ conn'.res_ready = conn.res_ready
      /\ conn'.file_fd = conn.file_fd
      /\ conn'.file_stream_active = conn.file_stream_active
      /\ conn'.out = conn.out /\ conn'.sent = conn.sent /\ conn'.len = conn.len
      /\ conn'.off = conn.off /\ conn'.remaining = conn.remaining
    BY <1>1 DEF Environment, Ask, Drain, Leave, Resize, Expire, ConnType
<1>5. UNCHANGED <<fds, hist>>
    BY DEF Environment, Ask, Drain, Leave, Resize, Expire
<1>6. TypeOK'
    BY <1>2, <1>3, <1>4, <1>5 DEF StreamInv, TypeOK, PeerType, DiskType
<1>8. peer'.asked => peer.asked \/ conn.rd
    BY <1>1 DEF Environment, Ask, Drain, Leave, Resize, Expire, ResetBy, PeerType
<1>7. QED
    BY <1>8, <1>3, <1>4, <1>5, <1>6
    DEF StreamInv, Conserved, Framed, NoDescriptorLeak, StreamIsPolled

-----------------------------------------------------------------------------
(* The theorems *)

LEMMA InitHolds == Init => StreamInv
<1> SUFFICES ASSUME Init PROVE StreamInv
    OBVIOUS
<1>1. /\ conn \in ConnType /\ conn.open /\ conn.rd /\ ~conn.wr
      /\ ~conn.file_fd /\ ~conn.file_stream_active
      /\ conn.out = 0 /\ conn.sent = 0 /\ conn.len = 0 /\ conn.off = 0
    BY Zenon DEF Init, Closed, ConnType
<1>2. TypeOK
    BY <1>1, StreamAssumption DEF Init, TypeOK
<1>3. QED
    BY <1>1, <1>2
    DEF Init, StreamInv, Conserved, Framed, NoDescriptorLeak, StreamIsPolled

\* The inductive invariant, through every handler of a connection that serves
\* files (start_static_file_stream to reset_static_file_stream).
THEOREM StreamInvariant == Spec => []StreamInv
<1>1. StreamInv /\ [Next]_vars => StreamInv'
  <2> SUFFICES ASSUME StreamInv, [Next]_vars PROVE StreamInv'
      OBVIOUS
  <2>1. CASE Server
      BY <2>1, StartStep, SendHeadStep, SendStep, FinishStep, CloseStep DEF Server
  <2>2. CASE Environment
      BY <2>2, EnvironmentStep
  <2>3. CASE UNCHANGED vars
      BY <2>3
      DEF vars, StreamInv, TypeOK, Conserved, Framed, NoDescriptorLeak,
          StreamIsPolled
  <2>4. QED
      BY <2>1, <2>2, <2>3 DEF Next
<1>2. QED
    BY <1>1, InitHolds, PTL DEF Spec

\* Types, file_buf within its size and the socket buffer within its capacity.
THEOREM TypeCorrect == Spec => []TypeOK
  BY StreamInvariant, PTL DEF StreamInv

\* What is announced is sent, buffered or still to be read, and file_buf holds
\* what follows in the file (write_static_file_chunk).
THEOREM Conservation == Spec => []Conserved
  BY StreamInvariant, PTL DEF StreamInv

\* The next request is read only after exactly Content-Length units of body.
THEOREM Framing == Spec => []Framed
  BY StreamInvariant, PTL DEF StreamInv

\* One descriptor per active stream, none otherwise (reset_static_file_stream).
THEOREM NoLeak == Spec => []NoDescriptorLeak
  BY StreamInvariant, PTL DEF StreamInv

\* An active stream waits for an event that comes (write_static_file_chunk).
THEOREM StreamPolled == Spec => []StreamIsPolled
  BY StreamInvariant, PTL DEF StreamInv

-----------------------------------------------------------------------------
(* StaticStream implements KeptAlive *)

\* The client's side of a step that it has no part in.
SameClient == peer'.asked = peer.asked /\ peer'.state = peer.state

LEMMA DueFacts ==
    ASSUME StreamInv
    PROVE  /\ Due \in Nat /\ (Link = "reading" => Due = 0)
           /\ hist.head \in Nat /\ hist.declared \in Nat /\ hist.body \in Nat
           /\ hist.body <= hist.declared
<1>1. hist \in HistType /\ hist.body <= hist.declared /\ HeadSize \in Nat
      /\ MaxSize \in Nat
    BY StreamAssumption DEF StreamInv, TypeOK, HistType
<1>2. hist.head \in Nat /\ hist.declared \in Nat /\ hist.body \in Nat
    BY <1>1 DEF HistType
<1>3. Due \in Nat
    BY <1>1, <1>2 DEF Due
<1>4. Link = "reading" => hist.head = 0 /\ hist.body = hist.declared
    BY DEF Link, StreamInv, Framed
<1>5. Link = "reading" => Due = 0
    BY <1>2, <1>4 DEF Due
<1>6. QED
    BY <1>1, <1>2, <1>3, <1>5

LEMMA NextDue ==
    ASSUME StreamInv'
    PROVE  Due' \in Nat /\ (Link' = "reading" => Due' = 0)
           /\ hist'.head \in Nat /\ hist'.declared \in Nat /\ hist'.body \in Nat
           /\ hist'.body <= hist'.declared
<1>1. hist' \in HistType /\ hist'.body <= hist'.declared /\ HeadSize \in Nat
      /\ MaxSize \in Nat
    BY StreamAssumption DEF StreamInv, TypeOK, HistType
<1>2. hist'.head \in Nat /\ hist'.declared \in Nat /\ hist'.body \in Nat
    BY <1>1 DEF HistType
<1>3. Due' \in Nat
    BY <1>1, <1>2 DEF Due
<1>4. Link' = "reading" => hist'.head = 0 /\ hist'.body = hist'.declared
    BY DEF Link, StreamInv, Framed
<1>5. Link' = "reading" => Due' = 0
    BY <1>2, <1>4 DEF Due
<1>6. QED
    BY <1>1, <1>2, <1>3, <1>5

\* A handler of a connection that answers: what is due does not grow.
LEMMA AnswerStep ==
    ASSUME StreamInv, StreamInv', conn.open, ~conn.rd, Due' <= Due,
           SameClient \/ (Due' < Due /\ Connection!Gone)
    PROVE  [Connection!Next]_(Connection!vars)
<1>1. /\ Link = "answering" /\ Due \in Nat /\ Due' \in Nat
      /\ Link' \in {"closed", "reading", "answering"}
      /\ (Link' = "reading" => Due' = 0)
    BY DueFacts, NextDue DEF Link
<1>2. CASE Link' = "closed"
  <2>1. Connection!Close
      BY <1>1, <1>2 DEF Connection!Close, SameClient
  <2>2. QED
      BY <2>1 DEF Connection!Next
<1>3. CASE Link' # "closed" /\ Due' < Due
  <2>1. Connection!Send
      BY <1>1, <1>3 DEF Connection!Send, SameClient
  <2>2. QED
      BY <2>1 DEF Connection!Next
<1>4. CASE Link' # "closed" /\ ~(Due' < Due)
  <2>1. Due' = Due /\ SameClient
      BY <1>1, <1>4
  <2>2. CASE Link' = "reading"
    <3>1. Connection!Finish
        BY <1>1, <2>1, <2>2 DEF Connection!Finish, SameClient
    <3>2. QED
        BY <3>1 DEF Connection!Next
  <2>3. CASE Link' = "answering"
      BY <1>1, <2>1, <2>3 DEF Connection!vars, SameClient
  <2>4. QED
      BY <1>1, <1>4, <2>2, <2>3
<1>5. QED
    BY <1>2, <1>3, <1>4

\* What a send of n units is to the client.
LEMMA ReceivedAs ==
    ASSUME StreamInv, NEW n \in Nat, peer' = Received(n)
    PROVE  SameClient \/ (n > 0 /\ Connection!Gone)
<1>1. peer \in PeerType
    BY DEF StreamInv, TypeOK, PeerType
<1>2. CASE n > 0 /\ peer.state = "fin"
  <2>1. peer'.state = "rst" /\ peer'.asked = FALSE
      BY <1>1, <1>2 DEF Received, ResetBy, PeerType
  <2>2. QED
      BY <1>2, <2>1 DEF Connection!Gone
<1>3. CASE ~(n > 0 /\ peer.state = "fin")
  <2>1. peer' = [peer EXCEPT !.sock = @ + n]
      BY <1>3, Zenon DEF Received
  <2>2. QED
      BY <1>1, <2>1 DEF SameClient, PeerType
<1>4. QED
    BY <1>2, <1>3

LEMMA BeginsAs ==
    StreamInv /\ StreamInv' /\ (StartFails \/ StartStream) => Connection!Begin
<1> SUFFICES ASSUME StreamInv, StreamInv', StartFails \/ StartStream
             PROVE  Connection!Begin
    OBVIOUS
<1>1. conn \in ConnType /\ peer \in PeerType /\ conn.open /\ conn.rd /\ peer.asked
    BY DEF StreamInv, TypeOK, PeerType, StartFails, StartStream, Requested
<1>2. /\ peer'.asked = FALSE /\ peer'.state = peer.state /\ hist'.head = HeadSize
      /\ HeadSize \in Nat \ {0}
  <2>1. /\ peer' = [peer EXCEPT !.asked = FALSE]
        /\ hist' = Announced(0) \/ hist' = Announced(disk.size)
      BY Zenon DEF StartFails, StartStream
  <2>2. QED
      BY <1>1, <2>1, StreamAssumption DEF PeerType, Announced
<1>3. conn'.open /\ ~conn'.rd
  <2>2. PICK k \in BOOLEAN:
            \/ conn' = Answering(k)
            \/ conn' = [Answering(k) EXCEPT !.file_fd = TRUE,
                           !.file_stream_active = TRUE, !.remaining = disk.size]
      BY DEF StartFails, StartStream
  <2> DEFINE a == Answering(k)
  <2>3. a \in ConnType /\ a.open /\ ~a.rd
      BY <1>1, AnsweringFacts
  <2> HIDE DEF a
  <2>4. \/ conn' = a
        \/ conn' = [a EXCEPT !.file_fd = TRUE, !.file_stream_active = TRUE,
                             !.remaining = disk.size]
      BY <2>2 DEF a
  <2>5. QED
      BY <2>3, <2>4 DEF ConnType
<1>4. Due' \in Nat \ {0}
  <2>1. /\ hist'.declared \in Nat /\ hist'.body \in Nat
        /\ hist'.body <= hist'.declared
      BY NextDue
  <2>2. QED
      BY <1>2, <2>1 DEF Due
<1>5. Link = "reading" /\ Link' = "answering"
    BY <1>1, <1>3 DEF Link
<1>6. QED
    BY <1>1, <1>2, <1>4, <1>5 DEF Connection!Begin

LEMMA SendHeadAs ==
    StreamInv /\ StreamInv' /\ SendHead => [Connection!Next]_(Connection!vars)
<1> SUFFICES ASSUME StreamInv, StreamInv', SendHead
             PROVE  [Connection!Next]_(Connection!vars)
    OBVIOUS
<1>1. /\ conn.open /\ ~conn.rd /\ hist \in HistType /\ conn \in ConnType
      /\ conn.sent <= conn.out /\ SockCap \in Nat /\ peer \in PeerType
    BY StreamAssumption
    DEF StreamInv, TypeOK, HistType, PeerType, SendHead, Writable
<1>2. PICK n \in 0..Lesser(conn.out - conn.sent, SockCap - peer.sock):
          peer' = Received(n) /\ hist' = [hist EXCEPT !.head = @ - n]
    BY DEF SendHead
<1>3. n \in Nat
  <2> DEFINE a == conn.out - conn.sent
             b == SockCap - peer.sock
  <2>1. a \in Nat /\ b \in Nat /\ n \in 0..Lesser(a, b)
      BY <1>1 DEF ConnType, PeerType
  <2> HIDE DEF a, b
  <2>2. QED
      BY <2>1, LesserFacts
<1>4. Due' = Due - n
  <2>1. /\ hist'.head = hist.head - n /\ hist'.declared = hist.declared
        /\ hist'.body = hist.body
      BY <1>1, <1>2 DEF HistType
  <2>2. hist.head \in Nat /\ hist.declared \in Nat /\ hist.body \in Nat
      BY DueFacts
  <2>3. QED
      BY <1>3, <2>1, <2>2 DEF Due
<1>5. Due \in Nat
    BY DueFacts
<1>6. SameClient \/ (n > 0 /\ Connection!Gone)
    BY <1>2, <1>3, ReceivedAs
<1>7. Due' <= Due /\ (n > 0 => Due' < Due)
    BY <1>3, <1>4, <1>5
<1>8. QED
    BY <1>1, <1>6, <1>7, AnswerStep

LEMMA SendAs ==
    StreamInv /\ StreamInv' /\ (SendBuffered \/ ReadAndSend)
        => [Connection!Next]_(Connection!vars)
<1> SUFFICES ASSUME StreamInv, StreamInv', SendBuffered \/ ReadAndSend
             PROVE  [Connection!Next]_(Connection!vars)
    OBVIOUS
<1>1. /\ conn.open /\ ~conn.rd /\ hist \in HistType /\ conn \in ConnType
      /\ SockCap \in Nat /\ peer \in PeerType /\ conn.off <= conn.len
    BY StreamAssumption
    DEF StreamInv, TypeOK, HistType, PeerType, StreamIsPolled, SendBuffered,
        ReadAndSend, Streaming, Writable
<1>2. PICK n \in Nat: peer' = Received(n) /\ hist' = [hist EXCEPT !.body = @ + n]
  <2>1. ASSUME NEW l \in Nat, NEW n \in 0..Lesser(l, SockCap - peer.sock)
        PROVE  n \in Nat
    <3> DEFINE b == SockCap - peer.sock
    <3>1. b \in Nat /\ n \in 0..Lesser(l, b)
        BY <1>1 DEF PeerType
    <3> HIDE DEF b
    <3>2. QED
        BY <3>1, LesserFacts
  <2>2. CASE SendBuffered
    <3>1. conn.len - conn.off \in Nat
        BY <1>1 DEF ConnType
    <3>2. QED
        BY <2>1, <2>2, <3>1 DEF SendBuffered, SendChunk
  <2>3. CASE ReadAndSend
    <3>1. PICK k \in 1..Lesser(ToRead(conn), disk.size - disk.pos):
            SendChunk([conn EXCEPT !.off = 0, !.len = k, !.remaining = @ - k])
        BY <2>3 DEF ReadAndSend
    <3> DEFINE c == [conn EXCEPT !.off = 0, !.len = k, !.remaining = @ - k]
    <3>2. c.len = k /\ c.off = 0
        BY <1>1 DEF ConnType
    <3>3. SendChunk(c)
        BY <3>1
    <3> HIDE DEF c
    <3>4. PICK n \in 0..Lesser(c.len - c.off, SockCap - peer.sock):
            peer' = Received(n) /\ hist' = [hist EXCEPT !.body = @ + n]
        BY <3>3 DEF SendChunk
    <3>7. k \in Nat
      <4>1. /\ disk.size \in Nat /\ disk.pos \in Nat /\ conn.remaining \in Nat
            /\ BufSize \in Nat
          BY <1>1, StreamAssumption DEF StreamInv, TypeOK, ConnType
      <4>4. disk.pos < disk.size
          BY <2>3 DEF ReadAndSend
      <4>2. Lesser(ToRead(conn), disk.size - disk.pos) \in Nat
          BY <4>1, <4>4 DEF Lesser, ToRead
      <4>3. QED
          BY <4>2
    <3>5. c.len - c.off \in Nat
        BY <3>2, <3>7
    <3>6. QED
        BY <2>1, <3>4, <3>5
  <2>4. QED
      BY <2>2, <2>3
<1>4. Due' = Due - n
  <2>1. /\ hist'.head = hist.head /\ hist'.declared = hist.declared
        /\ hist'.body = hist.body + n
      BY <1>1, <1>2 DEF HistType
  <2>2. hist.head \in Nat /\ hist.declared \in Nat /\ hist.body \in Nat
      BY DueFacts
  <2>3. QED
      BY <1>2, <2>1, <2>2 DEF Due
<1>5. Due \in Nat
    BY DueFacts
<1>6. SameClient \/ (n > 0 /\ Connection!Gone)
    BY <1>2, ReceivedAs
<1>7. Due' <= Due /\ (n > 0 => Due' < Due)
    BY <1>2, <1>4, <1>5
<1>8. QED
    BY <1>1, <1>6, <1>7, AnswerStep

LEMMA EndsAs ==
    /\ StreamInv /\ StreamInv'
    /\ ReadClientGone \/ ReadFails \/ FinishEmpty \/ CheckTimeouts
    => [Connection!Next]_(Connection!vars)
<1> SUFFICES ASSUME StreamInv, StreamInv',
                    ReadClientGone \/ ReadFails \/ FinishEmpty \/ CheckTimeouts
             PROVE  [Connection!Next]_(Connection!vars)
    OBVIOUS
<1>1. Due \in Nat /\ Due' = Due /\ SameClient /\ conn.open
    BY DueFacts
    DEF Due, SameClient, ReadClientGone, ReadFails, FinishEmpty, CheckTimeouts,
        Streaming, Writable
<1>2. CASE FinishEmpty
  <2>1. ~conn.rd
      BY <1>2 DEF FinishEmpty, Streaming, StreamInv, StreamIsPolled
  <2>2. Due' <= Due
      BY <1>1
  <2>3. QED
      BY <1>1, <2>1, <2>2, AnswerStep
<1>3. CASE ReadClientGone \/ ReadFails \/ CheckTimeouts
  <2>1. ~conn'.open
      BY <1>3, ClosedFacts
      DEF ReadClientGone, ReadFails, OnEof, CheckTimeouts, CloseClient
  <2>2. Link # "closed" /\ Link' = "closed"
      BY <1>1, <2>1 DEF Link
  <2>3. Connection!Close
      BY <1>1, <2>2 DEF Connection!Close, SameClient
  <2>4. QED
      BY <2>3 DEF Connection!Next
<1>4. QED
    BY <1>2, <1>3

LEMMA EnvironmentAs ==
    StreamInv /\ Environment => [Connection!Next]_(Connection!vars)
<1> SUFFICES ASSUME StreamInv, Environment
             PROVE  [Connection!Next]_(Connection!vars)
    OBVIOUS
<1>1. conn \in ConnType /\ peer \in PeerType
    BY DEF StreamInv, TypeOK, PeerType
<1>2. Due' = Due
    BY DEF Due, Environment, Ask, Drain, Leave, Resize, Expire
<1>3. Link' = Link
    BY <1>1 DEF Link, Environment, Ask, Drain, Leave, Resize, Expire, ConnType
<1>4. CASE Ask
  <2>1. Connection!Ask
      BY <1>1, <1>2, <1>3, <1>4 DEF Ask, Connection!Ask, Link, PeerType
  <2>2. QED
      BY <2>1 DEF Connection!Next
<1>5. CASE Leave
  <2>1. peer.state = "up" /\ peer'.state # "up" /\ peer'.asked \in {peer.asked, FALSE}
      BY <1>1, <1>5 DEF Leave, ResetBy, PeerType
  <2>2. Connection!Leave
      BY <1>2, <1>3, <2>1 DEF Connection!Leave, Connection!Gone
  <2>3. QED
      BY <2>2 DEF Connection!Next
<1>6. CASE Drain \/ Resize \/ Expire
  <2>1. SameClient
      BY <1>1, <1>6 DEF SameClient, Drain, Resize, Expire, PeerType
  <2>2. QED
      BY <1>2, <1>3, <2>1 DEF SameClient, Connection!vars
<1>7. QED
    BY <1>4, <1>5, <1>6 DEF Environment

\* For every size of files, buffers and heads: each request for a file is answered
\* in full before the next is read, or is the last of its connection
\* (start_static_file_stream, client_write, finalize_response_write).
THEOREM Implements == Spec => KeepsAlive
<1>1. Init => Connection!Init
  <2> SUFFICES ASSUME Init PROVE Connection!Init
      OBVIOUS
  <2>1. conn.open /\ conn.rd /\ Due = 0
      BY DEF Init, Closed, Due
  <2>2. Link = "reading"
      BY <2>1 DEF Link
  <2>3. QED
      BY <2>1, <2>2 DEF Init, Connection!Init
<1>2. StreamInv /\ StreamInv' /\ [Next]_vars => [Connection!Next]_(Connection!vars)
  <2> SUFFICES ASSUME StreamInv, StreamInv', [Next]_vars
               PROVE  [Connection!Next]_(Connection!vars)
      OBVIOUS
  <2>1. CASE StartFails \/ StartStream
    <3>1. Connection!Begin
        BY <2>1, BeginsAs
    <3>2. QED
        BY <3>1 DEF Connection!Next
  <2>2. CASE SendHead
      BY <2>2, SendHeadAs
  <2>3. CASE SendBuffered \/ ReadAndSend
      BY <2>3, SendAs
  <2>4. CASE ReadClientGone \/ ReadFails \/ FinishEmpty \/ CheckTimeouts
      BY <2>4, EndsAs
  <2>5. CASE Environment
      BY <2>5, EnvironmentAs
  <2>6. CASE UNCHANGED vars
      BY <2>6 DEF vars, Link, Due, Connection!vars
  <2>7. QED
      BY <2>1, <2>2, <2>3, <2>4, <2>5, <2>6 DEF Next, Server
<1>3. Spec => []StreamInv
    BY StreamInvariant
<1>4. QED
    BY <1>1, <1>2, <1>3, PTL DEF Spec, KeepsAlive, Connection!Spec
=============================================================================
