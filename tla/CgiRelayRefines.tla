-------------------------- MODULE CgiRelayRefines --------------------------
(***************************************************************************)
(* CgiRelay implements CgiExchange, for every value of its constants.      *)
(*                                                                         *)
(* StepFacts says of one step only what the abstract variables depend on:  *)
(* the script's output, the history and the link.  It is proved handler by *)
(* handler; the abstract step follows from it and from RelayInv before and *)
(* after.                                                                  *)
(***************************************************************************)
EXTENDS CgiRelayProofs

-----------------------------------------------------------------------------
(* What a step does to the abstract variables *)

\* The script has written nothing, and has at most lost its stdout.
SameOutput(t, s) ==
    /\ t.wrote = s.wrote /\ t.left = s.left
    /\ t.run = "none" <=> s.run = "none"
    /\ t.stdout => s.stdout

Launched(t, s) ==
    /\ t.wrote = s.wrote /\ t.left = s.left
    /\ s.run = "none" /\ t.stdout

Wrote(t, s) ==
    /\ s.run # "none" /\ t.run # "none" /\ s.stdout /\ t.stdout
    /\ \/ ~s.wrote /\ t.wrote /\ t.left = s.left
       \/ s.wrote /\ t.wrote /\ t.left = s.left - 1

SameHist(h) ==
    h.heads = hist.heads /\ h.status = hist.status /\ h.sent = hist.sent

\* The first head is queued; the script's own only if it has written it.
FirstHead(h) ==
    /\ hist.heads = 0 /\ h.heads = 1 /\ h.sent = hist.sent
    /\ conn.open
    /\ h.status = 200 => script.out > 0

\* A handler of a connection polled for writing has sent some of response_out.
SentMore(h) ==
    /\ h.heads = hist.heads /\ h.status = hist.status
    /\ hist.sent < h.sent /\ h.sent <= hist.sent + conn.out - conn.sent
    /\ conn.open /\ conn.wr

\* The connection is open for the next request.
ReadingNext == conn.open /\ conn.rd /\ ~proc.live /\ hist.heads > 0

StepFacts ==
    /\ SameOutput(script', script) \/ Launched(script', script)
       \/ Wrote(script', script)
    /\ SameHist(hist') \/ FirstHead(hist') \/ SentMore(hist')
    /\ conn'.open => conn.open
    /\ ReadingNext /\ conn'.open => conn'.rd /\ ~proc'.live

-----------------------------------------------------------------------------
(* Cleanup and close, from whatever handler *)

\* cleanupProcess answers a process that has not, and never the others.
LEMMA CleanupFacts ==
    ASSUME RelayInv, phase # "launch", proc.live,
           NEW p \in ProcType, p.started = proc.started,
           NEW s \in ScriptType, SameOutput(s, script),
           NEW reason, NEW status, p.started \/ status \in {502, 504},
           Cleanup(p, s, reason, status)
    PROVE  StepFacts
<1>1. conn \in ConnType /\ hist \in HistType /\ proc \in ProcType
    BY DEF RelayInv, TypeOK
<1>2. IsKilled(script', s)
    BY KillFacts, Zenon DEF Cleanup
<1>3. SameOutput(script', script)
    BY <1>2 DEF IsKilled, SameOutput
<1>4. conn.open /\ ~ReadingNext
    BY DEF RelayInv, Linked, ReadingNext
<1>5. CASE p.started
    BY <1>3, <1>4, <1>5 DEF StepFacts, Cleanup, SameHist
<1>6. CASE ~p.started
  <2>1. hist.heads = 0
      BY <1>1, <1>6 DEF RelayInv, Answered, HistType, ProcType
  <2>2. IsQueued(hist', status) /\ status # 200
      BY <1>1, <1>6, QueuedFacts DEF Cleanup, Statuses
  <2>3. FirstHead(hist')
      BY <1>1, <1>4, <2>1, <2>2 DEF FirstHead, IsQueued, HistType
  <2>4. QED
      BY <1>3, <1>4, <2>3 DEF StepFacts
<1>7. QED
    BY <1>5, <1>6

\* close_client ends the link and writes nothing.
LEMMA CloseClientFacts ==
    ASSUME RelayInv, CloseClient, SameHist(hist') \/ SentMore(hist')
    PROVE  StepFacts
<1>1. script \in ScriptType
    BY DEF RelayInv, TypeOK
<1>2. IsKilled(Kill(script), script)
    BY <1>1, KillFacts
<1>3. SameOutput(script', script)
    BY <1>2 DEF CloseClient, IsKilled, SameOutput
<1>4. ~conn'.open
    BY ClosedFacts DEF CloseClient
<1>5. QED
    BY <1>3, <1>4 DEF StepFacts

\* finalize_response_write reads the next request or closes.
LEMMA FinalizeFacts ==
    ASSUME RelayInv, conn.open, conn.wr,
           NEW c \in ConnType, c.cgi_active = conn.cgi_active,
           NEW p, Finalize(c, p, script), SameHist(hist') \/ SentMore(hist')
    PROVE  StepFacts
<1>1. CASE ~c.cgi_active /\ (c.close_after_send \/ ~c.keep_alive)
    BY <1>1, CloseClientFacts DEF Finalize
<1>2. CASE ~(~c.cgi_active /\ (c.close_after_send \/ ~c.keep_alive))
  <2>1. UNCHANGED script
      BY <1>2 DEF Finalize
  <2>2. ~ReadingNext
      BY DEF RelayInv, Polled, ReadingNext
  <2>3. QED
      BY <2>1, <2>2 DEF StepFacts, SameOutput
<1>3. QED
    BY <1>1, <1>2

-----------------------------------------------------------------------------
(* The actions *)

\* Before the launch nothing is running, live or queued.
LEMMA LaunchFacts ==
    ASSUME RelayInv, Launch \/ LaunchRefused PROVE StepFacts
<1>1. /\ conn \in ConnType /\ hist \in HistType /\ script \in ScriptType
      /\ conn.open /\ script.run = "none" /\ hist.heads = 0
    BY AtLaunch DEF RelayInv, TypeOK, Unread, Launch, LaunchRefused
<1>2. ~ReadingNext
    BY <1>1 DEF ReadingNext
<1>3. CASE Launch
  <2>1. Launched(script', script)
      BY <1>1, <1>3, Zenon DEF Launch, Launched, ScriptType
  <2>2. QED
      BY <1>1, <1>2, <1>3, <2>1 DEF Launch, StepFacts, SameHist
<1>4. CASE LaunchRefused
  <2> DEFINE st == IF Undecodable THEN 400 ELSE 502
  <2>1. hist' = Queued(st) /\ st \in Statuses /\ st # 200
      BY <1>4 DEF LaunchRefused, Statuses
  <2> HIDE DEF st
  <2>2. IsQueued(hist', st)
      BY <1>1, <2>1, QueuedFacts
  <2>3. FirstHead(hist')
      BY <1>1, <2>1, <2>2 DEF FirstHead, IsQueued, HistType
  <2>4. QED
      BY <1>1, <1>2, <1>4, <2>3 DEF LaunchRefused, StepFacts, SameOutput
<1>5. QED
    BY <1>3, <1>4

\* The script's own output, unit by unit.
LEMMA ReadFacts ==
    ASSUME RelayInv, ReadHead \/ ReadBody PROVE StepFacts
<1>1. /\ script \in ScriptType /\ proc.live /\ conn.open
      /\ hist \in HistType /\ proc \in ProcType
    BY DEF RelayInv, TypeOK, Linked, ReadHead, ReadBody
<1>2. SameOutput(script', script)
    BY <1>1, Zenon DEF ReadHead, ReadBody, SameOutput, ScriptType
<1>3. ~ReadingNext
    BY <1>1 DEF ReadingNext
<1>4. CASE ReadHead
  <2>1. hist.heads = 0
      BY <1>1, <1>4 DEF RelayInv, Answered, ReadHead, HistType, ProcType
  <2>2. IsQueued(hist', 200) /\ script.out > 0
      BY <1>1, <1>4, QueuedFacts DEF ReadHead, Statuses
  <2>3. FirstHead(hist')
      BY <1>1, <2>1, <2>2 DEF FirstHead, IsQueued, HistType
  <2>4. QED
      BY <1>1, <1>2, <1>3, <2>3 DEF StepFacts
<1>5. CASE ReadBody
    BY <1>1, <1>2, <1>3, <1>5 DEF ReadBody, StepFacts, SameHist
<1>6. QED
    BY <1>4, <1>5

\* Every end of the process but the client's.
LEMMA EndFacts ==
    ASSUME RelayInv, ReadInvalidHead \/ ReadEof \/ HandleSignal PROVE StepFacts
<1>1. /\ script \in ScriptType /\ proc \in ProcType
    BY DEF RelayInv, TypeOK
<1>2. SameOutput(script, script)
    BY DEF SameOutput
<1>3. CASE ReadInvalidHead \/ ReadEof
  <2>1. proc.live
      BY <1>3 DEF RelayInv, Linked, ReadInvalidHead, ReadEof
  <2>2. QED
      BY <1>1, <1>2, <1>3, <2>1, CleanupFacts DEF ReadInvalidHead, ReadEof
<1>4. CASE HandleSignal
  <2> DEFINE q == [proc EXCEPT !.reaped = @ \/ proc.live]
             t == [script EXCEPT !.run = IF @ = "zombie" THEN "reaped" ELSE @]
  <2>1. ChildExit(q, t) /\ phase = "batch"
      BY <1>4 DEF HandleSignal, Dispatch
  <2>2. q \in ProcType /\ q.live = proc.live /\ q.started = proc.started
      BY <1>1, Zenon DEF ProcType
  <2>3. t \in ScriptType /\ SameOutput(t, script)
      BY <1>1 DEF ScriptType, SameOutput
  <2> HIDE DEF q, t
  <2>4. CASE q.live /\ t.failed /\ ~q.started
      BY <2>1, <2>2, <2>3, <2>4, CleanupFacts DEF ChildExit
  <2>5. CASE ~(q.live /\ t.failed /\ ~q.started)
      BY <2>1, <2>2, <2>3, <2>5 DEF ChildExit, StepFacts, SameHist, ReadingNext
  <2>6. QED
      BY <2>4, <2>5
<1>5. QED
    BY <1>3, <1>4

\* The end of a round: drained connections and both timeouts.
LEMMA RoundFacts ==
    ASSUME RelayInv, CloseDrained \/ CheckTimeouts PROVE StepFacts
<1>1. /\ script \in ScriptType /\ proc \in ProcType
    BY DEF RelayInv, TypeOK
<1>2. SameOutput(script, script)
    BY DEF SameOutput
<1>3. CASE CloseDrained
    BY <1>2, <1>3, CloseClientFacts 
    DEF CloseDrained, StepFacts, SameHist, ReadingNext
<1>4. CASE CheckTimeouts
  <2>1. CASE conn.open /\ conn.expired
      BY <1>4, <2>1, CloseClientFacts DEF CheckTimeouts, SameHist
  <2>2. CASE ~(conn.open /\ conn.expired) /\ CgiTimeouts
      BY <1>1, <1>2, <1>4, <2>2, CleanupFacts
      DEF CheckTimeouts, CgiTimeouts, StepFacts, SameHist, ReadingNext
  <2>3. QED
      BY <1>4, <2>1, <2>2 DEF CheckTimeouts
<1>5. QED
    BY <1>3, <1>4

\* What is written to the client comes from response_out, in its order.
LEMMA ClientWriteFacts ==
    ASSUME RelayInv, ClientWrite PROVE StepFacts
<1>1. /\ conn \in ConnType /\ proc \in ProcType /\ script \in ScriptType
      /\ hist \in HistType /\ peer \in PeerType /\ peer.sock <= SockCap
      /\ conn.open => conn.wr = conn.res_ready
      /\ conn.sent <= conn.out
    BY DEF RelayInv, TypeOK, Polled, ConnType
<1> DEFINE n == Lesser(conn.out - conn.sent, SockCap - peer.sock)
           m == hist.sent + n
           full == [conn EXCEPT !.out = 0, !.sent = 0]
<1>7. conn.out - conn.sent \in Nat /\ SockCap - peer.sock \in Nat
    BY <1>1, RelayAssumption DEF ConnType, PeerType
<1>2. n \in Nat /\ n <= conn.out - conn.sent
    BY <1>7, LesserFacts
<1>3. CASE UNCHANGED <<conn, proc, script, peer, hist>>
    BY <1>3 DEF StepFacts, SameOutput, SameHist, ReadingNext
<1>4. CASE /\ conn.open /\ conn.res_ready /\ Finalize(conn, proc, script)
           /\ UNCHANGED hist
    BY <1>1, <1>4, FinalizeFacts DEF SameHist
<1>5. CASE /\ conn.open /\ conn.res_ready /\ n # 0
           /\ IF conn.sent + n = conn.out
              THEN Finalize(full, Resume(conn, proc), script)
              ELSE /\ conn' = [conn EXCEPT !.sent = @ + n, !.expired = FALSE]
                   /\ UNCHANGED script
           /\ hist' = [hist EXCEPT !.sent = m]
  <2>1. m \in Nat /\ hist.sent < m /\ m <= hist.sent + conn.out - conn.sent
      BY <1>1, <1>2, <1>5 DEF HistType, ConnType
  <2> HIDE DEF m
  <2>2. hist'.heads = hist.heads /\ hist'.status = hist.status /\ hist'.sent = m
      BY <1>1, <1>5, <2>1, Zenon DEF HistType
  <2>3. conn.wr /\ SentMore(hist')
      BY <1>1, <1>5, <2>1, <2>2 DEF SentMore
  <2>4. CASE conn.sent + n = conn.out
    <3>1. full \in ConnType /\ full.cgi_active = conn.cgi_active
        BY <1>1 DEF ConnType
    <3> HIDE DEF full, n
    <3>2. QED
        BY <1>5, <2>3, <2>4, <3>1, FinalizeFacts
  <2>5. CASE conn.sent + n # conn.out
    <3>1. UNCHANGED script /\ ~ReadingNext
        BY <1>5, <2>3, <2>5 DEF RelayInv, Polled, ReadingNext
    <3>2. QED
        BY <1>5, <2>3, <3>1 DEF StepFacts, SameOutput
  <2>6. QED
      BY <2>4, <2>5
<1>6. QED
    BY <1>3, <1>4, <1>5 DEF ClientWrite, n, m, full

\* Steps that leave the script, the history and the link as they are.
LEMMA QuietFacts ==
    ASSUME RelayInv, UNCHANGED <<script, hist>>, proc'.live = proc.live,
           conn'.open = conn.open, conn'.rd = conn.rd
    PROVE  StepFacts
BY DEF StepFacts, SameOutput, SameHist, ReadingNext

LEMMA LoopFacts ==
    ASSUME RelayInv,
           Wait \/ EndBatch \/ BeginStdout \/ ReadAgain \/ WriteStdinFails
           \/ ReadStderr \/ DropStale \/ ReadClientLeftover \/ Peer
           \/ ExpireConn \/ ExpireIdle \/ ExpireAbsolute
    PROVE  StepFacts
<1>1. conn \in ConnType /\ proc \in ProcType
    BY DEF RelayInv, TypeOK
<1>2. CASE Wait \/ EndBatch \/ BeginStdout \/ DropStale \/ ReadClientLeftover \/ Peer
    BY <1>2, QuietFacts
    DEF Wait, EndBatch, BeginStdout, DropStale, ReadClientLeftover, Peer
<1>3. CASE ReadAgain \/ WriteStdinFails \/ ReadStderr \/ ExpireIdle \/ ExpireAbsolute
  <2>1. proc'.live = proc.live
      BY <1>1, <1>3, Zenon DEF ReadAgain, WriteStdinFails, ReadStderr, ExpireIdle,
         ExpireAbsolute, CloseStdin, ProcType
  <2>2. QED
      BY <1>3, <2>1, QuietFacts DEF ReadAgain, WriteStdinFails, ReadStderr,
         ExpireIdle, ExpireAbsolute
<1>4. CASE ExpireConn
  <2>1. conn'.open = conn.open /\ conn'.rd = conn.rd
      BY <1>1, <1>4, Zenon DEF ExpireConn, ConnType
  <2>2. QED
      BY <1>4, <2>1, QuietFacts DEF ExpireConn
<1>5. QED
    BY <1>2, <1>3, <1>4

\* Request data moves without touching the answer.
LEMMA UploadFacts ==
    ASSUME RelayInv,
           WriteStdin \/ ReadClientGone \/ ReadClientBody \/ ReadClientMalformed
    PROVE  StepFacts
<1>1. /\ conn \in ConnType /\ proc \in ProcType /\ script \in ScriptType
      /\ hist \in HistType
    BY DEF RelayInv, TypeOK
<1>2. CASE ReadClientGone \/ ReadClientMalformed
    BY <1>2, CloseClientFacts DEF ReadClientGone, ReadClientMalformed, SameHist
<1>3. CASE WriteStdin
  <2>1. SameOutput(script', script)
      BY <1>1, <1>3, Zenon DEF WriteStdin, SameOutput, ScriptType
  <2>2. proc'.live = proc.live
      BY <1>1, <1>3, Zenon DEF WriteStdin, CloseStdin, ProcType
  <2>3. QED
      BY <1>3, <2>1, <2>2 DEF WriteStdin, StepFacts, SameHist, ReadingNext
<1>4. CASE ReadClientBody
  <2>1. UNCHANGED script
      BY <1>4 DEF ReadClientBody
  <2>2. proc'.live = proc.live
      BY <1>1, <1>4, Zenon
      DEF ReadClientBody, FinishStdin, FeedStdin, CloseStdin, ProcType
  <2>3. conn'.open = conn.open /\ conn'.rd = conn.rd
      BY <1>1, <1>4, Zenon DEF ReadClientBody, ConnType
  <2>4. SameHist(hist')
      BY <1>1, <1>4, Zenon DEF ReadClientBody, SameHist, HistType
  <2>5. QED
      BY <2>1, <2>2, <2>3, <2>4 DEF StepFacts, SameOutput, ReadingNext
<1>5. QED
    BY <1>2, <1>3, <1>4

\* The script writes its head, then its body, one unit at a time.
LEMMA ScriptFacts ==
    ASSUME RelayInv, Script PROVE StepFacts
<1>1. script \in ScriptType
    BY DEF RelayInv, TypeOK
<1>2. CASE ScriptWriteHead \/ ScriptWriteBody
  <2>1. Wrote(script', script)
      BY <1>1, <1>2 DEF ScriptWriteHead, ScriptWriteBody, Wrote, ScriptType
  <2>2. QED
      BY <2>1 DEF Script, StepFacts, SameHist, ReadingNext
<1>3. CASE ScriptCloseStdout \/ ScriptReadStdin \/ ScriptCloseStdin \/ ScriptExit
  <2>1. SameOutput(script', script)
      BY <1>1, <1>3 DEF ScriptCloseStdout, ScriptReadStdin, ScriptCloseStdin,
         ScriptExit, SameOutput, ScriptType
  <2>2. QED
      BY <2>1 DEF Script, StepFacts, SameHist, ReadingNext
<1>4. QED
    BY <1>2, <1>3 DEF Script

LEMMA EveryStep == RelayInv /\ Next => StepFacts
<1> SUFFICES ASSUME RelayInv, Next PROVE StepFacts
    OBVIOUS
<1>1. CASE Server
    BY <1>1, LaunchFacts, ReadFacts, EndFacts, RoundFacts, ClientWriteFacts,
       LoopFacts, UploadFacts DEF Server
<1>2. CASE Environment
    BY <1>2, LoopFacts, ScriptFacts DEF Environment
<1>3. QED
    BY <1>1, <1>2 DEF Next

-----------------------------------------------------------------------------
(* The abstract step *)

LEMMA OutputStep == ASSUME RelayInv, StepFacts PROVE Exchange!Output
<1>1. RespMax \in Nat /\ script.left \in Nat
    BY RelayAssumption DEF RelayInv, TypeOK, ScriptType
<1>2. CASE SameOutput(script', script) \/ Launched(script', script)
    BY <1>1, <1>2 DEF SameOutput, Launched, Exchange!Output
<1>3. CASE Wrote(script', script)
    BY <1>1, <1>3 DEF Wrote, Exchange!Output
<1>4. QED
    BY <1>2, <1>3 DEF StepFacts

\* A first head is an answer of an open connection that awaits one.
LEMMA AnswerStep == ASSUME RelayInv, RelayInv', StepFacts PROVE Exchange!Answer
<1>1. script \in ScriptType /\ script' \in ScriptType /\ RespMax \in Nat
    BY RelayAssumption DEF RelayInv, TypeOK
<1>2. CASE SameHist(hist') \/ SentMore(hist')
    BY <1>2 DEF SameHist, SentMore, Exchange!Answer
<1>3. CASE FirstHead(hist')
  <2>1. conn.open /\ hist.heads = 0 /\ hist'.heads = 1
      BY <1>3 DEF FirstHead
  <2>2. CASE hist'.status = 200
    <3>1. script.out > 0 /\ ~proc.started /\ (proc.live \/ phase = "launch")
        BY <1>3, <2>1, <2>2 DEF FirstHead, RelayInv, Answered
    <3>2. script.wrote /\ script.left <= RespMax
        BY <1>1, <3>1 DEF RelayInv, Unread, ScriptType
    <3>3. script'.wrote /\ (script'.left = script.left \/ script'.left = script.left - 1)
      <4>1. SameOutput(script', script) \/ Launched(script', script)
            \/ Wrote(script', script)
          BY DEF StepFacts
      <4>2. QED
          BY <3>2, <4>1 DEF SameOutput, Launched, Wrote
    <3>4. script.left \in Nat /\ script'.left \in Nat
        BY <1>1 DEF ScriptType
    <3>5. 1 + RespMax - script'.left > 0
        BY <1>1, <3>2, <3>3, <3>4
    <3>6. QED
        BY <2>1, <2>2, <3>3, <3>5 DEF Exchange!Answer
  <2>3. CASE hist'.status # 200
      BY <2>1, <2>3 DEF Exchange!Answer
  <2>4. QED
      BY <2>2, <2>3
<1>4. QED
    BY <1>2, <1>3 DEF StepFacts

\* What is sent goes on from what was sent, within the answer.
LEMMA DeliverStep == ASSUME RelayInv, RelayInv', StepFacts PROVE Exchange!Deliver
<1>1. /\ script \in ScriptType /\ hist \in HistType /\ hist' \in HistType
      /\ conn \in ConnType /\ RespMax \in Nat
    BY RelayAssumption DEF RelayInv, TypeOK
<1>2. CASE SameHist(hist') \/ FirstHead(hist')
    BY <1>2 DEF SameHist, FirstHead, Exchange!Deliver
<1>3. CASE SentMore(hist')
  <2>1. /\ hist.sent < hist'.sent /\ hist'.sent <= hist.sent + conn.out - conn.sent
        /\ conn.open /\ ~conn.rd /\ hist'.sent \in Nat
      BY <1>1, <1>3 DEF SentMore, RelayInv, Polled, HistType
  <2>2. conn.out > 0 /\ hist.heads = 1
      BY <1>1, <2>1 DEF RelayInv, Answered, Polled, HistType, ConnType
  <2>3. CASE hist.status = 200
    <3>1. proc.started /\ script.wrote
        BY <2>2, <2>3 DEF RelayInv, Answered, Unread
    <3>2. hist'.sent <= 1 + RespMax - script.left
        BY <1>1, <2>1, <3>1 DEF RelayInv, NothingLost, ScriptType, HistType, ConnType
    <3>3. QED
        BY <2>1, <2>2, <2>3, <3>1, <3>2 DEF Exchange!Deliver, Exchange!Length
  <2>4. CASE hist.status # 200
    <3>1. hist'.sent <= 1
        BY <1>1, <2>1, <2>2, <2>4 DEF RelayInv, Answered, HistType, ConnType
    <3>2. QED
        BY <2>1, <2>2, <2>4, <3>1 DEF Exchange!Deliver, Exchange!Length
  <2>5. QED
      BY <2>3, <2>4
<1>4. QED
    BY <1>2, <1>3 DEF StepFacts

\* The next request is read when the answer is whole, and not taken back.
LEMMA ConnectionStep ==
    ASSUME RelayInv, RelayInv', StepFacts PROVE Exchange!Connection
<1>1. /\ script' \in ScriptType /\ hist' \in HistType /\ conn' \in ConnType
      /\ proc' \in ProcType /\ RespMax \in Nat /\ hist \in HistType
    BY RelayAssumption DEF RelayInv, TypeOK
<1>2. CASE ~conn'.open
    BY <1>2 DEF Exchange!Connection
<1>3. CASE conn'.open /\ ReadingNext
  <2>1. conn.open /\ conn'.rd /\ ~proc'.live /\ hist'.heads > 0
      BY <1>1, <1>3 DEF StepFacts, ReadingNext, SameHist, FirstHead, SentMore, HistType
  <2>2. QED
      BY <1>3, <2>1 DEF Exchange!Connection, ReadingNext
<1>4. CASE conn'.open /\ ~ReadingNext /\ ReadingNext'
  <2>0. conn.open /\ conn'.rd /\ ~proc'.live /\ hist'.heads = 1
        /\ proc'.started = (hist'.status = 200)
      BY <1>1, <1>4 DEF StepFacts, ReadingNext, RelayInv, Answered, HistType
  <2>5. phase' # "launch"
      BY <1>1, <2>0 DEF RelayInv, Answered, Unread, ProcType, ScriptType
  <2>1. /\ conn.open /\ conn'.rd /\ ~proc'.live /\ hist'.heads = 1 /\ conn'.out = 0
        /\ conn'.sent = 0 /\ (proc'.started => conn'.keep_alive)
        /\ proc'.started = (hist'.status = 200)
      BY <1>4, <2>0, <2>5 DEF RelayInv, Reopened, Polled
  <2>2. CASE hist'.status = 200
    <3>1. /\ script'.run # "none" /\ ~script'.stdout /\ script'.out = 0
          /\ script'.wrote /\ proc'.started
        BY <1>4, <2>1, <2>2 DEF RelayInv, Finished, Unread
    <3>2. hist'.sent = 1 + RespMax - script'.left
        BY <1>1, <1>4, <2>1, <3>1 DEF RelayInv, NothingLost, ScriptType, HistType
    <3>3. Exchange!Whole'
        BY <2>1, <2>2, <3>1, <3>2 DEF Exchange!Whole, Exchange!Length
    <3>4. QED
        BY <1>4, <2>1, <3>3 DEF Exchange!Connection, ReadingNext
  <2>3. CASE hist'.status # 200
    <3>5. ~proc'.started
        BY <1>1, <2>1, <2>3 DEF ProcType
    <3>6. hist'.sent + conn'.out = 1 + conn'.sent
        BY <1>4, <2>1, <3>5 DEF RelayInv, Answered
    <3>1. hist'.sent = 1
        BY <1>1, <2>1, <3>6 DEF HistType
    <3>2. Exchange!Whole'
        BY <2>1, <2>3, <3>1 DEF Exchange!Whole, Exchange!Length
    <3>3. QED
        BY <1>4, <2>1, <3>2 DEF Exchange!Connection, ReadingNext
  <2>4. QED
      BY <2>2, <2>3
<1>5. CASE conn'.open /\ ~ReadingNext /\ ~ReadingNext'
    BY <1>5 DEF StepFacts, Exchange!Connection, ReadingNext
<1>6. QED
    BY <1>2, <1>3, <1>4, <1>5

-----------------------------------------------------------------------------
(* The refinement *)

LEMMA AbstractInit == Init => Exchange!Init
  BY RelayAssumption DEF Init, Closed, Exchange!Init

LEMMA AbstractStep ==
    RelayInv /\ RelayInv' /\ [Next]_vars => [Exchange!Next]_(Exchange!vars)
<1> SUFFICES ASSUME RelayInv, RelayInv', [Next]_vars
             PROVE  [Exchange!Next]_(Exchange!vars)
    OBVIOUS
<1>1. CASE Next
    BY <1>1, EveryStep, OutputStep, AnswerStep, DeliverStep, ConnectionStep
    DEF Exchange!Next
<1>2. CASE UNCHANGED vars
    BY <1>2 DEF vars, Exchange!vars
<1>3. QED
    BY <1>1, <1>2

\* Whatever the sizes of the body, the pipes and the socket: the client gets at
\* most one answer, a prefix of it in order, and its next request is read only
\* after the whole of it (client_write, cleanupProcess, emitResponse).
THEOREM Implements == Spec => KeepsPromise
<1>1. Init => Exchange!Init
    BY AbstractInit
<1>2. RelayInv /\ RelayInv' /\ [Next]_vars => [Exchange!Next]_(Exchange!vars)
    BY AbstractStep
<1>3. Spec => []RelayInv
    BY RelayInvariant
<1>4. QED
    BY <1>1, <1>2, <1>3, PTL DEF Spec, KeepsPromise, Exchange!Spec
=============================================================================
