-------------------------- MODULE CgiRelayProofs --------------------------
(***************************************************************************)
(* Theorems about CgiRelay, for every value of its constants: its type     *)
(* correctness and its safety invariants.  CgiRelayRefines goes on from    *)
(* here to prove that it implements CgiExchange.                           *)
(*                                                                         *)
(* RelayInv is inductive.  A handler's effect on a record is first stated  *)
(* field by field (the Facts lemmas); the steps below use those facts and  *)
(* never the EXCEPT expressions.                                           *)
(***************************************************************************)
EXTENDS CgiRelay, TLAPS

-----------------------------------------------------------------------------
(* The helpers *)

\* Lesser is the minimum: it bounds what one write or one send moves.
LEMMA LesserFacts ==
    ASSUME NEW a \in Nat, NEW b \in Nat
    PROVE  /\ Lesser(a, b) \in Nat
           /\ Lesser(a, b) <= a
           /\ Lesser(a, b) <= b
BY DEF Lesser

\* The record of a closed connection, field by field.
LEMMA ClosedFacts ==
    /\ Closed \in ConnType
    /\ ~Closed.open /\ ~Closed.rd /\ ~Closed.wr /\ ~Closed.res_ready
    /\ ~Closed.keep_alive /\ ~Closed.cgi_active
    /\ Closed.out = 0 /\ Closed.sent = 0
<1>1. Closed \in ConnType
    BY Zenon DEF Closed, ConnType
<1>2. QED
    BY <1>1, SMT DEF Closed

\* A cleaned-up process is out of the maps; its response keeps its state.
IsCleaned(q, p) ==
    /\ q \in ProcType /\ q.live = FALSE /\ q.paused = FALSE
    /\ q.started = p.started /\ q.has_length = p.has_length

LEMMA CleanProcFacts ==
    ASSUME NEW p \in ProcType PROVE IsCleaned(CleanProc(p), p)
<1>1. CleanProc(p) \in ProcType
    BY Zenon DEF CleanProc, ProcType
<1>2. CleanProc(p).live = FALSE /\ CleanProc(p).paused = FALSE
      /\ CleanProc(p).started = p.started
      /\ CleanProc(p).has_length = p.has_length
    BY Zenon DEF CleanProc, ProcType
<1>3. QED
    BY <1>1, <1>2 DEF IsCleaned

\* Killing a child leaves what it has written and never revives it.
IsKilled(t, s) ==
    /\ t \in ScriptType /\ t.stdout = FALSE /\ (t.run = "none") = (s.run = "none")
    /\ t.wrote = s.wrote /\ t.left = s.left /\ t.out = s.out /\ t.in = s.in

LEMMA KillFacts ==
    ASSUME NEW s \in ScriptType PROVE IsKilled(Kill(s), s)
<1> DEFINE r == IF s.run = "up" THEN "killed" ELSE s.run
<1>1. /\ r \in {"none", "up", "zombie", "reaped", "killed"}
      /\ (r = "none") = (s.run = "none")
    BY DEF ScriptType
<1>2. Kill(s) = [s EXCEPT !.run = r, !.stdout = FALSE, !.stdin = FALSE]
    BY DEF Kill
<1> HIDE DEF r
<1>3. Kill(s) \in ScriptType
    BY <1>1, <1>2, Zenon DEF ScriptType
<1>4. Kill(s).run = r /\ Kill(s).stdout = FALSE /\ Kill(s).wrote = s.wrote
      /\ Kill(s).left = s.left /\ Kill(s).out = s.out /\ Kill(s).in = s.in
    BY <1>2, Zenon DEF ScriptType
<1>5. QED
    BY <1>1, <1>3, <1>4 DEF IsKilled

\* What poller->update changes.
IsUpdated(d, c, r, w) ==
    /\ d \in ConnType /\ d.rd = r /\ d.wr = w
    /\ d.open = c.open /\ d.out = c.out /\ d.sent = c.sent
    /\ d.res_ready = c.res_ready /\ d.keep_alive = c.keep_alive
    /\ d.cgi_active = c.cgi_active

LEMMA InterestFacts ==
    ASSUME NEW c \in ConnType, NEW r \in BOOLEAN, NEW w \in BOOLEAN
    PROVE  IsUpdated(Interest(c, r, w), c, r, w)
<1>1. Interest(c, r, w) \in ConnType
    BY Zenon DEF Interest, ConnType
<1>2. /\ Interest(c, r, w).rd = r /\ Interest(c, r, w).wr = w
      /\ Interest(c, r, w).open = c.open /\ Interest(c, r, w).out = c.out
      /\ Interest(c, r, w).sent = c.sent
      /\ Interest(c, r, w).res_ready = c.res_ready
      /\ Interest(c, r, w).keep_alive = c.keep_alive
      /\ Interest(c, r, w).cgi_active = c.cgi_active
    BY Zenon DEF Interest, ConnType
<1>3. QED
    BY <1>1, <1>2, Zenon DEF IsUpdated

\* An error page is the whole response, and is polled for writing.
IsErrorPage(d, c) ==
    /\ d \in ConnType /\ d.rd = FALSE /\ d.wr = TRUE
    /\ d.open = c.open /\ d.out = 1 /\ d.sent = c.sent
    /\ d.res_ready = TRUE /\ d.keep_alive = c.keep_alive
    /\ d.cgi_active = c.cgi_active

LEMMA ErrorPageFacts ==
    ASSUME NEW c \in ConnType PROVE IsErrorPage(ErrorPage(c), c)
<1> DEFINE d == [c EXCEPT !.out = 1, !.res_ready = TRUE]
<1>1. 1 \in Nat
    OBVIOUS
<1>2. d \in ConnType
    BY <1>1, Zenon DEF ConnType
<1>3. d.open = c.open /\ d.out = 1 /\ d.sent = c.sent /\ d.res_ready = TRUE
      /\ d.keep_alive = c.keep_alive /\ d.cgi_active = c.cgi_active
    BY Zenon DEF ConnType
<1>4. ErrorPage(c) = Interest(d, FALSE, TRUE)
    BY DEF ErrorPage
<1> HIDE DEF d
<1>5. IsUpdated(Interest(d, FALSE, TRUE), d, FALSE, TRUE)
    BY <1>2, InterestFacts, Zenon
<1>6. QED
    BY <1>3, <1>4, <1>5, Zenon DEF IsErrorPage, IsUpdated

\* The answer of a cleanup: an error page, or what the script has begun.
IsAnswered(d, c, p, reason) ==
    /\ d \in ConnType /\ d.open = c.open /\ d.sent = c.sent
    /\ d.out = (IF p.started THEN c.out ELSE 1)
    /\ d.res_ready = (IF p.started THEN c.res_ready ELSE TRUE)
    /\ d.keep_alive => c.keep_alive /\ p.started /\ reason = "Normal"

LEMMA CleanAnswerFacts ==
    ASSUME NEW c \in ConnType, NEW p \in ProcType, NEW reason
    PROVE  IsAnswered(CleanAnswer(c, p, reason), c, p, reason)
<1>1. CASE p.started
  <2> DEFINE k == c.keep_alive /\ p.has_length /\ reason = "Normal"
             d == [c EXCEPT !.keep_alive = k]
  <2>1. CleanAnswer(c, p, reason) = d
      BY <1>1 DEF CleanAnswer
  <2>2. k \in BOOLEAN /\ (k => c.keep_alive /\ reason = "Normal")
      OBVIOUS
  <2> HIDE DEF k
  <2>3. d \in ConnType
      BY <2>2, Zenon DEF ConnType
  <2>4. d.open = c.open /\ d.sent = c.sent /\ d.out = c.out
        /\ d.res_ready = c.res_ready /\ d.keep_alive = k
      BY Zenon DEF ConnType
  <2> HIDE DEF d
  <2>5. QED
      BY <1>1, <2>1, <2>2, <2>3, <2>4 DEF IsAnswered
<1>2. CASE ~p.started
  <2> DEFINE e == ErrorPage(c)
             d == [e EXCEPT !.keep_alive = FALSE, !.close_after_send = TRUE]
  <2>1. CleanAnswer(c, p, reason) = d
      BY <1>2 DEF CleanAnswer
  <2>2. IsErrorPage(e, c)
      BY ErrorPageFacts
  <2> HIDE DEF e
  <2>3. d \in ConnType
      BY <2>2, Zenon DEF ConnType, IsErrorPage
  <2>4. d.open = e.open /\ d.sent = e.sent /\ d.out = e.out
        /\ d.res_ready = e.res_ready /\ d.keep_alive = FALSE
      BY <2>2, Zenon DEF ConnType, IsErrorPage
  <2> HIDE DEF d
  <2>5. QED
      BY <1>2, <2>1, <2>2, <2>3, <2>4 DEF IsAnswered, IsErrorPage
<1>3. QED
    BY <1>1, <1>2

\* The interest a cleanup leaves: written while anything is pending, read
\* only when the connection is kept and nothing is.
IsRepolled(d, c) ==
    /\ d \in ConnType /\ d.open = c.open /\ d.sent = c.sent /\ d.out = c.out
    /\ d.keep_alive = c.keep_alive /\ d.cgi_active = c.cgi_active
    /\ d.wr = d.res_ready /\ (d.wr => ~d.rd)
    /\ d.rd => c.out = 0 /\ c.keep_alive
    /\ c.res_ready => d.res_ready

LEMMA CleanInterestFacts ==
    ASSUME NEW c \in ConnType, c.out > 0 => c.res_ready
    PROVE  IsRepolled(CleanInterest(c), c)
<1>1. CASE c.res_ready
  <2>1. CleanInterest(c) = Interest(c, FALSE, TRUE)
      BY <1>1 DEF CleanInterest
  <2>2. IsUpdated(Interest(c, FALSE, TRUE), c, FALSE, TRUE)
      BY InterestFacts, Zenon
  <2>3. QED
      BY <1>1, <2>1, <2>2 DEF IsRepolled, IsUpdated
<1>2. CASE ~c.res_ready /\ c.keep_alive
  <2>1. c.out = 0 /\ c.res_ready = FALSE /\ c.keep_alive = TRUE
      BY <1>2 DEF ConnType
  <2>2. CleanInterest(c) = Interest(c, TRUE, FALSE)
      BY <1>2, <2>1 DEF CleanInterest
  <2>3. IsUpdated(Interest(c, TRUE, FALSE), c, TRUE, FALSE)
      BY InterestFacts, Zenon
  <2>4. QED
      BY <1>2, <2>1, <2>2, <2>3 DEF IsRepolled, IsUpdated
<1>3. CASE ~c.res_ready /\ ~c.keep_alive
  <2> DEFINE d == [c EXCEPT !.res_ready = TRUE]
  <2>1. c.out = 0
      BY <1>3 DEF ConnType
  <2>2. CleanInterest(c) = Interest(d, FALSE, TRUE)
      BY <1>3, <2>1 DEF CleanInterest
  <2>3. d \in ConnType
      BY Zenon DEF ConnType
  <2>4. d.open = c.open /\ d.sent = c.sent /\ d.out = c.out
        /\ d.keep_alive = c.keep_alive /\ d.cgi_active = c.cgi_active
        /\ d.res_ready = TRUE
      BY Zenon DEF ConnType
  <2> HIDE DEF d
  <2>5. IsUpdated(Interest(d, FALSE, TRUE), d, FALSE, TRUE)
      BY <2>3, InterestFacts, Zenon
  <2>6. QED
      BY <1>3, <2>1, <2>2, <2>4, <2>5 DEF IsRepolled, IsUpdated
<1>4. QED
    BY <1>1, <1>2, <1>3

\* A cleanup clears cgi_active, keeps the connection only after a whole
\* response, and reads it again only when nothing is left to send.
IsCleanedConn(d, c, p, reason) ==
    /\ d \in ConnType /\ d.open = c.open /\ d.cgi_active = FALSE
    /\ d.sent = c.sent /\ d.out = (IF p.started THEN c.out ELSE 1)
    /\ d.wr = d.res_ready /\ (d.wr => ~d.rd)
    /\ d.out > 0 => d.res_ready
    /\ d.rd => d.out = 0 /\ d.keep_alive
    /\ d.keep_alive => c.keep_alive /\ p.started /\ reason = "Normal"

LEMMA CleanConnFacts ==
    ASSUME NEW c \in ConnType, NEW p \in ProcType, NEW reason,
           c.out > 0 => c.res_ready
    PROVE  IsCleanedConn(CleanConn(c, p, reason), c, p, reason)
<1> DEFINE a == CleanAnswer(c, p, reason)
           d == [a EXCEPT !.cgi_active = FALSE]
<1>1. IsAnswered(a, c, p, reason)
    BY CleanAnswerFacts
<1>2. CleanConn(c, p, reason) = CleanInterest(d)
    BY DEF CleanConn
<1> HIDE DEF a
<1>3. d \in ConnType
    BY <1>1, Zenon DEF ConnType, IsAnswered
<1>4. d.open = a.open /\ d.sent = a.sent /\ d.out = a.out /\ d.cgi_active = FALSE
      /\ d.res_ready = a.res_ready /\ d.keep_alive = a.keep_alive
    BY <1>1, Zenon DEF ConnType, IsAnswered
<1> HIDE DEF d
<1>5. d.out > 0 => d.res_ready
    BY <1>1, <1>4 DEF IsAnswered
<1>6. IsRepolled(CleanInterest(d), d)
    BY <1>3, <1>5, CleanInterestFacts
<1>7. QED
    BY <1>1, <1>2, <1>4, <1>5, <1>6 DEF IsCleanedConn, IsAnswered, IsRepolled

\* Queueing a response head counts it, and sends nothing yet.
IsQueued(h, st) ==
    /\ h \in HistType /\ h.heads = hist.heads + 1 /\ h.status = st
    /\ h.sent = hist.sent

LEMMA QueuedFacts ==
    ASSUME hist \in HistType, NEW st \in Statuses
    PROVE  IsQueued(Queued(st), st)
<1> DEFINE n == hist.heads + 1
<1>1. n \in Nat
    BY DEF HistType
<1>2. Queued(st) = [hist EXCEPT !.heads = n, !.status = st]
    BY DEF Queued
<1>3. n = hist.heads + 1
    OBVIOUS
<1> HIDE DEF n
<1>4. Queued(st) \in HistType
    BY <1>1, <1>2, Zenon DEF HistType
<1>5. Queued(st).heads = n /\ Queued(st).status = st /\ Queued(st).sent = hist.sent
    BY <1>2, Zenon DEF HistType
<1>6. QED
    BY <1>3, <1>4, <1>5 DEF IsQueued

\* What read_client's clearing of the request leaves alone.
LEMMA ProcessedFacts ==
    ASSUME NEW c \in ConnType, NEW r, NEW w, IsUpdated(c, c, r, w)
    PROVE  IsUpdated(Processed(c), c, r, w)
<1> DEFINE k == c.keep_alive /\ peer.total = 0
<1>1. k \in BOOLEAN
    OBVIOUS
<1>2. Processed(c) = [c EXCEPT !.cleared = k]
    BY Zenon DEF Processed, ConnType
<1> HIDE DEF k
<1>3. Processed(c) \in ConnType
    BY <1>1, <1>2, Zenon DEF ConnType
<1>4. /\ Processed(c).rd = c.rd /\ Processed(c).wr = c.wr
      /\ Processed(c).open = c.open /\ Processed(c).out = c.out
      /\ Processed(c).sent = c.sent
      /\ Processed(c).res_ready = c.res_ready
      /\ Processed(c).keep_alive = c.keep_alive
      /\ Processed(c).cgi_active = c.cgi_active
    BY <1>2, Zenon DEF ConnType
<1>5. QED
    BY <1>3, <1>4 DEF IsUpdated

\* A resumed process stays paused only if the connection has no CGI.
LEMMA ResumeFacts ==
    ASSUME NEW c \in ConnType, NEW p \in ProcType
    PROVE  /\ Resume(c, p) \in ProcType /\ Resume(c, p).live = p.live
           /\ Resume(c, p).started = p.started
           /\ Resume(c, p).paused => p.paused /\ ~c.cgi_active
<1> DEFINE b == p.paused /\ ~c.cgi_active
<1>1. b \in BOOLEAN /\ (b => p.paused /\ ~c.cgi_active)
    OBVIOUS
<1>2. Resume(c, p) = [p EXCEPT !.paused = b]
    BY Zenon DEF Resume, ProcType
<1> HIDE DEF b
<1>3. Resume(c, p) \in ProcType
    BY <1>1, <1>2, Zenon DEF ProcType
<1>4. Resume(c, p).live = p.live /\ Resume(c, p).started = p.started
      /\ Resume(c, p).paused = b
    BY <1>2, Zenon DEF ProcType
<1>5. QED
    BY <1>1, <1>3, <1>4

-----------------------------------------------------------------------------
(* The initial states *)

\* The request has been routed to a CGI, and nothing else has happened.
LEMMA InitInv == RelayAssumption /\ Init => RelayInv
<1> SUFFICES ASSUME RelayAssumption, Init PROVE RelayInv
    OBVIOUS
<1>10. PICK k \in BOOLEAN:
         conn = [Closed EXCEPT !.open = TRUE, !.rd = TRUE,
                               !.keep_alive = k, !.cleared = FALSE]
    BY Zenon DEF Init
<1>11. PICK h \in {"length", "nolength", "invalid"}:
         script = [run |-> "none", failed |-> FALSE, head |-> h,
                   wrote |-> FALSE, left |-> RespMax,
                   stdout |-> FALSE, stdin |-> FALSE, out |-> 0, in |-> 0]
    BY Zenon DEF Init
<1>0. PICK n \in 0..ReqMax, chunked, malformed \in BOOLEAN: \E u \in 0..n:
         /\ chunked => n > 0
         /\ malformed => chunked
         /\ peer = [state |-> "up", total |-> n, unsent |-> u, rcv |-> 0,
                    chunked |-> chunked, malformed |-> malformed, sock |-> 0]
    BY Zenon DEF Init
<1>1. PICK u \in 0..n:
         /\ chunked => n > 0
         /\ peer = [state |-> "up", total |-> n, unsent |-> u, rcv |-> 0,
                    chunked |-> chunked, malformed |-> malformed, sock |-> 0]
    BY <1>0, Zenon
<1>2. /\ conn \in ConnType
      /\ conn.open = TRUE /\ conn.rd = TRUE /\ conn.wr = FALSE /\ conn.out = 0
      /\ conn.sent = 0 /\ conn.res_ready = FALSE /\ conn.cgi_active = FALSE
    BY <1>10, ClosedFacts, Zenon DEF ConnType, Closed
<1>3. proc \in ProcType /\ proc.live = FALSE /\ proc.started = FALSE
      /\ proc.paused = FALSE
    BY DEF Init, ProcType
<1>4. script \in ScriptType /\ script.run = "none" /\ script.wrote = FALSE
      /\ script.left = RespMax /\ script.out = 0 /\ script.in = 0
    BY <1>11, RelayAssumption DEF ScriptType
<1>5. /\ peer \in PeerType /\ peer.sock = 0 /\ peer.unsent <= peer.total
      /\ peer.chunked => peer.total > 0
    BY <1>1, RelayAssumption DEF PeerType
<1>6. hist \in HistType /\ hist.heads = 0 /\ hist.sent = 0
    BY DEF Init, HistType, Statuses
<1>7. phase = "launch" /\ batch = {}
    BY DEF Init
<1>8. TypeOK
    BY <1>2, <1>3, <1>4, <1>5, <1>6, <1>7, RelayAssumption DEF TypeOK, Phases
<1>20. Linked
    BY <1>2, <1>3, <1>4, <1>6, <1>7 DEF Linked
<1>21. Polled
    BY <1>2, <1>3, <1>4, <1>6, <1>7 DEF Polled, ConnType, ProcType
<1>22. ReadsOffWhileRelaying
    BY <1>2, <1>3, <1>4, <1>6, <1>7 DEF ReadsOffWhileRelaying
<1>23. Unread
    BY <1>2, <1>3, <1>4, <1>6, <1>7 DEF Unread
<1>24. Answered
    BY <1>2, <1>3, <1>4, <1>6, <1>7 DEF Answered, HistType, ProcType, ConnType
<1>25. NothingLost
    BY <1>2, <1>3, <1>4, <1>6, <1>7 DEF NothingLost
<1>26. Finished
    BY <1>2, <1>3, <1>4, <1>6, <1>7 DEF Finished
<1>27. Reopened
    BY <1>2, <1>3, <1>4, <1>6, <1>7 DEF Reopened
<1>9. QED
    BY <1>8, <1>20, <1>21, <1>22, <1>23, <1>24, <1>25, <1>26, <1>27, Zenon DEF RelayInv

-----------------------------------------------------------------------------
(* Steps, by what they leave alone *)

\* A step of the loop that only moves between events and phases.
LEMMA LoopStep ==
    ASSUME RelayInv, phase # "launch",
           UNCHANGED <<conn, proc, script, peer, hist>>,
           phase' \in Phases \ {"launch"}, batch' \in SUBSET Tags,
           phase' = "stdout" => proc.live
    PROVE  RelayInv'
<1>1. TypeOK'
    BY DEF RelayInv, TypeOK
<1>2. (Linked /\ Polled /\ ReadsOffWhileRelaying /\ Unread)'
    BY DEF RelayInv, Linked, Polled, ReadsOffWhileRelaying, Unread, Closed
<1>3. (Answered /\ NothingLost /\ Finished /\ Reopened)'
    BY DEF RelayInv, Answered, NothingLost, Finished, Reopened
<1>4. QED
    BY <1>1, <1>2, <1>3, Zenon DEF RelayInv

\* A step on the process alone that neither cleans it up nor starts its
\* response, and pauses it only with output pending.
LEMMA ProcStep ==
    ASSUME RelayInv, phase # "launch",
           UNCHANGED <<conn, script, peer, hist>>,
           phase' \in Phases \ {"launch"}, batch' \in SUBSET Tags,
           phase' = "stdout" => proc.live,
           proc' \in ProcType, proc'.live = proc.live, proc'.started = proc.started,
           proc'.paused => proc.paused \/ (proc.live /\ proc.started /\ conn.out > 0)
    PROVE  RelayInv'
<1>1. TypeOK'
    BY DEF RelayInv, TypeOK
<1>2. (Linked /\ Polled /\ ReadsOffWhileRelaying /\ Unread)'
    BY DEF RelayInv, Linked, Polled, ReadsOffWhileRelaying, Unread, Closed
<1>3. (Answered /\ NothingLost /\ Finished /\ Reopened)'
    BY DEF RelayInv, Answered, NothingLost, Finished, Reopened
<1>4. QED
    BY <1>1, <1>2, <1>3, Zenon DEF RelayInv

\* A step of the client alone.
LEMMA PeerStep ==
    ASSUME RelayInv, UNCHANGED <<phase, batch, conn, proc, script, hist>>,
           peer' \in PeerType, peer'.unsent <= peer'.total, peer'.sock <= SockCap,
           peer'.chunked => peer'.total > 0
    PROVE  RelayInv'
<1>1. TypeOK'
    BY DEF RelayInv, TypeOK
<1>2. (Linked /\ Polled /\ ReadsOffWhileRelaying /\ Unread)'
    BY DEF RelayInv, Linked, Polled, ReadsOffWhileRelaying, Unread, Closed
<1>3. (Answered /\ NothingLost /\ Finished /\ Reopened)'
    BY DEF RelayInv, Answered, NothingLost, Finished, Reopened
<1>4. QED
    BY <1>1, <1>2, <1>3, Zenon DEF RelayInv

\* A step of the script: it moves output from "left" to the pipe, or writes
\* its head, or closes an end.
LEMMA ScriptStep ==
    ASSUME RelayInv, UNCHANGED <<phase, batch, conn, proc, peer, hist>>,
           script.run = "up", script' \in ScriptType, script'.run # "none",
           script'.in <= InCap, script'.stdout => script.stdout,
           \/ /\ script'.wrote = script.wrote
              /\ script'.out + script'.left = script.out + script.left
              /\ script.stdout \/ script'.out = script.out
              /\ script.wrote \/ (script'.out = script.out /\ script'.left = script.left)
           \/ /\ ~script.wrote /\ script'.wrote /\ script.stdout
              /\ script'.out = script.out + 1 /\ script'.left = script.left
    PROVE  RelayInv'
<1>1. TypeOK'
    BY DEF RelayInv, TypeOK
<1>2. (Linked /\ Polled /\ ReadsOffWhileRelaying)'
    BY DEF RelayInv, Linked, Polled, ReadsOffWhileRelaying, Closed
<1>3. Unread'
    BY DEF RelayInv, TypeOK, Unread, ScriptType
<1>4. Answered' /\ Reopened'
    BY DEF RelayInv, Answered, Reopened
<1>5. NothingLost'
    BY DEF RelayInv, TypeOK, NothingLost, Unread, ScriptType, ConnType, HistType
<1>6. Finished'
    BY DEF RelayInv, TypeOK, Finished, ScriptType, Unread
<1>7. QED
    BY <1>1, <1>2, <1>3, <1>4, <1>5, <1>6, Zenon DEF RelayInv

\* A step of the request body: it leaves the response, the poller interest
\* and the life of the process alone.
LEMMA BodyStep ==
    ASSUME RelayInv, UNCHANGED phase, batch' \in SUBSET Tags,
           conn.open \/ conn' = conn,
           conn' \in ConnType, conn'.open = conn.open, conn'.rd = conn.rd,
           conn'.wr = conn.wr, conn'.out = conn.out, conn'.sent = conn.sent,
           conn'.res_ready = conn.res_ready, conn'.keep_alive = conn.keep_alive,
           conn'.cgi_active = conn.cgi_active,
           proc' \in ProcType, proc'.live = proc.live,
           proc'.started = proc.started, proc'.paused = proc.paused,
           script' \in ScriptType, (script'.run = "none") = (script.run = "none"),
           script'.wrote = script.wrote, script'.left = script.left,
           script'.stdout = script.stdout, script'.out = script.out,
           script'.in <= InCap,
           peer' \in PeerType, peer'.unsent = peer.unsent,
           peer'.total = peer.total, peer'.sock = peer.sock,
           peer'.chunked = peer.chunked,
           hist' \in HistType, hist'.heads = hist.heads,
           hist'.status = hist.status, hist'.sent = hist.sent
    PROVE  RelayInv'
<1>1. TypeOK'
    BY DEF RelayInv, TypeOK
<1>2. (Linked /\ Polled /\ ReadsOffWhileRelaying)'
    BY DEF RelayInv, TypeOK, Linked, Polled, ReadsOffWhileRelaying, ConnType, ProcType
<1>3. Unread'
    BY DEF RelayInv, Unread
<1>4. Answered' /\ Reopened'
    BY DEF RelayInv, Answered, Reopened
<1>5. NothingLost' /\ Finished'
    BY DEF RelayInv, NothingLost, Finished
<1>6. QED
    BY <1>1, <1>2, <1>3, <1>4, <1>5, Zenon DEF RelayInv

\* cleanupProcess, whatever ended the process.  "Normal" ends one whose output
\* has been read to its end.
LEMMA CleanupStep ==
    ASSUME RelayInv, phase # "launch", proc.live,
           NEW p \in ProcType, p.started = proc.started,
           NEW s \in ScriptType, (s.run = "none") = (script.run = "none"),
           s.wrote = script.wrote, s.left = script.left, s.out = script.out,
           s.in = script.in,
           NEW reason, reason = "Normal" => script.out = 0,
           NEW status, p.started \/ status \in {502, 504},
           Cleanup(p, s, reason, status), UNCHANGED peer,
           batch' \in SUBSET Tags, phase' \in Phases \ {"launch", "stdout"}
    PROVE  RelayInv'
<1>1. /\ conn \in ConnType /\ proc \in ProcType /\ script \in ScriptType
      /\ hist \in HistType /\ script.in <= InCap
    BY DEF RelayInv, TypeOK
<1>2. IsCleaned(proc', p)
    BY CleanProcFacts, Zenon DEF Cleanup
<1>3. IsKilled(script', s)
    BY KillFacts, Zenon DEF Cleanup
<1>4. conn.out > 0 => conn.res_ready
    BY DEF RelayInv, Polled
<1>5. IsCleanedConn(conn', conn, p, reason)
    BY <1>1, <1>4, CleanConnFacts, Zenon DEF Cleanup
<1>6. CASE proc.started
  <2>1. hist' = hist /\ conn'.out = conn.out
      BY <1>5, <1>6 DEF Cleanup, IsCleanedConn
  <2>2. TypeOK'
      BY <1>2, <1>3, <1>5, <2>1 DEF RelayInv, TypeOK, IsCleaned, IsKilled, IsCleanedConn
  <2>3. Linked'
      BY <1>2, <1>5 DEF RelayInv, Linked, IsCleaned, IsCleanedConn
  <2>4. Polled'
      BY <1>1, <1>2, <1>5, <2>1
      DEF RelayInv, Polled, IsCleaned, IsCleanedConn, ConnType, ProcType
  <2>5. ReadsOffWhileRelaying' /\ Unread'
      BY <1>1, <1>2, <1>3
      DEF RelayInv, ReadsOffWhileRelaying, Unread, IsCleaned, IsKilled
  <2>6. Answered'
      BY <1>1, <1>2, <1>5, <1>6, <2>1
      DEF RelayInv, Answered, Linked, IsCleaned, IsCleanedConn, ProcType
  <2>9. NothingLost'
      BY <1>2, <1>3, <1>5, <1>6, <2>1
      DEF RelayInv, NothingLost, Linked, IsCleaned, IsKilled, IsCleanedConn
  <2>7. Finished' /\ Reopened'
      BY <1>1, <1>2, <1>3, <1>5, <1>6
      DEF RelayInv, Finished, Reopened, Unread, IsCleaned, IsKilled, IsCleanedConn
  <2>8. QED
      BY <2>2, <2>3, <2>4, <2>5, <2>6, <2>7, <2>9, Zenon DEF RelayInv
<1>7. CASE ~proc.started
  <2>0. status \in Statuses /\ hist' = Queued(status)
      BY <1>7 DEF Cleanup, Statuses
  <2>1. IsQueued(hist', status)
      BY <1>1, <2>0, QueuedFacts
  <2>2. hist.heads = 0 /\ hist.sent = 0 /\ conn.out = 0 /\ conn.sent = 0
      BY <1>1, <1>7 DEF RelayInv, Answered, Polled, HistType, ProcType
  <2>3. TypeOK'
      BY <1>2, <1>3, <1>5, <2>1 DEF RelayInv, TypeOK, IsCleaned, IsKilled,
         IsCleanedConn, IsQueued
  <2>4. Linked'
      BY <1>2, <1>5 DEF RelayInv, Linked, IsCleaned, IsCleanedConn
  <2>5. Polled'
      BY <1>1, <1>2, <1>5, <1>7, <2>2
      DEF RelayInv, Polled, IsCleaned, IsCleanedConn, ConnType, ProcType
  <2>6. ReadsOffWhileRelaying' /\ Unread'
      BY <1>1, <1>2, <1>3
      DEF RelayInv, ReadsOffWhileRelaying, Unread, IsCleaned, IsKilled
  <2>7. Answered' /\ NothingLost'
      BY <1>1, <1>2, <1>3, <1>5, <1>7, <2>1, <2>2
      DEF RelayInv, Answered, NothingLost, Linked, IsCleaned, IsKilled, IsCleanedConn,
          IsQueued, ConnType, ProcType, ScriptType, HistType
  <2>8. Finished' /\ Reopened'
      BY <1>1, <1>2, <1>3, <1>5, <1>7
      DEF RelayInv, Finished, Reopened, IsCleaned, IsKilled, IsCleanedConn
  <2>9. QED
      BY <2>3, <2>4, <2>5, <2>6, <2>7, <2>8, Zenon DEF RelayInv
<1>8. QED
    BY <1>6, <1>7

\* close_client: with its process, if it has one.
LEMMA CloseClientStep ==
    ASSUME RelayInv, phase # "launch", CloseClient,
           batch' \in SUBSET Tags, phase' \in Phases \ {"launch", "stdout"},
           peer' \in PeerType, peer'.unsent <= peer'.total,
           peer'.sock <= SockCap, peer'.chunked => peer'.total > 0,
           hist' \in HistType, hist'.heads = hist.heads,
           hist'.status = hist.status, hist'.heads = 0 => hist'.sent = 0
    PROVE  RelayInv'
<1>1. /\ conn \in ConnType /\ proc \in ProcType /\ script \in ScriptType
      /\ script.in <= InCap
    BY DEF RelayInv, TypeOK
<1>2. IsCleaned(CleanProc(proc), proc) /\ IsKilled(Kill(script), script)
    BY <1>1, CleanProcFacts, KillFacts
<1>3. /\ proc' \in ProcType /\ proc'.live = FALSE /\ proc'.paused = FALSE
      /\ proc'.started = proc.started
    BY <1>1, <1>2 DEF CloseClient, IsCleaned, ProcType, RelayInv, Polled
<1>4. /\ script' \in ScriptType /\ script'.wrote = script.wrote
      /\ script'.left = script.left /\ script'.out = script.out
      /\ script'.in = script.in /\ (script'.run = "none") = (script.run = "none")
    BY <1>1, <1>2 DEF CloseClient, IsKilled
<1>5. conn' = Closed /\ conn' \in ConnType /\ ~conn'.open /\ ~conn'.wr
      /\ ~conn'.cgi_active /\ conn'.out = 0 /\ conn'.sent = 0
    BY ClosedFacts DEF CloseClient
<1>6. TypeOK'
    BY <1>1, <1>3, <1>4, <1>5 DEF RelayInv, TypeOK
<1>7. Linked' /\ Polled' /\ ReadsOffWhileRelaying'
    BY <1>3, <1>5 DEF Linked, Polled, ReadsOffWhileRelaying, ConnType, ProcType
<1>8. Unread'
    BY <1>3, <1>4 DEF RelayInv, Unread
<1>9. Answered'
    BY <1>3, <1>5 DEF RelayInv, Answered
<1>10. NothingLost' /\ Finished' /\ Reopened'
    BY <1>5 DEF NothingLost, Finished, Reopened
<1>11. QED
    BY <1>6, <1>7, <1>8, <1>9, <1>10, Zenon DEF RelayInv

\* finalize_response_write on a connection whose output has all been sent.
LEMMA FinalizeStep ==
    ASSUME RelayInv, phase = "batch", UNCHANGED phase, batch' \in SUBSET Tags,
           conn.open,
           NEW c \in ConnType, c.open = conn.open, c.out = 0, c.sent = 0,
           c.keep_alive = conn.keep_alive, c.cgi_active = conn.cgi_active,
           NEW p \in ProcType, p.live = proc.live, p.started = proc.started,
           ~p.paused,
           Finalize(c, p, script),
           peer' \in PeerType, peer'.unsent <= peer'.total,
           peer'.sock <= SockCap, peer'.chunked => peer'.total > 0,
           hist' \in HistType, hist'.heads = hist.heads,
           hist'.status = hist.status, hist'.sent + conn.sent = hist.sent + conn.out
    PROVE  RelayInv'
<1>1. TypeOK
    BY DEF RelayInv
<1>7. /\ conn.out \in Nat /\ conn.sent \in Nat /\ hist.sent \in Nat
      /\ hist.heads \in Nat /\ hist'.sent \in Nat
      /\ script.out \in Nat /\ script.left \in Nat
      /\ proc.live \in BOOLEAN /\ proc.started \in BOOLEAN /\ p.paused = FALSE
    BY <1>1 DEF TypeOK, ConnType, HistType, ScriptType, ProcType
<1>2. hist'.heads = 0 => hist'.sent = 0
    BY <1>1 DEF RelayInv, TypeOK, Answered, Polled, HistType, ConnType
<1>3. CASE c.cgi_active
  <2> DEFINE d == [c EXCEPT !.res_ready = FALSE, !.expired = FALSE]
  <2>0. conn' = Interest(d, FALSE, FALSE)
      BY <1>3 DEF Finalize
  <2>1. proc' = p /\ script' = script
      BY <1>3 DEF Finalize
  <2>2. d \in ConnType /\ d.open = c.open /\ d.out = 0 /\ d.sent = 0
        /\ d.res_ready = FALSE /\ d.keep_alive = c.keep_alive
        /\ d.cgi_active = c.cgi_active
      BY Zenon DEF ConnType
  <2> HIDE DEF d
  <2>12. IsUpdated(conn', d, FALSE, FALSE)
      BY <2>0, <2>2, InterestFacts, Zenon
  <2>3. /\ conn' \in ConnType /\ conn'.open = TRUE /\ conn'.rd = FALSE
        /\ conn'.wr = FALSE /\ conn'.res_ready = FALSE
        /\ conn'.out = 0 /\ conn'.sent = 0
        /\ conn'.keep_alive = conn.keep_alive
        /\ conn'.cgi_active = conn.cgi_active
      BY <1>1, <2>2, <2>12 DEF IsUpdated, TypeOK, ConnType
  <2>4. TypeOK'
      BY <1>1, <2>1, <2>3 DEF TypeOK
  <2>5. Linked' /\ ReadsOffWhileRelaying'
      BY <2>1, <2>3 DEF RelayInv, Linked, ReadsOffWhileRelaying
  <2>13. ~(conn'.out > 0)
      BY <2>3
  <2>14. conn'.wr = conn'.res_ready /\ ~conn'.wr /\ ~proc'.paused
      BY <2>1, <2>3, Zenon
  <2>6. Polled'
      BY <2>3, <2>13, <2>14, Zenon DEF Polled
  <2>7. Unread'
      BY <2>1 DEF RelayInv, Unread
  <2>8. Answered'
      BY <1>2, <1>7, <2>1, <2>3 DEF RelayInv, Answered
  <2>9. NothingLost'
      BY <1>7, <2>1, <2>3, RelayAssumption DEF RelayInv, NothingLost
  <2>10. Finished' /\ Reopened'
      BY <1>1, <1>3, <2>1 DEF RelayInv, Linked, Finished, Reopened
  <2>11. QED
      BY <2>4, <2>5, <2>6, <2>7, <2>8, <2>9, <2>10, Zenon DEF RelayInv
<1>4. CASE ~c.cgi_active /\ (c.close_after_send \/ ~c.keep_alive)
    BY <1>1, <1>2, <1>4, CloseClientStep DEF Finalize, Phases
<1>5. CASE ~c.cgi_active /\ ~c.close_after_send /\ c.keep_alive
  <2> DEFINE d == [c EXCEPT !.res_ready = FALSE, !.expired = FALSE,
                            !.cleared = TRUE]
  <2>0. conn' = Interest(d, TRUE, FALSE)
      BY <1>5 DEF Finalize
  <2>1. proc' = p /\ script' = script
      BY <1>5 DEF Finalize
  <2>2. d \in ConnType /\ d.open = c.open /\ d.out = 0 /\ d.sent = 0
        /\ d.res_ready = FALSE /\ d.keep_alive = c.keep_alive
        /\ d.cgi_active = c.cgi_active
      BY Zenon DEF ConnType
  <2> HIDE DEF d
  <2>12. IsUpdated(conn', d, TRUE, FALSE)
      BY <2>0, <2>2, InterestFacts, Zenon
  <2>3. /\ conn' \in ConnType /\ conn'.open = TRUE /\ conn'.rd = TRUE
        /\ conn'.wr = FALSE /\ conn'.res_ready = FALSE
        /\ conn'.out = 0 /\ conn'.sent = 0
        /\ conn'.keep_alive = conn.keep_alive
        /\ conn'.cgi_active = conn.cgi_active
      BY <1>1, <2>2, <2>12 DEF IsUpdated, TypeOK, ConnType
  <2>4. TypeOK'
      BY <1>1, <2>1, <2>3 DEF TypeOK
  <2>5. Linked' /\ ReadsOffWhileRelaying'
      BY <1>5, <2>1, <2>3 DEF RelayInv, Linked, ReadsOffWhileRelaying
  <2>13. ~(conn'.out > 0)
      BY <2>3
  <2>14. conn'.wr = conn'.res_ready /\ ~conn'.wr /\ ~proc'.paused
      BY <2>1, <2>3, Zenon
  <2>6. Polled'
      BY <2>3, <2>13, <2>14, Zenon DEF Polled
  <2>7. Unread'
      BY <2>1 DEF RelayInv, Unread
  <2>8. Answered'
      BY <1>2, <1>7, <2>1, <2>3 DEF RelayInv, Answered
  <2>9. NothingLost'
      BY <1>7, <2>1, <2>3, RelayAssumption DEF RelayInv, NothingLost
  <2>10. Finished' /\ Reopened'
      BY <1>5, <2>1, <2>3 DEF RelayInv, Finished, Reopened
  <2>11. QED
      BY <2>4, <2>5, <2>6, <2>7, <2>8, <2>9, <2>10, Zenon DEF RelayInv
<1>6. QED
    BY <1>3, <1>4, <1>5

-----------------------------------------------------------------------------
(* Actions *)

\* The event loop takes a batch, dispatches from it, or is done with it.
LEMMA LoopActions ==
    ASSUME RelayInv,
           Wait \/ EndBatch \/ BeginStdout \/ DropStale \/ ReadClientLeftover
    PROVE  RelayInv'
<1>1. Ready \in SUBSET Tags
    BY Zenon DEF Ready
<1>2. batch \in SUBSET Tags /\ phase \in Phases
    BY DEF RelayInv, TypeOK
<1>3. CASE Wait
    BY <1>1, <1>3, LoopStep DEF Wait, Phases
<1>4. CASE EndBatch
    BY <1>2, <1>4, LoopStep DEF EndBatch, Phases
<1>5. CASE BeginStdout
    BY <1>2, <1>5, LoopStep DEF BeginStdout, Dispatch, Phases
<1>6. CASE DropStale
    BY <1>2, <1>6, LoopStep DEF DropStale, Dispatch, Phases
<1>7. CASE ReadClientLeftover
    BY <1>2, <1>7, LoopStep DEF ReadClientLeftover, Dispatch, Phases
<1>8. QED
    BY <1>3, <1>4, <1>5, <1>6, <1>7

\* What a handler does to the process alone, and its timers.
LEMMA ProcActions ==
    ASSUME RelayInv,
           ReadAgain \/ WriteStdinFails \/ ReadStderr \/ ExpireIdle \/ ExpireAbsolute
    PROVE  RelayInv'
<1>1. batch \in SUBSET Tags /\ phase \in Phases /\ proc \in ProcType /\ conn \in ConnType
      /\ script \in ScriptType
    BY DEF RelayInv, TypeOK
<1>2. CASE ReadAgain
  <2> DEFINE b == proc.paused \/ conn.out - conn.sent > Threshold
             q == [proc EXCEPT !.paused = b]
  <2>1. b \in BOOLEAN /\ (b => proc.paused \/ conn.out > 0)
      BY <1>1, RelayAssumption DEF ConnType, ProcType
  <2>2. proc.live /\ (conn.out > 0 => proc.started)
      BY <1>1, <1>2 DEF ReadAgain, RelayInv, TypeOK, Linked, Answered, HistType, ConnType, ProcType
  <2>3. proc' = q
      BY <1>2 DEF ReadAgain
  <2> HIDE DEF b
  <2>4. proc' \in ProcType /\ proc'.live = proc.live /\ proc'.started = proc.started
        /\ proc'.paused = b
      BY <1>1, <2>1, <2>3, Zenon DEF ProcType
  <2>5. QED
      BY <1>1, <1>2, <2>1, <2>2, <2>4, ProcStep DEF ReadAgain, Phases
<1>3. CASE WriteStdinFails
  <2>1. proc' \in ProcType /\ proc'.live = proc.live /\ proc'.started = proc.started
        /\ proc'.paused = proc.paused
      BY <1>1, <1>3, Zenon DEF WriteStdinFails, CloseStdin, ProcType
  <2>2. QED
      BY <1>1, <1>3, <2>1, ProcStep DEF WriteStdinFails, Dispatch, Phases
<1>4. CASE ReadStderr
  <2>1. proc' \in ProcType /\ proc'.live = proc.live /\ proc'.started = proc.started
        /\ proc'.paused = proc.paused
      BY <1>1, <1>4, Zenon DEF ReadStderr, ProcType
  <2>2. QED
      BY <1>1, <1>4, <2>1, ProcStep DEF ReadStderr, Dispatch, Phases
<1>5. CASE ExpireIdle
  <2>1. proc' \in ProcType /\ proc'.live = proc.live /\ proc'.started = proc.started
        /\ proc'.paused = proc.paused
      BY <1>1, <1>5, Zenon DEF ExpireIdle, ProcType
  <2>2. phase # "launch" /\ (phase = "stdout" => proc.live)
      BY <1>5 DEF ExpireIdle, RelayInv, Unread, Linked
  <2>3. QED
      BY <1>1, <1>5, <2>1, <2>2, ProcStep DEF ExpireIdle
<1>6. CASE ExpireAbsolute
  <2>1. proc' \in ProcType /\ proc'.live = proc.live /\ proc'.started = proc.started
        /\ proc'.paused = proc.paused
      BY <1>1, <1>6, Zenon DEF ExpireAbsolute, ProcType
  <2>2. phase # "launch" /\ (phase = "stdout" => proc.live)
      BY <1>6 DEF ExpireAbsolute, RelayInv, Unread, Linked
  <2>3. QED
      BY <1>1, <1>6, <2>1, <2>2, ProcStep DEF ExpireAbsolute
<1>7. QED
    BY <1>2, <1>3, <1>4, <1>5, <1>6

\* The client sends, receives or leaves.
LEMMA PeerActions ==
    ASSUME RelayInv, Peer PROVE RelayInv'
<1>1. peer \in PeerType /\ peer.unsent <= peer.total /\ peer.sock <= SockCap
      /\ (peer.chunked => peer.total > 0)
    BY DEF RelayInv, TypeOK
<1>2. CASE PeerSend
  <2> DEFINE u == peer.unsent - 1   r == peer.rcv + 1
  <2>1. u \in Nat /\ r \in Nat /\ u <= peer.total
     BY <1>1, <1>2 DEF PeerSend, PeerType
  <2>2. peer' = [peer EXCEPT !.unsent = u, !.rcv = r]
     BY <1>2 DEF PeerSend
  <2> HIDE DEF u, r
  <2>3. peer' \in PeerType
     BY <1>1, <2>1, <2>2, Zenon DEF PeerType
  <2>4. peer'.unsent = u /\ peer'.total = peer.total /\ peer'.sock = peer.sock
        /\ peer'.chunked = peer.chunked
     BY <1>1, <2>2, Zenon DEF PeerType
  <2>5. QED
     BY <1>1, <2>1, <2>3, <2>4, PeerStep DEF Peer
<1>3. CASE PeerReceive
  <2>0. 0 \in Nat OBVIOUS
  <2>3. peer' \in PeerType
     BY <1>1, <1>3, <2>0, Zenon DEF PeerType, PeerReceive
  <2>4. peer'.unsent = peer.unsent /\ peer'.total = peer.total /\ peer'.sock = 0
        /\ peer'.chunked = peer.chunked
     BY <1>1, <1>3, Zenon DEF PeerType, PeerReceive
  <2>5. QED
     BY <1>1, <2>3, <2>4, PeerStep, RelayAssumption DEF Peer
<1>4. CASE PeerClose
  <2>0. 0 \in Nat OBVIOUS
  <2>3. peer' \in PeerType
     BY <1>1, <1>4, <2>0, Zenon DEF PeerType, PeerClose
  <2>4. peer'.unsent = peer.unsent /\ peer'.total = peer.total /\ peer'.sock = peer.sock
        /\ peer'.chunked = peer.chunked
     BY <1>1, <1>4, Zenon DEF PeerType, PeerClose
  <2>5. QED
     BY <1>1, <2>3, <2>4, PeerStep DEF Peer
<1>5. QED
    BY <1>2, <1>3, <1>4 DEF Peer

\* The script writes, reads, closes or exits.
LEMMA ScriptActions ==
    ASSUME RelayInv, Script PROVE RelayInv'
<1>1. script \in ScriptType /\ script.in <= InCap
    BY DEF RelayInv, TypeOK
<1>2. script.run = "up" /\ UNCHANGED <<phase, batch, conn, proc, peer, hist>>
    BY DEF Script, ScriptWriteHead, ScriptWriteBody, ScriptCloseStdout,
           ScriptReadStdin, ScriptCloseStdin, ScriptExit
<1>3. CASE ScriptWriteHead
  <2> DEFINE o == script.out + 1
  <2>1. o \in Nat
      BY <1>1 DEF ScriptType
  <2>2. script' = [script EXCEPT !.wrote = TRUE, !.out = o]
      BY <1>3 DEF ScriptWriteHead
  <2>3. o = script.out + 1
      OBVIOUS
  <2> HIDE DEF o
  <2>4. script' \in ScriptType /\ script'.wrote = TRUE /\ script'.out = o
        /\ script'.left = script.left /\ script'.run = script.run
        /\ script'.stdout = script.stdout /\ script'.in = script.in
      BY <1>1, <2>1, <2>2, Zenon DEF ScriptType
  <2>5. QED
      BY <1>1, <1>2, <1>3, <2>3, <2>4, ScriptStep DEF ScriptWriteHead
<1>4. CASE ScriptWriteBody
  <2> DEFINE o == script.out + 1   l == script.left - 1
  <2>1. o \in Nat /\ l \in Nat
      BY <1>1, <1>4 DEF ScriptType, ScriptWriteBody
  <2>2. script' = [script EXCEPT !.left = l, !.out = o]
      BY <1>4 DEF ScriptWriteBody
  <2>3. o + l = script.out + script.left
      BY <1>1 DEF ScriptType
  <2> HIDE DEF o, l
  <2>4. script' \in ScriptType /\ script'.wrote = script.wrote /\ script'.out = o
        /\ script'.left = l /\ script'.run = script.run
        /\ script'.stdout = script.stdout /\ script'.in = script.in
      BY <1>1, <2>1, <2>2, Zenon DEF ScriptType
  <2>5. QED
      BY <1>1, <1>2, <1>4, <2>3, <2>4, ScriptStep DEF ScriptWriteBody
<1>5. CASE ScriptCloseStdout
  <2>1. script' \in ScriptType /\ script'.wrote = script.wrote
        /\ script'.out = script.out /\ script'.left = script.left
        /\ script'.run = script.run /\ script'.in = script.in
        /\ script'.stdout = FALSE
      BY <1>1, <1>5, Zenon DEF ScriptType, ScriptCloseStdout
  <2>2. QED
      BY <1>1, <1>2, <2>1, ScriptStep
<1>6. CASE ScriptReadStdin
  <2> DEFINE i == script.in - 1
  <2>1. i \in Nat /\ i <= InCap
      BY <1>1, <1>6, RelayAssumption DEF ScriptType, ScriptReadStdin
  <2>2. script' = [script EXCEPT !.in = i]
      BY <1>6 DEF ScriptReadStdin
  <2> HIDE DEF i
  <2>3. script' \in ScriptType /\ script'.wrote = script.wrote
        /\ script'.out = script.out /\ script'.left = script.left
        /\ script'.run = script.run /\ script'.in = i
        /\ script'.stdout = script.stdout
      BY <1>1, <2>1, <2>2, Zenon DEF ScriptType
  <2>4. QED
      BY <1>1, <1>2, <2>1, <2>3, ScriptStep
<1>7. CASE ScriptCloseStdin
  <2>1. 0 \in Nat /\ 0 <= InCap
      BY RelayAssumption
  <2>2. script' \in ScriptType /\ script'.wrote = script.wrote
        /\ script'.out = script.out /\ script'.left = script.left
        /\ script'.run = script.run /\ script'.in = 0
        /\ script'.stdout = script.stdout
      BY <1>1, <1>7, <2>1, Zenon DEF ScriptType, ScriptCloseStdin
  <2>3. QED
      BY <1>1, <1>2, <2>1, <2>2, ScriptStep
<1>8. CASE ScriptExit
  <2>1. 0 \in Nat /\ 0 <= InCap
      BY RelayAssumption
  <2>2. script' \in ScriptType /\ script'.wrote = script.wrote
        /\ script'.out = script.out /\ script'.left = script.left
        /\ script'.run = "zombie" /\ script'.in = 0
        /\ script'.stdout = FALSE
      BY <1>1, <1>8, <2>1, Zenon DEF ScriptType, ScriptExit
  <2>3. QED
      BY <1>1, <1>2, <2>1, <2>2, ScriptStep
<1>9. QED
    BY <1>3, <1>4, <1>5, <1>6, <1>7, <1>8 DEF Script

\* The connection's idle time passes.
LEMMA ExpireConnAction ==
    ASSUME RelayInv, ExpireConn PROVE RelayInv'
<1>1. TypeOK
    BY DEF RelayInv
<1>2. /\ conn' \in ConnType /\ conn'.open = conn.open /\ conn'.rd = conn.rd
      /\ conn'.wr = conn.wr /\ conn'.out = conn.out /\ conn'.sent = conn.sent
      /\ conn'.res_ready = conn.res_ready /\ conn'.keep_alive = conn.keep_alive
      /\ conn'.cgi_active = conn.cgi_active
    BY <1>1, Zenon DEF ExpireConn, TypeOK, ConnType
<1>3. QED
    BY <1>1, <1>2, BodyStep DEF ExpireConn, TypeOK

\* The request body goes from stdin_buffer to the pipe.
LEMMA WriteStdinAction ==
    ASSUME RelayInv, WriteStdin PROVE RelayInv'
<1> DEFINE n == Lesser(proc.buf, InCap - script.in)
           b == proc.buf - n
           t == proc.idle_expired /\ n = 0
           i == IF proc.buf = 0 THEN script.in ELSE script.in + n
<1>1. TypeOK /\ proc.live /\ (proc.live => conn.open)
    BY DEF RelayInv, Linked, WriteStdin
<1>2. proc.buf \in Nat /\ script.in \in Nat /\ script.in <= InCap /\ InCap \in Nat
    BY <1>1, RelayAssumption DEF TypeOK, ProcType, ScriptType
<1>3. n \in Nat /\ n <= proc.buf /\ n <= InCap - script.in
  <2>1. InCap - script.in \in Nat
      BY <1>2
  <2>2. QED
      BY <1>2, <2>1, LesserFacts, Zenon
<1> HIDE DEF n
<1>4. b \in Nat /\ t \in BOOLEAN /\ i \in Nat /\ i <= InCap /\ 0 \in Nat
    BY <1>2, <1>3
<1>5. \/ proc' = [CloseStdin(proc) EXCEPT !.buf = 0, !.idle_expired = t]
      \/ proc' = [proc EXCEPT !.buf = b, !.idle_expired = FALSE]
    BY <1>1, Zenon DEF WriteStdin, TypeOK, ProcType, CloseStdin, n
<1>6. script' = [script EXCEPT !.in = i]
    BY <1>1, Zenon DEF WriteStdin, TypeOK, ScriptType, n
<1> HIDE DEF b, t, i
<1>7. proc' \in ProcType /\ proc'.live = proc.live
      /\ proc'.started = proc.started /\ proc'.paused = proc.paused
    BY <1>1, <1>4, <1>5, Zenon DEF TypeOK, ProcType, CloseStdin
<1>8. /\ script' \in ScriptType /\ script'.run = script.run
      /\ script'.wrote = script.wrote /\ script'.left = script.left
      /\ script'.stdout = script.stdout /\ script'.out = script.out
      /\ script'.in = i
    BY <1>1, <1>4, <1>6, Zenon DEF TypeOK, ScriptType
<1>9. QED
    BY <1>1, <1>4, <1>7, <1>8, BodyStep DEF WriteStdin, TypeOK, Dispatch

\* The request body comes from the client.
LEMMA ReadClientBodyAction ==
    ASSUME RelayInv, ReadClientBody PROVE RelayInv'
<1>1. PICK n \in 1..peer.rcv:
         LET last == peer.chunked /\ peer.unsent = 0 /\ n = peer.rcv
             fed  == IF peer.chunked THEN (IF last THEN n - 1 ELSE n)
                     ELSE Lesser(n, conn.remaining)
             left == IF peer.chunked THEN 0 ELSE conn.remaining - fed
             done == IF peer.chunked THEN last ELSE left = 0
             q    == FeedStdin(proc, fed)
         IN  /\ ~(last /\ peer.malformed)
             /\ proc' = IF done THEN FinishStdin(q) ELSE q
             /\ conn' = [conn EXCEPT !.expired = FALSE, !.remaining = left,
                                     !.cgi_streaming = ~done]
             /\ hist' = [hist EXCEPT !.dropped = IF proc.stdin THEN @ ELSE @ + fed]
             /\ peer' = [peer EXCEPT !.rcv = @ - n]
    BY Zenon DEF ReadClientBody
<1> DEFINE last == peer.chunked /\ peer.unsent = 0 /\ n = peer.rcv
           fed  == IF peer.chunked THEN (IF last THEN n - 1 ELSE n)
                   ELSE Lesser(n, conn.remaining)
           left == IF peer.chunked THEN 0 ELSE conn.remaining - fed
           done == IF peer.chunked THEN last ELSE left = 0
           buf  == proc.buf + fed
           q    == IF proc.stdin /\ fed > 0
                   THEN [proc EXCEPT !.buf = buf, !.idle_expired = FALSE]
                   ELSE proc
           drop == IF proc.stdin THEN hist.dropped ELSE hist.dropped + fed
           rcv  == peer.rcv - n
           nd   == ~done
<1>2. TypeOK
    BY DEF RelayInv
<1>3. n \in Nat /\ n >= 1 /\ n <= peer.rcv /\ peer.rcv \in Nat /\ conn.remaining \in Nat
      /\ proc.buf \in Nat /\ hist.dropped \in Nat
    BY <1>2 DEF TypeOK, PeerType, ConnType, ProcType, HistType
<1>4. Lesser(n, conn.remaining) \in Nat /\ Lesser(n, conn.remaining) <= conn.remaining
    BY <1>3, LesserFacts
<1>5. fed \in Nat /\ (~peer.chunked => fed <= conn.remaining)
    BY <1>3, <1>4
<1> HIDE DEF fed
<1>6. left \in Nat /\ buf \in Nat /\ drop \in Nat /\ rcv \in Nat /\ nd \in BOOLEAN
    BY <1>3, <1>5
<1>7. /\ proc' = IF done /\ q.buf = 0 THEN CloseStdin(q) ELSE q
      /\ conn' = [conn EXCEPT !.expired = FALSE, !.remaining = left,
                              !.cgi_streaming = nd]
      /\ hist' = [hist EXCEPT !.dropped = drop]
      /\ peer' = [peer EXCEPT !.rcv = rcv]
    BY <1>1, <1>2, Zenon
    DEF FeedStdin, FinishStdin, TypeOK, ProcType, HistType, PeerType, fed
<1> HIDE DEF left, buf, drop, rcv, nd, last, done
<1>8. q \in ProcType /\ q.live = proc.live /\ q.started = proc.started
      /\ q.paused = proc.paused
    BY <1>2, <1>6, Zenon DEF TypeOK, ProcType
<1> HIDE DEF q
<1>9. proc' \in ProcType /\ proc'.live = proc.live
      /\ proc'.started = proc.started /\ proc'.paused = proc.paused
    BY <1>7, <1>8, Zenon DEF ProcType, CloseStdin
<1>10. /\ conn' \in ConnType /\ conn'.open = conn.open /\ conn'.rd = conn.rd
      /\ conn'.wr = conn.wr /\ conn'.out = conn.out /\ conn'.sent = conn.sent
      /\ conn'.res_ready = conn.res_ready /\ conn'.keep_alive = conn.keep_alive
      /\ conn'.cgi_active = conn.cgi_active
    BY <1>2, <1>6, <1>7, Zenon DEF TypeOK, ConnType
<1>11. hist' \in HistType /\ hist'.heads = hist.heads
       /\ hist'.status = hist.status /\ hist'.sent = hist.sent
    BY <1>2, <1>6, <1>7, Zenon DEF TypeOK, HistType
<1>12. peer' \in PeerType /\ peer'.unsent = peer.unsent
       /\ peer'.total = peer.total /\ peer'.sock = peer.sock
       /\ peer'.chunked = peer.chunked
    BY <1>2, <1>6, <1>7, Zenon DEF TypeOK, PeerType
<1>13. QED
    BY <1>2, <1>9, <1>10, <1>11, <1>12, BodyStep DEF ReadClientBody, TypeOK, Dispatch

\* The script's output is over, or does not begin with headers.
LEMMA ReadEnds ==
    ASSUME RelayInv, ReadInvalidHead \/ ReadEof PROVE RelayInv'
<1>1. TypeOK /\ proc.live
    BY DEF RelayInv, Linked, ReadInvalidHead, ReadEof
<1>2. proc \in ProcType /\ script \in ScriptType
    BY <1>1 DEF TypeOK
<1>3. CASE ReadInvalidHead
    BY <1>1, <1>2, <1>3, CleanupStep DEF ReadInvalidHead, TypeOK, Phases
<1>4. CASE ReadEof
  <2>1. CASE proc.started
      BY <1>1, <1>2, <1>4, <2>1, CleanupStep DEF ReadEof, TypeOK, Phases
  <2>2. CASE ~proc.started
      BY <1>1, <1>2, <1>4, <2>2, CleanupStep DEF ReadEof, TypeOK, Phases
  <2>3. QED
      BY <2>1, <2>2
<1>5. QED
    BY <1>3, <1>4

\* SIGCHLD: the script is reaped, and cleaned up when it has failed.
LEMMA HandleSignalAction ==
    ASSUME RelayInv, HandleSignal PROVE RelayInv'
<1> DEFINE a == proc.reaped \/ proc.live
           q == [proc EXCEPT !.reaped = a]
           r == IF script.run = "zombie" THEN "reaped" ELSE script.run
           t == [script EXCEPT !.run = r]
<1>1. TypeOK
    BY DEF RelayInv
<1>2. proc \in ProcType /\ script \in ScriptType
    BY <1>1 DEF TypeOK
<1>3. t.failed = script.failed /\ q.live = proc.live /\ q.started = proc.started
    BY <1>2, Zenon DEF ProcType, ScriptType
<1>9. a \in BOOLEAN /\ r \in {"none", "up", "zombie", "reaped", "killed"}
      /\ (r = "none") = (script.run = "none")
    BY <1>2 DEF ScriptType
<1>4. IF proc.live /\ script.failed /\ ~proc.started
      THEN Cleanup(q, t, "ExecFailure", 502)
      ELSE proc' = q /\ script' = t /\ UNCHANGED <<conn, hist>>
    BY <1>2, <1>3, Zenon DEF HandleSignal, ChildExit, ProcType, ScriptType
<1> HIDE DEF a, r
<1>5. q \in ProcType /\ q.live = proc.live /\ q.started = proc.started
      /\ q.paused = proc.paused
    BY <1>2, <1>9, Zenon DEF ProcType
<1>6. t \in ScriptType /\ t.run = r /\ t.wrote = script.wrote /\ t.left = script.left
      /\ t.out = script.out /\ t.in = script.in /\ t.stdout = script.stdout
    BY <1>2, <1>9, Zenon DEF ScriptType
<1> HIDE DEF q, t
<1>7. CASE proc.live /\ script.failed /\ ~proc.started
    BY <1>1, <1>9, <1>4, <1>5, <1>6, <1>7, CleanupStep
    DEF HandleSignal, Dispatch, TypeOK, Phases
<1>8. CASE ~(proc.live /\ script.failed /\ ~proc.started)
    BY <1>1, <1>9, <1>4, <1>5, <1>6, <1>8, BodyStep
    DEF HandleSignal, Dispatch, TypeOK
<1>10. QED
    BY <1>7, <1>8

\* The end of a round of the event loop.
LEMMA TimerActions ==
    ASSUME RelayInv, CheckTimeouts \/ CloseDrained PROVE RelayInv'
<1>1. TypeOK /\ (hist.heads = 0 => hist.sent = 0)
    BY DEF RelayInv, Answered
<1>2. proc \in ProcType /\ script \in ScriptType
    BY <1>1 DEF TypeOK
<1>3. CASE CheckTimeouts
  <2>1. CASE conn.open /\ conn.expired
      BY <1>1, <1>3, <2>1, CloseClientStep DEF CheckTimeouts, TypeOK, Phases
  <2>2. CASE ~(conn.open /\ conn.expired)
             /\ proc.live /\ (proc.idle_expired \/ proc.abs_expired)
      BY <1>1, <1>2, <1>3, <2>2, CleanupStep
      DEF CheckTimeouts, CgiTimeouts, TypeOK, Phases
  <2>3. CASE ~(conn.open /\ conn.expired)
             /\ ~(proc.live /\ (proc.idle_expired \/ proc.abs_expired))
      BY <1>1, <1>3, <2>3, LoopStep
      DEF CheckTimeouts, CgiTimeouts, TypeOK, Phases
  <2>4. QED
      BY <2>1, <2>2, <2>3
<1>4. CASE CloseDrained
  <2>1. CASE Drained
      BY <1>1, <1>4, <2>1, CloseClientStep DEF CloseDrained, TypeOK, Phases
  <2>2. CASE ~Drained
      BY <1>1, <1>4, <2>2, LoopStep DEF CloseDrained, TypeOK, Phases
  <2>3. QED
      BY <2>1, <2>2
<1>5. QED
    BY <1>3, <1>4

\* The client is gone, or its body does not decode.
LEMMA ReadClientEnds ==
    ASSUME RelayInv, ReadClientGone \/ ReadClientMalformed PROVE RelayInv'
<1>1. TypeOK /\ (hist.heads = 0 => hist.sent = 0)
    BY DEF RelayInv, Answered
<1>2. CASE ReadClientGone
    BY <1>1, <1>2, CloseClientStep DEF ReadClientGone, Dispatch, TypeOK, Phases
<1>3. CASE ReadClientMalformed
  <2>1. 0 \in Nat
      OBVIOUS
  <2>2. peer' \in PeerType /\ peer'.unsent = peer.unsent /\ peer'.total = peer.total
        /\ peer'.sock = peer.sock /\ peer'.chunked = peer.chunked
      BY <1>1, <1>3, <2>1, Zenon DEF ReadClientMalformed, TypeOK, PeerType
  <2>3. QED
      BY <1>1, <1>3, <2>2, CloseClientStep
      DEF ReadClientMalformed, Dispatch, TypeOK, Phases
<1>4. QED
    BY <1>2, <1>3

\* The connection at launch: nothing queued, nothing pending.
LEMMA AtLaunch ==
    ASSUME RelayInv, phase = "launch"
    PROVE  /\ TypeOK /\ conn.open /\ ~proc.live /\ ~proc.started /\ ~script.wrote
           /\ hist.heads = 0 /\ hist.sent = 0 /\ conn.out = 0 /\ conn.sent = 0
BY DEF RelayInv, TypeOK, Unread, Answered, Polled, HistType, ProcType, ConnType

\* The CGI cannot be launched.
LEMMA LaunchRefusedAction ==
    ASSUME RelayInv, LaunchRefused PROVE RelayInv'
<1> DEFINE e == ErrorPage(conn)
<1>1. /\ TypeOK /\ conn.open /\ ~proc.live /\ ~proc.started /\ ~script.wrote
      /\ hist.heads = 0 /\ hist.sent = 0 /\ conn.out = 0 /\ conn.sent = 0
    BY AtLaunch DEF LaunchRefused
<1>2. IsErrorPage(e, conn)
    BY <1>1, ErrorPageFacts DEF TypeOK
<1>3. IsUpdated(e, e, FALSE, TRUE)
    BY <1>2 DEF IsUpdated, IsErrorPage
<1> HIDE DEF e
<1>4. conn' = Processed(e)
    BY DEF LaunchRefused, e
<1>5. IsUpdated(conn', e, FALSE, TRUE)
    BY <1>2, <1>3, <1>4, ProcessedFacts DEF IsErrorPage
<1>6. PICK st \in {400, 502}: hist' = Queued(st)
    BY DEF LaunchRefused
<1>7. st \in Statuses
    BY DEF Statuses
<1>8. IsQueued(hist', st)
    BY <1>1, <1>6, <1>7, QueuedFacts DEF TypeOK
<1>9. /\ conn' \in ConnType /\ conn'.open = TRUE /\ conn'.rd = FALSE
      /\ conn'.wr = TRUE /\ conn'.out = 1 /\ conn'.sent = 0
      /\ conn'.res_ready = TRUE /\ conn'.cgi_active = conn.cgi_active
    BY <1>1, <1>2, <1>5 DEF IsUpdated, IsErrorPage, TypeOK, ConnType
<1>10. hist' \in HistType /\ hist'.heads = 1 /\ hist'.status # 200 /\ hist'.sent = 0
    BY <1>1, <1>8 DEF IsQueued
<1>11. phase' = "batch" /\ UNCHANGED <<batch, proc, script, peer>>
    BY DEF LaunchRefused
<1>12. TypeOK'
    BY <1>1, <1>9, <1>10, <1>11 DEF TypeOK, Phases
<1>13. Linked' /\ Polled' /\ ReadsOffWhileRelaying'
    BY <1>1, <1>9, <1>11 DEF RelayInv, TypeOK, Linked, Polled,
       ReadsOffWhileRelaying, ConnType, ProcType
<1>14. Unread'
    BY <1>1, <1>11 DEF RelayInv, Unread
<1>15. Answered'
    BY <1>1, <1>9, <1>10, <1>11 DEF TypeOK, Answered, ProcType
<1>16. NothingLost' /\ Finished' /\ Reopened'
    BY <1>1, <1>9, <1>11 DEF NothingLost, Finished, Reopened
<1>17. QED
    BY <1>12, <1>13, <1>14, <1>15, <1>16, Zenon DEF RelayInv

\* The CGI is launched.
LEMMA LaunchAction ==
    ASSUME RelayInv, Launch PROVE RelayInv'
<1> DEFINE in == ArrivedData > 0 \/ peer.chunked \/ ~Complete
           str == peer.chunked \/ ~Complete
           rem == IF peer.chunked THEN 0 ELSE peer.unsent
           c   == Processed(conn)
<1>1. /\ TypeOK /\ conn.open /\ ~proc.live /\ ~proc.started /\ ~script.wrote
      /\ hist.heads = 0 /\ hist.sent = 0 /\ conn.out = 0 /\ conn.sent = 0
    BY AtLaunch DEF Launch
<1>2. ArrivedData \in Nat
    BY <1>1 DEF TypeOK, PeerType, ArrivedData, Arrived, Complete
<1>3. in \in BOOLEAN /\ str \in BOOLEAN /\ rem \in Nat
    BY <1>1 DEF TypeOK, PeerType
<1>4. IsUpdated(conn, conn, conn.rd, conn.wr)
    BY <1>1 DEF TypeOK, IsUpdated
<1>5. IsUpdated(c, conn, conn.rd, conn.wr)
    BY <1>1, <1>4, ProcessedFacts, Zenon DEF TypeOK
<1>6. conn' = [c EXCEPT !.cgi_active = TRUE, !.cgi_streaming = str, !.remaining = rem]
    BY DEF Launch
<1>7. proc' = [proc EXCEPT !.live = TRUE, !.stdout = TRUE, !.stderr = TRUE,
                           !.buf = ArrivedData, !.stdin = in]
    BY DEF Launch
<1> HIDE DEF in, str, rem, c
<1>8. /\ conn' \in ConnType /\ conn'.open = conn.open /\ conn'.rd = conn.rd
      /\ conn'.wr = conn.wr /\ conn'.out = conn.out /\ conn'.sent = conn.sent
      /\ conn'.res_ready = conn.res_ready /\ conn'.keep_alive = conn.keep_alive
      /\ conn'.cgi_active = TRUE
    BY <1>3, <1>5, <1>6, Zenon DEF IsUpdated, ConnType
<1>9. proc' \in ProcType /\ proc'.live = TRUE /\ proc'.started = proc.started
      /\ proc'.paused = proc.paused
    BY <1>1, <1>2, <1>3, <1>7, Zenon DEF TypeOK, ProcType
<1>10. script' \in ScriptType /\ script'.run = "up" /\ script'.wrote = script.wrote
       /\ script'.left = script.left /\ script'.out = script.out
       /\ script'.in = script.in
    BY <1>1, Zenon DEF TypeOK, ScriptType, Launch
<1>11. phase' = "batch" /\ UNCHANGED <<batch, peer, hist>>
    BY DEF Launch
<1>12. TypeOK'
    BY <1>1, <1>8, <1>9, <1>10, <1>11 DEF TypeOK, Phases
<1>13. Linked' /\ Polled' /\ ReadsOffWhileRelaying'
    BY <1>1, <1>8, <1>9, <1>11 DEF RelayInv, TypeOK, Linked, Polled,
       ReadsOffWhileRelaying, ConnType, ProcType
<1>14. Unread'
    BY <1>1, <1>9, <1>10, <1>11 DEF RelayInv, TypeOK, Unread, ProcType, ScriptType
<1>15. Answered'
    BY <1>1, <1>8, <1>9, <1>11 DEF TypeOK, Answered, ProcType
<1>16. NothingLost' /\ Finished' /\ Reopened'
    BY <1>1, <1>9, <1>11 DEF TypeOK, NothingLost, Finished, Reopened, ProcType
<1>17. QED
    BY <1>12, <1>13, <1>14, <1>15, <1>16, Zenon DEF RelayInv

\* The script's head becomes the response's.
LEMMA ReadHeadAction ==
    ASSUME RelayInv, ReadHead PROVE RelayInv'
<1> DEFINE len == script.head = "length"
           o   == conn.out + 1
           k   == conn.keep_alive /\ len
           x   == conn.close_after_send \/ ~len
           c   == [conn EXCEPT !.out = o, !.res_ready = TRUE, !.keep_alive = k,
                               !.close_after_send = x]
           p   == script.out - 1
<1>1. /\ TypeOK /\ proc.live /\ conn.open /\ script.wrote /\ phase = "stdout"
      /\ hist.heads = 0 /\ hist.sent = 0 /\ conn.out = 0 /\ conn.sent = 0
      /\ script.out + script.left = RespMax + 1 /\ script.out > 0
    BY DEF ReadHead, RelayInv, TypeOK, Linked, Unread, Answered, Polled,
           HistType, ProcType, ConnType, ScriptType
<1>2. /\ conn \in ConnType /\ proc \in ProcType /\ script \in ScriptType
      /\ hist \in HistType
    BY <1>1 DEF TypeOK
<1>3. /\ len \in BOOLEAN /\ o \in Nat /\ k \in BOOLEAN /\ x \in BOOLEAN /\ p \in Nat
      /\ o = 1 /\ p + script.left = RespMax
    BY <1>1, <1>2, RelayAssumption DEF ConnType, ScriptType
<1>4. proc' = [proc EXCEPT !.started = TRUE, !.has_length = len,
                           !.idle_expired = FALSE]
    BY DEF ReadHead
<1>5. conn' = Interest(c, FALSE, TRUE)
    BY <1>2, Zenon DEF ReadHead, ConnType
<1>6. script' = [script EXCEPT !.out = p]
    BY <1>2, Zenon DEF ReadHead, ScriptType
<1> HIDE DEF len, o, k, x, p
<1>7. c \in ConnType /\ c.out = o /\ c.res_ready = TRUE /\ c.open = conn.open
      /\ c.sent = conn.sent /\ c.cgi_active = conn.cgi_active
    BY <1>2, <1>3, Zenon DEF ConnType
<1> HIDE DEF c
<1>8. IsUpdated(conn', c, FALSE, TRUE)
    BY <1>5, <1>7, InterestFacts, Zenon
<1>9. proc' \in ProcType /\ proc'.live = proc.live /\ proc'.started = TRUE
      /\ proc'.paused = proc.paused
    BY <1>2, <1>3, <1>4, Zenon DEF ProcType
<1>10. script' \in ScriptType /\ script'.run = script.run
       /\ script'.wrote = script.wrote /\ script'.left = script.left
       /\ script'.out = p /\ script'.in = script.in
    BY <1>2, <1>3, <1>6, Zenon DEF ScriptType
<1>11. 200 \in Statuses /\ hist' = Queued(200)
    BY DEF Statuses, ReadHead
<1>12. IsQueued(hist', 200)
    BY <1>2, <1>11, QueuedFacts
<1>13. UNCHANGED <<phase, batch, peer>>
    BY DEF ReadHead
<1>14. TypeOK'
    BY <1>1, <1>8, <1>9, <1>10, <1>12, <1>13 DEF TypeOK, IsUpdated, IsQueued
<1>15. Linked' /\ ReadsOffWhileRelaying'
    BY <1>1, <1>7, <1>8, <1>9
    DEF RelayInv, Linked, ReadsOffWhileRelaying, IsUpdated
<1>21. Polled'
    BY <1>1, <1>3, <1>7, <1>8, <1>9
    DEF Polled, IsUpdated, ConnType
<1>16. Unread'
    BY <1>1, <1>9, <1>10, <1>13 DEF RelayInv, Unread
<1>17. Answered'
    BY <1>1, <1>9, <1>12, <1>13 DEF Answered, IsQueued, HistType, ProcType
<1>18. NothingLost'
    BY <1>1, <1>2, <1>3, <1>7, <1>8, <1>10, <1>12, RelayAssumption
    DEF NothingLost, IsUpdated, IsQueued, ScriptType
<1>19. Finished' /\ Reopened'
    BY <1>1, <1>9 DEF Finished, Reopened
<1>20. QED
    BY <1>14, <1>15, <1>16, <1>17, <1>18, <1>19, <1>21, Zenon DEF RelayInv

\* The script's body follows it.
LEMMA ReadBodyAction ==
    ASSUME RelayInv, ReadBody PROVE RelayInv'
<1> DEFINE o == conn.out + 1
           c == [conn EXCEPT !.out = o, !.res_ready = TRUE]
           p == script.out - 1
<1>1. /\ TypeOK /\ proc.live /\ proc.started /\ conn.open /\ script.wrote
      /\ phase = "stdout" /\ hist.heads = 1 /\ script.out > 0
    BY DEF ReadBody, RelayInv, TypeOK, Linked, Unread, Answered, ProcType
<1>2. /\ conn \in ConnType /\ proc \in ProcType /\ script \in ScriptType
      /\ hist \in HistType
    BY <1>1 DEF TypeOK
<1>3. o \in Nat /\ p \in Nat /\ o = conn.out + 1 /\ p = script.out - 1
    BY <1>1, <1>2 DEF ConnType, ScriptType
<1>4. conn' = Interest(c, FALSE, TRUE)
    BY <1>2, Zenon DEF ReadBody, ConnType
<1>5. script' = [script EXCEPT !.out = p]
    BY <1>2, Zenon DEF ReadBody, ScriptType
<1> HIDE DEF o, p
<1>6. c \in ConnType /\ c.out = o /\ c.res_ready = TRUE /\ c.open = conn.open
      /\ c.sent = conn.sent /\ c.cgi_active = conn.cgi_active
    BY <1>2, <1>3, Zenon DEF ConnType
<1> HIDE DEF c
<1>7. IsUpdated(conn', c, FALSE, TRUE)
    BY <1>4, <1>6, InterestFacts, Zenon
<1>8. proc' \in ProcType /\ proc'.live = proc.live /\ proc'.started = proc.started
      /\ proc'.paused = proc.paused
    BY <1>2, Zenon DEF ReadBody, ProcType
<1>9. script' \in ScriptType /\ script'.run = script.run
      /\ script'.wrote = script.wrote /\ script'.left = script.left
      /\ script'.out = p /\ script'.in = script.in
    BY <1>2, <1>3, <1>5, Zenon DEF ScriptType
<1>10. UNCHANGED <<phase, batch, peer, hist>>
    BY DEF ReadBody
<1>11. TypeOK'
    BY <1>1, <1>7, <1>8, <1>9, <1>10 DEF TypeOK, IsUpdated
<1>12. Linked' /\ ReadsOffWhileRelaying'
    BY <1>1, <1>6, <1>7, <1>8
    DEF RelayInv, Linked, ReadsOffWhileRelaying, IsUpdated
<1>18. Polled'
    BY <1>1, <1>2, <1>3, <1>6, <1>7, <1>8
    DEF RelayInv, Polled, IsUpdated, ConnType
<1>13. Unread'
    BY <1>1, <1>8, <1>9, <1>10 DEF RelayInv, Unread
<1>14. Answered'
    BY <1>1, <1>8, <1>10 DEF RelayInv, Answered
<1>15. NothingLost'
    BY <1>1, <1>2, <1>3, <1>6, <1>7, <1>9, <1>10
    DEF RelayInv, NothingLost, IsUpdated, ScriptType, ConnType, HistType
<1>16. Finished' /\ Reopened'
    BY <1>1, <1>8 DEF Finished, Reopened
<1>17. QED
    BY <1>11, <1>12, <1>13, <1>14, <1>15, <1>16, <1>18, Zenon DEF RelayInv

\* The response goes to the client's socket.
LEMMA ClientWriteAction ==
    ASSUME RelayInv, ClientWrite PROVE RelayInv'
<1> DEFINE n == Lesser(conn.out - conn.sent, SockCap - peer.sock)
           k == peer.sock + n
           m == hist.sent + n
           e == conn.sent + n
           full == [conn EXCEPT !.out = 0, !.sent = 0]
           part == [conn EXCEPT !.sent = e, !.expired = FALSE]
           q == Resume(conn, proc)
<1>1. /\ TypeOK /\ phase = "batch" /\ UNCHANGED phase /\ batch' \in SUBSET Tags
      /\ conn.out >= conn.sent /\ (conn.out = 0 => conn.sent = 0)
    BY DEF ClientWrite, Dispatch, RelayInv, TypeOK, Polled, ConnType
<1>2. /\ conn \in ConnType /\ proc \in ProcType /\ script \in ScriptType
      /\ peer \in PeerType /\ hist \in HistType
    BY <1>1 DEF TypeOK
<1>13. /\ conn.out \in Nat /\ conn.sent \in Nat /\ hist.sent \in Nat
       /\ hist.heads \in Nat /\ script.out \in Nat /\ script.left \in Nat
       /\ proc.live \in BOOLEAN /\ proc.started \in BOOLEAN
    BY <1>2 DEF ConnType, HistType, ScriptType, ProcType
<1>3. n \in Nat /\ n <= conn.out - conn.sent /\ n <= SockCap - peer.sock
  <2>1. conn.out - conn.sent \in Nat /\ SockCap - peer.sock \in Nat
      BY <1>1, <1>2, RelayAssumption DEF TypeOK, ConnType, PeerType
  <2>2. QED
      BY <2>1, LesserFacts, Zenon
<1>4. \/ UNCHANGED <<conn, proc, script, peer, hist>>
      \/ conn.open /\ conn.out = 0 /\ Finalize(conn, proc, script) /\ UNCHANGED <<peer, hist>>
      \/ /\ conn.open /\ conn.res_ready /\ n # 0
         /\ IF conn.sent + n = conn.out
            THEN Finalize(full, q, script)
            ELSE conn' = part /\ proc' = q /\ UNCHANGED script
         /\ hist' = [hist EXCEPT !.sent = m]
         /\ peer' = IF peer.state = "fin"
                    THEN [peer EXCEPT !.state = "rst", !.rcv = 0]
                    ELSE [peer EXCEPT !.sock = k]
    BY <1>2, Zenon DEF ClientWrite, ConnType, HistType, PeerType
<1> HIDE DEF n
<1>5. k \in Nat /\ k <= SockCap /\ m \in Nat /\ e \in Nat /\ 0 \in Nat
      /\ m = hist.sent + n /\ e = conn.sent + n
    BY <1>2, <1>3, RelayAssumption DEF ConnType, PeerType, HistType
<1> HIDE DEF k, m, e
<1>6. full \in ConnType /\ full.open = conn.open /\ full.out = 0 /\ full.sent = 0
      /\ full.keep_alive = conn.keep_alive /\ full.cgi_active = conn.cgi_active
    BY <1>2, <1>5, Zenon DEF ConnType
<1>7. part \in ConnType /\ part.open = conn.open /\ part.out = conn.out
      /\ part.sent = e /\ part.keep_alive = conn.keep_alive
      /\ part.cgi_active = conn.cgi_active /\ part.wr = conn.wr
      /\ part.rd = conn.rd /\ part.res_ready = conn.res_ready
    BY <1>2, <1>5, Zenon DEF ConnType
<1>8. q \in ProcType /\ q.live = proc.live /\ q.started = proc.started
      /\ q.paused = FALSE
  <2>1. q.paused => proc.paused /\ ~conn.cgi_active
      BY <1>2, ResumeFacts
  <2>2. QED
      BY <1>2, <2>1, ResumeFacts DEF RelayInv, Linked, Polled, ProcType
<1> HIDE DEF full, part, q
<1>9. CASE UNCHANGED <<conn, proc, script, peer, hist>>
    BY <1>1, <1>9, LoopStep DEF Phases
<1>10. CASE conn.open /\ conn.out = 0 /\ Finalize(conn, proc, script)
            /\ UNCHANGED <<peer, hist>>
  <2>1. ~proc.paused /\ conn.sent = 0
      BY <1>1, <1>10 DEF RelayInv, Polled, ConnType, ProcType
  <2>2. peer' \in PeerType /\ peer'.unsent <= peer'.total /\ peer'.sock <= SockCap
        /\ (peer'.chunked => peer'.total > 0) /\ hist' \in HistType
        /\ hist'.sent + conn.sent = hist.sent + conn.out
      BY <1>1, <1>10, <2>1 DEF TypeOK
  <2>3. QED
      BY <1>1, <1>2, <1>10, <2>1, <2>2, FinalizeStep
<1>11. CASE /\ conn.open /\ conn.res_ready /\ n # 0
            /\ IF conn.sent + n = conn.out
               THEN Finalize(full, q, script)
               ELSE conn' = part /\ proc' = q /\ UNCHANGED script
            /\ hist' = [hist EXCEPT !.sent = m]
            /\ peer' = IF peer.state = "fin"
                       THEN [peer EXCEPT !.state = "rst", !.rcv = 0]
                       ELSE [peer EXCEPT !.sock = k]
  <2>1. hist' \in HistType /\ hist'.heads = hist.heads
        /\ hist'.status = hist.status /\ hist'.sent = m
      BY <1>2, <1>5, <1>11, Zenon DEF HistType
  <2>2. peer' \in PeerType /\ peer'.unsent = peer.unsent /\ peer'.total = peer.total
        /\ peer'.chunked = peer.chunked /\ (peer'.sock = k \/ peer'.sock = peer.sock)
      BY <1>2, <1>5, <1>11, Zenon DEF PeerType
  <2>3. peer'.unsent <= peer'.total /\ peer'.sock <= SockCap
        /\ (peer'.chunked => peer'.total > 0)
      BY <1>1, <1>5, <2>2 DEF TypeOK
  <2>4. CASE conn.sent + n = conn.out
    <3>1. hist'.sent + conn.sent = hist.sent + conn.out
        BY <1>2, <1>3, <1>5, <2>1, <2>4 DEF ConnType, HistType
    <3>2. QED
        BY <1>1, <1>6, <1>8, <1>11, <2>1, <2>2, <2>3, <2>4, <3>1, FinalizeStep
  <2>5. CASE conn.sent + n # conn.out
    <3>1. conn' = part /\ proc' = q /\ UNCHANGED script
        BY <1>11, <2>5
    <3>2. TypeOK'
        BY <1>1, <1>7, <1>8, <2>1, <2>2, <2>3, <3>1 DEF TypeOK
    <3>3. Linked' /\ ReadsOffWhileRelaying'
        BY <1>7, <1>8, <1>11, <3>1, <1>1
        DEF RelayInv, Linked, ReadsOffWhileRelaying
    <3>12. conn'.sent < conn'.out /\ conn'.out # 0
        BY <1>3, <1>5, <1>7, <1>13, <2>5, <3>1
    <3>13. ~proc'.paused
        BY <1>8, <3>1, Zenon
    <3>4. Polled'
        BY <1>7, <1>11, <3>1, <3>12, <3>13, Zenon DEF RelayInv, Polled
    <3>5. Unread'
        BY <1>1, <1>8, <3>1 DEF RelayInv, Unread
    <3>6. n > 0 /\ hist.heads # 0
        BY <1>2, <1>3, <1>11 DEF RelayInv, Answered, ConnType, ProcType, HistType
    <3>7. Answered'
        BY <1>1, <1>3, <1>5, <1>7, <1>8, <1>13, <2>1, <3>1, <3>6 DEF RelayInv, Answered
    <3>8. NothingLost'
        BY <1>3, <1>5, <1>7, <1>8, <1>13, <2>1, <3>1, RelayAssumption
        DEF RelayInv, NothingLost
    <3>9. Finished'
        BY <1>7, <1>8, <3>1 DEF RelayInv, Finished
    <3>10. Reopened'
        BY <1>1, <1>7, <1>8, <3>1 DEF RelayInv, Reopened
    <3>11. QED
        BY <3>2, <3>3, <3>4, <3>5, <3>7, <3>8, <3>9, <3>10, Zenon DEF RelayInv
  <2>6. QED
      BY <2>4, <2>5
<1>12. QED
    BY <1>4, <1>9, <1>10, <1>11 DEF n, k, m, e, full, part, q


-----------------------------------------------------------------------------
(* The theorems *)

\* No step of the server, the script, the client or the clock breaks RelayInv.
LEMMA RelayStep == RelayInv /\ [Next]_vars => RelayInv'
<1> SUFFICES ASSUME RelayInv, [Next]_vars PROVE RelayInv'
    OBVIOUS
<1>1. CASE Server
    BY <1>1, LaunchRefusedAction, LaunchAction, LoopActions, TimerActions,
       ReadHeadAction, ReadBodyAction, ReadEnds, ProcActions, WriteStdinAction,
       HandleSignalAction, ReadClientEnds, ReadClientBodyAction,
       ClientWriteAction DEF Server
<1>2. CASE Environment
    BY <1>2, ScriptActions, PeerActions, ExpireConnAction, ProcActions
    DEF Environment
<1>3. CASE UNCHANGED vars
    BY <1>3 DEF vars, RelayInv, TypeOK, Linked, Polled, ReadsOffWhileRelaying,
                Unread, Answered, NothingLost, Finished, Reopened
<1>4. QED
    BY <1>1, <1>2, <1>3 DEF Next

\* RelayInv holds in every reachable state.
THEOREM RelayInvariant == Spec => []RelayInv
<1>1. Init => RelayInv
    BY InitInv, RelayAssumption
<1>2. QED
    BY <1>1, RelayStep, PTL DEF Spec

\* Every variable keeps its type, and the pipes and the socket their capacity.
THEOREM TypeCorrect == Spec => []TypeOK
<1>1. RelayInv => TypeOK
    BY DEF RelayInv
<1>2. QED
    BY <1>1, RelayInvariant, PTL

\* cgi_active and the manager's maps agree at every step of every handler.
THEOREM ActiveAgreement == Spec => []ActiveAgrees
<1>1. RelayInv => ActiveAgrees
    BY DEF RelayInv, Linked, ActiveAgrees
<1>2. QED
    BY <1>1, RelayInvariant, PTL

\* A paused process is always one that client_write is going to resume.
THEOREM NoLostWakeup == Spec => []PausedIsResumed
<1>1. RelayInv => PausedIsResumed
    BY DEF RelayInv, TypeOK, Linked, Polled, PausedIsResumed, ConnType
<1>2. QED
    BY <1>1, RelayInvariant, PTL

\* No output is stranded in response_out without write interest.
THEOREM OutputPolled == Spec => []OutputIsPolled
<1>1. RelayInv => OutputIsPolled
    BY DEF RelayInv, TypeOK, Polled, OutputIsPolled, ConnType
<1>2. QED
    BY <1>1, RelayInvariant, PTL

\* The client is not read while its response is being relayed.
THEOREM ReadsOff == Spec => []ReadsOffWhileRelaying
<1>1. RelayInv => ReadsOffWhileRelaying
    BY DEF RelayInv
<1>2. QED
    BY <1>1, RelayInvariant, PTL

\* Nothing the script writes is lost, duplicated or sent twice.
THEOREM Conservation == Spec => []NothingLost
<1>1. RelayInv => NothingLost
    BY DEF RelayInv
<1>2. QED
    BY <1>1, RelayInvariant, PTL

-----------------------------------------------------------------------------
(* The pause *)

\* stdout is dispatched only if it was not paused when the batch began or the
\* script has closed it since: nothing but enforceBackpressure pauses, and it
\* does so at the end of that very dispatch.
PauseInv ==
    /\ phase = "launch" => batch = {}
    /\ phase = "stdout" => "stdout" \notin batch
    /\ "stdout" \in batch \/ phase = "stdout" => ~proc.paused \/ ~script.stdout

\* What a step does to the pause, to the script's end and to response_out.
PauseFacts ==
    /\ script'.stdout => script.stdout \/ phase = "launch"
    /\ proc'.paused => proc.paused \/ (phase = "stdout" /\ phase' = "batch")
    /\ conn'.out <= conn.out \/ phase = "stdout" \/ ~proc'.paused

\* What it does to the batch.
BatchFacts ==
    /\ phase' = "launch" => phase = "launch"
    /\ phase \in {"launch", "stdout"} => batch' = batch
    /\ phase' = "stdout" =>
          \/ phase = "stdout"
          \/ "stdout" \in batch /\ phase = "batch" /\ batch' = batch \ {"stdout"}
    /\ batch' \subseteq batch \/ (batch' = Ready /\ UNCHANGED <<proc, script>>)

LEMMA EveryBatch == TypeOK /\ Next => BatchFacts
<1> SUFFICES ASSUME TypeOK, Next PROVE BatchFacts
    OBVIOUS
<1>1. CASE LaunchRefused \/ Launch
    BY <1>1 DEF LaunchRefused, Launch, BatchFacts
<1>2. CASE Wait
    BY <1>2 DEF Wait, BatchFacts
<1>3. CASE EndBatch \/ CloseDrained \/ CheckTimeouts
    BY <1>3 DEF EndBatch, CloseDrained, CheckTimeouts, BatchFacts
<1>4. CASE BeginStdout
    BY <1>4 DEF BeginStdout, Dispatch, BatchFacts
<1>5. CASE ReadHead \/ ReadInvalidHead \/ ReadBody \/ ReadEof \/ ReadAgain
    BY <1>5 DEF ReadHead, ReadInvalidHead, ReadBody, ReadEof, ReadAgain, BatchFacts
<1>6. CASE WriteStdin \/ ReadStderr \/ DropStale \/ HandleSignal
    BY <1>6 DEF WriteStdin, ReadStderr, DropStale, HandleSignal, Dispatch, BatchFacts
<1>7. CASE WriteStdinFails \/ ReadClientLeftover
    BY <1>7 DEF WriteStdinFails, ReadClientLeftover, Dispatch, BatchFacts
<1>8. CASE ReadClientGone \/ ReadClientBody \/ ReadClientMalformed \/ ClientWrite
    BY <1>8 DEF ReadClientGone, ReadClientBody, ReadClientMalformed, ClientWrite,
       Dispatch, BatchFacts
<1>9. CASE Environment
    BY <1>9 DEF Environment, Script, Peer, ExpireConn, ExpireIdle, ExpireAbsolute,
       BatchFacts
<1>10. QED
    BY <1>1, <1>2, <1>3, <1>4, <1>5, <1>6, <1>7, <1>8, <1>9 DEF Next, Server

\* The two ends of a process clear the pause.
LEMMA CleanupPause ==
    ASSUME TypeOK, NEW p \in ProcType, NEW s \in ScriptType, NEW reason, NEW status,
           Cleanup(p, s, reason, status)
    PROVE  PauseFacts
<1>1. IsCleaned(proc', p) /\ IsKilled(script', s)
    BY CleanProcFacts, KillFacts DEF Cleanup
<1>2. QED
    BY <1>1 DEF IsCleaned, IsKilled, PauseFacts

LEMMA CloseClientPause ==
    ASSUME TypeOK, CloseClient PROVE PauseFacts
<1>1. proc \in ProcType /\ script \in ScriptType /\ conn.out \in Nat
    BY DEF TypeOK, ConnType
<1>2. conn'.out = 0
    BY ClosedFacts DEF CloseClient
<1>3. CASE proc.live
  <2>1. IsCleaned(proc', proc) /\ IsKilled(script', script)
      BY <1>1, <1>3, CleanProcFacts, KillFacts DEF CloseClient
  <2>2. QED
      BY <1>1, <1>2, <2>1 DEF IsCleaned, IsKilled, PauseFacts
<1>4. CASE ~proc.live
    BY <1>1, <1>2, <1>4 DEF CloseClient, PauseFacts
<1>5. QED
    BY <1>3, <1>4

\* A handler that changes neither.
Steady ==
    /\ script'.stdout => script.stdout
    /\ proc'.paused => proc.paused
    /\ conn'.out <= conn.out

LEMMA LaunchPause ==
    ASSUME RelayInv, Launch \/ LaunchRefused PROVE PauseFacts
<1>1. proc \in ProcType /\ ~proc.paused /\ phase = "launch"
    BY AtLaunch DEF RelayInv, Polled, TypeOK, ProcType, Launch, LaunchRefused
<1>2. ~proc'.paused
    BY <1>1, Zenon DEF Launch, LaunchRefused, ProcType
<1>3. QED
    BY <1>1, <1>2 DEF PauseFacts

LEMMA StdoutPause ==
    ASSUME TypeOK, ReadHead \/ ReadBody \/ ReadAgain PROVE PauseFacts
<1>1. conn \in ConnType /\ proc \in ProcType /\ script \in ScriptType
    BY DEF TypeOK
<1>2. phase = "stdout"
    BY DEF ReadHead, ReadBody, ReadAgain
<1>3. script'.stdout = script.stdout
    BY <1>1, Zenon DEF ReadHead, ReadBody, ReadAgain, ScriptType
<1>4. CASE ReadHead \/ ReadBody
  <2>1. proc'.paused = proc.paused
      BY <1>1, <1>4, Zenon DEF ReadHead, ReadBody, ProcType
  <2>2. QED
      BY <1>2, <1>3, <2>1 DEF PauseFacts
<1>5. CASE ReadAgain
    BY <1>2, <1>3, <1>5 DEF ReadAgain, PauseFacts
<1>6. QED
    BY <1>4, <1>5

LEMMA EndPause ==
    ASSUME TypeOK, ReadInvalidHead \/ ReadEof \/ HandleSignal PROVE PauseFacts
<1>1. /\ script \in ScriptType /\ proc \in ProcType /\ conn \in ConnType
    BY DEF TypeOK
<1>2. CASE ReadInvalidHead \/ ReadEof
    BY <1>1, <1>2, CleanupPause DEF ReadInvalidHead, ReadEof
<1>3. CASE HandleSignal
  <2> DEFINE q == [proc EXCEPT !.reaped = @ \/ proc.live]
             t == [script EXCEPT !.run = IF @ = "zombie" THEN "reaped" ELSE @]
  <2>1. ChildExit(q, t)
      BY <1>3 DEF HandleSignal
  <2>2. q \in ProcType /\ q.paused = proc.paused
      BY <1>1, Zenon DEF ProcType
  <2>3. t \in ScriptType /\ t.stdout = script.stdout
      BY <1>1 DEF ScriptType
  <2> HIDE DEF q, t
  <2>4. CASE q.live /\ t.failed /\ ~q.started
      BY <2>1, <2>2, <2>3, <2>4, CleanupPause DEF ChildExit
  <2>5. CASE ~(q.live /\ t.failed /\ ~q.started)
      BY <1>1, <2>1, <2>2, <2>3, <2>5 DEF ChildExit, PauseFacts, ConnType
  <2>6. QED
      BY <2>4, <2>5
<1>4. QED
    BY <1>2, <1>3

LEMMA RoundPause ==
    ASSUME TypeOK, CloseDrained \/ CheckTimeouts PROVE PauseFacts
<1>1. /\ script \in ScriptType /\ proc \in ProcType /\ conn.out \in Nat
    BY DEF TypeOK, ConnType
<1>2. UNCHANGED <<conn, proc, script>> => PauseFacts
    BY <1>1 DEF PauseFacts
<1>3. CASE CloseDrained
    BY <1>2, <1>3, CloseClientPause DEF CloseDrained
<1>4. CASE CheckTimeouts
    BY <1>1, <1>2, <1>4, CloseClientPause, CleanupPause DEF CheckTimeouts, CgiTimeouts
<1>5. QED
    BY <1>3, <1>4

LEMMA FinalizePause ==
    ASSUME TypeOK, NEW c \in ConnType, c.out <= conn.out,
           NEW p, p.paused => proc.paused, Finalize(c, p, script)
    PROVE  PauseFacts
<1>1. CASE ~c.cgi_active /\ (c.close_after_send \/ ~c.keep_alive)
    BY <1>1, CloseClientPause DEF Finalize
<1>2. CASE ~(~c.cgi_active /\ (c.close_after_send \/ ~c.keep_alive))
  <2>1. script' = script /\ proc' = p
      BY <1>2 DEF Finalize
  <2>2. conn'.out = c.out
      BY <1>2, Zenon DEF Finalize, Interest, ConnType
  <2>3. QED
      BY <2>1, <2>2 DEF PauseFacts
<1>3. QED
    BY <1>1, <1>2

LEMMA ClientWritePause ==
    ASSUME TypeOK, ClientWrite PROVE PauseFacts
<1> DEFINE n == Lesser(conn.out - conn.sent, SockCap - peer.sock)
           full == [conn EXCEPT !.out = 0, !.sent = 0]
<1>1. conn \in ConnType /\ proc \in ProcType /\ conn.out \in Nat /\ 0 \in Nat
    BY DEF TypeOK, ConnType
<1>2. CASE UNCHANGED <<conn, proc, script>>
    BY <1>1, <1>2 DEF PauseFacts
<1>3. CASE Finalize(conn, proc, script)
    BY <1>1, <1>3, FinalizePause
<1>4. Resume(conn, proc).paused => proc.paused
    BY <1>1, ResumeFacts
<1>5. CASE Finalize(full, Resume(conn, proc), script)
  <2>1. full \in ConnType /\ full.out = 0
      BY <1>1, Zenon DEF ConnType
  <2> HIDE DEF full
  <2>2. QED
      BY <1>1, <1>4, <1>5, <2>1, FinalizePause
<1>6. CASE /\ conn' = [conn EXCEPT !.sent = @ + n, !.expired = FALSE]
           /\ proc' = Resume(conn, proc)
           /\ UNCHANGED script
  <2>1. conn'.out = conn.out
      BY <1>1, <1>6, Zenon DEF ConnType
  <2>2. QED
      BY <1>1, <1>4, <1>6, <2>1 DEF PauseFacts
<1>7. QED
    BY <1>2, <1>3, <1>5, <1>6, Zenon DEF ClientWrite

\* The other handlers.
LEMMA OtherPause ==
    ASSUME TypeOK,
           Wait \/ EndBatch \/ BeginStdout \/ DropStale \/ ReadClientLeftover
           \/ WriteStdin \/ WriteStdinFails \/ ReadStderr
           \/ ReadClientGone \/ ReadClientBody \/ ReadClientMalformed
    PROVE  PauseFacts
<1>1. conn \in ConnType /\ proc \in ProcType /\ script \in ScriptType
      /\ conn.out \in Nat
    BY DEF TypeOK, ConnType
<1>2. Steady => PauseFacts
    BY DEF Steady, PauseFacts
<1>3. CASE Wait \/ EndBatch \/ BeginStdout \/ DropStale \/ ReadClientLeftover
    BY <1>1, <1>2, <1>3
    DEF Wait, EndBatch, BeginStdout, DropStale, ReadClientLeftover, Steady
<1>4. CASE WriteStdin \/ WriteStdinFails \/ ReadStderr
  <2>1. proc'.paused = proc.paused
      BY <1>1, <1>4, Zenon
      DEF WriteStdin, WriteStdinFails, ReadStderr, CloseStdin, ProcType
  <2>2. script'.stdout = script.stdout /\ conn' = conn
      BY <1>1, <1>4, Zenon DEF WriteStdin, WriteStdinFails, ReadStderr, ScriptType
  <2>3. QED
      BY <1>1, <1>2, <2>1, <2>2 DEF Steady
<1>5. CASE ReadClientGone \/ ReadClientMalformed
    BY <1>5, CloseClientPause DEF ReadClientGone, ReadClientMalformed
<1>6. CASE ReadClientBody
  <2>1. proc'.paused = proc.paused
      BY <1>1, <1>6, Zenon
      DEF ReadClientBody, FinishStdin, FeedStdin, CloseStdin, ProcType
  <2>2. conn'.out = conn.out /\ script' = script
      BY <1>1, <1>6, Zenon DEF ReadClientBody, ConnType
  <2>3. QED
      BY <1>1, <1>2, <2>1, <2>2 DEF Steady
<1>7. QED
    BY <1>3, <1>4, <1>5, <1>6

LEMMA EnvironmentPause ==
    ASSUME TypeOK, Environment PROVE PauseFacts
<1>1. conn \in ConnType /\ proc \in ProcType /\ script \in ScriptType
      /\ conn.out \in Nat
    BY DEF TypeOK, ConnType
<1>2. Steady => PauseFacts
    BY DEF Steady, PauseFacts
<1>3. CASE Script
  <2>1. script'.stdout => script.stdout
      BY <1>1, <1>3 DEF Script, ScriptWriteHead, ScriptWriteBody, ScriptCloseStdout,
         ScriptReadStdin, ScriptCloseStdin, ScriptExit, ScriptType
  <2>2. QED
      BY <1>1, <1>2, <1>3, <2>1 DEF Script, Steady
<1>4. CASE Peer
    BY <1>1, <1>2, <1>4 DEF Peer, Steady
<1>5. CASE ExpireConn
  <2>1. conn'.out = conn.out
      BY <1>1, <1>5, Zenon DEF ExpireConn, ConnType
  <2>2. QED
      BY <1>1, <1>2, <1>5, <2>1 DEF ExpireConn, Steady
<1>6. CASE ExpireIdle \/ ExpireAbsolute
  <2>1. proc'.paused = proc.paused
      BY <1>1, <1>6, Zenon DEF ExpireIdle, ExpireAbsolute, ProcType
  <2>2. QED
      BY <1>1, <1>2, <1>6, <2>1 DEF ExpireIdle, ExpireAbsolute, Steady
<1>7. QED
    BY <1>3, <1>4, <1>5, <1>6 DEF Environment

LEMMA EveryPause == RelayInv /\ Next => PauseFacts
<1> SUFFICES ASSUME RelayInv, Next PROVE PauseFacts
    OBVIOUS
<1>1. TypeOK
    BY DEF RelayInv
<1>2. QED
    BY <1>1, LaunchPause, StdoutPause, EndPause, RoundPause, ClientWritePause,
       OtherPause, EnvironmentPause DEF Next, Server

LEMMA PauseInvariant == Spec => []PauseInv
<1>1. Init => PauseInv
    BY DEF Init, PauseInv
<1>2. RelayInv /\ PauseInv /\ [Next]_vars => PauseInv'
  <2> SUFFICES ASSUME RelayInv, PauseInv, [Next]_vars PROVE PauseInv'
      OBVIOUS
  <2>1. CASE Next
    <3>1. BatchFacts /\ PauseFacts
        BY <2>1, EveryBatch, EveryPause DEF RelayInv
    <3>2. "stdout" \in Ready => ~proc.paused \/ ~script.stdout
        BY DEF Ready, StdoutReady
    <3>3. (phase = "launch" => batch = {})' /\ (phase = "stdout" => "stdout" \notin batch)'
        BY <3>1 DEF PauseInv, BatchFacts
    <3>4. CASE phase' = "stdout"
        BY <3>1, <3>3, <3>4 DEF PauseInv, BatchFacts, PauseFacts
    <3>5. CASE phase' # "stdout" /\ "stdout" \in batch'
      <4>1. CASE batch' = Ready /\ UNCHANGED <<proc, script>>
          BY <3>2, <3>3, <3>5, <4>1 DEF PauseInv
      <4>2. CASE batch' \subseteq batch
          BY <3>1, <3>3, <3>5, <4>2 DEF PauseInv, PauseFacts
      <4>3. QED
          BY <3>1, <4>1, <4>2 DEF BatchFacts
    <3>6. QED
        BY <3>3, <3>4, <3>5 DEF PauseInv
  <2>2. CASE UNCHANGED vars
      BY <2>2 DEF vars, PauseInv
  <2>3. QED
      BY <2>1, <2>2
<1>3. QED
    BY <1>1, <1>2, RelayInvariant, PTL DEF Spec

\* A paused process adds nothing to response_out while its stdout is open.
THEOREM PauseIsKept == Spec => PauseHolds
<1>1. ASSUME RelayInv, PauseInv, [Next]_vars
      PROVE  [proc.paused /\ proc'.paused /\ script.stdout => conn'.out <= conn.out]_vars
  <2>1. CASE Next
      BY <1>1, <2>1, EveryPause DEF PauseInv, PauseFacts
  <2>2. CASE UNCHANGED vars
      BY <2>2
  <2>3. QED
      BY <1>1, <2>1, <2>2
<1>2. QED
    BY <1>1, RelayInvariant, PauseInvariant, PTL DEF Spec, PauseHolds
=============================================================================
