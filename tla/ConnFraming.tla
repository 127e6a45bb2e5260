---------------------------- MODULE ConnFraming ----------------------------
(***************************************************************************)
(* The requests of one connection: how read_client cuts the bytes that     *)
(* arrive into requests (HttpRequest::parseRequest) and into the body of   *)
(* an upload (startUpload, processBody), answers them and goes on to the   *)
(* next (finalize_response_write).  The client waits for an answer before  *)
(* its next request, and recv may cut what it sends anywhere.              *)
(*                                                                         *)
(* A token stands for the bytes of a part of a request: its line, its head *)
(* up to the empty line, a unit of body; the body of a multipart upload is *)
(* cut before and after a boundary, and before what it ends with, not in   *)
(* it.  An answer is sent whole.                                           *)
(***************************************************************************)
EXTENDS Integers, Sequences, SequencesExt

CONSTANTS N,           \* bound of the runs: requests of the client
          Kinds,       \* what they are
          Failing,     \* the uploads whose file may not open or be written
          Lines,       \* those of them whose body holds line ends
          Nested,      \* and those of which it reads like a request itself
          SizeMax      \* the values of size_t: 2^64

AllKinds == {"get", "post", "big", "upload", "multi", "parts", "chunked",
             "badline", "badhead", "huge"}

ASSUME FramingAssumption ==
    /\ N \in Nat
    /\ Kinds \subseteq AllKinds
    /\ Failing \subseteq Kinds
    /\ Lines \subseteq Kinds
    /\ Nested \subseteq Lines \cap {"post", "big", "upload", "badhead"}
    /\ SizeMax \in Nat \ 0..9

VARIABLES
    ask,      \* the kind of each request; does not change
    peer,     \* the client: the request and the part of it to be sent, gone
    rcv,      \* what has arrived and not been read
    server,   \* the ClientCon with its parser and its upload, and the disk
    answers   \* history: what has been sent

vars == <<ask, peer, rcv, server, answers>>

Requests == 1..N

\* Requests for pages ("post" with a body, "big" with one that is too large),
\* uploads by length, multipart with one part and with three, and chunked, and
\* requests that do not parse.  The body of a multipart upload is the boundary
\* (with the line end before it), the header of a part and its content, two
\* dashes after the last boundary and what may follow them; that of a chunked one
\* the size and the start of a chunk, the rest of it, and the last chunk.
Body(kind) ==
    CASE kind \in {"post", "big", "upload"} -> <<"data", "last">>
      [] kind = "multi" -> <<"delim", "fields", "data", "last",
                             "delim", "dashes", "tail">>
      [] kind = "parts" -> <<"delim", "fields", "data", "delim", "fields",
                              "delim", "fields", "delim", "dashes">>
      [] kind = "chunked" -> <<"open", "close", "end">>
      [] OTHER -> <<>>
Parts(kind) ==
    (CASE kind = "badline" -> <<"badline", "head">>
       [] kind = "badhead" -> <<"line", "badhead">>
       [] kind = "huge"    -> <<"line", "flood">>
       [] OTHER            -> <<"line", "head">>) \o Body(kind)

\* What the request with the number j is.  Number 0 is that of a request for a
\* page that the parser has found in the body of another one.
Kind == [j \in 0..N |-> IF j = 0 THEN "get" ELSE ask[j]]
Length(j) == IF Kind[j] \in {"post", "big", "upload", "multi", "parts"}
             THEN Len(Body(Kind[j])) ELSE 0
Chunked(j) == Kind[j] = "chunked"

\* parseMultipart makes "rule" (a line end and two dashes) and "stub" of a "delim".
Tokens == [req: Requests,
           part: {"line", "badline", "head", "badhead", "flood",
                  "data", "last", "open", "close", "end",
                  "delim", "fields", "dashes", "tail", "rule", "stub"}]

\* What parseRequest looks for: a line end, a request line, an empty line, a
\* head.  What reads like a request has its line in the first unit of a body
\* and its head in the second, or both in what is not a head.
IsNested(t) == ask[t.req] \in Nested
EndsLine(t) == t.part \notin {"data", "last", "dashes"} \/ ask[t.req] \in Lines
IsLine(t) == t.part = "line" \/ (t.part \in {"data", "badhead"} /\ IsNested(t))
IsHead(t) == t.part = "head" \/ (t.part = "last" /\ IsNested(t))
EndsHead(t) == IsHead(t) \/ t.part \in {"badhead", "end"}

NoAnswer == [to |-> 0, ok |-> FALSE, queued |-> FALSE]
Answer == [to: 0..N + 1, ok: BOOLEAN, queued: BOOLEAN]

States == {"REQUEST_LINE", "HEADERS", "BODY", "COMPLETE", "ERROR"}

ServerType ==
    [up: BOOLEAN, open: BOOLEAN, rd: BOOLEAN,
     servConf: BOOLEAN,           \* servConf # nullptr
     keep_alive: BOOLEAN, out: Answer,
     state: States, buffer: Seq(Tokens), body: Seq(Tokens),
     req: 0..N,                   \* the request whose line was parsed
     content_type: BOOLEAN,       \* it is multipart/form-data
     multipart: BOOLEAN,          \* MPFlag of the HttpRequest
     upload_active: BOOLEAN, MPFlag: BOOLEAN, chunked: BOOLEAN,
     remaining: Nat,              \* upload_bytes_remaining
     chunk_buf: Seq(Tokens), mp_buf: Seq(Tokens),
     mp_state: {"BOUNDARY", "HEADER", "BODY", "END"},
     file: {"closed", "open", "bad"},
     path: 0..N + 1,              \* upload_path, by the request it is for
     disk: SUBSET [req: Requests, data: Seq(Tokens)]]

TypeOK ==
    /\ ask \in [Requests -> Kinds]
    /\ peer \in [req: 1..N + 1, pos: 1..11, gone: BOOLEAN]
    /\ rcv \in Seq(Tokens)
    /\ server \in ServerType
    /\ server.remaining < SizeMax
    /\ answers \in Seq(Answer)

-----------------------------------------------------------------------------
(* Small steps of the handlers, as functions of the ClientCon *)

Lesser(a, b) == IF a <= b THEN a ELSE b

\* Mutant: the counter is a signed integer.
SignedMinus(a, b) == a - b

Minus(a, b) == (a - b) % SizeMax

\* unlink
Without(disk, j) == {f \in disk: f.req # j}

\* Mutant: the request stays in the parser.
ClearNothing(c) == c

\* HttpRequest::clear: buffer, content_type and MPFlag stay.
Clear(c) == [c EXCEPT !.state = "REQUEST_LINE", !.body = <<>>, !.req = 0]

Queue(c, to, ok) ==
    [c EXCEPT !.out = [to |-> to, ok |-> ok, queued |-> TRUE], !.rd = FALSE]

\* fallback_error
Fallback(c) == Queue([c EXCEPT !.keep_alive = @ /\ c.servConf], 0, FALSE)

\* ClientCon::ClientCon, and an erased one but for `open` and the disk.
Fresh == [up |-> TRUE, open |-> TRUE, rd |-> TRUE, servConf |-> FALSE,
          keep_alive |-> FALSE, out |-> NoAnswer, state |-> "REQUEST_LINE",
          buffer |-> <<>>, body |-> <<>>, req |-> 0, content_type |-> FALSE,
          multipart |-> FALSE, upload_active |-> FALSE, MPFlag |-> FALSE,
          chunked |-> FALSE, remaining |-> 0, chunk_buf |-> <<>>,
          mp_buf |-> <<>>, mp_state |-> "BOUNDARY", file |-> "closed",
          path |-> 0, disk |-> {}]

\* close_client
CloseClient(c) ==
    [Fresh EXCEPT !.open = FALSE, !.rd = FALSE,
                  !.disk = IF c.upload_active THEN Without(c.disk, c.path)
                           ELSE c.disk]

-----------------------------------------------------------------------------
(* HttpRequest::parseRequest *)

\* The request line is the buffer as far as its first line end.  An error
\* leaves it there.
ParseLine(c) ==
    LET i == SelectInSeq(c.buffer, EndsLine)
        t == c.buffer[i]
    IN  IF i = 0 THEN c
        ELSE IF i = 1 /\ IsLine(t)
        THEN [c EXCEPT !.state = "HEADERS",
                       !.req = IF t.part = "line" THEN t.req ELSE 0,
                       !.buffer = IF t.part = "badhead"
                                  THEN <<[t EXCEPT !.part = "head"]>> \o Tail(@)
                                  ELSE Tail(@)]
        ELSE [c EXCEPT !.state = "ERROR"]

\* What comes before the empty line.  More than MAX_HEADER_SIZE throws out of
\* Server::run.  A head without Content-Type keeps the last one.
ParseHead(c) ==
    LET i == SelectInSeq(c.buffer, EndsHead)
        t == c.buffer[i]
    IN  IF \E k \in DOMAIN c.buffer: c.buffer[k].part = "flood"
        THEN [c EXCEPT !.state = "ERROR", !.up = FALSE]
        ELSE IF i = 0 THEN c
        ELSE IF i = 1 /\ IsHead(t)
        THEN [c EXCEPT !.buffer = Tail(@),
                       !.state = IF Length(c.req) = 0 /\ ~Chunked(c.req)
                                 THEN "COMPLETE" ELSE "BODY",
                       !.content_type = IF Length(c.req) = 0 THEN @
                                        ELSE Kind[c.req] \in {"multi", "parts"}]
        ELSE [c EXCEPT !.state = "ERROR"]

\* Mutant: the body stays in the buffer.
ParseBodyCopies(c) ==
    [c EXCEPT !.multipart = @ \/ c.content_type,
              !.body = SubSeq(c.buffer, 1, Lesser(Length(c.req), Len(c.buffer)))]

\* The body as far as it has come; a chunked one stays in the buffer.
ParseBody(c) ==
    LET n == Lesser(Length(c.req), Len(c.buffer)) IN
    [c EXCEPT !.multipart = @ \/ c.content_type,
              !.body = IF Chunked(c.req) THEN c.buffer ELSE SubSeq(c.buffer, 1, n),
              !.buffer = IF Chunked(c.req) THEN @ ELSE SubSeq(@, n + 1, Len(@))]

ParseRequest(c, data) ==
    LET b == [c EXCEPT !.buffer = @ \o data]
        l == IF b.state = "REQUEST_LINE" THEN ParseLine(b) ELSE b
        h == IF l.state = "HEADERS" THEN ParseHead(l) ELSE l
    IN  IF h.state = "BODY" THEN ParseBody(h) ELSE h

-----------------------------------------------------------------------------
(* Uploads.  opens and works are the outcomes of the file system. *)

Opens(c, opens) == opens \/ ask[c.path] \notin Failing

\* openUploadFile
Open(c, opens) ==
    IF Opens(c, opens)
    THEN [c EXCEPT !.file = "open",
                   !.disk = @ \cup {[req |-> c.path, data |-> <<>>]}]
    ELSE Fallback([c EXCEPT !.file = "closed"])

Written(c, data, works) ==
    \/ c.file = "open" /\ (works \/ ask[c.path] \notin Failing)
    \/ c.file = "closed" /\ data = <<>>

\* Mutant: the file of a failed write stays.
WriteBodyKeepsFile(c, data, works) ==
    IF Written(c, data, works)
    THEN [c EXCEPT !.remaining = Minus(@, Len(data)),
                   !.disk = {IF f.req = c.path THEN [f EXCEPT !.data = @ \o data]
                             ELSE f: f \in @}]
    ELSE Fallback([c EXCEPT !.file = "bad"])

\* write_body.  The two failures, too large and stream not good, do the same.
WriteBody(c, data, works) ==
    IF Written(c, data, works)
    THEN [c EXCEPT !.remaining = Minus(@, Len(data)),
                   !.disk = {IF f.req = c.path THEN [f EXCEPT !.data = @ \o data]
                             ELSE f: f \in @}]
    ELSE Fallback([c EXCEPT !.file = "bad", !.disk = Without(@, c.path)])

\* processChunkedBody, with one chunk.
Decoded(c, data) ==
    LET buf == c.chunk_buf \o data
        whole == Len(buf) >= 2 /\ buf[1].part = "open" /\ buf[2].part = "close"
        rest == IF whole THEN SubSeq(buf, 3, Len(buf)) ELSE buf
        state == IF ~\E k \in DOMAIN rest: EndsLine(rest[k]) THEN "BODY"
                 ELSE IF rest[1].part = "end" THEN "COMPLETE"
                 ELSE IF rest[1].part = "open" /\ Len(rest) = 1 THEN "BODY"
                 ELSE "ERROR"
    IN  [data |-> IF whole THEN SubSeq(buf, 1, 2) ELSE <<>>,
         rest |-> IF state = "COMPLETE" THEN Tail(rest) ELSE rest,
         state |-> state]

\* Where p and then q are in buf.
Pairs(buf, p, q) == {k \in 1..Len(buf) - 1: buf[k].part = p /\ buf[k + 1].part = q}

\* upload_path with a second name put after the first: no file has it.
NoPath == N + 1

\* The states MP_BOUNDARY and MP_HEADER, as far as openUploadFile.  A stream that
\* is open does not open again: it is bad from then on, and taken for open.
PartHeader(c, opens) ==
    LET at == Pairs(c.mp_buf, "delim", "fields")
        b == [c EXCEPT !.mp_buf = SubSeq(@, Min(at) + 2, Len(@)), !.mp_state = "BODY"]
    IN  IF at = {} THEN [c EXCEPT !.mp_state = "HEADER"]
        ELSE IF c.file = "open" THEN [b EXCEPT !.file = "bad", !.path = NoPath]
        ELSE Open(b, opens)

\* write_body of a part; if it fails the buffer stays.
Spill(c, data, rest, state, works) ==
    LET w == WriteBody(c, data, works) IN
    IF Written(c, data, works) THEN [w EXCEPT !.mp_buf = rest, !.mp_state = state]
    ELSE w

\* The final boundary: the part is complete.
PartEnd(c, i, works) ==
    LET w == Spill(c, SubSeq(c.mp_buf, 1, i - 1), <<>>, "END", works) IN
    IF w.mp_state = "END" THEN [w EXCEPT !.file = "closed"] ELSE w

\* A boundary that is not the final one, or not yet.  The line end and the dashes
\* before it go into the file, and two bytes of it are taken from the buffer.
PartNext(c, i, works) ==
    LET made(part) == <<[c.mp_buf[i] EXCEPT !.part = part]>> IN
    Spill(c, SubSeq(c.mp_buf, 1, i - 1) \o made("rule"),
          made("stub") \o SubSeq(c.mp_buf, i + 1, Len(c.mp_buf)), "BOUNDARY", works)

\* What is longer than the guard is written: all but the last unit.
PartGuard(c, works) ==
    LET n == Len(c.mp_buf) IN
    IF n > 1 THEN Spill(c, SubSeq(c.mp_buf, 1, n - 1), <<c.mp_buf[n]>>, c.mp_state, works)
    ELSE c

\* The state MP_BODY.
PartBody(c, works) ==
    LET final == Pairs(c.mp_buf, "delim", "dashes")
        delims == {k \in DOMAIN c.mp_buf: c.mp_buf[k].part = "delim"}
        d == PartNext(c, Min(delims), works)
    IN  IF final # {} THEN PartEnd(c, Min(final), works)
        ELSE IF delims = {} THEN PartGuard(c, works)
        ELSE IF d.mp_state = "BOUNDARY" THEN PartGuard(d, works)
        ELSE d

\* parseMultipart.  Its errors are not passed on.
ParseMultipart(c, data, opens, works) ==
    LET b == [c EXCEPT !.mp_buf = @ \o data]
        header == c.mp_state \in {"BOUNDARY", "HEADER"}
        h == IF header THEN PartHeader(b, opens) ELSE b
    IN  IF h.mp_state # "BODY" \/ (header /\ h.file = "closed") THEN h
        ELSE PartBody(h, works)

\* processBody: the ClientCon, whether it returns true, the state of the body.
ProcessBody(c, data, opens, works) ==
    LET d == Decoded(c, data)
        taken == IF c.chunked THEN d.data
                 ELSE SubSeq(data, 1, Lesser(Len(data), c.remaining))
        b == IF c.chunked THEN [c EXCEPT !.chunk_buf = d.rest] ELSE c
    IN  IF c.chunked /\ d.state = "ERROR"
        THEN [server |-> Fallback([b EXCEPT !.file = "closed",
                                            !.disk = Without(@, c.path)]),
              fine |-> FALSE, done |-> FALSE]
        ELSE [server |-> IF c.MPFlag THEN ParseMultipart(b, taken, opens, works)
                         ELSE WriteBody(b, taken, works),
              fine |-> c.MPFlag \/ Written(b, taken, works),
              done |-> c.chunked /\ d.state = "COMPLETE"]

\* uploadComplete, resetUpload
UploadComplete(c) ==
    Queue([c EXCEPT !.file = "closed", !.upload_active = FALSE,
                    !.MPFlag = FALSE, !.mp_state = "BOUNDARY", !.path = 0,
                    !.chunk_buf = <<>>, !.remaining = 0, !.chunked = FALSE],
          c.path, TRUE)

\* Mutant: an upload whose body has come with its head is not completed.
StartedActive(c, done) ==
    IF done \/ c.mp_state = "END" THEN UploadComplete(c)
    ELSE [c EXCEPT !.upload_active = TRUE]

\* The end of startUpload.
Started(c, done) ==
    IF (~c.chunked /\ c.remaining = 0) \/ done \/ c.mp_state = "END"
    THEN UploadComplete(c)
    ELSE [c EXCEPT !.upload_active = TRUE]

\* A Content-Type other than multipart has no boundary (setMPBoundary).
StartUpload(c, opens, works) ==
    LET m == [c EXCEPT !.MPFlag = @ \/ c.multipart, !.path = c.req]
        o == IF m.MPFlag THEN m ELSE Open(m, opens)
        r == [o EXCEPT !.remaining = Length(c.req),
                       !.chunked = @ \/ (Chunked(c.req) /\ c.body # <<>>)]
        p == ProcessBody(r, c.body, opens, works)
    IN  IF c.multipart /\ ~c.content_type
        THEN Fallback([c EXCEPT !.MPFlag = TRUE])
        ELSE IF ~m.MPFlag /\ ~Opens(m, opens) THEN o
        ELSE IF c.body = <<>> THEN Started(r, FALSE)
        ELSE IF p.fine THEN Started(Clear(p.server), p.done)
        ELSE p.server

-----------------------------------------------------------------------------
(* process_request, read_client *)

ProcessRequest(c, keepAlive, opens, works) ==
    LET k == [c EXCEPT !.keep_alive = keepAlive]
        kind == Kind[c.req]
    IN  IF kind = "big" THEN Fallback(k)
        ELSE IF kind \in {"upload", "multi", "parts", "chunked"}
        THEN StartUpload(k, opens, works)
        ELSE Queue(k, c.req, TRUE)

\* The bytes that are not of an upload.
ReadRequest(c, data, keepAlive, opens, works) ==
    LET p == ParseRequest(c, data)
        q == ProcessRequest([p EXCEPT !.servConf = TRUE], keepAlive, opens, works)
    IN  IF ~p.up THEN [p EXCEPT !.open = FALSE, !.rd = FALSE]
        ELSE IF p.state = "ERROR" THEN Fallback(p)
        ELSE IF p.state \in {"REQUEST_LINE", "HEADERS"} THEN p
        ELSE IF q.keep_alive /\ p.state = "COMPLETE" THEN Clear(q)
        ELSE q

\* The bytes of an upload, and those after them: all of them when it is chunked.
ReadUpload(c, data, keepAlive, opens, works) ==
    LET p == ProcessBody(c, data, opens, works)
        u == IF p.server.remaining = 0 \/ p.done \/ p.server.mp_state = "END"
             THEN UploadComplete(p.server) ELSE p.server
        n == IF c.chunked THEN 0 ELSE Lesser(Len(data), c.remaining)
        rest == SubSeq(data, n + 1, Len(data))
    IN  IF ~p.fine THEN p.server
        ELSE IF rest = <<>> THEN u
        ELSE ReadRequest(u, rest, keepAlive, opens, works)

Outcomes == IF Failing = {} THEN {TRUE} ELSE BOOLEAN

ReadClient ==
    /\ server.open /\ server.rd
    /\ \E n \in 1..Len(rcv), keepAlive \in BOOLEAN, opens, works \in Outcomes:
         LET data == SubSeq(rcv, 1, n) IN
         /\ server' = IF server.upload_active
                      THEN ReadUpload(server, data, keepAlive, opens, works)
                      ELSE ReadRequest(server, data, keepAlive, opens, works)
         /\ rcv' = SubSeq(rcv, n + 1, Len(rcv))
    /\ UNCHANGED <<ask, peer, answers>>

\* recv gives the end of the stream.
ReadClientGone ==
    /\ server.open /\ server.rd /\ rcv = <<>> /\ peer.gone
    /\ server' = CloseClient(server)
    /\ UNCHANGED <<ask, peer, rcv, answers>>

\* Mutant: the connection is not read again.
FinalizeQuietly(c) ==
    IF c.keep_alive THEN Clear([c EXCEPT !.out = NoAnswer]) ELSE CloseClient(c)

\* finalize_response_write
Finalize(c) ==
    IF c.keep_alive THEN Clear([c EXCEPT !.out = NoAnswer, !.rd = TRUE])
    ELSE CloseClient(c)

ClientWrite ==
    /\ server.open /\ server.out.queued
    /\ answers' = Append(answers, server.out)
    /\ server' = Finalize(server)
    /\ UNCHANGED <<ask, peer, rcv>>

CheckTimeouts ==
    /\ server.open
    /\ server' = CloseClient(server)
    /\ UNCHANGED <<ask, peer, rcv, answers>>

-----------------------------------------------------------------------------
(* The client *)

\* The next part; a new request once the last one has been answered.
Send ==
    /\ server.open /\ peer.req <= N /\ ~peer.gone
    /\ Len(answers) >= peer.req - 1
    /\ LET parts == Parts(ask[peer.req]) IN
         /\ rcv' = Append(rcv, [req |-> peer.req, part |-> parts[peer.pos]])
         /\ peer' = IF peer.pos < Len(parts) THEN [peer EXCEPT !.pos = @ + 1]
                    ELSE [peer EXCEPT !.req = @ + 1, !.pos = 1]
    /\ UNCHANGED <<ask, server, answers>>

Leave ==
    /\ server.open /\ ~peer.gone
    /\ peer' = [peer EXCEPT !.gone = TRUE]
    /\ UNCHANGED <<ask, rcv, server, answers>>

-----------------------------------------------------------------------------
Init ==
    /\ ask \in [Requests -> Kinds]
    /\ peer = [req |-> 1, pos |-> 1, gone |-> FALSE]
    /\ rcv = <<>>
    /\ server = Fresh
    /\ answers = <<>>

Server == ReadClient \/ ReadClientGone \/ ClientWrite

Next == Server \/ CheckTimeouts \/ Send \/ Leave

Spec == Init /\ [][Next]_vars

\* The loop keeps running; nothing is assumed of the clock and the client.
FairSpec == Spec /\ WF_vars(Server)

-----------------------------------------------------------------------------
(* Properties *)

\* After its answer to request j the server may be out of step with the client:
\* its body reads like a request and may be left unread, because it is not that
\* of an upload that has worked; or it is a multipart upload that has failed,
\* which is answered more than once.
MultipartKinds == {"multi", "parts"}
Strays(j) ==
    /\ j \in DOMAIN answers
    /\ ask[j] \in Nested \cup MultipartKinds
    /\ answers[j].ok => ask[j] = "post"
Astray(n) == \E j \in Requests \cap 1..n - 1: Strays(j)

\* The client takes the nth answer for that of its nth request: a success is
\* never that of another one, whatever was left in the parser (read_client,
\* parseRequest), but for what Strays says.
NoMisdelivery ==
    \A j \in 1..Len(answers):
        answers[j].ok => answers[j].to = j \/ Astray(j)

\* A multipart upload of which a boundary was taken for one that another part
\* follows, or whose file has failed.
MultipartWaits ==
    /\ server.upload_active /\ server.MPFlag
    /\ server.mp_state # "BODY" \/ server.file # "open"

\* While the client waits for the answer to a request it has sent, the server
\* has an answer queued, or bytes to read, or has closed.  A multipart upload may
\* wait for ever, if recv cuts its last boundary (parseMultipart).
NoStall ==
    server.open /\ ~server.out.queued /\ rcv = <<>> =>
        \/ Len(answers) >= peer.req - 1
        \/ MultipartWaits \/ Astray(peer.req - 1)

\* What is to be in the file of an upload by length, or of the only part.
Content(j) == <<[req |-> j, part |-> "data"], [req |-> j, part |-> "last"]>>

ByLength(j) == ask[j] \in {"upload", "multi"}

\* A success is answered only to an upload whose file is whole, and a file
\* that is not whole belongs to the upload under way (write_body, close_client,
\* parseMultipart with one part).
UploadsWhole ==
    /\ \A j \in Requests \cap 1..Len(answers):
          ByLength(j) /\ answers[j].ok =>
              (\E f \in server.disk: f.req = j) \/ Astray(j)
    /\ \A f \in server.disk:
          ByLength(f.req) =>
              f.data = Content(f.req) \/ server.path = f.req \/ Astray(f.req)

\* No request is answered twice.
OneAnswerEach == Len(answers) <= IF peer.pos = 1 THEN peer.req - 1 ELSE peer.req

\* A request that has been sent whole is answered, or the connection closed.
EachAnswered ==
    \A j \in Requests: peer.req > j ~> Len(answers) >= j \/ ~server.open

-----------------------------------------------------------------------------
(* What documents say and the code does not do *)

\* README.md: POST uploads.  A chunked one is answered with a success when its
\* head comes alone, and its file is empty.
ChunkedStored ==
    \A j \in 1..Len(answers):
        ask[j] = "chunked" /\ answers[j].ok =>
            \E f \in server.disk: f.req = j /\ Len(f.data) = 2

\* README.md: POST uploads.  One by length is refused after a multipart one on
\* the same connection, because clear() keeps MPFlag.
UploadsAccepted ==
    \A j \in 1..Len(answers):
        ByLength(j) => answers[j].ok

\* main.cpp, parseRequest: "invalid header" is a bad request, not the end of
\* the server.
ServerSurvives == server.up

=============================================================================
